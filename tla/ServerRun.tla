------------------------------ MODULE ServerRun ------------------------------
(***************************************************************************)
(* The run slot of Studio's server (pkg/server/server.go): beginRun,       *)
(* applyRunOptions, finishRun, restoreRunOptions, handleStartRun,          *)
(* handleResumeRun, handleStopRun, handlePutConfig.  running and runGen    *)
(* change under s.mu, the shared config under cfgMu, and events are        *)
(* emitted under neither: the steps between them are the model's actions.  *)
(* A run may carry options of its own, which live in the shared config     *)
(* while it lasts.                                                         *)
(***************************************************************************)
EXTENDS Naturals, Sequences, FiniteSets

CONSTANTS
  Base,     \* the option values the user starts with
  Puts,     \* option values the user may save while no run is active
  Overs,    \* option values a run may be started with
  NoOver,   \* a run without options of its own
  MaxRuns   \* bound of the model: runs started

ASSUME OptionsApart == NoOver \notin Overs /\ ({Base} \cup Puts) \cap Overs = {}
ASSUME MaxRunsNat == MaxRuns \in Nat

VARIABLES
  running, stopping, gen,  \* s.running, s.stopping, s.runGen
  canceled,   \* runs whose context is canceled
  cfg, disk,  \* the options in the shared config and in the saved one
  user,       \* the options the user last chose
  run,        \* [runs -> where its handler and then its goroutine is]
  saved,      \* [runs -> savedRunOptions: <<options>>, or <<>> for a resume]
  log,        \* the life cycle events in the order of their numbers: <<kind, run>>
  since,      \* s.runStartSeq
  put,        \* handlePutConfig: "idle", or "checked" past the test of running
  stop,       \* handleStopRun: "idle", "asked", or "marked" with its event to come
  overlap     \* a step fell into another call's gap between two critical sections

slotVars == <<running, stopping, gen, canceled>>
optionVars == <<cfg, disk, user>>
runVars == <<slotVars, optionVars, run, saved, log, since, put, stop, overlap>>

Runs == 1 .. MaxRuns
Options == {Base} \cup Puts \cup Overs

\* A run's calls, in order; "begun" to "started" is the handler, the rest the goroutine.
Stages == {"none", "begun", "applied", "started", "released", "restored", "ended"}

\* The runs that hold the slot, and those that still have something to do.
Holding == {r \in Runs : run[r] \in {"begun", "applied", "started"}}
Unfinished == {r \in Runs : run[r] \notin {"none", "ended"}}

RunTypeOK ==
  /\ {running, stopping, overlap} \subseteq BOOLEAN /\ gen \in 0 .. MaxRuns /\ canceled \subseteq Runs
  /\ {cfg, disk, user} \subseteq Options
  /\ run \in [Runs -> Stages]
  /\ saved \in [Runs -> {<<>>} \cup {<<o>> : o \in Options}]
  /\ log \in Seq({"run_start", "run_end", "run_stop"} \X (0 .. MaxRuns))
  /\ since \in 0 .. Len(log) + 1
  /\ put \in {"idle", "checked"} /\ stop \in {"idle", "asked", "marked"}

RunInit ==
  /\ running = FALSE /\ stopping = FALSE /\ gen = 0 /\ canceled = {}
  /\ cfg = Base /\ disk = Base /\ user = Base
  /\ run = [r \in Runs |-> "none"] /\ saved = [r \in Runs |-> <<>>]
  /\ log = <<>> /\ since = 0 /\ put = "idle" /\ stop = "idle" /\ overlap = FALSE

-----------------------------------------------------------------------------
\* Mutant of Taken: the slot is free as soon as the run was asked to stop.
TakenUntilStop == running /\ ~ stopping

\* beginRun's test: a run that is still unwinding after a stop holds the slot.
Taken == running

\* Mutant of ViewFrom: the number of the last event, not of the next.
ViewFromLast == Len(log)

\* runStartSeq: the number that the run's first event will have.
ViewFrom == Len(log) + 1

\* beginRun: POST /api/runs, or POST /api/runs/resume, which has no options.
Begin(resume) ==
  /\ ~ Taken /\ gen < MaxRuns
  /\ running' = TRUE /\ stopping' = FALSE /\ gen' = gen + 1
  /\ since' = ViewFrom
  /\ run' = [run EXCEPT ![gen + 1] = IF resume THEN "applied" ELSE "begun"]
  /\ overlap' = (overlap \/ Unfinished # {} \/ stop = "marked" \/ put = "checked")
  /\ UNCHANGED <<canceled, optionVars, saved, log, put, stop>>

\* applyRunOptions, under the config lock: keep what is there, then override it.
Apply(r, over) ==
  /\ run[r] = "begun"
  /\ run' = [run EXCEPT ![r] = "applied"]
  /\ saved' = [saved EXCEPT ![r] = <<cfg>>]
  /\ cfg' = IF over = NoOver THEN cfg ELSE over
  /\ UNCHANGED <<slotVars, disk, user, log, since, put, stop, overlap>>

\* run_start is emitted and the goroutine launched.
Launch(r) ==
  /\ run[r] = "applied"
  /\ run' = [run EXCEPT ![r] = "started"]
  /\ log' = Append(log, <<"run_start", r>>)
  /\ UNCHANGED <<slotVars, optionVars, saved, since, put, stop, overlap>>

\* The engine returned, done or canceled: the first section of finishRun.
Release(r) ==
  /\ run[r] = "started"
  /\ IF gen = r
     THEN /\ running' = FALSE /\ stopping' = FALSE /\ canceled' = canceled \cup {r}
          /\ run' = [run EXCEPT ![r] = "released"]
     ELSE /\ run' = [run EXCEPT ![r] = "ended"]
          /\ UNCHANGED <<running, stopping, canceled>>
  /\ UNCHANGED <<gen, optionVars, saved, log, since, put, stop, overlap>>

\* What a run found in the config before it put its own; nothing for a resume.
Kept(r) == IF saved[r] = <<>> THEN cfg ELSE saved[r][1]

\* Mutant of Restore: a run that was stopped leaves its options behind.
RestoreIfDone(r) ==
  /\ run[r] = "released"
  /\ run' = [run EXCEPT ![r] = "restored"]
  /\ cfg' = IF stop = "marked" THEN cfg ELSE Kept(r)
  /\ UNCHANGED <<slotVars, disk, user, saved, log, since, put, stop, overlap>>

\* restoreRunOptions, under the config lock.
Restore(r) ==
  /\ run[r] = "released"
  /\ run' = [run EXCEPT ![r] = "restored"]
  /\ cfg' = Kept(r)
  /\ UNCHANGED <<slotVars, disk, user, saved, log, since, put, stop, overlap>>

\* run_end.
End(r) ==
  /\ run[r] = "restored"
  /\ run' = [run EXCEPT ![r] = "ended"]
  /\ log' = Append(log, <<"run_end", r>>)
  /\ UNCHANGED <<slotVars, optionVars, saved, since, put, stop, overlap>>

-----------------------------------------------------------------------------
\* POST /api/runs/stop: the engine first (Stop cancels the run it is in), then the mark
\* and the context of whatever run holds the slot by then, then the event.
StopEngine ==
  /\ stop = "idle" /\ running
  /\ stop' = "asked"
  /\ canceled' = canceled \cup {r \in Runs : run[r] = "started"}
  /\ UNCHANGED <<running, stopping, gen, optionVars, run, saved, log, since, put, overlap>>

\* Mutant of StopMark: the context is left to the engine's Stop.
StopMarkOnly ==
  /\ stop = "asked"
  /\ stop' = IF running /\ ~ stopping THEN "marked" ELSE "idle"
  /\ stopping' = running
  /\ UNCHANGED <<running, gen, canceled, optionVars, run, saved, log, since, put, overlap>>

StopMark ==
  /\ stop = "asked"
  /\ stop' = IF running /\ ~ stopping THEN "marked" ELSE "idle"
  /\ stopping' = running
  /\ canceled' = IF running THEN canceled \cup {gen} ELSE canceled
  /\ UNCHANGED <<running, gen, optionVars, run, saved, log, since, put, overlap>>

StopEvent ==
  /\ stop = "marked" /\ stop' = "idle"
  /\ log' = Append(log, <<"run_stop", 0>>)
  /\ UNCHANGED <<slotVars, optionVars, run, saved, since, put, overlap>>

\* PUT /api/config, and every handler behind rejectMutationWhileRunning: the test ...
PutCheck ==
  /\ put = "idle" /\ ~ running /\ put' = "checked"
  /\ overlap' = (overlap \/ Unfinished # {})
  /\ UNCHANGED <<slotVars, optionVars, run, saved, log, since, stop>>

\* ... and, in a later section, the change, with the whole shared config saved.
PutWrite(v) ==
  /\ put = "checked" /\ put' = "idle"
  /\ cfg' = v /\ disk' = v /\ user' = v
  /\ UNCHANGED <<slotVars, run, saved, log, since, stop, overlap>>

\* A change of another setting: the options are saved as they are in the config.
PutOther ==
  /\ put = "checked" /\ put' = "idle"
  /\ disk' = cfg
  /\ UNCHANGED <<slotVars, cfg, user, run, saved, log, since, stop, overlap>>

RunNext ==
  \/ \E resume \in BOOLEAN : Begin(resume)
  \/ \E r \in Runs : \/ \E over \in Overs \cup {NoOver} : Apply(r, over)
                     \/ Launch(r) \/ Release(r) \/ Restore(r) \/ End(r)
  \/ StopEngine \/ StopMark \/ StopEvent
  \/ PutCheck \/ PutOther \/ \E v \in Puts : PutWrite(v)

RunSpec == RunInit /\ [][RunNext]_runVars

(***************************************************************************)
(* A handler and the tail of a run's goroutine run to their end.  The      *)
(* engine returns once its context is canceled, so Release is fair then;   *)
(* that an undisturbed run ends is RunBoard's concern, not assumed here.   *)
(***************************************************************************)
RunFairness ==
  /\ \A r \in Runs : /\ WF_runVars(\E over \in Overs \cup {NoOver} : Apply(r, over))
                     /\ WF_runVars(Launch(r)) /\ WF_runVars(Restore(r)) /\ WF_runVars(End(r))
                     /\ WF_runVars(r \in canceled /\ Release(r))
  /\ WF_runVars(StopMark) /\ WF_runVars(StopEvent)

-----------------------------------------------------------------------------
\* server.go:79-84: a run is not started on top of the previous one's engine, stop or
\* no stop: at most one run holds the slot, it is the current generation, and running
\* says so.
OneRunAtATime ==
  /\ running <=> Holding # {}
  /\ \A r \in Holding : r = gen

\* server.go:1114-1116: once no run is under way, the options in force are those the
\* user chose last, however the runs ended, and the saved file never held a run's;
\* calls that fell into the gap of another are set apart.
OptionsComeBack ==
  ~ overlap => (Unfinished = {} => cfg = user) /\ disk = user

\* server.go:1194-1197: what the latest run's view shows is of that run, and its end
\* comes last.
LatestIsItsOwn ==
  ~ overlap => \A i \in DOMAIN log : i >= since =>
                 /\ log[i][2] \in {0, gen}
                 /\ log[i][1] = "run_end" => \A j \in DOMAIN log : j > i => log[j][1] = "run_stop"

\* server.go:2021-2024: a stop is a request that the run it marks does honour:
\* the slot comes free, for the same tab that asked.
StopIsHonoured == stopping ~> ~ running
=============================================================================

-------------------------------- MODULE Hitl --------------------------------
(***************************************************************************)
(* The escalation question: pkg/orchestrator/escalate_ask.go asks it,      *)
(* pkg/hitl/pending.go keeps ask.json and answers.json, and the handlers   *)
(* of pkg/server/server.go show and answer it.  Tasks under review in      *)
(* parallel share the one pair of files; a mutex queues their questions,   *)
(* but the handlers take no lock, and each of their file operations is a   *)
(* step of its own.                                                        *)
(*                                                                         *)
(* A deadline is the number of ticks left.  A tick is a large part of the  *)
(* timeout: a goroutine that does not wait takes none.                     *)
(***************************************************************************)
EXTENDS Naturals

CONSTANTS
  Tasks,    \* tasks that escalate, each in a goroutine of its own
  MaxCalls, \* HTTP calls under way at once, to look at the question or to answer it
  Timeout,  \* escalate_ask_timeout, in ticks
  NoTask

ASSUME TimeoutPositive == Timeout \in Nat \ {0}
ASSUME CallsAreNat == MaxCalls \in Nat
ASSUME NoTaskApart == NoTask \notin Tasks

\* Calls are interchangeable: the first free one is taken.
Calls == 1 .. MaxCalls

VARIABLES
  ask,      \* ask.json: the task it asks about
  answer,   \* answers.json: the task it is for and the deadlines it came after
  esc,      \* [Tasks -> runEscalateAsk: st, created, wait, and the answer read]
  call,     \* [Calls -> the handler: kind, st, and the ask it read]
  halted,   \* the run's context is canceled
  outcome,  \* [Tasks -> how the question ended]
  used,     \* [Tasks -> the task the answer acted on was for]
  posted,   \* tasks whose answer was taken, with 200, before their time was over
  robbed,   \* those whose answer somebody then removed who had not read it
  unread,   \* tasks whose answer in time came after their waiter's last read
  torn      \* tasks whose answer changed between the two reads of it

hitlVars == <<ask, answer, esc, call, halted, outcome, used, posted, robbed, unread, torn>>

NoAnswer == [for |-> NoTask, late |-> {}]
NoCall == [kind |-> "none", st |-> "none", ask |-> NoTask]
NewEsc == [st |-> "none", created |-> Timeout, wait |-> Timeout, read |-> NoTask]

\* The mutex is held, and the question is on the disk.
Asking(t) == esc[t].st \in {"waiting", "read", "stale", "empty", "giving"}
Owners == {t \in Tasks : Asking(t) \/ esc[t].st = "owner"}

SlotTaken == Owners # {}

HitlTypeOK ==
  /\ ask \in Tasks \cup {NoTask} /\ halted \in BOOLEAN
  /\ answer \in [for : Tasks \cup {NoTask}, late : SUBSET (Tasks \X {"created", "wait"})]
  /\ esc \in [Tasks -> [st : {"none", "queued", "owner", "waiting", "read", "stale", "empty", "giving", "done"},
                        created : 0 .. Timeout, wait : 0 .. Timeout, read : Tasks \cup {NoTask}]]
  /\ call \in [Calls -> [kind : {"none", "look", "post"}, st : {"none", "read", "check", "write"},
                         ask : Tasks \cup {NoTask}]]
  /\ outcome \in [Tasks -> {"none", "answered", "timeout", "canceled"}]
  /\ used \in [Tasks -> Tasks \cup {NoTask}]
  /\ robbed \cup unread \subseteq posted /\ posted \cup torn \subseteq Tasks
  /\ \A c \in Calls : call[c].st # "none" => call[c].ask \in Tasks
  /\ \A t, u \in Owners : t = u

HitlInit ==
  /\ ask = NoTask /\ answer = NoAnswer /\ halted = FALSE
  /\ esc = [t \in Tasks |-> NewEsc] /\ call = [c \in Calls |-> NoCall]
  /\ outcome = [t \in Tasks |-> "none"] /\ used = [t \in Tasks |-> NoTask]
  /\ posted = {} /\ robbed = {} /\ unread = {} /\ torn = {}

-----------------------------------------------------------------------------
\* pending.go's file operations.  `own` is whose answer has been read, or is asked for no more.
RemoveAnswer(own) ==
  /\ answer' = NoAnswer
  /\ robbed' = robbed \cup ((posted \cap {answer.for}) \ own)

ClearFiles(own) == ask' = NoTask /\ RemoveAnswer(own)

\* The deadlines that an answer for t written now has missed: t's own, and the waiter's.
Missed(t) ==
  {d \in {t} \X {"created"} : esc[t].created = 0}
    \cup {d \in Tasks \X {"wait"} : Asking(d[1]) /\ esc[d[1]].wait = 0}

-----------------------------------------------------------------------------
\* runEscalateAsk.

\* BuildEscalateAskWithCap stamps CreatedAt; then the goroutine queues on the mutex.
Escalate(t) ==
  /\ esc[t].st = "none"
  /\ esc' = [esc EXCEPT ![t].st = "queued"]
  /\ UNCHANGED <<ask, answer, call, halted, outcome, used, posted, robbed, unread, torn>>

\* The task's decision, and the mutex given back.
Resolve(t, how, whose) ==
  /\ esc' = [esc EXCEPT ![t].st = "done"]
  /\ outcome' = [outcome EXCEPT ![t] = how]
  /\ used' = [used EXCEPT ![t] = whose]

\* The mutex.  A canceled run asks nothing; else WriteAsk first removes old answers ...
TakeSlotFor(t) ==
  /\ esc[t].st = "queued" /\ ~ SlotTaken
  /\ IF halted
     THEN Resolve(t, "canceled", NoTask) /\ UNCHANGED <<answer, robbed>>
     ELSE /\ esc' = [esc EXCEPT ![t].st = "owner"]
          /\ RemoveAnswer(Tasks) /\ UNCHANGED <<outcome, used>>
  /\ UNCHANGED <<ask, call, halted, posted, unread, torn>>

\* ... and then writes the question; WaitAnswersForID sets a deadline of its own.
WriteAsk(t) ==
  /\ esc[t].st = "owner"
  /\ ask' = t
  /\ esc' = [esc EXCEPT ![t].st = "waiting"]
  /\ UNCHANGED <<answer, call, halted, outcome, used, posted, robbed, unread, torn>>

\* ReadAnswers found a file.
ReadAnswer(t) ==
  /\ esc[t].st = "waiting" /\ answer # NoAnswer
  /\ esc' = [esc EXCEPT ![t].st = "read", ![t].read = answer.for]
  /\ UNCHANGED <<ask, answer, call, halted, outcome, used, posted, robbed, unread, torn>>

\* Mutant of Matches: any answer will do.
MatchesAny(t) == answer # NoAnswer

\* answerMatchesAskID, which reads the file again.
Matches(t) == answer.for = t

\* Mutant of ReadNothing: the clock is looked at before the disk.
ReadNothingYet(t) ==
  /\ esc[t].st = "waiting"
  /\ esc' = [esc EXCEPT ![t].st = "empty"]
  /\ UNCHANGED <<ask, answer, call, halted, outcome, used, posted, robbed, unread, torn>>

\* ReadAnswers found none.
ReadNothing(t) ==
  /\ esc[t].st = "waiting" /\ answer = NoAnswer
  /\ esc' = [esc EXCEPT ![t].st = "empty"]
  /\ UNCHANGED <<ask, answer, call, halted, outcome, used, posted, robbed, unread, torn>>

\* What was read is used, unless the file by now came too late or is not for this task.
UseAnswer(t) ==
  /\ esc[t].st = "read"
  /\ IF <<t, "wait">> \in answer.late
     THEN /\ ClearFiles({t}) /\ Resolve(t, "timeout", NoTask) /\ UNCHANGED torn
     ELSE IF Matches(t)
     THEN /\ ClearFiles({t}) /\ Resolve(t, "answered", esc[t].read)
          /\ torn' = IF esc[t].read = answer.for THEN torn ELSE torn \cup {t}
     ELSE /\ esc' = [esc EXCEPT ![t].st = "stale"]
          /\ UNCHANGED <<ask, answer, outcome, used, robbed, torn>>
  /\ UNCHANGED <<call, halted, posted, unread>>

\* Mutant of DropStale: the answer to another question stays, and is read again.
DropStaleNot(t) ==
  /\ esc[t].st = "stale"
  /\ esc' = [esc EXCEPT ![t].st = "waiting"]
  /\ UNCHANGED <<ask, answer, call, halted, outcome, used, posted, robbed, unread, torn>>

DropStale(t) ==
  /\ esc[t].st = "stale"
  /\ esc' = [esc EXCEPT ![t].st = "waiting"]
  /\ RemoveAnswer({})
  /\ UNCHANGED <<ask, call, halted, outcome, used, posted, unread, torn>>

\* The deadline, looked at only after a read that found nothing; else the select, and the
\* next read.
LookAtClock(t) ==
  /\ esc[t].st = "empty"
  /\ IF esc[t].wait = 0
     THEN esc' = [esc EXCEPT ![t].st = "giving"] /\ UNCHANGED unread
     ELSE esc' = [esc EXCEPT ![t].st = "waiting"] /\ unread' = unread \ {t}
  /\ UNCHANGED <<ask, answer, call, halted, outcome, used, posted, robbed, torn>>

\* The deadline is past: Clear, which also takes an answer written since the last read.
GiveUp(t) ==
  /\ esc[t].st = "giving"
  /\ ClearFiles({t}) /\ Resolve(t, "timeout", NoTask)
  /\ UNCHANGED <<call, halted, posted, unread, torn>>

\* The wait ends with the run's context.
WaitCanceled(t) ==
  /\ esc[t].st = "waiting" /\ halted
  /\ ClearFiles(Tasks) /\ Resolve(t, "canceled", NoTask)
  /\ UNCHANGED <<call, halted, posted, unread, torn>>

-----------------------------------------------------------------------------
\* handleEscalatePending and handleEscalateAnswer.

\* ReadAsk, and for an answer requireMatchingAskID: people answer what they see.
CallReads(c, kind) ==
  /\ call[c] = NoCall /\ (\A d \in 1 .. c - 1 : call[d] # NoCall) /\ ask # NoTask
  /\ call' = [call EXCEPT ![c] = [kind |-> kind, st |-> IF kind = "look" THEN "read" ELSE "check", ask |-> ask]]
  /\ UNCHANGED <<ask, answer, esc, halted, outcome, used, posted, robbed, unread, torn>>

\* answeredAskState: an answer to another question than the one read is removed, and one
\* that came after the question's own time ends it.
LookAtAnswer(c) ==
  LET mine == answer.for = call[c].ask
      late == <<call[c].ask, "created">> \in answer.late IN
  /\ call[c].kind = "look" /\ call[c].st = "read"
  /\ call' = [call EXCEPT ![c] = IF mine THEN NoCall ELSE [@ EXCEPT !.st = "check"]]
  /\ IF mine
     THEN IF late THEN ClearFiles({}) ELSE UNCHANGED <<ask, answer, robbed>>
     ELSE RemoveAnswer({}) /\ UNCHANGED ask
  /\ UNCHANGED <<esc, halted, outcome, used, posted, unread, torn>>

\* askExpiredWithFallback: CreatedAt plus the timeout is past.
Expired(t) == esc[t].created = 0

\* The question expired, 410: Clear takes whatever question is on the disk by now.
CallChecks(c) ==
  /\ call[c].st = "check"
  /\ IF Expired(call[c].ask)
     THEN call' = [call EXCEPT ![c] = NoCall] /\ ClearFiles({})
     ELSE /\ call' = [call EXCEPT ![c] = IF @.kind = "look" THEN NoCall ELSE [@ EXCEPT !.st = "write"]]
          /\ UNCHANGED <<ask, answer, robbed>>
  /\ UNCHANGED <<esc, halted, outcome, used, posted, unread, torn>>

\* The answer to t's question comes before its waiter's deadline.
InTime(t) == Asking(t) /\ esc[t].wait > 0

\* WriteAnswersOnce: 200, or 409 over an answer that is there.
CallWrites(c) ==
  /\ call[c].st = "write"
  /\ call' = [call EXCEPT ![c] = NoCall]
  /\ LET t == call[c].ask IN
     IF answer # NoAnswer THEN UNCHANGED <<answer, posted, unread>>
     ELSE /\ answer' = [for |-> t, late |-> Missed(t)]
          /\ posted' = IF InTime(t) THEN posted \cup {t} ELSE posted
          /\ unread' = IF InTime(t) /\ esc[t].st \in {"empty", "giving"} THEN unread \cup {t} ELSE unread
  /\ UNCHANGED <<ask, esc, halted, outcome, used, robbed, torn>>

-----------------------------------------------------------------------------
\* The user stops the run.
Halt ==
  /\ ~ halted /\ halted' = TRUE
  /\ UNCHANGED <<ask, answer, esc, call, outcome, used, posted, robbed, unread, torn>>

\* Time passes, for a question from its CreatedAt and for a wait from its start.
Tick ==
  /\ \A t \in Tasks : esc[t].st # "owner" /\ (esc[t].st = "queued" => SlotTaken)
  /\ esc' = [t \in Tasks |->
       [esc[t] EXCEPT !.created = IF esc[t].st # "none" /\ @ > 0 THEN @ - 1 ELSE @,
                      !.wait = IF Asking(t) /\ @ > 0 THEN @ - 1 ELSE @]]
  /\ esc' # esc
  /\ UNCHANGED <<ask, answer, call, halted, outcome, used, posted, robbed, unread, torn>>

HitlNext ==
  \/ \E t \in Tasks : \/ Escalate(t) \/ TakeSlotFor(t) \/ WriteAsk(t) \/ ReadAnswer(t)
                      \/ UseAnswer(t) \/ DropStale(t) \/ ReadNothing(t) \/ LookAtClock(t)
                      \/ GiveUp(t) \/ WaitCanceled(t)
  \/ \E c \in Calls : \/ \E kind \in {"look", "post"} : CallReads(c, kind)
                      \/ LookAtAnswer(c) \/ CallChecks(c) \/ CallWrites(c)
  \/ Halt \/ Tick

HitlSpec == HitlInit /\ [][HitlNext]_hitlVars

(***************************************************************************)
(* A goroutine that holds the mutex keeps polling, and time passes.  A     *)
(* task asks once, so that in the end the mutex stays free for whoever     *)
(* still waits, and weak fairness is enough.  Nobody has to ask, to look   *)
(* or to answer.                                                           *)
(***************************************************************************)
HitlFairness ==
  /\ WF_hitlVars(Tick)
  /\ \A t \in Tasks :
       /\ WF_hitlVars(TakeSlotFor(t)) /\ WF_hitlVars(WriteAsk(t))
       /\ WF_hitlVars(ReadAnswer(t) \/ UseAnswer(t) \/ DropStale(t) \/ ReadNothing(t)
                        \/ LookAtClock(t) \/ GiveUp(t) \/ WaitCanceled(t))

-----------------------------------------------------------------------------
\* pending.go:313-314 "ignoring stale answers for a different ask_id": a task acts on
\* the answer to its own question, however late an answer to another one is written;
\* only a file that changes between the two reads of it can slip through.
AnswerIsOwn == \A t \in Tasks : outcome[t] = "answered" /\ t \notin torn => used[t] = t

\* An answer that was taken in time is acted on: the task does not go to the timeout's
\* arbitrator.  Two exceptions, in both of which the answer is lost after its 200: a
\* handler or another task's waiter removed the file, and the waiter's own Clear
\* (pending.go:339), when the answer came after its last read and the deadline between
\* that read and its look at the clock.
AnsweredInTime == \A t \in posted \ (robbed \cup unread) : outcome[t] # "timeout"

\* escalate_ask.go:86-91: no escalation waits for ever, be it in the queue, for an
\* answer, or over answers to questions that are gone.  A task asks once: that again and
\* again none is at it is that each ends.
EscalationEnds == []<> \A t \in Tasks : esc[t].st \in {"none", "done"}
=============================================================================

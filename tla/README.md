# Verification of smlcode

smlcode is a harness that lets small language models work on a code base: a
query becomes a board of tasks, waves of agents work on them in one working
tree, each result is reviewed and corrected, and people may move, edit and add
tasks while all of this runs.  This directory holds TLA+ models of its core,
TLC configurations that check them on small instances, and TLAPS proofs.

Paths below are relative to `src/`.

## 1. The system

### Components and what they keep

| component | state | operations | talks to |
|---|---|---|---|
| task board (`pkg/plan/kanban.go`, `deps.go`, `tasks.go`) | tasks with a column, an error and their dependencies; `boardMu` | readiness, propagation of blocked, cycles, add, remove, move | everything below |
| live store (`pkg/plan/store.go`, `pkg/internal/atomicfile`) | a board in memory, `board.json`, a lock | Load, Replace, MergeFromDisk, Snapshot, Update | the runner, Studio, the CLI as another process |
| wave scheduler (`pkg/loop/runner.go`, `progress.go`) | the runner's board, attempts, round counters, signatures, the wave | RunBoard: reload, settle, choose a wave, dispatch, collect, review, finish | store, executor, orchestrator callbacks |
| review ladder (`pkg/loop/runner.go`, `handoff.go`) | per task: correction rounds, verdict | look, judge, correct, hand over, escalate | store, models, people |
| escalation (`pkg/plan/escalate_ask.go`, `pkg/orchestrator/escalate_ask.go`) | the gate-retry count of a task | retry under a cap, mark done, re-scope, abort | people, the arbitrator |
| run gate (`pkg/orchestrator/gate.go`) | a channel of slots | acquire n, release n, give up when canceled | every model call of the run |
| orchestrator (`pkg/orchestrator`) | one turn: phases, coordinator, team gates, resume | run a turn; promote and add tasks after a wave | runner, store, session |
| Studio server (`pkg/server`) | running, stopping, run generation, event ring, saved options | start, stop, finish a run; edit tasks; stream events | store, orchestrator |
| ask/answer handshake (`pkg/hitl`) | ask and answer files, deadlines | ask, answer once, wait, clear | orchestrator, server, CLI |
| workspace (`pkg/workspace`) | path locks, call histories, checkpoints | read, edit and move files; refuse repeats | workers |
| session, rewind (`pkg/session`, `pkg/rewind`) | turns, checkpoints, event logs, file snapshots | interrupt, resume, restore | orchestrator |
| MCP client, backends (`pkg/mcp`, `pkg/backends`) | pending request, reply channel; retry budget | request with timeout, retry, stream | external servers |
| learning (`pkg/memory`, `pkg/evolve`, `pkg/autoresearch`, `pkg/calibrate`) | memories, rules, prompts under trial | recall, repair, keep or revert | orchestrator |
| squads and teams (`pkg/squads`, `pkg/teams`) | lanes, ownership, contracts | assign, repair, gate | planner, runner |

`PROJECT.json` lists every part of the repository, with the reason for those
that are not modelled.

### How they interact, and what is hard

* **The runner and people share a board.**  The runner works on a copy, writes
  it back whole several times a wave (`persist`), and reads the store again at
  the top of a round and at the head of every review attempt.  Studio's handlers
  edit the store at any moment, and the CLI does so from another process.
* **The copy is not always a copy.**  `LiveStore.Replace` keeps the slice it is
  given, so after a `persist` the store's memory and the runner's board are one
  array, guarded by two different locks.  `Snapshot`, `Load` and an `append`
  without room separate them again.
* **Waves are parallel.**  Workers of one wave share a working tree; reviews run
  in parallel and apply their verdicts to one board.
* **Tasks come back for many reasons**: timeouts, transient failures, handoffs,
  gate retries, reclaims, the coordinator, a person.  The loop ends because of
  its bounds, each of which some of those outcomes reset.
* **Anything may be cut**: the user stops the run, the deadline nears, a call is
  canceled, a worker fails.
* **Limits are shared**: the whole run keeps under the concurrency at which the
  model server's throughput collapses.

What makes each part correct: a wave never collides and stands on finished work;
nothing is done that was not approved; a delivered task is reviewed; attempts
are bounded and the loop returns; a board is never handed back with work in
flight; an edit that both sides can see stands on both; a task that was
planned does not disappear; the gate's slots are neither lost nor exceeded.

## 2. Modules

| module | models | read with |
|---|---|---|
| `Semaphore` | abstract: a counting semaphore that takes all of a batch at once | |
| `RunGate` | `pkg/orchestrator/gate.go` | `MCWorkers`, `Workers_proofs` |
| `BoardDeps` | pure: columns, dependency graph, cycles, propagation of blocked, readiness (`pkg/plan/deps.go`, `kanban.go`) | `BoardEdits`, `RunBoard`, `BoardDeps_proofs` |
| `BoardEdits` | the board under add, remove, move and settle | `MCBoards`, `Boards_proofs` |
| `RunBoard` | the wave scheduler with its review ladder, escalation, coordinator, store and Studio's edits (`pkg/loop`) | `MCRunBoard`, `RunBoard_proofs` |
| `LiveStore` | the store at the level of the slices it shares (`pkg/plan/store.go`) | `MCLiveStore`, `MCBoards`, `Boards_proofs` |
| `FinishRun` | one run from its board to its verdict: tester, corrective waves, probes, QA gate, continue question, interrupt and resume (`pkg/orchestrator/resume.go`, `qagate.go`, ...) | `MCTurn`, `FinishRun_proofs` |
| `ServerRun` | the run slot of Studio and the options a run carries (`pkg/server/server.go`) | `MCStudio`, `Studio_proofs` |
| `EventStream` | the event ring, its subscribers and the tab that follows them (`pkg/server/server.go`, `web/src/hooks/useLiveStream.ts`) | `MCStudio`, `Studio_proofs` |
| `Hitl` | the escalation question on disk between tasks, handlers and the clock (`pkg/hitl/pending.go`, `pkg/orchestrator/escalate_ask.go`) | `MCWorkers`, `Workers_proofs` |
| `McpClient` | one stdio client: requests, the pump, deadlines, close (`pkg/mcp/client.go`) | `MCWorkers`, `Workers_proofs` |
| `WorkTree` | the write tools over path locks, backups and the operator's rewind (`pkg/workspace`, `pkg/rewind`) | `MCFiles`, `WorkTree_proofs` |
| `Ratchet` | autoresearch: trials on the user's settings with a durable snapshot (`pkg/autoresearch`) | `MCRatchet`, `MCFiles`, `Ratchet_proofs` |

`MCBoards`, `MCWorkers`, `MCStudio` and `MCFiles` put models that share no
variable into one run: `part`, chosen in the first state, says which of them
takes the steps of a behaviour, the others stay in a first state, and the
fairness assumed is that of the one that runs.  Nothing is learnt from their
combination and nothing is claimed of it; each part is explored in full.

Operators called "Mutant of ..." are the faults with which each property was
tried: none of them is part of a specification.

### RunGate

`slots` is the channel's content, each slot labelled with the caller that put it
there; `held` and `weight` are acquire's local counters and `pc` the caller's
place.  A batch takes its slots one at a time (`TakeSlot`), gives back what it
holds when canceled (`CancelWait`), and runs once it has them all.  The
refinement maps every step but the last slot to a stutter of `Semaphore`.

### BoardDeps and BoardEdits

`BoardDeps` states what `kanban.go` and `deps.go` compute on a map from tasks to
columns: members of a dependency cycle and tasks behind a failure are moved to
blocked, to a fixed point; a task is executable when it is ready and all it
depends on is done.  An ID that is not on the board makes a task wait, not fail.
`BoardEdits` lets the four ways in which a board changes run in any order.

### RunBoard

`board` is the runner's board, `store` is board.json, `shared` says that the
store's memory is the runner's array (else it equals the file).  `pc` is the
place in the loop:

    top -> prepare -> work -> critique -> review -> after -> top ...

* `ReturnCanceled` ... `Schedule` are the branches of the loop's top, from the
  guard to `admitWave`.  They are atomic: the runner's copy is private then, and
  an edit that lands inside is one that lands just after the reload.
* `Collect` is `executeWave` down to `recoverWaveError`, with every partition of
  the workers into delivered, weak (still to be self-critiqued), timed out, cut
  and failed; `StartReview` is `driveCritique` and the choice of `driveReview`.
* `Look`, `Judge`, `Conclude`, `ConcludeAll`, `Answer` are the review ladder,
  one step per place where it meets the store or the board.  `ladder[t]` is
  where t's ladder stands.  Sequential review lets one ladder run at a time.
* `FinishRound` is the rest of the round: attempts forgiven, the coordinator's
  actions, early stop, the stall detector.
* `Patch`, `Retry`, `Post`, `Delete` and `Read` are Studio's handlers; `Stop`
  and `RunwayEnds` the user and the clock.

Abstractions, all of which add behaviour unless noted:

* model calls are choices over their outcomes; wording, logs, models, budgets and
  files' contents are left out;
* a task keeps its column, whether `Error` is set, and its gate retries;
* the progress signature keeps columns and gate retries; the parts that read
  output and disk are the choice `quiet`;
* whether a worker is skipped because disk already satisfies the task is a choice;
* the attempt count stops at `MaxAttempts + 1`;
* a handoff is possible at every escalation: the code also counts them;
* (restriction) a merge is one step, and Studio's append always needs a new
  array and its delete happens only on a memory that is apart: `LiveStore`
  models what happens otherwise;
* (restriction) reads by Studio stop with the last edit, after which they change
  nothing that an edit could still meet;
* (restriction) edits come from Studio only; the whole-board PUT is not modelled.

### LiveStore

Go slices as they are: `heap` holds the (at most two) arrays that anything
refers to, with their capacity; `run` and `mem` are the runner's and the store's
slice, an array and a length.  `Appended` writes in place while there is
room and moves otherwise (`Capacity` is the room an array is made with: the proofs
let it be anything that is enough, the runs take the next power of two).  A merge
cuts the store's slice to nothing and appends its tasks one by one, in any order, as
the code ranges over a map: when there are more than the array holds, its slots are
all written before the slice moves (`Rewritten`, `Overlaid`), and a runner that shares
the array sees them.  `ReadFile` and `Merge` are the two halves of `MergeFromDisk`,
which reads before it locks; of two entries with one ID the last counts.  `took` are
the tasks the runner has copies of: `UpdateTask` writes such a copy where the task is,
or behind the others where it is gone.  `clipped` remembers that a merge wrote more
tasks into the shared array than the runner's slice of it has.  `CliLoad` and
`CliMove` are another process; whichever saves last wins.

### FinishRun

`stage` is the next step of the pipeline and each stage is one action:

    execute -> pretest -> tester [-> corrective -> reverify [-> restaffed]] -> probe
            -> polish -> completeness -> gate [.. lastRound] -> judge -> continue -> complete

* `Execute`, `ExecuteFails`, `MetBetweenWaves` are RunBoard seen from its
  caller: it drains the board, fails, runs out of time, or is stopped by the
  objective probe between two waves.  `RunBoard` shows what a wave may do to a
  board; `AfterWave` is the summary used here (finished work stays finished).
* A strong command's answer is remembered in `last`, with `fresh` saying that
  nothing was written since: an unchanged tree answers the same.  `Wrote` is any
  agent that may have written.
* `GateRound` and `LastRound` are the QA gate with its fix passes, `Judge` what
  its answer clears or promotes, `ContinueWave` what the user's "continue" does.
* `Verdict` is completeRun's classification, `Checkpoint` the interrupt,
  `ResumeRun` a new runner over the checkpointed board, and `Cancel` may fall
  between any two stages.

A task keeps one of five standings (`Columns`): what distinguishes a failure, an
escalation and work that is still owed to an agent.

### ServerRun

A run's calls are `Begin`, `Apply`, `Launch` in its handler and `Release`,
`Restore`, `End` in its goroutine; `running`, `stopping` and `gen` are the slot,
`cfg` the shared configuration, `saved[r]` what the run found in it.  The stop is
three steps (`StopEngine`, `StopMark`, `StopEvent`), a saved setting is a test
and a later write (`PutCheck`, `PutWrite`, `PutOther`).  `overlap` is a history
variable: it records that a step fell into another call's gap between two
critical sections.  Two properties are stated for behaviours without it; section
5 says what happens with it.

### EventStream

An event is its number.  `Emit` is emit's critical section; `Send` and `Flag` are
the sends after it, one subscriber at a time, so sends of two emits interleave.
`Connect`, `Look`, `Receive`, `Heartbeat`, `Leave` are handleSSE's loop and what
its frames do in the tab; `Cut` is the network and `Shutdown` the server's end.
`told`, `unseen` and `overtaken` are history: what a gap frame announced, what left
the ring while the tab had seen nothing, and what a concurrent emit overtook.  The
last two are the exceptions of the two safety properties.  `Restart` is
used by the violation run only.

### Hitl

`ask` and `answer` are the two files: for whom they are, and which deadlines the
answer missed.  `esc[t]` is where t's question stands, from the queue on the
mutex to its decision; `call[c]` is a handler that read the question and has
still to act on it.  Every operation on a file is a step: so are the two reads
of the answer and, for a waiter that finds none, the read, the look at the clock
and the `Clear` that follows (`ReadNothing`, `LookAtClock`, `GiveUp`).  `Tick`
passes a large part of the timeout and only while no goroutine has the mutex to
take or the question to write.  At most `MaxCalls` handlers are under way; they
are interchangeable, so the first free one takes a call.  `posted`, `robbed`, `unread` and `torn`
are history: answers taken in time, and those of them that others removed, that
came after their waiter's last read, or that changed between two reads.

### McpClient

`rq[r]` is where a request stands, `stdin` and `stdout` the pipes, `hand` the
line the pump holds, `lines` the channel to the request that waits.  A line is
the request it answers or `Note`.  The server reads, answers in any order or
never, logs, sends a frame that is too long, or exits; its steps are external.

### WorkTree

`call[c]` is a tool call with its place between `locking` and `done`; `file[p]`
is the set of calls whose text the file holds.  The critical section is as
many steps as it touches the disk: backup, write, syntax check, put back;
rename, or copy, check and remove.  `RewindFile` writes one file of the snapshot
and takes no lock.  Whether a path was read before it is edited is one of the
refusals.

`BackupIfNeeded` is one step per path of the call.  The path counts as seen from
then on, whether a copy was saved, the mark of a missing file, or, over 2,000,000
bytes and on any error, nothing.  `backup` and `absent` are kept by name, and
`NameOf` is any function: `safeCheckpointName` gives `a/b` and `a__b` the same one.
`WriteFails` and `PutBackFails` are an `os.WriteFile` that truncated the file and
wrote any part of the new text; the first is answered as an error, the second as
a success.  A snapshot skips what it cannot read or finds too long; since a rewind
writes its files in any order and may stop, that is a rewind that stops early.

`replaced` and `spoiled` are history: texts that a whole-file write, a delete or a
rewind removed on purpose, and acknowledged texts that a failing write cut off.

### Ratchet

`phase` follows `Run` from `clear` to `stopped`; `disk` and `mem` are the value
of each knob in the files and in memory, `snapshot` the durable copy, `best` and
`baseline` the scores.  A trial is `Propose`, `ApplyChange`, `JudgeTrial` or
`EvaluationFails`, `Revert` or `RevertFails`; `Kill` may come anywhere and
`RestoreLast` between runs.  `found` and `champion` are history: the files when
the run began and the files the best score was measured on.

## 3. Runs

| run | instance | shows |
|---|---|---|
| `Boards` | every board of three tasks, cyclic, dangling and self dependencies included; and a store of two planned tasks that fill their array, a third that may be added, 2 edits, until the first read after a merge that clipped | settling blocks exactly the doomed, takes no runnable task outside a cycle, strands nobody; a planned task is lost, or an ID twice on a board, only after a merge that clipped the runner's slice |
| `RunBoardChain` | 3 tasks: one behind another, one inside another's directory; 3 attempts, 1 gate retry, the program's own stall and idle bounds, guard floor 2 | disjoint waves, the guard never fires, delivered work is reviewed, done is earned |
| `RunBoardPeople` | a task and its missing dependency, 2 edits at any moment | foundations, ceilings, nothing left in flight, idle only over a missing ID, shared memory agrees |
| `RunBoardCoordinated` | one task and another that the coordinator may add, low guard, fairness | `Terminates` |
| `Workers` | gate: 3 slots, batches of 0, 1, 2 and 5 by 3 callers; MCP: 3 requests, pipes and channel of one line, 1 log line; escalation: 2 tasks, 2 handlers' calls, a timeout of one tick | the gate implements `Semaphore` and serves its callers; replies mix only after somebody gave up, and waits end; an answer is its task's own, counts when it was in time, and escalations end |
| `Studio` | stream: 3 events, one a token delta, 2 emits at once, ring and channel of one, 2 connections; slot: 2 runs, own options, a saved setting, stops | what the ring holds is rendered, what left it is announced but for the two exceptions of section 5, and events arrive; one run at a time, options come back, the last view is its own, a stop ends its run |
| `Turn` | 2 tasks, 2 corrective waves (the second may be the restaffed one), 2 gate rounds, 1 resume, every configuration of the gate, canceled anywhere | a red command is no success, a plain success is clean, interrupt marks are real, the run ends |
| `Files` | tools: 2 calls of any kind over 2 paths with one backup name, one of them in the snapshot, 1 rewind, writes and backups that fail; ratchet: 2 knobs of 2 values, 72 possible scores, 3 trials, 2 runs | no acknowledged text is lost but by a write that failed half way, backups are from before the run, calls end; the files are the champion's, guards hold over the run, runs can be undone |
| `LiveStoreVanish` (violation) | 3 tasks in an array of 4, 1 edit | a planned task is lost |
| `StreamRestart` (violation) | 2 events, 1 restart under an open tab | new events are taken for old ones |
| `McpLate` (violation) | as in `Workers` | a late reply answers the next request |
| `TurnNoVerdict` (violation) | as in `Turn` | a canceled gate over a red command ends in success |

### Bounds, and why they are enough

Collisions, dependencies and shared arrays are relations between two tasks; the
third task of `RunBoardChain` gives a wave a choice and a task that is not in it.
Two workers make every order of two ladders.  Three attempts are the program's
default; with one the other instances reach the ceiling in their second wave, at
a tenth of the states.  The idle bound is lowered from 30 to 2 where people
edit, so that idling to its end fits between two edits.  Two edits are the least
that let a person undo the first one, or act on both sides of a reload.  `Boards`
stops at the next read after a merge that clipped (`GoesOn`): its two properties
claim nothing of what comes then.
`GuardFloor` is 20 in the program.  It is 2 in `RunBoardChain`, the least for which
`GuardHasRoom` (section 4) holds of its three tasks; and 1 in `RunBoardCoordinated`, so that runs cut short by the guard are among those that
terminate.

A gate of three slots meets batches below, at and above its size.  Three MCP
requests are one that gives up, one that takes its reply, and one whose own reply
is then left; a channel and pipes of one line fill at once.  Two questions with
two handlers cover a handler that acts for the one question while the other
holds the files; a timeout of one tick lets either deadline come first, since a
question is stamped before it queues.  A ring and a channel of one event
overflow with the second; the token delta is the first event, so that eviction has
a choice.  Two runs are one that ends late and its successor, and one saved
setting is enough to tell the user's options from a run's.  Two gate rounds have
a fix pass between them and one after them; one resume starts the wave budget
anew once.  Two moves over two paths cross, one path in
the snapshot and one not.  Three trials over two knobs of two
values are a keep, a revert and another keep; the scores hold two steps of four
per cent, each within a guard of five and together past it, and a metric nobody
measured.

Symmetry is used for the tasks of `BoardEdits` only: elsewhere tasks differ in
their dependencies and places, and liveness forbids it.  `CHECK_DEADLOCK FALSE`
is given wherever the program really comes to rest: RunBoard returns, the calls,
requests, runs and trials are over.

### Fairness

* `RunBoard!FairSpec`: weak fairness of the runner's steps.  RunBoard is a
  goroutine, and every model call, review and question in it ends by its own
  timeout.  Nothing is assumed of people, the user or the clock.
* `GateFairness`: strong fairness of a caller's next slot (a Go channel serves
  its waiting senders in order), weak fairness of the end of requests and of
  releases; cancellation is not fair.
* `McpFairness`: a select that is ready takes one of its cases, and the deadline
  of a waiting request comes.  Nothing is asked of the server or the pump.
* `HitlFairness`: time passes, the goroutine that holds the mutex keeps polling,
  and a mutex that stays free is taken: a task asks once, so weak fairness is
  enough.  Nobody has to answer.
* `StreamFairness`: emit never blocks, a writer runs until it waits, the ticker
  ticks, and a channel that stays ready is served.
* `RunFairness`: handlers and the tail of a run's goroutine go on; the engine
  returns once its context is canceled.
* `FinishFairness`: the pipeline goes on, since every model call and command has
  its timeout.
* `WorkFairness`: a worker is scheduled, and an open mutex reaches one that waits
  for it.

## 4. Proofs

Every theorem holds for all values of the constants that satisfy the named
assumptions of its model (constants have their types, bounds are numbers,
distinguished values are apart).  The proofs of the models that share a run share
a module, in the order of section 2.

**`BoardDeps_proofs`.**  What `deps.go` computes on a finite set of tasks and any
dependency graph.  `ReachIsBehind`: the Floyd-Warshall fold `Reach` is reachability,
so that `CycleMembersWaitOnThemselves`.  `DoomedIsClosed` and `DoomedIsLeast`: the
iteration of the propagation ends in the least set that holds its seeds and every
ready task that one of its members holds up.  `SettledOnce`: settling a settled
board changes nothing.  `NoCycleIsLeft` and `IdleForAReason` say what a settled board
still waits for.  These are facts about a fold and an iteration, hence inductions,
which the prover cannot take an operator for; they are done on sets: of all
counterexamples, which are subsets of a finite set (`MinimalSubset`) or numbers
(`LeastNat`), take a least one, and make a smaller one of it.  The fold over s
reaches what `Via(s)` holds, the least set that carries the paths whose inner nodes
are in s, and `ViaStep` adds a node to s; the rounds of the propagation exist
(`RoundsOf`), grow, and stop growing before there are as many as tasks.

**`Boards_proofs`, settling.**  `NothingStranded`, `OnlyForCause` and `RunnableStays`
follow from those facts alone: the sets that `BoardEdits` refers to are closed in the
sense of `DoomedIsLeast`, so what is blocked lies in them, and the other way round.

**`Boards_proofs`, the store.**  `StoreTypeCorrect` holds without end: no slice is
longer than its array and none shows a slot that was not written, also where a merge
overwrites an array that the runner shares.  What the copies hold is said by `Clean`,
which lasts until a merge clips (`StoreInv` is `StoreTypeOK` with `clipped` or
`Clean`): each of the copies (two memories, the file, what a merge and what another
process has read) holds all that was planned, an ID once, and no others than may be
added; where both slices lie in one array the runner's is not the longer one, so that
a write into spare room is never a write into the runner's tasks; and the runner has
copies only of tasks on its board, so that `UpdateTask` appends nothing.  A merge over
the shared array has at least the tasks of the store's slice; if it has no more than
the runner's, the two are equally long and the runner sees the merged board.  Hence
`TwinsTakeAClip` and `LossTakesAClip`, for every plan and every `Capacity`.  The
exception is real: `LiveStoreVanish` violates the statement without it.  Where nobody
adds a task no merge can clip, which is `PlannedStayUnlessAdded`.

**`Workers_proofs`, the gate.**  For every `max_parallel` and every batch size the work in
flight stays within the knee (`KneeIsRespected`), and the gate implements
`Semaphore` (`GateImplementsSemaphore`).  The invariant adds to the types that
the channel holds exactly the slots the callers' counters say they own, and that
a counter agrees with its caller's place: the knee follows because the requests
in flight are slots of the channel.

**`RunBoard_proofs`.**  `BoardTypeCorrect`, `WavesNeverCollide`,
`WavesStandOnDoneWork`, `AttemptCeilingHolds`, `SharedEditsStand` (while the
memory is the runner's board, edits outside the wave are in both), and
`DoneIsEarned` (a task becomes done only by its verdict, an answer, a person).
The inductive invariant `IInv` is `TypeOK` with `Kept`: the invariants above and
`WaveInv`, that ladders run on tasks of the wave only, and only while something
is reviewed, and that no task of a wave depends on another one.  It is needed
because the step that could break a wave property is a ladder's, several actions
after the wave was chosen: a verdict is written to a task of the wave, and only
because no dependency is in the wave does it leave all of them done.
`KeptOutside`, `KeptInside`, `KeptWritten`, `KeptByOthers` carry that argument
once; each action then has one lemma.  `NothingIsLeftInFlight` rests on `EndInv`: a
result is set with the return, and between the workers and the
reviews no ladder climbs.  `IdleMeansDangling` combines the branch of the loop that
gives up with `IdleForAReason` of `BoardDeps_proofs`: on a settled board where
nothing is ready, in flight or in the human backlog, a task that is left
ready waits for an ID nobody has.

`OnlyErrorsEscapeReview` holds for any people and any coordinator: what a round
leaves in review is a task that still carries the `Error` of an earlier wave.  Its
`ReviewInv` follows a delivered task to the end of its wave: one in review is one
whose ladder has still to look or to write, was taken away by a person, or has an
`Error`.  `DeliveriesAreReviewed` removes the exception where there is neither a
coordinator nor an edit: `QuietInv` says that then only tasks in blocked and to_scope
carry an `Error`, hence none that is dispatched.  With either of them the exception is
real, see section 5.  That `Collect` partitions the workers is a fact about five
cardinalities (`OneOutcomeEach`).

`GuardIsABackstop` (`progress.go:62-65`) proves `GuardNeverFires` for every plan for
which `GuardHasRoom` holds, when neither a coordinator nor people reopen work.  With
the program's values (floor 20, ceiling 200, 3 attempts, 3 idle rounds for people and
30 for agents) these are the plans of up to 48 tasks on which nobody waits for an
unknown ID (`Complete`), and of 12 to 42 tasks otherwise.  The argument counts rounds
without a sum: `Spent` is the set of pairs of a task and an attempt that is used up,
where a task that is done has used up all of its own, and `CountInv` bounds the rounds
by its size, the idle rounds and one reclaim.  A wave adds at least one pair for each of
its tasks (`RoundSchedule`), also when `runner.go` forgives the attempts of a task
that is done (`RoundEnds`), because nothing makes it ready again; a parked task stays
parked (`ParkInv`); an idle run has frozen the file, so nothing is scheduled or
reclaimed between two idle rounds (`PatienceInv`), and only a dangling ID makes it wait
for agents (`IdleIsDangling`); and there is one reclaim because a wave leaves nothing
in flight (`LandInv`, which follows each task of the wave to where its ladder or its
worker puts it, and rests on `QuietInv` for what is not reviewed).

**`Studio_proofs`, the run slot.**  `RunTypeCorrect`, `OneRunHoldsTheSlot`,
`OptionsReturn`, `TheViewIsTheRuns`.  `SlotInv` adds to the slot property that runs above the
generation have not begun and kept nothing.  `OptionsInv` says where the user's
options are while a run carries its own: in what that run kept.  `ViewInv` says
that only the current generation has something to do, so an end in the view is
its own and nothing of a run follows it.

**`Studio_proofs`, the stream.**  `TheRingIsRendered` and `WhatRolledPastIsTold`, for
any number of emits at once, of connections, and of slots in the ring and in the
channels.  `StreamInv` says of every event that the two properties
speak of (`Relevant`: in the ring, or rolled out of it under a tab that could ask for it) how the open
connection stands to it (`WayInv`): what is at or below the tab's number is
accounted for, and what is above it (`Ahead`) is in the channel, or with an emit that
has still to send or flag it (`Owed`), or left to the resynchronisation that a flag or
a reconnect brings, and the channel is in order but for what was overtaken.  A gap
frame accounts for what a resynchronisation no longer finds in the ring, which needs
`RingInv`: numbers grow along the ring and what rolled out is older than all it holds.

**`Workers_proofs`, the escalation.**  `AskTypeCorrect`, `TasksUseTheirAnswer`,
`TimelyAnswersCount`.  The last rests on `InTimeInv`: an answer taken in time and
not removed by others is either still in the file, for the task that waits and
not late, or its task has settled with it; if that task is between a read and the
clock, or timed out, then the answer came after its last read.  `Open` adds that
an unsettled task has no outcome.

**`FinishRun_proofs`.**  `TurnTypeCorrect`; `MarksAreReal`, with `EndInv` (marks
and results belong to an ended run); `PlainSuccessIsClean`, by cases over the
verdict; and `RedNeverSucceeds`, whose `RedInv` follows a red answer through the
stages: unless something is written, it leaves the run rejected, or red, or with
the gate still to come.

**`WorkTree_proofs`.**  `WorkTypeCorrect`, `BackupsAreOriginal` and
`AcknowledgedEditsStay`, for any naming of the backups.  `BackupInv` is needed
because a backup is a copy of the file at some moment: a path not yet seen has its
original file (`FilesWait`) and snapshot (`SnapshotsWait`), a call that is about to
write has its paths seen (`WritersAreBacked`), and a rewind writes nothing else.
So the theorem says that what was saved is original, not that something was
saved.  `LostInv`
follows the text of an acknowledged edit: it lives in a file that nobody works on
without having read it (`LivesAt`), or a whole-file write may still put it back
(`HeldBy`).  That rests on `LocksInv`, a call that has read holds its paths until
it has answered, and on `OwnTextInv` and `CopyInv`: what a call left on disk is
there still, unless a rewind replaced it.  A failing write (`TornTexts`) keeps what
it did not cut off, and the rest is in `spoiled`.

**`Ratchet_proofs`.**  `RatchetTypeCorrect`, `SurfaceStaysChampion`,
`RunsAreUndoable`, `StepsDoNotDrift`.  `TrialInv` describes the middle of a trial:
the files are the champion's but for the knob under trial, whose old value the
trial knows.  `SnapshotInv` says in which phases the snapshot is what the run
found; `DriftInv` that the champion is guarded against the baseline itself.

**`Workers_proofs`, the MCP client.**  `McpTypeCorrect`, with `PipeInv` (a server that runs has
room for what it prints), and `RepliesMixOnlyAfterGivingUp`.  `MixInv` follows a
reply through its five places (`OnePlace`): it is in one of them at most, a
request that was not written has none (`QueuesInv`), one request writes and waits
at a time (`LockInv`), and a reply under way whose request is over means that
somebody gave up (`ReplyInv`): either that request, or one further up the chain
of replies that were handed on.

### What is only model-checked

* Liveness and the fairness under it: `Terminates`, `WaiterServed`, `WaitEnds`,
  `EscalationEnds`, `EventsArrive`, `StopIsHonoured`, `RunEnds`, `ToolCallsEnd`.
  Liveness and ENABLED are beyond the prover.
* Where the round guard does fire: runs with a coordinator or with edits, and plans
  outside `GuardHasRoom` (section 5 names one).  `GuardIsABackstop` says nothing of
  them.

## 5. Where code and words differ

The four violation runs:

* `LiveStoreVanish`: an append in the spare room of the shared array and a merge
  take a planned task off the runner's board; its next persist deletes it
  (`plan/store.go:87`).  Without spare room the same is lost to a merge that is longer
  than the shared array, which fills all its slots before it leaves it
  (`store.go:122-125`); `Boards` reaches it and marks it `clipped`.  After either, the
  runner may append the copy it has of the missing task over the store's tasks, and an
  ID is on a board twice.
* `StreamRestart`: after a restart of the server its events are numbered from 1
  again, and the tab that stayed open takes them for seen
  (`useLiveStream.ts:22-24` says that it resumes).
* `McpLate`: a reply that comes after its request gave up answers the next
  request (`client.go:676` "until a matching result").
* `TurnNoVerdict`: a canceled gate counts as not failed, clears the soft rejection
  and lets the run end in success over a red command (`qagate.go:1020-1022`).

Seen while modelling, without a run of their own.  Where a property is stated
around one of them, the exception is in its text.

*Board and store*

* Runnable members of a cycle are blocked although `deps.go:21-22` speaks of tasks
  that can never run; `RunnableKeepsItsPlace` therefore excepts cycles.
* `persist` overwrites edits that the runner has not read (`runner.go:370-371` and
  `store.go:14` promise that people may edit): after a retry, an added task or a
  mere GET the store's memory is no longer the runner's.
* A review ladder reads the store at the head of an attempt (`runner.go:2466`) and
  leaves a task that a person has taken away by then; what the person does after that
  look is overwritten by the verdict.
* `MergeFromDisk` reads before it locks (`store.go:97`) and takes back an edit
  saved in between.
* A promoted task that still has its `Error` is delivered and not reviewed
  (`runner.go:1604`, `2738`).
* On a one-task board that waits for an unknown ID the guard fires before the idle
  bound (25 rounds against 31; `progress.go:63-65`), and the guard alone stops a
  coordinator that keeps promoting done work.  With one slot it also ends a plan of
  201 tasks that all succeed: it never allows more than 200 rounds.
* RunBoard returns without saving what its last settling blocked.

*Pipeline*

* The tester's word is taken after a corrective wave, and a continue wave is not
  tested again (`resume.go:278`).
* A stop for lack of time licenses success over work not executed
  (`resume.go:608-609`); the verdict's text says so.
* The baseline is not probed again on Resume.
* An error whose text reads like a cancellation, in a wave that nobody canceled,
  makes the run return an error and no mark.

*Studio*

* finishRun frees the slot before it restores the options (`server.go:1114-1116`):
  a run that begins in between leaks its own, and late ends and stops appear in
  its successor's view.  `overlap` marks those behaviours.
* A stop aimed at one run may cancel the next one; `runWG.Add` comes after
  `beginRun`, which does not look at `closed`.
* An event whose channel was full and whose flag is stored after the writer has
  taken a later one is lost to the tab, and so is the lower of two numbers whose
  sends pass each other (`overtaken`).
* `bufferSince` announces no gap to a tab that has seen nothing (`server.go:2231`): a
  new tab whose channel overflows before its first event, and one that reconnects from
  number 0, lose events without a word (`unseen`), although `server.go:2086-2089` and
  `272` say that nothing is lost silently.
* A send may meet a channel that Shutdown has closed, which ends the process
  (`crashed`).

*Escalation*

* `CreatedAt` is stamped before the mutex (`escalate_ask.go:87-88`): a question may
  be expired for the handlers when it is first shown.
* A handler that read question A may clear question B or remove its answer; the
  branch for an expired question clears an answer that was accepted; the waiter
  reads the answer twice.
* The waiter looks at the clock after its read and then clears (`pending.go:323-341`):
  an answer accepted with 200 between the two, in time, is deleted by the waiter it
  was for, and the question ends as a timeout.  `AnsweredInTime` names the case;
  `unread` holds it.

*Tools, rewind, ratchet, MCP*

* A rewind is neither gated nor locked and may stop half way.
* The tools write in place (`syntax.go:181`, `201`, `211`, `tools.go:1398`): on a full
  disk a file that held acknowledged edits is cut off, and when putting back fails
  the call is answered as a success with a note.  `NoEditLost` names the case.
* A file over 2,000,000 bytes, or one that cannot be read or copied, counts as
  backed up without a backup (`checkpoint.go:52-66`).  `a/b` and `a__b` share one
  backup: `Restore` may write one file's text into the other.  `BackupIsFirst`
  therefore speaks of some path of the name.
* `seen` lives in the process: after a restart a path is backed up again, and its
  `.absent` marker may stand beside a backup.  Locks are by spelling of the path.
* An empty file is snapshotted as a missing one; a rewind removes it.
* The write to the server's stdin happens under the client's mutex and before the
  deadline starts (`client.go`): a server that reads nothing blocks every caller
  until it ends.  `WaitEnds` speaks of requests that were written.
* `ratchet.go:86` says a canceled run's surface was restored to its pre-run state;
  changes kept so far stay.  An edit to a settings file during an evaluation is
  lost by the revert; the next run overwrites the only snapshot; a metric the
  baseline does not know is guarded step by step only.
* The loop guard never refuses calls that alternate (X, Y, X, Y), each failing,
  although `loopguard.go:246-249` says the exact call that failed stays refused;
  and a call in flight across `ResetTask` lands in the fresh history.

## 6. Not modelled, and why

`PROJECT.json` names the reason for each part.  In short:

* prompts, parsing, scoring, retrieval, memory, calibration, configuration,
  front end and command line are text, data or I/O without state that
  several steps share: most of the repository's lines;
* `backends/retry.go` is one sequential call; `loopguard.go` an automaton over
  strings private to one task; `squads` and `teams` filter the board by text.

Left out of components that are modelled:

* `RunBoard`: the count of handoffs, the order of gates inside one review, the
  whole-board PUT, the corrective re-entry (its budget and effect are in
  `FinishRun`);
* `LiveStore`: deletions, failing writes, OnChange, a crash (the file is replaced
  by rename: the old or the new one remains);
* `FinishRun`: verdicts that read renamed files, the speculative tester, errors of
  the tester's phase that return without a checkpoint, team acceptance and squad
  integration, regression checks, memory distillation;
* `ServerRun`, `EventStream`: chat, read-only handlers, authentication;
* `Hitl`: the plan and continue questions (the same files, one at a time), per-ID
  asks, the terminal, ClearAll, modes off and auto, read errors;
* `WorkTree`: the shell, symlinks, a restart of the process, what the read ledger
  holds, the self-healing restore of a backup (`selfheal.go`);
* `Ratchet`: the journal, BEST.md, the choice among untried values.

What could follow: an abstract store of which `RunBoard`'s `shared` and `store`
are the view and `LiveStore` the implementation; team gates as further waves of
`FinishRun`.

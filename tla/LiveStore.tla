----------------------------- MODULE LiveStore -----------------------------
(***************************************************************************)
(* pkg/plan/store.go: the board shared by the agent loop, Studio and the   *)
(* CLI.  A board's tasks are a Go slice: a length over an array that other *)
(* slices may share.  Replace keeps the caller's slice and Update and      *)
(* MergeFromDisk write it in place, so the model keeps the arrays: `heap`  *)
(* holds the two that anything refers to, `run` and `mem` are the runner's *)
(* and the store's slices.  MergeFromDisk reads the file before it takes   *)
(* the lock; every other operation is one critical section.  Another       *)
(* process (slmcode task ...) has a store of its own.                      *)
(***************************************************************************)
EXTENDS SequencesExt

CONSTANTS
  Ids,      \* task IDs
  Plan,     \* the IDs planned, in order
  Cols,     \* columns people and the runner move tasks to
  Adds,     \* IDs that Studio may add during the run
  Moves,    \* IDs that people may move during the run
  Works,    \* IDs that the runner moves during the run
  MaxEdits, \* bound of the model: edits people make
  MaxTasks, \* bound of the model: entries of a board
  Capacity(_) \* of the array that Go's append and encoding/json put n tasks in

ASSUME PlanType == Plan \in Seq(Ids) /\ IsInjective(Plan)
ASSUME CapacityHolds == \A n \in 0 .. MaxTasks : Capacity(n) \in Nat /\ Capacity(n) >= n
ASSUME EditsType == IsFiniteSet(Ids) /\ Adds \subseteq Ids /\ Moves \subseteq Ids /\ Works \subseteq Ids /\ MaxEdits \in Nat
ASSUME TasksBound == MaxTasks \in Nat /\ Cardinality(Ids) <= MaxTasks

VARIABLES
  heap,    \* [1 .. 2 -> sequences of slots]: the arrays, as long as their capacity
  run,     \* the runner's slice: [at, len]
  mem,     \* the store's slice
  disk,    \* board.json
  pc,      \* the runner: "top" or "wave"
  read,    \* <<f>> once the runner or a ladder has read f for its merge, else <<>>
  cli,     \* <<f>> once the other process has loaded f, else <<>>
  edits,
  took,    \* the IDs of the runner's last Snapshot: it has copies of these tasks
  clipped  \* history: a merge wrote more tasks than the runner's slice of the array has

storeVars == <<heap, run, mem, disk, pc, read, cli, edits, took, clipped>>

Task == [id : Ids, col : Cols]
Unused == [id |-> "", col |-> ""]
Slice == [at : 1 .. 2, len : 0 .. MaxTasks]

-----------------------------------------------------------------------------
\* Slices.

Content(h, s) == SubSeq(h[s.at], 1, s.len)

Padded(f) == [i \in 1 .. Capacity(Len(f)) |-> IF i <= Len(f) THEN f[i] ELSE Unused]

\* The array a new one may take: not the one the other slice is on.
Fresh(other) == 3 - other.at

\* Mutant of Grown: the copy stops one short.
GrownShort(f) == Padded([f EXCEPT ![Len(f) - 1] = f[Len(f)]])

\* append to a full array: everything moves to a larger one.
Grown(f) == Padded(f)

\* append to the slice s beside the other one: in place where the array has room.
Appended(h, s, other, x) ==
  IF s.len < Len(h[s.at])
  THEN <<[h EXCEPT ![s.at][s.len + 1] = x], [s EXCEPT !.len = @ + 1]>>
  ELSE <<[h EXCEPT ![Fresh(other)] = Grown(Append(Content(h, s), x))], [at |-> Fresh(other), len |-> s.len + 1]>>

Named(f) == {f[k].id : k \in DOMAIN f}
Has(f, i) == \E k \in DOMAIN f : f[k].id = i
Ix(f, i) == SelectInSeq(f, LAMBDA x : x.id = i)
Col(f, i) == f[Ix(f, i)].col

\* Every order a range over byID may yield; of two entries with one ID the last counts.
MapOrders(T) == {f \in [1 .. Cardinality(T) -> T] : IsInjective(f)}
Latest(f) == {f[k] : k \in {j \in DOMAIN f : \A l \in DOMAIN f : l > j => f[l].id # f[j].id}}
Merges(old, new) == MapOrders(Latest(new) \cup {x \in Latest(old) : ~ Has(new, x.id)})

-----------------------------------------------------------------------------
\* A board read from the file: at most one is waited with.
IsRead(r) == r \in Seq(Seq(Task)) /\ Len(r) <= 1 /\ \A k \in DOMAIN r : Len(r[k]) <= MaxTasks

StoreTypeOK ==
  /\ heap \in [1 .. 2 -> Seq(Task \cup {Unused})]
  /\ run \in Slice /\ mem \in Slice
  /\ \A s \in {run, mem} : s.len <= Len(heap[s.at]) /\ Content(heap, s) \in Seq(Task)
  /\ disk \in Seq(Task) /\ Len(disk) <= MaxTasks
  /\ pc \in {"top", "wave"}
  /\ IsRead(read) /\ IsRead(cli)
  /\ edits \in 0 .. MaxEdits /\ took \subseteq Ids /\ clipped \in BOOLEAN

\* The board was planned and saved, and the runner was handed a Snapshot of it.
StoreInit ==
  \E c \in Cols :
    LET f == [k \in DOMAIN Plan |-> [id |-> Plan[k], col |-> c]] IN
    /\ heap = [a \in 1 .. 2 |-> Padded(f)]
    /\ run = [at |-> 1, len |-> Len(f)] /\ mem = [at |-> 2, len |-> Len(f)]
    /\ disk = f
    /\ pc = "top" /\ read = <<>> /\ cli = <<>> /\ edits = 0
    /\ took = Named(f) /\ clipped = FALSE

-----------------------------------------------------------------------------
\* The runner.

\* MergeFromDisk's read, with no lock held: at the top of a round or in a ladder.
ReadFile ==
  /\ read = <<>>
  /\ read' = <<disk>>
  /\ UNCHANGED <<heap, run, mem, disk, pc, cli, edits, took, clipped>>

\* Mutant of Rewritten: the old tasks are not cut off first.
RewrittenAfter(h, s, other, f) ==
  LET g == Content(h, s) \o f
  IN <<[h EXCEPT ![Fresh(other)] = Padded(g)], [at |-> Fresh(other), len |-> Len(g)]>>

\* The tasks of f in an array, as far as it goes.
Overlaid(a, f) == [i \in DOMAIN a |-> IF i <= Len(f) THEN f[i] ELSE a[i]]

\* s[:0] and then append, task by task: in place while there is room, and where there is
\* not, the array is full of new tasks when the slice leaves it.
Rewritten(h, s, other, f) ==
  LET g == [h EXCEPT ![s.at] = Overlaid(@, f)] IN
  IF Len(f) <= Len(h[s.at])
  THEN <<g, [s EXCEPT !.len = Len(f)]>>
  ELSE <<[g EXCEPT ![Fresh(other)] = Padded(f)], [at |-> Fresh(other), len |-> Len(f)]>>

\* The rest of MergeFromDisk: the file as read wins, the whole is saved.  At the
\* top of a round the runner then takes a Snapshot.
Merge ==
  /\ read # <<>>
  /\ \E f \in Merges(Content(heap, mem), read[1]) :
       LET new == Rewritten(heap, mem, run, f) IN
       /\ disk' = f
       /\ mem' = new[2]
       /\ clipped' = (clipped \/ (pc = "wave" /\ run.at = mem.at /\ Len(f) > run.len))
       /\ IF pc = "top"
          THEN /\ run' = [at |-> Fresh(new[2]), len |-> Len(f)]
               /\ heap' = [new[1] EXCEPT ![run'.at] = Padded(f)]
               /\ pc' = "wave" /\ took' = Named(f)
          ELSE heap' = new[1] /\ UNCHANGED <<run, pc, took>>
  /\ read' = <<>>
  /\ UNCHANGED <<cli, edits>>

\* Board.UpdateTask on the runner's board, with the copy of a task that the runner has: in
\* place, or behind the others when it is no longer there.
UpdateTask(i, c) ==
  /\ pc = "wave"
  /\ \/ /\ Has(Content(heap, run), i) /\ Col(Content(heap, run), i) # c
        /\ heap' = [heap EXCEPT ![run.at][Ix(Content(heap, run), i)].col = c]
        /\ UNCHANGED run
     \/ /\ ~ Has(Content(heap, run), i) /\ i \in took /\ run.len < MaxTasks
        /\ LET new == Appended(heap, run, mem, [id |-> i, col |-> c]) IN heap' = new[1] /\ run' = new[2]
  /\ UNCHANGED <<mem, disk, pc, read, cli, edits, took, clipped>>

\* Replace: the store takes the runner's slice and saves it; nothing refers to the
\* other array.  The last persist of a wave goes back to the top.
Persist(next) ==
  /\ pc = "wave" /\ (next = "top" => read = <<>>)
  /\ mem' = run /\ disk' = Content(heap, run)
  /\ heap' = [heap EXCEPT ![Fresh(run)] = <<>>]
  /\ pc' = next
  /\ UNCHANGED <<run, read, cli, edits, took, clipped>>

Runner ==
  \/ (pc = "top" \/ pc = "wave") /\ ReadFile
  \/ Merge
  \/ \E i \in Works, c \in Cols : UpdateTask(i, c)
  \/ Persist("wave") \/ Persist("top")

-----------------------------------------------------------------------------
\* Studio, in the runner's process.

\* Load (handleGetTasks, handleGetBoard): the file, in an array of its own.
Load ==
  /\ mem' = [at |-> Fresh(run), len |-> Len(disk)]
  /\ heap' = [heap EXCEPT ![mem'.at] = Padded(disk)]
  /\ UNCHANGED <<run, disk, pc, read, cli, edits, took, clipped>>

Edit == edits < MaxEdits /\ edits' = edits + 1

\* saveLocked.
Save(h, s) == disk' = Content(h, s)

\* handlePatchTask: in place.
Patch(i, c) ==
  /\ Edit
  /\ Has(Content(heap, mem), i) /\ Col(Content(heap, mem), i) # c
  /\ heap' = [heap EXCEPT ![mem.at][Ix(Content(heap, mem), i)].col = c]
  /\ Save(heap', mem)
  /\ UNCHANGED <<run, mem, pc, read, cli, took, clipped>>

\* handleAddTask: append.
Post(i, c) ==
  /\ Edit /\ ~ Has(Content(heap, mem), i) /\ mem.len < MaxTasks
  /\ LET new == Appended(heap, mem, run, [id |-> i, col |-> c]) IN heap' = new[1] /\ mem' = new[2]
  /\ Save(heap', mem')
  /\ UNCHANGED <<run, pc, read, cli, took, clipped>>

\* Another process: load the file, change one task, write the whole back.
CliLoad ==
  /\ cli = <<>> /\ edits < MaxEdits
  /\ cli' = <<disk>>
  /\ UNCHANGED <<heap, run, mem, disk, pc, read, edits, took, clipped>>

CliMove(i, c) ==
  /\ Edit /\ cli # <<>>
  /\ Has(cli[1], i) /\ Col(cli[1], i) # c
  /\ disk' = [cli[1] EXCEPT ![Ix(cli[1], i)].col = c]
  /\ cli' = <<>>
  /\ UNCHANGED <<heap, run, mem, pc, read, took, clipped>>

People ==
  \/ Load
  \/ \E i \in Moves, c \in Cols : Patch(i, c) \/ CliMove(i, c)
  \/ \E i \in Adds, c \in Cols : Post(i, c)
  \/ Moves # {} /\ CliLoad

StoreNext == Runner \/ People
StoreSpec == StoreInit /\ [][StoreNext]_storeVars

-----------------------------------------------------------------------------
\* store.go:13-14: while people add and move tasks, no task that was planned and
\* that nobody deleted leaves the file or the runner's board.
PlannedTasksStay ==
  \A k \in DOMAIN Plan : Has(disk, Plan[k]) /\ Has(Content(heap, run), Plan[k])

\* tasks.go:260-263: an ID is on a board once.
NoTwins ==
  \A f \in {disk, Content(heap, run), Content(heap, mem)} :
    \A j, k \in DOMAIN f : f[j].id = f[k].id => j = k

(* There is one way to lose a planned task, whoever overwrites whom: a      *)
(* ladder's merge writes more tasks into the array it shares with the       *)
(* runner's board than that board's slice covers (store.go:87, 122-125).    *)
(* Edits behind the runner's back, stale copies of another process, reloads *)
(* and arrays that move do not.                                             *)
OnlyClippingLoses == clipped \/ PlannedTasksStay

(* And it takes the same for an ID to be on a board twice: the runner then  *)
(* appends the task it misses, in the array the store has it in.            *)
OnlyClippingDoubles == clipped \/ NoTwins
=============================================================================

---------------------------- MODULE BoardEdits -----------------------------
(***************************************************************************)
(* A board that planners, people and agents change one task at a time, and *)
(* that the scheduler settles whenever it asks what is executable.         *)
(***************************************************************************)
EXTENDS BoardDeps

VARIABLES col, deps
editsVars == <<col, deps>>

EditsTypeOK == /\ col \in [Tasks -> Columns]
          /\ deps \in [Tasks -> SUBSET Tasks]

\* LiveStore starts with no task.
EditsInit == /\ col = [t \in Tasks |-> "absent"]
        /\ deps = [t \in Tasks |-> {}]

\* A planned or posted task arrives in the backlog or ready, with dependencies
\* on any IDs: later tasks, itself, or tasks that are never added.
AddTask(t, c, ds) ==
  /\ col[t] = "absent"
  /\ col' = [col EXCEPT ![t] = c]
  /\ deps' = [deps EXCEPT ![t] = ds]

\* RemoveTask leaves the other tasks' depends_on pointing at the removed ID.
RemoveTask(t) ==
  /\ col[t] # "absent"
  /\ col' = [col EXCEPT ![t] = "absent"]
  /\ deps' = [deps EXCEPT ![t] = {}]

\* Task.MoveTo, by an agent or by a person on the kanban board.
MoveTo(t, c) ==
  /\ col[t] \notin {"absent", c}
  /\ col' = [col EXCEPT ![t] = c]
  /\ UNCHANGED deps

\* Board.ExecutableTasks settles the board before it answers.
Settle ==
  /\ col' = PropagateBlocked(col, deps)
  /\ UNCHANGED deps

EditsNext ==
  \/ \E t \in Tasks, c \in {"to_scope", "ready_to_dev"}, ds \in SUBSET Tasks :
       AddTask(t, c, ds)
  \/ \E t \in Tasks : RemoveTask(t)
  \/ \E t \in Tasks, c \in Columns \ {"absent"} : MoveTo(t, c)
  \/ Settle

EditsSpec == EditsInit /\ [][EditsNext]_editsVars

-----------------------------------------------------------------------------
Settled == PropagateBlocked(col, deps)

\* A task somebody still owns may yet be done: it is in flight, in the human
\* backlog, or an ID that is not on the board and may be added.
Live == {t \in Tasks : col[t] \in InFlightCols \cup Human \cup {"absent"}}

\* Reference, by its definition as a least set: the tasks that may yet be done
\* when a ready task runs once its dependencies are done.
Closed(S) ==
  /\ Live \cup {t \in Tasks : col[t] = "done"} \subseteq S
  /\ \A t \in Tasks : col[t] = "ready_to_dev" /\ deps[t] \subseteq S => t \in S
MayFinish == {t \in Tasks : \A S \in SUBSET Tasks : Closed(S) => t \in S}

\* deps.go:21-33: no ready task that can never run is left in ready_to_dev,
\* however long the chain of failures or the cycle it waits behind.
NothingSilentlyStranded ==
  \A t \in Tasks : col[t] = "ready_to_dev" /\ t \notin MayFinish => Settled[t] = "blocked"

\* The other direction: a task is blocked only for a failure or a cycle behind
\* it, never because an ID it names is missing (deps.go:78-84).
Ancestors(t) ==
  {u \in Tasks : \A S \in SUBSET OnBoard(col) :
     (\A v \in S \cup {t} : deps[v] \cap OnBoard(col) \subseteq S) => u \in S}
BlockedForCause ==
  \A t \in Tasks : Settled[t] = "blocked" =>
    \E u \in Ancestors(t) \cup {t} : col[u] = "blocked" \/ u \in Ancestors(u)

\* deps.go:21-22 with kanban.go:221-226: a task whose every dependency is done keeps
\* its place when the board settles, unless it waits on itself: the cycle loop blocks
\* every member, a runnable one too.
RunnableKeepsItsPlace ==
  \A t \in Executable(col, deps) \ Executable(Settled, deps) : t \in Ancestors(t)
=============================================================================

----------------------------- MODULE BoardDeps -----------------------------
(***************************************************************************)
(* Dependency resolution of the kanban board: pkg/plan/deps.go and the     *)
(* readiness rule of pkg/plan/kanban.go, as operators over                 *)
(*   col   [Tasks -> Columns], "absent" for an ID that is not on the board *)
(*   deps  [Tasks -> SUBSET Tasks], the depends_on lists.                  *)
(* Titles, notes and the wording of the reasons are left out.              *)
(***************************************************************************)
EXTENDS FiniteSetsExt

CONSTANT Tasks   \* every task ID a board may hold
ASSUME TasksFinite == IsFiniteSet(Tasks)

Human == {"to_scope", "scoped"}               \* the human-owned backlog
InFlightCols == {"in_progress", "in_review"}
Columns == Human \cup InFlightCols
             \cup {"ready_to_dev", "done", "blocked", "absent"}

OnBoard(col) == {t \in Tasks : col[t] # "absent"}

\* depends_on as edges between tasks that are on the board; an edge to an ID
\* that is not is dropped (a dangling dependency is a stall, not a cycle).
DepGraph(col, deps) ==
  {e \in OnBoard(col) \X OnBoard(col) : e[2] \in deps[e[1]]}

\* One outer iteration of Floyd-Warshall: paths that may go through k.
Through(k, reach) ==
  reach \cup {e \in Tasks \X Tasks : <<e[1], k>> \in reach /\ <<k, e[2]>> \in reach}

Reach(col, deps) == FoldSet(Through, DepGraph(col, deps), OnBoard(col))

\* The tasks DependencyCycles lists: those that can reach themselves.
CycleMembers(col, deps) ==
  LET reach == Reach(col, deps) IN {t \in OnBoard(col) : <<t, t>> \in reach}

\* Mutant of Seed: the cycles are not looked at.
SeedNone(col, deps) == {}

\* Mutant of Seed: what waits behind a cycle counts as a member.
SeedBehind(col, deps) ==
  LET reach == Reach(col, deps)
  IN {t \in OnBoard(col) : /\ col[t] = "ready_to_dev"
                           /\ \E u \in CycleMembers(col, deps) : t = u \/ <<t, u>> \in reach}

\* The tasks blocked before the fixpoint starts: ready members of a cycle.
Seed(col, deps) == {t \in CycleMembers(col, deps) : col[t] = "ready_to_dev"}

\* Mutant of Doomed: an ID that is not on the board counts as a failed upstream.
DoomedDangling(col, deps) ==
  LET round[n \in 0 .. Cardinality(Tasks)] ==
        IF n = 0 THEN Seed(col, deps)
        ELSE round[n - 1] \cup
               {t \in Tasks : /\ col[t] = "ready_to_dev"
                              /\ \E d \in deps[t] :
                                   col[d] \in {"blocked", "absent"} \/ d \in round[n - 1]}
  IN round[Cardinality(Tasks)]

\* propagateBlockedLocked's `why`: every ready task with a blocked upstream,
\* transitively.  Each round blocks one more task or is the last, so as many
\* rounds as there are tasks reach the fixpoint.
Doomed(col, deps) ==
  LET round[n \in 0 .. Cardinality(Tasks)] ==
        IF n = 0 THEN Seed(col, deps)
        ELSE round[n - 1] \cup
               {t \in Tasks : /\ col[t] = "ready_to_dev"
                              /\ \E d \in deps[t] : col[d] = "blocked" \/ d \in round[n - 1]}
  IN round[Cardinality(Tasks)]

\* The columns after PropagateBlocked; only ready_to_dev is touched.
PropagateBlocked(col, deps) ==
  [t \in Tasks |-> IF col[t] = "ready_to_dev" /\ t \in Doomed(col, deps)
                   THEN "blocked" ELSE col[t]]

\* Mutant of Executable: readiness is the column alone.
ExecutableNoDeps(col, deps) == {t \in Tasks : col[t] = "ready_to_dev"}

\* executableTasksLocked on a board it has just settled: only `done` satisfies
\* a dependency, and a dependency that is not on the board never does.
Executable(col, deps) ==
  {t \in Tasks : col[t] = "ready_to_dev" /\ \A d \in deps[t] : col[d] = "done"}

AgentWorkRemaining(col) ==
  \E t \in Tasks : col[t] \in InFlightCols \cup {"ready_to_dev"}

HumanBacklogRemaining(col) == \E t \in Tasks : col[t] \in Human
=============================================================================

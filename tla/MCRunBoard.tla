---------------------------- MODULE MCRunBoard -----------------------------
(* Small boards for RunBoard. *)
EXTENDS RunBoard, TLC

CONSTANTS t1, t2, t3, src, lib

\* Three tasks: t2 builds on t1; t3 edits a file in the directory t1 declares.
ChainDeps == (t1 :> {}) @@ (t2 :> {t1}) @@ (t3 :> {})
ChainFiles == (t1 :> {<<src>>}) @@ (t2 :> {<<lib>>}) @@ (t3 :> {<<src, lib>>})
ChainPrio == (t1 :> 60) @@ (t2 :> 65) @@ (t3 :> 60)
ChainPlanned == [t \in Tasks |-> "ready_to_dev"]

\* Two tasks, one file each: t2 builds on t1, which a person may still add or move.
PairDeps == (t1 :> {}) @@ (t2 :> {t1})
PairFiles == (t1 :> {<<src>>}) @@ (t2 :> {<<lib>>})
PairPrio == (t1 :> 60) @@ (t2 :> 65)

\* Two independent tasks, reviewed in parallel.
FreeDeps == (t1 :> {}) @@ (t2 :> {})

\* One task planned; the coordinator may add the other.
GrowPlanned == (t1 :> "ready_to_dev") @@ (t2 :> "absent")

\* One task that waits for an ID nobody ever adds.
DanglingPlanned == (t1 :> "absent") @@ (t2 :> "ready_to_dev")
=============================================================================

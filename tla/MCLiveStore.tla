---------------------------- MODULE MCLiveStore ----------------------------
(* Small plans for LiveStore. *)
EXTENDS LiveStore

CONSTANTS a, b, z

FullPlan == <<a, b>>     \* fills its array: an added task moves the memory
SparePlan == <<a, b, z>> \* leaves one slot spare

\* encoding/json and append grow these large elements by doubling.
Doubling(n) == CHOOSE c \in {0, 1, 2, 4, 8} : n <= c /\ \A d \in {0, 1, 2, 4, 8} : n <= d => c <= d
=============================================================================

-------------------------- MODULE BoardDeps_proofs --------------------------
(***************************************************************************)
(* What the dependency operators of BoardDeps compute, for any finite set  *)
(* of tasks: the Floyd-Warshall fold is reachability, and the rounds of    *)
(* the blocking fixpoint reach it.  The provers at hand cannot instantiate *)
(* an induction principle that takes an operator, so each induction is     *)
(* done on sets: a counterexample of least size, and a step that makes a   *)
(* smaller one of it.                                                      *)
(***************************************************************************)
EXTENDS BoardDeps, TLAPS, FiniteSetTheorems

\* A family of subsets of a finite set has a least member in the order of inclusion.
LEMMA MinimalSubset ==
  ASSUME NEW S, IsFiniteSet(S), NEW F, F \subseteq SUBSET S, F # {}
  PROVE  \E A \in F : \A B \in F : B \subseteq A => B = A
<1>1. IsWellFoundedOn(StrictSubsetOrdering(S), FiniteSubsetsOf(S))
  BY FS_StrictSubsetOrderingWellFounded
<1>2. F \subseteq FiniteSubsetsOf(S)
  BY FS_FiniteSubsetsOfFinite
<1>3. \E A \in F : \A B \in F : ~ (<<B, A>> \in StrictSubsetOrdering(S))
  BY <1>1, <1>2, WFMin
<1>. QED BY <1>3 DEF StrictSubsetOrdering

\* A set of numbers has a least one.
LEMMA LeastNat ==
  ASSUME NEW Q, Q \subseteq Nat, Q # {}
  PROVE  \E m \in Q : \A k \in Q : m <= k
<1>1. PICK R : R = OpToRel(<, Nat)
  OBVIOUS
<1>2. IsWellFoundedOn(R, Nat)
  BY <1>1, NatLessThanWellFounded
<1>3. \E m \in Q : \A k \in Q : ~ (<<k, m>> \in R)
  BY <1>2, WFMin
<1>4. \A k, m \in Nat : k < m => <<k, m>> \in R
  BY <1>1 DEF OpToRel
<1>5. PICK m \in Q : \A k \in Q : ~ (<<k, m>> \in R)
  BY <1>3
<1>6. ASSUME NEW k \in Q PROVE m <= k
  <2>1. k \in Nat /\ m \in Nat /\ ~ (k < m)
    BY <1>4, <1>5
  <2> QED BY <2>1
<1> QED BY <1>6

-----------------------------------------------------------------------------
(***************************************************************************)
(* The fold of Reach: it is a recursive function on the subsets of the     *)
(* board, and that function exists.                                        *)
(***************************************************************************)
Pick(s) == CHOOSE x \in s : TRUE

IsFold(f, B, G) ==
  f = [s \in SUBSET B |-> IF s = {} THEN G ELSE Through(Pick(s), f[s \ {Pick(s)}])]

LEMMA FoldUnique ==
  ASSUME NEW G, NEW B, IsFiniteSet(B), NEW C, NEW f, NEW g,
         IsFold(f, B, G), IsFold(g, C, G),
         NEW s \in SUBSET B, s \in SUBSET C
  PROVE  f[s] = g[s]
<1>1. PICK bad : bad = {u \in SUBSET s : f[u] # g[u]}
  OBVIOUS
<1>2. SUFFICES ASSUME bad # {} PROVE FALSE
  BY <1>1
<1>3. IsFiniteSet(s)
  BY FS_Subset
<1>4. PICK u \in bad : \A v \in bad : v \subseteq u => v = u
  BY <1>1, <1>2, <1>3, MinimalSubset
<1>5. u \in SUBSET s /\ f[u] # g[u]
  BY <1>1
<1>6. u # {}
  <2>1. f[{}] = G /\ g[{}] = G
    BY DEF IsFold
  <2> QED BY <2>1, <1>5
<1>7. Pick(u) \in u
  BY <1>6 DEF Pick
<1>8. PICK v : v = u \ {Pick(u)}
  OBVIOUS
<1>9. v \in SUBSET s /\ v \subseteq u /\ v # u
  BY <1>5, <1>7, <1>8
<1>10. f[v] = g[v]
  BY <1>1, <1>4, <1>9
<1>11. f[u] = Through(Pick(u), f[v]) /\ g[u] = Through(Pick(u), g[v])
  <2>1. u \in SUBSET B /\ u \in SUBSET C
    BY <1>5
  <2> QED BY <2>1, <1>6, <1>8 DEF IsFold
<1>. QED BY <1>5, <1>10, <1>11

LEMMA FoldExists ==
  ASSUME NEW G, NEW B, IsFiniteSet(B)
  PROVE  \E f : IsFold(f, B, G)
<1>1. PICK bad : bad = {T \in SUBSET B : ~ \E f : IsFold(f, T, G)}
  OBVIOUS
<1>2. SUFFICES ASSUME bad # {} PROVE FALSE
  BY <1>1
<1>3. PICK T \in bad : \A U \in bad : U \subseteq T => U = T
  <2>1. bad \subseteq SUBSET B
    BY <1>1
  <2> QED BY <2>1, <1>2, MinimalSubset
<1>4. T \in SUBSET B /\ ~ \E f : IsFold(f, T, G)
  BY <1>1
<1>. DEFINE fold(s) == CHOOSE f : IsFold(f, s, G)
<1>5. ASSUME NEW s \in SUBSET T, s # T PROVE IsFold(fold(s), s, G) /\ IsFiniteSet(s)
  <2>1. s \notin bad /\ s \in SUBSET B
    BY <1>3, <1>4, <1>5
  <2>2. \E f : IsFold(f, s, G)
    BY <2>1, <1>1
  <2> QED BY <2>1, <2>2, FS_Subset
<1>6. PICK h : h = [s \in SUBSET T |-> IF s = {} THEN G
                      ELSE Through(Pick(s), fold(s \ {Pick(s)})[s \ {Pick(s)}])]
  OBVIOUS
<1>7. ASSUME NEW s \in SUBSET T, s # T PROVE h[s] = fold(s)[s]
  <2>1. IsFold(fold(s), s, G) /\ IsFiniteSet(s)
    BY <1>5, <1>7
  <2>. HIDE DEF fold
  <2>2. CASE s = {}
    <3>1. h[s] = G
      BY <1>6, <2>2
    <3>2. fold(s)[s] = G
      BY <2>1, <2>2 DEF IsFold
    <3> QED BY <3>1, <3>2
  <2>3. CASE s # {}
    <3>1. PICK u : u = s \ {Pick(s)}
      OBVIOUS
    <3>2. u \in SUBSET T /\ u # T /\ u \in SUBSET s
      BY <3>1, <1>7
    <3>3. IsFold(fold(u), u, G)
      BY <3>2, <1>5
    <3>4. fold(s)[u] = fold(u)[u]
      BY <2>1, <3>2, <3>3, FoldUnique
    <3>5. fold(s)[s] = Through(Pick(s), fold(s)[u])
      BY <2>1, <2>3, <3>1 DEF IsFold
    <3>6. h[s] = Through(Pick(s), fold(u)[u])
      BY <1>6, <2>3, <3>1
    <3> QED BY <3>4, <3>5, <3>6
  <2> QED BY <2>2, <2>3
<1>8. IsFold(h, T, G)
  <2>. HIDE DEF fold
  <2>1. ASSUME NEW s \in SUBSET T, s # {}
        PROVE  h[s] = Through(Pick(s), h[s \ {Pick(s)}])
    <3>1. PICK u : u = s \ {Pick(s)}
      OBVIOUS
    <3>2. u \in SUBSET T /\ u # T
      BY <3>1, <2>1 DEF Pick
    <3>3. h[u] = fold(u)[u]
      BY <3>2, <1>7
    <3>4. h[s] = Through(Pick(s), fold(u)[u])
      BY <1>6, <2>1, <3>1
    <3> QED BY <3>1, <3>3, <3>4
  <2>2. h[{}] = G
    BY <1>6
  <2>3. \A s \in SUBSET T : h[s] = IF s = {} THEN G ELSE Through(Pick(s), h[s \ {Pick(s)}])
    BY <2>1, <2>2
  <2> QED BY <1>6, <2>3 DEF IsFold
<1>. QED BY <1>4, <1>8

-----------------------------------------------------------------------------
(***************************************************************************)
(* What the fold computes.  T carries the paths from v whose inner nodes   *)
(* are in s when it has the successors of v and, with a node of s, that    *)
(* node's successors; Via(v) is the least such set.                        *)
(***************************************************************************)
Nexts(B, G, v) == {w \in B : <<v, w>> \in G}

Carries(B, G, s, v, T) ==
  Nexts(B, G, v) \subseteq T /\ \A w \in T \cap s : Nexts(B, G, w) \subseteq T

Via(B, G, s, v) == {w \in B : \A T \in SUBSET B : Carries(B, G, s, v, T) => w \in T}

LEMMA ViaCarries ==
  ASSUME NEW B, NEW G, NEW s, NEW v
  PROVE  /\ Via(B, G, s, v) \in SUBSET B
         /\ Carries(B, G, s, v, Via(B, G, s, v))
BY DEF Via, Carries, Nexts

\* The step of Floyd-Warshall: a path through s and k is a path through s, or
\* one to k followed by one from k.
LEMMA ViaStep ==
  ASSUME NEW B, NEW G, NEW s, NEW k \in B, NEW v, NEW w
  PROVE  w \in Via(B, G, s \cup {k}, v) <=>
           \/ w \in Via(B, G, s, v)
           \/ k \in Via(B, G, s, v) /\ w \in Via(B, G, s, k)
<1>1. PICK sk : sk = s \cup {k}
  OBVIOUS
<1>2. ASSUME w \in Via(B, G, s, v) PROVE w \in Via(B, G, sk, v)
  <2>1. \A T \in SUBSET B : Carries(B, G, sk, v, T) => Carries(B, G, s, v, T)
    BY <1>1 DEF Carries
  <2> QED BY <1>2, <2>1 DEF Via
<1>3. ASSUME k \in Via(B, G, s, v), w \in Via(B, G, s, k)
      PROVE  w \in Via(B, G, sk, v)
  <2>1. ASSUME NEW T \in SUBSET B, Carries(B, G, sk, v, T) PROVE w \in T
    <3>1. Carries(B, G, s, v, T)
      BY <2>1, <1>1 DEF Carries
    <3>2. k \in T
      BY <1>3, <3>1 DEF Via
    <3>3. Carries(B, G, s, k, T)
      BY <2>1, <3>2, <1>1 DEF Carries
    <3> QED BY <1>3, <3>3 DEF Via
  <2> QED BY <1>3, <2>1 DEF Via
<1>4. ASSUME w \in Via(B, G, sk, v), w \notin Via(B, G, s, v)
      PROVE  k \in Via(B, G, s, v) /\ w \in Via(B, G, s, k)
  <2>1. PICK P, Q : P = Via(B, G, s, v) /\ Q = Via(B, G, s, k)
    OBVIOUS
  <2>2. /\ P \in SUBSET B /\ Q \in SUBSET B
        /\ Nexts(B, G, v) \subseteq P /\ \A u \in P \cap s : Nexts(B, G, u) \subseteq P
        /\ Nexts(B, G, k) \subseteq Q /\ \A u \in Q \cap s : Nexts(B, G, u) \subseteq Q
    BY <2>1, ViaCarries DEF Carries
  <2>3. CASE k \in P
    <3>1. Carries(B, G, sk, v, P \cup Q)
      BY <2>2, <2>3, <1>1 DEF Carries
    <3>2. w \in P \cup Q
      BY <3>1, <2>2, <1>4 DEF Via
    <3> QED BY <3>2, <2>1, <2>3, <1>4
  <2>4. CASE k \notin P
    <3>1. Carries(B, G, sk, v, P)
      BY <2>2, <2>4, <1>1 DEF Carries
    <3>2. w \in P
      BY <3>1, <2>2, <1>4 DEF Via
    <3> QED BY <3>2, <2>1, <1>4
  <2> QED BY <2>3, <2>4
<1>. QED BY <1>1, <1>2, <1>3, <1>4

LEMMA FoldIsVia ==
  ASSUME NEW B, IsFiniteSet(B), B \subseteq Tasks, NEW G, G \subseteq B \X B,
         NEW f, IsFold(f, B, G), NEW s \in SUBSET B
  PROVE  f[s] = {e \in B \X B : e[2] \in Via(B, G, s, e[1])}
<1>. DEFINE V(u) == {e \in B \X B : e[2] \in Via(B, G, u, e[1])}
<1>1. PICK bad : bad = {u \in SUBSET B : f[u] # V(u)}
  OBVIOUS
<1>2. SUFFICES ASSUME bad # {} PROVE FALSE
  BY <1>1
<1>3. PICK u \in bad : \A v \in bad : v \subseteq u => v = u
  BY <1>1, <1>2, MinimalSubset
<1>4. u \in SUBSET B /\ f[u] # V(u)
  BY <1>1
<1>5. CASE u = {}
  <2>1. f[u] = G
    BY <1>5 DEF IsFold
  <2>2. ASSUME NEW v \in B PROVE Via(B, G, {}, v) = Nexts(B, G, v)
    BY DEF Via, Carries, Nexts
  <2>3. \A e \in B \X B : e \in G <=> e[2] \in Nexts(B, G, e[1])
    BY DEF Nexts
  <2>4. V(u) = G
    BY <1>5, <2>2, <2>3
  <2> QED BY <1>4, <2>1, <2>4
<1>6. CASE u # {}
  <2>1. PICK k \in u : k = Pick(u)
    BY <1>6 DEF Pick
  <2>2. PICK v : v = u \ {k}
    OBVIOUS
  <2>3. v \in SUBSET B /\ f[v] = V(v)
    BY <1>1, <1>3, <1>4, <2>1, <2>2
  <2>4. f[u] = Through(k, f[v])
    BY <1>4, <1>6, <2>1, <2>2 DEF IsFold
  <2>5. k \in B /\ u = v \cup {k}
    BY <1>4, <2>1, <2>2
  <2>6. ASSUME NEW x \in B, NEW y \in B
        PROVE  <<x, y>> \in V(u) <=>
                  <<x, y>> \in V(v) \/ (<<x, k>> \in V(v) /\ <<k, y>> \in V(v))
    BY <2>5, ViaStep
  <2>7. V(v) \subseteq B \X B /\ V(u) \subseteq B \X B
    OBVIOUS
  <2>8. PICK X, Y : X = V(v) /\ Y = V(u)
    OBVIOUS
  <2>9. /\ X \subseteq B \X B /\ Y \subseteq B \X B
        /\ \A x, y \in B : <<x, y>> \in Y <=>
             <<x, y>> \in X \/ (<<x, k>> \in X /\ <<k, y>> \in X)
    BY <2>6, <2>7, <2>8
  <2>10. Through(k, X) = Y
    <3>1. \A e \in Through(k, X) : e \in B \X B
      BY <2>9 DEF Through
    <3>2. \A x, y \in B : <<x, y>> \in Through(k, X) <=> <<x, y>> \in Y
      BY <2>9 DEF Through
    <3> QED BY <3>1, <3>2, <2>9
  <2>11. f[u] = V(u)
    <3>. HIDE DEF V
    <3> QED BY <2>3, <2>4, <2>8, <2>10
  <2> QED BY <2>11, <1>4
<1>. QED BY <1>5, <1>6

-----------------------------------------------------------------------------
(***************************************************************************)
(* The same on a board: the tasks t waits for, directly or not.            *)
(***************************************************************************)
Behind(col, deps, t) ==
  {u \in OnBoard(col) : \A S \in SUBSET OnBoard(col) :
     (\A v \in S \cup {t} : deps[v] \cap OnBoard(col) \subseteq S) => u \in S}

LEMMA SomeTasksFinite ==
  ASSUME NEW S \in SUBSET Tasks
  PROVE  IsFiniteSet(S)
  BY TasksFinite, FS_Subset

LEMMA BoardFinite ==
  ASSUME NEW col
  PROVE  OnBoard(col) \subseteq Tasks /\ IsFiniteSet(OnBoard(col))
<1>1. OnBoard(col) \in SUBSET Tasks
  BY DEF OnBoard
<1>. QED BY <1>1, TasksFinite, FS_Subset

LEMMA NextsOnBoard ==
  ASSUME NEW col, NEW deps, NEW v \in OnBoard(col)
  PROVE  Nexts(OnBoard(col), DepGraph(col, deps), v) = deps[v] \cap OnBoard(col)
BY DEF Nexts, DepGraph

\* Reach is reachability: the pair t, u is in it when u is behind t.
THEOREM ReachIsBehind ==
  ASSUME NEW col, NEW deps, NEW t \in OnBoard(col), NEW u
  PROVE  <<t, u>> \in Reach(col, deps) <=> u \in Behind(col, deps, t)
<1>1. PICK B, G : B = OnBoard(col) /\ G = DepGraph(col, deps)
  OBVIOUS
<1>2. B \subseteq Tasks /\ IsFiniteSet(B) /\ G \subseteq B \X B
  BY <1>1, BoardFinite DEF DepGraph
<1>3. PICK f : /\ IsFold(f, B, G)
               /\ Reach(col, deps) = f[B]
  <2>1. PICK g : g = CHOOSE f : IsFold(f, B, G)
    OBVIOUS
  <2>2. IsFold(g, B, G)
    BY <2>1, <1>2, FoldExists
  <2>3. Reach(col, deps) = g[B]
    BY <2>1, <1>1 DEF Reach, FoldSet, MapThenFoldSet, IsFold, Pick
  <2> QED BY <2>2, <2>3
<1>4. f[B] = {e \in B \X B : e[2] \in Via(B, G, B, e[1])}
  BY <1>2, <1>3, FoldIsVia
<1>5. \A v \in B : Nexts(B, G, v) = deps[v] \cap B
  BY <1>1, NextsOnBoard
<1>6. \A S \in SUBSET B : Carries(B, G, B, t, S) <=>
         (\A v \in S \cup {t} : deps[v] \cap B \subseteq S)
  BY <1>1, <1>5 DEF Carries
<1>7. Via(B, G, B, t) = Behind(col, deps, t)
  BY <1>1, <1>6 DEF Via, Behind
<1>8. Behind(col, deps, t) \subseteq B
  BY <1>1 DEF Behind
<1>. QED BY <1>1, <1>3, <1>4, <1>7, <1>8

\* deps.go:107-140: the cycle members are the tasks that wait for themselves.
THEOREM CycleMembersWaitOnThemselves ==
  ASSUME NEW col, NEW deps
  PROVE  CycleMembers(col, deps) = {t \in OnBoard(col) : t \in Behind(col, deps, t)}
BY ReachIsBehind DEF CycleMembers

\* What a task waits for waits on nothing else.
LEMMA BehindDirect ==
  ASSUME NEW col, NEW deps, NEW t, NEW u \in OnBoard(col), u \in deps[t]
  PROVE  u \in Behind(col, deps, t)
BY DEF Behind

LEMMA BehindTransitive ==
  ASSUME NEW col, NEW deps, NEW t, NEW u \in Behind(col, deps, t)
  PROVE  Behind(col, deps, u) \subseteq Behind(col, deps, t)
<1>1. ASSUME NEW S \in SUBSET OnBoard(col),
             \A v \in S \cup {t} : deps[v] \cap OnBoard(col) \subseteq S
      PROVE  \A v \in S \cup {u} : deps[v] \cap OnBoard(col) \subseteq S
  BY <1>1 DEF Behind
<1>. QED BY <1>1 DEF Behind

\* Tasks that all wait for one another hold a cycle.
LEMMA CycleAmong ==
  ASSUME NEW col, NEW deps, NEW C, C \subseteq OnBoard(col), C # {},
         \A t \in C : deps[t] \cap C # {}
  PROVE  \E t \in C : t \in Behind(col, deps, t)
<1>1. PICK F : F = {A \in SUBSET OnBoard(col) : \E t \in C : A = Behind(col, deps, t)}
  OBVIOUS
<1>2. \A t \in C : Behind(col, deps, t) \in F
  BY <1>1 DEF Behind
<1>3. F \subseteq SUBSET OnBoard(col) /\ F # {}
  BY <1>1, <1>2
<1>4. PICK A \in F : \A A2 \in F : A2 \subseteq A => A2 = A
  BY <1>3, BoardFinite, MinimalSubset
<1>5. PICK t \in C : A = Behind(col, deps, t)
  BY <1>1
<1>6. PICK u \in C : u \in deps[t]
  OBVIOUS
<1>7. u \in Behind(col, deps, t)
  BY <1>6, BehindDirect
<1>8. Behind(col, deps, u) = Behind(col, deps, t)
  BY <1>2, <1>4, <1>5, <1>7, BehindTransitive
<1>. QED BY <1>7, <1>8

-----------------------------------------------------------------------------
(***************************************************************************)
(* The rounds of Doomed: they exist, they grow, and as many rounds as      *)
(* there are tasks are enough.                                             *)
(***************************************************************************)
IsIterate(r, N, x, g) == r = [n \in 0 .. N |-> IF n = 0 THEN x ELSE g[r[n - 1]]]

LEMMA IterateExists ==
  ASSUME NEW N \in Nat, NEW X, NEW x \in X, NEW g \in [X -> X]
  PROVE  \E r \in [0 .. N -> X] : IsIterate(r, N, x, g)
<1>1. PICK bad : bad = {n \in 0 .. N : ~ \E r \in [0 .. n -> X] : IsIterate(r, n, x, g)}
  OBVIOUS
<1>2. SUFFICES ASSUME bad # {} PROVE FALSE
  BY <1>1
<1>3. PICK n \in bad : \A k \in bad : n <= k
  <2>1. bad \subseteq Nat
    BY <1>1
  <2> QED BY <2>1, <1>2, LeastNat
<1>4. n \in 0 .. N /\ ~ \E r \in [0 .. n -> X] : IsIterate(r, n, x, g)
  BY <1>1
<1>5. CASE n = 0
  <2>1. PICK r : r = [i \in 0 .. n |-> x]
    OBVIOUS
  <2>2. r \in [0 .. n -> X]
    BY <2>1
  <2>3. \A i \in 0 .. n : i = 0
    BY <1>5
  <2>4. IsIterate(r, n, x, g)
    BY <2>1, <2>3 DEF IsIterate
  <2> QED BY <2>2, <2>4, <1>4
<1>6. CASE n # 0
  <2>1. n - 1 \in 0 .. N /\ n - 1 \notin bad
    BY <1>3, <1>4, <1>6
  <2>2. PICK r \in [0 .. (n - 1) -> X] : IsIterate(r, n - 1, x, g)
    BY <2>1, <1>1
  <2>3. PICK q : q = [i \in 0 .. n |-> IF i = n THEN g[r[n - 1]] ELSE r[i]]
    OBVIOUS
  <2>4. n - 1 \in 0 .. (n - 1) /\ \A i \in 0 .. n : i # n => i \in 0 .. (n - 1)
    BY <1>4, <1>6
  <2>5. q \in [0 .. n -> X]
    BY <2>3, <2>4
  <2>6. \A i \in 0 .. (n - 1) : q[i] = r[i]
    BY <2>3, <1>4
  <2>7. \A i \in 0 .. n : q[i] = IF i = 0 THEN x ELSE g[q[i - 1]]
    <3>1. ASSUME NEW i \in 0 .. n, i # n
          PROVE q[i] = IF i = 0 THEN x ELSE g[q[i - 1]]
      <4>1. i \in 0 .. (n - 1) /\ q[i] = r[i]
        BY <3>1, <2>4, <2>6
      <4>2. r[i] = IF i = 0 THEN x ELSE g[r[i - 1]]
        BY <4>1, <2>2 DEF IsIterate
      <4>3. i # 0 => i - 1 \in 0 .. (n - 1)
        BY <4>1, <1>4
      <4> QED BY <4>1, <4>2, <4>3, <2>6
    <3>2. q[n] = g[q[n - 1]]
      BY <2>3, <2>4, <2>6, <1>4
    <3> QED BY <3>1, <3>2, <1>6
  <2>8. IsIterate(q, n, x, g)
    BY <2>3, <2>7 DEF IsIterate
  <2> QED BY <2>5, <2>8, <1>4
<1>. QED BY <1>5, <1>6

ReadyOf(col) == {t \in Tasks : col[t] = "ready_to_dev"}

\* The ready tasks a failure in S, or a blocked task, holds up.
HeldUp(col, deps, S) ==
  {t \in Tasks : /\ col[t] = "ready_to_dev"
                 /\ \E d \in deps[t] : col[d] = "blocked" \/ d \in S}

LEMMA RoundsOf ==
  ASSUME NEW col, NEW deps
  PROVE  \E r \in [0 .. Cardinality(Tasks) -> SUBSET Tasks] :
           /\ r[0] = Seed(col, deps)
           /\ \A n \in 1 .. Cardinality(Tasks) : r[n] = r[n - 1] \cup HeldUp(col, deps, r[n - 1])
           /\ Doomed(col, deps) = r[Cardinality(Tasks)]
<1>1. PICK N : N = Cardinality(Tasks)
  OBVIOUS
<1>2. N \in Nat
  BY <1>1, TasksFinite, FS_CardinalityType
<1>3. PICK g : g = [S \in SUBSET Tasks |-> S \cup HeldUp(col, deps, S)]
  OBVIOUS
<1>4. g \in [SUBSET Tasks -> SUBSET Tasks]
  BY <1>3 DEF HeldUp
<1>5. Seed(col, deps) \in SUBSET Tasks
  BY DEF Seed, CycleMembers, OnBoard
<1>6. \E r \in [0 .. N -> SUBSET Tasks] : IsIterate(r, N, Seed(col, deps), g)
  BY <1>2, <1>4, <1>5, IterateExists
<1>. DEFINE IsRound(r) ==
       r = [n \in 0 .. N |-> IF n = 0 THEN Seed(col, deps)
              ELSE r[n - 1] \cup
                     {t \in Tasks : /\ col[t] = "ready_to_dev"
                                    /\ \E d \in deps[t] : col[d] = "blocked" \/ d \in r[n - 1]}]
<1>7. \E r : IsRound(r)
  <2>1. PICK r \in [0 .. N -> SUBSET Tasks] : IsIterate(r, N, Seed(col, deps), g)
    BY <1>6
  <2>2. \A n \in 0 .. N : n # 0 => n - 1 \in 0 .. N
    BY <1>2
  <2>3. \A n \in 0 .. N : n # 0 => g[r[n - 1]] = r[n - 1] \cup HeldUp(col, deps, r[n - 1])
    BY <2>1, <2>2, <1>3
  <2>4. IsRound(r)
    BY <2>1, <2>3 DEF IsIterate, HeldUp
  <2> QED BY <2>4
<1>8. PICK r : r = CHOOSE q : IsRound(q)
  OBVIOUS
<1>9. IsRound(r)
  <2>. HIDE DEF IsRound
  <2> QED BY <1>7, <1>8
<1>10. Doomed(col, deps) = r[N]
  BY <1>1, <1>8 DEF Doomed
<1>11. 0 \in 0 .. N /\ \A n \in 1 .. N : n \in 0 .. N /\ n # 0
  BY <1>2
<1>12. r[0] = Seed(col, deps)
  BY <1>9, <1>11
<1>13. \A n \in 1 .. N : r[n] = r[n - 1] \cup HeldUp(col, deps, r[n - 1])
  BY <1>9, <1>11 DEF HeldUp
<1>14. r \in [0 .. N -> SUBSET Tasks]
  <2>1. \A n \in 0 .. N : r[n] \in SUBSET Tasks
    <3>1. PICK bad : bad = {n \in 0 .. N : r[n] \notin SUBSET Tasks}
      OBVIOUS
    <3>2. SUFFICES ASSUME bad # {} PROVE FALSE
      BY <3>1
    <3>3. PICK n \in bad : \A k \in bad : n <= k
      <4>1. bad \subseteq Nat
        BY <3>1
      <4> QED BY <4>1, <3>2, <1>2, LeastNat
    <3>4. n \in 0 .. N /\ r[n] \notin SUBSET Tasks
      BY <3>1
    <3>5. n # 0
      BY <3>4, <1>5, <1>12
    <3>6. n \in 1 .. N /\ n - 1 \in 0 .. N /\ ~ (n <= n - 1)
      BY <3>4, <3>5, <1>2
    <3>7. r[n - 1] \in SUBSET Tasks
      BY <3>1, <3>3, <3>6
    <3>8. r[n] = r[n - 1] \cup HeldUp(col, deps, r[n - 1])
      BY <3>6, <1>13
    <3> QED BY <3>4, <3>7, <3>8 DEF HeldUp
  <2>2. r = [n \in 0 .. N |-> r[n]]
    BY <1>9
  <2> QED BY <2>1, <2>2
<1>. QED BY <1>1, <1>10, <1>12, <1>13, <1>14

\* Induction over the rounds, in the form the proofs below use: a set of
\* rounds that holds round 0 and, with a round, the next holds them all.
LEMMA AllRounds ==
  ASSUME NEW N \in Nat, NEW Q \in SUBSET (0 .. N), 0 \in Q,
         \A n \in 1 .. N : n - 1 \in Q => n \in Q
  PROVE  Q = 0 .. N
<1>1. PICK bad : bad = (0 .. N) \ Q
  OBVIOUS
<1>2. SUFFICES ASSUME bad # {} PROVE FALSE
  BY <1>1
<1>3. PICK n \in bad : \A k \in bad : n <= k
  <2>1. bad \subseteq Nat
    BY <1>1
  <2> QED BY <2>1, <1>2, LeastNat
<1>4. n \in 0 .. N /\ n \notin Q
  BY <1>1
<1>5. n \in 1 .. N /\ n - 1 \in 0 .. N /\ ~ (n <= n - 1)
  BY <1>4
<1>6. n - 1 \in Q
  BY <1>1, <1>3, <1>5
<1>. QED BY <1>4, <1>5, <1>6

\* Whatever holds of the seeds and passes from a task to the ready tasks it
\* holds up holds of every doomed task.
THEOREM DoomedIsLeast ==
  ASSUME NEW col, NEW deps, NEW P, P \subseteq Tasks,
         Seed(col, deps) \subseteq P, HeldUp(col, deps, P) \subseteq P
  PROVE  Doomed(col, deps) \subseteq P
<1>1. PICK N : N = Cardinality(Tasks)
  OBVIOUS
<1>2. N \in Nat
  BY <1>1, TasksFinite, FS_CardinalityType
<1>3. PICK r \in [0 .. N -> SUBSET Tasks] :
           /\ r[0] = Seed(col, deps)
           /\ \A n \in 1 .. N : r[n] = r[n - 1] \cup HeldUp(col, deps, r[n - 1])
           /\ Doomed(col, deps) = r[N]
  BY ONLY <1>1, RoundsOf
<1>4. PICK Q : Q = {n \in 0 .. N : r[n] \subseteq P}
  OBVIOUS
<1>5. 0 \in Q
  BY <1>2, <1>3, <1>4
<1>6. ASSUME NEW n \in 1 .. N, n - 1 \in Q PROVE n \in Q
  <2>1. r[n - 1] \subseteq P
    BY <1>4, <1>6
  <2>2. HeldUp(col, deps, r[n - 1]) \subseteq HeldUp(col, deps, P)
    BY <2>1 DEF HeldUp
  <2>3. n \in 0 .. N
    BY <1>2
  <2> QED BY <2>1, <2>2, <2>3, <1>3, <1>4
<1>7. Q = 0 .. N
  <2>1. Q \in SUBSET (0 .. N)
    BY <1>4
  <2> QED BY <2>1, <1>2, <1>5, <1>6, AllRounds
<1>8. N \in 0 .. N
  BY <1>2
<1>. QED BY <1>3, <1>4, <1>7, <1>8

\* The fixpoint is reached: Doomed holds the seeds and every ready task that a
\* blocked or a doomed task holds up.
THEOREM DoomedIsClosed ==
  ASSUME NEW col, NEW deps
  PROVE  /\ Seed(col, deps) \subseteq Doomed(col, deps)
         /\ HeldUp(col, deps, Doomed(col, deps)) \subseteq Doomed(col, deps)
<1>1. PICK N : N = Cardinality(Tasks)
  OBVIOUS
<1>2. N \in Nat
  BY <1>1, TasksFinite, FS_CardinalityType
<1>3. PICK r \in [0 .. N -> SUBSET Tasks] :
           /\ r[0] = Seed(col, deps)
           /\ \A n \in 1 .. N : r[n] = r[n - 1] \cup HeldUp(col, deps, r[n - 1])
           /\ Doomed(col, deps) = r[N]
  BY ONLY <1>1, RoundsOf
<1>4. \A n \in 0 .. N : r[n] \in SUBSET Tasks /\ IsFiniteSet(r[n]) /\ Cardinality(r[n]) \in Nat
  BY <1>3, TasksFinite, FS_Subset, FS_CardinalityType
<1>. DEFINE Good(n) ==
       /\ Seed(col, deps) \subseteq r[n]
       /\ HeldUp(col, deps, r[n]) \subseteq r[n] \/ Cardinality(r[n]) >= n
<1>5. PICK Q : Q = {n \in 0 .. N : Good(n)}
  OBVIOUS
<1>12. \A n \in 0 .. N : n \in Q <=> Good(n)
  <2>. HIDE DEF Good
  <2> QED BY <1>5
<1>6. 0 \in Q
  BY <1>2, <1>3, <1>4, <1>12
<1>7. ASSUME NEW n \in 1 .. N, n - 1 \in Q PROVE n \in Q
  <2>4. n \in 0 .. N /\ n - 1 \in 0 .. N /\ r[n] = r[n - 1] \cup HeldUp(col, deps, r[n - 1])
    BY <1>2, <1>3
  <2>5. /\ Seed(col, deps) \subseteq r[n - 1]
        /\ HeldUp(col, deps, r[n - 1]) \subseteq r[n - 1] \/ Cardinality(r[n - 1]) >= n - 1
    BY <1>2, <1>7, <1>12
  <2>1. /\ n \in 0 .. N /\ n - 1 \in 0 .. N /\ r[n] = r[n - 1] \cup HeldUp(col, deps, r[n - 1])
        /\ Seed(col, deps) \subseteq r[n - 1]
        /\ HeldUp(col, deps, r[n - 1]) \subseteq r[n - 1] \/ Cardinality(r[n - 1]) >= n - 1
    BY <2>4, <2>5
  <2>2. CASE HeldUp(col, deps, r[n - 1]) \subseteq r[n - 1]
    <3>1. r[n] = r[n - 1]
      BY <2>1, <2>2
    <3> QED BY <2>1, <2>2, <3>1, <1>5
  <2>3. CASE /\ ~ (HeldUp(col, deps, r[n - 1]) \subseteq r[n - 1])
             /\ Cardinality(r[n - 1]) >= n - 1
    <3>1. r[n - 1] \in SUBSET r[n] /\ r[n - 1] # r[n]
      BY <2>1, <2>3
    <3>2. /\ IsFiniteSet(r[n])
          /\ Cardinality(r[n]) \in Nat /\ Cardinality(r[n - 1]) \in Nat
      BY <2>1, <1>4
    <3>3. /\ Cardinality(r[n - 1]) <= Cardinality(r[n])
          /\ Cardinality(r[n - 1]) # Cardinality(r[n])
      BY <3>1, <3>2, FS_Subset
    <3>4. Cardinality(r[n]) >= n
      BY <2>1, <2>3, <3>2, <3>3, <1>2
    <3>5. Seed(col, deps) \subseteq r[n]
      BY <2>1
    <3> QED BY <3>4, <3>5, <2>1, <1>5
  <2> QED BY <2>1, <2>2, <2>3
<1>8. Q = 0 .. N
  <2>1. Q \in SUBSET (0 .. N)
    BY <1>5
  <2> QED BY <2>1, <1>2, <1>6, <1>7, AllRounds
<1>9. N \in 0 .. N
  BY <1>2
<1>10. /\ Seed(col, deps) \subseteq r[N]
       /\ HeldUp(col, deps, r[N]) \subseteq r[N] \/ Cardinality(r[N]) >= N
  BY <1>8, <1>9, <1>12
<1>11. CASE Cardinality(r[N]) >= N
  <2>1. r[N] \in SUBSET Tasks /\ Cardinality(r[N]) \in Nat
    BY <1>4, <1>9
  <2>2. Cardinality(r[N]) <= Cardinality(Tasks)
    BY <2>1, TasksFinite, FS_Subset
  <2>3. Cardinality(Tasks) = Cardinality(r[N])
    BY <2>1, <2>2, <1>1, <1>2, <1>11
  <2>4. r[N] = Tasks
    BY <2>1, <2>3, TasksFinite, FS_Subset
  <2>5. HeldUp(col, deps, r[N]) \subseteq r[N]
    BY <2>4 DEF HeldUp
  <2> QED BY <2>5, <1>3, <1>10
<1>. QED BY <1>3, <1>10, <1>11

LEMMA DoomedReady ==
  ASSUME NEW col, NEW deps
  PROVE  Doomed(col, deps) \subseteq ReadyOf(col)
<1>1. Seed(col, deps) \subseteq ReadyOf(col)
  BY DEF Seed, CycleMembers, OnBoard, ReadyOf
<1>2. HeldUp(col, deps, ReadyOf(col)) \subseteq ReadyOf(col) /\ ReadyOf(col) \subseteq Tasks
  BY DEF HeldUp, ReadyOf
<1>. QED BY <1>1, <1>2, DoomedIsLeast

\* A set of ready tasks outside Doomed is never stuck on itself: one of them
\* waits for no other of the set.
THEOREM NoCycleIsLeft ==
  ASSUME NEW col, NEW deps, NEW C, C \subseteq ReadyOf(col) \ Doomed(col, deps), C # {}
  PROVE  \E t \in C : deps[t] \cap C = {}
<1>1. SUFFICES ASSUME \A t \in C : deps[t] \cap C # {} PROVE FALSE
  OBVIOUS
<1>2. C \subseteq OnBoard(col)
  BY DEF ReadyOf, OnBoard
<1>3. PICK t \in C : t \in Behind(col, deps, t)
  BY <1>1, <1>2, CycleAmong
<1>4. t \in Seed(col, deps)
  BY <1>2, <1>3, CycleMembersWaitOnThemselves DEF Seed, ReadyOf
<1>. QED BY <1>3, <1>4, DoomedIsClosed

\* A board that has just been settled is settled: there is nothing left to block.
THEOREM SettledOnce ==
  ASSUME NEW col \in [Tasks -> Columns], NEW deps \in [Tasks -> SUBSET Tasks]
  PROVE  LET c == PropagateBlocked(col, deps)
         IN  Doomed(c, deps) = {} /\ PropagateBlocked(c, deps) = c
<1>. DEFINE c == PropagateBlocked(col, deps)
<1>1. \A t \in Tasks : c[t] = IF t \in Doomed(col, deps) THEN "blocked" ELSE col[t]
  BY DoomedReady DEF PropagateBlocked, ReadyOf
<1>2. OnBoard(c) = OnBoard(col)
  BY <1>1, DoomedReady DEF OnBoard, ReadyOf
<1>3. \A t \in Tasks : Behind(c, deps, t) = Behind(col, deps, t)
  BY <1>2 DEF Behind
<1>4. \A t \in Tasks : c[t] = "ready_to_dev" => col[t] = "ready_to_dev" /\ t \notin Doomed(col, deps)
  BY <1>1
<1>5. Seed(c, deps) = {}
  <2>1. ASSUME NEW t \in Seed(c, deps) PROVE FALSE
    <3>1. t \in OnBoard(c) /\ t \in Behind(c, deps, t) /\ c[t] = "ready_to_dev" /\ t \in Tasks
      BY CycleMembersWaitOnThemselves DEF Seed, OnBoard
    <3>2. t \in Seed(col, deps)
      BY <3>1, <1>2, <1>3, <1>4, CycleMembersWaitOnThemselves DEF Seed
    <3> QED BY <3>1, <3>2, <1>4, DoomedIsClosed
  <2> QED BY <2>1
<1>6. HeldUp(c, deps, {}) = {}
  <2>1. ASSUME NEW t \in HeldUp(c, deps, {}) PROVE FALSE
    <3>1. PICK d \in deps[t] : c[d] = "blocked"
      BY DEF HeldUp
    <3>2. t \in Tasks /\ c[t] = "ready_to_dev" /\ d \in Tasks
      BY DEF HeldUp
    <3>3. col[d] = "blocked" \/ d \in Doomed(col, deps)
      BY <1>1, <3>1, <3>2
    <3>4. t \in HeldUp(col, deps, Doomed(col, deps))
      BY <1>4, <3>2, <3>3 DEF HeldUp
    <3> QED BY <3>2, <3>4, <1>4, DoomedIsClosed
  <2> QED BY <2>1
<1>7. Doomed(c, deps) = {}
  BY <1>5, <1>6, DoomedIsLeast
<1>8. PropagateBlocked(c, deps) = c
  BY <1>7 DEF PropagateBlocked
<1>. QED BY <1>7, <1>8

\* What a settled board that has ready tasks but none executable waits for: a
\* dependency that nobody can run, because it is not on the board, is in
\* flight, or is in the hands of people.
THEOREM IdleForAReason ==
  ASSUME NEW col \in [Tasks -> Columns], NEW deps \in [Tasks -> SUBSET Tasks],
         LET c == PropagateBlocked(col, deps)
         IN  ReadyOf(c) # {} /\ Executable(c, deps) = {}
  PROVE  LET c == PropagateBlocked(col, deps)
         IN  \E t \in ReadyOf(c) : \E d \in deps[t] : c[d] \in {"absent"} \cup InFlightCols \cup Human
<1>. DEFINE c == PropagateBlocked(col, deps)
            C == ReadyOf(c)
<1>1. \A t \in Tasks : c[t] = IF t \in Doomed(col, deps) THEN "blocked" ELSE col[t]
  BY DoomedReady DEF PropagateBlocked, ReadyOf
<1>2. C \subseteq ReadyOf(col) \ Doomed(col, deps)
  BY <1>1 DEF ReadyOf
<1>3. PICK t \in C : deps[t] \cap C = {}
  BY <1>2, NoCycleIsLeft
<1>4. t \in Tasks /\ c[t] = "ready_to_dev" /\ t \notin Doomed(col, deps) /\ col[t] = "ready_to_dev"
  BY <1>1 DEF ReadyOf
<1>5. PICK d \in deps[t] : c[d] # "done"
  BY <1>4 DEF Executable
<1>6. d \in Tasks /\ d \notin C
  BY <1>3, <1>4, <1>5
<1>7. c[d] # "blocked"
  <2>1. ~ (col[d] = "blocked" \/ d \in Doomed(col, deps))
    BY <1>4, <1>5, DoomedIsClosed DEF HeldUp
  <2> QED BY <2>1, <1>1, <1>6
<1>8. c[d] \in Columns
  BY <1>1, <1>6, <1>7
<1>9. c[d] # "ready_to_dev"
  BY <1>6 DEF ReadyOf
<1>10. c[d] \in {"absent"} \cup InFlightCols \cup Human
  BY <1>5, <1>7, <1>8, <1>9 DEF Columns
<1>. QED BY <1>10
=============================================================================

---------------------------- MODULE Boards_proofs ---------------------------
(***************************************************************************)
(* Proofs about the two models of the board that MCBoards puts side by     *)
(* side.  BoardEdits: what the settling does to any board, for every set   *)
(* of tasks and every dependency graph.  LiveStore: what merges, persists, *)
(* reloads and edits do to the file and to the two memories, for every     *)
(* plan, every number of tasks and every way of growing an array.          *)
(*                                                                         *)
(* LiveStore's invariant is in two parts: StoreTypeOK, which holds without *)
(* end, and Clean, which says of the IDs what holds until a merge clips    *)
(* the runner's slice.                                                     *)
(***************************************************************************)
EXTENDS BoardEdits, LiveStore, BoardDeps_proofs, SequenceTheorems

-----------------------------------------------------------------------------
(* BoardEdits *)

\* kanban.go, deps.go: adding, removing, moving and settling leave every ID in one
\* column or off the board, with dependencies on IDs.
THEOREM EditsTypeCorrect == EditsSpec => []EditsTypeOK
<1>1. EditsInit => EditsTypeOK
  BY DEF EditsInit, EditsTypeOK, Columns, Human, InFlightCols
<1>2. EditsTypeOK /\ [EditsNext]_editsVars => EditsTypeOK'
  <2>. SUFFICES ASSUME EditsTypeOK, [EditsNext]_editsVars PROVE EditsTypeOK'
    OBVIOUS
  <2>1. ASSUME NEW t \in Tasks, NEW c \in {"to_scope", "ready_to_dev"},
               NEW ds \in SUBSET Tasks, AddTask(t, c, ds)
        PROVE  EditsTypeOK'
    BY <2>1 DEF EditsTypeOK, AddTask, Columns, Human
  <2>2. ASSUME NEW t \in Tasks, RemoveTask(t) PROVE EditsTypeOK'
    BY <2>2 DEF EditsTypeOK, RemoveTask, Columns
  <2>3. ASSUME NEW t \in Tasks, NEW c \in Columns \ {"absent"}, MoveTo(t, c)
        PROVE  EditsTypeOK'
    BY <2>3 DEF EditsTypeOK, MoveTo
  <2>4. CASE Settle
    BY <2>4 DEF EditsTypeOK, Settle, PropagateBlocked, Columns
  <2>5. CASE UNCHANGED editsVars
    BY <2>5 DEF EditsTypeOK, editsVars
  <2> QED BY <2>1, <2>2, <2>3, <2>4, <2>5 DEF EditsNext
<1>. QED BY <1>1, <1>2, PTL DEF EditsSpec

\* MayFinish is itself closed, the least closed set.
LEMMA MayFinishClosed ==
  ASSUME EditsTypeOK
  PROVE  Closed(MayFinish)
<1>1. Live \cup {t \in Tasks : col[t] = "done"} \subseteq MayFinish
  BY DEF MayFinish, Closed, Live
<1>2. ASSUME NEW t \in Tasks, col[t] = "ready_to_dev", deps[t] \subseteq MayFinish
      PROVE  t \in MayFinish
  BY <1>2 DEF MayFinish, Closed
<1>. QED BY <1>1, <1>2 DEF Closed

\* deps.go:21-33, for every finite set of task IDs and every board: a ready task
\* that can never run is blocked by the settling.
THEOREM NothingStranded == EditsSpec => []NothingSilentlyStranded
<1>1. EditsTypeOK => NothingSilentlyStranded
  <2>1. SUFFICES ASSUME EditsTypeOK, NEW t0 \in Tasks,
                        col[t0] = "ready_to_dev", t0 \notin MayFinish,
                        t0 \notin Doomed(col, deps)
                 PROVE  FALSE
    BY DEF NothingSilentlyStranded, Settled, PropagateBlocked
  <2>2. PICK C : C = {t \in ReadyOf(col) \ Doomed(col, deps) : t \notin MayFinish}
    OBVIOUS
  <2>3. t0 \in C
    BY <2>1, <2>2 DEF ReadyOf
  <2>4. PICK t \in C : deps[t] \cap C = {}
    BY <2>2, <2>3, NoCycleIsLeft
  <2>5. t \in Tasks /\ col[t] = "ready_to_dev" /\ t \notin MayFinish /\ t \notin Doomed(col, deps)
    BY <2>2 DEF ReadyOf
  <2>6. PICK d \in deps[t] : d \notin MayFinish
    BY <2>1, <2>5, MayFinishClosed DEF Closed
  <2>7. d \in Tasks /\ col[d] \in Columns
    BY <2>1, <2>5 DEF EditsTypeOK
  <2>8. col[d] = "ready_to_dev" \/ col[d] = "blocked"
    BY <2>1, <2>6, <2>7, MayFinishClosed DEF Closed, Live, Columns
  <2>9. t \notin HeldUp(col, deps, Doomed(col, deps))
    BY <2>5, DoomedIsClosed
  <2>10. col[d] # "blocked" /\ d \notin Doomed(col, deps)
    BY <2>5, <2>9 DEF HeldUp
  <2>11. d \in C
    BY <2>2, <2>6, <2>7, <2>8, <2>10 DEF ReadyOf
  <2> QED BY <2>4, <2>11
<1>. QED BY <1>1, EditsTypeCorrect, PTL

LEMMA AncestorsAreBehind ==
  ASSUME NEW t \in Tasks
  PROVE  Ancestors(t) = Behind(col, deps, t)
<1>1. OnBoard(col) \subseteq Tasks
  BY DEF OnBoard
<1>2. \A v \in OnBoard(col) \cup {t} : deps[v] \cap OnBoard(col) \subseteq OnBoard(col)
  OBVIOUS
<1>3. Ancestors(t) \subseteq OnBoard(col)
  BY <1>2 DEF Ancestors
<1>. QED BY <1>1, <1>3 DEF Ancestors, Behind

\* deps.go:78-84: what the settling blocks has a failure or a cycle behind it.
THEOREM OnlyForCause == EditsSpec => []BlockedForCause
<1>1. EditsTypeOK => BlockedForCause
  <2>1. SUFFICES ASSUME EditsTypeOK, NEW t0 \in Tasks, Settled[t0] = "blocked"
                 PROVE  \E u \in Ancestors(t0) \cup {t0} : col[u] = "blocked" \/ u \in Ancestors(u)
    BY DEF BlockedForCause
  <2>2. PICK P : P = {t \in ReadyOf(col) : \E u \in Behind(col, deps, t) \cup {t} :
                                            col[u] = "blocked" \/ u \in Behind(col, deps, u)}
    OBVIOUS
  <2>3. P \subseteq Tasks
    BY <2>2 DEF ReadyOf
  <2>4. Seed(col, deps) \subseteq P
    BY <2>2, CycleMembersWaitOnThemselves DEF Seed, ReadyOf, OnBoard
  <2>5. ASSUME NEW t \in HeldUp(col, deps, P) PROVE t \in P
    <3>1. PICK d \in deps[t] : col[d] = "blocked" \/ d \in P
      BY DEF HeldUp
    <3>2. t \in ReadyOf(col) /\ d \in Tasks
      BY <2>1 DEF HeldUp, ReadyOf, EditsTypeOK
    <3>3. d \in OnBoard(col)
      BY <2>2, <3>1, <3>2 DEF ReadyOf, OnBoard
    <3>4. d \in Behind(col, deps, t) /\ Behind(col, deps, d) \subseteq Behind(col, deps, t)
      BY <3>3, BehindDirect, BehindTransitive
    <3> QED BY <2>2, <3>1, <3>2, <3>4
  <2>6. Doomed(col, deps) \subseteq P
    BY <2>3, <2>4, <2>5, DoomedIsLeast
  <2>7. col[t0] = "blocked" \/ t0 \in Doomed(col, deps)
    BY <2>1 DEF Settled, PropagateBlocked
  <2>8. \E u \in Behind(col, deps, t0) \cup {t0} : col[u] = "blocked" \/ u \in Behind(col, deps, u)
    BY <2>2, <2>6, <2>7
  <2>9. Behind(col, deps, t0) \subseteq Tasks
    BY DEF Behind, OnBoard
  <2> QED BY <2>8, <2>9, AncestorsAreBehind
<1>. QED BY <1>1, EditsTypeCorrect, PTL

\* deps.go:21-22, kanban.go:221-226: the settling takes a runnable task from its
\* place only when the task waits on itself.
THEOREM RunnableStays == EditsSpec => []RunnableKeepsItsPlace
<1>1. EditsTypeOK => RunnableKeepsItsPlace
  <2>1. SUFFICES ASSUME EditsTypeOK, NEW t0 \in Executable(col, deps),
                        t0 \notin Executable(Settled, deps)
                 PROVE  t0 \in Ancestors(t0)
    BY DEF RunnableKeepsItsPlace
  <2>2. t0 \in Tasks /\ col[t0] = "ready_to_dev" /\ \A d \in deps[t0] : col[d] = "done" /\ d \in Tasks
    BY <2>1 DEF Executable, EditsTypeOK
  <2>3. \A d \in deps[t0] : Settled[d] = "done"
    BY <2>2 DEF Settled, PropagateBlocked
  <2>4. t0 \in Doomed(col, deps)
    BY <2>1, <2>2, <2>3 DEF Executable, Settled, PropagateBlocked
  <2>5. PICK P : P = {t \in ReadyOf(col) : \/ t \in Behind(col, deps, t)
                                         \/ \E d \in deps[t] : col[d] # "done"}
    OBVIOUS
  <2>6. P \subseteq Tasks
    BY <2>5 DEF ReadyOf
  <2>7. Seed(col, deps) \subseteq P
    BY <2>5, CycleMembersWaitOnThemselves DEF Seed, ReadyOf, OnBoard
  <2>8. HeldUp(col, deps, P) \subseteq P
    BY <2>5 DEF HeldUp, ReadyOf
  <2>9. t0 \in P
    BY <2>4, <2>6, <2>7, <2>8, DoomedIsLeast
  <2> QED BY <2>2, <2>5, <2>9, AncestorsAreBehind
<1>. QED BY <1>1, EditsTypeCorrect, PTL

-----------------------------------------------------------------------------
(* LiveStore *)

Slots == Task \cup {Unused}
Board == {f \in Seq(Task) : Len(f) <= MaxTasks}
TwinFree == {f \in Seq(Task) : \A j, k \in DOMAIN f : f[j].id = f[k].id => j = k}

LEMMA SliceIs ==
  ASSUME NEW s
  PROVE  /\ s \in Slice => s \in [at : 1 .. 2, len : Nat] /\ s.len <= MaxTasks
         /\ s \in [at : 1 .. 2, len : Nat] /\ s.len <= MaxTasks => s \in Slice
<1>1. MaxTasks \in Nat
  BY TasksBound
<1>2. ASSUME s \in Slice PROVE s \in [at : 1 .. 2, len : Nat] /\ s.len <= MaxTasks
  BY <1>1, <1>2 DEF Slice
<1>3. ASSUME s \in [at : 1 .. 2, len : Nat], s.len <= MaxTasks PROVE s \in Slice
  <2>1. s.at \in 1 .. 2 /\ s.len \in 0 .. MaxTasks /\ s = [at |-> s.at, len |-> s.len]
    BY <1>1, <1>3
  <2> QED BY <2>1 DEF Slice
<1> QED BY <1>2, <1>3

\* A board without twins is as long as it has IDs.
LEMMA BoardLength ==
  ASSUME NEW f \in TwinFree
  PROVE  /\ Len(f) \in Nat /\ DOMAIN f = 1 .. Len(f)
         /\ IsFiniteSet(Named(f)) /\ Cardinality(Named(f)) = Len(f)
         /\ Named(f) \subseteq Ids /\ f \in Board
<1>1. f \in Seq(Task) /\ Len(f) \in Nat /\ DOMAIN f = 1 .. Len(f)
  BY DEF TwinFree
<1>2. PICK I : I = 1 .. Len(f)
  OBVIOUS
<1>3. PICK N : N = Named(f)
  OBVIOUS
<1>4. PICK g : g = [k \in I |-> f[k].id]
  OBVIOUS
<1>5. g \in Bijection(I, N)
  <2>1. \A k \in I : f[k].id \in N
    BY <1>1, <1>2, <1>3 DEF Named
  <2>2. g \in [I -> N]
    BY <2>1, <1>4
  <2>3. \A x \in N : \E k \in I : g[k] = x
    BY <1>1, <1>2, <1>3, <1>4 DEF Named
  <2>4. \A j, k \in DOMAIN g : g[j] = g[k] => j = k
    BY <1>1, <1>2, <1>4 DEF TwinFree
  <2> QED BY <2>2, <2>3, <2>4 DEF Bijection, Injection, Surjection, IsInjective
<1>6. IsFiniteSet(I) /\ Cardinality(I) = Len(f)
  BY <1>1, <1>2, FS_Interval
<1>7. IsFiniteSet(N) /\ Cardinality(N) = Len(f)
  BY <1>5, <1>6, FS_Bijection DEF ExistsBijection
<1>8. N \subseteq Ids
  <2>1. \A k \in DOMAIN f : f[k] \in Task
    BY <1>1
  <2>2. \A k \in DOMAIN f : f[k].id \in Ids
    BY <2>1 DEF Task
  <2> QED BY <2>2, <1>3 DEF Named
<1>9. Len(f) <= Cardinality(Ids)
  <2>1. IsFiniteSet(Ids) /\ N \in SUBSET Ids
    BY <1>8, EditsType
  <2>2. Cardinality(N) <= Cardinality(Ids)
    BY <2>1, FS_Subset
  <2> QED BY <2>2, <1>7
<1>10. f \in Board
  BY <1>1, <1>9, EditsType, TasksBound, FS_CardinalityType DEF Board
<1> QED BY <1>1, <1>3, <1>7, <1>8, <1>10

\* The board with the more names is the longer one.
LEMMA MoreNames ==
  ASSUME NEW f \in TwinFree, NEW g \in TwinFree, Named(f) \subseteq Named(g)
  PROVE  Len(f) <= Len(g) /\ (Len(f) = Len(g) => Named(f) = Named(g))
BY BoardLength, FS_Subset

LEMMA HasIsNamed == ASSUME NEW f, NEW i PROVE Has(f, i) <=> i \in Named(f)
BY DEF Has, Named

\* What a slice holds.
LEMMA ContentIs ==
  ASSUME NEW h, NEW s \in [at : 1 .. 2, len : Nat], h[s.at] \in Seq(Slots), s.len <= Len(h[s.at])
  PROVE  /\ Content(h, s) \in Seq(Slots) /\ Len(Content(h, s)) = s.len
         /\ DOMAIN Content(h, s) = 1 .. s.len
         /\ \A k \in 1 .. s.len : Content(h, s)[k] = h[s.at][k]
<1>1. PICK n \in Nat : n = s.len
  OBVIOUS
<1>2. PICK a : a = h[s.at]
  OBVIOUS
<1>3. a \in Seq(Slots) /\ n <= Len(a) /\ Len(a) \in Nat /\ DOMAIN a = 1 .. Len(a)
  BY <1>1, <1>2
<1>4. \A k \in 1 .. n : a[k] \in Slots
  BY <1>3
<1>5. 1 \in Int /\ n \in Int
  OBVIOUS
<1>6. /\ SubSeq(a, 1, n) \in Seq(Slots)
      /\ Len(SubSeq(a, 1, n)) = IF 1 <= n THEN n - 1 + 1 ELSE 0
      /\ \A k \in 1 .. n - 1 + 1 : SubSeq(a, 1, n)[k] = a[1 + k - 1]
  BY <1>4, <1>5, SubSeqProperties
<1>7. n - 1 + 1 = n /\ (~ (1 <= n) => n = 0) /\ \A k \in 1 .. n : 1 + k - 1 = k
  OBVIOUS
<1>8. Content(h, s) = SubSeq(a, 1, n)
  BY <1>1, <1>2 DEF Content
<1> QED BY <1>1, <1>2, <1>6, <1>7, <1>8

\* The array made for a board: the board, and what room there is behind it.
LEMMA PaddedIs ==
  ASSUME NEW f \in Board
  PROVE  /\ Padded(f) \in Seq(Slots) /\ Len(Padded(f)) = Capacity(Len(f)) /\ Len(f) <= Len(Padded(f))
         /\ \A k \in 1 .. Len(f) : Padded(f)[k] = f[k]
<1>1. PICK n \in Nat : n = Len(f) /\ n <= MaxTasks
  BY DEF Board
<1>2. MaxTasks \in Nat
  BY TasksBound
<1>3. PICK c \in Nat : c = Capacity(n) /\ n <= c
  <2>1. n \in 0 .. MaxTasks
    BY <1>1, <1>2
  <2> QED BY <2>1, <1>1, CapacityHolds
<1>4. Padded(f) = [i \in 1 .. c |-> IF i <= n THEN f[i] ELSE Unused]
  BY <1>1, <1>3 DEF Padded
<1>5. \A i \in 1 .. n : f[i] \in Slots
  BY <1>1 DEF Board, Slots
<1>6. \A i \in 1 .. c : (IF i <= n THEN f[i] ELSE Unused) \in Slots
  <2> SUFFICES ASSUME NEW i \in 1 .. c PROVE (IF i <= n THEN f[i] ELSE Unused) \in Slots
    OBVIOUS
  <2>1. i <= n => i \in 1 .. n
    BY <1>1
  <2> QED BY <2>1, <1>5 DEF Slots
<1>7. Padded(f) \in Seq(Slots)
  BY <1>3, <1>4, <1>6
<1>8. Len(Padded(f)) = c /\ \A k \in 1 .. n : k \in 1 .. c /\ k <= n /\ Padded(f)[k] = f[k]
  BY <1>1, <1>3, <1>4
<1> QED BY <1>1, <1>3, <1>7, <1>8

\* A slice is the board its array starts with.
StartsWith(a, f) == Len(f) <= Len(a) /\ \A k \in 1 .. Len(f) : a[k] = f[k]

LEMMA ContentOf ==
  ASSUME NEW a \in Seq(Slots), NEW f \in Seq(Task), StartsWith(a, f), NEW h, NEW s, h[s.at] = a, s.len = Len(f)
  PROVE  Content(h, s) = f
<1>1. PICK n \in Nat : n = Len(f)
  OBVIOUS
<1>2. \A k \in 1 .. n : a[k] \in Task /\ a[k] = f[k]
  BY <1>1 DEF StartsWith
<1>3. 1 \in Int /\ n \in Int
  OBVIOUS
<1>4. /\ SubSeq(a, 1, n) \in Seq(Task)
      /\ Len(SubSeq(a, 1, n)) = IF 1 <= n THEN n - 1 + 1 ELSE 0
      /\ \A k \in 1 .. n - 1 + 1 : SubSeq(a, 1, n)[k] = a[1 + k - 1]
  BY <1>2, <1>3, SubSeqProperties
<1>5. n - 1 + 1 = n /\ (~ (1 <= n) => n = 0) /\ \A k \in 1 .. n : 1 + k - 1 = k
  OBVIOUS
<1>6. SubSeq(a, 1, n) = f
  BY <1>1, <1>2, <1>4, <1>5, SeqEqual
<1> QED BY <1>1, <1>6 DEF Content

LEMMA IsSequence ==
  ASSUME NEW S, NEW n \in Nat, NEW s, s = [k \in 1 .. n |-> s[k]], \A k \in 1 .. n : s[k] \in S
  PROVE  s \in Seq(S) /\ Len(s) = n
<1>1. s \in [1 .. n -> S]
  OBVIOUS
<1> QED BY <1>1

LEMMA IxIs == ASSUME NEW f \in Seq(Task), NEW i, Has(f, i) PROVE Ix(f, i) \in DOMAIN f /\ f[Ix(f, i)].id = i
<1>1. PICK L \in Nat : L = Len(f) /\ DOMAIN f = 1 .. L
  OBVIOUS
<1>2. PICK I : I = {k \in 1 .. L : f[k].id = i}
  OBVIOUS
<1>3. I # {} /\ I \subseteq Nat
  BY <1>1, <1>2 DEF Has
<1>4. PICK t : t = SelectInSeq(f, LAMBDA x : x.id = i)
  OBVIOUS
<1>5. t = IF I # {} THEN Min(I) ELSE 0
  BY <1>1, <1>2, <1>4 DEF SelectInSeq
<1>6. \E m \in I : \A k \in I : m <= k
  BY <1>3, LeastNat
<1>7. t \in I
  BY <1>3, <1>5, <1>6 DEF Min
<1> QED BY <1>1, <1>2, <1>4, <1>7 DEF Ix

\* A board with one column changed is a board with the same IDs.
LEMMA SameIds ==
  ASSUME NEW f \in TwinFree, NEW g \in Seq(Task), Len(g) = Len(f), \A k \in 1 .. Len(f) : g[k].id = f[k].id
  PROVE  g \in TwinFree /\ Named(g) = Named(f)
<1>1. DOMAIN f = 1 .. Len(f) /\ DOMAIN g = 1 .. Len(f)
  BY BoardLength
<1> QED BY <1>1 DEF TwinFree, Named

SameButColumns(f, g) == g \in Seq(Task) /\ Len(g) = Len(f) /\ \A k \in 1 .. Len(f) : g[k].id = f[k].id

LEMMA Recoloured ==
  ASSUME NEW f \in Seq(Task), NEW i, Has(f, i), NEW c \in Cols
  PROVE  SameButColumns(f, [f EXCEPT ![Ix(f, i)].col = c])
<1>1. DOMAIN f = 1 .. Len(f) /\ Len(f) \in Nat
  OBVIOUS
<1>2. PICK x : x = Ix(f, i)
  OBVIOUS
<1>3. x \in DOMAIN f
  BY <1>1, <1>2, IxIs
<1>4. PICK g : g = [f EXCEPT ![x].col = c]
  OBVIOUS
<1>5. \A k \in 1 .. Len(f) : g[k] \in Task /\ g[k].id = f[k].id
  <2>1. g[x] = [f[x] EXCEPT !.col = c] /\ f[x] \in Task
    BY <1>1, <1>3, <1>4
  <2>2. g[x] \in Task /\ g[x].id = f[x].id
    BY <2>1 DEF Task
  <2>3. \A k \in 1 .. Len(f) : f[k] \in Task /\ (k # x => g[k] = f[k])
    BY <1>1, <1>4
  <2> QED BY <2>2, <2>3
<1>6. g = [k \in 1 .. Len(f) |-> g[k]]
  BY <1>1, <1>4
<1>7. g \in Seq(Task) /\ Len(g) = Len(f)
  BY <1>1, <1>5, <1>6, IsSequence
<1> QED BY <1>2, <1>4, <1>5, <1>7 DEF SameButColumns

\* The same in an array: every slice of it keeps its IDs.
KeepsIds(h, g) ==
  /\ g \in [1 .. 2 -> Seq(Slots)] /\ \A a \in 1 .. 2 : Len(g[a]) = Len(h[a])
  /\ \A t \in [at : 1 .. 2, len : Nat] :
       t.len <= Len(h[t.at]) /\ Content(h, t) \in Seq(Task) => SameButColumns(Content(h, t), Content(g, t))

LEMMA ArrayRecoloured ==
  ASSUME NEW h \in [1 .. 2 -> Seq(Slots)], NEW c \in Cols, NEW i,
         NEW s \in [at : 1 .. 2, len : Nat], s.len <= Len(h[s.at]), Content(h, s) \in Seq(Task), Has(Content(h, s), i)
  PROVE  KeepsIds(h, [h EXCEPT ![s.at][Ix(Content(h, s), i)].col = c])
<1>1. PICK x : x = Ix(Content(h, s), i)
  OBVIOUS
<1>2. PICK b \in 1 .. 2 : b = s.at
  OBVIOUS
<1>3. PICK n \in Nat : n = s.len
  OBVIOUS
<1>4. PICK old : old = h[b] /\ old \in Seq(Slots) /\ DOMAIN old = 1 .. Len(old) /\ Len(old) \in Nat
  OBVIOUS
<1>5. PICK g : g = [h EXCEPT ![b][x].col = c]
  OBVIOUS
<1>6. PICK new : new = [old EXCEPT ![x].col = c]
  OBVIOUS
<1>7. x \in 1 .. n /\ old[x] \in Task
  <2>2. x \in DOMAIN Content(h, s) /\ Content(h, s)[x] \in Task
    BY <1>1, IxIs
  <2>3. DOMAIN Content(h, s) = 1 .. n /\ \A k \in 1 .. n : Content(h, s)[k] = old[k]
    BY <1>2, <1>3, <1>4, ContentIs
  <2> QED BY <2>2, <2>3
<1>8. x \in DOMAIN old
  BY <1>2, <1>3, <1>4, <1>7
<1>9. DOMAIN new = 1 .. Len(old) /\ new[x] = [old[x] EXCEPT !.col = c] /\ \A k \in 1 .. Len(old) : k # x => new[k] = old[k]
  BY <1>4, <1>6, <1>8
<1>10. new[x] \in Task /\ new[x].id = old[x].id
  BY <1>7, <1>9 DEF Task
<1>11. \A k \in 1 .. Len(old) : new[k] \in Slots /\ (old[k] \in Task => new[k] \in Task /\ new[k].id = old[k].id)
  <2>1. \A k \in 1 .. Len(old) : old[k] \in Slots
    BY <1>4
  <2> QED BY <2>1, <1>9, <1>10 DEF Slots
<1>12. new \in Seq(Slots) /\ Len(new) = Len(old)
  <2>1. new = [k \in 1 .. Len(old) |-> new[k]]
    BY <1>4, <1>6
  <2>2. Len(old) \in Nat /\ \A k \in 1 .. Len(old) : new[k] \in Slots
    BY <1>4, <1>11
  <2> QED BY <2>1, <2>2, IsSequence
<1>13. g[b] = new /\ \A a \in 1 .. 2 : a # b => g[a] = h[a]
  BY <1>4, <1>5, <1>6
<1>14. g \in [1 .. 2 -> Seq(Slots)] /\ \A a \in 1 .. 2 : Len(g[a]) = Len(h[a])
  BY <1>4, <1>5, <1>12, <1>13
<1>15. ASSUME NEW t \in [at : 1 .. 2, len : Nat], t.len <= Len(h[t.at]), Content(h, t) \in Seq(Task)
       PROVE  SameButColumns(Content(h, t), Content(g, t))
  <2>1. g[t.at] \in Seq(Slots) /\ t.len <= Len(g[t.at])
    BY <1>14, <1>15
  <2>2. PICK f, m : f = Content(h, t) /\ m = Content(g, t)
    OBVIOUS
  <2>3. Len(f) = t.len /\ Len(m) = t.len /\ DOMAIN m = 1 .. t.len
    <3>1. t.len <= Len(h[t.at]) /\ h[t.at] \in Seq(Slots)
      BY <1>15
    <3>2. Len(f) = t.len
      BY <3>1, <2>2, ContentIs
    <3>3. Len(m) = t.len /\ DOMAIN m = 1 .. t.len
      BY <2>1, <2>2, ContentIs
    <3> QED BY <3>2, <3>3
  <2>4. \A k \in 1 .. t.len : f[k] = h[t.at][k] /\ m[k] = g[t.at][k]
    <3>1. t.len <= Len(h[t.at]) /\ h[t.at] \in Seq(Slots)
      BY <1>15
    <3>2. \A k \in 1 .. t.len : f[k] = h[t.at][k]
      BY <3>1, <2>2, ContentIs
    <3>3. \A k \in 1 .. t.len : m[k] = g[t.at][k]
      BY <2>1, <2>2, ContentIs
    <3> QED BY <3>2, <3>3
  <2>5. \A k \in 1 .. t.len : f[k] \in Task /\ k \in 1 .. Len(h[t.at])
    BY <2>2, <2>3, <1>15
  <2>6. \A k \in 1 .. t.len : m[k] \in Task /\ m[k].id = f[k].id
    <3>1. CASE t.at = b
      BY <3>1, <2>4, <2>5, <1>4, <1>11, <1>13
    <3>2. CASE t.at # b
      BY <3>2, <2>4, <2>5, <1>13
    <3> QED BY <3>1, <3>2
  <2>7. m \in Seq(Task)
    <3>1. m \in Seq(Slots) /\ t.len \in Nat
      BY <2>1, <2>2, ContentIs
    <3>2. m = [k \in 1 .. t.len |-> m[k]]
      BY <3>1, <2>3
    <3> QED BY <3>1, <3>2, <2>6, IsSequence
  <2> QED BY <2>2, <2>3, <2>6, <2>7 DEF SameButColumns
<1> QED BY <1>1, <1>2, <1>5, <1>14, <1>15 DEF KeepsIds

\* Of the entries with one ID the last: one task for an ID.
LEMMA LatestIs ==
  ASSUME NEW f \in Seq(Task)
  PROVE  /\ Latest(f) \subseteq Task /\ IsFiniteSet(Latest(f))
         /\ \A x, y \in Latest(f) : x.id = y.id => x = y
         /\ \A x \in Latest(f) : Has(f, x.id)
         /\ f \in TwinFree => Latest(f) = {f[k] : k \in DOMAIN f}
<1>1. PICK L \in Nat : L = Len(f) /\ DOMAIN f = 1 .. L
  OBVIOUS
<1>2. PICK D : D = {j \in 1 .. L : \A l \in 1 .. L : l > j => f[l].id # f[j].id}
  OBVIOUS
<1>3. Latest(f) = {f[k] : k \in D} /\ D \subseteq 1 .. L
  BY <1>1, <1>2 DEF Latest
<1>4. IsFiniteSet(Latest(f))
  <2>1. PICK g, R : g = [k \in D |-> f[k]] /\ R = {f[k] : k \in D}
    OBVIOUS
  <2>2. g \in Surjection(D, R)
    BY <2>1 DEF Surjection
  <2>3. IsFiniteSet(1 .. L)
    BY FS_Interval
  <2>4. IsFiniteSet(D)
    BY <2>3, <1>3, FS_Subset
  <2> QED BY <2>1, <2>2, <2>4, <1>3, FS_Surjection
<1>5. ASSUME NEW x \in Latest(f), NEW y \in Latest(f), x.id = y.id PROVE x = y
  <2>1. PICK j \in D, k \in D : x = f[j] /\ y = f[k]
    BY <1>3
  <2>2. ~ (j > k) /\ ~ (k > j)
    BY <2>1, <1>2, <1>3, <1>5
  <2> QED BY <2>1, <2>2, <1>3
<1>6. Latest(f) \subseteq Task /\ \A x \in Latest(f) : Has(f, x.id)
  BY <1>1, <1>3 DEF Has
<1>7. ASSUME f \in TwinFree PROVE Latest(f) = {f[k] : k \in DOMAIN f}
  <2>1. \A j \in 1 .. L : j \in D
    BY <1>1, <1>2, <1>7 DEF TwinFree
  <2> QED BY <2>1, <1>1, <1>3
<1> QED BY <1>4, <1>5, <1>6, <1>7

\* What MergeFromDisk may make of the memory and the file: no twins, whatever the two
\* hold, and every ID of both when they have none either.
LEMMA MergesAre ==
  ASSUME NEW old \in Seq(Task), NEW new \in Seq(Task), NEW f \in Merges(old, new)
  PROVE  /\ f \in TwinFree
         /\ old \in TwinFree /\ new \in TwinFree => Named(f) = Named(old) \cup Named(new)
<1>1. PICK A, B : A = Latest(new) /\ B = {x \in Latest(old) : ~ Has(new, x.id)}
  OBVIOUS
<1>2. PICK T : T = A \cup B
  OBVIOUS
<1>3. PICK n : n = Cardinality(T)
  OBVIOUS
<1>4. f \in [1 .. n -> T] /\ IsInjective(f)
  BY <1>1, <1>2, <1>3 DEF Merges, MapOrders
<1>5. IsFiniteSet(A) /\ IsFiniteSet(B)
  BY <1>1, LatestIs, FS_Subset
<1>6. IsFiniteSet(T) /\ n \in Nat
  BY <1>2, <1>3, <1>5, FS_Union, FS_CardinalityType
<1>7. \A x \in T : \E k \in 1 .. n : f[k] = x
  <2>1. f \in Injection(1 .. n, T)
    BY <1>4 DEF Injection
  <2>2. IsFiniteSet(1 .. n) /\ Cardinality(1 .. n) = n
    BY <1>6, FS_Interval
  <2>3. f \in Surjection(1 .. n, T)
    BY <2>1, <2>2, <1>3, <1>6, FS_Injection
  <2> QED BY <2>3 DEF Surjection
<1>8. T \subseteq Task
  BY <1>1, <1>2, LatestIs
<1>9. f \in Seq(Task) /\ DOMAIN f = 1 .. n
  <2>1. f = [k \in 1 .. n |-> f[k]] /\ \A k \in 1 .. n : f[k] \in Task
    BY <1>4, <1>8
  <2> QED BY <2>1, <1>4, <1>6, IsSequence
\* Two tasks of the union with one ID are the same task.
<1>10. ASSUME NEW x \in T, NEW y \in T, x.id = y.id PROVE x = y
  <2>1. CASE x \in A /\ y \in A
    BY <2>1, <1>1, <1>10, LatestIs
  <2>2. CASE x \in B /\ y \in B
    BY <2>2, <1>1, <1>10, LatestIs
  <2>3. ASSUME NEW u \in A, NEW v \in B PROVE u.id # v.id
    <3>1. Has(new, u.id) /\ ~ Has(new, v.id)
      BY <1>1, LatestIs
    <3> QED BY <3>1
  <2> QED BY <2>1, <2>2, <2>3, <1>2, <1>10
<1>11. \A j, k \in DOMAIN f : f[j].id = f[k].id => j = k
  BY <1>4, <1>9, <1>10 DEF IsInjective
<1>12. ASSUME old \in TwinFree, new \in TwinFree PROVE Named(f) = Named(old) \cup Named(new)
  <2>1. A = {new[k] : k \in DOMAIN new} /\ B = {x \in {old[k] : k \in DOMAIN old} : ~ Has(new, x.id)}
    BY <1>1, <1>12, LatestIs
  <2>2. Named(f) = {x.id : x \in T}
    BY <1>4, <1>7, <1>9 DEF Named
  <2>3. {x.id : x \in A} = Named(new)
    BY <2>1 DEF Named
  <2>4. {x.id : x \in B} \subseteq Named(old)
    BY <2>1 DEF Named
  <2>5. ASSUME NEW k \in DOMAIN old PROVE old[k].id \in Named(new) \cup {x.id : x \in B}
    <3>1. CASE Has(new, old[k].id)
      BY <3>1 DEF Has, Named
    <3>2. CASE ~ Has(new, old[k].id)
      BY <3>2, <2>1
    <3> QED BY <3>1, <3>2
  <2>6. Named(old) \subseteq Named(new) \cup {x.id : x \in B}
    BY <2>5 DEF Named
  <2>7. {x.id : x \in T} = {x.id : x \in A} \cup {x.id : x \in B}
    BY <1>2
  <2> QED BY <2>2, <2>3, <2>4, <2>6, <2>7
<1> QED BY <1>9, <1>11, <1>12 DEF TwinFree

\* Tasks written over an array leave tasks where there were tasks.
LEMMA OverlaidIs ==
  ASSUME NEW a \in Seq(Slots), NEW f \in Seq(Task)
  PROVE  /\ Overlaid(a, f) \in Seq(Slots) /\ Len(Overlaid(a, f)) = Len(a)
         /\ \A k \in 1 .. Len(a) : /\ k <= Len(f) => Overlaid(a, f)[k] = f[k]
                                   /\ a[k] \in Task => Overlaid(a, f)[k] \in Task
<1>1. PICK n \in Nat, m \in Nat : n = Len(a) /\ DOMAIN a = 1 .. n /\ m = Len(f) /\ DOMAIN f = 1 .. m
  OBVIOUS
<1>2. PICK g : g = Overlaid(a, f)
  OBVIOUS
<1>3. g = [i \in 1 .. n |-> IF i <= m THEN f[i] ELSE a[i]]
  BY <1>1, <1>2 DEF Overlaid
<1>4. ASSUME NEW k \in 1 .. n
      PROVE  g[k] \in Slots /\ (k <= m => g[k] = f[k]) /\ (a[k] \in Task => g[k] \in Task)
  <2>1. a[k] \in Slots /\ (k <= m => f[k] \in Task)
    BY <1>1
  <2>2. g[k] = IF k <= m THEN f[k] ELSE a[k]
    BY <1>3
  <2> QED BY <2>1, <2>2 DEF Slots
<1>5. g = [k \in 1 .. n |-> g[k]] /\ \A k \in 1 .. n : g[k] \in Slots
  BY <1>3, <1>4
<1>6. g \in Seq(Slots) /\ Len(g) = n
  BY <1>5, IsSequence
<1> QED BY <1>1, <1>2, <1>4, <1>6

\* The merged board in the store's own array while there is room, else in a fresh one;
\* the other slice's array keeps its length and its tasks, or new ones in their place.
IsRewritten(h, s, o, f, w) ==
  /\ w[1] \in [1 .. 2 -> Seq(Slots)] /\ w[2] \in Slice
  /\ w[2].len = Len(f) /\ Len(f) <= Len(w[1][w[2].at]) /\ Content(w[1], w[2]) = f
  /\ Len(w[1][o.at]) = Len(h[o.at])
  /\ \A k \in 1 .. Len(h[o.at]) : h[o.at][k] \in Task => w[1][o.at][k] \in Task
  /\ o.at # s.at => w[1][o.at] = h[o.at] /\ w[2].at # o.at
  /\ o.at = s.at /\ Len(f) <= Len(h[s.at]) => w[2].at = o.at

LEMMA RewrittenIs ==
  ASSUME NEW h \in [1 .. 2 -> Seq(Slots)], NEW s \in Slice, NEW o \in Slice,
         NEW f \in Board, NEW w, w = Rewritten(h, s, o, f)
  PROVE  IsRewritten(h, s, o, f, w)
<1>1. f \in Seq(Task) /\ Len(f) \in Nat /\ Len(f) <= MaxTasks
  BY DEF Board
<1>2. /\ s \in [at : 1 .. 2, len : Nat] /\ s.len <= MaxTasks
      /\ o \in [at : 1 .. 2, len : Nat] /\ o.len <= MaxTasks
  BY SliceIs
<1>3. PICK old : old = h[s.at] /\ old \in Seq(Slots) /\ Len(old) \in Nat
  BY <1>2
<1>4. PICK mid : mid = Overlaid(old, f)
  OBVIOUS
<1>5. /\ mid \in Seq(Slots) /\ Len(mid) = Len(old)
      /\ \A k \in 1 .. Len(old) : (k <= Len(f) => mid[k] = f[k]) /\ (old[k] \in Task => mid[k] \in Task)
  BY <1>1, <1>3, <1>4, OverlaidIs
<1>6. PICK g : g = [h EXCEPT ![s.at] = mid]
  OBVIOUS
<1>7. g \in [1 .. 2 -> Seq(Slots)] /\ g[s.at] = mid /\ \A a \in 1 .. 2 : a # s.at => g[a] = h[a]
  BY <1>2, <1>5, <1>6
<1>8. g = [h EXCEPT ![s.at] = Overlaid(@, f)]
  BY <1>2, <1>3, <1>4, <1>6
\* The array of the other slice after the tasks were written, and before the slice moved.
<1>9. /\ Len(g[o.at]) = Len(h[o.at])
      /\ \A k \in 1 .. Len(h[o.at]) : h[o.at][k] \in Task => g[o.at][k] \in Task
      /\ o.at # s.at => g[o.at] = h[o.at]
  <2>1. CASE o.at = s.at
    BY <2>1, <1>3, <1>5, <1>7
  <2>2. CASE o.at # s.at
    BY <2>2, <1>2, <1>7
  <2> QED BY <2>1, <2>2
<1>10. CASE Len(f) <= Len(old)
  <2>1. PICK t : t = [s EXCEPT !.len = Len(f)]
    OBVIOUS
  <2>2. w[1] = g /\ w[2] = t
    BY <2>1, <1>3, <1>8, <1>10 DEF Rewritten
  <2>3. t \in [at : 1 .. 2, len : Nat] /\ t.at = s.at /\ t.len = Len(f)
    BY <2>1, <1>1, <1>2
  <2>4. t \in Slice
    BY <2>3, <1>1, SliceIs
  <2>5. Content(g, t) = f
    <3>1. f \in Seq(Task) /\ mid \in Seq(Slots) /\ StartsWith(mid, f)
      BY <1>1, <1>3, <1>5, <1>10 DEF StartsWith
    <3>2. g[t.at] = mid /\ t.len = Len(f)
      BY <2>3, <1>7
    <3> QED BY ONLY <3>1, <3>2, ContentOf
  <2>6. Len(f) <= Len(g[t.at])
    BY <2>3, <1>5, <1>7, <1>10
  <2>7. (o.at # s.at => t.at # o.at) /\ (o.at = s.at => t.at = o.at)
    BY <2>3
  <2> QED BY <2>2, <2>3, <2>4, <2>5, <2>6, <2>7, <1>7, <1>9 DEF IsRewritten
<1>11. CASE ~ (Len(f) <= Len(old))
  <2>1. PICK new : new = Padded(f)
    OBVIOUS
  <2>2. PICK b \in 1 .. 2 : b = 3 - o.at /\ b # o.at
    BY <1>2, SMT
  <2>3. PICK r : r = [g EXCEPT ![b] = new]
    OBVIOUS
  <2>4. PICK t : t = [at |-> b, len |-> Len(f)]
    OBVIOUS
  <2>5. w[1] = r /\ w[2] = t
    BY <2>1, <2>2, <2>3, <2>4, <1>3, <1>8, <1>11 DEF Rewritten, Fresh
  <2>6. new \in Seq(Slots) /\ Len(f) <= Len(new) /\ \A k \in 1 .. Len(f) : new[k] = f[k]
    BY <2>1, PaddedIs
  <2>7. t \in [at : 1 .. 2, len : Nat] /\ t.at = b /\ t.len = Len(f)
    BY <2>4, <1>1
  <2>8. t \in Slice
    BY <2>7, <1>1, SliceIs
  <2>9. r \in [1 .. 2 -> Seq(Slots)] /\ r[t.at] = new /\ r[o.at] = g[o.at]
    BY <2>2, <2>3, <2>6, <2>7, <1>2, <1>7
  <2>10. Content(r, t) = f
    <3>1. f \in Seq(Task) /\ new \in Seq(Slots) /\ StartsWith(new, f)
      BY <2>6, <1>1 DEF StartsWith
    <3>2. r[t.at] = new /\ t.len = Len(f)
      BY <2>7, <2>9
    <3> QED BY ONLY <3>1, <3>2, ContentOf
  <2>11. t.at # o.at /\ ~ (Len(f) <= Len(h[s.at]))
    BY <2>2, <2>7, <1>3, <1>11
  <2> QED BY <2>5, <2>6, <2>7, <2>8, <2>9, <2>10, <2>11, <1>9 DEF IsRewritten
<1> QED BY <1>10, <1>11

-----------------------------------------------------------------------------
\* What the steps do to the copies, whatever they hold.

SlicesOK(h, r, m) ==
  /\ h \in [1 .. 2 -> Seq(Slots)] /\ r \in Slice /\ m \in Slice
  /\ r.len <= Len(h[r.at]) /\ Content(h, r) \in Seq(Task)
  /\ m.len <= Len(h[m.at]) /\ Content(h, m) \in Seq(Task)

LEMMA TypeIs ==
  ASSUME StoreTypeOK
  PROVE  /\ SlicesOK(heap, run, mem) /\ disk \in Board
         /\ heap \in [1 .. 2 -> Seq(Slots)]
         /\ run \in [at : 1 .. 2, len : Nat] /\ run.len <= Len(heap[run.at])
         /\ mem \in [at : 1 .. 2, len : Nat] /\ mem.len <= Len(heap[mem.at])
BY SliceIs DEF StoreTypeOK, SlicesOK, Slots, Board

\* What was read is nothing, or a board.
LEMMA ReadIs ==
  /\ IsRead(<<>>)
  /\ \A f \in Board : IsRead(<<f>>) /\ <<f>>[1] = f
  /\ \A r : IsRead(r) /\ r # <<>> => r[1] \in Board
<1>1. IsRead(<<>>)
  <2>1. <<>> \in Seq(Seq(Task)) /\ Len(<<>>) = 0 /\ DOMAIN <<>> = {}
    OBVIOUS
  <2> QED BY <2>1 DEF IsRead
<1>2. ASSUME NEW f \in Board PROVE IsRead(<<f>>) /\ <<f>>[1] = f
  <2>1. f \in Seq(Task) /\ Len(f) <= MaxTasks
    BY DEF Board
  <2>2. PICK r : r = <<f>>
    OBVIOUS
  <2>3. r \in Seq(Seq(Task)) /\ Len(r) = 1 /\ r[1] = f /\ DOMAIN r = {1}
    BY <2>1, <2>2
  <2> QED BY <2>1, <2>2, <2>3 DEF IsRead
<1>3. ASSUME NEW r, IsRead(r), r # <<>> PROVE r[1] \in Board
  <2>1. r \in Seq(Seq(Task)) /\ \A k \in DOMAIN r : Len(r[k]) <= MaxTasks
    BY <1>3 DEF IsRead
  <2>2. 1 \in DOMAIN r
    BY <2>1, <1>3
  <2> QED BY <2>1, <2>2 DEF Board
<1> QED BY <1>1, <1>2, <1>3

LEMMA SliceLength ==
  ASSUME StoreTypeOK, NEW s \in {run, mem}
  PROVE  s.len \in Nat /\ Len(Content(heap, s)) = s.len /\ Content(heap, s) \in Seq(Task)
<1>1. heap[s.at] \in Seq(Slots) /\ s \in [at : 1 .. 2, len : Nat] /\ s.len <= Len(heap[s.at])
  BY TypeIs
<1>2. Content(heap, s) \in Seq(Task)
  BY DEF StoreTypeOK
<1> QED BY <1>1, <1>2, ContentIs

\* A slice over tasks holds tasks.
LEMMA TasksThere ==
  ASSUME NEW h, NEW s \in [at : 1 .. 2, len : Nat], h[s.at] \in Seq(Slots), s.len <= Len(h[s.at]),
         \A k \in 1 .. s.len : h[s.at][k] \in Task
  PROVE  Content(h, s) \in Seq(Task)
<1>1. PICK c, n : c = Content(h, s) /\ n = s.len /\ n \in Nat
  OBVIOUS
<1>2. c \in Seq(Slots) /\ Len(c) = n /\ DOMAIN c = 1 .. n /\ \A k \in 1 .. n : c[k] = h[s.at][k]
  BY <1>1, ContentIs
<1>3. c = [k \in 1 .. n |-> c[k]] /\ \A k \in 1 .. n : c[k] \in Task
  BY <1>1, <1>2
<1> QED BY <1>1, <1>3, IsSequence

\* An array that a step leaves alone holds what it held.
LEMMA SameArray == ASSUME NEW g, NEW h, NEW s, g[s.at] = h[s.at] PROVE Content(g, s) = Content(h, s)
BY DEF Content

LEMMA FreshIs ==
  ASSUME NEW s \in [at : 1 .. 2, len : Nat]
  PROVE  Fresh(s) \in 1 .. 2 /\ Fresh(s) # s.at /\ \A a \in 1 .. 2 : a # s.at => a = Fresh(s)
BY DEF Fresh

\* The rest of MergeFromDisk.
LEMMA MergeDoes ==
  ASSUME StoreTypeOK, Merge
  PROVE  \E f \in TwinFree :
           /\ f \in Merges(Content(heap, mem), read[1]) /\ disk' = f
           /\ SlicesOK(heap', run', mem') /\ Content(heap', mem') = f /\ mem'.len = Len(f)
           /\ clipped' = (clipped \/ (pc = "wave" /\ run.at = mem.at /\ Len(f) > run.len))
           /\ \/ pc = "top" /\ pc' = "wave" /\ Content(heap', run') = f /\ run'.at # mem'.at /\ took' = Named(f)
              \/ /\ pc = "wave" /\ pc' = pc /\ run' = run /\ took' = took
                 /\ run.at # mem.at => heap'[run.at] = heap[run.at] /\ mem'.at # run.at
                 /\ run.at = mem.at /\ Len(f) <= Len(heap[run.at]) => mem'.at = run.at
<1>1. /\ heap \in [1 .. 2 -> Seq(Slots)] /\ run \in Slice /\ mem \in Slice
      /\ run \in [at : 1 .. 2, len : Nat] /\ run.len <= Len(heap[run.at])
      /\ Content(heap, run) \in Seq(Task) /\ Content(heap, mem) \in Seq(Task)
  BY TypeIs DEF SlicesOK
<1>2. read[1] \in Seq(Task)
  BY ReadIs DEF StoreTypeOK, Merge, Board
<1>3. PICK f \in Merges(Content(heap, mem), read[1]) :
        /\ disk' = f
        /\ mem' = Rewritten(heap, mem, run, f)[2]
        /\ clipped' = (clipped \/ (pc = "wave" /\ run.at = mem.at /\ Len(f) > run.len))
        /\ IF pc = "top"
           THEN /\ run' = [at |-> Fresh(mem'), len |-> Len(f)]
                /\ heap' = [Rewritten(heap, mem, run, f)[1] EXCEPT ![run'.at] = Padded(f)]
                /\ pc' = "wave" /\ took' = Named(f)
           ELSE heap' = Rewritten(heap, mem, run, f)[1] /\ UNCHANGED <<run, pc, took>>
  BY DEF Merge
<1>4. f \in TwinFree /\ f \in Board /\ f \in Seq(Task) /\ Len(f) \in Nat /\ Len(f) <= MaxTasks
  BY <1>1, <1>2, MergesAre, BoardLength DEF TwinFree, Board
<1>5. PICK w : w = Rewritten(heap, mem, run, f)
  OBVIOUS
<1>6. PICK g, t : g = w[1] /\ t = w[2]
  OBVIOUS
<1>7. /\ g \in [1 .. 2 -> Seq(Slots)] /\ t \in Slice
      /\ t.len = Len(f) /\ Len(f) <= Len(g[t.at]) /\ Content(g, t) = f
      /\ Len(g[run.at]) = Len(heap[run.at])
      /\ \A k \in 1 .. Len(heap[run.at]) : heap[run.at][k] \in Task => g[run.at][k] \in Task
      /\ run.at # mem.at => g[run.at] = heap[run.at] /\ t.at # run.at
      /\ run.at = mem.at /\ Len(f) <= Len(heap[mem.at]) => t.at = run.at
  <2>1. IsRewritten(heap, mem, run, f, w)
    BY ONLY <1>1, <1>4, <1>5, RewrittenIs
  <2> QED BY <2>1, <1>6 DEF IsRewritten
<1>8. mem' = t /\ t \in [at : 1 .. 2, len : Nat]
  BY <1>3, <1>5, <1>6, <1>7, SliceIs
<1>9. CASE pc = "top"
  <2>1. PICK b \in 1 .. 2 : b = Fresh(t) /\ b # t.at
    BY <1>8, FreshIs
  <2>2. run' = [at |-> b, len |-> Len(f)] /\ heap' = [g EXCEPT ![b] = Padded(f)] /\ pc' = "wave" /\ took' = Named(f)
    BY <2>1, <1>3, <1>5, <1>6, <1>8, <1>9
  <2>3. run' \in [at : 1 .. 2, len : Nat] /\ run'.at = b /\ run'.len = Len(f)
    BY <2>2, <1>4
  <2>4. run' \in Slice
    BY <2>3, <1>4, SliceIs
  <2>5. /\ Padded(f) \in Seq(Slots) /\ Len(f) <= Len(Padded(f))
        /\ \A k \in 1 .. Len(f) : Padded(f)[k] = f[k]
    BY <1>4, PaddedIs
  <2>6. heap' \in [1 .. 2 -> Seq(Slots)] /\ heap'[b] = Padded(f) /\ heap'[t.at] = g[t.at]
    BY <2>1, <2>2, <2>5, <1>7, <1>8
  <2>7. Content(heap', run') = f
    <3>1. heap'[run'.at] = Padded(f) /\ run'.len = Len(f)
      BY <2>3, <2>6
    <3>2. f \in Seq(Task) /\ Padded(f) \in Seq(Slots) /\ StartsWith(Padded(f), f)
      BY <2>5, <1>4 DEF StartsWith
    <3> QED BY ONLY <3>1, <3>2, ContentOf
  <2>8. Content(heap', mem') = f
    BY <2>6, <1>7, <1>8, SameArray
  <2>9. SlicesOK(heap', run', mem')
    BY <2>3, <2>4, <2>5, <2>6, <2>7, <2>8, <1>4, <1>7, <1>8 DEF SlicesOK
  <2>10. run'.at # mem'.at /\ mem'.len = Len(f)
    BY <2>1, <2>3, <1>7, <1>8
  <2> QED BY <2>2, <2>7, <2>8, <2>9, <2>10, <1>3, <1>4, <1>9
<1>10. CASE pc # "top"
  <2>1. heap' = g /\ run' = run /\ pc' = pc /\ took' = took /\ pc = "wave"
    <3>1. heap' = g
      BY <1>3, <1>5, <1>6, <1>10
    <3>2. run' = run /\ pc' = pc /\ took' = took
      BY <1>3, <1>10
    <3>3. pc = "wave"
      BY <1>10 DEF StoreTypeOK
    <3> QED BY <3>1, <3>2, <3>3
  <2>2. Content(g, run) \in Seq(Task)
    <3>1. \A k \in 1 .. run.len : heap[run.at][k] \in Task
      <4>1. PICK c : c = Content(heap, run) /\ c \in Seq(Task)
        BY <1>1
      <4>2. DOMAIN c = 1 .. run.len /\ \A k \in 1 .. run.len : c[k] = heap[run.at][k]
        <5>1. /\ run \in [at : 1 .. 2, len : Nat] /\ run.len <= Len(heap[run.at])
              /\ heap[run.at] \in Seq(Slots)
          BY <1>1
        <5> QED BY ONLY <5>1, <4>1, ContentIs
      <4>3. \A k \in DOMAIN c : c[k] \in Task
        BY ONLY <4>1
      <4> QED BY ONLY <4>2, <4>3
    <3>2. \A k \in 1 .. run.len : k \in 1 .. Len(heap[run.at])
      BY <1>1
    <3>3. \A k \in 1 .. run.len : g[run.at][k] \in Task
      BY <3>1, <3>2, <1>7
    <3>4. g[run.at] \in Seq(Slots) /\ run.len <= Len(g[run.at])
      BY <1>1, <1>7
    <3> QED BY <3>3, <3>4, <1>1, TasksThere
  <2>3. SlicesOK(heap', run', mem')
    BY <2>1, <2>2, <1>1, <1>4, <1>7, <1>8 DEF SlicesOK
  <2>4. Content(heap', mem') = f /\ mem'.len = Len(f)
    BY <2>1, <1>7, <1>8
  <2>5. /\ run.at # mem.at => heap'[run.at] = heap[run.at] /\ mem'.at # run.at
        /\ run.at = mem.at /\ Len(f) <= Len(heap[run.at]) => mem'.at = run.at
    BY <2>1, <1>7, <1>8
  <2> QED BY <2>1, <2>3, <2>4, <2>5, <1>3, <1>4
<1> QED BY <1>9, <1>10

\* UpdateTask and handlePatchTask, where the task is there.
LEMMA ColumnChanges ==
  ASSUME StoreTypeOK, NEW s \in {run, mem}, NEW i, NEW c \in Cols, Has(Content(heap, s), i),
         heap' = [heap EXCEPT ![s.at][Ix(Content(heap, s), i)].col = c], UNCHANGED <<run, mem>>
  PROVE  /\ SlicesOK(heap', run', mem')
         /\ SameButColumns(Content(heap, run), Content(heap', run'))
         /\ SameButColumns(Content(heap, mem), Content(heap', mem'))
<1>1. \A t \in {run, mem} : t \in [at : 1 .. 2, len : Nat] /\ t.len <= Len(heap[t.at]) /\ Content(heap, t) \in Seq(Task)
  BY TypeIs DEF SlicesOK
<1>2. PICK g : g = [heap EXCEPT ![s.at][Ix(Content(heap, s), i)].col = c]
  OBVIOUS
<1>3. heap \in [1 .. 2 -> Seq(Slots)] /\ run \in Slice /\ mem \in Slice
  BY TypeIs DEF SlicesOK
<1>4. KeepsIds(heap, g)
  BY <1>1, <1>2, <1>3, ArrayRecoloured
<1>5. heap' = g /\ run' = run /\ mem' = mem
  BY <1>2
<1>6. \A t \in {run, mem} : t.len <= Len(g[t.at]) /\ SameButColumns(Content(heap, t), Content(g, t))
  BY <1>1, <1>4 DEF KeepsIds
<1>7. g \in [1 .. 2 -> Seq(Slots)]
  BY <1>4 DEF KeepsIds
<1> QED BY <1>3, <1>5, <1>6, <1>7 DEF SlicesOK, SameButColumns

\* append: in place or in an array of its own, the other slice keeps its tasks unless it
\* reaches into the room behind this one.
LEMMA AppendedIs ==
  ASSUME NEW h, NEW s, NEW o, SlicesOK(h, o, s), NEW x \in Task, s.len < MaxTasks, NEW w, w = Appended(h, s, o, x)
  PROVE  /\ SlicesOK(w[1], o, w[2]) /\ w[2].len = s.len + 1
         /\ Content(w[1], w[2]) = Append(Content(h, s), x)
         /\ (o.at = s.at => o.len <= s.len) => Content(w[1], o) = Content(h, o)
         /\ w[2].at = o.at => s.at = o.at
<1>1. /\ h \in [1 .. 2 -> Seq(Slots)] /\ o \in Slice
      /\ s \in [at : 1 .. 2, len : Nat] /\ s.len <= Len(h[s.at])
      /\ o \in [at : 1 .. 2, len : Nat] /\ o.len <= Len(h[o.at])
  BY SliceIs DEF SlicesOK
<1>2. PICK b \in 1 .. 2, n \in Nat : b = s.at /\ n = s.len
  BY <1>1
<1>3. PICK M, R : M = Content(h, s) /\ R = Content(h, o)
  OBVIOUS
<1>4. /\ M \in Seq(Task) /\ Len(M) = n /\ \A k \in 1 .. n : M[k] = h[b][k]
      /\ R \in Seq(Task) /\ Len(R) = o.len /\ \A k \in 1 .. o.len : R[k] = h[o.at][k]
  <2>1. M \in Seq(Task) /\ R \in Seq(Task)
    BY <1>3 DEF SlicesOK
  <2>2. Len(M) = n /\ \A k \in 1 .. n : M[k] = h[b][k]
    BY <1>1, <1>2, <1>3, ContentIs
  <2>3. Len(R) = o.len /\ \A k \in 1 .. o.len : R[k] = h[o.at][k]
    BY <1>1, <1>3, ContentIs
  <2> QED BY <2>1, <2>2, <2>3
<1>5. PICK A : A = Append(M, x)
  OBVIOUS
<1>6. /\ A \in Seq(Task) /\ Len(A) = n + 1 /\ A[n + 1] = x /\ \A k \in 1 .. n : A[k] = M[k]
      /\ A \in Board
  <2>1. A \in Seq(Task) /\ Len(A) = n + 1 /\ A[n + 1] = x /\ \A k \in 1 .. n : A[k] = M[k]
    BY <1>4, <1>5
  <2>2. n + 1 <= MaxTasks
    BY <1>2, TasksBound
  <2> QED BY <2>1, <2>2 DEF Board
<1>7. CASE n < Len(h[b])
  <2>1. PICK g, t : g = [h EXCEPT ![b][n + 1] = x] /\ t = [s EXCEPT !.len = n + 1]
    OBVIOUS
  <2>2. w[1] = g /\ w[2] = t
    BY <2>1, <1>1, <1>2, <1>7 DEF Appended
  <2>3. t \in [at : 1 .. 2, len : Nat] /\ t.at = b /\ t.len = n + 1
    BY <2>1, <1>1, <1>2
  <2>4. t \in Slice
    BY <2>3, <1>2, TasksBound, SliceIs
  <2>5. PICK old : old = h[b] /\ old \in Seq(Slots) /\ Len(old) \in Nat /\ DOMAIN old = 1 .. Len(old)
    BY <1>1
  <2>6. PICK new : new = [old EXCEPT ![n + 1] = x]
    OBVIOUS
  <2>7. n + 1 \in 1 .. Len(old) /\ x \in Slots
    BY <2>5, <1>7 DEF Slots
  <2>8. /\ new \in Seq(Slots) /\ Len(new) = Len(old) /\ new[n + 1] = x
        /\ \A k \in 1 .. Len(old) : k # n + 1 => new[k] = old[k]
    BY <2>5, <2>6, <2>7
  <2>9. g[b] = new /\ g \in [1 .. 2 -> Seq(Slots)] /\ \A a \in 1 .. 2 : a # b => g[a] = h[a]
    BY <2>1, <2>5, <2>6, <2>8, <1>1
  <2>10. Content(g, t) = A
    <3>1. \A k \in 1 .. n : k \in 1 .. Len(old) /\ k # n + 1
      BY <2>5, <2>7
    <3>2. \A k \in 1 .. n + 1 : new[k] = A[k]
      BY <3>1, <2>5, <2>8, <1>4, <1>6
    <3>3. A \in Seq(Task) /\ new \in Seq(Slots) /\ StartsWith(new, A) /\ g[t.at] = new /\ t.len = Len(A)
      BY <3>2, <2>3, <2>7, <2>8, <2>9, <1>6 DEF StartsWith
    <3> QED BY ONLY <3>3, ContentOf
  <2>11. /\ o.len <= Len(g[o.at]) /\ Content(g, o) \in Seq(Task)
         /\ (o.at = b => o.len <= n) => Content(g, o) = R
    <3>1. CASE o.at # b
      <4>1. g[o.at] = h[o.at]
        BY <3>1, <2>9, <1>1
      <4>2. Content(g, o) = R
        BY <4>1, <1>3, SameArray
      <4>3. o.len <= Len(g[o.at]) /\ R \in Seq(Task)
        BY <4>1, <1>1, <1>4
      <4> QED BY <4>2, <4>3
    <3>2. CASE o.at = b
      <4>1. o.len <= Len(new) /\ \A k \in 1 .. o.len : k \in 1 .. Len(old)
        BY <3>2, <2>5, <2>8, <1>1
      <4>2. \A k \in 1 .. o.len : old[k] \in Task /\ old[k] = R[k]
        <5>1. old = h[o.at] /\ \A k \in 1 .. o.len : R[k] = h[o.at][k]
          BY <3>2, <2>5, <1>4
        <5>2. \A k \in 1 .. o.len : R[k] \in Task
          <6>1. R \in Seq(Task) /\ Len(R) = o.len
            BY <1>4
          <6> QED BY ONLY <6>1
        <5> QED BY ONLY <5>1, <5>2
      <4>3. \A k \in 1 .. o.len : new[k] \in Task
        BY <4>1, <4>2, <2>8
      <4>4. Content(g, o) \in Seq(Task)
        BY <3>2, <4>1, <4>3, <2>8, <2>9, <1>1, TasksThere
      <4>5. ASSUME o.len <= n PROVE Content(g, o) = R
        <5>1. \A k \in 1 .. o.len : k # n + 1
          BY <4>5, <1>1, <1>2
        <5>2. \A k \in 1 .. o.len : new[k] = R[k]
          BY <5>1, <4>1, <4>2, <2>8
        <5>3. R \in Seq(Task) /\ new \in Seq(Slots) /\ StartsWith(new, R) /\ g[o.at] = new /\ o.len = Len(R)
          BY <3>2, <4>1, <5>2, <2>8, <2>9, <1>4 DEF StartsWith
        <5> QED BY ONLY <5>3, ContentOf
      <4> QED BY <3>2, <4>1, <4>4, <4>5, <2>9
    <3> QED BY <3>1, <3>2
  <2>12. t.len <= Len(g[t.at])
    BY <2>3, <2>7, <2>8, <2>9
  <2>13. SlicesOK(g, o, t)
    BY <2>4, <2>9, <2>10, <2>11, <2>12, <1>1, <1>6 DEF SlicesOK
  <2> QED BY <2>2, <2>3, <2>10, <2>11, <2>13, <1>2, <1>3, <1>5
<1>8. CASE ~ (n < Len(h[b]))
  <2>1. PICK d \in 1 .. 2 : d = Fresh(o) /\ d # o.at
    BY <1>1, FreshIs
  <2>2. PICK g, t : g = [h EXCEPT ![d] = Padded(A)] /\ t = [at |-> d, len |-> n + 1]
    OBVIOUS
  <2>3. w[1] = g /\ w[2] = t
    BY <2>1, <2>2, <1>2, <1>3, <1>5, <1>8 DEF Appended, Grown
  <2>4. t \in [at : 1 .. 2, len : Nat] /\ t.at = d /\ t.len = n + 1
    BY <2>2
  <2>5. t \in Slice
    BY <2>4, <1>2, TasksBound, SliceIs
  <2>6. Padded(A) \in Seq(Slots) /\ Len(A) <= Len(Padded(A)) /\ \A k \in 1 .. Len(A) : Padded(A)[k] = A[k]
    BY <1>6, PaddedIs
  <2>7. g \in [1 .. 2 -> Seq(Slots)] /\ g[d] = Padded(A) /\ g[o.at] = h[o.at]
    BY <2>1, <2>2, <2>6, <1>1
  <2>8. Content(g, t) = A
    <3>1. A \in Seq(Task) /\ g[t.at] = Padded(A) /\ t.len = Len(A)
      BY <2>4, <2>7, <1>6
    <3>2. Padded(A) \in Seq(Slots) /\ StartsWith(Padded(A), A)
      BY <2>6 DEF StartsWith
    <3> QED BY ONLY <3>1, <3>2, ContentOf
  <2>9. Content(g, o) = R
    BY <2>7, <1>3, SameArray
  <2>10. t.len <= Len(g[t.at])
    BY <2>4, <2>6, <2>7, <1>6
  <2>11. SlicesOK(g, o, t)
    BY <2>5, <2>7, <2>8, <2>9, <2>10, <1>1, <1>4, <1>6 DEF SlicesOK
  <2> QED BY <2>1, <2>3, <2>4, <2>8, <2>9, <2>11, <1>2, <1>3, <1>5
<1> QED BY <1>7, <1>8

\* handleAddTask.
LEMMA PostDoes ==
  ASSUME StoreTypeOK, NEW i \in Ids, NEW c \in Cols, Post(i, c)
  PROVE  /\ SlicesOK(heap', run', mem') /\ run' = run /\ disk' = Content(heap', mem')
         /\ ~ Has(Content(heap, mem), i) /\ mem'.len = mem.len + 1
         /\ Content(heap', mem') = Append(Content(heap, mem), [id |-> i, col |-> c])
         /\ (run.at = mem.at => run.len <= mem.len) => Content(heap', run') = Content(heap, run)
         /\ mem'.at = run.at => run.at = mem.at
<1>1. PICK x : x = [id |-> i, col |-> c] /\ x \in Task
  <2>1. [id |-> i, col |-> c] \in Task
    BY Zenon DEF Task
  <2> QED BY <2>1
<1>2. PICK w : w = Appended(heap, mem, run, x)
  OBVIOUS
<1>3. heap' = w[1] /\ mem' = w[2] /\ run' = run /\ disk' = Content(heap', mem') /\ mem.len < MaxTasks
  BY <1>1, <1>2 DEF Post, Save
<1>4. SlicesOK(heap, run, mem)
  BY TypeIs
<1>5. /\ SlicesOK(w[1], run, w[2]) /\ w[2].len = mem.len + 1
      /\ Content(w[1], w[2]) = Append(Content(heap, mem), x)
      /\ (run.at = mem.at => run.len <= mem.len) => Content(w[1], run) = Content(heap, run)
      /\ w[2].at = run.at => mem.at = run.at
  BY ONLY <1>1, <1>2, <1>3, <1>4, AppendedIs
<1> QED BY <1>1, <1>3, <1>5 DEF Post

LEMMA OneMore ==
  ASSUME NEW f \in TwinFree, NEW i \in Ids, NEW c \in Cols, ~ Has(f, i)
  PROVE  LET g == Append(f, [id |-> i, col |-> c]) IN g \in TwinFree /\ Named(g) = Named(f) \cup {i}
<1>1. f \in Seq(Task) /\ Len(f) \in Nat /\ DOMAIN f = 1 .. Len(f)
  BY BoardLength DEF TwinFree
<1>2. PICK x : x = [id |-> i, col |-> c]
  OBVIOUS
<1>3. PICK g : g = Append(f, x)
  OBVIOUS
<1>4. x \in Task /\ x.id = i
  <2>1. x \in Task
    BY <1>2, Zenon DEF Task
  <2>2. x.id = i
    BY <1>2, Zenon
  <2> QED BY <2>1, <2>2
<1>5. PICK n \in Nat : n = Len(f)
  BY <1>1
<1>6. g \in Seq(Task) /\ Len(g) = n + 1 /\ g[n + 1] = x /\ \A k \in 1 .. n : g[k] = f[k]
  BY <1>1, <1>3, <1>4, <1>5
<1>7. DOMAIN g = 1 .. n + 1 /\ \A k \in 1 .. n + 1 : k \in 1 .. n \/ k = n + 1
  BY <1>5, <1>6
<1>8. \A k \in 1 .. n : f[k].id # i
  BY <1>1, <1>5 DEF Has
<1>9. g \in TwinFree
  <2>1. \A j, k \in 1 .. n : f[j].id = f[k].id => j = k
    BY <1>1, <1>5 DEF TwinFree
  <2>2. ASSUME NEW j \in 1 .. n + 1, NEW k \in 1 .. n + 1, g[j].id = g[k].id PROVE j = k
    BY <2>1, <2>2, <1>4, <1>6, <1>7, <1>8
  <2> QED BY <2>2, <1>6, <1>7 DEF TwinFree
<1>10. Named(g) = Named(f) \cup {i}
  <2>1. \A k \in 1 .. n : g[k].id = f[k].id
    BY <1>6
  <2>2. Named(g) \subseteq Named(f) \cup {i}
    BY <2>1, <1>1, <1>4, <1>5, <1>6, <1>7 DEF Named
  <2>3. Named(f) \subseteq Named(g)
    <3>1. \A k \in 1 .. n : k \in 1 .. n + 1
      BY <1>5
    <3> QED BY <2>1, <3>1, <1>1, <1>5, <1>7 DEF Named
  <2>4. i \in Named(g)
    <3>1. n + 1 \in 1 .. n + 1
      BY <1>5
    <3> QED BY <3>1, <1>4, <1>6, <1>7 DEF Named
  <2> QED BY <2>2, <2>3, <2>4
<1> QED BY <1>2, <1>3, <1>9, <1>10

\* The store's Load.
LEMMA LoadDoes ==
  ASSUME StoreTypeOK, Load
  PROVE  /\ SlicesOK(heap', run', mem') /\ run' = run /\ mem'.at # run.at
         /\ Content(heap', run') = Content(heap, run) /\ Content(heap', mem') = disk
<1>1. /\ heap \in [1 .. 2 -> Seq(Slots)] /\ run \in [at : 1 .. 2, len : Nat] /\ run.len <= Len(heap[run.at])
      /\ run \in Slice /\ Content(heap, run) \in Seq(Task)
      /\ disk \in Board /\ disk \in Seq(Task) /\ Len(disk) \in Nat /\ Len(disk) <= MaxTasks
  BY TypeIs DEF SlicesOK, Board
<1>2. PICK d \in 1 .. 2 : d = Fresh(run) /\ d # run.at
  BY <1>1, FreshIs
<1>3. mem' = [at |-> d, len |-> Len(disk)] /\ heap' = [heap EXCEPT ![d] = Padded(disk)] /\ run' = run
  BY <1>2 DEF Load
<1>4. /\ Padded(disk) \in Seq(Slots) /\ Len(disk) <= Len(Padded(disk))
      /\ \A k \in 1 .. Len(disk) : Padded(disk)[k] = disk[k]
  BY <1>1, PaddedIs
<1>5. mem' \in [at : 1 .. 2, len : Nat] /\ mem'.at = d /\ mem'.len = Len(disk)
  BY <1>1, <1>3
<1>6. mem' \in Slice
  BY <1>1, <1>5, SliceIs
<1>7. heap' \in [1 .. 2 -> Seq(Slots)] /\ heap'[d] = Padded(disk) /\ heap'[run.at] = heap[run.at]
  BY <1>1, <1>2, <1>3, <1>4
<1>8. Content(heap', mem') = disk
  <2>1. disk \in Seq(Task) /\ heap'[mem'.at] = Padded(disk) /\ mem'.len = Len(disk)
    BY <1>1, <1>5, <1>7
  <2>2. Padded(disk) \in Seq(Slots) /\ StartsWith(Padded(disk), disk)
    BY <1>4 DEF StartsWith
  <2> QED BY ONLY <2>1, <2>2, ContentOf
<1>9. Content(heap', run') = Content(heap, run)
  BY <1>3, <1>7, SameArray
<1>10. SlicesOK(heap', run', mem')
  BY <1>1, <1>3, <1>4, <1>5, <1>6, <1>7, <1>8, <1>9 DEF SlicesOK
<1> QED BY <1>2, <1>3, <1>5, <1>8, <1>9, <1>10

\* A persist of the runner's board.
LEMMA PersistDoes ==
  ASSUME StoreTypeOK, NEW next, Persist(next)
  PROVE  /\ SlicesOK(heap', run', mem') /\ run' = run /\ mem' = run
         /\ Content(heap', run') = Content(heap, run) /\ disk' = Content(heap, run)
<1>1. /\ heap \in [1 .. 2 -> Seq(Slots)] /\ run \in [at : 1 .. 2, len : Nat] /\ run.len <= Len(heap[run.at])
      /\ run \in Slice /\ Content(heap, run) \in Seq(Task)
  BY TypeIs DEF SlicesOK
<1>2. PICK d \in 1 .. 2 : d = Fresh(run) /\ d # run.at
  BY <1>1, FreshIs
<1>3. heap' = [heap EXCEPT ![d] = <<>>] /\ run' = run /\ mem' = run /\ disk' = Content(heap, run)
  BY <1>2 DEF Persist
<1>4. heap' \in [1 .. 2 -> Seq(Slots)] /\ heap'[run.at] = heap[run.at]
  BY <1>1, <1>2, <1>3
<1>5. Content(heap', run) = Content(heap, run)
  BY <1>4, SameArray
<1>6. SlicesOK(heap', run', mem')
  BY <1>1, <1>3, <1>4, <1>5 DEF SlicesOK
<1> QED BY <1>3, <1>5, <1>6

-----------------------------------------------------------------------------
\* Which tasks the copies hold, until a merge clips the runner's slice.

Planned == {Plan[k] : k \in DOMAIN Plan}
OnPlan == {f \in TwinFree : Planned \subseteq Named(f) /\ Named(f) \subseteq Planned \cup Adds}

Clean ==
  /\ disk \in OnPlan /\ Content(heap, run) \in OnPlan /\ Content(heap, mem) \in OnPlan
  /\ (read # <<>> => read[1] \in OnPlan) /\ (cli # <<>> => cli[1] \in OnPlan)
  /\ run.at = mem.at => run.len <= mem.len
  /\ took \subseteq Named(Content(heap, run))

StoreInv == StoreTypeOK /\ (clipped \/ Clean)

LEMMA KeptOnPlan ==
  ASSUME NEW f \in OnPlan, NEW g, SameButColumns(f, g)
  PROVE  g \in OnPlan /\ Named(g) = Named(f)
BY SameIds DEF OnPlan, SameButColumns

\* The board as it was planned.
LEMMA FirstBoard == StoreInit => StoreTypeOK /\ Clean /\ clipped = FALSE
<1> SUFFICES ASSUME StoreInit PROVE StoreTypeOK /\ Clean /\ clipped = FALSE
  OBVIOUS
<1>1. PICK c \in Cols : LET f == [k \in DOMAIN Plan |-> [id |-> Plan[k], col |-> c]] IN
        /\ heap = [a \in 1 .. 2 |-> Padded(f)]
        /\ run = [at |-> 1, len |-> Len(f)] /\ mem = [at |-> 2, len |-> Len(f)]
        /\ disk = f
        /\ pc = "top" /\ read = <<>> /\ cli = <<>> /\ edits = 0
        /\ took = Named(f) /\ clipped = FALSE
  BY DEF StoreInit
<1>2. PICK f : f = [k \in DOMAIN Plan |-> [id |-> Plan[k], col |-> c]]
  OBVIOUS
<1>3. /\ heap = [a \in 1 .. 2 |-> Padded(f)]
      /\ run = [at |-> 1, len |-> Len(f)] /\ mem = [at |-> 2, len |-> Len(f)] /\ disk = f
      /\ pc = "top" /\ read = <<>> /\ cli = <<>> /\ edits = 0
      /\ took = Named(f) /\ clipped = FALSE
  BY <1>1, <1>2
<1>4. PICK n \in Nat : n = Len(Plan) /\ DOMAIN Plan = 1 .. n /\ \A k \in 1 .. n : Plan[k] \in Ids
  BY PlanType
<1>5. \A k \in 1 .. n : f[k] \in Task /\ f[k].id = Plan[k]
  BY <1>2, <1>4 DEF Task
<1>6. f \in Seq(Task) /\ Len(f) = n /\ DOMAIN f = 1 .. n
  <2>1. f = [k \in 1 .. n |-> f[k]]
    BY <1>2, <1>4
  <2> QED BY <2>1, <1>2, <1>4, <1>5, IsSequence
<1>7. f \in TwinFree /\ Named(f) = Planned
  <2>1. \A j, k \in 1 .. n : Plan[j] = Plan[k] => j = k
    BY <1>4, PlanType DEF IsInjective
  <2> QED BY <2>1, <1>4, <1>5, <1>6 DEF TwinFree, Named, Planned
<1>8. f \in Board /\ n <= MaxTasks /\ Named(f) \subseteq Ids
  BY <1>6, <1>7, BoardLength DEF Board
<1>9. Padded(f) \in Seq(Slots) /\ Len(f) <= Len(Padded(f)) /\ \A k \in 1 .. Len(f) : Padded(f)[k] = f[k]
  BY <1>8, PaddedIs
<1>10. /\ heap \in [1 .. 2 -> Seq(Slots)] /\ \A a \in 1 .. 2 : heap[a] = Padded(f)
       /\ run \in [at : 1 .. 2, len : Nat] /\ run.at = 1 /\ run.len = n
       /\ mem \in [at : 1 .. 2, len : Nat] /\ mem.at = 2 /\ mem.len = n
  BY <1>3, <1>6, <1>9
<1>11. ASSUME NEW s \in {run, mem} PROVE Content(heap, s) = f
  <2>1. f \in Seq(Task) /\ heap[s.at] = Padded(f) /\ s.len = Len(f)
    BY <1>6, <1>10
  <2>2. Padded(f) \in Seq(Slots) /\ StartsWith(Padded(f), f)
    BY <1>9 DEF StartsWith
  <2> QED BY ONLY <2>1, <2>2, ContentOf
<1>12. Content(heap, run) = f /\ Content(heap, mem) = f
  BY <1>11
<1>13. SlicesOK(heap, run, mem)
  <2>1. run \in Slice /\ mem \in Slice
    BY <1>8, <1>10, SliceIs
  <2> QED BY <2>1, <1>6, <1>9, <1>10, <1>12 DEF SlicesOK
<1>14. StoreTypeOK
  <2>1. edits \in 0 .. MaxEdits
    BY <1>3, EditsType
  <2>2. IsRead(read) /\ IsRead(cli)
    BY <1>3, ReadIs
  <2>3. disk \in Seq(Task) /\ Len(disk) <= MaxTasks /\ took \subseteq Ids
    BY <1>3, <1>6, <1>8
  <2> QED BY <2>1, <2>2, <2>3, <1>3, <1>13 DEF StoreTypeOK, SlicesOK, Slots
<1>15. Clean
  <2>1. f \in OnPlan
    BY <1>7 DEF OnPlan
  <2> QED BY <2>1, <1>3, <1>10, <1>12 DEF Clean
<1> QED BY <1>3, <1>14, <1>15

\* No step takes a slice beyond its array, or finds anything but tasks in it.
LEMMA TypeStep == ASSUME StoreTypeOK, [StoreNext]_storeVars PROVE StoreTypeOK'
<1>. USE DEF Slots
<1>1. CASE ReadFile
  <2>1. UNCHANGED <<heap, run, mem, disk, pc, cli, edits, took, clipped>> /\ read' = <<disk>>
    BY <1>1 DEF ReadFile
  <2>2. IsRead(read')
    BY <2>1, TypeIs, ReadIs
  <2> QED BY <2>1, <2>2 DEF StoreTypeOK
<1>2. CASE Merge
  <2>1. PICK f \in TwinFree :
          /\ disk' = f /\ SlicesOK(heap', run', mem')
          /\ pc' \in {"wave", pc} /\ took' \in {took, Named(f)}
          /\ clipped' = (clipped \/ (pc = "wave" /\ run.at = mem.at /\ Len(f) > run.len))
    BY <1>2, MergeDoes
  <2>2. UNCHANGED <<cli, edits>> /\ read' = <<>>
    BY <1>2 DEF Merge
  <2>3. f \in Seq(Task) /\ Len(f) <= MaxTasks /\ Named(f) \subseteq Ids
    BY BoardLength DEF Board
  <2>4. IsRead(read') /\ IsRead(cli')
    BY <2>2, ReadIs DEF StoreTypeOK
  <2>5. took' \subseteq Ids /\ pc' \in {"top", "wave"} /\ edits' \in 0 .. MaxEdits
    BY <2>1, <2>2, <2>3 DEF StoreTypeOK
  <2>6. clipped' \in BOOLEAN
    BY <2>1
  <2> QED BY <2>1, <2>3, <2>4, <2>5, <2>6 DEF StoreTypeOK, SlicesOK
<1>3. ASSUME NEW i \in Works, NEW c \in Cols, UpdateTask(i, c) PROVE StoreTypeOK'
  <2>1. UNCHANGED <<mem, disk, pc, read, cli, edits, took, clipped>>
    BY <1>3 DEF UpdateTask
  <2>2. SlicesOK(heap', run', mem')
    <3>1. CASE /\ Has(Content(heap, run), i) /\ UNCHANGED run
               /\ heap' = [heap EXCEPT ![run.at][Ix(Content(heap, run), i)].col = c]
      BY <3>1, <2>1, ColumnChanges
    <3>2. CASE /\ run.len < MaxTasks
               /\ LET new == Appended(heap, run, mem, [id |-> i, col |-> c]) IN heap' = new[1] /\ run' = new[2]
      <4>1. PICK x, w : x = [id |-> i, col |-> c] /\ w = Appended(heap, run, mem, x)
        OBVIOUS
      <4>2. x \in Task
        BY <4>1, EditsType DEF Task
      <4>3. heap' = w[1] /\ run' = w[2]
        BY <3>2, <4>1
      <4>4. SlicesOK(heap, mem, run)
        BY TypeIs DEF SlicesOK
      <4>5. SlicesOK(w[1], mem, w[2])
        BY ONLY <3>2, <4>1, <4>2, <4>4, AppendedIs
      <4> QED BY <4>3, <4>5, <2>1 DEF SlicesOK
    <3> QED BY <3>1, <3>2, <1>3 DEF UpdateTask
  <2> QED BY <2>1, <2>2 DEF StoreTypeOK, SlicesOK
<1>4. ASSUME NEW next \in {"wave", "top"}, Persist(next) PROVE StoreTypeOK'
  <2>1. pc' = next /\ UNCHANGED <<read, cli, edits, took, clipped>>
    BY <1>4 DEF Persist
  <2>2. SlicesOK(heap', run', mem') /\ disk' = Content(heap, run)
    BY <1>4, PersistDoes
  <2>3. disk' \in Seq(Task) /\ Len(disk') <= MaxTasks
    <3>1. run.len <= MaxTasks
      BY SliceIs DEF StoreTypeOK
    <3> QED BY <3>1, <2>2, SliceLength
  <2> QED BY <2>1, <2>2, <2>3 DEF StoreTypeOK, SlicesOK
<1>5. CASE Load
  <2>1. UNCHANGED <<disk, pc, read, cli, edits, took, clipped>>
    BY <1>5 DEF Load
  <2>2. SlicesOK(heap', run', mem')
    BY <1>5, LoadDoes
  <2> QED BY <2>1, <2>2 DEF StoreTypeOK, SlicesOK
<1>6. ASSUME NEW i \in Moves, NEW c \in Cols, Patch(i, c) PROVE StoreTypeOK'
  <2>1. /\ Has(Content(heap, mem), i) /\ UNCHANGED <<run, mem, pc, read, cli, took, clipped>>
        /\ heap' = [heap EXCEPT ![mem.at][Ix(Content(heap, mem), i)].col = c]
        /\ edits' = edits + 1 /\ edits < MaxEdits /\ disk' = Content(heap', mem')
    BY <1>6 DEF Patch, Edit, Save
  <2>2. SlicesOK(heap', run', mem') /\ SameButColumns(Content(heap, mem), Content(heap', mem'))
    BY <2>1, ColumnChanges
  <2>3. edits' \in 0 .. MaxEdits
    BY <2>1, EditsType DEF StoreTypeOK
  <2>4. disk' \in Seq(Task) /\ Len(disk') <= MaxTasks
    <3>1. mem.len <= MaxTasks /\ Len(Content(heap, mem)) = mem.len
      BY SliceIs, SliceLength DEF StoreTypeOK
    <3> QED BY <3>1, <2>1, <2>2 DEF SameButColumns
  <2> QED BY <2>1, <2>2, <2>3, <2>4 DEF StoreTypeOK, SlicesOK
<1>7. ASSUME NEW i \in Adds, NEW c \in Cols, Post(i, c) PROVE StoreTypeOK'
  <2>1. /\ edits' = edits + 1 /\ edits < MaxEdits /\ mem.len < MaxTasks
        /\ UNCHANGED <<pc, read, cli, took, clipped>> /\ i \in Ids
    BY <1>7, EditsType DEF Post, Edit
  <2>2. edits' \in 0 .. MaxEdits
    BY <2>1, EditsType DEF StoreTypeOK
  <2>3. /\ SlicesOK(heap', run', mem') /\ disk' = Content(heap', mem')
        /\ Content(heap', mem') = Append(Content(heap, mem), [id |-> i, col |-> c])
    BY <2>1, <1>7, PostDoes
  <2>4. disk' \in Seq(Task) /\ Len(disk') <= MaxTasks
    <3>1. disk' \in Seq(Task)
      BY <2>3 DEF SlicesOK
    <3>2. PICK m, x : m = Content(heap, mem) /\ x = [id |-> i, col |-> c]
      OBVIOUS
    <3>3. m \in Seq(Task) /\ Len(m) = mem.len /\ mem.len \in Nat
      BY <3>2, SliceLength
    <3>4. Len(Append(m, x)) = mem.len + 1
      BY <3>3
    <3>5. mem.len + 1 <= MaxTasks
      BY <2>1, <3>3, TasksBound
    <3> QED BY <3>1, <3>2, <3>4, <3>5, <2>3
  <2> QED BY <2>1, <2>2, <2>3, <2>4 DEF StoreTypeOK, SlicesOK
<1>8. CASE CliLoad
  <2>1. UNCHANGED <<heap, run, mem, disk, pc, read, edits, took, clipped>> /\ cli' = <<disk>>
    BY <1>8 DEF CliLoad
  <2>2. IsRead(cli')
    BY <2>1, TypeIs, ReadIs
  <2> QED BY <2>1, <2>2 DEF StoreTypeOK
<1>9. ASSUME NEW i \in Moves, NEW c \in Cols, CliMove(i, c) PROVE StoreTypeOK'
  <2>1. /\ UNCHANGED <<heap, run, mem, pc, read, took, clipped>> /\ cli # <<>> /\ Has(cli[1], i)
        /\ disk' = [cli[1] EXCEPT ![Ix(cli[1], i)].col = c]
        /\ cli' = <<>> /\ edits' = edits + 1 /\ edits < MaxEdits
    BY <1>9 DEF CliMove, Edit
  <2>2. PICK f : f = cli[1] /\ f \in Seq(Task) /\ Len(f) <= MaxTasks
    BY <2>1, ReadIs DEF StoreTypeOK, Board
  <2>3. disk' \in Seq(Task) /\ Len(disk') <= MaxTasks
    BY <2>1, <2>2, Recoloured DEF SameButColumns
  <2>4. edits' \in 0 .. MaxEdits
    BY <2>1, EditsType DEF StoreTypeOK
  <2>5. IsRead(cli')
    BY <2>1, ReadIs
  <2> QED BY <2>1, <2>3, <2>4, <2>5 DEF StoreTypeOK
<1>10. CASE UNCHANGED storeVars
  BY <1>10 DEF storeVars, StoreTypeOK
<1> QED BY <1>1, <1>2, <1>3, <1>4, <1>5, <1>6, <1>7, <1>8, <1>9, <1>10 DEF StoreNext, Runner, People

\* A merge over an array that the runner shares writes at least the tasks of the runner's
\* slice; when it writes no more, that slice is the merged board.
LEMMA CleanMerge ==
  ASSUME StoreTypeOK, Clean, Merge
  PROVE  /\ ~ clipped' => Clean'
         /\ clipped' => clipped \/ Adds # {}
<1>1. PICK f \in TwinFree :
        /\ f \in Merges(Content(heap, mem), read[1]) /\ disk' = f
        /\ SlicesOK(heap', run', mem') /\ Content(heap', mem') = f /\ mem'.len = Len(f)
        /\ clipped' = (clipped \/ (pc = "wave" /\ run.at = mem.at /\ Len(f) > run.len))
        /\ \/ pc = "top" /\ pc' = "wave" /\ Content(heap', run') = f /\ run'.at # mem'.at /\ took' = Named(f)
           \/ /\ pc = "wave" /\ pc' = pc /\ run' = run /\ took' = took
              /\ run.at # mem.at => heap'[run.at] = heap[run.at] /\ mem'.at # run.at
              /\ run.at = mem.at /\ Len(f) <= Len(heap[run.at]) => mem'.at = run.at
  BY MergeDoes
<1>2. cli' = cli /\ read' = <<>> /\ read # <<>>
  BY DEF Merge
<1>3. PICK old, new : old = Content(heap, mem) /\ new = read[1] /\ old \in OnPlan /\ new \in OnPlan
  BY <1>2 DEF Clean
<1>4. Named(f) = Named(old) \cup Named(new)
  <2>1. f \in Merges(old, new) /\ old \in TwinFree /\ new \in TwinFree
    BY <1>1, <1>3 DEF OnPlan
  <2>2. old \in Seq(Task) /\ new \in Seq(Task)
    BY <2>1 DEF TwinFree
  <2> QED BY ONLY <2>1, <2>2, MergesAre
<1>5. f \in OnPlan
  BY <1>3, <1>4 DEF OnPlan
<1>6. Len(f) \in Nat /\ run.len \in Nat /\ mem.len \in Nat /\ run.len <= Len(heap[run.at])
  BY BoardLength, TypeIs
<1>7. mem.len <= Len(f)
  BY <1>3, <1>4, SliceLength, MoreNames DEF OnPlan
<1>8. ASSUME ~ clipped' PROVE Clean'
  <2>1. CASE pc = "top"
    <3>1. Content(heap', run') = f /\ run'.at # mem'.at /\ took' = Named(f)
      BY <2>1, <1>1
    <3> QED BY <3>1, <1>1, <1>2, <1>5 DEF Clean
  <2>2. CASE pc # "top" /\ run.at # mem.at
    <3>1. run' = run /\ took' = took /\ heap'[run.at] = heap[run.at] /\ mem'.at # run.at
      BY <2>2, <1>1
    <3>2. Content(heap', run') = Content(heap, run)
      BY <3>1, SameArray
    <3> QED BY <3>1, <3>2, <1>1, <1>2, <1>5 DEF Clean
  <2>3. CASE pc # "top" /\ run.at = mem.at
    <3>1. run' = run /\ took' = took /\ pc = "wave"
      BY <2>3, <1>1
    <3>2. run.len <= mem.len /\ ~ (Len(f) > run.len)
      BY <2>3, <3>1, <1>1, <1>8 DEF Clean
    <3>3. Len(f) = run.len /\ mem.len = run.len
      BY <3>2, <1>6, <1>7
    <3>4. mem'.at = run.at /\ mem'.len = run.len
      BY <2>3, <3>3, <1>1, <1>6
    <3>5. Content(heap', run') = f
      BY <3>1, <3>4, <1>1 DEF Content
    <3>6. Content(heap, run) = old
      BY <2>3, <3>3, <1>3 DEF Content
    <3>7. took' \subseteq Named(f)
      BY <3>1, <3>6, <1>4 DEF Clean
    <3> QED BY <3>1, <3>4, <3>5, <3>7, <1>1, <1>2, <1>5, <1>6 DEF Clean
  <2> QED BY <2>1, <2>2, <2>3
<1>9. ASSUME ~ clipped, Adds = {} PROVE ~ clipped'
  <2>1. PICK r : r = Content(heap, run) /\ r \in OnPlan /\ Len(r) = run.len
    BY SliceLength DEF Clean
  <2>2. Named(f) = Named(r) /\ r \in TwinFree
    BY <2>1, <1>5, <1>9 DEF OnPlan
  <2>3. Len(f) <= Len(r)
    BY <2>2, MoreNames
  <2>4. ~ (Len(f) > run.len)
    BY <2>1, <2>3, <1>6
  <2> QED BY <2>4, <1>1, <1>9, Zenon
<1> QED BY <1>8, <1>9

LEMMA CleanStep ==
  ASSUME StoreTypeOK, Clean, [StoreNext]_storeVars
  PROVE  /\ ~ clipped' => Clean'
         /\ clipped' => clipped \/ Adds # {}
<1>1. CASE Merge
  BY <1>1, CleanMerge
<1>2. CASE ReadFile
  <2>1. UNCHANGED <<heap, run, mem, disk, cli, took, clipped>> /\ read' = <<disk>> /\ read'[1] = disk
    BY <1>2, TypeIs, ReadIs DEF ReadFile
  <2> QED BY <2>1 DEF Clean
\* The runner has copies only of tasks that are there, so none goes behind the others.
<1>3. ASSUME NEW i \in Works, NEW c \in Cols, UpdateTask(i, c) PROVE Clean' /\ clipped' = clipped
  <2>1. UNCHANGED <<mem, disk, read, cli, took, clipped>>
    BY <1>3 DEF UpdateTask
  <2>2. i \in took => Has(Content(heap, run), i)
    BY HasIsNamed DEF Clean
  <2>3. /\ Has(Content(heap, run), i) /\ run' = run
        /\ heap' = [heap EXCEPT ![run.at][Ix(Content(heap, run), i)].col = c]
    BY <2>2, <1>3 DEF UpdateTask
  <2>4. /\ SameButColumns(Content(heap, run), Content(heap', run'))
        /\ SameButColumns(Content(heap, mem), Content(heap', mem'))
    BY <2>1, <2>3, ColumnChanges
  <2>5. /\ Content(heap', run') \in OnPlan /\ Content(heap', mem') \in OnPlan
        /\ Named(Content(heap', run')) = Named(Content(heap, run))
    BY <2>4, KeptOnPlan DEF Clean
  <2> QED BY <2>1, <2>3, <2>5 DEF Clean
<1>4. ASSUME NEW next \in {"wave", "top"}, Persist(next) PROVE Clean' /\ clipped' = clipped
  <2>1. UNCHANGED <<read, cli, took, clipped>>
    BY <1>4 DEF Persist
  <2>2. run' = run /\ mem' = run /\ Content(heap', run') = Content(heap, run) /\ disk' = Content(heap, run)
    BY <1>4, PersistDoes
  <2>3. run.len \in Nat
    BY TypeIs
  <2> QED BY <2>1, <2>2, <2>3 DEF Clean
<1>5. CASE Load
  <2>1. UNCHANGED <<disk, read, cli, took, clipped>>
    BY <1>5 DEF Load
  <2>2. run' = run /\ mem'.at # run.at /\ Content(heap', run') = Content(heap, run) /\ Content(heap', mem') = disk
    BY <1>5, LoadDoes
  <2> QED BY <2>1, <2>2 DEF Clean
<1>6. ASSUME NEW i \in Moves, NEW c \in Cols, Patch(i, c) PROVE Clean' /\ clipped' = clipped
  <2>1. /\ Has(Content(heap, mem), i) /\ UNCHANGED <<run, mem, read, cli, took, clipped>>
        /\ heap' = [heap EXCEPT ![mem.at][Ix(Content(heap, mem), i)].col = c]
        /\ disk' = Content(heap', mem')
    BY <1>6 DEF Patch, Save
  <2>2. /\ SameButColumns(Content(heap, run), Content(heap', run'))
        /\ SameButColumns(Content(heap, mem), Content(heap', mem'))
    BY <2>1, ColumnChanges
  <2>3. /\ Content(heap', run') \in OnPlan /\ Content(heap', mem') \in OnPlan
        /\ Named(Content(heap', run')) = Named(Content(heap, run))
    BY <2>2, KeptOnPlan DEF Clean
  <2> QED BY <2>1, <2>3 DEF Clean
<1>7. ASSUME NEW i \in Adds, NEW c \in Cols, Post(i, c) PROVE Clean' /\ clipped' = clipped
  <2>1. UNCHANGED <<read, cli, took, clipped>> /\ i \in Ids
    BY <1>7, EditsType DEF Post
  <2>2. PICK m, x : m = Content(heap, mem) /\ x = [id |-> i, col |-> c]
    OBVIOUS
  <2>3. /\ run' = run /\ disk' = Content(heap', mem') /\ ~ Has(m, i) /\ mem'.len = mem.len + 1
        /\ Content(heap', mem') = Append(m, x) /\ Content(heap', run') = Content(heap, run)
        /\ mem'.at = run.at => run.at = mem.at
    BY <2>1, <2>2, <1>7, PostDoes DEF Clean
  <2>4. m \in OnPlan
    BY <2>2 DEF Clean
  <2>5. Append(m, x) \in TwinFree /\ Named(Append(m, x)) = Named(m) \cup {i}
    BY <2>1, <2>2, <2>3, <2>4, OneMore DEF OnPlan
  <2>6. Append(m, x) \in OnPlan
    BY <2>4, <2>5 DEF OnPlan
  <2>7. run'.at = mem'.at => run'.len <= mem'.len
    BY <2>3, TypeIs DEF Clean
  <2> QED BY <2>1, <2>3, <2>6, <2>7 DEF Clean
<1>8. CASE CliLoad
  <2>1. UNCHANGED <<heap, run, mem, disk, read, took, clipped>> /\ cli' = <<disk>> /\ cli'[1] = disk
    BY <1>8, TypeIs, ReadIs DEF CliLoad
  <2> QED BY <2>1 DEF Clean
<1>9. ASSUME NEW i \in Moves, NEW c \in Cols, CliMove(i, c) PROVE Clean' /\ clipped' = clipped
  <2>1. /\ UNCHANGED <<heap, run, mem, read, took, clipped>> /\ cli' = <<>> /\ cli # <<>> /\ Has(cli[1], i)
        /\ disk' = [cli[1] EXCEPT ![Ix(cli[1], i)].col = c]
    BY <1>9 DEF CliMove
  <2>2. PICK f \in OnPlan : f = cli[1] /\ f \in Seq(Task)
    BY <2>1 DEF Clean, OnPlan, TwinFree
  <2>3. SameButColumns(f, disk')
    BY <2>1, <2>2, Recoloured
  <2>4. disk' \in OnPlan
    BY <2>2, <2>3, KeptOnPlan
  <2> QED BY <2>1, <2>4 DEF Clean
<1>10. CASE UNCHANGED storeVars
  BY <1>10 DEF storeVars, Clean
<1> QED BY <1>1, <1>2, <1>3, <1>4, <1>5, <1>6, <1>7, <1>8, <1>9, <1>10 DEF StoreNext, Runner, People

\* The store's variables stay in their types whatever merges clip: no slice is longer
\* than its array (store.go:122-125, tasks.go:196-214), and what a slice holds are tasks,
\* never unused slots.
THEOREM StoreTypeCorrect == StoreSpec => []StoreTypeOK
BY FirstBoard, TypeStep, PTL DEF StoreSpec

LEMMA StoreStep == ASSUME StoreInv, [StoreNext]_storeVars PROVE StoreInv'
<1>1. StoreTypeOK'
  BY TypeStep DEF StoreInv
<1>2. CASE ~ clipped
  <2>1. Clean /\ StoreTypeOK
    BY <1>2 DEF StoreInv
  <2>2. ~ clipped' => Clean'
    BY <2>1, CleanStep
  <2> QED BY <1>1, <2>2 DEF StoreInv
<1>3. CASE clipped
  <2>1. clipped'
    BY <1>3 DEF StoreNext, Runner, People, ReadFile, Merge, UpdateTask, Persist, Load, Patch, Post, CliLoad, CliMove, storeVars
  <2> QED BY <1>1, <2>1 DEF StoreInv
<1> QED BY <1>2, <1>3

\* What the slices, the arrays under them and the file are between any two steps of the
\* runner and of the people: always slices of tasks, and until a merge clips the runner's
\* slice copies of the plan and of what was added, each task once.
THEOREM TheStore == StoreSpec => []StoreInv
<1>1. StoreInit => StoreInv
  BY FirstBoard DEF StoreInv
<1> QED BY <1>1, StoreStep, PTL DEF StoreSpec

LEMMA CleanKeeps == Clean => PlannedTasksStay /\ NoTwins
<1> SUFFICES ASSUME Clean PROVE PlannedTasksStay /\ NoTwins
  OBVIOUS
<1>1. disk \in OnPlan /\ Content(heap, run) \in OnPlan /\ Content(heap, mem) \in OnPlan
  BY DEF Clean
<1>2. PlannedTasksStay
  BY <1>1, HasIsNamed DEF PlannedTasksStay, OnPlan, Planned
<1>3. NoTwins
  BY <1>1 DEF NoTwins, OnPlan, TwinFree
<1> QED BY <1>2, <1>3

\* tasks.go:257-291: whichever merges, appends and reloads came before, an ID is twice in
\* the file or in a memory only after a merge clipped the runner's slice.
THEOREM TwinsTakeAClip == StoreSpec => []OnlyClippingDoubles
<1>1. StoreInv => OnlyClippingDoubles
  BY CleanKeeps DEF StoreInv, OnlyClippingDoubles
<1> QED BY <1>1, TheStore, PTL

\* store.go:13-14, 122-125: whoever overwrites whom and however arrays grow, a planned task
\* leaves the file or the runner's board only after a merge wrote more tasks than the
\* runner's slice of the array has (LiveStoreVanish).
THEOREM LossTakesAClip == StoreSpec => []OnlyClippingLoses
<1>1. StoreInv => OnlyClippingLoses
  BY CleanKeeps DEF StoreInv, OnlyClippingLoses
<1> QED BY <1>1, TheStore, PTL

\* Where nobody adds a task no merge is longer than the runner's slice, so that no planned
\* task leaves the file or the runner's board, however much room the arrays have.
THEOREM PlannedStayUnlessAdded == Adds = {} => (StoreSpec => []PlannedTasksStay)
<1> SUFFICES ASSUME Adds = {} PROVE StoreSpec => []PlannedTasksStay
  OBVIOUS
<1> DEFINE Whole == StoreTypeOK /\ Clean /\ clipped = FALSE
<1>1. ASSUME Whole, [StoreNext]_storeVars PROVE Whole'
  <2>1. StoreTypeOK'
    BY <1>1, TypeStep
  <2>2. (~ clipped' => Clean') /\ (clipped' => clipped)
    BY <1>1, CleanStep
  <2>3. clipped' = FALSE
    BY <2>1, <2>2, <1>1 DEF StoreTypeOK
  <2> QED BY <2>1, <2>2, <2>3
<1>2. StoreInit => Whole
  BY FirstBoard
<1>3. Whole => PlannedTasksStay
  BY CleanKeeps
<1> HIDE DEF Whole
<1> QED BY <1>1, <1>2, <1>3, PTL DEF StoreSpec
=============================================================================

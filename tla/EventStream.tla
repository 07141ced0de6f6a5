----------------------------- MODULE EventStream -----------------------------
(***************************************************************************)
(* Studio's live events: pkg/server/server.go (emit, evictOldest,          *)
(* bufferSince, handleSSE, Shutdown) and the browser tab that follows them *)
(* (web/src/hooks/useLiveStream.ts).  Any goroutine may emit.  emit numbers *)
(* and buffers the event and copies the subscribers under the mutex, and   *)
(* sends to them after it, so sends of two emits interleave.  A full       *)
(* channel is flagged, and its writer resynchronises from the ring.        *)
(*                                                                         *)
(* An event is its number; Tokens says which are token deltas.  The tab's  *)
(* link may be cut at any time; it reconnects with the highest number seen. *)
(***************************************************************************)
EXTENDS SequencesExt

CONSTANTS
  MaxEmits,  \* emits under way at once: the engine's workers, the HTTP handlers, the hooks
  MaxConns,  \* bound of the model: connections of the tab, one after the other
  NoConn,    \* the tab is not connected
  RingSize,  \* eventBufferSize
  ChanSize,  \* capacity of a subscriber's channel
  Tokens,    \* numbers of the events that are token deltas
  MaxSeq,    \* bound of the model: events of one life of the server
  MaxBoots   \* bound of the model: restarts of the server

ASSUME StreamSizes == RingSize \in Nat \ {0} /\ ChanSize \in Nat \ {0} /\ MaxSeq \in Nat /\ MaxBoots \in Nat
ASSUME StreamActors == MaxEmits \in Nat /\ MaxConns \in Nat /\ NoConn \notin 1 .. MaxConns

VARIABLES
  ring,     \* s.events: sequence of numbers
  seq,      \* s.seq
  closed,   \* s.closed
  subs,     \* s.subs
  sub,      \* [Conns -> the subscriber and its writer: st, ch, shut, lagged, last]
  sending,  \* [Emitters -> emit's event and the subscribers left to send to]
  crashed,  \* a send met a closed channel: the process is gone
  boot,     \* how often the server was started again
  cur,      \* the tab's connection
  tab,      \* the tab: [seen: numbers seen, top: the highest, got: events rendered]
  told,     \* events that a gap frame the tab received said it had missed
  unseen,   \* structural events that left the ring while the tab had none to resume from
  overtaken \* events that a later one passed on its way to the tab

serverVars == <<ring, seq, closed, subs, sub, sending, crashed, boot>>
tabVars == <<cur, tab, told, unseen, overtaken>>
streamVars == <<serverVars, tabVars>>

\* Calls of emit and subscribers are interchangeable: the first free one is taken.
Emitters == 1 .. MaxEmits
Conns == 1 .. MaxConns

Idle == [seq |-> 0, left |-> {}, full |-> {}]
NewSub == [st |-> "new", ch |-> <<>>, shut |-> FALSE, lagged |-> FALSE, last |-> 0]

\* What the tab rendered or was told it missed, of this life of the server, and what it
\* lost without a word because a concurrent emit overtook it.
Accounted(n) == <<boot, n>> \in tab.got \cup told \cup overtaken

StreamTypeOK ==
  /\ ring \in Seq(1 .. MaxSeq) /\ Len(ring) <= RingSize
  /\ seq \in 0 .. MaxSeq /\ boot \in 0 .. MaxBoots
  /\ {closed, crashed} \subseteq BOOLEAN
  /\ subs \subseteq Conns /\ cur \in Conns \cup {NoConn}
  /\ \A k \in Conns : /\ sub[k].st \in {"new", "top", "select", "gone"}
                      /\ sub[k].ch \in Seq(1 .. MaxSeq) /\ Len(sub[k].ch) <= ChanSize
                      /\ {sub[k].shut, sub[k].lagged} \subseteq BOOLEAN /\ sub[k].last \in 0 .. MaxSeq
  /\ sending \in [Emitters -> [seq : 0 .. MaxSeq, left : SUBSET Conns, full : SUBSET Conns]]
  /\ tab.seen \subseteq 1 .. MaxSeq /\ tab.top \in 0 .. MaxSeq
  /\ tab.got \cup told \cup unseen \cup overtaken \subseteq (0 .. MaxBoots) \X (1 .. MaxSeq)

Booted ==
  /\ ring = <<>> /\ seq = 0 /\ closed = FALSE /\ subs = {}
  /\ sending = [e \in Emitters |-> Idle] /\ crashed = FALSE

StreamInit ==
  /\ Booted /\ boot = 0
  /\ sub = [k \in Conns |-> NewSub]
  /\ cur = NoConn /\ tab = [seen |-> {}, top |-> 0, got |-> {}]
  /\ told = {} /\ unseen = {} /\ overtaken = {}

-----------------------------------------------------------------------------
\* The ring.

\* evictOldest: the oldest token delta goes first, else the head.
Evicted(buf) ==
  LET t == SelectInSeq(buf, LAMBDA x : x \in Tokens)
  IN IF t > 0 THEN RemoveAt(buf, t) ELSE Tail(buf)

\* The append, and the eviction once the ring is over its size.
Buffered(ev) ==
  LET buf == Append(ring, ev) IN IF Len(buf) > RingSize THEN Evicted(buf) ELSE buf

\* Mutant of GapSince: one event at the edge of the ring is not announced.
GapSinceOffByOne(after) ==
  IF ring # <<>> /\ after > 0 /\ Head(ring) > after + 2 THEN after + 1 .. Head(ring) - 1 ELSE {}

\* bufferSince: the numbers asked for that the ring no longer has.  0 asks for all.
GapSince(after) ==
  IF ring # <<>> /\ after > 0 /\ Head(ring) > after + 1 THEN after + 1 .. Head(ring) - 1 ELSE {}

\* bufferSince: the events newer than `after`, to be written in the order of the
\* ring; the numbers grow along it, so the last one written is the highest.
Since(after) == {n \in ToSet(ring) : n > after}
LastOf(ns, old) == Max(ns \cup {old})

-----------------------------------------------------------------------------
\* emit.

Free(e) == sending[e] = Idle

\* What an emit still has to do; nothing once every subscriber was sent to.
Owing(n, left, full) == IF left \cup full = {} THEN Idle ELSE [seq |-> n, left |-> left, full |-> full]

\* Under the mutex: number, buffer, copy the subscribers.  Nothing once closed.
Emit(e) ==
  /\ Free(e) /\ (\A d \in 1 .. e - 1 : ~ Free(d)) /\ ~ closed /\ ~ crashed /\ seq < MaxSeq
  /\ seq' = seq + 1
  /\ ring' = Buffered(seq + 1)
  /\ sending' = [sending EXCEPT ![e] = Owing(seq + 1, subs, {})]
  /\ unseen' = unseen \cup {<<boot, n>> : n \in {m \in ToSet(ring) \ (ToSet(ring') \cup Tokens) : tab.top = 0}}
  /\ UNCHANGED <<closed, subs, sub, crashed, boot, cur, tab, told, overtaken>>

\* The send that does not block: into the channel, or to the default branch.  A later
\* number that goes first has overtaken the emits that still owe this subscriber theirs,
\* be it the event or the flag.
Send(e, k) ==
  LET n == sending[e].seq IN
  /\ ~ crashed /\ k \in sending[e].left /\ sending[e].full = {}
  /\ IF sub[k].shut
     THEN crashed' = TRUE /\ UNCHANGED <<sub, sending, overtaken>>
     ELSE /\ overtaken' = overtaken \cup
               {<<boot, sending[o].seq>> : o \in {p \in Emitters : /\ k \in sending[p].left \cup sending[p].full
                                                              /\ sending[p].seq < n}}
          /\ IF Len(sub[k].ch) < ChanSize
             THEN /\ sub' = [sub EXCEPT ![k].ch = Append(@, n)]
                  /\ sending' = [sending EXCEPT ![e] = Owing(n, @.left \ {k}, {})]
             ELSE /\ sending' = [sending EXCEPT ![e] = Owing(n, @.left \ {k}, {k})]
                  /\ UNCHANGED sub
          /\ UNCHANGED crashed
  /\ UNCHANGED <<ring, seq, closed, subs, boot, cur, tab, told, unseen>>

\* Mutant of Flag: the client is dropped silently.
FlagForgotten(e, k) ==
  /\ ~ crashed /\ k \in sending[e].full
  /\ sending' = [sending EXCEPT ![e] = Owing(@.seq, @.left, {})]
  /\ UNCHANGED <<ring, seq, closed, subs, sub, crashed, boot, tabVars>>

\* sub.lagged.Store(true), a step after the channel was found full.
Flag(e, k) ==
  /\ ~ crashed /\ k \in sending[e].full
  /\ sub' = [sub EXCEPT ![k].lagged = TRUE]
  /\ sending' = [sending EXCEPT ![e] = Owing(@.seq, @.left, {})]
  /\ UNCHANGED <<ring, seq, closed, subs, crashed, boot, tabVars>>

-----------------------------------------------------------------------------
\* handleSSE, and what its frames do in the tab.

\* The tab renders each number once and keeps the highest (append, onmessage); a
\* frame written to a connection it no longer has reaches nobody.
Write(k, gap, ns) ==
  IF cur' # k THEN UNCHANGED <<tab, told>>
  ELSE /\ told' = told \cup {<<boot, n>> : n \in gap}
       /\ tab' = [seen |-> tab.seen \cup ns, top |-> LastOf(ns, tab.top),
                  got |-> tab.got \cup {<<boot, n>> : n \in ns \ tab.seen}]

\* connect and the head of handleSSE: subscribe and replay from the ring, one section.
Connect(k) ==
  LET ns == Since(tab.top) IN
  /\ cur = NoConn /\ ~ closed /\ ~ crashed
  /\ sub[k].st = "new" /\ \A j \in 1 .. k - 1 : sub[j].st # "new"
  /\ subs' = subs \cup {k} /\ cur' = k
  /\ sub' = [sub EXCEPT ![k] = [NewSub EXCEPT !.st = "top", !.last = LastOf(ns, tab.top)]]
  /\ Write(k, GapSince(tab.top), ns)
  /\ UNCHANGED <<ring, seq, closed, sending, crashed, boot, unseen, overtaken>>

\* The top of the loop: a lagged client is resynchronised from the ring.
Look(k) ==
  LET ns == Since(sub[k].last) IN
  /\ sub[k].st = "top" /\ ~ crashed
  /\ IF sub[k].lagged
     THEN /\ sub' = [sub EXCEPT ![k].st = "select", ![k].lagged = FALSE, ![k].last = LastOf(ns, @)]
          /\ cur' = cur
          /\ Write(k, GapSince(sub[k].last), ns)
     ELSE sub' = [sub EXCEPT ![k].st = "select"] /\ UNCHANGED <<cur, tab, told>>
  /\ UNCHANGED <<ring, seq, closed, subs, sending, crashed, boot, unseen, overtaken>>

\* One event from the channel; what a replay already delivered is skipped.  A writer
\* that was waiting before it was flagged overtakes what it was flagged for.
Receive(k) ==
  LET n == Head(sub[k].ch) IN
  /\ cur = k /\ sub[k].st = "select" /\ sub[k].ch # <<>> /\ ~ crashed
  /\ cur' = cur
  /\ IF n <= sub[k].last
     THEN sub' = [sub EXCEPT ![k].st = "top", ![k].ch = Tail(@)] /\ UNCHANGED <<tab, told, overtaken>>
     ELSE /\ sub' = [sub EXCEPT ![k].st = "top", ![k].ch = Tail(@), ![k].last = n]
          /\ Write(k, {}, {n})
          /\ overtaken' = IF sub[k].lagged
                          THEN overtaken \cup {<<boot, m>> : m \in sub[k].last + 1 .. n - 1} ELSE overtaken
  /\ UNCHANGED <<ring, seq, closed, subs, sending, crashed, boot, unseen>>

\* Mutant of Heartbeat: the loop does not come round for it.
HeartbeatInSelect(k) == cur = k /\ sub[k].st = "select" /\ UNCHANGED streamVars

\* The ticker: a comment frame, and the loop comes round.
Heartbeat(k) ==
  /\ cur = k /\ sub[k].st = "select" /\ ~ crashed
  /\ sub' = [sub EXCEPT ![k].st = "top"]
  /\ UNCHANGED <<ring, seq, closed, subs, sending, crashed, boot, tabVars>>

\* The tab is gone, the server ends, or the channel was closed and is drained; the
\* deferred function closes the channel only if Shutdown has not.
Leave(k) ==
  /\ sub[k].st = "select" /\ ~ crashed
  /\ cur # k \/ closed \/ (sub[k].shut /\ sub[k].ch = <<>>)
  /\ sub' = [sub EXCEPT ![k] = [NewSub EXCEPT !.st = "gone", !.shut = sub[k].shut \/ k \in subs]]
  /\ subs' = subs \ {k}
  /\ cur' = IF cur = k THEN NoConn ELSE cur
  /\ UNCHANGED <<ring, seq, closed, sending, crashed, boot, tab, told, unseen, overtaken>>

\* Laptop sleep, network, another tab in front: the link goes, the writer is not told yet.
Cut ==
  /\ cur # NoConn /\ cur' = NoConn
  /\ UNCHANGED <<serverVars, tab, told, unseen, overtaken>>

-----------------------------------------------------------------------------
\* Shutdown, and another start.

\* The base context is canceled, closed is set and the map emptied under the mutex, and
\* every channel is closed.  A writer that ends for the canceled context while Shutdown
\* waits for the run leaves as if its link had been cut.
Shutdown ==
  /\ ~ closed /\ ~ crashed
  /\ closed' = TRUE /\ subs' = {}
  /\ sub' = [k \in Conns |-> IF k \in subs THEN [sub[k] EXCEPT !.shut = TRUE] ELSE sub[k]]
  /\ UNCHANGED <<ring, seq, sending, crashed, boot, tabVars>>

\* The process ends, however it does, and is started again; the tab stays open.
Restart ==
  /\ boot < MaxBoots /\ boot' = boot + 1
  /\ ring' = <<>> /\ seq' = 0 /\ closed' = FALSE /\ subs' = {}
  /\ sending' = [e \in Emitters |-> Idle] /\ crashed' = FALSE
  /\ sub' = [k \in Conns |-> IF sub[k].st = "new" THEN sub[k] ELSE [NewSub EXCEPT !.st = "gone"]]
  /\ cur' = NoConn
  /\ UNCHANGED <<tab, told, unseen, overtaken>>

StreamNext ==
  \/ \E e \in Emitters : \/ Emit(e)
                         \/ \E k \in Conns : Send(e, k) \/ Flag(e, k)
  \/ \E k \in Conns : Connect(k) \/ Look(k) \/ Receive(k) \/ Heartbeat(k) \/ Leave(k)
  \/ Cut \/ Shutdown

StreamSpec == StreamInit /\ [][StreamNext]_streamVars

\* The same with the fault that the server, and not the tab, is started again.
StreamRestartSpec == StreamInit /\ [][StreamNext \/ Restart]_streamVars

(***************************************************************************)
(* emit never blocks, and a writer runs until it waits: each of their steps *)
(* is weakly fair.  In select a ready channel and the ticker compete, and  *)
(* Go picks among the ready ones at random: a channel that stays ready is  *)
(* served, so Receive is strongly fair.  Events, cuts and the end of the   *)
(* server are nobody's duty.                                               *)
(***************************************************************************)
StreamFairness ==
  /\ \A e \in Emitters, k \in Conns : WF_streamVars(Send(e, k)) /\ WF_streamVars(Flag(e, k))
  /\ \A k \in Conns : WF_streamVars(Look(k)) /\ WF_streamVars(Heartbeat(k)) /\ SF_streamVars(Receive(k))

-----------------------------------------------------------------------------
\* The tab has all there is for it: nothing on the way, and its writer waits.
Settled ==
  /\ ~ crashed /\ cur # NoConn /\ ~ sub[cur].shut
  /\ sub[cur].st = "select" /\ sub[cur].ch = <<>> /\ ~ sub[cur].lagged
  /\ \A e \in Emitters : Free(e)

\* server.go:272 "never drop silently": once settled, the tab has rendered every event
\* the ring still holds or was told it missed it, unless a concurrent emit overtook it.
RingIsRendered == Settled => \A i \in DOMAIN ring : Accounted(ring[i])

\* The structural events of this life of the server that the ring no longer holds.
RolledOut == {n \in 1 .. seq : n \notin ToSet(ring) \cup Tokens}

\* server.go:2086-2089 "an explicit gap frame is emitted": once settled, a structural
\* event that is no longer in the ring was rendered or announced by a gap frame.  Two
\* exceptions, both lost in silence: an event that left the ring while the tab had seen
\* nothing, for which bufferSince announces no gap (server.go:2231), and one that a
\* concurrent emit overtook.
RolledPastIsTold == Settled => \A n \in RolledOut : <<boot, n>> \in unseen \/ Accounted(n)

\* server.go:59-62: a client that stays connected gets to every structural event or
\* past it, by the loop or at the latest by a heartbeat, however far it fell behind.
EventsArrive ==
  \A n \in (1 .. MaxSeq) \ Tokens :
    (cur # NoConn /\ seq >= n) ~> (cur = NoConn \/ closed \/ crashed \/ tab.top >= n)
=============================================================================

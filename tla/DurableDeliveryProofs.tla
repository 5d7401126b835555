------------------------- MODULE DurableDeliveryProofs -------------------------
(***************************************************************************)
(* Proofs about durable delivery end to end, for every number of concurrent *)
(* fan-outs, every pair of queue limits, every retention, and every number  *)
(* of append errors, cancelled requests, prunes, crashes and lost links.    *)
(***************************************************************************)
EXTENDS DurableDelivery, QueueOpsProofs, FiniteSetTheorems

\* Every <<seq, id>> an event was ever stamped with, by the log or in memory.
Known == issued \cup unlogged

\* What the log holds and what its calls carry.
Batches == Seq([id : Nat, ev : Events])
Calls == [ts : Nat, batch : Batches, base : Nat, floor : Nat]
Bounded(S) == \E b \in Nat : S \subseteq 0..b
LogInv ==
  /\ Bounded(DOMAIN rows)
  /\ \A s \in DOMAIN rows : <<s, rows[s].id>> \in issued
  /\ head \in Nat /\ floor \in Nat /\ memSeq \in Nat /\ now \in Nat
  /\ begun \in 0..MaxBegun
  /\ pc \in [Log!Procs -> Log!PcValues]
  /\ job \in [Log!Procs -> Calls]
  /\ issued \subseteq Nat \X (1..begun)
  /\ unlogged \subseteq Nat \X (1..begun)

\* An id stands for one event: it is stamped once, and until then only its
\* own fan-out knows it.
IdInv ==
  /\ \A x, y \in Known : x[2] = y[2] => x[1] = y[1]
  /\ \A t \in Tasks : \A i \in DOMAIN job[t].batch :
       LET n == job[t].batch[i].id IN
       /\ n \in 1..begun
       /\ pc[t] \in {"waiting", "writing", "err"} => \A x \in Known : x[2] # n
       /\ pc[t] \in {"committed", "publishing", "ok"} => <<job[t].base + i, n>> \in issued
       /\ \A u \in Tasks : \A j \in DOMAIN job[u].batch :
            job[u].batch[j].id = n => u = t /\ j = i

\* Frames in the queue and messages on the link carry what was stamped.
GoodFrames ==
  {f \in [is_event : {TRUE}, size : Nat, seq : Nat, id : Nat] : <<f.seq, f.id>> \in Known}
Msgs == [kind : {"event", "replay_gap", "replayed", "lagged"}, seq : Nat, id : Nat]
GoodMsgs == {m \in Msgs : m.kind = "event" => <<m.seq, m.id>> \in Known}
Conns == [phase : {"none", "opened", "subscribed", "floor", "head", "live"},
          after : Nat, gap : BOOLEAN, floor : Nat, head : Nat]
LinkInv ==
  /\ cancelled \subseteq Tasks
  /\ conn \in Conns /\ (conn.gap => conn.floor > 0)
  /\ queue \in QueueType(GoodFrames)
  /\ wire \in Seq(GoodMsgs)

\* The handler was given what was stamped; the cursor, in memory and saved, is
\* that of an event the handler finished; and what the handler was given since
\* the client's start is behind the cursor or still in its hands.
Busies == [seq : Nat, id : Nat]
Clients == [linked : BOOLEAN, cursor : Nat, seen : Seq(Nat), busy : Busies,
            returned : BOOLEAN]
InHand ==
  /\ client.busy # NoEvent => <<client.busy.seq, client.busy.id>> \in Known
  /\ client.returned => <<client.busy.seq, client.busy.id>> \in handled
Passed(x) == x[1] <= client.cursor \/ client.busy = [seq |-> x[1], id |-> x[2]]
ClientInv ==
  /\ client \in Clients /\ saved \in Nat
  /\ wanted \subseteq 1..begun /\ gapped \subseteq Nat
  /\ handled \subseteq Known
  /\ InHand
  /\ CursorEarned
  /\ \A i \in fresh : \E x \in Known : x[2] = i /\ Passed(x)

Inv == LogInv /\ IdInv /\ LinkInv /\ ClientInv

-----------------------------------------------------------------------------
(* What stays when the rest moves *)

\* Nothing stamped is forgotten.
Grows == Known \subseteq Known' /\ begun \in Nat /\ begun' \in Nat /\ begun <= begun'

\* Frames and messages stay good while the set of stamped events grows.
LEMMA GoodGrows ==
  ASSUME Known \subseteq Known'
  PROVE  /\ GoodFrames \subseteq GoodFrames' /\ QueueType(GoodFrames) \subseteq QueueType(GoodFrames')
         /\ GoodMsgs \subseteq GoodMsgs' /\ Seq(GoodMsgs) \subseteq Seq(GoodMsgs')
<1>1. GoodFrames \subseteq GoodFrames'
  BY DEF GoodFrames
<1>2. QueueType(GoodFrames) \subseteq QueueType(GoodFrames')
  BY <1>1, QueueTypeGrows
<1>3. GoodMsgs \subseteq GoodMsgs'
  BY DEF GoodMsgs
<1>4. Seq(GoodMsgs) \subseteq Seq(GoodMsgs')
  BY <1>3, SeqMonotonic
<1> QED
  BY <1>1, <1>2, <1>3, <1>4

\* What the log holds and what ids mean stays while the log is left alone.
LEMMA LogKept ==
  ASSUME LogInv, IdInv, UNCHANGED <<logVars, memSeq, unlogged>>
  PROVE  LogInv' /\ IdInv' /\ Grows
<1>1. /\ rows' = rows /\ head' = head /\ floor' = floor /\ pc' = pc /\ job' = job
      /\ now' = now /\ begun' = begun /\ issued' = issued
      /\ memSeq' = memSeq /\ unlogged' = unlogged
  BY DEF logVars
<1>2. LogInv'
  BY <1>1 DEF LogInv, Log!Procs, Log!PcValues, Calls, Batches
<1>3. IdInv'
  BY <1>1 DEF IdInv, Known
<1>4. Grows
  BY <1>1 DEF Grows, Known, LogInv
<1> QED
  BY <1>2, <1>3, <1>4

\* A connection that does not move stays good.
LEMMA LinkKept ==
  ASSUME LinkInv, Grows, UNCHANGED <<conn, queue, wire>>, cancelled' \subseteq Tasks
  PROVE  LinkInv'
BY GoodGrows DEF LinkInv, Grows, Conns

\* A client that does not move stays good.
LEMMA ClientKept ==
  ASSUME ClientInv, Grows, UNCHANGED <<client, saved, handled, gapped, fresh>>,
         wanted' \subseteq 1..begun'
  PROVE  ClientInv'
<1>1. handled' \subseteq Known'
  BY DEF ClientInv, Grows
<1>2. CursorEarned'
  BY DEF ClientInv, CursorEarned
<1>3. \A i \in fresh' : \E x \in Known' : x[2] = i /\ Passed(x)'
  BY DEF ClientInv, Passed, Grows
<1>4. InHand'
  BY DEF ClientInv, InHand, Grows, NoEvent
<1> QED
  BY <1>1, <1>2, <1>3, <1>4 DEF ClientInv, Clients, Busies

\* The set of wanted ids stays within what was begun.
LEMMA WantedKept ==
  ASSUME ClientInv, Grows, wanted' = wanted
  PROVE  wanted' \subseteq 1..begun'
BY DEF ClientInv, Grows

-----------------------------------------------------------------------------
(* The connection *)

\* Steps that leave the log and the stamps alone.
LEMMA Quiet ==
  ASSUME Inv, UNCHANGED <<logVars, srvVars, unlogged>>
  PROVE  /\ LogInv' /\ IdInv' /\ Grows
         /\ Known' = Known /\ begun' = begun /\ cancelled' \subseteq Tasks
<1>1. LogInv' /\ IdInv' /\ Grows
  BY LogKept DEF Inv, srvVars
<1> QED
  BY <1>1 DEF Inv, LinkInv, srvVars, logVars, Known

\* Steps that leave the client alone too.
LEMMA QuietClient ==
  ASSUME Inv, UNCHANGED <<logVars, srvVars, clientVars, histVars>>
  PROVE  LogInv' /\ IdInv' /\ ClientInv' /\ Known' = Known /\ cancelled' \subseteq Tasks
<1>1. /\ unlogged' = unlogged /\ wanted' = wanted /\ client' = client /\ saved' = saved
      /\ handled' = handled /\ gapped' = gapped /\ fresh' = fresh
  BY DEF clientVars, histVars
<1>2. /\ LogInv' /\ IdInv' /\ Grows
      /\ Known' = Known /\ begun' = begun /\ cancelled' \subseteq Tasks
  BY <1>1, Quiet
<1>3. ClientInv'
  BY <1>1, <1>2, ClientKept, WantedKept DEF Inv
<1> QED
  BY <1>2, <1>3

\* A new connection has nothing that could be wrong.
LEMMA Fresh ==
  /\ NoConn \in Conns /\ NoConn.gap = FALSE
  /\ \A FS : NewQueue \in QueueType(FS) /\ <<>> \in Seq(FS)
BY DEF NoConn, Conns, NewQueue, QueueType

\* A good queue and a good link before a step are good after it.
LEMMA GoodStays ==
  ASSUME Known' = Known
  PROVE  GoodFrames' = GoodFrames /\ GoodMsgs' = GoodMsgs
BY DEF GoodFrames, GoodMsgs

\* The client connects, with its cursor.
LEMMA ConnectInv ==
  ASSUME Inv, Connect
  PROVE  Inv'
<1>1. UNCHANGED <<logVars, srvVars, unlogged>> /\ saved' = saved
      /\ wanted' = wanted /\ handled' = handled /\ gapped' = gapped /\ fresh' = fresh
  BY DEF Connect, histVars
<1>2. /\ client' = [client EXCEPT !.linked = TRUE] /\ queue' = NewQueue /\ wire' = <<>>
      /\ conn' = [NoConn EXCEPT !.phase = "opened", !.after = client.cursor]
  BY DEF Connect
<1>3. /\ LogInv' /\ IdInv' /\ Grows
      /\ Known' = Known /\ begun' = begun /\ cancelled' \subseteq Tasks
  BY <1>1, Quiet
<1>4. client \in Clients
  BY DEF Inv, ClientInv
<1>5. /\ client' \in Clients /\ client'.cursor = client.cursor /\ client'.busy = client.busy
      /\ client'.returned = client.returned
  BY <1>2, <1>4 DEF Clients
<1>6. conn' \in Conns /\ conn'.gap = FALSE
  BY <1>2, <1>4, Fresh DEF Conns, Clients
<1>7. LinkInv'
  BY <1>2, <1>3, <1>6, Fresh DEF LinkInv
<1>8. ClientInv'
  BY <1>1, <1>3, <1>5 DEF Inv, ClientInv, InHand, CursorEarned, Passed, NoEvent
<1> QED
  BY <1>3, <1>7, <1>8 DEF Inv

\* The replay reads floor, then head.
LEMMA ReadsInv ==
  ASSUME Inv, Subscribe \/ ReadFloor \/ ReadHead
  PROVE  Inv'
<1>1. UNCHANGED <<logVars, srvVars, clientVars, histVars>> /\ queue' = queue /\ wire' = wire
  BY DEF Subscribe, ReadFloor, ReadHead
<1>2. LogInv' /\ IdInv' /\ ClientInv' /\ Known' = Known /\ cancelled' \subseteq Tasks
  BY <1>1, QuietClient
<1>3. conn \in Conns /\ (conn.gap => conn.floor > 0) /\ floor \in Nat /\ head \in Nat
  BY DEF Inv, LinkInv, LogInv
<1>4. conn' \in Conns /\ (conn'.gap => conn'.floor > 0)
  <2>1. CASE Subscribe
    BY <1>3, <2>1 DEF Subscribe, Conns
  <2>2. CASE ReadFloor
    <3> DEFINE g == IsGap(conn.after, floor)
    <3>1. g \in BOOLEAN /\ (g => floor > 0)
      BY <1>3 DEF IsGap
    <3>2. conn' = [conn EXCEPT !.phase = "floor", !.floor = floor, !.gap = g]
      BY <2>2 DEF ReadFloor
    <3> HIDE DEF g
    <3> QED
      BY <1>3, <3>1, <3>2 DEF Conns
  <2>3. CASE ReadHead
    BY <1>3, <2>3 DEF ReadHead, Conns
  <2> QED
    BY <2>1, <2>2, <2>3
<1>5. LinkInv'
  BY <1>1, <1>2, <1>4, GoodStays DEF Inv, LinkInv
<1> QED
  BY <1>2, <1>5 DEF Inv

\* The replay sends rows of the table, which were committed.
LEMMA ReplayInv ==
  ASSUME Inv, Replay
  PROVE  Inv'
<1> DEFINE window == {s \in DOMAIN rows : InWindow(s) /\ rows[s].ev \in Matching}
           gap == IF conn.gap THEN <<GapMsg(conn.after, conn.floor)>> ELSE <<>>
<1>1. UNCHANGED <<logVars, srvVars, clientVars, histVars>> /\ queue' = queue
      /\ conn' = [NoConn EXCEPT !.phase = "live"]
  BY DEF Replay
<1>2. LogInv' /\ IdInv' /\ ClientInv' /\ Known' = Known /\ cancelled' \subseteq Tasks
  BY <1>1, QuietClient
<1>3. PICK order \in [1..Cardinality(window) -> window] :
        LET events == [i \in DOMAIN order |-> EventMsg(order[i], rows[order[i]].id)]
        IN  wire' = wire \o gap \o events \o <<ReplayedMsg(conn.head)>>
  BY DEF Replay
<1> DEFINE events == [i \in DOMAIN order |-> EventMsg(order[i], rows[order[i]].id)]
<1>4. conn \in Conns
  BY DEF Inv, LinkInv
<1>5. gap \in Seq(GoodMsgs) /\ <<ReplayedMsg(conn.head)>> \in Seq(GoodMsgs)
  <2>1. GapMsg(conn.after, conn.floor) \in GoodMsgs
    BY <1>4 DEF GapMsg, GoodMsgs, Msgs, Conns
  <2>2. ReplayedMsg(conn.head) \in GoodMsgs
    BY <1>4 DEF ReplayedMsg, GoodMsgs, Msgs, Conns
  <2> QED
    BY <2>1, <2>2
<1>6. events \in Seq(GoodMsgs)
  <2>1. ASSUME NEW s \in DOMAIN rows PROVE EventMsg(s, rows[s].id) \in GoodMsgs
    <3>1. <<s, rows[s].id>> \in issued /\ issued \subseteq Nat \X (1..begun)
      BY DEF Inv, LogInv
    <3>2. s \in Nat /\ rows[s].id \in Nat /\ <<s, rows[s].id>> \in Known
      BY <3>1 DEF Known
    <3> QED
      BY <3>2 DEF EventMsg, GoodMsgs, Msgs
  <2>2. \A i \in DOMAIN order : order[i] \in DOMAIN rows
    BY <1>3
  <2>3. events \in [DOMAIN order -> GoodMsgs]
    BY <2>1, <2>2
  <2>4. Cardinality(window) \in Nat
    <3>1. PICK b \in Nat : window \subseteq 0..b
      BY DEF Inv, LogInv, Bounded
    <3> HIDE DEF window
    <3>2. window \in SUBSET Nat /\ \A s \in window : s <= b
      BY <3>1
    <3> QED
      BY <3>2, FS_BoundedSetOfNaturals, FS_CardinalityType
  <2> QED
    BY <2>3, <2>4
<1>7. wire' \in Seq(GoodMsgs)
  <2>1. wire \in Seq(GoodMsgs)
    BY DEF Inv, LinkInv
  <2>2. wire' = wire \o gap \o events \o <<ReplayedMsg(conn.head)>>
    BY <1>3
  <2> HIDE DEF gap, events
  <2> QED
    BY <1>5, <1>6, <2>1, <2>2
<1>8. conn' \in Conns /\ conn'.gap = FALSE
  BY <1>1, Fresh DEF Conns
<1>9. LinkInv'
  BY <1>1, <1>2, <1>7, <1>8, GoodStays DEF Inv, LinkInv
<1> QED
  BY <1>2, <1>9 DEF Inv

\* Good frames are frames as the queue wants them.
LEMMA FramesOK == FrameSet(GoodFrames)
BY DEF FrameSet, GoodFrames

\* A live frame goes from the queue to the link, after the lag it owes.
LEMMA SendLiveInv ==
  ASSUME Inv, SendLive
  PROVE  Inv'
<1> DEFINE f == Head(queue.frames)
           lag == IF queue.lag = 0 THEN <<>> ELSE <<LaggedMsg(queue.lag)>>
<1>1. /\ UNCHANGED <<logVars, srvVars, clientVars, histVars>> /\ conn' = conn
      /\ wire' = wire \o lag \o <<EventMsg(f.seq, f.id)>>
      /\ queue' = TakeLag(PopFront(queue)) /\ queue.frames # <<>>
  BY DEF SendLive
<1>2. LogInv' /\ IdInv' /\ ClientInv' /\ Known' = Known /\ cancelled' \subseteq Tasks
  BY <1>1, QuietClient
<1>3. queue \in QueueType(GoodFrames) /\ wire \in Seq(GoodMsgs)
  BY DEF Inv, LinkInv
<1>4. f \in GoodFrames /\ queue' \in QueueType(GoodFrames)
  BY <1>1, <1>3, PopType, FramesOK
<1>5. EventMsg(f.seq, f.id) \in GoodMsgs
  BY <1>4 DEF EventMsg, GoodFrames, GoodMsgs, Msgs
<1>6. lag \in Seq(GoodMsgs)
  <2>1. LaggedMsg(queue.lag) \in GoodMsgs
    BY <1>3 DEF LaggedMsg, GoodMsgs, Msgs, QueueType
  <2> QED
    BY <2>1
<1> HIDE DEF f, lag
<1>7. wire' \in Seq(GoodMsgs)
  BY <1>1, <1>3, <1>5, <1>6
<1>8. LinkInv'
  BY <1>1, <1>2, <1>4, <1>7, GoodStays DEF Inv, LinkInv
<1> QED
  BY <1>2, <1>8 DEF Inv

\* A prefix of what was on the link.
LEMMA PrefixGood ==
  ASSUME NEW S, NEW w \in Seq(S), NEW n \in 0..Len(w)
  PROVE  SubSeq(w, 1, n) \in Seq(S)
<1>1. \A i \in 1..n : w[i] \in S
  OBVIOUS
<1> QED
  BY <1>1

\* The link is lost; a prefix of what was sent may still arrive.
LEMMA LinkDropInv ==
  ASSUME Inv, LinkDrop
  PROVE  Inv'
<1>1. /\ UNCHANGED <<logVars, srvVars, clientVars, histVars>>
      /\ conn' = NoConn /\ queue' = NewQueue
      /\ \E n \in 0..Len(wire) : wire' = SubSeq(wire, 1, n)
  BY DEF LinkDrop
<1>2. LogInv' /\ IdInv' /\ ClientInv' /\ Known' = Known /\ cancelled' \subseteq Tasks
  BY <1>1, QuietClient
<1>3. wire' \in Seq(GoodMsgs)
  BY <1>1, PrefixGood DEF Inv, LinkInv
<1>4. LinkInv'
  BY <1>1, <1>2, <1>3, Fresh, GoodStays DEF LinkInv
<1> QED
  BY <1>2, <1>4 DEF Inv

-----------------------------------------------------------------------------
(* The client *)

\* The frame the client receives.
LEMMA HeadGood ==
  ASSUME Inv, wire # <<>>
  PROVE  Head(wire) \in GoodMsgs /\ Tail(wire) \in Seq(GoodMsgs)
BY DEF Inv, LinkInv

\* No stamped event looks like the absence of one.
LEMMA KnownIsEvent ==
  ASSUME Inv, NEW x \in Known
  PROVE  x[1] \in Nat /\ x[2] \in Nat /\ [seq |-> x[1], id |-> x[2]] # NoEvent
         /\ x = <<x[1], x[2]>>
<1>1. x \in Nat \X (1..begun)
  BY DEF Inv, LogInv, Known
<1>2. x[2] # 0
  BY <1>1
<1> QED
  BY <1>1, <1>2 DEF NoEvent

\* An idle handler has nothing to return.
LEMMA Unreturned ==
  ASSUME Inv, client.busy = NoEvent
  PROVE  ~client.returned
<1> SUFFICES ASSUME client.returned PROVE FALSE
  OBVIOUS
<1> DEFINE x == <<client.busy.seq, client.busy.id>>
<1>1. x \in Known
  BY DEF Inv, ClientInv, InHand
<1>2. x[2] = 0
  BY DEF NoEvent
<1>3. x \in Nat \X (1..begun) /\ begun \in Nat
  BY <1>1 DEF Inv, LogInv, Known
<1> HIDE DEF x
<1> QED
  BY <1>2, <1>3

\* An event reaches the handler.
LEMMA ClientHandleInv ==
  ASSUME Inv, ClientHandle
  PROVE  Inv'
<1> DEFINE m == Head(wire)
           b == [seq |-> m.seq, id |-> m.id]
<1>1. /\ UNCHANGED <<logVars, srvVars, unlogged>> /\ conn' = conn /\ queue' = queue
      /\ wire' = Tail(wire) /\ saved' = saved /\ wanted' = wanted /\ gapped' = gapped
      /\ handled' = handled /\ fresh' = fresh \cup {m.id}
      /\ client' = [client EXCEPT !.busy = b]
      /\ wire # <<>> /\ m.kind = "event" /\ client.busy = NoEvent
  BY DEF ClientHandle, Receives
<1>2. /\ LogInv' /\ IdInv' /\ Grows
      /\ Known' = Known /\ begun' = begun /\ cancelled' \subseteq Tasks
  BY <1>1, Quiet
<1>3. m \in GoodMsgs /\ Tail(wire) \in Seq(GoodMsgs)
  BY <1>1, HeadGood
<1>4. m.seq \in Nat /\ m.id \in Nat /\ <<m.seq, m.id>> \in Known
  BY <1>1, <1>3 DEF GoodMsgs, Msgs
<1>5. client \in Clients /\ client' \in Clients
      /\ client'.cursor = client.cursor /\ client'.busy = b /\ client'.returned = client.returned
  <2>1. client \in Clients
    BY DEF Inv, ClientInv
  <2> QED
    BY <1>1, <1>4, <2>1 DEF Clients, Busies
<1>6. b.seq = m.seq /\ b.id = m.id
  OBVIOUS
<1> HIDE DEF m
<1>7. \A i \in fresh' : \E x \in Known' : x[2] = i /\ Passed(x)'
  <2> SUFFICES ASSUME NEW i \in fresh' PROVE \E x \in Known' : x[2] = i /\ Passed(x)'
    OBVIOUS
  <2>1. CASE i = m.id
    <3> DEFINE x == <<m.seq, m.id>>
    <3>1. x \in Known' /\ x[2] = i /\ x[1] = m.seq
      BY <1>2, <1>4, <2>1
    <3>2. client'.busy = [seq |-> x[1], id |-> x[2]]
      BY <1>5, <2>1, <3>1
    <3> HIDE DEF x
    <3> QED
      BY <3>1, <3>2 DEF Passed
  <2>2. CASE i \in fresh
    <3>1. PICK x \in Known : x[2] = i /\ Passed(x)
      BY <2>2 DEF Inv, ClientInv
    <3>2. x \in Known
      OBVIOUS
    <3>3. x[1] <= client.cursor
      BY <1>1, <3>1, <3>2, KnownIsEvent DEF Passed
    <3> QED
      BY <1>2, <1>5, <3>1, <3>3 DEF Passed
  <2> QED
    BY <1>1, <2>1, <2>2
<1>8. CursorEarned'
  BY <1>1, <1>5 DEF Inv, ClientInv, CursorEarned
<1>9. handled' \subseteq Known' /\ InHand'
  <2>1. client'.busy.seq = m.seq /\ client'.busy.id = m.id
    BY <1>5
  <2>2. handled \subseteq Known /\ ~client.returned
    BY <1>1, Unreturned DEF Inv, ClientInv
  <2> QED
    BY <1>1, <1>2, <1>4, <1>5, <2>1, <2>2 DEF InHand
<1>10. ClientInv'
  <2>1. saved' \in Nat /\ wanted' \subseteq 1..begun' /\ gapped' \subseteq Nat
    BY <1>1, <1>2 DEF Inv, ClientInv
  <2>2. client' \in Clients'
    BY <1>5 DEF Clients, Busies
  <2> QED
    BY <1>7, <1>8, <1>9, <2>1, <2>2, Zenon DEF ClientInv
<1>11. LinkInv'
  BY <1>1, <1>2, <1>3, GoodStays DEF Inv, LinkInv
<1> QED
  BY <1>2, <1>10, <1>11 DEF Inv

\* The handler finishes the event it holds.
LEMMA HandlerReturnsInv ==
  ASSUME Inv, HandlerReturns
  PROVE  Inv'
<1> DEFINE x == <<client.busy.seq, client.busy.id>>
<1>1. /\ UNCHANGED <<logVars, srvVars, unlogged>> /\ conn' = conn /\ queue' = queue
      /\ wire' = wire /\ saved' = saved /\ wanted' = wanted /\ gapped' = gapped
      /\ handled' = handled \cup {x} /\ fresh' = fresh /\ client.busy # NoEvent
      /\ client' = [client EXCEPT !.returned = TRUE]
  BY DEF HandlerReturns, connVars
<1>2. /\ LogInv' /\ IdInv' /\ Grows
      /\ Known' = Known /\ begun' = begun /\ cancelled' \subseteq Tasks
  BY <1>1, Quiet
<1>3. client \in Clients /\ x \in Known
  BY <1>1 DEF Inv, ClientInv, InHand
<1>4. /\ client' \in Clients /\ client'.busy = client.busy
      /\ client'.cursor = client.cursor /\ client'.returned = TRUE
  BY <1>1, <1>3 DEF Clients
<1>5. handled' \subseteq Known'
  BY <1>1, <1>2, <1>3 DEF Inv, ClientInv
<1>6. InHand'
  BY <1>1, <1>2, <1>3, <1>4 DEF InHand
<1>7. CursorEarned'
  BY <1>1, <1>4 DEF Inv, ClientInv, CursorEarned
<1>8. \A i \in fresh' : \E y \in Known' : y[2] = i /\ Passed(y)'
  BY <1>1, <1>2, <1>4 DEF Inv, ClientInv, Passed
<1>9. ClientInv'
  <2>1. saved' \in Nat /\ wanted' \subseteq 1..begun' /\ gapped' \subseteq Nat
    BY <1>1, <1>2 DEF Inv, ClientInv
  <2>2. client' \in Clients'
    BY <1>4 DEF Clients, Busies
  <2> QED
    BY <1>5, <1>6, <1>7, <1>8, <2>1, <2>2, Zenon DEF ClientInv
<1>10. LinkInv'
  BY <1>1, <1>2, LinkKept DEF Inv
<1> QED
  BY <1>2, <1>9, <1>10 DEF Inv

\* record and save: the cursor moves to the event that was handled, or stays.
LEMMA ClientRecordInv ==
  ASSUME Inv, ClientRecord
  PROVE  Inv'
<1> DEFINE e == client.busy
           c == Advanced(client.cursor, e.seq)
           seen == Remember(client.seen, e.id)
<1>1. /\ UNCHANGED <<logVars, srvVars, unlogged>> /\ conn' = conn /\ queue' = queue
      /\ wire' = wire /\ wanted' = wanted /\ gapped' = gapped /\ handled' = handled
      /\ fresh' = fresh /\ saved' = c /\ e # NoEvent /\ client.returned
      /\ client' = [client EXCEPT !.cursor = c, !.busy = NoEvent, !.returned = FALSE,
                                  !.seen = seen]
  BY DEF ClientRecord, Done, connVars, histVars
<1>2. /\ LogInv' /\ IdInv' /\ Grows
      /\ Known' = Known /\ begun' = begun /\ cancelled' \subseteq Tasks
  BY <1>1, Quiet
<1>3. client \in Clients /\ e \in Busies /\ <<e.seq, e.id>> \in handled
  BY <1>1 DEF Inv, ClientInv, InHand, Clients
<1>4. c \in Nat /\ c >= e.seq /\ c >= client.cursor /\ c \in {e.seq, client.cursor}
  BY <1>3 DEF Advanced, Clients, Busies
<1>5. seen \in Seq(Nat)
  <2> DEFINE all == IF e.id \in ToSet(client.seen) THEN client.seen ELSE Append(client.seen, e.id)
             cap == IF DedupCapacity > 1 THEN DedupCapacity ELSE 1
  <2>1. all \in Seq(Nat) /\ cap \in Nat /\ cap >= 1
    BY <1>3, DurableAssumption DEF Clients, Busies
  <2>2. seen = IF Len(all) > cap THEN Tail(all) ELSE all
    BY DEF Remember
  <2> HIDE DEF all, cap
  <2> QED
    BY <2>1, <2>2
<1> HIDE DEF seen
<1>6. client' \in Clients /\ client'.cursor = c /\ client'.busy = NoEvent /\ ~client'.returned
  BY <1>1, <1>3, <1>4, <1>5 DEF Clients, Busies, NoEvent
<1>7. CursorEarned'
  <2>1. c = 0 \/ \E x \in handled : x[1] = c
    <3>1. CASE c = e.seq
      BY <1>3, <3>1
    <3>2. CASE c = client.cursor
      BY <3>2 DEF Inv, ClientInv, CursorEarned
    <3> QED
      BY <1>4, <3>1, <3>2
  <2> HIDE DEF c
  <2> QED
    BY <1>1, <1>6, <2>1 DEF CursorEarned
<1>8. ASSUME NEW i \in fresh' PROVE \E x \in Known' : x[2] = i /\ Passed(x)'
  <2>1. PICK x \in Known : x[2] = i /\ Passed(x)
    BY <1>1 DEF Inv, ClientInv
  <2>2. x[1] \in Nat /\ client.cursor \in Nat
    BY <1>3, KnownIsEvent DEF Inv, ClientInv, Clients
  <2>3. x[1] <= c
    BY <1>4, <2>1, <2>2 DEF Passed
  <2> QED
    BY <1>2, <1>6, <2>1, <2>3 DEF Passed
<1>9. ClientInv'
  <2>1. saved' \in Nat /\ wanted' \subseteq 1..begun' /\ gapped' \subseteq Nat
        /\ handled' \subseteq Known'
    BY <1>1, <1>2, <1>4 DEF Inv, ClientInv
  <2>2. client' \in Clients' /\ InHand'
    BY <1>6 DEF Clients, Busies, NoEvent, InHand
  <2> QED
    BY <1>7, <1>8, <2>1, <2>2, Zenon DEF ClientInv
<1>10. LinkInv'
  BY <1>1, <1>2, LinkKept DEF Inv
<1> QED
  BY <1>2, <1>9, <1>10 DEF Inv

\* The handler learns of a gap.
LEMMA ClientGapInv ==
  ASSUME Inv, ClientGap
  PROVE  Inv'
<1>1. /\ UNCHANGED <<logVars, srvVars, unlogged>> /\ conn' = conn /\ queue' = queue
      /\ wire' = Tail(wire) /\ wanted' = wanted /\ handled' = handled /\ fresh' = fresh
      /\ client' = client /\ saved' = saved /\ wire # <<>>
      /\ gapped' = gapped \cup ((Head(wire).seq + 1)..(Head(wire).id - 1))
  BY DEF ClientGap, clientVars, Receives
<1>2. /\ LogInv' /\ IdInv' /\ Grows
      /\ Known' = Known /\ begun' = begun /\ cancelled' \subseteq Tasks
  BY <1>1, Quiet
<1>3. Head(wire) \in GoodMsgs /\ Tail(wire) \in Seq(GoodMsgs)
  BY <1>1, HeadGood
<1>4. gapped' \subseteq Nat
  <2>1. Head(wire).seq \in Nat /\ Head(wire).id \in Nat
    BY <1>3 DEF GoodMsgs, Msgs
  <2>2. gapped \subseteq Nat
    BY DEF Inv, ClientInv
  <2>3. (Head(wire).seq + 1)..(Head(wire).id - 1) \subseteq Nat
    BY <2>1
  <2> QED
    BY <1>1, <2>2, <2>3
<1>5. ClientInv'
  <2>1. saved' \in Nat /\ wanted' \subseteq 1..begun' /\ handled' \subseteq Known'
    BY <1>1, <1>2 DEF Inv, ClientInv
  <2>2. client' \in Clients' /\ InHand'
    BY <1>1, <1>2 DEF Inv, ClientInv, InHand, Clients, Busies, NoEvent
  <2>3. CursorEarned'
    BY <1>1 DEF Inv, ClientInv, CursorEarned
  <2>4. \A i \in fresh' : \E x \in Known' : x[2] = i /\ Passed(x)'
    BY <1>1, <1>2 DEF Inv, ClientInv, Passed
  <2> QED
    BY <1>4, <2>1, <2>2, <2>3, <2>4, Zenon DEF ClientInv
<1>6. LinkInv'
  BY <1>1, <1>2, <1>3, GoodStays DEF Inv, LinkInv
<1> QED
  BY <1>2, <1>5, <1>6 DEF Inv

\* Frames the client only reads past.
LEMMA ClientReadsInv ==
  ASSUME Inv, ClientSkip \/ ClientReplayed
  PROVE  Inv'
<1>1. UNCHANGED <<logVars, srvVars, clientVars, histVars>> /\ queue' = queue /\ conn' = conn
      /\ wire # <<>> /\ wire' = Tail(wire)
  BY DEF ClientSkip, ClientReplayed, Receives
<1>2. LogInv' /\ IdInv' /\ ClientInv' /\ Known' = Known /\ cancelled' \subseteq Tasks
  BY <1>1, QuietClient
<1>3. LinkInv'
  BY <1>1, <1>2, HeadGood, GoodStays DEF Inv, LinkInv
<1> QED
  BY <1>2, <1>3 DEF Inv

\* The client hangs up, by `lagged` or by the end of the connection.
LEMMA ClientHangsInv ==
  ASSUME Inv, ClientLagged \/ ClientDisconnected
  PROVE  Inv'
<1>1. /\ UNCHANGED <<logVars, srvVars, unlogged>> /\ saved' = saved /\ wanted' = wanted
      /\ handled' = handled /\ gapped' = gapped /\ fresh' = fresh
      /\ client' = Hangs(client)
      /\ \/ conn' = NoConn /\ queue' = NewQueue /\ wire' = <<>>
         \/ conn' = conn /\ queue' = queue /\ wire' = wire
  BY DEF ClientLagged, ClientDisconnected, AfterLagged, connVars, histVars
<1>2. /\ LogInv' /\ IdInv' /\ Grows
      /\ Known' = Known /\ begun' = begun /\ cancelled' \subseteq Tasks
  BY <1>1, Quiet
<1>3. client \in Clients
  BY DEF Inv, ClientInv
<1>4. client' \in Clients /\ client'.cursor = client.cursor /\ client'.busy = client.busy
      /\ client'.returned = client.returned
  BY <1>1, <1>3 DEF Hangs, Clients
<1>5. ClientInv'
  <2>1. saved' \in Nat /\ wanted' \subseteq 1..begun' /\ handled' \subseteq Known' /\ gapped' \subseteq Nat
    BY <1>1, <1>2 DEF Inv, ClientInv
  <2>2. client' \in Clients' /\ InHand'
    BY <1>1, <1>2, <1>4 DEF Inv, ClientInv, InHand, Clients, Busies, NoEvent
  <2>3. CursorEarned'
    BY <1>1, <1>4 DEF Inv, ClientInv, CursorEarned
  <2>4. \A i \in fresh' : \E x \in Known' : x[2] = i /\ Passed(x)'
    BY <1>1, <1>2, <1>4 DEF Inv, ClientInv, Passed
  <2> QED
    BY <2>1, <2>2, <2>3, <2>4, Zenon DEF ClientInv
<1>6. LinkInv'
  BY <1>1, <1>2, Fresh, GoodStays DEF Inv, LinkInv
<1> QED
  BY <1>2, <1>5, <1>6 DEF Inv

\* The client starts again from the saved cursor.
LEMMA ClientCrashInv ==
  ASSUME Inv, ClientCrash
  PROVE  Inv'
<1>1. /\ UNCHANGED <<logVars, srvVars, unlogged>> /\ saved' = saved /\ wanted' = wanted
      /\ handled' = handled /\ gapped' = gapped /\ fresh' = {}
      /\ client' = NewClient(saved)
      /\ conn' = NoConn /\ queue' = NewQueue /\ wire' = <<>>
  BY DEF ClientCrash
<1>2. /\ LogInv' /\ IdInv' /\ Grows
      /\ Known' = Known /\ begun' = begun /\ cancelled' \subseteq Tasks
  BY <1>1, Quiet
<1>3. saved \in Nat
  BY DEF Inv, ClientInv
<1>4. client' \in Clients' /\ client'.cursor = saved /\ InHand'
  <2>1. <<>> \in Seq(Nat)
    OBVIOUS
  <2> QED
    BY <1>1, <1>3, <2>1 DEF NewClient, Clients, Busies, NoEvent, InHand
<1>5. ClientInv'
  <2>1. saved' \in Nat /\ wanted' \subseteq 1..begun' /\ handled' \subseteq Known' /\ gapped' \subseteq Nat
    BY <1>1, <1>2 DEF Inv, ClientInv
  <2>2. CursorEarned'
    BY <1>1, <1>4 DEF Inv, ClientInv, CursorEarned
  <2>3. \A i \in fresh' : \E x \in Known' : x[2] = i /\ Passed(x)'
    BY <1>1
  <2> QED
    BY <1>4, <2>1, <2>2, <2>3, Zenon DEF ClientInv
<1>6. LinkInv'
  BY <1>1, <1>2, Fresh DEF LinkInv
<1> QED
  BY <1>2, <1>5, <1>6 DEF Inv

-----------------------------------------------------------------------------
(* The log's steps, as fan-out, the pruner and the server take them *)

Unstamped == {"waiting", "writing", "err"}
StampedPcs == {"committed", "publishing", "ok"}

\* Ids keep their meaning while calls move on without stamping anything: a
\* call keeps its batch, or is over.
LEMMA IdKept ==
  ASSUME IdInv, issued' = issued, unlogged' = unlogged, begun' = begun,
         \A t \in Tasks :
           \/ DOMAIN job'[t].batch = {}
           \/ /\ job'[t].batch = job[t].batch
              /\ pc'[t] \in Unstamped => pc[t] \in Unstamped
              /\ pc'[t] \in StampedPcs => pc[t] \in StampedPcs /\ job'[t].base = job[t].base
  PROVE  IdInv'
<1>0. \A t, u \in Tasks : \A i \in DOMAIN job[t].batch : \A j \in DOMAIN job[u].batch :
        job[u].batch[j].id = job[t].batch[i].id => u = t /\ j = i
  BY Zenon DEF IdInv
<1>1. Known' = Known
  BY DEF Known
<1>2. \A x, y \in Known' : x[2] = y[2] => x[1] = y[1]
  BY <1>1 DEF IdInv
<1>3. ASSUME NEW t \in Tasks, NEW i \in DOMAIN job'[t].batch
      PROVE  LET n == job'[t].batch[i].id IN
             /\ n \in 1..begun'
             /\ pc'[t] \in Unstamped => \A x \in Known' : x[2] # n
             /\ pc'[t] \in StampedPcs => <<job'[t].base + i, n>> \in issued'
             /\ \A u \in Tasks : \A j \in DOMAIN job'[u].batch :
                  job'[u].batch[j].id = n => u = t /\ j = i
  <2> DEFINE n == job[t].batch[i].id
  <2>1. /\ job'[t].batch = job[t].batch /\ i \in DOMAIN job[t].batch
        /\ pc'[t] \in Unstamped => pc[t] \in Unstamped
        /\ pc'[t] \in StampedPcs => pc[t] \in StampedPcs /\ job'[t].base = job[t].base
    BY <1>3
  <2>2. /\ n \in 1..begun
        /\ pc[t] \in Unstamped => \A x \in Known : x[2] # n
        /\ pc[t] \in StampedPcs => <<job[t].base + i, n>> \in issued
    BY <2>1 DEF IdInv, Unstamped, StampedPcs
  <2>3. ASSUME NEW u \in Tasks, NEW j \in DOMAIN job'[u].batch, job'[u].batch[j].id = n
        PROVE  u = t /\ j = i
    <3>1. job'[u].batch = job[u].batch /\ j \in DOMAIN job[u].batch
      BY <2>3
    <3>2. job[u].batch[j].id = n
      BY <2>3, <3>1
    <3> QED
      BY <1>0, <2>1, <3>1, <3>2, Zenon
  <2> QED
    BY <1>1, <2>1, <2>2, <2>3
<1> QED
  BY <1>2, <1>3, Zenon DEF IdInv, Unstamped, StampedPcs

\* A process that does nothing carries an empty call.
LEMMA NoJobCall == Log!NoJob \in Calls
<1>1. <<>> \in Batches
  BY DEF Batches
<1> QED
  BY <1>1 DEF Log!NoJob, Calls

\* The parts of a call have their types.
LEMMA CallFacts ==
  ASSUME LogInv, NEW p \in Log!Procs
  PROVE  /\ job[p] \in Calls /\ job[p].batch \in Batches
         /\ job[p].base \in Nat /\ job[p].floor \in Nat /\ job[p].ts \in Nat
         /\ Len(job[p].batch) \in Nat /\ DOMAIN job[p].batch = 1..Len(job[p].batch)
         /\ \A i \in DOMAIN job[p].batch :
              job[p].batch[i].id \in Nat /\ job[p].batch[i].ev \in Events
<1>1. job[p] \in Calls
  BY DEF LogInv
<1>2. job[p].batch \in Seq([id : Nat, ev : Events])
  BY <1>1 DEF Calls, Batches
<1> DEFINE b == job[p].batch
<1> HIDE DEF b
<1>3. b \in Seq([id : Nat, ev : Events])
  BY <1>2 DEF b
<1>4. Len(b) \in Nat /\ DOMAIN b = 1..Len(b) /\ \A i \in DOMAIN b : b[i] \in [id : Nat, ev : Events]
  BY <1>3, LenProperties
<1>5. \A i \in DOMAIN b : b[i].id \in Nat /\ b[i].ev \in Events
  BY <1>4
<1>6. job[p].batch \in Batches /\ job[p].base \in Nat /\ job[p].floor \in Nat /\ job[p].ts \in Nat
  BY <1>1 DEF Calls
<1> QED
  BY <1>1, <1>4, <1>5, <1>6 DEF b

\* A call that takes the mutex, fails, or stores head or floor.
LEMMA CallStepsInv ==
  ASSUME LogInv, IdInv, NEW p \in Log!Procs, unlogged' = unlogged, memSeq' = memSeq,
         \/ Log!Lock(p)
         \/ p \in Tasks /\ (Log!AppendFail(p) \/ Log!StoreHead(p) \/ Log!StoreFloor(p))
  PROVE  LogInv' /\ IdInv' /\ Grows
<1>1. /\ rows' = rows /\ issued' = issued /\ now' = now /\ begun' = begun
      /\ head' = head \/ (p \in Tasks /\ head' = Log!HeadAfter(job[p]))
      /\ floor' = floor \/ (p \in Tasks /\ floor' = Log!FloorAfter(floor, job[p]))
  BY DEF Log!Lock, Log!AppendFail, Log!StoreHead, Log!StoreFloor, Log!diskVars,
         Log!atomics, Log!envVars
<1>2. \/ /\ pc[p] = "waiting" /\ pc' = [pc EXCEPT ![p] = "writing"]
         /\ job' = [job EXCEPT ![p].base = IF p = Pruner THEN 0 ELSE head]
      \/ /\ pc[p] = "writing" /\ pc' = [pc EXCEPT ![p] = "err"] /\ job' = job
      \/ /\ pc[p] = "committed" /\ pc' = [pc EXCEPT ![p] = "publishing"] /\ job' = job
      \/ /\ pc[p] = "publishing" /\ pc' = [pc EXCEPT ![p] = "ok"] /\ job' = job
  BY DEF Log!Lock, Log!AppendFail, Log!StoreHead, Log!StoreFloor
<1>3. head \in Nat /\ floor \in Nat /\ job[p].base \in Nat /\ Len(job[p].batch) \in Nat
      /\ job[p] \in Calls /\ pc \in [Log!Procs -> Log!PcValues] /\ job \in [Log!Procs -> Calls]
  BY CallFacts DEF LogInv
<1>4. head' \in Nat /\ floor' \in Nat
  BY <1>1, <1>3 DEF Log!HeadAfter, Log!FloorAfter
<1>5. pc' \in [Log!Procs -> Log!PcValues] /\ \A q \in Log!Procs : q # p => pc'[q] = pc[q]
  BY <1>2, <1>3 DEF Log!PcValues
<1>6. /\ job' \in [Log!Procs -> Calls] /\ \A q \in Log!Procs : q # p => job'[q] = job[q]
      /\ job'[p].batch = job[p].batch
      /\ pc[p] = "waiting" \/ job'[p].base = job[p].base
  <2>1. CASE job' = job
    BY <1>3, <2>1
  <2>2. CASE pc[p] = "waiting" /\ job' = [job EXCEPT ![p].base = IF p = Pruner THEN 0 ELSE head]
    <3> DEFINE h == IF p = Pruner THEN 0 ELSE head
               c == [job[p] EXCEPT !.base = h]
    <3>1. h \in Nat
      BY <1>3
    <3> HIDE DEF h
    <3>2. c \in Calls /\ c.batch = job[p].batch
      BY <1>3, <3>1 DEF Calls
    <3>3. job' = [job EXCEPT ![p] = c]
      BY <2>2 DEF h
    <3> HIDE DEF c
    <3> QED
      BY <1>3, <2>2, <3>2, <3>3
  <2> QED
    BY <1>2, <2>1, <2>2
<1>7. IdInv'
  <2>1. ASSUME NEW t \in Tasks
        PROVE  /\ job'[t].batch = job[t].batch
               /\ pc'[t] \in Unstamped => pc[t] \in Unstamped
               /\ pc'[t] \in StampedPcs => pc[t] \in StampedPcs /\ job'[t].base = job[t].base
    <3>1. t \in Log!Procs
      BY DEF Log!Procs
    <3>2. CASE t # p
      BY <1>5, <1>6, <3>1, <3>2
    <3>3. CASE t = p
      BY <1>2, <1>3, <1>6, <3>3 DEF Unstamped, StampedPcs
    <3> QED
      BY <3>2, <3>3
  <2> QED
    BY <1>1, <2>1, IdKept
<1>8. LogInv'
  BY <1>1, <1>4, <1>5, <1>6 DEF LogInv, Log!Procs, Log!PcValues, Calls, Batches
<1>9. Grows
  BY <1>1 DEF Grows, Known, LogInv
<1> QED
  BY <1>7, <1>8, <1>9

\* The first and the last key of a bounded table are numbers.
LEMMA KeysAreNumbers ==
  ASSUME NEW S, Bounded(S)
  PROVE  Log!FirstKey(S) \in Nat /\ Log!LastKey(S) \in Nat
<1>0. PICK b \in Nat : S \subseteq 0..b
  BY DEF Bounded
<1>n. S \subseteq Nat
  BY <1>0
<1>1. CASE S = {}
  BY <1>1 DEF Log!FirstKey, Log!LastKey
<1>2. CASE S # {}
  <2>1. \E x \in S : \A y \in S : x <= y
    BY <1>n, <1>2, LeastMember
  <2>2. \E x \in S : \A y \in S : x >= y
    <3> DEFINE Above == {n \in Nat : \A y \in S : y <= n}
    <3>1. Above # {}
      BY <1>0
    <3>2. PICK n \in Above : \A m \in Above : n <= m
      <4>1. Above \subseteq Nat
        OBVIOUS
      <4> HIDE DEF Above
      <4> QED
        BY <3>1, <4>1, LeastMember
    <3>3. n \in S
      <4> SUFFICES ASSUME n \notin S PROVE FALSE
        OBVIOUS
      <4>1. \A y \in S : y \in Nat /\ y <= n /\ y # n
        BY <1>0, <3>2
      <4>2. n # 0
        BY <1>2, <4>1
      <4>3. n - 1 \in Nat /\ \A y \in S : y <= n - 1
        BY <3>2, <4>1, <4>2
      <4> QED
        BY <3>2, <4>3
    <3> QED
      BY <1>0, <3>2, <3>3
  <2>3. Log!Min(S) \in S
    BY <2>1 DEF Log!Min
  <2>4. Log!Max(S) \in S
    BY <2>2 DEF Log!Max
  <2> QED
    BY <1>n, <1>2, <2>3, <2>4 DEF Log!FirstKey, Log!LastKey
<1> QED
  BY <1>1, <1>2

\* What a prune leaves of the table.
LEMMA CutTable ==
  ASSUME LogInv, NEW gone, rows' = Log!Only(rows, DOMAIN rows \ gone)
  PROVE  /\ Bounded(DOMAIN rows') /\ Bounded(DOMAIN rows \ gone)
         /\ \A s \in DOMAIN rows' : <<s, rows'[s].id>> \in issued
<1>1. /\ DOMAIN rows' = DOMAIN rows \ gone
      /\ \A s \in DOMAIN rows' : rows'[s] = rows[s]
  BY DEF Log!Only
<1>2. Bounded(DOMAIN rows \ gone)
  BY DEF LogInv, Bounded
<1> QED
  BY <1>1, <1>2 DEF LogInv

\* The pruner's steps touch no fan-out, and take rows away only.
LEMMA PruneStepsInv ==
  ASSUME LogInv, IdInv, unlogged' = unlogged, memSeq' = memSeq,
         Log!PruneCall \/ Log!PruneCommit \/ Log!PruneFail \/ Log!PruneStore
  PROVE  LogInv' /\ IdInv' /\ Grows
<1>1. /\ issued' = issued /\ now' = now /\ begun' = begun /\ head' = head
      /\ floor' \in {floor, job[Pruner].floor}
  BY DEF Log!PruneCall, Log!PruneCommit, Log!PruneFail, Log!PruneStore, Log!diskVars,
         Log!atomics, Log!envVars
<1>2. \E v \in Log!PcValues : pc' = [pc EXCEPT ![Pruner] = v]
  BY DEF Log!PruneCall, Log!PruneCommit, Log!PruneFail, Log!PruneStore, Log!PcValues
<1>3. \/ rows' = rows
      \/ \E gone : /\ rows' = Log!Only(rows, DOMAIN rows \ gone)
                   /\ job' = [job EXCEPT ![Pruner].floor = Log!FirstKey(DOMAIN rows \ gone)]
  BY DEF Log!PruneCall, Log!PruneCommit, Log!PruneFail, Log!PruneStore, Log!diskVars
<1>4. \/ job' = [job EXCEPT ![Pruner] = [Log!NoJob EXCEPT !.ts = now]]
      \/ job' = [job EXCEPT ![Pruner] = Log!NoJob]
      \/ \E gone : /\ rows' = Log!Only(rows, DOMAIN rows \ gone)
                   /\ job' = [job EXCEPT ![Pruner].floor = Log!FirstKey(DOMAIN rows \ gone)]
  BY DEF Log!PruneCall, Log!PruneCommit, Log!PruneFail, Log!PruneStore
<1>5. /\ Pruner \in Log!Procs /\ Pruner \notin Tasks /\ job[Pruner] \in Calls
      /\ job[Pruner].floor \in Nat /\ now \in Nat /\ head \in Nat /\ floor \in Nat
      /\ pc \in [Log!Procs -> Log!PcValues] /\ job \in [Log!Procs -> Calls]
  <2>1. Pruner \in Log!Procs
    BY DEF Log!Procs
  <2> QED
    BY <2>1, CallFacts, DurableAssumption DEF LogInv
<1>6. \E c \in Calls : job' = [job EXCEPT ![Pruner] = c]
  <2>1. CASE job' = [job EXCEPT ![Pruner] = [Log!NoJob EXCEPT !.ts = now]]
    <3>1. [Log!NoJob EXCEPT !.ts = now] \in Calls
      <4> DEFINE c == Log!NoJob
      <4>1. c \in Calls
        BY NoJobCall
      <4> HIDE DEF c
      <4>2. [c EXCEPT !.ts = now] \in Calls
        BY <1>5, <4>1 DEF Calls
      <4> QED
        BY <4>2 DEF c
    <3> QED
      BY <2>1, <3>1
  <2>2. CASE job' = [job EXCEPT ![Pruner] = Log!NoJob]
    BY <2>2, NoJobCall
  <2>3. ASSUME NEW gone, rows' = Log!Only(rows, DOMAIN rows \ gone),
               job' = [job EXCEPT ![Pruner].floor = Log!FirstKey(DOMAIN rows \ gone)]
        PROVE  \E c \in Calls : job' = [job EXCEPT ![Pruner] = c]
    <3> DEFINE k == Log!FirstKey(DOMAIN rows \ gone)
    <3>1. k \in Nat
      BY <2>3, CutTable, KeysAreNumbers
    <3>2. job' = [job EXCEPT ![Pruner] = [job[Pruner] EXCEPT !.floor = k]]
      BY <2>3
    <3> HIDE DEF k
    <3>3. [job[Pruner] EXCEPT !.floor = k] \in Calls
      BY <1>5, <3>1 DEF Calls
    <3> QED
      BY <3>2, <3>3
  <2> QED
    BY <1>4, <2>1, <2>2, <2>3
<1>7. /\ pc' \in [Log!Procs -> Log!PcValues] /\ job' \in [Log!Procs -> Calls]
      /\ \A t \in Tasks : pc'[t] = pc[t] /\ job'[t] = job[t]
  BY <1>2, <1>5, <1>6 DEF Log!Procs
<1>8. Bounded(DOMAIN rows') /\ \A s \in DOMAIN rows' : <<s, rows'[s].id>> \in issued'
  BY <1>1, <1>3, CutTable DEF LogInv
<1>9. IdInv'
  BY <1>1, <1>7, IdKept
<1>10. LogInv'
  BY <1>1, <1>5, <1>7, <1>8 DEF LogInv, Log!Procs, Log!PcValues, Calls, Batches
<1>11. Grows
  BY <1>1 DEF Grows, Known, LogInv
<1> QED
  BY <1>9, <1>10, <1>11

\* The process stops, or starts again and recovers the atomics from the rows.
LEMMA RestartInv ==
  ASSUME LogInv, IdInv, unlogged' = unlogged, memSeq' \in {memSeq, 0},
         Log!Crash \/ Log!Open
  PROVE  LogInv' /\ IdInv' /\ Grows
<1>1. issued' = issued /\ now' = now /\ begun' = begun
  BY DEF Log!Crash, Log!Open, Log!diskVars
<1>3. \/ Log!Open /\ pc' = pc /\ job' = job
      \/ Log!Crash /\ pc' = [p \in Log!Procs |-> "idle"]
                   /\ job' = [p \in Log!Procs |-> Log!NoJob]
  BY DEF Log!Crash, Log!Open, Log!callVars
<1>4. pc \in [Log!Procs -> Log!PcValues] /\ job \in [Log!Procs -> Calls] /\ memSeq \in Nat
      /\ now \in Nat
  BY DEF LogInv
<1>5. pc' \in [Log!Procs -> Log!PcValues] /\ job' \in [Log!Procs -> Calls]
  BY <1>3, <1>4, NoJobCall DEF Log!PcValues
<1>6. /\ Bounded(DOMAIN rows') /\ head' \in Nat /\ floor' \in Nat
      /\ \A s \in DOMAIN rows' : <<s, rows'[s].id>> \in issued'
  <2>1. CASE Log!Crash
    <3>1. rows' = rows /\ head' = 0 /\ floor' = 0
      BY <2>1 DEF Log!Crash, Log!diskVars
    <3> QED
      BY <1>1, <3>1 DEF LogInv
  <2>2. CASE Log!Open
    <3>1. PICK gone : rows' = Log!Only(rows, DOMAIN rows \ gone)
                      /\ floor' = Log!FirstKey(DOMAIN rows \ gone)
      BY <2>2 DEF Log!Open
    <3>2. head' = Log!LastKey(DOMAIN rows)
      BY <2>2 DEF Log!Open, Log!RecoveredHead
    <3>3. Bounded(DOMAIN rows)
      BY DEF LogInv
    <3> QED
      BY <1>1, <3>1, <3>2, <3>3, CutTable, KeysAreNumbers
  <2> QED
    BY <2>1, <2>2
<1>7. IdInv'
  <2>1. ASSUME NEW t \in Tasks
        PROVE  \/ DOMAIN job'[t].batch = {}
               \/ job'[t] = job[t] /\ pc'[t] = pc[t]
    <3>1. CASE pc' = pc /\ job' = job
      BY <3>1
    <3>2. CASE job' = [p \in Log!Procs |-> Log!NoJob]
      <4>1. job'[t] = Log!NoJob /\ DOMAIN Log!NoJob.batch = {}
        BY <3>2 DEF Log!Procs, Log!NoJob
      <4> QED
        BY <4>1
    <3> QED
      BY <1>3, <3>1, <3>2
  <2> QED
    BY <1>1, <2>1, IdKept
<1>8. LogInv'
  <2>1. memSeq' \in Nat /\ now' \in Nat
    BY <1>1, <1>4
  <2>2. /\ begun' \in 0..MaxBegun /\ issued' \subseteq Nat \X (1..begun')
        /\ unlogged' \subseteq Nat \X (1..begun')
    BY <1>1 DEF LogInv
  <2> QED
    BY <1>5, <1>6, <2>1, <2>2 DEF LogInv, Log!Procs, Log!PcValues, Calls, Batches
<1>9. Grows
  BY <1>1 DEF Grows, Known, LogInv
<1> QED
  BY <1>7, <1>8, <1>9

\* A call returns: its ids are no longer in anybody's hands.
LEMMA ReturnFacts ==
  ASSUME LogInv, NEW t \in Tasks, Log!AppendReturn(t)
  PROVE  /\ rows' = rows /\ issued' = issued /\ now' = now /\ begun' = begun
         /\ head' = head /\ floor' = floor
         /\ pc' \in [Log!Procs -> Log!PcValues] /\ job' \in [Log!Procs -> Calls]
         /\ DOMAIN job'[t].batch = {}
         /\ \A u \in Tasks : u # t => job'[u] = job[u] /\ pc'[u] = pc[u]
<1>1. /\ pc' = [pc EXCEPT ![t] = "idle"] /\ job' = [job EXCEPT ![t] = Log!NoJob]
      /\ rows' = rows /\ issued' = issued /\ now' = now /\ begun' = begun
      /\ head' = head /\ floor' = floor
  BY DEF Log!AppendReturn, Log!diskVars, Log!atomics, Log!envVars
<1>2. pc \in [Log!Procs -> Log!PcValues] /\ job \in [Log!Procs -> Calls] /\ t \in Log!Procs
  BY DEF LogInv, Log!Procs
<1>3. pc' \in [Log!Procs -> Log!PcValues] /\ job' \in [Log!Procs -> Calls]
  BY <1>1, <1>2, NoJobCall DEF Log!PcValues
<1>4. job'[t] = Log!NoJob /\ \A u \in Tasks : u # t => job'[u] = job[u] /\ pc'[u] = pc[u]
  BY <1>1, <1>2 DEF Log!Procs
<1>5. DOMAIN Log!NoJob.batch = {}
  BY DEF Log!NoJob
<1> QED
  BY <1>1, <1>3, <1>4, <1>5

\* A call that stamps nothing in memory returns.
LEMMA ReturnInv ==
  ASSUME LogInv, IdInv, NEW t \in Tasks, Log!AppendReturn(t),
         unlogged' = unlogged, memSeq' \in Nat
  PROVE  LogInv' /\ IdInv' /\ Grows
<1>1. /\ rows' = rows /\ issued' = issued /\ now' = now /\ begun' = begun
      /\ head' = head /\ floor' = floor
      /\ pc' \in [Log!Procs -> Log!PcValues] /\ job' \in [Log!Procs -> Calls]
      /\ DOMAIN job'[t].batch = {}
      /\ \A u \in Tasks : u # t => job'[u] = job[u] /\ pc'[u] = pc[u]
  BY ReturnFacts
<1>2. IdInv'
  BY <1>1, IdKept
<1>3. LogInv'
  BY <1>1 DEF LogInv, Log!Procs, Log!PcValues, Calls, Batches
<1>4. Grows
  BY <1>1 DEF Grows, Known, LogInv
<1> QED
  BY <1>2, <1>3, <1>4

\* The clock moves.
LEMMA ClockInv ==
  ASSUME LogInv, IdInv, Log!Clock, unlogged' = unlogged, memSeq' = memSeq
  PROVE  LogInv' /\ IdInv' /\ Grows
<1>1. /\ rows' = rows /\ head' = head /\ floor' = floor /\ pc' = pc /\ job' = job
      /\ begun' = begun /\ issued' = issued
  BY DEF Log!Clock, Log!diskVars, Log!atomics, Log!callVars
<1>2. now' \in Nat
  BY DurableAssumption DEF Log!Clock
<1>3. LogInv'
  BY <1>1, <1>2 DEF LogInv, Log!Procs, Log!PcValues, Calls, Batches
<1>4. IdInv'
  BY <1>1, IdKept
<1>5. Grows
  BY <1>1 DEF Grows, Known, LogInv
<1> QED
  BY <1>3, <1>4, <1>5

\* A new call carries ids nobody has used.
LEMMA AppendCallInv ==
  ASSUME LogInv, IdInv, NEW t \in Tasks, NEW n \in 1..MaxBatch,
         NEW batch \in [1..n -> Events], begun + n <= MaxBegun, Log!AppendCall(t, batch),
         unlogged' = unlogged, memSeq' = memSeq
  PROVE  LogInv' /\ IdInv' /\ Grows /\ begun' = begun + n
<1> DEFINE new == [i \in DOMAIN batch |-> [id |-> begun + i, ev |-> batch[i]]]
           c == [Log!NoJob EXCEPT !.ts = now, !.batch = new]
<1>0. n \in Nat /\ n > 0 /\ DOMAIN batch = 1..n /\ Len(batch) = n /\ begun \in Nat
      /\ MaxBegun \in Nat /\ now \in Nat
  <2>1. n \in Nat /\ n > 0
    BY DurableAssumption
  <2>2. begun \in Nat /\ now \in Nat /\ MaxBegun \in Nat
    BY DurableAssumption DEF LogInv
  <2> QED
    BY <2>1, <2>2
<1>1. /\ rows' = rows /\ issued' = issued /\ now' = now /\ begun' = begun + n
      /\ head' = head /\ floor' = floor
      /\ pc' = [pc EXCEPT ![t] = "waiting"] /\ job' = [job EXCEPT ![t] = c]
  BY <1>0 DEF Log!AppendCall, Log!diskVars, Log!atomics
<1>2. new \in Batches /\ DOMAIN new = 1..n
      /\ \A i \in 1..n : new[i].id = begun + i /\ new[i].ev \in Events
  <2>1. \A i \in 1..n : begun + i \in Nat /\ batch[i] \in Events
    BY <1>0
  <2>2. new \in [1..n -> [id : Nat, ev : Events]]
    BY <1>0, <2>1
  <2>3. new \in Batches
    BY <1>0, <2>2 DEF Batches
  <2> QED
    BY <1>0, <2>1, <2>3
<1> HIDE DEF new
<1>3. c \in Calls /\ c.batch = new
  <2>1. Log!NoJob \in Calls
    BY NoJobCall
  <2> DEFINE z == Log!NoJob
  <2> HIDE DEF z
  <2>2. z \in Calls
    BY <2>1 DEF z
  <2>3. [z EXCEPT !.ts = now, !.batch = new] \in Calls
        /\ [z EXCEPT !.ts = now, !.batch = new].batch = new
    BY <1>0, <1>2, <2>2 DEF Calls
  <2> QED
    BY <2>3 DEF z
<1> HIDE DEF c
<1>4. pc \in [Log!Procs -> Log!PcValues] /\ job \in [Log!Procs -> Calls] /\ t \in Log!Procs
  BY DEF LogInv, Log!Procs
<1>5. /\ pc' \in [Log!Procs -> Log!PcValues] /\ job' \in [Log!Procs -> Calls]
      /\ pc'[t] = "waiting" /\ job'[t].batch = new
      /\ \A u \in Tasks : u # t => pc'[u] = pc[u] /\ job'[u] = job[u]
  BY <1>1, <1>3, <1>4 DEF Log!PcValues, Log!Procs
<1>6. LogInv'
  <2>1. begun' \in 0..MaxBegun /\ 1..begun \subseteq 1..begun'
    BY <1>0, <1>1
  <2>2. issued' \subseteq Nat \X (1..begun') /\ unlogged' \subseteq Nat \X (1..begun')
    <3>1. issued \subseteq Nat \X (1..begun) /\ unlogged \subseteq Nat \X (1..begun)
      BY DEF LogInv
    <3> QED
      BY <1>1, <2>1, <3>1
  <2>3. Bounded(DOMAIN rows') /\ \A s \in DOMAIN rows' : <<s, rows'[s].id>> \in issued'
    BY <1>1 DEF LogInv
  <2>4. head' \in Nat /\ floor' \in Nat /\ memSeq' \in Nat /\ now' \in Nat
    BY <1>1 DEF LogInv
  <2> QED
    BY <1>5, <2>1, <2>2, <2>3, <2>4 DEF LogInv, Log!Procs, Log!PcValues, Calls, Batches
<1>7. Grows
  BY <1>0, <1>1 DEF Grows, Known
<1>8. Known' = Known /\ \A x \in Known : x[2] \in 1..begun
  BY <1>1 DEF Known, LogInv
<1>9. \A u \in Tasks : \A j \in DOMAIN job[u].batch : job[u].batch[j].id \in 1..begun
  BY Zenon DEF IdInv
<1>10. \A i \in 1..n : \A k \in 1..begun : new[i].id # k
  BY <1>0, <1>2
<1>11. \A a, b \in Tasks : \A i \in DOMAIN job[a].batch : \A j \in DOMAIN job[b].batch :
         job[b].batch[j].id = job[a].batch[i].id => b = a /\ j = i
  BY Zenon DEF IdInv
<1>12. ASSUME NEW a \in Tasks, NEW i \in DOMAIN job'[a].batch
       PROVE  LET k == job'[a].batch[i].id IN
              /\ k \in 1..begun'
              /\ pc'[a] \in Unstamped => \A x \in Known' : x[2] # k
              /\ pc'[a] \in StampedPcs => <<job'[a].base + i, k>> \in issued'
              /\ \A u \in Tasks : \A j \in DOMAIN job'[u].batch :
                   job'[u].batch[j].id = k => u = a /\ j = i
  <2>1. CASE a = t
    <3>1. i \in 1..n /\ job'[a].batch[i].id = new[i].id /\ new[i].id = begun + i
      BY <1>2, <1>5, <1>12, <2>1
    <3>2. new[i].id \in 1..begun'
      BY <1>0, <1>1, <3>1
    <3>3. \A x \in Known' : x[2] # new[i].id
      BY <1>8, <1>10, <3>1
    <3>4. pc'[a] \notin StampedPcs
      BY <1>5, <2>1 DEF StampedPcs
    <3>5. ASSUME NEW u \in Tasks, NEW j \in DOMAIN job'[u].batch,
                 job'[u].batch[j].id = new[i].id
          PROVE  u = a /\ j = i
      <4>1. u = t
        <5> SUFFICES ASSUME u # t PROVE FALSE
          OBVIOUS
        <5>1. job'[u] = job[u]
          BY <1>5
        <5>2. job[u].batch[j].id \in 1..begun
          BY <1>9, <3>5, <5>1
        <5> QED
          BY <1>10, <3>1, <3>5, <5>1, <5>2
      <4>2. j \in 1..n /\ new[j].id = begun + j
        BY <1>2, <1>5, <3>5, <4>1
      <4>3. begun + j = begun + i
        BY <1>5, <3>1, <3>5, <4>1, <4>2
      <4> QED
        BY <1>0, <2>1, <3>1, <4>1, <4>2, <4>3
    <3> QED
      BY <3>1, <3>2, <3>3, <3>4, <3>5
  <2>2. CASE a # t
    <3>1. job'[a] = job[a] /\ pc'[a] = pc[a] /\ i \in DOMAIN job[a].batch
      BY <1>5, <1>12, <2>2
    <3>2. LET k == job[a].batch[i].id IN
          /\ k \in 1..begun
          /\ pc[a] \in Unstamped => \A x \in Known : x[2] # k
          /\ pc[a] \in StampedPcs => <<job[a].base + i, k>> \in issued
      BY <3>1, Zenon DEF IdInv, Unstamped, StampedPcs
    <3>3. job[a].batch[i].id \in 1..begun'
      BY <1>0, <1>1, <3>2
    <3>4. ASSUME NEW u \in Tasks, NEW j \in DOMAIN job'[u].batch,
                 job'[u].batch[j].id = job[a].batch[i].id
          PROVE  u = a /\ j = i
      <4>1. CASE u = t
        <5>1. j \in 1..n /\ job'[u].batch[j].id = new[j].id
          BY <1>2, <1>5, <3>4, <4>1
        <5> QED
          BY <1>10, <3>2, <3>4, <5>1
      <4>2. CASE u # t
        <5>1. job'[u] = job[u]
          BY <1>5, <4>2
        <5>2. j \in DOMAIN job[u].batch /\ job[u].batch[j].id = job[a].batch[i].id
          BY <3>4, <5>1
        <5>3. i \in DOMAIN job[a].batch
          BY <3>1
        <5> QED
          BY <1>11, <5>2, <5>3
      <4> QED
        BY <4>1, <4>2
    <3> DEFINE k == job[a].batch[i].id
    <3>5. job'[a].batch[i].id = k
      BY <3>1
    <3>6. pc'[a] \in Unstamped => \A x \in Known' : x[2] # k
      BY <1>8, <3>1, <3>2
    <3>7. pc'[a] \in StampedPcs => <<job'[a].base + i, k>> \in issued'
      BY <1>1, <3>1, <3>2
    <3>8. k \in 1..begun' /\ \A u \in Tasks : \A j \in DOMAIN job'[u].batch :
            job'[u].batch[j].id = k => u = a /\ j = i
      BY <3>3, <3>4
    <3> HIDE DEF k
    <3> QED
      BY <3>5, <3>6, <3>7, <3>8
  <2> QED
    BY <2>1, <2>2
<1>13. IdInv'
  <2>1. \A x, y \in Known' : x[2] = y[2] => x[1] = y[1]
    BY <1>8 DEF IdInv
  <2> QED
    BY <1>12, <2>1, Zenon DEF IdInv, Unstamped, StampedPcs
<1> QED
  BY <1>1, <1>6, <1>7, <1>13

\* What a call's ids mean, in the form the steps below use.
LEMMA IdFacts ==
  ASSUME IdInv
  PROVE  /\ \A x, y \in Known : x[2] = y[2] => x[1] = y[1]
         /\ \A t \in Tasks : \A i \in DOMAIN job[t].batch :
              /\ job[t].batch[i].id \in 1..begun
              /\ pc[t] \in Unstamped => \A x \in Known : x[2] # job[t].batch[i].id
              /\ pc[t] \in StampedPcs => <<job[t].base + i, job[t].batch[i].id>> \in issued
         /\ \A t, u \in Tasks : \A i \in DOMAIN job[t].batch : \A j \in DOMAIN job[u].batch :
              job[u].batch[j].id = job[t].batch[i].id => u = t /\ j = i
BY Zenon DEF IdInv, Unstamped, StampedPcs

\* Stamping a batch that nobody had stamped: new is the set of stamps.
LEMMA StampKeepsIds ==
  ASSUME LogInv, IdInv, NEW t \in Tasks, pc[t] \in Unstamped, NEW base \in Nat,
         Known' = Known \cup {<<base + i, job[t].batch[i].id>> : i \in DOMAIN job[t].batch}
  PROVE  /\ \A x, y \in Known' : x[2] = y[2] => x[1] = y[1]
         /\ \A u \in Tasks : u # t /\ pc[u] \in Unstamped =>
              \A i \in DOMAIN job[u].batch : \A x \in Known' : x[2] # job[u].batch[i].id
<1> DEFINE b == job[t].batch
           new == {<<base + i, b[i].id>> : i \in DOMAIN b}
<1>1. /\ \A x, y \in Known : x[2] = y[2] => x[1] = y[1]
      /\ \A u \in Tasks : \A i \in DOMAIN job[u].batch :
           pc[u] \in Unstamped => \A x \in Known : x[2] # job[u].batch[i].id
      /\ \A u, w \in Tasks : \A i \in DOMAIN job[u].batch : \A j \in DOMAIN job[w].batch :
           job[w].batch[j].id = job[u].batch[i].id => w = u /\ j = i
  BY IdFacts, Zenon
<1>2. \A i \in DOMAIN b : \A x \in Known : x[2] # b[i].id
  BY <1>1
<1>3. \A i, j \in DOMAIN b : b[i].id = b[j].id => i = j
  <2> SUFFICES ASSUME NEW i \in DOMAIN b, NEW j \in DOMAIN b, b[i].id = b[j].id
               PROVE  i = j
    OBVIOUS
  <2> QED
    BY <1>1
<1>4. \A u \in Tasks : u # t => \A i \in DOMAIN job[u].batch : \A j \in DOMAIN b :
        b[j].id # job[u].batch[i].id
  <2> SUFFICES ASSUME NEW u \in Tasks, u # t, NEW i \in DOMAIN job[u].batch,
                      NEW j \in DOMAIN b, b[j].id = job[u].batch[i].id
               PROVE  FALSE
    OBVIOUS
  <2> QED
    BY <1>1
<1>5. Known' = Known \cup new
  OBVIOUS
<1>6. \A x \in new : \E i \in DOMAIN b : x[1] = base + i /\ x[2] = b[i].id
  OBVIOUS
<1> HIDE DEF b, new
<1>7. \A x, y \in Known' : x[2] = y[2] => x[1] = y[1]
  <2> SUFFICES ASSUME NEW x \in Known', NEW y \in Known', x[2] = y[2] PROVE x[1] = y[1]
    OBVIOUS
  <2>1. CASE x \in Known /\ y \in Known
    BY <1>1, <2>1
  <2>2. CASE x \in new /\ y \in new
    BY <1>3, <1>6, <2>2
  <2>3. CASE x \in Known /\ y \in new
    BY <1>2, <1>6, <2>3
  <2>4. CASE x \in new /\ y \in Known
    BY <1>2, <1>6, <2>4
  <2> QED
    BY <1>5, <2>1, <2>2, <2>3, <2>4
<1>8. ASSUME NEW u \in Tasks, u # t, pc[u] \in Unstamped, NEW i \in DOMAIN job[u].batch,
             NEW x \in Known'
      PROVE  x[2] # job[u].batch[i].id
  <2>1. CASE x \in Known
    BY <1>1, <1>8, <2>1
  <2>2. CASE x \in new
    BY <1>4, <1>6, <1>8, <2>2
  <2> QED
    BY <1>5, <2>1, <2>2
<1> QED
  BY <1>7, <1>8

\* A commit stamps its batch.
LEMMA AppendCommitInv ==
  ASSUME LogInv, IdInv, NEW t \in Tasks, Log!AppendCommit(t), unlogged' = unlogged,
         memSeq' = memSeq
  PROVE  LogInv' /\ IdInv' /\ Grows
<1> DEFINE base == job[t].base
           b == job[t].batch
           n == Len(b)
           added == [s \in (base + 1)..(base + n) |->
                       [id |-> b[s - base].id, ev |-> b[s - base].ev, ts |-> job[t].ts]]
<1>0. t \in Log!Procs
  BY DEF Log!Procs
<1>1. /\ pc[t] = "writing" /\ pc' = [pc EXCEPT ![t] = "committed"] /\ job' = job
      /\ rows' = [s \in DOMAIN rows \cup DOMAIN added |->
                    IF s \in DOMAIN added THEN added[s] ELSE rows[s]]
      /\ issued' = issued \cup {<<s, added[s].id>> : s \in DOMAIN added}
      /\ head' = head /\ floor' = floor /\ now' = now /\ begun' = begun
  BY DEF Log!AppendCommit, Log!atomics, Log!envVars
<1>2. /\ base \in Nat /\ n \in Nat /\ DOMAIN b = 1..n
      /\ \A i \in 1..n : b[i].id \in Nat
  BY <1>0, CallFacts
<1>3. \A i \in 1..n : b[i].id \in 1..begun
  BY <1>2, IdFacts
<1>4. \A s \in DOMAIN added : s \in Nat /\ s <= base + n /\ s - base \in 1..n
        /\ added[s].id = b[s - base].id
  BY <1>2
<1>5. {<<s, added[s].id>> : s \in DOMAIN added} = {<<base + i, b[i].id>> : i \in DOMAIN b}
  <2>1. ASSUME NEW s \in DOMAIN added
        PROVE  <<s, added[s].id>> \in {<<base + i, b[i].id>> : i \in DOMAIN b}
    <3>1. base + (s - base) = s
      BY <1>2, <1>4
    <3> QED
      BY <1>2, <1>4, <3>1
  <2>2. ASSUME NEW i \in DOMAIN b
        PROVE  <<base + i, b[i].id>> \in {<<s, added[s].id>> : s \in DOMAIN added}
    <3>1. base + i \in DOMAIN added /\ (base + i) - base = i
      BY <1>2
    <3> QED
      BY <1>4, <3>1
  <2> DEFINE L == {<<s, added[s].id>> : s \in DOMAIN added}
             R == {<<base + i, b[i].id>> : i \in DOMAIN b}
  <2>3. L \subseteq R
    <3> HIDE DEF added, base, b
    <3> QED
      BY <2>1, Zenon
  <2>4. R \subseteq L
    <3> HIDE DEF added, base, b
    <3> QED
      BY <2>2, Zenon
  <2> HIDE DEF L, R
  <2>5. L = R
    BY ONLY <2>3, <2>4
  <2> QED
    BY <2>5, Zenon DEF L, R
<1>6. issued' = issued \cup {<<base + i, b[i].id>> : i \in DOMAIN b}
  BY <1>1, <1>5
<1>7. Known' = Known \cup {<<base + i, b[i].id>> : i \in DOMAIN b}
  BY <1>6 DEF Known
<1>8. LogInv'
  <2>1. pc' \in [Log!Procs -> Log!PcValues] /\ job' \in [Log!Procs -> Calls]
    BY <1>0, <1>1 DEF LogInv, Log!PcValues
  <2>2. issued' \subseteq Nat \X (1..begun')
    <3>1. issued \subseteq Nat \X (1..begun)
      BY DEF LogInv
    <3>2. \A i \in DOMAIN b : base + i \in Nat /\ b[i].id \in 1..begun
      BY <1>2, <1>3
    <3> HIDE DEF base, b
    <3> QED
      BY <1>1, <1>6, <3>1, <3>2
  <2>3. Bounded(DOMAIN rows')
    <3>1. PICK c \in Nat : DOMAIN rows \subseteq 0..c
      BY DEF LogInv, Bounded
    <3>2. DOMAIN rows' = DOMAIN rows \cup DOMAIN added
      BY <1>1
    <3>3. c + base + n \in Nat /\ DOMAIN rows' \subseteq 0..(c + base + n)
      <4>1. \A s \in DOMAIN added : s \in 0..(base + n)
        BY <1>2, <1>4
      <4> HIDE DEF base, added, n
      <4> QED
        BY <1>2, <3>1, <3>2, <4>1
    <3> QED
      BY <3>3 DEF Bounded
  <2>4. \A s \in DOMAIN rows' : <<s, rows'[s].id>> \in issued'
    <3> SUFFICES ASSUME NEW s \in DOMAIN rows' PROVE <<s, rows'[s].id>> \in issued'
      OBVIOUS
    <3> HIDE DEF added
    <3>1. CASE s \in DOMAIN added
      BY <1>1, <3>1
    <3>2. CASE s \notin DOMAIN added
      BY <1>1, <3>2 DEF LogInv
    <3> QED
      BY <3>1, <3>2
  <2>5. /\ head' \in Nat /\ floor' \in Nat /\ memSeq' \in Nat /\ now' \in Nat
        /\ begun' \in 0..MaxBegun /\ unlogged' \subseteq Nat \X (1..begun')
    BY <1>1 DEF LogInv
  <2> QED
    BY <2>1, <2>2, <2>3, <2>4, <2>5 DEF LogInv, Log!Procs, Log!PcValues, Calls, Batches
<1>9. Grows
  <2>1. Known \subseteq Known'
    BY ONLY <1>7
  <2>2. begun' = begun
    BY <1>1
  <2>3. begun \in Nat
    <3> HIDE DEF added, base, n, b
    <3> QED
      BY DEF LogInv
  <2> QED
    BY ONLY <2>1, <2>2, <2>3 DEF Grows
<1>10. pc[t] \in Unstamped /\ pc'[t] = "committed" /\ \A u \in Tasks : u # t => pc'[u] = pc[u]
  BY <1>0, <1>1 DEF LogInv, Unstamped, Log!Procs
<1>11. /\ \A x, y \in Known' : x[2] = y[2] => x[1] = y[1]
       /\ \A u \in Tasks : u # t /\ pc[u] \in Unstamped =>
            \A i \in DOMAIN job[u].batch : \A x \in Known' : x[2] # job[u].batch[i].id
  BY <1>2, <1>7, <1>10, StampKeepsIds
<1>12. ASSUME NEW a \in Tasks, NEW i \in DOMAIN job'[a].batch
       PROVE  LET k == job'[a].batch[i].id IN
              /\ k \in 1..begun'
              /\ pc'[a] \in Unstamped => \A x \in Known' : x[2] # k
              /\ pc'[a] \in StampedPcs => <<job'[a].base + i, k>> \in issued'
              /\ \A u \in Tasks : \A j \in DOMAIN job'[u].batch :
                   job'[u].batch[j].id = k => u = a /\ j = i
  <2> DEFINE k == job[a].batch[i].id
  <2>1. i \in DOMAIN job[a].batch /\ job' = job /\ begun' = begun
    BY <1>1, <1>12
  <2>2. k \in 1..begun /\ \A u \in Tasks : \A j \in DOMAIN job[u].batch :
          job[u].batch[j].id = k => u = a /\ j = i
    BY <2>1, IdFacts, Zenon
  <2>3. pc'[a] \in Unstamped => \A x \in Known' : x[2] # k
    <3>1. CASE a = t
      BY <1>10, <3>1 DEF Unstamped
    <3>2. CASE a # t
      BY <1>10, <1>11, <2>1, <3>2
    <3> QED
      BY <3>1, <3>2
  <2>4. pc'[a] \in StampedPcs => <<job[a].base + i, k>> \in issued'
    <3>1. CASE a = t
      BY <1>6, <2>1, <3>1
    <3>2. CASE a # t
      BY <1>6, <1>10, <2>1, <3>2, IdFacts
    <3> QED
      BY <3>1, <3>2
  <2> HIDE DEF k
  <2>5. job'[a].batch[i].id = k
    BY <2>1 DEF k
  <2> QED
    BY <2>1, <2>2, <2>3, <2>4, <2>5
<1>13. IdInv'
  BY <1>11, <1>12, Zenon DEF IdInv, Unstamped, StampedPcs
<1> QED
  BY <1>8, <1>9, <1>13

-----------------------------------------------------------------------------
(* Fan-out *)

\* The frames fan-out t pushes.
Pushes(t) ==
  {QueueFrame(StampedSeq(t, i), job[t].batch[i].id, SizeOf[job[t].batch[i].ev]) :
     i \in DOMAIN job[t].batch}

\* One turn of the loop of fan-out.
LEMMA PushOneType ==
  ASSUME NEW FS, FrameSet(FS), NEW t \in Tasks, NEW i \in DOMAIN job[t].batch,
         Pushes(t) \subseteq FS, NEW q \in QueueType(FS)
  PROVE  PushOne(t, i, q) \in QueueType(FS)
<1> DEFINE f == QueueFrame(StampedSeq(t, i), job[t].batch[i].id, SizeOf[job[t].batch[i].ev])
<1>1. f \in FS
  BY DEF Pushes
<1>2. PushOne(t, i, q) \in {q, push_event(q, f)}
  BY DEF PushOne
<1> HIDE DEF f
<1>3. push_event(q, f) \in QueueType(FS)
  BY <1>1, PushEventType
<1> QED
  BY <1>2, <1>3

\* The loop of fan-out, turn by turn.
LEMMA PushAllTrace ==
  ASSUME NEW FS, FrameSet(FS), NEW t \in Tasks, Pushes(t) \subseteq FS,
         Len(job[t].batch) \in Nat, DOMAIN job[t].batch = 1..Len(job[t].batch),
         queue \in QueueType(FS)
  PROVE  \E g : /\ \A k \in 0..Len(job[t].batch) : g[k] \in QueueType(FS)
                /\ g[0] = queue /\ g[Len(job[t].batch)] = PushAll(t)
                /\ \A k \in 1..Len(job[t].batch) : g[k] = PushOne(t, k, g[k - 1])
<1> DEFINE n == Len(job[t].batch)
           Q == QueueType(FS)
           F == [k \in 1..n |-> [r \in Q |-> PushOne(t, k, r)]]
           S == [k \in 0..n |-> Q]
           Rec(g) == g = [i \in 0..n |-> IF i = 0 THEN queue ELSE PushOne(t, i, g[i - 1])]
           pushed == CHOOSE g : Rec(g)
<1>0. PushAll(t) = pushed[n]
  BY DEF PushAll
<1>1. n \in Nat /\ queue \in Q /\ \A k \in 1..n : \A r \in Q : PushOne(t, k, r) \in Q
  BY PushOneType
<1> HIDE DEF n, Q
<1>2. \E g : Rec(g)
  <2>1. S \in [0..n -> SUBSET Q] /\ queue \in S[0]
    BY <1>1
  <2>2. Leads(n, F, S)
    <3>1. \A k \in 1..n : k - 1 \in 0..n /\ k \in 0..n
      BY <1>1
    <3>2. \A k \in 1..n : S[k - 1] = Q /\ S[k] = Q
      BY <3>1
    <3>3. \A k \in 1..n : \A r \in Q : F[k][r] = PushOne(t, k, r)
      OBVIOUS
    <3> HIDE DEF F, S
    <3> QED
      BY <1>1, <3>2, <3>3 DEF Leads
  <2>3. \E g \in [0..n -> Q] : Trace(n, F, S, queue, g)
    <3> HIDE DEF S, F
    <3> QED
      BY <1>1, <2>1, <2>2, Iterates, Zenon
  <2>4. PICK g \in [0..n -> Q] : g[0] = queue /\ \A k \in 1..n : g[k] = F[k][g[k - 1]]
    BY <2>3 DEF Trace
  <2>5. ASSUME NEW k \in 1..n PROVE g[k] = PushOne(t, k, g[k - 1])
    <3>1. k - 1 \in 0..n
      BY <1>1
    <3>2. g[k - 1] \in Q
      BY <3>1, <2>4
    <3>3. F[k][g[k - 1]] = PushOne(t, k, g[k - 1])
      BY <3>2
    <3> QED
      BY <2>4, <3>3
  <2>6. Rec(g)
    BY <1>1, <2>4, <2>5
  <2> QED
    BY <2>6
<1>3. Rec(pushed)
  BY <1>2
<1> HIDE DEF pushed
<1>4. pushed[0] = queue /\ \A i \in 1..n : pushed[i] = PushOne(t, i, pushed[i - 1])
  BY <1>1, <1>3
<1> DEFINE P == {k \in 0..n : pushed[k] \in Q}
<1>5. 0 \in P
  BY <1>1, <1>4
<1>6. ASSUME NEW k \in 0..n, k \in P, k < n PROVE k + 1 \in P
  <2>1. k + 1 \in 1..n /\ (k + 1) - 1 = k /\ pushed[k] \in Q
    BY <1>1, <1>6
  <2>2. pushed[k + 1] = PushOne(t, k + 1, pushed[k])
    BY <1>4, <2>1
  <2>3. PushOne(t, k + 1, pushed[k]) \in Q
    BY <1>1, <2>1
  <2> QED
    BY <2>1, <2>2, <2>3
<1>7. 0..n \subseteq P
  <2> HIDE DEF P
  <2> QED
    BY <1>1, <1>5, <1>6, UpTo
<1> QED
  BY <1>0, <1>4, <1>7 DEF Q, n

\* The whole loop puts nothing into the queue but the batch's frames.
LEMMA PushAllType ==
  ASSUME NEW FS, FrameSet(FS), NEW t \in Tasks, Pushes(t) \subseteq FS,
         Len(job[t].batch) \in Nat, DOMAIN job[t].batch = 1..Len(job[t].batch),
         queue \in QueueType(FS)
  PROVE  PushAll(t) \in QueueType(FS)
<1>1. PICK g : /\ \A k \in 0..Len(job[t].batch) : g[k] \in QueueType(FS)
               /\ g[Len(job[t].batch)] = PushAll(t)
  BY PushAllTrace
<1> QED
  BY <1>1

\* What fan-out pushes was stamped, by the log or by this very step.
LEMMA FanoutPushInv ==
  ASSUME Inv, NEW t \in Tasks, FanoutPush(t)
  PROVE  Inv'
<1> DEFINE b == job[t].batch
           n == Len(b)
           new == {<<memSeq + i, b[i].id>> : i \in DOMAIN b}
<1>1. /\ pc[t] \in {"ok", "err"} /\ Log!AppendReturn(t)
      /\ memSeq' = IF pc[t] = "err" THEN memSeq + n ELSE memSeq
      /\ queue' = IF Registered THEN PushAll(t) ELSE queue
      /\ unlogged' = IF pc[t] # "err" THEN unlogged ELSE unlogged \cup
           {<<StampedSeq(t, i), b[i].id>> : i \in DOMAIN b}
      /\ cancelled' = cancelled /\ conn' = conn /\ wire' = wire
      /\ client' = client /\ saved' = saved
      /\ wanted' = wanted /\ handled' = handled /\ gapped' = gapped /\ fresh' = fresh
  BY DEF FanoutPush, clientVars
<1>2. LogInv /\ IdInv /\ LinkInv /\ ClientInv /\ memSeq \in Nat
  BY DEF Inv, LogInv
<1>3. t \in Log!Procs
  BY DEF Log!Procs
<1>4. /\ n \in Nat /\ DOMAIN b = 1..n /\ job[t].base \in Nat
      /\ \A i \in DOMAIN b : b[i].id \in Nat /\ b[i].ev \in Events
  BY <1>2, <1>3, CallFacts
<1>5. memSeq' \in Nat
  BY <1>1, <1>2, <1>4
<1>6. unlogged' = IF pc[t] # "err" THEN unlogged ELSE unlogged \cup new
  BY <1>1 DEF StampedSeq
<1>7. /\ rows' = rows /\ issued' = issued /\ now' = now /\ begun' = begun
      /\ head' = head /\ floor' = floor
      /\ pc' \in [Log!Procs -> Log!PcValues] /\ job' \in [Log!Procs -> Calls]
      /\ DOMAIN job'[t].batch = {}
      /\ \A u \in Tasks : u # t => job'[u] = job[u] /\ pc'[u] = pc[u]
  BY <1>1, <1>2, ReturnFacts
<1>8. \A i \in DOMAIN b : b[i].id \in 1..begun
  BY <1>2, IdFacts
<1>9. LogInv' /\ IdInv' /\ Grows
  <2>1. CASE pc[t] # "err"
    BY <1>1, <1>2, <1>5, <1>6, <2>1, ReturnInv
  <2>2. CASE pc[t] = "err"
    <3>1. Known' = Known \cup new
      BY <1>6, <1>7, <2>2 DEF Known
    <3>2. Grows
      BY <1>2, <1>7, <3>1 DEF Grows, LogInv
    <3>3. unlogged' \subseteq Nat \X (1..begun')
      <4>1. unlogged \subseteq Nat \X (1..begun)
        BY <1>2 DEF LogInv
      <4>2. \A i \in DOMAIN b : memSeq + i \in Nat /\ b[i].id \in 1..begun
        BY <1>2, <1>4, <1>8
      <4> HIDE DEF b
      <4> QED
        BY <1>6, <1>7, <2>2, <4>1, <4>2
    <3>4. LogInv'
      <4>1. /\ Bounded(DOMAIN rows') /\ head' \in Nat /\ floor' \in Nat /\ now' \in Nat
            /\ \A s \in DOMAIN rows' : <<s, rows'[s].id>> \in issued'
            /\ begun' \in 0..MaxBegun /\ issued' \subseteq Nat \X (1..begun')
        BY <1>2, <1>7 DEF LogInv
      <4> QED
        BY <1>5, <1>7, <3>3, <4>1 DEF LogInv, Log!Procs, Log!PcValues, Calls, Batches
    <3>5. /\ \A x, y \in Known' : x[2] = y[2] => x[1] = y[1]
          /\ \A u \in Tasks : u # t /\ pc[u] \in Unstamped =>
               \A i \in DOMAIN job[u].batch : \A x \in Known' : x[2] # job[u].batch[i].id
      <4>1. pc[t] \in Unstamped
        BY <2>2 DEF Unstamped
      <4> QED
        BY <1>2, <3>1, <4>1, StampKeepsIds
    <3>6. ASSUME NEW a \in Tasks, NEW i \in DOMAIN job'[a].batch
          PROVE  LET k == job'[a].batch[i].id IN
                 /\ k \in 1..begun'
                 /\ pc'[a] \in Unstamped => \A x \in Known' : x[2] # k
                 /\ pc'[a] \in StampedPcs => <<job'[a].base + i, k>> \in issued'
                 /\ \A u \in Tasks : \A j \in DOMAIN job'[u].batch :
                      job'[u].batch[j].id = k => u = a /\ j = i
      <4> DEFINE k == job[a].batch[i].id
      <4>1. a # t /\ job'[a] = job[a] /\ pc'[a] = pc[a] /\ i \in DOMAIN job[a].batch
        BY <1>7, <3>6
      <4>2. /\ k \in 1..begun
            /\ pc[a] \in StampedPcs => <<job[a].base + i, k>> \in issued
        BY <1>2, <4>1, IdFacts
      <4>3. pc[a] \in Unstamped => \A x \in Known' : x[2] # k
        BY <3>5, <4>1
      <4>4. \A u \in Tasks : \A j \in DOMAIN job[u].batch :
              job[u].batch[j].id = k => u = a /\ j = i
        BY <1>2, <4>1, IdFacts, Zenon
      <4>5. \A u \in Tasks : \A j \in DOMAIN job'[u].batch :
              job'[u].batch[j].id = k => u = a /\ j = i
        <5> SUFFICES ASSUME NEW u \in Tasks, NEW j \in DOMAIN job'[u].batch,
                            job'[u].batch[j].id = k
                     PROVE  u = a /\ j = i
          OBVIOUS
        <5>1. job'[u] = job[u]
          BY <1>7
        <5> HIDE DEF k
        <5> QED
          BY <4>4, <5>1
      <4>6. job'[a].batch[i].id = k /\ job'[a].base = job[a].base
        BY <4>1
      <4> HIDE DEF k
      <4> QED
        BY <1>7, <4>1, <4>2, <4>3, <4>5, <4>6
    <3>7. IdInv'
      BY <3>5, <3>6, Zenon DEF IdInv, Unstamped, StampedPcs
    <3> QED
      BY <3>2, <3>4, <3>7
  <2> QED
    BY <2>1, <2>2
<1>10. Pushes(t) \subseteq GoodFrames'
  <2> SUFFICES ASSUME NEW i \in DOMAIN b
               PROVE  QueueFrame(StampedSeq(t, i), b[i].id, SizeOf[b[i].ev]) \in GoodFrames'
    BY DEF Pushes
  <2>1. StampedSeq(t, i) \in Nat /\ b[i].id \in Nat /\ SizeOf[b[i].ev] \in Nat
    <3>1. b[i].ev \in Events /\ SizeOf \in [Events -> Nat \ {0}] /\ i \in Nat
      BY <1>4, DurableAssumption
    <3>2. SizeOf[b[i].ev] \in Nat
      BY <3>1
    <3>3. memSeq + i \in Nat /\ job[t].base + i \in Nat
      BY <1>2, <1>4, <3>1
    <3>4. StampedSeq(t, i) = memSeq + i \/ StampedSeq(t, i) = job[t].base + i
      BY DEF StampedSeq
    <3>5. StampedSeq(t, i) \in Nat
      BY ONLY <3>3, <3>4
    <3> QED
      BY <1>4, <3>2, <3>5
  <2>2. <<StampedSeq(t, i), b[i].id>> \in Known'
    <3>1. CASE pc[t] = "err"
      BY <1>1, <3>1 DEF Known
    <3>2. CASE pc[t] # "err"
      <4>1. pc[t] \in StampedPcs /\ StampedSeq(t, i) = job[t].base + i
        BY <1>1, <3>2 DEF StampedPcs, StampedSeq
      <4>2. <<job[t].base + i, b[i].id>> \in issued
        BY <1>2, <4>1, IdFacts
      <4> QED
        BY <1>7, <4>1, <4>2 DEF Known
    <3> QED
      BY <3>1, <3>2
  <2> DEFINE q == StampedSeq(t, i)
             d == b[i].id
             z == SizeOf[b[i].ev]
  <2> HIDE DEF q, d, z
  <2>3. q \in Nat /\ d \in Nat /\ z \in Nat /\ <<q, d>> \in Known'
    BY <2>1, <2>2 DEF q, d, z
  <2>4. QueueFrame(q, d, z) \in GoodFrames'
    BY <2>3 DEF QueueFrame, GoodFrames
  <2> QED
    BY <2>4 DEF q, d, z
<1>11. queue' \in QueueType(GoodFrames')
  <2>1. FrameSet(GoodFrames')
    BY DEF FrameSet, GoodFrames
  <2>2. queue \in QueueType(GoodFrames')
    BY <1>2, <1>9, GoodGrows DEF LinkInv, Grows
  <2>3. PushAll(t) \in QueueType(GoodFrames')
    BY <1>4, <1>10, <2>1, <2>2, PushAllType
  <2> QED
    BY <1>1, <2>2, <2>3
<1>12. LinkInv'
  <2>1. wire' \in Seq(GoodMsgs')
    BY <1>1, <1>2, <1>9, GoodGrows DEF LinkInv, Grows
  <2>2. cancelled' \subseteq Tasks /\ conn' \in Conns /\ (conn'.gap => conn'.floor > 0)
    BY <1>1, <1>2 DEF LinkInv
  <2> QED
    BY <1>11, <2>1, <2>2 DEF LinkInv, Conns
<1>13. ClientInv'
  BY <1>1, <1>2, <1>9, ClientKept, WantedKept
<1> QED
  BY <1>9, <1>12, <1>13 DEF Inv

\* Steps of the log that the connection and the client do not notice.
LEMMA Unnoticed ==
  ASSUME Inv, LogInv', IdInv', Grows, cancelled' \subseteq Tasks,
         UNCHANGED <<connVars, clientVars, wanted, handled, gapped, fresh>>
  PROVE  Inv'
<1>1. /\ conn' = conn /\ queue' = queue /\ wire' = wire /\ client' = client
      /\ saved' = saved /\ wanted' = wanted /\ handled' = handled /\ gapped' = gapped
      /\ fresh' = fresh
  BY DEF connVars, clientVars
<1>2. LinkInv'
  BY <1>1, LinkKept DEF Inv
<1>3. ClientInv'
  BY <1>1, ClientKept, WantedKept DEF Inv
<1> QED
  BY <1>2, <1>3 DEF Inv

\* A new batch: the ids wanted from it are among the ids begun.
LEMMA FanoutBeginInv ==
  ASSUME Inv, NEW t \in Tasks, FanoutBegin(t)
  PROVE  Inv'
<1>1. /\ unlogged' = unlogged /\ memSeq' = memSeq /\ cancelled' = cancelled
      /\ conn' = conn /\ queue' = queue /\ wire' = wire /\ client' = client
      /\ saved' = saved /\ handled' = handled /\ gapped' = gapped /\ fresh' = fresh
  BY DEF FanoutBegin, srvVars, connVars, clientVars
<1>0. PICK n \in 1..MaxBatch : \E batch \in [1..n -> Events] :
        /\ begun + n <= MaxBegun /\ Log!AppendCall(t, batch)
        /\ wanted' = wanted \cup {begun + i : i \in {j \in 1..n : batch[j] \in Matching}}
  BY DEF FanoutBegin
<1>2. PICK batch \in [1..n -> Events] :
        /\ begun + n <= MaxBegun /\ Log!AppendCall(t, batch)
        /\ wanted' = wanted \cup {begun + i : i \in {j \in 1..n : batch[j] \in Matching}}
  BY <1>0
<1>3. LogInv' /\ IdInv' /\ Grows /\ begun' = begun + n
  BY <1>1, <1>2, AppendCallInv DEF Inv
<1>4. wanted' \subseteq 1..begun'
  <2>1. wanted \subseteq 1..begun /\ begun \in Nat /\ n \in Nat
    BY <1>2, DurableAssumption DEF Inv, ClientInv, LogInv
  <2>2. ASSUME NEW k \in wanted' PROVE k \in 1..(begun + n)
    <3>1. CASE k \in wanted
      BY <2>1, <3>1
    <3>2. CASE k \notin wanted
      <4>1. PICK i \in 1..n : k = begun + i
        BY <1>2, <3>2
      <4> QED
        BY <2>1, <4>1
    <3> QED
      BY <3>1, <3>2
  <2> QED
    BY <1>3, <2>2
<1>5. cancelled' \subseteq Tasks
  BY <1>1 DEF Inv, LinkInv
<1>6. LinkInv'
  BY <1>1, <1>3, <1>5, LinkKept DEF Inv
<1>7. ClientInv'
  BY <1>1, <1>3, <1>4, ClientKept DEF Inv
<1> QED
  BY <1>3, <1>6, <1>7 DEF Inv

\* The append under way, its failure, the request going away, and the end of
\* a fan-out nobody waits for.
LEMMA FanoutStepsInv ==
  ASSUME Inv, NEW t \in Tasks,
         FanoutAppend(t) \/ AppendError(t) \/ FanoutCancel(t) \/ CancelledEnds(t)
  PROVE  Inv'
<1>1. /\ unlogged' = unlogged /\ memSeq' = memSeq
      /\ UNCHANGED <<connVars, clientVars, wanted, handled, gapped, fresh>>
  BY DEF FanoutAppend, AppendError, FanoutCancel, CancelledEnds, srvVars, histVars
<1>2. LogInv /\ IdInv /\ cancelled \subseteq Tasks /\ memSeq \in Nat /\ t \in Log!Procs
  BY DEF Inv, LinkInv, LogInv, Log!Procs
<1>3. cancelled' \subseteq Tasks
  BY <1>2 DEF FanoutAppend, AppendError, FanoutCancel, CancelledEnds, srvVars
<1>4. LogInv' /\ IdInv' /\ Grows
  <2>1. CASE FanoutAppend(t)
    <3>1. CASE Log!AppendCommit(t)
      BY <1>1, <1>2, <3>1, AppendCommitInv
    <3>2. CASE Log!Lock(t) \/ Log!StoreHead(t) \/ Log!StoreFloor(t)
      BY <1>1, <1>2, <3>2, CallStepsInv
    <3> QED
      BY <2>1, <3>1, <3>2 DEF FanoutAppend
  <2>2. CASE AppendError(t)
    BY <1>1, <1>2, <2>2, CallStepsInv DEF AppendError
  <2>3. CASE FanoutCancel(t)
    BY <1>1, <1>2, <2>3, LogKept DEF FanoutCancel
  <2>4. CASE CancelledEnds(t)
    BY <1>1, <1>2, <2>4, ReturnInv DEF CancelledEnds
  <2> QED
    BY <2>1, <2>2, <2>3, <2>4
<1> QED
  BY <1>1, <1>3, <1>4, Unnoticed

\* The pruner, the start of the server, and the clock.
LEMMA LogStepsInv ==
  ASSUME Inv, PruneStarts \/ PruneRuns \/ ServerStart \/ ClockMoves
  PROVE  Inv'
<1>1. /\ unlogged' = unlogged /\ memSeq' = memSeq /\ cancelled' = cancelled
      /\ UNCHANGED <<connVars, clientVars, wanted, handled, gapped, fresh>>
  BY DEF PruneStarts, PruneRuns, ServerStart, ClockMoves, srvVars, histVars
<1>2. LogInv /\ IdInv /\ cancelled' \subseteq Tasks /\ Pruner \in Log!Procs
  BY <1>1 DEF Inv, LinkInv, Log!Procs
<1>3. LogInv' /\ IdInv' /\ Grows
  <2>1. CASE PruneStarts
    BY <1>1, <1>2, <2>1, PruneStepsInv DEF PruneStarts
  <2>2. CASE PruneRuns
    <3>1. CASE Log!Lock(Pruner)
      BY <1>1, <1>2, <3>1, CallStepsInv
    <3>2. CASE Log!PruneFail \/ Log!PruneStore \/ Log!PruneCommit
      BY <1>1, <1>2, <3>2, PruneStepsInv
    <3> QED
      BY <2>2, <3>1, <3>2 DEF PruneRuns
  <2>3. CASE ServerStart
    BY <1>1, <1>2, <2>3, RestartInv DEF ServerStart
  <2>4. CASE ClockMoves
    BY <1>1, <1>2, <2>4, ClockInv DEF ClockMoves
  <2> QED
    BY <2>1, <2>2, <2>3, <2>4
<1> QED
  BY <1>1, <1>2, <1>3, Unnoticed

\* The server stops; what was sent may still arrive.
LEMMA ServerCrashInv ==
  ASSUME Inv, ServerCrash
  PROVE  Inv'
<1>1. /\ Log!Crash /\ unlogged' = unlogged /\ memSeq' = 0 /\ cancelled' = {}
      /\ conn' = NoConn /\ queue' = NewQueue
      /\ \E n \in 0..Len(wire) : wire' = SubSeq(wire, 1, n)
      /\ client' = client /\ saved' = saved /\ wanted' = wanted
      /\ handled' = handled /\ gapped' = gapped /\ fresh' = fresh
  BY DEF ServerCrash, clientVars, histVars
<1>2. LogInv' /\ IdInv' /\ Grows
  BY <1>1, RestartInv DEF Inv
<1>3. wire' \in Seq(GoodMsgs')
  <2>1. wire \in Seq(GoodMsgs) /\ Seq(GoodMsgs) \subseteq Seq(GoodMsgs')
    BY <1>2, GoodGrows DEF Inv, LinkInv, Grows
  <2> QED
    BY <1>1, <2>1, PrefixGood
<1>4. LinkInv'
  <2>1. queue' \in QueueType(GoodFrames') /\ conn' \in Conns /\ conn'.gap = FALSE
    BY <1>1, Fresh
  <2> QED
    BY <1>1, <1>3, <2>1 DEF LinkInv, Conns
<1>5. ClientInv'
  BY <1>1, <1>2, ClientKept, WantedKept DEF Inv
<1> QED
  BY <1>2, <1>4, <1>5 DEF Inv

-----------------------------------------------------------------------------
(* The theorems *)

\* Nothing is stamped, queued or handled at the start.
LEMMA InitInv ==
  ASSUME Init
  PROVE  Inv
<1>1. /\ rows = << >> /\ issued = {} /\ head = 0 /\ floor = 0 /\ begun = 0
      /\ pc = [p \in Log!Procs |-> "idle"] /\ job = [p \in Log!Procs |-> Log!NoJob]
      /\ now \in Times /\ memSeq = 0 /\ cancelled = {} /\ unlogged = {}
      /\ conn = NoConn /\ queue = NewQueue /\ wire = <<>>
      /\ client = NewClient(0) /\ saved = 0
      /\ wanted = {} /\ handled = {} /\ gapped = {} /\ fresh = {}
  BY DEF Init, Log!Init
<1>2. LogInv
  <2>1. DOMAIN rows = {} /\ Bounded(DOMAIN rows)
    <3>1. DOMAIN rows = {}
      BY <1>1
    <3>2. 0 \in Nat /\ DOMAIN rows \subseteq 0..0
      BY <3>1
    <3> QED
      BY <3>1, <3>2 DEF Bounded
  <2>2. now \in Nat /\ 0 \in 0..MaxBegun
    BY <1>1, DurableAssumption
  <2>3. pc \in [Log!Procs -> Log!PcValues] /\ job \in [Log!Procs -> Calls]
    BY <1>1, NoJobCall DEF Log!PcValues
  <2> QED
    BY <1>1, <2>1, <2>2, <2>3 DEF LogInv
<1>3. IdInv
  <2>1. ASSUME NEW t \in Tasks PROVE DOMAIN job[t].batch = {}
    BY <1>1 DEF Log!Procs, Log!NoJob
  <2>2. Known = {}
    BY <1>1 DEF Known
  <2> QED
    BY <2>1, <2>2 DEF IdInv
<1>4. LinkInv
  BY <1>1, Fresh DEF LinkInv
<1>5. ClientInv
  <2>1. client \in Clients /\ client.cursor = 0 /\ InHand
    <3>1. <<>> \in Seq(Nat)
      OBVIOUS
    <3> QED
      BY <1>1, <3>1 DEF NewClient, Clients, Busies, NoEvent, InHand
  <2>2. CursorEarned
    BY <1>1, <2>1 DEF CursorEarned
  <2> QED
    BY <1>1, <2>1, <2>2 DEF ClientInv
<1> QED
  BY <1>2, <1>3, <1>4, <1>5 DEF Inv

\* Every step keeps the invariant.
LEMMA NextInv ==
  ASSUME Inv, [Next]_vars
  PROVE  Inv'
<1>1. ASSUME NEW t \in Tasks, Fanout(t) PROVE Inv'
  BY <1>1, FanoutBeginInv, FanoutStepsInv, FanoutPushInv DEF Fanout
<1>2. CASE Server
  BY <1>2, ReadsInv, ReplayInv, SendLiveInv DEF Server
<1>3. CASE ClientStep
  BY <1>3, ConnectInv, ClientHandleInv, ClientReadsInv, HandlerReturnsInv,
     ClientRecordInv, ClientGapInv, ClientHangsInv DEF ClientStep
<1>4. CASE LinkDrop \/ ClientCrash \/ ServerCrash
  BY <1>4, LinkDropInv, ClientCrashInv, ServerCrashInv
<1>5. CASE PruneStarts \/ PruneRuns \/ ServerStart \/ ClockMoves
  BY <1>5, LogStepsInv
<1>6. CASE UNCHANGED vars
  <2>1. UNCHANGED <<logVars, srvVars, connVars, clientVars, histVars>>
    BY <1>6 DEF vars
  <2>2. /\ LogInv' /\ IdInv' /\ ClientInv' /\ Known' = Known /\ cancelled' \subseteq Tasks
    BY <2>1, QuietClient
  <2>3. Grows
    BY <2>1, LogKept DEF Inv, srvVars, histVars
  <2>4. LinkInv'
    BY <2>1, <2>2, <2>3, LinkKept DEF Inv, connVars
  <2> QED
    BY <2>2, <2>4 DEF Inv
<1> QED
  BY <1>1, <1>2, <1>3, <1>4, <1>5, <1>6 DEF Next

\* Whatever fails, whatever is lost and whatever is retried, ids, stamps,
\* frames and cursors fit together.
THEOREM InvAlways == Spec => []Inv
<1>1. Init => Inv
  BY InitInv
<1>2. Inv /\ [Next]_vars => Inv'
  BY NextInv
<1> QED
  BY <1>1, <1>2, PTL DEF Spec

\* Persist before deliver (subscribers.rs:153): every event frame in the
\* queue or on the link was committed under its own seq, or stamped in memory
\* because its append had failed; and the state is well typed.
THEOREM PersistBeforeDeliverAlways == Spec => []PersistBeforeDeliver
<1>1. Inv => PersistBeforeDeliver
  <2> SUFFICES ASSUME Inv PROVE PersistBeforeDeliver
    OBVIOUS
  <2>1. LogInv /\ LinkInv /\ ClientInv /\ begun \in 0..MaxBegun /\ MaxBegun \in Nat
    BY DurableAssumption DEF Inv, LogInv
  <2>2. 1..begun \subseteq 1..MaxBegun
    BY <2>1
  <2>3. fresh \subseteq 1..begun
    <3> SUFFICES ASSUME NEW i \in fresh PROVE i \in 1..begun
      OBVIOUS
    <3>1. PICK x \in Known : x[2] = i
      BY <2>1 DEF ClientInv
    <3>2. x \in Nat \X (1..begun)
      BY <2>1 DEF ClientInv, LogInv, Known
    <3> QED
      BY <3>1, <3>2
  <2>4. TypeOK
    <3>1. /\ conn \in Conns /\ (conn.gap => conn.floor > 0) /\ cancelled \subseteq Tasks
      BY <2>1 DEF LinkInv
    <3>2. client \in Clients /\ saved \in Nat /\ gapped \subseteq Nat /\ wanted \subseteq 1..begun
      BY <2>1 DEF ClientInv
    <3>3. memSeq \in Nat
      BY <2>1 DEF LogInv
    <3> QED
      BY <2>2, <2>3, <3>1, <3>2, <3>3 DEF TypeOK, Conns, Clients
  <2>5. \A f \in ToSet(queue.frames) : <<f.seq, f.id>> \in Known
    <3>1. queue.frames \in Seq(GoodFrames)
      BY <2>1 DEF LinkInv, QueueType
    <3>2. \A f \in ToSet(queue.frames) : f \in GoodFrames
      BY <3>1, LenProperties DEF ToSet
    <3> QED
      BY <3>2 DEF GoodFrames
  <2>6. \A m \in ToSet(wire) : m.kind = "event" => <<m.seq, m.id>> \in Known
    <3>1. wire \in Seq(GoodMsgs)
      BY <2>1 DEF LinkInv
    <3>2. \A m \in ToSet(wire) : m \in GoodMsgs
      BY <3>1, LenProperties DEF ToSet
    <3> QED
      BY <3>2 DEF GoodMsgs
  <2> QED
    BY <2>4, <2>5, <2>6 DEF PersistBeforeDeliver, InFlight, Known
<1> QED
  BY <1>1, InvAlways, PTL

\* The cursor, in the client's memory and in its store, is always zero or the
\* seq of an event the handler finished (sub-kit's lib.rs:226-228).
THEOREM CursorEarnedAlways == Spec => []CursorEarned
<1>1. Inv => CursorEarned
  BY DEF Inv, ClientInv
<1> QED
  BY <1>1, InvAlways, PTL

\* Between two starts of the client no event reaches the handler twice
\* (resume.rs:10), although replays and live frames overlap and stamps of the
\* log and of the in-memory counter collide.
THEOREM OncePerRunAlways == Spec => OncePerRun
<1>1. Inv /\ [Next]_vars => [OncePerRunStep]_vars
  <2> SUFFICES ASSUME Inv, Next, client'.busy # client.busy, client'.busy # NoEvent,
                      client'.busy.id \in fresh
               PROVE  FALSE
    BY DEF OncePerRunStep
  <2>0. client \in Clients
    BY DEF Inv, ClientInv
  <2>1. ClientHandle
    <3>1. ASSUME NEW t \in Tasks, Fanout(t) PROVE client' = client
      BY <3>1 DEF Fanout, FanoutBegin, FanoutAppend, AppendError, FanoutPush, FanoutCancel,
                  CancelledEnds, clientVars
    <3>2. Server => client' = client
      BY DEF Server, Subscribe, ReadFloor, ReadHead, Replay, SendLive, clientVars
    <3>3. PruneStarts \/ PruneRuns \/ LinkDrop \/ ServerCrash \/ ServerStart \/ ClockMoves
            => client' = client
      BY DEF PruneStarts, PruneRuns, LinkDrop, ServerCrash, ServerStart, ClockMoves, clientVars
    <3>4. ClientSkip \/ ClientGap \/ ClientReplayed => client' = client
      BY DEF ClientSkip, ClientGap, ClientReplayed, clientVars
    <3>5. Connect \/ ClientLagged \/ ClientDisconnected \/ HandlerReturns
            => client'.busy = client.busy
      BY <2>0 DEF Connect, ClientLagged, AfterLagged, ClientDisconnected, Hangs, HandlerReturns,
                  Clients
    <3>6. ClientRecord => client'.busy = NoEvent
      BY <2>0 DEF ClientRecord, Clients
    <3>7. ClientCrash => client'.busy = NoEvent
      BY DEF ClientCrash, NewClient
    <3> QED
      BY <3>1, <3>2, <3>3, <3>4, <3>5, <3>6, <3>7 DEF Next, ClientStep
  <2> DEFINE m == Head(wire)
  <2>2. /\ wire # <<>> /\ m.kind = "event" /\ client.busy = NoEvent /\ m.seq > client.cursor
        /\ client' = [client EXCEPT !.busy = [seq |-> m.seq, id |-> m.id]]
    BY <2>1 DEF ClientHandle, Receives, should_process
  <2>3. m \in GoodMsgs
    BY <2>2, HeadGood
  <2> HIDE DEF m
  <2>4. m.seq \in Nat /\ <<m.seq, m.id>> \in Known
    BY <2>2, <2>3 DEF GoodMsgs, Msgs
  <2>5. client'.busy.id = m.id
    BY <2>0, <2>2 DEF Clients
  <2>6. PICK x \in Known : x[2] = m.id /\ Passed(x)
    BY <2>5 DEF Inv, ClientInv
  <2>7. x \in Known
    OBVIOUS
  <2>8. x[1] <= client.cursor
    BY <2>2, <2>6, <2>7, KnownIsEvent DEF Passed
  <2>9. x[1] = m.seq
    <3> DEFINE y == <<m.seq, m.id>>
    <3>1. y \in Known /\ y[2] = x[2] /\ y[1] = m.seq
      BY <2>4, <2>6
    <3>2. \A v, w \in Known : v[2] = w[2] => v[1] = w[1]
      BY IdFacts DEF Inv
    <3> HIDE DEF y
    <3> QED
      BY <2>7, <3>1, <3>2
  <2> QED
    BY <2>0, <2>2, <2>4, <2>8, <2>9 DEF Clients
<1> QED
  BY <1>1, InvAlways, PTL DEF Spec, OncePerRun

-----------------------------------------------------------------------------
(* What implementing the promise is worth *)

\* NoSkip is not inductive: a commit must not add an event below the cursor.
\* It cannot, because the cursor stands at a handled event, every handled
\* event is a wanted one, and new events come after the wanted ones.
DueSeqs == {x[1] : x \in Due}
DoneSeqs == {x[1] : x \in handled}
PromiseInv ==
  /\ DueSeqs \subseteq Nat \ {0} /\ DoneSeqs \subseteq DueSeqs
  /\ client.cursor \in DoneSeqs \cup {0}
  /\ \A r \in DueSeqs : r <= client.cursor => r \in DoneSeqs \cup gapped

\* No step of the promise passes over an event.
LEMMA PromiseStep == PromiseInv /\ [Promise!Next]_Promise!aloVars => PromiseInv'
<1> SUFFICES ASSUME PromiseInv, [Promise!Next]_Promise!aloVars PROVE PromiseInv'
  OBVIOUS
<1>0. client.cursor \in Nat
  <2>1. \A r \in DueSeqs : r \in Nat
    BY DEF PromiseInv
  <2>2. client.cursor \in DueSeqs \/ client.cursor = 0
    BY DEF PromiseInv
  <2> QED
    BY <2>1, <2>2
<1>1. CASE Promise!Commit
  <2>1. /\ DueSeqs \subseteq DueSeqs' /\ DueSeqs' \subseteq Nat \ {0}
        /\ \A r \in DueSeqs, s \in DueSeqs' \ DueSeqs : r < s
        /\ gapped' = gapped /\ DoneSeqs' = DoneSeqs /\ client'.cursor = client.cursor
    BY <1>1 DEF Promise!Commit, DueSeqs, DoneSeqs
  <2>2. \A s \in DueSeqs' \ DueSeqs : ~(s <= client.cursor)
    BY <1>0, <2>1 DEF PromiseInv
  <2> QED
    BY <2>1, <2>2 DEF PromiseInv
<1>2. CASE Promise!Tell
  <2>1. /\ gapped \subseteq gapped' /\ DueSeqs' = DueSeqs /\ DoneSeqs' = DoneSeqs
        /\ client'.cursor = client.cursor
    BY <1>2 DEF Promise!Tell, DueSeqs, DoneSeqs
  <2> QED
    BY <2>1 DEF PromiseInv
<1>3. ASSUME NEW s \in DueSeqs, Promise!Handle(s) PROVE PromiseInv'
  <2>1. /\ DoneSeqs' = DoneSeqs \cup {s} /\ gapped' = gapped /\ DueSeqs' = DueSeqs
        /\ client'.cursor = client.cursor
    BY <1>3 DEF Promise!Handle, DueSeqs, DoneSeqs
  <2> QED
    BY <2>1 DEF PromiseInv
<1>4. ASSUME NEW s \in DoneSeqs, Promise!Advance(s) PROVE PromiseInv'
  <2>1. /\ s > client.cursor /\ \A r \in DueSeqs : client.cursor < r /\ r < s => r \in gapped
        /\ client'.cursor = s /\ gapped' = gapped /\ DueSeqs' = DueSeqs /\ DoneSeqs' = DoneSeqs
    BY <1>4 DEF Promise!Advance, DueSeqs, DoneSeqs
  <2>2. ASSUME NEW r \in DueSeqs, r <= s PROVE r \in DoneSeqs \cup gapped
    <3>1. r \in Nat /\ s \in Nat
      BY DEF PromiseInv
    <3>2. r <= client.cursor \/ (client.cursor < r /\ r < s) \/ r = s
      BY <1>0, <2>2, <3>1
    <3> QED
      BY <1>4, <2>1, <3>2 DEF PromiseInv
  <2> QED
    BY <1>4, <2>1, <2>2 DEF PromiseInv
<1>5. ASSUME NEW s \in DoneSeqs \cup {0}, Promise!Rewind(s) PROVE PromiseInv'
  <2>1. /\ s < client.cursor
        /\ client'.cursor = s /\ gapped' = gapped /\ DueSeqs' = DueSeqs /\ DoneSeqs' = DoneSeqs
    BY <1>5 DEF Promise!Rewind, DueSeqs, DoneSeqs
  <2>2. \A r \in DueSeqs : r <= s => r <= client.cursor
    BY <1>0, <2>1 DEF PromiseInv
  <2> QED
    BY <1>5, <2>1, <2>2 DEF PromiseInv
<1>6. CASE UNCHANGED Promise!aloVars
  <2>1. DueSeqs' = DueSeqs /\ DoneSeqs' = DoneSeqs /\ gapped' = gapped /\ client'.cursor = client.cursor
    BY <1>6 DEF Promise!aloVars, DueSeqs, DoneSeqs
  <2> QED
    BY <2>1 DEF PromiseInv
<1> QED
  BY <1>1, <1>2, <1>3, <1>4, <1>5, <1>6 DEF Promise!Next, DueSeqs, DoneSeqs

\* Whatever implements the promise never leaves an event behind the cursor
\* unhandled and unannounced, however often the subscriber restarts.
THEOREM PromiseNoSkip == ImplementsPromise => []Promise!NoSkip
<1>1. Promise!Init => PromiseInv
  BY DEF Promise!Init, PromiseInv, DueSeqs, DoneSeqs
<1>2. PromiseInv => Promise!NoSkip
  BY DEF PromiseInv, Promise!NoSkip, DueSeqs, DoneSeqs
<1> QED
  BY <1>1, <1>2, PromiseStep, PTL DEF ImplementsPromise, Promise!Spec

-----------------------------------------------------------------------------
(* The log inside the system is the delivery log *)

LP == INSTANCE DeliveryLogProofs

\* The limits are those the log alone assumes.
LEMMA LogAssumed == LP!LogAssumption
BY DurableAssumption DEF LP!LogAssumption, LP!Procs

\* What a fan-out does to the log is what an append does.
LEMMA AppendSteps ==
  ASSUME NEW t \in Tasks
  PROVE  /\ Log!Lock(t) => LP!Lock(t)
         /\ Log!AppendCommit(t) => LP!AppendCommit(t)
         /\ Log!StoreHead(t) => LP!StoreHead(t)
         /\ Log!StoreFloor(t) => LP!StoreFloor(t)
         /\ Log!AppendFail(t) => LP!AppendFail(t)
         /\ Log!AppendReturn(t) => LP!AppendReturn(t)
<1> USE DEF Log!diskVars, LP!diskVars, Log!atomics, LP!atomics, Log!envVars, LP!envVars
<1>1. Log!Lock(t) => LP!Lock(t)
  BY DEF Log!Lock, LP!Lock, Log!CanLock, LP!CanLock
<1>2. Log!AppendCommit(t) => LP!AppendCommit(t)
  BY DEF Log!AppendCommit, LP!AppendCommit
<1>3. Log!StoreHead(t) => LP!StoreHead(t)
  BY DEF Log!StoreHead, LP!StoreHead, Log!HeadAfter, LP!HeadAfter
<1>4. Log!StoreFloor(t) => LP!StoreFloor(t)
  <2>1. Log!BatchBytes(job[t].batch) = LP!BatchBytes(job[t].batch)
    BY DEF Log!BatchBytes, LP!BatchBytes, Log!SumTo, LP!SumTo
  <2> QED
    BY <2>1 DEF Log!StoreFloor, LP!StoreFloor, Log!FloorAfter, LP!FloorAfter
<1>5. Log!AppendFail(t) => LP!AppendFail(t)
  BY DEF Log!AppendFail, LP!AppendFail
<1>6. Log!AppendReturn(t) => LP!AppendReturn(t)
  BY DEF Log!AppendReturn, LP!AppendReturn, Log!NoJob, LP!NoJob
<1> QED
  BY <1>1, <1>2, <1>3, <1>4, <1>5, <1>6

\* A set has one cardinality.
LEMMA SameSize ==
  ASSUME NEW S
  PROVE  Log!Cardinality(S) = Cardinality(S) /\ LP!Cardinality(S) = Cardinality(S)
BY DEF Log!Cardinality, LP!Cardinality, Cardinality

\* Keys and sums mean the same in both.
LEMMA SameMeasures ==
  ASSUME NEW r, NEW S, NEW c, NEW ts, NEW n, NEW b
  PROVE  /\ Log!FirstKey(S) = LP!FirstKey(S) /\ Log!LastKey(S) = LP!LastKey(S)
         /\ Log!BytesOf(r, S) = LP!BytesOf(r, S)
         /\ Log!Removed(r, c) = LP!Removed(r, c) /\ Log!Fronts(r) = LP!Fronts(r)
         /\ Log!PruneStopsAt(r, ts, n, b, c) <=> LP!PruneStopsAt(r, ts, n, b, c)
<1>1. \A T : Log!FirstKey(T) = LP!FirstKey(T)
  BY DEF Log!FirstKey, LP!FirstKey, Log!Min, LP!Min
<1>2. \A T : Log!LastKey(T) = LP!LastKey(T)
  BY DEF Log!LastKey, LP!LastKey, Log!Max, LP!Max
<1>3. \A T : Log!BytesOf(r, T) = LP!BytesOf(r, T)
  <2> SUFFICES ASSUME NEW T PROVE Log!BytesOf(r, T) = LP!BytesOf(r, T)
    OBVIOUS
  <2>1. PICK m : m = Log!LastKey(T) /\ m = LP!LastKey(T)
    BY <1>2
  <2> DEFINE w == [k \in 1..m |-> IF k \in T THEN SizeOf[r[k].ev] ELSE 0]
  <2>2. Log!BytesOf(r, T) = Log!SumTo(w, m)
    BY ONLY <2>1 DEF Log!BytesOf
  <2>3. LP!BytesOf(r, T) = LP!SumTo(w, m)
    BY ONLY <2>1 DEF LP!BytesOf
  <2> HIDE DEF w
  <2>4. Log!SumTo(w, m) = LP!SumTo(w, m)
    BY ONLY Zenon DEF Log!SumTo, LP!SumTo
  <2> QED
    BY ONLY <2>2, <2>3, <2>4
<1>4. \A d : Log!Removed(r, d) = LP!Removed(r, d)
  BY DEF Log!Removed, LP!Removed
<1>5. Log!Fronts(r) = LP!Fronts(r)
  BY <1>2 DEF Log!Fronts, LP!Fronts
<1>6. \A d : Log!OverLimit(r, ts, n, b, d) <=> LP!OverLimit(r, ts, n, b, d)
  <2> SUFFICES ASSUME NEW d
               PROVE  Log!OverLimit(r, ts, n, b, d) <=> LP!OverLimit(r, ts, n, b, d)
    OBVIOUS
  <2>1. Log!BytesOf(r, Log!Removed(r, d)) = LP!BytesOf(r, LP!Removed(r, d))
    BY <1>3, <1>4
  <2>2. Log!Cardinality(Log!Removed(r, d)) = LP!Cardinality(LP!Removed(r, d))
    BY <1>4, SameSize
  <2>3. Log!TooOld(ts, r[d].ts) <=> LP!TooOld(ts, r[d].ts)
    BY DEF Log!TooOld, LP!TooOld, Log!SatSub, LP!SatSub
  <2> QED
    BY <2>1, <2>2, <2>3 DEF Log!OverLimit, LP!OverLimit, Log!SatSub, LP!SatSub
<1>7. Log!PruneStopsAt(r, ts, n, b, c) <=> LP!PruneStopsAt(r, ts, n, b, c)
  BY <1>6 DEF Log!PruneStopsAt, LP!PruneStopsAt
<1> QED
  BY <1>1, <1>2, <1>3, <1>4, <1>5, <1>7

\* The pruner, the restart and the clock are the log's own.
LEMMA OtherSteps ==
  /\ Log!Lock(Pruner) => LP!Lock(Pruner)
  /\ Log!PruneCall => LP!PruneCall
  /\ Log!PruneFail => LP!PruneFail
  /\ Log!PruneStore => LP!PruneStore
  /\ Log!PruneCommit => LP!PruneCommit
  /\ Log!Crash => LP!Crash
  /\ Log!Open => LP!Open
  /\ Log!Clock => LP!Clock
<1> USE DEF Log!diskVars, LP!diskVars, Log!atomics, LP!atomics, Log!envVars, LP!envVars,
            Log!callVars, LP!callVars, Log!NoJob, LP!NoJob
<1>1. Log!Lock(Pruner) => LP!Lock(Pruner)
  BY DEF Log!Lock, LP!Lock, Log!CanLock, LP!CanLock
<1>2. Log!PruneCall => LP!PruneCall
  BY DEF Log!PruneCall, LP!PruneCall
<1>3. Log!PruneFail => LP!PruneFail
  BY DEF Log!PruneFail, LP!PruneFail
<1>4. Log!PruneStore => LP!PruneStore
  BY DEF Log!PruneStore, LP!PruneStore
<1>5. Log!PruneCommit => LP!PruneCommit
  <2> HAVE Log!PruneCommit
  <2>1. PICK c \in Log!Fronts(rows) :
          /\ Log!PruneStopsAt(rows, job[Pruner].ts, retained_count, retained_bytes, c)
          /\ rows' = Log!Only(rows, DOMAIN rows \ Log!Removed(rows, c))
          /\ job' = [job EXCEPT ![Pruner].floor = Log!FirstKey(DOMAIN rows \ Log!Removed(rows, c))]
          /\ retained_count' = Log!CountAfter(retained_count, Log!Removed(rows, c))
          /\ retained_bytes' = Log!SatSub(retained_bytes, Log!BytesOf(rows, Log!Removed(rows, c)))
    BY DEF Log!PruneCommit
  <2> DEFINE gone == LP!Removed(rows, c)
  <2>2. c \in LP!Fronts(rows) /\ Log!Removed(rows, c) = gone
    BY <2>1, SameMeasures
  <2>3. LP!PruneStopsAt(rows, job[Pruner].ts, retained_count, retained_bytes, c)
    BY <2>1, SameMeasures
  <2>4. /\ Log!FirstKey(DOMAIN rows \ gone) = LP!FirstKey(DOMAIN rows \ gone)
        /\ Log!BytesOf(rows, gone) = LP!BytesOf(rows, gone)
    BY SameMeasures
  <2>5. /\ rows' = LP!Only(rows, DOMAIN rows \ gone)
        /\ job' = [job EXCEPT ![Pruner].floor = LP!FirstKey(DOMAIN rows \ gone)]
        /\ retained_count' = LP!CountAfter(retained_count, gone)
        /\ retained_bytes' = LP!SatSub(retained_bytes, LP!BytesOf(rows, gone))
    BY <2>1, <2>2, <2>4, SameSize DEF Log!Only, LP!Only, Log!CountAfter, LP!CountAfter,
                                      Log!SatSub, LP!SatSub
  <2>6. /\ pc[Pruner] = "writing" /\ pc' = [pc EXCEPT ![Pruner] = "committed"]
        /\ UNCHANGED <<issued, lostHead, head, floor, writer, LP!envVars>>
    BY DEF Log!PruneCommit
  <2> QED
    BY <2>2, <2>3, <2>5, <2>6 DEF LP!PruneCommit
<1>6. Log!Crash => LP!Crash
  BY DEF Log!Crash, LP!Crash, Log!Procs, LP!Procs
<1>7. Log!Open => LP!Open
  <2> HAVE Log!Open
  <2> DEFINE S == DOMAIN rows
  <2>1. PICK c \in Log!Fronts(rows) :
          /\ Log!PruneStopsAt(rows, now, Log!Cardinality(S), Log!BytesOf(rows, S), c)
          /\ rows' = Log!Only(rows, S \ Log!Removed(rows, c))
          /\ floor' = Log!FirstKey(S \ Log!Removed(rows, c))
          /\ retained_count' = Log!CountAfter(Log!Cardinality(S), Log!Removed(rows, c))
          /\ retained_bytes' = Log!SatSub(Log!BytesOf(rows, S),
                                          Log!BytesOf(rows, Log!Removed(rows, c)))
    BY DEF Log!Open
  <2> DEFINE gone == LP!Removed(rows, c)
  <2>2. c \in LP!Fronts(rows) /\ Log!Removed(rows, c) = gone
    BY <2>1, SameMeasures
  <2>3. /\ Log!BytesOf(rows, S) = LP!BytesOf(rows, S)
        /\ Log!BytesOf(rows, gone) = LP!BytesOf(rows, gone)
        /\ Log!FirstKey(S \ gone) = LP!FirstKey(S \ gone)
        /\ Log!LastKey(S) = LP!LastKey(S)
    BY SameMeasures
  <2>4. LP!PruneStopsAt(rows, now, LP!Cardinality(S), LP!BytesOf(rows, S), c)
    BY <2>1, <2>3, SameMeasures, SameSize
  <2>5. /\ rows' = LP!Only(rows, S \ gone)
        /\ floor' = LP!FirstKey(S \ gone)
        /\ retained_count' = LP!CountAfter(LP!Cardinality(S), gone)
        /\ retained_bytes' = LP!SatSub(LP!BytesOf(rows, S), LP!BytesOf(rows, gone))
    BY <2>1, <2>2, <2>3, SameSize DEF Log!Only, LP!Only, Log!CountAfter, LP!CountAfter,
                                      Log!SatSub, LP!SatSub
  <2>6. /\ ~up /\ up' = TRUE /\ head' = LP!RecoveredHead(S)
        /\ lostHead' = (lostHead \/ (S = {} /\ issued # {}))
        /\ UNCHANGED <<issued, LP!callVars, now, begun, crashes>>
    BY <2>3 DEF Log!Open, Log!RecoveredHead, LP!RecoveredHead
  <2> QED
    BY <2>2, <2>4, <2>5, <2>6 DEF LP!Open
<1>8. Log!Clock => LP!Clock
  BY DEF Log!Clock, LP!Clock
<1> QED
  BY <1>1, <1>2, <1>3, <1>4, <1>5, <1>6, <1>7, <1>8

\* Every step of the system is a step of the log, or leaves it alone.
LEMMA LogStep ==
  ASSUME [Next]_vars
  PROVE  [LP!Next]_LP!logVars
<1>1. UNCHANGED logVars => UNCHANGED LP!logVars
  BY DEF logVars, LP!logVars, LP!diskVars, LP!atomics, LP!callVars, LP!envVars
<1>2. ASSUME NEW t \in Tasks, Fanout(t) PROVE [LP!Next]_LP!logVars
  <2>1. CASE FanoutBegin(t)
    <3>1. PICK n \in 1..MaxBatch : \E batch \in [1..n -> Events] :
            begun + n <= MaxBegun /\ Log!AppendCall(t, batch)
      BY <2>1 DEF FanoutBegin
    <3>2. PICK batch \in [1..n -> Events] : begun + n <= MaxBegun /\ Log!AppendCall(t, batch)
      BY <3>1
    <3>3. LP!AppendCall(t, batch)
      BY <3>2 DEF Log!AppendCall, LP!AppendCall, Log!NoJob, LP!NoJob, Log!diskVars, LP!diskVars,
                  Log!atomics, LP!atomics
    <3> QED
      BY <3>2, <3>3 DEF LP!Next, LP!AppendStep, LP!AppendBatch
  <2>2. CASE FanoutAppend(t)
    BY <2>2, AppendSteps DEF FanoutAppend, LP!Next, LP!AppendStep, LP!Procs
  <2>3. CASE AppendError(t)
    BY <2>3, AppendSteps DEF AppendError, LP!Next, LP!AppendStep
  <2>4. CASE FanoutPush(t) \/ CancelledEnds(t)
    BY <2>4, AppendSteps DEF FanoutPush, CancelledEnds, LP!Next, LP!AppendStep
  <2>5. CASE FanoutCancel(t)
    BY <1>1, <2>5 DEF FanoutCancel
  <2> QED
    BY <1>2, <2>1, <2>2, <2>3, <2>4, <2>5 DEF Fanout
<1>3. CASE Server
  BY <1>1, <1>3 DEF Server, Subscribe, ReadFloor, ReadHead, Replay, SendLive
<1>4. CASE ClientStep \/ LinkDrop \/ ClientCrash
  BY <1>1, <1>4 DEF ClientStep, Connect, ClientHandle, ClientSkip, HandlerReturns, ClientRecord, ClientGap,
                    ClientReplayed, ClientLagged, ClientDisconnected, LinkDrop, ClientCrash
<1>5. CASE PruneStarts \/ PruneRuns
  BY <1>5, OtherSteps DEF PruneStarts, PruneRuns, LP!Next, LP!PruneStep, LP!Procs
<1>6. CASE ServerCrash \/ ServerStart \/ ClockMoves
  BY <1>6, OtherSteps DEF ServerCrash, ServerStart, ClockMoves, LP!Next
<1>7. CASE UNCHANGED vars
  BY <1>1, <1>7 DEF vars, logVars
<1> QED
  BY <1>2, <1>3, <1>4, <1>5, <1>6, <1>7 DEF Next

\* The system leaves the log exactly the steps it has alone (append, prune,
\* crash, open), so whatever is proved of the delivery log (delivery_log.rs)
\* holds of the one subscribers are served from.
THEOREM LogImplemented == Spec => LP!Spec
<1>1. Init => LP!Init
  BY DEF Init, Log!Init, LP!Init, Log!Procs, LP!Procs, Log!NoJob, LP!NoJob
<1>2. [Next]_vars => [LP!Next]_LP!logVars
  BY LogStep
<1> QED
  BY <1>1, <1>2, PTL DEF Spec, LP!Spec

\* The invariant of the log, in the system.
LEMMA LogAlways == Spec => []LP!Inv
BY LogImplemented, LP!Invariance, LogAssumed, PTL

-----------------------------------------------------------------------------
(* The order of what a client receives *)

\* What a message tells the client about seq r: it is the event, or the range
\* announced as lost holds it.
Brings(m, r) ==
  \/ m.kind = "event" /\ m.seq = r
  \/ m.kind = "replay_gap" /\ m.seq < r /\ r < m.id

Lagless(w, n) == \A j \in 1..n : w[j].kind # "lagged"
Brought(w, n, r) == \E j \in 1..n : Brings(w[j], r)

\* Of the seqs D above p, those below an event on the link are announced (in
\* G), or come before it: unless a `lagged` frame comes before it.
WireOK(w, p, D, G) ==
  \A i \in 1..Len(w) : w[i].kind = "event" /\ Lagless(w, i - 1) =>
    \A r \in D : p < r /\ r < w[i].seq => r \in G \/ Brought(w, i - 1, r)

\* The client moves on, more is announced, and new seqs come after the old.
LEMMA WireMoves ==
  ASSUME NEW w \in Seq(Msgs), NEW p \in Nat, NEW q \in Nat, p <= q,
         NEW D, NEW E, D \subseteq Nat, E \subseteq Nat, NEW G, NEW H, G \subseteq H, WireOK(w, p, D, G),
         \A r \in E \ D : \A i \in 1..Len(w) : w[i].kind = "event" => w[i].seq <= r
  PROVE  WireOK(w, q, E, H)
<1> SUFFICES ASSUME NEW i \in 1..Len(w), w[i].kind = "event", Lagless(w, i - 1),
                    NEW r \in E, q < r, r < w[i].seq
             PROVE  r \in H \/ Brought(w, i - 1, r)
  BY DEF WireOK
<1>0. w[i] \in Msgs
  OBVIOUS
<1>1. w[i].seq \in Nat /\ r \in Nat
  BY <1>0 DEF Msgs
<1>2. r \in D
  BY <1>1
<1>3. p < r
  BY <1>1
<1> QED
  BY <1>2, <1>3 DEF WireOK

\* The client takes the first message and knows what it says.
LEMMA WireTail ==
  ASSUME NEW w \in Seq(Msgs), w # <<>>, NEW p \in Nat, NEW q \in Nat, p <= q,
         NEW D, D \subseteq Nat, NEW G, NEW H, G \subseteq H, WireOK(w, p, D, G),
         Head(w).kind # "lagged", \A r \in D : q < r /\ Brings(Head(w), r) => r \in H
  PROVE  WireOK(Tail(w), q, D, H)
<1> DEFINE v == Tail(w)
<1>1. /\ v \in Seq(Msgs) /\ Len(v) = Len(w) - 1 /\ Len(w) \in Nat /\ Len(w) > 0 /\ Head(w) = w[1]
      /\ \A i \in 1..Len(v) : v[i] = w[i + 1] /\ i + 1 \in 1..Len(w)
  OBVIOUS
<1> HIDE DEF v
<1> SUFFICES ASSUME NEW i \in 1..Len(v), v[i].kind = "event", Lagless(v, i - 1),
                    NEW r \in D, q < r, r < v[i].seq
             PROVE  r \in H \/ Brought(v, i - 1, r)
  BY DEF WireOK, v
<1>2. w[i + 1].kind = "event" /\ r < w[i + 1].seq /\ i + 1 \in 1..Len(w) /\ p < r
  <2>1. r \in Nat
    OBVIOUS
  <2>2. p < r
    BY <2>1
  <2> QED
    BY <1>1, <2>2
<1>3. Lagless(w, (i + 1) - 1)
  <2> SUFFICES ASSUME NEW j \in 1..((i + 1) - 1) PROVE w[j].kind # "lagged"
    BY DEF Lagless
  <2>1. CASE j = 1
    BY <1>1, <2>1
  <2>2. CASE j # 1
    <3>1. j - 1 \in 1..(i - 1) /\ j - 1 \in 1..Len(v)
      BY <1>1, <2>2
    <3>2. v[j - 1] = w[(j - 1) + 1] /\ (j - 1) + 1 = j
      BY <1>1, <3>1
    <3> QED
      BY <3>1, <3>2 DEF Lagless
  <2> QED
    BY <2>1, <2>2
<1>4. r \in G \/ Brought(w, (i + 1) - 1, r)
  BY <1>2, <1>3 DEF WireOK
<1>5. CASE Brought(w, (i + 1) - 1, r)
  <2>1. PICK j \in 1..((i + 1) - 1) : Brings(w[j], r)
    BY <1>5 DEF Brought
  <2>2. CASE j = 1
    BY <1>1, <2>1, <2>2
  <2>3. CASE j # 1
    <3>1. j - 1 \in 1..(i - 1) /\ j - 1 \in 1..Len(v)
      BY <1>1, <2>3
    <3>2. v[j - 1] = w[(j - 1) + 1] /\ (j - 1) + 1 = j
      BY <1>1, <3>1
    <3> QED
      BY <2>1, <3>1, <3>2 DEF Brought
  <2> QED
    BY <2>2, <2>3
<1> QED
  BY <1>4, <1>5

\* A prefix of the messages.
LEMMA WirePrefix ==
  ASSUME NEW w \in Seq(Msgs), NEW n \in 0..Len(w), NEW p, NEW D, NEW G, WireOK(w, p, D, G)
  PROVE  WireOK(SubSeq(w, 1, n), p, D, G)
<1> DEFINE v == SubSeq(w, 1, n)
<1>1. Len(v) = n /\ \A i \in 1..n : v[i] = w[i] /\ i \in 1..Len(w)
  OBVIOUS
<1> HIDE DEF v
<1> SUFFICES ASSUME NEW i \in 1..n, v[i].kind = "event", Lagless(v, i - 1),
                    NEW r \in D, p < r, r < v[i].seq
             PROVE  r \in G \/ Brought(v, i - 1, r)
  BY <1>1 DEF WireOK, v
<1>2. \A j \in 1..(i - 1) : v[j] = w[j]
  BY <1>1
<1>3. Lagless(w, i - 1) /\ (Brought(w, i - 1, r) => Brought(v, i - 1, r))
  BY <1>2 DEF Lagless, Brought
<1> QED
  BY <1>1, <1>3 DEF WireOK

\* One more message.
LEMMA WireAppend ==
  ASSUME NEW w \in Seq(Msgs), NEW m \in Msgs, NEW p, NEW D, NEW G, WireOK(w, p, D, G),
         m.kind = "event" /\ Lagless(w, Len(w)) =>
           \A r \in D : p < r /\ r < m.seq => r \in G \/ Brought(w, Len(w), r)
  PROVE  WireOK(Append(w, m), p, D, G)
<1> DEFINE v == Append(w, m)
           n == Len(w)
<1>1. n \in Nat /\ Len(v) = n + 1 /\ v[n + 1] = m /\ \A i \in 1..n : v[i] = w[i]
  OBVIOUS
<1> HIDE DEF v, n
<1> SUFFICES ASSUME NEW i \in 1..(n + 1), v[i].kind = "event", Lagless(v, i - 1),
                    NEW r \in D, p < r, r < v[i].seq
             PROVE  r \in G \/ Brought(v, i - 1, r)
  BY <1>1 DEF WireOK, v
<1>2. \A j \in 1..(i - 1) : v[j] = w[j]
  BY <1>1
<1>3. Lagless(w, i - 1) /\ (Brought(w, i - 1, r) => Brought(v, i - 1, r))
  BY <1>2 DEF Lagless, Brought
<1>4. CASE i \in 1..n
  BY <1>1, <1>3, <1>4 DEF WireOK, n
<1>5. CASE i = n + 1
  <2>1. i - 1 = n
    BY <1>1, <1>5
  <2> QED
    BY <1>1, <1>3, <1>5, <2>1 DEF n
<1> QED
  BY <1>1, <1>4, <1>5

\* Frames as fan-out makes them, and queues of them in the order of their seqs.
SeqFrames == [is_event : {TRUE}, size : Nat, seq : Nat, id : Nat]
Rising(s) == \A i, j \in 1..Len(s) : i < j => s[i].seq < s[j].seq
FrameSeqs(s) == {s[i].seq : i \in 1..Len(s)}
Among(s, u) == \A i \in 1..Len(s) : \E j \in 1..Len(u) : s[i] = u[j]

\* Evicting a frame leaves the order of the others.
LEMMA EvictRising ==
  ASSUME NEW q \in QueueType(SeqFrames), Rising(q.frames), EventsAt(q.frames) # {}
  PROVE  /\ Evict(q) \in QueueType(SeqFrames) /\ Evict(q).lag = q.lag + 1
         /\ Rising(Evict(q).frames) /\ Among(Evict(q).frames, q.frames)
<1> DEFINE s == q.frames
           k == evict_at(s)
           u == RemoveAt(s, k)
<1>1. FrameSet(SeqFrames) /\ s \in Seq(SeqFrames)
  BY DEF FrameSet, SeqFrames, QueueType
<1>2. k \in 1..Len(s)
  BY <1>1, EvictAt
<1>3. /\ Evict(q) \in QueueType(SeqFrames)
      /\ Evict(q) = [frames |-> u, delivered |-> q.delivered,
                     dropped |-> q.dropped + 1, lag |-> q.lag + 1]
  BY <1>1, EvictFacts
<1>4. /\ Len(u) = Len(s) - 1 /\ Len(s) \in Nat
      /\ \A i \in 1..(Len(s) - 1) : u[i] = IF i < k THEN s[i] ELSE s[i + 1]
  BY <1>1, <1>2, RemoveAtFacts
<1> HIDE DEF s, k, u
<1>6. Rising(u)
  <2> SUFFICES ASSUME NEW i \in 1..Len(u), NEW j \in 1..Len(u), i < j
               PROVE  u[i].seq < u[j].seq
    BY DEF Rising
  <2> DEFINE a == IF i < k THEN i ELSE i + 1
             b == IF j < k THEN j ELSE j + 1
  <2>1. u[i] = s[a] /\ u[j] = s[b]
    BY <1>4
  <2>2. a \in 1..Len(s) /\ b \in 1..Len(s) /\ a < b
    BY <1>2, <1>4
  <2> HIDE DEF a, b
  <2> QED
    BY <2>1, <2>2 DEF Rising, s
<1>7. Among(u, s)
  <2> SUFFICES ASSUME NEW i \in 1..Len(u) PROVE \E j \in 1..Len(s) : u[i] = s[j]
    BY DEF Among
  <2>1. (u[i] = s[i] \/ u[i] = s[i + 1]) /\ i \in 1..Len(s) /\ i + 1 \in 1..Len(s)
    BY <1>4
  <2> QED
    BY <2>1
<1>8. Evict(q).frames = u /\ Evict(q).lag = q.lag + 1
  BY <1>3
<1> QED
  BY <1>3, <1>6, <1>7, <1>8 DEF s

\* push_event keeps the order, and a push that loses nothing keeps everything.
LEMMA PushRising ==
  ASSUME NEW q \in QueueType(SeqFrames), Rising(q.frames), NEW f \in SeqFrames,
         \A i \in 1..Len(q.frames) : q.frames[i].seq < f.seq
  PROVE  LET p == push_event(q, f) IN
         /\ p \in QueueType(SeqFrames) /\ Rising(p.frames)
         /\ \A i \in 1..Len(p.frames) :
              p.frames[i] = f \/ \E j \in 1..Len(q.frames) : p.frames[i] = q.frames[j]
         /\ p.lag = 0 => q.lag = 0 /\ p.frames = Append(q.frames, f)
<1> DEFINE p == push_event(q, f)
<1>0. FrameSet(SeqFrames) /\ q.frames \in Seq(SeqFrames) /\ q.lag \in Nat
  BY DEF FrameSet, SeqFrames, QueueType
<1>1. p \in QueueType(SeqFrames)
  BY <1>0, PushEventType
<1>2. CASE oversized(f.size)
  <2>1. p = record_drop(q)
    BY <1>2 DEF push_event
  <2>2. p = [frames |-> q.frames, delivered |-> q.delivered,
             dropped |-> q.dropped + 1, lag |-> q.lag + 1]
    BY <2>1, DropFacts
  <2>3. p.frames = q.frames /\ p.lag = q.lag + 1
    BY <2>2
  <2> HIDE DEF p
  <2>4. p.lag # 0
    BY <1>0, <2>3
  <2> QED
    BY <1>1, <2>3, <2>4 DEF p
<1>3. CASE ~oversized(f.size)
  <2> DEFINE S == {r \in QueueType(SeqFrames) :
                     Rising(r.frames) /\ Among(r.frames, q.frames) /\ (r.lag = 0 => r = q)}
  <2>1. q \in S
    BY DEF Among
  <2>2. ASSUME NEW r \in S, over_budget(r.frames, f.size) PROVE Evict(r) \in S
    <3>1. r.frames \in Seq(SeqFrames) /\ r.lag \in Nat
      BY DEF QueueType
    <3>2. EventsAt(r.frames) # {}
      BY <1>0, <2>2, <3>1, RoomWhenEmpty
    <3>3. /\ Evict(r) \in QueueType(SeqFrames) /\ Evict(r).lag = r.lag + 1
          /\ Rising(Evict(r).frames) /\ Among(Evict(r).frames, r.frames)
      BY <3>2, EvictRising
    <3>4. Among(Evict(r).frames, q.frames)
      BY <3>3 DEF Among
    <3>5. Evict(r).lag # 0
      BY <3>1, <3>3
    <3> QED
      BY <3>3, <3>4, <3>5
  <2>3. PICK r \in S : p = Enqueue(r, f)
    <3> HIDE DEF S
    <3> QED
      BY <1>0, <1>3, <2>1, <2>2, PushEventRule
  <2>4. p.frames = Append(r.frames, f) /\ p.lag = r.lag
    BY <2>3 DEF Enqueue, QueueType
  <2> DEFINE u == r.frames
             v == Append(u, f)
  <2>5. /\ u \in Seq(SeqFrames) /\ Rising(u) /\ Among(u, q.frames)
        /\ (r.lag = 0 => r = q)
    BY DEF QueueType
  <2> HIDE DEF u, p
  <2>6. Len(v) = Len(u) + 1 /\ v[Len(u) + 1] = f /\ Len(u) \in Nat
        /\ \A i \in 1..Len(u) : v[i] = u[i]
    BY <2>5
  <2> HIDE DEF v
  <2>7. \A i \in 1..Len(u) : u[i].seq < f.seq
    BY <2>5 DEF Among
  <2>8. Rising(v)
    <3> SUFFICES ASSUME NEW i \in 1..Len(v), NEW j \in 1..Len(v), i < j
                 PROVE  v[i].seq < v[j].seq
      BY DEF Rising
    <3>1. i \in 1..Len(u) /\ (j \in 1..Len(u) \/ j = Len(u) + 1)
      BY <2>6
    <3> QED
      BY <2>5, <2>6, <2>7, <3>1 DEF Rising
  <2>9. \A i \in 1..Len(v) : v[i] = f \/ \E j \in 1..Len(q.frames) : v[i] = q.frames[j]
    <3> SUFFICES ASSUME NEW i \in 1..Len(v)
                 PROVE  v[i] = f \/ \E j \in 1..Len(q.frames) : v[i] = q.frames[j]
      OBVIOUS
    <3>1. i \in 1..Len(u) \/ i = Len(u) + 1
      BY <2>6
    <3> QED
      BY <2>5, <2>6, <3>1 DEF Among
  <2>10. p.frames = v
    BY <2>4 DEF u, v
  <2>11. p.lag = 0 => q.lag = 0 /\ p.frames = Append(q.frames, f)
    BY <2>4, <2>5 DEF u
  <2> QED
    BY <1>1, <2>8, <2>9, <2>10, <2>11 DEF p
<1> QED
  BY <1>2, <1>3

\* The i-th frame fan-out t makes.
FrameOf(t, i) == QueueFrame(job[t].base + i, job[t].batch[i].id, SizeOf[job[t].batch[i].ev])

\* One turn of the loop, for an append that was persisted.
LEMMA PushOneRising ==
  ASSUME NEW t \in Tasks, pc[t] = "ok", NEW i \in Nat, NEW q \in QueueType(SeqFrames),
         Rising(q.frames), job[t].base \in Nat, i > 0, FrameOf(t, i) \in SeqFrames,
         \A j \in 1..Len(q.frames) : q.frames[j].seq <= job[t].base + (i - 1)
  PROVE  LET p == PushOne(t, i, q)
             mine == job[t].batch[i].ev \in Matching
         IN /\ p \in QueueType(SeqFrames) /\ Rising(p.frames)
            /\ \A j \in 1..Len(p.frames) : p.frames[j].seq <= job[t].base + i
            /\ \A W : /\ \A j \in 1..Len(q.frames) : q.frames[j].id \in W
                      /\ mine => job[t].batch[i].id \in W
                      => \A j \in 1..Len(p.frames) : p.frames[j].id \in W
            /\ p.lag = 0 => /\ q.lag = 0 /\ FrameSeqs(q.frames) \subseteq FrameSeqs(p.frames)
                            /\ mine => job[t].base + i \in FrameSeqs(p.frames)
<1> DEFINE p == PushOne(t, i, q)
           f == FrameOf(t, i)
           b == job[t].base
           n == job[t].batch[i].id
<1>1. /\ f.seq = b + i /\ f.id = n /\ f \in SeqFrames
  BY DEF FrameOf, QueueFrame
<1>2. q.frames \in Seq(SeqFrames) /\ \A j \in 1..Len(q.frames) : q.frames[j].seq \in Nat
  <2>1. q.frames \in Seq(SeqFrames)
    BY DEF QueueType
  <2>2. \A j \in 1..Len(q.frames) : q.frames[j] \in SeqFrames
    BY <2>1
  <2> QED
    BY <2>1, <2>2 DEF SeqFrames
<1>3. CASE job[t].batch[i].ev \notin Matching
  <2>1. p = q
    BY <1>3 DEF PushOne
  <2>2. \A j \in 1..Len(q.frames) : q.frames[j].seq <= b + i
    <3> SUFFICES ASSUME NEW j \in 1..Len(q.frames) PROVE q.frames[j].seq <= b + i
      OBVIOUS
    <3>1. q.frames[j].seq \in Nat /\ q.frames[j].seq <= b + (i - 1) /\ b \in Nat
      BY <1>2
    <3> DEFINE s == q.frames[j].seq
    <3> HIDE DEF s, b
    <3> QED
      BY <3>1 DEF s
  <2> HIDE DEF p
  <2> QED
    BY <1>3, <2>1, <2>2 DEF p
<1>4. CASE job[t].batch[i].ev \in Matching
  <2>1. p = push_event(q, f)
    BY <1>4 DEF PushOne, StampedSeq, FrameOf
  <2> HIDE DEF f, p
  <2>2. \A j \in 1..Len(q.frames) : q.frames[j].seq < f.seq
    BY <1>1, <1>2
  <2>3. /\ p \in QueueType(SeqFrames) /\ Rising(p.frames)
        /\ \A j \in 1..Len(p.frames) :
             p.frames[j] = f \/ \E k \in 1..Len(q.frames) : p.frames[j] = q.frames[k]
        /\ p.lag = 0 => q.lag = 0 /\ p.frames = Append(q.frames, f)
    BY <1>1, <2>1, <2>2, PushRising
  <2>4. \A j \in 1..Len(p.frames) : p.frames[j].seq <= b + i
    <3> SUFFICES ASSUME NEW j \in 1..Len(p.frames) PROVE p.frames[j].seq <= b + i
      OBVIOUS
    <3>1. p.frames[j] = f \/ \E k \in 1..Len(q.frames) : p.frames[j] = q.frames[k]
      BY <2>3
    <3>2. \A k \in 1..Len(q.frames) : q.frames[k].seq <= b + i
      BY <1>2
    <3>3. f.seq <= b + i
      BY <1>1
    <3> QED
      BY <3>1, <3>2, <3>3
  <2>5. ASSUME NEW W, \A j \in 1..Len(q.frames) : q.frames[j].id \in W, n \in W
        PROVE  \A j \in 1..Len(p.frames) : p.frames[j].id \in W
    BY <1>1, <2>3, <2>5
  <2>6. ASSUME p.lag = 0
        PROVE  /\ q.lag = 0 /\ FrameSeqs(q.frames) \subseteq FrameSeqs(p.frames)
               /\ b + i \in FrameSeqs(p.frames)
    <3>1. q.lag = 0 /\ p.frames = Append(q.frames, f)
      BY <2>3, <2>6
    <3> DEFINE u == q.frames
               v == Append(u, f)
    <3>2. /\ Len(v) = Len(u) + 1 /\ Len(u) \in Nat /\ v[Len(u) + 1] = f
          /\ \A j \in 1..Len(u) : v[j] = u[j]
      BY <1>2
    <3> HIDE DEF u, v
    <3>3. \A j \in 1..Len(u) : j \in 1..Len(v) /\ u[j].seq = v[j].seq
      BY <3>2
    <3>4. FrameSeqs(u) \subseteq FrameSeqs(v)
      BY <3>3 DEF FrameSeqs
    <3>5. Len(u) + 1 \in 1..Len(v) /\ v[Len(u) + 1].seq = b + i
      BY <1>1, <3>2
    <3>6. b + i \in FrameSeqs(v)
      BY <3>5 DEF FrameSeqs
    <3> QED
      BY <3>1, <3>4, <3>6 DEF u, v
  <2> QED
    BY <1>4, <2>3, <2>4, <2>5, <2>6 DEF p
<1> QED
  BY <1>3, <1>4

\* The whole loop: the queue stays in order, holds only what the subscriber
\* wants, and holds all of the batch unless something was dropped.
LEMMA PushAllRising ==
  ASSUME NEW t \in Tasks, pc[t] = "ok", NEW n \in Nat, n = Len(job[t].batch),
         DOMAIN job[t].batch = 1..n, job[t].base \in Nat,
         \A i \in 1..n : FrameOf(t, i) \in SeqFrames,
         queue \in QueueType(SeqFrames), Rising(queue.frames),
         \A j \in 1..Len(queue.frames) : queue.frames[j].seq <= job[t].base,
         NEW W, \A j \in 1..Len(queue.frames) : queue.frames[j].id \in W,
         \A i \in 1..n : job[t].batch[i].ev \in Matching => job[t].batch[i].id \in W
  PROVE  LET p == PushAll(t)
         IN /\ p \in QueueType(SeqFrames) /\ Rising(p.frames)
            /\ \A j \in 1..Len(p.frames) : p.frames[j].id \in W
            /\ p.lag = 0 =>
                 /\ queue.lag = 0 /\ FrameSeqs(queue.frames) \subseteq FrameSeqs(p.frames)
                 /\ \A i \in 1..n : job[t].batch[i].ev \in Matching =>
                                      job[t].base + i \in FrameSeqs(p.frames)
<1>1. FrameSet(SeqFrames) /\ Pushes(t) \subseteq SeqFrames
  BY DEF FrameSet, SeqFrames, Pushes, FrameOf, StampedSeq
<1>2. PICK g : /\ \A k \in 0..n : g[k] \in QueueType(SeqFrames)
               /\ g[0] = queue /\ g[n] = PushAll(t)
               /\ \A k \in 1..n : g[k] = PushOne(t, k, g[k - 1])
  BY <1>1, PushAllTrace
<1> DEFINE b == job[t].base
           Mine(i) == job[t].batch[i].ev \in Matching
           OK(k) == /\ Rising(g[k].frames)
                    /\ \A j \in 1..Len(g[k].frames) : g[k].frames[j].seq <= b + k
                    /\ \A j \in 1..Len(g[k].frames) : g[k].frames[j].id \in W
                    /\ g[k].lag = 0 =>
                         /\ queue.lag = 0 /\ FrameSeqs(queue.frames) \subseteq FrameSeqs(g[k].frames)
                         /\ \A i \in 1..k : Mine(i) => b + i \in FrameSeqs(g[k].frames)
           P == {k \in 0..n : OK(k)}
<1>3. 0 \in P
  BY <1>2
<1>4. ASSUME NEW k \in 0..n, k \in P, k < n PROVE k + 1 \in P
  <2> DEFINE q == g[k]
             p == g[k + 1]
  <2>1. k + 1 \in 1..n /\ (k + 1) - 1 = k /\ k + 1 \in Nat /\ k + 1 > 0 /\ k + 1 \in 0..n
    BY <1>4
  <2>2. p = PushOne(t, k + 1, q) /\ q \in QueueType(SeqFrames) /\ p \in QueueType(SeqFrames)
    BY <1>2, <2>1
  <2>3. OK(k)
    BY <1>4
  <2> HIDE DEF q, p
  <2>4. /\ Rising(q.frames) /\ \A j \in 1..Len(q.frames) : q.frames[j].seq <= b + k
        /\ \A j \in 1..Len(q.frames) : q.frames[j].id \in W
        /\ q.lag = 0 =>
             /\ queue.lag = 0 /\ FrameSeqs(queue.frames) \subseteq FrameSeqs(q.frames)
             /\ \A i \in 1..k : Mine(i) => b + i \in FrameSeqs(q.frames)
    BY <2>3 DEF q
  <2>5. \A j \in 1..Len(q.frames) : q.frames[j].seq <= b + ((k + 1) - 1)
    BY <2>1, <2>4
  <2>6. FrameOf(t, k + 1) \in SeqFrames
    BY <2>1
  <2>7. /\ Rising(p.frames) /\ \A j \in 1..Len(p.frames) : p.frames[j].seq <= b + (k + 1)
        /\ \A V : /\ \A j \in 1..Len(q.frames) : q.frames[j].id \in V
                  /\ Mine(k + 1) => job[t].batch[k + 1].id \in V
                  => \A j \in 1..Len(p.frames) : p.frames[j].id \in V
        /\ p.lag = 0 => /\ q.lag = 0 /\ FrameSeqs(q.frames) \subseteq FrameSeqs(p.frames)
                        /\ Mine(k + 1) => b + (k + 1) \in FrameSeqs(p.frames)
    <3>1. pc[t] = "ok" /\ b \in Nat
      BY <1>1
    <3> DEFINE i == k + 1
    <3>2. i \in Nat /\ i > 0 /\ p = PushOne(t, i, q)
          /\ \A j \in 1..Len(q.frames) : q.frames[j].seq <= b + (i - 1)
      BY <2>1, <2>2, <2>5
    <3>3. FrameOf(t, i) \in SeqFrames
      BY <2>6
    <3> HIDE DEF i
    <3>4. LET r == PushOne(t, i, q)
          IN /\ Rising(r.frames) /\ \A j \in 1..Len(r.frames) : r.frames[j].seq <= b + i
             /\ \A V : /\ \A j \in 1..Len(q.frames) : q.frames[j].id \in V
                       /\ Mine(i) => job[t].batch[i].id \in V
                       => \A j \in 1..Len(r.frames) : r.frames[j].id \in V
             /\ r.lag = 0 => /\ q.lag = 0 /\ FrameSeqs(q.frames) \subseteq FrameSeqs(r.frames)
                             /\ Mine(i) => b + i \in FrameSeqs(r.frames)
      BY ONLY t \in Tasks, <2>2, <2>4, <3>1, <3>2, <3>3, PushOneRising
    <3> HIDE DEF Mine
    <3> QED
      BY <3>2, <3>4, Zenon DEF i
  <2>8. \A j \in 1..Len(p.frames) : p.frames[j].id \in W
    BY <2>1, <2>4, <2>7
  <2>9. ASSUME p.lag = 0
        PROVE  /\ queue.lag = 0 /\ FrameSeqs(queue.frames) \subseteq FrameSeqs(p.frames)
               /\ \A i \in 1..(k + 1) : Mine(i) => b + i \in FrameSeqs(p.frames)
    <3>1. \A i \in 1..(k + 1) : i \in 1..k \/ i = k + 1
      BY <2>1
    <3> HIDE DEF Mine
    <3> QED
      BY <2>4, <2>7, <2>9, <3>1
  <2>10. OK(k + 1)
    BY <2>7, <2>8, <2>9 DEF p
  <2> QED
    BY <2>1, <2>10
<1>5. 0..n \subseteq P
  <2> HIDE DEF P
  <2> QED
    BY <1>3, <1>4, UpTo
<1>6. OK(n)
  BY <1>5
<1> QED
  BY <1>2, <1>6

-----------------------------------------------------------------------------
(* Nothing is passed over while the system is calm *)

\* Where the client stands: past the event in its handler's hands.
Position == IF client.busy = NoEvent THEN client.cursor ELSE client.busy.seq

\* The conditions on which the promise rests: no event is committed while an
\* earlier one waits to be pushed, no append fails, no request is dropped
\* halfway, the newest row outlives every prune (a log pruned to empty has
\* forgotten its head and its floor, delivery_log.rs:94-110), and no prune
\* runs while a replay reads.
Unpushed(t) == pc[t] \in {"committed", "publishing", "ok"}
Calm ==
  /\ \A t, u \in Tasks : Unpushed(t) /\ Unpushed(u) => t = u
  /\ \A t \in Tasks : pc[t] # "err"
  /\ cancelled = {}
  /\ issued # {} => DOMAIN rows # {}
  /\ Reading => pc[Pruner] # "committed"

\* Committed, and its fan-out has yet to push it.
Owed(r) ==
  \E t \in Tasks : /\ Unpushed(t)
                   /\ job[t].base < r /\ r <= job[t].base + Len(job[t].batch)

\* A drop was counted and the client has not met its `lagged` yet.
Lagging == queue.lag # 0 \/ ~Lagless(wire, Len(wire))

\* On its way to the client, or announced.
OnWay(r) ==
  \/ r \in gapped \/ Owed(r)
  \/ Brought(wire, Len(wire), r)
  \/ r \in FrameSeqs(queue.frames)
  \/ conn.phase = "head" /\ r <= conn.head

\* The log knows all it has issued, and nothing was stamped without it.
CleanInv == unlogged = {} /\ lostHead = FALSE

\* The events the subscriber wants, in the table, in the calls, in the queue
\* and on the link.
WantInv ==
  /\ \A s \in DOMAIN rows : rows[s].ev \in Matching <=> rows[s].id \in wanted
  /\ \A t \in Tasks : \A i \in DOMAIN job[t].batch :
       job[t].batch[i].ev \in Matching <=> job[t].batch[i].id \in wanted
SentInv ==
  /\ \A j \in 1..Len(queue.frames) : queue.frames[j].id \in wanted
  /\ \A j \in 1..Len(wire) : wire[j].kind = "event" => wire[j].id \in wanted

\* The queue is in order, and what a fan-out has yet to push comes after it.
QueueInv ==
  /\ Rising(queue.frames)
  /\ \A t \in Tasks : Unpushed(t) =>
       \A j \in 1..Len(queue.frames) : queue.frames[j].seq <= job[t].base

\* The cursor: saved as it is, past every id remembered, and before the event
\* in the handler's hands with nothing unannounced in between.
PlaceInv ==
  /\ saved = client.cursor
  /\ \A n \in ToSet(client.seen) : \E x \in handled : x[2] = n /\ x[1] <= client.cursor
  /\ client.busy # NoEvent =>
       /\ client.busy.seq > client.cursor /\ client.busy.seq \in DueSeqs
       /\ \A r \in DueSeqs : client.cursor < r /\ r < client.busy.seq => r \in gapped

\* What the client receives next passes over nothing.
WireInv == WireOK(wire, Position, DueSeqs, gapped)
WayInv ==
  conn.phase \in {"head", "live"} /\ ~Lagging =>
    \A r \in DueSeqs : Position < r => OnWay(r)

\* A replay starts from the client's cursor, and what it may miss is below the
\* floor it has read.
ReadInv ==
  /\ conn.phase \in {"opened", "subscribed", "floor", "head"} =>
       wire = <<>> /\ client.busy = NoEvent /\ conn.after = client.cursor
  /\ ~up => conn.phase = "none"
  /\ Reading => /\ conn.gap <=> IsGap(conn.after, conn.floor)
                /\ \A x \in issued : x[1] < conn.floor \/ x[1] \in DOMAIN rows

\* The first append into a log: there was nothing before it.
FirstInv ==
  \A t \in Tasks : pc[t] \in {"committed", "publishing"} /\ floor = 0 =>
    \A x \in issued : x[1] > job[t].base

OrderInv ==
  /\ CleanInv /\ WantInv /\ SentInv /\ QueueInv /\ PlaceInv
  /\ WireInv /\ WayInv /\ ReadInv /\ FirstInv

\* The invariants already proved, and the condition.
World == Inv /\ LP!Inv /\ Calm

\* What the invariants say of issued events: seqs and ids go together.
LEMMA IssuedFacts ==
  ASSUME World, CleanInv
  PROVE  /\ Known = issued
         /\ \A x \in issued : /\ x = <<x[1], x[2]>>
                              /\ x[1] \in Nat \ {0} /\ x[2] \in Nat \ {0} /\ x[2] <= begun
         /\ \A x, y \in issued : x[1] = y[1] <=> x[2] = y[2]
         /\ DueSeqs \subseteq Nat \ {0}
<1>1. Known = issued
  BY DEF Known, CleanInv
<1>2. issued \subseteq LP!Seqs \X Nat /\ issued \subseteq Nat \X (1..begun) /\ begun \in Nat
  BY DEF World, LP!Inv, LP!TypeOK, Inv, LogInv
<1>3. ASSUME NEW x \in issued
      PROVE  x = <<x[1], x[2]>> /\ x[1] \in Nat \ {0} /\ x[2] \in Nat \ {0} /\ x[2] <= begun
  <2>1. x \in LP!Seqs \X Nat /\ x \in Nat \X (1..begun)
    BY <1>2
  <2> QED
    BY <1>2, <2>1 DEF LP!Seqs
<1>4. \A x, y \in issued : x[1] = y[1] => x = y
  BY DEF World, LP!Inv, LP!IssuedInv, LP!SeqUnique, CleanInv
<1>5. \A x, y \in issued : x[2] = y[2] => x[1] = y[1]
  BY <1>1, IdFacts DEF World, Inv
<1>6. \A x, y \in issued : x[1] = y[1] <=> x[2] = y[2]
  BY <1>4, <1>5
<1>7. DueSeqs \subseteq Nat \ {0}
  BY <1>3 DEF DueSeqs, Due
<1> QED
  BY <1>1, <1>3, <1>6, <1>7

\* A wanted event that was issued is due.
LEMMA DueFacts ==
  ASSUME NEW s, NEW n
  PROVE  <<s, n>> \in issued /\ n \in wanted => s \in DueSeqs
<1> SUFFICES ASSUME <<s, n>> \in issued, n \in wanted PROVE s \in DueSeqs
  OBVIOUS
<1> DEFINE x == <<s, n>>
<1>1. x \in Due /\ x[1] = s
  BY DEF Due
<1> HIDE DEF x
<1> QED
  BY <1>1 DEF DueSeqs

\* What travels is due.
LEMMA SentFacts ==
  ASSUME World, CleanInv, SentInv
  PROVE  /\ wire \in Seq(Msgs) /\ Len(wire) \in Nat
         /\ queue \in QueueType(SeqFrames) /\ queue.frames \in Seq(SeqFrames)
         /\ \A j \in 1..Len(wire) : /\ wire[j] \in Msgs
                                    /\ wire[j].kind = "event" =>
                                         /\ <<wire[j].seq, wire[j].id>> \in issued
                                         /\ wire[j].seq \in DueSeqs
         /\ \A j \in 1..Len(queue.frames) : /\ queue.frames[j] \in SeqFrames
                                            /\ <<queue.frames[j].seq, queue.frames[j].id>> \in issued
                                            /\ queue.frames[j].seq \in DueSeqs
<1>1. Known = issued
  BY IssuedFacts
<1>2. wire \in Seq(GoodMsgs) /\ queue \in QueueType(GoodFrames)
  BY DEF World, Inv, LinkInv
<1>3. GoodMsgs \subseteq Msgs /\ GoodFrames \subseteq SeqFrames
  BY DEF GoodMsgs, GoodFrames, SeqFrames
<1>4. wire \in Seq(Msgs) /\ queue \in QueueType(SeqFrames)
  BY <1>2, <1>3, QueueTypeGrows, SeqMonotonic
<1>5. queue.frames \in Seq(GoodFrames)
  BY <1>2 DEF QueueType
<1>6. ASSUME NEW j \in 1..Len(wire)
      PROVE  /\ wire[j] \in Msgs
             /\ wire[j].kind = "event" =>
                  <<wire[j].seq, wire[j].id>> \in issued /\ wire[j].seq \in DueSeqs
  <2>1. wire[j] \in GoodMsgs
    BY <1>2
  <2>2. wire[j].kind = "event" => <<wire[j].seq, wire[j].id>> \in issued /\ wire[j].id \in wanted
    BY <1>1, <2>1 DEF GoodMsgs, SentInv
  <2> QED
    BY <1>3, <2>1, <2>2, DueFacts
<1>7. ASSUME NEW j \in 1..Len(queue.frames)
      PROVE  /\ queue.frames[j] \in SeqFrames
             /\ <<queue.frames[j].seq, queue.frames[j].id>> \in issued
             /\ queue.frames[j].seq \in DueSeqs
  <2>1. queue.frames[j] \in GoodFrames
    BY <1>5
  <2>2. <<queue.frames[j].seq, queue.frames[j].id>> \in issued /\ queue.frames[j].id \in wanted
    BY <1>1, <2>1 DEF GoodFrames, SentInv
  <2> QED
    BY <1>3, <2>1, <2>2, DueFacts
<1>8. queue.frames \in Seq(SeqFrames) /\ Len(wire) \in Nat
  BY <1>3, <1>4, <1>5, SeqMonotonic
<1> QED
  BY <1>4, <1>6, <1>7, <1>8

\* The client's numbers.
LEMMA ClientFacts ==
  ASSUME World
  PROVE  /\ client \in Clients /\ client.cursor \in Nat /\ client.busy \in Busies
         /\ client.busy.seq \in Nat /\ client.busy.id \in Nat /\ client.seen \in Seq(Nat)
         /\ Position \in Nat /\ gapped \subseteq Nat /\ conn \in Conns
BY DEF World, Inv, ClientInv, LinkInv, Clients, Busies, Position

-----------------------------------------------------------------------------
(* The log stands still: steps of the connection and of the client *)

Still == UNCHANGED <<logVars, srvVars, wanted, unlogged>>

LEMMA StillFacts ==
  ASSUME OrderInv, Still
  PROVE  /\ DueSeqs' = DueSeqs /\ CleanInv' /\ WantInv' /\ FirstInv'
         /\ \A r : Owed(r)' <=> Owed(r)
         /\ \A t \in Tasks : Unpushed(t)' <=> Unpushed(t)
         /\ rows' = rows /\ head' = head /\ floor' = floor /\ pc' = pc /\ job' = job
         /\ up' = up /\ issued' = issued /\ wanted' = wanted
<1>1. /\ rows' = rows /\ head' = head /\ floor' = floor /\ pc' = pc /\ job' = job
      /\ up' = up /\ issued' = issued /\ wanted' = wanted
      /\ lostHead' = lostHead /\ unlogged' = unlogged
  BY DEF Still, logVars
<1>2. DueSeqs' = DueSeqs
  BY <1>1 DEF DueSeqs, Due
<1>3. \A t \in Tasks : Unpushed(t)' <=> Unpushed(t)
  BY <1>1 DEF Unpushed
<1>4. \A r : Owed(r)' <=> Owed(r)
  BY <1>1, <1>3 DEF Owed
<1>5. CleanInv' /\ WantInv' /\ FirstInv'
  BY <1>1 DEF OrderInv, CleanInv, WantInv, FirstInv
<1> QED
  BY <1>1, <1>2, <1>3, <1>4, <1>5

\* The client stays where it is.
LEMMA PlaceStays ==
  ASSUME PlaceInv, DueSeqs' = DueSeqs, UNCHANGED <<saved, handled, gapped>>,
         client'.cursor = client.cursor, client'.seen = client.seen, client'.busy = client.busy
  PROVE  PlaceInv' /\ Position' = Position
BY DEF PlaceInv, Position, NoEvent

\* The connection is over, or has just begun: nothing is queued.
LEMMA EmptyQueue ==
  ASSUME queue' = NewQueue
  PROVE  QueueInv' /\ queue'.frames = <<>> /\ queue'.lag = 0
<1>1. queue'.frames = <<>> /\ queue'.lag = 0
  BY DEF NewQueue
<1> QED
  BY <1>1 DEF QueueInv, Rising

LEMMA ConnectOrder ==
  ASSUME World, World', OrderInv, Connect
  PROVE  OrderInv'
<1>1. /\ up /\ client.busy = NoEvent
      /\ client' = [client EXCEPT !.linked = TRUE]
      /\ conn' = [NoConn EXCEPT !.phase = "opened", !.after = client.cursor]
      /\ queue' = NewQueue /\ wire' = <<>>
      /\ UNCHANGED <<saved, handled, gapped>>
  BY DEF Connect, histVars
<1>2. Still
  BY DEF Connect, Still, histVars
<1>3. client \in Clients
  BY ClientFacts
<1>4. client'.cursor = client.cursor /\ client'.seen = client.seen /\ client'.busy = client.busy
  BY <1>1, <1>3 DEF Clients
<1>5. conn'.phase = "opened" /\ conn'.after = client.cursor
  BY <1>1 DEF NoConn
<1>6. DueSeqs' = DueSeqs /\ CleanInv' /\ WantInv' /\ FirstInv' /\ up' = up
  BY <1>2, StillFacts
<1>7. PlaceInv' /\ QueueInv' /\ queue'.frames = <<>>
  BY <1>1, <1>4, <1>6, PlaceStays, EmptyQueue DEF OrderInv
<1>8. SentInv' /\ WireInv'
  BY <1>1, <1>7 DEF SentInv, WireInv, WireOK
<1>9. WayInv' /\ ReadInv'
  BY <1>1, <1>4, <1>5, <1>6 DEF WayInv, ReadInv, Reading
<1> QED
  BY <1>6, <1>7, <1>8, <1>9 DEF OrderInv

LEMMA SubscribeOrder ==
  ASSUME World, World', OrderInv, Subscribe
  PROVE  OrderInv'
<1>1. /\ conn.phase = "opened" /\ conn' = [conn EXCEPT !.phase = "subscribed"]
      /\ UNCHANGED <<queue, wire, client, saved, handled, gapped>>
  BY DEF Subscribe, histVars, clientVars
<1>2. Still
  BY DEF Subscribe, Still, histVars
<1>3. conn \in Conns
  BY ClientFacts
<1>4. conn'.phase = "subscribed" /\ conn'.after = conn.after
  BY <1>1, <1>3 DEF Conns
<1>5. /\ DueSeqs' = DueSeqs /\ CleanInv' /\ WantInv' /\ FirstInv' /\ up' = up
      /\ \A t \in Tasks : Unpushed(t)' <=> Unpushed(t)
      /\ wanted' = wanted /\ job' = job
  BY <1>2, StillFacts
<1>6. PlaceInv' /\ Position' = Position
  BY <1>1, <1>5, PlaceStays DEF OrderInv
<1>7. SentInv' /\ WireInv' /\ QueueInv'
  BY <1>1, <1>5, <1>6 DEF OrderInv, SentInv, WireInv, QueueInv
<1>8. WayInv' /\ ReadInv'
  BY <1>1, <1>4, <1>5 DEF OrderInv, WayInv, ReadInv, Reading
<1> QED
  BY <1>5, <1>6, <1>7, <1>8 DEF OrderInv

\* Every due event is at or below head, or its fan-out has just committed it.
LEMMA HeadFacts ==
  ASSUME World, CleanInv, up
  PROVE  /\ head \in Nat /\ \A r \in DueSeqs : r <= head \/ Owed(r)
         /\ \A x \in issued : x[1] <= head \/ \E t \in Tasks : pc[t] = "committed"
                                                               /\ x[1] <= job[t].base + Len(job[t].batch)
<1>1. /\ head \in Nat
      /\ \A x \in issued : x[1] <= head \/ \E t \in Tasks : pc[t] = "committed"
                                                            /\ x[1] <= job[t].base + Len(job[t].batch)
  BY DEF World, LP!Inv, LP!TypeOK, LP!IssuedInv, CleanInv, LP!HeadAfter
<1>2. ASSUME NEW r \in DueSeqs PROVE r <= head \/ Owed(r)
  <2>1. r \in Nat
    BY IssuedFacts
  <2>2. PICK x \in issued : x[1] = r
    BY DEF DueSeqs, Due
  <2>3. SUFFICES ASSUME ~(r <= head) PROVE Owed(r)
    OBVIOUS
  <2>4. PICK t \in Tasks : pc[t] = "committed" /\ r <= job[t].base + Len(job[t].batch)
    BY <1>1, <2>2, <2>3
  <2>5. job[t].base = head
    BY <2>4 DEF World, LP!Inv, LP!CallInv
  <2>6. job[t].base < r
    BY <1>1, <2>1, <2>3, <2>5
  <2> QED
    BY <2>4, <2>6 DEF Owed, Unpushed
<1> QED
  BY <1>1, <1>2

\* Unless the pruner is between its commit and its store, what is issued is
\* below the floor or in the table.
LEMMA FloorFacts ==
  ASSUME World, OrderInv, up, pc[Pruner] # "committed"
  PROVE  \A x \in issued : x[1] < floor \/ x[1] \in DOMAIN rows
<1> SUFFICES ASSUME NEW x \in issued PROVE x[1] < floor \/ x[1] \in DOMAIN rows
  OBVIOUS
<1>1. CleanInv /\ LP!Inv /\ Calm
  BY DEF OrderInv, World
<1>2. /\ x[1] \in Nat \ {0} /\ head \in Nat /\ floor \in Nat
      /\ x[1] <= head \/ \E t \in Tasks : pc[t] = "committed"
                                          /\ x[1] <= job[t].base + Len(job[t].batch)
  BY <1>1, IssuedFacts, HeadFacts DEF LP!Inv, LP!TypeOK
<1>3. DOMAIN rows # {}
  BY <1>1 DEF Calm
<1>4. /\ \A p \in LP!Procs : pc[p] \in {"writing", "committed", "publishing"} <=> writer = p
      /\ pc[Pruner] \in {"idle", "waiting", "writing", "committed"}
      /\ writer \in LP!Procs \cup {Nobody}
  BY <1>1 DEF LP!Inv, LP!MutexInv, LP!Holding, LP!TypeOK
<1>5. CASE writer = Nobody \/ pc[writer] = "writing"
  <2>1. DOMAIN rows = LP!Interval(floor, head)
    BY <1>1, <1>5 DEF LP!Inv, LP!TableInv
  <2>2. DOMAIN rows = floor..head
    BY <1>3, <2>1 DEF LP!Interval
  <2>3. \A t \in Tasks : pc[t] # "committed"
    <3> SUFFICES ASSUME NEW t \in Tasks, pc[t] = "committed" PROVE FALSE
      OBVIOUS
    <3>1. writer = t /\ t \in LP!Procs
      BY <1>4 DEF LP!Procs
    <3> QED
      BY <1>4, <1>5, <3>1, LogAssumed DEF LP!LogAssumption
  <2> QED
    BY <1>2, <2>2, <2>3
<1>6. CASE ~(writer = Nobody \/ pc[writer] = "writing")
  <2>1. PICK t \in Tasks : t = writer
    BY <1>4, <1>6 DEF LP!Procs
  <2>2. pc[t] \in {"committed", "publishing"} /\ \A u \in Tasks : pc[u] = "committed" => u = t
    BY <1>4, <1>6, <2>1 DEF LP!Procs
  <2>3. job[t].base \in Nat /\ Len(job[t].batch) \in Nat
    <3>1. job[t] \in LP!Job
      BY <1>1 DEF LP!Inv, LP!TypeOK, LP!Procs
    <3> QED
      BY <3>1 DEF LP!Job
  <2> DEFINE b == job[t].base
             h == job[t].base + Len(job[t].batch)
             low == IF floor = 0 THEN b + 1 ELSE floor
  <2>4. floor = 0 => x[1] > b
    BY <2>2 DEF OrderInv, FirstInv
  <2>5. CASE pc[t] = "committed"
    <3>1. DOMAIN rows = low..h /\ b = head
      BY <1>1, <2>5 DEF LP!Inv, LP!TableInv, LP!CallInv, LP!Low, LP!HeadAfter
    <3>2. x[1] <= h
      BY <1>2, <2>2, <2>3, <3>1
    <3> QED
      BY <1>2, <2>3, <2>4, <3>1, <3>2
  <2>6. CASE pc[t] = "publishing"
    <3>1. DOMAIN rows = low..head
      BY <1>1, <2>6 DEF LP!Inv, LP!TableInv, LP!Low
    <3>2. x[1] <= head
      BY <1>2, <2>2, <2>6
    <3> QED
      BY <1>2, <2>3, <2>4, <3>1, <3>2
  <2> QED
    BY <2>2, <2>5, <2>6
<1> QED
  BY <1>5, <1>6

LEMMA ReadFloorOrder ==
  ASSUME World, World', OrderInv, ReadFloor
  PROVE  OrderInv'
<1>1. /\ conn.phase = "subscribed"
      /\ conn' = [conn EXCEPT !.phase = "floor", !.floor = floor, !.gap = IsGap(conn.after, floor)]
      /\ UNCHANGED <<queue, wire, client, saved, handled, gapped>>
  BY DEF ReadFloor, histVars, clientVars
<1>2. Still
  BY DEF ReadFloor, Still, histVars
<1>3. conn \in Conns
  BY ClientFacts
<1>4. /\ conn'.phase = "floor" /\ conn'.after = conn.after /\ conn'.floor = floor
      /\ conn'.gap = IsGap(conn.after, floor)
  BY <1>1, <1>3 DEF Conns
<1>5. /\ DueSeqs' = DueSeqs /\ CleanInv' /\ WantInv' /\ FirstInv' /\ up' = up
      /\ \A t \in Tasks : Unpushed(t)' <=> Unpushed(t)
      /\ wanted' = wanted /\ job' = job /\ rows' = rows /\ issued' = issued /\ pc' = pc
  BY <1>2, StillFacts
<1>6. PlaceInv' /\ Position' = Position
  BY <1>1, <1>5, PlaceStays DEF OrderInv
<1>7. SentInv' /\ WireInv' /\ QueueInv'
  BY <1>1, <1>5, <1>6 DEF OrderInv, SentInv, WireInv, QueueInv
<1>8. up /\ pc[Pruner] # "committed"
  BY <1>1, <1>4, <1>5 DEF OrderInv, ReadInv, World, Calm, Reading
<1>9. \A x \in issued : x[1] < floor \/ x[1] \in DOMAIN rows
  BY <1>8, FloorFacts
<1>10. WayInv'
  BY <1>4 DEF WayInv
<1>11. ReadInv'
  BY <1>1, <1>4, <1>5, <1>8, <1>9 DEF OrderInv, ReadInv, Reading, IsGap
<1> QED
  BY <1>5, <1>6, <1>7, <1>10, <1>11 DEF OrderInv

LEMMA ReadHeadOrder ==
  ASSUME World, World', OrderInv, ReadHead
  PROVE  OrderInv'
<1>1. /\ conn.phase = "floor" /\ conn' = [conn EXCEPT !.phase = "head", !.head = head]
      /\ UNCHANGED <<queue, wire, client, saved, handled, gapped>>
  BY DEF ReadHead, histVars, clientVars
<1>2. Still
  BY DEF ReadHead, Still, histVars
<1>3. conn \in Conns
  BY ClientFacts
<1>4. /\ conn'.phase = "head" /\ conn'.after = conn.after /\ conn'.floor = conn.floor
      /\ conn'.gap = conn.gap /\ conn'.head = head
  BY <1>1, <1>3 DEF Conns
<1>5. /\ DueSeqs' = DueSeqs /\ CleanInv' /\ WantInv' /\ FirstInv' /\ up' = up
      /\ \A t \in Tasks : Unpushed(t)' <=> Unpushed(t)
      /\ wanted' = wanted /\ job' = job /\ rows' = rows /\ issued' = issued
      /\ \A r : Owed(r)' <=> Owed(r)
  BY <1>2, StillFacts
<1>6. PlaceInv' /\ Position' = Position
  BY <1>1, <1>5, PlaceStays DEF OrderInv
<1>7. SentInv' /\ WireInv' /\ QueueInv'
  BY <1>1, <1>5, <1>6 DEF OrderInv, SentInv, WireInv, QueueInv
<1>8. up
  BY <1>1 DEF OrderInv, ReadInv
<1>9. \A r \in DueSeqs : r <= head \/ Owed(r)
  BY <1>8, HeadFacts DEF OrderInv
<1>10. WayInv'
  BY <1>4, <1>5, <1>9 DEF WayInv, OnWay
<1>11. ReadInv'
  BY <1>1, <1>4, <1>5 DEF OrderInv, ReadInv, Reading, IsGap
<1> QED
  BY <1>5, <1>6, <1>7, <1>10, <1>11 DEF OrderInv

\* An ascending enumeration of as many numbers as there are names them all.
LEMMA AscendingAll ==
  ASSUME NEW S \in SUBSET Nat, NEW b \in Nat, \A s \in S : s <= b,
         NEW order \in [1..Cardinality(S) -> S], Ascending(order)
  PROVE  /\ Cardinality(S) \in Nat
         /\ \A r \in S : \E i \in 1..Cardinality(S) : order[i] = r
         /\ \A i, j \in 1..Cardinality(S) : order[i] < order[j] => i < j
<1> DEFINE N == Cardinality(S)
<1>1. IsFiniteSet(S) /\ N \in Nat
  BY FS_BoundedSetOfNaturals, FS_CardinalityType
<1> HIDE DEF N
<1>2. order \in [1..N -> S] /\ \A i \in 1..N : order[i] \in Nat
  BY DEF N
<1>3. \A i, j \in 1..N : i < j => order[i] < order[j]
  BY <1>2 DEF Ascending
<1>4. \A i, j \in 1..N : order[i] = order[j] => i = j
  BY <1>1, <1>2, <1>3
<1>5. order \in Injection(1..N, S)
  BY <1>2, <1>4 DEF Injection, IsInjective
<1>6. Cardinality(1..N) = N
  <2>1. Cardinality(1..N) = IF 1 > N THEN 0 ELSE N - 1 + 1
    BY <1>1, FS_Interval
  <2> QED
    BY <1>1, <2>1
<1>7. order \in Surjection(1..N, S)
  BY <1>1, <1>5, <1>6, FS_Injection DEF N
<1>8. \A r \in S : \E i \in 1..N : order[i] = r
  BY <1>7 DEF Surjection
<1>9. \A i, j \in 1..N : order[i] < order[j] => i < j
  BY <1>1, <1>2, <1>3
<1> QED
  BY <1>1, <1>8, <1>9 DEF N

\* A row the subscriber wants: its seq is due, its event matches.
LEMMA RowFacts ==
  ASSUME World, OrderInv, NEW s \in DOMAIN rows
  PROVE  /\ s \in Nat \ {0} /\ <<s, rows[s].id>> \in issued
         /\ rows[s].ev \in Matching <=> rows[s].id \in wanted
         /\ rows[s].ev \in Matching <=> s \in DueSeqs
<1>1. <<s, rows[s].id>> \in issued /\ (rows[s].ev \in Matching <=> rows[s].id \in wanted)
  BY DEF World, Inv, LogInv, OrderInv, WantInv
<1>2. CleanInv
  BY DEF OrderInv
<1>3. s \in Nat \ {0}
  BY <1>1, <1>2, IssuedFacts
<1>4. rows[s].id \in wanted => s \in DueSeqs
  BY <1>1, DueFacts
<1>5. ASSUME s \in DueSeqs PROVE rows[s].id \in wanted
  <2> DEFINE x == <<s, rows[s].id>>
  <2>1. PICK y \in issued : y[1] = s /\ y[2] \in wanted
    BY <1>5 DEF DueSeqs, Due
  <2>2. x \in issued /\ x[1] = y[1]
    BY <1>1, <2>1
  <2>3. x[2] = y[2]
    BY <1>2, <2>1, <2>2, IssuedFacts
  <2> QED
    BY <2>1, <2>3
<1> QED
  BY <1>1, <1>3, <1>4, <1>5

\* What the replay is about to send: everything due between the client's
\* cursor and the head it read, or the gap announces it.
LEMMA WindowFacts ==
  ASSUME World, OrderInv, conn.phase = "head",
         NEW r \in DueSeqs, client.cursor < r, r <= conn.head
  PROVE  \/ conn.gap /\ conn.after < r /\ r < conn.floor
         \/ r \in DOMAIN rows /\ InWindow(r) /\ rows[r].ev \in Matching
<1>1. /\ conn.after = client.cursor /\ (conn.gap <=> IsGap(conn.after, conn.floor))
      /\ \A x \in issued : x[1] < conn.floor \/ x[1] \in DOMAIN rows
  BY DEF OrderInv, ReadInv, Reading
<1>2. r \in Nat /\ \E x \in issued : x[1] = r
  BY IssuedFacts DEF OrderInv, DueSeqs, Due
<1>3. conn.after \in Nat /\ conn.floor \in Nat /\ conn.head \in Nat /\ client.cursor \in Nat
  <2>1. conn \in Conns /\ client.cursor \in Nat
    BY ClientFacts
  <2> QED
    BY <2>1 DEF Conns
<1>4. r < conn.floor \/ r \in DOMAIN rows
  BY <1>1, <1>2
<1>5. CASE r < conn.floor
  BY <1>1, <1>2, <1>3, <1>5 DEF IsGap
<1>6. CASE ~(r < conn.floor)
  <2>1. r \in DOMAIN rows /\ rows[r].ev \in Matching
    BY <1>4, <1>6, RowFacts
  <2>2. InWindow(r)
    BY <1>1, <1>2, <1>3, <1>6 DEF InWindow, EffectiveAfter
  <2> QED
    BY <2>1, <2>2
<1> QED
  BY <1>5, <1>6

\* A sequence of one is put behind another.
LEMMA JoinFacts ==
  ASSUME NEW v \in Seq(Msgs), NEW u \in Seq(Msgs), Len(u) = 1
  PROVE  /\ Len(v \o u) = Len(v) + 1 /\ (v \o u)[Len(v) + 1] = u[1]
         /\ \A i \in 1..Len(v) : (v \o u)[i] = v[i]
<1>1. Len(v) \in Nat /\ Len(v \o u) = Len(v) + 1
  <2>1. Len(v) \in Nat
    OBVIOUS
  <2>2. Len(v \o u) = Len(v) + Len(u)
    BY ConcatProperties
  <2> QED
    BY <2>1, <2>2
<1>2. \A i \in 1..(Len(v) + 1) : (v \o u)[i] = IF i <= Len(v) THEN v[i] ELSE u[i - Len(v)]
  BY <1>1
<1>3. (Len(v) + 1) - Len(v) = 1 /\ Len(v) + 1 \in 1..(Len(v) + 1) /\ ~(Len(v) + 1 <= Len(v))
  BY <1>1
<1>4. \A i \in 1..Len(v) : i \in 1..(Len(v) + 1) /\ i <= Len(v)
  BY <1>1
<1> QED
  BY <1>1, <1>2, <1>3, <1>4

\* The messages of a replay, one by one.
LEMMA ReplayMessages ==
  ASSUME World, World', OrderInv, Replay
  PROVE  \E k \in {0, 1}, N \in Nat : \E order \in [1..N -> DOMAIN rows] :
           /\ Len(wire') = k + N + 1 /\ (k = 1 <=> conn.gap)
           /\ k = 1 => wire'[1] = GapMsg(conn.after, conn.floor)
           /\ \A i \in 1..N : wire'[k + i] = EventMsg(order[i], rows[order[i]].id)
           /\ wire'[k + N + 1] = ReplayedMsg(conn.head)
           /\ \A i \in 1..N : InWindow(order[i]) /\ rows[order[i]].ev \in Matching
           /\ \A r \in DOMAIN rows : InWindow(r) /\ rows[r].ev \in Matching =>
                                       \E i \in 1..N : order[i] = r
           /\ \A i, j \in 1..N : order[i] < order[j] => i < j
<1> DEFINE window == {s \in DOMAIN rows : InWindow(s) /\ rows[s].ev \in Matching}
           gap == IF conn.gap THEN <<GapMsg(conn.after, conn.floor)>> ELSE <<>>
           last == <<ReplayedMsg(conn.head)>>
           N == Cardinality(window)
<1>1. conn.phase = "head" /\ wire = <<>>
  BY DEF Replay, OrderInv, ReadInv
<1>2. PICK order \in [1..N -> window] :
        LET events == [i \in DOMAIN order |-> EventMsg(order[i], rows[order[i]].id)]
        IN  Ascending(order) /\ wire' = wire \o gap \o events \o last
  BY DEF Replay
<1> DEFINE events == [i \in DOMAIN order |-> EventMsg(order[i], rows[order[i]].id)]
<1>3. wire' = <<>> \o gap \o events \o last /\ Ascending(order)
  BY <1>1, <1>2
<1>4. PICK b \in Nat : DOMAIN rows \subseteq 0..b
  BY DEF World, Inv, LogInv, Bounded
<1>5. window \in SUBSET Nat /\ \A s \in window : s <= b
  BY <1>4
<1>6. /\ N \in Nat /\ \A r \in window : \E i \in 1..N : order[i] = r
      /\ \A i, j \in 1..N : order[i] < order[j] => i < j
  <2> HIDE DEF window
  <2> QED
    BY <1>2, <1>5, AscendingAll
<1>7. events \in Seq(Msgs) /\ Len(events) = N
      /\ \A i \in 1..N : events[i] = EventMsg(order[i], rows[order[i]].id)
  <2>1. ASSUME NEW s \in DOMAIN rows PROVE EventMsg(s, rows[s].id) \in Msgs
    <3>1. <<s, rows[s].id>> \in issued /\ issued \subseteq Nat \X (1..begun)
      BY DEF World, Inv, LogInv
    <3>2. s \in Nat /\ rows[s].id \in Nat
      BY <3>1
    <3> QED
      BY <3>2 DEF EventMsg, Msgs
  <2>2. \A i \in 1..N : order[i] \in DOMAIN rows
    BY <1>2
  <2>3. events \in [1..N -> Msgs] /\ DOMAIN order = 1..N
    BY <2>1, <2>2
  <2> HIDE DEF N
  <2> QED
    BY <1>6, <2>3
<1>8. conn \in Conns
  BY ClientFacts
<1>9. /\ gap \in Seq(Msgs) /\ last \in Seq(Msgs) /\ Len(last) = 1 /\ last[1] = ReplayedMsg(conn.head)
      /\ Len(gap) \in {0, 1} /\ (Len(gap) = 1 <=> conn.gap)
      /\ Len(gap) = 1 => gap[1] = GapMsg(conn.after, conn.floor)
  <2>1. GapMsg(conn.after, conn.floor) \in Msgs
    BY <1>8 DEF GapMsg, Msgs, Conns
  <2>2. ReplayedMsg(conn.head) \in Msgs
    BY <1>8 DEF ReplayedMsg, Msgs, Conns
  <2> QED
    BY <2>1, <2>2
<1> DEFINE k == Len(gap)
<1> HIDE DEF gap, events, last, N
<1>10. /\ Len(wire') = k + N + 1 /\ (k = 1 => wire'[1] = gap[1])
       /\ \A i \in 1..N : wire'[k + i] = events[i]
       /\ wire'[k + N + 1] = last[1]
  <2> DEFINE u == <<>> \o gap
             v == u \o events
             w == v \o last
  <2>1. u \in Seq(Msgs) /\ Len(u) = k /\ (k = 1 => u[1] = gap[1]) /\ k \in {0, 1}
    BY <1>9
  <2> HIDE DEF u, k
  <2>2. /\ v \in Seq(Msgs) /\ Len(v) = k + N /\ (k = 1 => v[1] = gap[1])
        /\ \A i \in 1..N : v[k + i] = events[i]
    BY <1>6, <1>7, <2>1
  <2> HIDE DEF v
  <2>3. /\ Len(w) = k + N + 1 /\ (k = 1 => w[1] = gap[1])
        /\ \A i \in 1..N : w[k + i] = events[i]
        /\ w[k + N + 1] = last[1]
    <3>1. /\ Len(w) = Len(v) + 1 /\ w[Len(v) + 1] = last[1]
          /\ \A i \in 1..Len(v) : w[i] = v[i]
      BY <1>9, <2>2, JoinFacts
    <3>2. \A i \in 1..N : k + i \in 1..Len(v)
      BY <1>6, <2>1, <2>2
    <3>3. k = 1 => 1 \in 1..Len(v)
      BY <1>6, <2>2
    <3> HIDE DEF w
    <3> QED
      BY <2>2, <3>1, <3>2, <3>3
  <2> QED
    BY <1>3, <2>3 DEF u, v, k
<1> HIDE DEF k
<1>11. /\ k \in {0, 1} /\ (k = 1 <=> conn.gap)
       /\ k = 1 => wire'[1] = GapMsg(conn.after, conn.floor)
       /\ wire'[k + N + 1] = ReplayedMsg(conn.head)
       /\ \A i \in 1..N : wire'[k + i] = EventMsg(order[i], rows[order[i]].id)
  BY <1>7, <1>9, <1>10 DEF k
<1>12. order \in [1..N -> DOMAIN rows]
       /\ \A i \in 1..N : InWindow(order[i]) /\ rows[order[i]].ev \in Matching
  BY <1>2
<1>13. \A r \in DOMAIN rows : InWindow(r) /\ rows[r].ev \in Matching =>
                              \E i \in 1..N : order[i] = r
  BY <1>6
<1> k \in {0, 1} /\ N \in Nat /\ order \in [1..N -> DOMAIN rows]
  BY <1>6, <1>11, <1>12
<1> HIDE DEF window
<1> WITNESS k \in {0, 1}, N \in Nat
<1> WITNESS order \in [1..N -> DOMAIN rows]
<1> QED
  BY <1>6, <1>10, <1>11, <1>12, <1>13

LEMMA ReplayOrder ==
  ASSUME World, World', OrderInv, Replay
  PROVE  OrderInv'
<1>1. /\ conn.phase = "head" /\ conn' = [NoConn EXCEPT !.phase = "live"]
      /\ UNCHANGED <<queue, client, saved, handled, gapped>>
  BY DEF Replay, histVars, clientVars
<1>2. Still
  BY DEF Replay, Still, histVars
<1>3. conn'.phase = "live"
  BY <1>1 DEF NoConn
<1>4. /\ DueSeqs' = DueSeqs /\ CleanInv' /\ WantInv' /\ FirstInv' /\ up' = up
      /\ \A t \in Tasks : Unpushed(t)' <=> Unpushed(t)
      /\ wanted' = wanted /\ job' = job
      /\ \A r : Owed(r)' <=> Owed(r)
  BY <1>2, StillFacts
<1>5. PlaceInv' /\ Position' = Position
  BY <1>1, <1>4, PlaceStays DEF OrderInv
<1>6. QueueInv'
  BY <1>1, <1>4 DEF OrderInv, QueueInv
<1>7. ReadInv'
  BY <1>1, <1>3, <1>4 DEF OrderInv, ReadInv, Reading
<1>8. /\ wire = <<>> /\ client.busy = NoEvent /\ Position = client.cursor
      /\ client.cursor \in Nat /\ conn.head \in Nat /\ DueSeqs \subseteq Nat \ {0}
  <2>1. conn \in Conns /\ client.cursor \in Nat /\ DueSeqs \subseteq Nat \ {0}
    BY ClientFacts, IssuedFacts DEF OrderInv
  <2> QED
    BY <1>1, <2>1 DEF OrderInv, ReadInv, Position, Conns
<1>9a. PICK k \in {0, 1}, N \in Nat : \E order \in [1..N -> DOMAIN rows] :
           /\ Len(wire') = k + N + 1 /\ (k = 1 <=> conn.gap)
           /\ k = 1 => wire'[1] = GapMsg(conn.after, conn.floor)
           /\ \A i \in 1..N : wire'[k + i] = EventMsg(order[i], rows[order[i]].id)
           /\ wire'[k + N + 1] = ReplayedMsg(conn.head)
           /\ \A i \in 1..N : InWindow(order[i]) /\ rows[order[i]].ev \in Matching
           /\ \A r \in DOMAIN rows : InWindow(r) /\ rows[r].ev \in Matching =>
                                       \E i \in 1..N : order[i] = r
           /\ \A i, j \in 1..N : order[i] < order[j] => i < j
  BY ReplayMessages
<1>9. PICK order \in [1..N -> DOMAIN rows] :
           /\ Len(wire') = k + N + 1 /\ (k = 1 <=> conn.gap)
           /\ k = 1 => wire'[1] = GapMsg(conn.after, conn.floor)
           /\ \A i \in 1..N : wire'[k + i] = EventMsg(order[i], rows[order[i]].id)
           /\ wire'[k + N + 1] = ReplayedMsg(conn.head)
           /\ \A i \in 1..N : InWindow(order[i]) /\ rows[order[i]].ev \in Matching
           /\ \A r \in DOMAIN rows : InWindow(r) /\ rows[r].ev \in Matching =>
                                       \E i \in 1..N : order[i] = r
           /\ \A i, j \in 1..N : order[i] < order[j] => i < j
  BY <1>9a
<1> DEFINE w == wire'
<1>10. \A j \in 1..Len(w) : \/ k = 1 /\ j = 1
                            \/ \E i \in 1..N : j = k + i
                            \/ j = k + N + 1
  <2> SUFFICES ASSUME NEW j \in 1..(k + N + 1), ~(k = 1 /\ j = 1), j # k + N + 1
               PROVE  \E i \in 1..N : j = k + i
    BY <1>9
  <2>1. j - k \in 1..N /\ j = k + (j - k)
    OBVIOUS
  <2> QED
    BY <2>1
<1>11. \A i \in 1..N : /\ w[k + i].kind = "event" /\ w[k + i].seq = order[i]
                       /\ w[k + i].id = rows[order[i]].id /\ order[i] \in DOMAIN rows
  <2> SUFFICES ASSUME NEW i \in 1..N
               PROVE  /\ w[k + i].kind = "event" /\ w[k + i].seq = order[i]
                      /\ w[k + i].id = rows[order[i]].id /\ order[i] \in DOMAIN rows
    OBVIOUS
  <2>1. w[k + i] = EventMsg(order[i], rows[order[i]].id) /\ order[i] \in DOMAIN rows
    BY <1>9
  <2> HIDE DEF w
  <2> QED
    BY <2>1 DEF EventMsg
<1>12. /\ k = 1 => /\ w[1].kind = "replay_gap" /\ w[1].seq = conn.after /\ w[1].id = conn.floor
       /\ w[k + N + 1].kind = "replayed"
  BY <1>9 DEF GapMsg, ReplayedMsg
<1> HIDE DEF w
<1>13. \A i \in 1..N : order[i] \in Nat /\ order[i] <= conn.head /\ rows[order[i]].id \in wanted
  BY <1>9, <1>11, RowFacts DEF InWindow
<1>14. SentInv'
  <2>1. \A j \in 1..Len(w) : w[j].kind = "event" => w[j].id \in wanted
    <3> SUFFICES ASSUME NEW j \in 1..Len(w), w[j].kind = "event" PROVE w[j].id \in wanted
      OBVIOUS
    <3>1. PICK i \in 1..N : j = k + i
      BY <1>10, <1>12
    <3> QED
      BY <1>11, <1>13, <3>1
  <2> QED
    BY <1>1, <1>4, <2>1 DEF OrderInv, SentInv, w
<1>15. ASSUME NEW r \in DueSeqs, client.cursor < r, r <= conn.head
       PROVE  \/ k = 1 /\ Brings(w[1], r)
              \/ \E i \in 1..N : order[i] = r /\ Brings(w[k + i], r)
  <2>1. CASE conn.gap /\ conn.after < r /\ r < conn.floor
    BY <1>9, <1>12, <2>1 DEF Brings
  <2>2. CASE r \in DOMAIN rows /\ InWindow(r) /\ rows[r].ev \in Matching
    <3>1. PICK i \in 1..N : order[i] = r
      BY <1>9, <2>2
    <3> QED
      BY <1>11, <3>1 DEF Brings
  <2> QED
    BY <1>1, <1>15, <2>1, <2>2, WindowFacts
<1>16. WireOK(w, client.cursor, DueSeqs, gapped)
  <2> SUFFICES ASSUME NEW j \in 1..Len(w), w[j].kind = "event",
                      NEW r \in DueSeqs, client.cursor < r, r < w[j].seq
               PROVE  Brought(w, j - 1, r)
    BY DEF WireOK
  <2>1. PICK i \in 1..N : j = k + i
    BY <1>10, <1>12
  <2>2. w[j].seq = order[i] /\ order[i] \in Nat /\ order[i] <= conn.head /\ r \in Nat
    BY <1>8, <1>11, <1>13, <2>1
  <2>3. r <= conn.head
    BY <1>8, <2>2
  <2>4. CASE k = 1 /\ Brings(w[1], r)
    <3>1. 1 \in 1..(j - 1)
      BY <2>1, <2>4
    <3> QED
      BY <2>4, <3>1 DEF Brought
  <2>5. CASE \E a \in 1..N : order[a] = r /\ Brings(w[k + a], r)
    <3>1. PICK a \in 1..N : order[a] = r /\ Brings(w[k + a], r)
      BY <2>5
    <3>2. a < i
      BY <1>9, <2>2, <3>1
    <3>3. k + a \in 1..(j - 1)
      BY <2>1, <3>2
    <3> QED
      BY <3>1, <3>3 DEF Brought
  <2> QED
    BY <1>15, <2>3, <2>4, <2>5
<1>17. WireInv'
  BY <1>1, <1>4, <1>5, <1>8, <1>16 DEF WireInv, w
<1>18. WayInv'
  <2> SUFFICES ASSUME ~Lagging', NEW r \in DueSeqs, Position < r PROVE OnWay(r)'
    BY <1>4, <1>5 DEF WayInv
  <2>1. ~Lagging
    BY <1>1, <1>8 DEF Lagging, Lagless
  <2>2. OnWay(r) /\ ~Brought(wire, Len(wire), r)
    BY <1>1, <1>8, <2>1 DEF OrderInv, WayInv, Brought
  <2>3. r <= conn.head => Brought(w, Len(w), r)
    <3>1. \A i \in 1..N : k + i \in 1..Len(w)
      BY <1>9 DEF w
    <3>2. 1 \in 1..Len(w)
      BY <1>9 DEF w
    <3> QED
      BY <1>8, <1>15, <3>1, <3>2 DEF Brought
  <2> QED
    BY <1>1, <1>4, <2>2, <2>3 DEF OnWay, w
<1> QED
  BY <1>4, <1>5, <1>6, <1>7, <1>14, <1>17, <1>18 DEF OrderInv

\* A live frame leaves the queue: the wire and the queue after it.
LEMMA SendFacts ==
  ASSUME World, SentInv, CleanInv, SendLive
  PROVE  LET f == queue.frames[1]
             sent == IF queue.lag = 0 THEN wire ELSE Append(wire, LaggedMsg(queue.lag))
         IN /\ Len(queue.frames) \in Nat \ {0} /\ sent \in Seq(Msgs)
            /\ EventMsg(f.seq, f.id) \in Msgs
            /\ wire' = Append(sent, EventMsg(f.seq, f.id))
            /\ queue'.frames = Tail(queue.frames) /\ queue'.lag = 0
<1> DEFINE s == queue.frames
           f == s[1]
           e == EventMsg(f.seq, f.id)
           l == LaggedMsg(queue.lag)
           lag == IF queue.lag = 0 THEN <<>> ELSE <<l>>
           sent == IF queue.lag = 0 THEN wire ELSE Append(wire, l)
<1>1. /\ s # <<>> /\ wire' = wire \o lag \o <<EventMsg(Head(s).seq, Head(s).id)>>
      /\ queue' = TakeLag(PopFront(queue))
  BY DEF SendLive
<1>2. /\ wire \in Seq(Msgs) /\ queue \in QueueType(SeqFrames) /\ s \in Seq(SeqFrames)
  BY SentFacts
<1>3. queue.lag \in Nat /\ queue'.frames = Tail(s) /\ queue'.lag = 0
  BY <1>1, <1>2 DEF QueueType, TakeLag, PopFront
<1>4. Head(s) = f /\ f \in SeqFrames /\ Len(s) \in Nat \ {0}
  BY <1>1, <1>2
<1>5. e \in Msgs /\ l \in Msgs
  BY <1>3, <1>4 DEF EventMsg, LaggedMsg, Msgs, SeqFrames
<1>6. wire' = wire \o lag \o <<e>>
  BY <1>1, <1>4
<1> HIDE DEF e, l, f, s
<1>7. sent \in Seq(Msgs) /\ wire \o lag = sent
  <2>1. CASE queue.lag = 0
    BY <1>2, <2>1, ConcatEmptySeq
  <2>2. CASE queue.lag # 0
    <3>1. Append(wire, l) = wire \o <<l>> /\ Append(wire, l) \in Seq(Msgs)
      BY <1>2, <1>5, AppendIsConcat
    <3> QED
      BY <2>2, <3>1
  <2> QED
    BY <2>1, <2>2
<1>8. wire' = sent \o <<e>>
  BY <1>6, <1>7
<1> HIDE DEF sent, lag
<1>9. wire' = Append(sent, e)
  BY <1>5, <1>7, <1>8, AppendIsConcat
<1> QED
  BY <1>3, <1>4, <1>5, <1>7, <1>9 DEF sent, e, l, f, s

\* The first frame of the queue is the next the client should see.
LEMMA FirstFrame ==
  ASSUME World, OrderInv, conn.phase = "live", ~Lagging, Len(queue.frames) > 0,
         NEW r \in DueSeqs, Position < r, r < queue.frames[1].seq
  PROVE  r \in gapped \/ Brought(wire, Len(wire), r)
<1> DEFINE s == queue.frames
<1>1. /\ s \in Seq(SeqFrames) /\ \A j \in 1..Len(s) : s[j] \in SeqFrames
      /\ DueSeqs \subseteq Nat \ {0}
  BY SentFacts, IssuedFacts DEF OrderInv
<1>2. /\ r \in Nat /\ Len(s) \in Nat /\ 1 \in 1..Len(s)
      /\ \A j \in 1..Len(s) : s[j].seq \in Nat
  <2>1. r \in Nat /\ Len(s) \in Nat
    BY <1>1
  <2>2. 1 \in 1..Len(s)
    BY <2>1
  <2>3. \A f \in SeqFrames : f.seq \in Nat
    BY DEF SeqFrames
  <2> HIDE DEF s
  <2> QED
    BY <1>1, <2>1, <2>2, <2>3
<1>3. OnWay(r)
  BY DEF OrderInv, WayInv
<1>4. ~Owed(r)
  <2> SUFFICES ASSUME NEW t \in Tasks, Unpushed(t), job[t].base < r PROVE FALSE
    BY DEF Owed
  <2>1. s[1].seq <= job[t].base
    BY <1>2 DEF OrderInv, QueueInv
  <2>2. job[t].base \in Nat
    <3>1. job[t] \in LP!Job
      BY DEF World, LP!Inv, LP!TypeOK, LP!Procs
    <3> QED
      BY <3>1 DEF LP!Job
  <2> QED
    BY <1>2, <2>1, <2>2
<1>5. r \notin FrameSeqs(s)
  <2> SUFFICES ASSUME NEW j \in 1..Len(s), r = s[j].seq PROVE FALSE
    BY DEF FrameSeqs
  <2>1. j = 1 \/ s[1].seq < s[j].seq
    BY <1>2 DEF OrderInv, QueueInv, Rising
  <2> QED
    BY <1>2, <2>1
<1> QED
  BY <1>3, <1>4, <1>5 DEF OnWay

LEMMA SendLiveOrder ==
  ASSUME World, World', OrderInv, SendLive
  PROVE  OrderInv'
<1> DEFINE s == queue.frames
           f == s[1]
           e == EventMsg(f.seq, f.id)
           l == LaggedMsg(queue.lag)
           sent == IF queue.lag = 0 THEN wire ELSE Append(wire, l)
           w == Append(sent, e)
<1>1. /\ conn.phase = "live" /\ UNCHANGED <<conn, client, saved, handled, gapped>>
  BY DEF SendLive, histVars, clientVars
<1>2. Still
  BY DEF SendLive, Still, histVars
<1>3. /\ DueSeqs' = DueSeqs /\ CleanInv' /\ WantInv' /\ FirstInv' /\ up' = up
      /\ \A t \in Tasks : Unpushed(t)' <=> Unpushed(t)
      /\ wanted' = wanted /\ job' = job
      /\ \A r : Owed(r)' <=> Owed(r)
  BY <1>2, StillFacts
<1>4. PlaceInv' /\ Position' = Position
  BY <1>1, <1>3, PlaceStays DEF OrderInv
<1>5. ReadInv'
  BY <1>1, <1>3 DEF OrderInv, ReadInv, Reading
<1>6. /\ Len(s) \in Nat \ {0} /\ sent \in Seq(Msgs) /\ e \in Msgs /\ wire' = w
      /\ queue'.frames = Tail(s) /\ queue'.lag = 0
  BY SendFacts DEF OrderInv
<1>7. /\ wire \in Seq(Msgs) /\ s \in Seq(SeqFrames) /\ queue.lag \in Nat
      /\ \A j \in 1..Len(s) : s[j] \in SeqFrames
  BY SentFacts DEF OrderInv, QueueType
<1>8. l \in Msgs /\ l.kind = "lagged" /\ e.kind = "event" /\ e.seq = f.seq /\ e.id = f.id
  BY <1>7 DEF LaggedMsg, EventMsg, Msgs
<1>9. /\ Len(Tail(s)) = Len(s) - 1
      /\ \A j \in 1..Len(Tail(s)) : Tail(s)[j] = s[j + 1] /\ j + 1 \in 1..Len(s)
  BY <1>6, <1>7
<1>10. 1 \in 1..Len(s) /\ Len(wire) \in Nat
  BY <1>6, <1>7
<1>11. QueueInv'
  <2>1. Rising(Tail(s))
    <3> SUFFICES ASSUME NEW i \in 1..Len(Tail(s)), NEW j \in 1..Len(Tail(s)), i < j
                 PROVE  Tail(s)[i].seq < Tail(s)[j].seq
      BY DEF Rising
    <3>1. i + 1 < j + 1
      OBVIOUS
    <3> QED
      BY <1>9, <3>1 DEF OrderInv, QueueInv, Rising
  <2>2. \A t \in Tasks : Unpushed(t) => \A j \in 1..Len(Tail(s)) : Tail(s)[j].seq <= job[t].base
    BY <1>9 DEF OrderInv, QueueInv
  <2> QED
    BY <1>3, <1>6, <2>1, <2>2 DEF QueueInv
<1> HIDE DEF e, l
<1>12. /\ queue.lag # 0 => /\ Len(sent) = Len(wire) + 1 /\ sent[Len(wire) + 1] = l
       /\ queue.lag = 0 => sent = wire
       /\ \A j \in 1..Len(wire) : sent[j] = wire[j] /\ j \in 1..Len(sent)
       /\ \A j \in 1..Len(sent) : j \in 1..Len(wire) \/ sent[j] = l
       /\ Len(sent) \in Nat
  BY <1>7, <1>8, <1>10
<1> HIDE DEF sent
<1>13. /\ Len(w) = Len(sent) + 1 /\ w[Len(sent) + 1] = e
       /\ \A j \in 1..Len(sent) : w[j] = sent[j]
  BY <1>6
<1> HIDE DEF w
<1>14. SentInv'
  <2>1. \A j \in 1..Len(s) : s[j].id \in wanted
    BY DEF OrderInv, SentInv
  <2>2. \A j \in 1..Len(Tail(s)) : Tail(s)[j].id \in wanted
    BY <1>9, <2>1
  <2>3. ASSUME NEW j \in 1..Len(w), w[j].kind = "event" PROVE w[j].id \in wanted
    <3>1. CASE j = Len(sent) + 1
      BY <1>8, <1>10, <1>13, <2>1, <3>1
    <3>2. CASE j # Len(sent) + 1
      <4>1. j \in 1..Len(sent) /\ w[j] = sent[j]
        BY <1>12, <1>13, <3>2
      <4>2. j \in 1..Len(wire) /\ w[j] = wire[j]
        BY <1>8, <1>12, <2>3, <4>1
      <4> QED
        BY <2>3, <4>2 DEF OrderInv, SentInv
    <3> QED
      BY <3>1, <3>2
  <2> QED
    BY <1>3, <1>6, <2>2, <2>3 DEF SentInv
<1>15. WireOK(w, Position, DueSeqs, gapped)
  <2>1. WireOK(wire, Position, DueSeqs, gapped)
    BY DEF OrderInv, WireInv
  <2>2. CASE queue.lag # 0
    <3>1. WireOK(sent, Position, DueSeqs, gapped)
      BY <1>7, <1>8, <2>1, <2>2, WireAppend DEF sent
    <3>2. ~Lagless(sent, Len(sent))
      <4>1. Len(wire) + 1 \in 1..Len(sent) /\ sent[Len(wire) + 1].kind = "lagged"
        BY <1>8, <1>10, <1>12, <2>2
      <4> QED
        BY <4>1 DEF Lagless
    <3> QED
      BY <1>6, <3>1, <3>2, WireAppend DEF w
  <2>3. CASE queue.lag = 0
    <3>1. ASSUME Lagless(wire, Len(wire)), NEW r \in DueSeqs, Position < r, r < f.seq
          PROVE  r \in gapped \/ Brought(wire, Len(wire), r)
      BY <1>1, <1>6, <2>3, <3>1, FirstFrame DEF Lagging
    <3> HIDE DEF f
    <3> QED
      BY <1>6, <1>7, <1>8, <1>12, <2>1, <2>3, <3>1, WireAppend DEF w
  <2> QED
    BY <2>2, <2>3
<1>16. WireInv'
  BY <1>1, <1>3, <1>4, <1>6, <1>15 DEF WireInv
<1>17. WayInv'
  <2> SUFFICES ASSUME ~Lagging', NEW r \in DueSeqs, Position < r PROVE OnWay(r)'
    BY <1>3, <1>4 DEF WayInv
  <2>1. Lagless(w, Len(w))
    BY <1>6 DEF Lagging
  <2>2. queue.lag = 0
    <3> SUFFICES ASSUME queue.lag # 0 PROVE FALSE
      OBVIOUS
    <3>1. Len(wire) + 1 \in 1..Len(w) /\ w[Len(wire) + 1].kind = "lagged"
      BY <1>8, <1>10, <1>12, <1>13
    <3> QED
      BY <2>1, <3>1 DEF Lagless
  <2>3. /\ Len(w) = Len(wire) + 1 /\ w[Len(wire) + 1] = e
        /\ \A j \in 1..Len(wire) : w[j] = wire[j] /\ j \in 1..Len(w)
        /\ Len(wire) + 1 \in 1..Len(w)
    BY <1>10, <1>12, <1>13, <2>2
  <2>4. ~Lagging
    BY <2>1, <2>2, <2>3 DEF Lagging, Lagless
  <2>5. OnWay(r)
    BY <1>1, <2>4 DEF OrderInv, WayInv
  <2>6. Brought(wire, Len(wire), r) => Brought(w, Len(w), r)
    BY <2>3 DEF Brought
  <2>7. r \in FrameSeqs(s) => r \in FrameSeqs(Tail(s)) \/ Brought(w, Len(w), r)
    <3> SUFFICES ASSUME NEW j \in 1..Len(s), r = s[j].seq
                 PROVE  r \in FrameSeqs(Tail(s)) \/ Brought(w, Len(w), r)
      BY DEF FrameSeqs
    <3>1. CASE j = 1
      <4>1. Brings(w[Len(wire) + 1], r)
        BY <1>8, <2>3, <3>1 DEF Brings
      <4> QED
        BY <2>3, <4>1 DEF Brought
    <3>2. CASE j # 1
      <4>1. j - 1 \in 1..Len(Tail(s)) /\ (j - 1) + 1 = j
        BY <1>6, <1>9, <3>2
      <4>2. Tail(s)[j - 1] = s[j]
        BY <1>9, <4>1
      <4> QED
        BY <4>1, <4>2 DEF FrameSeqs
    <3> QED
      BY <3>1, <3>2
  <2> QED
    BY <1>1, <1>3, <1>6, <2>5, <2>6, <2>7 DEF OnWay
<1> QED
  BY <1>3, <1>4, <1>5, <1>11, <1>14, <1>16, <1>17 DEF OrderInv

\* The connection is gone.
LEMMA GoneFacts ==
  ASSUME conn' = NoConn, queue' = NewQueue
  PROVE  /\ QueueInv' /\ queue'.frames = <<>> /\ WayInv' /\ ReadInv'
<1>1. conn'.phase = "none"
  BY DEF NoConn
<1> QED
  BY <1>1, EmptyQueue DEF WayInv, ReadInv, Reading

\* What was sent stays so in a prefix of it.
LEMMA PrefixSent ==
  ASSUME World, CleanInv, SentInv, wanted' = wanted, queue'.frames = <<>>,
         NEW n \in 0..Len(wire), wire' = SubSeq(wire, 1, n)
  PROVE  SentInv'
<1>1. wire \in Seq(Msgs)
  BY SentFacts
<1>2. Len(wire') = n /\ \A i \in 1..n : wire'[i] = wire[i] /\ i \in 1..Len(wire)
  BY <1>1
<1> QED
  BY <1>2 DEF SentInv

LEMMA LinkDropOrder ==
  ASSUME World, World', OrderInv, LinkDrop
  PROVE  OrderInv'
<1>1. /\ conn' = NoConn /\ queue' = NewQueue
      /\ UNCHANGED <<client, saved, handled, gapped, wanted>>
  BY DEF LinkDrop, histVars, clientVars
<1>2. Still
  BY DEF LinkDrop, Still, histVars
<1>3. PICK n \in 0..Len(wire) : wire' = SubSeq(wire, 1, n)
  BY DEF LinkDrop
<1>4. DueSeqs' = DueSeqs /\ CleanInv' /\ WantInv' /\ FirstInv'
  BY <1>2, StillFacts
<1>5. PlaceInv' /\ Position' = Position
  BY <1>1, <1>4, PlaceStays DEF OrderInv
<1>6. QueueInv' /\ queue'.frames = <<>> /\ WayInv' /\ ReadInv'
  BY <1>1, GoneFacts
<1>7. SentInv'
  BY <1>1, <1>3, <1>6, PrefixSent DEF OrderInv
<1>8. WireInv'
  BY <1>1, <1>3, <1>4, <1>5, SentFacts, WirePrefix DEF OrderInv, WireInv
<1> QED
  BY <1>4, <1>5, <1>6, <1>7, <1>8 DEF OrderInv

\* The client takes the first message off the wire.
LEMMA TailFacts ==
  ASSUME World, OrderInv, wire # <<>>, wire' = Tail(wire), wanted' = wanted, queue' = queue
  PROVE  /\ SentInv' /\ wire \in Seq(Msgs) /\ Head(wire) = wire[1] /\ 1 \in 1..Len(wire)
         /\ Head(wire).kind # "lagged" => (Lagging' <=> Lagging)
         /\ \A r : Brought(wire, Len(wire), r) =>
                     Brings(Head(wire), r) \/ Brought(wire', Len(wire'), r)
<1>1. wire \in Seq(Msgs)
  BY SentFacts DEF OrderInv
<1> DEFINE v == Tail(wire)
<1>2. /\ Len(v) = Len(wire) - 1 /\ Len(wire) \in Nat \ {0} /\ Head(wire) = wire[1]
      /\ \A i \in 1..Len(v) : v[i] = wire[i + 1] /\ i + 1 \in 1..Len(wire)
  BY <1>1
<1> HIDE DEF v
<1>3. 1 \in 1..Len(wire) /\ \A j \in 1..Len(wire) : j = 1 \/ (j - 1 \in 1..Len(v) /\ v[j - 1] = wire[j])
  BY <1>2
<1>4. SentInv'
  BY <1>2 DEF OrderInv, SentInv, v
<1>5. Head(wire).kind # "lagged" => (Lagless(v, Len(v)) <=> Lagless(wire, Len(wire)))
  BY <1>2, <1>3 DEF Lagless
<1>6. \A r : Brought(wire, Len(wire), r) => Brings(Head(wire), r) \/ Brought(v, Len(v), r)
  BY <1>2, <1>3 DEF Brought
<1> QED
  BY <1>1, <1>2, <1>3, <1>4, <1>5, <1>6 DEF Lagging, v

\* The client reads a message that is not `lagged` and moves to wherever it
\* moves, knowing what the message said.
LEMMA TakeOrder ==
  ASSUME World, World', OrderInv, Still, wire # <<>>, wire' = Tail(wire), client.busy = NoEvent,
         Head(wire).kind # "lagged", UNCHANGED <<conn, queue>>,
         gapped \subseteq gapped', PlaceInv', Position <= Position',
         \A r \in DueSeqs : Position' < r /\ Brings(Head(wire), r) => r \in gapped'
  PROVE  OrderInv'
<1>1. /\ DueSeqs' = DueSeqs /\ CleanInv' /\ WantInv' /\ FirstInv' /\ up' = up
      /\ \A t \in Tasks : Unpushed(t)' <=> Unpushed(t)
      /\ wanted' = wanted /\ job' = job
      /\ \A r : Owed(r)' <=> Owed(r)
  BY StillFacts
<1>2. /\ SentInv' /\ wire \in Seq(Msgs) /\ (Lagging' <=> Lagging)
      /\ \A r : Brought(wire, Len(wire), r) =>
                  Brings(Head(wire), r) \/ Brought(wire', Len(wire'), r)
  BY <1>1, TailFacts
<1>3. QueueInv'
  BY <1>1 DEF OrderInv, QueueInv
<1>4. conn.phase \notin {"opened", "subscribed", "floor", "head"}
  BY DEF OrderInv, ReadInv
<1>5. ReadInv'
  BY <1>1, <1>4 DEF OrderInv, ReadInv, Reading
<1>6. Position \in Nat /\ Position' \in Nat /\ DueSeqs \subseteq Nat
  BY ClientFacts, IssuedFacts DEF OrderInv, World, Inv, ClientInv, Clients, Busies, Position
<1>7. WireInv'
  BY <1>1, <1>2, <1>6, WireTail DEF OrderInv, WireInv
<1>8. WayInv'
  <2> SUFFICES ASSUME conn.phase = "live", ~Lagging, NEW r \in DueSeqs, Position' < r
               PROVE  OnWay(r)'
    BY <1>1, <1>2, <1>4 DEF WayInv
  <2>1. Position < r
    <3>1. r \in Nat
      BY <1>6
    <3> QED
      BY <1>6, <3>1
  <2>2. OnWay(r)
    BY <2>1 DEF OrderInv, WayInv
  <2> QED
    BY <1>1, <1>2, <2>2 DEF OnWay
<1> QED
  BY <1>1, <1>2, <1>3, <1>5, <1>7, <1>8 DEF OrderInv

LEMMA ClientHandleOrder ==
  ASSUME World, World', OrderInv, ClientHandle
  PROVE  OrderInv' /\ UNCHANGED <<DueSeqs, handled, gapped>> /\ client'.cursor = client.cursor
<1> DEFINE m == wire[1]
           b == [seq |-> m.seq, id |-> m.id]
<1>1. /\ wire # <<>> /\ client.busy = NoEvent /\ Head(wire).kind = "event"
      /\ Head(wire).seq > client.cursor
      /\ client' = [client EXCEPT !.busy = [seq |-> Head(wire).seq, id |-> Head(wire).id]]
      /\ wire' = Tail(wire) /\ UNCHANGED <<conn, queue, saved, handled, gapped, wanted>>
  BY DEF ClientHandle, Receives, should_process
<1>2. Still
  BY DEF ClientHandle, Still
<1>3. Head(wire) = m /\ 1 \in 1..Len(wire)
  BY <1>1, TailFacts
<1>4. m \in Msgs /\ m.kind = "event" /\ m.seq \in DueSeqs
  BY <1>1, <1>3, SentFacts DEF OrderInv
<1>5. /\ client \in Clients /\ client.cursor \in Nat /\ m.seq \in Nat /\ m.seq > client.cursor
      /\ DueSeqs \subseteq Nat
  BY <1>1, <1>3, <1>4, ClientFacts, IssuedFacts DEF Msgs, OrderInv
<1>6. \A r \in DueSeqs : client.cursor < r /\ r < m.seq => r \in gapped
  <2> SUFFICES ASSUME NEW r \in DueSeqs, client.cursor < r, r < m.seq PROVE r \in gapped
    OBVIOUS
  <2>1. Position = client.cursor /\ Lagless(wire, 1 - 1) /\ ~Brought(wire, 1 - 1, r)
    BY <1>1 DEF Position, Lagless, Brought
  <2> QED
    BY <1>3, <1>4, <2>1 DEF OrderInv, WireInv, WireOK
<1> HIDE DEF m
<1>7. client'.busy = b /\ client'.cursor = client.cursor /\ client'.seen = client.seen
  BY <1>1, <1>3, <1>5 DEF Clients
<1>8. b.seq = m.seq /\ b # NoEvent
  BY <1>5 DEF NoEvent
<1> HIDE DEF b
<1>9. Position = client.cursor /\ Position' = m.seq
  BY <1>1, <1>7, <1>8 DEF Position, NoEvent
<1>10. DueSeqs' = DueSeqs
  BY <1>2, StillFacts
<1>11. PlaceInv'
  <2>1. \A n \in ToSet(client.seen) : \E x \in handled' : x[2] = n /\ x[1] <= client.cursor
    BY <1>1 DEF OrderInv, PlaceInv
  <2>2. saved' = client'.cursor
    BY <1>1, <1>7 DEF OrderInv, PlaceInv
  <2> QED
    BY <1>1, <1>4, <1>5, <1>6, <1>7, <1>8, <1>10, <2>1, <2>2 DEF PlaceInv
<1>12. \A r \in DueSeqs : Position' < r /\ Brings(Head(wire), r) => r \in gapped'
  BY <1>3, <1>4, <1>5, <1>9 DEF Brings
<1>13. OrderInv'
  BY <1>1, <1>2, <1>5, <1>9, <1>11, <1>12, TakeOrder
<1> QED
  BY <1>1, <1>7, <1>10, <1>13

LEMMA HandlerReturnsOrder ==
  ASSUME World, World', OrderInv, HandlerReturns
  PROVE  OrderInv' /\ UNCHANGED <<DueSeqs, gapped>> /\ client'.cursor = client.cursor
<1>1. /\ client.busy # NoEvent /\ client' = [client EXCEPT !.returned = TRUE]
      /\ handled \subseteq handled' /\ UNCHANGED <<conn, queue, wire, saved, gapped>>
  BY DEF HandlerReturns, connVars
<1>2. Still
  BY DEF HandlerReturns, Still
<1>3. client \in Clients
  BY ClientFacts
<1>4. client'.cursor = client.cursor /\ client'.busy = client.busy /\ client'.seen = client.seen
  BY <1>1, <1>3 DEF Clients
<1>5. /\ DueSeqs' = DueSeqs /\ CleanInv' /\ WantInv' /\ FirstInv' /\ wanted' = wanted /\ job' = job
      /\ up' = up /\ \A t \in Tasks : Unpushed(t)' <=> Unpushed(t)
      /\ \A r : Owed(r)' <=> Owed(r)
  BY <1>2, StillFacts
<1>6. Position' = Position
  BY <1>4 DEF Position, NoEvent
<1>7. PlaceInv'
  BY <1>1, <1>4, <1>5 DEF OrderInv, PlaceInv, NoEvent
<1>8. QueueInv' /\ SentInv' /\ WireInv'
  BY <1>1, <1>5, <1>6 DEF OrderInv, QueueInv, SentInv, WireInv
<1>9. WayInv'
  BY <1>1, <1>5, <1>6 DEF OrderInv, WayInv, Lagging, OnWay
<1>10. conn.phase \notin {"opened", "subscribed", "floor", "head"}
  BY <1>1 DEF OrderInv, ReadInv
<1>11. ReadInv'
  BY <1>1, <1>5, <1>10 DEF OrderInv, ReadInv, Reading
<1> QED
  BY <1>1, <1>4, <1>5, <1>7, <1>8, <1>9, <1>11 DEF OrderInv

LEMMA ClientSkipOrder ==
  ASSUME World, World', OrderInv, ClientSkip
  PROVE  OrderInv'
<1> DEFINE m == wire[1]
<1>1. /\ wire # <<>> /\ client.busy = NoEvent /\ Head(wire).kind = "event"
      /\ ~should_process(Head(wire).id, Head(wire).seq)
      /\ wire' = Tail(wire) /\ UNCHANGED <<conn, queue, client, saved, handled, gapped, wanted>>
  BY DEF ClientSkip, Receives, clientVars, histVars
<1>2. Still
  BY DEF ClientSkip, Still, histVars
<1>3. Head(wire) = m /\ 1 \in 1..Len(wire)
  BY <1>1, TailFacts
<1>4. m \in Msgs /\ m.kind = "event" /\ <<m.seq, m.id>> \in issued
  BY <1>1, <1>3, SentFacts DEF OrderInv
<1>5. client.cursor \in Nat /\ m.seq \in Nat /\ DueSeqs \subseteq Nat
  BY <1>4, ClientFacts, IssuedFacts DEF Msgs, OrderInv
<1>6. m.seq <= client.cursor
  <2>1. CASE ~(m.seq > client.cursor)
    BY <1>5, <2>1
  <2>2. CASE m.id \in ToSet(client.seen)
    <3>1. PICK x \in handled : x[2] = m.id /\ x[1] <= client.cursor
      BY <2>2 DEF OrderInv, PlaceInv
    <3>2. x \in issued
      BY IssuedFacts DEF OrderInv, World, Inv, ClientInv
    <3> DEFINE y == <<m.seq, m.id>>
    <3>3. y \in issued /\ y[2] = x[2] /\ y[1] = m.seq
      BY <1>4, <3>1
    <3> HIDE DEF y
    <3>4. y[1] = x[1]
      BY <3>2, <3>3, IssuedFacts DEF OrderInv
    <3> QED
      BY <3>1, <3>3, <3>4
  <2> QED
    BY <1>1, <1>3, <2>1, <2>2 DEF should_process
<1>7. DueSeqs' = DueSeqs
  BY <1>2, StillFacts
<1>8. PlaceInv' /\ Position' = Position /\ Position = client.cursor
  BY <1>1, <1>7, PlaceStays DEF OrderInv, Position
<1> HIDE DEF m
<1>9. \A r \in DueSeqs : Position' < r /\ Brings(Head(wire), r) => r \in gapped'
  BY <1>3, <1>4, <1>5, <1>6, <1>8 DEF Brings
<1> QED
  BY <1>1, <1>2, <1>4, <1>5, <1>8, <1>9, TakeOrder

LEMMA ClientGapOrder ==
  ASSUME World, World', OrderInv, ClientGap
  PROVE  OrderInv'
<1>1. /\ wire # <<>> /\ client.busy = NoEvent /\ Head(wire).kind = "replay_gap"
      /\ gapped' = gapped \cup (Head(wire).seq + 1)..(Head(wire).id - 1)
      /\ wire' = Tail(wire) /\ UNCHANGED <<conn, queue, client, saved, handled, wanted>>
  BY DEF ClientGap, Receives, clientVars
<1>2. Still
  BY DEF ClientGap, Still
<1>3. Head(wire) = wire[1] /\ 1 \in 1..Len(wire)
  BY <1>1, TailFacts
<1>4. Head(wire) \in Msgs
  BY <1>3, SentFacts DEF OrderInv
<1>5. Head(wire).seq \in Nat /\ Head(wire).id \in Nat /\ client.cursor \in Nat /\ DueSeqs \subseteq Nat
  BY <1>4, ClientFacts, IssuedFacts DEF Msgs, OrderInv
<1>6. DueSeqs' = DueSeqs
  BY <1>2, StillFacts
<1>7. PlaceInv' /\ Position' = Position /\ Position = client.cursor
  BY <1>1, <1>6 DEF OrderInv, PlaceInv, Position, NoEvent
<1>8. \A r \in DueSeqs : Position' < r /\ Brings(Head(wire), r) => r \in gapped'
  BY <1>1, <1>5 DEF Brings
<1> QED
  BY <1>1, <1>2, <1>5, <1>7, <1>8, TakeOrder

LEMMA ClientReplayedOrder ==
  ASSUME World, World', OrderInv, ClientReplayed
  PROVE  OrderInv'
<1>1. /\ wire # <<>> /\ client.busy = NoEvent /\ Head(wire).kind = "replayed"
      /\ wire' = Tail(wire) /\ UNCHANGED <<conn, queue, client, saved, handled, gapped, wanted>>
  BY DEF ClientReplayed, Receives, clientVars, histVars
<1>2. Still
  BY DEF ClientReplayed, Still, histVars
<1>3. DueSeqs' = DueSeqs
  BY <1>2, StillFacts
<1>4. PlaceInv' /\ Position' = Position /\ Position \in Nat
  BY <1>1, <1>3, PlaceStays, ClientFacts DEF OrderInv
<1>5. \A r \in DueSeqs : Position' < r /\ Brings(Head(wire), r) => r \in gapped'
  BY <1>1 DEF Brings
<1> QED
  BY <1>1, <1>2, <1>4, <1>5, TakeOrder

\* The session ends, or the client starts again: nothing is on the wire.
LEMMA ClientLeavesOrder ==
  ASSUME World, World', OrderInv, ClientLagged \/ ClientCrash
  PROVE  OrderInv' /\ client'.cursor = client.cursor
<1>1. /\ conn' = NoConn /\ queue' = NewQueue /\ wire' = <<>>
      /\ UNCHANGED <<saved, handled, gapped>>
  BY DEF ClientLagged, AfterLagged, ClientCrash, histVars
<1>2. Still
  BY DEF ClientLagged, ClientCrash, Still, histVars
<1>3. client \in Clients /\ saved = client.cursor
  BY ClientFacts DEF OrderInv, PlaceInv
<1>4. CleanInv' /\ WantInv' /\ FirstInv' /\ DueSeqs' = DueSeqs
  BY <1>2, StillFacts
<1>5. QueueInv' /\ queue'.frames = <<>> /\ WayInv' /\ ReadInv'
  BY <1>1, GoneFacts
<1>6. SentInv' /\ WireInv'
  BY <1>1, <1>5 DEF SentInv, WireInv, WireOK
<1>7. CASE ClientLagged
  <2>1. /\ client'.cursor = client.cursor /\ client'.seen = client.seen
        /\ client'.busy = client.busy
    BY <1>3, <1>7 DEF ClientLagged, AfterLagged, Hangs, Clients
  <2>2. PlaceInv'
    BY <1>1, <1>4, <2>1, PlaceStays DEF OrderInv
  <2> QED
    BY <1>4, <1>5, <1>6, <2>1, <2>2 DEF OrderInv
<1>8. CASE ClientCrash
  <2>1. client'.cursor = client.cursor /\ client'.seen = <<>> /\ client'.busy = NoEvent
    BY <1>3, <1>8 DEF ClientCrash, NewClient
  <2>2. ToSet(client'.seen) = {}
    BY <2>1 DEF ToSet
  <2>3. PlaceInv'
    BY <1>1, <1>3, <2>1, <2>2 DEF PlaceInv, NoEvent
  <2> QED
    BY <1>4, <1>5, <1>6, <2>1, <2>3 DEF OrderInv
<1> QED
  BY <1>7, <1>8

LEMMA ClientDisconnectedOrder ==
  ASSUME World, World', OrderInv, ClientDisconnected
  PROVE  OrderInv'
<1>1. /\ client' = Hangs(client) /\ conn.phase = "none" /\ wire = <<>>
      /\ UNCHANGED <<conn, queue, wire, saved, handled, gapped>>
  BY DEF ClientDisconnected, connVars, histVars
<1>2. Still
  BY DEF ClientDisconnected, Still, histVars
<1>3. client \in Clients
  BY ClientFacts
<1>4. client'.cursor = client.cursor /\ client'.seen = client.seen /\ client'.busy = client.busy
  BY <1>1, <1>3 DEF Hangs, Clients
<1>5. /\ DueSeqs' = DueSeqs /\ CleanInv' /\ WantInv' /\ FirstInv' /\ wanted' = wanted /\ job' = job
      /\ \A t \in Tasks : Unpushed(t)' <=> Unpushed(t)
  BY <1>2, StillFacts
<1>6. PlaceInv'
  BY <1>1, <1>4, <1>5, PlaceStays DEF OrderInv
<1>7. QueueInv' /\ SentInv' /\ WireInv'
  BY <1>1, <1>5 DEF OrderInv, QueueInv, SentInv, WireInv, WireOK
<1>8. WayInv' /\ ReadInv'
  BY <1>1 DEF WayInv, ReadInv, Reading
<1> QED
  BY <1>5, <1>6, <1>7, <1>8 DEF OrderInv

\* What the client remembers after an event is what it remembered and the event.
LEMMA RememberFacts ==
  ASSUME NEW seen \in Seq(Nat), NEW i \in Nat
  PROVE  ToSet(Remember(seen, i)) \subseteq ToSet(seen) \cup {i}
<1> DEFINE all == IF i \in ToSet(seen) THEN seen ELSE Append(seen, i)
<1>1. all \in Seq(Nat) /\ \A j \in 1..Len(all) : all[j] \in ToSet(seen) \cup {i}
  <2>1. \A j \in 1..Len(seen) : seen[j] \in ToSet(seen)
    BY DEF ToSet
  <2>2. CASE i \in ToSet(seen)
    BY <2>1, <2>2
  <2>3. CASE i \notin ToSet(seen)
    <3> DEFINE u == Append(seen, i)
    <3>1. /\ u \in Seq(Nat) /\ Len(u) = Len(seen) + 1 /\ u[Len(seen) + 1] = i
          /\ \A j \in 1..Len(seen) : u[j] = seen[j]
      OBVIOUS
    <3>2. all = u
      BY <2>3
    <3> HIDE DEF u, all
    <3>3. \A j \in 1..Len(u) : j \in 1..Len(seen) \/ j = Len(seen) + 1
      BY <3>1
    <3> QED
      BY <2>1, <3>1, <3>2, <3>3
  <2> QED
    BY <2>2, <2>3
<1> HIDE DEF all
<1>2. Len(all) > 0 => \A j \in 1..Len(Tail(all)) : Tail(all)[j] = all[j + 1] /\ j + 1 \in 1..Len(all)
  BY <1>1
<1>3. Remember(seen, i) = all \/ (Len(all) > 0 /\ Remember(seen, i) = Tail(all))
  <2> DEFINE cap == IF DedupCapacity > 1 THEN DedupCapacity ELSE 1
  <2>1. Remember(seen, i) = IF Len(all) > cap THEN Tail(all) ELSE all
    BY DEF Remember, all
  <2>2. cap \in Nat /\ cap > 0 /\ Len(all) \in Nat
    BY <1>1, DurableAssumption
  <2> HIDE DEF cap
  <2> QED
    BY <2>1, <2>2
<1>4. \A v : DOMAIN v = 1..Len(v) /\ (\A j \in 1..Len(v) : v[j] \in ToSet(seen) \cup {i}) =>
               ToSet(v) \subseteq ToSet(seen) \cup {i}
  BY DEF ToSet
<1>5. CASE Remember(seen, i) = all
  <2>1. DOMAIN all = 1..Len(all)
    BY <1>1
  <2> QED
    BY <1>1, <1>4, <1>5, <2>1
<1>6. CASE Len(all) > 0 /\ Remember(seen, i) = Tail(all)
  <2>1. DOMAIN Tail(all) = 1..Len(Tail(all))
    BY <1>1, <1>6
  <2>2. \A j \in 1..Len(Tail(all)) : Tail(all)[j] \in ToSet(seen) \cup {i}
    BY <1>1, <1>2, <1>6
  <2> QED
    BY <1>4, <1>6, <2>1, <2>2
<1> QED
  BY <1>3, <1>5, <1>6

LEMMA ClientRecordOrder ==
  ASSUME World, World', OrderInv, ClientRecord
  PROVE  /\ OrderInv' /\ client'.cursor = client.busy.seq /\ client.busy # NoEvent
         /\ <<client.busy.seq, client.busy.id>> \in handled /\ UNCHANGED <<handled, gapped, DueSeqs>>
<1> DEFINE e == client.busy
           seen == Remember(client.seen, e.id)
<1>1. /\ e # NoEvent /\ client.returned /\ saved' = Advanced(client.cursor, e.seq)
      /\ client' = [client EXCEPT !.cursor = Advanced(client.cursor, e.seq), !.busy = NoEvent,
                                  !.returned = FALSE, !.seen = seen]
      /\ UNCHANGED <<conn, queue, wire, handled, gapped>>
  BY DEF ClientRecord, Done, connVars, histVars
<1>0. <<e.seq, e.id>> \in handled
  BY <1>1 DEF World, Inv, ClientInv, InHand
<1>2. Still
  BY DEF ClientRecord, Still, histVars
<1>3. client \in Clients /\ e.seq \in Nat /\ e.id \in Nat /\ client.cursor \in Nat
      /\ client.seen \in Seq(Nat)
  BY ClientFacts
<1>4. e.seq > client.cursor /\ saved = client.cursor
  BY <1>1 DEF OrderInv, PlaceInv
<1>5. Advanced(client.cursor, e.seq) = e.seq
  BY <1>4 DEF Advanced
<1>6. client'.cursor = e.seq /\ client'.busy = NoEvent /\ client'.seen = seen /\ saved' = e.seq
  BY <1>1, <1>3, <1>5 DEF Clients
<1>7. /\ DueSeqs' = DueSeqs /\ CleanInv' /\ WantInv' /\ FirstInv' /\ wanted' = wanted /\ job' = job
      /\ up' = up /\ \A t \in Tasks : Unpushed(t)' <=> Unpushed(t)
      /\ \A r : Owed(r)' <=> Owed(r)
  BY <1>2, StillFacts
<1>8. Position' = Position
  BY <1>1, <1>6 DEF Position, NoEvent
<1>9. PlaceInv'
  <2>1. <<e.seq, e.id>> \in handled
    BY <1>0
  <2>2. ToSet(seen) \subseteq ToSet(client.seen) \cup {e.id}
    BY <1>3, RememberFacts
  <2>3. ASSUME NEW n \in ToSet(seen) PROVE \E x \in handled : x[2] = n /\ x[1] <= e.seq
    <3>1. CASE n = e.id
      <4> DEFINE x == <<e.seq, e.id>>
      <4>1. x \in handled /\ x[2] = n /\ x[1] <= e.seq
        BY <1>3, <2>1, <3>1
      <4> QED
        BY <4>1
    <3>2. CASE n \in ToSet(client.seen)
      <4>1. PICK x \in handled : x[2] = n /\ x[1] <= client.cursor
        BY <3>2 DEF OrderInv, PlaceInv
      <4>2. x[1] \in Nat
        BY <4>1, IssuedFacts DEF OrderInv, World, Inv, ClientInv
      <4>3. x[1] <= e.seq
        BY <1>3, <1>4, <4>1, <4>2
      <4> QED
        BY <4>1, <4>3
    <3> QED
      BY <2>2, <3>1, <3>2
  <2> QED
    BY <1>1, <1>6, <2>3 DEF PlaceInv, NoEvent
<1>10. QueueInv' /\ SentInv' /\ WireInv'
  BY <1>1, <1>7, <1>8 DEF OrderInv, QueueInv, SentInv, WireInv
<1>11. WayInv'
  BY <1>1, <1>7, <1>8 DEF OrderInv, WayInv, Lagging, OnWay
<1>12. conn.phase \notin {"opened", "subscribed", "floor", "head"}
  BY <1>1 DEF OrderInv, ReadInv
<1>13. ReadInv'
  BY <1>1, <1>7, <1>12 DEF OrderInv, ReadInv, Reading
<1> QED
  BY <1>0, <1>1, <1>6, <1>7, <1>9, <1>10, <1>11, <1>13 DEF OrderInv

-----------------------------------------------------------------------------
(* The log moves: steps of the fan-outs, the pruner and the clock *)

Untouched == UNCHANGED <<conn, queue, wire, client, saved, handled, gapped>>

\* A task's numbers.
LEMMA JobFacts ==
  ASSUME World, NEW t \in Tasks
  PROVE  /\ t \in LP!Procs /\ t # Pruner /\ job \in [LP!Procs -> LP!Job]
         /\ pc \in [LP!Procs -> LP!PcValues]
         /\ job[t] \in LP!Job /\ job[t].base \in Nat /\ Len(job[t].batch) \in Nat
         /\ DOMAIN job[t].batch = 1..Len(job[t].batch)
         /\ \A i \in 1..Len(job[t].batch) : job[t].batch[i].id \in 1..begun
                                            /\ job[t].batch[i].ev \in Events
<1>1. /\ t \in LP!Procs /\ t # Pruner /\ job \in [LP!Procs -> LP!Job]
      /\ pc \in [LP!Procs -> LP!PcValues]
  BY LogAssumed DEF World, LP!Inv, LP!TypeOK, LP!Procs, LP!LogAssumption
<1>2. job[t] \in LP!Job /\ job[t].base \in Nat /\ job[t].batch \in Seq(LP!Stamped)
  BY <1>1 DEF LP!Job
<1>3. Len(job[t].batch) \in Nat /\ DOMAIN job[t].batch = 1..Len(job[t].batch)
  BY <1>2
<1>4. \A i \in 1..Len(job[t].batch) : job[t].batch[i] \in LP!Stamped
  BY <1>2
<1>5. \A i \in 1..Len(job[t].batch) : job[t].batch[i].ev \in Events
  BY <1>4 DEF LP!Stamped
<1>6. \A i \in 1..Len(job[t].batch) : job[t].batch[i].id \in 1..begun
  BY <1>3 DEF World, Inv, IdInv
<1> QED
  BY <1>1, <1>2, <1>3, <1>5, <1>6

\* What the connection and the client hold stays in order when new events come
\* after all the old ones and are owed.
LEMMA LogMoves ==
  ASSUME World, World', OrderInv, Untouched, CleanInv', WantInv', FirstInv', ~up' => ~up,
         wanted \subseteq wanted', DueSeqs \subseteq DueSeqs',
         \A r \in DueSeqs' \ DueSeqs : Owed(r)' /\ \A x \in issued : x[1] < r,
         \A r \in DueSeqs : Owed(r) => Owed(r)',
         \A t \in Tasks : Unpushed(t)' =>
           \/ Unpushed(t) /\ job'[t].base = job[t].base
           \/ \A x \in issued : x[1] <= job'[t].base,
         Reading => \A x \in issued' : x[1] < conn.floor \/ x[1] \in DOMAIN rows'
  PROVE  OrderInv'
<1>0. UNCHANGED <<conn, queue, wire, client, saved, handled, gapped>> /\ CleanInv
  BY DEF Untouched, OrderInv
<1>1. SentInv'
  BY <1>0 DEF OrderInv, SentInv
<1>2. \A j \in 1..Len(queue.frames) : \E x \in issued : x[1] = queue.frames[j].seq
  <2> SUFFICES ASSUME NEW j \in 1..Len(queue.frames)
               PROVE  \E x \in issued : x[1] = queue.frames[j].seq
    OBVIOUS
  <2> DEFINE x == <<queue.frames[j].seq, queue.frames[j].id>>
  <2>1. x \in issued /\ x[1] = queue.frames[j].seq
    BY SentFacts DEF OrderInv
  <2> QED
    BY <2>1
<1>3. QueueInv'
  BY <1>0, <1>2 DEF OrderInv, QueueInv
<1>4. DueSeqs \subseteq Nat /\ DueSeqs' \subseteq Nat
  <2>1. DueSeqs \subseteq Nat
    BY <1>0, IssuedFacts
  <2>2. DueSeqs' \subseteq Nat
    BY DEF World, LP!Inv, LP!TypeOK, LP!Seqs, DueSeqs, Due
  <2> QED
    BY <2>1, <2>2
<1>5. \A r \in DueSeqs' \ DueSeqs : \A x \in issued : x[1] < r /\ x[1] \in Nat /\ r \in Nat
  BY <1>0, <1>4, IssuedFacts
<1>6. Position' = Position /\ Position \in Nat /\ client.busy.seq \in Nat
  BY <1>0, ClientFacts DEF Position, NoEvent
<1>7. PlaceInv'
  <2>1. ASSUME client.busy # NoEvent, NEW r \in DueSeqs', client.cursor < r, r < client.busy.seq
        PROVE  r \in gapped
    <3>1. CASE r \in DueSeqs
      BY <2>1, <3>1 DEF OrderInv, PlaceInv
    <3>2. CASE r \notin DueSeqs
      <4> DEFINE x == <<client.busy.seq, client.busy.id>>
      <4>1. x \in issued /\ x[1] = client.busy.seq
        BY <1>0, <2>1, IssuedFacts DEF World, Inv, ClientInv, InHand
      <4>2. client.busy.seq < r /\ r \in Nat
        BY <1>5, <3>2, <4>1
      <4> QED
        BY <1>6, <2>1, <4>2
    <3> QED
      BY <3>1, <3>2
  <2> QED
    BY <1>0, <2>1 DEF OrderInv, PlaceInv, NoEvent
<1>8. WireInv'
  <2>1. wire \in Seq(Msgs)
    BY <1>0, SentFacts DEF OrderInv
  <2>2. ASSUME NEW r \in DueSeqs' \ DueSeqs, NEW i \in 1..Len(wire), wire[i].kind = "event"
        PROVE  wire[i].seq <= r
    <3> DEFINE x == <<wire[i].seq, wire[i].id>>
    <3>1. x \in issued /\ x[1] = wire[i].seq
      BY <1>0, <2>2, SentFacts DEF OrderInv
    <3>2. x[1] < r /\ x[1] \in Nat /\ r \in Nat
      BY <1>5, <3>1
    <3> QED
      BY <3>1, <3>2
  <2>3. WireOK(wire, Position, DueSeqs, gapped)
    BY DEF OrderInv, WireInv
  <2>4. WireOK(wire, Position, DueSeqs', gapped)
    <3> DEFINE p == Position
               D == DueSeqs
               E == DueSeqs'
    <3>1. p \in Nat /\ p <= p /\ D \subseteq Nat /\ E \subseteq Nat
      BY <1>4, <1>6
    <3>2. /\ WireOK(wire, p, D, gapped)
          /\ \A r \in E \ D : \A i \in 1..Len(wire) : wire[i].kind = "event" => wire[i].seq <= r
      BY <2>2, <2>3
    <3> HIDE DEF p, D, E
    <3>3. WireOK(wire, p, E, gapped)
      BY <2>1, <3>1, <3>2, WireMoves
    <3> QED
      BY <3>3 DEF p, E
  <2> QED
    BY <1>0, <1>6, <2>4 DEF WireInv
<1>9. WayInv'
  <2> SUFFICES ASSUME conn.phase \in {"head", "live"}, ~Lagging, NEW r \in DueSeqs', Position < r
               PROVE  OnWay(r)'
    BY <1>0, <1>6 DEF WayInv, Lagging
  <2>1. CASE r \in DueSeqs
    BY <1>0, <2>1 DEF OrderInv, WayInv, OnWay
  <2>2. CASE r \notin DueSeqs
    BY <2>2 DEF OnWay
  <2> QED
    BY <2>1, <2>2
<1>10. ReadInv'
  BY <1>0 DEF OrderInv, ReadInv, Reading
<1> QED
  BY <1>1, <1>3, <1>7, <1>8, <1>9, <1>10 DEF OrderInv

\* The same for a step that commits nothing and begins nothing.
LEMMA LogShifts ==
  ASSUME World, World', OrderInv, Untouched, FirstInv', ~up' => ~up,
         UNCHANGED <<wanted, unlogged, issued, lostHead>>,
         \A t \in Tasks : Unpushed(t)' <=> Unpushed(t),
         \A t \in Tasks : job'[t].batch = job[t].batch,
         \A t \in Tasks : Unpushed(t) => job'[t].base = job[t].base,
         DOMAIN rows' \subseteq DOMAIN rows, \A s \in DOMAIN rows' : rows'[s] = rows[s],
         Reading => rows' = rows
  PROVE  OrderInv'
<1>1. DueSeqs' = DueSeqs
  BY DEF DueSeqs, Due
<1>2. CleanInv' /\ WantInv'
  BY DEF OrderInv, CleanInv, WantInv
<1>3. \A r \in DueSeqs : Owed(r) => Owed(r)'
  BY DEF Owed
<1>4. Reading => \A x \in issued' : x[1] < conn.floor \/ x[1] \in DOMAIN rows'
  BY DEF OrderInv, ReadInv
<1> QED
  BY <1>1, <1>2, <1>3, <1>4, LogMoves

LEMMA FanoutBeginOrder ==
  ASSUME World, World', OrderInv, NEW t \in Tasks, FanoutBegin(t)
  PROVE  OrderInv' /\ DueSeqs' = DueSeqs
<1>1. PICK n \in 1..MaxBatch : \E batch \in [1..n -> Events] :
        /\ Log!AppendCall(t, batch)
        /\ wanted' = wanted \cup {begun + i : i \in {j \in 1..n : batch[j] \in Matching}}
  BY DEF FanoutBegin
<1>2. PICK batch \in [1..n -> Events] :
        /\ Log!AppendCall(t, batch)
        /\ wanted' = wanted \cup {begun + i : i \in {j \in 1..n : batch[j] \in Matching}}
  BY <1>1
<1> DEFINE stamped == [i \in DOMAIN batch |-> [id |-> begun + i, ev |-> batch[i]]]
           new == [Log!NoJob EXCEPT !.ts = now, !.batch = stamped]
<1>3. /\ pc[t] = "idle" /\ pc' = [pc EXCEPT ![t] = "waiting"] /\ job' = [job EXCEPT ![t] = new]
      /\ UNCHANGED <<rows, issued, lostHead, head, floor, up>>
  BY <1>2 DEF Log!AppendCall, Log!diskVars, Log!atomics
<1>4. Untouched /\ unlogged' = unlogged
  BY DEF FanoutBegin, Untouched, connVars, clientVars
<1>5. /\ job \in [LP!Procs -> LP!Job] /\ pc \in [LP!Procs -> LP!PcValues] /\ t \in LP!Procs
      /\ Tasks \subseteq LP!Procs
  BY JobFacts DEF LP!Procs
<1>6. /\ job'[t].batch = stamped /\ pc'[t] = "waiting"
      /\ \A u \in Tasks \ {t} : job'[u] = job[u] /\ pc'[u] = pc[u]
  <2>1. new.batch = stamped
    BY DEF Log!NoJob
  <2> HIDE DEF new
  <2> QED
    BY <1>3, <1>5, <2>1
<1>7. /\ n \in Nat /\ begun \in Nat /\ wanted \subseteq 1..begun
      /\ DOMAIN batch = 1..n
  BY <1>2, DurableAssumption DEF World, Inv, LogInv, ClientInv
<1>8. ASSUME NEW a \in 1..begun PROVE a \in wanted' <=> a \in wanted
  BY <1>2, <1>7
<1>9. \A i \in 1..n : begun + i \in wanted' <=> batch[i] \in Matching
  <2> SUFFICES ASSUME NEW i \in 1..n PROVE begun + i \in wanted' <=> batch[i] \in Matching
    OBVIOUS
  <2>1. begun + i \notin wanted
    BY <1>7
  <2>2. ASSUME NEW j \in 1..n, begun + i = begun + j PROVE i = j
    BY <1>7, <2>2
  <2> QED
    BY <1>2, <2>1, <2>2
<1>10. \A x \in issued : x[2] \in 1..begun
  BY <1>7, IssuedFacts DEF OrderInv
<1>11. DueSeqs' = DueSeqs
  BY <1>3, <1>8, <1>10 DEF DueSeqs, Due
<1>12. WantInv'
  <2>1. \A s \in DOMAIN rows : rows[s].ev \in Matching <=> rows[s].id \in wanted'
    <3> SUFFICES ASSUME NEW s \in DOMAIN rows
                 PROVE  rows[s].ev \in Matching <=> rows[s].id \in wanted'
      OBVIOUS
    <3> DEFINE x == <<s, rows[s].id>>
    <3>1. x \in issued /\ (rows[s].ev \in Matching <=> rows[s].id \in wanted)
      BY RowFacts
    <3>2. rows[s].id \in 1..begun
      BY <1>10, <3>1
    <3> QED
      BY <1>8, <3>1, <3>2
  <2>2. ASSUME NEW u \in Tasks, NEW i \in DOMAIN job'[u].batch
        PROVE  job'[u].batch[i].ev \in Matching <=> job'[u].batch[i].id \in wanted'
    <3>1. CASE u = t
      <4>1. i \in 1..n /\ job'[u].batch[i] = [id |-> begun + i, ev |-> batch[i]]
        BY <1>6, <1>7, <2>2, <3>1
      <4>2. job'[u].batch[i].id = begun + i /\ job'[u].batch[i].ev = batch[i]
        BY <4>1
      <4> QED
        BY <1>9, <4>1, <4>2
    <3>2. CASE u # t
      <4>1. job'[u] = job[u] /\ i \in DOMAIN job[u].batch
        BY <1>6, <2>2, <3>2
      <4>2. job[u].batch[i].id \in 1..begun
        BY <4>1, JobFacts
      <4> QED
        BY <1>8, <4>1, <4>2 DEF OrderInv, WantInv
    <3> QED
      BY <3>1, <3>2
  <2> QED
    BY <1>3, <2>1, <2>2 DEF WantInv
<1>13. \A u \in Tasks : /\ Unpushed(u)' <=> Unpushed(u)
                        /\ Unpushed(u) => job'[u] = job[u]
  BY <1>3, <1>6 DEF Unpushed
<1>14. FirstInv'
  BY <1>3, <1>6 DEF OrderInv, FirstInv
<1>15. CleanInv'
  BY <1>3, <1>4 DEF OrderInv, CleanInv
<1>16. \A r \in DueSeqs : Owed(r) => Owed(r)'
  BY <1>13 DEF Owed
<1>17. Reading => \A x \in issued' : x[1] < conn.floor \/ x[1] \in DOMAIN rows'
  BY <1>3 DEF OrderInv, ReadInv
<1>18. wanted \subseteq wanted' /\ (~up' => ~up)
  BY <1>2, <1>3
<1> QED
  BY <1>4, <1>11, <1>12, <1>13, <1>14, <1>15, <1>16, <1>17, <1>18, LogMoves

LEMMA LockOrder ==
  ASSUME World, World', OrderInv, NEW p \in LP!Procs, Log!Lock(p),
         Untouched, UNCHANGED <<wanted, unlogged>>
  PROVE  OrderInv'
<1>1. /\ pc[p] = "waiting" /\ pc' = [pc EXCEPT ![p] = "writing"]
      /\ job' = [job EXCEPT ![p].base = IF p = Pruner THEN 0 ELSE head]
      /\ UNCHANGED <<rows, issued, lostHead, head, floor, up>>
  BY DEF Log!Lock, Log!diskVars, Log!atomics, Log!envVars
<1>2. job \in [LP!Procs -> LP!Job] /\ pc \in [LP!Procs -> LP!PcValues] /\ Tasks \subseteq LP!Procs
  BY DEF World, LP!Inv, LP!TypeOK, LP!Procs
<1>3. /\ \A u \in Tasks : job'[u].batch = job[u].batch
      /\ \A u \in Tasks \ {p} : job'[u] = job[u] /\ pc'[u] = pc[u]
      /\ p \in Tasks => pc'[p] = "writing"
  BY <1>1, <1>2 DEF LP!Job
<1>4. \A u \in Tasks : /\ Unpushed(u)' <=> Unpushed(u)
                       /\ Unpushed(u) => job'[u].base = job[u].base
  BY <1>1, <1>3 DEF Unpushed
<1>5. FirstInv'
  BY <1>1, <1>3 DEF OrderInv, FirstInv
<1> QED
  BY <1>1, <1>3, <1>4, <1>5, LogShifts

\* While a task writes, every committed seq is at or below head, its base, and a
\* floor of zero means that nothing was ever committed.
LEMMA WritingFacts ==
  ASSUME World, OrderInv, NEW t \in Tasks, pc[t] = "writing"
  PROVE  /\ writer = t /\ up /\ job[t].base = head
         /\ \A u \in Tasks : pc[u] \notin {"committed", "publishing"}
         /\ \A x \in issued : x[1] <= job[t].base
         /\ floor = 0 => issued = {}
<1>1. LP!Inv /\ t \in LP!Procs /\ Tasks \subseteq LP!Procs /\ CleanInv
  BY JobFacts DEF World, OrderInv, LP!Procs
<1>2. writer = t /\ up
  BY <1>1 DEF LP!Inv, LP!MutexInv, LP!Holding
<1>3. \A u \in Tasks : pc[u] \notin {"committed", "publishing"}
  BY <1>1, <1>2 DEF LP!Inv, LP!MutexInv, LP!Holding
<1>4. job[t].base = head
  BY <1>1 DEF LP!Inv, LP!CallInv
<1>5. \A x \in issued : x[1] <= job[t].base
  BY <1>1, <1>2, <1>3, <1>4, HeadFacts
<1>6. DOMAIN rows = LP!Interval(floor, head)
  BY <1>1, <1>2 DEF LP!Inv, LP!TableInv
<1>7. floor = 0 => issued = {}
  BY <1>6 DEF LP!Interval, World, Calm
<1> QED
  BY <1>2, <1>3, <1>4, <1>5, <1>7

LEMMA AppendCommitOrder ==
  ASSUME World, World', OrderInv, NEW t \in Tasks, Log!AppendCommit(t),
         Untouched, UNCHANGED <<wanted, unlogged>>
  PROVE  /\ OrderInv' /\ DueSeqs \subseteq DueSeqs'
         /\ \A r \in DueSeqs' \ DueSeqs : \A s \in DueSeqs : s < r
<1> DEFINE base == job[t].base
           n == Len(job[t].batch)
           I == (base + 1)..(base + n)
           added == [s \in I |-> [id |-> job[t].batch[s - base].id,
                                  ev |-> job[t].batch[s - base].ev, ts |-> job[t].ts]]
<1>1. /\ pc[t] = "writing" /\ pc' = [pc EXCEPT ![t] = "committed"]
      /\ rows' = [s \in DOMAIN rows \cup DOMAIN added |->
                    IF s \in DOMAIN added THEN added[s] ELSE rows[s]]
      /\ issued' = issued \cup {<<s, added[s].id>> : s \in DOMAIN added}
      /\ UNCHANGED <<lostHead, head, floor, job, up>>
  BY DEF Log!AppendCommit, Log!atomics, Log!envVars
<1>2. /\ \A u \in Tasks : pc[u] \notin {"committed", "publishing"}
      /\ \A x \in issued : x[1] <= base
      /\ floor = 0 => issued = {}
  BY <1>1, WritingFacts
<1>3. /\ pc \in [LP!Procs -> LP!PcValues] /\ Tasks \subseteq LP!Procs
      /\ base \in Nat /\ n \in Nat /\ DOMAIN job[t].batch = 1..n
  BY JobFacts DEF LP!Procs
<1>4. pc'[t] = "committed" /\ \A u \in Tasks \ {t} : pc'[u] = pc[u]
  BY <1>1, <1>3
<1>5. /\ DOMAIN added = I /\ \A s \in I : s \in Nat /\ base < s /\ s <= base + n
      /\ \A s \in I : s - base \in 1..n
  BY <1>3
<1>6. \A s \in I : added[s].id = job[t].batch[s - base].id /\ added[s].ev = job[t].batch[s - base].ev
  BY <1>5
<1>7. /\ DOMAIN rows' = DOMAIN rows \cup I
      /\ \A s \in DOMAIN rows' : rows'[s] = IF s \in I THEN added[s] ELSE rows[s]
      /\ issued' = issued \cup {<<s, added[s].id>> : s \in I}
  BY <1>1, <1>5
<1> HIDE DEF added, I, base, n
<1>8. \A x \in issued' \ issued : x[1] \in I
  BY <1>7
<1>9. \A x \in issued : x[1] \in Nat
  BY IssuedFacts DEF OrderInv
<1>10. DueSeqs \subseteq DueSeqs'
  BY <1>7 DEF DueSeqs, Due
<1>11. \A r \in DueSeqs' \ DueSeqs : r \in I
  BY <1>8 DEF DueSeqs, Due
<1>12. \A r \in I : Owed(r)'
  BY <1>1, <1>4, <1>5 DEF Owed, Unpushed, base, n
<1>13. \A r \in I : \A x \in issued : x[1] < r
  BY <1>2, <1>3, <1>5, <1>9
<1>14. \A r \in DueSeqs : Owed(r) => Owed(r)'
  BY <1>1, <1>4 DEF Owed, Unpushed
<1>15. \A u \in Tasks : Unpushed(u)' => \/ Unpushed(u) /\ job'[u].base = job[u].base
                                        \/ \A x \in issued : x[1] <= job'[u].base
  BY <1>1, <1>2, <1>4 DEF Unpushed, base
<1>16. Reading => \A x \in issued' : x[1] < conn.floor \/ x[1] \in DOMAIN rows'
  BY <1>7, <1>8 DEF OrderInv, ReadInv
<1>17. FirstInv'
  <2> SUFFICES ASSUME NEW u \in Tasks, pc'[u] \in {"committed", "publishing"}, floor = 0,
                      NEW x \in issued'
               PROVE  x[1] > job[u].base
    BY <1>1 DEF FirstInv
  <2>1. u = t /\ x[1] \in I
    BY <1>2, <1>4, <1>8
  <2> QED
    BY <1>3, <1>5, <2>1 DEF base
<1>18. WantInv'
  <2>1. ASSUME NEW s \in DOMAIN rows'
        PROVE  rows'[s].ev \in Matching <=> rows'[s].id \in wanted
    <3>1. CASE s \in I
      <4>1. rows'[s] = added[s] /\ s - base \in DOMAIN job[t].batch
        BY <1>3, <1>5, <1>7, <3>1
      <4> QED
        BY <1>6, <3>1, <4>1 DEF OrderInv, WantInv
    <3>2. CASE s \notin I
      BY <1>7, <3>2 DEF OrderInv, WantInv
    <3> QED
      BY <3>1, <3>2
  <2> QED
    BY <1>1, <2>1 DEF OrderInv, WantInv
<1>19. CleanInv' /\ (~up' => ~up) /\ wanted \subseteq wanted'
  BY <1>1 DEF OrderInv, CleanInv
<1>20. \A r \in DueSeqs' \ DueSeqs : Owed(r)' /\ \A x \in issued : x[1] < r
  BY <1>11, <1>12, <1>13
<1>21. OrderInv'
  BY <1>10, <1>14, <1>15, <1>16, <1>17, <1>18, <1>19, <1>20, LogMoves
<1>22. \A r \in DueSeqs' \ DueSeqs : \A s \in DueSeqs : s < r
  BY <1>20 DEF DueSeqs, Due
<1> QED
  BY <1>10, <1>21, <1>22

LEMMA StoresOrder ==
  ASSUME World, World', OrderInv, NEW t \in Tasks, Log!StoreHead(t) \/ Log!StoreFloor(t),
         Untouched, UNCHANGED <<wanted, unlogged>>
  PROVE  OrderInv'
<1>1. UNCHANGED <<rows, issued, lostHead, job, up>>
  BY DEF Log!StoreHead, Log!StoreFloor, Log!diskVars, Log!envVars
<1>2. pc \in [LP!Procs -> LP!PcValues] /\ Tasks \subseteq LP!Procs
  BY JobFacts DEF LP!Procs
<1>3. /\ Unpushed(t) /\ pc'[t] \in {"publishing", "ok"}
      /\ \A u \in Tasks \ {t} : pc'[u] = pc[u]
  BY <1>2 DEF Log!StoreHead, Log!StoreFloor, Unpushed
<1>4. \A u \in Tasks : Unpushed(u)' <=> Unpushed(u)
  BY <1>3 DEF Unpushed
<1>5. FirstInv'
  <2>1. CASE Log!StoreHead(t)
    <3>1. floor' = floor /\ pc[t] = "committed"
      BY <2>1 DEF Log!StoreHead
    <3> QED
      BY <1>1, <1>3, <3>1 DEF OrderInv, FirstInv
  <2>2. CASE Log!StoreFloor(t)
    <3>1. writer' = Nobody
      BY <2>2 DEF Log!StoreFloor
    <3>2. \A u \in Tasks : pc'[u] \notin {"committed", "publishing"}
      <4>1. \A u \in LP!Procs : u # Nobody
        BY LogAssumed DEF LP!LogAssumption
      <4>2. \A u \in LP!Procs : pc'[u] \in {"writing", "committed", "publishing"} <=> writer' = u
        BY DEF World, LP!Inv, LP!MutexInv, LP!Holding
      <4> QED
        BY <1>2, <3>1, <4>1, <4>2
    <3> QED
      BY <3>2 DEF FirstInv
  <2> QED
    BY <2>1, <2>2
<1> QED
  BY <1>1, <1>4, <1>5, LogShifts

LEMMA PruneOrder ==
  ASSUME World, World', OrderInv, Untouched, UNCHANGED <<wanted, unlogged>>,
         Log!PruneCall \/ Log!PruneFail \/ Log!PruneStore \/ Log!PruneCommit
  PROVE  OrderInv'
<1>1. UNCHANGED <<issued, lostHead, up>>
  BY DEF Log!PruneCall, Log!PruneFail, Log!PruneStore, Log!PruneCommit, Log!diskVars, Log!envVars
<1>2. /\ job \in [LP!Procs -> LP!Job] /\ pc \in [LP!Procs -> LP!PcValues]
      /\ Tasks \subseteq LP!Procs /\ Pruner \in LP!Procs /\ Pruner \notin Tasks
  BY LogAssumed DEF World, LP!Inv, LP!TypeOK, LP!Procs, LP!LogAssumption
<1>3. \A u \in Tasks : pc'[u] = pc[u] /\ job'[u] = job[u]
  BY <1>2 DEF Log!PruneCall, Log!PruneFail, Log!PruneStore, Log!PruneCommit
<1>4. /\ DOMAIN rows' \subseteq DOMAIN rows /\ \A s \in DOMAIN rows' : rows'[s] = rows[s]
      /\ Reading => rows' = rows
  <2>1. CASE Log!PruneCall \/ Log!PruneFail \/ Log!PruneStore
    BY <2>1 DEF Log!PruneCall, Log!PruneFail, Log!PruneStore, Log!diskVars
  <2>2. CASE Log!PruneCommit
    <3>1. \E S : rows' = Log!Only(rows, DOMAIN rows \ S)
      BY <2>2 DEF Log!PruneCommit
    <3>2. DOMAIN rows' \subseteq DOMAIN rows /\ \A s \in DOMAIN rows' : rows'[s] = rows[s]
      BY <3>1 DEF Log!Only
    <3>3. pc'[Pruner] = "committed"
      BY <1>2, <2>2 DEF Log!PruneCommit
    <3>4. ~Reading
      BY <3>3 DEF World, Calm, Reading, Untouched
    <3> QED
      BY <3>2, <3>4
  <2> QED
    BY <2>1, <2>2
<1>5. FirstInv'
  <2>1. CASE floor' = floor
    BY <1>1, <1>3, <2>1 DEF OrderInv, FirstInv
  <2>2. CASE Log!PruneStore
    <3>1. pc[Pruner] = "committed"
      BY <2>2 DEF Log!PruneStore
    <3>2. \A u \in LP!Procs : pc[u] \in {"writing", "committed", "publishing"} <=> writer = u
      BY DEF World, LP!Inv, LP!MutexInv, LP!Holding
    <3>3. writer = Pruner
      BY <1>2, <3>1, <3>2
    <3>4. \A u \in Tasks : pc[u] \notin {"committed", "publishing"}
      BY <1>2, <3>2, <3>3
    <3> QED
      BY <1>3, <3>4 DEF FirstInv
  <2>3. CASE Log!PruneCall \/ Log!PruneFail \/ Log!PruneCommit
    BY <2>1, <2>3 DEF Log!PruneCall, Log!PruneFail, Log!PruneCommit, Log!atomics
  <2> QED
    BY <2>2, <2>3
<1>6. \A u \in Tasks : Unpushed(u)' <=> Unpushed(u)
  BY <1>3 DEF Unpushed
<1> QED
  BY <1>1, <1>3, <1>4, <1>5, <1>6, LogShifts

LEMMA ClockOrder ==
  ASSUME World, World', OrderInv, Untouched, UNCHANGED <<wanted, unlogged>>, Log!Clock
  PROVE  OrderInv'
<1>1. UNCHANGED <<issued, lostHead, up, rows, pc, job, floor>>
  BY DEF Log!Clock, Log!diskVars, Log!atomics, Log!callVars
<1>2. FirstInv' /\ \A u \in Tasks : Unpushed(u)' <=> Unpushed(u)
  BY <1>1 DEF OrderInv, FirstInv, Unpushed
<1> QED
  BY <1>1, <1>2, LogShifts

LEMMA OpenOrder ==
  ASSUME World, World', OrderInv, Untouched, UNCHANGED <<wanted, unlogged>>, Log!Open
  PROVE  OrderInv'
<1>1. UNCHANGED <<issued, pc, job>> /\ ~up /\ up'
      /\ lostHead' = (lostHead \/ (DOMAIN rows = {} /\ issued # {}))
      /\ \E S : rows' = Log!Only(rows, DOMAIN rows \ S)
  BY DEF Log!Open, Log!callVars
<1>2. lostHead' = lostHead
  BY <1>1 DEF World, Calm, OrderInv, CleanInv
<1>3. DOMAIN rows' \subseteq DOMAIN rows /\ \A s \in DOMAIN rows' : rows'[s] = rows[s]
  BY <1>1 DEF Log!Only
<1>4. ~Reading
  BY <1>1 DEF OrderInv, ReadInv, Reading
<1>5. \A u \in Tasks : pc[u] = "idle"
  BY <1>1 DEF World, LP!Inv, LP!MutexInv, LP!Procs
<1>6. FirstInv' /\ \A u \in Tasks : Unpushed(u)' <=> Unpushed(u)
  BY <1>1, <1>5 DEF FirstInv, Unpushed
<1> QED
  BY <1>1, <1>2, <1>3, <1>4, <1>6, LogShifts

LEMMA ServerCrashOrder ==
  ASSUME World, World', OrderInv, ServerCrash
  PROVE  OrderInv' /\ UNCHANGED <<DueSeqs, client, handled, gapped>>
<1>1. /\ conn' = NoConn /\ queue' = NewQueue
      /\ UNCHANGED <<client, saved, handled, gapped, wanted, unlogged>>
  BY DEF ServerCrash, clientVars, histVars
<1>2. /\ pc' = [p \in Log!Procs |-> "idle"] /\ job' = [p \in Log!Procs |-> Log!NoJob]
      /\ UNCHANGED <<rows, issued, lostHead>>
  BY DEF ServerCrash, Log!Crash, Log!diskVars
<1>3. PICK n \in 0..Len(wire) : wire' = SubSeq(wire, 1, n)
  BY DEF ServerCrash
<1>4. \A u \in Tasks : pc'[u] = "idle" /\ job'[u].batch = <<>>
  BY <1>2 DEF Log!Procs, Log!NoJob
<1>5. DueSeqs' = DueSeqs /\ CleanInv'
  BY <1>1, <1>2 DEF DueSeqs, Due, OrderInv, CleanInv
<1>6. WantInv' /\ FirstInv'
  BY <1>1, <1>2, <1>4 DEF OrderInv, WantInv, FirstInv
<1>7. PlaceInv' /\ Position' = Position
  BY <1>1, <1>5, PlaceStays DEF OrderInv
<1>8. QueueInv' /\ queue'.frames = <<>> /\ WayInv' /\ ReadInv'
  BY <1>1, GoneFacts
<1>9. SentInv'
  BY <1>1, <1>3, <1>8, PrefixSent DEF OrderInv
<1>10. WireInv'
  BY <1>1, <1>3, <1>5, <1>7, SentFacts, WirePrefix DEF OrderInv, WireInv
<1> QED
  BY <1>1, <1>5, <1>6, <1>7, <1>8, <1>9, <1>10 DEF OrderInv

\* The push of a batch that was persisted: all of it that the subscriber wants
\* is in the queue, or a drop was counted.
LEMMA PushOrder ==
  ASSUME World, OrderInv, NEW t \in Tasks, pc[t] = "ok"
  PROVE  LET p == PushAll(t)
         IN /\ p.lag \in Nat /\ Rising(p.frames)
            /\ \A j \in 1..Len(p.frames) : p.frames[j].id \in wanted
            /\ p.lag = 0 =>
                 /\ queue.lag = 0 /\ FrameSeqs(queue.frames) \subseteq FrameSeqs(p.frames)
                 /\ \A r \in DueSeqs : job[t].base < r /\ r <= job[t].base + Len(job[t].batch) =>
                                         r \in FrameSeqs(p.frames)
<1> DEFINE b == job[t].base
           n == Len(job[t].batch)
           p == PushAll(t)
<1>1. /\ n \in Nat /\ b \in Nat /\ DOMAIN job[t].batch = 1..n
      /\ \A i \in 1..n : job[t].batch[i].id \in 1..begun /\ job[t].batch[i].ev \in Events
  BY JobFacts
<1>2. \A i \in 1..n : FrameOf(t, i) \in SeqFrames
  <2>1. \A e \in Events : SizeOf[e] \in Nat
    BY DurableAssumption
  <2>2. \A i \in 1..n : job[t].batch[i].id \in Nat
    BY <1>1 DEF World, Inv, LogInv
  <2> QED
    BY <1>1, <2>1, <2>2 DEF FrameOf, QueueFrame, SeqFrames
<1>3. /\ queue \in QueueType(SeqFrames) /\ Rising(queue.frames)
      /\ \A j \in 1..Len(queue.frames) : queue.frames[j].id \in wanted
      /\ \A j \in 1..Len(queue.frames) : queue.frames[j].seq <= b
  BY SentFacts DEF OrderInv, SentInv, QueueInv, Unpushed
<1>4. \A i \in 1..n : job[t].batch[i].ev \in Matching <=> job[t].batch[i].id \in wanted
  BY <1>1 DEF OrderInv, WantInv
<1>5. /\ p \in QueueType(SeqFrames) /\ Rising(p.frames)
      /\ \A j \in 1..Len(p.frames) : p.frames[j].id \in wanted
      /\ p.lag = 0 =>
           /\ queue.lag = 0 /\ FrameSeqs(queue.frames) \subseteq FrameSeqs(p.frames)
           /\ \A i \in 1..n : job[t].batch[i].ev \in Matching => b + i \in FrameSeqs(p.frames)
  <2> HIDE DEF n, b
  <2> QED
    BY <1>1, <1>2, <1>3, <1>4, PushAllRising DEF n, b
<1>6. p.lag \in Nat
  BY <1>5 DEF QueueType
<1>7. ASSUME NEW r \in DueSeqs, b < r, r <= b + n
      PROVE  \E i \in 1..n : r = b + i /\ job[t].batch[i].ev \in Matching
  <2>1. r \in Nat
    BY IssuedFacts DEF OrderInv
  <2>2. PICK i \in 1..n : r = b + i
    <3>1. r - b \in 1..n /\ r = b + (r - b)
      BY <1>1, <1>7, <2>1
    <3> QED
      BY <3>1
  <2> DEFINE x == <<b + i, job[t].batch[i].id>>
  <2>3. x \in issued /\ x[1] = r
    BY <1>1, <2>2 DEF World, Inv, IdInv
  <2>4. PICK y \in issued : y[1] = r /\ y[2] \in wanted
    BY DEF DueSeqs, Due
  <2>5. x[2] = y[2]
    BY <2>3, <2>4, IssuedFacts DEF OrderInv
  <2>6. job[t].batch[i].id \in wanted
    BY <2>4, <2>5
  <2> QED
    BY <1>4, <2>2, <2>6
<1> HIDE DEF p, n, b
<1>8. p.lag = 0 => \A r \in DueSeqs : b < r /\ r <= b + n => r \in FrameSeqs(p.frames)
  BY <1>5, <1>7
<1> QED
  BY <1>5, <1>6, <1>8 DEF p, n, b

LEMMA FanoutPushOrder ==
  ASSUME World, World', OrderInv, NEW t \in Tasks, FanoutPush(t)
  PROVE  OrderInv' /\ UNCHANGED <<DueSeqs, client, handled, gapped>>
<1>1. pc[t] = "ok"
  BY DEF FanoutPush, World, Calm
<1>2. /\ queue' = IF Registered THEN PushAll(t) ELSE queue
      /\ UNCHANGED <<conn, wire, client, saved, wanted, handled, gapped, unlogged>>
  BY <1>1 DEF FanoutPush, clientVars
<1>3. /\ pc' = [pc EXCEPT ![t] = "idle"] /\ job' = [job EXCEPT ![t] = Log!NoJob]
      /\ UNCHANGED <<rows, issued, lostHead, floor, up>>
  BY DEF FanoutPush, Log!AppendReturn, Log!diskVars, Log!atomics, Log!envVars
<1>4. /\ job \in [LP!Procs -> LP!Job] /\ pc \in [LP!Procs -> LP!PcValues] /\ Tasks \subseteq LP!Procs
  BY JobFacts DEF LP!Procs
<1>5. /\ pc'[t] = "idle" /\ job'[t].batch = <<>>
      /\ \A u \in Tasks \ {t} : pc'[u] = pc[u] /\ job'[u] = job[u]
  BY <1>3, <1>4 DEF Log!NoJob
<1>6. DueSeqs' = DueSeqs /\ CleanInv' /\ WantInv' /\ FirstInv'
  BY <1>2, <1>3, <1>5 DEF DueSeqs, Due, OrderInv, CleanInv, WantInv, FirstInv
<1>7. \A u \in Tasks : ~Unpushed(u)' /\ (Unpushed(u) => u = t)
  BY <1>1, <1>5 DEF World, Calm, Unpushed
<1> DEFINE p == PushAll(t)
<1>8. /\ Rising(p.frames)
      /\ \A j \in 1..Len(p.frames) : p.frames[j].id \in wanted
      /\ p.lag = 0 =>
           /\ queue.lag = 0 /\ FrameSeqs(queue.frames) \subseteq FrameSeqs(p.frames)
           /\ \A r \in DueSeqs : job[t].base < r /\ r <= job[t].base + Len(job[t].batch) =>
                                   r \in FrameSeqs(p.frames)
  BY <1>1, PushOrder
<1> HIDE DEF p
<1>9. queue' = p \/ queue' = queue
  BY <1>2 DEF p
<1>10. QueueInv' /\ SentInv'
  BY <1>2, <1>7, <1>8, <1>9 DEF OrderInv, QueueInv, SentInv
<1>11. PlaceInv' /\ Position' = Position
  BY <1>2, <1>6, PlaceStays DEF OrderInv
<1>12. WireInv' /\ ReadInv'
  BY <1>2, <1>3, <1>6, <1>11 DEF OrderInv, WireInv, ReadInv, Reading
<1>13. WayInv'
  <2> SUFFICES ASSUME conn.phase \in {"head", "live"}, ~Lagging', NEW r \in DueSeqs, Position < r
               PROVE  OnWay(r)'
    BY <1>2, <1>6, <1>11 DEF WayInv
  <2>1. queue' = p
    BY <1>2 DEF Registered, p
  <2>2. p.lag = 0 /\ Lagless(wire, Len(wire))
    BY <1>2, <2>1 DEF Lagging
  <2>3. ~Lagging
    BY <1>8, <2>2 DEF Lagging
  <2>4. OnWay(r)
    BY <2>3 DEF OrderInv, WayInv
  <2>5. Owed(r) => r \in FrameSeqs(p.frames)
    BY <1>7, <1>8, <2>2 DEF Owed
  <2> QED
    BY <1>2, <1>8, <2>1, <2>2, <2>4, <2>5 DEF OnWay
<1> QED
  BY <1>2, <1>6, <1>10, <1>11, <1>12, <1>13 DEF OrderInv

-----------------------------------------------------------------------------
(* Every step is a step of the promise *)

LEMMA OrderInit ==
  ASSUME Init
  PROVE  OrderInv
<1>1. /\ issued = {} /\ rows = << >> /\ lostHead = FALSE /\ unlogged = {} /\ up = FALSE
      /\ pc = [p \in Log!Procs |-> "idle"] /\ job = [p \in Log!Procs |-> Log!NoJob]
      /\ conn = NoConn /\ queue = NewQueue /\ wire = <<>> /\ client = NewClient(0) /\ saved = 0
  BY DEF Init, Log!Init
<1>2. \A t \in Tasks : pc[t] = "idle" /\ job[t].batch = <<>>
  BY <1>1 DEF Log!Procs, Log!NoJob
<1>3. conn.phase = "none" /\ queue.frames = <<>>
  BY <1>1 DEF NoConn, NewQueue
<1>4. client.cursor = 0 /\ client.seen = <<>> /\ client.busy = NoEvent
  BY <1>1 DEF NewClient
<1>5. ToSet(client.seen) = {}
  BY <1>4 DEF ToSet
<1>6. CleanInv /\ WantInv /\ SentInv /\ FirstInv
  BY <1>1, <1>2, <1>3 DEF CleanInv, WantInv, SentInv, FirstInv
<1>7. QueueInv /\ PlaceInv /\ WireInv
  BY <1>1, <1>3, <1>4, <1>5 DEF QueueInv, Rising, PlaceInv, WireInv, WireOK
<1>8. WayInv /\ ReadInv
  BY <1>3 DEF WayInv, ReadInv, Reading
<1> QED
  BY <1>6, <1>7, <1>8 DEF OrderInv

\* What the promise sees of a step that it does not notice.
Unseen == UNCHANGED <<DueSeqs, handled, gapped>> /\ client'.cursor = client.cursor
LEMMA UnseenStep ==
  ASSUME Unseen
  PROVE  [Promise!Next]_Promise!aloVars
BY DEF Unseen, DueSeqs, Promise!aloVars

\* The connection's steps go unseen.
LEMMA ServerOrder ==
  ASSUME World, World', OrderInv, Server \/ LinkDrop
  PROVE  OrderInv' /\ Unseen
<1>1. OrderInv'
  BY SubscribeOrder, ReadFloorOrder, ReadHeadOrder, ReplayOrder, SendLiveOrder, LinkDropOrder
     DEF Server
<1>2. Still /\ UNCHANGED <<handled, gapped, client>>
  BY DEF Server, Subscribe, ReadFloor, ReadHead, Replay, SendLive, LinkDrop, Still, histVars,
         clientVars
<1>3. DueSeqs' = DueSeqs
  BY <1>2, StillFacts
<1> QED
  BY <1>1, <1>2, <1>3 DEF Unseen

\* The log's steps go unseen, but for a commit.
LEMMA LogOrder ==
  ASSUME World, World', OrderInv, PruneStarts \/ PruneRuns \/ ServerStart \/ ClockMoves
  PROVE  OrderInv' /\ Unseen
<1>1. Untouched /\ UNCHANGED <<wanted, unlogged>>
  BY DEF PruneStarts, PruneRuns, ServerStart, ClockMoves, Untouched, connVars, clientVars, histVars
<1>2. \/ Log!PruneCall \/ Log!PruneFail \/ Log!PruneStore \/ Log!PruneCommit
      \/ Log!Lock(Pruner) \/ Log!Open \/ Log!Clock
  BY DEF PruneStarts, PruneRuns, ServerStart, ClockMoves
<1>3. Pruner \in LP!Procs
  BY DEF LP!Procs
<1>4. OrderInv'
  BY <1>1, <1>2, <1>3, PruneOrder, LockOrder, OpenOrder, ClockOrder
<1>5. issued' = issued
  BY <1>2 DEF Log!PruneCall, Log!PruneFail, Log!PruneStore, Log!PruneCommit, Log!Lock, Log!Open,
              Log!Clock, Log!diskVars
<1>6. DueSeqs' = DueSeqs
  BY <1>1, <1>5 DEF DueSeqs, Due
<1> QED
  BY <1>1, <1>4, <1>6 DEF Unseen, Untouched

\* A fan-out commits, or goes unseen.
LEMMA FanoutOrder ==
  ASSUME World, World', OrderInv, NEW t \in Tasks, Fanout(t)
  PROVE  OrderInv' /\ [Promise!Next]_Promise!aloVars
<1>1. CASE FanoutBegin(t)
  <2>1. UNCHANGED <<client, handled, gapped>>
    BY <1>1 DEF FanoutBegin, clientVars
  <2> QED
    BY <1>1, <2>1, FanoutBeginOrder, UnseenStep DEF Unseen
<1>2. CASE FanoutAppend(t)
  <2>1. Untouched /\ UNCHANGED <<wanted, unlogged>>
    BY <1>2 DEF FanoutAppend, Untouched, connVars, clientVars, histVars
  <2>2. CASE Log!AppendCommit(t)
    <3>1. /\ OrderInv' /\ DueSeqs \subseteq DueSeqs'
          /\ \A r \in DueSeqs' \ DueSeqs : \A s \in DueSeqs : s < r
      BY <2>1, <2>2, AppendCommitOrder
    <3>2. DueSeqs' \subseteq Nat \ {0}
      BY DEF World, LP!Inv, LP!TypeOK, LP!Seqs, DueSeqs, Due
    <3>3. UNCHANGED <<client, handled, gapped>>
      BY <2>1 DEF Untouched
    <3>4. Promise!Commit
      BY <3>1, <3>2, <3>3 DEF Promise!Commit, DueSeqs
    <3> QED
      BY <3>1, <3>4 DEF Promise!Next
  <2>3. CASE Log!Lock(t) \/ Log!StoreHead(t) \/ Log!StoreFloor(t)
    <3>1. OrderInv'
      BY <2>1, <2>3, LockOrder, StoresOrder, JobFacts
    <3>2. issued' = issued
      BY <2>3 DEF Log!Lock, Log!StoreHead, Log!StoreFloor, Log!diskVars
    <3>3. Unseen
      BY <2>1, <3>2 DEF Unseen, Untouched, DueSeqs, Due
    <3> QED
      BY <3>1, <3>3, UnseenStep
  <2> QED
    BY <1>2, <2>2, <2>3 DEF FanoutAppend
<1>3. CASE AppendError(t)
  <2>1. pc \in [LP!Procs -> LP!PcValues] /\ t \in LP!Procs
    BY JobFacts
  <2>2. pc'[t] = "err"
    BY <1>3, <2>1 DEF AppendError, Log!AppendFail
  <2> QED
    BY <2>2 DEF World, Calm
<1>4. CASE FanoutPush(t)
  BY <1>4, FanoutPushOrder, UnseenStep DEF Unseen
<1>5. CASE FanoutCancel(t)
  BY <1>5 DEF FanoutCancel, World, Calm
<1>6. CASE CancelledEnds(t)
  BY <1>6 DEF CancelledEnds, World, Calm
<1> QED
  BY <1>1, <1>2, <1>3, <1>4, <1>5, <1>6 DEF Fanout

\* The client handles, learns of a gap, moves on, or goes unseen.
LEMMA ClientOrder ==
  ASSUME World, World', OrderInv, ClientStep \/ ClientCrash
  PROVE  OrderInv' /\ [Promise!Next]_Promise!aloVars
<1>0. client \in Clients /\ DueSeqs' = DueSeqs
  <2>1. Still
    BY DEF ClientStep, Connect, ClientHandle, ClientSkip, HandlerReturns, ClientRecord, ClientGap,
           ClientReplayed, ClientLagged, ClientDisconnected, ClientCrash, Still, histVars
  <2> QED
    BY <2>1, StillFacts, ClientFacts
<1>1. CASE Connect \/ ClientDisconnected
  <2>1. UNCHANGED <<handled, gapped>> /\ client'.cursor = client.cursor
    BY <1>0, <1>1 DEF Connect, ClientDisconnected, Hangs, Clients, histVars
  <2> QED
    BY <1>0, <1>1, <2>1, ConnectOrder, ClientDisconnectedOrder, UnseenStep DEF Unseen
<1>2. CASE ClientSkip \/ ClientReplayed
  <2>1. UNCHANGED <<handled, gapped, client>>
    BY <1>2 DEF ClientSkip, ClientReplayed, clientVars, histVars
  <2> QED
    BY <1>0, <1>2, <2>1, ClientSkipOrder, ClientReplayedOrder, UnseenStep DEF Unseen
<1>3. CASE ClientLagged \/ ClientCrash
  <2>1. UNCHANGED <<handled, gapped>>
    BY <1>3 DEF ClientLagged, ClientCrash, histVars
  <2> QED
    BY <1>0, <1>3, <2>1, ClientLeavesOrder, UnseenStep DEF Unseen
<1>4. CASE ClientGap
  <2>1. gapped \subseteq gapped' /\ UNCHANGED <<handled, client>>
    BY <1>4 DEF ClientGap, clientVars
  <2>2. Promise!Tell
    BY <1>0, <2>1 DEF Promise!Tell, DueSeqs
  <2> QED
    BY <1>4, <2>2, ClientGapOrder DEF Promise!Next
<1>5. CASE ClientHandle
  BY <1>5, ClientHandleOrder, UnseenStep DEF Unseen
<1>6. CASE HandlerReturns
  <2>0. client.busy # NoEvent /\ handled' = handled \cup {<<client.busy.seq, client.busy.id>>}
    BY <1>6 DEF HandlerReturns
  <2>1. OrderInv' /\ gapped' = gapped /\ client'.cursor = client.cursor
    BY <1>6, HandlerReturnsOrder
  <2>2. PICK s \in DueSeqs : s = client.busy.seq
    BY <2>0 DEF OrderInv, PlaceInv
  <2>3. s > client.cursor /\ \A r \in DueSeqs : client.cursor < r /\ r < s => r \in gapped
    BY <2>0, <2>2 DEF OrderInv, PlaceInv
  <2>4. DoneSeqs' = DoneSeqs \cup {s}
    <3> DEFINE x == <<client.busy.seq, client.busy.id>>
    <3>1. handled' = handled \cup {x} /\ x[1] = s
      BY <2>0, <2>2
    <3> HIDE DEF x
    <3> QED
      BY <3>1 DEF DoneSeqs
  <2>5. Promise!Handle(s)
    BY <1>0, <2>1, <2>3, <2>4 DEF Promise!Handle, DueSeqs, DoneSeqs
  <2> QED
    <3>1. \E u \in DueSeqs : Promise!Handle(u)
      BY <2>5
    <3>2. Promise!Next
      BY <3>1, Zenon DEF Promise!Next, DueSeqs
    <3> QED
      BY <2>1, <3>2
<1>7. CASE ClientRecord
  <2> DEFINE s == client.busy.seq
  <2>1. OrderInv' /\ client'.cursor = s /\ client.busy # NoEvent /\ UNCHANGED <<handled, gapped>>
    BY <1>7, ClientRecordOrder
  <2>2. s > client.cursor /\ \A r \in DueSeqs : client.cursor < r /\ r < s => r \in gapped
    BY <2>1 DEF OrderInv, PlaceInv
  <2>3. <<s, client.busy.id>> \in handled
    BY <1>7, ClientRecordOrder
  <2> HIDE DEF s
  <2>4. s \in DoneSeqs
    <3> DEFINE x == <<s, client.busy.id>>
    <3>1. x \in handled /\ x[1] = s
      BY <2>3
    <3> HIDE DEF x
    <3> QED
      BY <3>1 DEF DoneSeqs
  <2>5. Promise!Advance(s)
    BY <1>0, <2>1, <2>2, <2>4 DEF Promise!Advance, DueSeqs, DoneSeqs
  <2> QED
    BY <2>1, <2>4, <2>5 DEF Promise!Next, DoneSeqs
<1> QED
  BY <1>1, <1>2, <1>3, <1>4, <1>5, <1>6, <1>7 DEF ClientStep

LEMMA OrderStep ==
  ASSUME World, World', OrderInv, [Next]_vars
  PROVE  OrderInv' /\ [Promise!Next]_Promise!aloVars
<1>1. CASE \E t \in Tasks : Fanout(t)
  BY <1>1, FanoutOrder
<1>2. CASE Server \/ LinkDrop
  BY <1>2, ServerOrder, UnseenStep
<1>3. CASE ClientStep \/ ClientCrash
  BY <1>3, ClientOrder
<1>4. CASE PruneStarts \/ PruneRuns \/ ServerStart \/ ClockMoves
  BY <1>4, LogOrder, UnseenStep
<1>5. CASE ServerCrash
  BY <1>5, ServerCrashOrder, UnseenStep DEF Unseen
<1>6. CASE UNCHANGED vars
  <2>1. /\ Still /\ UNCHANGED <<logVars, conn, queue, wire, client, saved, handled, gapped>>
    BY <1>6 DEF vars, Still, srvVars, connVars, clientVars, histVars
  <2>2. Untouched /\ UNCHANGED <<wanted, unlogged, issued, lostHead, rows, pc, job, floor, up>>
    BY <2>1 DEF Untouched, Still, logVars
  <2>3. FirstInv' /\ \A u \in Tasks : Unpushed(u)' <=> Unpushed(u)
    BY <2>1, StillFacts
  <2>4. OrderInv'
    BY <2>2, <2>3, LogShifts
  <2>5. Unseen
    BY <2>1, <2>2, StillFacts DEF Unseen
  <2> QED
    BY <2>4, <2>5, UnseenStep
<1> QED
  BY <1>1, <1>2, <1>3, <1>4, <1>5, <1>6 DEF Next

\* While the system is calm, everything due is on its way to the client, or
\* announced, in order, through crashes of the server and the client, lost
\* links, drops in the queue, replays and prunes (subscribers.rs,
\* subscriber_ws.rs, resume.rs).
THEOREM OrderAlways == Spec /\ []Calm => []OrderInv
<1>1. Init => OrderInv
  BY OrderInit
<1>2. World /\ World' /\ OrderInv /\ [Next]_vars => OrderInv'
  BY OrderStep
<1>3. Spec /\ []Calm => []World
  BY InvAlways, LogAlways, PTL DEF World
<1> QED
  BY <1>1, <1>2, <1>3, PTL DEF Spec

\* The refinement: while the system is calm it implements AtLeastOnce, the
\* promise of docs/SPEC.md, sections 9.4 and 10, step by step.
THEOREM ImplementsPromiseAlways == Spec /\ []Calm => ImplementsPromise
<1>1. Init => Promise!Init
  <2> SUFFICES ASSUME Init PROVE Promise!Init
    OBVIOUS
  <2>1. issued = {} /\ handled = {} /\ gapped = {} /\ client = NewClient(0)
    BY DEF Init, Log!Init
  <2>2. client.cursor = 0
    BY <2>1 DEF NewClient
  <2> QED
    BY <2>1, <2>2 DEF Promise!Init, Due
<1>2. World /\ World' /\ OrderInv /\ [Next]_vars => [Promise!Next]_Promise!aloVars
  BY OrderStep
<1>3. Spec /\ []Calm => []World
  BY InvAlways, LogAlways, PTL DEF World
<1> QED
  BY <1>1, <1>2, <1>3, OrderAlways, PTL DEF Spec, ImplementsPromise, Promise!Spec

\* At-least-once (docs/SPEC.md, section 10): while the system is calm the
\* client's cursor passes no matching event that was neither handled nor
\* announced as lost.
THEOREM NoSilentSkipAlways == Spec /\ []Calm => []NoSilentSkip
<1>1. World /\ OrderInv /\ Promise!NoSkip => NoSilentSkip
  <2> SUFFICES ASSUME World, OrderInv, Promise!NoSkip, NEW x \in Due, x[1] <= client.cursor,
                      x[1] \notin gapped
               PROVE  x[2] \in HandledIds
    BY DEF NoSilentSkip
  <2>1. x \in issued /\ x[1] \in DueSeqs
    BY DEF Due, DueSeqs
  <2>2. x[1] \in DoneSeqs
    BY <2>1 DEF Promise!NoSkip, DueSeqs, DoneSeqs
  <2>3. PICK y \in handled : y[1] = x[1]
    BY <2>2 DEF DoneSeqs
  <2>4. y \in issued
    BY <2>3, IssuedFacts DEF World, Inv, ClientInv, OrderInv
  <2>5. y[2] = x[2]
    BY <2>1, <2>3, <2>4, IssuedFacts DEF OrderInv
  <2> QED
    BY <2>3, <2>5 DEF HandledIds
<1>2. Spec /\ []Calm => []World
  BY InvAlways, LogAlways, PTL DEF World
<1> QED
  BY <1>1, <1>2, OrderAlways, ImplementsPromiseAlways, PromiseNoSkip, PTL

=============================================================================

--------------------------- MODULE DurableDelivery ---------------------------
(***************************************************************************)
(* Durable delivery end to end: webhook events fanned out by the server     *)
(* (crates/whdr-server/src/subscribers.rs), the delivery log, one           *)
(* subscriber's connection with its outbound queue and its replay           *)
(* (subscriber_ws.rs), the link, and the resuming client                    *)
(* (crates/whdr-sub-kit/src/lib.rs, resume.rs).                             *)
(*                                                                         *)
(* A fan-out t is the log's append t followed by the push.  OutboundQueue   *)
(* shows that push_event may be taken as one step; popping a frame and      *)
(* taking the pending lag are one step here too.  Frames that change no     *)
(* state (welcome, ok, ping, pong) are left out.  A batch's pushes are one   *)
(* step, although pops and other fan-outs may come between them             *)
(* (subscribers.rs:181-206): with batches of more than one event the model  *)
(* has fewer interleavings than the code, and the runs take MaxBatch = 1.   *)
(***************************************************************************)
EXTENDS QueueOps, FiniteSets

CONSTANTS
  Tasks, Pruner, Nobody, Events, SizeOf, RetentionSecs, MaxBytes, MaxEvents,
  Times, MaxBatch, MaxBegun, MaxCrashes,      \* of DeliveryLog
  Matching,          \* the events on a channel the subscriber's patterns match
  DedupCapacity,     \* ClientBuilder::dedup_capacity
  PruneRacesReplay,  \* ENVIRONMENT: may a prune overlap a replay's reads?
  MaxAppendErrors,   \* BOUND: appends that fail
  MaxCancels,        \* BOUND: fan-outs whose HTTP request goes away
  MaxPrunes,         \* BOUND: prunes by the timer
  MaxLinkDrops,      \* BOUND: connections lost
  MaxClientCrashes   \* BOUND: restarts of the client

\* Of the log's constants as DeliveryLog assumes, and of this module's own.
ASSUME DurableAssumption ==
  /\ Pruner \notin Tasks /\ Nobody \notin Tasks \cup {Pruner}
  /\ SizeOf \in [Events -> Nat \ {0}] /\ Times \subseteq Nat
  /\ {RetentionSecs, MaxBytes, MaxEvents} \subseteq Nat \ {0}
  /\ {MaxBatch, MaxBegun, MaxCrashes} \subseteq Nat
  /\ Matching \subseteq Events
  /\ DedupCapacity \in Nat
  /\ PruneRacesReplay \in BOOLEAN

VARIABLES
  rows, head, floor, retained_count, retained_bytes, writer, pc, job, up, now,
  begun, crashes, issued, lostHead,           \* of DeliveryLog
  memSeq,       \* SubscriberRegistry.seq, the in-memory stamp counter
  cancelled,    \* fan-outs whose future was dropped
  conn,         \* the connection: phase, and what its replay has read
  queue,        \* its outbound queue
  wire,         \* frames on their way to the client
  client,       \* the client process: linked, cursor, seen, busy, returned
  saved,        \* the cursor in the CursorStore
  faults,       \* how often each bounded fault happened
  wanted,       \* history: ids of matching events handed to fan-out
  handled,      \* history: every <<seq, id>> the handler finished
  gapped,       \* history: seqs the handler was told are gone
  fresh,        \* history: ids the handler was given since the client started
  unlogged      \* history: <<seq, id>> of events stamped in memory

Log == INSTANCE DeliveryLog

logVars == <<rows, head, floor, retained_count, retained_bytes, writer, pc, job,
             up, now, begun, crashes, issued, lostHead>>
srvVars == <<memSeq, cancelled>>
connVars == <<conn, queue, wire>>
clientVars == <<client, saved>>
histVars == <<wanted, handled, gapped, fresh, unlogged>>
vars == <<logVars, srvVars, connVars, clientVars, faults, histVars>>

-----------------------------------------------------------------------------
(* Frames and connections *)

EventMsg(s, i) == [kind |-> "event", seq |-> s, id |-> i]
GapMsg(from, earliest) == [kind |-> "replay_gap", seq |-> from, id |-> earliest]
ReplayedMsg(s) == [kind |-> "replayed", seq |-> s, id |-> 0]
LaggedMsg(n) == [kind |-> "lagged", seq |-> n, id |-> 0]

\* The frame fan-out queues for an event, as QueueOps wants it.
QueueFrame(s, i, n) ==
  [is_event |-> TRUE, size |-> n, seq |-> s, id |-> i]

NoConn == [phase |-> "none", after |-> 0, gap |-> FALSE, floor |-> 0, head |-> 0]
NoEvent == [seq |-> 0, id |-> 0]
NewClient(c) == [linked |-> FALSE, cursor |-> c, seen |-> <<>>, busy |-> NoEvent,
                 returned |-> FALSE]

\* Mutant: patterns are registered when the replay is over.
RegisteredLate == conn.phase = "live"

\* The registry holds patterns for the connection.
Registered == conn.phase \in {"subscribed", "floor", "head", "live"}

Fault(f) == faults' = [faults EXCEPT ![f] = @ + 1]

-----------------------------------------------------------------------------
(* Fan-out (SubscriberRegistry::fanout) *)

FanoutBegin(t) ==
  /\ \E n \in 1..MaxBatch : \E batch \in [1..n -> Events] :
       /\ begun + n <= MaxBegun
       /\ Log!AppendCall(t, batch)
       /\ wanted' = wanted \cup {begun + i : i \in {j \in 1..n : batch[j] \in Matching}}
  /\ UNCHANGED <<srvVars, connVars, clientVars, faults, handled, gapped, fresh,
                 unlogged>>

\* The steps of append_blocking on its own thread.
FanoutAppend(t) ==
  /\ Log!Lock(t) \/ Log!AppendCommit(t) \/ Log!StoreHead(t) \/ Log!StoreFloor(t)
  /\ UNCHANGED <<srvVars, connVars, clientVars, faults, histVars>>

AppendError(t) ==
  /\ faults.append < MaxAppendErrors
  /\ Log!AppendFail(t)
  /\ Fault("append")
  /\ UNCHANGED <<srvVars, connVars, clientVars, histVars>>

\* Mutant: the frame carries the base of the run, not the row's own seq.
StampedSeqBase(t, i) == IF pc[t] = "err" THEN memSeq + i ELSE job[t].base + i - 1

\* The seq of the i-th event of the batch: from the log or, when the append
\* failed, stamp_in_memory's own counter.
StampedSeq(t, i) == IF pc[t] = "err" THEN memSeq + i ELSE job[t].base + i

\* The matching events of the batch go to the queue in order.  The registry's
\* read lock is held over the loop, so no subscribe comes in between.
PushOne(t, i, q) ==
  LET e == job[t].batch[i]
  IN  IF e.ev \in Matching
        THEN push_event(q, QueueFrame(StampedSeq(t, i), e.id, SizeOf[e.ev]))
        ELSE q
PushAll(t) ==
  LET pushed[i \in 0..Len(job[t].batch)] ==
        IF i = 0 THEN queue ELSE PushOne(t, i, pushed[i - 1])
  IN  pushed[Len(job[t].batch)]

FanoutPush(t) ==
  /\ t \notin cancelled /\ pc[t] \in {"ok", "err"}
  /\ memSeq' = IF pc[t] = "err" THEN memSeq + Len(job[t].batch) ELSE memSeq
  /\ queue' = IF Registered THEN PushAll(t) ELSE queue
  /\ unlogged' = IF pc[t] # "err" THEN unlogged ELSE unlogged \cup
       {<<StampedSeq(t, i), job[t].batch[i].id>> : i \in DOMAIN job[t].batch}
  /\ Log!AppendReturn(t)
  /\ UNCHANGED <<cancelled, conn, wire, clientVars, faults, wanted, handled,
                 gapped, fresh>>

\* The HTTP client that sent the webhook goes away: hyper drops the request
\* future, fan-out included.  The append goes on, on its blocking thread.
FanoutCancel(t) ==
  /\ faults.cancel < MaxCancels
  /\ pc[t] # "idle" /\ t \notin cancelled
  /\ cancelled' = cancelled \cup {t}
  /\ Fault("cancel")
  /\ UNCHANGED <<logVars, memSeq, connVars, clientVars, histVars>>

CancelledEnds(t) ==
  /\ t \in cancelled /\ pc[t] \in {"ok", "err"}
  /\ cancelled' = cancelled \ {t}
  /\ Log!AppendReturn(t)
  /\ UNCHANGED <<memSeq, connVars, clientVars, faults, histVars>>

-----------------------------------------------------------------------------
(* The connection (subscriber_socket, handle_subscriber_text) *)

\* Connection::connect and subscribe: the socket is registered without
\* patterns, so nothing but the cursor sent matters yet.
Connect ==
  /\ up /\ ~client.linked /\ client.busy = NoEvent
  /\ client' = [client EXCEPT !.linked = TRUE]
  /\ conn' = [NoConn EXCEPT !.phase = "opened", !.after = client.cursor]
  /\ queue' = NewQueue
  /\ wire' = <<>>
  /\ UNCHANGED <<logVars, srvVars, saved, faults, histVars>>

\* registry.subscribe(id, patterns) comes before the replay reads.
Subscribe ==
  /\ conn.phase = "opened"
  /\ conn' = [conn EXCEPT !.phase = "subscribed"]
  /\ UNCHANGED <<logVars, srvVars, queue, wire, clientVars, faults, histVars>>

\* floor != 0 && after_seq + 1 < floor
IsGap(after, f) == f # 0 /\ after + 1 < f

ReadFloor ==
  /\ conn.phase = "subscribed"
  /\ PruneRacesReplay \/ pc[Pruner] # "committed"
  /\ conn' = [conn EXCEPT !.phase = "floor", !.floor = floor,
                          !.gap = IsGap(conn.after, floor)]
  /\ UNCHANGED <<logVars, srvVars, queue, wire, clientVars, faults, histVars>>

ReadHead ==
  /\ conn.phase = "floor"
  /\ conn' = [conn EXCEPT !.phase = "head", !.head = head]
  /\ UNCHANGED <<logVars, srvVars, queue, wire, clientVars, faults, histVars>>

EffectiveAfter == IF conn.gap THEN conn.floor - 1 ELSE conn.after

\* Range scan (after, head].
InWindow(s) == EffectiveAfter < s /\ s <= conn.head

\* read_after and the direct stream: gap, rows in the order of their keys,
\* `replayed`.
Ascending(order) == \A i, j \in DOMAIN order : i < j => order[i] < order[j]
Replay ==
  LET window == {s \in DOMAIN rows : InWindow(s) /\ rows[s].ev \in Matching}
      gap == IF conn.gap THEN <<GapMsg(conn.after, conn.floor)>> ELSE <<>>
  IN /\ conn.phase = "head"
     /\ \E order \in [1..Cardinality(window) -> window] :
          LET events == [i \in DOMAIN order |-> EventMsg(order[i], rows[order[i]].id)]
          IN  Ascending(order) /\ wire' = wire \o gap \o events \o <<ReplayedMsg(conn.head)>>
     /\ conn' = [NoConn EXCEPT !.phase = "live"]
     /\ UNCHANGED <<logVars, srvVars, queue, clientVars, faults, histVars>>

\* pop, take_pending_lag, and the sends.
SendLive ==
  LET f == Head(queue.frames)
      lag == IF queue.lag = 0 THEN <<>> ELSE <<LaggedMsg(queue.lag)>>
  IN /\ conn.phase = "live" /\ queue.frames # <<>>
     /\ wire' = wire \o lag \o <<EventMsg(f.seq, f.id)>>
     /\ queue' = TakeLag(PopFront(queue))
     /\ UNCHANGED <<logVars, srvVars, conn, clientVars, faults, histVars>>

\* The connection ends, and the client receives some prefix of what was sent:
\* a lost link, a failed read_after, a shutdown's `closing`, a missed pong.
LinkDrop ==
  /\ faults.link < MaxLinkDrops /\ conn.phase # "none"
  /\ \E n \in 0..Len(wire) : wire' = SubSeq(wire, 1, n)
  /\ conn' = NoConn /\ queue' = NewQueue
  /\ Fault("link")
  /\ UNCHANGED <<logVars, srvVars, clientVars, histVars>>

-----------------------------------------------------------------------------
(* The client (Client::run, run_session, ResumeState) *)

Hangs(c) == [c EXCEPT !.linked = FALSE]

\* Mutant: dedup by id alone.
should_process_id(i, s) == i \notin ToSet(client.seen)

should_process(i, s) == s > client.cursor /\ i \notin ToSet(client.seen)

\* ResumeState::record: remember the id, forget the oldest beyond capacity.
Remember(seen, i) ==
  LET all == IF i \in ToSet(seen) THEN seen ELSE Append(seen, i)
      cap == IF DedupCapacity > 1 THEN DedupCapacity ELSE 1
  IN IF Len(all) > cap THEN Tail(all) ELSE all

Receives(kind) ==
  /\ client.linked /\ client.busy = NoEvent
  /\ wire # <<>> /\ Head(wire).kind = kind

\* An event the guard lets through goes to the handler.
ClientHandle ==
  /\ Receives("event") /\ should_process(Head(wire).id, Head(wire).seq)
  /\ client' = [client EXCEPT !.busy = [seq |-> Head(wire).seq, id |-> Head(wire).id]]
  /\ wire' = Tail(wire)
  /\ fresh' = fresh \cup {Head(wire).id}
  /\ UNCHANGED <<logVars, srvVars, conn, queue, saved, faults, wanted, handled,
                 gapped, unlogged>>

\* on_event(..).await? is over, and Ok.  Until then the event counts for nothing.
HandlerReturns ==
  /\ client.busy # NoEvent /\ ~client.returned
  /\ client' = [client EXCEPT !.returned = TRUE]
  /\ handled' = handled \cup {<<client.busy.seq, client.busy.id>>}
  /\ UNCHANGED <<logVars, srvVars, connVars, saved, faults, wanted, gapped, fresh,
                 unlogged>>

ClientSkip ==
  /\ Receives("event") /\ ~should_process(Head(wire).id, Head(wire).seq)
  /\ wire' = Tail(wire)
  /\ UNCHANGED <<logVars, srvVars, conn, queue, clientVars, faults, histVars>>

\* if seq > self.cursor { self.cursor = seq }
Advanced(c, s) == IF s > c THEN s ELSE c

\* Mutant: the handler is spawned and the cursor recorded at once.
DoneSpawned(c) == c.busy # NoEvent

Done(c) == c.busy # NoEvent /\ c.returned

\* The handler succeeded: record, then save.  A crash in between is a crash
\* before the record, for the client's memory is lost with it.
ClientRecord ==
  LET e == client.busy
      c == Advanced(client.cursor, e.seq)
  IN /\ Done(client)
     /\ client' = [client EXCEPT !.cursor = c, !.busy = NoEvent, !.returned = FALSE,
                                 !.seen = Remember(@, e.id)]
     /\ saved' = c
     /\ UNCHANGED <<logVars, srvVars, connVars, faults, histVars>>

\* on_replay_gap: the handler learns which range is gone.
ClientGap ==
  /\ Receives("replay_gap")
  /\ gapped' = gapped \cup (Head(wire).seq + 1)..(Head(wire).id - 1)
  /\ wire' = Tail(wire)
  /\ UNCHANGED <<logVars, srvVars, conn, queue, clientVars, faults, wanted,
                 handled, fresh, unlogged>>

ClientReplayed ==
  /\ Receives("replayed")
  /\ wire' = Tail(wire)
  /\ UNCHANGED <<logVars, srvVars, conn, queue, clientVars, faults, histVars>>

\* Mutant: `lagged` is noted and the session goes on.
AfterLaggedStays == UNCHANGED <<conn, queue, client>> /\ wire' = Tail(wire)

\* `lagged` ends the session; what is still on the wire is lost.
AfterLagged ==
  /\ conn' = NoConn /\ queue' = NewQueue /\ wire' = <<>>
  /\ client' = Hangs(client)

ClientLagged ==
  /\ Receives("lagged")
  /\ AfterLagged
  /\ UNCHANGED <<logVars, srvVars, saved, faults, histVars>>

\* recv reports the end of the connection; run backs off and reconnects.
ClientDisconnected ==
  /\ client.linked /\ client.busy = NoEvent
  /\ conn.phase = "none" /\ wire = <<>>
  /\ client' = Hangs(client)
  /\ UNCHANGED <<logVars, srvVars, connVars, saved, faults, histVars>>

\* The client stops, by a crash or by an error of its handler or store (these
\* are fatal to run), and is started again: it loads the saved cursor.
ClientCrash ==
  /\ faults.client < MaxClientCrashes
  /\ client' = NewClient(saved)
  /\ conn' = NoConn /\ queue' = NewQueue /\ wire' = <<>>
  /\ fresh' = {}
  /\ Fault("client")
  /\ UNCHANGED <<logVars, srvVars, saved, wanted, handled, gapped, unlogged>>

-----------------------------------------------------------------------------
(* The log's own steps, the server's crash and restart *)

Reading == conn.phase \in {"floor", "head"}

PruneStarts ==
  /\ faults.prune < MaxPrunes
  /\ Log!PruneCall
  /\ Fault("prune")
  /\ UNCHANGED <<srvVars, connVars, clientVars, histVars>>

PruneRuns ==
  /\ \/ Log!Lock(Pruner) \/ Log!PruneFail \/ Log!PruneStore
     \/ (PruneRacesReplay \/ ~Reading) /\ Log!PruneCommit
  /\ UNCHANGED <<srvVars, connVars, clientVars, faults, histVars>>

ServerCrash ==
  /\ crashes < MaxCrashes
  /\ Log!Crash
  /\ memSeq' = 0 /\ cancelled' = {}
  /\ conn' = NoConn /\ queue' = NewQueue
  /\ \E n \in 0..Len(wire) : wire' = SubSeq(wire, 1, n)
  /\ UNCHANGED <<clientVars, faults, histVars>>

ServerStart ==
  /\ Log!Open
  /\ UNCHANGED <<srvVars, connVars, clientVars, faults, histVars>>

ClockMoves ==
  /\ Log!Clock
  /\ UNCHANGED <<srvVars, connVars, clientVars, faults, histVars>>

-----------------------------------------------------------------------------
Init ==
  /\ Log!Init
  /\ memSeq = 0 /\ cancelled = {}
  /\ conn = NoConn /\ queue = NewQueue /\ wire = <<>>
  /\ client = NewClient(0) /\ saved = 0
  /\ faults = [f \in {"append", "cancel", "prune", "link", "client"} |-> 0]
  /\ wanted = {} /\ handled = {} /\ gapped = {} /\ fresh = {} /\ unlogged = {}

Fanout(t) ==
  \/ FanoutBegin(t)
  \/ FanoutAppend(t)
  \/ AppendError(t)
  \/ FanoutPush(t)
  \/ FanoutCancel(t)
  \/ CancelledEnds(t)

Server == Subscribe \/ ReadFloor \/ ReadHead \/ Replay \/ SendLive

ClientStep ==
  \/ Connect
  \/ ClientHandle
  \/ ClientSkip
  \/ HandlerReturns
  \/ ClientRecord
  \/ ClientGap
  \/ ClientReplayed
  \/ ClientLagged
  \/ ClientDisconnected

Next ==
  \/ \E t \in Tasks : Fanout(t)
  \/ Server
  \/ ClientStep
  \/ PruneStarts
  \/ PruneRuns
  \/ LinkDrop
  \/ ClientCrash
  \/ ServerCrash
  \/ ServerStart
  \/ ClockMoves

Spec == Init /\ [][Next]_vars

(***************************************************************************)
(* Every task of the server is polled when it can move, a blocking append   *)
(* finishes, the server is restarted, and the client reads, handles and     *)
(* reconnects.  Faults are bounded and never forced.                        *)
(***************************************************************************)
Fairness ==
  /\ \A t \in Tasks : WF_vars(FanoutAppend(t) \/ FanoutPush(t) \/ CancelledEnds(t))
  /\ WF_vars(Server)
  /\ WF_vars(ClientStep)
  /\ WF_vars(ServerStart)
  /\ WF_vars(PruneRuns)

FairSpec == Spec /\ Fairness
-----------------------------------------------------------------------------
(* Properties *)

\* The committed events the subscriber wants.
Due == {x \in issued : x[2] \in wanted}
HandledIds == {x[2] : x \in handled}

\* Type correctness of what this module adds.
TypeOK ==
  /\ memSeq \in Nat /\ cancelled \subseteq Tasks
  /\ conn.phase \in {"none", "opened", "subscribed", "floor", "head", "live"}
  /\ conn.after \in Nat /\ conn.floor \in Nat /\ conn.head \in Nat
  /\ conn.gap => conn.floor > 0
  /\ {client.linked, client.returned} \subseteq BOOLEAN /\ client.cursor \in Nat
  /\ saved \in Nat
  /\ wanted \subseteq 1..MaxBegun /\ fresh \subseteq 1..MaxBegun
  /\ gapped \subseteq Nat

\* At-least-once: a matching event at or below the client's cursor was handled
\* or announced as lost.  The cursor is all the client remembers, so an event
\* it has passed will never be asked for again.
NoSilentSkip ==
  \A x \in Due : x[1] <= client.cursor => x[2] \in HandledIds \/ x[1] \in gapped

\* Persist before deliver (subscribers.rs:153): an event frame anywhere
\* between server and client is in the log's history under its own seq, unless
\* its append failed and it was stamped in memory; and the state is well typed.
InFlight == {<<f.seq, f.id>> : f \in ToSet(queue.frames)} \cup
            {<<m.seq, m.id>> : m \in {n \in ToSet(wire) : n.kind = "event"}}
PersistBeforeDeliver == TypeOK /\ InFlight \subseteq issued \cup unlogged

\* The stored cursor never runs ahead of the handler: whatever crashes, a
\* restart resumes at zero or at an event the handler finished.
CursorEarned ==
  \A c \in {saved, client.cursor} : c = 0 \/ \E x \in handled : x[1] = c

\* Between two starts of the client no event reaches the handler twice
\* (resume.rs:10, "an event is processed at most once"), whatever is
\* redelivered around reconnects and the replay/live boundary.
OncePerRunStep ==
  client'.busy # client.busy /\ client'.busy # NoEvent => client'.busy.id \notin fresh
OncePerRun == [][OncePerRunStep]_vars

\* At least once, as progress: the handler eventually finishes a committed
\* matching event, unless retention takes it first.
EventuallyHandled ==
  \A s \in 1..MaxBegun :
    (\E x \in Due : x[1] = s) ~>
      (s \notin DOMAIN rows \/ \E x \in handled : x[1] = s)

\* The system implements the abstract promise: seqs in order, nothing passed
\* over unannounced, restarts only rewind.
Promise == INSTANCE AtLeastOnce WITH
  wanted <- {x[1] : x \in Due},
  told <- gapped,
  handled <- {x[1] : x \in handled},
  cursor <- client.cursor
ImplementsPromise == Promise!Spec
=============================================================================

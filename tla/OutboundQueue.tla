---------------------------- MODULE OutboundQueue ----------------------------
(***************************************************************************)
(* One subscriber's outbound queue with everybody who touches it: fan-outs  *)
(* that push events concurrently, and the connection task                   *)
(* (crates/whdr-server/src/subscriber_ws.rs:79-155) whose select! loop pops *)
(* frames, writes them to the socket, and pushes its own control frames.    *)
(*                                                                         *)
(* push_event holds the queue's mutex from lock to enqueue; the wake-up     *)
(* (notify_waiters), record_drop for an oversized frame and the swap of the *)
(* pending lag happen outside it.                                           *)
(***************************************************************************)
EXTENDS QueueOps, FiniteSets

CONSTANTS
  Pushers,       \* fan-outs that may push at the same time
  Nobody,        \* the mutex is free
  Sizes,         \* sizes of event frames
  MaxPushes,     \* BOUND: events pushed in a behaviour
  MaxControls    \* BOUND: control frames pushed in a behaviour

ASSUME PusherAssumption ==
  /\ Nobody \notin Pushers
  /\ Sizes \subseteq Nat \ {0}
  /\ MaxPushes \in Nat /\ MaxControls \in Nat

VARIABLES
  q,             \* the queue: frames, delivered, dropped, lag (lag_pending)
  lock,          \* holder of the queue's mutex
  ppc, psize,    \* each fan-out: where it stands, the frame it pushes
  cpc,           \* the connection task
  woken,         \* its Notified has been notified since it was enabled
  held,          \* the frame it popped and has not written yet
  sink,          \* history: what it wrote to the socket
  pushed,        \* history: number of events pushed; an event's number is its id
  rejected,      \* history: ids of the oversized ones
  controls       \* number of control frames pushed

qVars == <<q, lock>>
pVars == <<ppc, psize>>
cVars == <<cpc, woken, held, sink>>
hVars == <<pushed, rejected, controls>>
vars == <<qVars, pVars, cVars, hVars>>

-----------------------------------------------------------------------------
EventFrame(n, s) == [is_event |-> TRUE, id |-> n, size |-> s]
ControlFrame(n) == [is_event |-> FALSE, id |-> n, size |-> 0]
NoFrame == ControlFrame(0)

\* What the socket carries: the two kinds of frame, `lagged`, `closing`.
Lagged(n) == [kind |-> "lagged", n |-> n]
Written(f) == [kind |-> IF f.is_event THEN "event" ELSE "control", n |-> f.id]
Closing == [kind |-> "closing", n |-> 0]

-----------------------------------------------------------------------------
(* A fan-out pushing one event *)

\* push_event on a frame over the byte budget: no lock, no wake-up.
PushOversized(p, s) ==
  /\ ppc[p] = "idle" /\ oversized(s)
  /\ q' = record_drop(q)
  /\ pushed' = pushed + 1
  /\ rejected' = rejected \cup {pushed + 1}
  /\ UNCHANGED <<lock, pVars, cVars, controls>>

PushLock(p, s) ==
  /\ ppc[p] = "idle" /\ ~oversized(s)
  /\ lock = Nobody
  /\ lock' = p
  /\ ppc' = [ppc EXCEPT ![p] = "evicting"]
  /\ psize' = [psize EXCEPT ![p] = s]
  /\ UNCHANGED <<q, cVars, hVars>>

PushEvict(p) ==
  /\ ppc[p] = "evicting" /\ over_budget(q.frames, psize[p])
  /\ q' = Evict(q)
  /\ UNCHANGED <<lock, pVars, cVars, hVars>>

PushEnqueue(p) ==
  /\ ppc[p] = "evicting" /\ ~over_budget(q.frames, psize[p])
  /\ q' = Enqueue(q, EventFrame(pushed + 1, psize[p]))
  /\ pushed' = pushed + 1
  /\ lock' = Nobody
  /\ ppc' = [ppc EXCEPT ![p] = "notifying"]
  /\ UNCHANGED <<psize, cVars, rejected, controls>>

\* Mutant: without enable(), a Notified waits only once it is polled.
WaitsParked == cpc = "parked"

\* Notified::enable has registered the connection task as a waiter.
Waits == cpc \in {"armed", "checked", "parked"}

\* notify_waiters wakes who waits at this moment; it stores no permit.
PushNotify(p) ==
  /\ ppc[p] = "notifying"
  /\ woken' = (woken \/ Waits)
  /\ ppc' = [ppc EXCEPT ![p] = "idle"]
  /\ psize' = [psize EXCEPT ![p] = 0]
  /\ UNCHANGED <<qVars, cpc, held, sink, hVars>>

-----------------------------------------------------------------------------
(* The connection task.  "select": at the top of pop or of the select! loop *)

\* pop: create the Notified and enable it, before looking at the queue.
PopArm ==
  /\ cpc = "select"
  /\ cpc' = "armed"
  /\ woken' = FALSE
  /\ UNCHANGED <<qVars, pVars, held, sink, hVars>>

\* pop: look at the queue under the mutex; take the front, or unlock and wait.
PopCheck ==
  /\ cpc = "armed" /\ lock = Nobody
  /\ IF q.frames = <<>>
       THEN cpc' = "checked" /\ UNCHANGED <<q, held>>
       ELSE /\ cpc' = "popped"
            /\ held' = Head(q.frames)
            /\ q' = PopFront(q)
  /\ UNCHANGED <<lock, pVars, woken, sink, hVars>>

\* notified.await is polled.
PopPark ==
  /\ cpc = "checked"
  /\ cpc' = "parked"
  /\ UNCHANGED <<qVars, pVars, woken, held, sink, hVars>>

PopWake ==
  /\ cpc = "parked" /\ woken
  /\ cpc' = "select"
  /\ UNCHANGED <<qVars, pVars, woken, held, sink, hVars>>

\* Mutant: the pending count is taken and not sent.
LagFirstNever == <<>>

\* The `lagged` frame that precedes the popped frame, if drops are pending.
LagFirst == IF q.lag = 0 THEN <<>> ELSE <<Lagged(q.lag)>>

\* take_pending_lag, and the send of the `lagged` frame.
EmitLag ==
  /\ cpc = "popped"
  /\ sink' = sink \o LagFirst
  /\ q' = TakeLag(q)
  /\ cpc' = "writing"
  /\ UNCHANGED <<lock, pVars, woken, held, hVars>>

EmitFrame ==
  /\ cpc = "writing"
  /\ sink' = Append(sink, Written(held))
  /\ held' = NoFrame
  /\ cpc' = "select"
  /\ UNCHANGED <<qVars, pVars, woken, hVars>>

\* A send fails (in "popped": the send of `lagged`, its count already taken).
SendFail ==
  /\ cpc \in {"popped", "writing"}
  /\ q' = IF cpc = "popped" THEN TakeLag(q) ELSE q
  /\ held' = NoFrame
  /\ cpc' = "closed"
  /\ UNCHANGED <<lock, pVars, woken, sink, hVars>>

\* Another branch of select! wins and drops the pop future: a client frame
\* whose answer goes through the queue (subscribe, unsubscribe, ping).
ClientRequest ==
  /\ cpc \in {"select", "parked"} /\ lock = Nobody
  /\ q' = Enqueue(q, ControlFrame(controls + 1))
  /\ controls' = controls + 1
  /\ cpc' = "select"
  /\ UNCHANGED <<lock, pVars, woken, held, sink, pushed, rejected>>

\* Another branch of select! that leaves the queue alone: a websocket ping,
\* pong or timer tick.
Interrupted ==
  /\ cpc = "parked"
  /\ cpc' = "select"
  /\ UNCHANGED <<qVars, pVars, woken, held, sink, hVars>>

\* close_rx.changed() with a reason: `closing` overtakes what is queued.
CloseRequested ==
  /\ cpc \in {"select", "parked"}
  /\ sink' = Append(sink, Closing)
  /\ cpc' = "closed"
  /\ UNCHANGED <<qVars, pVars, woken, held, hVars>>

\* The client closes, the stream fails, or a pong is missed.
Disconnected ==
  /\ cpc \in {"select", "parked"}
  /\ cpc' = "closed"
  /\ UNCHANGED <<qVars, pVars, woken, held, sink, hVars>>

-----------------------------------------------------------------------------
Init ==
  /\ q = NewQueue /\ lock = Nobody
  /\ ppc = [p \in Pushers |-> "idle"] /\ psize = [p \in Pushers |-> 0]
  /\ cpc = "select" /\ woken = FALSE /\ held = NoFrame /\ sink = <<>>
  /\ pushed = 0 /\ rejected = {} /\ controls = 0

\* Events begun: pushed, or being pushed.
InHand == Cardinality({p \in Pushers : ppc[p] = "evicting"})

Push(p) ==
  \/ \E s \in Sizes : pushed + InHand < MaxPushes /\ PushOversized(p, s)
  \/ \E s \in Sizes : pushed + InHand < MaxPushes /\ PushLock(p, s)
  \/ PushEvict(p)
  \/ PushEnqueue(p)
  \/ PushNotify(p)

Pop == PopArm \/ PopCheck \/ PopPark \/ PopWake

Emit == EmitLag \/ EmitFrame \/ SendFail

Next ==
  \/ \E p \in Pushers : Push(p)
  \/ Pop
  \/ Emit
  \/ controls < MaxControls /\ ClientRequest
  \/ Interrupted
  \/ CloseRequested
  \/ Disconnected

Spec == Init /\ [][Next]_vars

(***************************************************************************)
(* A fan-out inside push_event keeps running (it does not await), the       *)
(* connection task is polled when it is ready, and a send returns or fails. *)
(* Nothing forces an event to be pushed or the connection to end.           *)
(***************************************************************************)
FinishPush(p) == PushEvict(p) \/ PushEnqueue(p) \/ PushNotify(p)

Fairness ==
  /\ \A p \in Pushers : WF_vars(FinishPush(p))
  /\ WF_vars(PopArm) /\ WF_vars(PopWake)
  /\ WF_vars(PopCheck) /\ WF_vars(PopPark)
  /\ WF_vars(Emit)

FairSpec == Spec /\ Fairness
-----------------------------------------------------------------------------
(* Properties *)

Queued == {q.frames[i].id : i \in EventsAt(q.frames)}

\* What the socket carried before position i.
LagBefore(i) ==
  Total([j \in 1..(i - 1) |-> IF sink[j].kind = "lagged" THEN sink[j].n ELSE 0])
SentBefore(i) == {sink[j].n : j \in {k \in 1..(i - 1) : sink[k].kind = "event"}}

\* Type correctness.
TypeOK ==
  /\ \A f \in ToSet(q.frames) :
       f \in [is_event : BOOLEAN, id : 1..(MaxPushes + MaxControls), size : Sizes \cup {0}]
  /\ q.delivered \in 0..pushed /\ q.dropped \in 0..pushed /\ q.lag \in 0..q.dropped
  /\ lock \in Pushers \cup {Nobody}
  /\ ppc \in [Pushers -> {"idle", "evicting", "notifying"}]
  /\ psize \in [Pushers -> Sizes \cup {0}]
  /\ cpc \in {"select", "armed", "checked", "parked", "popped", "writing", "closed"}
  /\ woken \in BOOLEAN
  /\ pushed \in 0..MaxPushes /\ rejected \subseteq 1..pushed
  /\ controls \in 0..MaxControls

\* However many fan-outs push at once, the queued events stay within both
\* budgets, control frames not counted.
WithinBudget ==
  /\ EventCount(q.frames) <= max_events
  /\ EventBytes(q.frames) <= max_event_bytes

\* Every event is delivered, dropped or queued, and as long as the connection
\* lives every drop is either announced on the socket or still pending: the
\* swap of the pending count, outside the mutex, loses no concurrent drop.
DropsAccounted ==
  /\ pushed = q.delivered + q.dropped + EventCount(q.frames)
  /\ cpc # "closed" => q.lag + LagBefore(Len(sink) + 1) = q.dropped

\* Loss is explicit and announced in time ([D-lag]): when an event reaches
\* the socket, `lagged` frames already there account for every earlier event
\* that did not, so a client that stops at `lagged` never advances past a hole.
HoleAnnouncedFirst ==
  \A i \in DOMAIN sink : sink[i].kind = "event" =>
    LET missing == (1..(sink[i].n - 1)) \ SentBefore(i) IN
    /\ Cardinality(missing) <= LagBefore(i)
    /\ \A n \in SentBefore(i) : n < sink[i].n

\* Eviction takes the oldest (outbound_queue.rs:4, freshness before
\* completeness): nothing newer than a queued event is lost, unless it was
\* too large ever to be queued.
KeepsNewest ==
  \A n \in Queued : \A m \in n..pushed : m \in Queued \cup rejected

\* Control frames are never evicted nor reordered, whatever events do: on the
\* socket, in the connection's hand and in the queue they are all there, in
\* the order they were pushed.
OnSocket == {i \in DOMAIN sink : sink[i].kind = "control"}
Waiting == DOMAIN q.frames \ EventsAt(q.frames)
InHandControl == IF held.is_event THEN {} ELSE {held.id} \ {0}
ControlsInOrder ==
  LET sent == {sink[i].n : i \in OnSocket}
      queued == {q.frames[i].id : i \in Waiting}
  IN cpc # "closed" =>
       /\ sent \cup InHandControl \cup queued = 1..controls
       /\ \A i, j \in OnSocket : i < j => sink[i].n < sink[j].n
       /\ \A i, j \in Waiting : i < j => q.frames[i].id < q.frames[j].id
       /\ \A n \in sent, m \in InHandControl \cup queued : n < m
       /\ \A n \in InHandControl, m \in queued : n < m

\* What the queue holds is always right: within its budgets, the newest events,
\* and every control frame in its place, with several fan-outs inside
\* push_event at once.
QueueSound == TypeOK /\ WithinBudget /\ KeepsNewest /\ ControlsInOrder

\* The loop under the mutex, with drops of oversized frames and takes of the
\* pending lag in between, leaves the frames push_event would leave in one
\* step: other modules may use push_event as an atomic operation.
LoopStep(p) ==
  LET f == EventFrame(pushed + 1, psize[p]) IN
  ppc[p] = "evicting" =>
    push_event(q, f).frames =
      IF ppc'[p] = "evicting" THEN push_event(q', f).frames ELSE q'.frames
LoopIsPushEvent == [][\A p \in Pushers : LoopStep(p)]_vars

\* No wake-up is lost: a queued frame leaves the queue (to the socket or by
\* eviction) or the connection ends, also when the push races the emptiness
\* check of pop and when select! drops the pop future.
FramesMove == (q.frames # <<>>) ~> (q.frames = <<>> \/ cpc = "closed")
=============================================================================

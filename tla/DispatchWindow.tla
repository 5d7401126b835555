---------------------------- MODULE DispatchWindow ----------------------------
(***************************************************************************)
(* One generation of an extension and the HTTP requests dispatched to it:   *)
(* the window of crates/whdr-server/src/dispatch_window.rs, the caller's    *)
(* side (ExtHandle::dispatch, daemon.rs:702-765), the bounded channel and   *)
(* the writer task behind it (767-786), the reader task that applies        *)
(* results (807-835), hang detection, the supervisor's drain (545-563) and  *)
(* the cleanup of the generation.                                           *)
(*                                                                         *)
(* A request is one dispatch; its own name stands for its req_id.  A permit *)
(* lives in the request's hands between the compare-exchange and the insert *)
(* into pending, and in the pending entry afterwards.  The supervisor's     *)
(* Shutdown message, which shares the channel, is left out.                 *)
(***************************************************************************)
EXTENDS Integers, FiniteSets

CONSTANTS
  Reqs,               \* HTTP requests
  None,               \* the reader holds no reply
  Limits,             \* the configurations' limits (a reload changes them):
                      \* records of max_in_flight and hang_kill_threshold
  Capacity            \* messages accepted and not yet written: the channel's
                      \* slots and the one in the writer's hands

ASSUME WindowAssumption ==
  /\ IsFiniteSet(Reqs)
  /\ None \notin Reqs
  /\ Limits \subseteq [max_in_flight : Nat, hang_kill_threshold : Nat]
  /\ Capacity \in Nat \ {0}

VARIABLES
  in_flight,          \* DispatchWindow.in_flight
  pending,            \* keys of DispatchWindow.pending
  pc,                 \* where each request stands
  chan,               \* its oneshot channel: empty, full, closed
  outbox,             \* dispatches accepted by the channel and not yet written
  stdin,              \* open, stalled (the pipe is full), closed (a write would
                      \* fail), ended (one did: the writer task is gone)
  line,               \* the request whose result line the reader task is at
  reader,             \* the request whose sender the reader task has taken
  threshold,          \* the hang_kill_threshold of the limits each one cloned
  timeouts,           \* consecutive_timeouts
  seen,               \* history: thresholds of the timeouts counted since 0
  kill,               \* hang detection sent KillAndRespawn to the supervisor
  routed,             \* the routes lead to this generation
  alive,              \* the generation is in the extensions map
  cleanup,            \* cleanup_extension_generation: off, removed, unrouted, done
  drain,              \* the supervisor's drain: off, half (pending read), done
  before              \* history: requests with a permit when is_idle began

winVars == <<in_flight, pending, chan>>
pipeVars == <<outbox, stdin>>
readVars == <<line, reader>>
hangVars == <<threshold, timeouts, seen, kill>>
lifeVars == <<routed, alive, cleanup>>
drainVars == <<drain, before>>
vars == <<winVars, pc, pipeVars, readVars, hangVars, lifeVars, drainVars>>

-----------------------------------------------------------------------------
Permit(r) == pc[r] = "permit"

\* Everyone whose permit is counted.
Holders == pending \cup {r \in Reqs : Permit(r)}

\* release_in_flight
Release(n, k) == IF n > k THEN n - k ELSE 0

\* Mutant: the entry goes and its permit stays.
InFlightWithoutKept(S) == in_flight

\* Each entry removed from pending drops its permit.
InFlightWithout(S) == Release(in_flight, Cardinality(pending \cap S))

\* Entries leave pending; with a dropped sender their channels close.
Take(S) ==
  /\ in_flight' = InFlightWithout(S)
  /\ pending' = pending \ S

Goto(r, where) == pc' = [pc EXCEPT ![r] = where]

-----------------------------------------------------------------------------
(* A request *)

\* AppState::dispatch reads the routes under one lock and the extensions under
\* another: Starting when the handle went away in between.
LookupRoute(r) ==
  /\ pc[r] = "new" /\ routed
  /\ Goto(r, "routed")
  /\ UNCHANGED <<winVars, pipeVars, readVars, hangVars, lifeVars, drainVars>>

LookupHandle(r) ==
  /\ pc[r] = "routed"
  /\ Goto(r, IF alive THEN "held" ELSE "starting")
  /\ UNCHANGED <<winVars, pipeVars, readVars, hangVars, lifeVars, drainVars>>

HasRoom(n, max) == n < max

\* reserve_in_flight, one successful or refused compare-exchange.  The limits
\* are those of the configuration the dispatch cloned (daemon.rs:711).
Reserve(r) ==
  \E limits \in Limits :
    /\ pc[r] = "held" /\ HasRoom(in_flight, limits.max_in_flight)
    /\ in_flight' = in_flight + 1
    /\ threshold' = [threshold EXCEPT ![r] = limits.hang_kill_threshold]
    /\ Goto(r, "permit")
    /\ UNCHANGED <<pending, chan, pipeVars, readVars, timeouts, seen, kill, lifeVars, drainVars>>

Busy(r) ==
  \E limits \in Limits :
    /\ pc[r] = "held" /\ ~HasRoom(in_flight, limits.max_in_flight)
    /\ Goto(r, "busy")
    /\ UNCHANGED <<winVars, pipeVars, readVars, hangVars, lifeVars, drainVars>>

\* The pending entry takes the permit.
Insert(r) ==
  /\ pc[r] = "permit"
  /\ pending' = pending \cup {r}
  /\ Goto(r, "sending")
  /\ UNCHANGED <<in_flight, chan, pipeVars, readVars, hangVars, lifeVars, drainVars>>

HasSlot == Cardinality(outbox) < Capacity

\* self.tx.send(msg).await: waits, under no timeout, for a slot of the channel.
SendOk(r) ==
  /\ pc[r] = "sending" /\ stdin # "ended" /\ HasSlot
  /\ outbox' = outbox \cup {r}
  /\ Goto(r, "waiting")
  /\ UNCHANGED <<winVars, stdin, readVars, hangVars, lifeVars, drainVars>>

\* The writer task ended, because a write to the extension failed:
\* remove_pending, Dead.  The process may die long before the cleanup runs.
SendFail(r) ==
  /\ pc[r] = "sending" /\ stdin = "ended"
  /\ Take({r})
  /\ Goto(r, "dead")
  /\ UNCHANGED <<chan, pipeVars, readVars, hangVars, lifeVars, drainVars>>

\* wait: the oneshot resolved, with a result or with a dropped sender.
WaitResult(r) ==
  /\ pc[r] = "waiting" /\ chan[r] = "full"
  /\ Goto(r, "result")
  /\ UNCHANGED <<winVars, pipeVars, readVars, hangVars, lifeVars, drainVars>>

WaitDead(r) ==
  /\ pc[r] = "waiting" /\ chan[r] = "closed"
  /\ Goto(r, "dead")
  /\ UNCHANGED <<winVars, pipeVars, readVars, hangVars, lifeVars, drainVars>>

\* Mutant: no timeout around the oneshot.
WaitForever(r) == pc[r] = "waiting" /\ FALSE /\ UNCHANGED vars

\* wait: the timer fires with the oneshot still unresolved; remove_pending.
WaitTimeout(r) ==
  /\ pc[r] = "waiting" /\ chan[r] = "empty"
  /\ Take({r})
  /\ Goto(r, "late")
  /\ UNCHANGED <<chan, pipeVars, readVars, hangVars, lifeVars, drainVars>>

\* hang_kill_threshold.max(1)
AtLeastOne(t) == IF t > 1 THEN t ELSE 1

\* Mutant: the kill is asked for one timeout too late.
HangReachedLate(n, t) == n = t + 1

\* timeouts == threshold, with the dispatch's own threshold.
HangReached(n, t) == n = AtLeastOne(t)

\* consecutive_timeouts.fetch_add(1); at the threshold ask for a kill.  A
\* try_send that fails finds the supervisor's channel full of commands, the
\* first of which ends the generation.
CountTimeout(r) ==
  /\ pc[r] = "late"
  /\ timeouts' = timeouts + 1
  /\ seen' = seen \cup {threshold[r]}
  /\ kill' = (kill \/ HangReached(timeouts + 1, threshold[r]))
  /\ Goto(r, "timeout")
  /\ UNCHANGED <<winVars, pipeVars, readVars, threshold, lifeVars, drainVars>>

Awaiting(r) == pc[r] \in {"routed", "held", "sending", "waiting"}

\* Mutant: DispatchReservation without its Drop.
CancelUnarmed(r) ==
  /\ Awaiting(r)
  /\ Goto(r, "cancelled")
  /\ UNCHANGED <<winVars, pipeVars, readVars, hangVars, lifeVars, drainVars>>

\* The HTTP client goes away at an await: a reservation is dropped armed.
Cancel(r) ==
  /\ Awaiting(r)
  /\ Take({r})
  /\ Goto(r, "cancelled")
  /\ UNCHANGED <<chan, pipeVars, readVars, hangVars, lifeVars, drainVars>>

-----------------------------------------------------------------------------
(* The writer task and the extension's end of the pipe *)

\* rx.recv(), write_all, flush.
WriterWrites ==
  \E r \in outbox :
    /\ stdin = "open"
    /\ outbox' = outbox \ {r}
    /\ UNCHANGED <<winVars, pc, stdin, readVars, hangVars, lifeVars, drainVars>>

\* A write fails: the task breaks out of its loop and drops the receiver, and
\* with it the messages in the channel.
WriterFails ==
  /\ stdin = "closed" /\ outbox # {}
  /\ stdin' = "ended"
  /\ UNCHANGED <<winVars, pc, outbox, readVars, hangVars, lifeVars, drainVars>>

\* The extension stops reading, or reads again.
PipeFills ==
  /\ stdin = "open"
  /\ stdin' = "stalled"
  /\ UNCHANGED <<winVars, pc, outbox, readVars, hangVars, lifeVars, drainVars>>

PipeDrains ==
  /\ stdin = "stalled"
  /\ stdin' = "open"
  /\ UNCHANGED <<winVars, pc, outbox, readVars, hangVars, lifeVars, drainVars>>

\* The process exits or is killed.
ProcessDies ==
  /\ stdin \in {"open", "stalled"}
  /\ stdin' = "closed"
  /\ UNCHANGED <<winVars, pc, outbox, readVars, hangVars, lifeVars, drainVars>>

-----------------------------------------------------------------------------
(* The reader task *)

\* A result line for r, once its dispatch was written, read while the generation
\* is in the map.  The extension may answer late, twice, or never.
ReadLine(r) ==
  /\ alive /\ line = None /\ reader = None
  /\ pc[r] = "waiting" /\ r \notin outbox
  /\ line' = r
  /\ UNCHANGED <<winVars, pc, pipeVars, reader, hangVars, lifeVars, drainVars>>

\* dispatches.remove(&req_id): without an entry the line is dropped.
TakeResult ==
  /\ line # None
  /\ Take({line})
  /\ reader' = IF line \in pending THEN line ELSE None
  /\ line' = None
  /\ UNCHANGED <<chan, pc, pipeVars, hangVars, lifeVars, drainVars>>

\* Reset the hang counter, filter the events, send.
SendResult ==
  /\ reader # None
  /\ timeouts' = 0 /\ seen' = {}
  /\ chan' = [chan EXCEPT ![reader] = "full"]
  /\ reader' = None
  /\ UNCHANGED <<in_flight, pending, pc, pipeVars, line, threshold, kill, lifeVars, drainVars>>

-----------------------------------------------------------------------------
(* The generation's end *)

\* unroute_extension, by a reload that no longer wants the extension.
Unroute ==
  /\ routed
  /\ routed' = FALSE
  /\ UNCHANGED <<winVars, pc, pipeVars, readVars, hangVars, alive, cleanup, drainVars>>

\* is_idle reads pending, then in_flight.  A reload has unrouted the extension it
\* drains; a shutdown drains extensions that are still routed.
DrainReadsPending ==
  /\ alive /\ drain = "off" /\ pending = {}
  /\ drain' = "half"
  /\ before' = Holders
  /\ UNCHANGED <<winVars, pc, pipeVars, readVars, hangVars, lifeVars>>

\* Mutant: only pending is looked at.
NoneInFlightUnread == TRUE

NoneInFlight == in_flight = 0

DrainReadsInFlight ==
  /\ drain = "half"
  /\ drain' = IF NoneInFlight THEN "done" ELSE "off"
  /\ before' = IF NoneInFlight THEN before ELSE {}
  /\ UNCHANGED <<winVars, pc, pipeVars, readVars, hangVars, lifeVars>>

\* cleanup_extension_generation, after the process has exited or been killed:
\* leave the map, unroute, clear the window.  Requests that cloned the handle
\* before may still reserve, at any of these points.
CleanupRemove ==
  /\ alive /\ stdin \in {"closed", "ended"}
  /\ alive' = FALSE /\ cleanup' = "removed"
  /\ UNCHANGED <<winVars, pc, pipeVars, readVars, hangVars, routed, drainVars>>

CleanupUnroute ==
  /\ cleanup = "removed"
  /\ routed' = FALSE /\ cleanup' = "unrouted"
  /\ UNCHANGED <<winVars, pc, pipeVars, readVars, hangVars, alive, drainVars>>

CleanupClear ==
  /\ cleanup = "unrouted"
  /\ Take(Reqs)
  /\ chan' = [r \in Reqs |-> IF r \in pending THEN "closed" ELSE chan[r]]
  /\ cleanup' = "done"
  /\ UNCHANGED <<pc, pipeVars, readVars, hangVars, routed, alive, drainVars>>

-----------------------------------------------------------------------------
Init ==
  /\ in_flight = 0 /\ pending = {} /\ chan = [r \in Reqs |-> "empty"]
  /\ pc = [r \in Reqs |-> "new"]
  /\ outbox = {} /\ stdin = "open"
  /\ line = None /\ reader = None
  /\ threshold = [r \in Reqs |-> 0] /\ timeouts = 0 /\ seen = {} /\ kill = FALSE
  /\ routed = TRUE /\ alive = TRUE /\ cleanup = "off"
  /\ drain = "off" /\ before = {}

Request(r) ==
  \/ LookupRoute(r)
  \/ LookupHandle(r)
  \/ Reserve(r)
  \/ Busy(r)
  \/ Insert(r)
  \/ SendOk(r)
  \/ SendFail(r)
  \/ WaitResult(r)
  \/ WaitDead(r)
  \/ WaitTimeout(r)
  \/ CountTimeout(r)

Next ==
  \/ \E r \in Reqs : Request(r) \/ Cancel(r) \/ ReadLine(r)
  \/ WriterWrites
  \/ WriterFails
  \/ PipeFills
  \/ PipeDrains
  \/ ProcessDies
  \/ TakeResult
  \/ SendResult
  \/ Unroute
  \/ DrainReadsPending
  \/ DrainReadsInFlight
  \/ CleanupRemove
  \/ CleanupUnroute
  \/ CleanupClear

Spec == Init /\ [][Next]_vars

\* A request's future is polled and its timer fires, and the writer task runs
\* while the pipe takes bytes or a write fails.  Nothing else is forced: not that
\* the extension reads its stdin, answers or ends, not a cancellation, not the
\* reader task.
Fairness ==
  /\ \A r \in Reqs : WF_vars(Request(r))
  /\ WF_vars(WriterWrites)
  /\ WF_vars(WriterFails)

FairSpec == Spec /\ Fairness
-----------------------------------------------------------------------------
(* Properties *)

PcValues == {"new", "routed", "starting", "held", "busy", "permit", "sending", "waiting", "result",
             "dead", "late", "timeout", "cancelled"}

\* Type correctness.
TypeOK ==
  /\ in_flight \in Nat
  /\ pending \subseteq Reqs
  /\ pc \in [Reqs -> PcValues]
  /\ chan \in [Reqs -> {"empty", "full", "closed"}]
  /\ outbox \subseteq Reqs
  /\ stdin \in {"open", "stalled", "closed", "ended"}
  /\ line \in Reqs \cup {None}
  /\ reader \in Reqs \cup {None}
  /\ threshold \in [Reqs -> Nat]
  /\ timeouts \in Nat
  /\ seen \subseteq Nat
  /\ kill \in BOOLEAN /\ routed \in BOOLEAN /\ alive \in BOOLEAN
  /\ cleanup \in {"off", "removed", "unrouted", "done"}
  /\ drain \in {"off", "half", "done"}
  /\ before \subseteq Reqs

\* The counter is exactly the permits that exist, whatever results, timeouts,
\* dropped requests and cleanups remove entries, and in whatever order: no
\* permit leaks (the window would stay Busy) and none is released twice (the
\* window would admit too many, hidden by the saturating subtraction).
PermitsExact ==
  /\ in_flight = Cardinality(Holders)
  /\ in_flight = 0 \/ \E limits \in Limits : in_flight <= limits.max_in_flight

\* Nothing is left behind by a request that has its answer.
NoOrphans ==
  \A r \in pending : pc[r] \in {"sending", "waiting"} /\ chan[r] = "empty"

\* A drain that reports idle saw no dispatch in progress: whoever held a permit
\* when it started looking has been answered or has given up.
DrainSound ==
  drain = "done" => \A r \in before : r \notin pending /\ ~Permit(r)

\* As many timeouts in a row as the threshold are never missed, although
\* concurrent timeouts and a late result update the counter and the test is for
\* equality (daemon.rs:749): as long as the dispatches counted since the last
\* result cloned the same threshold.  A reload that lowers it in between can
\* make the counter step over it.
HangReported ==
  \A t \in seen : seen = {t} /\ timeouts >= AtLeastOne(t) => kill

\* A sender the channel keeps waiting: no slot, and an extension that does not
\* read.  No timer runs yet (daemon.rs:725 comes before 729).
Blocked(r) == pc[r] = "sending" /\ stdin = "stalled" /\ ~HasSlot

\* Every request that reserved a slot gets an outcome, unless it waits for an
\* extension that has stopped reading its stdin.
Answered ==
  \A r \in Reqs :
    (r \in Holders) ~> (pc[r] \in {"result", "dead", "timeout", "cancelled"} \/ Blocked(r))
=============================================================================

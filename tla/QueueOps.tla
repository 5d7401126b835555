------------------------------- MODULE QueueOps -------------------------------
(***************************************************************************)
(* The data structure of crates/whdr-server/src/outbound_queue.rs: a FIFO   *)
(* of frames in which event frames, and only they, count against a budget   *)
(* of frames and of bytes.  A frame is a record with at least the fields    *)
(* is_event and size; a queue is a record of frames and three counters.     *)
(***************************************************************************)
EXTENDS Integers, Sequences, SequencesExt

CONSTANTS
  SubQueueLen,     \* limits.sub_queue_len
  SubQueueBytes    \* limits.sub_queue_bytes

ASSUME QueueAssumption == SubQueueLen \in Nat /\ SubQueueBytes \in Nat

\* OutboundQueue::new: a zero limit counts as one.
max_events == IF SubQueueLen > 1 THEN SubQueueLen ELSE 1
max_event_bytes == IF SubQueueBytes > 1 THEN SubQueueBytes ELSE 1

NewQueue == [frames |-> <<>>, delivered |-> 0, dropped |-> 0, lag |-> 0]

\* The sum of a sequence of numbers.
Total(w) ==
  LET upto[i \in 0..Len(w)] == IF i = 0 THEN 0 ELSE upto[i - 1] + w[i] IN upto[Len(w)]

\* The positions of the events, how many they are, and what they weigh.
EventsAt(frames) == {i \in DOMAIN frames : frames[i].is_event}
EventCount(frames) ==
  Total([i \in 1..Len(frames) |-> IF frames[i].is_event THEN 1 ELSE 0])
EventBytes(frames) ==
  Total([i \in 1..Len(frames) |-> IF frames[i].is_event THEN frames[i].size ELSE 0])

over_budget(frames, n) ==
  /\ EventCount(frames) # 0
  /\ \/ EventCount(frames) + 1 > max_events
     \/ EventBytes(frames) + n > max_event_bytes

\* Mutant: the oldest frame of any kind is evicted.
evict_at_front(frames) == 1

\* frames.iter().position(|frame| frame.is_event)
evict_at(frames) == Min(EventsAt(frames))

\* Mutant: the drop is counted but not set aside for a `lagged` frame.
record_drop_silent(q) == [q EXCEPT !.dropped = @ + 1]

record_drop(q) == [q EXCEPT !.dropped = @ + 1, !.lag = @ + 1]

oversized(n) == n > max_event_bytes

\* One turn of the eviction loop in push_event.
Evict(q) == record_drop([q EXCEPT !.frames = RemoveAt(@, evict_at(@))])

Enqueue(q, f) == [q EXCEPT !.frames = Append(@, f)]

\* pop, when there is a frame to take.
PopFront(q) ==
  [q EXCEPT !.frames = Tail(@),
            !.delivered = IF Head(q.frames).is_event THEN @ + 1 ELSE @]

\* take_pending_lag: the count taken is q.lag.
TakeLag(q) == [q EXCEPT !.lag = 0]

(***************************************************************************)
(* push_event as one step, for a reader who does not look inside the lock:  *)
(* the loop stops at the first k for which k evictions make room.           *)
(***************************************************************************)

\* Mutant: at most one event is evicted.
push_event_once(q, f) ==
  IF oversized(f.size) THEN record_drop(q)
  ELSE IF over_budget(q.frames, f.size) THEN Enqueue(Evict(q), f)
  ELSE Enqueue(q, f)

push_event(q, f) ==
  LET count == EventCount(q.frames)
      after[k \in 0..count] == IF k = 0 THEN q ELSE Evict(after[k - 1])
      room == {k \in 0..count : ~over_budget(after[k].frames, f.size)}
  IN IF oversized(f.size) THEN record_drop(q) ELSE Enqueue(after[Min(room)], f)
=============================================================================

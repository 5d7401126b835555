----------------------------- MODULE DeliveryLog -----------------------------
(***************************************************************************)
(* The durable delivery log (crates/whdr-server/src/delivery_log.rs): a     *)
(* single-writer append log over an embedded redb table, with a lock-free   *)
(* read side made of two atomics (head, floor) and snapshot reads.          *)
(*                                                                         *)
(* A writer (an append running on a blocking thread, or the pruner) holds   *)
(* the `writer` mutex from Lock to its last store.  The commit and the      *)
(* stores of the atomics that readers look at are separate steps, because   *)
(* a replay reads head and floor without the mutex.  retained_count and     *)
(* retained_bytes are read under the mutex only (a status display apart),   *)
(* so their stores join the neighbouring step.                              *)
(***************************************************************************)
EXTENDS Integers, Sequences, FiniteSets, FiniteSetsExt

CONSTANTS
  Tasks,          \* appends that may be in flight at the same time
  Pruner,         \* the prune task: one, re-armed by a timer
  Nobody,         \* the mutex is free
  Events,         \* event contents (channel and payload)
  SizeOf,         \* bytes of an event's stored row
  RetentionSecs,  \* delivery.retention_secs
  MaxBytes,       \* delivery.max_bytes
  MaxEvents,      \* delivery.max_events
  Times,          \* readings of the wall clock, in ms
  MaxBatch,       \* BOUND: events in one append
  MaxBegun,       \* BOUND: events handed to append in a behaviour
  MaxCrashes      \* BOUND: restarts of the process

Procs == Tasks \cup {Pruner}

\* Config::validate refuses zero limits (config.rs:237-243).
ASSUME LogAssumption ==
  /\ Pruner \notin Tasks
  /\ Nobody \notin Procs
  /\ SizeOf \in [Events -> Nat \ {0}]
  /\ RetentionSecs \in Nat \ {0}
  /\ MaxBytes \in Nat \ {0}
  /\ MaxEvents \in Nat \ {0}
  /\ Times \subseteq Nat
  /\ MaxBatch \in Nat
  /\ MaxBegun \in Nat
  /\ MaxCrashes \in Nat

VARIABLES
  rows,            \* the EVENTS table: seq -> stored event (survives a crash)
  head, floor, retained_count, retained_bytes,   \* Shared's atomics
  writer,          \* holder of Shared.writer
  pc,              \* where each append, and the pruner, stands
  job,             \* what it was called with and what it computed
  up,              \* the log is open
  now,             \* the wall clock
  begun, crashes,  \* bounded by MaxBegun and MaxCrashes
  issued,          \* history: every <<seq, id>> ever committed
  lostHead         \* history: some open found the table empty after a commit

diskVars == <<rows, issued, lostHead>>
atomics == <<head, floor, retained_count, retained_bytes>>
callVars == <<writer, pc, job>>
envVars == <<up, now, begun, crashes>>
logVars == <<diskVars, atomics, callVars, envVars>>

-----------------------------------------------------------------------------
(* Data *)

Seqs == Nat \ {0}
Stamped == [id : Nat, ev : Events]
Row == [id : Nat, ev : Events, ts : Nat]
Job == [ts : Nat, batch : Seq(Stamped), base : Nat, floor : Nat]
NoJob == [ts |-> 0, batch |-> <<>>, base |-> 0, floor |-> 0]
PcValues == {"idle", "waiting", "writing", "committed", "publishing",
             "ok", "err"}

SatSub(a, b) == IF a > b THEN a - b ELSE 0

\* First and last key of the table, 0 when it is empty.
FirstKey(S) == IF S = {} THEN 0 ELSE Min(S)
LastKey(S) == IF S = {} THEN 0 ELSE Max(S)

\* w[1] + ... + w[n]
SumTo(w, n) ==
  LET sum[k \in 0..n] == IF k = 0 THEN 0 ELSE sum[k - 1] + w[k]
  IN  sum[n]

\* The bytes of the rows under the keys S, in the order of the keys.
BytesOf(r, S) ==
  SumTo([k \in 1..LastKey(S) |-> IF k \in S THEN SizeOf[r[k].ev] ELSE 0], LastKey(S))

BatchBytes(b) == SumTo([i \in DOMAIN b |-> SizeOf[b[i].ev]], Len(b))

\* Keep only the rows whose key is in S.
Only(r, S) == [s \in S |-> r[s]]

(***************************************************************************)
(* The prune loop.  It removes the front row while that row is past the     *)
(* TTL or the running count or byte total is over its cap; c is the front   *)
(* at which it stops (one past the last row if it empties the table).       *)
(***************************************************************************)
TooOld(now_ms, ts_ms) == SatSub(now_ms, ts_ms) \div 1000 > RetentionSecs

\* The fronts the loop may meet, the end of the table last.
Fronts(r) == DOMAIN r \cup {LastKey(DOMAIN r) + 1}

Removed(r, c) == {s \in DOMAIN r : s < c}

\* Mutant: the count cap is exclusive.
OverLimitAtCap(r, now_ms, count, bytes, c) ==
  \/ TooOld(now_ms, r[c].ts)
  \/ count - Cardinality(Removed(r, c)) >= MaxEvents
  \/ SatSub(bytes, BytesOf(r, Removed(r, c))) > MaxBytes

OverLimit(r, now_ms, count, bytes, c) ==
  \/ TooOld(now_ms, r[c].ts)
  \/ count - Cardinality(Removed(r, c)) > MaxEvents
  \/ SatSub(bytes, BytesOf(r, Removed(r, c))) > MaxBytes

PruneStopsAt(r, now_ms, count, bytes, c) ==
  /\ c \in DOMAIN r => ~OverLimit(r, now_ms, count, bytes, c)
  /\ \A d \in DOMAIN r : d < c => OverLimit(r, now_ms, count, bytes, d)

-----------------------------------------------------------------------------
(* Appending *)

\* Mutants: head loses the batch length, or runs one ahead.
HeadAfterFirst(j) == j.base + 1
HeadAfterPlusOne(j) == j.base + Len(j.batch) + 1

\* self.head.store(base + rows.len())
HeadAfter(j) == j.base + Len(j.batch)

\* Mutant: the first append's floor is its last seq.
FloorAfterLast(f, j) == IF f = 0 THEN j.base + Len(j.batch) ELSE f

\* self.floor.compare_exchange(0, stamped[0].seq)
FloorAfter(f, j) == IF f = 0 THEN j.base + 1 ELSE f

\* self.writer.lock()
CanLock == writer = Nobody

\* DeliveryLog::append hands a non-empty batch to a blocking thread.  The
\* timestamp was taken by fanout, before the mutex is acquired.
AppendCall(t, batch) ==
  /\ up /\ pc[t] = "idle"
  /\ batch # <<>>
  /\ job' = [job EXCEPT ![t] = [NoJob EXCEPT !.ts = now, !.batch =
               [i \in DOMAIN batch |-> [id |-> begun + i, ev |-> batch[i]]]]]
  /\ begun' = begun + Len(batch)
  /\ pc' = [pc EXCEPT ![t] = "waiting"]
  /\ UNCHANGED <<diskVars, atomics, writer, up, now, crashes>>

\* self.writer.lock(); an append then reads its base from head.
Lock(p) ==
  /\ pc[p] = "waiting" /\ CanLock
  /\ writer' = p
  /\ pc' = [pc EXCEPT ![p] = "writing"]
  /\ job' = [job EXCEPT ![p].base = IF p = Pruner THEN 0 ELSE head]
  /\ UNCHANGED <<diskVars, atomics, envVars>>

\* One redb transaction for the whole batch.
AppendCommit(t) ==
  LET base == job[t].base
      n == Len(job[t].batch)
      added == [s \in (base + 1)..(base + n) |->
                  [id |-> job[t].batch[s - base].id,
                   ev |-> job[t].batch[s - base].ev, ts |-> job[t].ts]]
  IN /\ pc[t] = "writing"
     /\ rows' = [s \in DOMAIN rows \cup DOMAIN added |->
                   IF s \in DOMAIN added THEN added[s] ELSE rows[s]]
     /\ issued' = issued \cup {<<s, added[s].id>> : s \in DOMAIN added}
     /\ pc' = [pc EXCEPT ![t] = "committed"]
     /\ UNCHANGED <<lostHead, atomics, writer, job, envVars>>

\* Any `?` up to and including the commit: the transaction is dropped.
AppendFail(t) ==
  /\ pc[t] = "writing"
  /\ writer' = Nobody
  /\ pc' = [pc EXCEPT ![t] = "err"]
  /\ UNCHANGED <<diskVars, atomics, job, envVars>>

StoreHead(t) ==
  /\ pc[t] = "committed"
  /\ head' = HeadAfter(job[t])
  /\ pc' = [pc EXCEPT ![t] = "publishing"]
  /\ UNCHANGED <<diskVars, floor, retained_count, retained_bytes, writer,
                 job, envVars>>

\* The compare-exchange of floor, the two counters, and the unlock.
StoreFloor(t) ==
  /\ pc[t] = "publishing"
  /\ floor' = FloorAfter(floor, job[t])
  /\ retained_count' = retained_count + Len(job[t].batch)
  /\ retained_bytes' = retained_bytes + BatchBytes(job[t].batch)
  /\ writer' = Nobody
  /\ pc' = [pc EXCEPT ![t] = "ok"]
  /\ UNCHANGED <<diskVars, head, job, envVars>>

\* The caller takes the result (Ok: the stamped batch, at seqs after base).
AppendReturn(t) ==
  /\ pc[t] \in {"ok", "err"}
  /\ pc' = [pc EXCEPT ![t] = "idle"]
  /\ job' = [job EXCEPT ![t] = NoJob]
  /\ UNCHANGED <<diskVars, atomics, writer, envVars>>

-----------------------------------------------------------------------------
(* Pruning *)

\* count -= 1 for every row removed
CountAfter(count, gone) == count - Cardinality(gone)

\* The timer of the prune task fires; the clock is read before the mutex.
PruneCall ==
  /\ up /\ pc[Pruner] = "idle"
  /\ job' = [job EXCEPT ![Pruner] = [NoJob EXCEPT !.ts = now]]
  /\ pc' = [pc EXCEPT ![Pruner] = "waiting"]
  /\ UNCHANGED <<diskVars, atomics, writer, envVars>>

\* The whole loop runs in one transaction, on the counters as it found them.
PruneCommit ==
  /\ pc[Pruner] = "writing"
  /\ \E c \in Fronts(rows) :
       LET gone == Removed(rows, c) IN
       /\ PruneStopsAt(rows, job[Pruner].ts, retained_count, retained_bytes, c)
       /\ rows' = Only(rows, DOMAIN rows \ gone)
       /\ job' = [job EXCEPT ![Pruner].floor = FirstKey(DOMAIN rows \ gone)]
       /\ retained_count' = CountAfter(retained_count, gone)
       /\ retained_bytes' = SatSub(retained_bytes, BytesOf(rows, gone))
  /\ pc' = [pc EXCEPT ![Pruner] = "committed"]
  /\ UNCHANGED <<issued, lostHead, head, floor, writer, envVars>>

PruneFail ==
  /\ pc[Pruner] = "writing"
  /\ writer' = Nobody
  /\ pc' = [pc EXCEPT ![Pruner] = "idle"]
  /\ job' = [job EXCEPT ![Pruner] = NoJob]
  /\ UNCHANGED <<diskVars, atomics, envVars>>

\* The store of floor, and the unlock.
PruneStore ==
  /\ pc[Pruner] = "committed"
  /\ floor' = job[Pruner].floor
  /\ writer' = Nobody
  /\ pc' = [pc EXCEPT ![Pruner] = "idle"]
  /\ job' = [job EXCEPT ![Pruner] = NoJob]
  /\ UNCHANGED <<diskVars, head, retained_count, retained_bytes, envVars>>

-----------------------------------------------------------------------------
(* Restart *)

\* Mutant: head is recovered as the number of rows.
RecoveredHeadCount(S) == Cardinality(S)

\* The last key the scan in open meets.
RecoveredHead(S) == LastKey(S)

\* The process stops: only the table is left.  (An orderly shutdown aborts
\* its tasks and looks the same to the log.)
Crash ==
  /\ up
  /\ up' = FALSE
  /\ crashes' = crashes + 1
  /\ head' = 0 /\ floor' = 0 /\ retained_count' = 0 /\ retained_bytes' = 0
  /\ writer' = Nobody
  /\ pc' = [p \in Procs |-> "idle"]
  /\ job' = [p \in Procs |-> NoJob]
  /\ UNCHANGED <<diskVars, now, begun>>

\* DeliveryLog::open: recover the atomics by one scan, then prune once.  head
\* is what the scan found, before the boot prune.
Open ==
  LET S == DOMAIN rows IN
  /\ ~up
  /\ up' = TRUE
  /\ \E c \in Fronts(rows) :
       LET gone == Removed(rows, c) IN
       /\ PruneStopsAt(rows, now, Cardinality(S), BytesOf(rows, S), c)
       /\ rows' = Only(rows, S \ gone)
       /\ floor' = FirstKey(S \ gone)
       /\ retained_count' = CountAfter(Cardinality(S), gone)
       /\ retained_bytes' = SatSub(BytesOf(rows, S), BytesOf(rows, gone))
  /\ head' = RecoveredHead(S)
  /\ lostHead' = (lostHead \/ (S = {} /\ issued # {}))
  /\ UNCHANGED <<issued, callVars, now, begun, crashes>>

\* The wall clock moves (now_unix_ms reads SystemTime, which may be set back).
Clock ==
  /\ now' \in Times \ {now}
  /\ UNCHANGED <<diskVars, atomics, callVars, up, begun, crashes>>

-----------------------------------------------------------------------------
Init ==
  /\ rows = << >> /\ issued = {} /\ lostHead = FALSE
  /\ head = 0 /\ floor = 0 /\ retained_count = 0 /\ retained_bytes = 0
  /\ writer = Nobody
  /\ pc = [p \in Procs |-> "idle"]
  /\ job = [p \in Procs |-> NoJob]
  /\ up = FALSE
  /\ now \in Times
  /\ begun = 0 /\ crashes = 0

AppendBatch(t) ==
  \E n \in 1..MaxBatch : \E batch \in [1..n -> Events] :
    /\ begun + n <= MaxBegun
    /\ AppendCall(t, batch)

AppendStep(t) ==
  \/ AppendBatch(t)
  \/ AppendCommit(t)
  \/ AppendFail(t)
  \/ StoreHead(t)
  \/ StoreFloor(t)
  \/ AppendReturn(t)

PruneStep ==
  \/ PruneCall
  \/ PruneCommit
  \/ PruneFail
  \/ PruneStore

Next ==
  \/ \E t \in Tasks : AppendStep(t)
  \/ \E p \in Procs : Lock(p)
  \/ PruneStep
  \/ crashes < MaxCrashes /\ Crash
  \/ Open
  \/ Clock

Spec == Init /\ [][Next]_logVars
-----------------------------------------------------------------------------
(* Properties *)

\* Type correctness.
TypeOK ==
  /\ DOMAIN rows \subseteq Seqs
  /\ rows \in [DOMAIN rows -> Row]
  /\ head \in Nat /\ floor \in Nat /\ retained_count \in Nat
  /\ writer \in Procs \cup {Nobody}
  /\ pc \in [Procs -> PcValues]
  /\ job \in [Procs -> Job]
  /\ up \in BOOLEAN /\ lostHead \in BOOLEAN
  /\ now \in Times /\ begun \in Nat /\ crashes \in Nat
  /\ issued \subseteq Seqs \X Nat

\* The table holds one contiguous run of sequence numbers, through failed
\* commits, crashes between commit and store, prunes and reopens (the
\* "gapless global seq" delivery_log.rs:3 promises).
Gapless == \A s \in DOMAIN rows : s + 1 \in DOMAIN rows \/ s = LastKey(DOMAIN rows)

\* What a lock-free reader may conclude from floor and head: no retained row
\* lies below a non-zero floor, so a replay gap is never announced for rows
\* that could be replayed; and outside the pruner's commit-to-store window
\* every seq from floor to head is in the table.
WindowExact ==
  up /\ floor # 0 =>
    /\ \A s \in DOMAIN rows : floor <= s
    /\ writer # Pruner => floor..head \subseteq DOMAIN rows

\* An append that returned Ok is behind head, and its rows are in the table
\* unless the pruner has taken them from the front: a subscriber that starts
\* replaying now can only miss them through retention.
AckedIsReplayable ==
  \A t \in Tasks : pc[t] = "ok" =>
    \A i \in DOMAIN job[t].batch :
      LET s == job[t].base + i IN
      /\ s <= head
      /\ s \in DOMAIN rows \/ \A r \in DOMAIN rows : s < r

\* Whenever the mutex is free the atomics describe the table exactly, also
\* after a reopen and after failed appends and prunes: the next append's base
\* and the prune loop's count test rely on it.
AtomicsExact ==
  up /\ writer = Nobody =>
    /\ floor = FirstKey(DOMAIN rows)
    /\ retained_count = Cardinality(DOMAIN rows)
    /\ DOMAIN rows # {} => head = LastKey(DOMAIN rows)

\* No two events are ever committed under the same seq.
SeqUnique == \A x, y \in issued : x[1] = y[1] => x = y

\* Across any number of restarts, a seq is given out twice only if some open
\* found an empty table and so restarted the count from zero
\* (delivery_log.rs:94-110 recovers head from the rows alone).
SeqNeverReused == lostHead \/ SeqUnique

\* A committed row is never rewritten, and rows leave the table from the
\* front only, so a replay cursor divides the table into lost and replayable.
FrontOnlyStep ==
  /\ \A s \in DOMAIN rows \cap DOMAIN rows' : rows'[s] = rows[s]
  /\ \A s \in DOMAIN rows \ DOMAIN rows' : \A r \in DOMAIN rows' : s < r
FrontOnly == [][FrontOnlyStep]_rows

\* A prune, at boot or on the timer, removes exactly what the limits demand:
\* what is left is within the caps and its front is within the TTL, and the
\* last row removed was over some limit together with everything after it
\* (measured on the rows themselves, not on the counters the loop uses).
Exceeds(r, S, now_ms) ==
  \/ TooOld(now_ms, r[Min(S)].ts)
  \/ Cardinality(S) > MaxEvents
  \/ BytesOf(r, S) > MaxBytes
PruneExactStep ==
  LET kept == DOMAIN rows'
      gone == DOMAIN rows \ DOMAIN rows'
      clock == IF up THEN job[Pruner].ts ELSE now
  IN (~up /\ up') \/ (pc[Pruner] = "writing" /\ pc'[Pruner] = "committed") =>
       /\ kept # {} => ~Exceeds(rows, kept, clock)
       /\ gone # {} => Exceeds(rows, kept \cup {Max(gone)}, clock)
PruneExact == [][PruneExactStep]_logVars
=============================================================================

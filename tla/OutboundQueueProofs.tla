-------------------------- MODULE OutboundQueueProofs --------------------------
(***************************************************************************)
(* Proofs about one subscriber's outbound queue, for every number of fan-   *)
(* outs pushing at once, every pair of limits and every set of frame sizes. *)
(***************************************************************************)
EXTENDS OutboundQueue, QueueOpsProofs, FiniteSetTheorems

Frames == [is_event : BOOLEAN, id : 1..(MaxPushes + MaxControls), size : Sizes \cup {0}]
Kinds == {"event", "control"}
Writes == [kind : Kinds \cup {"lagged", "closing"}, n : Nat]

\* Frames of one kind carry numbers in the order they were pushed: what the
\* queue holds of them, what the socket carried of them.
Kind(f) == IF f.is_event THEN "event" ELSE "control"
Ids(s, k) == {s[i].id : i \in {j \in DOMAIN s : Kind(s[j]) = k}}
Outs(w, k) == {w[i].n : i \in {j \in DOMAIN w : w[j].kind = k}}
Sorted(s) ==
  \A i, j \in DOMAIN s : i < j /\ Kind(s[i]) = Kind(s[j]) => s[i].id < s[j].id
SortedOut(w) ==
  \A i, j \in DOMAIN w : i < j /\ w[i].kind = w[j].kind /\ w[i].kind \in Kinds => w[i].n < w[j].n
Holds == cpc \in {"popped", "writing"}
Hand(k) == IF Holds /\ Kind(held) = k THEN {held.id} ELSE {}

\* Types, and what the mutex means.
ShapeInv ==
  /\ q \in QueueType(Frames) /\ q.lag <= q.dropped
  /\ lock \in Pushers \cup {Nobody}
  /\ ppc \in [Pushers -> {"idle", "evicting", "notifying"}]
  /\ psize \in [Pushers -> Sizes \cup {0}]
  /\ \A p \in Pushers : ppc[p] = "evicting" <=> lock = p
  /\ \A p \in Pushers : ppc[p] = "evicting" => psize[p] \in Sizes /\ ~oversized(psize[p])
  /\ cpc \in {"select", "armed", "checked", "parked", "popped", "writing", "closed"}
  /\ woken \in BOOLEAN
  /\ IF Holds THEN held \in Frames ELSE held = NoFrame
  /\ sink \in Seq(Writes)
  /\ pushed \in Nat /\ pushed + (IF lock = Nobody THEN 0 ELSE 1) <= MaxPushes
  /\ rejected \subseteq 1..pushed
  /\ controls \in 0..MaxControls

\* Every event and every drop is accounted for, within the budgets.
LagSent == LagBefore(Len(sink) + 1)
CountInv ==
  /\ pushed = q.delivered + q.dropped + EventCount(q.frames)
  /\ WithinBudget
  /\ cpc # "closed" => q.lag + LagSent = q.dropped

\* Nothing overtakes anything of its own kind on the way to the socket.
OrderInv ==
  /\ Sorted(q.frames) /\ SortedOut(sink)
  /\ \A k \in Kinds :
       /\ \A n \in Outs(sink, k), m \in Hand(k) \cup Ids(q.frames, k) : n < m
       /\ \A n \in Hand(k), m \in Ids(q.frames, k) : n < m
       /\ Outs(sink, k) \cup Hand(k) \cup Ids(q.frames, k)
            \subseteq 1..(IF k = "event" THEN pushed ELSE controls)

\* Events that reached neither the socket nor the connection's hand and are
\* not queued.  While the connection lives they are no more than the drops;
\* before a popped event is written, the socket has announced those it hides.
Lost == (1..pushed) \ (Outs(sink, "event") \cup Hand("event") \cup Ids(q.frames, "event"))
LossInv ==
  /\ KeepsNewest
  /\ cpc # "closed" => Cardinality(Lost) <= q.dropped
  /\ cpc = "writing" /\ held.is_event =>
       Cardinality((1..(held.id - 1)) \ Outs(sink, "event")) <= LagSent
  /\ cpc # "closed" =>
       1..controls \subseteq Outs(sink, "control") \cup Hand("control") \cup Ids(q.frames, "control")
  /\ HoleAnnouncedFirst

Inv == ShapeInv /\ CountInv /\ OrderInv /\ LossInv

-----------------------------------------------------------------------------
(* Numbers along a sequence *)

\* The fields of a frame.
LEMMA FrameIds ==
  ASSUME NEW f \in Frames
  PROVE  /\ f.id \in Nat /\ f.id # 0 /\ f.is_event \in BOOLEAN /\ f.size \in Nat
         /\ Kind(f) \in Kinds
<1>1. f.id \in 1..(MaxPushes + MaxControls) /\ f.is_event \in BOOLEAN /\ f.size \in Sizes \cup {0}
  BY DEF Frames
<1>2. f.id \in Nat /\ f.id # 0
  BY <1>1, PusherAssumption
<1>3. f.size \in Nat
  <2>1. \A n \in Sizes \cup {0} : n \in Nat
    BY PusherAssumption
  <2> QED
    BY <1>1, <2>1
<1>4. Kind(f) \in Kinds
  BY DEF Kind, Kinds
<1> QED
  BY <1>1, <1>2, <1>3, <1>4

\* Taking one frame out takes its number out and disturbs no order.
LEMMA TakeOut ==
  ASSUME NEW s \in Seq(Frames), NEW k \in 1..Len(s), NEW r \in Seq(Frames), Without(s, k, r),
         Sorted(s)
  PROVE  /\ Sorted(r)
         /\ \A d \in Kinds : Ids(r, d) = Ids(s, d) \ (IF Kind(s[k]) = d THEN {s[k].id} ELSE {})
<1> DEFINE at(i) == IF i < k THEN i ELSE i + 1
<1>1. /\ Len(s) \in Nat /\ Len(r) \in Nat /\ DOMAIN s = 1..Len(s) /\ DOMAIN r = 1..Len(r)
      /\ Len(r) = Len(s) - 1 /\ k \in Nat
  BY LenProperties DEF Without
<1>2. \A i \in DOMAIN r : at(i) \in DOMAIN s /\ at(i) # k /\ r[i] = s[at(i)]
  BY <1>1 DEF Without
<1>3. \A i, j \in DOMAIN r : i < j => at(i) < at(j)
  BY <1>1
<1>4. \A j \in DOMAIN s : j # k => \E i \in DOMAIN r : at(i) = j
  <2> SUFFICES ASSUME NEW j \in DOMAIN s, j # k PROVE \E i \in DOMAIN r : at(i) = j
    OBVIOUS
  <2>1. CASE j < k
    BY <1>1, <2>1
  <2>2. CASE j > k
    <3>1. j - 1 \in DOMAIN r /\ at(j - 1) = j
      BY <1>1, <2>2
    <3> QED
      BY <3>1
  <2> QED
    BY <1>1, <2>1, <2>2
<1>5. \A i, j \in DOMAIN s : Kind(s[i]) = Kind(s[j]) /\ s[i].id = s[j].id => i = j
  <2>1. \A i \in DOMAIN s : s[i].id \in Nat
    <3>1. \A i \in DOMAIN s : s[i] \in Frames
      BY LenProperties
    <3> QED
      BY <3>1, FrameIds
  <2>2. ASSUME NEW i \in DOMAIN s, NEW j \in DOMAIN s, Kind(s[i]) = Kind(s[j]),
               s[i].id = s[j].id
        PROVE  i = j
    <3>1. i \in Nat /\ j \in Nat /\ s[i].id \in Nat /\ s[j].id \in Nat
      BY <1>1, <2>1
    <3>2. ~(i < j) /\ ~(j < i)
      BY <2>2, <3>1 DEF Sorted
    <3> QED
      BY <3>1, <3>2
  <2> QED
    BY <2>2
<1> HIDE DEF at
<1>6. Sorted(r)
  <2> SUFFICES ASSUME NEW i \in DOMAIN r, NEW j \in DOMAIN r, i < j, Kind(r[i]) = Kind(r[j])
               PROVE  r[i].id < r[j].id
    BY DEF Sorted
  <2>1. at(i) \in DOMAIN s /\ at(j) \in DOMAIN s /\ at(i) < at(j)
        /\ r[i] = s[at(i)] /\ r[j] = s[at(j)]
    BY <1>2, <1>3
  <2> QED
    BY <2>1 DEF Sorted
<1>7. ASSUME NEW d \in Kinds
      PROVE  Ids(r, d) = Ids(s, d) \ (IF Kind(s[k]) = d THEN {s[k].id} ELSE {})
  <2>1. ASSUME NEW n \in Ids(r, d)
        PROVE  n \in Ids(s, d) /\ (Kind(s[k]) = d => n # s[k].id)
    <3>1. PICK i \in DOMAIN r : Kind(r[i]) = d /\ r[i].id = n
      BY DEF Ids
    <3>2. at(i) \in DOMAIN s /\ at(i) # k /\ r[i] = s[at(i)]
      BY <1>2
    <3>3. n \in Ids(s, d)
      BY <3>1, <3>2 DEF Ids
    <3> QED
      BY <1>1, <1>5, <3>1, <3>2, <3>3
  <2>2. ASSUME NEW n \in Ids(s, d), Kind(s[k]) = d => n # s[k].id
        PROVE  n \in Ids(r, d)
    <3>1. PICK j \in DOMAIN s : Kind(s[j]) = d /\ s[j].id = n
      BY DEF Ids
    <3>2. j # k
      BY <2>2, <3>1
    <3>3. PICK i \in DOMAIN r : at(i) = j
      BY <1>4, <3>2
    <3> QED
      BY <1>2, <3>1, <3>3 DEF Ids
  <2> QED
    BY <2>1, <2>2
<1> QED
  BY <1>6, <1>7

\* Putting a frame with a larger number at the end.
LEMMA PutLast ==
  ASSUME NEW s \in Seq(Frames), NEW f \in Frames, Sorted(s),
         \A n \in Ids(s, Kind(f)) : n < f.id
  PROVE  /\ Sorted(Append(s, f))
         /\ \A d \in Kinds : Ids(Append(s, f), d) = Ids(s, d) \cup (IF Kind(f) = d THEN {f.id} ELSE {})
<1> DEFINE r == Append(s, f)
           m == Len(s) + 1
<1>1. /\ Len(s) \in Nat /\ DOMAIN s = 1..Len(s) /\ DOMAIN r = 1..m /\ m \in DOMAIN r
      /\ r[m] = f /\ \A i \in DOMAIN s : r[i] = s[i]
  BY LenProperties
<1>2. \A i \in DOMAIN r : i = m \/ i \in DOMAIN s
  BY <1>1
<1> HIDE DEF r
<1>3. Sorted(r)
  <2> SUFFICES ASSUME NEW i \in DOMAIN r, NEW j \in DOMAIN r, i < j, Kind(r[i]) = Kind(r[j])
               PROVE  r[i].id < r[j].id
    BY DEF Sorted
  <2>1. i \in DOMAIN s /\ r[i] = s[i]
    BY <1>1
  <2>2. CASE j \in DOMAIN s
    BY <1>1, <2>1, <2>2 DEF Sorted
  <2>3. CASE j = m
    <3>1. Kind(s[i]) = Kind(f) /\ r[j].id = f.id
      BY <1>1, <2>1, <2>3
    <3>2. s[i].id \in Ids(s, Kind(f))
      BY <2>1, <3>1 DEF Ids
    <3> QED
      BY <2>1, <3>1, <3>2
  <2> QED
    BY <1>2, <2>2, <2>3
<1>4. ASSUME NEW d \in Kinds
      PROVE  Ids(r, d) = Ids(s, d) \cup (IF Kind(f) = d THEN {f.id} ELSE {})
  <2>1. ASSUME NEW n \in Ids(r, d) PROVE n \in Ids(s, d) \/ (Kind(f) = d /\ n = f.id)
    <3>1. PICK i \in DOMAIN r : Kind(r[i]) = d /\ r[i].id = n
      BY DEF Ids
    <3> QED
      BY <1>1, <1>2, <3>1 DEF Ids
  <2>2. ASSUME NEW n \in Ids(s, d) PROVE n \in Ids(r, d)
    <3>1. PICK i \in DOMAIN s : Kind(s[i]) = d /\ s[i].id = n
      BY DEF Ids
    <3>2. i \in DOMAIN r
      BY <1>1
    <3> QED
      BY <1>1, <3>1, <3>2 DEF Ids
  <2>3. Kind(f) = d => f.id \in Ids(r, d)
    BY <1>1 DEF Ids
  <2> QED
    BY <2>1, <2>2, <2>3
<1> QED
  BY <1>3, <1>4 DEF r

\* The first frame of its kind carries the least number of its kind.
LEMMA FirstIsLeast ==
  ASSUME NEW s \in Seq(Frames), Sorted(s), NEW k \in DOMAIN s,
         \A j \in DOMAIN s : Kind(s[j]) = Kind(s[k]) => k <= j
  PROVE  /\ s[k].id \in Ids(s, Kind(s[k]))
         /\ \A n \in Ids(s, Kind(s[k])) : n = s[k].id \/ s[k].id < n
<1>1. s[k].id \in Ids(s, Kind(s[k]))
  BY DEF Ids
<1>2. ASSUME NEW n \in Ids(s, Kind(s[k])) PROVE n = s[k].id \/ s[k].id < n
  <2>1. PICK j \in DOMAIN s : Kind(s[j]) = Kind(s[k]) /\ s[j].id = n
    BY DEF Ids
  <2>2. k <= j /\ j \in Nat /\ k \in Nat
    BY <2>1, LenProperties
  <2>3. CASE k = j
    BY <2>1, <2>3
  <2>4. CASE k < j
    BY <2>1, <2>4 DEF Sorted
  <2> QED
    BY <2>2, <2>3, <2>4
<1> QED
  BY <1>1, <1>2

\* What the socket has carried after one more frame.
LEMMA OneMore ==
  ASSUME NEW w \in Seq(Writes), NEW e \in Writes, SortedOut(w),
         e.kind \in Kinds => \A n \in Outs(w, e.kind) : n < e.n
  PROVE  /\ Append(w, e) \in Seq(Writes) /\ SortedOut(Append(w, e))
         /\ \A d \in Kinds : Outs(Append(w, e), d) = Outs(w, d) \cup (IF e.kind = d THEN {e.n} ELSE {})
<1> DEFINE r == Append(w, e)
           m == Len(w) + 1
<1>1. /\ Len(w) \in Nat /\ DOMAIN w = 1..Len(w) /\ DOMAIN r = 1..m /\ m \in DOMAIN r
      /\ r[m] = e /\ \A i \in DOMAIN w : r[i] = w[i]
      /\ r \in Seq(Writes)
  BY LenProperties
<1>2. \A i \in DOMAIN r : i = m \/ i \in DOMAIN w
  BY <1>1
<1> HIDE DEF r
<1>3. SortedOut(r)
  <2> SUFFICES ASSUME NEW i \in DOMAIN r, NEW j \in DOMAIN r, i < j, r[i].kind = r[j].kind,
                      r[i].kind \in Kinds
               PROVE  r[i].n < r[j].n
    BY DEF SortedOut
  <2>1. i \in DOMAIN w /\ r[i] = w[i]
    BY <1>1
  <2>2. CASE j \in DOMAIN w
    BY <1>1, <2>1, <2>2 DEF SortedOut
  <2>3. CASE j = m
    <3>1. w[i].kind = e.kind /\ r[j].n = e.n /\ e.kind \in Kinds
      BY <1>1, <2>1, <2>3
    <3>2. w[i].n \in Outs(w, e.kind)
      BY <2>1, <3>1 DEF Outs
    <3> QED
      BY <2>1, <3>1, <3>2
  <2> QED
    BY <1>2, <2>2, <2>3
<1>4. ASSUME NEW d \in Kinds
      PROVE  Outs(r, d) = Outs(w, d) \cup (IF e.kind = d THEN {e.n} ELSE {})
  <2>1. ASSUME NEW n \in Outs(r, d) PROVE n \in Outs(w, d) \/ (e.kind = d /\ n = e.n)
    <3>1. PICK i \in DOMAIN r : r[i].kind = d /\ r[i].n = n
      BY DEF Outs
    <3> QED
      BY <1>1, <1>2, <3>1 DEF Outs
  <2>2. ASSUME NEW n \in Outs(w, d) PROVE n \in Outs(r, d)
    <3>1. PICK i \in DOMAIN w : w[i].kind = d /\ w[i].n = n
      BY DEF Outs
    <3>2. i \in DOMAIN r
      BY <1>1
    <3> QED
      BY <1>1, <3>1, <3>2 DEF Outs
  <2>3. e.kind = d => e.n \in Outs(r, d)
    BY <1>1 DEF Outs
  <2> QED
    BY <2>1, <2>2, <2>3
<1> QED
  BY <1>1, <1>3, <1>4 DEF r

\* The ids in KeepsNewest are those of the events.
LEMMA QueuedIds ==
  ASSUME NEW s \in Seq(Frames)
  PROVE  /\ {s[i].id : i \in EventsAt(s)} = Ids(s, "event")
         /\ {s[i].id : i \in DOMAIN s \ EventsAt(s)} = Ids(s, "control")
         /\ \A d \in Kinds : Ids(s, d) \subseteq Nat \ {0}
<1>1. \A i \in DOMAIN s : s[i] \in Frames
  BY LenProperties
<1>2. \A i \in DOMAIN s : /\ Kind(s[i]) = "event" <=> s[i].is_event
                          /\ Kind(s[i]) = "control" <=> ~s[i].is_event
                          /\ s[i].id \in Nat \ {0}
  BY <1>1, FrameIds DEF Kind
<1> QED
  BY <1>2 DEF Ids, EventsAt

\* The `lagged` counts a socket carried.
LagOf(e) == IF e.kind = "lagged" THEN e.n ELSE 0
LagWeights(w) == [j \in 1..Len(w) |-> LagOf(w[j])]
LagSum(w) == Total(LagWeights(w))

\* LagBefore, one past the end, is their sum.
LEMMA LagSumIs ==
  ASSUME NEW w \in Seq(Writes)
  PROVE  /\ LagWeights(w) \in Seq(Nat) /\ LagSum(w) \in Nat
         /\ Total([j \in 1..((Len(w) + 1) - 1) |-> IF w[j].kind = "lagged" THEN w[j].n ELSE 0])
              = LagSum(w)
<1>1. Len(w) \in Nat /\ \A j \in 1..Len(w) : w[j].n \in Nat
  <2>1. Len(w) \in Nat /\ \A j \in 1..Len(w) : w[j] \in Writes
    OBVIOUS
  <2> QED
    BY <2>1 DEF Writes
<1>2. LagWeights(w) \in Seq(Nat)
  <2>1. \A j \in 1..Len(w) : LagOf(w[j]) \in Nat
    BY <1>1 DEF LagOf
  <2> QED
    BY <1>1, <2>1 DEF LagWeights
<1>3. LagSum(w) \in Nat
  BY <1>2, TotalType DEF LagSum
<1>4. (Len(w) + 1) - 1 = Len(w)
  BY <1>1
<1>5. [j \in 1..((Len(w) + 1) - 1) |-> IF w[j].kind = "lagged" THEN w[j].n ELSE 0]
        = LagWeights(w)
  BY <1>4 DEF LagWeights, LagOf
<1> QED
  BY <1>2, <1>3, <1>5 DEF LagSum

\* One more frame on the socket adds its count.
LEMMA LagOneMore ==
  ASSUME NEW w \in Seq(Writes), NEW e \in Writes
  PROVE  LagSum(Append(w, e)) = LagSum(w) + LagOf(e)
<1> DEFINE r == Append(w, e)
<1>1. /\ r \in Seq(Writes) /\ Len(w) \in Nat /\ Len(r) = Len(w) + 1
      /\ r[Len(r)] = e /\ \A i \in 1..Len(w) : r[i] = w[i]
  OBVIOUS
<1> HIDE DEF r
<1>2. LagWeights(w) \in Seq(Nat) /\ LagWeights(r) \in Seq(Nat)
  BY <1>1, LagSumIs
<1>3. /\ Len(LagWeights(w)) = Len(w) /\ Len(LagWeights(r)) = Len(r)
      /\ \A i \in 1..Len(w) : LagWeights(r)[i] = LagWeights(w)[i]
      /\ LagWeights(r)[Len(r)] = LagOf(e)
  <2>1. Len(LagWeights(w)) = Len(w) /\ Len(LagWeights(r)) = Len(r)
    BY <1>1 DEF LagWeights
  <2>2. ASSUME NEW i \in 1..Len(w) PROVE LagWeights(r)[i] = LagWeights(w)[i]
    <3>1. i \in 1..Len(r) /\ r[i] = w[i]
      BY <1>1
    <3> QED
      BY <3>1 DEF LagWeights
  <2>3. Len(r) \in 1..Len(r)
    BY <1>1
  <2> QED
    BY <1>1, <2>1, <2>2, <2>3 DEF LagWeights
<1>4. Total(LagWeights(r)) = Total(LagWeights(w)) + LagWeights(r)[Len(LagWeights(r))]
  <2> DEFINE a == LagWeights(w)
             b == LagWeights(r)
  <2>1. a \in Seq(Nat) /\ b \in Seq(Nat) /\ Len(b) = Len(a) + 1 /\ \A i \in 1..Len(a) : b[i] = a[i]
    BY <1>1, <1>2, <1>3
  <2> HIDE DEF a, b
  <2>2. Total(b) = Total(a) + b[Len(b)]
    BY <2>1, TotalAppend
  <2> QED
    BY <2>2 DEF a, b
<1> QED
  BY <1>3, <1>4 DEF LagSum, r

\* What a client that reads the socket up to position i knows of the events
\* before it: HoleAnnouncedFirst, for one position.
AnnouncedAt(i) ==
  LET missing == (1..(sink[i].n - 1)) \ SentBefore(i) IN
  /\ Cardinality(missing) <= LagBefore(i)
  /\ \A n \in SentBefore(i) : n < sink[i].n

\* The socket grows by one frame: earlier positions keep what they had, and
\* a new event must have its hole announced.
LEMMA SinkGrows ==
  ASSUME sink \in Seq(Writes), NEW e \in Writes, sink' = Append(sink, e), HoleAnnouncedFirst,
         e.kind = "event" =>
           /\ Cardinality((1..(e.n - 1)) \ Outs(sink, "event")) <= LagSent
           /\ \A n \in Outs(sink, "event") : n < e.n
  PROVE  HoleAnnouncedFirst' /\ LagSent' = LagSent + LagOf(e) /\ LagSent \in Nat
<1> DEFINE m == Len(sink) + 1
<1>1. /\ Len(sink) \in Nat /\ DOMAIN sink = 1..Len(sink) /\ DOMAIN sink' = 1..m
      /\ sink' \in Seq(Writes) /\ sink'[m] = e /\ \A i \in DOMAIN sink : sink'[i] = sink[i]
  BY LenProperties
<1>2. LagSent = LagSum(sink) /\ LagSent' = LagSum(sink') /\ LagSent \in Nat
  BY <1>1, LagSumIs DEF LagSent, LagBefore
<1>3. LagSent' = LagSent + LagOf(e)
  BY <1>2, LagOneMore
<1>4. ASSUME NEW i \in 1..m PROVE LagBefore(i)' = LagBefore(i) /\ SentBefore(i)' = SentBefore(i)
  <2>1. \A j \in 1..(i - 1) : sink'[j] = sink[j]
    BY <1>1
  <2>2. [j \in 1..(i - 1) |-> IF sink'[j].kind = "lagged" THEN sink'[j].n ELSE 0]
          = [j \in 1..(i - 1) |-> IF sink[j].kind = "lagged" THEN sink[j].n ELSE 0]
    BY <2>1
  <2>3. LagBefore(i)' = LagBefore(i)
    BY <2>2 DEF LagBefore
  <2>4. SentBefore(i)' = SentBefore(i)
    BY <2>1 DEF SentBefore
  <2> QED
    BY <2>3, <2>4
<1>5. SentBefore(m) = Outs(sink, "event") /\ LagBefore(m) = LagSent
  <2>1. 1..(m - 1) = DOMAIN sink
    BY <1>1
  <2> QED
    BY <2>1 DEF SentBefore, Outs, LagSent
<1>6. ASSUME NEW i \in DOMAIN sink', sink'[i].kind = "event" PROVE AnnouncedAt(i)'
  <2>1. i \in 1..m /\ LagBefore(i)' = LagBefore(i) /\ SentBefore(i)' = SentBefore(i)
    BY <1>1, <1>4
  <2>2. CASE i \in DOMAIN sink
    <3>1. AnnouncedAt(i) /\ sink'[i] = sink[i]
      BY <1>1, <1>6, <2>2 DEF HoleAnnouncedFirst, AnnouncedAt
    <3> QED
      BY <2>1, <3>1 DEF AnnouncedAt
  <2>3. CASE i = m
    BY <1>1, <1>5, <1>6, <2>1, <2>3 DEF AnnouncedAt
  <2> QED
    BY <1>1, <2>2, <2>3
<1>7. HoleAnnouncedFirst'
  BY <1>6 DEF HoleAnnouncedFirst, AnnouncedAt
<1> QED
  BY <1>2, <1>3, <1>7

-----------------------------------------------------------------------------
(* Steps that move no frame *)

\* The lost events are finitely many.
LEMMA LostFinite ==
  ASSUME ShapeInv
  PROVE  IsFiniteSet(Lost) /\ Cardinality(Lost) \in Nat
<1>1. IsFiniteSet(1..pushed)
  BY FS_Interval DEF ShapeInv
<1>2. Lost \subseteq 1..pushed
  BY DEF Lost
<1> QED
  BY <1>1, <1>2, FS_Subset, FS_CardinalityType

\* OrderInv, for one kind.
InOrder(k) ==
  /\ \A n \in Outs(sink, k), m \in Hand(k) \cup Ids(q.frames, k) : n < m
  /\ \A n \in Hand(k), m \in Ids(q.frames, k) : n < m
  /\ Outs(sink, k) \cup Hand(k) \cup Ids(q.frames, k)
       \subseteq 1..(IF k = "event" THEN pushed ELSE controls)

\* A step that leaves the frames and the socket alone, and may only let go of
\* the frame in hand if the connection ends.
LEMMA Kept ==
  ASSUME ShapeInv, OrderInv, LossInv, q'.frames = q.frames, sink' = sink, pushed' = pushed,
         rejected' = rejected, controls' = controls,
         q'.dropped \in Nat, q.dropped <= q'.dropped,
         cpc # "closed" \/ cpc' = "closed", cpc' # "writing" \/ cpc = "writing",
         (cpc' = "closed" /\ \A k \in Kinds : Hand(k)' = {})
           \/ (held' = held /\ (Holds' <=> Holds))
  PROVE  OrderInv' /\ LossInv'
<1>1. ASSUME NEW k \in Kinds
      PROVE  Hand(k)' \subseteq Hand(k) /\ (cpc' # "closed" => Hand(k)' = Hand(k))
  BY DEF Hand
<1>2. LagSent' = LagSent
  BY DEF LagSent, LagBefore
<1>3. OrderInv'
  <2>1. Sorted(q'.frames) /\ SortedOut(sink')
    BY DEF OrderInv
  <2>2. ASSUME NEW k \in Kinds PROVE InOrder(k)'
    <3>1. InOrder(k)
      BY DEF OrderInv, InOrder
    <3> QED
      BY <1>1, <3>1 DEF InOrder
  <2> QED
    BY <2>1, <2>2 DEF OrderInv, InOrder
<1>4. LossInv'
  <2>1. KeepsNewest'
    BY DEF LossInv, KeepsNewest, Queued, EventsAt
  <2>2. cpc' # "closed" => Cardinality(Lost') <= q'.dropped
    <3> SUFFICES ASSUME cpc' # "closed" PROVE Cardinality(Lost') <= q'.dropped
      OBVIOUS
    <3>1. Lost' = Lost
      BY <1>1 DEF Lost, Kinds
    <3>2. Cardinality(Lost) <= q.dropped /\ q.dropped \in Nat
      BY DEF LossInv, ShapeInv, QueueType
    <3>3. Cardinality(Lost) \in Nat
      BY LostFinite
    <3> QED
      BY <3>1, <3>2, <3>3
  <2>3. cpc' = "writing" /\ held'.is_event =>
          Cardinality((1..(held'.id - 1)) \ Outs(sink', "event")) <= LagSent'
    BY <1>2 DEF LossInv
  <2>4. cpc' # "closed" =>
          1..controls' \subseteq Outs(sink', "control") \cup Hand("control")' \cup Ids(q'.frames, "control")
    BY <1>1 DEF LossInv, Kinds
  <2>5. HoleAnnouncedFirst'
    BY DEF LossInv, HoleAnnouncedFirst, SentBefore, LagBefore
  <2> QED
    BY <2>1, <2>2, <2>3, <2>4, <2>5 DEF LossInv
<1> QED
  BY <1>3, <1>4

\* Every frame is one the queue's lemmas speak of.
LEMMA FramesOK == FrameSet(Frames)
BY FrameIds DEF FrameSet

\* What a queue holds is a sequence of frames.
LEMMA QueueFrames ==
  ASSUME NEW r \in QueueType(Frames)
  PROVE  r.frames \in Seq(Frames)
BY DEF QueueType

\* The counts stay where the queue, the socket and the pushes stay.
LEMMA CountKept ==
  ASSUME CountInv, q' = q, sink' = sink, pushed' = pushed, cpc # "closed" \/ cpc' = "closed"
  PROVE  CountInv'
<1>1. WithinBudget' /\ LagSent' = LagSent
  BY DEF CountInv, WithinBudget, LagSent, LagBefore
<1> QED
  BY <1>1 DEF CountInv

\* A fan-out takes the mutex.
LEMMA PushLockInv ==
  ASSUME Inv, NEW p \in Pushers, NEW s \in Sizes, pushed + InHand < MaxPushes, PushLock(p, s)
  PROVE  Inv'
<1>1. /\ ppc[p] = "idle" /\ ~oversized(s) /\ lock = Nobody /\ lock' = p
      /\ ppc' = [ppc EXCEPT ![p] = "evicting"] /\ psize' = [psize EXCEPT ![p] = s]
      /\ q' = q /\ cpc' = cpc /\ woken' = woken /\ held' = held /\ sink' = sink
      /\ pushed' = pushed /\ rejected' = rejected /\ controls' = controls
  BY DEF PushLock, cVars, hVars
<1>2. ShapeInv /\ CountInv /\ OrderInv /\ LossInv
  BY DEF Inv
<1>3. pushed + 1 <= MaxPushes
  <2>1. {r \in Pushers : ppc[r] = "evicting"} = {}
    BY <1>1, <1>2, PusherAssumption DEF ShapeInv
  <2>2. InHand = 0
    BY <2>1, FS_EmptySet DEF InHand
  <2> QED
    BY <1>2, <2>2, PusherAssumption DEF ShapeInv
<1>4. ShapeInv'
  <2>1. /\ ppc' \in [Pushers -> {"idle", "evicting", "notifying"}]
        /\ psize' \in [Pushers -> Sizes \cup {0}]
        /\ ppc'[p] = "evicting" /\ psize'[p] = s
        /\ \A r \in Pushers : r # p => ppc'[r] = ppc[r] /\ psize'[r] = psize[r]
    BY <1>1, <1>2 DEF ShapeInv
  <2>2. \A r \in Pushers : ppc'[r] = "evicting" <=> lock' = r
    BY <1>1, <1>2, <2>1, PusherAssumption DEF ShapeInv
  <2>3. \A r \in Pushers : ppc'[r] = "evicting" => psize'[r] \in Sizes /\ ~oversized(psize'[r])
    BY <1>1, <1>2, <2>1 DEF ShapeInv
  <2>4. pushed' + (IF lock' = Nobody THEN 0 ELSE 1) <= MaxPushes
    BY <1>1, <1>3, PusherAssumption
  <2>5. IF Holds' THEN held' \in Frames ELSE held' = NoFrame
    BY <1>1, <1>2 DEF ShapeInv, Holds
  <2> QED
    BY <1>1, <1>2, <2>1, <2>2, <2>3, <2>4, <2>5 DEF ShapeInv, NoFrame, ControlFrame
<1>5. OrderInv' /\ LossInv'
  BY <1>1, <1>2, Kept DEF Holds, ShapeInv, QueueType
<1>6. CountInv'
  BY <1>1, <1>2, CountKept
<1> QED
  BY <1>4, <1>5, <1>6 DEF Inv

\* A fan-out wakes the connection task and is done.
LEMMA PushNotifyInv ==
  ASSUME Inv, NEW p \in Pushers, PushNotify(p)
  PROVE  Inv'
<1>1. /\ ppc[p] = "notifying" /\ woken' = (woken \/ Waits) /\ lock' = lock
      /\ ppc' = [ppc EXCEPT ![p] = "idle"] /\ psize' = [psize EXCEPT ![p] = 0]
      /\ q' = q /\ cpc' = cpc /\ held' = held /\ sink' = sink
      /\ pushed' = pushed /\ rejected' = rejected /\ controls' = controls
  BY DEF PushNotify, qVars, hVars
<1>2. ShapeInv /\ CountInv /\ OrderInv /\ LossInv
  BY DEF Inv
<1>4. ShapeInv'
  <2>1. /\ ppc' \in [Pushers -> {"idle", "evicting", "notifying"}]
        /\ psize' \in [Pushers -> Sizes \cup {0}]
        /\ ppc'[p] = "idle"
        /\ \A r \in Pushers : r # p => ppc'[r] = ppc[r] /\ psize'[r] = psize[r]
    BY <1>1, <1>2 DEF ShapeInv
  <2>2. \A r \in Pushers : ppc'[r] = "evicting" <=> lock' = r
    BY <1>1, <1>2, <2>1 DEF ShapeInv
  <2>3. \A r \in Pushers : ppc'[r] = "evicting" => psize'[r] \in Sizes /\ ~oversized(psize'[r])
    BY <1>1, <1>2, <2>1 DEF ShapeInv
  <2>5. IF Holds' THEN held' \in Frames ELSE held' = NoFrame
    BY <1>1, <1>2 DEF ShapeInv, Holds
  <2>6. woken' \in BOOLEAN
    BY <1>1
  <2> QED
    BY <1>1, <1>2, <2>1, <2>2, <2>3, <2>5, <2>6 DEF ShapeInv, NoFrame, ControlFrame
<1>5. OrderInv' /\ LossInv'
  BY <1>1, <1>2, Kept DEF Holds, ShapeInv, QueueType
<1>6. CountInv'
  BY <1>1, <1>2, CountKept
<1> QED
  BY <1>4, <1>5, <1>6 DEF Inv

\* The connection task moves between its waits, or ends, with nothing in hand.
LEMMA WaitsInv ==
  ASSUME Inv, PopArm \/ (PopCheck /\ q.frames = <<>>) \/ PopPark \/ PopWake \/ Interrupted
              \/ Disconnected \/ UNCHANGED vars
  PROVE  Inv'
<1>1. /\ q' = q /\ lock' = lock /\ ppc' = ppc /\ psize' = psize /\ held' = held /\ sink' = sink
      /\ pushed' = pushed /\ rejected' = rejected /\ controls' = controls
  BY DEF PopArm, PopCheck, PopPark, PopWake, Interrupted, Disconnected, vars, qVars, pVars,
         cVars, hVars
<1>2. ShapeInv /\ CountInv /\ OrderInv /\ LossInv
  BY DEF Inv
<1>3. /\ woken' \in BOOLEAN
      /\ cpc' \in {"select", "armed", "checked", "parked", "popped", "writing", "closed"}
      /\ cpc' = cpc \/ (~(Holds \/ Holds') /\ (cpc # "closed" \/ cpc' = "closed"))
  BY <1>2 DEF PopArm, PopCheck, PopPark, PopWake, Interrupted, Disconnected, vars, cVars,
              ShapeInv, Holds
<1>4. (Holds' <=> Holds) /\ (cpc # "closed" \/ cpc' = "closed") /\ (cpc' # "writing" \/ cpc = "writing")
  BY <1>3 DEF Holds
<1>5. ShapeInv'
  <2>1. IF Holds' THEN held' \in Frames ELSE held' = NoFrame
    BY <1>1, <1>2, <1>4 DEF ShapeInv
  <2> QED
    BY <1>1, <1>2, <1>3, <2>1 DEF ShapeInv, NoFrame, ControlFrame
<1>6. OrderInv' /\ LossInv'
  BY <1>1, <1>2, <1>4, Kept DEF ShapeInv, QueueType
<1>7. CountInv'
  BY <1>1, <1>2, <1>4, CountKept
<1> QED
  BY <1>5, <1>6, <1>7 DEF Inv

\* Taking the pending count touches nothing else.
LEMMA TakeLagFacts ==
  ASSUME NEW FS, NEW r \in QueueType(FS)
  PROVE  /\ TakeLag(r) \in QueueType(FS) /\ TakeLag(r).frames = r.frames
         /\ TakeLag(r).delivered = r.delivered /\ TakeLag(r).dropped = r.dropped
         /\ TakeLag(r).lag = 0
BY DEF TakeLag, QueueType

\* A send fails: the frame in hand is lost with the connection.
LEMMA SendFailInv ==
  ASSUME Inv, SendFail
  PROVE  Inv'
<1>1. /\ q' \in {q, TakeLag(q)} /\ lock' = lock /\ ppc' = ppc /\ psize' = psize
      /\ held' = NoFrame /\ cpc' = "closed" /\ sink' = sink /\ woken' = woken
      /\ pushed' = pushed /\ rejected' = rejected /\ controls' = controls
  BY DEF SendFail, pVars, hVars
<1>2. ShapeInv /\ CountInv /\ OrderInv /\ LossInv
  BY DEF Inv
<1>3. /\ q' \in QueueType(Frames) /\ q'.frames = q.frames /\ q'.delivered = q.delivered
      /\ q'.dropped = q.dropped /\ q'.lag <= q'.dropped
      /\ q.dropped \in Nat /\ q.delivered \in Nat
  <2>1. q \in QueueType(Frames) /\ q.lag <= q.dropped
    BY <1>2 DEF ShapeInv
  <2>2. q.dropped \in Nat /\ q.delivered \in Nat
    BY <2>1 DEF QueueType
  <2> QED
    BY <1>1, <2>1, <2>2, TakeLagFacts
<1>4. ~Holds' /\ \A k \in Kinds : Hand(k)' = {}
  BY <1>1 DEF Holds, Hand
<1>5. ShapeInv'
  BY <1>1, <1>2, <1>3, <1>4 DEF ShapeInv, NoFrame, ControlFrame
<1>6. OrderInv' /\ LossInv'
  BY <1>1, <1>2, <1>3, <1>4, Kept
<1>7. CountInv'
  BY <1>1, <1>2, <1>3 DEF CountInv, WithinBudget
<1> QED
  BY <1>5, <1>6, <1>7 DEF Inv

-----------------------------------------------------------------------------
(* Steps that move frames *)

\* At most the holder of the mutex has an event in hand.
LEMMA InHandIs ==
  ASSUME ShapeInv
  PROVE  InHand = IF lock = Nobody THEN 0 ELSE 1
<1>1. CASE lock = Nobody
  <2>1. {r \in Pushers : ppc[r] = "evicting"} = {}
    BY <1>1, PusherAssumption DEF ShapeInv
  <2> QED
    BY <1>1, <2>1, FS_EmptySet DEF InHand
<1>2. CASE lock # Nobody
  <2>1. lock \in Pushers /\ {r \in Pushers : ppc[r] = "evicting"} = {lock}
    BY <1>2 DEF ShapeInv
  <2>2. Cardinality({lock}) = 1
    BY FS_Singleton
  <2> QED
    BY <1>2, <2>1, <2>2 DEF InHand
<1> QED
  BY <1>1, <1>2

\* One more event can be lost only together with one more drop.
LEMMA LoseOne ==
  ASSUME ShapeInv, NEW x, NEW L, L \subseteq Lost \cup {x}, Cardinality(Lost) <= q.dropped
  PROVE  Cardinality(L) <= q.dropped + 1
<1>1. IsFiniteSet(Lost) /\ Cardinality(Lost) \in Nat /\ q.dropped \in Nat
  BY LostFinite DEF ShapeInv, QueueType
<1>2. IsFiniteSet(Lost \cup {x}) /\ Cardinality(Lost \cup {x}) <= Cardinality(Lost) + 1
  <2> DEFINE A == Lost
  <2> HIDE DEF A
  <2>1. IsFiniteSet(A) /\ Cardinality(A) \in Nat
    BY <1>1 DEF A
  <2>2. /\ IsFiniteSet(A \cup {x})
        /\ \/ Cardinality(A \cup {x}) = Cardinality(A)
           \/ Cardinality(A \cup {x}) = Cardinality(A) + 1
    BY <2>1, FS_AddElement
  <2>3. Cardinality(A \cup {x}) <= Cardinality(A) + 1
    BY <2>1, <2>2
  <2> QED
    BY <2>2, <2>3 DEF A
<1>3. Cardinality(Lost \cup {x}) \in Nat
  BY <1>2, FS_CardinalityType
<1>4. IsFiniteSet(L) /\ Cardinality(L) <= Cardinality(Lost \cup {x})
  BY <1>2, FS_Subset
<1>5. Cardinality(L) \in Nat
  BY <1>4, FS_CardinalityType
<1> QED
  BY <1>1, <1>2, <1>3, <1>4, <1>5

\* An oversized event is counted and never queued.
LEMMA PushOversizedInv ==
  ASSUME Inv, NEW p \in Pushers, NEW s \in Sizes, pushed + InHand < MaxPushes, PushOversized(p, s)
  PROVE  Inv'
<1>1. /\ q' = record_drop(q) /\ pushed' = pushed + 1 /\ rejected' = rejected \cup {pushed + 1}
      /\ lock' = lock /\ ppc' = ppc /\ psize' = psize /\ cpc' = cpc /\ woken' = woken
      /\ held' = held /\ sink' = sink /\ controls' = controls
  BY DEF PushOversized, pVars, cVars
<1>2. ShapeInv /\ CountInv /\ OrderInv /\ LossInv /\ pushed \in Nat
  BY DEF Inv, ShapeInv
<1>3. q \in QueueType(Frames) /\ q.lag <= q.dropped
  BY <1>2 DEF ShapeInv
<1>4. /\ q' \in QueueType(Frames) /\ q'.frames = q.frames /\ q'.delivered = q.delivered
      /\ q'.dropped = q.dropped + 1 /\ q'.lag = q.lag + 1
  <2>1. /\ q' = [frames |-> q.frames, delivered |-> q.delivered, dropped |-> q.dropped + 1,
                 lag |-> q.lag + 1]
        /\ q' \in QueueType(Frames)
    BY <1>1, <1>3, DropFacts
  <2> QED
    BY <2>1
<1>5. q.dropped \in Nat /\ q.delivered \in Nat /\ q.lag \in Nat /\ EventCount(q.frames) \in Nat
  BY <1>3, CountType, FramesOK DEF QueueType
<1>6. Holds' = Holds /\ \A k \in Kinds : Hand(k)' = Hand(k)
  BY <1>1 DEF Holds, Hand
<1>7. LagSent' = LagSent /\ LagSent \in Nat
  <2>1. sink \in Seq(Writes)
    BY <1>2 DEF ShapeInv
  <2> QED
    BY <1>1, <2>1, LagSumIs DEF LagSent, LagBefore
<1>8. ShapeInv'
  <2>1. pushed' + (IF lock' = Nobody THEN 0 ELSE 1) <= MaxPushes
    BY <1>1, <1>2, InHandIs, PusherAssumption
  <2>2. IF Holds' THEN held' \in Frames ELSE held' = NoFrame
    BY <1>1, <1>2, <1>6 DEF ShapeInv
  <2>3. rejected' \subseteq 1..pushed' /\ pushed' \in Nat
    BY <1>1, <1>2 DEF ShapeInv
  <2>4. q'.lag <= q'.dropped
    BY <1>3, <1>4, <1>5
  <2> QED
    BY <1>1, <1>2, <1>4, <2>1, <2>2, <2>3, <2>4 DEF ShapeInv, NoFrame, ControlFrame
<1>9. CountInv'
  <2>1. WithinBudget'
    BY <1>2, <1>4 DEF CountInv, WithinBudget
  <2>2. pushed' = q'.delivered + q'.dropped + EventCount(q'.frames)
    BY <1>1, <1>2, <1>4, <1>5 DEF CountInv
  <2>3. cpc' # "closed" => q'.lag + LagSent' = q'.dropped
    BY <1>1, <1>2, <1>4, <1>5, <1>7 DEF CountInv
  <2> QED
    BY <2>1, <2>2, <2>3 DEF CountInv
<1>10. OrderInv'
  <2>1. Sorted(q'.frames) /\ SortedOut(sink')
    BY <1>1, <1>2, <1>4 DEF OrderInv
  <2>2. ASSUME NEW k \in Kinds PROVE InOrder(k)'
    <3>1. InOrder(k)
      BY <1>2 DEF OrderInv, InOrder
    <3>2. 1..pushed \subseteq 1..pushed'
      BY <1>1, <1>2
    <3> QED
      BY <1>1, <1>4, <1>6, <3>1, <3>2 DEF InOrder
  <2> QED
    BY <2>1, <2>2 DEF OrderInv, InOrder
<1>11. LossInv'
  <2>1. KeepsNewest'
    <3> SUFFICES ASSUME NEW n \in Queued', NEW m \in n..pushed' PROVE m \in Queued' \cup rejected'
      BY DEF KeepsNewest
    <3>1. Queued' = Queued
      BY <1>4 DEF Queued, EventsAt
    <3>2. Queued \subseteq Nat
      BY <1>3, QueuedIds, QueueFrames DEF Queued, Kinds
    <3>3. m = pushed + 1 \/ m \in n..pushed
      BY <1>1, <1>2, <3>1, <3>2
    <3> QED
      BY <1>1, <1>2, <3>1, <3>3 DEF LossInv, KeepsNewest
  <2>2. cpc' # "closed" => Cardinality(Lost') <= q'.dropped
    <3>1. Lost' \subseteq Lost \cup {pushed + 1}
      BY <1>1, <1>2, <1>4, <1>6 DEF Lost, Kinds
    <3>2. cpc # "closed" => Cardinality(Lost) <= q.dropped
      BY <1>2 DEF LossInv
    <3> QED
      BY <1>1, <1>2, <1>4, <3>1, <3>2, LoseOne
  <2>3. cpc' = "writing" /\ held'.is_event =>
          Cardinality((1..(held'.id - 1)) \ Outs(sink', "event")) <= LagSent'
    BY <1>1, <1>2, <1>7 DEF LossInv
  <2>4. cpc' # "closed" =>
          1..controls' \subseteq Outs(sink', "control") \cup Hand("control")' \cup Ids(q'.frames, "control")
    BY <1>1, <1>2, <1>4, <1>6 DEF LossInv, Kinds
  <2>5. HoleAnnouncedFirst'
    BY <1>1, <1>2 DEF LossInv, HoleAnnouncedFirst, SentBefore, LagBefore
  <2> QED
    BY <2>1, <2>2, <2>3, <2>4, <2>5 DEF LossInv
<1> QED
  BY <1>8, <1>9, <1>10, <1>11 DEF Inv

\* Eviction takes the oldest event, which is the one with the least number.
LEMMA PushEvictInv ==
  ASSUME Inv, NEW p \in Pushers, PushEvict(p)
  PROVE  Inv'
<1> DEFINE s == q.frames
           k == evict_at(s)
           x == s[k].id
<1>1. /\ q' = Evict(q) /\ over_budget(s, psize[p]) /\ pushed' = pushed /\ rejected' = rejected
      /\ lock' = lock /\ ppc' = ppc /\ psize' = psize /\ cpc' = cpc /\ woken' = woken
      /\ held' = held /\ sink' = sink /\ controls' = controls
  BY DEF PushEvict, pVars, cVars, hVars
<1>2. ShapeInv /\ CountInv /\ OrderInv /\ LossInv /\ pushed \in Nat
  BY DEF Inv, ShapeInv
<1>3. q \in QueueType(Frames) /\ q.lag <= q.dropped /\ s \in Seq(Frames)
  BY <1>2, QueueFrames DEF ShapeInv
<1>4. EventsAt(s) # {}
  BY <1>1, <1>3, RoomWhenEmpty, FramesOK
<1>5. /\ q' \in QueueType(Frames) /\ q'.frames = RemoveAt(s, k) /\ q'.delivered = q.delivered
      /\ q'.dropped = q.dropped + 1 /\ q'.lag = q.lag + 1
      /\ EventCount(s) = EventCount(q'.frames) + 1
      /\ EventBytes(s) = EventBytes(q'.frames) + s[k].size
  <2>1. /\ q' = [frames |-> RemoveAt(s, k), delivered |-> q.delivered, dropped |-> q.dropped + 1,
                 lag |-> q.lag + 1]
        /\ q' \in QueueType(Frames)
        /\ EventCount(s) = EventCount(RemoveAt(s, k)) + 1
        /\ EventBytes(s) = EventBytes(RemoveAt(s, k)) + s[k].size
    BY <1>1, <1>3, <1>4, EvictFacts, FramesOK
  <2>2. q'.frames = RemoveAt(s, k)
    BY <2>1
  <2> QED
    BY <2>1, <2>2
<1>6. /\ k \in 1..Len(s) /\ k \in DOMAIN s /\ s[k].is_event
      /\ \A j \in DOMAIN s : s[j].is_event => k <= j
  <2>1. k \in 1..Len(s) /\ s[k].is_event /\ \A j \in EventsAt(s) : k <= j
    BY <1>3, <1>4, EvictAt
  <2> QED
    BY <1>3, <2>1, LenProperties DEF EventsAt
<1>7. q'.frames \in Seq(Frames) /\ Without(s, k, q'.frames)
  <2>1. /\ RemoveAt(s, k) \in Seq(Frames) /\ Len(RemoveAt(s, k)) = Len(s) - 1
        /\ \A i \in 1..(Len(s) - 1) : RemoveAt(s, k)[i] = IF i < k THEN s[i] ELSE s[i + 1]
    BY <1>3, <1>6, RemoveAtFacts
  <2> QED
    BY <1>5, <2>1 DEF Without
<1>8. Kind(s[k]) = "event" /\ \A j \in DOMAIN s : Kind(s[j]) = "event" => s[j].is_event
  BY <1>6 DEF Kind
<1> HIDE DEF s, k
<1>9. Sorted(s)
  BY <1>2 DEF OrderInv, s
<1>10. /\ Sorted(q'.frames)
       /\ Ids(q'.frames, "event") = Ids(s, "event") \ {x}
       /\ Ids(q'.frames, "control") = Ids(s, "control")
  <2>1. /\ Sorted(q'.frames)
        /\ \A d \in Kinds : Ids(q'.frames, d) = Ids(s, d) \ (IF Kind(s[k]) = d THEN {s[k].id} ELSE {})
    BY <1>3, <1>6, <1>7, <1>9, TakeOut
  <2> QED
    BY <1>8, <2>1 DEF Kinds
<1>11. x \in Ids(s, "event") /\ \A n \in Ids(s, "event") : n = x \/ x < n
  BY <1>3, <1>6, <1>8, <1>9, FirstIsLeast
<1>12. /\ q.dropped \in Nat /\ q.delivered \in Nat /\ q.lag \in Nat /\ s[k].size \in Nat
       /\ EventCount(q'.frames) \in Nat /\ EventBytes(q'.frames) \in Nat
  <2>1. s[k] \in Frames
    BY <1>3, <1>6
  <2> QED
    BY <1>3, <1>7, <2>1, FrameIds, CountType, FramesOK DEF QueueType
<1>13. Holds' = Holds /\ \A d \in Kinds : Hand(d)' = Hand(d)
  BY <1>1 DEF Holds, Hand
<1>14. LagSent' = LagSent /\ LagSent \in Nat
  <2>1. sink \in Seq(Writes)
    BY <1>2 DEF ShapeInv
  <2> QED
    BY <1>1, <2>1, LagSumIs DEF LagSent, LagBefore
<1>15. ShapeInv'
  <2>1. IF Holds' THEN held' \in Frames ELSE held' = NoFrame
    BY <1>1, <1>2, <1>13 DEF ShapeInv
  <2>2. q'.lag <= q'.dropped
    BY <1>3, <1>5, <1>12
  <2> QED
    BY <1>1, <1>2, <1>5, <2>1, <2>2 DEF ShapeInv, NoFrame, ControlFrame
<1>16. CountInv'
  <2>1. WithinBudget'
    <3>1. EventCount(s) <= max_events /\ EventBytes(s) <= max_event_bytes
      BY <1>2 DEF CountInv, WithinBudget, s
    <3>2. max_events \in Nat /\ max_event_bytes \in Nat
      BY QueueAssumption DEF max_events, max_event_bytes
    <3> QED
      BY <1>5, <1>12, <3>1, <3>2 DEF WithinBudget
  <2>2. pushed' = q'.delivered + q'.dropped + EventCount(q'.frames)
    BY <1>1, <1>2, <1>5, <1>12 DEF CountInv, s
  <2>3. cpc' # "closed" => q'.lag + LagSent' = q'.dropped
    BY <1>1, <1>2, <1>5, <1>12, <1>14 DEF CountInv
  <2> QED
    BY <2>1, <2>2, <2>3 DEF CountInv
<1>17. OrderInv'
  <2>2. ASSUME NEW d \in Kinds PROVE InOrder(d)'
    <3>1. InOrder(d)
      BY <1>2 DEF OrderInv, InOrder
    <3>2. Ids(q'.frames, d) \subseteq Ids(q.frames, d)
      BY <1>10 DEF Kinds, s
    <3> QED
      BY <1>1, <1>13, <3>1, <3>2 DEF InOrder
  <2>3. SortedOut(sink')
    BY <1>1, <1>2 DEF OrderInv
  <2> QED
    BY <1>10, <2>2, <2>3 DEF OrderInv, InOrder
<1>18. LossInv'
  <2>1. KeepsNewest'
    <3>0. Queued = Ids(s, "event") /\ Queued' = Ids(s, "event") \ {x} /\ Ids(s, "event") \subseteq Nat
      BY <1>3, <1>7, <1>10, QueuedIds DEF Queued, s, Kinds
    <3> SUFFICES ASSUME NEW n \in Queued', NEW m \in n..pushed' PROVE m \in Queued' \cup rejected'
      BY DEF KeepsNewest
    <3>1. n \in Queued /\ x < n /\ m # x /\ m \in n..pushed
      BY <1>1, <1>11, <3>0
    <3>2. m \in Queued \cup rejected
      BY <1>2, <3>1 DEF LossInv, KeepsNewest
    <3> QED
      BY <1>1, <3>0, <3>1, <3>2
  <2>2. cpc' # "closed" => Cardinality(Lost') <= q'.dropped
    <3>1. Lost' \subseteq Lost \cup {x}
      BY <1>1, <1>10, <1>13 DEF Lost, Kinds, s
    <3>2. cpc # "closed" => Cardinality(Lost) <= q.dropped
      BY <1>2 DEF LossInv
    <3> QED
      BY <1>1, <1>2, <1>5, <3>1, <3>2, LoseOne
  <2>3. cpc' = "writing" /\ held'.is_event =>
          Cardinality((1..(held'.id - 1)) \ Outs(sink', "event")) <= LagSent'
    BY <1>1, <1>2, <1>14 DEF LossInv
  <2>4. cpc' # "closed" =>
          1..controls' \subseteq Outs(sink', "control") \cup Hand("control")' \cup Ids(q'.frames, "control")
    BY <1>1, <1>2, <1>10, <1>13 DEF LossInv, Kinds, s
  <2>5. HoleAnnouncedFirst'
    BY <1>1, <1>2 DEF LossInv, HoleAnnouncedFirst, SentBefore, LagBefore
  <2> QED
    BY <2>1, <2>2, <2>3, <2>4, <2>5 DEF LossInv
<1> QED
  BY <1>15, <1>16, <1>17, <1>18 DEF Inv

\* A frame with a number of its own, larger than those of its kind, goes to
\* the end of the queue: what is in hand and on the socket stays.
LEMMA Joins ==
  ASSUME Inv, NEW f \in Frames, q' = Enqueue(q, f), sink' = sink,
         Holds' <=> Holds, held' = held,
         f.id = (IF f.is_event THEN pushed ELSE controls) + 1,
         pushed' = (IF f.is_event THEN pushed + 1 ELSE pushed),
         controls' = (IF f.is_event THEN controls ELSE controls + 1)
  PROVE  /\ OrderInv'
         /\ \A k \in Kinds : Hand(k)' = Hand(k)
         /\ \A k \in Kinds : Ids(q'.frames, k) = Ids(q.frames, k) \cup (IF Kind(f) = k THEN {f.id} ELSE {})
         /\ q' \in QueueType(Frames) /\ q'.delivered = q.delivered /\ q'.dropped = q.dropped
         /\ q'.lag = q.lag /\ q'.frames = Append(q.frames, f)
         /\ EventCount(q'.frames) = EventCount(q.frames) + (IF f.is_event THEN 1 ELSE 0)
         /\ EventBytes(q'.frames) = EventBytes(q.frames) + (IF f.is_event THEN f.size ELSE 0)
         /\ EventCount(q.frames) \in Nat /\ EventBytes(q.frames) \in Nat
<1> DEFINE s == q.frames
           r == Append(s, f)
<1>1. q \in QueueType(Frames) /\ s \in Seq(Frames) /\ pushed \in Nat /\ controls \in Nat
  BY QueueFrames DEF Inv, ShapeInv
<1>2. r \in Seq(Frames)
  BY <1>1
<1>3. EventCount(s) \in Nat /\ EventBytes(s) \in Nat
  BY <1>1, CountType, FramesOK
<1>4. /\ EventCount(r) = EventCount(s) + (IF f.is_event THEN 1 ELSE 0)
      /\ EventBytes(r) = EventBytes(s) + (IF f.is_event THEN f.size ELSE 0)
  BY <1>1, CountAppend, FramesOK
<1>5. Kind(f) \in Kinds /\ f.is_event \in BOOLEAN /\ f.id \in Nat
  BY FrameIds
<1>6. \A n \in Ids(s, Kind(f)) : n < f.id
  <2>1. Ids(s, Kind(f)) \subseteq 1..(IF Kind(f) = "event" THEN pushed ELSE controls)
    BY <1>5 DEF Inv, OrderInv
  <2>2. Kind(f) = "event" <=> f.is_event
    BY <1>5 DEF Kind
  <2> QED
    BY <1>1, <1>5, <2>1, <2>2
<1>7. Sorted(s)
  BY DEF Inv, OrderInv
<1>8. /\ Sorted(r)
      /\ \A k \in Kinds : Ids(r, k) = Ids(s, k) \cup (IF Kind(f) = k THEN {f.id} ELSE {})
  BY <1>1, <1>6, <1>7, PutLast
<1> HIDE DEF r
<1>9. /\ q' \in QueueType(Frames) /\ q'.delivered = q.delivered /\ q'.dropped = q.dropped
      /\ q'.lag = q.lag /\ q'.frames = r
  <2>1. q' = [q EXCEPT !.frames = r]
    BY DEF Enqueue, r
  <2> QED
    BY <1>1, <1>2, <2>1 DEF QueueType
<1>10. \A k \in Kinds : Hand(k)' = Hand(k)
  BY DEF Hand
<1>11. ASSUME NEW k \in Kinds PROVE InOrder(k)'
  <2> DEFINE top == IF k = "event" THEN pushed ELSE controls
             O == Outs(sink, k)
             H == Hand(k)
             I == Ids(s, k)
             J == Ids(r, k)
  <2>1. /\ \A n \in O, m \in H \cup I : n < m
        /\ \A n \in H, m \in I : n < m
        /\ O \cup H \cup I \subseteq 1..top
    BY DEF Inv, OrderInv
  <2>2. top \in Nat /\ top' \in Nat /\ top <= top' /\ (Kind(f) = k => f.id = top + 1 /\ f.id = top')
    BY <1>1, <1>5 DEF Kind, Kinds
  <2>3. J = I \cup (IF Kind(f) = k THEN {f.id} ELSE {})
    BY <1>8
  <2>4. O' = O /\ H' = H /\ Ids(q'.frames, k) = J
    BY <1>9, <1>10
  <2> HIDE DEF O, H, I, J, top
  <2>5. /\ \A n \in O, m \in H \cup J : n < m
        /\ \A n \in H, m \in J : n < m
        /\ O \cup H \cup J \subseteq 1..top'
    <3>1. \A m \in J : m \in I \/ (m = top + 1 /\ m = top')
      BY <2>2, <2>3
    <3>2. \A n \in O \cup H : n \in Nat /\ n <= top
      BY <2>1, <2>2
    <3>3. \A n \in O \cup H, m \in J : m \notin I => n < m
      BY <2>2, <3>1, <3>2
    <3>4. \A n \in 1..top : n \in 1..top'
      BY <2>2
    <3> QED
      BY <2>1, <2>2, <3>1, <3>3, <3>4
  <2> USE DEF O, H, J, top
  <2> QED
    BY <2>4, <2>5 DEF InOrder
<1>12. OrderInv'
  <2>1. Sorted(q'.frames) /\ SortedOut(sink')
    BY <1>8, <1>9 DEF Inv, OrderInv
  <2> QED
    BY <1>11, <2>1 DEF OrderInv, InOrder
<1> QED
  BY <1>3, <1>4, <1>8, <1>9, <1>10, <1>12 DEF r

\* The new event fits: the queue keeps its budgets and the newest events.
LEMMA PushEnqueueInv ==
  ASSUME Inv, NEW p \in Pushers, PushEnqueue(p)
  PROVE  Inv'
<1> DEFINE f == EventFrame(pushed + 1, psize[p])
<1>1. /\ q' = Enqueue(q, f) /\ ppc[p] = "evicting" /\ ~over_budget(q.frames, psize[p])
      /\ pushed' = pushed + 1 /\ lock' = Nobody /\ ppc' = [ppc EXCEPT ![p] = "notifying"]
      /\ psize' = psize /\ cpc' = cpc /\ woken' = woken /\ held' = held /\ sink' = sink
      /\ rejected' = rejected /\ controls' = controls
  BY DEF PushEnqueue, cVars
<1>2. ShapeInv /\ CountInv /\ OrderInv /\ LossInv /\ pushed \in Nat /\ controls \in Nat
  BY DEF Inv, ShapeInv
<1>3. lock = p /\ psize[p] \in Sizes /\ ~oversized(psize[p]) /\ pushed + 1 <= MaxPushes
  <2>1. lock = p /\ psize[p] \in Sizes /\ ~oversized(psize[p])
    BY <1>1, <1>2 DEF ShapeInv
  <2>2. pushed + (IF lock = Nobody THEN 0 ELSE 1) <= MaxPushes
    BY <1>2 DEF ShapeInv
  <2> QED
    BY <2>1, <2>2, PusherAssumption
<1>4. f \in Frames /\ f.is_event /\ f.id = pushed + 1 /\ f.size = psize[p] /\ f.size \in Nat
  <2>1. pushed + 1 \in 1..(MaxPushes + MaxControls)
    BY <1>2, <1>3, PusherAssumption
  <2>2. f \in Frames /\ f.is_event /\ f.id = pushed + 1 /\ f.size = psize[p]
    BY <1>3, <2>1 DEF EventFrame, Frames
  <2> QED
    BY <2>2, FrameIds
<1>5. Holds' <=> Holds
  BY <1>1 DEF Holds
<1> HIDE DEF f
<1>6. /\ OrderInv'
      /\ \A k \in Kinds : Hand(k)' = Hand(k)
      /\ \A k \in Kinds : Ids(q'.frames, k) = Ids(q.frames, k) \cup (IF Kind(f) = k THEN {f.id} ELSE {})
      /\ q' \in QueueType(Frames) /\ q'.delivered = q.delivered /\ q'.dropped = q.dropped
      /\ q'.lag = q.lag /\ q'.frames = Append(q.frames, f)
      /\ EventCount(q'.frames) = EventCount(q.frames) + 1
      /\ EventBytes(q'.frames) = EventBytes(q.frames) + f.size
      /\ EventCount(q.frames) \in Nat /\ EventBytes(q.frames) \in Nat
  BY <1>1, <1>4, <1>5, Joins
<1>7. /\ Ids(q'.frames, "event") = Ids(q.frames, "event") \cup {pushed + 1}
      /\ Ids(q'.frames, "control") = Ids(q.frames, "control")
  BY <1>4, <1>6 DEF Kind, Kinds
<1>8. q.dropped \in Nat /\ q.delivered \in Nat /\ q.lag \in Nat
  BY <1>2 DEF ShapeInv, QueueType
<1>9. LagSent' = LagSent
  BY <1>1 DEF LagSent, LagBefore
<1>10. ShapeInv'
  <2>1. /\ ppc' \in [Pushers -> {"idle", "evicting", "notifying"}] /\ ppc'[p] = "notifying"
        /\ \A r \in Pushers : r # p => ppc'[r] = ppc[r]
    BY <1>1, <1>2 DEF ShapeInv
  <2>2. \A r \in Pushers : ppc'[r] # "evicting"
    BY <1>2, <1>3, <2>1 DEF ShapeInv
  <2>3. \A r \in Pushers : lock' # r
    BY <1>1, PusherAssumption
  <2>4. IF Holds' THEN held' \in Frames ELSE held' = NoFrame
    BY <1>1, <1>2, <1>5 DEF ShapeInv
  <2>5. /\ pushed' \in Nat /\ pushed' + (IF lock' = Nobody THEN 0 ELSE 1) <= MaxPushes
        /\ rejected' \subseteq 1..pushed'
    BY <1>1, <1>2, <1>3, PusherAssumption DEF ShapeInv
  <2>6. lock' \in Pushers \cup {Nobody} /\ q'.lag <= q'.dropped
    BY <1>1, <1>2, <1>6 DEF ShapeInv
  <2> QED
    BY <1>1, <1>2, <1>6, <2>1, <2>2, <2>3, <2>4, <2>5, <2>6 DEF ShapeInv, NoFrame, ControlFrame
<1>11. CountInv'
  <2>1. WithinBudget'
    <3>1. max_events \in Nat /\ max_event_bytes \in Nat /\ 1 <= max_events
      BY QueueAssumption DEF max_events, max_event_bytes
    <3>2. f.size <= max_event_bytes
      BY <1>3, <1>4, <3>1 DEF oversized
    <3>3. CASE EventCount(q.frames) = 0
      <4>1. EventBytes(q.frames) = 0
        <5>1. q.frames \in Seq(Frames)
          BY <1>2, QueueFrames DEF ShapeInv
        <5> QED
          BY <3>3, <5>1, CountType, FramesOK
      <4> QED
        BY <1>4, <1>6, <3>1, <3>2, <3>3, <4>1 DEF WithinBudget
    <3>4. CASE EventCount(q.frames) # 0
      <4>1. EventCount(q.frames) + 1 <= max_events /\ EventBytes(q.frames) + f.size <= max_event_bytes
        BY <1>1, <1>4, <1>6, <3>1, <3>4 DEF over_budget
      <4> QED
        BY <1>6, <4>1 DEF WithinBudget
    <3> QED
      BY <3>3, <3>4
  <2>2. pushed' = q'.delivered + q'.dropped + EventCount(q'.frames)
    BY <1>1, <1>2, <1>6, <1>8 DEF CountInv
  <2>3. cpc' # "closed" => q'.lag + LagSent' = q'.dropped
    BY <1>1, <1>2, <1>6, <1>9 DEF CountInv
  <2> QED
    BY <2>1, <2>2, <2>3 DEF CountInv
<1>12. LossInv'
  <2>1. KeepsNewest'
    <3>0. /\ Queued = Ids(q.frames, "event") /\ Queued' = Ids(q.frames, "event") \cup {pushed + 1}
          /\ Ids(q.frames, "event") \subseteq Nat
      <4>1. q.frames \in Seq(Frames) /\ q'.frames \in Seq(Frames)
        BY <1>2, <1>6, QueueFrames DEF ShapeInv
      <4> QED
        BY <1>7, <4>1, QueuedIds DEF Queued, Kinds
    <3> SUFFICES ASSUME NEW n \in Queued', NEW m \in n..pushed' PROVE m \in Queued' \cup rejected'
      BY DEF KeepsNewest
    <3>1. m = pushed + 1 \/ (n \in Queued /\ m \in n..pushed)
      BY <1>1, <1>2, <3>0
    <3>2. m = pushed + 1 \/ m \in Queued \cup rejected
      BY <1>2, <3>1 DEF LossInv, KeepsNewest
    <3> QED
      BY <1>1, <3>0, <3>2
  <2>2. cpc' # "closed" => Cardinality(Lost') <= q'.dropped
    <3>1. Lost' = Lost
      <4>1. Outs(sink, "event") \cup Hand("event") \subseteq 1..pushed
        BY <1>2 DEF OrderInv, Kinds
      <4>2. /\ 1..pushed' = (1..pushed) \cup {pushed + 1} /\ pushed + 1 \notin 1..pushed
        BY <1>1, <1>2
      <4>3. Outs(sink', "event") = Outs(sink, "event") /\ Hand("event")' = Hand("event")
        BY <1>1, <1>6 DEF Kinds
      <4> QED
        BY <1>7, <4>1, <4>2, <4>3 DEF Lost
    <3> QED
      BY <1>1, <1>2, <1>6, <3>1 DEF LossInv
  <2>3. cpc' = "writing" /\ held'.is_event =>
          Cardinality((1..(held'.id - 1)) \ Outs(sink', "event")) <= LagSent'
    BY <1>1, <1>2, <1>9 DEF LossInv
  <2>4. cpc' # "closed" =>
          1..controls' \subseteq Outs(sink', "control") \cup Hand("control")' \cup Ids(q'.frames, "control")
    BY <1>1, <1>2, <1>6, <1>7 DEF LossInv, Kinds
  <2>5. HoleAnnouncedFirst'
    BY <1>1, <1>2 DEF LossInv, HoleAnnouncedFirst, SentBefore, LagBefore
  <2> QED
    BY <2>1, <2>2, <2>3, <2>4, <2>5 DEF LossInv
<1> QED
  BY <1>6, <1>10, <1>11, <1>12 DEF Inv

\* The connection task queues an answer: control frames count against nothing.
LEMMA ClientRequestInv ==
  ASSUME Inv, controls < MaxControls, ClientRequest
  PROVE  Inv'
<1> DEFINE f == ControlFrame(controls + 1)
<1>1. /\ q' = Enqueue(q, f) /\ cpc \in {"select", "parked"} /\ cpc' = "select"
      /\ controls' = controls + 1 /\ pushed' = pushed /\ lock' = lock /\ ppc' = ppc
      /\ psize' = psize /\ woken' = woken /\ held' = held /\ sink' = sink /\ rejected' = rejected
  BY DEF ClientRequest, pVars
<1>2. ShapeInv /\ CountInv /\ OrderInv /\ LossInv /\ pushed \in Nat /\ controls \in Nat
  BY DEF Inv, ShapeInv
<1>4. f \in Frames /\ ~f.is_event /\ f.id = controls + 1
  <2>1. controls + 1 \in 1..(MaxPushes + MaxControls)
    BY <1>2, PusherAssumption
  <2> QED
    BY <2>1 DEF ControlFrame, Frames
<1>5. (Holds' <=> Holds) /\ ~Holds
  BY <1>1 DEF Holds
<1> HIDE DEF f
<1>6. /\ OrderInv'
      /\ \A k \in Kinds : Hand(k)' = Hand(k)
      /\ \A k \in Kinds : Ids(q'.frames, k) = Ids(q.frames, k) \cup (IF Kind(f) = k THEN {f.id} ELSE {})
      /\ q' \in QueueType(Frames) /\ q'.delivered = q.delivered /\ q'.dropped = q.dropped
      /\ q'.lag = q.lag /\ EventCount(q.frames) \in Nat /\ EventBytes(q.frames) \in Nat
      /\ EventCount(q'.frames) = EventCount(q.frames) + 0
      /\ EventBytes(q'.frames) = EventBytes(q.frames) + 0
  BY <1>1, <1>4, <1>5, Joins
<1>7. /\ Ids(q'.frames, "event") = Ids(q.frames, "event")
      /\ Ids(q'.frames, "control") = Ids(q.frames, "control") \cup {controls + 1}
      /\ EventCount(q'.frames) = EventCount(q.frames) /\ EventBytes(q'.frames) = EventBytes(q.frames)
  <2>1. Kind(f) = "control" /\ "event" \in Kinds /\ "control" \in Kinds /\ "control" # "event"
    BY <1>4 DEF Kind, Kinds
  <2>2. EventCount(q'.frames) = EventCount(q.frames) /\ EventBytes(q'.frames) = EventBytes(q.frames)
    BY <1>6
  <2>3. /\ Ids(q'.frames, "event") = Ids(q.frames, "event")
        /\ Ids(q'.frames, "control") = Ids(q.frames, "control") \cup {f.id}
    BY <1>6, <2>1
  <2> QED
    BY <1>4, <2>2, <2>3
<1>9. LagSent' = LagSent
  BY <1>1 DEF LagSent, LagBefore
<1>10. ShapeInv'
  <2>1. IF Holds' THEN held' \in Frames ELSE held' = NoFrame
    BY <1>1, <1>2, <1>5 DEF ShapeInv
  <2>2. controls' \in 0..MaxControls /\ q'.lag <= q'.dropped
    BY <1>1, <1>2, <1>6, PusherAssumption DEF ShapeInv
  <2> QED
    BY <1>1, <1>2, <1>6, <2>1, <2>2 DEF ShapeInv, NoFrame, ControlFrame
<1>11. CountInv'
  BY <1>1, <1>2, <1>6, <1>7, <1>9 DEF CountInv, WithinBudget
<1>12. LossInv'
  <2>1. KeepsNewest'
    <3>1. q.frames \in Seq(Frames) /\ q'.frames \in Seq(Frames)
      BY <1>2, <1>6, QueueFrames DEF ShapeInv
    <3>2. Queued' = Queued
      BY <1>7, <3>1, QueuedIds DEF Queued
    <3> QED
      BY <1>1, <1>2, <3>2 DEF LossInv, KeepsNewest
  <2>2. cpc' # "closed" => Cardinality(Lost') <= q'.dropped
    <3>1. Lost' = Lost
      BY <1>1, <1>6, <1>7 DEF Lost, Kinds
    <3> QED
      BY <1>1, <1>2, <1>6, <3>1 DEF LossInv
  <2>4. 1..controls' \subseteq Outs(sink', "control") \cup Hand("control")' \cup Ids(q'.frames, "control")
    <3>1. 1..controls \subseteq Outs(sink, "control") \cup Hand("control") \cup Ids(q.frames, "control")
      BY <1>1, <1>2 DEF LossInv
    <3>2. 1..controls' \subseteq (1..controls) \cup {controls + 1}
      BY <1>1, <1>2
    <3>3. Outs(sink', "control") = Outs(sink, "control") /\ Hand("control")' = Hand("control")
      BY <1>1, <1>6 DEF Kinds
    <3> QED
      BY <1>7, <3>1, <3>2, <3>3
  <2>5. HoleAnnouncedFirst'
    BY <1>1, <1>2 DEF LossInv, HoleAnnouncedFirst, SentBefore, LagBefore
  <2> QED
    BY <1>1, <2>1, <2>2, <2>4, <2>5 DEF LossInv
<1> QED
  BY <1>6, <1>10, <1>11, <1>12 DEF Inv

\* What pop leaves in the queue.
LEMMA PopFrontFacts ==
  ASSUME NEW r \in QueueType(Frames), r.frames # <<>>
  PROVE  /\ PopFront(r) \in QueueType(Frames) /\ PopFront(r).frames = Tail(r.frames)
         /\ PopFront(r).delivered = r.delivered + (IF Head(r.frames).is_event THEN 1 ELSE 0)
         /\ PopFront(r).dropped = r.dropped /\ PopFront(r).lag = r.lag
         /\ Head(r.frames) \in Frames /\ Head(r.frames) = r.frames[1] /\ 1 \in 1..Len(r.frames)
         /\ Tail(r.frames) \in Seq(Frames) /\ Without(r.frames, 1, Tail(r.frames))
<1> DEFINE s == r.frames
           t == Tail(s)
           n == IF Head(r.frames).is_event THEN r.delivered + 1 ELSE r.delivered
           e == [r EXCEPT !.frames = t]
<1>1. s \in Seq(Frames) /\ s # <<>> /\ r.delivered \in Nat
  BY DEF QueueType
<1>2. /\ t \in Seq(Frames) /\ Len(t) = Len(s) - 1 /\ \A i \in 1..Len(t) : t[i] = s[i + 1]
      /\ Head(s) \in Frames /\ Head(s) = s[1] /\ 1 \in 1..Len(s)
  BY <1>1
<1>3. n \in Nat /\ n = r.delivered + (IF Head(r.frames).is_event THEN 1 ELSE 0)
  BY <1>1, <1>2, FrameIds
<1>4. Without(s, 1, t)
  <2>1. \A i \in 1..Len(t) : ~(i < 1)
    OBVIOUS
  <2> QED
    BY <1>2, <2>1 DEF Without
<1>5. PopFront(r) = [e EXCEPT !.delivered = n]
  BY DEF PopFront
<1> HIDE DEF t, n
<1>6. /\ e \in QueueType(Frames) /\ e.frames = t /\ e.delivered = r.delivered
      /\ e.dropped = r.dropped /\ e.lag = r.lag
  BY <1>2 DEF QueueType
<1> HIDE DEF e
<1>7. /\ PopFront(r) \in QueueType(Frames) /\ PopFront(r).frames = t /\ PopFront(r).delivered = n
      /\ PopFront(r).dropped = r.dropped /\ PopFront(r).lag = r.lag
  BY <1>3, <1>5, <1>6 DEF QueueType
<1> QED
  BY <1>2, <1>3, <1>4, <1>7 DEF t

\* The connection task takes the front of the queue: the least number of its
\* kind that has not been written.
LEMMA PopTakeInv ==
  ASSUME Inv, PopCheck, q.frames # <<>>
  PROVE  Inv'
<1> DEFINE s == q.frames
           x == s[1].id
<1>1. /\ q' = PopFront(q) /\ held' = Head(q.frames) /\ cpc = "armed" /\ cpc' = "popped"
      /\ lock' = lock /\ ppc' = ppc /\ psize' = psize /\ woken' = woken /\ sink' = sink
      /\ pushed' = pushed /\ rejected' = rejected /\ controls' = controls
  BY DEF PopCheck, pVars, hVars
<1>2. ShapeInv /\ CountInv /\ OrderInv /\ LossInv /\ pushed \in Nat
  BY DEF Inv, ShapeInv
<1>3. /\ q' \in QueueType(Frames) /\ q'.frames = Tail(s)
      /\ q'.delivered = q.delivered + (IF s[1].is_event THEN 1 ELSE 0)
      /\ q'.dropped = q.dropped /\ q'.lag = q.lag
      /\ held' \in Frames /\ held' = s[1] /\ 1 \in 1..Len(s)
      /\ s \in Seq(Frames) /\ q'.frames \in Seq(Frames) /\ Without(s, 1, q'.frames)
  <2>1. q \in QueueType(Frames)
    BY <1>2 DEF ShapeInv
  <2>2. s \in Seq(Frames)
    BY <2>1, QueueFrames
  <2> QED
    BY <1>1, <2>1, <2>2, PopFrontFacts
<1>4. Kind(s[1]) \in Kinds /\ s[1].is_event \in BOOLEAN /\ s[1].size \in Nat /\ x \in Nat
      /\ s[1] \in Frames /\ (s[1].is_event <=> Kind(s[1]) = "event")
  BY <1>3, FrameIds DEF Kind
<1>f. PICK k \in 1..Len(s) : k = 1 /\ Without(s, k, q'.frames)
  BY <1>3
<1>5. /\ EventCount(s) = EventCount(q'.frames) + (IF s[1].is_event THEN 1 ELSE 0)
      /\ EventBytes(s) = EventBytes(q'.frames) + (IF s[1].is_event THEN s[1].size ELSE 0)
      /\ EventCount(q'.frames) \in Nat /\ EventBytes(q'.frames) \in Nat
  <2>1. s \in Seq(Frames) /\ q'.frames \in Seq(Frames)
    BY <1>3
  <2>2. EventCount(q'.frames) \in Nat /\ EventBytes(q'.frames) \in Nat
    BY <1>3, CountType, FramesOK
  <2>3. /\ EventCount(s) = EventCount(q'.frames) + (IF s[k].is_event THEN 1 ELSE 0)
        /\ EventBytes(s) = EventBytes(q'.frames) + (IF s[k].is_event THEN s[k].size ELSE 0)
    <3> HIDE DEF s
    <3> QED
      BY <1>f, <2>1, CountRemove, FramesOK
  <2> QED
    BY <1>f, <2>2, <2>3
<1> HIDE DEF s
<1>6. Sorted(s)
  BY <1>2 DEF OrderInv, s
<1>7. /\ Sorted(q'.frames)
      /\ \A d \in Kinds : Ids(q'.frames, d) = Ids(s, d) \ (IF Kind(s[1]) = d THEN {s[1].id} ELSE {})
  <2>1. s \in Seq(Frames) /\ q'.frames \in Seq(Frames)
    BY <1>3
  <2>2. /\ Sorted(q'.frames)
        /\ \A d \in Kinds : Ids(q'.frames, d) = Ids(s, d) \ (IF Kind(s[k]) = d THEN {s[k].id} ELSE {})
    BY <1>6, <1>f, <2>1, TakeOut
  <2> QED
    BY <1>f, <2>2
<1>8. x \in Ids(s, Kind(s[1])) /\ \A n \in Ids(s, Kind(s[1])) : n = x \/ x < n
  <2>1. 1 \in DOMAIN s /\ \A j \in DOMAIN s : 1 <= j
    BY <1>3, LenProperties
  <2> QED
    BY <1>3, <1>6, <2>1, FirstIsLeast
<1>9. \A d \in Kinds : Hand(d) = {} /\ Hand(d)' = (IF Kind(s[1]) = d THEN {x} ELSE {})
  BY <1>1, <1>3 DEF Hand, Holds
<1>10. \A d \in Kinds : Hand(d)' \cup Ids(q'.frames, d) = Hand(d) \cup Ids(s, d)
  BY <1>7, <1>8, <1>9
<1>11. LagSent' = LagSent
  BY <1>1 DEF LagSent, LagBefore
<1>12. q.dropped \in Nat /\ q.delivered \in Nat /\ q.lag \in Nat /\ q.lag <= q.dropped
  BY <1>2 DEF ShapeInv, QueueType
<1>13. ShapeInv'
  <2>1. IF Holds' THEN held' \in Frames ELSE held' = NoFrame
    BY <1>1, <1>3 DEF Holds
  <2>2. q'.lag <= q'.dropped
    BY <1>3, <1>12
  <2> QED
    BY <1>1, <1>2, <1>3, <2>1, <2>2 DEF ShapeInv, NoFrame, ControlFrame
<1>14. CountInv'
  <2>1. WithinBudget'
    <3>1. EventCount(s) <= max_events /\ EventBytes(s) <= max_event_bytes
      BY <1>2 DEF CountInv, WithinBudget, s
    <3>2. max_events \in Nat /\ max_event_bytes \in Nat
      BY QueueAssumption DEF max_events, max_event_bytes
    <3> QED
      BY <1>4, <1>5, <3>1, <3>2 DEF WithinBudget
  <2>2. pushed' = q'.delivered + q'.dropped + EventCount(q'.frames)
    BY <1>1, <1>2, <1>3, <1>4, <1>5, <1>12 DEF CountInv, s
  <2>3. cpc' # "closed" => q'.lag + LagSent' = q'.dropped
    BY <1>1, <1>2, <1>3, <1>11 DEF CountInv
  <2> QED
    BY <2>1, <2>2, <2>3 DEF CountInv
<1>15. OrderInv'
  <2>2. ASSUME NEW d \in Kinds PROVE InOrder(d)'
    <3> DEFINE O == Outs(sink, d)
               H == Hand(d)'
               I == Ids(s, d)
               J == Ids(q'.frames, d)
               top == IF d = "event" THEN pushed ELSE controls
    <3>1. /\ \A n \in O, m \in I : n < m
          /\ O \cup I \subseteq 1..top
      BY <1>2 DEF OrderInv, s
    <3>2. H \cup J = I /\ top' = top
      BY <1>1, <1>9, <1>10
    <3>3. \A n \in H, m \in J : n < m
      BY <1>7, <1>8, <1>9
    <3> HIDE DEF O, H, I, J, top
    <3>4. /\ \A n \in O, m \in H \cup J : n < m
          /\ O \cup H \cup J \subseteq 1..top'
      BY <3>1, <3>2
    <3> USE DEF O, H, J, top
    <3> QED
      BY <1>1, <3>3, <3>4 DEF InOrder
  <2>3. SortedOut(sink')
    BY <1>1, <1>2 DEF OrderInv
  <2> QED
    BY <1>7, <2>2, <2>3 DEF OrderInv, InOrder
<1>16. LossInv'
  <2>1. KeepsNewest'
    <3>0. Queued = Ids(s, "event") /\ Queued' = Ids(q'.frames, "event") /\ Ids(s, "event") \subseteq Nat
      BY <1>3, QueuedIds DEF Queued, s, Kinds
    <3> SUFFICES ASSUME NEW n \in Queued', NEW m \in n..pushed' PROVE m \in Queued' \cup rejected'
      BY DEF KeepsNewest
    <3>1. n \in Queued /\ m \in n..pushed /\ n \in Nat /\ m \in Nat /\ n <= m
      BY <1>1, <1>2, <1>7, <3>0 DEF Kinds
    <3>2. m \in Queued \cup rejected
      BY <1>2, <3>1 DEF LossInv, KeepsNewest
    <3>3. Kind(s[1]) = "event" => x < n
      BY <1>7, <1>8, <3>0 DEF Kinds
    <3>4. Kind(s[1]) = "event" => m # x
      BY <1>4, <3>1, <3>3
    <3>5. Queued' = Queued \ (IF Kind(s[1]) = "event" THEN {x} ELSE {})
      BY <1>7, <3>0 DEF Kinds
    <3> QED
      BY <1>1, <3>2, <3>4, <3>5
  <2>2. cpc' # "closed" => Cardinality(Lost') <= q'.dropped
    <3>1. Lost' = Lost
      BY <1>1, <1>10 DEF Lost, Kinds, s
    <3> QED
      BY <1>1, <1>2, <1>3, <3>1 DEF LossInv
  <2>4. 1..controls' \subseteq Outs(sink', "control") \cup Hand("control")' \cup Ids(q'.frames, "control")
    <3>1. 1..controls \subseteq Outs(sink, "control") \cup Hand("control") \cup Ids(s, "control")
      BY <1>1, <1>2 DEF LossInv, s
    <3>2. Hand("control")' \cup Ids(q'.frames, "control") = Hand("control") \cup Ids(s, "control")
      BY <1>10 DEF Kinds
    <3> QED
      BY <1>1, <3>1, <3>2
  <2>5. HoleAnnouncedFirst'
    BY <1>1, <1>2 DEF LossInv, HoleAnnouncedFirst, SentBefore, LagBefore
  <2> QED
    BY <1>1, <2>1, <2>2, <2>4, <2>5 DEF LossInv
<1> QED
  BY <1>13, <1>14, <1>15, <1>16 DEF Inv

\* A frame that is neither an event nor an answer moves no number.
LEMMA AsideInv ==
  ASSUME Inv, NEW e \in Writes, e.kind \in {"lagged", "closing"}, sink' = Append(sink, e)
  PROVE  /\ sink' \in Seq(Writes) /\ SortedOut(sink') /\ HoleAnnouncedFirst'
         /\ \A d \in Kinds : Outs(sink', d) = Outs(sink, d)
         /\ LagSent' = LagSent + LagOf(e) /\ LagSent \in Nat
<1>1. sink \in Seq(Writes) /\ SortedOut(sink) /\ HoleAnnouncedFirst
  BY DEF Inv, ShapeInv, OrderInv, LossInv
<1>2. e.kind \notin Kinds /\ e.kind # "event"
  BY DEF Kinds
<1>3. /\ sink' \in Seq(Writes) /\ SortedOut(sink')
      /\ \A d \in Kinds : Outs(sink', d) = Outs(sink, d) \cup (IF e.kind = d THEN {e.n} ELSE {})
  BY <1>1, <1>2, OneMore
<1>4. HoleAnnouncedFirst' /\ LagSent' = LagSent + LagOf(e) /\ LagSent \in Nat
  BY <1>1, <1>2, SinkGrows
<1> QED
  BY <1>2, <1>3, <1>4

\* Before a popped frame is written, the pending drops are announced: they
\* are at least as many as the events the popped one leaves behind.
LEMMA EmitLagInv ==
  ASSUME Inv, EmitLag
  PROVE  Inv'
<1>1. /\ q' = TakeLag(q) /\ cpc = "popped" /\ cpc' = "writing" /\ sink' = sink \o LagFirst
      /\ lock' = lock /\ ppc' = ppc /\ psize' = psize /\ woken' = woken /\ held' = held
      /\ pushed' = pushed /\ rejected' = rejected /\ controls' = controls
  BY DEF EmitLag, pVars, hVars
<1>2. ShapeInv /\ CountInv /\ OrderInv /\ LossInv /\ pushed \in Nat /\ sink \in Seq(Writes)
  BY DEF Inv, ShapeInv
<1>3. /\ q' \in QueueType(Frames) /\ q'.frames = q.frames /\ q'.delivered = q.delivered
      /\ q'.dropped = q.dropped /\ q'.lag = 0
      /\ q.dropped \in Nat /\ q.delivered \in Nat /\ q.lag \in Nat
  <2>1. q \in QueueType(Frames)
    BY <1>2 DEF ShapeInv
  <2>2. q.dropped \in Nat /\ q.delivered \in Nat /\ q.lag \in Nat
    BY <2>1 DEF QueueType
  <2> QED
    BY <1>1, <2>1, <2>2, TakeLagFacts
<1>4. /\ sink' \in Seq(Writes) /\ SortedOut(sink') /\ HoleAnnouncedFirst'
      /\ \A d \in Kinds : Outs(sink', d) = Outs(sink, d)
      /\ LagSent' = LagSent + q.lag /\ LagSent \in Nat
  <2>1. CASE q.lag = 0
    <3>1. sink' = sink
      BY <1>1, <1>2, <2>1 DEF LagFirst
    <3>2. LagSent' = LagSent /\ LagSent \in Nat
      BY <1>2, <3>1, LagSumIs DEF LagSent, LagBefore
    <3>3. SortedOut(sink')
      BY <1>2, <3>1 DEF OrderInv
    <3>4. HoleAnnouncedFirst'
      <4>1. HoleAnnouncedFirst
        BY <1>2 DEF LossInv
      <4> QED
        BY ONLY <3>1, <4>1 DEF HoleAnnouncedFirst, SentBefore, LagBefore
    <3> QED
      BY <1>2, <2>1, <3>1, <3>2, <3>3, <3>4
  <2>2. CASE q.lag # 0
    <3> DEFINE e == Lagged(q.lag)
    <3>1. e \in Writes /\ e.kind = "lagged" /\ LagOf(e) = q.lag
      BY <1>3 DEF Lagged, Writes, LagOf
    <3>2. sink' = sink \o <<e>>
      BY <1>1, <2>2 DEF LagFirst
    <3> HIDE DEF e
    <3>3. sink' = Append(sink, e)
      BY <1>2, <3>1, <3>2
    <3> QED
      BY <3>1, <3>3, AsideInv
  <2> QED
    BY <2>1, <2>2
<1>5. (Holds' <=> Holds) /\ \A d \in Kinds : Hand(d)' = Hand(d)
  BY <1>1 DEF Holds, Hand
<1>6. LagSent' = q.dropped
  BY <1>1, <1>2, <1>3, <1>4 DEF CountInv
<1>7. ShapeInv'
  <2>1. IF Holds' THEN held' \in Frames ELSE held' = NoFrame
    BY <1>1, <1>2, <1>5 DEF ShapeInv
  <2> QED
    BY <1>1, <1>2, <1>3, <1>4, <2>1 DEF ShapeInv, NoFrame, ControlFrame
<1>8. CountInv'
  <2>1. WithinBudget'
    BY <1>2, <1>3 DEF CountInv, WithinBudget
  <2>2. pushed' = q'.delivered + q'.dropped + EventCount(q'.frames)
    BY <1>1, <1>2, <1>3 DEF CountInv
  <2>3. q'.lag + LagSent' = q'.dropped
    BY <1>3, <1>6
  <2> QED
    BY <2>1, <2>2, <2>3 DEF CountInv
<1>9. OrderInv'
  <2>1. Sorted(q'.frames)
    BY <1>2, <1>3 DEF OrderInv
  <2>2. ASSUME NEW d \in Kinds PROVE InOrder(d)'
    <3>1. InOrder(d)
      BY <1>2 DEF OrderInv, InOrder
    <3>2. Outs(sink', d) = Outs(sink, d) /\ Hand(d)' = Hand(d)
      BY <1>4, <1>5
    <3> QED
      BY <1>1, <1>3, <3>1, <3>2 DEF InOrder
  <2> QED
    BY <1>4, <2>1, <2>2 DEF OrderInv, InOrder
<1>10. LossInv'
  <2>0. Outs(sink', "event") = Outs(sink, "event") /\ Hand("event")' = Hand("event")
        /\ Outs(sink', "control") = Outs(sink, "control") /\ Hand("control")' = Hand("control")
    BY <1>4, <1>5 DEF Kinds
  <2>1. KeepsNewest'
    BY <1>1, <1>2, <1>3 DEF LossInv, KeepsNewest, Queued, EventsAt
  <2>2. Cardinality(Lost) <= q.dropped /\ Lost' = Lost
    BY <1>1, <1>2, <1>3, <2>0 DEF LossInv, Lost
  <2>3. held'.is_event =>
          Cardinality((1..(held'.id - 1)) \ Outs(sink', "event")) <= LagSent'
    <3> SUFFICES ASSUME held.is_event
                 PROVE  Cardinality((1..(held.id - 1)) \ Outs(sink, "event")) <= q.dropped
      BY <1>1, <1>6, <2>0
    <3> DEFINE M == (1..(held.id - 1)) \ Outs(sink, "event")
    <3>1. Hand("event") = {held.id} /\ held.id \in 1..pushed
      <4>1. Hand("event") = {held.id}
        BY <1>1 DEF Hand, Holds, Kind
      <4> QED
        BY <1>2, <4>1 DEF OrderInv, Kinds
    <3>2. \A m \in Ids(q.frames, "event") : held.id < m
      BY <1>2, <3>1 DEF OrderInv, Kinds
    <3>3. \A n \in 1..(held.id - 1) : n \in 1..pushed /\ n # held.id /\ n \notin Ids(q.frames, "event")
      BY <1>2, <3>1, <3>2
    <3>4. M \subseteq Lost
      BY <3>1, <3>3 DEF Lost
    <3> HIDE DEF M
    <3>5. IsFiniteSet(Lost) /\ Cardinality(Lost) \in Nat
      BY <1>2, LostFinite
    <3>6. IsFiniteSet(M) /\ Cardinality(M) <= Cardinality(Lost)
      BY <3>4, <3>5, FS_Subset
    <3>7. Cardinality(M) \in Nat
      BY <3>6, FS_CardinalityType
    <3>8. Cardinality(M) <= q.dropped
      BY <1>3, <2>2, <3>5, <3>6, <3>7
    <3> QED
      BY <3>8 DEF M
  <2>4. 1..controls' \subseteq Outs(sink', "control") \cup Hand("control")' \cup Ids(q'.frames, "control")
    BY <1>1, <1>2, <1>3, <2>0 DEF LossInv
  <2> QED
    BY <1>1, <1>3, <1>4, <2>1, <2>2, <2>3, <2>4 DEF LossInv
<1> QED
  BY <1>7, <1>8, <1>9, <1>10 DEF Inv

\* The popped frame is written: its number moves from the hand to the socket.
LEMMA EmitFrameInv ==
  ASSUME Inv, EmitFrame
  PROVE  Inv'
<1> DEFINE e == Written(held)
<1>1. /\ q' = q /\ cpc = "writing" /\ cpc' = "select" /\ sink' = Append(sink, e)
      /\ held' = NoFrame /\ lock' = lock /\ ppc' = ppc /\ psize' = psize /\ woken' = woken
      /\ pushed' = pushed /\ rejected' = rejected /\ controls' = controls
  BY DEF EmitFrame, qVars, pVars, hVars
<1>2. ShapeInv /\ CountInv /\ OrderInv /\ LossInv /\ pushed \in Nat /\ sink \in Seq(Writes)
  BY DEF Inv, ShapeInv
<1>3. Holds /\ ~Holds' /\ held \in Frames
  <2>1. Holds /\ ~Holds'
    BY <1>1 DEF Holds
  <2> QED
    BY <1>2, <2>1 DEF ShapeInv
<1>4. /\ e \in Writes /\ e.kind = Kind(held) /\ e.n = held.id /\ e.kind \in Kinds
      /\ (e.kind = "event" <=> held.is_event) /\ LagOf(e) = 0
  <2>1. Kind(held) \in Kinds /\ held.id \in Nat /\ held.is_event \in BOOLEAN
    BY <1>3, FrameIds
  <2>2. e = [kind |-> Kind(held), n |-> held.id]
    BY DEF Written, Kind
  <2>3. e \in Writes /\ e.kind = Kind(held) /\ e.n = held.id
    BY <2>1, <2>2 DEF Writes
  <2> QED
    BY <2>1, <2>3 DEF Kind, Kinds, LagOf
<1> HIDE DEF e
<1>5. \A d \in Kinds : Hand(d)' = {} /\ Hand(d) = (IF e.kind = d THEN {e.n} ELSE {})
  BY <1>3, <1>4 DEF Hand
<1>6. \A n \in Outs(sink, e.kind) : n < e.n
  BY <1>2, <1>4, <1>5 DEF OrderInv
<1>7. /\ sink' \in Seq(Writes) /\ SortedOut(sink')
      /\ \A d \in Kinds : Outs(sink', d) = Outs(sink, d) \cup (IF e.kind = d THEN {e.n} ELSE {})
  <2>1. SortedOut(sink)
    BY <1>2 DEF OrderInv
  <2> QED
    BY <1>1, <1>2, <1>4, <1>6, <2>1, OneMore
<1>8. HoleAnnouncedFirst' /\ LagSent' = LagSent
  <2>1. e.kind = "event" => /\ Cardinality((1..(e.n - 1)) \ Outs(sink, "event")) <= LagSent
                            /\ \A n \in Outs(sink, "event") : n < e.n
    BY <1>1, <1>2, <1>4, <1>6 DEF LossInv
  <2>2. HoleAnnouncedFirst
    BY <1>2 DEF LossInv
  <2>3. HoleAnnouncedFirst' /\ LagSent' = LagSent + LagOf(e) /\ LagSent \in Nat
    BY <1>1, <1>2, <1>4, <2>1, <2>2, SinkGrows
  <2> QED
    BY <1>4, <2>3
<1>9. \A d \in Kinds : Outs(sink', d) \cup Hand(d)' = Outs(sink, d) \cup Hand(d)
  BY <1>5, <1>7
<1>10. ShapeInv'
  BY <1>1, <1>2, <1>3, <1>7 DEF ShapeInv, NoFrame, ControlFrame
<1>11. CountInv'
  BY <1>1, <1>2, <1>8 DEF CountInv, WithinBudget
<1>12. OrderInv'
  <2>1. Sorted(q'.frames)
    BY <1>1, <1>2 DEF OrderInv
  <2>2. ASSUME NEW d \in Kinds PROVE InOrder(d)'
    <3>1. InOrder(d)
      BY <1>2 DEF OrderInv, InOrder
    <3>2. Outs(sink', d) = Outs(sink, d) \cup Hand(d) /\ Hand(d)' = {}
      BY <1>5, <1>7
    <3> QED
      BY <1>1, <3>1, <3>2 DEF InOrder
  <2> QED
    BY <1>7, <2>1, <2>2 DEF OrderInv, InOrder
<1>13. LossInv'
  <2>1. KeepsNewest'
    BY <1>1, <1>2 DEF LossInv, KeepsNewest, Queued, EventsAt
  <2>2. Cardinality(Lost') <= q'.dropped
    <3>1. Lost' = Lost
      BY <1>1, <1>9 DEF Lost, Kinds
    <3> QED
      BY <1>1, <1>2, <3>1 DEF LossInv
  <2>4. 1..controls' \subseteq Outs(sink', "control") \cup Hand("control")' \cup Ids(q'.frames, "control")
    <3>1. 1..controls \subseteq Outs(sink, "control") \cup Hand("control") \cup Ids(q.frames, "control")
      BY <1>1, <1>2 DEF LossInv
    <3> QED
      BY <1>1, <1>9, <3>1 DEF Kinds
  <2> QED
    BY <1>1, <1>8, <2>1, <2>2, <2>4 DEF LossInv
<1> QED
  BY <1>10, <1>11, <1>12, <1>13 DEF Inv

\* `closing` is the last frame of a connection.
LEMMA CloseRequestedInv ==
  ASSUME Inv, CloseRequested
  PROVE  Inv'
<1> DEFINE e == Closing
<1>1. /\ q' = q /\ cpc \in {"select", "parked"} /\ cpc' = "closed" /\ sink' = Append(sink, e)
      /\ held' = held /\ lock' = lock /\ ppc' = ppc /\ psize' = psize /\ woken' = woken
      /\ pushed' = pushed /\ rejected' = rejected /\ controls' = controls
  BY DEF CloseRequested, qVars, pVars, hVars
<1>2. ShapeInv /\ CountInv /\ OrderInv /\ LossInv
  BY DEF Inv
<1>3. e \in Writes /\ e.kind = "closing"
  BY DEF Closing, Writes
<1> HIDE DEF e
<1>4. /\ sink' \in Seq(Writes) /\ SortedOut(sink') /\ HoleAnnouncedFirst'
      /\ \A d \in Kinds : Outs(sink', d) = Outs(sink, d)
  BY <1>1, <1>3, AsideInv
<1>5. ~Holds /\ ~Holds' /\ \A d \in Kinds : Hand(d)' = Hand(d)
  BY <1>1 DEF Holds, Hand
<1>6. ShapeInv'
  <2>1. held' = NoFrame
    BY <1>1, <1>2, <1>5 DEF ShapeInv
  <2> QED
    BY <1>1, <1>2, <1>4, <1>5, <2>1 DEF ShapeInv, NoFrame, ControlFrame
<1>7. CountInv'
  BY <1>1, <1>2 DEF CountInv, WithinBudget
<1>8. OrderInv'
  <2>1. Sorted(q'.frames)
    BY <1>1, <1>2 DEF OrderInv
  <2>2. ASSUME NEW d \in Kinds PROVE InOrder(d)'
    <3>1. InOrder(d)
      BY <1>2 DEF OrderInv, InOrder
    <3>2. Outs(sink', d) = Outs(sink, d) /\ Hand(d)' = Hand(d)
      BY <1>4, <1>5
    <3> QED
      BY <1>1, <3>1, <3>2 DEF InOrder
  <2> QED
    BY <1>4, <2>1, <2>2 DEF OrderInv, InOrder
<1>9. LossInv'
  <2>1. KeepsNewest'
    BY <1>1, <1>2 DEF LossInv, KeepsNewest, Queued, EventsAt
  <2> QED
    BY <1>1, <1>4, <2>1 DEF LossInv
<1> QED
  BY <1>6, <1>7, <1>8, <1>9 DEF Inv

-----------------------------------------------------------------------------
(* The invariant *)

\* Nothing has been pushed yet.
LEMMA InitInv == Init => Inv
<1> SUFFICES ASSUME Init PROVE Inv
  OBVIOUS
<1>1. /\ q = [frames |-> <<>>, delivered |-> 0, dropped |-> 0, lag |-> 0] /\ lock = Nobody
      /\ ppc = [p \in Pushers |-> "idle"] /\ psize = [p \in Pushers |-> 0]
      /\ cpc = "select" /\ woken = FALSE /\ held = NoFrame /\ sink = <<>>
      /\ pushed = 0 /\ rejected = {} /\ controls = 0
  BY DEF Init, NewQueue
<1>2. /\ q.frames = <<>> /\ q.delivered = 0 /\ q.dropped = 0 /\ q.lag = 0
      /\ q.frames \in Seq(Frames) /\ DOMAIN q.frames = {} /\ sink \in Seq(Writes) /\ DOMAIN sink = {}
      /\ q \in QueueType(Frames) /\ Len(sink) = 0
  BY <1>1 DEF QueueType
<1>3. EventsAt(q.frames) = {}
  BY <1>2 DEF EventsAt
<1>4. EventCount(q.frames) = 0 /\ EventBytes(q.frames) = 0
  BY <1>2, <1>3, CountType, FramesOK
<1>5. LagSent = 0
  <2>1. LagSent = LagSum(sink) /\ LagWeights(sink) \in Seq(Nat)
    BY <1>2, LagSumIs DEF LagSent, LagBefore
  <2>2. Len(LagWeights(sink)) = 0
    BY <1>2 DEF LagWeights
  <2>3. Total(LagWeights(sink)) = 0
    <3> DEFINE w == LagWeights(sink)
    <3>1. w \in Seq(Nat) /\ \A i \in 1..Len(w) : w[i] = 0
      BY <2>1, <2>2
    <3> HIDE DEF w
    <3>2. Total(w) = 0
      BY <3>1, TotalType
    <3> QED
      BY <3>2 DEF w
  <2> QED
    BY <2>1, <2>3 DEF LagSum
<1>6. ~Holds /\ \A k \in Kinds : Hand(k) = {} /\ Ids(q.frames, k) = {} /\ Outs(sink, k) = {}
  BY <1>1, <1>2 DEF Holds, Hand, Ids, Outs
<1>7. ShapeInv
  <2>1. \A p \in Pushers : ppc[p] # "evicting" /\ lock # p
    BY <1>1, PusherAssumption
  <2>2. \A p \in Pushers : ppc[p] = "evicting" <=> lock = p
    BY <2>1
  <2> QED
    <3>1. q.lag <= q.dropped /\ pushed + (IF lock = Nobody THEN 0 ELSE 1) <= MaxPushes
      BY <1>1, <1>2, PusherAssumption
    <3>2. /\ ppc \in [Pushers -> {"idle", "evicting", "notifying"}]
          /\ psize \in [Pushers -> Sizes \cup {0}]
      BY <1>1
    <3>3. /\ lock \in Pushers \cup {Nobody} /\ woken \in BOOLEAN /\ pushed \in Nat
          /\ cpc \in {"select", "armed", "checked", "parked", "popped", "writing", "closed"}
          /\ rejected \subseteq 1..pushed /\ controls \in 0..MaxControls
      <4>1. lock = Nobody /\ cpc = "select" /\ pushed = 0 /\ rejected = {} /\ controls = 0
        BY <1>1
      <4>2. woken \in BOOLEAN
        BY <1>1
      <4> QED
        BY <4>1, <4>2, PusherAssumption
    <3>4. IF Holds THEN held \in Frames ELSE held = NoFrame
      BY <1>1, <1>6
    <3> QED
      BY <1>2, <2>1, <2>2, <3>1, <3>2, <3>3, <3>4 DEF ShapeInv
<1>8. CountInv
  BY <1>1, <1>2, <1>4, <1>5, QueueAssumption DEF CountInv, WithinBudget, max_events, max_event_bytes
<1>9. OrderInv
  BY <1>2, <1>6 DEF OrderInv, Sorted, SortedOut
<1>10. LossInv
  <2>1. KeepsNewest
    BY <1>3 DEF KeepsNewest, Queued
  <2>2. Lost = {} /\ Cardinality(Lost) = 0
    <3>1. Lost = {}
      BY <1>1 DEF Lost
    <3> QED
      BY <3>1, FS_EmptySet
  <2>3. HoleAnnouncedFirst
    BY <1>2 DEF HoleAnnouncedFirst
  <2> QED
    BY <1>1, <1>2, <2>1, <2>2, <2>3 DEF LossInv
<1> QED
  BY <1>7, <1>8, <1>9, <1>10 DEF Inv

\* Every step keeps it.
LEMMA NextInv == Inv /\ [Next]_vars => Inv'
<1> SUFFICES ASSUME Inv, [Next]_vars PROVE Inv'
  OBVIOUS
<1>1. CASE UNCHANGED vars
  BY <1>1, WaitsInv
<1>2. ASSUME NEW p \in Pushers, Push(p) PROVE Inv'
  <2>1. ASSUME NEW s \in Sizes, pushed + InHand < MaxPushes, PushOversized(p, s) PROVE Inv'
    BY <2>1, PushOversizedInv
  <2>2. ASSUME NEW s \in Sizes, pushed + InHand < MaxPushes, PushLock(p, s) PROVE Inv'
    BY <2>2, PushLockInv
  <2>3. CASE PushEvict(p)
    BY <2>3, PushEvictInv
  <2>4. CASE PushEnqueue(p)
    BY <2>4, PushEnqueueInv
  <2>5. CASE PushNotify(p)
    BY <2>5, PushNotifyInv
  <2> QED
    BY <1>2, <2>1, <2>2, <2>3, <2>4, <2>5 DEF Push
<1>3. CASE PopCheck
  BY <1>3, PopTakeInv, WaitsInv
<1>4. CASE PopArm \/ PopPark \/ PopWake \/ Interrupted \/ Disconnected
  BY <1>4, WaitsInv
<1>5. CASE EmitLag
  BY <1>5, EmitLagInv
<1>6. CASE EmitFrame
  BY <1>6, EmitFrameInv
<1>7. CASE SendFail
  BY <1>7, SendFailInv
<1>8. CASE controls < MaxControls /\ ClientRequest
  BY <1>8, ClientRequestInv
<1>9. CASE CloseRequested
  BY <1>9, CloseRequestedInv
<1> QED
  BY <1>1, <1>2, <1>3, <1>4, <1>5, <1>6, <1>7, <1>8, <1>9 DEF Next, Pop, Emit

\* The inductive invariant holds in every reachable state.
THEOREM InvAlways == Spec => []Inv
BY InitInv, NextInv, PTL DEF Spec

\* Every drop is accounted for: the number of events pushed is the number
\* delivered, dropped and queued, and while the connection lives no drop is
\* lost between the swap of the pending count and the socket.
THEOREM DropsAccountedAlways == Spec => []DropsAccounted
<1>1. Inv => DropsAccounted
  BY DEF Inv, CountInv, LagSent, DropsAccounted
<1> QED
  BY <1>1, InvAlways, PTL

\* A client that stops at `lagged` never passes a hole: when an event reaches
\* the socket, every earlier one that did not has been announced.
THEOREM HoleAnnouncedFirstAlways == Spec => []HoleAnnouncedFirst
<1>1. Inv => HoleAnnouncedFirst
  BY DEF Inv, LossInv
<1> QED
  BY <1>1, InvAlways, PTL

\* With any number of fan-outs inside push_event, the queue is within both
\* budgets, holds the newest events, and loses or reorders no control frame.
THEOREM QueueSoundAlways == Spec => []QueueSound
<1>1. ASSUME Inv PROVE TypeOK
  <2>1. ShapeInv /\ CountInv
    BY <1>1 DEF Inv
  <2>2. q.frames \in Seq(Frames) /\ EventCount(q.frames) \in Nat
    BY <2>1, QueueFrames, CountType, FramesOK DEF ShapeInv
  <2>3. \A f \in ToSet(q.frames) : f \in Frames
    BY <2>2 DEF ToSet
  <2>4. q.delivered \in 0..pushed /\ q.dropped \in 0..pushed /\ q.lag \in 0..q.dropped
    <3>1. q.delivered \in Nat /\ q.dropped \in Nat /\ q.lag \in Nat /\ q.lag <= q.dropped
      BY <2>1 DEF ShapeInv, QueueType
    <3>2. pushed = q.delivered + q.dropped + EventCount(q.frames)
      BY <2>1 DEF CountInv
    <3> QED
      BY <2>2, <3>1, <3>2
  <2>5. pushed \in 0..MaxPushes
    BY <2>1, PusherAssumption DEF ShapeInv
  <2> QED
    BY <2>1, <2>3, <2>4, <2>5 DEF TypeOK, ShapeInv, Frames
<1>2. ASSUME Inv PROVE ControlsInOrder
  <2> DEFINE sent == {sink[i].n : i \in OnSocket}
             queued == {q.frames[i].id : i \in Waiting}
  <2>1. ShapeInv /\ OrderInv /\ LossInv
    BY <1>2 DEF Inv
  <2>2. q.frames \in Seq(Frames) /\ sink \in Seq(Writes)
    BY <2>1, QueueFrames DEF ShapeInv
  <2>3. sent = Outs(sink, "control") /\ queued = Ids(q.frames, "control")
    BY <2>2, QueuedIds DEF OnSocket, Waiting, Outs
  <2>4. InHandControl = Hand("control")
    <3>1. CASE Holds
      <4>1. held \in Frames
        BY <2>1, <3>1 DEF ShapeInv
      <4>2. held.id # 0 /\ held.is_event \in BOOLEAN
        BY <4>1, FrameIds
      <4> QED
        BY <3>1, <4>2 DEF InHandControl, Hand, Kind
    <3>2. CASE ~Holds
      <4>1. held = NoFrame
        BY <2>1, <3>2 DEF ShapeInv
      <4>2. held.id = 0 /\ ~held.is_event
        BY <4>1 DEF NoFrame, ControlFrame
      <4> QED
        BY <3>2, <4>2 DEF InHandControl, Hand
    <3> QED
      BY <3>1, <3>2
  <2>5. \A i, j \in OnSocket : i < j => sink[i].n < sink[j].n
    BY <2>1 DEF OrderInv, SortedOut, OnSocket, Kinds
  <2>6. \A i, j \in Waiting : i < j => q.frames[i].id < q.frames[j].id
    <3>1. \A i \in Waiting : i \in DOMAIN q.frames /\ Kind(q.frames[i]) = "control"
      BY DEF Waiting, EventsAt, Kind
    <3> QED
      BY <2>1, <3>1 DEF OrderInv, Sorted
  <2>7. /\ \A n \in Outs(sink, "control"), m \in Hand("control") \cup Ids(q.frames, "control") : n < m
        /\ \A n \in Hand("control"), m \in Ids(q.frames, "control") : n < m
        /\ Outs(sink, "control") \cup Hand("control") \cup Ids(q.frames, "control") \subseteq 1..controls
    BY <2>1 DEF OrderInv, Kinds
  <2>8. cpc # "closed" =>
          1..controls \subseteq Outs(sink, "control") \cup Hand("control") \cup Ids(q.frames, "control")
    BY <2>1 DEF LossInv
  <2> HIDE DEF sent, queued
  <2>9. cpc # "closed" =>
          /\ sent \cup InHandControl \cup queued = 1..controls
          /\ \A n \in sent, m \in InHandControl \cup queued : n < m
          /\ \A n \in InHandControl, m \in queued : n < m
    BY <2>3, <2>4, <2>7, <2>8
  <2> USE DEF sent, queued
  <2> QED
    BY <2>5, <2>6, <2>9 DEF ControlsInOrder
<1>3. Inv => QueueSound
  BY <1>1, <1>2 DEF QueueSound, Inv, CountInv, LossInv
<1> QED
  BY <1>3, InvAlways, PTL

\* push_event is atomic to everybody else: whatever happens between the turns
\* of its loop, it leaves the frames it would have left in one step.
THEOREM LoopIsPushEventAlways == Spec => LoopIsPushEvent
<1>1. ASSUME Inv, Next, NEW p \in Pushers, ppc[p] = "evicting" PROVE LoopStep(p)
  <2> DEFINE f == EventFrame(pushed + 1, psize[p])
  <2>1. ShapeInv /\ q \in QueueType(Frames) /\ lock = p /\ p # Nobody /\ ~oversized(psize[p])
    BY <1>1, PusherAssumption DEF Inv, ShapeInv
  <2>2. f.size = psize[p]
    BY DEF EventFrame
  <2>3. ~oversized(f.size)
    BY <2>1, <2>2
  <2> HIDE DEF f
  <2>4. SUFFICES push_event(q, f).frames =
                   IF ppc'[p] = "evicting" THEN push_event(q', f).frames ELSE q'.frames
    BY DEF LoopStep, f
  <2>5. ASSUME ppc' = ppc, q' \in QueueType(Frames), q'.frames = q.frames
        PROVE  push_event(q, f).frames =
                   IF ppc'[p] = "evicting" THEN push_event(q', f).frames ELSE q'.frames
    <3>1. push_event(q, f).frames = push_event(q', f).frames
      BY <2>1, <2>3, <2>5, PushEventFrames, FramesOK
    <3> QED
      BY <1>1, <2>5, <3>1
  <2>6. CASE PushEvict(p)
    <3>1. q' = Evict(q) /\ ppc' = ppc /\ over_budget(q.frames, f.size)
      BY <2>2, <2>6 DEF PushEvict, pVars
    <3>2. push_event(q, f).frames = push_event(Evict(q), f).frames
      BY <2>1, <2>3, <3>1, PushEventTurn, FramesOK
    <3> QED
      BY <1>1, <3>1, <3>2
  <2>7. CASE PushEnqueue(p)
    <3>1. q' = Enqueue(q, f) /\ ppc'[p] = "notifying" /\ ~over_budget(q.frames, f.size)
      BY <2>1, <2>2, <2>7 DEF PushEnqueue, ShapeInv, f
    <3>2. push_event(q, f) = Enqueue(q, f)
      BY <2>1, <2>3, <3>1, PushEventRoom, FramesOK
    <3> QED
      BY <3>1, <3>2
  <2>8. ASSUME NEW r \in Pushers, Push(r), ~PushEvict(p), ~PushEnqueue(p)
        PROVE  push_event(q, f).frames =
                   IF ppc'[p] = "evicting" THEN push_event(q', f).frames ELSE q'.frames
    <3>1. ~PushEvict(r) /\ ~PushEnqueue(r)
      <4>1. ppc[r] = "evicting" => r = p
        BY <2>1 DEF ShapeInv
      <4> QED
        BY <2>8, <4>1 DEF PushEvict, PushEnqueue
    <3>2. \A s \in Sizes : ~PushLock(r, s)
      BY <2>1 DEF PushLock
    <3>3. CASE \E s \in Sizes : PushOversized(r, s)
      <4>1. q' = record_drop(q) /\ ppc' = ppc
        BY <3>3 DEF PushOversized, pVars
      <4>2. /\ q' = [frames |-> q.frames, delivered |-> q.delivered, dropped |-> q.dropped + 1,
                     lag |-> q.lag + 1]
            /\ q' \in QueueType(Frames)
        BY <2>1, <4>1, DropFacts
      <4>3. q'.frames = q.frames
        BY <4>2
      <4> QED
        BY <2>5, <4>1, <4>2, <4>3
    <3>4. CASE PushNotify(r)
      <4>1. q' = q /\ r # p /\ ppc'[p] = ppc[p]
        BY <1>1, <2>1, <3>4 DEF PushNotify, qVars, ShapeInv
      <4> QED
        BY <1>1, <4>1
    <3> QED
      BY <2>8, <3>1, <3>2, <3>3, <3>4 DEF Push
  <2>9. CASE EmitLag \/ SendFail
    <3>1. ppc' = ppc /\ q' \in {q, TakeLag(q)}
      BY <2>9 DEF EmitLag, SendFail, pVars
    <3>2. q' \in QueueType(Frames) /\ q'.frames = q.frames
      BY <2>1, <3>1, TakeLagFacts
    <3> QED
      BY <2>5, <3>1, <3>2
  <2>10. CASE PopArm \/ PopPark \/ PopWake \/ EmitFrame \/ Interrupted \/ CloseRequested \/ Disconnected
    <3>1. ppc' = ppc /\ q' = q
      BY <2>10 DEF PopArm, PopPark, PopWake, EmitFrame, Interrupted, CloseRequested, Disconnected,
                   qVars, pVars
    <3> QED
      BY <1>1, <3>1
  <2>11. ~PopCheck /\ ~ClientRequest
    BY <2>1 DEF PopCheck, ClientRequest
  <2> QED
    BY <1>1, <2>6, <2>7, <2>8, <2>9, <2>10, <2>11 DEF Next, Pop, Emit
<1>2. Inv /\ [Next]_vars => [\A p \in Pushers : LoopStep(p)]_vars
  <2>1. ASSUME Inv, Next, NEW p \in Pushers PROVE LoopStep(p)
    BY <1>1, <2>1 DEF LoopStep
  <2> QED
    BY <2>1
<1> QED
  BY <1>2, InvAlways, PTL DEF Spec, LoopIsPushEvent
=============================================================================

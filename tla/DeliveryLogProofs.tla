-------------------------- MODULE DeliveryLogProofs --------------------------
(***************************************************************************)
(* Proofs about DeliveryLog, for every set of tasks, every event size and   *)
(* every value of the limits and of the clock.                              *)
(***************************************************************************)
EXTENDS DeliveryLog, FiniteSetTheorems, WellFoundedInduction, TLAPS

\* Inside the critical section.
Holding == {"writing", "committed", "publishing"}

\* The mutex has one holder, and nothing runs while the log is closed.
MutexInv ==
  /\ \A p \in Procs : pc[p] \in Holding <=> writer = p
  /\ pc[Pruner] \in {"idle", "waiting", "writing", "committed"}
  /\ ~up => \A p \in Procs : pc[p] = "idle"

\* An append's base is head until it stores head.
CallInv ==
  \A t \in Tasks :
    /\ pc[t] # "idle" => Len(job[t].batch) > 0
    /\ pc[t] \in {"writing", "committed"} => job[t].base = head
    /\ pc[t] = "publishing" => HeadAfter(job[t]) = head
    /\ pc[t] = "ok" => HeadAfter(job[t]) <= head

Interval(f, h) == IF f = 0 THEN {} ELSE f..h
Span(f, h) == IF f = 0 THEN 0 ELSE h - f + 1
Low(f, j) == IF f = 0 THEN j.base + 1 ELSE f

(* The table is the interval that floor and head describe, corrected at the *)
(* two places where the commit has run ahead of the stores.                 *)
TableInv ==
  up =>
    /\ floor # 0 => floor <= head
    /\ writer = Nobody \/ pc[writer] = "writing" =>
         /\ DOMAIN rows = Interval(floor, head)
         /\ retained_count = Span(floor, head)
    /\ \A t \in Tasks : pc[t] = "committed" =>
         /\ DOMAIN rows = Low(floor, job[t])..HeadAfter(job[t])
         /\ retained_count = Span(floor, job[t].base)
    /\ \A t \in Tasks : pc[t] = "publishing" =>
         /\ DOMAIN rows = Low(floor, job[t])..head
         /\ retained_count = Span(floor, job[t].base)
         /\ floor <= job[t].base
    /\ pc[Pruner] = "committed" =>
         /\ DOMAIN rows = Interval(job[Pruner].floor, head)
         /\ retained_count = Span(job[Pruner].floor, head)
         /\ floor = 0 => job[Pruner].floor = 0
         /\ job[Pruner].floor # 0 => floor <= job[Pruner].floor /\ job[Pruner].floor <= head

DownInv == ~up => \E a \in Seqs, b \in Nat : DOMAIN rows = a..b

(* While no open has lost the head, no committed seq is above the last one  *)
(* the table can tell.                                                      *)
IssuedInv ==
  ~lostHead =>
    /\ SeqUnique
    /\ up => \A x \in issued :
         x[1] <= head \/ \E t \in Tasks : pc[t] = "committed" /\ x[1] <= HeadAfter(job[t])
    /\ ~up /\ DOMAIN rows # {} => \A x \in issued : \E s \in DOMAIN rows : x[1] <= s

Inv == TypeOK /\ MutexInv /\ CallInv /\ TableInv /\ DownInv /\ IssuedInv

-----------------------------------------------------------------------------
(* Intervals *)

\* The first and last key of a table that is an interval of seqs.
LEMMA IntervalKeys ==
  ASSUME NEW a \in Seqs, NEW b \in Nat
  PROVE  /\ a <= b => FirstKey(a..b) = a /\ LastKey(a..b) = b
         /\ a > b => a..b = {} /\ FirstKey(a..b) = 0 /\ LastKey(a..b) = 0
<1>1. ASSUME a <= b PROVE FirstKey(a..b) = a /\ LastKey(a..b) = b
  <2>1. a \in a..b /\ b \in a..b /\ \A y \in a..b : a <= y /\ b >= y
    BY <1>1 DEF Seqs
  <2>2. Min(a..b) = a
    BY <2>1 DEF Min, Seqs
  <2>3. Max(a..b) = b
    BY <2>1 DEF Max, Seqs
  <2> QED BY <2>1, <2>2, <2>3 DEF FirstKey, LastKey
<1>2. ASSUME a > b PROVE a..b = {} /\ FirstKey(a..b) = 0 /\ LastKey(a..b) = 0
  BY <1>2 DEF FirstKey, LastKey, Seqs
<1> QED BY <1>1, <1>2

\* What removing the rows before a front c leaves of an interval, and how many
\* rows that removes.
CutLeaves(r, a, b, c) ==
  LET gone == Removed(r, c)
      f == FirstKey(DOMAIN r \ gone)
  IN  /\ DOMAIN r \ gone = Interval(f, b)
      /\ f \in Nat
      /\ f # 0 => a <= f /\ f <= b
      /\ Cardinality(DOMAIN r) - Cardinality(gone) = Span(f, b)

\* Cutting at any front of an interval leaves an interval, counted right.
LEMMA CutInterval ==
  ASSUME NEW r, NEW a \in Seqs, NEW b \in Nat, DOMAIN r = a..b,
         NEW c \in Fronts(r)
  PROVE  CutLeaves(r, a, b, c)
<1> USE DEF CutLeaves
<1> DEFINE gone == Removed(r, c)
           kept == DOMAIN r \ gone
<1>1. CASE a > b
  <2>1. DOMAIN r = {} /\ gone = {} /\ kept = {}
    BY <1>1, IntervalKeys DEF Removed
  <2>2. Cardinality({}) = 0
    BY FS_EmptySet
  <2>3. Cardinality(DOMAIN r) = 0 /\ Cardinality(gone) = 0
    BY <2>1, <2>2, Zenon
  <2>4. FirstKey(kept) = 0
    BY <2>1 DEF FirstKey
  <2>5. kept = Interval(0, b) /\ Span(0, b) = 0
    BY <2>1 DEF Interval, Span
  <2>6. kept = Interval(FirstKey(kept), b)
    BY <2>4, <2>5
  <2>7. Cardinality(DOMAIN r) - Cardinality(gone) = Span(FirstKey(kept), b)
    BY <2>3, <2>4, <2>5
  <2>8. FirstKey(kept) \in Nat /\ (FirstKey(kept) # 0 => a <= FirstKey(kept) /\ FirstKey(kept) <= b)
    BY <2>4
  <2> QED BY <2>6, <2>7, <2>8
<1>2. CASE a <= b
  <2>1. c \in Nat /\ a <= c /\ c <= b + 1
    BY <1>2, IntervalKeys DEF Fronts, Seqs
  <2>2. gone = a..(c - 1) /\ kept = c..b
    BY <2>1, <1>2 DEF Removed, Seqs
  <2>3. Cardinality(gone) = c - a /\ Cardinality(DOMAIN r) = b - a + 1
    <3>1. Cardinality(a..(c - 1)) = IF a > c - 1 THEN 0 ELSE (c - 1) - a + 1
      BY <2>1, FS_Interval DEF Seqs
    <3>2. Cardinality(a..b) = b - a + 1
      BY <1>2, FS_Interval DEF Seqs
    <3> QED BY <2>1, <2>2, <3>1, <3>2 DEF Seqs
  <2>4. CASE c <= b
    <3>1. c \in Seqs
      BY <2>1 DEF Seqs
    <3>2. FirstKey(kept) = c
      BY <2>2, <2>4, <3>1, IntervalKeys
    <3> QED BY <2>1, <2>2, <2>3, <2>4, <3>2 DEF Interval, Span, Seqs
  <2>5. CASE c = b + 1
    <3>1. kept = {}
      BY <2>2, <2>5
    <3> QED BY <2>1, <2>3, <2>5, <3>1 DEF FirstKey, Interval, Span, Seqs
  <2>6. c <= b \/ c = b + 1
    BY <2>1
  <2> QED BY <2>4, <2>5, <2>6
<1>3. a > b \/ a <= b
  BY DEF Seqs
<1> QED BY <1>1, <1>2, <1>3

\* A table in the shape TableInv gives it outside the commits is an interval.
LEMMA ShapeIsInterval ==
  ASSUME NEW f \in Nat, NEW h \in Nat
  PROVE  /\ \E a \in Seqs, b \in Nat : Interval(f, h) = a..b
         /\ f <= h => Cardinality(Interval(f, h)) = Span(f, h)
<1>1. CASE f = 0
  <2>1. Interval(f, h) = {} /\ 1..0 = {} /\ Span(f, h) = 0
    BY <1>1 DEF Interval, Span
  <2>2. 1 \in Seqs /\ 0 \in Nat
    BY DEF Seqs
  <2> QED BY <2>1, <2>2, FS_EmptySet
<1>2. CASE f # 0
  <2>1. f \in Seqs /\ Interval(f, h) = f..h
    BY <1>2 DEF Interval, Seqs
  <2>2. f <= h => Cardinality(f..h) = h - f + 1
    BY FS_Interval
  <2> QED BY <2>1, <2>2, <1>2 DEF Span
<1> QED BY <1>1, <1>2

\* Appending k rows after the last one extends the interval.
LEMMA GrowInterval ==
  ASSUME NEW f \in Nat, NEW h \in Nat, NEW k \in Nat, k > 0, f # 0 => f <= h
  PROVE  Interval(f, h) \cup ((h + 1)..(h + k)) = (IF f = 0 THEN h + 1 ELSE f)..(h + k)
<1>1. CASE f = 0
  BY <1>1 DEF Interval
<1>2. CASE f # 0
  BY <1>2 DEF Interval
<1> QED BY <1>1, <1>2

\* ... and its length by k.
LEMMA GrowSpan ==
  ASSUME NEW f \in Nat, NEW b \in Nat, NEW k \in Nat, f <= b
  PROVE  f <= b + k /\ b - f + 1 + k = b + k - f + 1
OBVIOUS

-----------------------------------------------------------------------------
(* The invariant is inductive *)

\* The atomics are natural numbers.
LEMMA AtomicFacts ==
  ASSUME TypeOK
  PROVE  head \in Nat /\ floor \in Nat /\ retained_count \in Nat
BY DEF TypeOK

\* The fields of a call, and the head it will store.
LEMMA JobFacts ==
  ASSUME TypeOK, NEW p \in Procs
  PROVE  /\ job[p].ts \in Nat /\ job[p].base \in Nat /\ job[p].floor \in Nat
         /\ job[p].batch \in Seq(Stamped) /\ Len(job[p].batch) \in Nat
         /\ HeadAfter(job[p]) \in Nat
<1>1. job[p] \in Job
  BY DEF TypeOK
<1>2. /\ job[p].ts \in Nat /\ job[p].base \in Nat /\ job[p].floor \in Nat
      /\ job[p].batch \in Seq(Stamped)
  BY <1>1 DEF Job
<1>3. Len(job[p].batch) \in Nat
  BY <1>2
<1> QED BY <1>2, <1>3 DEF HeadAfter

\* The first seq of the table after an append.
LEMMA LowFacts ==
  ASSUME TypeOK, NEW p \in Procs
  PROVE  Low(floor, job[p]) \in Seqs /\ (floor # 0 => Low(floor, job[p]) = floor)
<1>1. job[p].base \in Nat /\ floor \in Nat
  BY JobFacts, AtomicFacts
<1> QED BY <1>1 DEF Low, Seqs

\* While an append is between its commit and its unlock, head does not exceed
\* what it stores.
LEMMA HeadBelow ==
  ASSUME TypeOK, CallInv, NEW t \in Tasks, pc[t] \in {"committed", "publishing"}
  PROVE  head <= HeadAfter(job[t]) /\ HeadAfter(job[t]) \in Nat /\ head \in Nat
<1>1. /\ t \in Procs
      /\ job[t].base = head \/ HeadAfter(job[t]) = head
  BY DEF CallInv, Procs
<1>2. job[t].base \in Nat /\ Len(job[t].batch) \in Nat /\ head \in Nat
  BY <1>1, JobFacts, AtomicFacts
<1> QED BY <1>1, <1>2 DEF HeadAfter

LEMMA InitInv == Init => Inv
<1> SUFFICES ASSUME Init PROVE Inv
  OBVIOUS
<1> USE LogAssumption DEF Init
<1>1. DOMAIN rows = {} /\ rows \in [DOMAIN rows -> Row]
  OBVIOUS
<1>2. NoJob \in Job
  BY DEF NoJob, Job
<1>3. TypeOK
  BY <1>1, <1>2 DEF TypeOK, PcValues, Procs
<1>4. MutexInv /\ CallInv /\ TableInv
  BY DEF MutexInv, CallInv, TableInv, Holding, Procs
<1>5. DownInv
  <2>1. DOMAIN rows = 1..0
    BY <1>1
  <2> QED BY <2>1 DEF DownInv, Seqs
<1>6. IssuedInv
  BY <1>1 DEF IssuedInv, SeqUnique
<1> QED BY <1>3, <1>4, <1>5, <1>6 DEF Inv

LEMMA AppendCallInv ==
  ASSUME NEW t \in Tasks, NEW n \in 1..MaxBatch, NEW batch \in [1..n -> Events],
         Inv, AppendCall(t, batch)
  PROVE  Inv'
<1> USE LogAssumption DEF Inv
<1>1. n \in Nat /\ n > 0 /\ t \in Procs /\ t # Pruner
  BY DEF Procs
<1> DEFINE b == [i \in DOMAIN batch |-> [id |-> begun + i, ev |-> batch[i]]]
<1>2. b \in Seq(Stamped) /\ Len(b) = n /\ Len(batch) = n
  <2>1. b \in [1..n -> Stamped]
    BY <1>1 DEF TypeOK, Stamped
  <2> QED BY <2>1, <1>1
<1>3. /\ job' = [job EXCEPT ![t] = [NoJob EXCEPT !.ts = now, !.batch = b]]
      /\ pc' = [pc EXCEPT ![t] = "waiting"]
      /\ begun' = begun + Len(batch)
      /\ UNCHANGED <<rows, issued, lostHead, head, floor, retained_count,
                     writer, up, now, crashes>>
      /\ up /\ pc[t] = "idle"
  BY DEF AppendCall, diskVars, atomics
<1>4. job'[t] \in Job /\ job'[t].batch = b
  BY <1>1, <1>2, <1>3 DEF TypeOK, Job, NoJob
<1> HIDE DEF b
<1>5. TypeOK'
  <2>1. job' \in [Procs -> Job]
    BY <1>1, <1>3, <1>4 DEF TypeOK
  <2>2. pc' \in [Procs -> PcValues]
    BY <1>1, <1>3 DEF TypeOK, PcValues
  <2>3. begun' \in Nat
    BY <1>1, <1>2, <1>3 DEF TypeOK
  <2> QED BY <1>3, <2>1, <2>2, <2>3 DEF TypeOK
<1>6. \A p \in Procs \ {t} : job'[p] = job[p] /\ pc'[p] = pc[p]
  BY <1>3 DEF TypeOK
<1>7. pc'[t] = "waiting"
  BY <1>1, <1>3 DEF TypeOK
<1>8. MutexInv'
  BY <1>1, <1>3, <1>6, <1>7 DEF MutexInv, Holding
<1>9. CallInv'
  BY <1>1, <1>2, <1>3, <1>4, <1>6, <1>7 DEF CallInv, HeadAfter, Procs
<1>10. TableInv'
  BY <1>1, <1>3, <1>6, <1>7 DEF TableInv, Low, HeadAfter, Interval, Span, MutexInv, Holding, Procs, TypeOK
<1>11. DownInv' /\ IssuedInv'
  <2>1. DownInv'
    BY <1>3 DEF DownInv
  <2>2. IssuedInv'
    BY <1>1, <1>3, <1>6, <1>7 DEF IssuedInv, SeqUnique, HeadAfter, Procs
  <2> QED BY <2>1, <2>2
<1> QED BY <1>5, <1>8, <1>9, <1>10, <1>11

LEMMA LockInv ==
  ASSUME NEW p \in Procs, Inv, Lock(p)
  PROVE  Inv'
<1> USE LogAssumption DEF Inv
<1>1. /\ job' = [job EXCEPT ![p].base = IF p = Pruner THEN 0 ELSE head]
      /\ pc' = [pc EXCEPT ![p] = "writing"]
      /\ writer' = p /\ writer = Nobody /\ pc[p] = "waiting"
      /\ UNCHANGED <<rows, issued, lostHead, head, floor, retained_count,
                     up, now, begun, crashes>>
  BY DEF Lock, CanLock, diskVars, atomics, envVars
<1>2. /\ job'[p] \in Job
      /\ p # Pruner => job'[p].base = head /\ job'[p].batch = job[p].batch
      /\ pc'[p] = "writing"
  BY <1>1 DEF TypeOK, Job
<1>3. \A q \in Procs \ {p} : job'[q] = job[q] /\ pc'[q] = pc[q]
  BY <1>1 DEF TypeOK
<1>4. TypeOK'
  BY <1>1, <1>2 DEF TypeOK, PcValues
<1>5. \A q \in Procs : pc[q] \notin Holding
  BY <1>1 DEF MutexInv
<1>6. MutexInv'
  BY <1>1, <1>2, <1>3, <1>5 DEF MutexInv, Holding, Procs
<1>7. CallInv'
  BY <1>1, <1>2, <1>3 DEF CallInv, HeadAfter, Procs
<1>8. TableInv'
  BY <1>1, <1>2, <1>3, <1>5 DEF TableInv, Holding, Procs
<1>9. up
  BY <1>1 DEF MutexInv
<1>10. DownInv' /\ IssuedInv'
  BY <1>1, <1>2, <1>3, <1>5, <1>9 DEF DownInv, IssuedInv, SeqUnique, Holding, Procs
<1> QED BY <1>4, <1>6, <1>7, <1>8, <1>10

LEMMA AppendCommitInv ==
  ASSUME NEW t \in Tasks, Inv, AppendCommit(t)
  PROVE  Inv'
<1> USE LogAssumption DEF Inv
<1> DEFINE base == job[t].base
           batch == job[t].batch
           n == Len(batch)
           added == [s \in (base + 1)..(base + n) |->
                       [id |-> batch[s - base].id, ev |-> batch[s - base].ev,
                        ts |-> job[t].ts]]
<1>1. /\ pc[t] = "writing"
      /\ rows' = [s \in DOMAIN rows \cup DOMAIN added |->
                    IF s \in DOMAIN added THEN added[s] ELSE rows[s]]
      /\ issued' = issued \cup {<<s, added[s].id>> : s \in DOMAIN added}
      /\ pc' = [pc EXCEPT ![t] = "committed"]
      /\ UNCHANGED <<lostHead, head, floor, retained_count, writer, job,
                     up, now, begun, crashes>>
  BY DEF AppendCommit, atomics, envVars
<1>2. /\ t \in Procs /\ t # Pruner
      /\ base \in Nat /\ n \in Nat /\ n > 0 /\ base = head
      /\ batch \in Seq(Stamped) /\ job[t].ts \in Nat
  <2>1. t \in Procs /\ t # Pruner
    BY DEF Procs
  <2>2. n > 0 /\ base = head
    BY <1>1 DEF CallInv
  <2> QED BY <2>1, <2>2, JobFacts
<1>3. DOMAIN added = (base + 1)..(base + n)
  OBVIOUS
<1>4. \A s \in DOMAIN added : added[s] \in Row
  <2> SUFFICES ASSUME NEW s \in (base + 1)..(base + n) PROVE added[s] \in Row
    BY <1>3
  <2>1. s - base \in 1..n
    BY <1>2
  <2>2. batch[s - base] \in Stamped
    BY <1>2, <2>1
  <2> QED BY <1>2, <2>2 DEF Stamped, Row
<1> HIDE DEF added
<1>5. writer = t /\ up /\ \A q \in Procs \ {t} : pc[q] \notin Holding
  BY <1>1, <1>2 DEF MutexInv, Holding
<1>6. /\ DOMAIN rows' = DOMAIN rows \cup DOMAIN added
      /\ \A s \in DOMAIN rows' : rows'[s] \in Row
      /\ rows' \in [DOMAIN rows' -> Row]
  BY <1>1, <1>4 DEF TypeOK
<1>7. DOMAIN rows = Interval(floor, head) /\ retained_count = Span(floor, head)
  BY <1>1, <1>5 DEF TableInv
<1>8. DOMAIN rows' = Low(floor, job[t])..HeadAfter(job[t])
  <2>1. head \in Nat /\ floor \in Nat /\ (floor # 0 => floor <= head)
    BY <1>5, AtomicFacts DEF TableInv
  <2>2. Interval(floor, head) \cup ((head + 1)..(head + n))
          = (IF floor = 0 THEN head + 1 ELSE floor)..(head + n)
    <3>1. n \in Nat /\ n > 0
      BY <1>2
    <3> HIDE DEF n
    <3> QED BY <2>1, <3>1, GrowInterval
  <2>3. Low(floor, job[t]) = (IF floor = 0 THEN head + 1 ELSE floor)
        /\ HeadAfter(job[t]) = head + n
    BY <1>2 DEF Low, HeadAfter
  <2> QED BY <1>2, <1>3, <1>6, <1>7, <2>2, <2>3
<1>9. pc'[t] = "committed" /\ \A q \in Procs \ {t} : pc'[q] = pc[q]
  BY <1>1, <1>2 DEF TypeOK
<1>10. TypeOK'
  <2>1. DOMAIN rows' \subseteq Seqs
    <3>1. DOMAIN added \subseteq Seqs
      BY <1>2, <1>3 DEF Seqs
    <3>2. DOMAIN rows \subseteq Seqs
      BY DEF TypeOK
    <3> QED BY <1>6, <3>1, <3>2
  <2>2. issued' \subseteq Seqs \X Nat
    <3>1. \A s \in DOMAIN added : s \in Seqs
      BY <1>2, <1>3 DEF Seqs
    <3>2. \A s \in DOMAIN added : added[s].id \in Nat
      BY <1>4 DEF Row
    <3>3. issued \subseteq Seqs \X Nat
      BY DEF TypeOK
    <3> QED BY <1>1, <3>1, <3>2, <3>3
  <2> QED BY <1>1, <1>2, <1>6, <1>9, <2>1, <2>2 DEF TypeOK, PcValues
<1>11. MutexInv'
  BY <1>1, <1>2, <1>5, <1>9 DEF MutexInv, Holding
<1>12. CallInv'
  BY <1>1, <1>2, <1>9 DEF CallInv, HeadAfter, Procs
<1>13. TableInv'
  BY <1>1, <1>2, <1>5, <1>7, <1>8, <1>9 DEF TableInv, Holding, Procs, Low, HeadAfter
<1>14. DownInv'
  BY <1>1, <1>5 DEF DownInv
<1>15. IssuedInv'
  <2> SUFFICES ASSUME ~lostHead
               PROVE  /\ SeqUnique'
                      /\ \A x \in issued' : x[1] <= HeadAfter(job[t])
    BY <1>1, <1>2, <1>5, <1>9 DEF IssuedInv, HeadAfter
  <2>1. SeqUnique /\ \A x \in issued : x[1] <= head
    BY <1>5, <1>2, <1>1 DEF IssuedInv, Holding, Procs
  <2>2. \A x \in issued : x[1] \in Nat
    BY DEF TypeOK, Seqs
  <2>3. \A x \in issued' :
           \/ x \in issued
           \/ x = <<x[1], added[x[1]].id>> /\ x[1] \in (base + 1)..(base + n)
    BY <1>1, <1>3
  <2>4. SeqUnique'
    <3> SUFFICES ASSUME NEW x \in issued', NEW y \in issued', x[1] = y[1]
                 PROVE  x = y
      BY DEF SeqUnique
    <3>1. x \in issued <=> y \in issued
      BY <1>2, <2>1, <2>2, <2>3
    <3>2. CASE x \in issued
      BY <2>1, <3>1, <3>2 DEF SeqUnique
    <3>3. CASE x \notin issued
      BY <2>3, <3>1, <3>3
    <3> QED BY <3>2, <3>3
  <2>5. \A x \in issued' : x[1] <= HeadAfter(job[t])
    <3> SUFFICES ASSUME NEW x \in issued' PROVE x[1] <= HeadAfter(job[t])
      OBVIOUS
    <3>1. HeadAfter(job[t]) = head + n /\ head \in Nat
      BY <1>2 DEF HeadAfter
    <3>2. CASE x \in issued
      <4>1. x[1] \in Nat /\ x[1] <= head
        BY <2>1, <2>2, <3>2
      <4> QED BY <1>2, <3>1, <4>1
    <3>3. CASE x[1] \in (base + 1)..(base + n)
      BY <1>2, <3>1, <3>3
    <3> QED BY <2>3, <3>2, <3>3
  <2> QED BY <2>4, <2>5
<1> QED BY <1>10, <1>11, <1>12, <1>13, <1>14, <1>15

LEMMA AppendFailInv ==
  ASSUME NEW t \in Tasks, Inv, AppendFail(t)
  PROVE  Inv'
<1> USE LogAssumption DEF Inv
<1>1. /\ pc[t] = "writing" /\ writer' = Nobody
      /\ pc' = [pc EXCEPT ![t] = "err"]
      /\ UNCHANGED <<rows, issued, lostHead, head, floor, retained_count,
                     job, up, now, begun, crashes>>
  BY DEF AppendFail, diskVars, atomics, envVars
<1>2. t \in Procs /\ t # Pruner
  BY DEF Procs
<1>3. pc'[t] = "err" /\ \A q \in Procs \ {t} : pc'[q] = pc[q]
  BY <1>1, <1>2 DEF TypeOK
<1>4. writer = t /\ up /\ \A q \in Procs \ {t} : pc[q] \notin Holding
  BY <1>1, <1>2 DEF MutexInv, Holding
<1>5. TypeOK'
  BY <1>1, <1>2 DEF TypeOK, PcValues
<1>6. MutexInv' /\ CallInv'
  BY <1>1, <1>2, <1>3, <1>4 DEF MutexInv, CallInv, Holding, Procs
<1>7. TableInv'
  BY <1>1, <1>2, <1>3, <1>4 DEF TableInv, Holding, Procs
<1>8. DownInv' /\ IssuedInv'
  BY <1>1, <1>2, <1>3, <1>4 DEF DownInv, IssuedInv, SeqUnique, Holding, Procs
<1> QED BY <1>5, <1>6, <1>7, <1>8

LEMMA StoreHeadInv ==
  ASSUME NEW t \in Tasks, Inv, StoreHead(t)
  PROVE  Inv'
<1> USE LogAssumption DEF Inv
<1>1. /\ pc[t] = "committed" /\ head' = HeadAfter(job[t])
      /\ pc' = [pc EXCEPT ![t] = "publishing"]
      /\ UNCHANGED <<rows, issued, lostHead, floor, retained_count, writer,
                     job, up, now, begun, crashes>>
  BY DEF StoreHead, diskVars, envVars
<1>2. /\ t \in Procs /\ t # Pruner
      /\ job[t].base \in Nat /\ Len(job[t].batch) \in Nat
      /\ Len(job[t].batch) > 0 /\ job[t].base = head
  <2>1. t \in Procs /\ t # Pruner
    BY DEF Procs
  <2>2. Len(job[t].batch) > 0 /\ job[t].base = head
    BY <1>1 DEF CallInv
  <2> QED BY <2>1, <2>2, JobFacts
<1>3. pc'[t] = "publishing" /\ \A q \in Procs \ {t} : pc'[q] = pc[q]
  BY <1>1, <1>2 DEF TypeOK
<1>4. writer = t /\ up /\ \A q \in Procs \ {t} : pc[q] \notin Holding
  BY <1>1, <1>2 DEF MutexInv, Holding
<1>5. head' \in Nat /\ head <= head'
  BY <1>1, <1>2 DEF HeadAfter
<1>6. TypeOK'
  BY <1>1, <1>2, <1>5 DEF TypeOK, PcValues
<1>7. MutexInv'
  BY <1>1, <1>2, <1>3, <1>4 DEF MutexInv, Holding
<1>8. CallInv'
  <2> SUFFICES ASSUME NEW u \in Tasks
               PROVE  /\ pc'[u] # "idle" => Len(job[u].batch) > 0
                      /\ pc'[u] \in {"writing", "committed"} => job[u].base = head'
                      /\ pc'[u] = "publishing" => HeadAfter(job[u]) = head'
                      /\ pc'[u] = "ok" => HeadAfter(job[u]) <= head'
    BY <1>1 DEF CallInv, HeadAfter
  <2>1. CASE u = t
    BY <1>1, <1>2, <1>3, <2>1
  <2>2. CASE u # t
    <3>1. u \in Procs /\ pc'[u] = pc[u] /\ pc[u] \notin Holding
      BY <1>3, <1>4, <2>2 DEF Procs
    <3>2. head \in Nat /\ HeadAfter(job[u]) \in Nat
      BY <3>1, JobFacts, AtomicFacts
    <3>3. (pc[u] # "idle" => Len(job[u].batch) > 0) /\ (pc[u] = "ok" => HeadAfter(job[u]) <= head)
      BY DEF CallInv
    <3>4. pc[u] = "ok" => HeadAfter(job[u]) <= head'
      BY <1>5, <3>2, <3>3
    <3> QED BY <3>1, <3>3, <3>4 DEF Holding
  <2> QED BY <2>1, <2>2
<1>9. TableInv'
  <2>1. /\ DOMAIN rows = Low(floor, job[t])..HeadAfter(job[t])
        /\ retained_count = Span(floor, job[t].base)
        /\ floor # 0 => floor <= head
    BY <1>1, <1>4 DEF TableInv
  <2>2. floor \in Nat /\ head \in Nat
    BY AtomicFacts
  <2>3. (floor # 0 => floor <= head') /\ floor <= job[t].base
    BY <1>2, <1>5, <2>1, <2>2
  <2>4. \A u \in Tasks : u # t => pc'[u] \notin Holding
    BY <1>3, <1>4 DEF Procs
  <2>5. pc'[Pruner] \notin Holding
    BY <1>2, <1>3, <1>4 DEF Procs
  <2>6. writer' = t /\ t # Nobody
    BY <1>1, <1>2, <1>4
  <2> QED BY <1>1, <1>3, <2>1, <2>3, <2>4, <2>5, <2>6 DEF TableInv, Low, Holding
<1>10. DownInv' /\ IssuedInv'
  <2> SUFFICES ASSUME ~lostHead, NEW x \in issued PROVE x[1] <= head'
    BY <1>1, <1>4 DEF DownInv, IssuedInv, SeqUnique
  <2>1. x[1] \in Nat /\ head \in Nat
    BY AtomicFacts DEF TypeOK, Seqs
  <2>2. x[1] <= head \/ \E u \in Tasks : pc[u] = "committed" /\ x[1] <= HeadAfter(job[u])
    BY <1>4 DEF IssuedInv
  <2>3. \A u \in Tasks : pc[u] = "committed" => u = t
    BY <1>4 DEF Holding, Procs
  <2>4. CASE x[1] <= head
    BY <1>5, <2>1, <2>4
  <2>5. CASE x[1] <= HeadAfter(job[t])
    BY <1>1, <2>5
  <2> QED BY <2>2, <2>3, <2>4, <2>5
<1> QED BY <1>6, <1>7, <1>8, <1>9, <1>10

LEMMA StoreFloorInv ==
  ASSUME NEW t \in Tasks, Inv, StoreFloor(t)
  PROVE  Inv'
<1> USE LogAssumption DEF Inv
<1>1. /\ pc[t] = "publishing" /\ floor' = FloorAfter(floor, job[t])
      /\ retained_count' = retained_count + Len(job[t].batch)
      /\ writer' = Nobody /\ pc' = [pc EXCEPT ![t] = "ok"]
      /\ UNCHANGED <<rows, issued, lostHead, head, job, up, now, begun, crashes>>
  BY DEF StoreFloor, diskVars, envVars
<1>2. /\ t \in Procs /\ t # Pruner
      /\ job[t].base \in Nat /\ Len(job[t].batch) \in Nat
      /\ Len(job[t].batch) > 0 /\ HeadAfter(job[t]) = head
  <2>1. t \in Procs /\ t # Pruner
    BY DEF Procs
  <2>2. Len(job[t].batch) > 0 /\ HeadAfter(job[t]) = head
    BY <1>1 DEF CallInv
  <2> QED BY <2>1, <2>2, JobFacts
<1>3. pc'[t] = "ok" /\ \A q \in Procs \ {t} : pc'[q] = pc[q]
  BY <1>1, <1>2 DEF TypeOK
<1>4. writer = t /\ up /\ \A q \in Procs \ {t} : pc[q] \notin Holding
  BY <1>1, <1>2 DEF MutexInv, Holding
<1>5. TypeOK'
  <2>1. floor' \in Nat /\ retained_count' \in Nat
    <3>1. floor \in Nat /\ retained_count \in Nat
      BY AtomicFacts
    <3>2. retained_count + Len(job[t].batch) \in Nat /\ job[t].base + 1 \in Nat
      BY <1>2, <3>1
    <3> QED BY <1>1, <3>1, <3>2 DEF FloorAfter
  <2>2. pc' \in [Procs -> PcValues]
    BY <1>1 DEF TypeOK, PcValues
  <2> QED BY <1>1, <2>1, <2>2 DEF TypeOK
<1>6. MutexInv'
  BY <1>1, <1>2, <1>3, <1>4 DEF MutexInv, Holding, Procs
<1>7. CallInv'
  BY <1>1, <1>2, <1>3, <1>4 DEF CallInv, Holding, Procs, TypeOK
<1>8. TableInv'
  <2>1. /\ DOMAIN rows = Low(floor, job[t])..head
        /\ retained_count = Span(floor, job[t].base)
        /\ floor <= job[t].base
    BY <1>1, <1>4 DEF TableInv
  <2>2. /\ floor' # 0 /\ floor' <= head /\ floor' = Low(floor, job[t])
        /\ retained_count' = head - floor' + 1
    <3>1. /\ floor \in Nat /\ head \in Nat /\ head = job[t].base + Len(job[t].batch)
          /\ job[t].base \in Nat /\ Len(job[t].batch) \in Nat /\ Len(job[t].batch) > 0
      BY <1>2, AtomicFacts DEF HeadAfter
    <3>2. /\ floor' = IF floor = 0 THEN job[t].base + 1 ELSE floor
          /\ retained_count' = retained_count + Len(job[t].batch)
      BY <1>1 DEF FloorAfter
    <3>3. retained_count = IF floor = 0 THEN 0 ELSE job[t].base - floor + 1
      BY <2>1 DEF Span
    <3>4. floor <= job[t].base
      BY <2>1
    <3>5. floor' # 0 /\ floor' <= head /\ retained_count' = head - floor' + 1
      <4>1. CASE floor = 0
        <5>1. floor' = job[t].base + 1 /\ retained_count' = Len(job[t].batch)
          BY <3>1, <3>2, <3>3, <4>1
        <5>2. floor' # 0 /\ floor' <= head
          BY <3>1, <5>1
        <5>3. head - (job[t].base + 1) + 1 = Len(job[t].batch)
          BY <3>1
        <5> QED BY <5>1, <5>2, <5>3
      <4>2. CASE floor # 0
        <5>1. floor' = floor /\ retained_count' = job[t].base - floor + 1 + Len(job[t].batch)
          BY <3>2, <3>3, <4>2
        <5>2. /\ floor <= job[t].base + Len(job[t].batch)
              /\ job[t].base - floor + 1 + Len(job[t].batch)
                   = job[t].base + Len(job[t].batch) - floor + 1
          BY ONLY <3>1, <3>4, GrowSpan
        <5> QED BY <3>1, <4>2, <5>1, <5>2
      <4> QED BY <4>1, <4>2
    <3>6. floor' = Low(floor, job[t])
      BY <3>2 DEF Low
    <3> QED BY <3>5, <3>6
  <2> QED BY <1>1, <1>2, <1>3, <1>4, <2>1, <2>2 DEF TableInv, Interval, Span, Holding, Procs
<1>9. DownInv' /\ IssuedInv'
  BY <1>1, <1>2, <1>3, <1>4 DEF DownInv, IssuedInv, SeqUnique, Holding, Procs
<1> QED BY <1>5, <1>6, <1>7, <1>8, <1>9

LEMMA AppendReturnInv ==
  ASSUME NEW t \in Tasks, Inv, AppendReturn(t)
  PROVE  Inv'
<1> USE LogAssumption DEF Inv
<1>1. /\ pc[t] \in {"ok", "err"}
      /\ pc' = [pc EXCEPT ![t] = "idle"] /\ job' = [job EXCEPT ![t] = NoJob]
      /\ UNCHANGED <<rows, issued, lostHead, head, floor, retained_count,
                     writer, up, now, begun, crashes>>
  BY DEF AppendReturn, diskVars, atomics, envVars
<1>2. t \in Procs /\ t # Pruner /\ NoJob \in Job
  BY DEF Procs, NoJob, Job
<1>3. pc'[t] = "idle" /\ \A q \in Procs \ {t} : pc'[q] = pc[q] /\ job'[q] = job[q]
  BY <1>1, <1>2 DEF TypeOK
<1>4. up /\ pc[t] \notin Holding
  BY <1>1, <1>2 DEF MutexInv, Holding
<1>5. TypeOK'
  BY <1>1, <1>2 DEF TypeOK, PcValues
<1>6. MutexInv' /\ CallInv'
  BY <1>1, <1>2, <1>3, <1>4 DEF MutexInv, CallInv, Holding, Procs
<1>7. TableInv'
  BY <1>1, <1>2, <1>3, <1>4 DEF TableInv, MutexInv, Holding, Procs, TypeOK
<1>8. DownInv' /\ IssuedInv'
  BY <1>1, <1>2, <1>3, <1>4 DEF DownInv, IssuedInv, SeqUnique, Holding, Procs
<1> QED BY <1>5, <1>6, <1>7, <1>8

\* A prune call or a failed prune: only the pruner's own call state and the
\* mutex change.
LEMMA PruneCallInv ==
  ASSUME Inv, PruneCall \/ PruneFail
  PROVE  Inv'
<1> USE LogAssumption DEF Inv
<1>1. /\ pc' \in {[pc EXCEPT ![Pruner] = "waiting"], [pc EXCEPT ![Pruner] = "idle"]}
      /\ job' \in {[job EXCEPT ![Pruner] = [NoJob EXCEPT !.ts = now]],
                   [job EXCEPT ![Pruner] = NoJob]}
      /\ \/ pc[Pruner] = "idle" /\ up /\ writer' = writer
         \/ pc[Pruner] = "writing" /\ writer' = Nobody
      /\ UNCHANGED <<rows, issued, lostHead, head, floor, retained_count,
                     up, now, begun, crashes>>
  BY DEF PruneCall, PruneFail, diskVars, atomics, envVars
<1>2. Pruner \in Procs /\ NoJob \in Job /\ [NoJob EXCEPT !.ts = now] \in Job
  <2>1. now \in Nat
    BY DEF TypeOK
  <2>2. << >> \in Seq(Stamped)
    OBVIOUS
  <2> QED BY <2>1, <2>2 DEF Procs, NoJob, Job
<1>3. /\ pc'[Pruner] \in {"waiting", "idle"}
      /\ \A q \in Procs \ {Pruner} : pc'[q] = pc[q] /\ job'[q] = job[q]
  BY <1>1, <1>2 DEF TypeOK
<1>4. up /\ (pc[Pruner] = "writing" <=> writer = Pruner)
  BY <1>1, <1>2 DEF MutexInv, Holding
<1>5. TypeOK'
  BY <1>1, <1>2 DEF TypeOK, PcValues
<1>6. MutexInv' /\ CallInv'
  <2>1. MutexInv'
    BY <1>1, <1>2, <1>3, <1>4 DEF MutexInv, Holding, Procs
  <2>2. CallInv'
    BY <1>1, <1>2, <1>3 DEF CallInv, Procs
  <2> QED BY <2>1, <2>2
<1>7. TableInv'
  BY <1>1, <1>2, <1>3, <1>4 DEF TableInv, MutexInv, Holding, Procs, TypeOK
<1>8. DownInv' /\ IssuedInv'
  BY <1>1, <1>3, <1>4 DEF DownInv, IssuedInv, SeqUnique, Procs
<1> QED BY <1>5, <1>6, <1>7, <1>8

LEMMA PruneCommitInv ==
  ASSUME Inv, PruneCommit
  PROVE  Inv'
<1> USE LogAssumption DEF Inv
<1>1. PICK c \in Fronts(rows) :
        LET gone == Removed(rows, c) IN
        /\ rows' = Only(rows, DOMAIN rows \ gone)
        /\ job' = [job EXCEPT ![Pruner].floor = FirstKey(DOMAIN rows \ gone)]
        /\ retained_count' = retained_count - Cardinality(gone)
  BY DEF PruneCommit, CountAfter
<1> DEFINE gone == Removed(rows, c)
           f == FirstKey(DOMAIN rows \ gone)
<1>2. /\ pc[Pruner] = "writing" /\ pc' = [pc EXCEPT ![Pruner] = "committed"]
      /\ UNCHANGED <<issued, lostHead, head, floor, writer, up, now, begun, crashes>>
  BY DEF PruneCommit, envVars
<1>3. Pruner \in Procs /\ up /\ writer = Pruner
      /\ \A q \in Procs \ {Pruner} : pc[q] \notin Holding
  BY <1>2 DEF MutexInv, Holding, Procs
<1>4. /\ DOMAIN rows = Interval(floor, head) /\ retained_count = Span(floor, head)
      /\ floor # 0 => floor <= head
  BY <1>2, <1>3 DEF TableInv
<1>5. /\ DOMAIN rows \ gone = Interval(f, head) /\ f \in Nat
      /\ f # 0 => floor # 0 /\ floor <= f /\ f <= head
      /\ Cardinality(DOMAIN rows) - Cardinality(gone) = Span(f, head)
  <2>1. CASE floor = 0
    <3>1. DOMAIN rows = 1..0 /\ 1 \in Seqs /\ 0 \in Nat /\ gone = {}
      BY <1>4, <2>1 DEF Interval, Seqs, Removed
    <3>2. f = 0
      BY <3>1 DEF FirstKey
    <3> QED BY <3>1, <3>2, FS_EmptySet DEF Interval, Span
  <2>2. CASE floor # 0
    <3>1. DOMAIN rows = floor..head /\ floor \in Seqs /\ head \in Nat
      BY <1>4, <2>2 DEF Interval, Seqs, TypeOK
    <3>2. LET g == Removed(rows, c)
              e == FirstKey(DOMAIN rows \ g)
          IN /\ DOMAIN rows \ g = Interval(e, head)
             /\ e \in Nat
             /\ e # 0 => floor <= e /\ e <= head
             /\ Cardinality(DOMAIN rows) - Cardinality(g) = Span(e, head)
      BY ONLY <3>1, CutInterval DEF CutLeaves
    <3> QED BY <2>2, <3>2
  <2> QED BY <2>1, <2>2
<1>6. retained_count = Cardinality(DOMAIN rows)
  BY <1>4, ShapeIsInterval DEF TypeOK
<1>7. /\ rows' = Only(rows, DOMAIN rows \ gone)
      /\ job' = [job EXCEPT ![Pruner].floor = f]
      /\ retained_count' = retained_count - Cardinality(gone)
  BY <1>1
<1> HIDE DEF gone, f
<1>8. DOMAIN rows' = Interval(f, head) /\ retained_count' = Span(f, head)
  BY <1>5, <1>6, <1>7 DEF Only
<1>9. /\ job' \in [Procs -> Job] /\ job'[Pruner].floor = f
      /\ pc'[Pruner] = "committed"
      /\ \A q \in Procs \ {Pruner} : pc'[q] = pc[q] /\ job'[q] = job[q]
  BY <1>2, <1>3, <1>5, <1>7 DEF TypeOK, Job
<1>10. TypeOK'
  <2>1. DOMAIN rows' \subseteq Seqs /\ rows' \in [DOMAIN rows' -> Row]
    BY <1>7 DEF Only, TypeOK
  <2>2. retained_count' \in Nat
    BY <1>5, <1>8 DEF Span, TypeOK
  <2>3. pc' \in [Procs -> PcValues]
    BY <1>2, <1>3 DEF TypeOK, PcValues
  <2> QED BY <1>2, <1>9, <2>1, <2>2, <2>3 DEF TypeOK
<1>11. MutexInv' /\ CallInv'
  <2>1. MutexInv'
    BY <1>2, <1>3, <1>9 DEF MutexInv, Holding
  <2>2. CallInv'
    BY <1>2, <1>9 DEF CallInv, Procs
  <2> QED BY <2>1, <2>2
<1>12. TableInv'
  BY <1>2, <1>3, <1>4, <1>5, <1>8, <1>9 DEF TableInv, Holding, Procs
<1>13. DownInv' /\ IssuedInv'
  BY <1>2, <1>3, <1>9 DEF DownInv, IssuedInv, SeqUnique, Procs
<1> QED BY <1>10, <1>11, <1>12, <1>13

LEMMA PruneStoreInv ==
  ASSUME Inv, PruneStore
  PROVE  Inv'
<1> USE LogAssumption DEF Inv
<1>1. /\ pc[Pruner] = "committed" /\ floor' = job[Pruner].floor
      /\ writer' = Nobody /\ pc' = [pc EXCEPT ![Pruner] = "idle"]
      /\ job' = [job EXCEPT ![Pruner] = NoJob]
      /\ UNCHANGED <<rows, issued, lostHead, head, retained_count,
                     up, now, begun, crashes>>
  BY DEF PruneStore, diskVars, envVars
<1>2. Pruner \in Procs /\ NoJob \in Job /\ job[Pruner].floor \in Nat
  BY DEF Procs, NoJob, Job, TypeOK
<1>3. /\ pc'[Pruner] = "idle"
      /\ \A q \in Procs \ {Pruner} : pc'[q] = pc[q] /\ job'[q] = job[q]
  BY <1>1, <1>2 DEF TypeOK
<1>4. writer = Pruner /\ up /\ \A q \in Procs \ {Pruner} : pc[q] \notin Holding
  BY <1>1, <1>2 DEF MutexInv, Holding
<1>5. TypeOK'
  BY <1>1, <1>2 DEF TypeOK, PcValues
<1>6. MutexInv' /\ CallInv'
  <2>1. MutexInv'
    BY <1>1, <1>2, <1>3, <1>4 DEF MutexInv, Holding, Procs
  <2>2. CallInv'
    BY <1>1, <1>2, <1>3 DEF CallInv, Procs
  <2> QED BY <2>1, <2>2
<1>7. TableInv'
  BY <1>1, <1>2, <1>3, <1>4 DEF TableInv, Holding, Procs, TypeOK
<1>8. DownInv' /\ IssuedInv'
  BY <1>1, <1>3, <1>4 DEF DownInv, IssuedInv, SeqUnique, Procs
<1> QED BY <1>5, <1>6, <1>7, <1>8

LEMMA CrashInv ==
  ASSUME Inv, Crash
  PROVE  Inv'
<1> USE LogAssumption DEF Inv
<1>1. /\ up /\ up' = FALSE /\ crashes' = crashes + 1
      /\ head' = 0 /\ floor' = 0 /\ retained_count' = 0 /\ writer' = Nobody
      /\ pc' = [p \in Procs |-> "idle"] /\ job' = [p \in Procs |-> NoJob]
      /\ UNCHANGED <<rows, issued, lostHead, now, begun>>
  BY DEF Crash, diskVars
<1>2. NoJob \in Job
  BY DEF NoJob, Job
<1>3. TypeOK'
  <2>1. pc' \in [Procs -> PcValues] /\ job' \in [Procs -> Job]
    BY <1>1, <1>2 DEF PcValues
  <2>2. crashes' \in Nat
    BY <1>1 DEF TypeOK
  <2> QED BY <1>1, <2>1, <2>2 DEF TypeOK
<1>4. MutexInv' /\ CallInv' /\ TableInv'
  BY <1>1 DEF MutexInv, CallInv, TableInv, Holding, Procs
<1>5. \E a \in Seqs, b \in Nat :
        /\ DOMAIN rows = a..b
        /\ a <= b => \/ b = head
                    \/ \E t \in Tasks : pc[t] = "committed" /\ b = HeadAfter(job[t])
  <2>1. CASE writer = Nobody \/ pc[writer] = "writing"
    <3>1. DOMAIN rows = Interval(floor, head)
      BY <1>1, <2>1 DEF TableInv
    <3>2. CASE floor = 0
      <4>1. DOMAIN rows = 1..0 /\ 1 \in Seqs /\ 0 \in Nat /\ ~(1 <= 0)
        BY <3>1, <3>2 DEF Interval, Seqs
      <4> QED BY <4>1
    <3>3. CASE floor # 0
      BY <3>1, <3>3 DEF Interval, Seqs, TypeOK
    <3> QED BY <3>2, <3>3
  <2>2. CASE writer = Pruner /\ pc[Pruner] = "committed"
    <3>1. DOMAIN rows = Interval(job[Pruner].floor, head) /\ job[Pruner].floor \in Nat
      BY <1>1, <2>2 DEF TableInv, TypeOK, Job, Procs
    <3>2. CASE job[Pruner].floor = 0
      <4>1. DOMAIN rows = 1..0 /\ 1 \in Seqs /\ 0 \in Nat /\ ~(1 <= 0)
        BY <3>1, <3>2 DEF Interval, Seqs
      <4> QED BY <4>1
    <3>3. CASE job[Pruner].floor # 0
      BY <3>1, <3>3 DEF Interval, Seqs, TypeOK
    <3> QED BY <3>2, <3>3
  <2>3. CASE writer \in Tasks /\ pc[writer] = "committed"
    <3>1. /\ DOMAIN rows = Low(floor, job[writer])..HeadAfter(job[writer])
          /\ job[writer].base \in Nat /\ HeadAfter(job[writer]) \in Nat
      BY <1>1, <2>3, JobFacts DEF TableInv, Procs
    <3>2. Low(floor, job[writer]) \in Seqs
      BY <2>3, LowFacts DEF Procs
    <3> QED BY <2>3, <3>1, <3>2
  <2>4. CASE writer \in Tasks /\ pc[writer] = "publishing"
    <3>1. DOMAIN rows = Low(floor, job[writer])..head /\ job[writer].base \in Nat
      BY <1>1, <2>4 DEF TableInv, TypeOK, Job, Procs
    <3>2. Low(floor, job[writer]) \in Seqs /\ head \in Nat
      BY <2>4, LowFacts, AtomicFacts DEF Procs
    <3> QED BY <3>1, <3>2
  <2> QED BY <2>1, <2>2, <2>3, <2>4 DEF MutexInv, Holding, TypeOK, Procs
<1>6. PICK a \in Seqs, b \in Nat :
        /\ DOMAIN rows = a..b
        /\ a <= b => \/ b = head
                    \/ \E t \in Tasks : pc[t] = "committed" /\ b = HeadAfter(job[t])
  BY <1>5
<1>7. DownInv'
  BY <1>1, <1>6 DEF DownInv
<1>8. IssuedInv'
  <2> SUFFICES ASSUME ~lostHead, DOMAIN rows # {}, NEW x \in issued
               PROVE  \E s \in DOMAIN rows : x[1] <= s
    BY <1>1 DEF IssuedInv, SeqUnique
  <2>1. a <= b /\ b \in DOMAIN rows
    BY <1>6 DEF Seqs
  <2>2. x[1] \in Nat /\ (x[1] <= head \/ \E t \in Tasks : pc[t] = "committed" /\ x[1] <= HeadAfter(job[t]))
    BY <1>1 DEF IssuedInv, TypeOK, Seqs
  <2>3. \A t \in Tasks : pc[t] = "committed" => head <= HeadAfter(job[t]) /\ HeadAfter(job[t]) \in Nat
    <3> SUFFICES ASSUME NEW t \in Tasks, pc[t] = "committed"
                 PROVE  head <= HeadAfter(job[t]) /\ HeadAfter(job[t]) \in Nat
      OBVIOUS
    <3>1. t \in Procs /\ job[t].base = head
      BY DEF Procs, CallInv
    <3> QED BY <3>1, JobFacts DEF HeadAfter
  <2>4. \A t, u \in Tasks : pc[t] = "committed" /\ pc[u] = "committed" => t = u
    BY DEF MutexInv, Holding, Procs
  <2>5. CASE \E t \in Tasks : pc[t] = "committed" /\ b = HeadAfter(job[t])
    BY <2>1, <2>2, <2>3, <2>4, <2>5 DEF TypeOK
  <2>6. CASE b = head /\ ~\E t \in Tasks : pc[t] = "committed"
    BY <2>1, <2>2, <2>6
  <2>7. ASSUME b = head, NEW t \in Tasks, pc[t] = "committed" PROVE b = HeadAfter(job[t])
    <3>1. DOMAIN rows = Low(floor, job[t])..HeadAfter(job[t])
      BY <1>1, <2>7 DEF TableInv
    <3>2. HeadAfter(job[t]) > head /\ HeadAfter(job[t]) \in Nat /\ head \in Nat
      <4>1. t \in Procs /\ job[t].base = head /\ Len(job[t].batch) > 0
        BY <2>7 DEF CallInv, Procs
      <4>2. job[t].base \in Nat /\ Len(job[t].batch) \in Nat
        BY <4>1, JobFacts
      <4>3. HeadAfter(job[t]) = head + Len(job[t].batch)
        BY <4>1 DEF HeadAfter
      <4> QED BY <4>1, <4>2, <4>3
    <3>3. Low(floor, job[t]) \in Nat /\ Low(floor, job[t]) <= HeadAfter(job[t])
      <4>1. t \in Procs /\ job[t].base = head
        BY <2>7 DEF CallInv, Procs
      <4>2. floor \in Nat /\ (floor # 0 => floor <= head)
        BY <1>1, AtomicFacts DEF TableInv
      <4>3. Low(floor, job[t]) = IF floor = 0 THEN head + 1 ELSE floor
        BY <4>1 DEF Low
      <4> QED BY <3>2, <4>2, <4>3
    <3>4. HeadAfter(job[t]) \in a..b
      <4>1. HeadAfter(job[t]) \in Low(floor, job[t])..HeadAfter(job[t])
        BY <3>2, <3>3
      <4> QED BY <1>6, <3>1, <4>1
    <3> QED BY <2>7, <3>2, <3>4 DEF Seqs
  <2> QED BY <1>6, <2>1, <2>5, <2>6, <2>7
<1> QED BY <1>3, <1>4, <1>7, <1>8

LEMMA OpenInv ==
  ASSUME Inv, Open
  PROVE  Inv'
<1> USE LogAssumption DEF Inv
<1>1. PICK a \in Seqs, b \in Nat : DOMAIN rows = a..b
  BY DEF DownInv, Open
<1>2. PICK c \in Fronts(rows) :
        LET gone == Removed(rows, c) IN
        /\ rows' = Only(rows, DOMAIN rows \ gone)
        /\ floor' = FirstKey(DOMAIN rows \ gone)
        /\ retained_count' = Cardinality(DOMAIN rows) - Cardinality(gone)
  BY DEF Open, CountAfter
<1> DEFINE gone == Removed(rows, c)
           f == FirstKey(DOMAIN rows \ gone)
<1>3. /\ ~up /\ up' = TRUE /\ head' = LastKey(DOMAIN rows)
      /\ lostHead' = (lostHead \/ (DOMAIN rows = {} /\ issued # {}))
      /\ UNCHANGED <<issued, writer, pc, job, now, begun, crashes>>
  BY DEF Open, RecoveredHead, callVars
<1>4. /\ DOMAIN rows \ gone = Interval(f, b) /\ f \in Nat
      /\ f # 0 => a <= f /\ f <= b
      /\ Cardinality(DOMAIN rows) - Cardinality(gone) = Span(f, b)
  <2>1. LET g == Removed(rows, c)
            e == FirstKey(DOMAIN rows \ g)
        IN /\ DOMAIN rows \ g = Interval(e, b)
           /\ e \in Nat
           /\ e # 0 => a <= e /\ e <= b
           /\ Cardinality(DOMAIN rows) - Cardinality(g) = Span(e, b)
    <3>1. CutLeaves(rows, a, b, c)
      BY ONLY <1>1, CutInterval
    <3> QED
      BY ONLY <3>1, Zenon DEF CutLeaves
  <2> QED BY ONLY <2>1, Zenon
<1>5. rows' = Only(rows, DOMAIN rows \ gone) /\ floor' = f
      /\ retained_count' = Cardinality(DOMAIN rows) - Cardinality(gone)
  BY <1>2
<1> HIDE DEF gone, f
<1>6. head' \in Nat /\ (a <= b => head' = b) /\ (a > b => DOMAIN rows = {} /\ f = 0)
  BY <1>1, <1>3, <1>4, IntervalKeys DEF Seqs
<1>7. /\ DOMAIN rows' = Interval(floor', head') /\ retained_count' = Span(floor', head')
      /\ floor' # 0 => floor' <= head'
  BY <1>4, <1>5, <1>6 DEF Only, Interval, Span, Seqs
<1>8. \A p \in Procs : pc'[p] = "idle"
  BY <1>3 DEF MutexInv
<1>9. TypeOK'
  <2>1. DOMAIN rows' \subseteq Seqs /\ rows' \in [DOMAIN rows' -> Row]
    BY <1>5 DEF Only, TypeOK
  <2>2. retained_count' \in Nat
    BY <1>4, <1>5, <1>6, <1>7 DEF Span
  <2> QED BY <1>3, <1>4, <1>5, <1>6, <2>1, <2>2 DEF TypeOK
<1>10. MutexInv' /\ CallInv' /\ DownInv'
  BY <1>3, <1>8 DEF MutexInv, CallInv, DownInv, Holding, Procs
<1>11. TableInv'
  BY <1>3, <1>7, <1>8 DEF TableInv, Procs
<1>12. IssuedInv'
  <2> SUFFICES ASSUME ~lostHead' PROVE SeqUnique' /\ \A x \in issued' : x[1] <= head'
    BY <1>3 DEF IssuedInv
  <2>1. SeqUnique'
    BY <1>3 DEF IssuedInv, SeqUnique
  <2>2. CASE DOMAIN rows = {}
    <3>1. issued' = {}
      BY <1>3, <2>2
    <3> QED BY <2>1, <3>1
  <2>3. CASE DOMAIN rows # {}
    <3>1. a <= b /\ head' = b
      BY <1>1, <1>6, <2>3 DEF Seqs
    <3>2. ~lostHead /\ \A x \in issued : x[1] \in Nat /\ \E s \in a..b : x[1] <= s
      BY <1>1, <1>3, <2>3 DEF IssuedInv, TypeOK, Seqs
    <3>3. \A x \in issued : x[1] <= b
      BY <3>2 DEF Seqs
    <3> QED BY <1>3, <2>1, <3>1, <3>3
  <2> QED BY <2>1, <2>2, <2>3
<1> QED BY <1>9, <1>10, <1>11, <1>12

LEMMA ClockInv ==
  ASSUME Inv, Clock \/ UNCHANGED logVars
  PROVE  Inv'
<1>1. /\ now' \in Times
      /\ UNCHANGED <<rows, issued, lostHead, head, floor, retained_count,
                     writer, pc, job, up, begun, crashes>>
  BY DEF Clock, logVars, diskVars, atomics, callVars, envVars, Inv, TypeOK
<1> QED BY <1>1 DEF Inv, TypeOK, MutexInv, CallInv, TableInv, DownInv, IssuedInv, SeqUnique

LEMMA NextInv == Inv /\ [Next]_logVars => Inv'
<1> SUFFICES ASSUME Inv, [Next]_logVars PROVE Inv'
  OBVIOUS
<1>1. ASSUME NEW t \in Tasks, AppendStep(t) PROVE Inv'
  <2>1. CASE AppendBatch(t)
    <3>1. PICK n \in 1..MaxBatch : \E batch \in [1..n -> Events] : AppendCall(t, batch)
      BY <2>1 DEF AppendBatch
    <3>2. PICK batch \in [1..n -> Events] : AppendCall(t, batch)
      BY <3>1
    <3> QED BY <3>2, AppendCallInv
  <2> QED BY <1>1, <2>1, AppendCommitInv, AppendFailInv, StoreHeadInv, StoreFloorInv, AppendReturnInv DEF AppendStep
<1>2. ASSUME NEW p \in Procs, Lock(p) PROVE Inv'
  BY <1>2, LockInv
<1>3. CASE PruneStep
  BY <1>3, PruneCallInv, PruneCommitInv, PruneStoreInv DEF PruneStep
<1>4. CASE Crash \/ Open
  BY <1>4, CrashInv, OpenInv
<1>5. CASE Clock \/ UNCHANGED logVars
  BY <1>5, ClockInv
<1> QED BY <1>1, <1>2, <1>3, <1>4, <1>5 DEF Next

\* The inductive invariant holds in every reachable state.
THEOREM Invariance == Spec => []Inv
BY InitInv, NextInv, PTL DEF Spec

-----------------------------------------------------------------------------
(* What follows from it *)

\* Type correctness of the log, in particular that the unsigned counter
\* retained_count never goes below zero in the prune loop.
THEOREM TypeCorrect == Spec => []TypeOK
BY Invariance, PTL DEF Inv

\* Where the table stands relative to head and floor, in any state of an open
\* log: an interval whose end is at or after head.
LEMMA OpenShape ==
  ASSUME Inv, up
  PROVE  \E a \in Seqs, b \in Nat :
           DOMAIN rows = a..b /\ (a <= b => head <= b) /\ (floor # 0 /\ a <= b => floor <= a)
<1> USE LogAssumption DEF Inv
<1>1. CASE writer = Nobody \/ pc[writer] = "writing"
  <2>1. DOMAIN rows = Interval(floor, head)
    BY <1>1 DEF TableInv
  <2>2. CASE floor = 0
    <3>1. DOMAIN rows = 1..0 /\ 1 \in Seqs /\ 0 \in Nat /\ ~(1 <= 0)
      BY <2>1, <2>2 DEF Interval, Seqs
    <3> QED BY <3>1
  <2>3. CASE floor # 0
    BY <2>1, <2>3 DEF Interval, Seqs, TypeOK
  <2> QED BY <2>2, <2>3
<1>2. CASE writer = Pruner /\ pc[Pruner] = "committed"
  <2>1. /\ DOMAIN rows = Interval(job[Pruner].floor, head) /\ job[Pruner].floor \in Nat
        /\ job[Pruner].floor # 0 => floor <= job[Pruner].floor
    BY <1>2 DEF TableInv, TypeOK, Job, Procs
  <2>2. CASE job[Pruner].floor = 0
    <3>1. DOMAIN rows = 1..0 /\ 1 \in Seqs /\ 0 \in Nat /\ ~(1 <= 0)
      BY <2>1, <2>2 DEF Interval, Seqs
    <3> QED BY <3>1
  <2>3. CASE job[Pruner].floor # 0
    BY <2>1, <2>3 DEF Interval, Seqs, TypeOK
  <2> QED BY <2>2, <2>3
<1>3. CASE writer \in Tasks /\ pc[writer] \in {"committed", "publishing"}
  <2>1. /\ DOMAIN rows \in {Low(floor, job[writer])..HeadAfter(job[writer]),
                            Low(floor, job[writer])..head}
        /\ head <= HeadAfter(job[writer])
        /\ job[writer].base \in Nat /\ HeadAfter(job[writer]) \in Nat
    <3>1. writer \in Procs
      BY <1>3 DEF Procs
    <3>2. head <= HeadAfter(job[writer])
      BY <1>3, HeadBelow
    <3> QED BY <1>3, <3>1, <3>2, JobFacts DEF TableInv
  <2>2. Low(floor, job[writer]) \in Seqs /\ head \in Nat
        /\ (floor # 0 => Low(floor, job[writer]) = floor)
    BY <1>3, LowFacts, AtomicFacts DEF Procs
  <2> QED BY <2>1, <2>2 DEF TypeOK
<1> QED BY <1>1, <1>2, <1>3 DEF MutexInv, Holding, TypeOK, Procs

\* The table has no hole, whatever the interleaving of appends, prunes,
\* failures and restarts.
THEOREM GaplessTheorem == Spec => []Gapless
<1>1. Inv => Gapless
  <2> SUFFICES ASSUME Inv PROVE Gapless
    OBVIOUS
  <2>1. PICK a \in Seqs, b \in Nat : DOMAIN rows = a..b
    BY OpenShape DEF Inv, DownInv
  <2>2. CASE a <= b
    <3>1. LastKey(DOMAIN rows) = b
      BY <2>1, <2>2, IntervalKeys
    <3> QED BY <2>1, <2>2, <3>1 DEF Gapless, Seqs
  <2>3. CASE a > b
    BY <2>1, <2>3, IntervalKeys DEF Gapless
  <2> QED BY <2>2, <2>3 DEF Seqs
<1> QED BY <1>1, Invariance, PTL

\* A seq is committed twice only after an open that found the table empty.
THEOREM SeqNeverReusedTheorem == Spec => []SeqNeverReused
<1>1. Inv => SeqNeverReused
  BY DEF Inv, IssuedInv, SeqNeverReused
<1> QED BY <1>1, Invariance, PTL

\* A lock-free reader can trust floor and head.
THEOREM WindowExactTheorem == Spec => []WindowExact
<1>1. Inv => WindowExact
  <2> SUFFICES ASSUME Inv, up, floor # 0
               PROVE  /\ \A s \in DOMAIN rows : floor <= s
                      /\ writer # Pruner => floor..head \subseteq DOMAIN rows
    BY DEF WindowExact
  <2>1. \A s \in DOMAIN rows : floor <= s
    BY OpenShape DEF Seqs, Inv, TypeOK
  <2>2. ASSUME writer # Pruner PROVE floor..head \subseteq DOMAIN rows
    <3> USE LogAssumption DEF Inv
    <3>1. CASE writer = Nobody \/ pc[writer] = "writing"
      BY <3>1 DEF TableInv, Interval
    <3>2. CASE writer \in Tasks /\ pc[writer] \in {"committed", "publishing"}
      <4>1. writer \in Procs
        BY <3>2 DEF Procs
      <4>2. head <= HeadAfter(job[writer]) /\ HeadAfter(job[writer]) \in Nat /\ head \in Nat
        BY <3>2, HeadBelow
      <4>3. DOMAIN rows \in {floor..HeadAfter(job[writer]), floor..head}
        BY <3>2, <4>1, LowFacts DEF TableInv
      <4>4. floor \in Nat
        BY AtomicFacts
      <4> QED BY <4>2, <4>3, <4>4
    <3> QED BY <2>2, <3>1, <3>2 DEF MutexInv, Holding, TypeOK, Procs
  <2> QED BY <2>1, <2>2
<1> QED BY <1>1, Invariance, PTL

\* Whenever the mutex is free, floor, head and retained_count describe the
\* table exactly.
THEOREM AtomicsExactTheorem == Spec => []AtomicsExact
<1>1. Inv => AtomicsExact
  <2> SUFFICES ASSUME Inv, up, writer = Nobody
               PROVE  /\ floor = FirstKey(DOMAIN rows)
                      /\ retained_count = Cardinality(DOMAIN rows)
                      /\ DOMAIN rows # {} => head = LastKey(DOMAIN rows)
    BY DEF AtomicsExact
  <2>1. /\ DOMAIN rows = Interval(floor, head) /\ retained_count = Span(floor, head)
        /\ floor # 0 => floor <= head
    BY DEF Inv, TableInv
  <2>2. head \in Nat /\ floor \in Nat
    BY AtomicFacts DEF Inv
  <2>3. retained_count = Cardinality(DOMAIN rows)
    BY <2>1, <2>2, ShapeIsInterval
  <2>4. CASE floor = 0
    BY <2>1, <2>3, <2>4 DEF Interval, FirstKey
  <2>5. CASE floor # 0
    <3>1. floor \in Seqs /\ DOMAIN rows = floor..head /\ floor <= head
      BY <2>1, <2>2, <2>5 DEF Interval, Seqs
    <3> QED BY <2>2, <2>3, <3>1, IntervalKeys
  <2> QED BY <2>4, <2>5
<1> QED BY <1>1, Invariance, PTL

\* What an append has acknowledged is in the window of any later replay,
\* unless retention has taken it.
THEOREM AckedIsReplayableTheorem == Spec => []AckedIsReplayable
<1>1. Inv => AckedIsReplayable
  <2> SUFFICES ASSUME Inv, NEW t \in Tasks, pc[t] = "ok", NEW i \in DOMAIN job[t].batch
               PROVE  /\ job[t].base + i <= head
                      /\ job[t].base + i \in DOMAIN rows \/ \A r \in DOMAIN rows : job[t].base + i < r
    BY DEF AckedIsReplayable
  <2>1. t \in Procs /\ up /\ HeadAfter(job[t]) <= head
    BY DEF Inv, MutexInv, CallInv, Procs
  <2>2. /\ job[t].base \in Nat /\ Len(job[t].batch) \in Nat /\ head \in Nat
        /\ job[t].batch \in Seq(Stamped)
    BY <2>1, JobFacts, AtomicFacts DEF Inv
  <2>3. i \in 1..Len(job[t].batch)
    BY <2>2
  <2>4. job[t].base + i \in Nat /\ job[t].base + i <= head
    BY <2>1, <2>2, <2>3 DEF HeadAfter
  <2>5. PICK a \in Seqs, b \in Nat : DOMAIN rows = a..b /\ (a <= b => head <= b)
    BY <2>1, OpenShape
  <2> QED BY <2>2, <2>4, <2>5 DEF Seqs
<1> QED BY <1>1, Invariance, PTL

\* Committed rows are never rewritten and leave from the front only.
THEOREM FrontOnlyTheorem == Spec => FrontOnly
<1>1. Inv /\ [Next]_logVars => [FrontOnlyStep]_rows
  <2> SUFFICES ASSUME Inv, Next PROVE [FrontOnlyStep]_rows
    BY DEF logVars, diskVars
  <2>1. ASSUME NEW c, rows' = Only(rows, DOMAIN rows \ Removed(rows, c)),
               c \in Nat, DOMAIN rows \subseteq Nat
        PROVE  FrontOnlyStep
    BY <2>1 DEF FrontOnlyStep, Only, Removed
  <2>2. DOMAIN rows \subseteq Nat
    BY DEF Inv, TypeOK, Seqs
  <2>3. Fronts(rows) \subseteq Nat
    <3>1. PICK a \in Seqs, b \in Nat : DOMAIN rows = a..b
      BY OpenShape DEF Inv, DownInv
    <3>2. LastKey(DOMAIN rows) \in Nat
      BY <3>1, IntervalKeys DEF Seqs
    <3> QED BY <2>2, <3>2 DEF Fronts
  <2>4. ASSUME NEW t \in Tasks, AppendCommit(t) PROVE FrontOnlyStep
    <3>1. writer = t /\ up /\ pc[t] = "writing" /\ t \in Procs
      BY <2>4 DEF AppendCommit, Inv, MutexInv, Holding, Procs
    <3>2. /\ DOMAIN rows = Interval(floor, head) /\ job[t].base = head
          /\ head \in Nat /\ floor \in Nat
      BY <3>1, AtomicFacts DEF Inv, TableInv, CallInv
    <3>3. DOMAIN rows \cap ((job[t].base + 1)..(job[t].base + Len(job[t].batch))) = {}
      BY <3>2 DEF Interval
    <3>4. DOMAIN rows \subseteq DOMAIN rows' /\ \A s \in DOMAIN rows : rows'[s] = rows[s]
      BY <2>4, <3>3 DEF AppendCommit
    <3> QED BY <3>4 DEF FrontOnlyStep
  <2>5. CASE PruneCommit
    <3>1. PICK c \in Fronts(rows) : rows' = Only(rows, DOMAIN rows \ Removed(rows, c))
      BY <2>5 DEF PruneCommit
    <3> QED BY <2>1, <2>2, <2>3, <3>1
  <2>6. CASE Open
    <3>1. PICK c \in Fronts(rows) : rows' = Only(rows, DOMAIN rows \ Removed(rows, c))
      BY <2>6 DEF Open
    <3> QED BY <2>1, <2>2, <2>3, <3>1
  <2>7. ASSUME NEW t \in Tasks, AppendStep(t) PROVE [FrontOnlyStep]_rows
    <3>1. ASSUME ~AppendCommit(t) PROVE UNCHANGED rows
      BY <2>7, <3>1 DEF AppendStep, AppendBatch, AppendCall, AppendFail, StoreHead, StoreFloor,
           AppendReturn, diskVars
    <3> QED BY <2>4, <3>1
  <2>8. ASSUME PruneStep \/ Crash \/ Clock \/ (\E p \in Procs : Lock(p)), ~PruneCommit
        PROVE UNCHANGED rows
    BY <2>8 DEF PruneStep, PruneCall, PruneFail, PruneStore, Crash, Clock, Lock, diskVars
  <2> QED BY <2>5, <2>6, <2>7, <2>8 DEF Next
<1> QED BY <1>1, Invariance, PTL DEF Spec, FrontOnly

-----------------------------------------------------------------------------
(* Sums *)

\* A non-empty set of naturals has a least member.
LEMMA LeastMember ==
  ASSUME NEW S, S \subseteq Nat, S # {}
  PROVE  \E i \in S : \A j \in S : i <= j
<1>1. PICK i \in S : \A j \in S : ~(<<j, i>> \in OpToRel(<, Nat))
  BY WFMin, NatLessThanWellFounded
<1>2. ASSUME NEW j \in S PROVE i <= j
  <2>1. i \in Nat /\ j \in Nat
    OBVIOUS
  <2>2. j < i => <<j, i>> \in {ss \in Nat \X Nat : ss[1] < ss[2]}
    BY <2>1
  <2>3. ~(j < i)
    BY <1>1, <2>2 DEF OpToRel
  <2> QED
    BY <2>1, <2>3
<1> QED
  BY <1>1, <1>2

\* Induction up to n, for a property given as the set of numbers that have it.
LEMMA UpTo ==
  ASSUME NEW n \in Nat, NEW P, 0 \in P,
         \A k \in 0..n : k \in P /\ k < n => k + 1 \in P
  PROVE  \A k \in 0..n : k \in P
<1> DEFINE Bad == (0..n) \ P
<1> SUFFICES ASSUME Bad # {} PROVE FALSE
  OBVIOUS
<1>0. Bad \subseteq Nat
  OBVIOUS
<1> HIDE DEF Bad
<1>1. PICK i \in Bad : \A j \in Bad : i <= j
  BY <1>0, LeastMember
<1> USE DEF Bad
<1>2. i # 0 /\ i - 1 \in 0..n /\ i - 1 < n /\ i = (i - 1) + 1
  BY <1>1
<1>3. i - 1 \in P
  BY <1>1, <1>2
<1> QED
  BY <1>1, <1>2, <1>3

\* g lists the sums of the first elements of w.
Adds(w, n, g) == g[0] = 0 /\ \A k \in 1..n : g[k] = g[k - 1] + w[k]
Weights(w, n) == \A k \in 1..n : w[k] \in Nat

\* There is such a list.
LEMMA SumExists ==
  ASSUME NEW n \in Nat, NEW w, Weights(w, n)
  PROVE  \E g \in [0..n -> Nat] : Adds(w, n, g)
<1> DEFINE Good(m, g) == g \in [0..m -> Nat] /\ Adds(w, m, g)
           P == {m \in 0..n : \E g : Good(m, g)}
<1>1. 0 \in P
  <2> DEFINE g == [k \in 0..0 |-> 0]
  <2>1. Good(0, g) /\ 0 \in 0..n
    BY DEF Adds
  <2> HIDE DEF Good, g
  <2> QED
    BY <2>1
<1>2. ASSUME NEW m \in 0..n, m \in P, m < n PROVE m + 1 \in P
  <2>1. PICK g : Good(m, g)
    BY <1>2
  <2> DEFINE h == [k \in 0..(m + 1) |-> IF k <= m THEN g[k] ELSE g[m] + w[m + 1]]
  <2>2. g[m] + w[m + 1] \in Nat /\ m + 1 \in 0..n
    BY <1>2, <2>1 DEF Weights
  <2>3. /\ h \in [0..(m + 1) -> Nat] /\ h[0] = 0 /\ h[m + 1] = g[m] + w[m + 1]
        /\ \A k \in 0..m : h[k] = g[k]
    BY <2>1, <2>2 DEF Adds
  <2> HIDE DEF h
  <2>4. ASSUME NEW k \in 1..(m + 1) PROVE h[k] = h[k - 1] + w[k]
    <3>1. k - 1 \in 0..m
      OBVIOUS
    <3>2. CASE k <= m
      BY <2>1, <2>3, <3>1, <3>2 DEF Adds
    <3>3. CASE k = m + 1
      BY <2>3, <3>1, <3>3
    <3> QED
      BY <3>2, <3>3
  <2>5. Good(m + 1, h)
    BY <2>3, <2>4 DEF Adds
  <2> QED
    BY <2>2, <2>5
<1> HIDE DEF P
<1>3. \A k \in 0..n : k \in P
  BY <1>1, <1>2, UpTo
<1> QED
  BY <1>3 DEF P

\* The recursive function in SumTo is the list of sums.
LEMMA SumRuns ==
  ASSUME NEW n \in Nat, NEW w, Weights(w, n)
  PROVE  \E g \in [0..n -> Nat] : Adds(w, n, g) /\ SumTo(w, n) = g[n]
<1> DEFINE Rec(f) == f = [k \in 0..n |-> IF k = 0 THEN 0 ELSE f[k - 1] + w[k]]
           sum == CHOOSE f : Rec(f)
<1>1. PICK g \in [0..n -> Nat] : Adds(w, n, g)
  BY SumExists
<1>2. Rec(g)
  BY <1>1 DEF Adds
<1>3. Rec(sum)
  BY <1>2
<1>4. SumTo(w, n) = sum[n]
  BY DEF SumTo
<1> HIDE DEF sum
<1>5. sum[0] = 0 /\ \A k \in 1..n : sum[k] = sum[k - 1] + w[k]
  BY <1>3
<1> DEFINE P == {k \in 0..n : sum[k] = g[k]}
<1>6. 0 \in P
  BY <1>1, <1>5 DEF Adds
<1>7. ASSUME NEW k \in 0..n, k \in P, k < n PROVE k + 1 \in P
  <2>1. k + 1 \in 1..n /\ (k + 1) - 1 = k /\ k + 1 \in 0..n
    BY <1>7
  <2> QED
    BY <1>1, <1>5, <1>7, <2>1 DEF Adds
<1> HIDE DEF P
<1>8. \A k \in 0..n : k \in P
  BY <1>6, <1>7, UpTo
<1> QED
  BY <1>1, <1>4, <1>8 DEF P

\* Sums add up, element by element.
LEMMA SumPlus ==
  ASSUME NEW n \in Nat, NEW u, NEW v, NEW w, Weights(u, n), Weights(v, n), Weights(w, n),
         \A k \in 1..n : w[k] = u[k] + v[k]
  PROVE  SumTo(w, n) = SumTo(u, n) + SumTo(v, n)
<1>1. PICK f \in [0..n -> Nat] : Adds(u, n, f) /\ SumTo(u, n) = f[n]
  BY SumRuns
<1>2. PICK g \in [0..n -> Nat] : Adds(v, n, g) /\ SumTo(v, n) = g[n]
  BY SumRuns
<1>3. PICK h \in [0..n -> Nat] : Adds(w, n, h) /\ SumTo(w, n) = h[n]
  BY SumRuns
<1> DEFINE P == {k \in 0..n : h[k] = f[k] + g[k]}
<1>4. 0 \in P
  BY <1>1, <1>2, <1>3 DEF Adds
<1>5. ASSUME NEW k \in 0..n, k \in P, k < n PROVE k + 1 \in P
  <2>1. /\ k + 1 \in 1..n /\ (k + 1) - 1 = k /\ k + 1 \in 0..n
        /\ f[k] \in Nat /\ g[k] \in Nat /\ h[k] \in Nat
    BY <1>5
  <2>2. /\ f[k + 1] = f[k] + u[k + 1] /\ g[k + 1] = g[k] + v[k + 1] /\ h[k + 1] = h[k] + w[k + 1]
        /\ w[k + 1] = u[k + 1] + v[k + 1] /\ u[k + 1] \in Nat /\ v[k + 1] \in Nat
    BY <1>1, <1>2, <1>3, <2>1 DEF Adds, Weights
  <2>3. h[k] = f[k] + g[k]
    BY <1>5
  <2>4. h[k + 1] = f[k + 1] + g[k + 1]
    <3>1. PICK x \in Nat, y \in Nat, p \in Nat, q \in Nat :
            x = f[k] /\ y = g[k] /\ p = u[k + 1] /\ q = v[k + 1]
      BY <2>1, <2>2
    <3>2. f[k + 1] = x + p /\ g[k + 1] = y + q /\ h[k + 1] = (x + y) + (p + q)
      BY <2>2, <2>3, <3>1
    <3>3. (x + y) + (p + q) = (x + p) + (y + q)
      OBVIOUS
    <3> QED
      BY <3>2, <3>3
  <2> QED
    BY <2>1, <2>4
<1> HIDE DEF P
<1>6. \A k \in 0..n : k \in P
  BY <1>4, <1>5, UpTo
<1> QED
  BY <1>1, <1>2, <1>3, <1>6 DEF P

\* A sum is that of what comes after d, when nothing comes before.
LEMMA SumShift ==
  ASSUME NEW n \in Nat, NEW d \in Nat, NEW u, NEW w, Weights(u, n),
         \A k \in 1..d : w[k] = 0, \A k \in 1..n : w[d + k] = u[k]
  PROVE  SumTo(w, d + n) = SumTo(u, n)
<1>0. d + n \in Nat /\ Weights(w, d + n)
  <2>1. ASSUME NEW k \in 1..(d + n) PROVE w[k] \in Nat
    <3>1. CASE k <= d
      BY <3>1
    <3>2. CASE k > d
      <4>1. k - d \in 1..n /\ d + (k - d) = k
        BY <3>2
      <4>2. w[d + (k - d)] = u[k - d] /\ u[k - d] \in Nat
        BY <4>1 DEF Weights
      <4> QED
        BY <4>1, <4>2
    <3> QED
      BY <3>1, <3>2
  <2> QED
    BY <2>1 DEF Weights
<1>1. PICK f \in [0..n -> Nat] : Adds(u, n, f) /\ SumTo(u, n) = f[n]
  BY SumRuns
<1>2. PICK h \in [0..(d + n) -> Nat] : Adds(w, d + n, h) /\ SumTo(w, d + n) = h[d + n]
  BY <1>0, SumRuns
<1>3. h[d] = 0
  <2> DEFINE Q == {k \in 0..d : h[k] = 0}
  <2>1. 0 \in Q
    BY <1>2 DEF Adds
  <2>2. ASSUME NEW k \in 0..d, k \in Q, k < d PROVE k + 1 \in Q
    <3>1. k + 1 \in 1..(d + n) /\ (k + 1) - 1 = k /\ k + 1 \in 0..d /\ k + 1 \in 1..d
      BY <2>2
    <3>2. h[k + 1] = h[k] + w[k + 1]
      BY <1>2, <3>1 DEF Adds
    <3> QED
      BY <2>2, <3>1, <3>2
  <2> HIDE DEF Q
  <2>3. \A k \in 0..d : k \in Q
    BY <2>1, <2>2, UpTo
  <2> QED
    BY <2>3 DEF Q
<1> DEFINE P == {k \in 0..n : h[d + k] = f[k]}
<1>4. 0 \in P
  BY <1>1, <1>3 DEF Adds
<1>5. ASSUME NEW k \in 0..n, k \in P, k < n PROVE k + 1 \in P
  <2>1. /\ k + 1 \in 1..n /\ (k + 1) - 1 = k /\ k + 1 \in 0..n
        /\ d + (k + 1) \in 1..(d + n) /\ (d + (k + 1)) - 1 = d + k
    BY <1>5
  <2>2. f[k + 1] = f[k] + u[k + 1] /\ h[d + (k + 1)] = h[d + k] + w[d + (k + 1)]
    BY <1>1, <1>2, <2>1 DEF Adds
  <2>3. w[d + (k + 1)] = u[k + 1]
    BY <2>1
  <2> QED
    BY <1>5, <2>1, <2>2, <2>3
<1> HIDE DEF P
<1>6. \A k \in 0..n : k \in P
  BY <1>4, <1>5, UpTo
<1> QED
  BY <1>1, <1>2, <1>6 DEF P

-----------------------------------------------------------------------------
(* Bytes *)

\* The sizes of the rows under a..b, as far as n.
Sizes(r, a, b, n) == [k \in 1..n |-> IF k \in a..b THEN SizeOf[r[k].ev] ELSE 0]
HasSizes(r, a, b) == \A k \in a..b : SizeOf[r[k].ev] \in Nat

LEMMA SizesFacts ==
  ASSUME NEW r, NEW a \in Seqs, NEW b \in Nat, HasSizes(r, a, b), NEW n \in Nat
  PROVE  /\ Weights(Sizes(r, a, b, n), n)
         /\ \A k \in 1..n : Sizes(r, a, b, n)[k] = IF k \in a..b THEN SizeOf[r[k].ev] ELSE 0
<1> DEFINE Size(k) == IF k \in a..b THEN SizeOf[r[k].ev] ELSE 0
<1>1. \A k \in 1..n : Size(k) \in Nat
  BY DEF HasSizes
<1>2. Sizes(r, a, b, n) = [k \in 1..n |-> Size(k)]
  BY DEF Sizes
<1> HIDE DEF Size
<1>3. \A k \in 1..n : Sizes(r, a, b, n)[k] = Size(k)
  BY <1>2
<1> QED
  BY <1>1, <1>3 DEF Weights, Size

\* The bytes of an interval of rows, summed as far as any n that covers it.
LEMMA BytesAt ==
  ASSUME NEW r, NEW a \in Seqs, NEW b \in Nat, HasSizes(r, a, b), NEW n \in Nat, b <= n
  PROVE  BytesOf(r, a..b) = SumTo(Sizes(r, a, b, n), n)
<1> DEFINE l == LastKey(a..b)
<1>1. l \in Nat /\ l <= n /\ \A k \in a..b : k <= l
  BY IntervalKeys DEF Seqs
<1>2. BytesOf(r, a..b) = SumTo(Sizes(r, a, b, l), l)
  BY DEF BytesOf, Sizes
<1> HIDE DEF l
<1> DEFINE u == Sizes(r, a, b, l)
           w == Sizes(r, a, b, n)
<1>3. /\ Weights(u, l) /\ Weights(w, n)
      /\ \A k \in 1..l : u[k] = w[k]
      /\ \A k \in 1..n : k > l => w[k] = 0
  <2>1. \A k \in 1..l : u[k] = IF k \in a..b THEN SizeOf[r[k].ev] ELSE 0
    BY <1>1, SizesFacts
  <2>2. \A k \in 1..n : w[k] = IF k \in a..b THEN SizeOf[r[k].ev] ELSE 0
    BY <1>1, SizesFacts
  <2>3. Weights(u, l) /\ Weights(w, n)
    BY <1>1, SizesFacts
  <2>4. ASSUME NEW k \in 1..l PROVE u[k] = w[k]
    <3>1. k \in 1..n
      BY <1>1
    <3> HIDE DEF u, w
    <3> QED
      BY <2>1, <2>2, <3>1
  <2>5. ASSUME NEW k \in 1..n, k > l PROVE w[k] = 0
    <3>1. k \notin a..b
      BY <1>1, <2>5 DEF Seqs
    <3> HIDE DEF u, w
    <3> QED
      BY <2>2, <3>1
  <2> HIDE DEF u, w
  <2> QED
    BY <2>3, <2>4, <2>5
<1> HIDE DEF u, w
<1>4. PICK f \in [0..l -> Nat] : Adds(u, l, f) /\ SumTo(u, l) = f[l]
  BY <1>1, <1>3, SumRuns
<1>5. PICK h \in [0..n -> Nat] : Adds(w, n, h) /\ SumTo(w, n) = h[n]
  BY <1>3, SumRuns
<1> DEFINE P == {k \in 0..n : h[k] = IF k <= l THEN f[k] ELSE f[l]}
<1>6. 0 \in P
  BY <1>1, <1>4, <1>5 DEF Adds
<1>7. ASSUME NEW k \in 0..n, k \in P, k < n PROVE k + 1 \in P
  <2>1. k + 1 \in 1..n /\ (k + 1) - 1 = k /\ k + 1 \in 0..n
    BY <1>7
  <2>2. h[k + 1] = h[k] + w[k + 1] /\ h[k] = IF k <= l THEN f[k] ELSE f[l]
    BY <1>5, <1>7, <2>1 DEF Adds
  <2>3. CASE k + 1 <= l
    <3>1. k + 1 \in 1..l /\ k <= l
      BY <1>1, <2>1, <2>3
    <3>2. f[k + 1] = f[k] + u[k + 1] /\ u[k + 1] = w[k + 1]
      BY <1>3, <1>4, <2>1, <3>1 DEF Adds
    <3>3. h[k + 1] = f[k + 1]
      BY <2>2, <3>1, <3>2
    <3> QED
      BY <2>1, <2>3, <3>3
  <2>4. CASE ~(k + 1 <= l)
    <3>1. w[k + 1] = 0 /\ f[l] \in Nat
      BY <1>1, <1>3, <2>1, <2>4
    <3>2. h[k] = f[l]
      BY <1>1, <2>2, <2>4
    <3>3. h[k + 1] = f[l]
      BY <2>2, <3>1, <3>2
    <3> QED
      BY <2>1, <2>4, <3>3
  <2> QED
    BY <2>3, <2>4
<1> HIDE DEF P
<1>8. \A k \in 0..n : k \in P
  BY <1>6, <1>7, UpTo
<1>9. h[n] = f[l]
  BY <1>1, <1>8 DEF P
<1> QED
  BY <1>2, <1>4, <1>5, <1>9 DEF u, w

\* The bytes of rows cut in two are those of the parts.
LEMMA BytesCut ==
  ASSUME NEW r, NEW a \in Seqs, NEW b \in Nat, HasSizes(r, a, b), NEW c \in Seqs, a <= c, c <= b + 1
  PROVE  /\ BytesOf(r, a..b) = BytesOf(r, a..(c - 1)) + BytesOf(r, c..b)
         /\ {BytesOf(r, a..b), BytesOf(r, a..(c - 1)), BytesOf(r, c..b)} \subseteq Nat
<1>1. c - 1 \in Nat /\ c - 1 <= b /\ HasSizes(r, a, c - 1) /\ HasSizes(r, c, b)
  BY DEF HasSizes, Seqs
<1> DEFINE u == Sizes(r, a, c - 1, b)
           v == Sizes(r, c, b, b)
           w == Sizes(r, a, b, b)
<1>2. Weights(u, b) /\ Weights(v, b) /\ Weights(w, b)
  BY <1>1, SizesFacts
<1>3. \A k \in 1..b : w[k] = u[k] + v[k]
  <2>1. \A k \in 1..b : u[k] = IF k \in a..(c - 1) THEN SizeOf[r[k].ev] ELSE 0
    BY <1>1, SizesFacts
  <2>2. \A k \in 1..b : v[k] = IF k \in c..b THEN SizeOf[r[k].ev] ELSE 0
    BY <1>1, SizesFacts
  <2>3. \A k \in 1..b : w[k] = IF k \in a..b THEN SizeOf[r[k].ev] ELSE 0
    BY <1>1, SizesFacts
  <2> HIDE DEF u, v, w
  <2> SUFFICES ASSUME NEW k \in 1..b PROVE w[k] = u[k] + v[k]
    OBVIOUS
  <2>4. CASE k \in a..(c - 1)
    <3>1. k \in a..b /\ k \notin c..b /\ SizeOf[r[k].ev] \in Nat
      BY <1>1, <2>4 DEF HasSizes, Seqs
    <3> QED
      BY <2>1, <2>2, <2>3, <2>4, <3>1
  <2>5. CASE k \in c..b
    <3>1. k \in a..b /\ k \notin a..(c - 1) /\ SizeOf[r[k].ev] \in Nat
      BY <1>1, <2>5 DEF HasSizes, Seqs
    <3> QED
      BY <2>1, <2>2, <2>3, <2>5, <3>1
  <2>6. CASE k \notin a..(c - 1) /\ k \notin c..b
    <3>1. k \notin a..b
      BY <1>1, <2>6 DEF Seqs
    <3> QED
      BY <2>1, <2>2, <2>3, <2>6, <3>1
  <2> QED
    BY <2>4, <2>5, <2>6
<1>4. /\ BytesOf(r, a..b) = SumTo(w, b)
      /\ BytesOf(r, a..(c - 1)) = SumTo(u, b)
      /\ BytesOf(r, c..b) = SumTo(v, b)
  BY <1>1, BytesAt
<1> HIDE DEF u, v, w
<1>5. SumTo(w, b) = SumTo(u, b) + SumTo(v, b)
  BY <1>2, <1>3, SumPlus
<1>6. SumTo(w, b) \in Nat /\ SumTo(u, b) \in Nat /\ SumTo(v, b) \in Nat
  <2>1. PICK f \in [0..b -> Nat] : SumTo(w, b) = f[b]
    BY <1>2, SumRuns
  <2>2. PICK g \in [0..b -> Nat] : SumTo(u, b) = g[b]
    BY <1>2, SumRuns
  <2>3. PICK h \in [0..b -> Nat] : SumTo(v, b) = h[b]
    BY <1>2, SumRuns
  <2> QED
    BY <2>1, <2>2, <2>3
<1> QED
  BY <1>4, <1>5, <1>6

\* Only the rows counted matter.
LEMMA BytesSame ==
  ASSUME NEW r, NEW q, NEW a \in Seqs, NEW b \in Nat, \A k \in a..b : r[k] = q[k]
  PROVE  BytesOf(r, a..b) = BytesOf(q, a..b)
<1> DEFINE l == LastKey(a..b)
           Size(t, k) == IF k \in a..b THEN SizeOf[t[k].ev] ELSE 0
<1>1. \A k : Size(r, k) = Size(q, k)
  OBVIOUS
<1> HIDE DEF Size
<1>2. [k \in 1..l |-> Size(r, k)] = [k \in 1..l |-> Size(q, k)]
  BY <1>1
<1>3. SumTo([k \in 1..l |-> Size(r, k)], l) = SumTo([k \in 1..l |-> Size(q, k)], l)
  BY <1>2
<1> QED
  BY <1>3 DEF BytesOf, Size

\* The newest row alone.
LEMMA BytesOne ==
  ASSUME NEW r, NEW b \in Seqs, HasSizes(r, b, b)
  PROVE  BytesOf(r, b..b) = SizeOf[r[b].ev]
<1>1. b \in Nat /\ b <= b /\ b - 1 \in Nat /\ (b - 1) + 1 = b /\ SizeOf[r[b].ev] \in Nat
  BY DEF Seqs, HasSizes
<1> DEFINE w == Sizes(r, b, b, b)
           u == [k \in 1..1 |-> SizeOf[r[b].ev]]
<1>2. BytesOf(r, b..b) = SumTo(w, b)
  <2>1. PICK n \in Nat : n = b
    BY <1>1
  <2>2. b <= n /\ HasSizes(r, b, n)
    BY <1>1, <2>1
  <2>3. n <= n
    OBVIOUS
  <2>4. BytesOf(r, b..n) = SumTo(Sizes(r, b, n, n), n)
    BY <2>2, <2>3, BytesAt
  <2> QED
    BY <2>1, <2>4
<1>3. \A k \in 1..b : w[k] = IF k \in b..b THEN SizeOf[r[k].ev] ELSE 0
  BY <1>1, SizesFacts
<1>4. Weights(u, 1) /\ \A k \in 1..1 : u[k] = SizeOf[r[b].ev]
  BY <1>1 DEF Weights
<1> HIDE DEF w, u
<1>5. (\A k \in 1..(b - 1) : w[k] = 0) /\ \A k \in 1..1 : w[(b - 1) + k] = u[k]
  BY <1>1, <1>3, <1>4
<1>6. SumTo(w, (b - 1) + 1) = SumTo(u, 1)
  <2>1. PICK d \in Nat, n \in Nat : d = b - 1 /\ n = 1
    BY <1>1
  <2>2. Weights(u, n) /\ (\A k \in 1..d : w[k] = 0) /\ \A k \in 1..n : w[d + k] = u[k]
    BY <1>4, <1>5, <2>1
  <2>3. SumTo(w, d + n) = SumTo(u, n)
    BY <2>2, SumShift
  <2> QED
    BY <2>1, <2>3
<1>7. PICK f \in [0..1 -> Nat] : Adds(u, 1, f) /\ SumTo(u, 1) = f[1]
  BY <1>4, SumRuns
<1>8. f[1] = f[1 - 1] + u[1] /\ f[0] = 0 /\ 1 - 1 = 0
  BY <1>7 DEF Adds
<1> QED
  BY <1>1, <1>2, <1>4, <1>6, <1>7, <1>8

\* The rows a batch of n is stored as have the bytes of the batch.
LEMMA BytesBatch ==
  ASSUME NEW r, NEW base \in Nat, NEW batch \in Seq(Stamped),
         \A k \in 1..Len(batch) : r[base + k].ev = batch[k].ev
  PROVE  /\ BytesOf(r, (base + 1)..(base + Len(batch))) = BatchBytes(batch)
         /\ BatchBytes(batch) \in Nat
<1> DEFINE n == Len(batch)
           u == [i \in DOMAIN batch |-> SizeOf[batch[i].ev]]
           w == Sizes(r, base + 1, base + n, base + n)
<1>1. /\ n \in Nat /\ DOMAIN batch = 1..n /\ \A k \in 1..n : SizeOf[batch[k].ev] \in Nat
      /\ base + 1 \in Seqs /\ base + n \in Nat
  <2>1. \A k \in 1..n : batch[k] \in Stamped
    OBVIOUS
  <2>2. \A k \in 1..n : batch[k].ev \in Events
    BY <2>1 DEF Stamped
  <2> QED
    BY <2>2, LogAssumption DEF Seqs
<1>2. HasSizes(r, base + 1, base + n)
  <2> SUFFICES ASSUME NEW k \in (base + 1)..(base + n) PROVE SizeOf[r[k].ev] \in Nat
    BY DEF HasSizes
  <2>1. k - base \in 1..n /\ base + (k - base) = k
    BY <1>1
  <2> QED
    BY <1>1, <2>1
<1>3. BytesOf(r, (base + 1)..(base + n)) = SumTo(w, base + n)
  BY <1>1, <1>2, BytesAt
<1>4. \A k \in 1..(base + n) : w[k] = IF k \in (base + 1)..(base + n) THEN SizeOf[r[k].ev] ELSE 0
  <2>1. PICK a \in Seqs, m \in Nat : a = base + 1 /\ m = base + n
    BY <1>1
  <2>2. HasSizes(r, a, m) /\ w = Sizes(r, a, m, m)
    BY <1>2, <2>1
  <2> HIDE DEF w
  <2>3. /\ Weights(Sizes(r, a, m, m), m)
        /\ \A k \in 1..m : Sizes(r, a, m, m)[k] = IF k \in a..m THEN SizeOf[r[k].ev] ELSE 0
    <3>1. \A x \in Nat : \A y \in Seqs : HasSizes(r, y, x) => \A z \in Nat :
            /\ Weights(Sizes(r, y, x, z), z)
            /\ \A k \in 1..z : Sizes(r, y, x, z)[k] = IF k \in y..x THEN SizeOf[r[k].ev] ELSE 0
      BY SizesFacts
    <3> QED
      BY <2>2, <3>1
  <2> QED
    BY <2>1, <2>2, <2>3
<1>5. Weights(u, n) /\ \A k \in 1..n : u[k] = SizeOf[batch[k].ev]
  BY <1>1 DEF Weights
<1>6. BatchBytes(batch) = SumTo(u, n)
  BY DEF BatchBytes
<1> HIDE DEF w, u
<1>7. \A k \in 1..base : w[k] = 0
  BY <1>1, <1>4
<1>8. ASSUME NEW k \in 1..n PROVE w[base + k] = u[k]
  <2>1. base + k \in 1..(base + n) /\ base + k \in (base + 1)..(base + n)
    BY <1>1
  <2>2. w[base + k] = SizeOf[r[base + k].ev]
    BY <1>4, <2>1
  <2> QED
    BY <1>5, <2>2
<1>9. SumTo(w, base + n) = SumTo(u, n)
  BY <1>1, <1>5, <1>7, <1>8, SumShift
<1>10. PICK f \in [0..n -> Nat] : SumTo(u, n) = f[n]
  BY <1>1, <1>5, SumRuns
<1> QED
  BY <1>1, <1>3, <1>6, <1>9, <1>10

-----------------------------------------------------------------------------
(* The byte counter *)

\* The bytes of a batch that is committed and not yet counted.
Owed ==
  IF writer \in Tasks /\ pc[writer] \in {"committed", "publishing"}
    THEN BatchBytes(job[writer].batch)
    ELSE 0

\* retained_bytes and what is owed to it make up the size of the table.
ByteInv ==
  up => retained_bytes \in Nat /\ retained_bytes + Owed = BytesOf(rows, DOMAIN rows)

\* An interval with the empty one written 1..0.
Run(a, b) == a <= b \/ (a = 1 /\ b = 0)

\* The table is an interval of rows that have sizes.
LEMMA TableRun ==
  ASSUME Inv
  PROVE  \E a \in Seqs, b \in Nat : DOMAIN rows = a..b /\ Run(a, b) /\ HasSizes(rows, a, b)
<1>1. PICK a \in Seqs, b \in Nat : DOMAIN rows = a..b
  BY OpenShape DEF Inv, DownInv
<1>2. ASSUME NEW k \in DOMAIN rows PROVE SizeOf[rows[k].ev] \in Nat
  <2>1. rows[k] \in Row
    BY DEF Inv, TypeOK
  <2>2. rows[k].ev \in Events
    BY <2>1 DEF Row
  <2> QED
    BY <2>2, LogAssumption
<1>3. CASE a <= b
  BY <1>1, <1>2, <1>3 DEF Run, HasSizes
<1>4. CASE a > b
  <2>1. DOMAIN rows = 1..0 /\ 1 \in Seqs /\ 0 \in Nat /\ Run(1, 0) /\ HasSizes(rows, 1, 0)
    BY <1>1, <1>4 DEF Run, HasSizes, Seqs
  <2> QED
    BY <2>1
<1> QED
  BY <1>3, <1>4 DEF Seqs

\* What a front cuts off a run of rows, and what it leaves.
LEMMA FrontCut ==
  ASSUME NEW r, NEW a \in Seqs, NEW b \in Nat, DOMAIN r = a..b, Run(a, b), NEW c \in Fronts(r)
  PROVE  /\ c \in Seqs /\ a <= c /\ c <= b + 1
         /\ Removed(r, c) = a..(c - 1)
         /\ DOMAIN r \ Removed(r, c) = c..b
<1>1. c \in Seqs /\ a <= c /\ c <= b + 1
  <2>1. CASE a <= b
    BY <2>1, IntervalKeys DEF Fronts, Seqs
  <2>2. CASE a = 1 /\ b = 0
    <3>1. DOMAIN r = {} /\ LastKey(DOMAIN r) = 0
      BY <2>2, IntervalKeys DEF Seqs
    <3>2. c = 1
      BY <3>1 DEF Fronts
    <3> QED
      BY <2>2, <3>2 DEF Seqs
  <2> QED
    BY <2>1, <2>2 DEF Run
<1>2. Removed(r, c) = a..(c - 1)
  BY <1>1 DEF Removed, Seqs
<1>3. DOMAIN r \ Removed(r, c) = c..b
  BY <1>1, <1>2 DEF Seqs
<1> QED
  BY <1>1, <1>2, <1>3

\* The saturating subtraction of the prune loop never saturates.
LEMMA CutBytes ==
  ASSUME NEW r, NEW a \in Seqs, NEW b \in Nat, HasSizes(r, a, b), NEW c \in Seqs, a <= c, c <= b + 1
  PROVE  /\ SatSub(BytesOf(r, a..b), BytesOf(r, a..(c - 1))) = BytesOf(r, c..b)
         /\ BytesOf(r, c..b) \in Nat
<1>1. /\ BytesOf(r, a..b) = BytesOf(r, a..(c - 1)) + BytesOf(r, c..b)
      /\ {BytesOf(r, a..b), BytesOf(r, a..(c - 1)), BytesOf(r, c..b)} \subseteq Nat
  BY BytesCut
<1>2. PICK x \in Nat, y \in Nat : x = BytesOf(r, a..(c - 1)) /\ y = BytesOf(r, c..b)
  BY <1>1
<1>3. SatSub(x + y, x) = y
  BY DEF SatSub
<1> QED
  BY <1>1, <1>2, <1>3

\* The same for the table a prune leaves.
LEMMA PrunedBytes ==
  ASSUME NEW r, NEW a \in Seqs, NEW b \in Nat, DOMAIN r = a..b, Run(a, b), HasSizes(r, a, b),
         NEW c \in Fronts(r), NEW q, q = Only(r, DOMAIN r \ Removed(r, c))
  PROVE  /\ SatSub(BytesOf(r, DOMAIN r), BytesOf(r, Removed(r, c))) = BytesOf(q, DOMAIN q)
         /\ BytesOf(q, DOMAIN q) \in Nat
<1>1. /\ c \in Seqs /\ a <= c /\ c <= b + 1
      /\ Removed(r, c) = a..(c - 1)
      /\ DOMAIN r \ Removed(r, c) = c..b
  <2>1. c \in Seqs
    BY FrontCut
  <2>2. a <= c /\ c <= b + 1
    BY FrontCut
  <2>3. Removed(r, c) = a..(c - 1)
    BY FrontCut
  <2>4. DOMAIN r \ Removed(r, c) = c..b
    BY <2>1, <2>2, <2>3 DEF Seqs
  <2> QED
    BY <2>1, <2>2, <2>3, <2>4
<1>2. DOMAIN q = c..b /\ \A k \in c..b : r[k] = q[k]
  BY <1>1 DEF Only
<1>3. BytesOf(r, c..b) = BytesOf(q, c..b)
  <2>1. PICK d \in Seqs : d = c
    BY <1>1
  <2>2. \A k \in d..b : r[k] = q[k]
    BY <1>2, <2>1
  <2>3. BytesOf(r, d..b) = BytesOf(q, d..b)
    BY ONLY <2>2, BytesSame
  <2> QED
    BY <2>1, <2>3
<1>4. /\ SatSub(BytesOf(r, a..b), BytesOf(r, a..(c - 1))) = BytesOf(r, c..b)
      /\ BytesOf(r, c..b) \in Nat
  BY <1>1, CutBytes
<1> QED
  BY <1>1, <1>2, <1>3, <1>4

\* Rows appended after the last one add their bytes.
LEMMA CommitBytes ==
  ASSUME NEW t \in Tasks, Inv, AppendCommit(t)
  PROVE  /\ BytesOf(rows', DOMAIN rows') = BytesOf(rows, DOMAIN rows) + BatchBytes(job[t].batch)
         /\ BatchBytes(job[t].batch) \in Nat
<1> DEFINE base == job[t].base
           batch == job[t].batch
           n == Len(batch)
           added == [s \in (base + 1)..(base + n) |->
                       [id |-> batch[s - base].id, ev |-> batch[s - base].ev,
                        ts |-> job[t].ts]]
<1>1. /\ pc[t] = "writing"
      /\ rows' = [s \in DOMAIN rows \cup DOMAIN added |->
                    IF s \in DOMAIN added THEN added[s] ELSE rows[s]]
  BY DEF AppendCommit
<1>2. /\ t \in Procs /\ t # Pruner
      /\ base \in Nat /\ n \in Nat /\ n > 0 /\ base = head
      /\ batch \in Seq(Stamped)
  <2>1. t \in Procs /\ t # Pruner
    BY LogAssumption DEF Procs
  <2>2. n > 0 /\ base = head
    BY <1>1 DEF Inv, CallInv
  <2> QED BY <2>1, <2>2, JobFacts DEF Inv
<1>3. DOMAIN added = (base + 1)..(base + n)
  OBVIOUS
<1>4. \A k \in 1..n : base + k \in DOMAIN added /\ added[base + k].ev = batch[k].ev
  <2> SUFFICES ASSUME NEW k \in 1..n PROVE base + k \in DOMAIN added /\ added[base + k].ev = batch[k].ev
    OBVIOUS
  <2>1. base + k \in (base + 1)..(base + n) /\ (base + k) - base = k
    BY <1>2
  <2> QED
    BY <2>1
<1> HIDE DEF added
<1>5. /\ DOMAIN rows' = DOMAIN rows \cup ((base + 1)..(base + n))
      /\ \A k \in 1..n : rows'[base + k].ev = batch[k].ev
      /\ \A s \in DOMAIN rows \ DOMAIN added : rows'[s] = rows[s]
  BY <1>1, <1>3, <1>4
<1>6. writer = t /\ up
  BY <1>1, <1>2 DEF Inv, MutexInv, Holding
<1>7. /\ DOMAIN rows = Interval(floor, base)
      /\ floor \in Nat /\ (floor # 0 => floor <= base)
  BY <1>1, <1>2, <1>6, AtomicFacts DEF Inv, TableInv
<1> HIDE DEF base, batch, n
<1>8. PICK a \in Seqs : DOMAIN rows = a..base /\ a <= base + 1
  <2>1. CASE floor = 0
    <3>1. DOMAIN rows = (base + 1)..base /\ base + 1 \in Seqs /\ base + 1 <= base + 1
      BY <1>2, <1>7, <2>1 DEF Interval, Seqs
    <3> QED
      BY <3>1
  <2>2. CASE floor # 0
    BY <1>2, <1>7, <2>2 DEF Interval, Seqs
  <2> QED
    BY <2>1, <2>2
<1>9. PICK c \in Seqs, b \in Nat : c = base + 1 /\ b = base + n
  BY <1>2 DEF Seqs
<1>10. DOMAIN rows' = a..b /\ a <= c /\ c <= b + 1 /\ c - 1 = base
  BY <1>2, <1>5, <1>8, <1>9 DEF Seqs
<1>11. HasSizes(rows', a, b)
  <2> SUFFICES ASSUME NEW k \in a..b PROVE SizeOf[rows'[k].ev] \in Nat
    BY DEF HasSizes
  <2>1. CASE k \in DOMAIN rows
    <3>1. rows[k] \in Row /\ rows'[k] = rows[k]
      BY <1>2, <1>3, <1>5, <1>8, <2>1 DEF Inv, TypeOK, base, n, batch
    <3>2. rows[k].ev \in Events
      BY <3>1 DEF Row
    <3> QED
      BY <3>1, <3>2, LogAssumption
  <2>2. CASE k \notin DOMAIN rows
    <3>1. k - base \in 1..n /\ base + (k - base) = k
      BY <1>2, <1>8, <1>9, <2>2 DEF Seqs
    <3>2. rows'[k].ev = batch[k - base].ev /\ batch[k - base] \in Stamped
      BY <1>2, <1>5, <3>1 DEF n
    <3>3. batch[k - base].ev \in Events
      BY <3>2 DEF Stamped
    <3> QED
      BY <3>2, <3>3, LogAssumption
  <2> QED
    BY <2>1, <2>2
<1>12. BytesOf(rows', a..b) = BytesOf(rows', a..(c - 1)) + BytesOf(rows', c..b)
  BY <1>10, <1>11, BytesCut
<1>13. BytesOf(rows', a..base) = BytesOf(rows, a..base)
  <2>1. \A k \in a..base : rows'[k] = rows[k]
    BY <1>2, <1>3, <1>5, <1>8 DEF base, n, batch, Seqs
  <2> QED
    BY <1>2, <2>1, BytesSame
<1>14. BytesOf(rows', (base + 1)..(base + n)) = BatchBytes(batch) /\ BatchBytes(batch) \in Nat
  <2>1. batch \in Seq(Stamped) /\ base \in Nat /\ n = Len(batch)
    BY <1>2 DEF n
  <2>2. \A k \in 1..Len(batch) : rows'[base + k].ev = batch[k].ev
    BY <1>5, <2>1
  <2>3. /\ BytesOf(rows', (base + 1)..(base + Len(batch))) = BatchBytes(batch)
        /\ BatchBytes(batch) \in Nat
    BY ONLY <2>1, <2>2, BytesBatch
  <2> QED
    BY <2>1, <2>3
<1> QED
  BY <1>8, <1>9, <1>10, <1>12, <1>13, <1>14 DEF batch

\* The size of a batch is a number.
LEMMA BatchNat ==
  ASSUME NEW batch \in Seq(Stamped)
  PROVE  BatchBytes(batch) \in Nat
<1>1. PICK base \in Nat : base = 0
  OBVIOUS
<1>2. \A k \in 1..Len(batch) : batch[base + k].ev = batch[k].ev
  BY <1>1
<1> QED
  BY <1>2, BytesBatch

\* The size of the table is a number.
LEMMA TableNat ==
  ASSUME Inv
  PROVE  BytesOf(rows, DOMAIN rows) \in Nat
<1>1. PICK a \in Seqs, b \in Nat : DOMAIN rows = a..b /\ Run(a, b) /\ HasSizes(rows, a, b)
  BY TableRun
<1>2. a <= a /\ a <= b + 1
  BY <1>1 DEF Run, Seqs
<1>3. BytesOf(rows, a..b) \in Nat
  BY <1>1, <1>2, CutBytes
<1> QED
  BY <1>1, <1>3

\* Nothing is owed outside an append's stores.
LEMMA NothingOwed ==
  ASSUME writer \in Tasks => pc[writer] \notin {"committed", "publishing"}
  PROVE  Owed = 0
BY DEF Owed

\* An action that leaves the table, the counter and what is owed alone.
LEMMA ByteQuiet ==
  ASSUME ByteInv, rows' = rows, retained_bytes' = retained_bytes, up' = up, Owed' = Owed
  PROVE  ByteInv'
BY DEF ByteInv

LEMMA InitByteInv == Init => ByteInv
BY DEF Init, ByteInv

LEMMA AppendQuiet ==
  ASSUME NEW t \in Tasks, Inv, ByteInv,
         \/ \E n \in 1..MaxBatch : \E batch \in [1..n -> Events] : AppendCall(t, batch)
         \/ AppendFail(t) \/ StoreHead(t) \/ AppendReturn(t)
  PROVE  ByteInv'
<1> USE LogAssumption
<1>1. /\ rows' = rows /\ retained_bytes' = retained_bytes /\ up' = up
  BY DEF AppendCall, AppendFail, StoreHead, AppendReturn, diskVars, atomics, envVars
<1>2. t \in Procs /\ t # Pruner /\ t # Nobody /\ pc \in [Procs -> PcValues] /\ job \in [Procs -> Job]
  BY DEF Procs, Inv, TypeOK
<1>3. \A p \in Procs : pc[p] \in Holding <=> writer = p
  BY DEF Inv, MutexInv
<1>4. Tasks \subseteq Procs /\ Nobody \notin Tasks
  BY DEF Procs
<1>5. CASE pc[t] \in {"idle", "ok", "err"} /\ writer' = writer
           /\ (\A p \in Procs \ {t} : pc'[p] = pc[p] /\ job'[p] = job[p])
  <2>1. writer # t
    BY <1>2, <1>3, <1>5 DEF Holding
  <2>2. Owed' = Owed
    BY <1>4, <1>5, <2>1 DEF Owed
  <2> QED
    BY <1>1, <2>2, ByteQuiet
<1>6. CASE pc[t] = "writing" /\ writer' = Nobody
  <2>1. writer = t
    BY <1>2, <1>3, <1>6 DEF Holding
  <2>2. Owed = 0 /\ Owed' = 0
    BY <1>4, <1>6, <2>1 DEF Owed
  <2> QED
    BY <1>1, <2>2, ByteQuiet
<1>7. CASE pc[t] = "committed" /\ writer' = writer /\ pc'[t] = "publishing" /\ job' = job
  <2>1. writer = t
    BY <1>2, <1>3, <1>7 DEF Holding
  <2>2. Owed' = Owed
    BY <1>7, <2>1 DEF Owed
  <2> QED
    BY <1>1, <2>2, ByteQuiet
<1>8. CASE \E n \in 1..MaxBatch : \E batch \in [1..n -> Events] : AppendCall(t, batch)
  <2>1. /\ pc[t] = "idle" /\ writer' = writer /\ pc' = [pc EXCEPT ![t] = "waiting"]
        /\ \E j : job' = [job EXCEPT ![t] = j]
    BY <1>8 DEF AppendCall
  <2> QED
    BY <1>2, <1>5, <2>1
<1>9. CASE AppendFail(t)
  BY <1>6, <1>9 DEF AppendFail
<1>10. CASE StoreHead(t)
  <2>1. pc[t] = "committed" /\ writer' = writer /\ pc' = [pc EXCEPT ![t] = "publishing"] /\ job' = job
    BY <1>10 DEF StoreHead
  <2> QED
    BY <1>2, <1>7, <2>1
<1>11. CASE AppendReturn(t)
  <2>1. /\ pc[t] \in {"ok", "err"} /\ writer' = writer /\ pc' = [pc EXCEPT ![t] = "idle"]
        /\ job' = [job EXCEPT ![t] = NoJob]
    BY <1>11 DEF AppendReturn
  <2> QED
    BY <1>2, <1>5, <2>1
<1> QED
  BY <1>8, <1>9, <1>10, <1>11

LEMMA OtherQuiet ==
  ASSUME Inv, ByteInv, (\E p \in Procs : Lock(p)) \/ PruneCall \/ PruneFail \/ PruneStore \/ Clock
  PROVE  ByteInv'
<1> USE LogAssumption
<1>1. /\ rows' = rows /\ retained_bytes' = retained_bytes /\ up' = up
  BY DEF Lock, PruneCall, PruneFail, PruneStore, Clock, diskVars, atomics, envVars
<1>2. Pruner \in Procs /\ Pruner \notin Tasks /\ pc \in [Procs -> PcValues] /\ job \in [Procs -> Job]
  BY DEF Procs, Inv, TypeOK
<1>3. \A p \in Procs : pc[p] \in Holding <=> writer = p
  BY DEF Inv, MutexInv
<1>4. Tasks \subseteq Procs /\ Nobody \notin Tasks
  BY DEF Procs
<1>5. ASSUME NEW p \in Procs, Lock(p) PROVE ByteInv'
  <2>1. writer = Nobody /\ writer' = p /\ pc' = [pc EXCEPT ![p] = "writing"]
    BY <1>5 DEF Lock, CanLock
  <2>2. Owed = 0
    BY <1>4, <2>1 DEF Owed
  <2>3. pc'[p] = "writing"
    BY <1>2, <2>1
  <2>4. Owed' = 0
    BY <2>1, <2>3 DEF Owed
  <2> QED
    BY <1>1, <2>2, <2>4, ByteQuiet
<1>6. CASE PruneCall \/ Clock
  <2>1. writer' = writer /\ \A p \in Tasks : pc'[p] = pc[p] /\ job'[p] = job[p]
    BY <1>2, <1>4, <1>6 DEF PruneCall, Clock, callVars
  <2>2. Owed' = Owed
    BY <2>1 DEF Owed
  <2> QED
    BY <1>1, <2>2, ByteQuiet
<1>7. CASE PruneFail \/ PruneStore
  <2>1. writer' = Nobody /\ pc[Pruner] \in Holding
    BY <1>7 DEF PruneFail, PruneStore, Holding
  <2>2. writer = Pruner
    BY <1>2, <1>3, <2>1
  <2>3. Owed = 0 /\ Owed' = 0
    BY <1>2, <1>4, <2>1, <2>2 DEF Owed
  <2> QED
    BY <1>1, <2>3, ByteQuiet
<1> QED
  BY <1>5, <1>6, <1>7

LEMMA CommitByteInv ==
  ASSUME NEW t \in Tasks, Inv, ByteInv, AppendCommit(t)
  PROVE  ByteInv'
<1> USE LogAssumption
<1>1. /\ pc[t] = "writing" /\ pc' = [pc EXCEPT ![t] = "committed"]
      /\ writer' = writer /\ job' = job /\ retained_bytes' = retained_bytes /\ up' = up
  BY DEF AppendCommit, atomics, envVars
<1>2. t \in Procs /\ pc \in [Procs -> PcValues]
  BY DEF Procs, Inv, TypeOK
<1>3. writer = t /\ up
  BY <1>1, <1>2 DEF Inv, MutexInv, Holding
<1>4. Owed = 0 /\ Owed' = BatchBytes(job[t].batch)
  BY <1>1, <1>2, <1>3 DEF Owed
<1>5. /\ BytesOf(rows', DOMAIN rows') = BytesOf(rows, DOMAIN rows) + BatchBytes(job[t].batch)
      /\ BatchBytes(job[t].batch) \in Nat
  BY CommitBytes
<1>6. retained_bytes \in Nat /\ retained_bytes = BytesOf(rows, DOMAIN rows)
  BY <1>3, <1>4 DEF ByteInv
<1> QED
  BY <1>1, <1>4, <1>5, <1>6 DEF ByteInv

LEMMA StoreFloorByteInv ==
  ASSUME NEW t \in Tasks, Inv, ByteInv, StoreFloor(t)
  PROVE  ByteInv'
<1> USE LogAssumption
<1>1. /\ pc[t] = "publishing" /\ writer' = Nobody
      /\ retained_bytes' = retained_bytes + BatchBytes(job[t].batch) /\ up' = up /\ rows' = rows
  BY DEF StoreFloor, diskVars, envVars
<1>2. t \in Procs /\ Nobody \notin Tasks
  BY DEF Procs
<1>3. writer = t /\ up
  BY <1>1, <1>2 DEF Inv, MutexInv, Holding
<1>4. Owed = BatchBytes(job[t].batch) /\ Owed' = 0
  BY <1>1, <1>2, <1>3 DEF Owed
<1>5. BytesOf(rows, DOMAIN rows) \in Nat
  BY TableNat
<1>6. retained_bytes' = BytesOf(rows, DOMAIN rows)
  BY <1>1, <1>3, <1>4 DEF ByteInv
<1> QED
  BY <1>1, <1>4, <1>5, <1>6 DEF ByteInv

LEMMA PruneByteInv ==
  ASSUME Inv, ByteInv, PruneCommit \/ Open
  PROVE  ByteInv'
<1> USE LogAssumption
<1>1. PICK a \in Seqs, b \in Nat : DOMAIN rows = a..b /\ Run(a, b) /\ HasSizes(rows, a, b)
  BY TableRun
<1>2. Pruner \in Procs /\ Pruner \notin Tasks /\ Tasks \subseteq Procs /\ pc \in [Procs -> PcValues]
  BY DEF Procs, Inv, TypeOK
<1>3. CASE PruneCommit
  <2>1. PICK c \in Fronts(rows) :
          /\ rows' = Only(rows, DOMAIN rows \ Removed(rows, c))
          /\ retained_bytes' = SatSub(retained_bytes, BytesOf(rows, Removed(rows, c)))
    BY <1>3 DEF PruneCommit
  <2>2. pc[Pruner] = "writing" /\ writer' = writer /\ up' = up
    BY <1>3 DEF PruneCommit, envVars
  <2>3. writer = Pruner /\ up
    BY <1>2, <2>2 DEF Inv, MutexInv, Holding
  <2>4. Owed = 0 /\ Owed' = 0
    BY <1>2, <2>2, <2>3 DEF Owed
  <2>5. retained_bytes = BytesOf(rows, DOMAIN rows)
    BY <2>3, <2>4 DEF ByteInv
  <2>6. retained_bytes' = BytesOf(rows', DOMAIN rows') /\ retained_bytes' \in Nat
    BY <1>1, <2>1, <2>5, PrunedBytes
  <2> QED
    BY <2>4, <2>6 DEF ByteInv
<1>4. CASE Open
  <2>1. PICK c \in Fronts(rows) :
          /\ rows' = Only(rows, DOMAIN rows \ Removed(rows, c))
          /\ retained_bytes' = SatSub(BytesOf(rows, DOMAIN rows), BytesOf(rows, Removed(rows, c)))
    BY <1>4 DEF Open
  <2>2. ~up /\ writer' = writer /\ pc' = pc
    BY <1>4 DEF Open, callVars
  <2>3. Owed' = 0
    BY <1>2, <2>2 DEF Owed, Inv, MutexInv
  <2>4. retained_bytes' = BytesOf(rows', DOMAIN rows') /\ retained_bytes' \in Nat
    BY <1>1, <2>1, PrunedBytes
  <2> QED
    BY <2>3, <2>4 DEF ByteInv
<1> QED
  BY <1>3, <1>4

LEMMA NextByteInv == Inv /\ ByteInv /\ [Next]_logVars => ByteInv'
<1> SUFFICES ASSUME Inv, ByteInv, [Next]_logVars PROVE ByteInv'
  OBVIOUS
<1>1. ASSUME NEW t \in Tasks, AppendStep(t) PROVE ByteInv'
  <2>1. CASE AppendBatch(t)
    <3>1. \E n \in 1..MaxBatch : \E batch \in [1..n -> Events] : AppendCall(t, batch)
      BY <2>1 DEF AppendBatch
    <3> QED
      BY <3>1, AppendQuiet
  <2> QED
    BY <1>1, <2>1, AppendQuiet, CommitByteInv, StoreFloorByteInv DEF AppendStep
<1>2. CASE \E p \in Procs : Lock(p)
  BY <1>2, OtherQuiet
<1>3. CASE PruneStep
  BY <1>3, OtherQuiet, PruneByteInv DEF PruneStep
<1>4. CASE Crash
  BY <1>4 DEF Crash, ByteInv
<1>5. CASE Open \/ Clock
  BY <1>5, PruneByteInv, OtherQuiet
<1>6. CASE UNCHANGED logVars
  BY <1>6 DEF logVars, diskVars, atomics, callVars, envVars, ByteInv, Owed
<1> QED
  BY <1>1, <1>2, <1>3, <1>4, <1>5, <1>6 DEF Next

\* The byte counter follows the table through failures, prunes and restarts.
THEOREM ByteInvariance == Spec => []ByteInv
BY Invariance, InitByteInv, NextByteInv, PTL DEF Spec

-----------------------------------------------------------------------------
(* The prune loop removes what the limits demand *)

\* With exact counters the loop's test at a front is about the rows from there on.
LEMMA ExceedsExact ==
  ASSUME NEW r, NEW a \in Seqs, NEW b \in Nat, DOMAIN r = a..b, HasSizes(r, a, b),
         NEW now_ms, NEW c \in Seqs, a <= c, c <= b
  PROVE  OverLimit(r, now_ms, Cardinality(a..b), BytesOf(r, a..b), c) <=> Exceeds(r, c..b, now_ms)
<1>1. Removed(r, c) = a..(c - 1)
  BY DEF Removed, Seqs
<1>2. Cardinality(a..b) - Cardinality(a..(c - 1)) = Cardinality(c..b)
  <2>1. Cardinality(a..b) = b - a + 1
    BY FS_Interval DEF Seqs
  <2>2. Cardinality(a..(c - 1)) = c - a
    <3>1. Cardinality(a..(c - 1)) = IF a > c - 1 THEN 0 ELSE (c - 1) - a + 1
      BY FS_Interval DEF Seqs
    <3> QED
      BY <3>1 DEF Seqs
  <2>3. Cardinality(c..b) = b - c + 1
    BY FS_Interval DEF Seqs
  <2> QED
    BY <2>1, <2>2, <2>3 DEF Seqs
<1>3. SatSub(BytesOf(r, a..b), BytesOf(r, a..(c - 1))) = BytesOf(r, c..b)
  <2>1. c <= b + 1
    BY DEF Seqs
  <2> QED
    BY <2>1, CutBytes
<1>4. Min(c..b) = c
  <2>1. c \in c..b /\ \A y \in c..b : c <= y
    BY DEF Seqs
  <2> QED
    BY <2>1 DEF Min, Seqs
<1> QED
  BY <1>1, <1>2, <1>3, <1>4 DEF OverLimit, Exceeds

\* So what the loop leaves is within the limits, and what it took last was not.
LEMMA StopExact ==
  ASSUME NEW r, NEW a \in Seqs, NEW b \in Nat, DOMAIN r = a..b, Run(a, b), HasSizes(r, a, b),
         NEW now_ms, NEW c \in Fronts(r),
         PruneStopsAt(r, now_ms, Cardinality(a..b), BytesOf(r, a..b), c),
         NEW q, q = Only(r, DOMAIN r \ Removed(r, c))
  PROVE  /\ DOMAIN q # {} => ~Exceeds(r, DOMAIN q, now_ms)
         /\ DOMAIN r \ DOMAIN q # {} =>
              Exceeds(r, DOMAIN q \cup {Max(DOMAIN r \ DOMAIN q)}, now_ms)
<1>1. /\ c \in Seqs /\ a <= c /\ c <= b + 1
      /\ Removed(r, c) = a..(c - 1)
      /\ DOMAIN r \ Removed(r, c) = c..b
  <2>1. c \in Seqs
    BY FrontCut
  <2>2. a <= c /\ c <= b + 1
    BY FrontCut
  <2>3. Removed(r, c) = a..(c - 1)
    BY FrontCut
  <2>4. DOMAIN r \ Removed(r, c) = c..b
    BY <2>1, <2>2, <2>3 DEF Seqs
  <2> QED
    BY <2>1, <2>2, <2>3, <2>4
<1>2. DOMAIN q = c..b /\ DOMAIN r \ DOMAIN q = a..(c - 1)
  BY <1>1 DEF Only, Seqs
<1>3. ASSUME c..b # {} PROVE ~Exceeds(r, c..b, now_ms)
  <2>1. c <= b /\ c \in DOMAIN r
    BY <1>1, <1>3 DEF Seqs
  <2>2. ~OverLimit(r, now_ms, Cardinality(a..b), BytesOf(r, a..b), c)
    BY <2>1 DEF PruneStopsAt
  <2> QED
    BY <1>1, <2>1, <2>2, ExceedsExact
<1>4. ASSUME a..(c - 1) # {} PROVE Exceeds(r, c..b \cup {Max(a..(c - 1))}, now_ms)
  <2>1. PICK d \in Seqs : d = c - 1 /\ a <= d /\ d <= b /\ d < c /\ d \in DOMAIN r
    BY <1>1, <1>4 DEF Seqs
  <2>2. OverLimit(r, now_ms, Cardinality(a..b), BytesOf(r, a..b), d)
    BY <2>1 DEF PruneStopsAt
  <2>3. Exceeds(r, d..b, now_ms)
    BY <2>1, <2>2, ExceedsExact
  <2>4. Max(a..(c - 1)) = d
    <3>1. d \in a..d /\ \A y \in a..d : d >= y
      BY <2>1 DEF Seqs
    <3>2. Max(a..d) = d
      BY <3>1 DEF Max, Seqs
    <3> QED
      BY <2>1, <3>2
  <2>5. (c..b) \cup {d} = d..b
    BY <1>1, <2>1 DEF Seqs
  <2> QED
    BY <2>3, <2>4, <2>5
<1> QED
  BY <1>2, <1>3, <1>4

\* Under the mutex the pruner finds both counters exact.
LEMMA CountersExact ==
  ASSUME Inv, ByteInv, pc[Pruner] = "writing"
  PROVE  /\ up /\ retained_count = Cardinality(DOMAIN rows)
         /\ retained_bytes = BytesOf(rows, DOMAIN rows)
<1> USE LogAssumption
<1>1. up /\ writer = Pruner /\ Pruner \in Procs /\ Pruner \notin Tasks
  BY DEF Inv, MutexInv, Holding, Procs
<1>2. /\ DOMAIN rows = Interval(floor, head) /\ retained_count = Span(floor, head)
      /\ floor # 0 => floor <= head
  BY <1>1 DEF Inv, TableInv
<1>3. floor \in Nat /\ head \in Nat
  BY AtomicFacts DEF Inv
<1>4. retained_count = Cardinality(DOMAIN rows)
  BY <1>2, <1>3, ShapeIsInterval
<1>5. retained_bytes = BytesOf(rows, DOMAIN rows)
  BY <1>1 DEF ByteInv, Owed
<1> QED
  BY <1>1, <1>4, <1>5

\* The two places that prune, with the rows and the clock they use.
LEMMA PruneStops ==
  ASSUME Inv, ByteInv, PruneCommit \/ Open
  PROVE  \E c \in Fronts(rows) :
           /\ PruneStopsAt(rows, IF up THEN job[Pruner].ts ELSE now,
                           Cardinality(DOMAIN rows), BytesOf(rows, DOMAIN rows), c)
           /\ rows' = Only(rows, DOMAIN rows \ Removed(rows, c))
<1>1. CASE PruneCommit
  <2>1. pc[Pruner] = "writing"
    BY <1>1 DEF PruneCommit
  <2>2. PICK c \in Fronts(rows) :
          /\ PruneStopsAt(rows, job[Pruner].ts, retained_count, retained_bytes, c)
          /\ rows' = Only(rows, DOMAIN rows \ Removed(rows, c))
    BY <1>1 DEF PruneCommit
  <2>3. /\ up /\ retained_count = Cardinality(DOMAIN rows)
        /\ retained_bytes = BytesOf(rows, DOMAIN rows)
    BY <2>1, CountersExact
  <2> QED
    BY <2>2, <2>3
<1>2. CASE Open
  <2>1. ~up
    BY <1>2 DEF Open
  <2>2. PICK c \in Fronts(rows) :
          /\ PruneStopsAt(rows, now, Cardinality(DOMAIN rows), BytesOf(rows, DOMAIN rows), c)
          /\ rows' = Only(rows, DOMAIN rows \ Removed(rows, c))
    BY <1>2 DEF Open
  <2> QED
    BY <2>1, <2>2
<1> QED
  BY <1>1, <1>2

\* A prune takes rows until the rest is within the TTL, the count cap and the
\* byte cap, and not one row more, although the loop only knows the two counters
\* that appends, prunes and the scan of open maintain.
THEOREM PruneExactTheorem == Spec => PruneExact
<1>1. Inv /\ ByteInv /\ [Next]_logVars => [PruneExactStep]_logVars
  <2> SUFFICES ASSUME Inv, ByteInv, Next PROVE PruneExactStep
    OBVIOUS
  <2>1. CASE PruneCommit \/ Open
    <3>1. PICK a \in Seqs, b \in Nat : DOMAIN rows = a..b /\ Run(a, b) /\ HasSizes(rows, a, b)
      BY TableRun
    <3> DEFINE clock == IF up THEN job[Pruner].ts ELSE now
    <3>2. PICK c \in Fronts(rows) :
            /\ PruneStopsAt(rows, clock, Cardinality(DOMAIN rows), BytesOf(rows, DOMAIN rows), c)
            /\ rows' = Only(rows, DOMAIN rows \ Removed(rows, c))
      BY <2>1, PruneStops
    <3> HIDE DEF clock
    <3>3. /\ DOMAIN rows' # {} => ~Exceeds(rows, DOMAIN rows', clock)
          /\ DOMAIN rows \ DOMAIN rows' # {} =>
               Exceeds(rows, DOMAIN rows' \cup {Max(DOMAIN rows \ DOMAIN rows')}, clock)
      BY <3>1, <3>2, StopExact
    <3> QED
      BY <3>3 DEF PruneExactStep, clock
  <2>2. ASSUME ~PruneCommit, ~Open
        PROVE  ~(~up /\ up') /\ ~(pc[Pruner] = "writing" /\ pc'[Pruner] = "committed")
    <3> USE LogAssumption
    <3>1. Pruner \in Procs /\ Pruner \notin Tasks /\ Tasks \subseteq Procs /\ pc \in [Procs -> PcValues]
      BY DEF Procs, Inv, TypeOK
    <3>2. ASSUME NEW t \in Tasks, AppendStep(t) PROVE up' = up /\ pc'[Pruner] = pc[Pruner]
      <4>1. up' = up /\ \E x : pc' = [pc EXCEPT ![t] = x]
        BY <3>2 DEF AppendStep, AppendBatch, AppendCall, AppendCommit, AppendFail, StoreHead, StoreFloor,
             AppendReturn, envVars
      <4> QED
        BY <3>1, <4>1
    <3>3. ASSUME NEW p \in Procs, Lock(p)
          PROVE  up' = up /\ (pc'[Pruner] = pc[Pruner] \/ pc'[Pruner] = "writing")
      BY <3>1, <3>3 DEF Lock, envVars
    <3>4. CASE PruneStep
      BY <2>2, <3>1, <3>4 DEF PruneStep, PruneCall, PruneFail, PruneStore, envVars
    <3>5. CASE Crash
      BY <3>1, <3>5 DEF Crash
    <3>6. CASE Clock
      BY <3>6 DEF Clock, callVars
    <3> QED
      BY <2>2, <3>2, <3>3, <3>4, <3>5, <3>6 DEF Next
  <2> QED
    BY <2>1, <2>2 DEF PruneExactStep
<1> QED
  BY <1>1, Invariance, ByteInvariance, PTL DEF Spec, PruneExact

-----------------------------------------------------------------------------
(* What it takes to empty the log *)

\* A step that empties the table found its newest row past the TTL, or larger
\* than max_bytes by itself.
EmptiedStep ==
  (DOMAIN rows # {} /\ DOMAIN rows' = {}) =>
    \E b \in DOMAIN rows :
      /\ \A s \in DOMAIN rows : s <= b
      /\ \/ TooOld(IF up THEN job[Pruner].ts ELSE now, rows[b].ts)
         \/ SizeOf[rows[b].ev] > MaxBytes

\* The loop stops before the last row, when that row alone is within the limits.
LEMMA LastStays ==
  ASSUME NEW r, NEW a \in Seqs, NEW b \in Nat, DOMAIN r = a..b, a <= b, HasSizes(r, a, b),
         NEW now_ms, NEW c \in Fronts(r),
         PruneStopsAt(r, now_ms, Cardinality(a..b), BytesOf(r, a..b), c),
         ~TooOld(now_ms, r[b].ts), SizeOf[r[b].ev] <= MaxBytes
  PROVE  DOMAIN r \ Removed(r, c) # {}
<1>1. Run(a, b)
  BY DEF Run
<1>2. c \in Seqs /\ a <= c /\ c <= b + 1
  BY <1>1, FrontCut
<1>3. PICK d \in Seqs : d = b
  BY DEF Seqs
<1>4. ~Exceeds(r, d..d, now_ms)
  <2>1. Min(d..d) = d
    <3>1. d \in d..d /\ \A y \in d..d : d <= y
      BY DEF Seqs
    <3> QED
      BY <3>1 DEF Min, Seqs
  <2>2. Cardinality(d..d) = 1
    <3>1. d..d = {d}
      BY DEF Seqs
    <3>2. Cardinality({d}) = 1
      BY FS_Singleton
    <3> QED
      BY <3>1, <3>2
  <2>3. HasSizes(r, d, d) /\ SizeOf[r[d].ev] \in Nat
    BY <1>3 DEF HasSizes, Seqs
  <2>4. BytesOf(r, d..d) = SizeOf[r[d].ev]
    BY <2>3, BytesOne
  <2>5. ~(1 > MaxEvents) /\ ~(SizeOf[r[d].ev] > MaxBytes)
    BY <1>3, <2>3, LogAssumption
  <2> QED
    BY <1>3, <2>1, <2>2, <2>4, <2>5 DEF Exceeds
<1>5. ASSUME c = b + 1 PROVE FALSE
  <2>1. d \in DOMAIN r /\ d < c /\ a <= d /\ d <= b
    BY <1>3, <1>5 DEF Seqs
  <2>2. OverLimit(r, now_ms, Cardinality(a..b), BytesOf(r, a..b), d)
    BY <2>1 DEF PruneStopsAt
  <2>3. Exceeds(r, d..b, now_ms)
    BY <2>1, <2>2, ExceedsExact
  <2> QED
    BY <1>3, <1>4, <2>3
<1>6. b \in DOMAIN r /\ ~(b < c)
  BY <1>2, <1>5 DEF Seqs
<1> QED
  BY <1>6 DEF Removed

\* A prune that takes every row had to take the newest one.
LEMMA PruneEmpties ==
  ASSUME Inv, ByteInv, PruneCommit \/ Open
  PROVE  EmptiedStep
<1> SUFFICES ASSUME DOMAIN rows # {}, DOMAIN rows' = {}
             PROVE  \E b \in DOMAIN rows :
                      /\ \A s \in DOMAIN rows : s <= b
                      /\ \/ TooOld(IF up THEN job[Pruner].ts ELSE now, rows[b].ts)
                         \/ SizeOf[rows[b].ev] > MaxBytes
  BY DEF EmptiedStep
<1>1. PICK a \in Seqs, b \in Nat : DOMAIN rows = a..b /\ Run(a, b) /\ HasSizes(rows, a, b)
  BY TableRun
<1>2. a <= b /\ b \in DOMAIN rows /\ \A s \in DOMAIN rows : s <= b
  BY <1>1 DEF Seqs
<1> DEFINE clock == IF up THEN job[Pruner].ts ELSE now
<1>3. PICK c \in Fronts(rows) :
        /\ PruneStopsAt(rows, clock, Cardinality(DOMAIN rows), BytesOf(rows, DOMAIN rows), c)
        /\ rows' = Only(rows, DOMAIN rows \ Removed(rows, c))
  BY PruneStops
<1> HIDE DEF clock
<1>4. DOMAIN rows \ Removed(rows, c) = {}
  BY <1>3 DEF Only
<1>5. SizeOf[rows[b].ev] \in Nat
  BY <1>1, <1>2 DEF HasSizes
<1>6. TooOld(clock, rows[b].ts) \/ SizeOf[rows[b].ev] > MaxBytes
  <2> SUFFICES ASSUME ~TooOld(clock, rows[b].ts), SizeOf[rows[b].ev] <= MaxBytes PROVE FALSE
    BY <1>5, LogAssumption
  <2> QED
    BY <1>1, <1>2, <1>3, <1>4, LastStays
<1> QED
  BY <1>2, <1>6 DEF clock

\* Of the three limits only the TTL can empty the log, as long as no event is
\* larger than max_bytes: the count and the byte cap always leave the newest row
\* (the loop of delivery_log.rs:265-293).  So the reuse of seqs that
\* SeqNeverReused leaves open takes a silence longer than the retention.
THEOREM EmptiedByAgeTheorem == Spec => [][EmptiedStep]_logVars
<1>1. Inv /\ ByteInv /\ [Next]_logVars => [EmptiedStep]_logVars
  <2> SUFFICES ASSUME Inv, ByteInv, Next PROVE EmptiedStep
    OBVIOUS
  <2>1. ASSUME rows' = rows PROVE EmptiedStep
    BY <2>1 DEF EmptiedStep
  <2>2. ASSUME NEW t \in Tasks, AppendCommit(t) PROVE EmptiedStep
    BY <2>2 DEF AppendCommit, EmptiedStep
  <2>3. ASSUME NEW t \in Tasks, AppendStep(t), ~AppendCommit(t) PROVE rows' = rows
    BY <2>3 DEF AppendStep, AppendBatch, AppendCall, AppendFail, StoreHead, StoreFloor, AppendReturn, diskVars
  <2>4. ASSUME (\E p \in Procs : Lock(p)) \/ PruneStep \/ Crash \/ Clock, ~PruneCommit
        PROVE  rows' = rows
    BY <2>4 DEF Lock, PruneStep, PruneCall, PruneFail, PruneStore, Crash, Clock, diskVars
  <2> QED
    BY <2>1, <2>2, <2>3, <2>4, PruneEmpties DEF Next
<1> QED
  BY <1>1, Invariance, ByteInvariance, PTL DEF Spec
=============================================================================

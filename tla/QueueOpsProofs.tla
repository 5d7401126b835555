----------------------------- MODULE QueueOpsProofs -----------------------------
(***************************************************************************)
(* What the operations of the outbound queue do, for every pair of limits,  *)
(* every queue and every frame.  The queue's recursions (a sum over the     *)
(* frames, the eviction loop) are recursive functions: that such a function *)
(* exists, and what it computes, is shown from the least number at which it *)
(* would fail.                                                              *)
(***************************************************************************)
EXTENDS QueueOps, SequenceTheorems, WellFoundedInduction, TLAPS

\* A non-empty set of naturals has a least member.
LEMMA LeastMember ==
  ASSUME NEW S, S \subseteq Nat, S # {}
  PROVE  \E i \in S : \A j \in S : i <= j
<1>1. PICK i \in S : \A j \in S : ~(<<j, i>> \in OpToRel(<, Nat))
  BY WFMin, NatLessThanWellFounded
<1>2. ASSUME NEW j \in S PROVE i <= j
  <2>1. i \in Nat /\ j \in Nat
    OBVIOUS
  <2>2. j < i => <<j, i>> \in {ss \in Nat \X Nat : ss[1] < ss[2]}
    BY <2>1
  <2> QED
    BY <1>1, <2>1, <2>2 DEF OpToRel
<1> QED
  BY <1>1, <1>2

\* Induction up to n, for a property given as the set of numbers that have it.
LEMMA UpTo ==
  ASSUME NEW n \in Nat, NEW P, 0 \in P,
         \A k \in 0..n : k \in P /\ k < n => k + 1 \in P
  PROVE  0..n \subseteq P
<1> DEFINE Bad == (0..n) \ P
<1> SUFFICES ASSUME Bad # {} PROVE FALSE
  OBVIOUS
<1>0. Bad \subseteq Nat
  OBVIOUS
<1> HIDE DEF Bad
<1>1. PICK i \in Bad : \A j \in Bad : i <= j
  BY <1>0, LeastMember
<1> USE DEF Bad
<1>2. i # 0 /\ i - 1 \in 0..n /\ i - 1 < n /\ i = (i - 1) + 1
  BY <1>1
<1>3. i - 1 \in P
  BY <1>1, <1>2
<1> QED
  BY <1>1, <1>2, <1>3

\* F[k] takes S[k - 1] to S[k], and g goes from x through all of them.
Leads(n, F, S) == \A k \in 1..n : \A u \in S[k - 1] : F[k][u] \in S[k]
Trace(n, F, S, x, g) ==
  /\ g[0] = x
  /\ \A k \in 0..n : g[k] \in S[k]
  /\ \A k \in 1..n : g[k] = F[k][g[k - 1]]

\* Iteration: whoever starts in S[0] has a trace.
LEMMA Iterates ==
  ASSUME NEW n \in Nat, NEW U, NEW S \in [0..n -> SUBSET U], NEW x \in S[0],
         NEW F, Leads(n, F, S)
  PROVE  \E g \in [0..n -> U] : Trace(n, F, S, x, g)
<1> USE DEF Leads, Trace
<1> DEFINE Good(m, g) == /\ g \in [0..m -> U]
                         /\ g[0] = x
                         /\ \A k \in 0..m : g[k] \in S[k]
                         /\ \A k \in 1..m : g[k] = F[k][g[k - 1]]
           P == {m \in 0..n : \E g : Good(m, g)}
<1>1. 0 \in P
  <2>1. S[0] \subseteq U /\ x \in U
    OBVIOUS
  <2> DEFINE g == [k \in 0..0 |-> x]
  <2>2. Good(0, g) /\ 0 \in 0..n
    BY <2>1
  <2> HIDE DEF Good, g
  <2> QED
    BY <2>2
<1>2. ASSUME NEW m \in 0..n, m \in P, m < n PROVE m + 1 \in P
  <2>1. PICK g : Good(m, g)
    BY <1>2
  <2> DEFINE h == [k \in 0..(m + 1) |-> IF k <= m THEN g[k] ELSE F[m + 1][g[m]]]
  <2>2. F[m + 1][g[m]] \in S[m + 1] /\ S[m + 1] \subseteq U /\ m + 1 \in 0..n
    <3>1. m + 1 \in 1..n /\ (m + 1) - 1 = m /\ g[m] \in S[m]
      BY <1>2, <2>1
    <3> QED
      BY <3>1
  <2>3. \A k \in 0..(m + 1) : h[k] \in S[k] /\ h[k] \in U
    BY <2>1, <2>2
  <2>4. ASSUME NEW k \in 1..(m + 1) PROVE h[k] = F[k][h[k - 1]]
    <3>1. k - 1 <= m /\ k - 1 \in 0..(m + 1) /\ h[k - 1] = g[k - 1]
      BY <2>4
    <3>2. CASE k <= m
      BY <2>1, <3>1, <3>2
    <3>3. CASE ~(k <= m)
      <4>1. k = m + 1 /\ k - 1 = m
        BY <3>3
      <4> QED
        BY <3>1, <4>1
    <3> QED
      BY <3>2, <3>3
  <2>5. h \in [0..(m + 1) -> U] /\ h[0] = x
    BY <2>1, <2>3
  <2> HIDE DEF h
  <2>6. Good(m + 1, h)
    BY <2>3, <2>4, <2>5
  <2> QED
    BY <2>2, <2>6
<1> HIDE DEF P
<1>3. n \in P
  BY <1>1, <1>2, UpTo
<1> QED
  BY <1>3 DEF P

-----------------------------------------------------------------------------
(* Sums *)

\* p lists the sums of the prefixes of w.
PrefixSums(w, p) ==
  /\ p \in [0..Len(w) -> Nat] /\ p[0] = 0
  /\ \A i \in 1..Len(w) : p[i] = p[i - 1] + w[i]

\* The recursive function in Total is the list of prefix sums.
LEMMA TotalPrefixes ==
  ASSUME NEW w \in Seq(Nat)
  PROVE  \E p : PrefixSums(w, p) /\ Total(w) = p[Len(w)]
<1> DEFINE n == Len(w)
           F == [k \in 1..n |-> [u \in Nat |-> u + w[k]]]
           S == [k \in 0..n |-> Nat]
           Rec(g) == g = [i \in 0..n |-> IF i = 0 THEN 0 ELSE g[i - 1] + w[i]]
           upto == CHOOSE g : Rec(g)
<1>1. n \in Nat /\ \A k \in 1..n : w[k] \in Nat
  OBVIOUS
<1>2. \E g : Rec(g)
  <2>0. n \in Nat
    BY <1>1
  <2>1. S \in [0..n -> SUBSET Nat]
    BY <1>1
  <2>11. 0 \in S[0]
    BY <1>1
  <2>2. Leads(n, F, S)
    BY <1>1 DEF Leads
  <2>3. \E g \in [0..n -> Nat] : Trace(n, F, S, 0, g)
    <3> HIDE DEF S, F, n
    <3> QED
      BY <2>0, <2>1, <2>11, <2>2, Iterates, Zenon
  <2>4. PICK g \in [0..n -> Nat] : g[0] = 0 /\ \A k \in 1..n : g[k] = F[k][g[k - 1]]
    BY <2>3 DEF Trace
  <2>5. ASSUME NEW k \in 1..n PROVE g[k] = g[k - 1] + w[k]
    <3>1. k - 1 \in 0..n
      BY <1>1
    <3>2. g[k - 1] \in Nat
      BY <3>1, <2>4
    <3>3. F[k][g[k - 1]] = g[k - 1] + w[k]
      BY <3>2
    <3> QED
      BY <2>4, <3>3
  <2>6. Rec(g)
    BY <1>1, <2>4, <2>5
  <2> QED
    BY <2>6
<1>3. Rec(upto)
  BY <1>2
<1>4. Total(w) = upto[n]
  BY DEF Total
<1> HIDE DEF upto
<1>5. upto[0] = 0 /\ \A i \in 1..n : upto[i] = upto[i - 1] + w[i]
  BY <1>1, <1>3
<1>6. 0..n \subseteq {k \in 0..n : upto[k] \in Nat}
  <2> DEFINE P == {k \in 0..n : upto[k] \in Nat}
  <2>1. 0 \in P
    BY <1>1, <1>5
  <2>2. ASSUME NEW k \in 0..n, k \in P, k < n PROVE k + 1 \in P
    <3>1. k + 1 \in 1..n /\ (k + 1) - 1 = k /\ upto[k] \in Nat /\ w[k + 1] \in Nat
      BY <1>1, <2>2
    <3>2. upto[k + 1] = upto[k] + w[k + 1]
      BY <1>5, <3>1
    <3> QED
      BY <3>1, <3>2
  <2> HIDE DEF P, n
  <2>3. 0..n \subseteq P
    BY <1>1, <2>1, <2>2, UpTo
  <2> QED
    BY <2>3 DEF P
<1>7. PrefixSums(w, upto)
  <2>1. upto \in [0..n -> Nat]
    BY <1>3, <1>6
  <2> QED
    BY <1>5, <2>1 DEF PrefixSums
<1> QED
  BY <1>4, <1>7

\* Whatever list has the form of the prefix sums of w ends in its total.
LEMMA PrefixesTotal ==
  ASSUME NEW w \in Seq(Nat), NEW q,
         q[0] = 0, \A i \in 1..Len(w) : q[i] = q[i - 1] + w[i]
  PROVE  Total(w) = q[Len(w)] /\ Total(w) \in Nat
<1>1. PICK p : PrefixSums(w, p) /\ Total(w) = p[Len(w)]
  BY TotalPrefixes
<1> DEFINE n == Len(w)
           P == {k \in 0..n : p[k] = q[k]}
<1>2. n \in Nat
  OBVIOUS
<1>3. 0 \in P
  BY <1>1, <1>2 DEF PrefixSums
<1>4. ASSUME NEW k \in 0..n, k \in P, k < n PROVE k + 1 \in P
  <2>1. k + 1 \in 1..n /\ (k + 1) - 1 = k /\ p[k] = q[k]
    BY <1>2, <1>4
  <2> QED
    BY <1>1, <2>1 DEF PrefixSums
<1> HIDE DEF P, n
<1>5. 0..n \subseteq P
  BY <1>2, <1>3, <1>4, UpTo
<1> QED
  BY <1>1, <1>2, <1>5 DEF P, n, PrefixSums

\* The total is a number, zero when there is nothing to add.
LEMMA TotalType ==
  ASSUME NEW w \in Seq(Nat)
  PROVE  Total(w) \in Nat /\ ((\A i \in 1..Len(w) : w[i] = 0) => Total(w) = 0)
<1>1. Total(w) \in Nat
  BY TotalPrefixes DEF PrefixSums
<1>2. ASSUME \A i \in 1..Len(w) : w[i] = 0 PROVE Total(w) = 0
  <2> DEFINE q == [i \in 0..Len(w) |-> 0]
  <2>1. q[0] = 0 /\ q[Len(w)] = 0 /\ \A i \in 1..Len(w) : q[i] = q[i - 1] + w[i]
    BY <1>2
  <2> HIDE DEF q
  <2> QED
    BY <2>1, PrefixesTotal
<1> QED
  BY <1>1, <1>2

\* One more number at the end.
LEMMA TotalAppend ==
  ASSUME NEW w \in Seq(Nat), NEW v \in Seq(Nat), Len(v) = Len(w) + 1,
         \A i \in 1..Len(w) : v[i] = w[i]
  PROVE  Total(v) = Total(w) + v[Len(v)]
<1>1. PICK p : PrefixSums(w, p) /\ Total(w) = p[Len(w)]
  BY TotalPrefixes
<1> DEFINE n == Len(w)
           q == [i \in 0..(n + 1) |-> IF i <= n THEN p[i] ELSE p[n] + v[n + 1]]
<1>2. n \in Nat /\ Len(v) = n + 1
  OBVIOUS
<1>3. ASSUME NEW i \in 1..Len(v) PROVE q[i] = q[i - 1] + v[i]
  <2>1. CASE i <= n
    BY <1>1, <1>2, <2>1 DEF PrefixSums
  <2>2. CASE ~(i <= n)
    <3>1. i = n + 1 /\ i - 1 = n
      BY <1>2, <2>2
    <3> QED
      BY <1>2, <3>1
  <2> QED
    BY <2>1, <2>2
<1>4. q[0] = 0 /\ q[Len(v)] = Total(w) + v[Len(v)]
  BY <1>1, <1>2 DEF PrefixSums
<1> HIDE DEF q
<1> QED
  BY <1>3, <1>4, PrefixesTotal

\* One number less.
LEMMA TotalRemove ==
  ASSUME NEW w \in Seq(Nat), NEW v \in Seq(Nat), NEW k \in 1..Len(w),
         Len(v) = Len(w) - 1,
         \A i \in 1..Len(v) : v[i] = IF i < k THEN w[i] ELSE w[i + 1]
  PROVE  Total(w) = Total(v) + w[k]
<1>1. PICK p : PrefixSums(v, p) /\ Total(v) = p[Len(v)]
  BY TotalPrefixes
<1> DEFINE n == Len(w)
           q == [i \in 0..n |-> IF i < k THEN p[i] ELSE p[i - 1] + w[k]]
<1>2. n \in Nat /\ Len(v) = n - 1 /\ w[k] \in Nat /\ k \in 1..n
  OBVIOUS
<1>3. /\ p[0] = 0
      /\ \A i \in 0..(n - 1) : p[i] \in Nat
      /\ \A i \in 1..(n - 1) : p[i] = p[i - 1] + v[i]
  BY <1>1, <1>2 DEF PrefixSums
<1>q. /\ \A i \in 0..n : i < k => q[i] = p[i]
      /\ \A i \in 0..n : ~(i < k) => q[i] = p[i - 1] + w[k]
  OBVIOUS
<1> HIDE DEF q
<1>4. ASSUME NEW i \in 1..n PROVE q[i] = q[i - 1] + w[i]
  <2>0. i \in 0..n /\ i - 1 \in 0..n
    BY <1>2
  <2>1. CASE i < k
    <3>1. i \in 1..(n - 1) /\ v[i] = w[i] /\ i - 1 < k
      BY <1>2, <2>1
    <3> QED
      BY <1>3, <1>q, <2>0, <2>1, <3>1
  <2>2. CASE i = k
    <3>1. q[i] = p[i - 1] + w[k] /\ q[i - 1] = p[i - 1]
      BY <1>2, <1>q, <2>0, <2>2
    <3> QED
      BY <2>2, <3>1
  <2>3. CASE i > k
    <3>1. i - 1 \in 1..(n - 1) /\ ~(i - 1 < k) /\ (i - 1) + 1 = i
      BY <1>2, <2>3
    <3>2. p[i - 1] = p[(i - 1) - 1] + w[i]
      BY <1>2, <1>3, <3>1
    <3>3. q[i] = p[i - 1] + w[k] /\ q[i - 1] = p[(i - 1) - 1] + w[k]
      BY <1>2, <1>q, <2>0, <2>3, <3>1
    <3>4. p[(i - 1) - 1] \in Nat /\ w[i] \in Nat
      BY <1>2, <1>3, <3>1
    <3> QED
      BY <1>2, <3>2, <3>3, <3>4
  <2> QED
    BY <1>2, <2>1, <2>2, <2>3
<1>5. q[0] = 0 /\ q[n] = Total(v) + w[k]
  BY <1>1, <1>2, <1>3, <1>q
<1> QED
  BY <1>4, <1>5, PrefixesTotal

-----------------------------------------------------------------------------
(* Counting the events of a queue *)

\* FS is a set of frames.
FrameSet(FS) == \A f \in FS : f.is_event \in BOOLEAN /\ f.size \in Nat

Ones(frames) == [i \in 1..Len(frames) |-> IF frames[i].is_event THEN 1 ELSE 0]
Weights(frames) ==
  [i \in 1..Len(frames) |-> IF frames[i].is_event THEN frames[i].size ELSE 0]

\* The two sequences whose sums are the count and the weight of the events.
LEMMA SummandsType ==
  ASSUME NEW FS, FrameSet(FS), NEW s \in Seq(FS)
  PROVE  /\ Ones(s) \in Seq(Nat) /\ Len(Ones(s)) = Len(s)
         /\ Weights(s) \in Seq(Nat) /\ Len(Weights(s)) = Len(s)
         /\ EventCount(s) = Total(Ones(s)) /\ EventBytes(s) = Total(Weights(s))
<1>1. Len(s) \in Nat /\ \A i \in 1..Len(s) : s[i] \in FS
  OBVIOUS
<1>2. \A i \in 1..Len(s) : s[i].is_event \in BOOLEAN /\ s[i].size \in Nat
  BY <1>1 DEF FrameSet
<1>3. Ones(s) \in [1..Len(s) -> Nat] /\ Weights(s) \in [1..Len(s) -> Nat]
  BY <1>2 DEF Ones, Weights
<1>4. Ones(s) \in Seq(Nat) /\ Weights(s) \in Seq(Nat)
  <2> DEFINE n == Len(s)
  <2>1. n \in Nat /\ \A f : f \in [1..n -> Nat] => f \in Seq(Nat)
    <3> HIDE DEF n
    <3>1. n \in Nat
      BY <1>1 DEF n
    <3> QED
      BY ONLY <3>1
  <2> QED
    BY <1>3, <2>1, Zenon
<1>5. Len(Ones(s)) = Len(s) /\ Len(Weights(s)) = Len(s)
  BY <1>1, <1>3, <1>4
<1> QED
  BY <1>4, <1>5 DEF EventCount, EventBytes, Ones, Weights

\* What a queue without its k-th frame looks like.
LEMMA RemoveAtFacts ==
  ASSUME NEW FS, NEW s \in Seq(FS), NEW k \in 1..Len(s)
  PROVE  /\ RemoveAt(s, k) \in Seq(FS) /\ Len(RemoveAt(s, k)) = Len(s) - 1
         /\ \A i \in 1..(Len(s) - 1) :
              RemoveAt(s, k)[i] = IF i < k THEN s[i] ELSE s[i + 1]
<1> DEFINE a == SubSeq(s, 1, k - 1)
           b == SubSeq(s, k + 1, Len(s))
<1>1. Len(s) \in Nat /\ \A i \in 1..Len(s) : s[i] \in FS
  OBVIOUS
<1>2. a \in Seq(FS) /\ Len(a) = k - 1 /\ \A i \in 1..(k - 1) : a[i] = s[i]
  BY <1>1
<1>3. b \in Seq(FS) /\ Len(b) = Len(s) - k /\ \A i \in 1..(Len(s) - k) : b[i] = s[k + i]
  BY <1>1
<1> HIDE DEF a, b
<1>4. /\ a \o b \in Seq(FS) /\ Len(a \o b) = Len(s) - 1
      /\ \A i \in 1..(Len(s) - 1) : (a \o b)[i] = IF i < k THEN s[i] ELSE s[i + 1]
  <2>1. /\ a \o b \in Seq(FS) /\ Len(a \o b) = Len(a) + Len(b)
        /\ \A i \in 1..(Len(a) + Len(b)) :
             (a \o b)[i] = IF i <= Len(a) THEN a[i] ELSE b[i - Len(a)]
    BY <1>2, <1>3, ConcatProperties
  <2>2. Len(a) + Len(b) = Len(s) - 1
    BY <1>1, <1>2, <1>3
  <2>3. ASSUME NEW i \in 1..(Len(s) - 1)
        PROVE  (a \o b)[i] = IF i < k THEN s[i] ELSE s[i + 1]
    <3>1. CASE i < k
      BY <1>1, <1>2, <2>1, <2>2, <3>1
    <3>2. CASE ~(i < k)
      <4>1. i - (k - 1) \in 1..(Len(s) - k) /\ k + (i - (k - 1)) = i + 1
        BY <1>1, <3>2
      <4>2. (a \o b)[i] = b[i - (k - 1)]
        BY <1>1, <1>2, <2>1, <2>2, <3>2
      <4> QED
        BY <1>3, <3>2, <4>1, <4>2
    <3> QED
      BY <3>1, <3>2
  <2> QED
    BY <2>1, <2>2, <2>3
<1> QED
  BY <1>4 DEF RemoveAt, a, b

\* r is s without its k-th element.
Without(s, k, r) ==
  /\ Len(r) = Len(s) - 1
  /\ \A i \in 1..Len(r) : r[i] = IF i < k THEN s[i] ELSE s[i + 1]

\* Leaving out the k-th frame takes its share off the count and the weight.
LEMMA CountRemove ==
  ASSUME NEW FS, FrameSet(FS), NEW s \in Seq(FS), NEW r \in Seq(FS),
         NEW k \in 1..Len(s), Without(s, k, r)
  PROVE  /\ EventCount(s) = EventCount(r) + (IF s[k].is_event THEN 1 ELSE 0)
         /\ EventBytes(s) = EventBytes(r) + (IF s[k].is_event THEN s[k].size ELSE 0)
<1>1. /\ Len(s) \in Nat /\ Len(r) \in Nat /\ Len(r) = Len(s) - 1
      /\ \A i \in 1..Len(r) : r[i] = IF i < k THEN s[i] ELSE s[i + 1]
  BY DEF Without
<1>2. \A i \in 1..Len(r) : /\ Ones(r)[i] = IF i < k THEN Ones(s)[i] ELSE Ones(s)[i + 1]
                           /\ Weights(r)[i] = IF i < k THEN Weights(s)[i] ELSE Weights(s)[i + 1]
  BY <1>1 DEF Ones, Weights
<1>3. /\ Ones(s)[k] = IF s[k].is_event THEN 1 ELSE 0
      /\ Weights(s)[k] = IF s[k].is_event THEN s[k].size ELSE 0
  BY DEF Ones, Weights
<1>4. /\ Ones(s) \in Seq(Nat) /\ Len(Ones(s)) = Len(s)
      /\ Weights(s) \in Seq(Nat) /\ Len(Weights(s)) = Len(s)
      /\ Ones(r) \in Seq(Nat) /\ Len(Ones(r)) = Len(r)
      /\ Weights(r) \in Seq(Nat) /\ Len(Weights(r)) = Len(r)
  BY SummandsType
<1> DEFINE a == Ones(s)
           b == Ones(r)
           c == Weights(s)
           d == Weights(r)
<1>a. /\ a \in Seq(Nat) /\ b \in Seq(Nat) /\ k \in 1..Len(a) /\ Len(b) = Len(a) - 1
      /\ \A i \in 1..Len(b) : b[i] = IF i < k THEN a[i] ELSE a[i + 1]
  BY <1>1, <1>2, <1>4
<1>b. /\ c \in Seq(Nat) /\ d \in Seq(Nat) /\ k \in 1..Len(c) /\ Len(d) = Len(c) - 1
      /\ \A i \in 1..Len(d) : d[i] = IF i < k THEN c[i] ELSE c[i + 1]
  BY <1>1, <1>2, <1>4
<1> HIDE DEF a, b, c, d
<1>5. Total(a) = Total(b) + a[k]
  BY <1>a, TotalRemove
<1>6. Total(c) = Total(d) + c[k]
  BY <1>b, TotalRemove
<1> USE DEF a, b, c, d
<1> QED
  BY <1>3, <1>5, <1>6, SummandsType

\* One more frame adds its share.
LEMMA CountAppend ==
  ASSUME NEW FS, FrameSet(FS), NEW s \in Seq(FS), NEW f \in FS
  PROVE  /\ EventCount(Append(s, f)) = EventCount(s) + (IF f.is_event THEN 1 ELSE 0)
         /\ EventBytes(Append(s, f)) = EventBytes(s) + (IF f.is_event THEN f.size ELSE 0)
<1> DEFINE r == Append(s, f)
<1>1. /\ r \in Seq(FS) /\ Len(s) \in Nat /\ Len(r) = Len(s) + 1
      /\ r[Len(r)] = f /\ \A i \in 1..Len(s) : r[i] = s[i]
  OBVIOUS
<1> HIDE DEF r
<1>2. /\ Ones(s) \in Seq(Nat) /\ Len(Ones(s)) = Len(s)
      /\ Weights(s) \in Seq(Nat) /\ Len(Weights(s)) = Len(s)
      /\ Ones(r) \in Seq(Nat) /\ Len(Ones(r)) = Len(r)
      /\ Weights(r) \in Seq(Nat) /\ Len(Weights(r)) = Len(r)
  BY <1>1, SummandsType
<1>3. \A i \in 1..Len(s) : Ones(r)[i] = Ones(s)[i] /\ Weights(r)[i] = Weights(s)[i]
  BY <1>1 DEF Ones, Weights
<1>4. /\ Ones(r)[Len(r)] = IF f.is_event THEN 1 ELSE 0
      /\ Weights(r)[Len(r)] = IF f.is_event THEN f.size ELSE 0
  BY <1>1 DEF Ones, Weights
<1> DEFINE a == Ones(s)
           b == Ones(r)
           c == Weights(s)
           d == Weights(r)
<1>a. /\ a \in Seq(Nat) /\ b \in Seq(Nat) /\ Len(b) = Len(a) + 1 /\ Len(b) = Len(r)
      /\ \A i \in 1..Len(a) : b[i] = a[i]
  BY <1>1, <1>2, <1>3
<1>b. /\ c \in Seq(Nat) /\ d \in Seq(Nat) /\ Len(d) = Len(c) + 1 /\ Len(d) = Len(r)
      /\ \A i \in 1..Len(c) : d[i] = c[i]
  BY <1>1, <1>2, <1>3
<1> HIDE DEF a, b, c, d
<1>5. Total(b) = Total(a) + b[Len(r)]
  BY <1>a, TotalAppend
<1>6. Total(d) = Total(c) + d[Len(r)]
  BY <1>b, TotalAppend
<1> USE DEF a, b, c, d
<1>7. /\ EventCount(r) = EventCount(s) + (IF f.is_event THEN 1 ELSE 0)
      /\ EventBytes(r) = EventBytes(s) + (IF f.is_event THEN f.size ELSE 0)
  BY <1>1, <1>4, <1>5, <1>6, SummandsType
<1> QED
  BY <1>7 DEF r

\* The counts are numbers, and the count is zero just when there is no event.
LEMMA CountType ==
  ASSUME NEW FS, FrameSet(FS), NEW s \in Seq(FS)
  PROVE  /\ EventCount(s) \in Nat /\ EventBytes(s) \in Nat
         /\ EventCount(s) = 0 <=> EventsAt(s) = {}
         /\ EventsAt(s) = {} => EventBytes(s) = 0
<1>1. EventCount(s) \in Nat /\ EventBytes(s) \in Nat
  BY SummandsType, TotalType
<1>2. ASSUME EventsAt(s) = {} PROVE EventCount(s) = 0 /\ EventBytes(s) = 0
  <2>1. /\ \A i \in 1..Len(Ones(s)) : Ones(s)[i] = 0
        /\ \A i \in 1..Len(Weights(s)) : Weights(s)[i] = 0
    BY <1>2, SummandsType DEF EventsAt, Ones, Weights
  <2> QED
    BY <2>1, SummandsType, TotalType
<1>3. ASSUME EventsAt(s) # {} PROVE EventCount(s) # 0
  <2>1. PICK k \in 1..Len(s) : s[k].is_event
    BY <1>3 DEF EventsAt
  <2> DEFINE r == RemoveAt(s, k)
  <2>2. r \in Seq(FS) /\ Without(s, k, r)
    BY RemoveAtFacts DEF Without
  <2> HIDE DEF r
  <2>3. EventCount(s) = EventCount(r) + 1
    BY <2>1, <2>2, CountRemove
  <2>4. EventCount(r) \in Nat
    BY <2>2, SummandsType, TotalType
  <2> QED
    BY <2>3, <2>4
<1> QED
  BY <1>1, <1>2, <1>3

-----------------------------------------------------------------------------
(* Eviction and push_event *)

QueueType(FS) == [frames : Seq(FS), delivered : Nat, dropped : Nat, lag : Nat]

\* The frame the eviction loop takes out is the first event.
LEMMA EvictAt ==
  ASSUME NEW FS, NEW s \in Seq(FS), EventsAt(s) # {}
  PROVE  /\ evict_at(s) \in 1..Len(s) /\ s[evict_at(s)].is_event
         /\ \A j \in EventsAt(s) : evict_at(s) <= j
<1>1. EventsAt(s) \subseteq Nat /\ EventsAt(s) \subseteq 1..Len(s)
  BY DEF EventsAt
<1>2. \E i \in EventsAt(s) : \A j \in EventsAt(s) : i <= j
  BY <1>1, LeastMember
<1>3. Min(EventsAt(s)) \in EventsAt(s) /\ \A j \in EventsAt(s) : Min(EventsAt(s)) <= j
  BY <1>2 DEF Min
<1> QED
  BY <1>1, <1>3 DEF evict_at, EventsAt

\* A drop is counted, and pending until it is announced.
LEMMA DropFacts ==
  ASSUME NEW FS, NEW q \in QueueType(FS)
  PROVE  /\ record_drop(q) = [frames |-> q.frames, delivered |-> q.delivered,
                              dropped |-> q.dropped + 1, lag |-> q.lag + 1]
         /\ record_drop(q) \in QueueType(FS)
<1> DEFINE d == [q EXCEPT !.dropped = q.dropped + 1]
<1>1. /\ d \in QueueType(FS) /\ d.frames = q.frames /\ d.delivered = q.delivered
      /\ d.dropped = q.dropped + 1 /\ d.lag = q.lag
  BY DEF QueueType
<1>2. record_drop(q) = [d EXCEPT !.lag = d.lag + 1]
  BY DEF record_drop
<1> HIDE DEF d
<1>3. [d EXCEPT !.lag = d.lag + 1] =
        [frames |-> q.frames, delivered |-> q.delivered,
         dropped |-> q.dropped + 1, lag |-> q.lag + 1]
  BY <1>1 DEF QueueType
<1> QED
  BY <1>2, <1>3 DEF QueueType

\* One turn of the loop: one frame, an event, is gone, and counted as dropped
\* and as pending.
LEMMA EvictFacts ==
  ASSUME NEW FS, FrameSet(FS), NEW q \in QueueType(FS), EventsAt(q.frames) # {}
  PROVE  LET s == q.frames
             k == evict_at(s)
         IN /\ Evict(q) = [frames |-> RemoveAt(s, k), delivered |-> q.delivered,
                           dropped |-> q.dropped + 1, lag |-> q.lag + 1]
            /\ Evict(q) \in QueueType(FS)
            /\ EventCount(s) = EventCount(RemoveAt(s, k)) + 1
            /\ EventBytes(s) = EventBytes(RemoveAt(s, k)) + s[k].size
<1> DEFINE s == q.frames
           k == evict_at(s)
           r == RemoveAt(s, k)
<1>1. s \in Seq(FS) /\ k \in 1..Len(s) /\ s[k].is_event
  BY EvictAt DEF QueueType
<1>2. r \in Seq(FS) /\ Without(s, k, r)
  <2> HIDE DEF s, k
  <2>1. /\ RemoveAt(s, k) \in Seq(FS) /\ Len(RemoveAt(s, k)) = Len(s) - 1
        /\ \A i \in 1..(Len(s) - 1) :
             RemoveAt(s, k)[i] = IF i < k THEN s[i] ELSE s[i + 1]
    BY ONLY <1>1, RemoveAtFacts
  <2> QED
    BY <2>1 DEF Without
<1>3. Evict(q) = [frames |-> r, delivered |-> q.delivered,
                  dropped |-> q.dropped + 1, lag |-> q.lag + 1]
  <2> DEFINE e == [q EXCEPT !.frames = r]
  <2>1. Evict(q) = record_drop(e)
    BY DEF Evict
  <2> HIDE DEF r
  <2>2. e \in QueueType(FS)
    BY <1>2 DEF QueueType
  <2>3. /\ e.frames = r /\ e.delivered = q.delivered
        /\ e.dropped = q.dropped /\ e.lag = q.lag
    BY DEF QueueType
  <2> HIDE DEF e
  <2> QED
    BY <2>1, <2>2, <2>3, DropFacts
<1> HIDE DEF r, k, s
<1>4. EventCount(s) = EventCount(r) + 1 /\ EventBytes(s) = EventBytes(r) + s[k].size
  BY <1>1, <1>2, CountRemove
<1>5. Evict(q) \in QueueType(FS)
  BY <1>2, <1>3 DEF QueueType
<1> QED
  BY <1>3, <1>4, <1>5 DEF r, k, s

\* There is room once no event is left.
LEMMA RoomWhenEmpty ==
  ASSUME NEW FS, FrameSet(FS), NEW s \in Seq(FS), NEW n, over_budget(s, n)
  PROVE  EventsAt(s) # {}
BY CountType DEF over_budget

\* g lists the queues the eviction loop goes through, the last with room for n.
Loop(q, n, m, g) ==
  /\ g[0] = q
  /\ \A k \in 1..m : over_budget(g[k - 1].frames, n) /\ g[k] = Evict(g[k - 1])
  /\ ~over_budget(g[m].frames, n)

\* push_event runs the eviction loop to its end and then enqueues the frame.
LEMMA PushEventLoop ==
  ASSUME NEW FS, FrameSet(FS), NEW q \in QueueType(FS), NEW f, ~oversized(f.size)
  PROVE  \E m \in Nat : \E g \in [0..m -> QueueType(FS)] :
           Loop(q, f.size, m, g) /\ push_event(q, f) = Enqueue(g[m], f)
<1> DEFINE n == EventCount(q.frames)
           U == QueueType(FS)
           S == [k \in 0..n |-> {r \in U : EventCount(r.frames) = n - k}]
           F == [k \in 1..n |-> [r \in U |-> Evict(r)]]
           Rec(g) == g = [k \in 0..n |-> IF k = 0 THEN q ELSE Evict(g[k - 1])]
           after == CHOOSE g : Rec(g)
           room == {k \in 0..n : ~over_budget(after[k].frames, f.size)}
<1>0. push_event(q, f) = Enqueue(after[Min(room)], f)
  BY DEF push_event
<1>1. q.frames \in Seq(FS) /\ n \in Nat
  BY CountType DEF QueueType
<1>2. ASSUME NEW r \in U, EventCount(r.frames) \in Nat, EventCount(r.frames) # 0
      PROVE  Evict(r) \in U /\ EventCount(Evict(r).frames) = EventCount(r.frames) - 1
  <2>1. r.frames \in Seq(FS)
    BY DEF QueueType
  <2>2. EventsAt(r.frames) # {}
    BY <1>2, <2>1, CountType
  <2>3. /\ Evict(r) \in U
        /\ Evict(r).frames = RemoveAt(r.frames, evict_at(r.frames))
        /\ EventCount(r.frames) = EventCount(RemoveAt(r.frames, evict_at(r.frames))) + 1
    BY <2>2, EvictFacts
  <2>4. EventCount(Evict(r).frames) \in Nat
    BY <2>3, CountType DEF QueueType
  <2> QED
    BY <2>3, <2>4
<1>3. \A k \in 0..n : S[k] = {r \in U : EventCount(r.frames) = n - k}
  OBVIOUS
<1>4. ASSUME NEW k \in 1..n, NEW r \in S[k - 1] PROVE Evict(r) \in S[k]
  <2>1. k - 1 \in 0..n /\ k \in 0..n /\ n - (k - 1) \in Nat /\ n - (k - 1) # 0
    BY <1>1
  <2>2. r \in U /\ EventCount(r.frames) = n - (k - 1)
    BY <1>3, <2>1
  <2>3. Evict(r) \in U /\ EventCount(Evict(r).frames) = n - k
    BY <1>1, <1>2, <2>1, <2>2
  <2> QED
    BY <1>3, <2>1, <2>3
<1>5. q \in S[0]
  BY <1>1, <1>3
<1>6. \E g : Rec(g)
  <2>1. n \in Nat /\ S \in [0..n -> SUBSET U]
    BY <1>1
  <2>2. Leads(n, F, S)
    <3> SUFFICES ASSUME NEW k \in 1..n, NEW r \in S[k - 1] PROVE F[k][r] \in S[k]
      BY DEF Leads
    <3>1. k - 1 \in 0..n
      BY <1>1
    <3>2. r \in U
      BY <1>3, <3>1
    <3>3. F[k][r] = Evict(r)
      BY <3>2
    <3> QED
      BY <1>4, <3>3
  <2>3. \E g \in [0..n -> U] : Trace(n, F, S, q, g)
    <3> HIDE DEF n, U, S, F
    <3> QED
      BY <1>5, <2>1, <2>2, Iterates, Zenon
  <2>4. PICK g \in [0..n -> U] : g[0] = q /\ \A k \in 1..n : g[k] = F[k][g[k - 1]]
    BY <2>3 DEF Trace
  <2>5. ASSUME NEW k \in 1..n PROVE g[k] = Evict(g[k - 1])
    <3>1. k - 1 \in 0..n
      BY <1>1
    <3>2. g[k - 1] \in U
      BY <2>4, <3>1
    <3>3. F[k][g[k - 1]] = Evict(g[k - 1])
      BY <3>2
    <3> QED
      BY <2>4, <3>3
  <2>6. g = [k \in 0..n |-> IF k = 0 THEN q ELSE Evict(g[k - 1])]
    <3> HIDE DEF n, U
    <3> QED
      BY <2>1, <2>4, <2>5
  <2> QED
    BY <2>6
<1>7. Rec(after)
  BY <1>6
<1> HIDE DEF after, S, n, U
<1>8. after[0] = q /\ \A k \in 1..n : after[k] = Evict(after[k - 1])
  BY <1>1, <1>7
<1>9. \A k \in 0..n : after[k] \in S[k]
  <2> DEFINE P == {k \in 0..n : after[k] \in S[k]}
  <2>1. 0 \in P
    BY <1>1, <1>5, <1>8
  <2>2. ASSUME NEW k \in 0..n, k \in P, k < n PROVE k + 1 \in P
    <3>1. k + 1 \in 1..n /\ (k + 1) - 1 = k /\ after[k] \in S[k]
      BY <1>1, <2>2
    <3>2. after[k + 1] = Evict(after[k])
      BY <1>8, <3>1
    <3> QED
      BY <1>4, <3>1, <3>2
  <2> HIDE DEF P
  <2>3. 0..n \subseteq P
    BY <1>1, <2>1, <2>2, UpTo
  <2> QED
    BY <2>3 DEF P
<1>10. \A k \in 0..n : after[k] \in U
  BY <1>3, <1>9
<1>11. n \in room
  <2>1. EventCount(after[n].frames) = 0
    <3>1. n \in 0..n /\ n - n = 0
      BY <1>1
    <3> QED
      BY <1>3, <1>9, <3>1
  <2> QED
    BY <1>1, <2>1 DEF over_budget
<1>12. /\ Min(room) \in 0..n /\ ~over_budget(after[Min(room)].frames, f.size)
       /\ \A k \in 0..n : k < Min(room) => over_budget(after[k].frames, f.size)
  <2>1. room \subseteq Nat /\ room # {}
    BY <1>1, <1>11
  <2>2. \E i \in room : \A j \in room : i <= j
    <3> HIDE DEF room
    <3> QED
      BY <2>1, LeastMember
  <2>3. Min(room) \in room /\ \A j \in room : Min(room) <= j
    <3> HIDE DEF room
    <3> QED
      BY <2>2 DEF Min
  <2> DEFINE m == Min(room)
  <2>4. m \in room /\ \A j \in room : m <= j
    BY <2>3
  <2> HIDE DEF m
  <2>5. /\ m \in 0..n /\ ~over_budget(after[m].frames, f.size)
        /\ \A k \in 0..n : k < m => over_budget(after[k].frames, f.size)
    BY <1>1, <2>4
  <2> QED
    BY <2>5 DEF m
<1> DEFINE m == Min(room)
           g == [k \in 0..m |-> after[k]]
<1>13. m \in 0..n /\ ~over_budget(after[m].frames, f.size)
  BY <1>12
<1>14. \A k \in 0..n : k < m => over_budget(after[k].frames, f.size)
  BY <1>12
<1>15. push_event(q, f) = Enqueue(after[m], f)
  BY <1>0
<1> HIDE DEF m, room
<1>16. g \in [0..m -> U] /\ \A k \in 0..m : g[k] = after[k]
  BY <1>1, <1>10, <1>13
<1> HIDE DEF g
<1>17. Loop(q, f.size, m, g)
  <2>1. g[0] = q /\ g[m] = after[m]
    BY <1>1, <1>8, <1>13, <1>16
  <2>2. ASSUME NEW k \in 1..m
        PROVE  over_budget(g[k - 1].frames, f.size) /\ g[k] = Evict(g[k - 1])
    <3>1. k \in 1..n /\ k - 1 \in 0..n /\ k - 1 < m /\ k - 1 \in 0..m /\ k \in 0..m
      BY <1>1, <1>13
    <3> QED
      BY <1>8, <1>14, <1>16, <3>1
  <2> QED
    BY <1>13, <2>1, <2>2 DEF Loop
<1> QED
  BY <1>1, <1>13, <1>15, <1>16, <1>17 DEF U

\* How to reason about push_event: a set of queues that an eviction which
\* makes room never leaves still holds the queue the frame is put into.
LEMMA PushEventRule ==
  ASSUME NEW FS, FrameSet(FS), NEW q \in QueueType(FS), NEW f, ~oversized(f.size),
         NEW S, q \in S,
         \A r \in S : r \in QueueType(FS) /\ over_budget(r.frames, f.size) => Evict(r) \in S
  PROVE  \E r \in S : /\ r \in QueueType(FS) /\ ~over_budget(r.frames, f.size)
                      /\ push_event(q, f) = Enqueue(r, f)
<1>1. PICK m \in Nat : \E g \in [0..m -> QueueType(FS)] :
           Loop(q, f.size, m, g) /\ push_event(q, f) = Enqueue(g[m], f)
  BY PushEventLoop
<1>2. PICK g \in [0..m -> QueueType(FS)] :
           Loop(q, f.size, m, g) /\ push_event(q, f) = Enqueue(g[m], f)
  BY <1>1
<1> DEFINE P == {k \in 0..m : g[k] \in S}
<1>3. 0 \in P
  BY <1>2 DEF Loop
<1>4. ASSUME NEW k \in 0..m, k \in P, k < m PROVE k + 1 \in P
  <2>1. k + 1 \in 1..m /\ (k + 1) - 1 = k /\ g[k] \in S /\ g[k] \in QueueType(FS)
    BY <1>4
  <2>2. over_budget(g[k].frames, f.size) /\ g[k + 1] = Evict(g[k])
    BY <1>2, <2>1 DEF Loop
  <2> QED
    BY <2>1, <2>2
<1> HIDE DEF P
<1>5. 0..m \subseteq P
  BY <1>3, <1>4, UpTo
<1>6. g[m] \in S /\ g[m] \in QueueType(FS)
  BY <1>5 DEF P
<1> QED
  BY <1>2, <1>6 DEF Loop

\* A larger set of frames makes a larger set of queues.
LEMMA QueueTypeGrows ==
  ASSUME NEW FS, NEW GS, FS \subseteq GS
  PROVE  QueueType(FS) \subseteq QueueType(GS)
<1>1. \A s \in Seq(FS) : s \in Seq(GS)
  BY SeqMonotonic
<1> QED
  BY <1>1 DEF QueueType

\* push_event puts nothing into the queue but its frame.
LEMMA PushEventType ==
  ASSUME NEW FS, FrameSet(FS), NEW q \in QueueType(FS), NEW f \in FS
  PROVE  push_event(q, f) \in QueueType(FS)
<1>1. CASE oversized(f.size)
  <2>1. push_event(q, f) = record_drop(q)
    BY <1>1 DEF push_event
  <2> QED
    BY <2>1, DropFacts
<1>2. CASE ~oversized(f.size)
  <2>1. ASSUME NEW r \in QueueType(FS), over_budget(r.frames, f.size)
        PROVE  Evict(r) \in QueueType(FS)
    <3>1. EventsAt(r.frames) # {}
      BY <2>1, RoomWhenEmpty DEF QueueType
    <3> QED
      BY <3>1, EvictFacts
  <2>2. PICK r \in QueueType(FS) : push_event(q, f) = Enqueue(r, f)
    BY <1>2, <2>1, PushEventRule
  <2>3. Enqueue(r, f) \in QueueType(FS)
    <3> DEFINE s == Append(r.frames, f)
    <3>1. s \in Seq(FS)
      BY DEF QueueType
    <3> HIDE DEF s
    <3>2. [r EXCEPT !.frames = s] \in QueueType(FS)
      BY <3>1 DEF QueueType
    <3> QED
      BY <3>2 DEF Enqueue, s
  <2> QED
    BY <2>2, <2>3
<1> QED
  BY <1>1, <1>2

\* Taking the front frame and the pending count leaves a queue of the same kind.
LEMMA PopType ==
  ASSUME NEW FS, FrameSet(FS), NEW q \in QueueType(FS), q.frames # <<>>
  PROVE  Head(q.frames) \in FS /\ TakeLag(PopFront(q)) \in QueueType(FS)
<1> DEFINE n == IF Head(q.frames).is_event THEN q.delivered + 1 ELSE q.delivered
           e == [q EXCEPT !.frames = Tail(q.frames)]
           d == [e EXCEPT !.delivered = n]
<1>1. Head(q.frames) \in FS /\ Tail(q.frames) \in Seq(FS)
  BY DEF QueueType
<1>2. n \in Nat
  BY <1>1 DEF QueueType, FrameSet
<1>e. e \in QueueType(FS)
  <2> DEFINE s == Tail(q.frames)
  <2>1. s \in Seq(FS)
    BY <1>1
  <2> HIDE DEF s
  <2>2. [q EXCEPT !.frames = s] \in QueueType(FS)
    BY <2>1 DEF QueueType
  <2> QED
    BY <2>2 DEF s
<1>3. PopFront(q) = d
  BY DEF PopFront, QueueType
<1> HIDE DEF e, n
<1>4. d \in QueueType(FS)
  BY <1>2, <1>e DEF QueueType
<1> HIDE DEF d
<1>5. [d EXCEPT !.lag = 0] \in QueueType(FS)
  BY <1>4 DEF QueueType
<1> QED
  BY <1>1, <1>3, <1>5 DEF TakeLag

\* Two runs of the eviction loop over the same frames end with the same frames,
\* whatever their counters say.
LEMMA LoopsAgree ==
  ASSUME NEW FS, FrameSet(FS), NEW n, NEW a, NEW b, a.frames = b.frames,
         NEW m \in Nat, NEW g \in [0..m -> QueueType(FS)], Loop(a, n, m, g),
         NEW k \in Nat, NEW h \in [0..k -> QueueType(FS)], Loop(b, n, k, h)
  PROVE  g[m].frames = h[k].frames
<1> DEFINE P == {i \in 0..m : i <= k /\ g[i].frames = h[i].frames}
<1>1. 0 \in P
  BY DEF Loop
<1>2. \A i \in 0..(m - 1) : over_budget(g[i].frames, n) /\ g[i + 1] = Evict(g[i])
  <2> SUFFICES ASSUME NEW i \in 0..(m - 1)
               PROVE  over_budget(g[i].frames, n) /\ g[i + 1] = Evict(g[i])
    OBVIOUS
  <2>1. i + 1 \in 1..m /\ (i + 1) - 1 = i
    OBVIOUS
  <2> QED
    BY <2>1 DEF Loop
<1>3. \A i \in 0..(k - 1) : over_budget(h[i].frames, n) /\ h[i + 1] = Evict(h[i])
  <2> SUFFICES ASSUME NEW i \in 0..(k - 1)
               PROVE  over_budget(h[i].frames, n) /\ h[i + 1] = Evict(h[i])
    OBVIOUS
  <2>1. i + 1 \in 1..k /\ (i + 1) - 1 = i
    OBVIOUS
  <2> QED
    BY <2>1 DEF Loop
<1>4. ~over_budget(g[m].frames, n) /\ ~over_budget(h[k].frames, n)
  BY DEF Loop
<1>5. ASSUME NEW r \in QueueType(FS), over_budget(r.frames, n)
      PROVE  Evict(r).frames = RemoveAt(r.frames, evict_at(r.frames))
  <2>1. r.frames \in Seq(FS)
    BY DEF QueueType
  <2>2. EventsAt(r.frames) # {}
    BY <1>5, <2>1, RoomWhenEmpty
  <2>3. Evict(r) = [frames |-> RemoveAt(r.frames, evict_at(r.frames)), delivered |-> r.delivered,
                    dropped |-> r.dropped + 1, lag |-> r.lag + 1]
    BY <2>2, EvictFacts
  <2> QED
    BY <2>3
<1>6. ASSUME NEW i \in 0..m, i \in P, i < m PROVE i + 1 \in P
  <2>1. i \in Nat /\ i \in 0..(m - 1) /\ i <= k /\ g[i].frames = h[i].frames /\ i + 1 \in 0..m
    BY <1>6
  <2>2. over_budget(g[i].frames, n) /\ over_budget(h[i].frames, n) /\ g[i + 1] = Evict(g[i])
    BY <1>2, <2>1
  <2>3. i # k
    BY <1>4, <2>2
  <2>4. i \in 0..(k - 1) /\ i + 1 <= k
    BY <2>1, <2>3
  <2>5. h[i + 1] = Evict(h[i])
    BY <1>3, <2>4
  <2>6. g[i] \in QueueType(FS) /\ h[i] \in QueueType(FS)
    BY <2>1, <2>4
  <2>7. g[i + 1].frames = h[i + 1].frames
    BY <1>5, <2>1, <2>2, <2>5, <2>6
  <2> QED
    BY <2>1, <2>4, <2>7
<1> HIDE DEF P
<1>7. 0..m \subseteq P
  BY <1>1, <1>6, UpTo
<1>8. m <= k /\ g[m].frames = h[m].frames
  BY <1>7 DEF P
<1>9. ~(m < k)
  BY <1>3, <1>4, <1>8
<1>10. m = k
  BY <1>8, <1>9
<1> QED
  BY <1>8, <1>10

\* What push_event leaves in the queue depends on the frames alone.
LEMMA PushEventFrames ==
  ASSUME NEW FS, FrameSet(FS), NEW a \in QueueType(FS), NEW b \in QueueType(FS),
         a.frames = b.frames, NEW f, ~oversized(f.size)
  PROVE  push_event(a, f).frames = push_event(b, f).frames
<1>1. PICK m \in Nat : \E g \in [0..m -> QueueType(FS)] :
           Loop(a, f.size, m, g) /\ push_event(a, f) = Enqueue(g[m], f)
  BY PushEventLoop
<1>2. PICK g \in [0..m -> QueueType(FS)] :
           Loop(a, f.size, m, g) /\ push_event(a, f) = Enqueue(g[m], f)
  BY <1>1
<1>3. PICK k \in Nat : \E h \in [0..k -> QueueType(FS)] :
           Loop(b, f.size, k, h) /\ push_event(b, f) = Enqueue(h[k], f)
  BY PushEventLoop
<1>4. PICK h \in [0..k -> QueueType(FS)] :
           Loop(b, f.size, k, h) /\ push_event(b, f) = Enqueue(h[k], f)
  BY <1>3
<1>5. g[m].frames = h[k].frames
  BY <1>2, <1>4, LoopsAgree
<1>6. ASSUME NEW r \in QueueType(FS) PROVE Enqueue(r, f).frames = Append(r.frames, f)
  BY DEF Enqueue, QueueType
<1>7. g[m] \in QueueType(FS) /\ h[k] \in QueueType(FS)
  OBVIOUS
<1> QED
  BY <1>2, <1>4, <1>5, <1>6, <1>7

\* An eviction is a turn of push_event's loop: it changes nothing of what
\* push_event leaves.
LEMMA PushEventTurn ==
  ASSUME NEW FS, FrameSet(FS), NEW q \in QueueType(FS), NEW f, ~oversized(f.size),
         over_budget(q.frames, f.size)
  PROVE  push_event(q, f).frames = push_event(Evict(q), f).frames
<1>1. PICK m \in Nat : \E g \in [0..m -> QueueType(FS)] :
           Loop(q, f.size, m, g) /\ push_event(q, f) = Enqueue(g[m], f)
  BY PushEventLoop
<1>2. PICK g \in [0..m -> QueueType(FS)] :
           Loop(q, f.size, m, g) /\ push_event(q, f) = Enqueue(g[m], f)
  BY <1>1
<1>3. m # 0
  BY <1>2 DEF Loop
<1> DEFINE l == m - 1
           j == [i \in 0..l |-> g[i + 1]]
<1>4. l \in Nat /\ j \in [0..l -> QueueType(FS)] /\ j[l] = g[m] /\ j[0] = g[1] /\ 1 \in 1..m
  BY <1>3
<1>5. Loop(Evict(q), f.size, l, j)
  <2>1. j[0] = Evict(q)
    <3>1. g[0] = q /\ \A i \in 1..m : g[i] = Evict(g[i - 1])
      BY <1>2 DEF Loop
    <3>2. g[1] = Evict(g[1 - 1]) /\ 1 - 1 = 0
      BY <1>4, <3>1
    <3> QED
      BY <1>4, <3>1, <3>2
  <2>2. ASSUME NEW i \in 1..l PROVE over_budget(j[i - 1].frames, f.size) /\ j[i] = Evict(j[i - 1])
    <3>1. i + 1 \in 1..m /\ (i + 1) - 1 = i /\ i \in 0..l /\ i - 1 \in 0..l /\ (i - 1) + 1 = i
      BY <1>4
    <3>2. j[i] = g[i + 1] /\ j[i - 1] = g[i]
      BY <3>1
    <3>3. over_budget(g[(i + 1) - 1].frames, f.size) /\ g[i + 1] = Evict(g[(i + 1) - 1])
      BY <1>2, <3>1 DEF Loop
    <3> QED
      BY <3>1, <3>2, <3>3
  <2>3. ~over_budget(j[l].frames, f.size)
    BY <1>2, <1>4 DEF Loop
  <2> HIDE DEF j, l
  <2> QED
    BY <2>1, <2>2, <2>3 DEF Loop
<1>6. EventsAt(q.frames) # {}
  BY RoomWhenEmpty DEF QueueType
<1>7. Evict(q) \in QueueType(FS)
  BY <1>6, EvictFacts
<1>8. PICK k \in Nat : \E h \in [0..k -> QueueType(FS)] :
           Loop(Evict(q), f.size, k, h) /\ push_event(Evict(q), f) = Enqueue(h[k], f)
  BY <1>7, PushEventLoop
<1>9. PICK h \in [0..k -> QueueType(FS)] :
           Loop(Evict(q), f.size, k, h) /\ push_event(Evict(q), f) = Enqueue(h[k], f)
  BY <1>8
<1> HIDE DEF j, l
<1>10. j[l].frames = h[k].frames
  BY <1>4, <1>5, <1>9, LoopsAgree
<1>11. ASSUME NEW r \in QueueType(FS) PROVE Enqueue(r, f).frames = Append(r.frames, f)
  BY DEF Enqueue, QueueType
<1>12. g[m] \in QueueType(FS) /\ h[k] \in QueueType(FS)
  OBVIOUS
<1> QED
  BY <1>2, <1>4, <1>9, <1>10, <1>11, <1>12

\* With room, push_event enqueues at once.
LEMMA PushEventRoom ==
  ASSUME NEW FS, FrameSet(FS), NEW q \in QueueType(FS), NEW f, ~oversized(f.size),
         ~over_budget(q.frames, f.size)
  PROVE  push_event(q, f) = Enqueue(q, f)
<1> DEFINE S == {q}
<1>1. q \in S /\ \A r \in S : r \in QueueType(FS) /\ over_budget(r.frames, f.size) => Evict(r) \in S
  OBVIOUS
<1> HIDE DEF S
<1>2. PICK r \in S : push_event(q, f) = Enqueue(r, f)
  BY <1>1, PushEventRule
<1>3. r = q
  BY <1>2 DEF S
<1> QED
  BY <1>2, <1>3
=============================================================================

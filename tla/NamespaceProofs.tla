---------------------------- MODULE NamespaceProofs ----------------------------
(***************************************************************************)
(* Who owns a channel and who receives its events, for any extensions,      *)
(* claims, channels and patterns: the collision rules of                    *)
(* validate_registration_claims keep the namespaces that                    *)
(* filter_owned_events admits disjoint, channel_matches decides what the    *)
(* grammar says, and what a bundled extension accepts passes the filter.    *)
(***************************************************************************)
EXTENDS Namespace, SequenceTheorems, FiniteSetTheorems, NaturalsInduction, TLAPS

HandleType == [paths : Seq(STRING), channels : Seq(Texts)]

Live == DOMAIN extensions \ draining

\* Removals that have yet to take the routes lock.
AtRoutes(id) == \E k \in Tasks : At(k, id, "routes")

\* What the map, the two tables and the removals are.
MapInv ==
  /\ TypeOK
  /\ \A id \in DOMAIN extensions : extensions[id] \in HandleType
  /\ DOMAIN prefixes \subseteq Texts

\* An entry of a table is a claim of its owner, which is in the map and not
\* being drained, or a removal is about to take it; each claim of a serving
\* extension is in its table, and no removal is about to take it.
EntryInv ==
  /\ \A k \in DOMAIN routes :
       \/ AtRoutes(routes[k])
       \/ routes[k] \in Live /\ k \in ToSet(extensions[routes[k]].paths)
  /\ \A p \in DOMAIN prefixes :
       \/ Removing(prefixes[p])
       \/ prefixes[p] \in Live /\ p \in ToSet(extensions[prefixes[p]].channels)
  /\ \A id \in Serving :
       /\ ~Removing(id)
       /\ \A k \in ToSet(extensions[id].paths) : k \in DOMAIN routes /\ routes[k] = id
       /\ \A p \in ToSet(extensions[id].channels) : p \in DOMAIN prefixes /\ prefixes[p] = id

\* What the collision rules leave: claims that meet have one owner.
CollisionInv ==
  /\ \A k \in DOMAIN routes, p \in DOMAIN prefixes :
       first_channel_segment(p) = k => routes[k] = prefixes[p]
  /\ \A p, q \in DOMAIN prefixes : channel_prefixes_overlap(p, q) => prefixes[p] = prefixes[q]

Inv == MapInv /\ EntryInv /\ CollisionInv

-----------------------------------------------------------------------------
\* Overlap is symmetric.
LEMMA OverlapSymmetric ==
  ASSUME NEW p, NEW q, channel_prefixes_overlap(p, q)
  PROVE  channel_prefixes_overlap(q, p)
BY DEF channel_prefixes_overlap

\* Two prefixes of one channel overlap (channel_is_in_prefix goes by whole tokens).
LEMMA PrefixesOfOneChannel ==
  ASSUME NEW c \in Texts, NEW p \in Texts, NEW q \in Texts,
         Len(p) <= Len(c), \A i \in DOMAIN p : p[i] = c[i],
         Len(q) <= Len(c), \A i \in DOMAIN q : q[i] = c[i]
  PROVE  channel_prefixes_overlap(p, q)
<1>0. /\ p \in Seq(STRING) /\ q \in Seq(STRING) /\ Len(p) \in Nat /\ Len(q) \in Nat
      /\ DOMAIN p = 1..Len(p) /\ DOMAIN q = 1..Len(q)
  BY LenProperties DEF Texts
<1>1. ASSUME NEW a \in Seq(STRING), NEW b \in Seq(STRING), Len(a) <= Len(b),
             \A i \in 1..Len(a) : a[i] = b[i]
      PROVE  channel_is_in_prefix(b, a)
  <2>1. Len(a) \in Nat /\ Len(b) \in Nat /\ \A i \in 1..Len(a) : b[i] \in STRING
    BY <1>1, LenProperties
  <2>2. /\ SubSeq(b, 1, Len(a)) \in Seq(STRING)
        /\ Len(SubSeq(b, 1, Len(a))) = Len(a)
        /\ \A i \in 1..Len(a) : SubSeq(b, 1, Len(a))[i] = b[i]
    BY <1>1, <2>1
  <2>3. SubSeq(b, 1, Len(a)) = a
    BY <1>1, <2>1, <2>2, SeqEqual
  <2> QED
    BY <1>1, <2>3 DEF channel_is_in_prefix
<1>2. CASE Len(p) <= Len(q)
  BY <1>0, <1>1, <1>2 DEF channel_prefixes_overlap
<1>3. CASE Len(q) <= Len(p)
  BY <1>0, <1>1, <1>3 DEF channel_prefixes_overlap
<1> QED
  BY <1>0, <1>2, <1>3

\* A non-empty set of naturals has a least member.
LEMMA LeastMember ==
  ASSUME NEW S, S \subseteq Nat, S # {}
  PROVE  \E i \in S : \A j \in S : i <= j
<1>1. PICK i \in S : \A j \in S : ~(<<j, i>> \in OpToRel(<, Nat))
  BY WFMin, NatLessThanWellFounded
<1>2. ASSUME NEW j \in S PROVE i <= j
  <2>1. i \in Nat /\ j \in Nat
    OBVIOUS
  <2>2. j < i => <<j, i>> \in {ss \in Nat \X Nat : ss[1] < ss[2]}
    BY <2>1
  <2>3. ~(j < i)
    BY <1>1, <2>2 DEF OpToRel
  <2> QED
    BY <2>1, <2>3
<1> QED
  BY <1>1, <1>2

\* Some offending token comes first.
LEMMA FirstOfSome ==
  ASSUME NEW bad, bad \subseteq Nat, bad # {}
  PROVE  LET first == CHOOSE i \in bad : \A j \in bad : i <= j IN first \in bad
BY LeastMember

\* Induction up to n, for a property given as the set of numbers that have it.
LEMMA UpTo ==
  ASSUME NEW n \in Nat, NEW P, 0 \in P,
         \A k \in 0..n : k \in P /\ k < n => k + 1 \in P
  PROVE  \A k \in 0..n : k \in P
<1> DEFINE Bad == (0..n) \ P
<1> SUFFICES ASSUME Bad # {} PROVE FALSE
  OBVIOUS
<1>0. Bad \subseteq Nat
  OBVIOUS
<1> HIDE DEF Bad
<1>1. PICK i \in Bad : \A j \in Bad : i <= j
  BY <1>0, LeastMember
<1> USE DEF Bad
<1>2. i # 0 /\ i - 1 \in 0..n /\ i - 1 < n /\ i = (i - 1) + 1
  BY <1>1
<1>3. i - 1 \in P
  BY <1>1, <1>2
<1> QED
  BY <1>1, <1>2, <1>3

\* Iteration: n steps can be taken from any x, the k-th of them by F[k].
Goes(n, F, x, g) == g[0] = x /\ \A k \in 1..n : g[k] = F[k][g[k - 1]]
LEMMA Iterates ==
  ASSUME NEW n \in Nat, NEW U, NEW x \in U, NEW F \in [1..n -> [U -> U]]
  PROVE  \E g \in [0..n -> U] : Goes(n, F, x, g)
<1> DEFINE Good(m, g) == g \in [0..m -> U] /\ Goes(m, F, x, g)
           P == {m \in 0..n : \E g : Good(m, g)}
<1>1. 0 \in P
  <2> DEFINE g == [k \in 0..0 |-> x]
  <2>1. Good(0, g) /\ 0 \in 0..n
    BY DEF Goes
  <2> HIDE DEF Good, g
  <2> QED
    BY <2>1
<1>2. ASSUME NEW m \in 0..n, m \in P, m < n PROVE m + 1 \in P
  <2>1. PICK g : Good(m, g)
    BY <1>2
  <2> DEFINE y == F[m + 1][g[m]]
             h == [k \in 0..(m + 1) |-> IF k <= m THEN g[k] ELSE y]
  <2>2. y \in U /\ m + 1 \in 0..n
    BY <1>2, <2>1
  <2>3. h \in [0..(m + 1) -> U] /\ h[0] = x /\ h[m + 1] = y /\ \A k \in 0..m : h[k] = g[k]
    BY <2>1, <2>2 DEF Goes
  <2> HIDE DEF h
  <2>4. ASSUME NEW k \in 1..(m + 1) PROVE h[k] = F[k][h[k - 1]]
    <3>1. k - 1 \in 0..m
      OBVIOUS
    <3>2. CASE k <= m
      BY <2>1, <2>3, <3>1, <3>2 DEF Goes
    <3>3. CASE k = m + 1
      BY <2>3, <3>1, <3>3
    <3> QED
      BY <3>2, <3>3
  <2>5. Good(m + 1, h)
    BY <2>3, <2>4 DEF Goes
  <2> QED
    BY <2>2, <2>5
<1> HIDE DEF P
<1>3. \A k \in 0..n : k \in P
  BY <1>1, <1>2, UpTo
<1> QED
  BY <1>3 DEF P

\* validate_channel reports Ok exactly for the channels of the grammar: one or
\* more tokens, each of them plain (channel.rs).
THEOREM ValidChannelExact ==
  ASSUME NEW c \in Texts
  PROVE  validate_channel(c) = "Ok" <=> RefChannel(c)
<1> DEFINE ErrorAt(i) ==
      CASE c[i] = "" -> "EmptyToken"
        [] c[i] \in {"*", ">"} -> "WildcardInChannel"
        [] c[i] \in PlainTokens -> "Ok"
        [] OTHER -> "InvalidToken"
    bad == {i \in DOMAIN c : ErrorAt(i) # "Ok"}
    first == CHOOSE i \in bad : \A j \in bad : i <= j
    empty == << "" >>
<1>1. validate_channel(c) = IF c = empty THEN "Empty"
                            ELSE IF bad = {} THEN "Ok" ELSE ErrorAt(first)
  BY DEF validate_channel, FirstError
<1>2. \A i \in DOMAIN c : ErrorAt(i) = "Ok" <=> c[i] \in PlainTokens
  BY TokenAssumption
<1>3. bad \subseteq Nat
  <2>1. DOMAIN c \subseteq Nat
    BY LenProperties DEF Texts
  <2> QED
    BY <2>1, Zenon
<1>4. bad # {} => first \in bad
  <2> HIDE DEF bad
  <2> QED
    BY <1>3, FirstOfSome
<1>5. bad = {} <=> RefChannel(c)
  BY <1>2 DEF RefChannel
<1>6. c = empty => ~RefChannel(c)
  <2> DEFINE blank == ""
  <2>1. empty = << blank >>
    BY Zenon
  <2>2. blank \notin PlainTokens
    BY TokenAssumption, Zenon
  <2> HIDE DEF blank, empty
  <2> QED
    BY <2>1, <2>2 DEF RefChannel
<1>7. bad # {} => ErrorAt(first) # "Ok"
  <2> HIDE DEF first
  <2> QED
    BY <1>4
<1> HIDE DEF bad, first, ErrorAt, empty
<1> QED
  BY <1>1, <1>5, <1>6, <1>7

\* validate_pattern reports Ok exactly for the patterns of the grammar: plain
\* tokens and '*' anywhere, '>' at the end (channel.rs).
THEOREM ValidPatternExact ==
  ASSUME NEW p \in Texts
  PROVE  validate_pattern(p) = "Ok" <=> RefPattern(p)
<1> DEFINE ErrorAt(i) ==
      CASE p[i] = "" -> "EmptyToken"
        [] p[i] = ">" -> IF i # Len(p) THEN "TailWildcardNotFinal" ELSE "Ok"
        [] p[i] \in PlainTokens \cup {"*"} -> "Ok"
        [] OTHER -> "InvalidToken"
    bad == {i \in DOMAIN p : ErrorAt(i) # "Ok"}
    first == CHOOSE i \in bad : \A j \in bad : i <= j
    empty == << "" >>
<1>1. validate_pattern(p) = IF p = empty THEN "Empty"
                            ELSE IF bad = {} THEN "Ok" ELSE ErrorAt(first)
  BY DEF validate_pattern, FirstError
<1>2. \A i \in DOMAIN p : ErrorAt(i) = "Ok" <=>
        p[i] \in PlainTokens \cup {"*", ">"} /\ (p[i] = ">" => i = Len(p))
  BY TokenAssumption
<1>3. bad \subseteq Nat
  <2>1. DOMAIN p \subseteq Nat
    BY LenProperties DEF Texts
  <2> QED
    BY <2>1, Zenon
<1>4. bad # {} => first \in bad
  <2> HIDE DEF bad
  <2> QED
    BY <1>3, FirstOfSome
<1>5. bad = {} <=> RefPattern(p)
  BY <1>2 DEF RefPattern
<1>6. p = empty => ~RefPattern(p)
  <2> DEFINE blank == ""
  <2>1. empty = << blank >>
    BY Zenon
  <2>2. blank \notin PlainTokens \cup {"*", ">"}
    BY TokenAssumption
  <2> HIDE DEF blank, empty
  <2> QED
    BY <2>1, <2>2 DEF RefPattern
<1>7. bad # {} => ErrorAt(first) # "Ok"
  <2> HIDE DEF first
  <2> QED
    BY <1>4
<1> HIDE DEF bad, first, ErrorAt, empty
<1> QED
  BY <1>1, <1>5, <1>6, <1>7

-----------------------------------------------------------------------------
(* Matching *)

\* What the loop of channel_matches returns from token i on, without a loop.
Ahead(c, p, i) ==
  LET tail == p[Len(p)] = ">"
      fixed == IF tail THEN Len(p) - 1 ELSE Len(p)
  IN  /\ IF tail /\ i < Len(p) THEN Len(c) > fixed ELSE Len(c) = Len(p)
      /\ \A k \in (i + 1)..fixed : p[k] \in {"*", c[k]}

\* One turn of that loop.
Turn(c, p, i, rest) ==
  IF i = Len(p) THEN i = Len(c)
  ELSE IF p[i + 1] = ">" THEN i < Len(c) \/ i = 0
  ELSE i < Len(c) /\ p[i + 1] \in {"*", c[i + 1]} /\ rest

LEMMA AheadTurn ==
  ASSUME NEW c \in Texts, NEW p \in Texts, RefPattern(p), NEW i \in 0..Len(p)
  PROVE  Ahead(c, p, i) <=> Turn(c, p, i, Ahead(c, p, i + 1))
<1> DEFINE n == Len(p)
           m == Len(c)
           tail == p[n] = ">"
           Fits(k) == p[k] \in {"*", c[k]}
           AllFit(j, k) == \A l \in j..k : Fits(l)
<1>1. /\ n \in Nat \ {0} /\ m \in Nat \ {0} /\ i \in 0..n
      /\ \A k \in 1..n : p[k] = ">" => k = n
  BY LenProperties, EmptySeq DEF Texts, RefPattern
<1>2. \A j : Ahead(c, p, j) <=>
        /\ IF tail /\ j < n THEN m > (IF tail THEN n - 1 ELSE n) ELSE m = n
        /\ AllFit(j + 1, IF tail THEN n - 1 ELSE n)
  BY DEF Ahead
<1>3. Turn(c, p, i, Ahead(c, p, i + 1)) <=>
        IF i = n THEN i = m
        ELSE IF p[i + 1] = ">" THEN i < m \/ i = 0
        ELSE i < m /\ Fits(i + 1) /\ Ahead(c, p, i + 1)
  BY DEF Turn
<1>4. ASSUME NEW j \in Nat, NEW k \in Nat, j <= k
      PROVE  AllFit(j, k) <=> Fits(j) /\ AllFit(j + 1, k)
  <2> HIDE DEF Fits
  <2> QED
    BY <1>4
<1>5. \A j, k \in Nat : j > k => AllFit(j, k)
  <2> HIDE DEF Fits
  <2> QED
    OBVIOUS
<1> HIDE DEF n, m, AllFit, Fits
<1>6. CASE i = n
  BY <1>1, <1>2, <1>3, <1>5, <1>6
<1>7. CASE i < n /\ p[i + 1] = ">"
  <2>1. i + 1 = n /\ tail
    BY <1>1, <1>7
  <2> QED
    BY <1>1, <1>2, <1>3, <1>5, <1>7, <2>1
<1>8. CASE i < n /\ p[i + 1] # ">"
  <2>1. CASE tail
    <3>1. i + 1 < n
      BY <1>1, <1>8, <2>1
    <3>2. AllFit(i + 1, n - 1) <=> Fits(i + 1) /\ AllFit(i + 2, n - 1)
      BY <1>1, <1>4, <3>1
    <3> QED
      BY <1>1, <1>2, <1>3, <1>8, <2>1, <3>1, <3>2
  <2>2. CASE ~tail
    <3>1. AllFit(i + 1, n) <=> Fits(i + 1) /\ AllFit(i + 2, n)
      BY <1>1, <1>4, <1>8
    <3> QED
      BY <1>1, <1>2, <1>3, <1>8, <2>2, <3>1
  <2> QED
    BY <2>1, <2>2
<1> QED
  BY <1>1, <1>6, <1>7, <1>8

\* On a valid pattern and a valid channel the loop of channel_matches decides
\* what the grammar says (channel.rs:95): '*' stands for one token, a final '>'
\* for one or more.
THEOREM ChannelMatchesExact ==
  ASSUME NEW c \in Texts, NEW p \in Texts, RefChannel(c), RefPattern(p)
  PROVE  channel_matches(c, p) <=> RefMatches(c, p)
<1> DEFINE n == Len(p)
           Rec(f) == f = [i \in 0..n |->
                            IF i = Len(p) THEN i = Len(c)
                            ELSE IF p[i + 1] = ">" THEN i < Len(c) \/ i = 0
                            ELSE i < Len(c) /\ p[i + 1] \in {"*", c[i + 1]} /\ f[i + 1]]
           matched == CHOOSE f : Rec(f)
<1>1. n \in Nat \ {0}
  BY LenProperties, EmptySeq DEF Texts
<1>2. channel_matches(c, p) <=> matched[0]
  <2>1. validate_channel(c) = "Ok" /\ validate_pattern(p) = "Ok"
    BY ValidChannelExact, ValidPatternExact
  <2> QED
    BY <2>1 DEF channel_matches
<1>3. Rec(matched)
  <2> DEFINE g == [i \in 0..n |-> Turn(c, p, i, Ahead(c, p, i + 1))]
  <2>1. ASSUME NEW i \in 0..n PROVE Turn(c, p, i, Ahead(c, p, i + 1)) = Turn(c, p, i, g[i + 1])
    <3>1. CASE i = n
      BY <3>1 DEF Turn
    <3>2. CASE i < n
      <4>1. i + 1 \in 0..n
        BY <1>1, <3>2
      <4>2. g[i + 1] = Turn(c, p, i + 1, Ahead(c, p, (i + 1) + 1))
        BY <4>1
      <4>3. Ahead(c, p, i + 1) <=> Turn(c, p, i + 1, Ahead(c, p, (i + 1) + 1))
        BY <4>1, AheadTurn
      <4> QED
        BY <4>2, <4>3 DEF Turn
    <3> QED
      BY <1>1, <3>1, <3>2
  <2>2. Rec(g)
    BY <2>1 DEF Turn
  <2> HIDE DEF g
  <2> QED
    BY <2>2
<1> HIDE DEF matched
<1>4. \A i \in 0..n : matched[i] <=> Turn(c, p, i, matched[i + 1])
  BY <1>3 DEF Turn
<1> DEFINE P == {k \in 0..n : matched[n - k] <=> Ahead(c, p, n - k)}
<1>5. 0 \in P
  <2>1. matched[n] <=> Turn(c, p, n, Ahead(c, p, n + 1))
    BY <1>1, <1>4 DEF Turn
  <2> QED
    BY <1>1, <2>1, AheadTurn
<1>6. ASSUME NEW k \in 0..n, k \in P, k < n PROVE k + 1 \in P
  <2> DEFINE i == n - (k + 1)
  <2>1. i \in 0..n /\ i + 1 = n - k /\ k + 1 \in 0..n
    BY <1>1, <1>6
  <2>2. matched[i + 1] <=> Ahead(c, p, i + 1)
    BY <1>6, <2>1
  <2>3. matched[i] <=> Turn(c, p, i, Ahead(c, p, i + 1))
    BY <1>4, <2>1, <2>2 DEF Turn
  <2>4. matched[i] <=> Ahead(c, p, i)
    BY <2>1, <2>3, AheadTurn
  <2> QED
    BY <2>1, <2>4
<1> HIDE DEF P
<1>7. \A k \in 0..n : k \in P
  BY <1>1, <1>5, <1>6, UpTo
<1>8. matched[0] <=> Ahead(c, p, 0)
  <2>1. n \in P /\ n - n = 0
    BY <1>1, <1>7
  <2> QED
    BY <2>1 DEF P
<1>9. Ahead(c, p, 0) <=> RefMatches(c, p)
  BY <1>1 DEF Ahead, RefMatches
<1> QED
  BY <1>2, <1>8, <1>9

-----------------------------------------------------------------------------
(* Filtering *)

\* g lists what the loop of Retain has kept after each element.
Keeps(s, keep, g) ==
  /\ g[0] = <<>>
  /\ \A i \in 1..Len(s) : g[i] = IF s[i] \in keep THEN Append(g[i - 1], s[i]) ELSE g[i - 1]

LEMMA RetainRuns ==
  ASSUME NEW X, NEW s \in Seq(X), NEW keep
  PROVE  \E g \in [0..Len(s) -> Seq(X)] : Keeps(s, keep, g) /\ Retain(s, keep) = g[Len(s)]
<1> DEFINE n == Len(s)
           Step(k, u) == IF s[k] \in keep THEN Append(u, s[k]) ELSE u
           F == [k \in 1..n |-> [u \in Seq(X) |-> Step(k, u)]]
           Rec(f) == f = [i \in 0..n |-> IF i = 0 THEN <<>> ELSE Step(i, f[i - 1])]
           kept == CHOOSE f : Rec(f)
<1>1. n \in Nat /\ \A k \in 1..n : s[k] \in X
  BY LenProperties, ElementOfSeq
<1>2. \A k \in 1..n, u \in Seq(X) : Step(k, u) \in Seq(X)
  BY <1>1
<1>3. PICK g \in [0..n -> Seq(X)] : Goes(n, F, <<>>, g)
  <2>1. F \in [1..n -> [Seq(X) -> Seq(X)]]
    <3> HIDE DEF Step
    <3> QED
      BY <1>2
  <2>2. <<>> \in Seq(X)
    OBVIOUS
  <2> HIDE DEF F, n
  <2> QED
    BY <1>1, <2>1, <2>2, Iterates
<1>4. ASSUME NEW k \in 1..n PROVE g[k] = Step(k, g[k - 1])
  <2>1. k - 1 \in 0..n
    BY <1>1
  <2>2. g[k - 1] \in Seq(X)
    BY <1>3, <2>1
  <2>3. F[k][g[k - 1]] = Step(k, g[k - 1])
    <3> HIDE DEF Step
    <3> QED
      BY <2>2
  <2>4. g[k] = F[k][g[k - 1]]
    BY <1>3 DEF Goes
  <2> QED
    BY <2>3, <2>4
<1>5. g[0] = <<>>
  BY <1>3 DEF Goes
<1>6. Rec(g)
  <2> DEFINE Value(i) == IF i = 0 THEN <<>> ELSE Step(i, g[i - 1])
  <2> HIDE DEF Step
  <2>1. ASSUME NEW i \in 0..n, i # 0 PROVE g[i] = Step(i, g[i - 1])
    BY <1>1, <1>4, <2>1
  <2>2. ASSUME NEW i \in 0..n PROVE g[i] = Value(i)
    BY <1>5, <2>1
  <2> HIDE DEF Value
  <2>3. g = [i \in 0..n |-> Value(i)]
    BY <1>3, <2>2
  <2> QED
    BY <2>3 DEF Value
<1>7. Rec(kept)
  <2> HIDE DEF Step
  <2> QED
    BY <1>6
<1>8. Retain(s, keep) = kept[n]
  BY DEF Retain
<1> HIDE DEF kept, Step
<1>9. kept[0] = <<>> /\ \A k \in 1..n : kept[k] = Step(k, kept[k - 1])
  <2>1. kept = [i \in 0..n |-> IF i = 0 THEN <<>> ELSE Step(i, kept[i - 1])]
    BY <1>7, Zenon
  <2>2. 0 \in 0..n /\ \A k \in 1..n : k \in 0..n /\ k # 0
    BY <1>1
  <2> HIDE DEF n
  <2> QED
    BY ONLY <2>1, <2>2
<1> DEFINE P == {k \in 0..n : kept[k] = g[k]}
<1>10. 0 \in P
  BY <1>1, <1>5, <1>9
<1>11. ASSUME NEW k \in 0..n, k \in P, k < n PROVE k + 1 \in P
  <2>1. k + 1 \in 1..n /\ (k + 1) - 1 = k /\ k + 1 \in 0..n
    BY <1>1, <1>11
  <2>2. kept[k + 1] = Step(k + 1, kept[k]) /\ g[k + 1] = Step(k + 1, g[k])
    BY <1>4, <1>9, <2>1
  <2> QED
    BY <1>11, <2>1, <2>2
<1> HIDE DEF P
<1>12. \A k \in 0..n : k \in P
  BY <1>1, <1>10, <1>11, UpTo
<1>13. kept[n] = g[n]
  BY <1>1, <1>12 DEF P
<1> QED
  BY <1>3, <1>4, <1>5, <1>8, <1>13 DEF Keeps, Step

\* The elements of a sequence with one more.
LEMMA AppendSet ==
  ASSUME NEW X, NEW t \in Seq(X), NEW e \in X
  PROVE  /\ ToSet(Append(t, e)) = ToSet(t) \cup {e}
         /\ NoDuplicates(t) /\ e \notin ToSet(t) => NoDuplicates(Append(t, e))
<1> DEFINE u == Append(t, e)
           l == Len(t)
<1>1. /\ l \in Nat /\ DOMAIN t = 1..l /\ DOMAIN u = 1..(l + 1)
      /\ u[l + 1] = e /\ \A j \in 1..l : u[j] = t[j]
  BY LenProperties, AppendProperties
<1> HIDE DEF u, l
<1>2. ToSet(u) = ToSet(t) \cup {e}
  BY <1>1 DEF ToSet
<1>3. NoDuplicates(t) /\ e \notin ToSet(t) => NoDuplicates(u)
  BY <1>1 DEF NoDuplicates, ToSet
<1> QED
  BY <1>2, <1>3 DEF u

\* What is kept is a sequence of the elements in keep, each as often as before.
LEMMA RetainFacts ==
  ASSUME NEW X, NEW s \in Seq(X), NEW keep
  PROVE  /\ Retain(s, keep) \in Seq(X)
         /\ ToSet(Retain(s, keep)) = ToSet(s) \cap keep
         /\ NoDuplicates(s) => NoDuplicates(Retain(s, keep))
<1> DEFINE n == Len(s)
<1>1. PICK g \in [0..n -> Seq(X)] : Keeps(s, keep, g) /\ Retain(s, keep) = g[n]
  BY RetainRuns
<1>2. n \in Nat /\ DOMAIN s = 1..n /\ \A k \in 1..n : s[k] \in X
  BY LenProperties, ElementOfSeq
<1> DEFINE Before(k) == {s[j] : j \in 1..k}
           Good(k) == /\ ToSet(g[k]) = Before(k) \cap keep
                      /\ NoDuplicates(s) => NoDuplicates(g[k])
           P == {k \in 0..n : Good(k)}
<1>3. 0 \in P
  <2>1. g[0] = <<>> /\ DOMAIN << >> = {} /\ Before(0) = {}
    BY <1>1, <1>2 DEF Keeps
  <2> QED
    BY <1>2, <2>1 DEF ToSet, NoDuplicates
<1>4. ASSUME NEW k \in 0..n, k \in P, k < n PROVE k + 1 \in P
  <2>1. k + 1 \in 1..n /\ (k + 1) - 1 = k /\ k + 1 \in 0..n /\ s[k + 1] \in X
    BY <1>2, <1>4
  <2>2. Before(k + 1) = Before(k) \cup {s[k + 1]}
    BY <1>2, <2>1
  <2>3. g[k + 1] = IF s[k + 1] \in keep THEN Append(g[k], s[k + 1]) ELSE g[k]
    BY <1>1, <2>1 DEF Keeps
  <2>4. CASE s[k + 1] \notin keep
    <3> HIDE DEF Before
    <3> QED
      BY <1>4, <2>1, <2>2, <2>3, <2>4
  <2>5. CASE s[k + 1] \in keep
    <3> DEFINE t == g[k]
               e == s[k + 1]
    <3>1. t \in Seq(X) /\ e \in X
      BY <1>1, <2>1
    <3> HIDE DEF t, e
    <3>3. ToSet(Append(t, e)) = ToSet(t) \cup {e}
      BY <3>1, AppendSet
    <3>4. NoDuplicates(t) /\ e \notin ToSet(t) => NoDuplicates(Append(t, e))
      BY <3>1, AppendSet
    <3>5. NoDuplicates(s) => e \notin Before(k)
      BY <1>2, <2>1 DEF NoDuplicates, e
    <3>6. g[k + 1] = Append(t, e)
      BY <2>3, <2>5 DEF t, e
    <3>7. ToSet(t) = Before(k) \cap keep /\ (NoDuplicates(s) => NoDuplicates(t))
      BY <1>4 DEF t
    <3>8. Before(k + 1) = Before(k) \cup {e} /\ e \in keep
      BY <2>2, <2>5 DEF e
    <3> HIDE DEF Before
    <3> QED
      BY <2>1, <3>3, <3>4, <3>5, <3>6, <3>7, <3>8
  <2> QED
    BY <2>4, <2>5
<1> HIDE DEF P
<1>5. \A k \in 0..n : k \in P
  BY <1>2, <1>3, <1>4, UpTo
<1>6. Good(n) /\ Before(n) = ToSet(s) /\ g[n] \in Seq(X)
  <2>1. n \in P /\ n \in 0..n
    BY <1>2, <1>5
  <2> QED
    BY <1>2, <2>1 DEF P, ToSet
<1> HIDE DEF Before
<1> QED
  BY <1>1, <1>6

\* What is kept depends on the elements alone.
LEMMA RetainSame ==
  ASSUME NEW X, NEW s \in Seq(X), NEW A, NEW B, \A x \in ToSet(s) : x \in A <=> x \in B
  PROVE  Retain(s, A) = Retain(s, B)
<1> DEFINE n == Len(s)
<1>1. PICK g \in [0..n -> Seq(X)] : Keeps(s, A, g) /\ Retain(s, A) = g[n]
  BY RetainRuns
<1>2. PICK h \in [0..n -> Seq(X)] : Keeps(s, B, h) /\ Retain(s, B) = h[n]
  BY RetainRuns
<1>3. n \in Nat /\ \A k \in 1..n : s[k] \in A <=> s[k] \in B
  BY LenProperties DEF ToSet
<1> DEFINE P == {k \in 0..n : g[k] = h[k]}
<1>4. 0 \in P
  BY <1>1, <1>2, <1>3 DEF Keeps
<1>5. ASSUME NEW k \in 0..n, k \in P, k < n PROVE k + 1 \in P
  <2>1. k + 1 \in 1..n /\ (k + 1) - 1 = k /\ k + 1 \in 0..n
    BY <1>3, <1>5
  <2>2. /\ g[k + 1] = IF s[k + 1] \in A THEN Append(g[k], s[k + 1]) ELSE g[k]
        /\ h[k + 1] = IF s[k + 1] \in B THEN Append(h[k], s[k + 1]) ELSE h[k]
    BY <1>1, <1>2, <2>1 DEF Keeps
  <2> QED
    BY <1>3, <1>5, <2>1, <2>2
<1> HIDE DEF P
<1>6. \A k \in 0..n : k \in P
  BY <1>3, <1>4, <1>5, UpTo
<1> QED
  BY <1>1, <1>2, <1>3, <1>6 DEF P

\* One more element.
LEMMA RetainAppend ==
  ASSUME NEW X, NEW s \in Seq(X), NEW e \in X, NEW keep
  PROVE  Retain(Append(s, e), keep) =
           IF e \in keep THEN Append(Retain(s, keep), e) ELSE Retain(s, keep)
<1> DEFINE n == Len(s)
           t == Append(s, e)
<1>1. /\ n \in Nat /\ t \in Seq(X) /\ Len(t) = n + 1
      /\ t[n + 1] = e /\ \A k \in 1..n : t[k] = s[k]
  BY LenProperties, AppendProperties
<1> HIDE DEF t
<1>2. PICK g \in [0..n -> Seq(X)] : Keeps(s, keep, g) /\ Retain(s, keep) = g[n]
  BY RetainRuns
<1>3. PICK h \in [0..(n + 1) -> Seq(X)] : Keeps(t, keep, h) /\ Retain(t, keep) = h[n + 1]
  <2>1. \E h \in [0..Len(t) -> Seq(X)] : Keeps(t, keep, h) /\ Retain(t, keep) = h[Len(t)]
    BY <1>1, RetainRuns
  <2> QED
    BY <1>1, <2>1
<1> DEFINE P == {k \in 0..n : g[k] = h[k]}
<1>4. 0 \in P
  BY <1>1, <1>2, <1>3 DEF Keeps
<1>5. ASSUME NEW k \in 0..n, k \in P, k < n PROVE k + 1 \in P
  <2>1. k + 1 \in 1..n /\ (k + 1) - 1 = k /\ k + 1 \in 0..n /\ k + 1 \in 1..Len(t)
    BY <1>1, <1>5
  <2>2. /\ g[k + 1] = IF s[k + 1] \in keep THEN Append(g[k], s[k + 1]) ELSE g[k]
        /\ h[k + 1] = IF t[k + 1] \in keep THEN Append(h[k], t[k + 1]) ELSE h[k]
    BY <1>2, <1>3, <2>1 DEF Keeps
  <2> QED
    BY <1>1, <1>5, <2>1, <2>2
<1> HIDE DEF P
<1>6. \A k \in 0..n : k \in P
  BY <1>1, <1>4, <1>5, UpTo
<1>7. g[n] = h[n]
  BY <1>1, <1>6 DEF P
<1>8. h[n + 1] = IF t[n + 1] \in keep THEN Append(h[n], t[n + 1]) ELSE h[n]
  <2>1. n + 1 \in 1..Len(t) /\ (n + 1) - 1 = n
    BY <1>1
  <2> QED
    BY <1>3, <2>1 DEF Keeps
<1> QED
  BY <1>1, <1>2, <1>3, <1>7, <1>8 DEF t

\* Filtering by one test and then by another is filtering by both.
LEMMA RetainTwice ==
  ASSUME NEW X, NEW s \in Seq(X), NEW A, NEW B
  PROVE  Retain(Retain(s, A), B) = Retain(s, A \cap B)
<1> DEFINE n == Len(s)
<1>1. PICK g \in [0..n -> Seq(X)] : Keeps(s, A, g) /\ Retain(s, A) = g[n]
  BY RetainRuns
<1>2. PICK h \in [0..n -> Seq(X)] : Keeps(s, A \cap B, h) /\ Retain(s, A \cap B) = h[n]
  BY RetainRuns
<1>3. n \in Nat /\ \A k \in 1..n : s[k] \in X
  BY LenProperties, ElementOfSeq
<1> DEFINE P == {k \in 0..n : Retain(g[k], B) = h[k]}
<1>4. 0 \in P
  <2>1. g[0] = <<>> /\ h[0] = <<>>
    BY <1>1, <1>2 DEF Keeps
  <2>2. Retain(<<>>, B) = <<>>
    <3>1. <<>> \in Seq(X) /\ Len(<<>>) = 0
      OBVIOUS
    <3>2. PICK z \in Seq(X) : z = <<>> /\ Len(z) = 0
      BY <3>1
    <3>3. \E f \in [0..Len(z) -> Seq(X)] : Keeps(z, B, f) /\ Retain(z, B) = f[Len(z)]
      BY ONLY z \in Seq(X), RetainRuns
    <3>4. PICK f : Keeps(z, B, f) /\ Retain(z, B) = f[0]
      BY <3>2, <3>3
    <3> QED
      BY <3>2, <3>4 DEF Keeps
  <2> QED
    BY <1>3, <2>1, <2>2
<1>5. ASSUME NEW k \in 0..n, k \in P, k < n PROVE k + 1 \in P
  <2>1. k + 1 \in 1..n /\ (k + 1) - 1 = k /\ k + 1 \in 0..n /\ s[k + 1] \in X /\ g[k] \in Seq(X)
    BY <1>1, <1>3, <1>5
  <2>2. /\ g[k + 1] = IF s[k + 1] \in A THEN Append(g[k], s[k + 1]) ELSE g[k]
        /\ h[k + 1] = IF s[k + 1] \in A \cap B THEN Append(h[k], s[k + 1]) ELSE h[k]
    BY <1>1, <1>2, <2>1 DEF Keeps
  <2>3. Retain(Append(g[k], s[k + 1]), B) =
          IF s[k + 1] \in B THEN Append(Retain(g[k], B), s[k + 1]) ELSE Retain(g[k], B)
    <3>1. PICK t \in Seq(X), e \in X : t = g[k] /\ e = s[k + 1]
      BY <2>1
    <3>2. Retain(Append(t, e), B) = IF e \in B THEN Append(Retain(t, B), e) ELSE Retain(t, B)
      BY RetainAppend
    <3> QED
      BY <3>1, <3>2
  <2>4. Retain(g[k], B) = h[k]
    BY <1>5
  <2>5. Retain(g[k + 1], B) = h[k + 1]
    <3>1. CASE s[k + 1] \in A
      BY <2>2, <2>3, <2>4, <3>1
    <3>2. CASE s[k + 1] \notin A
      BY <2>2, <2>4, <3>2
    <3> QED
      BY <3>1, <3>2
  <2> QED
    BY <2>1, <2>5
<1> HIDE DEF P
<1>6. \A k \in 0..n : k \in P
  BY <1>3, <1>4, <1>5, UpTo
<1> QED
  BY <1>1, <1>2, <1>3, <1>6 DEF P

\* Nothing is lost when everything is to be kept.
LEMMA RetainAll ==
  ASSUME NEW X, NEW s \in Seq(X), NEW keep, ToSet(s) \subseteq keep
  PROVE  Len(Retain(s, keep)) = Len(s)
<1> DEFINE n == Len(s)
<1>1. PICK g \in [0..n -> Seq(X)] : Keeps(s, keep, g) /\ Retain(s, keep) = g[n]
  BY RetainRuns
<1>2. n \in Nat /\ \A k \in 1..n : s[k] \in keep /\ s[k] \in X
  BY LenProperties, ElementOfSeq DEF ToSet
<1> DEFINE P == {k \in 0..n : Len(g[k]) = k}
<1>3. 0 \in P
  BY <1>1, <1>2 DEF Keeps
<1>4. ASSUME NEW k \in 0..n, k \in P, k < n PROVE k + 1 \in P
  <2>1. k + 1 \in 1..n /\ (k + 1) - 1 = k /\ k + 1 \in 0..n
    BY <1>2, <1>4
  <2>2. g[k + 1] = Append(g[k], s[k + 1]) /\ g[k] \in Seq(X) /\ s[k + 1] \in X
    BY <1>1, <1>2, <2>1 DEF Keeps
  <2>3. Len(g[k + 1]) = k + 1
    BY <1>4, <2>2
  <2> QED
    BY <2>1, <2>3
<1> HIDE DEF P
<1>5. \A k \in 0..n : k \in P
  BY <1>2, <1>3, <1>4, UpTo
<1> QED
  BY <1>1, <1>2, <1>5 DEF P

\* Something is lost when something is not to be kept.
LEMMA RetainSome ==
  ASSUME NEW X, NEW s \in Seq(X), NEW keep, NEW x \in ToSet(s), x \notin keep
  PROVE  Len(Retain(s, keep)) # Len(s)
<1> DEFINE n == Len(s)
<1>1. PICK g \in [0..n -> Seq(X)] : Keeps(s, keep, g) /\ Retain(s, keep) = g[n]
  BY RetainRuns
<1>2. n \in Nat /\ DOMAIN s = 1..n /\ \A k \in 1..n : s[k] \in X
  BY LenProperties, ElementOfSeq
<1>3. PICK q \in 1..n : s[q] \notin keep
  BY <1>2 DEF ToSet
<1> DEFINE P == {k \in 0..n : Len(g[k]) <= k /\ (q <= k => Len(g[k]) < k)}
<1>4. 0 \in P
  <2>1. g[0] = <<>> /\ ~(q <= 0) /\ 0 \in 0..n
    BY <1>1, <1>2 DEF Keeps
  <2> QED
    BY <2>1
<1>5. ASSUME NEW k \in 0..n, k \in P, k < n PROVE k + 1 \in P
  <2>1. k + 1 \in 1..n /\ (k + 1) - 1 = k /\ k + 1 \in 0..n
    BY <1>2, <1>5
  <2>2. /\ g[k + 1] = IF s[k + 1] \in keep THEN Append(g[k], s[k + 1]) ELSE g[k]
        /\ g[k] \in Seq(X) /\ s[k + 1] \in X
    BY <1>1, <1>2, <2>1 DEF Keeps
  <2>3. Len(g[k]) \in Nat /\ Len(g[k]) <= k /\ (q <= k => Len(g[k]) < k)
    BY <1>5, <2>2, LenProperties
  <2>4. Len(g[k + 1]) <= k + 1 /\ (q <= k + 1 => Len(g[k + 1]) < k + 1)
    <3>1. CASE s[k + 1] \in keep
      <4>1. Len(g[k + 1]) = Len(g[k]) + 1
        BY <2>2, <3>1
      <4>2. q # k + 1
        BY <1>3, <3>1
      <4> QED
        BY <1>2, <2>3, <4>1, <4>2
    <3>2. CASE s[k + 1] \notin keep
      <4>1. g[k + 1] = g[k]
        BY <2>2, <3>2
      <4> QED
        BY <1>2, <2>3, <4>1
    <3> QED
      BY <3>1, <3>2
  <2> QED
    BY <2>1, <2>4
<1> HIDE DEF P
<1>6. \A k \in 0..n : k \in P
  BY <1>2, <1>4, <1>5, UpTo
<1>7. Len(g[n]) < n
  BY <1>2, <1>6 DEF P
<1> QED
  BY <1>1, <1>2, <1>7

\* The positions in S are listed each once, from the first to the last.
LEMMA PositionsFacts ==
  ASSUME NEW X, NEW s \in Seq(X), NEW S
  PROVE  /\ Positions(s, S) \in Seq(1..Len(s))
         /\ ToSet(Positions(s, S)) = (1..Len(s)) \cap S
         /\ \A i, j \in 1..Len(Positions(s, S)) : i < j => Positions(s, S)[i] < Positions(s, S)[j]
<1> DEFINE n == Len(s)
           id == [i \in DOMAIN s |-> i]
<1>1. n \in Nat /\ DOMAIN s = 1..n
  BY LenProperties
<1>2. id \in Seq(1..n) /\ Len(id) = n /\ \A k \in 1..n : id[k] = k
  BY <1>1
<1>3. Positions(s, S) = Retain(id, S)
  BY DEF Positions
<1> HIDE DEF id
<1>4. PICK g \in [0..n -> Seq(1..n)] : Keeps(id, S, g) /\ Retain(id, S) = g[n]
  BY <1>2, RetainRuns
<1>5. ToSet(id) = 1..n
  <2>1. DOMAIN id = 1..n
    BY <1>1, <1>2, LenProperties
  <2> QED
    BY <1>2, <2>1 DEF ToSet
<1>6. Retain(id, S) \in Seq(1..n) /\ ToSet(Retain(id, S)) = (1..n) \cap S
  BY <1>2, <1>5, RetainFacts
<1> DEFINE Sorted(o, k) == /\ \A i \in 1..Len(o) : o[i] <= k
                           /\ \A i, j \in 1..Len(o) : i < j => o[i] < o[j]
           P == {k \in 0..n : Sorted(g[k], k)}
<1>7. 0 \in P
  <2>1. g[0] = <<>> /\ Len(<<>>) = 0
    BY <1>4 DEF Keeps
  <2>2. 1..0 = {}
    OBVIOUS
  <2> QED
    BY <1>1, <2>1, <2>2
<1>8. ASSUME NEW k \in 0..n, k \in P, k < n PROVE k + 1 \in P
  <2>1. k + 1 \in 1..n /\ (k + 1) - 1 = k /\ k + 1 \in 0..n
    BY <1>1, <1>8
  <2>2. PICK o \in Seq(1..n) : o = g[k]
    BY <1>4
  <2>3. g[k + 1] = IF k + 1 \in S THEN Append(o, k + 1) ELSE o
    BY <1>2, <1>4, <2>1, <2>2 DEF Keeps
  <2>4. Sorted(o, k)
    BY <1>8, <2>2
  <2>5. Len(o) \in Nat /\ \A i \in 1..Len(o) : o[i] \in Nat
    <3>1. \A i \in 1..Len(o) : o[i] \in 1..n
      BY ElementOfSeq
    <3> QED
      BY <3>1
  <2>6. CASE k + 1 \notin S
    BY <2>1, <2>3, <2>4, <2>5, <2>6
  <2>7. CASE k + 1 \in S
    <3>1. PICK q : q = Append(o, k + 1)
      OBVIOUS
    <3>2. Len(q) = Len(o) + 1 /\ q[Len(o) + 1] = k + 1 /\ \A i \in 1..Len(o) : q[i] = o[i]
      BY <2>1, <3>1, AppendProperties
    <3>3. \A i \in 1..Len(q) : i \in 1..Len(o) \/ i = Len(o) + 1
      BY <2>5, <3>2
    <3>4. Sorted(q, k + 1)
      <4>1. ASSUME NEW i \in 1..Len(q) PROVE q[i] <= k + 1
        <5>1. CASE i \in 1..Len(o)
          <6>1. q[i] = o[i] /\ o[i] <= k /\ o[i] \in Nat
            BY <2>4, <2>5, <3>2, <5>1
          <6> QED
            BY <6>1
        <5>2. CASE i = Len(o) + 1
          <6>1. q[i] = k + 1 /\ k + 1 \in Nat
            BY <3>2, <5>2
          <6> QED
            BY <6>1
        <5> QED
          BY <3>3, <5>1, <5>2
      <4>2. ASSUME NEW i \in 1..Len(q), NEW j \in 1..Len(q), i < j PROVE q[i] < q[j]
        <5>1. i \in 1..Len(o)
          BY <2>5, <3>2, <4>2
        <5>2. CASE j \in 1..Len(o)
          BY <2>4, <3>2, <4>2, <5>1, <5>2
        <5>3. CASE j = Len(o) + 1
          <6>1. q[i] = o[i] /\ o[i] <= k /\ o[i] \in Nat /\ q[j] = k + 1
            BY <2>4, <2>5, <3>2, <5>1, <5>3
          <6> QED
            BY <6>1
        <5> QED
          BY <3>3, <5>2, <5>3
      <4> QED
        BY <4>1, <4>2
    <3>5. g[k + 1] = q
      BY <2>3, <2>7, <3>1
    <3> HIDE DEF Sorted
    <3> QED
      BY <2>1, <3>4, <3>5
  <2> QED
    BY <2>6, <2>7
<1> HIDE DEF P
<1>9. \A k \in 0..n : k \in P
  BY <1>1, <1>7, <1>8, UpTo
<1>10. Sorted(g[n], n)
  BY <1>1, <1>9 DEF P
<1> QED
  BY <1>3, <1>4, <1>6, <1>10

\* So nothing in S lies between two neighbours of the list.
LEMMA Neighbours ==
  ASSUME NEW X, NEW s \in Seq(X), NEW S, NEW m \in Nat, m >= 1, m < Len(Positions(s, S)),
         NEW x \in (1..Len(s)) \cap S
  PROVE  x <= Positions(s, S)[m] \/ x >= Positions(s, S)[m + 1]
<1> DEFINE o == Positions(s, S)
<1>1. /\ o \in Seq(1..Len(s)) /\ ToSet(o) = (1..Len(s)) \cap S
      /\ \A i, j \in 1..Len(o) : i < j => o[i] < o[j]
  BY PositionsFacts
<1> HIDE DEF o
<1>2. /\ DOMAIN o = 1..Len(o) /\ Len(o) \in Nat /\ Len(s) \in Nat
      /\ \A i \in 1..Len(o) : o[i] \in Nat
  <2>1. DOMAIN o = 1..Len(o) /\ Len(o) \in Nat /\ Len(s) \in Nat /\ \A i \in 1..Len(o) : o[i] \in 1..Len(s)
    BY <1>1, LenProperties, ElementOfSeq
  <2> QED
    BY <2>1
<1>3. PICK i \in 1..Len(o) : x = o[i]
  BY <1>1, <1>2 DEF ToSet
<1>4. m \in 1..Len(o) /\ m + 1 \in 1..Len(o) /\ (i < m \/ i = m \/ i = m + 1 \/ m + 1 < i)
  BY <1>2 DEF o
<1>5. o[m] \in Nat /\ o[m + 1] \in Nat /\ o[i] \in Nat
  BY <1>2, <1>4
<1>6. x <= o[m] \/ x >= o[m + 1]
  <2>1. CASE i < m
    <3>1. o[i] < o[m]
      BY <1>1, <1>4, <2>1
    <3> QED
      BY ONLY <1>3, <1>5, <3>1
  <2>2. CASE m + 1 < i
    <3>1. o[m + 1] < o[i]
      BY <1>1, <1>4, <2>2
    <3> QED
      BY ONLY <1>3, <1>5, <3>1
  <2>3. CASE i = m \/ i = m + 1
    BY ONLY <1>3, <1>5, <2>3
  <2> QED
    BY ONLY <1>4, <2>1, <2>2, <2>3
<1> QED
  BY <1>6 DEF o

-----------------------------------------------------------------------------
(* What the bundled extensions send *)

\* The cuts: the start, the dots, the end.
LEMMA CutsShape ==
  ASSUME NEW L \in Nat, NEW o \in Seq(1..L)
  PROVE  LET c == << 0 >> \o o \o << L + 1 >>
         IN  /\ Len(c) = Len(o) + 2
             /\ c[1] = 0 /\ c[Len(o) + 2] = L + 1
             /\ \A k \in 1..Len(o) : c[k + 1] = o[k]
<1> DEFINE a == << 0 >> \o o
           c == a \o << L + 1 >>
<1>1. /\ o \in Seq(Nat) /\ << 0 >> \in Seq(Nat) /\ << L + 1 >> \in Seq(Nat)
      /\ Len(<< 0 >>) = 1 /\ Len(<< L + 1 >>) = 1 /\ << 0 >>[1] = 0 /\ << L + 1 >>[1] = L + 1
      /\ Len(o) \in Nat
  OBVIOUS
<1>2. /\ a \in Seq(Nat) /\ Len(a) = Len(o) + 1 /\ a[1] = 0
      /\ \A k \in 1..Len(o) : a[k + 1] = o[k]
  <2>1. /\ a \in Seq(Nat) /\ Len(a) = 1 + Len(o)
        /\ \A i \in 1..(1 + Len(o)) : a[i] = IF i <= 1 THEN << 0 >>[i] ELSE o[i - 1]
    BY <1>1, ConcatProperties
  <2> HIDE DEF a
  <2>2. a[1] = 0
    BY <1>1, <2>1
  <2>3. ASSUME NEW k \in 1..Len(o) PROVE a[k + 1] = o[k]
    <3>1. k + 1 \in 1..(1 + Len(o)) /\ ~(k + 1 <= 1) /\ (k + 1) - 1 = k
      BY <1>1
    <3> QED
      BY <2>1, <3>1
  <2> QED
    BY <1>1, <2>1, <2>2, <2>3
<1> HIDE DEF a
<1>3. /\ Len(c) = Len(a) + 1
      /\ \A i \in 1..(Len(a) + 1) : c[i] = IF i <= Len(a) THEN a[i] ELSE << L + 1 >>[i - Len(a)]
  BY <1>1, <1>2, ConcatProperties
<1> HIDE DEF c
<1>4. c[1] = 0
  BY <1>1, <1>2, <1>3
<1>5. c[Len(o) + 2] = L + 1
  <2>1. Len(o) + 2 \in 1..(Len(a) + 1) /\ ~(Len(o) + 2 <= Len(a)) /\ (Len(o) + 2) - Len(a) = 1
    BY <1>1, <1>2
  <2> QED
    BY <1>1, <1>3, <2>1
<1>6. ASSUME NEW k \in 1..Len(o) PROVE c[k + 1] = o[k]
  <2>1. k + 1 \in 1..(Len(a) + 1) /\ k + 1 <= Len(a)
    BY <1>1, <1>2
  <2> QED
    BY <1>2, <1>3, <2>1
<1>7. Len(c) = Len(o) + 2
  BY <1>1, <1>2, <1>3
<1> QED
  BY <1>4, <1>5, <1>6, <1>7 DEF a, c

Dots(s) == {i \in DOMAIN s : s[i] = Dot}
Cuts(s) == << 0 >> \o Positions(s, Dots(s)) \o << Len(s) + 1 >>

\* Two neighbouring cuts: each is a dot or an end of the text.
LEMMA CutsFacts ==
  ASSUME NEW X, NEW s \in Seq(X), NEW n \in 1..(Len(Cuts(s)) - 1)
  PROVE  /\ Len(Cuts(s)) \in Nat /\ Len(Cuts(s)) >= 2
         /\ Cuts(s)[n] \in 0..Len(s) /\ Cuts(s)[n + 1] \in 1..(Len(s) + 1)
         /\ Cuts(s)[n] < Cuts(s)[n + 1]
         /\ Cuts(s)[n] = 0 \/ s[Cuts(s)[n]] = Dot
         /\ Cuts(s)[n + 1] = Len(s) + 1 \/ (Cuts(s)[n + 1] <= Len(s) /\ s[Cuts(s)[n + 1]] = Dot)
<1> DEFINE L == Len(s)
           o == Positions(s, Dots(s))
           c == Cuts(s)
<1>1. L \in Nat /\ DOMAIN s = 1..L
  BY LenProperties
<1>2. /\ o \in Seq(1..L) /\ ToSet(o) = (1..L) \cap Dots(s)
      /\ \A i, j \in 1..Len(o) : i < j => o[i] < o[j]
  BY PositionsFacts
<1>3. c = << 0 >> \o o \o << L + 1 >>
  BY DEF Cuts
<1> HIDE DEF o, c, L
<1>4. /\ Len(c) = Len(o) + 2
      /\ c[1] = 0 /\ c[Len(o) + 2] = L + 1
      /\ \A k \in 1..Len(o) : c[k + 1] = o[k]
  BY <1>1, <1>2, <1>3, CutsShape
<1>5. Len(o) \in Nat /\ \A k \in 1..Len(o) : o[k] \in 1..L /\ s[o[k]] = Dot
  <2>1. Len(o) \in Nat /\ DOMAIN o = 1..Len(o)
    BY <1>2, LenProperties
  <2>2. ASSUME NEW k \in 1..Len(o) PROVE o[k] \in 1..L /\ s[o[k]] = Dot
    <3>1. o[k] \in ToSet(o)
      BY <2>1 DEF ToSet
    <3> QED
      BY <1>2, <3>1 DEF Dots
  <2> QED
    BY <2>1, <2>2
<1>6. n \in 1..(Len(o) + 1)
  BY <1>4, <1>5 DEF c
<1>7. /\ c[n] \in 0..L /\ (c[n] = 0 \/ s[c[n]] = Dot)
      /\ n = 1 => c[n] = 0
      /\ n > 1 => n - 1 \in 1..Len(o) /\ c[n] = o[n - 1]
  <2>1. CASE n = 1
    BY <1>1, <1>4, <2>1
  <2>2. CASE n > 1
    <3>1. n - 1 \in 1..Len(o) /\ (n - 1) + 1 = n
      BY <1>5, <1>6, <2>2
    <3>2. c[n] = o[n - 1] /\ o[n - 1] \in 1..L /\ s[o[n - 1]] = Dot
      BY <1>4, <1>5, <3>1
    <3>3. c[n] \in 0..L /\ s[c[n]] = Dot
      BY <1>1, <3>2
    <3> QED
      BY <2>2, <3>1, <3>2, <3>3
  <2> QED
    BY <1>6, <2>1, <2>2
<1>8. /\ c[n + 1] \in 1..(L + 1) /\ (c[n + 1] = L + 1 \/ (c[n + 1] <= L /\ s[c[n + 1]] = Dot))
      /\ n = Len(o) + 1 => c[n + 1] = L + 1
      /\ n <= Len(o) => n \in 1..Len(o) /\ c[n + 1] = o[n]
  <2>1. CASE n = Len(o) + 1
    <3>1. n + 1 = Len(o) + 2
      BY <1>5, <2>1
    <3> QED
      BY <1>1, <1>4, <1>5, <2>1, <3>1
  <2>2. CASE n <= Len(o)
    <3>1. n \in 1..Len(o)
      BY <1>5, <1>6, <2>2
    <3>2. c[n + 1] = o[n] /\ o[n] \in 1..L /\ s[o[n]] = Dot
      BY <1>4, <1>5, <3>1
    <3>3. c[n + 1] \in 1..(L + 1) /\ c[n + 1] <= L /\ s[c[n + 1]] = Dot
      BY <1>1, <3>2
    <3> QED
      BY <1>5, <2>2, <3>1, <3>2, <3>3
  <2> QED
    BY <1>5, <1>6, <2>1, <2>2
<1>9. c[n] < c[n + 1]
  <2>1. CASE n > 1 /\ n <= Len(o)
    <3>1. n - 1 \in 1..Len(o) /\ n \in 1..Len(o) /\ n - 1 < n
      BY <1>6, <1>7, <1>8, <2>1
    <3> QED
      BY <1>2, <1>7, <1>8, <2>1, <3>1
  <2>2. CASE n = 1
    BY <1>1, <1>7, <1>8, <2>2
  <2>3. CASE n = Len(o) + 1
    BY <1>1, <1>7, <1>8, <2>3
  <2> QED
    BY <1>5, <1>6, <2>1, <2>2, <2>3
<1> QED
  BY <1>4, <1>5, <1>7, <1>8, <1>9 DEF c, L

\* A function on 1..m is a sequence of length m.
LEMMA ListOf ==
  ASSUME NEW Y, NEW m \in Nat, NEW f \in [1..m -> Y]
  PROVE  f \in Seq(Y) /\ Len(f) = m
  OBVIOUS

\* A text that begins and ends with a name and has no two dots together.
Tidy(s) ==
  /\ Len(s) >= 1 /\ s[1] # Dot /\ s[Len(s)] # Dot
  /\ \A i \in 1..(Len(s) - 1) : s[i] # Dot \/ s[i + 1] # Dot

\* Such a text splits into its names; any text splits into some tokens.
LEMMA SplitFacts ==
  ASSUME NEW X, NEW s \in Seq(X)
  PROVE  /\ SplitDots(s) \in Seq(X \cup {""}) /\ Len(SplitDots(s)) \in Nat
         /\ Tidy(s) => SplitDots(s) \in Seq(X \ {Dot})
<1> DEFINE c == Cuts(s)
           L == Len(s)
           m == Len(c) - 1
           Token(n) == IF c[n + 1] = c[n] + 1 THEN "" ELSE s[c[n] + 1]
<1>1. SplitDots(s) = [n \in 1..m |-> Token(n)]
  BY DEF SplitDots, Cuts, Dots
<1>2. L \in Nat /\ \A i \in 1..L : s[i] \in X
  BY LenProperties, ElementOfSeq
<1>3. m \in Nat
  <2>1. Positions(s, Dots(s)) \in Seq(1..L)
    BY PositionsFacts
  <2>2. PICK o \in Seq(1..L) : o = Positions(s, Dots(s))
    BY <2>1
  <2>3. c = << 0 >> \o o \o << L + 1 >>
    BY <2>2 DEF Cuts
  <2>4. Len(c) = Len(o) + 2 /\ Len(o) \in Nat
    BY <1>2, <2>3, CutsShape, LenProperties
  <2> QED
    BY <2>4
<1>4. ASSUME NEW n \in 1..m
      PROVE  /\ c[n] \in 0..L /\ c[n + 1] \in 1..(L + 1) /\ c[n] < c[n + 1]
             /\ c[n] = 0 \/ s[c[n]] = Dot
             /\ c[n + 1] = L + 1 \/ (c[n + 1] <= L /\ s[c[n + 1]] = Dot)
  <2>1. n \in 1..(Len(Cuts(s)) - 1)
    OBVIOUS
  <2> QED
    BY <2>1, CutsFacts
<1> HIDE DEF c, L, m
<1>5. ASSUME NEW n \in 1..m PROVE Token(n) \in X \cup {""}
  <2>1. CASE c[n + 1] = c[n] + 1
    BY <2>1
  <2>2. CASE c[n + 1] # c[n] + 1
    <3>1. c[n] + 1 \in 1..L
      BY <1>2, <1>4, <2>2
    <3> QED
      BY <1>2, <2>2, <3>1
  <2> QED
    BY <2>1, <2>2
<1>6. ASSUME Tidy(s), NEW n \in 1..m PROVE Token(n) \in X \ {Dot}
  <2>0. /\ L >= 1 /\ s[1] # Dot /\ s[L] # Dot
        /\ \A i \in 1..(L - 1) : s[i] # Dot \/ s[i + 1] # Dot
    BY <1>6 DEF Tidy, L
  <2>1. PICK a \in 0..L, b \in 1..(L + 1) :
          /\ a = c[n] /\ b = c[n + 1] /\ a < b
          /\ a = 0 \/ s[a] = Dot
          /\ b = L + 1 \/ (b <= L /\ s[b] = Dot)
    BY <1>4
  <2>2. b # a + 1
    <3> SUFFICES ASSUME b = a + 1 PROVE FALSE
      OBVIOUS
    <3>1. CASE a = 0
      BY <1>2, <2>0, <2>1, <3>1
    <3>2. CASE a # 0 /\ b = L + 1
      <4>1. a = L
        BY <1>2, <3>2
      <4> QED
        BY <2>0, <2>1, <3>2, <4>1
    <3>3. CASE a # 0 /\ b # L + 1
      <4>1. a \in 1..(L - 1) /\ s[a] = Dot /\ s[a + 1] = Dot
        BY <1>2, <2>1, <3>3
      <4> QED
        BY <2>0, <4>1
    <3> QED
      BY <3>1, <3>2, <3>3
  <2>3. a + 1 \in 1..L
    BY <1>2, <2>1, <2>2
  <2>4. s[a + 1] # Dot
    <3>1. CASE a = 0
      BY <2>0, <3>1
    <3>2. CASE a # 0
      <4>1. a \in 1..(L - 1) /\ s[a] = Dot
        BY <1>2, <2>1, <2>3, <3>2
      <4> QED
        BY <2>0, <4>1
    <3> QED
      BY <3>1, <3>2
  <2>5. Token(n) = s[a + 1]
    BY <2>1, <2>2
  <2>6. s[a + 1] \in X \ {Dot}
    BY <1>2, <2>3, <2>4
  <2> HIDE DEF Token
  <2> QED
    BY <2>5, <2>6
<1> HIDE DEF Token
<1>7. SplitDots(s) \in Seq(X \cup {""}) /\ Len(SplitDots(s)) = m
  <2>1. SplitDots(s) \in [1..m -> X \cup {""}]
    BY <1>1, <1>5
  <2> QED
    BY <1>3, <2>1, ListOf
<1>8. ASSUME Tidy(s) PROVE SplitDots(s) \in Seq(X \ {Dot})
  <2>0. \A n \in 1..m : Token(n) \in X \ {Dot}
    BY <1>6, <1>8
  <2>1. SplitDots(s) \in [1..m -> X \ {Dot}]
    BY <1>1, <2>0
  <2> QED
    BY <1>3, <2>1, ListOf
<1> QED
  BY <1>3, <1>7, <1>8

\* What is left of a trimmed text: a name at each end, and never three dots.
Spaced(t) ==
  /\ Len(t) >= 1 /\ t[1] # Dot /\ t[Len(t)] # Dot
  /\ \A i \in 1..(Len(t) - 2) : \E j \in i..(i + 2) : t[j] # Dot

\* A non-empty set of numbers up to n has a greatest member.
LEMMA GreatestMember ==
  ASSUME NEW n \in Nat, NEW S, S \subseteq 1..n, S # {}
  PROVE  \E i \in S : \A j \in S : i >= j
<1> DEFINE R == {n - i : i \in S}
<1>1. R \subseteq Nat /\ R # {}
  <2>1. \A i \in S : i \in 1..n /\ n - i \in Nat
    OBVIOUS
  <2>2. PICK i \in S : TRUE
    OBVIOUS
  <2>3. n - i \in R
    OBVIOUS
  <2> QED
    BY <2>1, <2>3
<1>2. PICK r \in R : \A q \in R : r <= q
  <2> HIDE DEF R
  <2> QED
    BY <1>1, LeastMember
<1>3. PICK i \in S : r = n - i
  BY <1>2
<1>4. ASSUME NEW j \in S PROVE i >= j
  <2>1. n - j \in R
    OBVIOUS
  <2>2. n - i <= n - j
    BY <1>2, <1>3, <2>1
  <2>3. i \in Nat /\ j \in Nat
    OBVIOUS
  <2> QED
    BY <2>2, <2>3
<1> QED
  BY <1>4

\* trim_matches keeps the names and what is between them.
LEMMA TrimFacts ==
  ASSUME NEW X, NEW s \in Seq(X)
  PROVE  TrimDots(s) \in Seq(X) /\ (Separated(s) => Spaced(TrimDots(s)))
<1> DEFINE L == Len(s)
           names == {i \in DOMAIN s : s[i] # Dot}
           first == CHOOSE i \in names : \A j \in names : i <= j
           last0 == CHOOSE i \in names : \A j \in names : i >= j
<1>1. L \in Nat /\ DOMAIN s = 1..L /\ \A i \in 1..L : s[i] \in X
  BY LenProperties, ElementOfSeq
<1>2. TrimDots(s) = IF names = {} THEN <<>> ELSE SubSeq(s, first, last0)
  BY DEF TrimDots
<1>3. CASE names = {}
  <2>1. TrimDots(s) \in Seq(X)
    BY <1>2, <1>3
  <2>2. ~Separated(s)
    BY <1>3 DEF Separated
  <2> QED
    BY <2>1, <2>2
<1>4. CASE names # {}
  <2>0. names \subseteq 1..L
    BY <1>1
  <2>1. first \in names /\ \A j \in names : first <= j
    <3> HIDE DEF names
    <3>1. \E i \in names : \A j \in names : i <= j
      <4>1. names \subseteq Nat
        BY <1>1, <2>0
      <4> QED
        BY <1>4, <4>1, LeastMember
    <3> QED
      BY <3>1
  <2>2. last0 \in names /\ \A j \in names : last0 >= j
    <3> HIDE DEF names
    <3>1. \E i \in names : \A j \in names : i >= j
      BY <1>1, <1>4, <2>0, GreatestMember
    <3> QED
      BY <3>1
  <2> HIDE DEF first, last0
  <2>3. PICK a \in 1..L, b \in 1..L :
          /\ a = first /\ b = last0 /\ a <= b /\ s[a] # Dot /\ s[b] # Dot
          /\ \A j \in 1..L : s[j] # Dot => a <= j /\ j <= b
    BY <1>1, <2>1, <2>2
  <2> DEFINE t == SubSeq(s, a, b)
  <2>4. TrimDots(s) = t
    BY <1>2, <1>4, <2>3
  <2>5. /\ t \in Seq(X) /\ Len(t) = b - a + 1
        /\ \A i \in 1..(b - a + 1) : t[i] = s[a + i - 1]
    <3>1. a \in Int /\ b \in Int /\ \A i \in a..b : s[i] \in X
      BY <1>1
    <3>2. /\ SubSeq(s, a, b) \in Seq(X)
          /\ Len(SubSeq(s, a, b)) = IF a <= b THEN b - a + 1 ELSE 0
          /\ \A i \in 1..(b - a + 1) : SubSeq(s, a, b)[i] = s[a + i - 1]
      BY <3>1, SubSeqProperties
    <3> QED
      BY <2>3, <3>2
  <2> HIDE DEF t, L, names
  <2>6. Len(t) >= 1 /\ t[1] # Dot /\ t[Len(t)] # Dot
    <3>1. /\ 1 \in 1..(b - a + 1) /\ a + 1 - 1 = a /\ b - a + 1 \in 1..(b - a + 1)
          /\ a + (b - a + 1) - 1 = b
      BY <1>1, <2>3
    <3>2. t[1] = s[a] /\ t[b - a + 1] = s[b]
      BY <2>5, <3>1
    <3> QED
      BY <1>1, <2>3, <2>5, <3>1, <3>2
  <2>7. ASSUME Separated(s), NEW i \in 1..(Len(t) - 2) PROVE \E j \in i..(i + 2) : t[j] # Dot
    <3>1. PICK p \in 1..(L - 2) : p = a + i - 1 /\ p + 2 <= b
      <4>1. a + i - 1 \in 1..(L - 2) /\ a + i - 1 + 2 <= b
        BY <1>1, <2>3, <2>5
      <4> QED
        BY <4>1
    <3>2. \A x \in 1..(L - 2) : \E j \in x..(x + 2) :
             s[j] # Dot \/ (\A k \in 1..j : s[k] = Dot) \/ (\A k \in j..L : s[k] = Dot)
      BY <2>7 DEF Separated, L
    <3>3. PICK j \in p..(p + 2) :
             s[j] # Dot \/ (\A k \in 1..j : s[k] = Dot) \/ (\A k \in j..L : s[k] = Dot)
      BY <3>1, <3>2
    <3>4. j \in Nat /\ a <= j /\ j <= b
      BY <1>1, <2>3, <3>1
    <3>5. a \in 1..j /\ b \in j..L
      BY <1>1, <2>3, <3>4
    <3>6. s[j] # Dot
      BY <2>3, <3>3, <3>5
    <3>7. j - a + 1 \in i..(i + 2) /\ j - a + 1 \in 1..(b - a + 1) /\ a + (j - a + 1) - 1 = j
      BY <1>1, <2>3, <3>1, <3>4
    <3>8. t[j - a + 1] = s[j]
      BY <2>5, <3>7
    <3> QED
      BY <3>6, <3>7, <3>8
  <2>8. Separated(s) => Spaced(t)
    BY <2>6, <2>7 DEF Spaced
  <2> QED
    BY <2>4, <2>5, <2>8
<1> QED
  BY <1>3, <1>4

\* replace leaves no two dots together where there were never three.
LEMMA HalveFacts ==
  ASSUME NEW X, NEW s \in Seq(X)
  PROVE  HalveDots(s) \in Seq(X) /\ (Spaced(s) => Tidy(HalveDots(s)))
<1> DEFINE L == Len(s)
           Run(i) == {j \in 1..i : \A k \in j..i : s[k] = Dot}
           kept == {i \in DOMAIN s : s[i] # Dot \/ Cardinality(Run(i)) % 2 = 1}
           o == Positions(s, kept)
           u == [n \in DOMAIN o |-> s[o[n]]]
<1>1. L \in Nat /\ DOMAIN s = 1..L /\ \A i \in 1..L : s[i] \in X
  BY LenProperties, ElementOfSeq
<1>2. HalveDots(s) = u
  BY DEF HalveDots
<1>3. /\ o \in Seq(1..L) /\ ToSet(o) = (1..L) \cap kept
      /\ \A i, j \in 1..Len(o) : i < j => o[i] < o[j]
  <2> HIDE DEF kept
  <2> QED
    BY PositionsFacts
<1>4. ASSUME NEW m \in Nat, m >= 1, m < Len(o), NEW x \in (1..L) \cap kept
      PROVE  x <= o[m] \/ x >= o[m + 1]
  <2> HIDE DEF kept
  <2> QED
    BY <1>4, Neighbours
<1> HIDE DEF o
<1>5. /\ Len(o) \in Nat /\ DOMAIN o = 1..Len(o)
      /\ \A n \in 1..Len(o) : o[n] \in 1..L /\ o[n] \in kept
  <2>1. Len(o) \in Nat /\ DOMAIN o = 1..Len(o)
    BY <1>3, LenProperties
  <2> HIDE DEF kept
  <2>2. ASSUME NEW n \in 1..Len(o) PROVE o[n] \in 1..L /\ o[n] \in kept
    <3>1. o[n] \in ToSet(o)
      BY <2>1 DEF ToSet
    <3> QED
      BY <1>3, <3>1
  <2> QED
    BY <2>1, <2>2
<1>6. u \in Seq(X) /\ Len(u) = Len(o) /\ \A n \in 1..Len(o) : u[n] = s[o[n]]
  <2>1. u \in [1..Len(o) -> X]
    <3> HIDE DEF kept
    <3> QED
      BY <1>1, <1>5
  <2> QED
    BY <1>5, <2>1, ListOf
<1> HIDE DEF u
<1>7. \A i \in 1..L : s[i] # Dot => i \in kept
  BY <1>1
<1>8. ASSUME Spaced(s), NEW i \in 1..L, i \in kept, s[i] = Dot PROVE i - 1 \in 1..L /\ s[i - 1] # Dot
  <2>0. /\ L >= 1 /\ s[1] # Dot
        /\ \A x \in 1..(L - 2) : \E j \in x..(x + 2) : s[j] # Dot
    BY <1>8 DEF Spaced, L
  <2>1. i - 1 \in 1..L
    BY <1>1, <1>8, <2>0
  <2>2. Cardinality(Run(i)) % 2 = 1
    BY <1>8
  <2> HIDE DEF kept
  <2> SUFFICES ASSUME s[i - 1] = Dot PROVE FALSE
    BY <2>1
  <2>3. i - 2 \in 1..(L - 2)
    BY <1>1, <2>0, <2>1
  <2>4. s[i - 2] # Dot
    <3>1. PICK j \in (i - 2)..((i - 2) + 2) : s[j] # Dot
      BY <2>0, <2>3
    <3>2. j = i - 2 \/ j = i - 1 \/ j = i
      BY <1>1
    <3> QED
      BY <1>8, <3>1, <3>2
  <2>5. Run(i) = {i - 1, i}
    <3>1. ASSUME NEW j \in Run(i) PROVE j \in {i - 1, i}
      <4>1. j \in 1..i /\ \A k \in j..i : s[k] = Dot
        OBVIOUS
      <4>2. ~(j <= i - 2)
        <5> SUFFICES ASSUME j <= i - 2 PROVE FALSE
          OBVIOUS
        <5>1. i - 2 \in j..i
          BY <1>1, <4>1
        <5> QED
          BY <2>4, <4>1, <5>1
      <4> QED
        BY <1>1, <4>1, <4>2
    <3>2. i - 1 \in Run(i)
      <4>1. ASSUME NEW k \in (i - 1)..i PROVE s[k] = Dot
        <5>1. k = i - 1 \/ k = i
          BY <1>1
        <5> QED
          BY <1>8, <5>1
      <4>2. i - 1 \in 1..i
        BY <2>1
      <4> QED
        BY <4>1, <4>2
    <3>3. i \in Run(i)
      <4>1. ASSUME NEW k \in i..i PROVE s[k] = Dot
        <5>1. k = i
          BY <1>1
        <5> QED
          BY <1>8, <5>1
      <4>2. i \in 1..i
        BY <1>1
      <4> QED
        BY <4>1, <4>2
    <3> HIDE DEF Run
    <3> QED
      BY <3>1, <3>2, <3>3
  <2> HIDE DEF Run
  <2>6. Cardinality({i - 1, i}) = 2
    <3>1. i - 1 # i
      BY <1>1
    <3>2. IsFiniteSet({i - 1}) /\ Cardinality({i - 1}) = 1
      BY FS_Singleton
    <3>3. Cardinality({i - 1} \cup {i}) = IF i \in {i - 1} THEN 1 ELSE 1 + 1
      BY <3>2, FS_AddElement
    <3>4. {i - 1} \cup {i} = {i - 1, i} /\ i \notin {i - 1}
      BY <3>1
    <3>5. Cardinality({i - 1} \cup {i}) = 1 + 1
      BY ONLY <3>3, <3>4, Zenon
    <3>6. Cardinality({i - 1, i}) = 1 + 1
      BY ONLY <3>4, <3>5, Zenon
    <3> QED
      BY ONLY <3>6
  <2> QED
    BY <2>2, <2>5, <2>6
<1>9. ASSUME Spaced(s) PROVE Tidy(u)
  <2>0. L >= 1 /\ s[1] # Dot /\ s[L] # Dot
    BY <1>9 DEF Spaced, L
  <2>1. 1 \in (1..L) \cap kept /\ L \in (1..L) \cap kept
    <3>1. 1 \in 1..L /\ L \in 1..L
      BY <1>1, <2>0
    <3> HIDE DEF kept
    <3> QED
      BY <1>7, <2>0, <3>1
  <2>2. ASSUME NEW m \in 1..(Len(u) - 1), u[m] = Dot, u[m + 1] = Dot PROVE FALSE
    <3>1. m \in 1..Len(o) /\ m + 1 \in 1..Len(o) /\ m \in Nat /\ m >= 1 /\ m < Len(o)
      BY <1>5, <1>6
    <3> HIDE DEF kept
    <3>2. PICK a \in 1..L, b \in 1..L :
            /\ a = o[m] /\ b = o[m + 1] /\ a < b /\ b \in kept
            /\ s[a] = Dot /\ s[b] = Dot
      BY <1>3, <1>5, <1>6, <2>2, <3>1
    <3>3. b - 1 \in 1..L /\ s[b - 1] # Dot
      BY <1>8, <1>9, <3>2
    <3>4. b - 1 \in (1..L) \cap kept
      BY <1>7, <3>3
    <3>5. b - 1 <= a \/ b - 1 >= b
      BY <1>4, <3>1, <3>2, <3>4
    <3>6. b - 1 = a
      BY <1>1, <3>2, <3>5
    <3> QED
      BY <3>2, <3>3, <3>6
  <2> HIDE DEF kept
  <2>3. PICK i \in 1..Len(o) : o[i] = 1
    BY <1>3, <1>5, <2>1 DEF ToSet
  <2>4. PICK j \in 1..Len(o) : o[j] = L
    BY <1>3, <1>5, <2>1 DEF ToSet
  <2>5. Len(o) >= 1 /\ 1 \in 1..Len(o) /\ Len(o) \in 1..Len(o)
    BY <1>5, <2>3
  <2>6. o[1] = 1
    <3>1. o[1] \in 1..L
      BY <1>5, <2>5
    <3>2. 1 < i => o[1] < o[i]
      BY <1>3, <2>3, <2>5
    <3>3. ~(1 < i)
      BY <1>1, <2>3, <3>1, <3>2
    <3>4. i = 1
      BY <1>5, <2>3, <3>3
    <3> QED
      BY <2>3, <3>4
  <2>7. o[Len(o)] = L
    <3>1. o[Len(o)] \in 1..L
      BY <1>5, <2>5
    <3>2. j < Len(o) => o[j] < o[Len(o)]
      BY <1>3, <2>4, <2>5
    <3>3. ~(j < Len(o))
      BY <1>1, <2>4, <3>1, <3>2
    <3>4. j = Len(o)
      <4>1. PICK n \in Nat : n = Len(o)
        BY <1>5
      <4>2. j \in 1..n /\ ~(j < n)
        BY <3>3, <4>1
      <4> QED
        BY <4>1, <4>2
    <3> QED
      BY <2>4, <3>4
  <2>8. Len(u) >= 1 /\ u[1] # Dot /\ u[Len(u)] # Dot
    BY <1>6, <2>0, <2>5, <2>6, <2>7
  <2> QED
    BY <2>2, <2>8 DEF Tidy
<1> QED
  BY <1>2, <1>6, <1>9

(* The converse: three dots between two names leave an empty token behind. *)

\* A trimmed text of which nothing is left, or in which three dots follow a name.
Crowded(t) ==
  \/ Len(t) = 0
  \/ t[1] # Dot /\ \E i \in 1..(Len(t) - 2) : \A j \in i..(i + 2) : t[j] = Dot

\* A text of which nothing is left, or with two dots together.
Cramped(u) == Len(u) = 0 \/ \E i \in 1..(Len(u) - 1) : u[i] = Dot /\ u[i + 1] = Dot

EmptyToken == ""

LEMMA TrimCrowds ==
  ASSUME NEW X, NEW s \in Seq(X), ~Separated(s)
  PROVE  Crowded(TrimDots(s))
<1> DEFINE L == Len(s)
           names == {i \in DOMAIN s : s[i] # Dot}
           first == CHOOSE i \in names : \A j \in names : i <= j
           last0 == CHOOSE i \in names : \A j \in names : i >= j
<1>1. L \in Nat /\ DOMAIN s = 1..L /\ \A i \in 1..L : s[i] \in X
  BY LenProperties, ElementOfSeq
<1>2. TrimDots(s) = IF names = {} THEN <<>> ELSE SubSeq(s, first, last0)
  BY DEF TrimDots
<1>3. CASE names = {}
  <2>1. TrimDots(s) = <<>>
    BY <1>2, <1>3
  <2>2. Len(<<>>) = 0
    OBVIOUS
  <2> QED
    BY <2>1, <2>2 DEF Crowded
<1>4. CASE names # {}
  <2>0. names \subseteq 1..L
    BY <1>1
  <2>1. first \in names /\ \A j \in names : first <= j
    <3> HIDE DEF names
    <3>1. \E i \in names : \A j \in names : i <= j
      <4>1. names \subseteq Nat
        BY <1>1, <2>0
      <4> QED
        BY <1>4, <4>1, LeastMember
    <3> QED
      BY <3>1
  <2>2. last0 \in names /\ \A j \in names : last0 >= j
    <3> HIDE DEF names
    <3>1. \E i \in names : \A j \in names : i >= j
      BY <1>1, <1>4, <2>0, GreatestMember
    <3> QED
      BY <3>1
  <2> HIDE DEF first, last0
  <2>3. PICK a \in 1..L, b \in 1..L :
          /\ a = first /\ b = last0 /\ a <= b /\ s[a] # Dot /\ s[b] # Dot
          /\ \A j \in 1..L : s[j] # Dot => a <= j /\ j <= b
    BY <1>1, <2>1, <2>2
  <2> DEFINE t == SubSeq(s, a, b)
  <2>4. TrimDots(s) = t
    BY <1>2, <1>4, <2>3
  <2>5. /\ Len(t) = b - a + 1
        /\ \A i \in 1..(b - a + 1) : t[i] = s[a + i - 1]
    <3>1. a \in Int /\ b \in Int /\ \A i \in a..b : s[i] \in X
      BY <1>1
    <3>2. /\ Len(SubSeq(s, a, b)) = IF a <= b THEN b - a + 1 ELSE 0
          /\ \A i \in 1..(b - a + 1) : SubSeq(s, a, b)[i] = s[a + i - 1]
      BY <3>1, SubSeqProperties
    <3> QED
      BY <2>3, <3>2
  <2>6. \E i \in DOMAIN s : s[i] # Dot
    BY <1>4
  <2> HIDE DEF t, L, names
  <2>7. PICK i \in 1..(L - 2) : \A j \in i..(i + 2) :
          s[j] = Dot /\ (\E k \in 1..j : s[k] # Dot) /\ (\E k \in j..L : s[k] # Dot)
    BY <2>6 DEF Separated, L
  <2>8. i \in i..(i + 2) /\ i + 2 \in i..(i + 2) /\ i \in 1..L /\ i + 2 \in 1..L
    BY <1>1
  <2>9. a < i
    <3>1. PICK k \in 1..i : s[k] # Dot
      BY <2>7, <2>8
    <3>2. k \in 1..L /\ a <= k /\ k # i
      <4>1. k \in 1..L
        BY <1>1, <2>8
      <4> QED
        BY <2>3, <2>7, <2>8, <3>1, <4>1
    <3> QED
      BY <1>1, <2>8, <3>2
  <2>10. i + 2 < b
    <3>1. PICK k \in (i + 2)..L : s[k] # Dot
      BY <2>7, <2>8
    <3>2. k \in 1..L /\ k <= b /\ k # i + 2
      <4>1. k \in 1..L
        BY <1>1, <2>8
      <4> QED
        BY <2>3, <2>7, <2>8, <3>1, <4>1
    <3> QED
      BY <1>1, <2>8, <3>2
  <2>11. t[1] # Dot
    <3>1. 1 \in 1..(b - a + 1) /\ a + 1 - 1 = a
      BY <1>1, <2>3
    <3>2. t[1] = s[a]
      BY <2>5, <3>1
    <3> QED
      BY <2>3, <3>2
  <2>12. PICK p \in 1..(Len(t) - 2) : p = i - a + 1
    <3>1. i - a + 1 \in 1..(b - a + 1 - 2)
      BY <1>1, <2>8, <2>9, <2>10
    <3> QED
      BY <2>5, <3>1
  <2>13. ASSUME NEW j \in p..(p + 2) PROVE t[j] = Dot
    <3>1. PICK q \in i..(i + 2) : q = a + j - 1
      <4>1. a + j - 1 \in i..(i + 2)
        BY <1>1, <2>12
      <4> QED
        BY <4>1
    <3>2. j \in 1..(b - a + 1)
      BY <1>1, <2>5, <2>12
    <3> QED
      BY <2>5, <2>7, <3>1, <3>2
  <2> QED
    BY <2>4, <2>11, <2>12, <2>13 DEF Crowded
<1> QED
  BY <1>3, <1>4

\* Two neighbours of a list of positions, when nothing in S lies between them.
LEMMA Adjacent ==
  ASSUME NEW X, NEW s \in Seq(X), NEW S,
         NEW x \in (1..Len(s)) \cap S, NEW y \in (1..Len(s)) \cap S, x < y,
         \A z \in S : ~(x < z /\ z < y)
  PROVE  \E m \in 1..(Len(Positions(s, S)) - 1) :
           Positions(s, S)[m] = x /\ Positions(s, S)[m + 1] = y
<1> DEFINE o == Positions(s, S)
<1>1. /\ o \in Seq(1..Len(s)) /\ ToSet(o) = (1..Len(s)) \cap S
      /\ \A i, j \in 1..Len(o) : i < j => o[i] < o[j]
  BY PositionsFacts
<1> HIDE DEF o
<1>2. /\ DOMAIN o = 1..Len(o) /\ Len(o) \in Nat /\ Len(s) \in Nat
      /\ \A i \in 1..Len(o) : o[i] \in 1..Len(s)
  BY <1>1, LenProperties, ElementOfSeq
<1>3. PICK m \in 1..Len(o) : o[m] = x
  BY <1>1, <1>2 DEF ToSet
<1>4. PICK n \in 1..Len(o) : o[n] = y
  BY <1>1, <1>2 DEF ToSet
<1>5. m < n
  <2>1. CASE n < m
    <3>1. o[n] < o[m]
      BY <1>1, <2>1
    <3>2. x \in Nat /\ y \in Nat
      BY <1>2
    <3> QED
      BY <1>3, <1>4, <3>1, <3>2
  <2>2. CASE n = m
    <3>1. x = y /\ x \in Nat
      BY <1>2, <1>3, <1>4, <2>2
    <3> QED
      BY <3>1
  <2> QED
    BY <1>2, <2>1, <2>2
<1>6. m + 1 \in 1..Len(o) /\ m < m + 1 /\ m \in 1..(Len(o) - 1)
  BY <1>2, <1>5
<1>7. o[m + 1] \in S /\ o[m + 1] \in 1..Len(s) /\ x < o[m + 1]
  <2>1. o[m + 1] \in ToSet(o)
    BY <1>2, <1>6 DEF ToSet
  <2>2. o[m] < o[m + 1]
    BY <1>1, <1>6
  <2> QED
    BY <1>1, <1>3, <2>1, <2>2
<1>8. o[m + 1] <= y
  <2>1. CASE m + 1 = n
    <3>1. o[m + 1] = y /\ y \in Nat
      BY <1>2, <1>4, <2>1
    <3> QED
      BY <3>1
  <2>2. CASE m + 1 # n
    <3>1. m + 1 < n
      BY <1>2, <1>5, <2>2
    <3>2. o[m + 1] < o[n]
      BY <1>1, <1>6, <3>1
    <3>3. o[m + 1] \in Nat /\ y \in Nat
      BY <1>2, <1>7
    <3> QED
      BY <1>4, <3>2, <3>3
  <2> QED
    BY <2>1, <2>2
<1>9. o[m + 1] = y
  <2>1. ~(o[m + 1] < y)
    BY <1>7
  <2>2. o[m + 1] \in Nat /\ y \in Nat
    BY <1>2, <1>7
  <2> QED
    BY <1>8, <2>1, <2>2
<1> QED
  BY <1>3, <1>6, <1>9 DEF o

\* Of a run of three dots the first and the third stay, next to each other.
LEMMA HalveCramps ==
  ASSUME NEW X, NEW s \in Seq(X), Crowded(s)
  PROVE  Cramped(HalveDots(s))
<1> DEFINE L == Len(s)
           Run(i) == {j \in 1..i : \A k \in j..i : s[k] = Dot}
           kept == {i \in DOMAIN s : s[i] # Dot \/ Cardinality(Run(i)) % 2 = 1}
           o == Positions(s, kept)
           u == [n \in DOMAIN o |-> s[o[n]]]
<1>1. L \in Nat /\ DOMAIN s = 1..L
  BY LenProperties
<1>2. HalveDots(s) = u
  BY DEF HalveDots
<1>3. o \in Seq(1..L) /\ ToSet(o) = (1..L) \cap kept
  <2> HIDE DEF kept
  <2> QED
    BY PositionsFacts
<1>4. Len(o) \in Nat /\ DOMAIN o = 1..Len(o) /\ \A n \in 1..Len(o) : o[n] \in 1..L
  BY <1>3, LenProperties, ElementOfSeq
<1> HIDE DEF o
<1>5. Len(u) = Len(o) /\ \A n \in 1..Len(o) : u[n] = s[o[n]]
  <2>1. u \in [1..Len(o) -> {s[o[n]] : n \in 1..Len(o)}] /\ \A n \in 1..Len(o) : u[n] = s[o[n]]
    BY <1>4
  <2> HIDE DEF u
  <2> QED
    BY <1>4, <2>1, ListOf
<1> HIDE DEF u
<1>6. CASE L = 0
  <2>1. Len(o) = 0
    <3> SUFFICES ASSUME Len(o) # 0 PROVE FALSE
      OBVIOUS
    <3>1. 1 \in 1..Len(o)
      BY <1>4
    <3>2. o[1] \in 1..0
      BY <1>4, <1>6, <3>1
    <3> QED
      BY <3>2
  <2> QED
    BY <1>2, <1>5, <2>1 DEF Cramped
<1>7. CASE L # 0
  <2>1. s[1] # Dot /\ \E x \in 1..(L - 2) : \A j \in x..(x + 2) : s[j] = Dot
    BY <1>7 DEF Crowded, L
  <2>2. PICK i \in 1..(L - 2) : \A j \in i..(i + 2) : s[j] = Dot
    BY <2>1
  <2>3. i \in Run(i)
    <3>1. i \in 1..i
      BY <1>1
    <3>2. ASSUME NEW k \in i..i PROVE s[k] = Dot
      <4>1. k \in i..(i + 2)
        BY <1>1
      <4> QED
        BY <2>2, <4>1
    <3> QED
      BY <3>1, <3>2
  <2>4. PICK a \in Run(i) : \A j \in Run(i) : a <= j
    <3>1. Run(i) \subseteq Nat
      BY <1>1
    <3> HIDE DEF Run
    <3> QED
      BY <2>3, <3>1, LeastMember
  <2>5. a \in 1..i /\ \A k \in a..i : s[k] = Dot
    BY <2>4
  <2>6. a # 1
    <3> SUFFICES ASSUME a = 1 PROVE FALSE
      OBVIOUS
    <3>1. a \in a..i
      BY <1>1, <2>5
    <3> QED
      BY <2>1, <2>5, <3>1
  <2>7. a - 1 \in 1..i /\ s[a - 1] # Dot
    <3>1. a - 1 \in 1..i
      BY <1>1, <2>5, <2>6
    <3>2. ASSUME s[a - 1] = Dot PROVE FALSE
      <4>1. ASSUME NEW k \in (a - 1)..i PROVE s[k] = Dot
        <5>1. k = a - 1 \/ k \in a..i
          BY <1>1, <2>5
        <5> QED
          BY <2>5, <3>2, <5>1
      <4>2. a - 1 \in Run(i)
        BY <3>1, <4>1
      <4>3. a <= a - 1
        BY <2>4, <4>2
      <4> QED
        BY <1>1, <2>5, <4>3
    <3> QED
      BY <3>1, <3>2
  <2>8. ASSUME NEW k \in a..(a + 2) PROVE s[k] = Dot
    <3>1. k \in a..i \/ k \in i..(i + 2)
      BY <1>1, <2>5
    <3> QED
      BY <2>2, <2>5, <3>1
  <2>9. a \in 1..L /\ a + 1 \in 1..L /\ a + 2 \in 1..L /\ a \in Nat
    BY <1>1, <2>5
  <2>10. ASSUME NEW n \in a..(a + 2) PROVE Run(n) = a..n
    <3>1. ASSUME NEW j \in Run(n) PROVE j \in a..n
      <4>1. j \in 1..n /\ \A k \in j..n : s[k] = Dot
        OBVIOUS
      <4>2. ~(j <= a - 1)
        <5> SUFFICES ASSUME j <= a - 1 PROVE FALSE
          OBVIOUS
        <5>1. a - 1 \in j..n
          BY <2>9, <4>1
        <5> QED
          BY <2>7, <4>1, <5>1
      <4> QED
        BY <2>9, <4>1, <4>2
    <3>2. ASSUME NEW j \in a..n PROVE j \in Run(n)
      <4>1. j \in 1..n
        BY <2>9
      <4>2. ASSUME NEW k \in j..n PROVE s[k] = Dot
        <5>1. k \in a..(a + 2)
          BY <2>9
        <5> QED
          BY <2>8, <5>1
      <4> QED
        BY <4>1, <4>2
    <3> HIDE DEF Run
    <3> QED
      BY <3>1, <3>2
  <2>11. /\ Cardinality(Run(a)) = 1 /\ Cardinality(Run(a + 1)) = 2
         /\ Cardinality(Run(a + 2)) = 3
    <3>1. \A n \in a..(a + 2) : Cardinality(a..n) = n - a + 1
      <4> SUFFICES ASSUME NEW n \in a..(a + 2) PROVE Cardinality(a..n) = n - a + 1
        OBVIOUS
      <4>1. a \in Int /\ n \in Int /\ ~(a > n)
        BY <2>9
      <4>2. Cardinality(a..n) = IF a > n THEN 0 ELSE n - a + 1
        BY <4>1, FS_Interval
      <4> QED
        BY <4>1, <4>2
    <3>2. a \in a..(a + 2) /\ a + 1 \in a..(a + 2) /\ a + 2 \in a..(a + 2)
      BY <2>9
    <3> HIDE DEF Run
    <3>3. Cardinality(Run(a)) = a - a + 1
      BY <2>10, <3>1, <3>2
    <3>4. Cardinality(Run(a + 1)) = (a + 1) - a + 1
      BY <2>10, <3>1, <3>2
    <3>5. Cardinality(Run(a + 2)) = (a + 2) - a + 1
      BY <2>10, <3>1, <3>2
    <3> QED
      BY <2>9, <3>3, <3>4, <3>5
  <2> HIDE DEF Run
  <2>12. a \in kept /\ a + 2 \in kept /\ a + 1 \notin kept /\ s[a] = Dot /\ s[a + 2] = Dot
    <3>1. 1 % 2 = 1 /\ 3 % 2 = 1 /\ 2 % 2 # 1
      OBVIOUS
    <3>2. a \in a..(a + 2) /\ a + 1 \in a..(a + 2) /\ a + 2 \in a..(a + 2)
      BY <2>9
    <3>3. s[a] = Dot /\ s[a + 1] = Dot /\ s[a + 2] = Dot
      BY <2>8, <3>2
    <3>4. a \in kept
      BY <1>1, <2>9, <2>11, <3>1
    <3>5. a + 2 \in kept
      BY <1>1, <2>9, <2>11, <3>1
    <3>6. a + 1 \notin kept
      BY <2>11, <3>1, <3>3
    <3> QED
      BY <3>3, <3>4, <3>5, <3>6
  <2>13. \A z \in kept : z \in 1..L
    BY <1>1
  <2> HIDE DEF kept
  <2>14. \A z \in kept : ~(a < z /\ z < a + 2)
    <3> SUFFICES ASSUME NEW z \in kept, a < z, z < a + 2 PROVE FALSE
      OBVIOUS
    <3>1. z \in Nat /\ z = a + 1
      BY <2>9, <2>13
    <3> QED
      BY <2>12, <3>1
  <2>15. PICK m \in 1..(Len(o) - 1) : o[m] = a /\ o[m + 1] = a + 2
    <3>1. a \in (1..L) \cap kept /\ a + 2 \in (1..L) \cap kept /\ a < a + 2
      BY <2>9, <2>12
    <3> QED
      BY <2>14, <3>1, Adjacent DEF o
  <2>16. m \in 1..Len(o) /\ m + 1 \in 1..Len(o)
    BY <1>4, <2>15
  <2>17. u[m] = Dot /\ u[m + 1] = Dot /\ m \in 1..(Len(u) - 1)
    BY <1>5, <2>12, <2>15, <2>16
  <2> QED
    BY <1>2, <2>17 DEF Cramped
<1> QED
  BY <1>6, <1>7

\* Two dots together, or no text at all, give an empty token.
LEMMA SplitEmpties ==
  ASSUME NEW X, NEW s \in Seq(X), Cramped(s)
  PROVE  \E n \in 1..Len(SplitDots(s)) : SplitDots(s)[n] = EmptyToken
<1> DEFINE L == Len(s)
           o == Positions(s, Dots(s))
           c == Cuts(s)
           m == Len(c) - 1
           Token(n) == IF c[n + 1] = c[n] + 1 THEN EmptyToken ELSE s[c[n] + 1]
<1>1. SplitDots(s) = [n \in 1..m |-> Token(n)]
  BY DEF SplitDots, Cuts, Dots, EmptyToken
<1>2. L \in Nat /\ DOMAIN s = 1..L
  BY LenProperties
<1>3. o \in Seq(1..L) /\ ToSet(o) = (1..L) \cap Dots(s)
  BY PositionsFacts
<1>4. Len(o) \in Nat /\ \A k \in 1..Len(o) : o[k] \in 1..L
  BY <1>3, LenProperties, ElementOfSeq
<1>5. c = << 0 >> \o o \o << L + 1 >>
  BY DEF Cuts
<1> HIDE DEF c, o, L
<1>6. /\ Len(c) = Len(o) + 2
      /\ c[1] = 0 /\ c[Len(o) + 2] = L + 1
      /\ \A k \in 1..Len(o) : c[k + 1] = o[k]
  BY <1>2, <1>3, <1>5, CutsShape
<1>7. m = Len(o) + 1
  BY <1>4, <1>6
<1> HIDE DEF m
<1>8. \E n \in 1..m : c[n + 1] = c[n] + 1
  <2>1. CASE L = 0
    <3>1. Len(o) = 0
      <4> SUFFICES ASSUME Len(o) # 0 PROVE FALSE
        OBVIOUS
      <4>1. 1 \in 1..Len(o)
        BY <1>4
      <4>2. o[1] \in 1..0
        BY <1>4, <2>1, <4>1
      <4> QED
        BY <4>2
    <3>2. 1 \in 1..m /\ 1 + 1 = Len(o) + 2
      BY <1>7, <3>1
    <3>3. c[1] = 0 /\ c[1 + 1] = 0 + 1
      BY <1>6, <2>1, <3>2
    <3> QED
      BY <3>2, <3>3
  <2>2. CASE L # 0
    <3>1. PICK i \in 1..(L - 1) : s[i] = Dot /\ s[i + 1] = Dot
      BY <2>2 DEF Cramped, L
    <3>2. i \in (1..L) \cap Dots(s) /\ i + 1 \in (1..L) \cap Dots(s) /\ i < i + 1 /\ i \in Nat
      <4>1. i \in 1..L /\ i + 1 \in 1..L /\ i < i + 1 /\ i \in Nat
        BY <1>2
      <4> QED
        BY <1>2, <3>1, <4>1 DEF Dots
    <3>3. \A z \in Dots(s) : ~(i < z /\ z < i + 1)
      <4> SUFFICES ASSUME NEW z \in Dots(s), i < z, z < i + 1 PROVE FALSE
        OBVIOUS
      <4>1. z \in 1..L
        BY <1>2 DEF Dots
      <4> QED
        BY <1>2, <3>2, <4>1
    <3>4. PICK k \in 1..(Len(o) - 1) : o[k] = i /\ o[k + 1] = i + 1
      BY <3>2, <3>3, Adjacent DEF o, L
    <3>5. k \in 1..Len(o) /\ k + 1 \in 1..Len(o) /\ k + 1 \in 1..m
      BY <1>4, <1>7
    <3>6. c[k + 1] = i /\ c[(k + 1) + 1] = i + 1
      BY <1>6, <3>4, <3>5
    <3> QED
      BY <3>5, <3>6
  <2> QED
    BY <2>1, <2>2
<1>9. PICK n \in 1..m : Token(n) = EmptyToken
  BY <1>8
<1> HIDE DEF Token
<1>10. m \in Nat
  BY <1>4, <1>7
<1>11. Len(SplitDots(s)) = m /\ SplitDots(s)[n] = Token(n)
  <2>1. PICK f : f = [j \in 1..m |-> Token(j)]
    OBVIOUS
  <2>2. f \in [1..m -> {Token(j) : j \in 1..m}] /\ f[n] = Token(n)
    BY <2>1
  <2>3. Len(f) = m
    BY <1>10, <2>2, ListOf
  <2> QED
    BY <1>1, <2>1, <2>2, <2>3
<1> QED
  BY <1>9, <1>11

LEMMA ResourceEmpties ==
  ASSUME NEW X, NEW s \in Seq(X), ~Separated(s)
  PROVE  \E n \in 1..Len(resource_to_channel(s)) : resource_to_channel(s)[n] = EmptyToken
<1>1. PICK t \in Seq(X) : t = TrimDots(s) /\ Crowded(t)
  BY TrimFacts, TrimCrowds
<1>2. PICK u \in Seq(X) : u = HalveDots(t) /\ Cramped(u)
  BY <1>1, HalveFacts, HalveCramps
<1>3. resource_to_channel(s) = SplitDots(u)
  BY <1>1, <1>2 DEF resource_to_channel
<1> QED
  BY <1>2, <1>3, SplitEmpties

\* A Teams resource becomes tokens, all of them names when it is separated.
LEMMA ResourceFacts ==
  ASSUME NEW X, NEW s \in Seq(X)
  PROVE  /\ resource_to_channel(s) \in Seq(X \cup {""})
         /\ Separated(s) => resource_to_channel(s) \in Seq(X \ {Dot})
<1>1. PICK t \in Seq(X) : t = TrimDots(s) /\ (Separated(s) => Spaced(t))
  BY TrimFacts
<1>2. PICK u \in Seq(X) : u = HalveDots(t) /\ (Spaced(t) => Tidy(u))
  BY HalveFacts
<1>3. SplitDots(u) \in Seq(X \cup {""}) /\ (Tidy(u) => SplitDots(u) \in Seq(X \ {Dot}))
  BY SplitFacts
<1>4. resource_to_channel(s) = SplitDots(u)
  BY <1>1, <1>2 DEF resource_to_channel
<1> QED
  BY <1>1, <1>2, <1>3, <1>4

\* A channel that begins with a, and whose other tokens are in Y.
Begins(c, a, Y) == c[1] = a /\ \A i \in 2..Len(c) : c[i] \in Y

LEMMA OneMore ==
  ASSUME NEW S, NEW Y, Y \subseteq S, NEW a \in S, NEW r \in Seq(Y)
  PROVE  /\ << a >> \o r \in Seq(S) /\ << a >> \o r # <<>>
         /\ Begins(<< a >> \o r, a, Y)
<1> DEFINE c == << a >> \o r
<1>1. /\ << a >> \in Seq(S) /\ Len(<< a >>) = 1 /\ << a >>[1] = a /\ r \in Seq(S)
      /\ Len(r) \in Nat /\ \A i \in 1..Len(r) : r[i] \in Y
  <2>1. Len(r) \in Nat /\ \A i \in 1..Len(r) : r[i] \in Y
    BY LenProperties, ElementOfSeq
  <2>2. << a >> \in Seq(S) /\ Len(<< a >>) = 1 /\ << a >>[1] = a
    OBVIOUS
  <2>3. r \in Seq(S)
    OBVIOUS
  <2> QED
    BY <2>1, <2>2, <2>3
<1>2. /\ c \in Seq(S) /\ Len(c) = 1 + Len(r)
      /\ \A i \in 1..(1 + Len(r)) : c[i] = IF i <= 1 THEN << a >>[i] ELSE r[i - 1]
  BY <1>1, ConcatProperties
<1> HIDE DEF c
<1>3. c # <<>>
  <2>1. Len(c) # 0
    BY <1>1, <1>2
  <2> QED
    BY <2>1
<1>4. c[1] = a
  <2>1. 1 \in 1..(1 + Len(r)) /\ 1 <= 1
    BY <1>1
  <2>2. c[1] = << a >>[1]
    BY <1>2, <2>1
  <2> QED
    BY <1>1, <2>2
<1>5. ASSUME NEW i \in 2..Len(c) PROVE c[i] \in Y
  <2>1. i \in 1..(1 + Len(r)) /\ ~(i <= 1) /\ i - 1 \in 1..Len(r)
    BY <1>1, <1>2
  <2> QED
    BY <1>1, <1>2, <2>1
<1> QED
  BY <1>2, <1>3, <1>4, <1>5 DEF Begins, c

LEMMA PlainStrings == PlainTokens \subseteq STRING
BY TokenAssumption, Zenon
LEMMA WordStrings == /\ "" \in STRING /\ Dot \in STRING /\ "github" \in STRING
                     /\ "teams" \in STRING /\ HmacPrefix \in STRING
BY BundledTypes, Zenon

LEMMA Prefixed ==
  ASSUME NEW Y, Y \subseteq STRING, NEW a \in STRING, NEW r \in Seq(Y)
  PROVE  << a >> \o r \in Texts /\ Begins(<< a >> \o r, a, Y)
<1>1. \A S : Y \subseteq S /\ a \in S =>
        /\ << a >> \o r \in Seq(S) /\ << a >> \o r # <<>>
        /\ Begins(<< a >> \o r, a, Y)
  BY OneMore, Zenon
<1> QED
  BY <1>1, Zenon DEF Texts

\* What derive_channel keeps of a path is plain.
LEMMA DeriveFacts ==
  ASSUME NEW path \in Seq(STRING)
  PROVE  derive_channel(path) \in Texts /\ Begins(derive_channel(path), HmacPrefix, PlainTokens)
<1> DEFINE tail == SubSeq(path, 3, Len(path))
           tokens == [i \in DOMAIN tail |-> channel_token(tail[i])]
           keep == ToSet(tokens) \ {""}
           r == Retain(tokens, keep)
<1>1. derive_channel(path) = << HmacPrefix >> \o r
  BY DEF derive_channel
<1>2. tail \in Seq(STRING)
  <2>1. Len(path) \in Nat /\ \A i \in 1..Len(path) : path[i] \in STRING
    BY LenProperties, ElementOfSeq
  <2>2. 3 \in Int /\ Len(path) \in Int /\ \A i \in 3..Len(path) : path[i] \in STRING
    BY <2>1
  <2> QED
    BY <2>2, SubSeqProperties
<1> HIDE DEF tail
<1>3. Len(tail) \in Nat /\ DOMAIN tail = 1..Len(tail)
  BY <1>2, LenProperties
<1> DEFINE Z == PlainTokens \cup {""}
<1>4. tokens \in Seq(Z)
  <2>1. tokens \in [1..Len(tail) -> Z]
    BY <1>3 DEF channel_token
  <2> HIDE DEF tokens, Z
  <2> QED
    BY <1>3, <2>1, ListOf
<1> HIDE DEF tokens
<1>5. r \in Seq(Z) /\ ToSet(r) = ToSet(tokens) \cap keep
  <2> HIDE DEF keep, Z
  <2> QED
    BY <1>4, RetainFacts
<1> HIDE DEF r
<1>6. r \in Seq(PlainTokens)
  <2>1. /\ Len(r) \in Nat /\ DOMAIN r = 1..Len(r) /\ r = [i \in 1..Len(r) |-> r[i]]
        /\ \A i \in 1..Len(r) : r[i] \in Z
    BY <1>5, LenProperties, ElementOfSeq
  <2>2. ASSUME NEW i \in 1..Len(r) PROVE r[i] \in PlainTokens
    <3>1. r[i] \in ToSet(r)
      BY <2>1 DEF ToSet
    <3>2. r[i] # ""
      BY <1>5, <3>1
    <3> QED
      BY <2>1, <3>2
  <2>3. r \in [1..Len(r) -> PlainTokens]
    BY <2>1, <2>2
  <2> QED
    BY <2>1, <2>3, ListOf
<1> QED
  BY <1>1, <1>6, Prefixed, PlainStrings, WordStrings

\* What a bundled extension sends begins with a claim of its own.
FirstOf(id) == IF id = "hmac" THEN HmacPrefix ELSE id
NamesApart(id, d) ==
  id = "teams" => \A i \in DOMAIN d.items :
                    d.items[i].resource # << Absent >> => Separated(d.items[i].resource)

Sends(id, d, events) ==
  /\ events \in Seq(Texts)
  /\ NamesApart(id, d) => \A c \in ToSet(events) : Begins(c, FirstOf(id), PlainTokens)

LEMMA OneSent ==
  ASSUME NEW id, NEW d, NEW c \in Texts, Begins(c, FirstOf(id), PlainTokens)
  PROVE  Sends(id, d, << c >>)
<1>1. << c >> \in Seq(Texts)
  OBVIOUS
<1>2. ToSet(<< c >>) = {c}
  BY DEF ToSet
<1> QED
  BY <1>1, <1>2 DEF Sends

LEMMA NoneSent ==
  ASSUME NEW id, NEW d
  PROVE  Sends(id, d, <<>>)
<1>1. << >> \in Seq(Texts)
  OBVIOUS
<1>2. ToSet(<< >>) = {}
  BY DEF ToSet
<1> QED
  BY <1>1, <1>2 DEF Sends

LEMMA GithubSends ==
  ASSUME NEW d
  PROVE  Sends("github", d, handle_github_dispatch(d).events)
<1> DEFINE c == github_channel(d.event, d.action)
<1>1. \A x : github_channel_token(x) \in PlainTokens
  BY BundledTypes DEF github_channel_token
<1>2. c \in Texts /\ Begins(c, FirstOf("github"), PlainTokens)
  <2>1. PICK e \in PlainTokens : e = github_channel_token(d.event)
    BY <1>1
  <2>2. PICK a \in PlainTokens : a = github_channel_token(d.action)
    BY <1>1
  <2>3. PICK g \in STRING : g = "github"
    BY WordStrings, Zenon
  <2>4. PICK r \in Seq(PlainTokens) : c = << g >> \o r
    <3>1. CASE d.action = Absent
      <4>1. c = << g, e >> \o <<>>
        BY <2>1, <2>3, <3>1 DEF github_channel
      <4>2. << e >> \in Seq(PlainTokens) /\ c = << g >> \o << e >>
        BY <4>1, PlainStrings
      <4> QED
        BY <4>2, Zenon
    <3>2. CASE d.action # Absent
      <4>1. c = << g, e >> \o << a >>
        BY <2>1, <2>2, <2>3, <3>2 DEF github_channel
      <4>2. << e, a >> \in Seq(PlainTokens) /\ c = << g >> \o << e, a >>
        BY <4>1, PlainStrings
      <4> QED
        BY <4>2, Zenon
    <3> QED
      BY <3>1, <3>2
  <2>5. FirstOf("github") = g
    BY <2>3 DEF FirstOf
  <2> QED
    BY <2>4, <2>5, Prefixed, PlainStrings
<1> HIDE DEF c
<1>3. handle_github_dispatch(d).events = <<>> \/ handle_github_dispatch(d).events = << c >>
  BY DEF handle_github_dispatch, Rejected, Failure, Reply, c
<1> QED
  BY <1>2, <1>3, OneSent, NoneSent

LEMMA HmacSends ==
  ASSUME NEW d, d.path \in Seq(STRING)
  PROVE  Sends("hmac", d, handle_hmac_dispatch(d).events)
<1> DEFINE c == derive_channel(d.path)
<1>1. c \in Texts /\ Begins(c, FirstOf("hmac"), PlainTokens)
  BY DeriveFacts DEF FirstOf
<1>2. handle_hmac_dispatch(d).events = <<>> \/ handle_hmac_dispatch(d).events = << c >>
  BY DEF handle_hmac_dispatch, Rejected, Reply
<1> HIDE DEF c
<1> QED
  BY <1>1, <1>2, OneSent, NoneSent

LEMMA TeamsSends ==
  ASSUME NEW d, d.items \in Seq(Item)
  PROVE  Sends("teams", d, handle_teams_dispatch(d).events)
<1> DEFINE X == PlainTokens \cup {Dot}
           with == {item \in ToSet(d.items) : item.resource # << Absent >>}
           named == Retain(d.items, with)
           Channel(i) == << "teams" >> \o resource_to_channel(named[i].resource)
           events == [i \in DOMAIN named |-> Channel(i)]
<1>1. handle_teams_dispatch(d).events = <<>> \/ handle_teams_dispatch(d).events = events
  BY DEF handle_teams_dispatch, Rejected, Failure, Reply
<1>2. named \in Seq(Item) /\ ToSet(named) = ToSet(d.items) \cap with
  <2>1. PICK s \in Seq(Item) : s = d.items
    OBVIOUS
  <2>2. PICK keep : keep = with
    OBVIOUS
  <2>3. Retain(s, keep) \in Seq(Item) /\ ToSet(Retain(s, keep)) = ToSet(s) \cap keep
    BY RetainFacts
  <2> HIDE DEF with
  <2> QED
    BY <2>1, <2>2, <2>3
<1> HIDE DEF named
<1>3. Len(named) \in Nat /\ DOMAIN named = 1..Len(named)
  BY <1>2, LenProperties
<1>4. ASSUME NEW i \in 1..Len(named)
      PROVE  \E j \in DOMAIN d.items :
               /\ named[i] = d.items[j] /\ d.items[j].resource # << Absent >>
               /\ d.items[j].resource \in Seq(X)
  <2>1. named[i] \in ToSet(named)
    BY <1>3 DEF ToSet
  <2>2. named[i] \in ToSet(d.items) /\ named[i] \in with
    BY <1>2, <2>1
  <2>3. PICK j \in DOMAIN d.items : named[i] = d.items[j]
    BY <2>2 DEF ToSet
  <2>4. d.items[j].resource # << Absent >>
    BY <2>2, <2>3
  <2>5. d.items[j] \in Item
    BY LenProperties
  <2>6. d.items[j].resource \in Seq(X)
    BY <2>4, <2>5 DEF Item
  <2> QED
    BY <2>3, <2>4, <2>6
<1> HIDE DEF with
<1>5. ASSUME NEW i \in 1..Len(named)
      PROVE  /\ Channel(i) \in Texts
             /\ NamesApart("teams", d) => Begins(Channel(i), "teams", PlainTokens)
  <2>1. PICK j \in DOMAIN d.items :
          /\ named[i] = d.items[j] /\ d.items[j].resource # << Absent >>
          /\ d.items[j].resource \in Seq(X)
    BY <1>4
  <2>2. PICK s \in Seq(X) : s = d.items[j].resource
    BY <2>1
  <2>3. NamesApart("teams", d) => Separated(s)
    BY <2>1, <2>2 DEF NamesApart
  <2>4. Channel(i) = << "teams" >> \o resource_to_channel(s)
    BY <2>1, <2>2
  <2>5. /\ resource_to_channel(s) \in Seq(X \cup {""})
        /\ Separated(s) => resource_to_channel(s) \in Seq(X \ {Dot})
    <3> HIDE DEF X
    <3> QED
      BY ResourceFacts
  <2>6. X \cup {""} \subseteq STRING /\ X \ {Dot} \subseteq PlainTokens /\ "teams" \in STRING
    BY WordStrings, PlainStrings, Zenon
  <2> HIDE DEF X, Channel
  <2>7. Channel(i) \in Texts
    BY <2>4, <2>5, <2>6, Prefixed
  <2>8. ASSUME NamesApart("teams", d) PROVE Begins(Channel(i), "teams", PlainTokens)
    <3>1. Separated(s)
      BY <2>3, <2>8
    <3>2. resource_to_channel(s) \in Seq(X \ {Dot})
      BY <2>5, <3>1
    <3>3. \A Y : Y \subseteq PlainTokens => Seq(Y) \subseteq Seq(PlainTokens)
      OBVIOUS
    <3>4. PICK r \in Seq(PlainTokens) : r = resource_to_channel(s)
      BY <2>6, <3>2, <3>3, Zenon
    <3> QED
      BY <2>4, <2>6, <3>4, Prefixed, PlainStrings, Zenon
  <2> QED
    BY <2>7, <2>8
<1> HIDE DEF Channel
<1>6. events \in Seq(Texts)
  <2>1. events \in [1..Len(named) -> Texts]
    BY <1>3, <1>5
  <2> HIDE DEF events
  <2> QED
    BY <1>3, <2>1, ListOf
<1>7. ASSUME NamesApart("teams", d), NEW c \in ToSet(events) PROVE Begins(c, FirstOf("teams"), PlainTokens)
  <2>1. PICK i \in DOMAIN named : c = Channel(i)
    BY <1>7 DEF ToSet
  <2> QED
    BY <1>3, <1>5, <1>7, <2>1 DEF FirstOf
<1>8. Sends("teams", d, events)
  BY <1>6, <1>7 DEF Sends
<1> HIDE DEF events
<1> QED
  BY <1>1, <1>8, NoneSent

LEMMA WiderSeq ==
  ASSUME NEW Y, NEW Z, Y \subseteq Z, NEW r \in Seq(Y)
  PROVE  r \in Seq(Z)
OBVIOUS

\* A token in front moves the others by one place.
LEMMA Shifted ==
  ASSUME NEW S, NEW w \in S, NEW r \in Seq(S), NEW n \in 1..Len(r)
  PROVE  n + 1 \in DOMAIN (<< w >> \o r) /\ (<< w >> \o r)[n + 1] = r[n]
<1> DEFINE c == << w >> \o r
<1>1. << w >> \in Seq(S) /\ Len(<< w >>) = 1 /\ Len(r) \in Nat
  BY LenProperties
<1>2. /\ c \in Seq(S) /\ Len(c) = 1 + Len(r)
      /\ \A x \in 1..(1 + Len(r)) : c[x] = IF x <= 1 THEN << w >>[x] ELSE r[x - 1]
  BY <1>1, ConcatProperties
<1> HIDE DEF c
<1>3. n + 1 \in 1..(1 + Len(r)) /\ ~(n + 1 <= 1) /\ (n + 1) - 1 = n
  BY <1>1
<1>4. n + 1 \in DOMAIN c /\ c[n + 1] = r[n]
  BY <1>2, <1>3, LenProperties
<1> QED
  BY <1>4 DEF c

\* Of the other batches something is sent on a channel with an empty token.
LEMMA TeamsSpoiled ==
  ASSUME NEW d, d.items \in Seq(Item), Spoiled("teams", d), handle_teams_dispatch(d).events # <<>>
  PROVE  \E c \in ToSet(handle_teams_dispatch(d).events) : ~RefChannel(c)
<1> DEFINE X == PlainTokens \cup {Dot}
           with == {item \in ToSet(d.items) : item.resource # << Absent >>}
           named == Retain(d.items, with)
           Channel(i) == << "teams" >> \o resource_to_channel(named[i].resource)
           events == [i \in DOMAIN named |-> Channel(i)]
<1>1. handle_teams_dispatch(d).events = events
  BY DEF handle_teams_dispatch, Rejected, Failure, Reply
<1>2. named \in Seq(Item) /\ ToSet(named) = ToSet(d.items) \cap with
  <2>1. PICK s \in Seq(Item) : s = d.items
    OBVIOUS
  <2>2. PICK keep : keep = with
    OBVIOUS
  <2>3. Retain(s, keep) \in Seq(Item) /\ ToSet(Retain(s, keep)) = ToSet(s) \cap keep
    BY RetainFacts
  <2> HIDE DEF with
  <2> QED
    BY <2>1, <2>2, <2>3
<1>3. PICK j \in DOMAIN d.items :
        d.items[j].resource # << Absent >> /\ ~Separated(d.items[j].resource)
  BY Zenon DEF Spoiled
<1> HIDE DEF named
<1>4. d.items[j] \in ToSet(named)
  <2>1. d.items[j] \in ToSet(d.items)
    BY DEF ToSet
  <2> QED
    BY <1>2, <1>3, <2>1
<1>5. PICK i \in DOMAIN named : named[i] = d.items[j]
  BY <1>4 DEF ToSet
<1>6. PICK s \in Seq(X) : s = d.items[j].resource
  <2>1. d.items[j] \in Item
    BY LenProperties
  <2> QED
    BY <1>3, <2>1 DEF Item
<1>7. PICK r \in Seq(X \cup {""}) :
        r = resource_to_channel(s) /\ \E n \in 1..Len(r) : r[n] = EmptyToken
  <2> HIDE DEF X
  <2> QED
    BY <1>3, <1>6, ResourceFacts, ResourceEmpties
<1>8. Channel(i) = << "teams" >> \o r
  BY <1>5, <1>6, <1>7
<1> HIDE DEF X, Channel
<1>9. ~RefChannel(Channel(i))
  <2>1. PICK w : w = "teams"
    OBVIOUS
  <2>2. PICK n \in 1..Len(r) : r[n] = EmptyToken
    BY <1>7
  <2>3. PICK c : c = << w >> \o r
    OBVIOUS
  <2>4. \A S : w \in S /\ r \in Seq(S) => n + 1 \in DOMAIN c /\ c[n + 1] = r[n]
    BY <2>2, <2>3, Shifted, ZenonT(30)
  <2>5. n + 1 \in DOMAIN c /\ c[n + 1] = EmptyToken
    <3>1. PICK Y : r \in Seq(Y)
      BY <1>7
    <3>2. w \in Y \cup {w} /\ Y \subseteq Y \cup {w}
      OBVIOUS
    <3>3. r \in Seq(Y \cup {w})
      BY <3>1, <3>2, WiderSeq, Zenon
    <3> QED
      BY <2>2, <2>4, <3>2, <3>3
  <2>6. EmptyToken \notin PlainTokens
    BY TokenAssumption, Zenon DEF EmptyToken
  <2>7. ~RefChannel(c)
    BY <2>5, <2>6 DEF RefChannel
  <2> QED
    BY <1>8, <2>1, <2>3, <2>7
<1>10. Channel(i) \in ToSet(events)
  BY DEF ToSet
<1> QED
  BY <1>1, <1>9, <1>10

LEMMA BundledSends ==
  ASSUME NEW id \in Ids \cap DOMAIN Dispatches, NEW d \in Dispatches[id]
  PROVE  Sends(id, d, HandlerOf(id, d).events)
<1>1. CASE id = "github"
  <2>1. HandlerOf(id, d) = handle_github_dispatch(d)
    BY <1>1 DEF HandlerOf
  <2> QED
    BY <1>1, <2>1, GithubSends
<1>2. CASE id = "hmac"
  <2>1. HandlerOf(id, d) = handle_hmac_dispatch(d)
    BY <1>2 DEF HandlerOf
  <2>2. d.path \in Seq(STRING)
    BY <1>2, BundledTypes DEF Bundled
  <2> QED
    BY <1>2, <2>1, <2>2, HmacSends
<1>3. CASE id = "teams"
  <2>1. HandlerOf(id, d) = handle_teams_dispatch(d)
    BY <1>3 DEF HandlerOf
  <2>2. d.items \in Seq(Item)
    BY <1>3, BundledTypes DEF Bundled
  <2> QED
    BY <1>3, <2>1, <2>2, TeamsSends
<1> QED
  BY <1>1, <1>2, <1>3, BundledTypes

LEMMA ReplyTypes ==
  ASSUME NEW id \in Ids \cap DOMAIN Dispatches, NEW d \in Dispatches[id]
  PROVE  HandlerOf(id, d).events \in Seq(Texts)
BY BundledSends DEF Sends

-----------------------------------------------------------------------------
(* Patterns *)

\* g lists the patterns after each one of the list is taken.
Adds(old, list, g) ==
  /\ g[0] = old
  /\ \A i \in 1..Len(list) :
       g[i] = IF Contains(g[i - 1], list[i]) THEN g[i - 1] ELSE Append(g[i - 1], list[i])

LEMMA AddedRuns ==
  ASSUME NEW X, NEW old \in Seq(X), NEW list \in Seq(X)
  PROVE  \E g \in [0..Len(list) -> Seq(X)] : Adds(old, list, g) /\ Added(old, list) = g[Len(list)]
<1> DEFINE n == Len(list)
           Step(k, u) == IF Contains(u, list[k]) THEN u ELSE Append(u, list[k])
           F == [k \in 1..n |-> [u \in Seq(X) |-> Step(k, u)]]
           Rec(f) == f = [i \in 0..n |-> IF i = 0 THEN old ELSE Step(i, f[i - 1])]
           added == CHOOSE f : Rec(f)
<1>1. n \in Nat /\ \A k \in 1..n : list[k] \in X
  BY LenProperties, ElementOfSeq
<1>2. \A k \in 1..n, u \in Seq(X) : Step(k, u) \in Seq(X)
  BY <1>1
<1>3. PICK g \in [0..n -> Seq(X)] : Goes(n, F, old, g)
  <2>1. F \in [1..n -> [Seq(X) -> Seq(X)]]
    <3> HIDE DEF Step
    <3> QED
      BY <1>2
  <2> HIDE DEF F, n
  <2> QED
    BY <1>1, <2>1, Iterates
<1>4. ASSUME NEW k \in 1..n PROVE g[k] = Step(k, g[k - 1])
  <2>1. k - 1 \in 0..n
    BY <1>1
  <2>2. g[k - 1] \in Seq(X)
    BY <1>3, <2>1
  <2>3. F[k][g[k - 1]] = Step(k, g[k - 1])
    <3> HIDE DEF Step
    <3> QED
      BY <2>2
  <2>4. g[k] = F[k][g[k - 1]]
    BY <1>3 DEF Goes
  <2> QED
    BY <2>3, <2>4
<1>5. g[0] = old
  BY <1>3 DEF Goes
<1>6. Rec(g)
  <2> DEFINE Value(i) == IF i = 0 THEN old ELSE Step(i, g[i - 1])
  <2> HIDE DEF Step
  <2>1. ASSUME NEW i \in 0..n, i # 0 PROVE g[i] = Step(i, g[i - 1])
    BY <1>1, <1>4, <2>1
  <2>2. ASSUME NEW i \in 0..n PROVE g[i] = Value(i)
    BY <1>5, <2>1
  <2> HIDE DEF Value
  <2>3. g = [i \in 0..n |-> Value(i)]
    BY <1>3, <2>2
  <2> QED
    BY <2>3 DEF Value
<1>7. Rec(added)
  <2> HIDE DEF Step
  <2> QED
    BY <1>6
<1>8. Added(old, list) = added[n]
  BY DEF Added
<1> HIDE DEF added, Step
<1>9. added[0] = old /\ \A k \in 1..n : added[k] = Step(k, added[k - 1])
  <2>1. added = [i \in 0..n |-> IF i = 0 THEN old ELSE Step(i, added[i - 1])]
    BY <1>7, Zenon
  <2>2. 0 \in 0..n /\ \A k \in 1..n : k \in 0..n /\ k # 0
    BY <1>1
  <2> HIDE DEF n
  <2> QED
    BY ONLY <2>1, <2>2
<1> DEFINE P == {k \in 0..n : added[k] = g[k]}
<1>10. 0 \in P
  BY <1>1, <1>5, <1>9
<1>11. ASSUME NEW k \in 0..n, k \in P, k < n PROVE k + 1 \in P
  <2>1. k + 1 \in 1..n /\ (k + 1) - 1 = k /\ k + 1 \in 0..n
    BY <1>1, <1>11
  <2>2. added[k + 1] = Step(k + 1, added[k]) /\ g[k + 1] = Step(k + 1, g[k])
    BY <1>4, <1>9, <2>1
  <2> QED
    BY <1>11, <2>1, <2>2
<1> HIDE DEF P
<1>12. \A k \in 0..n : k \in P
  BY <1>1, <1>10, <1>11, UpTo
<1>13. added[n] = g[n]
  BY <1>1, <1>12 DEF P
<1> QED
  BY <1>3, <1>4, <1>5, <1>8, <1>13 DEF Adds, Step

\* A subscribe adds patterns of its list and no pattern twice.
LEMMA AddedFacts ==
  ASSUME NEW X, NEW old \in Seq(X), NEW list \in Seq(X), NoDuplicates(old)
  PROVE  /\ Added(old, list) \in Seq(X) /\ NoDuplicates(Added(old, list))
         /\ ToSet(Added(old, list)) \subseteq ToSet(old) \cup ToSet(list)
<1> DEFINE n == Len(list)
<1>1. PICK g \in [0..n -> Seq(X)] : Adds(old, list, g) /\ Added(old, list) = g[n]
  BY AddedRuns
<1>2. n \in Nat /\ DOMAIN list = 1..n /\ \A k \in 1..n : list[k] \in X /\ list[k] \in ToSet(list)
  BY LenProperties, ElementOfSeq DEF ToSet
<1> DEFINE Good(t) == NoDuplicates(t) /\ ToSet(t) \subseteq ToSet(old) \cup ToSet(list)
           P == {k \in 0..n : Good(g[k])}
<1>3. 0 \in P
  BY <1>1, <1>2 DEF Adds
<1>4. ASSUME NEW k \in 0..n, k \in P, k < n PROVE k + 1 \in P
  <2> DEFINE t == g[k]
             e == list[k + 1]
  <2>1. k + 1 \in 1..n /\ (k + 1) - 1 = k /\ k + 1 \in 0..n
    BY <1>2, <1>4
  <2>2. t \in Seq(X) /\ e \in X /\ e \in ToSet(list) /\ Good(t)
    BY <1>1, <1>2, <1>4, <2>1
  <2>3. g[k + 1] = IF Contains(t, e) THEN t ELSE Append(t, e)
    BY <1>1, <2>1 DEF Adds
  <2> HIDE DEF t, e
  <2>4. CASE Contains(t, e)
    <3>1. g[k + 1] = t
      BY <2>3, <2>4
    <3> HIDE DEF Good
    <3> QED
      BY <2>1, <2>2, <3>1
  <2>5. CASE ~Contains(t, e)
    <3>3. ToSet(Append(t, e)) = ToSet(t) \cup {e}
      BY <2>2, AppendSet
    <3>4. NoDuplicates(Append(t, e))
      <4>1. e \notin ToSet(t)
        BY <2>2, <2>5, LenProperties DEF Contains, ToSet
      <4> QED
        BY <2>2, <4>1, AppendSet
    <3>5. g[k + 1] = Append(t, e)
      BY <2>3, <2>5
    <3> QED
      BY <2>1, <2>2, <3>3, <3>4, <3>5
  <2> QED
    BY <2>4, <2>5
<1> HIDE DEF P
<1>5. \A k \in 0..n : k \in P
  BY <1>2, <1>3, <1>4, UpTo
<1> QED
  BY <1>1, <1>2, <1>5 DEF P

-----------------------------------------------------------------------------
\* The empty tables satisfy the invariant.
LEMMA InitInv == Init => Inv
BY DEF Init, Inv, MapInv, TypeOK, EntryInv, CollisionInv, Live, Serving

\* A registration that passes the collision rules keeps it, with the entries of
\* other ids and what removals have left of its own.
LEMMA RegisterInv ==
  ASSUME Inv, NEW id \in Ids, Register(id)
  PROVE  Inv'
<1> USE DEF Inv
<1>1. PICK claims \in PathLists[id], channels \in ChannelLists[id] :
        /\ id \notin DOMAIN extensions
        /\ validate_registration_claims(id, claims, channels, routes, prefixes)
        /\ extensions' = [i \in DOMAIN extensions \cup {id} |->
                            IF i = id THEN [paths |-> claims, channels |-> channels] ELSE extensions[i]]
        /\ routes' = Give(routes, claims, id)
        /\ prefixes' = Give(prefixes, channels, id)
        /\ torn' = IF Removing(id) THEN torn \cup {id} ELSE torn
        /\ draining' = draining /\ task' = task
  BY DEF Register
<1>2. claims \in Seq(STRING) /\ channels \in Seq(Texts)
  BY ListTypes
<1>3. /\ DOMAIN extensions' = DOMAIN extensions \cup {id}
      /\ extensions'[id] = [paths |-> claims, channels |-> channels]
      /\ \A i \in DOMAIN extensions : extensions'[i] = extensions[i]
  BY <1>1
<1>4. /\ \A k \in ToSet(claims) : /\ k \in PlainTokens /\ k \notin DOMAIN routes
                                  /\ \A p \in DOMAIN prefixes :
                                       first_channel_segment(p) = k => prefixes[p] = id
      /\ \A p \in ToSet(channels) :
           /\ p \in Texts
           /\ first_channel_segment(p) \in DOMAIN routes => routes[first_channel_segment(p)] = id
           /\ \A q \in DOMAIN prefixes : channel_prefixes_overlap(p, q) => prefixes[q] = id
  <2>2. ASSUME NEW k \in ToSet(claims)
        PROVE  /\ k \in PlainTokens /\ k \notin DOMAIN routes
               /\ \A p \in DOMAIN prefixes : first_channel_segment(p) = k => prefixes[p] = id
    <3>1. PICK i \in DOMAIN claims : k = claims[i]
      BY DEF ToSet
    <3>2. ClaimOk(id, k, routes, prefixes)
      BY <1>1, <3>1 DEF validate_registration_claims
    <3> QED
      BY <3>2 DEF ClaimOk, validate_path_claim
  <2>3. ASSUME NEW p \in ToSet(channels)
        PROVE  /\ p \in Texts
               /\ first_channel_segment(p) \in DOMAIN routes => routes[first_channel_segment(p)] = id
               /\ \A q \in DOMAIN prefixes : channel_prefixes_overlap(p, q) => prefixes[q] = id
    <3>1. PICK i \in DOMAIN channels : p = channels[i]
      BY DEF ToSet
    <3>2. PrefixOk(id, p, routes, prefixes)
      BY <1>1, <3>1 DEF validate_registration_claims
    <3>3. p \in Texts
      BY <1>2, <3>1, LenProperties
    <3> QED
      BY <3>2, <3>3 DEF PrefixOk
  <2> QED
    BY <2>2, <2>3
<1>5. /\ DOMAIN routes' = DOMAIN routes \cup ToSet(claims)
      /\ \A k \in DOMAIN routes' : routes'[k] = IF k \in ToSet(claims) THEN id ELSE routes[k]
      /\ DOMAIN prefixes' = DOMAIN prefixes \cup ToSet(channels)
      /\ \A p \in DOMAIN prefixes' :
           prefixes'[p] = IF p \in ToSet(channels) THEN id ELSE prefixes[p]
  BY <1>1 DEF Give
<1>6. \A p \in ToSet(channels) : p \in DOMAIN prefixes => prefixes[p] = id
  <2>1. ASSUME NEW p \in Texts PROVE channel_prefixes_overlap(p, p)
    BY PrefixesOfOneChannel, LenProperties DEF Texts
  <2> QED
    BY <1>4, <2>1
<1>7. MapInv'
  <2>1. extensions'[id] \in HandleType
    BY <1>2, <1>3 DEF HandleType
  <2>2. torn' \subseteq DOMAIN extensions'
    BY <1>1, <1>3 DEF MapInv, TypeOK
  <2>3. /\ \A k \in DOMAIN routes' : routes'[k] \in Ids
        /\ \A p \in DOMAIN prefixes' : prefixes'[p] \in Ids
    BY <1>5 DEF MapInv, TypeOK
  <2>4. TypeOK'
    BY <1>1, <1>3, <1>4, <1>5, <2>2, <2>3 DEF MapInv, TypeOK
  <2> QED
    BY <1>3, <1>4, <1>5, <2>1, <2>4 DEF MapInv
<1>8. EntryInv'
  <2>1. Live' = Live \cup {id} /\ id \notin Live /\ Live \subseteq DOMAIN extensions
    BY <1>1, <1>3 DEF Live, MapInv, TypeOK
  <2>2. \A i : (Removing(i)' <=> Removing(i)) /\ (AtRoutes(i)' <=> AtRoutes(i))
    BY <1>1 DEF Removing, AtRoutes, At
  <2>3. /\ \A i \in Serving' : i # id => i \in Serving
        /\ id \in Serving' => ~Removing(id)
        /\ id \notin Serving /\ Serving \subseteq DOMAIN extensions
    BY <1>1, <1>3 DEF Serving, MapInv, TypeOK
  <2>4. ASSUME NEW k \in DOMAIN routes'
        PROVE  \/ AtRoutes(routes'[k])
               \/ routes'[k] \in Live' /\ k \in ToSet(extensions'[routes'[k]].paths)
    BY <1>3, <1>5, <2>1 DEF EntryInv
  <2>5. ASSUME NEW p \in DOMAIN prefixes'
        PROVE  \/ Removing(prefixes'[p])
               \/ prefixes'[p] \in Live' /\ p \in ToSet(extensions'[prefixes'[p]].channels)
    BY <1>3, <1>5, <2>1 DEF EntryInv
  <2>6. ASSUME NEW i \in Serving'
        PROVE  /\ ~Removing(i)
               /\ \A k \in ToSet(extensions'[i].paths) : k \in DOMAIN routes' /\ routes'[k] = i
               /\ \A p \in ToSet(extensions'[i].channels) : p \in DOMAIN prefixes' /\ prefixes'[p] = i
    <3>1. CASE i = id
      BY <3>1, <1>3, <1>5, <2>3
    <3>2. CASE i # id
      BY <3>2, <1>3, <1>4, <1>5, <1>6, <2>3 DEF EntryInv
    <3> QED
      BY <3>1, <3>2
  <2> QED
    BY <2>2, <2>4, <2>5, <2>6 DEF EntryInv
<1>9. CollisionInv'
  <2>1. \A p, q : channel_prefixes_overlap(p, q) => channel_prefixes_overlap(q, p)
    BY OverlapSymmetric
  <2> QED
    BY <1>4, <1>5, <2>1 DEF CollisionInv
<1> QED
  BY <1>7, <1>8, <1>9

\* A removal begins: its extension leaves the map, or a reload has picked it.
LEMMA BeginInv ==
  ASSUME Inv, NEW id \in Ids, id \in DOMAIN extensions, BeginRemoval(id), UNCHANGED tables,
         \/ /\ extensions' = extensions /\ draining' = draining \cup {id} /\ torn' = torn
         \/ /\ extensions' = [i \in DOMAIN extensions \ {id} |-> extensions[i]]
            /\ draining' = draining \ {id} /\ torn' = torn \ {id}
  PROVE  Inv'
<1> USE DEF Inv
<1>1. PICK k \in Tasks : task[k] = Idle /\ task' = [task EXCEPT ![k] = [id |-> id, at |-> "routes"]]
  BY DEF BeginRemoval
<1>2. routes' = routes /\ prefixes' = prefixes
  BY DEF tables
<1>3. /\ Live' = Live \ {id} /\ Serving' = Serving \ {id}
      /\ DOMAIN extensions' \subseteq DOMAIN extensions
      /\ draining' \subseteq DOMAIN extensions' /\ torn' \subseteq DOMAIN extensions'
      /\ \A i \in DOMAIN extensions' : extensions'[i] = extensions[i]
  BY DEF Live, Serving, MapInv, TypeOK
<1>4. Live' \subseteq DOMAIN extensions' /\ Serving' \subseteq DOMAIN extensions'
  BY DEF Live, Serving
<1>5. task \in [Tasks -> [id : Ids, at : {"routes", "prefixes"}] \cup {Idle}]
  BY DEF MapInv, TypeOK
<1>6. \A i \in Ids : /\ Removing(i)' <=> Removing(i) \/ i = id
                     /\ AtRoutes(i)' <=> AtRoutes(i) \/ i = id
  <2>1. \A i \in Ids : task[k] # [id |-> i, at |-> "routes"] /\ task[k] # [id |-> i, at |-> "prefixes"]
    BY <1>1, TaskAssumption
  <2>2. task'[k] = [id |-> id, at |-> "routes"] /\ \A t \in Tasks : t # k => task'[t] = task[t]
    BY <1>1, <1>5
  <2>3. ASSUME NEW i \in Ids, NEW lock \in {"routes", "prefixes"}
        PROVE  (\E t \in Tasks : task'[t] = [id |-> i, at |-> lock])
                 <=> \/ \E t \in Tasks : task[t] = [id |-> i, at |-> lock]
                     \/ i = id /\ lock = "routes"
    <3>1. task[k] # [id |-> i, at |-> lock]
      BY <2>1, <2>3
    <3>2. task'[k] = [id |-> i, at |-> lock] <=> i = id /\ lock = "routes"
      BY <2>2
    <3> QED
      BY <2>2, <3>1, <3>2
  <2>4. ASSUME NEW i \in Ids PROVE AtRoutes(i)' <=> AtRoutes(i) \/ i = id
    BY <2>3 DEF AtRoutes, At
  <2>5. ASSUME NEW i \in Ids PROVE Removing(i)' <=> Removing(i) \/ i = id
    BY <2>3 DEF Removing, At
  <2> QED
    BY <2>4, <2>5
<1>7. MapInv'
  <2>1. task' \in [Tasks -> [id : Ids, at : {"routes", "prefixes"}] \cup {Idle}]
    BY <1>1, <1>5
  <2> QED
    BY <1>2, <1>3, <2>1 DEF MapInv, TypeOK
<1>8. EntryInv'
  <2>1. (\A x \in DOMAIN routes : routes[x] \in Ids) /\ (\A p \in DOMAIN prefixes : prefixes[p] \in Ids)
        /\ Serving \subseteq Ids
    BY DEF MapInv, TypeOK, Serving
  <2> QED
    BY <1>2, <1>3, <1>4, <1>6, <2>1 DEF EntryInv
<1>9. CollisionInv'
  BY <1>2 DEF CollisionInv
<1> QED
  BY <1>7, <1>8, <1>9

\* The removal of an id's routes keeps it.
LEMMA PathsInv ==
  ASSUME Inv, NEW k \in Tasks, UnroutePaths(k)
  PROVE  Inv'
<1> USE DEF Inv
<1> DEFINE id == task[k].id
<1>1. /\ task \in [Tasks -> [id : Ids, at : {"routes", "prefixes"}] \cup {Idle}]
      /\ task[k] = [id |-> id, at |-> "routes"] /\ id \in Ids
      /\ task' = [task EXCEPT ![k] = [id |-> id, at |-> "prefixes"]]
  <2>1. task \in [Tasks -> [id : Ids, at : {"routes", "prefixes"}] \cup {Idle}]
    BY DEF MapInv, TypeOK
  <2>2. task[k] \in [id : Ids, at : {"routes", "prefixes"}] /\ task[k].at = "routes"
    BY <2>1 DEF UnroutePaths
  <2>3. task' = [task EXCEPT ![k] = [@ EXCEPT !.at = "prefixes"]]
    BY DEF UnroutePaths
  <2>4. [task[k] EXCEPT !.at = "prefixes"] = [id |-> task[k].id, at |-> "prefixes"]
    BY <2>2
  <2> QED
    BY <2>1, <2>2, <2>3, <2>4
<1>2. /\ DOMAIN routes' = {x \in DOMAIN routes : routes[x] # id}
      /\ \A x \in DOMAIN routes' : routes'[x] = routes[x]
      /\ UNCHANGED <<prefixes, extensions, draining, torn>>
  BY DEF UnroutePaths, Without, OwnedBy
<1> HIDE DEF id
<1>3. /\ task'[k] = [id |-> id, at |-> "prefixes"]
      /\ \A t \in Tasks : t # k => task'[t] = task[t]
  BY <1>1
<1>4. /\ \A i : Removing(i)' <=> Removing(i)
      /\ \A i : i # id => (AtRoutes(i)' <=> AtRoutes(i))
      /\ Removing(id)
  BY <1>1, <1>3 DEF Removing, AtRoutes, At
<1>5. MapInv'
  <2>1. task' \in [Tasks -> [id : Ids, at : {"routes", "prefixes"}] \cup {Idle}]
    BY <1>1
  <2> QED
    BY <1>2, <2>1 DEF MapInv, TypeOK
<1>6. EntryInv'
  <2>1. Live' = Live /\ Serving' = Serving /\ id \notin Serving
    BY <1>2, <1>4 DEF Live, Serving, EntryInv
  <2> QED
    BY <1>2, <1>4, <2>1 DEF EntryInv
<1>7. CollisionInv'
  BY <1>2 DEF CollisionInv
<1> QED
  BY <1>5, <1>6, <1>7

\* So does the removal of its prefixes, the last step.
LEMMA PrefixesInv ==
  ASSUME Inv, NEW k \in Tasks, UnroutePrefixes(k)
  PROVE  Inv'
<1> USE DEF Inv
<1> DEFINE id == task[k].id
<1>1. /\ task \in [Tasks -> [id : Ids, at : {"routes", "prefixes"}] \cup {Idle}]
      /\ task[k] = [id |-> id, at |-> "prefixes"] /\ id \in Ids
      /\ task' = [task EXCEPT ![k] = Idle]
  BY DEF MapInv, TypeOK, UnroutePrefixes
<1>2. /\ DOMAIN prefixes' = {x \in DOMAIN prefixes : prefixes[x] # id}
      /\ \A x \in DOMAIN prefixes' : prefixes'[x] = prefixes[x]
      /\ UNCHANGED <<routes, extensions, draining, torn>>
  BY DEF UnroutePrefixes, Without, OwnedBy
<1> HIDE DEF id
<1>3. task'[k] = Idle /\ \A t \in Tasks : t # k => task'[t] = task[t]
  BY <1>1
<1>4. /\ \A i \in Ids : AtRoutes(i)' <=> AtRoutes(i)
      /\ \A i \in Ids : i # id => (Removing(i)' <=> Removing(i))
      /\ \A i \in Ids : Removing(i)' => Removing(i)
      /\ Removing(id)
  <2>1. \A i \in Ids : task'[k] # [id |-> i, at |-> "routes"] /\ task'[k] # [id |-> i, at |-> "prefixes"]
    BY <1>3, TaskAssumption
  <2> QED
    BY <1>1, <1>3, <2>1 DEF Removing, AtRoutes, At
<1>5. MapInv'
  <2>1. task' \in [Tasks -> [id : Ids, at : {"routes", "prefixes"}] \cup {Idle}]
    BY <1>1
  <2> QED
    BY <1>2, <2>1 DEF MapInv, TypeOK
<1>6. EntryInv'
  <2>1. Live' = Live /\ Serving' = Serving /\ id \notin Serving
    BY <1>2, <1>4 DEF Live, Serving, EntryInv
  <2>2. (\A x \in DOMAIN routes : routes[x] \in Ids) /\ (\A p \in DOMAIN prefixes : prefixes[p] \in Ids)
        /\ Serving \subseteq Ids
    BY DEF MapInv, TypeOK, Serving
  <2> QED
    BY <1>2, <1>4, <2>1, <2>2 DEF EntryInv
<1>7. CollisionInv'
  BY <1>2 DEF CollisionInv
<1> QED
  BY <1>5, <1>6, <1>7

\* Every step keeps the invariant.
LEMMA NextInv == Inv /\ [Next]_vars => Inv'
<1> SUFFICES ASSUME Inv, [Next]_vars PROVE Inv'
  OBVIOUS
<1>0. ASSUME UNCHANGED <<tables, extensions, draining, task, torn>> PROVE Inv'
  <2>1. /\ routes' = routes /\ prefixes' = prefixes /\ extensions' = extensions
        /\ draining' = draining /\ task' = task /\ torn' = torn
    BY <1>0 DEF tables
  <2>2. \A i : (Removing(i)' <=> Removing(i)) /\ (AtRoutes(i)' <=> AtRoutes(i))
    BY <2>1 DEF Removing, AtRoutes, At
  <2> QED
    BY <2>1, <2>2 DEF Inv, MapInv, TypeOK, EntryInv, CollisionInv, Live, Serving
<1>1. ASSUME NEW id \in Ids, Register(id) \/ StopRemoved(id) \/ Exit(id) \/ Emit(id) PROVE Inv'
  <2>1. CASE Register(id)
    BY <2>1, RegisterInv
  <2>2. CASE StopRemoved(id)
    BY <2>2, BeginInv DEF StopRemoved
  <2>3. CASE Exit(id)
    BY <2>3, BeginInv DEF Exit, Forget
  <2>4. CASE Emit(id)
    BY <2>4, <1>0 DEF Emit
  <2> QED
    BY <1>1, <2>1, <2>2, <2>3, <2>4
<1>2. ASSUME NEW id \in Ids, Webhook(id) PROVE Inv'
  <2>1. \/ Forget(id) /\ id \in DOMAIN extensions
        \/ UNCHANGED <<tables, extensions, draining, task, torn>>
    BY <1>2 DEF Webhook
  <2> QED
    BY <1>0, <2>1, BeginInv DEF Forget
<1>3. CASE \E s \in Subs : Subscribe(s) \/ Unsubscribe(s)
  BY <1>0, <1>3 DEF Subscribe, Unsubscribe
<1>4. CASE UNCHANGED vars
  BY <1>0, <1>4 DEF vars
<1>5. CASE \E k \in Tasks : UnroutePaths(k) \/ UnroutePrefixes(k)
  BY <1>5, PathsInv, PrefixesInv
<1> QED
  BY <1>1, <1>2, <1>3, <1>4, <1>5 DEF Next

\* Whatever extensions register, drain, exit and emit, and wherever their
\* removals stand between the locks, every entry of the tables has a serving or
\* draining owner or a removal that will take it, the serving ones have all
\* their claims, and claims that meet have one owner (daemon.rs:303-328,
\* 459-498, channel_claims.rs).
THEOREM InvAlways == Spec => []Inv
BY InitInv, NextInv, PTL DEF Spec

\* TablesExact: once the removals of an id are over it owns no more than its
\* extension claims, and a serving extension owns all it claims.
THEOREM TablesExactAlways == Spec => []TablesExact
<1>1. ASSUME Inv, NEW id \in Ids, ~Removing(id)
      PROVE  /\ OwnedBy(routes, id) \subseteq Entitled(id, "paths")
             /\ OwnedBy(prefixes, id) \subseteq Entitled(id, "channels")
  <2>1. ~AtRoutes(id)
    BY <1>1 DEF AtRoutes, Removing
  <2>2. ASSUME NEW k \in OwnedBy(routes, id)
        PROVE  id \in Live /\ k \in ToSet(extensions[id].paths)
    BY <1>1, <2>1, <2>2 DEF Inv, EntryInv, OwnedBy
  <2>3. ASSUME NEW p \in OwnedBy(prefixes, id)
        PROVE  id \in Live /\ p \in ToSet(extensions[id].channels)
    BY <1>1, <2>3 DEF Inv, EntryInv, OwnedBy
  <2> QED
    BY <2>2, <2>3 DEF Entitled, Live
<1>2. ASSUME Inv, NEW id \in Serving
      PROVE  /\ Entitled(id, "paths") \subseteq OwnedBy(routes, id)
             /\ Entitled(id, "channels") \subseteq OwnedBy(prefixes, id)
  BY <1>2 DEF Inv, EntryInv, Entitled, OwnedBy
<1>3. Inv => \A id \in Serving : id \in Ids /\ ~Removing(id)
  BY DEF Inv, EntryInv, MapInv, TypeOK, Serving
<1>4. Inv => TablesExact
  BY <1>1, <1>2, <1>3 DEF TablesExact
<1> QED
  BY <1>4, InvAlways, PTL

\* Two serving extensions that own a channel by the grammar are one.
LEMMA OwnersMeet ==
  ASSUME Inv, NEW c \in Texts, NEW i \in Serving, NEW j \in Serving,
         RefOwns(extensions[i], c), RefOwns(extensions[j], c)
  PROVE  i = j
<1> USE DEF Inv
<1>1. /\ \A id \in Serving : \A k \in ToSet(extensions[id].paths) : k \in DOMAIN routes /\ routes[k] = id
      /\ \A id \in Serving : \A p \in ToSet(extensions[id].channels) :
           p \in DOMAIN prefixes /\ prefixes[p] = id /\ p \in Texts
  BY DEF EntryInv, MapInv
<1>2. ASSUME NEW p \in Texts, Len(p) <= Len(c), \A k \in DOMAIN p : p[k] = c[k]
      PROVE  first_channel_segment(p) = c[1]
  <2>1. 1 \in DOMAIN p
    BY LenProperties, EmptySeq DEF Texts
  <2> QED
    BY <1>2, <2>1 DEF first_channel_segment
<1>3. CASE c[1] \in ToSet(extensions[i].paths) /\ c[1] \in ToSet(extensions[j].paths)
  BY <1>1, <1>3
<1>4. ASSUME NEW a \in Serving, NEW b \in Serving, c[1] \in ToSet(extensions[a].paths),
             NEW p \in ToSet(extensions[b].channels), Len(p) <= Len(c), \A k \in DOMAIN p : p[k] = c[k]
      PROVE  a = b
  BY <1>1, <1>2, <1>4 DEF CollisionInv
<1>5. ASSUME NEW p \in ToSet(extensions[i].channels), Len(p) <= Len(c), \A k \in DOMAIN p : p[k] = c[k],
             NEW q \in ToSet(extensions[j].channels), Len(q) <= Len(c), \A k \in DOMAIN q : q[k] = c[k]
      PROVE  i = j
  <2>1. channel_prefixes_overlap(p, q)
    BY <1>1, <1>5, PrefixesOfOneChannel
  <2>2. p \in DOMAIN prefixes /\ prefixes[p] = i /\ q \in DOMAIN prefixes /\ prefixes[q] = j
    BY <1>1, <1>5
  <2> QED
    BY <2>1, <2>2 DEF CollisionInv
<1> QED
  BY <1>3, <1>4, <1>5 DEF RefOwns

\* What the filter of filter_owned_events admits is what the grammar says the
\* handle owns.
THEOREM EmittedExact ==
  ASSUME NEW h \in HandleType, NEW c \in Texts
  PROVE  validate_emitted_channel(c, h.paths, h.channels) <=> RefChannel(c) /\ RefOwns(h, c)
<1>1. ASSUME NEW p \in Texts
      PROVE  channel_is_in_prefix(c, p) <=> Len(p) <= Len(c) /\ \A i \in DOMAIN p : p[i] = c[i]
  <2>1. /\ c \in Seq(STRING) /\ p \in Seq(STRING) /\ Len(p) \in Nat /\ Len(c) \in Nat
        /\ DOMAIN p = 1..Len(p) /\ \A i \in 1..Len(c) : c[i] \in STRING
    BY LenProperties DEF Texts
  <2>2. ASSUME Len(p) <= Len(c)
        PROVE  /\ SubSeq(c, 1, Len(p)) \in Seq(STRING)
               /\ Len(SubSeq(c, 1, Len(p))) = Len(p)
               /\ \A i \in 1..Len(p) : SubSeq(c, 1, Len(p))[i] = c[i]
    BY <2>1, <2>2
  <2>3. ASSUME Len(p) <= Len(c), \A i \in DOMAIN p : p[i] = c[i]
        PROVE  SubSeq(c, 1, Len(p)) = p
    BY <2>1, <2>2, <2>3, SeqEqual
  <2> QED
    BY <2>1, <2>2, <2>3 DEF channel_is_in_prefix
<1>2. /\ h.paths \in Seq(STRING) /\ h.channels \in Seq(Texts)
      /\ \A i \in DOMAIN h.channels : h.channels[i] \in Texts
  BY LenProperties DEF HandleType
<1>3. /\ ToSet(h.paths) = {h.paths[i] : i \in DOMAIN h.paths}
      /\ ToSet(h.channels) = {h.channels[i] : i \in DOMAIN h.channels}
  BY DEF ToSet
<1>4. (\E i \in DOMAIN h.paths : h.paths[i] = first_channel_segment(c)) <=> c[1] \in ToSet(h.paths)
  BY <1>3 DEF first_channel_segment
<1>5. (\E i \in DOMAIN h.channels : channel_is_in_prefix(c, h.channels[i]))
        <=> \E p \in ToSet(h.channels) : Len(p) <= Len(c) /\ \A i \in DOMAIN p : p[i] = c[i]
  BY <1>1, <1>2, <1>3
<1> QED
  BY <1>4, <1>5, ValidChannelExact DEF validate_emitted_channel, RefOwns

\* Two serving extensions never both get an event on one channel past the
\* filter, whatever the channel (channel_claims.rs).
Disjoint ==
  \A i, j \in Serving, c \in Texts :
    /\ validate_emitted_channel(c, extensions[i].paths, extensions[i].channels)
    /\ validate_emitted_channel(c, extensions[j].paths, extensions[j].channels)
    => i = j

\* The filter keeps the namespaces of the serving extensions apart.
THEOREM DisjointAlways == Spec => []Disjoint
<1>1. Inv => Disjoint
  <2> SUFFICES ASSUME Inv, NEW i \in Serving, NEW j \in Serving, NEW c \in Texts,
                      validate_emitted_channel(c, extensions[i].paths, extensions[i].channels),
                      validate_emitted_channel(c, extensions[j].paths, extensions[j].channels)
               PROVE  i = j
    BY DEF Disjoint
  <2>1. extensions[i] \in HandleType /\ extensions[j] \in HandleType
    BY DEF Inv, MapInv, Serving
  <2>2. RefOwns(extensions[i], c) /\ RefOwns(extensions[j], c)
    BY <2>1, EmittedExact
  <2> QED
    BY <2>2, OwnersMeet
<1> QED
  BY <1>1, InvAlways, PTL

\* OwnerUnique: no two serving extensions may publish on the same channel,
\* whatever order extensions register, drain and exit in.
THEOREM OwnerUniqueAlways == Spec => []OwnerUnique
<1>1. ASSUME Inv, NEW c \in Channels
      PROVE  Cardinality({id \in Serving :
                            RefChannel(c) /\ RefOwns(extensions[id], c)}) <= 1
  <2> DEFINE owners == {id \in Serving :
                          RefChannel(c) /\ RefOwns(extensions[id], c)}
  <2>1. \A i, j \in owners : i = j
    BY <1>1, OwnersMeet, ListTypes
  <2> HIDE DEF owners
  <2>2. Cardinality(owners) <= 1
    <3>1. CASE owners = {}
      BY <3>1, FS_EmptySet
    <3>2. CASE owners # {}
      <4>1. PICK i \in owners : owners = {i}
        BY <2>1, <3>2
      <4>2. Cardinality({i}) = 1
        BY FS_Singleton
      <4> QED
        BY <4>1, <4>2
    <3> QED
      BY <3>1, <3>2
  <2> QED
    BY <2>2 DEF owners
<1>2. Inv => OwnerUnique
  BY <1>1 DEF OwnerUnique
<1> QED
  BY <1>2, InvAlways, PTL

-----------------------------------------------------------------------------
(* Subscriptions *)

\* Every connection has a list of valid patterns without duplicates.
PatternInv ==
  /\ patterns \in [Subs -> Seq(Texts)]
  /\ \A s \in Subs : NoDuplicates(patterns[s]) /\ \A p \in ToSet(patterns[s]) : RefPattern(p)

LEMMA PatternInit == Init => PatternInv
<1> SUFFICES ASSUME Init PROVE PatternInv
  OBVIOUS
<1>1. patterns = [s \in Subs |-> <<>>] /\ <<>> \in Seq(Texts) /\ DOMAIN << >> = {}
  BY DEF Init
<1> QED
  BY <1>1 DEF PatternInv, NoDuplicates, ToSet

\* A list with an invalid pattern adds nothing, any other only valid ones.
LEMMA AcceptedFacts ==
  ASSUME NEW list \in PatternLists
  PROVE  Accepted(list) \in Seq(Texts) /\ \A p \in ToSet(Accepted(list)) : RefPattern(p)
<1>1. list \in Seq(Texts)
  BY ListTypes
<1>2. CASE \A i \in DOMAIN list : validate_pattern(list[i]) = "Ok"
  <2>1. \A i \in DOMAIN list : list[i] \in Texts /\ validate_pattern(list[i]) = "Ok"
    BY <1>1, <1>2, LenProperties
  <2>2. \A i \in DOMAIN list : RefPattern(list[i])
    BY <2>1, ValidPatternExact
  <2>3. Accepted(list) = list
    BY <1>2 DEF Accepted
  <2> QED
    BY <1>1, <2>2, <2>3 DEF ToSet
<1>3. CASE ~(\A i \in DOMAIN list : validate_pattern(list[i]) = "Ok")
  <2>1. Accepted(list) = <<>> /\ <<>> \in Seq(Texts) /\ DOMAIN << >> = {}
    BY <1>3 DEF Accepted
  <2> QED
    BY <2>1 DEF ToSet
<1> QED
  BY <1>2, <1>3

LEMMA PatternStep == PatternInv /\ [Next]_vars => PatternInv'
<1> SUFFICES ASSUME PatternInv, [Next]_vars PROVE PatternInv'
  OBVIOUS
<1>1. CASE UNCHANGED patterns
  BY <1>1 DEF PatternInv
<1>2. ASSUME NEW s \in Subs, NEW new \in Seq(Texts), patterns' = [patterns EXCEPT ![s] = new],
             NoDuplicates(new), \A p \in ToSet(new) : RefPattern(p)
      PROVE  PatternInv'
  <2>1. patterns' \in [Subs -> Seq(Texts)]
    BY <1>2 DEF PatternInv
  <2>2. ASSUME NEW u \in Subs
        PROVE  NoDuplicates(patterns'[u]) /\ \A p \in ToSet(patterns'[u]) : RefPattern(p)
    BY <1>2 DEF PatternInv
  <2> QED
    BY <2>1, <2>2 DEF PatternInv
<1>3. ASSUME NEW s \in Subs, Subscribe(s) PROVE PatternInv'
  <2>1. PICK list \in PatternLists : patterns' = [patterns EXCEPT ![s] = Added(@, Accepted(list))]
    BY <1>3 DEF Subscribe
  <2>2. PICK old \in Seq(Texts) : old = patterns[s]
    BY DEF PatternInv
  <2>3. PICK taken \in Seq(Texts) : taken = Accepted(list)
    BY AcceptedFacts
  <2>4. /\ NoDuplicates(old) /\ \A p \in ToSet(old) : RefPattern(p)
        /\ \A p \in ToSet(taken) : RefPattern(p)
    BY <2>2, <2>3, AcceptedFacts DEF PatternInv
  <2>5. /\ Added(old, taken) \in Seq(Texts) /\ NoDuplicates(Added(old, taken))
        /\ ToSet(Added(old, taken)) \subseteq ToSet(old) \cup ToSet(taken)
    BY <2>4, AddedFacts
  <2>6. patterns' = [patterns EXCEPT ![s] = Added(old, taken)]
    BY <2>1, <2>2, <2>3
  <2> QED
    BY <1>2, <2>4, <2>5, <2>6
<1>4. ASSUME NEW s \in Subs, Unsubscribe(s) PROVE PatternInv'
  <2>1. PICK list \in PatternLists :
          patterns' = [patterns EXCEPT ![s] = Retain(@, ToSet(@) \ ToSet(list))]
    BY <1>4 DEF Unsubscribe
  <2>2. PICK old \in Seq(Texts) : old = patterns[s]
    BY DEF PatternInv
  <2>3. PICK keep : keep = ToSet(old) \ ToSet(list)
    OBVIOUS
  <2>4. NoDuplicates(old) /\ \A p \in ToSet(old) : RefPattern(p)
    BY <2>2 DEF PatternInv
  <2>5. /\ Retain(old, keep) \in Seq(Texts) /\ NoDuplicates(Retain(old, keep))
        /\ ToSet(Retain(old, keep)) = ToSet(old) \cap keep
    BY <2>4, RetainFacts
  <2>6. patterns' = [patterns EXCEPT ![s] = Retain(old, keep)]
    BY <2>1, <2>2, <2>3
  <2> QED
    BY <1>2, <2>4, <2>5, <2>6
<1>5. CASE UNCHANGED vars
  BY <1>1, <1>5 DEF vars
<1>6. ASSUME NEW id \in Ids, Register(id) \/ StopRemoved(id) \/ Exit(id) \/ Emit(id) \/ Webhook(id)
      PROVE  UNCHANGED patterns
  BY <1>6 DEF Register, StopRemoved, Exit, Emit, Webhook
<1>7. ASSUME NEW k \in Tasks, UnroutePaths(k) \/ UnroutePrefixes(k) PROVE UNCHANGED patterns
  BY <1>7 DEF UnroutePaths, UnroutePrefixes
<1> QED
  BY <1>1, <1>3, <1>4, <1>5, <1>6, <1>7 DEF Next

\* Whatever is subscribed and unsubscribed, only valid patterns are stored,
\* each once, and channel_matches decides on them what the grammar says
\* (subscribers.rs:120-147, channel.rs:95).
THEOREM PatternsSoundAlways == Spec => []PatternsSound
<1>1. Spec => []PatternInv
  BY PatternInit, PatternStep, PTL DEF Spec
<1>2. PatternInv => PatternsSound
  <2> SUFFICES ASSUME PatternInv, NEW s \in Subs, NEW i \in DOMAIN patterns[s]
               PROVE  /\ RefPattern(patterns[s][i])
                      /\ \A c \in Channels : RefChannel(c) =>
                           (channel_matches(c, patterns[s][i]) <=> RefMatches(c, patterns[s][i]))
    BY DEF PatternsSound, PatternInv
  <2>1. PICK p \in Texts : p = patterns[s][i]
    BY LenProperties DEF PatternInv
  <2>2. RefPattern(p)
    BY <2>1 DEF PatternInv, ToSet
  <2>3. \A c \in Channels : RefChannel(c) => (channel_matches(c, p) <=> RefMatches(c, p))
    BY <2>2, ListTypes, ChannelMatchesExact
  <2> QED
    BY <2>1, <2>2, <2>3
<1> QED
  BY <1>1, <1>2, PTL

\* What a batch of events leads to, by the grammar.
DueTo(id, s, events) ==
  {c \in ToSet(events) :
     /\ RefChannel(c)
     /\ RefOwns(extensions[id], c)
     /\ \E i \in DOMAIN patterns[s] : RefMatches(c, patterns[s][i])}

LEMMA PublishExact ==
  ASSUME Inv, PatternInv, NEW id \in DOMAIN extensions, NEW events \in Seq(Texts),
         Publish(id, events), NEW s \in Subs
  PROVE  /\ last'.id = id /\ last'.events = events
         /\ last'.got[s] = Retain(events, DueTo(id, s, events))
<1> DEFINE h == extensions[id]
           sent == {events[i] : i \in DOMAIN events}
           owned == {c \in sent : validate_emitted_channel(c, h.paths, h.channels)}
           kept == Retain(events, owned)
           wanted == {c \in ToSet(kept) : Matches(s, c)}
<1>1. filter_owned_events(h.paths, h.channels, events).events = kept
  BY DEF filter_owned_events
<1>2. last' = [id |-> id, events |-> events, got |-> Pushed(kept)]
  BY <1>1 DEF Publish
<1>3. last'.id = id /\ last'.events = events /\ last'.got = Pushed(kept)
  <2> HIDE DEF kept
  <2> QED
    BY <1>2
<1>4. last'.got[s] = Retain(kept, wanted)
  <2> HIDE DEF kept
  <2> QED
    BY <1>3 DEF Pushed
<1>5. h \in HandleType
  BY DEF Inv, MapInv
<1>6. sent = ToSet(events) /\ \A c \in ToSet(events) : c \in Texts
  BY LenProperties DEF ToSet
<1>7. ToSet(kept) = ToSet(events) \cap owned
  <2> HIDE DEF owned
  <2> QED
    BY RetainFacts
<1>8. Retain(kept, wanted) = Retain(events, owned \cap wanted)
  <2> HIDE DEF owned, wanted
  <2> QED
    BY RetainTwice
<1>9. ASSUME NEW c \in ToSet(events)
      PROVE  c \in owned \cap wanted <=> c \in DueTo(id, s, events)
  <2>1. c \in Texts
    BY <1>6
  <2>2. c \in owned <=> RefChannel(c) /\ RefOwns(h, c)
    <3>1. c \in owned <=> validate_emitted_channel(c, h.paths, h.channels)
      BY <1>6
    <3> QED
      BY <1>5, <2>1, <3>1, EmittedExact
  <2>3. c \in owned => (c \in wanted <=> Matches(s, c))
    <3> HIDE DEF owned, kept
    <3> QED
      BY <1>7
  <2>4. ASSUME RefChannel(c)
        PROVE  Matches(s, c) <=> \E i \in DOMAIN patterns[s] : RefMatches(c, patterns[s][i])
    <3>1. ASSUME NEW i \in DOMAIN patterns[s]
          PROVE  channel_matches(c, patterns[s][i]) <=> RefMatches(c, patterns[s][i])
      <4>1. PICK p \in Texts : p = patterns[s][i]
        BY LenProperties DEF PatternInv
      <4>2. RefPattern(p)
        BY <4>1 DEF PatternInv, ToSet
      <4>3. channel_matches(c, p) <=> RefMatches(c, p)
        BY <2>1, <2>4, <4>2, ChannelMatchesExact
      <4> QED
        BY <4>1, <4>3
    <3> QED
      BY <3>1 DEF Matches
  <2>5. c \in DueTo(id, s, events) <=>
          /\ RefChannel(c) /\ RefOwns(h, c)
          /\ \E i \in DOMAIN patterns[s] : RefMatches(c, patterns[s][i])
    BY DEF DueTo
  <2> HIDE DEF owned, wanted, h
  <2> QED
    BY <2>2, <2>3, <2>4, <2>5
<1>10. Retain(events, owned \cap wanted) = Retain(events, DueTo(id, s, events))
  <2>1. PICK both : both = owned \cap wanted
    OBVIOUS
  <2>2. PICK due : due = DueTo(id, s, events)
    OBVIOUS
  <2>3. \A c \in ToSet(events) : c \in both <=> c \in due
    BY <1>9, <2>1, <2>2
  <2>4. Retain(events, both) = Retain(events, due)
    BY <2>3, RetainSame
  <2> QED
    BY <2>1, <2>2, <2>4
<1> QED
  BY <1>3, <1>4, <1>8, <1>10

\* DeliveredExact: fan-out gives a connection exactly the events of a batch
\* whose sender owns them and which one of its patterns covers, in the batch's
\* order, for any claims, patterns and channels (filter_owned_events, fanout).
THEOREM DeliveredExactAlways == Spec => DeliveredExact
<1> DEFINE Exact == last'.id # "" =>
             \A s \in Subs :
               LET due == {c \in ToSet(last'.events) :
                             /\ RefChannel(c)
                             /\ RefOwns(extensions[last'.id], c)
                             /\ \E i \in DOMAIN patterns[s] : RefMatches(c, patterns[s][i])}
               IN  last'.got[s] = Retain(last'.events, due)
<1>1. Spec => [](Inv /\ PatternInv)
  BY InvAlways, PatternInit, PatternStep, PTL DEF Spec
<1>2. Inv /\ PatternInv /\ [Next]_vars => [Exact]_vars
  <2> SUFFICES ASSUME Inv, PatternInv, Next PROVE Exact
    OBVIOUS
  <2>1. CASE last' = Nothing
    BY <2>1 DEF Nothing
  <2>2. ASSUME NEW id \in DOMAIN extensions, NEW events \in Seq(Texts), Publish(id, events)
        PROVE  Exact
    <3>1. ASSUME NEW s \in Subs
          PROVE  /\ last'.id = id /\ last'.events = events
                 /\ last'.got[s] = Retain(events, DueTo(id, s, events))
      BY <2>2, PublishExact
    <3> QED
      BY <3>1 DEF DueTo
  <2>3. ASSUME NEW id \in Ids, Emit(id) PROVE Exact
    <3>1. PICK c \in Channels : id \in DOMAIN extensions /\ Publish(id, << c >>)
      BY <2>3 DEF Emit
    <3>2. PICK events \in Seq(Texts) : events = << c >>
      <4>1. c \in Texts
        BY ListTypes
      <4>2. << c >> \in Seq(Texts)
        BY <4>1
      <4> QED
        BY <4>2, Zenon
    <3> QED
      BY <2>2, <3>1, <3>2
  <2>4. ASSUME NEW id \in Ids \cap DOMAIN Dispatches, Webhook(id) PROVE Exact
    <3>1. PICK d \in Dispatches[id] :
            /\ id \in DOMAIN extensions
            /\ last' = Nothing \/ Publish(id, HandlerOf(id, d).events)
      BY <2>4 DEF Webhook
    <3>2. PICK events \in Seq(Texts) : events = HandlerOf(id, d).events
      BY ReplyTypes
    <3>3. CASE Publish(id, HandlerOf(id, d).events)
      BY <2>2, <3>1, <3>2, <3>3
    <3> QED
      BY <2>1, <3>1, <3>3
  <2>5. ASSUME NEW id \in Ids, Register(id) \/ StopRemoved(id) \/ Exit(id) PROVE last' = Nothing
    BY <2>5 DEF Register, StopRemoved, Exit
  <2>6. ASSUME NEW s \in Subs, Subscribe(s) \/ Unsubscribe(s) PROVE last' = Nothing
    BY <2>6 DEF Subscribe, Unsubscribe
  <2>7. ASSUME NEW k \in Tasks, UnroutePaths(k) \/ UnroutePrefixes(k) PROVE last' = Nothing
    BY <2>7 DEF UnroutePaths, UnroutePrefixes
  <2> HIDE DEF Exact
  <2> QED
    BY <2>1, <2>3, <2>4, <2>5, <2>6, <2>7 DEF Next
<1>3. DeliveredExact <=> [][Exact]_vars
  BY DEF DeliveredExact
<1> HIDE DEF Exact
<1> QED
  BY <1>1, <1>2, <1>3, PTL DEF Spec

-----------------------------------------------------------------------------
(* What a bundled extension has accepted *)

\* A handle holds the claims the extension sent, and they were validated.
HandleInv ==
  \A id \in DOMAIN extensions :
    /\ extensions[id].paths \in PathLists[id] /\ extensions[id].channels \in ChannelLists[id]
    /\ ToSet(extensions[id].paths) \subseteq PlainTokens
    /\ \A p \in ToSet(extensions[id].channels) : RefChannel(p)

LEMMA HandleStep == HandleInv /\ [Next]_vars => HandleInv'
<1> SUFFICES ASSUME HandleInv, [Next]_vars PROVE HandleInv'
  OBVIOUS
<1>1. CASE UNCHANGED extensions
  BY <1>1 DEF HandleInv
<1>2. ASSUME NEW id, extensions' = [i \in DOMAIN extensions \ {id} |-> extensions[i]]
      PROVE  HandleInv'
  <2>1. /\ DOMAIN extensions' \subseteq DOMAIN extensions
        /\ \A i \in DOMAIN extensions' : extensions'[i] = extensions[i]
    BY <1>2
  <2> QED
    BY <2>1 DEF HandleInv
<1>3. ASSUME NEW id \in Ids, Register(id) PROVE HandleInv'
  <2>1. PICK claims \in PathLists[id], channels \in ChannelLists[id] :
          /\ validate_registration_claims(id, claims, channels, routes, prefixes)
          /\ extensions' = [i \in DOMAIN extensions \cup {id} |->
                              IF i = id THEN [paths |-> claims, channels |-> channels] ELSE extensions[i]]
    BY <1>3 DEF Register
  <2>2. /\ DOMAIN extensions' = DOMAIN extensions \cup {id}
        /\ extensions'[id] = [paths |-> claims, channels |-> channels]
        /\ \A i \in DOMAIN extensions : i # id => extensions'[i] = extensions[i]
    BY <2>1
  <2>3. ToSet(claims) \subseteq PlainTokens
    <3>1. ASSUME NEW i \in DOMAIN claims PROVE claims[i] \in PlainTokens
      BY <2>1 DEF validate_registration_claims, ClaimOk, validate_path_claim
    <3> QED
      BY <3>1 DEF ToSet
  <2>4. ASSUME NEW p \in ToSet(channels) PROVE RefChannel(p)
    <3>1. PICK i \in DOMAIN channels : p = channels[i]
      BY DEF ToSet
    <3>2. validate_channel(p) = "Ok"
      BY <2>1, <3>1 DEF validate_registration_claims, PrefixOk
    <3>3. p \in Texts
      BY <3>1, ListTypes, LenProperties
    <3> QED
      BY <3>2, <3>3, ValidChannelExact
  <2>5. extensions'[id].paths = claims /\ extensions'[id].channels = channels
    BY <2>2
  <2> QED
    BY <2>2, <2>3, <2>4, <2>5 DEF HandleInv
<1>4. ASSUME NEW id \in Ids, StopRemoved(id) \/ Exit(id) \/ Emit(id) \/ Webhook(id) PROVE HandleInv'
  <2>1. \/ UNCHANGED extensions
        \/ extensions' = [i \in DOMAIN extensions \ {id} |-> extensions[i]]
    BY <1>4 DEF StopRemoved, Exit, Emit, Webhook, Forget
  <2> QED
    BY <1>1, <1>2, <2>1
<1>5. ASSUME NEW s \in Subs, Subscribe(s) \/ Unsubscribe(s) PROVE UNCHANGED extensions
  BY <1>5 DEF Subscribe, Unsubscribe
<1>6. CASE UNCHANGED vars
  BY <1>1, <1>6 DEF vars
<1>7. ASSUME NEW k \in Tasks, UnroutePaths(k) \/ UnroutePrefixes(k) PROVE UNCHANGED extensions
  BY <1>7 DEF UnroutePaths, UnroutePrefixes
<1> QED
  BY <1>1, <1>3, <1>4, <1>5, <1>6, <1>7 DEF Next

\* The first token of what a bundled extension sends is a plain claim of its.
LEMMA FirstIsOwned ==
  ASSUME Inv, HandleInv, NEW id \in DOMAIN extensions \cap DOMAIN Dispatches
  PROVE  /\ FirstOf(id) \in PlainTokens
         /\ \/ FirstOf(id) \in ToSet(extensions[id].paths)
            \/ << FirstOf(id) >> \in ToSet(extensions[id].channels)
<1>0. id \in Ids /\ Bundled(id)
  BY DEF Inv, MapInv, TypeOK, Bundled
<1>1. CASE id = "github"
  <2>1. FirstOf(id) = "github"
    BY <1>1 DEF FirstOf
  <2> QED
    BY <1>0, <1>1, <2>1, BundledTypes, Zenon DEF HandleInv
<1>2. CASE id = "teams"
  <2>1. FirstOf(id) = "teams"
    BY <1>2 DEF FirstOf
  <2> QED
    BY <1>0, <1>2, <2>1, BundledTypes, Zenon DEF HandleInv
<1>3. CASE id = "hmac"
  <2>1. FirstOf(id) = HmacPrefix
    BY <1>3 DEF FirstOf
  <2>2. << HmacPrefix >> \in ToSet(extensions[id].channels)
    BY <1>0, <1>3, BundledTypes, Zenon DEF HandleInv
  <2>3. RefChannel(<< HmacPrefix >>)
    BY <2>2 DEF HandleInv
  <2>4. HmacPrefix \in PlainTokens
    BY <2>3 DEF RefChannel
  <2> QED
    BY <2>1, <2>2, <2>4
<1> QED
  BY <1>1, <1>2, <1>3, BundledTypes, Zenon

\* AcceptedIsPublished: of a webhook that a bundled extension has accepted the
\* namespace filter takes nothing, except from a Teams batch with a resource in
\* which three separators stand between two names or that has no name: there it
\* always takes something.  This is so whatever the payload and whatever else is
\* registered (filter_owned_events in channel_claims.rs; derive_channel,
\* github_channel, resource_to_channel).
THEOREM AcceptedIsPublishedAlways == Spec => []AcceptedIsPublished
<1>1. Init => HandleInv
  BY DEF Init, HandleInv
<1>2. Spec => [](Inv /\ HandleInv)
  BY <1>1, InvAlways, HandleStep, PTL DEF Spec
<1>3. Inv /\ HandleInv => AcceptedIsPublished
  <2> SUFFICES ASSUME Inv, HandleInv, NEW id \in DOMAIN extensions \cap DOMAIN Dispatches,
                      NEW d \in Dispatches[id]
               PROVE  filter_owned_events(extensions[id].paths, extensions[id].channels,
                                          HandlerOf(id, d).events).violations = 0
                        <=> HandlerOf(id, d).events = <<>> \/ ~Spoiled(id, d)
    BY DEF AcceptedIsPublished
  <2>1. PICK h \in HandleType : h = extensions[id]
    BY DEF Inv, MapInv
  <2>2. id \in Ids \cap DOMAIN Dispatches
    BY DEF Inv, MapInv, TypeOK
  <2>3. PICK e \in Seq(Texts) :
          /\ e = HandlerOf(id, d).events
          /\ NamesApart(id, d) => \A c \in ToSet(e) : Begins(c, FirstOf(id), PlainTokens)
    BY <2>2, BundledSends DEF Sends
  <2> DEFINE owned == {c \in {e[i] : i \in DOMAIN e} :
                         validate_emitted_channel(c, h.paths, h.channels)}
  <2>4. ToSet(e) = {e[i] : i \in DOMAIN e} /\ \A c \in ToSet(e) : c \in Texts
    BY LenProperties DEF ToSet
  <2>5. ASSUME NamesApart(id, d), NEW c \in ToSet(e) PROVE RefChannel(c) /\ RefOwns(h, c)
    <3>1. /\ FirstOf(id) \in PlainTokens
          /\ FirstOf(id) \in ToSet(h.paths) \/ << FirstOf(id) >> \in ToSet(h.channels)
      BY <2>1, FirstIsOwned
    <3>2. c[1] = FirstOf(id) /\ \A i \in 2..Len(c) : c[i] \in PlainTokens
      BY <2>3, <2>5 DEF Begins
    <3>3. Len(c) \in Nat /\ Len(c) >= 1 /\ DOMAIN c = 1..Len(c)
      <4>1. PICK n \in Nat : n = Len(c) /\ DOMAIN c = 1..n /\ (n = 0 => c = <<>>)
        BY <2>4, LenProperties, EmptySeq DEF Texts
      <4>2. c # <<>>
        BY <2>4 DEF Texts
      <4> QED
        BY <4>1, <4>2
    <3>4. RefChannel(c)
      <4>1. ASSUME NEW i \in DOMAIN c PROVE c[i] \in PlainTokens
        <5>1. i = 1 \/ i \in 2..Len(c)
          BY <3>3
        <5> QED
          BY <3>1, <3>2, <5>1
      <4> QED
        BY <4>1 DEF RefChannel
    <3>5. ASSUME << FirstOf(id) >> \in ToSet(h.channels) PROVE RefOwns(h, c)
      <4>1. PICK f : f = FirstOf(id)
        OBVIOUS
      <4>2. Len(<< f >>) <= Len(c) /\ \A i \in DOMAIN << f >> : << f >>[i] = c[i]
        BY <3>2, <3>3, <4>1
      <4> QED
        BY <3>5, <4>1, <4>2, Zenon DEF RefOwns
    <3>6. ASSUME FirstOf(id) \in ToSet(h.paths) PROVE RefOwns(h, c)
      BY <3>2, <3>6, Zenon DEF RefOwns
    <3> QED
      BY <3>1, <3>4, <3>5, <3>6
  <2>6. ASSUME NamesApart(id, d) PROVE ToSet(e) \subseteq owned
    <3>1. ASSUME NEW c \in ToSet(e) PROVE validate_emitted_channel(c, h.paths, h.channels)
      BY <2>4, <2>5, <2>6, EmittedExact
    <3> QED
      BY <2>4, <3>1
  <2>7. ASSUME NEW c \in ToSet(e), ~RefChannel(c) PROVE c \notin owned
    BY <2>4, <2>7, EmittedExact
  <2>8. filter_owned_events(h.paths, h.channels, e).violations = Len(e) - Len(Retain(e, owned))
    BY DEF filter_owned_events
  <2> HIDE DEF owned
  <2>9. Len(e) \in Nat /\ Len(Retain(e, owned)) \in Nat
    BY RetainFacts, LenProperties
  <2>10. filter_owned_events(h.paths, h.channels, e).violations = 0 <=> Len(Retain(e, owned)) = Len(e)
    BY <2>8, <2>9
  <2>11. ~Spoiled(id, d) => NamesApart(id, d)
    BY DEF Spoiled, NamesApart
  <2>12. ASSUME NamesApart(id, d) PROVE Len(Retain(e, owned)) = Len(e)
    BY <2>6, <2>12, RetainAll
  <2>13. ASSUME e = <<>> PROVE Len(Retain(e, owned)) = Len(e)
    <3>1. ToSet(e) \subseteq owned
      BY <2>13 DEF ToSet
    <3> QED
      BY <3>1, RetainAll
  <2>14. ASSUME Spoiled(id, d), e # <<>> PROVE Len(Retain(e, owned)) # Len(e)
    <3>1. id = "teams"
      BY <2>14, Zenon DEF Spoiled
    <3>2. e = handle_teams_dispatch(d).events
      BY <2>3, <3>1 DEF HandlerOf
    <3>3. d.items \in Seq(Item)
      BY <2>2, <3>1, BundledTypes DEF Bundled
    <3>4. PICK c \in ToSet(e) : ~RefChannel(c)
      BY <2>14, <3>1, <3>2, <3>3, TeamsSpoiled
    <3> QED
      BY <2>7, <3>4, RetainSome
  <2>15. filter_owned_events(h.paths, h.channels, e).violations = 0 <=> e = <<>> \/ ~Spoiled(id, d)
    BY <2>10, <2>11, <2>12, <2>13, <2>14
  <2> QED
    BY <2>1, <2>3, <2>15
<1> QED
  BY <1>2, <1>3, PTL
=============================================================================

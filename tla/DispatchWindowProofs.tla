------------------------- MODULE DispatchWindowProofs -------------------------
(***************************************************************************)
(* Safety of DispatchWindow for every finite set of requests, every set of  *)
(* limits and hang thresholds a reload may switch between, and every        *)
(* capacity of the channel to the writer.                                   *)
(***************************************************************************)
EXTENDS DispatchWindow, FiniteSetTheorems, TLAPS

\* Where a request stands before it counts in in_flight.
Unreserved == {"new", "routed", "held"}

\* A request enters pending at most once, with an unused channel, and the
\* reader's request has left pending for good.
StageInv ==
  /\ NoOrphans
  /\ \A r \in Reqs : pc[r] \in Unreserved \cup {"permit"} => chan[r] = "empty"
  /\ reader # None => /\ reader \notin pending
                      /\ pc[reader] \notin Unreserved \cup {"permit"}
  /\ line # None => pc[line] \notin Unreserved \cup {"permit"}

\* Whoever the drain has seen cannot come back to reserve.
DrainInv ==
  /\ DrainSound
  /\ \A r \in before : pc[r] \notin Unreserved

\* The counter is zero before the first threshold is seen.
HangInv == HangReported /\ (seen = {} => timeouts = 0)

\* The inductive invariant.
Inv == TypeOK /\ StageInv /\ PermitsExact /\ DrainInv /\ HangInv

-----------------------------------------------------------------------------
\* The requests with a permit form a finite set.
LEMMA HoldersFinite ==
  ASSUME TypeOK
  PROVE  IsFiniteSet(Holders) /\ IsFiniteSet(pending) /\ Cardinality(Holders) \in Nat
<1>1. Holders \in SUBSET Reqs /\ pending \in SUBSET Reqs
  BY DEF Holders, TypeOK
<1>2. IsFiniteSet(Holders) /\ IsFiniteSet(pending)
  BY <1>1, FS_Subset, WindowAssumption
<1> QED
  BY <1>2, FS_CardinalityType

\* Taking entries out of pending releases exactly their permits, as long as
\* nobody gains or loses a permit that is not in pending.
LEMMA TakeReleases ==
  ASSUME TypeOK, StageInv, PermitsExact, NEW S \in SUBSET Reqs, Take(S),
         Holders' = pending' \cup {r \in Reqs : Permit(r)}
  PROVE  PermitsExact' /\ in_flight' \in Nat
<1> DEFINE K == pending \cap S
<1>1. IsFiniteSet(Holders) /\ Cardinality(Holders) \in Nat
  BY HoldersFinite
<1>2. Holders' = Holders \ K
  BY DEF Holders, Take, StageInv, NoOrphans, Permit
<1>3. Holders \cap K = K
  BY DEF Holders
<1>4. /\ Cardinality(Holders \ K) = Cardinality(Holders) - Cardinality(Holders \cap K)
      /\ IsFiniteSet(Holders \ K)
  BY <1>1, FS_Difference
<1>5. Cardinality(Holders') = Cardinality(Holders) - Cardinality(K) /\ Cardinality(Holders') \in Nat
  BY <1>2, <1>3, <1>4, FS_CardinalityType
<1>6. IsFiniteSet(K)
  BY <1>1, <1>3, FS_Intersection
<1>7. Cardinality(K) \in Nat
  BY <1>6, FS_CardinalityType
<1>8. in_flight = Cardinality(Holders) /\ in_flight' = Release(in_flight, Cardinality(K))
  BY DEF PermitsExact, Take, InFlightWithout
<1>9. in_flight' = Cardinality(Holders') /\ in_flight' <= in_flight /\ in_flight' \in Nat
  <2> HIDE DEF K
  <2> QED
    BY <1>1, <1>5, <1>7, <1>8 DEF Release
<1>10. in_flight' = 0 \/ \E limits \in Limits : in_flight' <= limits.max_in_flight
  <2>1. CASE in_flight = 0
    BY <2>1, <1>9
  <2>2. CASE \E limits \in Limits : in_flight <= limits.max_in_flight
    <3>1. PICK limits \in Limits : in_flight <= limits.max_in_flight
      BY <2>2
    <3>2. limits.max_in_flight \in Nat /\ in_flight \in Nat
      BY <1>1, <1>8, WindowAssumption
    <3>3. in_flight' <= limits.max_in_flight
      BY <3>1, <3>2, <1>9
    <3> QED
      BY <3>3
  <2> QED
    BY <2>1, <2>2 DEF PermitsExact
<1> QED
  BY <1>9, <1>10 DEF PermitsExact

\* A step that leaves the counter and the set of holders alone keeps the count.
LEMMA SameHolders ==
  ASSUME PermitsExact, in_flight' = in_flight, Holders' = Holders
  PROVE  PermitsExact'
BY DEF PermitsExact

-----------------------------------------------------------------------------
\* The initial states satisfy the invariant.
LEMMA InitInv == Init => Inv
<1> SUFFICES ASSUME Init PROVE Inv
  OBVIOUS
<1>0. TypeOK
  BY DEF Init, TypeOK, PcValues
<1>1. StageInv /\ DrainInv /\ HangInv
  BY DEF Init, StageInv, NoOrphans, DrainInv, DrainSound, HangInv, HangReported
<1>2. Holders = {}
  BY DEF Init, Holders, Permit
<1>3. PermitsExact
  BY <1>2, FS_EmptySet DEF Init, PermitsExact
<1> QED
  BY <1>0, <1>1, <1>3 DEF Inv

\* A step that leaves the hang detection's state alone keeps its invariant.
LEMMA SameHang ==
  ASSUME HangInv, UNCHANGED <<timeouts, seen, kill>>
  PROVE  HangInv'
BY DEF HangInv, HangReported

\* Counting one more timeout keeps the hang detection's invariant: while all
\* thresholds agree, the counter meets the common one before it passes it.
LEMMA CountHang ==
  ASSUME TypeOK, HangInv, NEW r \in Reqs, CountTimeout(r)
  PROVE  HangInv'
<1> DEFINE n == timeouts + 1
<1> DEFINE t == threshold[r]
<1>1. /\ timeouts' = n /\ seen' = seen \cup {t}
      /\ kill' = (kill \/ HangReached(n, t))
  BY DEF CountTimeout
<1>2. timeouts \in Nat /\ t \in Nat /\ n \in Nat /\ n > 0
  BY DEF TypeOK
<1>3. ASSUME NEW u \in seen', seen' = {u}, n >= AtLeastOne(u) PROVE kill'
  <2>1. u = t /\ (seen = {} \/ seen = {t})
    BY <1>1, <1>3
  <2>2. CASE n = AtLeastOne(t)
    BY <2>2, <1>1 DEF HangReached
  <2>3. CASE n # AtLeastOne(t)
    <3>1. timeouts >= AtLeastOne(t) /\ timeouts # 0
      <4> HIDE DEF t
      <4> QED
        BY <2>3, <2>1, <1>2, <1>3 DEF AtLeastOne
    <3>2. seen = {t}
      BY <3>1, <2>1 DEF HangInv
    <3>3. kill
      BY <3>1, <3>2 DEF HangInv, HangReported
    <3> QED
      BY <3>3, <1>1
  <2> QED
    BY <2>2, <2>3
<1>4. seen' # {}
  BY <1>1
<1> QED
  BY <1>1, <1>3, <1>4 DEF HangInv, HangReported

\* A request's own steps, its cancellation and the reader's line.
LEMMA RequestInv ==
  ASSUME Inv, NEW r \in Reqs, Request(r) \/ Cancel(r) \/ ReadLine(r)
  PROVE  Inv'
<1> USE DEF Inv
<1>a. TypeOK' /\ StageInv' /\ DrainInv'
  <2> USE WindowAssumption DEF TypeOK, StageInv, NoOrphans, DrainInv, DrainSound,
      PcValues, Unreserved, Goto, winVars, pipeVars, readVars, hangVars, lifeVars, drainVars, Permit
  <2>1. CASE LookupRoute(r)
    BY <2>1 DEF LookupRoute
  <2>2. CASE LookupHandle(r)
    BY <2>2 DEF LookupHandle
  <2>3. CASE Reserve(r)
    <3>1. PICK limits \in Limits :
            threshold' = [threshold EXCEPT ![r] = limits.hang_kill_threshold]
      BY <2>3 DEF Reserve
    <3>2. threshold' \in [Reqs -> Nat]
      BY <3>1
    <3>3. /\ in_flight' = in_flight + 1 /\ pc[r] = "held"
          /\ pc' = [pc EXCEPT ![r] = "permit"]
          /\ UNCHANGED <<pending, chan, outbox, stdin, line, reader, timeouts, seen, kill,
                         routed, alive, cleanup, drain, before>>
      BY <2>3 DEF Reserve
    <3>4. TypeOK'
      BY <3>2, <3>3
    <3>5. StageInv' /\ DrainInv'
      BY <3>3
    <3> QED
      BY <3>4, <3>5
  <2>4. CASE Busy(r)
    BY <2>4 DEF Busy
  <2>5. CASE Insert(r)
    BY <2>5 DEF Insert
  <2>6. CASE SendOk(r)
    BY <2>6 DEF SendOk
  <2>t. ASSUME Take({r}) PROVE in_flight' \in Nat
    <3> HIDE DEF TypeOK, StageInv
    <3>1. IsFiniteSet(pending \cap {r})
      BY HoldersFinite, FS_Intersection
    <3>2. Cardinality(pending \cap {r}) \in Nat
      BY <3>1, FS_CardinalityType
    <3> QED
      BY <2>t, <3>2 DEF Take, InFlightWithout, Release, TypeOK
  <2>7. CASE SendFail(r)
    BY <2>7, <2>t DEF SendFail, Take
  <2>8. CASE WaitResult(r)
    BY <2>8 DEF WaitResult
  <2>9. CASE WaitDead(r)
    BY <2>9 DEF WaitDead
  <2>10. CASE WaitTimeout(r)
    BY <2>10, <2>t DEF WaitTimeout, Take
  <2>11. CASE CountTimeout(r)
    <3>1. kill' \in BOOLEAN
      BY <2>11 DEF CountTimeout, HangReached
    <3>2. /\ pc' = [pc EXCEPT ![r] = "timeout"] /\ pc[r] = "late"
          /\ timeouts' = timeouts + 1 /\ seen' = seen \cup {threshold[r]}
          /\ UNCHANGED <<in_flight, pending, chan, outbox, stdin, line, reader, threshold,
                         routed, alive, cleanup, drain, before>>
      BY <2>11 DEF CountTimeout
    <3>3. timeouts' \in Nat /\ threshold[r] \in Nat
      BY <3>2
    <3>4. seen' \subseteq Nat
      BY <3>2, <3>3
    <3>5. pc' \in [Reqs -> PcValues]
      BY <3>2
    <3>6. TypeOK'
      BY <3>1, <3>2, <3>3, <3>4, <3>5
    <3>7. StageInv' /\ DrainInv'
      BY <3>2
    <3> QED
      BY <3>6, <3>7
  <2>12. CASE Cancel(r)
    BY <2>12, <2>t DEF Cancel, Awaiting, Take
  <2>13. CASE ReadLine(r)
    BY <2>13 DEF ReadLine
  <2> QED
    BY <2>1, <2>2, <2>3, <2>4, <2>5, <2>6, <2>7, <2>8, <2>9, <2>10, <2>11, <2>12, <2>13
       DEF Request
<1>b. PermitsExact'
  <2>1. CASE Reserve(r)
    <3>0. PICK limits \in Limits :
            in_flight < limits.max_in_flight /\ in_flight' = in_flight + 1
      BY <2>1 DEF Reserve, HasRoom
    <3>1. Holders' = Holders \cup {r} /\ r \notin Holders
      BY <2>1 DEF Reserve, Goto, Holders, Permit, TypeOK, StageInv, NoOrphans
    <3>2. in_flight' = Cardinality(Holders')
      BY <3>0, <3>1, HoldersFinite, FS_AddElement DEF PermitsExact
    <3>3. in_flight' <= limits.max_in_flight
      BY <3>0, WindowAssumption DEF TypeOK
    <3> QED
      BY <3>2, <3>3 DEF PermitsExact
  <2>2. CASE Insert(r)
    <3>1. Holders' = Holders /\ in_flight' = in_flight
      BY <2>2 DEF Insert, Goto, Holders, Permit, TypeOK
    <3> QED
      BY <3>1, SameHolders
  <2>3. CASE LookupRoute(r) \/ LookupHandle(r) \/ Busy(r) \/ SendOk(r)
             \/ WaitResult(r) \/ WaitDead(r) \/ CountTimeout(r) \/ ReadLine(r)
    <3>1. Holders' = Holders /\ in_flight' = in_flight
      BY <2>3 DEF LookupRoute, LookupHandle, Busy, SendOk, WaitResult, WaitDead,
         CountTimeout, ReadLine, Goto, Holders, Permit, TypeOK, winVars
    <3> QED
      BY <3>1, SameHolders
  <2>4. CASE SendFail(r) \/ WaitTimeout(r) \/ Cancel(r)
    <3>1. Take({r}) /\ {r} \in SUBSET Reqs
      BY <2>4 DEF SendFail, WaitTimeout, Cancel
    <3>2. Holders' = pending' \cup {q \in Reqs : Permit(q)}
      BY <2>4 DEF SendFail, WaitTimeout, Cancel, Awaiting, Goto, Holders,
         Permit, TypeOK
    <3> QED
      BY <3>1, <3>2, TakeReleases
  <2> QED
    BY <2>1, <2>2, <2>3, <2>4 DEF Request
<1>c. HangInv'
  <2>1. CASE CountTimeout(r)
    BY <2>1, CountHang
  <2>2. CASE ~CountTimeout(r)
    <3>1. UNCHANGED <<timeouts, seen, kill>>
      BY <2>2 DEF Request, LookupRoute, LookupHandle, Reserve, Busy, Insert, SendOk, SendFail,
         WaitResult, WaitDead, WaitTimeout, Cancel, ReadLine, hangVars
    <3> QED
      BY <3>1, SameHang
  <2> QED
    BY <2>1, <2>2
<1> QED
  BY <1>a, <1>b, <1>c

\* The writer's steps and those of the extension's end of the pipe.
LEMMA PipeInv ==
  ASSUME Inv, WriterWrites \/ WriterFails \/ PipeFills \/ PipeDrains \/ ProcessDies
  PROVE  Inv'
<1>1. /\ UNCHANGED <<winVars, pc, readVars, hangVars, lifeVars, drainVars>>
      /\ outbox' \subseteq outbox
      /\ stdin' \in {"open", "stalled", "closed", "ended"}
  BY DEF WriterWrites, WriterFails, PipeFills, PipeDrains, ProcessDies, Inv, TypeOK
<1>2. Holders' = Holders
  BY <1>1 DEF winVars, Holders, Permit
<1> QED
  BY <1>1, <1>2 DEF winVars, readVars, hangVars, lifeVars, drainVars, Inv, TypeOK, StageInv,
     NoOrphans, PermitsExact, DrainInv, DrainSound, HangInv, HangReported, Permit

\* The reader's steps on a line it has read, the drain and the end of the
\* generation.
LEMMA GenerationInv ==
  ASSUME Inv,
         \/ TakeResult \/ SendResult \/ Unroute \/ DrainReadsPending \/ DrainReadsInFlight
         \/ CleanupRemove \/ CleanupUnroute \/ CleanupClear
  PROVE  Inv'
<1> USE DEF Inv
<1>h. ASSUME in_flight' = in_flight, pending' = pending, pc' = pc
      PROVE  PermitsExact'
  BY <1>h, SameHolders DEF Holders, Permit
<1>i. HangInv'
  <2>1. CASE SendResult
    BY <2>1 DEF SendResult, HangInv, HangReported
  <2>2. CASE ~SendResult
    <3>1. UNCHANGED <<timeouts, seen, kill>>
      BY <2>2 DEF TakeResult, Unroute, DrainReadsPending, DrainReadsInFlight, CleanupRemove,
         CleanupUnroute, CleanupClear, hangVars
    <3> QED
      BY <3>1, SameHang
  <2> QED
    BY <2>1, <2>2
<1> HIDE DEF HangInv
<1> USE DEF TypeOK, StageInv, NoOrphans, DrainInv, DrainSound,
    winVars, pipeVars, readVars, hangVars, lifeVars, drainVars, Permit
<1>0. CASE TakeResult
  <2>1. Take({line}) /\ {line} \in SUBSET Reqs /\ line # None
    BY <1>0 DEF TakeResult
  <2>2. Holders' = pending' \cup {q \in Reqs : Permit(q)}
    BY <1>0 DEF TakeResult, Holders
  <2>3. PermitsExact' /\ in_flight' \in Nat
    <3> HIDE DEF TypeOK, StageInv, Permit
    <3> QED
      BY <2>1, <2>2, TakeReleases
  <2>4. pending' = pending \ {line}
    BY <2>1 DEF Take
  <2>5. /\ reader' = IF line \in pending THEN line ELSE None
        /\ line' = None
        /\ UNCHANGED <<chan, pc, outbox, stdin, threshold, timeouts, seen, kill,
                       routed, alive, cleanup, drain, before>>
    BY <1>0 DEF TakeResult
  <2>6. TypeOK'
    BY <2>3, <2>4, <2>5
  <2>7. StageInv'
    BY <2>1, <2>4, <2>5
  <2>8. DrainInv'
    BY <2>4, <2>5
  <2> QED
    BY <1>i, <2>3, <2>6, <2>7, <2>8
<1>1. CASE SendResult
  BY <1>1, <1>h, <1>i, WindowAssumption DEF SendResult
<1>2. CASE Unroute
  <2>1. TypeOK'
    BY <1>2 DEF Unroute
  <2>2. StageInv' /\ DrainInv'
    BY <1>2 DEF Unroute
  <2>3. PermitsExact'
    BY <1>2, <1>h DEF Unroute
  <2> QED
    BY <1>i, <2>1, <2>2, <2>3
<1>3. CASE DrainReadsPending
  BY <1>3, <1>h, <1>i DEF DrainReadsPending, Holders, Unreserved
<1>4. CASE DrainReadsInFlight
  <2>1. ASSUME NoneInFlight PROVE Holders = {}
    <3> HIDE DEF TypeOK, StageInv
    <3> QED
      BY <2>1, HoldersFinite, FS_EmptySet DEF NoneInFlight, PermitsExact
  <2>2. ASSUME NoneInFlight PROVE \A r \in before : r \notin pending /\ ~Permit(r)
    BY <2>1, <2>2 DEF Holders
  <2> QED
    BY <1>4, <1>h, <1>i, <2>2 DEF DrainReadsInFlight
<1>5. CASE CleanupRemove
  BY <1>5, <1>h, <1>i DEF CleanupRemove
<1>6. CASE CleanupUnroute
  BY <1>6, <1>h, <1>i DEF CleanupUnroute
<1>7. CASE CleanupClear
  <2>1. Take(Reqs) /\ Holders' = pending' \cup {q \in Reqs : Permit(q)} /\ Reqs \in SUBSET Reqs
    BY <1>7 DEF CleanupClear, Holders
  <2>2. PermitsExact' /\ in_flight' \in Nat
    <3> HIDE DEF TypeOK, StageInv, Permit
    <3> QED
      BY <2>1, TakeReleases
  <2>3. pending' = {}
    BY <2>1 DEF Take
  <2> QED
    BY <1>7, <1>i, <2>2, <2>3 DEF CleanupClear, Unreserved
<1> QED
  BY <1>0, <1>1, <1>2, <1>3, <1>4, <1>5, <1>6, <1>7

\* Stuttering keeps the invariant.
LEMMA StutterInv == Inv /\ UNCHANGED vars => Inv'
<1> SUFFICES ASSUME Inv, UNCHANGED vars PROVE Inv'
  OBVIOUS
<1>1. Holders' = Holders
  BY DEF vars, winVars, Holders, Permit
<1> QED
  BY <1>1 DEF vars, winVars, pipeVars, readVars, hangVars, lifeVars, drainVars, Inv, TypeOK,
     StageInv, NoOrphans, PermitsExact, DrainInv, DrainSound, HangInv, HangReported, Permit

-----------------------------------------------------------------------------
\* The invariant holds in every reachable state, for any number of requests,
\* limits, thresholds and channel slots.
THEOREM WindowInvariance == Spec => []Inv
<1>1. Inv /\ [Next]_vars => Inv'
  BY RequestInv, PipeInv, GenerationInv, StutterInv DEF Next
<1> QED
  BY <1>1, InitInv, PTL DEF Spec

\* Type correctness of the window.
THEOREM WindowTypeCorrect == Spec => []TypeOK
BY WindowInvariance, PTL DEF Inv

\* in_flight is the number of permits held, and within a limit that was in force.
THEOREM PermitsExactTheorem == Spec => []PermitsExact
BY WindowInvariance, PTL DEF Inv

\* No entry outlives the request that waits for it.
THEOREM NoOrphansTheorem == Spec => []NoOrphans
<1>1. Inv => NoOrphans
  BY DEF Inv, StageInv
<1> QED
  BY <1>1, WindowInvariance, PTL

\* A drain that reports idle has waited for every dispatch it saw.
THEOREM DrainSoundTheorem == Spec => []DrainSound
<1>1. Inv => DrainSound
  BY DEF Inv, DrainInv
<1> QED
  BY <1>1, WindowInvariance, PTL

\* A hang is never missed while the dispatches that time out cloned the same
\* threshold, whatever other thresholds the reloads before and after bring.
THEOREM HangReportedTheorem == Spec => []HangReported
<1>1. Inv => HangReported
  BY DEF Inv, HangInv
<1> QED
  BY <1>1, WindowInvariance, PTL
=============================================================================

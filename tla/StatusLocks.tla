----------------------------- MODULE StatusLocks -----------------------------
(***************************************************************************)
(* ExtensionLifecycle with the two places that hold one lock while they     *)
(* wait for another: start_extension, which joins the writes of extensions, *)
(* routes and channel_prefixes (daemon.rs:304-308), and status_json, which  *)
(* keeps extensions and failed_extensions read-locked while it waits for    *)
(* routes and channel_prefixes (daemon.rs:630-693; `whdr status` and        *)
(* /metrics).  Every other task holds one lock at a time, for one step.     *)
(***************************************************************************)
EXTENDS ExtensionLifecycle

CONSTANT MaxStatus     \* bound on status requests

ASSUME StatusAssumption == MaxStatus \in Nat

VARIABLES
  join,      \* join[k]: the write locks the joined call of k has so far
  status,    \* the status request: idle, or reading with its two read locks
  asked      \* status requests so far

lockVars == <<join, status, asked>>
allVars == <<vars, lockVars>>

Locks == {"extensions", "routes", "prefixes"}

Readable(l) == \A k \in Callers : l \notin join[k]
Writable(l) == Readable(l) /\ (l = "extensions" => status = "idle")

-----------------------------------------------------------------------------
(* The joined writes *)

\* join! polls its three futures in turn and takes what it can get: a lock
\* that is not to be had does not keep it from taking the next.
Polled(k, l) ==
  CASE l = "extensions" -> TRUE
    [] l = "routes" -> "extensions" \in join[k] \/ ~Writable("extensions")
    [] OTHER -> \A o \in {"extensions", "routes"} : o \in join[k] \/ ~Writable(o)

JoinTake(k) ==
  /\ call[k].at = "insert" /\ main.pc # "off"
  /\ \E l \in Locks \ join[k] :
       Writable(l) /\ Polled(k, l) /\ join' = [join EXCEPT ![k] = @ \cup {l}]
  /\ UNCHANGED <<vars, status, asked>>

\* With all three the claims are tested and inserted; the guards are dropped.
JoinedInsert(k) ==
  /\ join[k] = Locks /\ Insert(k) /\ Running
  /\ join' = [join EXCEPT ![k] = {}]
  /\ UNCHANGED <<status, asked>>

-----------------------------------------------------------------------------
(* status_json *)

StatusBegin ==
  /\ status = "idle" /\ asked < MaxStatus /\ Readable("extensions") /\ main.pc # "off"
  /\ status' = "reading" /\ asked' = asked + 1
  /\ UNCHANGED <<vars, join>>

\* routes.read(), then channel_prefixes.read(), each for the length of a map.
StatusEnd ==
  /\ status = "reading" /\ Readable("routes") /\ Readable("prefixes") /\ main.pc # "off"
  /\ status' = "idle"
  /\ UNCHANGED <<vars, join, asked>>

-----------------------------------------------------------------------------
(* The steps of ExtensionLifecycle, each under the lock it takes *)

FailedWritable == status = "idle"

LockCall(k) ==
  /\ \/ join[k] = {} /\ StartFails(k)
     \/ FailedWritable /\ (ClearMarks(k) \/ ReportOk(k) \/ ReportFailed(k))
  /\ Running /\ UNCHANGED lockVars

CallerNext(k) == JoinTake(k) \/ JoinedInsert(k) \/ LockCall(k)

LockSup(g) ==
  /\ \/ SuperviseExit(g) \/ SuperviseCommand(g) \/ Mark(g) \/ Decide(g) \/ Account(g)
     \/ Writable("extensions") /\ CleanMap(g)
     \/ Writable("routes") /\ CleanRoutes(g)
     \/ Writable("prefixes") /\ CleanPrefixes(g)
     \/ Readable("extensions") /\ Wake(g)
  /\ Running /\ UNCHANGED lockVars

\* Its send of Shutdown (daemon.rs:924) may wait for ever on a full channel.
LockDrain(g) == DrainStop(g) /\ Running /\ UNCHANGED lockVars

LockMain ==
  /\ \/ Readable("extensions") /\ (Scan \/ Missing \/ Start \/ ShutdownSnapshot)
     \/ Writable("routes") /\ StopRoutes
     \/ Writable("prefixes") /\ StopPrefixes
     \/ StopSend \/ StopDone \/ ShutdownSend \/ ShutdownWait
  /\ Running /\ UNCHANGED lockVars

LockEnvironment ==
  /\ \/ \E g \in Gens : ChildExits(g) \/ KillAndRespawn(g)
     \/ Reload \/ Shutdown \/ Tick
  /\ Running /\ UNCHANGED lockVars

LockInit ==
  /\ Init
  /\ join = [k \in Callers |-> {}] /\ status = "idle" /\ asked = 0

LockNext ==
  \/ \E k \in Callers : CallerNext(k)
  \/ \E g \in Gens : LockSup(g) \/ LockDrain(g)
  \/ LockMain \/ LockEnvironment
  \/ StatusBegin \/ StatusEnd
  \/ main.pc = "off" /\ UNCHANGED allVars

\* Every task is polled when the lock it waits for is to be had, every child
\* that must exit does, and every timeout fires.
LockFairness ==
  /\ WF_allVars(LockMain)
  /\ \A k \in Callers : WF_allVars(CallerNext(k))
  /\ \A g \in Gens : WF_allVars(LockSup(g))
  /\ WF_allVars(StatusEnd)

LockSpec == LockInit /\ [][LockNext]_allVars /\ LockFairness

-----------------------------------------------------------------------------
(* Properties *)

\* The two ways these locks can be held against each other for ever: a status
\* request waits for what a joined call has and keeps what it wants, or two
\* joined calls have some of the three locks each.
Wedged ==
  \/ status = "reading" /\ \E k \in Callers : join[k] # {}
  \/ \E k, m \in Callers : k # m /\ join[k] # {} /\ join[m] # {}

Ended(c) == \E g \in Gens : sup[g].cand = c /\ sup[g].pc = "decide" /\ sup[g].respawn
Back(c) == Active(c) \/ ~should_respawn(c)

\* An extension whose process ended comes back, is failed, or is no longer
\* wanted, through reloads, status requests, failed starts and a shutdown; only
\* locks held against each other keep it away.
RecoversUnlessWedged == \A c \in Cands : Ended(c) ~> (Back(c) \/ Wedged)

\* docs/SPEC.md:220, "child exit -> exponential backoff respawn": it comes
\* back, is failed or is no longer wanted, whoever asks for the status.
Recovers == \A c \in Cands : Ended(c) ~> Back(c)
=============================================================================

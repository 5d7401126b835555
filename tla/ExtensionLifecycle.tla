--------------------------- MODULE ExtensionLifecycle ---------------------------
(***************************************************************************)
(* The life of extension processes: start_extensions (at boot and on every  *)
(* reload), start_extension, the supervisor task of each running process,   *)
(* its cleanup, backoff and crashloop accounting, and the shutdown of the   *)
(* server (daemon.rs:187-376, 430-627, 894-1015, 1161-1239;                 *)
(* extension_process.rs; extension_registration.rs).                        *)
(*                                                                         *)
(* The main task (boot, SIGHUP, SIGTERM) runs one call at a time.  It and   *)
(* the supervisors share the tables below, each behind a lock of its own:   *)
(* one step here is what runs under one lock.  unavailable_routes only      *)
(* decides how a request is answered, so an access to it is part of the     *)
(* step before or after it.  A generation (the Uuid of a handle) is a slot, *)
(* free again when its supervisor has returned.                             *)
(***************************************************************************)
EXTENDS ChannelClaims, FiniteSets, SequencesExt

CONSTANTS
  Cands,          \* candidate ids (the suffix of a whdr-ext-* file name)
  RegsOf,         \* RegsOf[c]: registrations c may send, [id, paths, channels]
  Configs,        \* configurations a load may return: [enabled, autostart_all,
                  \* threshold, window], of which threshold is
                  \* limits.crashloop_threshold.max(1) and window is
                  \* limits.crashloop_window_ms in ticks
  Scans,          \* what discover_extensions may find, subsets of Cands
  Gens,           \* generation slots
  Crashing,       \* candidates whose process may exit or hang by itself
  MaxThreshold,   \* the largest threshold of Configs
  Shortest,       \* the shortest and
  Longest,        \* the longest window of Configs
  MaxEvents       \* bound on SIGHUPs and on processes that end by themselves

ASSUME LifecycleAssumption ==
  /\ Gens \subseteq Nat \ {0}
  /\ Scans \subseteq SUBSET Cands
  /\ {MaxThreshold, Shortest, Longest, MaxEvents} \subseteq Nat
  /\ Configs \subseteq [enabled : SUBSET Cands, autostart_all : BOOLEAN,
                         threshold : 1..MaxThreshold, window : Shortest..Longest]

\* A prefix is the sequence of its tokens.
ASSUME RegsAssumption ==
  \A c \in Cands : \A r \in RegsOf[c] :
    \A i \in DOMAIN r.channels : r.channels[i] \in Seq(STRING)

Main == 0
Callers == Gens \cup {Main}

VARIABLES
  config,         \* Inner.config
  extensions,     \* Inner.extensions: id -> generation
  routes,         \* Inner.routes: claim -> id
  prefixes,       \* Inner.channel_prefixes: prefix -> id
  unavailable,    \* keys of Inner.unavailable_routes
  failed,         \* keys of Inner.failed_extensions
  recent,         \* SupervisorState.recent_exits, as ages in ticks
  shutting,       \* Inner.shutting_down
  sup,            \* each generation: its process and its supervisor task
  call,           \* the start_extension call of the main task or a supervisor
  main,           \* the main task
  events,         \* SIGHUPs and processes that ended by themselves, so far
  granted,        \* history: ages of the respawns granted to a candidate
  raced           \* history: candidates a reload met while they were respawning
                  \* or being drained, or that ended before their start was
                  \* reported

tables == <<extensions, routes, prefixes, unavailable, failed>>
vars == <<config, tables, recent, shutting, sup, call, main, events, granted, raced>>

NoName == ""
NoReg == [id |-> NoName, paths |-> <<>>, channels |-> <<>>]
Free == [pc |-> "free", cand |-> NoName, reg |-> NoReg, alive |-> FALSE,
         commands |-> <<>>, respawn |-> FALSE]
NoHandle == [gen |-> Main, cand |-> NoName, reg |-> NoReg]
NoCall == [at |-> "none", cand |-> NoName, gen |-> Main]

\* extension_candidate_is_active
Active(c) == \E id \in DOMAIN extensions : sup[extensions[id]].cand = c

\* should_respawn: not shutting down, not failed, still wanted.
should_respawn(c) ==
  /\ ~shutting
  /\ c \notin failed
  /\ config.autostart_all \/ c \in config.enabled

Without(table, id) == [k \in {x \in DOMAIN table : table[x] # id} |-> table[k]]

\* Mutant: only the first claim is inserted, without the aliases.
GiveFirst(table, keys, id) ==
  [k \in DOMAIN table \cup ToSet(SubSeq(keys, 1, 1)) |-> IF k \in DOMAIN table THEN table[k] ELSE id]

Give(table, keys, id) ==
  [k \in DOMAIN table \cup ToSet(keys) |-> IF k \in ToSet(keys) THEN id ELSE table[k]]

\* A clone of a handle, and the keys its candidate and claims have in
\* unavailable_routes.
HandleOf(g) == [gen |-> g, cand |-> sup[g].cand, reg |-> sup[g].reg]
Handles == {HandleOf(extensions[id]) : id \in DOMAIN extensions}
KeysOf(handle) == {handle.cand} \cup ToSet(handle.reg.paths)

\* What an ingest request for a first path segment is answered.
Answer(key) ==
  IF key \in DOMAIN routes
    THEN IF routes[key] \in DOMAIN extensions THEN "dispatched" ELSE "503"
    ELSE IF key \in config.enabled \cup unavailable \cup failed THEN "503" ELSE "404"

Init ==
  /\ config \in Configs
  /\ extensions = <<>> /\ routes = <<>> /\ prefixes = <<>>
  /\ unavailable = {} /\ failed = {}
  /\ recent = [c \in Cands |-> <<>>]
  /\ shutting = FALSE
  /\ sup = [g \in Gens |-> Free]
  /\ call = [k \in Callers |-> NoCall]
  /\ main = [pc |-> "scan", desired |-> {}, todo |-> {}, current |-> NoHandle]
  /\ events = 0
  /\ granted = [c \in Cands |-> <<>>]
  /\ raced = {}

-----------------------------------------------------------------------------
(* start_extension(c), called by k: the process is spawned and answers with  *)
(* its registration, the claims are inserted under the three locks, then the *)
(* failure and the unavailable keys are cleared one lock after the other and *)
(* the supervisor task starts.  The caller records the outcome.              *)

\* A slot main has a clone of is not free for another generation.
Held == {main.current.gen}
          \cup IF main.pc \in {"stop", "stop_prefixes", "stop_send"}
                 THEN {h.gen : h \in main.todo} ELSE {}

BeginCall(k, c) ==
  LET free == {g \in Gens : sup[g].pc = "free" /\ g \notin Held}
      n == CHOOSE g \in free : \A o \in free : g <= o
  IN
    /\ free # {}
    /\ sup' = [g \in Gens |->
                 CASE g = n -> [Free EXCEPT !.pc = "starting", !.cand = c, !.alive = TRUE]
                   [] g = k -> [sup[g] EXCEPT !.pc = "respawning"]
                   [] OTHER -> sup[g]]
    /\ call' = [call EXCEPT ![k] = [at |-> "insert", cand |-> c, gen |-> n]]

\* spawn, no registration in register_ms, a wrong first line: the child is
\* killed.
StartFails(k) ==
  /\ call[k].at = "insert"
  /\ sup' = [sup EXCEPT ![call[k].gen] = Free]
  /\ call' = [call EXCEPT ![k].at = "fail"]
  /\ UNCHANGED <<config, tables, recent, shutting, main, events, granted>>

\* Mutant: the newcomer is not compared with what is running.
CollidesNever(c, reg) == FALSE

\* The two tests on the map, and the claims.
Collides(c, reg) ==
  \/ reg.id \in DOMAIN extensions
  \/ Active(c)
  \/ ~validate_registration_claims(reg.id, reg.paths, reg.channels, routes, prefixes)

Insert(k) ==
  /\ call[k].at = "insert"
  /\ \E reg \in RegsOf[call[k].cand] :
     LET g == call[k].gen
     IN /\ IF Collides(call[k].cand, reg)
             THEN /\ sup' = [sup EXCEPT ![g] = Free]
                  /\ call' = [call EXCEPT ![k].at = "fail"]
                  /\ UNCHANGED tables
             ELSE /\ extensions' = [id \in DOMAIN extensions \cup {reg.id} |->
                                      IF id = reg.id THEN g ELSE extensions[id]]
                  /\ routes' = Give(routes, reg.paths, reg.id)
                  /\ prefixes' = Give(prefixes, reg.channels, reg.id)
                  /\ sup' = [sup EXCEPT ![g].reg = reg]
                  /\ call' = [call EXCEPT ![k].at = "clear"]
                  /\ UNCHANGED <<unavailable, failed>>
        /\ UNCHANGED <<config, recent, shutting, main, events, granted>>

\* The start is over for the new generation: its supervisor task runs, and
\* the marks of an earlier failure are gone.
ClearMarks(k) ==
  LET g == call[k].gen
  IN  /\ call[k].at = "clear"
      /\ failed' = failed \ {call[k].cand, sup[g].reg.id}
      /\ unavailable' = unavailable \ KeysOf(sup[g])
      /\ sup' = [sup EXCEPT ![g].pc = "watch"]
      /\ call' = [call EXCEPT ![k].at = "ok"]
      /\ UNCHANGED <<config, extensions, routes, prefixes, recent, shutting, main, events, granted>>

\* The supervisor task that called returns with its last report.
Returned(k) == IF k \in Gens THEN [sup EXCEPT ![k] = Free] ELSE sup

ReportOk(k) ==
  /\ call[k].at = "ok"
  /\ failed' = failed \ {call[k].cand}
  /\ call' = [call EXCEPT ![k] = NoCall]
  /\ sup' = Returned(k)
  /\ UNCHANGED <<config, extensions, routes, prefixes, unavailable, recent, shutting,
                 main, events, granted>>

\* Mutant: the failure is not recorded.
ReportFailedSilent(k) ==
  /\ call[k].at = "fail"
  /\ unavailable' = unavailable \cup {call[k].cand}
  /\ call' = [call EXCEPT ![k] = NoCall]
  /\ sup' = Returned(k)
  /\ UNCHANGED <<config, extensions, routes, prefixes, failed, recent, shutting, main, events, granted>>

ReportFailed(k) ==
  /\ call[k].at = "fail"
  /\ failed' = failed \cup {call[k].cand}
  /\ unavailable' = unavailable \cup {call[k].cand}
  /\ call' = [call EXCEPT ![k] = NoCall]
  /\ sup' = Returned(k)
  /\ UNCHANGED <<config, extensions, routes, prefixes, recent, shutting, main, events, granted>>

CallStep(k) ==
  \/ StartFails(k) \/ Insert(k) \/ ClearMarks(k) \/ ReportOk(k) \/ ReportFailed(k)

-----------------------------------------------------------------------------
(* The environment of a running process *)

\* The process exits by itself; an exit before the supervisor runs is noticed
\* when it does.
ChildExits(g) ==
  /\ sup[g].pc = "watch" /\ sup[g].alive /\ sup[g].cand \in Crashing
  /\ events < MaxEvents /\ events' = events + 1
  /\ sup' = [sup EXCEPT ![g].alive = FALSE]
  /\ UNCHANGED <<config, tables, recent, shutting, call, main, granted>>

\* Too many protocol errors or consecutive dispatch timeouts.  A supervisor
\* takes one command, so a second KillAndRespawn behind the first is not sent
\* here.
KillAndRespawn(g) ==
  /\ sup[g].pc = "watch" /\ sup[g].cand \in Crashing
  /\ ~Contains(sup[g].commands, "kill")
  /\ sup' = [sup EXCEPT ![g].commands = Append(@, "kill")]
  /\ events < MaxEvents /\ events' = events + 1
  /\ UNCHANGED <<config, tables, recent, shutting, call, main, granted>>

\* The loop on front(): ages that left the window are popped, oldest first.
PopOld(ages, window) ==
  LET stops == {i \in 1..(Len(ages) + 1) : i > Len(ages) \/ ages[i] <= window}
  IN  SubSeq(ages, Min(stops), Len(ages))

\* Time, as far as any crashloop window tells it apart.
Older(ages) == [i \in DOMAIN ages |-> IF ages[i] > Longest THEN ages[i] ELSE ages[i] + 1]

Tick ==
  /\ \E c \in Cands : recent[c] # Older(recent[c])
  /\ recent' = [c \in Cands |-> Older(recent[c])]
  /\ granted' = [c \in Cands |-> PopOld(Older(granted[c]), Shortest)]
  /\ UNCHANGED <<config, tables, shutting, sup, call, main, events>>

-----------------------------------------------------------------------------
(* supervise_extension: the select takes the exit or one command. *)

SuperviseExit(g) ==
  /\ sup[g].pc = "watch" /\ ~sup[g].alive
  /\ sup' = [sup EXCEPT ![g].pc = "remove", ![g].respawn = TRUE]
  /\ UNCHANGED <<config, tables, recent, shutting, call, main, events, granted>>

SuperviseCommand(g) ==
  /\ sup[g].pc = "watch" /\ sup[g].commands # <<>>
  /\ LET command == Head(sup[g].commands)
     IN  sup' = [sup EXCEPT ![g].pc = IF command = "kill" THEN "remove" ELSE "drain",
                            ![g].respawn = (command = "kill"),
                            ![g].alive = @ /\ command # "kill"]
  /\ UNCHANGED <<config, tables, recent, shutting, call, main, events, granted>>

\* The drain ends or times out, Shutdown is sent, and the child exits, on
\* SIGTERM or SIGKILL at the latest (module DispatchWindow has the drain).
DrainStop(g) ==
  /\ sup[g].pc = "drain"
  /\ sup' = [sup EXCEPT ![g].pc = "remove", ![g].alive = FALSE]
  /\ UNCHANGED <<config, tables, recent, shutting, call, main, events, granted>>

\* cleanup_extension_generation: the map, if the generation is still its own,
\* then routes, prefixes and unavailable keys, by id.
CleanMap(g) ==
  LET id == sup[g].reg.id
      own == id \in DOMAIN extensions /\ extensions[id] = g
  IN  /\ sup[g].pc = "remove"
      /\ extensions' = [i \in {i \in DOMAIN extensions : ~(own /\ i = id)} |-> extensions[i]]
      /\ sup' = [sup EXCEPT ![g] = IF own THEN [@ EXCEPT !.pc = "routes"] ELSE Free]
      /\ UNCHANGED <<config, routes, prefixes, unavailable, failed, recent, shutting, call,
                     main, events, granted>>

CleanRoutes(g) ==
  /\ sup[g].pc = "routes"
  /\ routes' = Without(routes, sup[g].reg.id)
  /\ sup' = [sup EXCEPT ![g].pc = "prefixes"]
  /\ UNCHANGED <<config, extensions, prefixes, unavailable, failed, recent, shutting, call,
                 main, events, granted>>

\* Mutant: the prefixes stay.
CleanPrefixesSkipped(g) ==
  /\ sup[g].pc = "prefixes"
  /\ sup' = [sup EXCEPT ![g].pc = "mark"]
  /\ UNCHANGED <<config, tables, recent, shutting, call, main, events, granted>>

CleanPrefixes(g) ==
  /\ sup[g].pc = "prefixes"
  /\ prefixes' = Without(prefixes, sup[g].reg.id)
  /\ sup' = [sup EXCEPT ![g].pc = "mark"]
  /\ UNCHANGED <<config, extensions, routes, unavailable, failed, recent, shutting, call,
                 main, events, granted>>

\* Mutant: only the candidate's own key is marked.
MarkedKeysOwn(g) == {sup[g].cand}

\* The keys a crashed generation leaves answered 503.
MarkedKeys(g) == KeysOf(sup[g])

Mark(g) ==
  /\ sup[g].pc = "mark"
  /\ unavailable' = IF sup[g].respawn THEN unavailable \cup MarkedKeys(g)
                                      ELSE unavailable \ KeysOf(sup[g])
  /\ sup' = [sup EXCEPT ![g].pc = "decide"]
  /\ UNCHANGED <<config, extensions, routes, prefixes, failed, recent, shutting, call,
                 main, events, granted>>

\* done is sent, or dropped with the receiver when the task returns.
Decide(g) ==
  /\ sup[g].pc = "decide"
  /\ sup' = [sup EXCEPT ![g] = IF sup[g].respawn /\ should_respawn(sup[g].cand)
                                 THEN [@ EXCEPT !.pc = "account"]
                                 ELSE Free]
  /\ UNCHANGED <<config, tables, recent, shutting, call, main, events, granted>>

\* Mutant: the exits in the window are forgotten when a respawn is granted.
ExitsReset(ages) == IF Len(ages) + 1 < config.threshold THEN <<>> ELSE << 0 >>

\* next_respawn_delay: pop what left the window of the configuration in force,
\* push this exit.
Exits(ages) == Append(PopOld(ages, config.window), 0)

Account(g) ==
  LET c == sup[g].cand
      exits == Exits(recent[c])
      crashloop == Len(exits) >= config.threshold
  IN  /\ sup[g].pc = "account"
      /\ recent' = [recent EXCEPT ![c] = exits]
      /\ granted' = [granted EXCEPT ![c] = IF crashloop THEN @ ELSE Append(@, 0)]
      /\ sup' = [sup EXCEPT ![g].pc = IF crashloop THEN "crashloop" ELSE "delay"]
      /\ call' = [call EXCEPT ![g] = IF crashloop THEN [NoCall EXCEPT !.at = "fail", !.cand = c]
                                                  ELSE NoCall]
      /\ UNCHANGED <<config, tables, shutting, main, events>>

\* Mutant: the second test has lost its negation.
RespawnWantedIfActive(c) == should_respawn(c) /\ Active(c)

\* After the delay both tests are made again.
RespawnWanted(c) == should_respawn(c) /\ ~Active(c)

Wake(g) ==
  /\ sup[g].pc = "delay"
  /\ IF RespawnWanted(sup[g].cand)
       THEN BeginCall(g, sup[g].cand)
       ELSE sup' = [sup EXCEPT ![g] = Free] /\ UNCHANGED call
  /\ UNCHANGED <<config, tables, recent, shutting, main, events, granted>>

SupStep(g) ==
  \/ SuperviseExit(g) \/ SuperviseCommand(g) \/ DrainStop(g)
  \/ CleanMap(g) \/ CleanRoutes(g) \/ CleanPrefixes(g) \/ Mark(g)
  \/ Decide(g) \/ Account(g) \/ Wake(g)

-----------------------------------------------------------------------------
(* The main task: run_with_signals, reload_from_path, start_extensions. *)

\* A load that fails leaves everything as it was and is no step.
Reload ==
  /\ main.pc = "idle" /\ events < MaxEvents
  /\ \E new \in Configs : config' = new
  /\ events' = events + 1
  /\ main' = [main EXCEPT !.pc = "scan"]
  /\ UNCHANGED <<tables, recent, shutting, sup, call, granted>>

Desired(found) == IF config.autostart_all THEN found ELSE config.enabled \cap found

\* discover_extensions, and the snapshot stop_removed_extensions walks.
Scan ==
  \E found \in Scans :
    /\ main.pc = "scan"
    /\ main' = [main EXCEPT !.pc = "stop", !.desired = Desired(found),
                            !.todo = {h \in Handles : h.cand \notin Desired(found)}]
    /\ UNCHANGED <<config, tables, recent, shutting, sup, call, events, granted>>

\* One removed handle after another: unroute_extension, a lock at a time, and
\* then the command.  The handle is a clone: what is unrouted and told to stop
\* is the generation of the snapshot.
StopRoutes ==
  /\ main.pc = "stop"
  /\ \E h \in main.todo :
       /\ main' = [main EXCEPT !.pc = "stop_prefixes", !.current = h, !.todo = @ \ {h}]
       /\ routes' = Without(routes, h.reg.id)
  /\ UNCHANGED <<config, extensions, prefixes, unavailable, failed, recent, shutting, sup, call,
                 events, granted>>

StopPrefixes ==
  /\ main.pc = "stop_prefixes"
  /\ prefixes' = Without(prefixes, main.current.reg.id)
  /\ main' = [main EXCEPT !.pc = "stop_send"]
  /\ UNCHANGED <<config, extensions, routes, unavailable, failed, recent, shutting, sup, call,
                 events, granted>>

\* A supervisor that has left its select never reads the command.
Told(g, command) ==
  IF sup[g].pc \in {"starting", "watch"}
    THEN [sup EXCEPT ![g].commands = Append(@, command)] ELSE sup

StopSend ==
  /\ main.pc = "stop_send"
  /\ unavailable' = unavailable \ KeysOf(main.current)
  /\ sup' = Told(main.current.gen, "drain")
  /\ main' = [main EXCEPT !.pc = "stop", !.current = NoHandle]
  /\ UNCHANGED <<config, extensions, routes, prefixes, failed, recent, shutting, call,
                 events, granted>>

StopDone ==
  /\ main.pc = "stop" /\ main.todo = {}
  /\ main' = [main EXCEPT !.pc = "missing", !.todo = config.enabled]
  /\ UNCHANGED <<config, tables, recent, shutting, sup, call, events, granted>>

\* An enabled extension that is neither running nor found is reported failed.
Missing ==
  /\ main.pc = "missing" /\ call[Main].at = "none"
  /\ IF main.todo = {}
       THEN main' = [main EXCEPT !.pc = "start", !.todo = main.desired] /\ UNCHANGED call
       ELSE \E c \in main.todo :
              /\ main' = [main EXCEPT !.todo = @ \ {c}]
              /\ call' = IF Active(c) \/ c \in main.desired THEN call
                         ELSE [call EXCEPT ![Main] = [NoCall EXCEPT !.at = "fail", !.cand = c]]
  /\ UNCHANGED <<config, tables, recent, shutting, sup, events, granted>>

Start ==
  /\ main.pc = "start" /\ call[Main].at = "none"
  /\ IF main.todo = {}
       THEN main' = [main EXCEPT !.pc = "idle"] /\ UNCHANGED <<sup, call>>
       ELSE \E c \in main.todo :
              /\ main' = [main EXCEPT !.todo = @ \ {c}]
              /\ IF Active(c) THEN UNCHANGED <<sup, call>> ELSE BeginCall(Main, c)
  /\ UNCHANGED <<config, tables, recent, shutting, events, granted>>

-----------------------------------------------------------------------------
(* shutdown_state and send_shutdown_to_extensions *)

Shutdown ==
  /\ main.pc = "idle"
  /\ shutting' = TRUE
  /\ main' = [main EXCEPT !.pc = "shutdown"]
  /\ UNCHANGED <<config, tables, recent, sup, call, events, granted>>

ShutdownSnapshot ==
  /\ main.pc = "shutdown"
  /\ main' = [main EXCEPT !.pc = "shutdown_send", !.todo = Handles]
  /\ UNCHANGED <<config, tables, recent, shutting, sup, call, events, granted>>

ShutdownSend ==
  /\ main.pc = "shutdown_send"
  /\ IF main.todo = {}
       THEN main' = [main EXCEPT !.pc = "shutdown_wait"] /\ UNCHANGED sup
       ELSE \E h \in main.todo :
              /\ main' = [main EXCEPT !.todo = @ \ {h}]
              /\ sup' = Told(h.gen, "stop")
  /\ UNCHANGED <<config, tables, recent, shutting, call, events, granted>>

\* Each wait ends when done arrives, when its sender is dropped, or after
\* drain_ms + 2 * term_grace_ms + 100 ms, whatever the supervisor has done.
ShutdownWait ==
  /\ main.pc = "shutdown_wait"
  /\ main' = [main EXCEPT !.pc = "off"]
  /\ UNCHANGED <<config, tables, recent, shutting, sup, call, events, granted>>

MainStep ==
  \/ Scan \/ StopRoutes \/ StopPrefixes \/ StopSend \/ StopDone
  \/ Missing \/ Start
  \/ ShutdownSnapshot \/ ShutdownSend \/ ShutdownWait

-----------------------------------------------------------------------------
Reloading == main.pc \notin {"idle", "shutdown", "shutdown_send", "shutdown_wait", "off"}

\* The candidates whose supervisor is between the end of a process and its
\* respawn, or still draining a process that is wanted again.
Between(c) ==
  \E g \in Gens :
    /\ sup[g].cand = c
    /\ sup[g].pc \notin {"free", "starting"}
    /\ sup[g].pc = "watch" => Contains(sup[g].commands, "drain")
    /\ sup[g].respawn \/ c \in main.desired

\* The process ended before the call that started it had reported: the
\* report removes the failure its end may have left.
Overtaken(c) ==
  \E k \in Callers : /\ call[k].at = "ok" /\ call[k].cand = c
                     /\ sup[call[k].gen].pc # "watch"

\* What a step adds to raced, and that no step follows the server's exit.
Running ==
  /\ main.pc # "off"
  /\ raced' = raced \cup {c \in Cands : (Reloading /\ Between(c))' \/ Overtaken(c)'}

CallNext(k) == CallStep(k) /\ Running
SupNext(g) == SupStep(g) /\ Running
MainNext == MainStep /\ Running

Next ==
  \/ \E k \in Callers : CallNext(k)
  \/ \E g \in Gens : SupNext(g) \/ ((ChildExits(g) \/ KillAndRespawn(g)) /\ Running)
  \/ MainNext
  \/ (Reload \/ Shutdown \/ Tick) /\ Running
  \/ main.pc = "off" /\ UNCHANGED vars

Spec == Init /\ [][Next]_vars

-----------------------------------------------------------------------------
(* Properties *)

TypeOK ==
  /\ config \in Configs
  /\ \A id \in DOMAIN extensions : sup[extensions[id]].reg.id = id
  /\ failed \subseteq Cands
  /\ \A g \in Gens : sup[g].alive => sup[g].pc \in {"starting", "watch", "drain"}
  /\ \A k \in Callers : call[k].at # "none" => call[k].cand \in Cands

Registered(g) == sup[g].reg # NoReg

\* A candidate never has two registered processes alive, however a reload's
\* start, a respawn and the end of the process before it interleave: the
\* collision test of start_extension and the wait for the child before its
\* generation leaves the map.
SingleProcess ==
  \A c \in Cands :
    Cardinality({g \in Gens : sup[g].cand = c /\ sup[g].alive /\ Registered(g)}) <= 1

\* A route or prefix is owned by an extension in the map, or by a generation
\* whose cleanup is about to remove it: no claim outlives its owner and blocks
\* its respawn with a collision.  (And the state is well typed.)
ClaimsFollowTheMap ==
  LET Cleaning(id, pcs) == \E g \in Gens : sup[g].pc \in pcs /\ sup[g].reg.id = id
  IN  /\ TypeOK
      /\ \A k \in DOMAIN routes :
           routes[k] \in DOMAIN extensions \/ Cleaning(routes[k], {"routes"})
      /\ \A k \in DOMAIN prefixes :
           prefixes[k] \in DOMAIN extensions \/ Cleaning(prefixes[k], {"routes", "prefixes"})

\* A supervised process nobody has told to stop holds all its claims: the
\* cleanup of an earlier generation and the unroute of a reload remove by id,
\* and take the claims of the new generation only when a reload met the
\* candidate between the two.
RoutedWhileReady ==
  \A g \in Gens :
    (/\ sup[g].pc = "watch"
     /\ ~Contains(sup[g].commands, "drain")
     /\ main.current.gen # g
     /\ sup[g].cand \notin raced)
      => /\ \A k \in ToSet(sup[g].reg.paths) :
              k \in DOMAIN routes /\ routes[k] = sup[g].reg.id
         /\ \A k \in ToSet(sup[g].reg.channels) :
              k \in DOMAIN prefixes /\ prefixes[k] = sup[g].reg.id

\* Nothing is in progress: no call, no cleanup, no command, no reload.
Settled ==
  /\ main.pc = "idle"
  /\ \A k \in Callers : call[k].at = "none"
  /\ \A g \in Gens : sup[g].pc = "free"
                       \/ (sup[g].pc = "watch" /\ sup[g].alive /\ sup[g].commands = <<>>)

\* The lifecycle diagram: once nothing is in progress, an extension that the
\* last scan found and wanted is Ready or Failed, and not both.  It holds for
\* every candidate that no reload has met between the end of a process and its
\* respawn, or while it was still being drained, and whose starts were reported
\* before the process they started ended; and nothing the configuration does
\* not want is left running (a respawn does not ask whether the last scan found
\* the binary).
StatusTrue ==
  Settled => \A c \in Cands \ raced :
                /\ c \in main.desired => Active(c) # (c \in failed)
                /\ Active(c) => c \in config.enabled \/ config.autostart_all

\* Requests for any claim of an extension in backoff are told to retry (503),
\* aliases included, never that there is no such route (404).
BackoffAnswers503 ==
  \A g \in Gens :
    (sup[g].pc = "delay" /\ sup[g].cand \notin raced)
      => \A k \in KeysOf(sup[g]) : Answer(k) # "404"

\* However reloads move the threshold and the window and exits expire, no
\* candidate is granted more respawns than the largest threshold within the
\* shortest window: a lowered threshold finds the exits that came before it.
\* (Whether the exit that reaches the threshold is granted one too is where
\* daemon.rs:602 and docs/SPEC.md:221 differ; either reading satisfies this.)
RespawnRate == \A c \in Cands : Len(granted[c]) <= MaxThreshold
=============================================================================

------------------------ MODULE ExtensionLifecycleProofs ------------------------
(***************************************************************************)
(* Safety of ExtensionLifecycle for any candidates, registrations,          *)
(* configurations and scans, any number of generation slots, and crashloop  *)
(* thresholds and windows that reloads change; and of StatusLocks, every    *)
(* behaviour of which is one of ExtensionLifecycle.                         *)
(***************************************************************************)
EXTENDS StatusLocks, FiniteSetTheorems, WellFoundedInduction, TLAPS

SupPcs == {"free", "starting", "watch", "drain", "remove", "routes", "prefixes", "mark",
           "decide", "account", "crashloop", "delay", "respawning"}
MainPcs == {"idle", "scan", "stop", "stop_prefixes", "stop_send", "missing", "start",
            "shutdown", "shutdown_send", "shutdown_wait", "off"}
ShutPcs == {"shutdown", "shutdown_send", "shutdown_wait", "off"}
Commands == {"kill", "drain", "stop"}
Names == Cands \cup {NoName}
Regs == {NoReg} \cup UNION {RegsOf[c] : c \in Cands}

SupType == [pc : SupPcs, cand : Names, reg : Regs, alive : BOOLEAN,
            commands : Seq(Commands), respawn : BOOLEAN]
CallType == [at : {"none", "insert", "clear", "ok", "fail"}, cand : Names, gen : Callers]
HandleType == [gen : Callers, cand : Names, reg : Regs]
MainType == [pc : MainPcs, desired : SUBSET Cands, todo : SUBSET (Cands \cup HandleType),
             current : HandleType]

StateType ==
  /\ config \in Configs
  /\ failed \subseteq Cands
  /\ shutting \in BOOLEAN
  /\ sup \in [Gens -> SupType]
  /\ call \in [Callers -> CallType]
  /\ main \in MainType

\* The slot a call is filling belongs to it alone, and a supervisor that calls
\* has left its select for good.
Filling(k) == call[k].at \in {"insert", "clear"}
CallInv ==
  \A k \in Callers :
    /\ call[k].at # "none" =>
         call[k].cand \in Cands /\ (k \in Gens => sup[k].pc \in {"respawning", "crashloop"})
    /\ Filling(k) =>
         /\ call[k].gen \in Gens
         /\ sup[call[k].gen].pc = "starting"
         /\ sup[call[k].gen].cand = call[k].cand
         /\ \A j \in Callers : Filling(j) /\ call[j].gen = call[k].gen => j = k
    /\ call[k].at = "insert" => \A id \in DOMAIN extensions : extensions[id] # call[k].gen

\* A generation in the map is there under the id it registered, and no
\* candidate is there twice.
MapInv ==
  /\ \A id \in DOMAIN extensions :
       /\ extensions[id] \in Gens
       /\ sup[extensions[id]].reg.id = id
       /\ sup[extensions[id]].pc \in {"starting", "watch", "drain", "remove"}
  /\ \A i, j \in DOMAIN extensions :
       sup[extensions[i]].cand = sup[extensions[j]].cand => i = j

\* A process that runs and has registered is in the map.
AliveInv ==
  \A g \in Gens :
    /\ sup[g].pc # "free" => sup[g].cand \in Cands
    /\ sup[g].alive => sup[g].pc \in {"starting", "watch", "drain"}
    /\ sup[g].alive /\ Registered(g) =>
         sup[g].reg.id \in DOMAIN extensions /\ extensions[sup[g].reg.id] = g

Cleaned(id, pcs) == \E g \in Gens : sup[g].pc \in pcs /\ sup[g].reg.id = id
ClaimInv ==
  /\ \A k \in DOMAIN routes :
       routes[k] \in DOMAIN extensions \/ Cleaned(routes[k], {"routes"})
  /\ \A k \in DOMAIN prefixes :
       prefixes[k] \in DOMAIN extensions \/ Cleaned(prefixes[k], {"routes", "prefixes"})

\* What the main task walks: clones of handles while it stops them, candidates
\* while it starts them.
MainInv ==
  /\ main.pc \in {"missing", "start"} => main.todo \subseteq Cands
  /\ main.pc \in {"stop", "stop_prefixes", "stop_send"} => main.todo \subseteq HandleType
  /\ main.pc = "shutdown_send" => \A h \in main.todo : h \in HandleType /\ h.gen \in Gens
  /\ shutting <=> main.pc \in ShutPcs

\* Ages, oldest first.
Ages(a) ==
  /\ a \in Seq(Nat)
  /\ \A i, j \in 1..Len(a) : i <= j => a[j] <= a[i]

\* The respawns granted in the window are matched by exits at least as recent:
\* the i-th last exit is no older than the i-th last grant.
Rated(r, g) ==
  /\ Ages(r) /\ Ages(g)
  /\ \A i \in 1..Len(g) : g[i] <= Shortest
  /\ Len(g) <= Len(r)
  /\ \A i \in 1..Len(g) : r[Len(r) - Len(g) + i] <= g[i]
  /\ Len(g) <= MaxThreshold

RateInv ==
  /\ DOMAIN recent = Cands /\ DOMAIN granted = Cands
  /\ \A c \in Cands : Rated(recent[c], granted[c])

Inv == StateType /\ CallInv /\ MapInv /\ AliveInv /\ ClaimInv /\ MainInv /\ RateInv

Core == CallInv /\ MapInv /\ AliveInv /\ ClaimInv

-----------------------------------------------------------------------------
(* Values *)

\* The blank values have their types, and the main task is no generation.
LEMMA BlankTypes ==
  /\ Free \in SupType /\ NoCall \in CallType /\ NoHandle \in HandleType
  /\ Main \notin Gens /\ Gens \subseteq Callers /\ Main \in Callers
<1>1. NoReg \in Regs /\ NoName \in Names /\ << >> \in Seq(Commands)
  BY DEF Regs, Names
<1>2. Main \notin Gens /\ Gens \subseteq Callers /\ Main \in Callers
  BY LifecycleAssumption DEF Main, Callers
<1>3. Free \in SupType
  BY <1>1 DEF Free, SupType, SupPcs
<1>4. NoCall \in CallType /\ NoHandle \in HandleType
  BY <1>1, <1>2 DEF NoCall, CallType, NoHandle, HandleType
<1> QED
  BY <1>2, <1>3, <1>4

\* The blank values, read field by field.
LEMMA BlankFields ==
  /\ Free.pc = "free" /\ ~Free.alive /\ Free.reg = NoReg
  /\ NoCall.at = "none" /\ NoCall.gen = Main
BY DEF Free, NoCall

\* The fields of a generation, of a call, and of the main task.
LEMMA Fields ==
  ASSUME StateType
  PROVE  /\ \A g \in Gens : /\ sup[g] \in SupType /\ sup[g].pc \in SupPcs
                            /\ sup[g].cand \in Names /\ sup[g].reg \in Regs
                            /\ sup[g].commands \in Seq(Commands)
         /\ \A k \in Callers : /\ call[k] \in CallType /\ call[k].cand \in Names
                               /\ call[k].gen \in Callers
         /\ main.desired \subseteq Cands /\ main.todo \subseteq Cands \cup HandleType
         /\ main.current \in HandleType
<1>1. \A g \in Gens : /\ sup[g] \in SupType /\ sup[g].pc \in SupPcs
                      /\ sup[g].cand \in Names /\ sup[g].reg \in Regs
                      /\ sup[g].commands \in Seq(Commands)
  BY DEF StateType, SupType
<1>2. \A k \in Callers : /\ call[k] \in CallType /\ call[k].cand \in Names
                         /\ call[k].gen \in Callers
  BY DEF StateType, CallType
<1>3. /\ main.desired \subseteq Cands /\ main.todo \subseteq Cands \cup HandleType
      /\ main.current \in HandleType
  BY DEF StateType, MainType
<1> QED
  BY <1>1, <1>2, <1>3

-----------------------------------------------------------------------------
(* What the invariant's core depends on, for the steps that change little *)

\* A supervisor moves on: its candidate, its registration and the tables stay.
LEMMA MoveCore ==
  ASSUME StateType, Core, NEW g \in Gens,
         \A h \in Gens : sup'[h].cand = sup[h].cand /\ sup'[h].reg = sup[h].reg,
         \A h \in Gens : sup'[h].alive => sup[h].alive,
         \A h \in Gens \ {g} : sup'[h].pc = sup[h].pc,
         sup[g].pc # "free",
         sup[g].pc \in {"starting", "routes", "prefixes", "respawning", "crashloop"} =>
           sup'[g].pc = sup[g].pc,
         sup[g].pc \in {"watch", "drain", "remove"} => sup'[g].pc \in {"watch", "drain", "remove"},
         sup'[g].alive => sup'[g].pc \in {"starting", "watch", "drain"},
         call' = call, extensions' = extensions, routes' = routes, prefixes' = prefixes
  PROVE  Core'
<1> USE DEF Core
<1>1. CallInv'
  BY BlankTypes DEF CallInv, Filling
<1>2. MapInv'
  BY DEF MapInv
<1>3. AliveInv'
  BY DEF AliveInv, Registered
<1>4. ClaimInv'
  BY DEF ClaimInv, Cleaned
<1> QED
  BY <1>1, <1>2, <1>3, <1>4

\* A slot becomes free: it is not in the map, its cleanup is over and nobody
\* is filling it.
LEMMA FreeCore ==
  ASSUME StateType, Core, NEW g \in Gens,
         \A h \in Gens \ {g} : sup'[h] = sup[h],
         sup'[g] = Free,
         extensions' = extensions, routes' = routes, prefixes' = prefixes,
         sup[g].pc \notin {"routes", "prefixes"},
         \A id \in DOMAIN extensions : extensions[id] # g,
         \A j \in Callers : call'[j].at # "none" =>
           call[j].at # "none" /\ call'[j].cand = call[j].cand /\ j # g,
         \A j \in Callers : call'[j].at \in {"insert", "clear"} =>
           call'[j] = call[j] /\ call[j].gen # g
  PROVE  Core'
<1> USE BlankTypes, BlankFields DEF Core
<1>1. CallInv'
  BY DEF CallInv, Filling
<1>2. MapInv'
  BY DEF MapInv
<1>3. AliveInv'
  BY DEF AliveInv, Registered
<1>4. ClaimInv'
  BY DEF ClaimInv, Cleaned
<1> QED
  BY <1>1, <1>2, <1>3, <1>4

\* Claims are removed, or commands sent.
LEMMA ShrinkCore ==
  ASSUME StateType, Core, call' = call, extensions' = extensions,
         \A h \in Gens : /\ sup'[h].pc = sup[h].pc /\ sup'[h].cand = sup[h].cand
                         /\ sup'[h].reg = sup[h].reg /\ sup'[h].alive = sup[h].alive,
         \A k \in DOMAIN routes' : k \in DOMAIN routes /\ routes'[k] = routes[k],
         \A k \in DOMAIN prefixes' : k \in DOMAIN prefixes /\ prefixes'[k] = prefixes[k]
  PROVE  Core'
<1> USE DEF Core
<1>1. CallInv'
  BY DEF CallInv, Filling
<1>2. MapInv'
  BY DEF MapInv
<1>3. AliveInv'
  BY DEF AliveInv, Registered
<1>4. ClaimInv'
  BY DEF ClaimInv, Cleaned
<1> QED
  BY <1>1, <1>2, <1>3, <1>4

\* The main task does not move.
LEMMA MainKeeps ==
  ASSUME MainInv, main' = main, shutting' = shutting
  PROVE  MainInv'
BY DEF MainInv, ShutPcs

-----------------------------------------------------------------------------
(* The start of a process *)

\* A non-empty set of naturals has a least member.
LEMMA LeastNat ==
  ASSUME NEW S, S \subseteq Nat, S # {}
  PROVE  \E i \in S : \A j \in S : i <= j
<1>1. PICK i \in S : \A j \in S : ~(<<j, i>> \in OpToRel(<, Nat))
  BY WFMin, NatLessThanWellFounded
<1>2. ASSUME NEW j \in S PROVE i <= j
  <2>1. i \in Nat /\ j \in Nat
    OBVIOUS
  <2>2. j < i => <<j, i>> \in {ss \in Nat \X Nat : ss[1] < ss[2]}
    BY <2>1
  <2> QED
    BY <1>1, <2>1, <2>2 DEF OpToRel
<1> QED
  BY <1>1, <1>2

\* The slot a call takes is a free one, and the only thing that changes is
\* that slot, and the caller's own if the caller is a supervisor.
LEMMA BeginFacts ==
  ASSUME StateType, NEW k \in Callers, NEW c \in Cands, BeginCall(k, c),
         k \in Gens => sup[k].pc # "free"
  PROVE  \E n \in Gens :
           /\ n # k /\ sup[n].pc = "free" /\ n \notin Held
           /\ sup'[n] = [Free EXCEPT !.pc = "starting", !.cand = c, !.alive = TRUE]
           /\ k \in Gens => sup'[k] = [sup[k] EXCEPT !.pc = "respawning"]
           /\ \A h \in Gens \ {n, k} : sup'[h] = sup[h]
           /\ call' = [call EXCEPT ![k] = [at |-> "insert", cand |-> c, gen |-> n]]
           /\ sup' \in [Gens -> SupType]
<1> DEFINE free == {g \in Gens : sup[g].pc = "free" /\ g \notin Held}
           n == CHOOSE g \in free : \A o \in free : g <= o
           new == [Free EXCEPT !.pc = "starting", !.cand = c, !.alive = TRUE]
<1>1. /\ free # {}
      /\ sup' = [g \in Gens |-> CASE g = n -> new
                                  [] g = k -> [sup[g] EXCEPT !.pc = "respawning"]
                                  [] OTHER -> sup[g]]
      /\ call' = [call EXCEPT ![k] = [at |-> "insert", cand |-> c, gen |-> n]]
  BY DEF BeginCall
<1>2. n \in free
  <2>1. free \subseteq Nat
    BY LifecycleAssumption
  <2> HIDE DEF free
  <2> QED
    BY <1>1, <2>1, LeastNat
<1>3. n \in Gens /\ sup[n].pc = "free" /\ n # k /\ n \notin Held
  BY <1>2
<1>4. new \in SupType
  BY BlankTypes DEF SupType, SupPcs, Names
<1>5. \A g \in Gens : [sup[g] EXCEPT !.pc = "respawning"] \in SupType
  BY Fields DEF SupType, SupPcs
<1> HIDE DEF n, new, free
<1>6. sup'[n] = new
  BY <1>1, <1>3
<1>7. k \in Gens => sup'[k] = [sup[k] EXCEPT !.pc = "respawning"]
  BY <1>1, <1>3
<1>8. \A h \in Gens \ {n, k} : sup'[h] = sup[h]
  BY <1>1, <1>3
<1>9. sup' \in [Gens -> SupType]
  BY <1>1, <1>4, <1>5, Fields
<1> QED
  BY <1>1, <1>3, <1>6, <1>7, <1>8, <1>9 DEF new

\* start_extension is called: the core holds, and the state is well typed.
LEMMA BeginCore ==
  ASSUME StateType, Core, NEW k \in Callers, NEW c \in Cands, BeginCall(k, c),
         call[k].at = "none", k \in Gens => sup[k].pc = "delay",
         extensions' = extensions, routes' = routes, prefixes' = prefixes
  PROVE  Core' /\ sup' \in [Gens -> SupType] /\ call' \in [Callers -> CallType]
<1>1. PICK n \in Gens :
           /\ n # k /\ sup[n].pc = "free" /\ n \notin Held
           /\ sup'[n] = [Free EXCEPT !.pc = "starting", !.cand = c, !.alive = TRUE]
           /\ k \in Gens => sup'[k] = [sup[k] EXCEPT !.pc = "respawning"]
           /\ \A h \in Gens \ {n, k} : sup'[h] = sup[h]
           /\ call' = [call EXCEPT ![k] = [at |-> "insert", cand |-> c, gen |-> n]]
           /\ sup' \in [Gens -> SupType]
  BY BeginFacts
<1>2. call' \in [Callers -> CallType]
  BY <1>1, BlankTypes DEF StateType, CallType, Names
<1>3. sup'[n].pc = "starting" /\ sup'[n].cand = c /\ sup'[n].reg = NoReg
  BY <1>1 DEF Free
<1>4. k \in Gens => /\ sup'[k].pc = "respawning" /\ sup'[k].cand = sup[k].cand
                    /\ sup'[k].reg = sup[k].reg /\ (sup'[k].alive => sup[k].alive)
  BY <1>1, Fields DEF SupType
<1>5. /\ call'[k].at = "insert" /\ call'[k].cand = c /\ call'[k].gen = n
      /\ \A j \in Callers \ {k} : call'[j] = call[j]
  BY <1>1 DEF StateType
<1> USE DEF Core
<1>6. CallInv'
  <2>1. \A j \in Callers \ {k} : Filling(j) => call[j].gen \in Gens \ {n, k}
    BY <1>1 DEF CallInv
  <2>2. ASSUME NEW j \in Callers \ {k}
        PROVE  /\ call'[j].at # "none" => call'[j].cand \in Cands
                    /\ (j \in Gens => sup'[j].pc \in {"respawning", "crashloop"})
               /\ Filling(j)' =>
                    /\ call'[j].gen \in Gens
                    /\ sup'[call'[j].gen].pc = "starting"
                    /\ sup'[call'[j].gen].cand = call'[j].cand
               /\ call'[j].at = "insert" => \A id \in DOMAIN extensions : extensions[id] # call'[j].gen
    <3>1. call'[j] = call[j]
      BY <1>5
    <3>2. Filling(j)' => Filling(j)
      BY <3>1 DEF Filling
    <3>3. j \in Gens /\ call[j].at # "none" => j # n
      BY <1>1 DEF CallInv
    <3> QED
      BY <1>1, <2>1, <3>1, <3>2, <3>3 DEF CallInv
  <2>3. \A id \in DOMAIN extensions : extensions[id] # n
    BY <1>1 DEF MapInv
  <2>4. \A i, j \in Callers : Filling(i)' /\ Filling(j)' /\ call'[i].gen = call'[j].gen => i = j
    BY <1>5, <2>1 DEF CallInv, Filling
  <2>5. /\ call'[k].at # "none" => call'[k].cand \in Cands
                    /\ (k \in Gens => sup'[k].pc \in {"respawning", "crashloop"})
        /\ Filling(k)' => /\ call'[k].gen \in Gens
                    /\ sup'[call'[k].gen].pc = "starting"
                    /\ sup'[call'[k].gen].cand = call'[k].cand
        /\ call'[k].at = "insert" => \A id \in DOMAIN extensions : extensions[id] # call'[k].gen
    BY <1>3, <1>4, <1>5, <2>3
  <2> QED
    BY <2>2, <2>4, <2>5 DEF CallInv
<1>7. MapInv'
  <2>1. \A id \in DOMAIN extensions : extensions[id] \in Gens \ {n, k}
    BY <1>1 DEF MapInv
  <2> QED
    BY <1>1, <2>1 DEF MapInv
<1>8. AliveInv'
  <2>1. \A h \in Gens \ {n, k} :
          /\ sup'[h].pc # "free" => sup'[h].cand \in Cands
          /\ sup'[h].alive => sup'[h].pc \in {"starting", "watch", "drain"}
          /\ sup'[h].alive /\ Registered(h)' =>
               sup'[h].reg.id \in DOMAIN extensions' /\ extensions'[sup'[h].reg.id] = h
    BY <1>1 DEF AliveInv, Registered
  <2>2. k \in Gens => ~sup'[k].alive /\ sup'[k].cand \in Cands
    BY <1>4 DEF AliveInv
  <2>3. ~Registered(n)'
    BY <1>3 DEF Registered
  <2> QED
    BY <1>3, <2>1, <2>2, <2>3 DEF AliveInv
<1>9. ClaimInv'
  <2>1. \A id : /\ Cleaned(id, {"routes"}) => Cleaned(id, {"routes"})'
                /\ Cleaned(id, {"routes", "prefixes"}) => Cleaned(id, {"routes", "prefixes"})'
    BY <1>1 DEF Cleaned
  <2> QED
    BY <2>1 DEF ClaimInv
<1> QED
  BY <1>1, <1>2, <1>6, <1>7, <1>8, <1>9

-----------------------------------------------------------------------------
(* The steps of a call *)

\* What a start that fails, by itself or by a collision, leaves behind.
LEMMA StartFailsCore ==
  ASSUME StateType, Core, NEW k \in Callers, call[k].at = "insert",
         sup' = [sup EXCEPT ![call[k].gen] = Free],
         call' = [call EXCEPT ![k].at = "fail"],
         extensions' = extensions, routes' = routes, prefixes' = prefixes
  PROVE  /\ Core' /\ sup' \in [Gens -> SupType] /\ call' \in [Callers -> CallType]
         /\ \A h \in Gens : sup'[h].alive => sup[h].alive
<1> DEFINE g == call[k].gen
<1>1. g \in Gens /\ sup[g].pc = "starting" /\ \A id \in DOMAIN extensions : extensions[id] # g
  BY DEF Core, CallInv, Filling
<1>2. g # k
  BY <1>1 DEF Core, CallInv
<1>3. /\ call'[k].at = "fail" /\ call'[k].cand = call[k].cand
      /\ \A j \in Callers \ {k} : call'[j] = call[j]
  BY DEF StateType, CallType
<1>4. \A j \in Callers \ {k} : call[j].at \in {"insert", "clear"} => call[j].gen # g
  BY DEF Core, CallInv, Filling
<1>5. \A j \in Callers : call[j].at # "none" => j # g
  BY <1>1 DEF Core, CallInv
<1>6. call' \in [Callers -> CallType]
  BY DEF StateType, CallType
<1>7. sup' \in [Gens -> SupType] /\ sup'[g] = Free /\ \A h \in Gens \ {g} : sup'[h] = sup[h]
  BY <1>1, BlankTypes DEF StateType
<1>8. \A h \in Gens : sup'[h].alive => sup[h].alive
  BY <1>7, BlankFields
<1> HIDE DEF g
<1>9. \A j \in Callers : call'[j].at # "none" =>
           call[j].at # "none" /\ call'[j].cand = call[j].cand /\ j # g
  BY <1>3, <1>5
<1>10. \A j \in Callers : call'[j].at \in {"insert", "clear"} =>
           call'[j] = call[j] /\ call[j].gen # g
  BY <1>3, <1>4
<1>11. Core'
  BY <1>1, <1>7, <1>9, <1>10, FreeCore
<1> QED
  BY <1>6, <1>7, <1>8, <1>11

\* A registration that meets no collision enters the map with its claims.
LEMMA InsertCore ==
  ASSUME StateType, Core, NEW k \in Callers, call[k].at = "insert",
         NEW reg \in RegsOf[call[k].cand], ~Collides(call[k].cand, reg),
         extensions' = [id \in DOMAIN extensions \cup {reg.id} |->
                          IF id = reg.id THEN call[k].gen ELSE extensions[id]],
         routes' = Give(routes, reg.paths, reg.id),
         prefixes' = Give(prefixes, reg.channels, reg.id),
         sup' = [sup EXCEPT ![call[k].gen].reg = reg],
         call' = [call EXCEPT ![k].at = "clear"]
  PROVE  /\ Core' /\ sup' \in [Gens -> SupType] /\ call' \in [Callers -> CallType]
         /\ \A h \in Gens : sup'[h].alive => sup[h].alive
<1> DEFINE g == call[k].gen
<1>1. /\ g \in Gens /\ sup[g].pc = "starting" /\ sup[g].cand = call[k].cand
      /\ call[k].cand \in Cands
      /\ \A id \in DOMAIN extensions : extensions[id] # g
  BY DEF Core, CallInv, Filling
<1>2. reg.id \notin DOMAIN extensions /\ ~Active(call[k].cand)
  BY DEF Collides
<1>3. \A j \in Callers \ {k} : call[j].at \in {"insert", "clear"} => call[j].gen # g
  BY DEF Core, CallInv, Filling
<1>4. call' \in [Callers -> CallType] /\ call'[k].at = "clear"
      /\ call'[k].cand = call[k].cand /\ call'[k].gen = g
      /\ \A j \in Callers \ {k} : call'[j] = call[j]
  BY DEF StateType, CallType
<1>5. reg \in Regs
  BY <1>1 DEF Regs
<1>6. /\ sup'[g].pc = sup[g].pc /\ sup'[g].cand = sup[g].cand /\ sup'[g].reg = reg
      /\ sup'[g].alive = sup[g].alive
      /\ \A h \in Gens \ {g} : sup'[h] = sup[h]
      /\ sup' \in [Gens -> SupType]
  <2>1. sup[g] \in SupType
    BY <1>1, Fields
  <2>2. [sup[g] EXCEPT !.reg = reg] \in SupType
    BY <1>5, <2>1 DEF SupType
  <2>3. sup'[g] = [sup[g] EXCEPT !.reg = reg] /\ \A h \in Gens \ {g} : sup'[h] = sup[h]
    BY <1>1 DEF StateType
  <2>4. sup' \in [Gens -> SupType]
    <3>1. sup' = [sup EXCEPT ![g] = [sup[g] EXCEPT !.reg = reg]] /\ sup \in [Gens -> SupType]
      BY <1>1 DEF StateType
    <3> QED
      BY <2>2, <3>1
  <2> QED
    BY <2>1, <2>3, <2>4 DEF SupType
<1>7. /\ DOMAIN extensions' = DOMAIN extensions \cup {reg.id}
      /\ extensions'[reg.id] = g
      /\ \A id \in DOMAIN extensions : extensions'[id] = extensions[id]
  BY <1>2
<1>8. /\ \A x \in DOMAIN routes' : routes'[x] = reg.id \/ (x \in DOMAIN routes /\ routes'[x] = routes[x])
      /\ \A x \in DOMAIN prefixes' : prefixes'[x] = reg.id
                                       \/ (x \in DOMAIN prefixes /\ prefixes'[x] = prefixes[x])
  BY DEF Give
<1> HIDE DEF g
<1> USE DEF Core
<1>9. CallInv'
  <2>1. \A j \in Callers : Filling(j)' => Filling(j) /\ call'[j].gen = call[j].gen
                             /\ call'[j].cand = call[j].cand
    BY <1>4 DEF Filling, g
  <2>2. \A j \in Callers : call'[j].at # "none" => call[j].at # "none" /\ call'[j].cand = call[j].cand
    BY <1>4
  <2>3. \A h \in Gens : sup'[h].pc = sup[h].pc /\ sup'[h].cand = sup[h].cand
    BY <1>6
  <2>4. \A j \in Callers : call'[j].at = "insert" =>
           j # k /\ call[j].at = "insert" /\ call'[j].gen = call[j].gen /\ call[j].gen # g
    BY <1>3, <1>4
  <2>5. \A j \in Callers : call'[j].at = "insert" => \A id \in DOMAIN extensions' : extensions'[id] # call'[j].gen
    BY <1>7, <2>4 DEF CallInv
  <2>6. \A j \in Callers : call'[j].at # "none" =>
         call'[j].cand \in Cands /\ (j \in Gens => sup'[j].pc \in {"respawning", "crashloop"})
    BY <2>2, <2>3 DEF CallInv
  <2>7. \A j \in Callers : Filling(j)' =>
         /\ call'[j].gen \in Gens
         /\ sup'[call'[j].gen].pc = "starting"
         /\ sup'[call'[j].gen].cand = call'[j].cand
    BY <2>1, <2>3 DEF CallInv
  <2>8. \A i, j \in Callers : Filling(i)' /\ Filling(j)' /\ call'[i].gen = call'[j].gen => i = j
    BY <2>1 DEF CallInv
  <2>9. ASSUME NEW j \in Callers
        PROVE  /\ call'[j].at # "none" =>
                    call'[j].cand \in Cands /\ (j \in Gens => sup'[j].pc \in {"respawning", "crashloop"})
               /\ Filling(j)' =>
                    /\ call'[j].gen \in Gens
                    /\ sup'[call'[j].gen].pc = "starting"
                    /\ sup'[call'[j].gen].cand = call'[j].cand
                    /\ \A i \in Callers : Filling(i)' /\ call'[i].gen = call'[j].gen => i = j
               /\ call'[j].at = "insert" => \A id \in DOMAIN extensions' : extensions'[id] # call'[j].gen
    BY <2>5, <2>6, <2>7, <2>8, Zenon
  <2> QED
    BY <2>9, Zenon DEF CallInv
<1>10. MapInv'
  <2>1. \A id \in DOMAIN extensions : /\ extensions[id] \in Gens \ {g}
                                      /\ sup'[extensions[id]] = sup[extensions[id]]
                                      /\ sup[extensions[id]].cand # sup[g].cand
    BY <1>1, <1>2, <1>6 DEF MapInv, Active
  <2>2. \A id \in DOMAIN extensions' :
       /\ extensions'[id] \in Gens
       /\ sup'[extensions'[id]].reg.id = id
       /\ sup'[extensions'[id]].pc \in {"starting", "watch", "drain", "remove"}
    BY <1>1, <1>6, <1>7, <2>1 DEF MapInv
  <2>3. \A i, j \in DOMAIN extensions' :
       sup'[extensions'[i]].cand = sup'[extensions'[j]].cand => i = j
    BY <1>6, <1>7, <2>1 DEF MapInv
  <2> QED
    BY <2>2, <2>3 DEF MapInv
<1>11. AliveInv'
  <2>1. ASSUME NEW h \in Gens \ {g}
        PROVE /\ sup'[h].pc # "free" => sup'[h].cand \in Cands
              /\ sup'[h].alive => sup'[h].pc \in {"starting", "watch", "drain"}
              /\ sup'[h].alive /\ Registered(h)' =>
                   sup'[h].reg.id \in DOMAIN extensions' /\ extensions'[sup'[h].reg.id] = h
    <3>1. sup'[h] = sup[h]
      BY <1>6
    <3>2. sup[h].reg.id \in DOMAIN extensions /\ extensions[sup[h].reg.id] = h =>
            sup[h].reg.id \in DOMAIN extensions' /\ extensions'[sup[h].reg.id] = h
      BY <1>7
    <3> QED
      BY <3>1, <3>2 DEF AliveInv, Registered
  <2>2. /\ sup'[g].pc = "starting" /\ sup'[g].cand \in Cands
        /\ sup'[g].reg.id \in DOMAIN extensions' /\ extensions'[sup'[g].reg.id] = g
    BY <1>1, <1>6, <1>7
  <2>3. ASSUME NEW h \in Gens
        PROVE /\ sup'[h].pc # "free" => sup'[h].cand \in Cands
              /\ sup'[h].alive => sup'[h].pc \in {"starting", "watch", "drain"}
              /\ sup'[h].alive /\ Registered(h)' =>
                   sup'[h].reg.id \in DOMAIN extensions' /\ extensions'[sup'[h].reg.id] = h
    <3>1. CASE h = g
      BY <2>2, <3>1
    <3>2. CASE h # g
      BY <2>1, <3>2
    <3> QED
      BY <3>1, <3>2
  <2> QED
    BY <2>3, Zenon DEF AliveInv
<1>12. ClaimInv'
  <2>1. \A id : /\ Cleaned(id, {"routes"}) => Cleaned(id, {"routes"})'
                /\ Cleaned(id, {"routes", "prefixes"}) => Cleaned(id, {"routes", "prefixes"})'
    BY <1>1, <1>6 DEF Cleaned
  <2> QED
    BY <1>7, <1>8, <2>1 DEF ClaimInv
<1>13. \A h \in Gens : sup'[h].alive => sup[h].alive
  BY <1>6
<1> QED
  BY <1>4, <1>6, <1>9, <1>10, <1>11, <1>12, <1>13

\* The new generation's supervisor starts to watch.
LEMMA ClearCore ==
  ASSUME StateType, Core, NEW k \in Callers, call[k].at = "clear",
         sup' = [sup EXCEPT ![call[k].gen].pc = "watch"],
         call' = [call EXCEPT ![k].at = "ok"],
         extensions' = extensions, routes' = routes, prefixes' = prefixes
  PROVE  /\ Core' /\ sup' \in [Gens -> SupType] /\ call' \in [Callers -> CallType]
         /\ \A h \in Gens : sup'[h].alive => sup[h].alive
<1> DEFINE g == call[k].gen
<1>1. g \in Gens /\ sup[g].pc = "starting"
  BY DEF Core, CallInv, Filling
<1>2. \A j \in Callers \ {k} : call[j].at \in {"insert", "clear"} => call[j].gen # g
  BY DEF Core, CallInv, Filling
<1>3. /\ call' \in [Callers -> CallType] /\ call'[k].at = "ok" /\ call'[k].cand = call[k].cand
      /\ \A j \in Callers \ {k} : call'[j] = call[j]
  BY DEF StateType, CallType
<1>4. /\ sup'[g].pc = "watch" /\ sup'[g].cand = sup[g].cand /\ sup'[g].reg = sup[g].reg
      /\ sup'[g].alive = sup[g].alive
      /\ \A h \in Gens \ {g} : sup'[h] = sup[h]
      /\ sup' \in [Gens -> SupType]
  <2>1. sup[g] \in SupType
    BY <1>1, Fields
  <2>2. [sup[g] EXCEPT !.pc = "watch"] \in SupType
    BY <2>1 DEF SupType, SupPcs
  <2>3. sup' = [sup EXCEPT ![g] = [sup[g] EXCEPT !.pc = "watch"]] /\ sup \in [Gens -> SupType]
    BY <1>1 DEF StateType
  <2> QED
    BY <1>1, <2>1, <2>2, <2>3 DEF SupType
<1> HIDE DEF g
<1> USE DEF Core
<1>5. CallInv'
  <2>1. \A j \in Callers : Filling(j)' => Filling(j) /\ call'[j] = call[j] /\ call[j].gen # g
    BY <1>2, <1>3 DEF Filling
  <2>2. \A j \in Callers : call'[j].at # "none" => call[j].at # "none" /\ call'[j].cand = call[j].cand
    BY <1>3
  <2>3. \A j \in Callers : call'[j].at # "none" =>
         call'[j].cand \in Cands /\ (j \in Gens => sup'[j].pc \in {"respawning", "crashloop"})
    BY <1>1, <1>4, <2>2 DEF CallInv
  <2>4. \A j \in Callers : Filling(j)' =>
         /\ call'[j].gen \in Gens
         /\ sup'[call'[j].gen].pc = "starting"
         /\ sup'[call'[j].gen].cand = call'[j].cand
    <3> SUFFICES ASSUME NEW j \in Callers, Filling(j)'
                 PROVE  /\ call[j].gen \in Gens
                        /\ sup'[call[j].gen].pc = "starting"
                        /\ sup'[call[j].gen].cand = call[j].cand
      BY <2>1
    <3>1. Filling(j) /\ call[j].gen # g
      BY <2>1
    <3>2. call[j].gen \in Gens /\ sup[call[j].gen].pc = "starting" /\ sup[call[j].gen].cand = call[j].cand
      BY <3>1 DEF CallInv
    <3>3. sup'[call[j].gen] = sup[call[j].gen]
      BY <1>4, <3>1, <3>2
    <3> QED
      BY <3>2, <3>3
  <2>5. \A i, j \in Callers : Filling(i)' /\ Filling(j)' /\ call'[i].gen = call'[j].gen => i = j
    BY <2>1 DEF CallInv
  <2>6. \A j \in Callers : call'[j].at = "insert" => \A id \in DOMAIN extensions' : extensions'[id] # call'[j].gen
    BY <1>3 DEF CallInv
  <2> QED
    BY <2>3, <2>4, <2>5, <2>6 DEF CallInv
<1>6. MapInv'
  BY <1>4 DEF MapInv
<1>7. AliveInv'
  BY <1>1, <1>4 DEF AliveInv, Registered
<1>8. ClaimInv'
  BY <1>1, <1>4 DEF ClaimInv, Cleaned
<1>9. \A h \in Gens : sup'[h].alive => sup[h].alive
  BY <1>4
<1> QED
  BY <1>3, <1>4, <1>5, <1>6, <1>7, <1>8, <1>9

\* The caller records the outcome; a supervisor returns.
LEMMA ReportCore ==
  ASSUME StateType, Core, NEW k \in Callers, call[k].at \in {"ok", "fail"},
         sup' = Returned(k), call' = [call EXCEPT ![k] = NoCall],
         extensions' = extensions, routes' = routes, prefixes' = prefixes
  PROVE  /\ Core' /\ sup' \in [Gens -> SupType] /\ call' \in [Callers -> CallType]
         /\ \A h \in Gens : sup'[h].alive => sup[h].alive
<1>1. /\ call' \in [Callers -> CallType] /\ call'[k].at = "none"
      /\ \A j \in Callers \ {k} : call'[j] = call[j]
  BY BlankTypes, BlankFields DEF StateType
<1>2. CASE k \in Gens
  <2>1. sup[k].pc \in {"respawning", "crashloop"}
    BY <1>2 DEF Core, CallInv
  <2>2. sup' \in [Gens -> SupType] /\ sup'[k] = Free /\ \A h \in Gens \ {k} : sup'[h] = sup[h]
    BY <1>2, BlankTypes DEF Returned, StateType
  <2>3. \A id \in DOMAIN extensions : extensions[id] # k
    BY <2>1 DEF Core, MapInv
  <2>4. \A j \in Callers : call[j].at \in {"insert", "clear"} => call[j].gen # k
    BY <2>1 DEF Core, CallInv, Filling
  <2>5. Core'
    BY <1>1, <1>2, <2>1, <2>2, <2>3, <2>4, FreeCore
  <2> QED
    BY <1>1, <2>2, <2>5, BlankFields
<1>3. CASE k \notin Gens
  <2>1. sup' = sup
    BY <1>3 DEF Returned
  <2>2. CallInv'
    BY <1>1, <2>1 DEF Core, CallInv, Filling
  <2>3. MapInv' /\ AliveInv' /\ ClaimInv'
    BY <2>1 DEF Core, MapInv, AliveInv, ClaimInv, Registered, Cleaned
  <2> QED
    BY <1>1, <2>1, <2>2, <2>3 DEF StateType, Core
<1> QED
  BY <1>2, <1>3

\* Every step of a call keeps the invariant.
LEMMA CallStepInv ==
  ASSUME Inv, NEW k \in Callers, CallStep(k)
  PROVE  Inv'
<1> USE DEF Inv, Core
<1> SUFFICES ASSUME /\ Core' /\ sup' \in [Gens -> SupType] /\ call' \in [Callers -> CallType]
                    /\ \A h \in Gens : sup'[h].alive => sup[h].alive
             PROVE  Inv'
  <2>1. CASE StartFails(k)
    BY <2>1, StartFailsCore DEF StartFails, tables
  <2>2. CASE Insert(k)
    <3>1. PICK reg \in RegsOf[call[k].cand] :
            IF Collides(call[k].cand, reg)
             THEN /\ sup' = [sup EXCEPT ![call[k].gen] = Free]
                  /\ call' = [call EXCEPT ![k].at = "fail"]
                  /\ UNCHANGED tables
             ELSE /\ extensions' = [id \in DOMAIN extensions \cup {reg.id} |->
                                      IF id = reg.id THEN call[k].gen ELSE extensions[id]]
                  /\ routes' = Give(routes, reg.paths, reg.id)
                  /\ prefixes' = Give(prefixes, reg.channels, reg.id)
                  /\ sup' = [sup EXCEPT ![call[k].gen].reg = reg]
                  /\ call' = [call EXCEPT ![k].at = "clear"]
      BY <2>2 DEF Insert
    <3>2. CASE Collides(call[k].cand, reg)
      BY <2>2, <3>1, <3>2, StartFailsCore DEF Insert, tables
    <3>3. CASE ~Collides(call[k].cand, reg)
      BY <2>2, <3>1, <3>3, InsertCore DEF Insert
    <3> QED
      BY <3>2, <3>3
  <2>3. CASE ClearMarks(k)
    BY <2>3, ClearCore DEF ClearMarks
  <2>4. CASE ReportOk(k)
    BY <2>4, ReportCore DEF ReportOk
  <2>5. CASE ReportFailed(k)
    BY <2>5, ReportCore DEF ReportFailed
  <2> QED
    BY <2>1, <2>2, <2>3, <2>4, <2>5 DEF CallStep
<1>1. /\ config' = config /\ shutting' = shutting /\ main' = main
      /\ recent' = recent /\ granted' = granted
      /\ failed' \subseteq Cands
  <2>1. failed \subseteq Cands /\ (call[k].at # "none" => call[k].cand \in Cands)
    BY DEF StateType, CallInv
  <2>2. CASE StartFails(k) \/ Insert(k)
    BY <2>1, <2>2 DEF StartFails, Insert, tables
  <2>3. CASE ClearMarks(k) \/ ReportOk(k)
    BY <2>1, <2>3 DEF ClearMarks, ReportOk
  <2>4. CASE ReportFailed(k)
    BY <2>1, <2>4 DEF ReportFailed
  <2> QED
    BY <2>2, <2>3, <2>4 DEF CallStep
<1>2. StateType'
  BY <1>1 DEF StateType
<1>3. MainInv'
  BY <1>1, MainKeeps
<1>4. RateInv'
  BY <1>1 DEF RateInv, Rated
<1> QED
  BY <1>2, <1>3, <1>4

-----------------------------------------------------------------------------
(* The environment and the supervisor *)

\* What a step of a supervisor that goes on leaves alone.
Moves(g) ==
  /\ sup' \in [Gens -> SupType]
  /\ \A h \in Gens : sup'[h].cand = sup[h].cand /\ sup'[h].reg = sup[h].reg
  /\ \A h \in Gens : sup'[h].alive => sup[h].alive
  /\ \A h \in Gens \ {g} : sup'[h].pc = sup[h].pc

\* One record is replaced.
LEMMA ReplaceMoves ==
  ASSUME StateType, NEW g \in Gens, NEW r \in SupType, sup' = [sup EXCEPT ![g] = r],
         r.cand = sup[g].cand, r.reg = sup[g].reg, r.alive => sup[g].alive
  PROVE  Moves(g) /\ sup'[g] = r
BY DEF Moves, StateType

\* A process ends by itself, or it is told to end.
LEMMA ChildInv ==
  ASSUME Inv, NEW g \in Gens, ChildExits(g) \/ KillAndRespawn(g)
  PROVE  Inv'
<1> USE DEF Inv
<1>1. /\ sup[g].pc = "watch"
      /\ config' = config /\ extensions' = extensions /\ routes' = routes /\ prefixes' = prefixes
      /\ failed' = failed /\ recent' = recent /\ shutting' = shutting /\ call' = call
      /\ main' = main /\ granted' = granted
  BY DEF ChildExits, KillAndRespawn, tables
<1>2. sup[g] \in SupType /\ sup \in [Gens -> SupType]
  BY DEF StateType
<1>3. Moves(g) /\ sup'[g].pc = "watch"
  <2>1. CASE ChildExits(g)
    <3> DEFINE r == [sup[g] EXCEPT !.alive = FALSE]
    <3>1. sup' = [sup EXCEPT ![g] = r]
      BY <2>1 DEF ChildExits
    <3>2. /\ r \in SupType /\ r.cand = sup[g].cand /\ r.reg = sup[g].reg
          /\ (r.alive => sup[g].alive) /\ r.pc = "watch"
      BY <1>1, <1>2 DEF SupType
    <3> QED
      BY <3>1, <3>2, ReplaceMoves
  <2>2. CASE KillAndRespawn(g)
    <3> DEFINE r == [sup[g] EXCEPT !.commands = Append(sup[g].commands, "kill")]
    <3>1. sup' = [sup EXCEPT ![g] = r]
      BY <2>2 DEF KillAndRespawn
    <3>2. Append(sup[g].commands, "kill") \in Seq(Commands)
      BY Fields DEF Commands
    <3>3. /\ r \in SupType /\ r.cand = sup[g].cand /\ r.reg = sup[g].reg
          /\ (r.alive => sup[g].alive) /\ r.pc = "watch"
      BY <1>1, <1>2, <3>2 DEF SupType
    <3> QED
      BY <3>1, <3>3, ReplaceMoves
  <2> QED
    BY <2>1, <2>2
<1>4. StateType'
  BY <1>1, <1>3 DEF StateType, Moves
<1>5. Core'
  BY <1>1, <1>3, MoveCore DEF Moves, Core
<1>6. MainInv'
  BY <1>1, <1>3, MainKeeps DEF Moves
<1>7. RateInv'
  BY <1>1 DEF RateInv, Rated
<1> QED
  BY <1>4, <1>5, <1>6, <1>7 DEF Core

\* The select, the drain and the marks.
LEMMA SuperviseInv ==
  ASSUME Inv, NEW g \in Gens,
         SuperviseExit(g) \/ SuperviseCommand(g) \/ DrainStop(g) \/ Mark(g)
  PROVE  Inv'
<1> USE DEF Inv
<1>1. /\ config' = config /\ extensions' = extensions /\ routes' = routes /\ prefixes' = prefixes
      /\ failed' = failed /\ recent' = recent /\ shutting' = shutting /\ call' = call
      /\ main' = main /\ granted' = granted
  BY DEF SuperviseExit, SuperviseCommand, DrainStop, Mark, tables
<1>2. sup[g] \in SupType /\ sup \in [Gens -> SupType]
  BY DEF StateType
<1>3. /\ Moves(g)
      /\ sup'[g].alive => sup'[g].pc \in {"starting", "watch", "drain"}
      /\ \/ sup[g].pc \in {"watch", "drain"} /\ sup'[g].pc \in {"drain", "remove"}
         \/ sup[g].pc = "mark" /\ sup'[g].pc = "decide"
  <2>1. CASE SuperviseExit(g)
    <3> DEFINE r == [sup[g] EXCEPT !.pc = "remove", !.respawn = TRUE]
    <3>1. sup' = [sup EXCEPT ![g] = r] /\ ~sup[g].alive /\ sup[g].pc = "watch"
      BY <1>2, <2>1 DEF SuperviseExit
    <3>2. /\ r \in SupType /\ r.cand = sup[g].cand /\ r.reg = sup[g].reg
          /\ r.alive = sup[g].alive /\ r.pc = "remove"
      BY <1>2 DEF SupType, SupPcs
    <3> HIDE DEF r
    <3> QED
      BY <3>1, <3>2, ReplaceMoves
  <2>2. CASE SuperviseCommand(g)
    <3> DEFINE kill == Head(sup[g].commands) = "kill"
               to == IF kill THEN "remove" ELSE "drain"
               live == sup[g].alive /\ ~kill
               r == [sup[g] EXCEPT !.pc = to, !.respawn = kill, !.alive = live]
    <3>1. sup' = [sup EXCEPT ![g] = r] /\ sup[g].pc = "watch"
      BY <1>2, <2>2 DEF SuperviseCommand
    <3>2. kill \in BOOLEAN /\ live \in BOOLEAN /\ to \in {"remove", "drain"}
          /\ (live => sup[g].alive /\ to = "drain")
      OBVIOUS
    <3> HIDE DEF kill, to, live
    <3>3. /\ r \in SupType /\ r.cand = sup[g].cand /\ r.reg = sup[g].reg
          /\ r.alive = live /\ r.pc = to
      BY <1>2, <3>2 DEF SupType, SupPcs
    <3> HIDE DEF r
    <3> QED
      BY <3>1, <3>2, <3>3, ReplaceMoves
  <2>3. CASE DrainStop(g)
    <3> DEFINE r == [sup[g] EXCEPT !.pc = "remove", !.alive = FALSE]
    <3>1. sup' = [sup EXCEPT ![g] = r] /\ sup[g].pc = "drain"
      BY <1>2, <2>3 DEF DrainStop
    <3>2. /\ r \in SupType /\ r.cand = sup[g].cand /\ r.reg = sup[g].reg
          /\ ~r.alive /\ r.pc = "remove"
      BY <1>2 DEF SupType, SupPcs
    <3> HIDE DEF r
    <3> QED
      BY <3>1, <3>2, ReplaceMoves
  <2>4. CASE Mark(g)
    <3> DEFINE r == [sup[g] EXCEPT !.pc = "decide"]
    <3>1. sup' = [sup EXCEPT ![g] = r] /\ sup[g].pc = "mark"
      BY <1>2, <2>4 DEF Mark
    <3>2. /\ r \in SupType /\ r.cand = sup[g].cand /\ r.reg = sup[g].reg
          /\ r.alive = sup[g].alive /\ r.pc = "decide"
      BY <1>2 DEF SupType, SupPcs
    <3>3. ~sup[g].alive
      BY <3>1 DEF AliveInv
    <3> HIDE DEF r
    <3> QED
      BY <3>1, <3>2, <3>3, ReplaceMoves
  <2> QED
    BY <2>1, <2>2, <2>3, <2>4
<1>4. StateType'
  BY <1>1, <1>3 DEF StateType, Moves
<1>5. Core'
  BY <1>1, <1>3, MoveCore DEF Moves, Core
<1>6. MainInv'
  BY <1>1, <1>3, MainKeeps DEF Moves
<1>7. RateInv'
  BY <1>1 DEF RateInv, Rated
<1> QED
  BY <1>4, <1>5, <1>6, <1>7 DEF Core

\* The map first: from here on the generation's claims are its own to remove.
LEMMA CleanMapInv ==
  ASSUME Inv, NEW g \in Gens, CleanMap(g)
  PROVE  Inv'
<1> DEFINE id == sup[g].reg.id
           own == id \in DOMAIN extensions /\ extensions[id] = g
<1> USE DEF Inv
<1>1. /\ sup[g].pc = "remove"
      /\ config' = config /\ routes' = routes /\ prefixes' = prefixes
      /\ failed' = failed /\ recent' = recent /\ shutting' = shutting /\ call' = call
      /\ main' = main /\ granted' = granted
      /\ extensions' = [i \in {i \in DOMAIN extensions : ~(own /\ i = id)} |-> extensions[i]]
      /\ sup' = [sup EXCEPT ![g] = IF own THEN [sup[g] EXCEPT !.pc = "routes"] ELSE Free]
  BY DEF CleanMap
<1>2. sup[g] \in SupType /\ sup \in [Gens -> SupType] /\ ~sup[g].alive
  BY <1>1 DEF StateType, AliveInv
<1>3. RateInv'
  BY <1>1 DEF RateInv, Rated
<1>4. CASE own
  <2> DEFINE r == [sup[g] EXCEPT !.pc = "routes"]
  <2>1. /\ sup' = [sup EXCEPT ![g] = r]
        /\ DOMAIN extensions' = DOMAIN extensions \ {id}
        /\ \A i \in DOMAIN extensions \ {id} : extensions'[i] = extensions[i]
    BY <1>1, <1>4
  <2>2. /\ r \in SupType /\ r.cand = sup[g].cand /\ r.reg = sup[g].reg
        /\ r.alive = sup[g].alive /\ r.pc = "routes"
    BY <1>2 DEF SupType, SupPcs
  <2> HIDE DEF r
  <2>3. /\ Moves(g) /\ sup'[g].pc = "routes" /\ sup'[g].reg.id = id /\ ~sup'[g].alive
        /\ \A h \in Gens \ {g} : sup'[h] = sup[h]
    BY <1>2, <2>1, <2>2, ReplaceMoves
  <2> HIDE DEF id
  <2>4. \A i \in DOMAIN extensions \ {id} : extensions[i] \in Gens \ {g}
    BY <1>4 DEF MapInv, id
  <2>5. CallInv'
    <3>1. \A j \in Callers : Filling(j)' => Filling(j) /\ call[j].gen # g
      BY <1>1 DEF CallInv, Filling
    <3>2. \A j \in Callers : call[j].at # "none" => j # g
      BY <1>1 DEF CallInv
    <3> QED
      BY <1>1, <2>1, <2>3, <3>1, <3>2 DEF CallInv
  <2>6. MapInv'
    BY <2>1, <2>3, <2>4 DEF MapInv
  <2>7. AliveInv'
    <3>1. ASSUME NEW h \in Gens \ {g}, sup[h].alive, Registered(h)
          PROVE  sup[h].reg.id \in DOMAIN extensions' /\ extensions'[sup[h].reg.id] = h
      BY <1>4, <2>1, <3>1 DEF AliveInv
    <3> QED
      BY <1>1, <2>3, <3>1 DEF AliveInv, Registered, Moves
  <2>8. ClaimInv'
    <3>1. \A i : /\ Cleaned(i, {"routes"}) \/ i = id => Cleaned(i, {"routes"})'
                 /\ Cleaned(i, {"routes", "prefixes"}) \/ i = id => Cleaned(i, {"routes", "prefixes"})'
      BY <1>1, <2>3 DEF Cleaned
    <3> QED
      BY <1>1, <2>1, <3>1 DEF ClaimInv
  <2>9. StateType'
    BY <1>1, <2>3 DEF StateType, Moves
  <2>10. MainInv'
    BY <1>1, <2>3, MainKeeps DEF Moves
  <2> QED
    BY <1>3, <2>5, <2>6, <2>7, <2>8, <2>9, <2>10
<1>5. CASE ~own
  <2>1. sup' = [sup EXCEPT ![g] = Free] /\ DOMAIN extensions' = DOMAIN extensions
        /\ \A i \in DOMAIN extensions : extensions'[i] = extensions[i]
    BY <1>1, <1>5
  <2>2. \A i \in DOMAIN extensions : extensions[i] # g
    BY <1>5 DEF MapInv
  <2>3. /\ sup'[g] = Free /\ sup' \in [Gens -> SupType]
        /\ \A h \in Gens \ {g} : sup'[h] = sup[h]
    BY <1>2, <2>1, BlankTypes
  <2>4. \A j \in Callers : /\ call[j].at # "none" => j # g
                           /\ Filling(j) => call[j].gen # g
    BY <1>1 DEF CallInv
  <2> USE BlankTypes, BlankFields
  <2>5. CallInv'
    BY <1>1, <2>1, <2>3, <2>4 DEF CallInv, Filling
  <2>6. MapInv'
    BY <2>1, <2>2, <2>3 DEF MapInv
  <2>7. AliveInv'
    BY <2>1, <2>3 DEF AliveInv, Registered
  <2>8. ClaimInv'
    BY <1>1, <2>1, <2>3 DEF ClaimInv, Cleaned
  <2>9. StateType'
    BY <1>1, <2>3 DEF StateType
  <2>10. MainInv'
    BY <1>1, <2>3, MainKeeps
  <2> QED
    BY <1>3, <2>5, <2>6, <2>7, <2>8, <2>9, <2>10
<1> QED
  BY <1>4, <1>5

\* Then the routes and the prefixes, by id.
LEMMA CleanTablesInv ==
  ASSUME Inv, NEW g \in Gens, CleanRoutes(g) \/ CleanPrefixes(g)
  PROVE  Inv'
<1> DEFINE id == sup[g].reg.id
           to == IF sup[g].pc = "routes" THEN "prefixes" ELSE "mark"
           r == [sup[g] EXCEPT !.pc = to]
<1> USE DEF Inv
<1>1. /\ config' = config /\ extensions' = extensions
      /\ failed' = failed /\ recent' = recent /\ shutting' = shutting /\ call' = call
      /\ main' = main /\ granted' = granted
      /\ sup' = [sup EXCEPT ![g] = r]
  BY DEF CleanRoutes, CleanPrefixes
<1>2. \/ sup[g].pc = "routes" /\ routes' = Without(routes, id) /\ prefixes' = prefixes
      \/ sup[g].pc = "prefixes" /\ prefixes' = Without(prefixes, id) /\ routes' = routes
  BY DEF CleanRoutes, CleanPrefixes
<1>3. /\ \A k \in DOMAIN routes' : /\ k \in DOMAIN routes /\ routes'[k] = routes[k]
                                   /\ sup[g].pc = "routes" => routes[k] # id
      /\ \A k \in DOMAIN prefixes' : /\ k \in DOMAIN prefixes /\ prefixes'[k] = prefixes[k]
                                     /\ sup[g].pc = "prefixes" => prefixes[k] # id
  BY <1>2 DEF Without
<1>4. sup[g] \in SupType /\ sup \in [Gens -> SupType] /\ ~sup[g].alive
  BY <1>2 DEF StateType, AliveInv
<1>5. /\ r \in SupType /\ r.cand = sup[g].cand /\ r.reg = sup[g].reg
      /\ r.alive = sup[g].alive /\ r.pc = to
  BY <1>4 DEF SupType, SupPcs
<1> HIDE DEF r
<1>6. /\ Moves(g) /\ sup'[g].pc = to /\ sup'[g].reg.id = id /\ ~sup'[g].alive
      /\ \A h \in Gens \ {g} : sup'[h] = sup[h]
  BY <1>1, <1>4, <1>5, ReplaceMoves
<1>7. CallInv'
  <2>1. \A j \in Callers : Filling(j)' => Filling(j) /\ call[j].gen # g
    BY <1>1, <1>2 DEF CallInv, Filling
  <2>2. \A j \in Callers : call[j].at # "none" => j # g
    BY <1>2 DEF CallInv
  <2> QED
    BY <1>1, <1>6, <2>1, <2>2 DEF CallInv
<1>8. MapInv'
  <2>1. \A i \in DOMAIN extensions : extensions[i] \in Gens \ {g}
    BY <1>2 DEF MapInv
  <2> QED
    BY <1>1, <1>6, <2>1 DEF MapInv
<1>9. AliveInv'
  BY <1>1, <1>2, <1>6 DEF AliveInv, Registered, Moves
<1>10. ClaimInv'
  <2>1. \A i : /\ i # id /\ Cleaned(i, {"routes"}) => Cleaned(i, {"routes"})'
               /\ i # id /\ Cleaned(i, {"routes", "prefixes"}) => Cleaned(i, {"routes", "prefixes"})'
    BY <1>6 DEF Cleaned
  <2>2. CASE sup[g].pc = "routes"
    <3>1. \A i : Cleaned(i, {"routes", "prefixes"}) => Cleaned(i, {"routes", "prefixes"})'
      BY <1>6, <2>2 DEF Cleaned
    <3> QED
      BY <1>1, <1>3, <2>1, <2>2, <3>1 DEF ClaimInv
  <2>3. CASE sup[g].pc = "prefixes"
    <3>1. \A i : Cleaned(i, {"routes"}) => Cleaned(i, {"routes"})'
      BY <1>6, <2>3 DEF Cleaned
    <3> QED
      BY <1>1, <1>3, <2>1, <2>3, <3>1 DEF ClaimInv
  <2> QED
    BY <1>2, <2>2, <2>3
<1>11. StateType'
  BY <1>1, <1>6 DEF StateType, Moves
<1>12. MainInv'
  BY <1>1, <1>6, MainKeeps DEF Moves
<1>13. RateInv'
  BY <1>1 DEF RateInv, Rated
<1> QED
  BY <1>7, <1>8, <1>9, <1>10, <1>11, <1>12, <1>13

-----------------------------------------------------------------------------
(* The crashloop window *)

\* Popping stops at the first age in the window: what it leaves is the end of
\* the sequence, all of it in the window, and what it takes is too old.
LEMMA PopFacts ==
  ASSUME NEW a, Ages(a), NEW w \in Nat
  PROVE  \E p \in 1..(Len(a) + 1) :
           /\ Ages(PopOld(a, w))
           /\ Len(PopOld(a, w)) = Len(a) - p + 1
           /\ \A i \in 1..Len(PopOld(a, w)) : PopOld(a, w)[i] = a[p - 1 + i] /\ PopOld(a, w)[i] <= w
           /\ \A i \in 1..(p - 1) : a[i] > w
<1> DEFINE stops == {i \in 1..(Len(a) + 1) : i > Len(a) \/ a[i] <= w}
           p == Min(stops)
           b == SubSeq(a, p, Len(a))
<1>1. a \in Seq(Nat) /\ Len(a) \in Nat /\ w \in Nat /\ \A i \in 1..Len(a) : a[i] \in Nat
  BY DEF Ages
<1>2. PopOld(a, w) = b
  BY DEF PopOld
<1>3. stops \subseteq Nat /\ stops # {}
  <2>1. Len(a) + 1 \in stops
    BY <1>1
  <2> QED
    BY <1>1, <2>1
<1>4. p \in stops /\ \A i \in stops : p <= i
  <2> HIDE DEF stops
  <2> QED
    BY <1>3, LeastNat DEF Min
<1>5. p \in 1..(Len(a) + 1) /\ (p <= Len(a) => a[p] <= w)
  BY <1>1, <1>4
<1>6. \A i \in 1..(p - 1) : a[i] > w
  <2>1. ASSUME NEW i \in Nat, i \notin stops, 1 <= i, i <= Len(a) PROVE a[i] > w
    BY <1>1, <2>1
  <2>2. ASSUME NEW i \in stops PROVE p <= i
    BY <1>4
  <2> HIDE DEF p, stops
  <2> SUFFICES ASSUME NEW i \in 1..(p - 1) PROVE a[i] > w
    OBVIOUS
  <2>3. i \in Nat /\ 1 <= i /\ i <= Len(a) /\ ~(p <= i)
    BY <1>1, <1>5
  <2>4. i \notin stops
    BY <2>2, <2>3
  <2> QED
    BY <2>1, <2>3, <2>4
<1> HIDE DEF p, stops
<1>7. /\ b \in Seq(Nat) /\ Len(b) = Len(a) - p + 1
      /\ \A i \in 1..Len(b) : b[i] = a[p - 1 + i]
  BY <1>1, <1>5
<1>8. Len(b) \in Nat /\ \A i \in 1..Len(b) : p - 1 + i \in 1..Len(a) /\ p <= p - 1 + i
  BY <1>1, <1>5, <1>7
<1> HIDE DEF b
<1>9. \A i, j \in 1..Len(b) : i <= j => b[j] <= b[i]
  <2> SUFFICES ASSUME NEW i \in 1..Len(b), NEW j \in 1..Len(b), i <= j PROVE b[j] <= b[i]
    OBVIOUS
  <2>1. p - 1 + i \in 1..Len(a) /\ p - 1 + j \in 1..Len(a) /\ p - 1 + i <= p - 1 + j
    BY <1>1, <1>5, <1>8
  <2>2. a[p - 1 + j] <= a[p - 1 + i]
    BY <2>1 DEF Ages
  <2> QED
    BY <1>7, <2>2
<1>10. \A i \in 1..Len(b) : b[i] <= w
  <2> SUFFICES ASSUME NEW i \in 1..Len(b) PROVE b[i] <= w
    OBVIOUS
  <2>1. p \in 1..Len(a) /\ p - 1 + i \in 1..Len(a) /\ p <= p - 1 + i
    BY <1>1, <1>5, <1>7, <1>8
  <2>2. a[p - 1 + i] <= a[p] /\ a[p] <= w
    BY <1>5, <2>1 DEF Ages
  <2>3. a[p - 1 + i] \in Nat /\ a[p] \in Nat /\ b[i] = a[p - 1 + i]
    BY <1>1, <1>7, <2>1
  <2> QED
    BY <1>1, <2>2, <2>3
<1>11. Ages(b)
  BY <1>7, <1>9 DEF Ages
<1> QED
  BY <1>2, <1>5, <1>6, <1>7, <1>10, <1>11

\* Time passes: ages stay in order, and each grows by at most one.
LEMMA OlderFacts ==
  ASSUME NEW a, Ages(a)
  PROVE  /\ Ages(Older(a)) /\ Len(Older(a)) = Len(a)
         /\ \A i \in 1..Len(a) : Older(a)[i] = IF a[i] > Longest THEN a[i] ELSE a[i] + 1
<1>1. a \in Seq(Nat) /\ Len(a) \in Nat /\ Longest \in Nat /\ \A i \in 1..Len(a) : a[i] \in Nat
  BY LifecycleAssumption DEF Ages
<1>2. DOMAIN a = 1..Len(a)
  BY <1>1
<1>3. Older(a) = [i \in 1..Len(a) |-> IF a[i] > Longest THEN a[i] ELSE a[i] + 1]
  BY <1>2 DEF Older
<1>4. \A i \in 1..Len(a) : (IF a[i] > Longest THEN a[i] ELSE a[i] + 1) \in Nat
  BY <1>1
<1>5. Older(a) \in Seq(Nat) /\ Len(Older(a)) = Len(a)
  BY <1>1, <1>3, <1>4
<1>6. \A i, j \in 1..Len(a) : i <= j =>
        (IF a[j] > Longest THEN a[j] ELSE a[j] + 1) <= (IF a[i] > Longest THEN a[i] ELSE a[i] + 1)
  <2> SUFFICES ASSUME NEW i \in 1..Len(a), NEW j \in 1..Len(a), i <= j
               PROVE  (IF a[j] > Longest THEN a[j] ELSE a[j] + 1)
                        <= (IF a[i] > Longest THEN a[i] ELSE a[i] + 1)
    OBVIOUS
  <2>1. a[j] <= a[i] /\ a[i] \in Nat /\ a[j] \in Nat
    BY <1>1 DEF Ages
  <2> QED
    BY <1>1, <2>1
<1> QED
  BY <1>3, <1>5, <1>6 DEF Ages

\* The parts of Rated.
LEMMA RatedFacts ==
  ASSUME NEW r, NEW g, Rated(r, g)
  PROVE  /\ Len(r) \in Nat /\ Len(g) \in Nat /\ Shortest \in Nat /\ MaxThreshold \in Nat
         /\ \A i \in 1..Len(r) : r[i] \in Nat
         /\ \A i \in 1..Len(g) : g[i] \in Nat
         /\ Len(g) <= Len(r) /\ Len(g) <= MaxThreshold /\ Ages(g) /\ Ages(r)
         /\ \A i \in 1..Len(g) : g[i] <= Shortest
<1>1. /\ Ages(r) /\ Ages(g) /\ Len(g) <= Len(r) /\ Len(g) <= MaxThreshold
      /\ \A i \in 1..Len(g) : g[i] <= Shortest
  BY Zenon DEF Rated
<1>2. ASSUME NEW a, Ages(a) PROVE Len(a) \in Nat /\ \A i \in 1..Len(a) : a[i] \in Nat
  <2>1. a \in Seq(Nat)
    BY <1>2, Zenon DEF Ages
  <2> QED
    BY <2>1
<1>3. Shortest \in Nat /\ MaxThreshold \in Nat
  BY LifecycleAssumption
<1> QED
  BY <1>1, <1>2, <1>3

\* A tick keeps grants matched by exits.
LEMMA TickRated ==
  ASSUME NEW r, NEW g, Rated(r, g)
  PROVE  Rated(Older(r), PopOld(Older(g), Shortest))
<1> DEFINE r1 == Older(r)
           g1 == Older(g)
           g2 == PopOld(g1, Shortest)
<1>1. /\ Ages(r1) /\ Len(r1) = Len(r)
      /\ \A i \in 1..Len(r) : r1[i] = IF r[i] > Longest THEN r[i] ELSE r[i] + 1
  BY OlderFacts DEF Rated
<1>2. /\ Ages(g1) /\ Len(g1) = Len(g)
      /\ \A i \in 1..Len(g) : g1[i] = IF g[i] > Longest THEN g[i] ELSE g[i] + 1
  BY OlderFacts DEF Rated
<1>3. /\ Len(r) \in Nat /\ Len(g) \in Nat /\ Shortest \in Nat /\ Longest \in Nat
      /\ MaxThreshold \in Nat
      /\ \A i \in 1..Len(r) : r[i] \in Nat
      /\ \A i \in 1..Len(g) : g[i] \in Nat
      /\ Len(g) <= Len(r) /\ Len(g) <= MaxThreshold
  BY RatedFacts, LifecycleAssumption
<1> HIDE DEF g1, r1
<1>4. PICK p \in 1..(Len(g1) + 1) :
           /\ Ages(g2) /\ Len(g2) = Len(g1) - p + 1
           /\ \A i \in 1..Len(g2) : g2[i] = g1[p - 1 + i] /\ g2[i] <= Shortest
  BY <1>2, <1>3, PopFacts
<1> HIDE DEF g2
<1>5. \A i \in 1..Len(g) : r1[Len(r) - Len(g) + i] <= g1[i]
  <2> SUFFICES ASSUME NEW i \in 1..Len(g) PROVE r1[Len(r) - Len(g) + i] <= g1[i]
    OBVIOUS
  <2> DEFINE j == Len(r) - Len(g) + i
  <2>1. j \in 1..Len(r) /\ r[j] <= g[i] /\ r[j] \in Nat /\ g[i] \in Nat /\ g[i] <= Shortest
    BY <1>3 DEF Rated
  <2>2. r1[j] = (IF r[j] > Longest THEN r[j] ELSE r[j] + 1)
    BY <1>1, <2>1
  <2>3. g1[i] = (IF g[i] > Longest THEN g[i] ELSE g[i] + 1)
    BY <1>2
  <2>4. ASSUME NEW x \in Nat, NEW y \in Nat, x <= y
        PROVE  (IF x > Longest THEN x ELSE x + 1) <= (IF y > Longest THEN y ELSE y + 1)
    <3>1. Longest \in Nat
      BY <1>3
    <3> QED
      BY <2>4, <3>1
  <2>5. r1[j] <= g1[i]
    <3> HIDE DEF j
    <3> QED
      BY <2>1, <2>2, <2>3, <2>4
  <2> QED
    BY <2>5
<1>6. \A i \in 1..Len(g2) : r1[Len(r1) - Len(g2) + i] <= g2[i]
  <2> SUFFICES ASSUME NEW i \in 1..Len(g2) PROVE r1[Len(r1) - Len(g2) + i] <= g2[i]
    OBVIOUS
  <2>1. p - 1 + i \in 1..Len(g) /\ Len(r1) - Len(g2) + i = Len(r) - Len(g) + (p - 1 + i)
    BY <1>1, <1>2, <1>3, <1>4
  <2> QED
    BY <1>4, <1>5, <2>1
<1>7. Len(g2) <= Len(r1) /\ Len(g2) <= MaxThreshold
  BY <1>1, <1>2, <1>3, <1>4
<1>8. Rated(r1, g2)
  BY <1>1, <1>4, <1>6, <1>7 DEF Rated
<1> QED
  BY <1>8 DEF g1, g2, r1

\* One more age, of this moment.
LEMMA PushFacts ==
  ASSUME NEW a, Ages(a)
  PROVE  /\ Ages(Append(a, 0)) /\ Len(Append(a, 0)) = Len(a) + 1
         /\ \A i \in 1..Len(a) : Append(a, 0)[i] = a[i]
         /\ Append(a, 0)[Len(a) + 1] = 0
<1>1. a \in Seq(Nat) /\ Len(a) \in Nat /\ \A i \in 1..Len(a) : a[i] \in Nat
  BY DEF Ages
<1>2. /\ Append(a, 0) \in Seq(Nat) /\ Len(Append(a, 0)) = Len(a) + 1
      /\ \A i \in 1..Len(a) : Append(a, 0)[i] = a[i]
      /\ Append(a, 0)[Len(a) + 1] = 0
  BY <1>1
<1>3. \A i, j \in 1..(Len(a) + 1) : i <= j => Append(a, 0)[j] <= Append(a, 0)[i]
  <2> SUFFICES ASSUME NEW i \in 1..(Len(a) + 1), NEW j \in 1..(Len(a) + 1), i <= j
               PROVE  Append(a, 0)[j] <= Append(a, 0)[i]
    OBVIOUS
  <2>1. CASE j = Len(a) + 1
    BY <1>1, <1>2, <2>1
  <2>2. CASE j # Len(a) + 1
    <3>1. i \in 1..Len(a) /\ j \in 1..Len(a)
      BY <1>1, <2>2
    <3> QED
      BY <1>2, <3>1 DEF Ages
  <2> QED
    BY <2>1, <2>2
<1> QED
  BY <1>2, <1>3 DEF Ages

\* The window and the threshold of a configuration are within the bounds.
LEMMA ConfigFacts ==
  ASSUME config \in Configs
  PROVE  /\ config.window \in Nat /\ Shortest <= config.window
         /\ config.threshold \in Nat /\ config.threshold <= MaxThreshold
BY LifecycleAssumption

\* So does an exit, whether the respawn is granted or not.
LEMMA ExitRated ==
  ASSUME NEW r, NEW g, Rated(r, g), config \in Configs
  PROVE  /\ Rated(Exits(r), g)
         /\ Len(Exits(r)) < config.threshold => Rated(Exits(r), Append(g, 0))
<1> DEFINE r1 == PopOld(r, config.window)
           r2 == Append(r1, 0)
           g1 == Append(g, 0)
<1>1. /\ Len(r) \in Nat /\ Len(g) \in Nat /\ Shortest \in Nat /\ MaxThreshold \in Nat
      /\ \A i \in 1..Len(r) : r[i] \in Nat
      /\ \A i \in 1..Len(g) : g[i] \in Nat
      /\ Len(g) <= Len(r) /\ Len(g) <= MaxThreshold /\ Ages(g) /\ Ages(r)
      /\ \A i \in 1..Len(g) : g[i] <= Shortest
  BY RatedFacts
<1>0. /\ config.window \in Nat /\ Shortest <= config.window
      /\ config.threshold \in Nat /\ config.threshold <= MaxThreshold
  BY ConfigFacts
<1>2. PICK p \in 1..(Len(r) + 1) :
           /\ Ages(r1) /\ Len(r1) = Len(r) - p + 1
           /\ \A i \in 1..Len(r1) : r1[i] = r[p - 1 + i]
           /\ \A i \in 1..(p - 1) : r[i] > config.window
  BY <1>0, <1>1, PopFacts
<1>3. Len(g) <= Len(r1)
  <2> SUFFICES ASSUME Len(g) > Len(r1) PROVE FALSE
    BY <1>1, <1>2
  <2> DEFINE i == p - 1 - (Len(r) - Len(g))
  <2>1. i \in 1..Len(g) /\ Len(r) - Len(g) + i = p - 1 /\ p - 1 \in 1..(p - 1) /\ p - 1 \in 1..Len(r)
    BY <1>1, <1>2
  <2> HIDE DEF i
  <2>2. r[p - 1] <= g[i] /\ g[i] <= Shortest /\ r[p - 1] > config.window
    BY <1>1, <1>2, <2>1 DEF Rated
  <2>3. r[p - 1] \in Nat /\ g[i] \in Nat /\ Shortest \in Nat
    BY <1>1, <2>1
  <2> QED
    BY <1>0, <2>2, <2>3
<1>4. \A i \in 1..Len(g) : r1[Len(r1) - Len(g) + i] <= g[i]
  <2> SUFFICES ASSUME NEW i \in 1..Len(g) PROVE r1[Len(r1) - Len(g) + i] <= g[i]
    OBVIOUS
  <2>1. /\ Len(r1) - Len(g) + i \in 1..Len(r1)
        /\ p - 1 + (Len(r1) - Len(g) + i) = Len(r) - Len(g) + i
    BY <1>1, <1>2, <1>3
  <2> QED
    BY <1>2, <2>1 DEF Rated
<1> HIDE DEF r1
<1>5. /\ Ages(r2) /\ Len(r2) = Len(r1) + 1
      /\ \A i \in 1..Len(r1) : r2[i] = r1[i]
      /\ r2[Len(r1) + 1] = 0
  BY <1>2, PushFacts
<1>6. /\ Ages(g1) /\ Len(g1) = Len(g) + 1
      /\ \A i \in 1..Len(g) : g1[i] = g[i]
      /\ g1[Len(g) + 1] = 0
  BY <1>1, PushFacts
<1> HIDE DEF r2, g1
<1>7. Exits(r) = r2 /\ Len(r1) \in Nat
  BY <1>2 DEF Exits, r2, r1, Ages
<1>8. Rated(r2, g)
  <2>1. \A i \in 1..Len(g) : r2[Len(r2) - Len(g) + i] <= g[i]
    <3> SUFFICES ASSUME NEW i \in 1..Len(g) PROVE r2[Len(r2) - Len(g) + i] <= g[i]
      OBVIOUS
    <3> DEFINE j == Len(r1) - Len(g) + i
    <3>0. \A n \in 1..Len(r2) : r2[n] \in Nat
      BY <1>5 DEF Ages
    <3>1. j \in 1..Len(r2) /\ j + 1 \in 1..Len(r2) /\ j \in 1..Len(r1)
          /\ Len(r2) - Len(g) + i = j + 1 /\ j <= j + 1
      BY <1>1, <1>3, <1>5, <1>7
    <3>4. r1[j] <= g[i]
      BY <1>4
    <3> HIDE DEF j
    <3>2. r2[j + 1] <= r2[j] /\ r2[j] = r1[j] /\ r1[j] <= g[i]
      BY <3>4, <1>5, <3>1 DEF Ages
    <3>3. r2[j + 1] \in Nat /\ r2[j] \in Nat /\ g[i] \in Nat
      BY <1>1, <3>0, <3>1
    <3> QED
      BY <3>1, <3>2, <3>3
  <2>2. Len(g) <= Len(r2)
    BY <1>1, <1>3, <1>5, <1>7
  <2> QED
    BY <1>1, <1>5, <2>1, <2>2 DEF Rated
<1>9. ASSUME Len(r2) < config.threshold PROVE Rated(r2, g1)
  <2>1. \A i \in 1..Len(g1) : r2[Len(r2) - Len(g1) + i] <= g1[i] /\ g1[i] <= Shortest
    <3> SUFFICES ASSUME NEW i \in 1..Len(g1)
                 PROVE  r2[Len(r2) - Len(g1) + i] <= g1[i] /\ g1[i] <= Shortest
      OBVIOUS
    <3>1. Len(r2) - Len(g1) + i = Len(r1) - Len(g) + i
      BY <1>1, <1>5, <1>6, <1>7
    <3>2. CASE i = Len(g) + 1
      BY <1>1, <1>5, <1>6, <1>7, <3>1, <3>2
    <3>3. CASE i # Len(g) + 1
      <4>1. i \in 1..Len(g) /\ Len(r1) - Len(g) + i \in 1..Len(r1)
        BY <1>1, <1>3, <1>6, <1>7, <3>3
      <4> QED
        BY <1>1, <1>4, <1>5, <1>6, <3>1, <4>1
    <3> QED
      BY <3>2, <3>3
  <2>2. Len(g1) <= Len(r2) /\ Len(g1) <= MaxThreshold
    BY <1>0, <1>1, <1>3, <1>5, <1>6, <1>7, <1>9
  <2> QED
    BY <1>5, <1>6, <2>1, <2>2 DEF Rated
<1> QED
  BY <1>7, <1>8, <1>9 DEF g1

-----------------------------------------------------------------------------
(* The end of a supervisor *)

\* done is sent: the supervisor returns or accounts for the exit.
LEMMA DecideInv ==
  ASSUME Inv, NEW g \in Gens, Decide(g)
  PROVE  Inv'
<1> USE DEF Inv
<1>1. /\ sup[g].pc = "decide"
      /\ config' = config /\ extensions' = extensions /\ routes' = routes /\ prefixes' = prefixes
      /\ failed' = failed /\ recent' = recent /\ shutting' = shutting /\ call' = call
      /\ main' = main /\ granted' = granted
      /\ \/ sup' = [sup EXCEPT ![g] = [sup[g] EXCEPT !.pc = "account"]]
         \/ sup' = [sup EXCEPT ![g] = Free]
  BY DEF Decide, tables
<1>2. sup[g] \in SupType /\ sup \in [Gens -> SupType] /\ ~sup[g].alive
  BY <1>1 DEF StateType, AliveInv
<1>3. /\ Core' /\ sup' \in [Gens -> SupType]
      /\ \A h \in Gens : sup'[h].alive => sup[h].alive
  <2>1. CASE sup' = [sup EXCEPT ![g] = Free]
    <3>1. /\ sup'[g] = Free /\ sup' \in [Gens -> SupType]
          /\ \A h \in Gens \ {g} : sup'[h] = sup[h]
      BY <1>2, <2>1, BlankTypes
    <3>2. \A id \in DOMAIN extensions : extensions[id] # g
      BY <1>1 DEF MapInv
    <3>3. \A j \in Callers : /\ call[j].at # "none" => j # g
                             /\ call[j].at \in {"insert", "clear"} => call[j].gen # g
      BY <1>1 DEF CallInv, Filling
    <3>4. Core'
      BY <1>1, <3>1, <3>2, <3>3, FreeCore DEF Core
    <3> QED
      BY <3>1, <3>4, BlankFields
  <2>2. CASE sup' = [sup EXCEPT ![g] = [sup[g] EXCEPT !.pc = "account"]]
    <3> DEFINE r == [sup[g] EXCEPT !.pc = "account"]
    <3>1. /\ r \in SupType /\ r.cand = sup[g].cand /\ r.reg = sup[g].reg
          /\ r.alive = sup[g].alive /\ r.pc = "account" /\ sup' = [sup EXCEPT ![g] = r]
      BY <1>2, <2>2 DEF SupType, SupPcs
    <3> HIDE DEF r
    <3>2. Moves(g) /\ sup'[g].pc = "account" /\ ~sup'[g].alive
      BY <1>2, <3>1, ReplaceMoves
    <3>3. Core'
      BY <1>1, <3>2, MoveCore DEF Moves, Core
    <3> QED
      BY <3>2, <3>3 DEF Moves
  <2> QED
    BY <1>1, <2>1, <2>2
<1>4. StateType'
  BY <1>1, <1>3 DEF StateType
<1>5. MainInv'
  BY <1>1, <1>3, MainKeeps
<1>6. RateInv'
  BY <1>1 DEF RateInv, Rated
<1> QED
  BY <1>3, <1>4, <1>5, <1>6 DEF Core

\* The exit is accounted for.
LEMMA AccountInv ==
  ASSUME Inv, NEW g \in Gens, Account(g)
  PROVE  Inv'
<1> DEFINE c == sup[g].cand
           crashloop == Len(Exits(recent[c])) >= config.threshold
           to == IF crashloop THEN "crashloop" ELSE "delay"
           r == [sup[g] EXCEPT !.pc = to]
           report == IF crashloop THEN [NoCall EXCEPT !.at = "fail", !.cand = c] ELSE NoCall
<1> USE DEF Inv
<1>1. /\ sup[g].pc = "account"
      /\ config' = config /\ extensions' = extensions /\ routes' = routes /\ prefixes' = prefixes
      /\ failed' = failed /\ shutting' = shutting /\ main' = main
      /\ recent' = [recent EXCEPT ![c] = Exits(recent[c])]
      /\ granted' = [granted EXCEPT ![c] = IF crashloop THEN granted[c] ELSE Append(granted[c], 0)]
      /\ sup' = [sup EXCEPT ![g] = r]
      /\ call' = [call EXCEPT ![g] = report]
  BY DEF Account, tables
<1>2. sup[g] \in SupType /\ sup \in [Gens -> SupType] /\ ~sup[g].alive /\ c \in Cands
  BY <1>1 DEF StateType, AliveInv
<1>3. to \in {"crashloop", "delay"} /\ (report.at # "none" => to = "crashloop")
  BY BlankFields
<1>4. report \in CallType /\ report.at \in {"none", "fail"} /\ (report.at = "fail" => report.cand = c)
  BY <1>2, BlankTypes, BlankFields DEF CallType, Names
<1>5. RateInv'
  <2> HIDE DEF c
  <2>0. config \in Configs
    BY DEF StateType
  <2>1. Rated(recent[c], granted[c])
    BY <1>2 DEF RateInv
  <2>2. recent'[c] = Exits(recent[c])
        /\ granted'[c] = (IF crashloop THEN granted[c] ELSE Append(granted[c], 0))
        /\ DOMAIN recent' = Cands /\ DOMAIN granted' = Cands
        /\ \A d \in Cands \ {c} : recent'[d] = recent[d] /\ granted'[d] = granted[d]
    BY <1>1, <1>2 DEF RateInv
  <2>3. Rated(recent'[c], granted'[c])
    <3>1. CASE crashloop
      BY <2>0, <2>1, <2>2, <3>1, ExitRated
    <3>2. CASE ~crashloop
      <4>1. Len(Exits(recent[c])) \in Nat /\ config.threshold \in Nat
        BY <2>0, <2>1, ExitRated, ConfigFacts DEF Rated, Ages
      <4>2. Len(Exits(recent[c])) < config.threshold
        BY <3>2, <4>1
      <4> QED
        BY <2>0, <2>1, <2>2, <3>2, <4>2, ExitRated
    <3> QED
      BY <3>1, <3>2
  <2>4. \A d \in Cands \ {c} : Rated(recent'[d], granted'[d])
    BY <2>2 DEF RateInv
  <2> QED
    BY <2>2, <2>3, <2>4 DEF RateInv
<1> HIDE DEF to, report, crashloop
<1>6. /\ r \in SupType /\ r.cand = sup[g].cand /\ r.reg = sup[g].reg
      /\ r.alive = sup[g].alive /\ r.pc = to
  BY <1>2, <1>3 DEF SupType, SupPcs
<1> HIDE DEF r
<1>7. Moves(g) /\ sup'[g].pc = to /\ ~sup'[g].alive /\ \A h \in Gens \ {g} : sup'[h] = sup[h]
  BY <1>1, <1>2, <1>6, ReplaceMoves
<1>8. /\ call' \in [Callers -> CallType] /\ call'[g] = report
      /\ \A j \in Callers \ {g} : call'[j] = call[j]
  BY <1>1, <1>4, BlankTypes DEF StateType
<1>9. CallInv'
  <2>1. \A j \in Callers : Filling(j)' => j # g /\ Filling(j) /\ call[j].gen # g
    BY <1>1, <1>4, <1>8 DEF CallInv, Filling
  <2>2. \A j \in Callers : call'[j].at # "none" =>
         call'[j].cand \in Cands /\ (j \in Gens => sup'[j].pc \in {"respawning", "crashloop"})
    BY <1>2, <1>3, <1>4, <1>7, <1>8 DEF CallInv
  <2>3. \A j \in Callers : Filling(j)' =>
         /\ call'[j].gen \in Gens
         /\ sup'[call'[j].gen].pc = "starting"
         /\ sup'[call'[j].gen].cand = call'[j].cand
    BY <1>7, <1>8, <2>1 DEF CallInv
  <2>4. \A i, j \in Callers : Filling(i)' /\ Filling(j)' /\ call'[i].gen = call'[j].gen => i = j
    BY <1>8, <2>1 DEF CallInv
  <2>5. \A j \in Callers : call'[j].at = "insert" => \A id \in DOMAIN extensions' : extensions'[id] # call'[j].gen
    BY <1>1, <1>4, <1>8 DEF CallInv
  <2> QED
    BY <2>2, <2>3, <2>4, <2>5 DEF CallInv
<1>10. MapInv'
  <2>1. \A i \in DOMAIN extensions : extensions[i] \in Gens \ {g}
    BY <1>1 DEF MapInv
  <2> QED
    BY <1>1, <1>7, <2>1 DEF MapInv
<1>11. AliveInv'
  BY <1>1, <1>2, <1>7 DEF AliveInv, Registered, Moves
<1>12. ClaimInv'
  BY <1>1, <1>7 DEF ClaimInv, Cleaned
<1>13. StateType'
  BY <1>1, <1>7, <1>8 DEF StateType, Moves
<1>14. MainInv'
  BY <1>1, <1>7, MainKeeps DEF Moves
<1> QED
  BY <1>5, <1>9, <1>10, <1>11, <1>12, <1>13, <1>14

\* After the delay the candidate is started again, or not wanted any more.
LEMMA WakeInv ==
  ASSUME Inv, NEW g \in Gens, Wake(g)
  PROVE  Inv'
<1> USE DEF Inv
<1>1. /\ sup[g].pc = "delay"
      /\ config' = config /\ extensions' = extensions /\ routes' = routes /\ prefixes' = prefixes
      /\ failed' = failed /\ recent' = recent /\ shutting' = shutting
      /\ main' = main /\ granted' = granted
  BY DEF Wake, tables
<1>2. RateInv'
  BY <1>1 DEF RateInv, Rated
<1>3. CASE RespawnWanted(sup[g].cand)
  <2>1. BeginCall(g, sup[g].cand) /\ ~shutting
    BY <1>3 DEF Wake, RespawnWanted, should_respawn
  <2>2. sup[g].cand \in Cands /\ call[g].at = "none" /\ g \in Callers
    BY <1>1, BlankTypes DEF AliveInv, CallInv
  <2>3. Core' /\ sup' \in [Gens -> SupType] /\ call' \in [Callers -> CallType]
    BY <1>1, <2>1, <2>2, BeginCore DEF Core
  <2>4. StateType'
    BY <1>1, <2>3 DEF StateType
  <2>5. MainInv'
    BY <1>1, <2>1, MainKeeps
  <2> QED
    BY <1>2, <2>3, <2>4, <2>5 DEF Core
<1>4. CASE ~RespawnWanted(sup[g].cand)
  <2>1. sup' = [sup EXCEPT ![g] = Free] /\ call' = call
    BY <1>4 DEF Wake
  <2>2. /\ sup'[g] = Free /\ sup' \in [Gens -> SupType]
        /\ \A h \in Gens \ {g} : sup'[h] = sup[h]
    BY <2>1, BlankTypes DEF StateType
  <2>3. \A id \in DOMAIN extensions : extensions[id] # g
    BY <1>1 DEF MapInv
  <2>4. \A j \in Callers : /\ call[j].at # "none" => j # g
                           /\ call[j].at \in {"insert", "clear"} => call[j].gen # g
    BY <1>1 DEF CallInv, Filling
  <2>5. Core'
    BY <1>1, <2>1, <2>2, <2>3, <2>4, FreeCore DEF Core
  <2>6. StateType'
    BY <1>1, <2>1, <2>2 DEF StateType
  <2>7. MainInv'
    BY <1>1, <2>2, BlankFields, MainKeeps
  <2> QED
    BY <1>2, <2>5, <2>6, <2>7 DEF Core
<1> QED
  BY <1>3, <1>4

\* Every step of a supervisor keeps the invariant.
LEMMA SupStepInv ==
  ASSUME Inv, NEW g \in Gens, SupStep(g)
  PROVE  Inv'
BY SuperviseInv, CleanMapInv, CleanTablesInv, DecideInv, AccountInv, WakeInv DEF SupStep

-----------------------------------------------------------------------------
(* The main task *)

\* A clone of a handle in the map names a generation.
LEMMA HandleTypes ==
  ASSUME StateType, MapInv
  PROVE  \A h \in Handles : h \in HandleType /\ h.gen \in Gens
<1> SUFFICES ASSUME NEW id \in DOMAIN extensions
             PROVE  HandleOf(extensions[id]) \in HandleType /\ HandleOf(extensions[id]).gen \in Gens
  BY DEF Handles
<1>1. extensions[id] \in Gens
  BY DEF MapInv
<1> QED
  BY <1>1, Fields, BlankTypes DEF HandleOf, HandleType

\* The desired set of a scan.
LEMMA DesiredType ==
  ASSUME StateType, NEW found \in Scans
  PROVE  Desired(found) \subseteq Cands
BY LifecycleAssumption DEF Desired, StateType

\* A command changes nothing but the queue it is put in.
LEMMA ToldFacts ==
  ASSUME StateType, NEW g, NEW command \in Commands, sup' = Told(g, command)
  PROVE  /\ sup' \in [Gens -> SupType]
         /\ \A h \in Gens : /\ sup'[h].pc = sup[h].pc /\ sup'[h].cand = sup[h].cand
                            /\ sup'[h].reg = sup[h].reg /\ sup'[h].alive = sup[h].alive
<1>1. sup \in [Gens -> SupType]
  BY DEF StateType
<1>2. CASE sup' = sup
  BY <1>1, <1>2
<1>3. CASE sup' = [sup EXCEPT ![g].commands = Append(sup[g].commands, command)] /\ g \in Gens
  <2> DEFINE r == [sup[g] EXCEPT !.commands = Append(sup[g].commands, command)]
  <2>1. sup[g] \in SupType /\ Append(sup[g].commands, command) \in Seq(Commands)
    BY <1>3, Fields
  <2>2. /\ r \in SupType /\ r.pc = sup[g].pc /\ r.cand = sup[g].cand /\ r.reg = sup[g].reg
        /\ r.alive = sup[g].alive
    BY <2>1 DEF SupType
  <2>3. sup' = [sup EXCEPT ![g] = r]
    BY <1>3
  <2> HIDE DEF r
  <2> QED
    BY <1>1, <1>3, <2>2, <2>3
<1>4. g \notin Gens => [sup EXCEPT ![g].commands = Append(sup[g].commands, command)] = sup
  BY <1>1
<1> QED
  BY <1>2, <1>3, <1>4 DEF Told

\* The calls made by a reload, and the time that passes, keep the invariant.
LEMMA ReloadInv ==
  ASSUME Inv, Reload \/ Shutdown \/ Tick
  PROVE  Inv'
<1> USE DEF Inv
<1>1. /\ extensions' = extensions /\ routes' = routes /\ prefixes' = prefixes /\ failed' = failed
      /\ sup' = sup /\ call' = call
  BY DEF Reload, Shutdown, Tick, tables
<1>2. Core'
  BY <1>1, ShrinkCore DEF Core
<1>3. CASE Tick
  <2>1. config' = config /\ shutting' = shutting /\ main' = main
    BY <1>3 DEF Tick
  <2>2. StateType' /\ MainInv'
    BY <1>1, <2>1, MainKeeps DEF StateType
  <2>3. RateInv'
    <3>1. /\ recent' = [c \in Cands |-> Older(recent[c])]
          /\ granted' = [c \in Cands |-> PopOld(Older(granted[c]), Shortest)]
      BY <1>3 DEF Tick
    <3> QED
      BY <3>1, TickRated DEF RateInv
  <2> QED
    BY <1>2, <2>2, <2>3 DEF Core
<1>4. CASE Reload \/ Shutdown
  <2>1. /\ recent' = recent /\ granted' = granted /\ config' \in Configs /\ main.pc = "idle"
        /\ \/ main' = [main EXCEPT !.pc = "scan"] /\ shutting' = shutting
           \/ main' = [main EXCEPT !.pc = "shutdown"] /\ shutting' = TRUE
    BY <1>4 DEF Reload, Shutdown, StateType
  <2>2. /\ main' \in MainType /\ main'.pc \in {"scan", "shutdown"}
        /\ main'.pc = "shutdown" <=> shutting'
        /\ shutting' \in BOOLEAN
    <3>1. ~shutting
      BY <2>1 DEF MainInv, ShutPcs
    <3>2. main' \in MainType /\ main'.pc \in {"scan", "shutdown"}
      BY <2>1 DEF StateType, MainType, MainPcs
    <3>3. CASE main' = [main EXCEPT !.pc = "scan"] /\ shutting' = shutting
      <4>1. main'.pc = "scan"
        BY <3>3 DEF StateType, MainType
      <4> QED
        BY <3>1, <3>2, <3>3, <4>1 DEF StateType
    <3>4. CASE main' = [main EXCEPT !.pc = "shutdown"] /\ shutting' = TRUE
      <4>1. main'.pc = "shutdown"
        BY <3>4 DEF StateType, MainType
      <4> QED
        BY <3>2, <3>4, <4>1
    <3> QED
      BY <2>1, <3>3, <3>4
  <2>3. StateType'
    BY <1>1, <2>1, <2>2 DEF StateType
  <2>4. MainInv'
    BY <1>1, <2>2 DEF MainInv, ShutPcs
  <2>5. RateInv'
    BY <2>1 DEF RateInv, Rated
  <2> QED
    BY <1>2, <2>3, <2>4, <2>5 DEF Core
<1> QED
  BY <1>3, <1>4

\* The scan, and the walk over the handles it wants gone.
LEMMA StopInv ==
  ASSUME Inv, Scan \/ StopRoutes \/ StopPrefixes \/ StopSend \/ StopDone
  PROVE  Inv'
<1> USE DEF Inv
<1>1. /\ config' = config /\ extensions' = extensions /\ failed' = failed /\ call' = call
      /\ recent' = recent /\ shutting' = shutting /\ granted' = granted
  BY DEF Scan, StopRoutes, StopPrefixes, StopSend, StopDone, tables
<1>2. RateInv'
  BY <1>1 DEF RateInv, Rated
<1>3. /\ sup' \in [Gens -> SupType]
      /\ \A h \in Gens : /\ sup'[h].pc = sup[h].pc /\ sup'[h].cand = sup[h].cand
                         /\ sup'[h].reg = sup[h].reg /\ sup'[h].alive = sup[h].alive
  <2>1. sup' = sup \/ sup' = Told(main.current.gen, "drain")
    BY DEF Scan, StopRoutes, StopPrefixes, StopSend, StopDone
  <2>2. "drain" \in Commands
    BY DEF Commands
  <2> QED
    BY <2>1, <2>2, ToldFacts DEF StateType
<1>4. /\ \A k \in DOMAIN routes' : k \in DOMAIN routes /\ routes'[k] = routes[k]
      /\ \A k \in DOMAIN prefixes' : k \in DOMAIN prefixes /\ prefixes'[k] = prefixes[k]
  BY DEF Scan, StopRoutes, StopPrefixes, StopSend, StopDone, tables, Without
<1>5. Core'
  BY <1>1, <1>3, <1>4, ShrinkCore DEF Core
<1>6. /\ main' \in MainType
      /\ main'.pc \in {"stop", "stop_prefixes", "stop_send", "missing"}
      /\ main'.pc = "missing" => main'.todo \subseteq Cands
      /\ main'.pc # "missing" => main'.todo \subseteq HandleType
      /\ main.pc \in {"scan", "stop", "stop_prefixes", "stop_send"}
  <2> USE DEF StateType, MainType, MainPcs
  <2>1. CASE Scan
    <3>1. PICK found \in Scans :
            main' = [main EXCEPT !.pc = "stop", !.desired = Desired(found),
                                 !.todo = {h \in Handles : h.cand \notin Desired(found)}]
      BY <2>1 DEF Scan
    <3> DEFINE todo == {h \in Handles : h.cand \notin Desired(found)}
    <3>2. Desired(found) \subseteq Cands /\ todo \subseteq HandleType /\ main.pc = "scan"
      BY <2>1, DesiredType, HandleTypes DEF Scan
    <3> HIDE DEF todo
    <3>3. main' = [main EXCEPT !.pc = "stop", !.desired = Desired(found), !.todo = todo]
      BY <3>1 DEF todo
    <3> QED
      BY <3>2, <3>3
  <2>2. CASE StopRoutes
    <3>1. PICK h \in main.todo :
            main' = [main EXCEPT !.pc = "stop_prefixes", !.current = h, !.todo = main.todo \ {h}]
      BY <2>2 DEF StopRoutes
    <3>2. main.pc = "stop"
      BY <2>2 DEF StopRoutes
    <3>3. h \in HandleType /\ main.todo \subseteq HandleType
      BY <3>2 DEF MainInv
    <3> QED
      BY <3>1, <3>2, <3>3
  <2>3. CASE StopPrefixes
    BY <2>3 DEF StopPrefixes, MainInv
  <2>4. CASE StopSend
    BY <2>4, BlankTypes DEF StopSend, MainInv
  <2>5. CASE StopDone
    <3>1. config.enabled \subseteq Cands
      BY LifecycleAssumption
    <3> QED
      BY <2>5, <3>1 DEF StopDone
  <2> QED
    BY <2>1, <2>2, <2>3, <2>4, <2>5
<1>7. StateType'
  BY <1>1, <1>3, <1>6 DEF StateType
<1>8. MainInv'
  BY <1>1, <1>6 DEF MainInv, ShutPcs
<1> QED
  BY <1>2, <1>5, <1>7, <1>8 DEF Core

\* The calls a reload makes.
LEMMA StartInv ==
  ASSUME Inv, Missing \/ Start
  PROVE  Inv'
<1> USE DEF Inv
<1>1. /\ config' = config /\ extensions' = extensions /\ routes' = routes /\ prefixes' = prefixes
      /\ failed' = failed /\ recent' = recent /\ shutting' = shutting /\ granted' = granted
      /\ call[Main].at = "none" /\ main.pc \in {"missing", "start"}
  BY DEF Missing, Start, tables
<1>2. RateInv'
  BY <1>1 DEF RateInv, Rated
<1>3. main.todo \subseteq Cands /\ ~shutting
  BY <1>1 DEF MainInv, ShutPcs
<1>4. /\ main' \in MainType
      /\ main'.pc \in {"missing", "start", "idle"}
      /\ main'.pc # "idle" => main'.todo \subseteq Cands
  <2>1. \/ main' = [main EXCEPT !.pc = "start", !.todo = main.desired]
        \/ main' = [main EXCEPT !.pc = "idle"]
        \/ \E c \in main.todo : main' = [main EXCEPT !.todo = main.todo \ {c}]
    BY DEF Missing, Start
  <2>2. main \in MainType /\ main.desired \subseteq Cands
    BY DEF StateType, MainType
  <2>3. CASE main' = [main EXCEPT !.pc = "start", !.todo = main.desired]
    BY <1>3, <2>2, <2>3 DEF MainType, MainPcs
  <2>4. CASE main' = [main EXCEPT !.pc = "idle"]
    BY <1>3, <2>2, <2>4 DEF MainType, MainPcs
  <2>5. ASSUME NEW c \in main.todo, main' = [main EXCEPT !.todo = main.todo \ {c}]
        PROVE  /\ main' \in MainType
               /\ main'.pc \in {"missing", "start", "idle"} /\ main'.todo \subseteq Cands
    BY <1>1, <1>3, <2>2, <2>5 DEF MainType, MainPcs
  <2> QED
    BY <2>1, <2>3, <2>4, <2>5
<1>5. MainInv'
  BY <1>1, <1>3, <1>4 DEF MainInv, ShutPcs
<1>6. Core' /\ sup' \in [Gens -> SupType] /\ call' \in [Callers -> CallType]
  <2>1. CASE sup' = sup /\ call' = call
    <3>1. Core'
      BY <1>1, <2>1, ShrinkCore DEF Core
    <3> QED
      BY <2>1, <3>1 DEF StateType
  <2>2. ASSUME NEW c \in main.todo, BeginCall(Main, c)
        PROVE  Core' /\ sup' \in [Gens -> SupType] /\ call' \in [Callers -> CallType]
    BY <1>1, <1>3, <2>2, BeginCore, BlankTypes DEF Core
  <2>3. ASSUME NEW c \in main.todo, sup' = sup,
               call' = [call EXCEPT ![Main] = [NoCall EXCEPT !.at = "fail", !.cand = c]]
        PROVE  Core' /\ sup' \in [Gens -> SupType] /\ call' \in [Callers -> CallType]
    <3> DEFINE report == [NoCall EXCEPT !.at = "fail", !.cand = c]
    <3>1. report \in CallType /\ report.at = "fail" /\ report.cand = c /\ c \in Cands
      BY <1>3, BlankTypes DEF CallType, Names
    <3> HIDE DEF report
    <3>2. call' = [call EXCEPT ![Main] = report]
      BY <2>3 DEF report
    <3>3. /\ call' \in [Callers -> CallType] /\ call'[Main] = report
          /\ \A j \in Callers \ {Main} : call'[j] = call[j]
      BY <3>1, <3>2, BlankTypes DEF StateType
    <3>4. CallInv'
      <4>1. \A j \in Callers : Filling(j)' => Filling(j) /\ call'[j] = call[j]
        BY <3>1, <3>3 DEF Filling
      <4>2. \A j \in Callers : call'[j].at # "none" =>
              call'[j].cand \in Cands /\ (j \in Gens => sup'[j].pc \in {"respawning", "crashloop"})
        BY <2>3, <3>1, <3>3, BlankTypes DEF CallInv
      <4>3. \A j \in Callers : call'[j].at = "insert" =>
              \A id \in DOMAIN extensions' : extensions'[id] # call'[j].gen
        BY <1>1, <3>1, <3>3 DEF CallInv
      <4>4. \A j \in Callers : Filling(j)' =>
              /\ call'[j].gen \in Gens
              /\ sup'[call'[j].gen].pc = "starting"
              /\ sup'[call'[j].gen].cand = call'[j].cand
        <5>1. sup' = sup
          BY <2>3
        <5> QED
          BY <4>1, <5>1 DEF CallInv
      <4>5. \A i, j \in Callers : Filling(i)' /\ Filling(j)' /\ call'[i].gen = call'[j].gen => i = j
        BY <4>1 DEF CallInv
      <4> QED
        BY <4>2, <4>3, <4>4, <4>5 DEF CallInv
    <3>5. MapInv' /\ AliveInv' /\ ClaimInv'
      BY <1>1, <2>3 DEF MapInv, AliveInv, ClaimInv, Registered, Cleaned
    <3> QED
      BY <2>3, <3>3, <3>4, <3>5 DEF Core, StateType
  <2>4. \/ sup' = sup /\ call' = call
        \/ \E c \in main.todo : BeginCall(Main, c)
        \/ \E c \in main.todo : /\ sup' = sup
             /\ call' = [call EXCEPT ![Main] = [NoCall EXCEPT !.at = "fail", !.cand = c]]
    <3>1. CASE Missing
      BY <3>1 DEF Missing
    <3>2. CASE Start
      BY <3>2 DEF Start
    <3> QED
      BY <3>1, <3>2
  <2> QED
    BY <2>1, <2>2, <2>3, <2>4
<1>7. StateType'
  BY <1>1, <1>4, <1>6 DEF StateType
<1> QED
  BY <1>2, <1>5, <1>6, <1>7 DEF Core

\* The shutdown: everyone in the map is told, and waited for.
LEMMA ShutdownInv ==
  ASSUME Inv, ShutdownSnapshot \/ ShutdownSend \/ ShutdownWait
  PROVE  Inv'
<1> USE DEF Inv
<1>1. /\ config' = config /\ extensions' = extensions /\ routes' = routes /\ prefixes' = prefixes
      /\ failed' = failed /\ recent' = recent /\ shutting' = shutting /\ granted' = granted
      /\ call' = call
      /\ main.pc \in {"shutdown", "shutdown_send", "shutdown_wait"} /\ main \in MainType
  BY DEF ShutdownSnapshot, ShutdownSend, ShutdownWait, tables, StateType
<1>2. RateInv' /\ shutting
  BY <1>1 DEF RateInv, Rated, MainInv, ShutPcs
<1>3. /\ sup' \in [Gens -> SupType]
      /\ \A h \in Gens : /\ sup'[h].pc = sup[h].pc /\ sup'[h].cand = sup[h].cand
                         /\ sup'[h].reg = sup[h].reg /\ sup'[h].alive = sup[h].alive
  <2>1. sup' = sup \/ \E h \in main.todo : sup' = Told(h.gen, "stop")
    BY DEF ShutdownSnapshot, ShutdownSend, ShutdownWait
  <2>2. "stop" \in Commands
    BY DEF Commands
  <2> QED
    BY <2>1, <2>2, ToldFacts DEF StateType
<1>4. Core'
  BY <1>1, <1>3, ShrinkCore DEF Core
<1>5. main' \in MainType /\ MainInv'
  <2>1. CASE ShutdownSnapshot
    <3>1. main' = [main EXCEPT !.pc = "shutdown_send", !.todo = Handles]
      BY <2>1 DEF ShutdownSnapshot
    <3>2. \A h \in Handles : h \in HandleType /\ h.gen \in Gens
      BY HandleTypes
    <3> HIDE DEF Handles
    <3>3. /\ main' \in MainType /\ main'.todo = Handles /\ main'.pc = "shutdown_send"
      BY <1>1, <3>1, <3>2 DEF MainType, MainPcs
    <3> QED
      BY <1>1, <1>2, <3>2, <3>3 DEF MainInv, ShutPcs
  <2>2. CASE ShutdownSend /\ main.todo = {}
    <3>1. main' = [main EXCEPT !.pc = "shutdown_wait"]
      BY <2>2 DEF ShutdownSend
    <3>2. main' \in MainType /\ main'.pc = "shutdown_wait"
      BY <1>1, <3>1 DEF MainType, MainPcs
    <3> QED
      BY <1>1, <1>2, <3>2 DEF MainInv, ShutPcs
  <2>3. CASE ShutdownSend /\ main.todo # {}
    <3>1. PICK h \in main.todo : main' = [main EXCEPT !.todo = main.todo \ {h}]
      BY <2>3 DEF ShutdownSend
    <3>2. main.pc = "shutdown_send"
      BY <2>3 DEF ShutdownSend
    <3>3. /\ main' \in MainType /\ main'.todo = main.todo \ {h}
          /\ main'.pc = "shutdown_send"
      BY <1>1, <3>1, <3>2 DEF MainType, MainPcs
    <3> QED
      BY <1>1, <1>2, <3>2, <3>3 DEF MainInv, ShutPcs
  <2>4. CASE ShutdownWait
    <3>1. main' = [main EXCEPT !.pc = "off"]
      BY <2>4 DEF ShutdownWait
    <3>2. main' \in MainType /\ main'.pc = "off"
      BY <1>1, <3>1 DEF MainType, MainPcs
    <3> QED
      BY <1>1, <1>2, <3>2 DEF MainInv, ShutPcs
  <2> QED
    BY <2>1, <2>2, <2>3, <2>4
<1>6. StateType'
  BY <1>1, <1>3, <1>5 DEF StateType
<1> QED
  BY <1>2, <1>4, <1>5, <1>6 DEF Core

-----------------------------------------------------------------------------
(* The theorems *)

\* The empty server satisfies the invariant.
LEMMA InitInv == Init => Inv
<1> SUFFICES ASSUME Init PROVE Inv
  OBVIOUS
<1> USE BlankTypes, BlankFields, LifecycleAssumption DEF Init
<1>1. \A g \in Gens : sup[g] = Free
  OBVIOUS
<1>2. \A k \in Callers : call[k] = NoCall
  OBVIOUS
<1>3. DOMAIN extensions = {} /\ DOMAIN routes = {} /\ DOMAIN prefixes = {}
  OBVIOUS
<1>4. main \in MainType /\ main.pc = "scan"
  BY DEF MainType, MainPcs
<1>5. StateType
  BY <1>4 DEF StateType
<1>6. CallInv /\ MapInv /\ AliveInv /\ ClaimInv
  BY <1>1, <1>2, <1>3 DEF CallInv, Filling, MapInv, AliveInv, ClaimInv
<1>7. MainInv
  BY <1>4 DEF MainInv, ShutPcs
<1>8. RateInv
  <2>1. Ages(<< >>) /\ Len(<< >>) = 0 /\ 1..0 = {}
    BY DEF Ages
  <2>2. Rated(<< >>, << >>)
    BY <2>1 DEF Rated
  <2> QED
    BY <2>2 DEF RateInv
<1> QED
  BY <1>5, <1>6, <1>7, <1>8 DEF Inv

\* Every step keeps the invariant.
LEMMA NextInv == Inv /\ [Next]_vars => Inv'
<1> SUFFICES ASSUME Inv, [Next]_vars PROVE Inv'
  OBVIOUS
<1>1. CASE UNCHANGED vars
  <2>1. /\ config' = config /\ extensions' = extensions /\ routes' = routes /\ prefixes' = prefixes
        /\ failed' = failed /\ recent' = recent /\ shutting' = shutting /\ granted' = granted
        /\ call' = call /\ sup' = sup /\ main' = main
    BY <1>1 DEF vars, tables
  <2>2. Core'
    BY <2>1, ShrinkCore DEF Inv, Core
  <2>3. StateType' /\ RateInv' /\ MainInv'
    BY <2>1, MainKeeps DEF Inv, StateType, RateInv, Rated
  <2> QED
    BY <2>2, <2>3 DEF Inv, Core
<1>2. CASE \E k \in Callers : CallNext(k)
  BY <1>2, CallStepInv DEF CallNext
<1>3. CASE \E g \in Gens : SupNext(g) \/ ((ChildExits(g) \/ KillAndRespawn(g)) /\ Running)
  BY <1>3, SupStepInv, ChildInv DEF SupNext
<1>4. CASE MainNext
  BY <1>4, StopInv, StartInv, ShutdownInv DEF MainNext, MainStep
<1>5. CASE (Reload \/ Shutdown \/ Tick) /\ Running
  BY <1>5, ReloadInv
<1> QED
  BY <1>1, <1>2, <1>3, <1>4, <1>5 DEF Next

\* The invariant holds of every behaviour, for every value of the constants.
THEOREM InvAlways == Spec => []Inv
BY InitInv, NextInv, PTL DEF Spec

\* A route or a channel prefix is owned by an extension in the map or by a
\* generation whose cleanup is about to remove it, and the map, the calls and
\* the processes are well typed: claims follow the map through crashes,
\* respawns, reloads and shutdown (cleanup_extension_generation).
THEOREM ClaimsFollowTheMapAlways == Spec => []ClaimsFollowTheMap
<1>1. Inv => ClaimsFollowTheMap
  <2> SUFFICES ASSUME Inv PROVE ClaimsFollowTheMap
    OBVIOUS
  <2>1. TypeOK
    BY DEF Inv, TypeOK, StateType, MapInv, AliveInv, CallInv
  <2> QED
    BY <2>1 DEF Inv, ClaimInv, Cleaned, ClaimsFollowTheMap
<1> QED
  BY <1>1, InvAlways, PTL

\* No candidate ever has two registered processes alive (start_extension's
\* tests under the map's lock, and the wait for the child in
\* supervise_extension), whatever reloads, respawns and stops interleave.
THEOREM SingleProcessAlways == Spec => []SingleProcess
<1>1. Inv => SingleProcess
  <2> SUFFICES ASSUME Inv, NEW c \in Cands
               PROVE  Cardinality({g \in Gens : sup[g].cand = c /\ sup[g].alive /\ Registered(g)}) <= 1
    BY DEF SingleProcess
  <2> DEFINE S == {g \in Gens : sup[g].cand = c /\ sup[g].alive /\ Registered(g)}
  <2>1. \A g, h \in S : g = h
    <3> SUFFICES ASSUME NEW g \in S, NEW h \in S PROVE g = h
      OBVIOUS
    <3>1. /\ sup[g].reg.id \in DOMAIN extensions /\ extensions[sup[g].reg.id] = g
          /\ sup[h].reg.id \in DOMAIN extensions /\ extensions[sup[h].reg.id] = h
          /\ sup[g].cand = sup[h].cand
      BY DEF Inv, AliveInv
    <3>2. sup[g].reg.id = sup[h].reg.id
      BY <3>1 DEF Inv, MapInv
    <3> QED
      BY <3>1, <3>2
  <2> HIDE DEF S
  <2>2. S = {} \/ \E g \in S : S = {g}
    BY <2>1
  <2>3. Cardinality({}) = 0
    BY FS_EmptySet
  <2>4. ASSUME NEW g PROVE Cardinality({g}) = 1
    BY FS_Singleton
  <2>5. Cardinality(S) \in {0, 1}
    <3>1. CASE S = {}
      BY <2>3, <3>1, Zenon
    <3>2. ASSUME NEW g \in S, S = {g} PROVE Cardinality(S) \in {0, 1}
      <4>1. Cardinality({g}) = 1
        BY <2>4
      <4> QED
        BY <3>2, <4>1, Zenon
    <3> QED
      BY <2>2, <3>1, <3>2
  <2>6. Cardinality(S) <= 1
    BY <2>5
  <2> QED
    BY <2>6 DEF S
<1> QED
  BY <1>1, InvAlways, PTL

\* No more respawns than the largest crashloop_threshold are granted to a
\* candidate within the shortest crashloop window, however exits, ticks and the
\* reloads that change both interleave (next_respawn_delay).
THEOREM RespawnRateAlways == Spec => []RespawnRate
<1>1. Inv => RespawnRate
  BY DEF Inv, RateInv, Rated, RespawnRate
<1> QED
  BY <1>1, InvAlways, PTL

-----------------------------------------------------------------------------
(***************************************************************************)
(* Claims, marks and statuses.  Between two generations of one candidate    *)
(* the tables are cleaned by id and by key, so a generation's claims are    *)
(* safe only while no other generation of its candidate is still cleaning.  *)
(* Outside the races that raced records there is at most one generation of  *)
(* a candidate, or two of which one has called for the other.               *)
(***************************************************************************)

OfCand(g, c) == sup[g].pc # "free" /\ sup[g].cand = c
InMap(g) == sup[g].reg.id \in DOMAIN extensions /\ extensions[sup[g].reg.id] = g
Drained(g) == Contains(sup[g].commands, "drain")
Stopping(g) == Contains(sup[g].commands, "stop")
Wanted(c) == config.autostart_all \/ c \in config.enabled

\* A generation is in the map until its cleanup, has its candidate's
\* registration after it, and is there because a call filled the slot.
SlotInv ==
  /\ \A g \in Gens :
       /\ sup[g].pc \in {"watch", "drain", "remove"} => InMap(g)
       /\ sup[g].pc \notin {"free", "starting"} => sup[g].reg \in RegsOf[sup[g].cand]
       /\ sup[g].pc \in {"account", "crashloop", "delay", "respawning"} => sup[g].respawn
       /\ sup[g].pc = "starting" => \E k \in Callers : Filling(k) /\ call[k].gen = g
  /\ \A k \in Callers :
       /\ \A g \in Gens : call[k].at = "clear" /\ call[k].gen = g =>
            InMap(g) /\ sup[g].reg \in RegsOf[call[k].cand]
       /\ k \in Gens /\ call[k].at # "none" => sup[k].cand = call[k].cand

\* The supervisor k has called for generation n.
Calls(k, n) ==
  /\ sup[k].pc = "respawning"
  /\ call[k].at \in {"insert", "clear", "ok"}
  /\ call[k].gen = n

ChainInv ==
  \A c \in Cands \ raced :
    /\ Reloading => ~Between(c)
    /\ ~Overtaken(c)
    /\ \A g, h \in Gens : OfCand(g, c) /\ OfCand(h, c) => g = h \/ Calls(g, h) \/ Calls(h, g)

Chain == Inv /\ SlotInv /\ ChainInv

\* What every step adds to raced.
Tracks ==
  /\ raced \subseteq raced'
  /\ \A c \in Cands \ raced' : (Reloading' => ~Between(c)') /\ ~Overtaken(c)'

-----------------------------------------------------------------------------
(* What a step does to the slots, the calls and the map: one of ten shapes.  *)

Others(g) == \A h \in Gens \ {g} : sup'[h] = sup[h]
OtherCalls(k) == \A j \in Callers \ {k} : call'[j] = call[j]
SameButPc(g) ==
  /\ sup'[g].cand = sup[g].cand /\ sup'[g].reg = sup[g].reg
  /\ sup'[g].respawn = sup[g].respawn /\ sup'[g].commands = sup[g].commands

\* A generation stays in its slot, and moves along one edge at most.
Edge(h) ==
  /\ sup'[h].cand = sup[h].cand /\ sup'[h].reg = sup[h].reg
  /\ Drained(h) => Drained(h)'
  /\ \/ sup'[h].pc = sup[h].pc /\ sup'[h].respawn = sup[h].respawn
     \/ /\ sup[h].pc = "watch" /\ sup'[h].pc \in {"drain", "remove"}
        /\ sup'[h].respawn \/ Drained(h) \/ Stopping(h)
     \/ /\ sup[h].pc = "drain" /\ sup'[h].pc = "remove"
        /\ sup'[h].respawn = sup[h].respawn
     \/ /\ sup[h].pc \in {"routes", "prefixes", "mark"}
        /\ sup'[h].pc \in {"prefixes", "mark", "decide"}
        /\ sup'[h].respawn = sup[h].respawn
     \/ /\ sup[h].pc = "decide" /\ sup'[h].pc = "account"
        /\ sup[h].respawn /\ sup'[h].respawn

Quiet == (\A h \in Gens : Edge(h)) /\ call' = call /\ extensions' = extensions

Begins(k, c, n) ==
  /\ c \in Cands /\ n \in Gens /\ n # k /\ sup[n].pc = "free" /\ n \notin Held
  /\ sup'[n].pc = "starting" /\ sup'[n].cand = c /\ sup'[n].commands = << >>
  /\ k \in Gens => /\ sup[k].pc = "delay" /\ sup[k].cand = c /\ Wanted(c)
                   /\ sup'[k].pc = "respawning" /\ SameButPc(k)
  /\ k \notin Gens => main.pc = "start" /\ c \in main.todo /\ ~Active(c)
  /\ \A h \in Gens \ {n, k} : sup'[h] = sup[h]
  /\ call[k].at = "none" /\ OtherCalls(k)
  /\ call'[k].at = "insert" /\ call'[k].cand = c /\ call'[k].gen = n
  /\ extensions' = extensions

Fails(k) ==
  /\ call[k].at = "insert" /\ sup'[call[k].gen] = Free /\ Others(call[k].gen)
  /\ call'[k].at = "fail" /\ call'[k].cand = call[k].cand /\ OtherCalls(k)
  /\ extensions' = extensions

Inserts(k, g, reg) ==
  /\ call[k].at = "insert" /\ g = call[k].gen
  /\ reg \in RegsOf[call[k].cand] /\ ~Collides(call[k].cand, reg)
  /\ sup'[g].pc = sup[g].pc /\ sup'[g].cand = sup[g].cand /\ sup'[g].reg = reg
  /\ sup'[g].respawn = sup[g].respawn /\ sup'[g].commands = sup[g].commands /\ Others(g)
  /\ call'[k].at = "clear" /\ call'[k].cand = call[k].cand /\ call'[k].gen = g /\ OtherCalls(k)
  /\ DOMAIN extensions' = DOMAIN extensions \cup {reg.id} /\ extensions'[reg.id] = g
  /\ \A id \in DOMAIN extensions : extensions'[id] = extensions[id]

Clears(k, g) ==
  /\ call[k].at = "clear" /\ g = call[k].gen
  /\ sup'[g].pc = "watch" /\ SameButPc(g) /\ Others(g)
  /\ call'[k].at = "ok" /\ call'[k].cand = call[k].cand /\ call'[k].gen = g /\ OtherCalls(k)
  /\ extensions' = extensions

Returns(k) ==
  /\ k \in Gens /\ call[k].at \in {"ok", "fail"}
  /\ sup'[k] = Free /\ Others(k) /\ call'[k] = NoCall /\ OtherCalls(k)
  /\ extensions' = extensions

Answers ==
  /\ sup' = sup /\ extensions' = extensions /\ OtherCalls(Main)
  /\ \/ call[Main].at \in {"ok", "fail"} /\ call'[Main] = NoCall
     \/ /\ call[Main].at = "none" /\ call'[Main].at = "fail"
        /\ main.pc = "missing" /\ ~Active(call'[Main].cand)

Unmaps(g) ==
  /\ sup[g].pc = "remove" /\ sup'[g].pc = "routes" /\ SameButPc(g) /\ Others(g)
  /\ DOMAIN extensions' = DOMAIN extensions \ {sup[g].reg.id}
  /\ \A id \in DOMAIN extensions' : extensions'[id] = extensions[id]
  /\ call' = call

Ends(g) ==
  /\ sup[g].pc \in {"decide", "delay"} /\ sup'[g] = Free /\ Others(g)
  /\ call' = call /\ extensions' = extensions

Accounts(g) ==
  /\ sup[g].pc = "account" /\ sup'[g].pc \in {"crashloop", "delay"} /\ SameButPc(g) /\ Others(g)
  /\ call'[g].at \in {"none", "fail"} /\ call'[g].cand \in {NoName, sup[g].cand}
  /\ call'[g].at = "fail" => call'[g].cand = sup[g].cand
  /\ OtherCalls(g) /\ extensions' = extensions

Shape ==
  \/ Quiet
  \/ \E k \in Callers, c \in Cands, n \in Gens : Begins(k, c, n)
  \/ \E k \in Callers : Fails(k)
  \/ \E k \in Callers, g \in Gens : \E reg \in RegsOf[call[k].cand] : Inserts(k, g, reg)
  \/ \E k \in Callers, g \in Gens : Clears(k, g)
  \/ \E k \in Callers : Returns(k)
  \/ Answers
  \/ \E g \in Gens : Unmaps(g) \/ Ends(g) \/ Accounts(g)

\* The facts of Inv that the shapes are about.
LEMMA CallFacts ==
  ASSUME Inv
  PROVE  /\ \A k \in Callers : Filling(k) =>
              /\ call[k].gen \in Gens /\ sup[call[k].gen].pc = "starting"
              /\ sup[call[k].gen].cand = call[k].cand
              /\ \A j \in Callers : Filling(j) /\ call[j].gen = call[k].gen => j = k
         /\ \A k \in Gens : call[k].at # "none" => sup[k].pc \in {"respawning", "crashloop"}
         /\ \A k \in Callers : call[k].at # "none" => call[k].cand \in Cands
         /\ \A k \in Callers : call[k].at = "insert" =>
              \A id \in DOMAIN extensions : extensions[id] # call[k].gen
         /\ Gens \subseteq Callers /\ Main \in Callers /\ Main \notin Gens
         /\ \A g \in Gens : sup[g].pc # "free" => sup[g].cand \in Cands
         /\ \A id \in DOMAIN extensions :
              /\ extensions[id] \in Gens /\ sup[extensions[id]].reg.id = id
              /\ sup[extensions[id]].pc \in {"starting", "watch", "drain", "remove"}
BY BlankTypes DEF Inv, CallInv, AliveInv, MapInv

\* The slots stay sound: one case per shape.
LEMMA SlotKept ==
  ASSUME Inv, SlotInv, Shape
  PROVE  SlotInv'
<1> USE CallFacts, BlankFields
<1>1. CASE Quiet
  <2>1. \A g \in Gens : Edge(g)
    BY <1>1 DEF Quiet
  <2>2. \A g \in Gens : InMap(g)' <=> InMap(g)
    BY <1>1, <2>1 DEF Quiet, Edge, InMap
  <2>3. \A k \in Callers : Filling(k)' <=> Filling(k)
    BY <1>1 DEF Quiet, Filling
  <2>4. \A g \in Gens :
       /\ sup'[g].pc \in {"watch", "drain", "remove"} => InMap(g)'
       /\ sup'[g].pc \notin {"free", "starting"} => sup'[g].reg \in RegsOf[sup'[g].cand]
       /\ sup'[g].pc \in {"account", "crashloop", "delay", "respawning"} => sup'[g].respawn
       /\ sup'[g].pc = "starting" => \E k \in Callers : Filling(k)' /\ call'[k].gen = g
    <3> SUFFICES ASSUME NEW g \in Gens
                 PROVE  /\ sup'[g].pc \in {"watch", "drain", "remove"} => InMap(g)'
                        /\ sup'[g].pc \notin {"free", "starting"} => sup'[g].reg \in RegsOf[sup'[g].cand]
                        /\ sup'[g].pc \in {"account", "crashloop", "delay", "respawning"} => sup'[g].respawn
                        /\ sup'[g].pc = "starting" => sup[g].pc = "starting"
      BY <1>1, <2>3 DEF SlotInv, Quiet
    <3>1. Edge(g)
      BY <2>1
    <3> QED
      BY <2>2, <3>1 DEF Edge, SlotInv
  <2>5. \A k \in Callers :
       /\ \A x \in Gens : call'[k].at = "clear" /\ call'[k].gen = x =>
            InMap(x)' /\ sup'[x].reg \in RegsOf[call'[k].cand]
       /\ k \in Gens /\ call'[k].at # "none" => sup'[k].cand = call'[k].cand
    <3> SUFFICES ASSUME NEW k \in Callers
                 PROVE  /\ \A x \in Gens : call[k].at = "clear" /\ call[k].gen = x =>
                                InMap(x)' /\ sup'[x].reg \in RegsOf[call[k].cand]
                        /\ k \in Gens /\ call[k].at # "none" => sup'[k].cand = call[k].cand
      BY <1>1 DEF Quiet
    <3>1. call[k].at = "clear" => call[k].gen \in Gens
      BY DEF Filling
    <3> QED
      BY <2>1, <2>2, <3>1 DEF Edge, SlotInv
  <2> QED
    BY <1>1, <2>4, <2>5 DEF SlotInv, Quiet
<1>2. ASSUME NEW k \in Callers, NEW c \in Cands, NEW n \in Gens, Begins(k, c, n)
      PROVE  SlotInv'
  <2> USE <1>2 DEF Begins
  <2>1. \A j \in Callers \ {k} : Filling(j)' <=> Filling(j)
    BY DEF OtherCalls, Filling
  <2>2. Filling(k)' /\ call'[k].gen = n
    BY DEF Filling
  <2>3. \A g \in Gens \ {n} : sup[g].pc # "free" => (InMap(g)' <=> InMap(g))
    BY DEF InMap, SameButPc
  <2>4. ~Filling(k)
    BY DEF Filling
  <2>5. \A g \in Gens :
       /\ sup'[g].pc \in {"watch", "drain", "remove"} => InMap(g)'
       /\ sup'[g].pc \notin {"free", "starting"} => sup'[g].reg \in RegsOf[sup'[g].cand]
       /\ sup'[g].pc \in {"account", "crashloop", "delay", "respawning"} => sup'[g].respawn
    BY <2>3 DEF SlotInv, SameButPc
  <2>6. \A g \in Gens \ {n} : sup'[g].pc = "starting" => \E j \in Callers : Filling(j)' /\ call'[j].gen = g
    BY <2>1, <2>4 DEF SlotInv, OtherCalls
  <2>7. \A j \in Callers :
       /\ \A x \in Gens : call'[j].at = "clear" /\ call'[j].gen = x =>
            InMap(x)' /\ sup'[x].reg \in RegsOf[call'[j].cand]
       /\ j \in Gens /\ call'[j].at # "none" => sup'[j].cand = call'[j].cand
    <3> SUFFICES ASSUME NEW j \in Callers
                 PROVE  /\ \A x \in Gens : call'[j].at = "clear" /\ call'[j].gen = x =>
                                InMap(x)' /\ sup'[x].reg \in RegsOf[call'[j].cand]
                        /\ j \in Gens /\ call'[j].at # "none" => sup'[j].cand = call'[j].cand
      OBVIOUS
    <3>1. CASE j = k
      BY <3>1 DEF SameButPc
    <3>2. CASE j # k
      <4>1. call'[j] = call[j] /\ (j \in Gens /\ call[j].at # "none" => j # n)
        BY <3>2 DEF OtherCalls
      <4>2. call[j].at = "clear" => call[j].gen \in Gens \ {n, k}
        BY DEF Filling
      <4>3. call[j].at = "clear" => sup'[call[j].gen] = sup[call[j].gen]
        BY <4>2
      <4> QED
        BY <3>2, <4>1, <4>2, <4>3 DEF SlotInv, InMap
    <3> QED
      BY <3>1, <3>2
  <2> QED
    BY <2>2, <2>5, <2>6, <2>7 DEF SlotInv
<1>3. ASSUME NEW k \in Callers, Fails(k)
      PROVE  SlotInv'
  <2> DEFINE n == call[k].gen
  <2>1. /\ n \in Gens /\ sup'[n] = Free /\ \A g \in Gens \ {n} : sup'[g] = sup[g]
        /\ \A j \in Callers \ {k} : call'[j] = call[j]
        /\ call'[k].at = "fail" /\ call'[k].cand = call[k].cand /\ extensions' = extensions
    BY <1>3 DEF Fails, Others, OtherCalls, Filling
  <2>2. \A j \in Callers \ {k} : Filling(j) => call[j].gen # n /\ Filling(j)'
    BY <1>3, <2>1 DEF Fails, Filling
  <2> HIDE DEF n
  <2>3. \A g \in Gens \ {n} : InMap(g)' <=> InMap(g)
    BY <2>1 DEF InMap
  <2>4. \A g \in Gens \ {n} : sup[g].pc = "starting" => \E j \in Callers : Filling(j)' /\ call'[j].gen = g
    BY <2>1, <2>2 DEF SlotInv, n
  <2>5. \A j \in Callers :
       /\ \A x \in Gens : call'[j].at = "clear" /\ call'[j].gen = x =>
            InMap(x)' /\ sup'[x].reg \in RegsOf[call'[j].cand]
       /\ j \in Gens /\ call'[j].at # "none" => sup'[j].cand = call'[j].cand
    <3> SUFFICES ASSUME NEW j \in Callers
                 PROVE  /\ \A x \in Gens : call'[j].at = "clear" /\ call'[j].gen = x =>
                                InMap(x)' /\ sup'[x].reg \in RegsOf[call'[j].cand]
                        /\ j \in Gens /\ call'[j].at # "none" => sup'[j].cand = call'[j].cand
      OBVIOUS
    <3>1. j \in Gens /\ call[j].at # "none" => j # n
      BY <1>3 DEF Fails, Filling, n
    <3>2. CASE j = k
      BY <1>3, <2>1, <3>1, <3>2 DEF SlotInv, Fails
    <3>3. CASE j # k
      BY <2>1, <2>2, <2>3, <3>1, <3>3 DEF SlotInv, Filling
    <3> QED
      BY <3>2, <3>3
  <2> QED
    BY <2>1, <2>3, <2>4, <2>5 DEF SlotInv
<1>4. ASSUME NEW k \in Callers, NEW g \in Gens, NEW reg \in RegsOf[call[k].cand], Inserts(k, g, reg)
      PROVE  SlotInv'
  <2> USE <1>4 DEF Inserts
  <2>1. \A j \in Callers : Filling(j)' <=> Filling(j)
    BY DEF OtherCalls, Filling
  <2>2. reg.id \notin DOMAIN extensions /\ sup[g].pc = "starting" /\ sup[g].cand = call[k].cand
    BY DEF Collides, Filling
  <2>3. InMap(g)' /\ \A h \in Gens \ {g} : InMap(h) => InMap(h)'
    BY <2>2 DEF InMap, Others
  <2>4. \A j \in Callers \ {k} : Filling(j) => call[j].gen # g
    BY DEF Filling
  <2>5. \A h \in Gens :
       /\ sup'[h].pc \in {"watch", "drain", "remove"} => InMap(h)'
       /\ sup'[h].pc \notin {"free", "starting"} => sup'[h].reg \in RegsOf[sup'[h].cand]
       /\ sup'[h].pc \in {"account", "crashloop", "delay", "respawning"} => sup'[h].respawn
    BY <2>2, <2>3 DEF SlotInv, Others
  <2>6. \A h \in Gens : sup'[h].pc = "starting" => \E j \in Callers : Filling(j)' /\ call'[j].gen = h
    <3>1. \A h \in Gens : sup'[h].pc = sup[h].pc
      BY DEF Others
    <3>2. \A j \in Callers : call'[j].gen = call[j].gen
      BY DEF OtherCalls
    <3> QED
      BY <2>1, <3>1, <3>2 DEF SlotInv
  <2>7. \A j \in Callers :
       /\ \A x \in Gens : call'[j].at = "clear" /\ call'[j].gen = x =>
            InMap(x)' /\ sup'[x].reg \in RegsOf[call'[j].cand]
       /\ j \in Gens /\ call'[j].at # "none" => sup'[j].cand = call'[j].cand
    <3> SUFFICES ASSUME NEW j \in Callers
                 PROVE  /\ \A x \in Gens : call'[j].at = "clear" /\ call'[j].gen = x =>
                                InMap(x)' /\ sup'[x].reg \in RegsOf[call'[j].cand]
                        /\ j \in Gens /\ call'[j].at # "none" => sup'[j].cand = call'[j].cand
      OBVIOUS
    <3>1. \A h \in Gens : sup'[h].cand = sup[h].cand
      BY DEF Others
    <3>2. CASE j = k
      BY <2>3, <3>1, <3>2 DEF SlotInv
    <3>3. CASE j # k
      <4>1. call'[j] = call[j] /\ (call[j].at = "clear" => call[j].gen \in Gens \ {g})
        BY <2>4, <3>3 DEF OtherCalls, Filling
      <4> QED
        BY <2>3, <3>1, <3>3, <4>1 DEF SlotInv, Others
    <3> QED
      BY <3>2, <3>3
  <2> QED
    BY <2>5, <2>6, <2>7 DEF SlotInv
<1>5. ASSUME NEW k \in Callers, NEW g \in Gens, Clears(k, g)
      PROVE  SlotInv'
  <2> USE <1>5 DEF Clears
  <2>1. \A j \in Callers \ {k} : /\ Filling(j)' <=> Filling(j)
                                 /\ Filling(j) => call[j].gen # g
    BY DEF OtherCalls, Filling
  <2>2. \A h \in Gens : InMap(h)' <=> InMap(h)
    BY DEF InMap, Others, SameButPc
  <2>3. InMap(g) /\ sup[g].reg \in RegsOf[call[k].cand] /\ sup[g].cand = call[k].cand
    BY DEF SlotInv, Filling
  <2>4. \A h \in Gens :
       /\ sup'[h].pc \in {"watch", "drain", "remove"} => InMap(h)'
       /\ sup'[h].pc \notin {"free", "starting"} => sup'[h].reg \in RegsOf[sup'[h].cand]
       /\ sup'[h].pc \in {"account", "crashloop", "delay", "respawning"} => sup'[h].respawn
    BY <2>2, <2>3 DEF SlotInv, Others, SameButPc
  <2>5. \A h \in Gens : sup'[h].pc = "starting" => \E j \in Callers : Filling(j)' /\ call'[j].gen = h
    <3>1. \A h \in Gens : sup'[h].pc = "starting" => h # g /\ sup[h].pc = "starting"
      BY DEF Others
    <3> QED
      BY <2>1, <3>1 DEF SlotInv, OtherCalls
  <2>6. \A j \in Callers :
       /\ \A x \in Gens : call'[j].at = "clear" /\ call'[j].gen = x =>
            InMap(x)' /\ sup'[x].reg \in RegsOf[call'[j].cand]
       /\ j \in Gens /\ call'[j].at # "none" => sup'[j].cand = call'[j].cand
    <3> SUFFICES ASSUME NEW j \in Callers
                 PROVE  /\ \A x \in Gens : call'[j].at = "clear" /\ call'[j].gen = x =>
                                InMap(x)' /\ sup'[x].reg \in RegsOf[call'[j].cand]
                        /\ j \in Gens /\ call'[j].at # "none" => sup'[j].cand = call'[j].cand
      OBVIOUS
    <3>1. \A h \in Gens : sup'[h].cand = sup[h].cand /\ sup'[h].reg = sup[h].reg
      BY DEF Others, SameButPc
    <3>2. CASE j = k
      BY <3>1, <3>2 DEF SlotInv
    <3>3. CASE j # k
      <4>1. call'[j] = call[j] /\ (call[j].at = "clear" => call[j].gen \in Gens)
        BY <3>3 DEF OtherCalls, Filling
      <4> QED
        BY <2>2, <3>1, <3>3, <4>1 DEF SlotInv
    <3> QED
      BY <3>2, <3>3
  <2> QED
    BY <2>4, <2>5, <2>6 DEF SlotInv
<1>6. ASSUME NEW k \in Callers, Returns(k)
      PROVE  SlotInv'
  <2> USE <1>6 DEF Returns
  <2>1. \A j \in Callers : /\ Filling(j)' <=> Filling(j)
                           /\ Filling(j) => call[j].gen # k /\ j # k
    BY DEF OtherCalls, Filling
  <2>2. \A h \in Gens \ {k} : InMap(h)' <=> InMap(h)
    BY DEF InMap, Others
  <2>3. \A h \in Gens : sup'[h].pc = "starting" => \E j \in Callers : Filling(j)' /\ call'[j].gen = h
    <3>1. \A h \in Gens : sup'[h].pc = "starting" => sup[h].pc = "starting"
      BY DEF Others
    <3> QED
      BY <2>1, <3>1 DEF SlotInv, OtherCalls
  <2>4. \A j \in Callers :
       /\ \A x \in Gens : call'[j].at = "clear" /\ call'[j].gen = x =>
            InMap(x)' /\ sup'[x].reg \in RegsOf[call'[j].cand]
       /\ j \in Gens /\ call'[j].at # "none" => sup'[j].cand = call'[j].cand
    BY <2>1, <2>2 DEF SlotInv, Others, OtherCalls, Filling
  <2> QED
    BY <2>2, <2>3, <2>4 DEF SlotInv, Others
<1>7. CASE Answers
  <2> USE <1>7 DEF Answers
  <2>1. \A j \in Callers : /\ Filling(j)' <=> Filling(j)
                           /\ Filling(j) => call'[j] = call[j]
    BY DEF OtherCalls, Filling
  <2>2. \A h \in Gens : InMap(h)' <=> InMap(h)
    BY DEF InMap
  <2>3. \A h \in Gens : sup'[h].pc = "starting" => \E j \in Callers : Filling(j)' /\ call'[j].gen = h
    BY <2>1 DEF SlotInv
  <2>4. \A j \in Callers :
       /\ \A x \in Gens : call'[j].at = "clear" /\ call'[j].gen = x =>
            InMap(x)' /\ sup'[x].reg \in RegsOf[call'[j].cand]
       /\ j \in Gens /\ call'[j].at # "none" => sup'[j].cand = call'[j].cand
    BY <2>1, <2>2 DEF SlotInv, OtherCalls, Filling
  <2> QED
    BY <2>2, <2>3, <2>4 DEF SlotInv
<1>8. ASSUME NEW g \in Gens, Unmaps(g)
      PROVE  SlotInv'
  <2> USE <1>8 DEF Unmaps
  <2>1. \A h \in Gens \ {g} : InMap(h) => InMap(h)'
    BY DEF InMap, Others, SlotInv
  <2>2. \A j \in Callers : /\ Filling(j)' <=> Filling(j)
                           /\ Filling(j) => call[j].gen \in Gens \ {g}
    BY DEF Filling
  <2>3. \A h \in Gens : sup'[h].pc = "starting" => \E j \in Callers : Filling(j)' /\ call'[j].gen = h
    <3>1. \A h \in Gens : sup'[h].pc = "starting" => sup[h].pc = "starting"
      BY DEF Others
    <3> QED
      BY <2>2, <3>1 DEF SlotInv
  <2>4. \A j \in Callers :
       /\ \A x \in Gens : call'[j].at = "clear" /\ call'[j].gen = x =>
            InMap(x)' /\ sup'[x].reg \in RegsOf[call'[j].cand]
       /\ j \in Gens /\ call'[j].at # "none" => sup'[j].cand = call'[j].cand
    BY <2>1, <2>2 DEF SlotInv, Others, SameButPc, Filling
  <2>5. \A h \in Gens :
       /\ sup'[h].pc \in {"watch", "drain", "remove"} => InMap(h)'
       /\ sup'[h].pc \notin {"free", "starting"} => sup'[h].reg \in RegsOf[sup'[h].cand]
       /\ sup'[h].pc \in {"account", "crashloop", "delay", "respawning"} => sup'[h].respawn
    BY <2>1 DEF SlotInv, Others, SameButPc
  <2> QED
    BY <2>3, <2>4, <2>5 DEF SlotInv
<1>9. ASSUME NEW g \in Gens, Ends(g) \/ Accounts(g)
      PROVE  SlotInv'
  <2> USE <1>9 DEF Ends, Accounts
  <2>1. \A h \in Gens \ {g} : sup'[h] = sup[h] /\ (InMap(h)' <=> InMap(h))
    BY DEF InMap, Others
  <2>2. \A j \in Callers : /\ Filling(j)' <=> Filling(j)
                           /\ Filling(j) => call'[j] = call[j] /\ call[j].gen \in Gens \ {g}
    BY DEF OtherCalls, Filling
  <2>3. \A h \in Gens : sup'[h].pc = "starting" => \E j \in Callers : Filling(j)' /\ call'[j].gen = h
    <3>1. \A h \in Gens : sup'[h].pc = "starting" => sup[h].pc = "starting"
      BY <2>1
    <3> QED
      BY <2>2, <3>1 DEF SlotInv
  <2>4. \A j \in Callers : \A x \in Gens : call'[j].at = "clear" /\ call'[j].gen = x =>
            InMap(x)' /\ sup'[x].reg \in RegsOf[call'[j].cand]
    BY <2>1, <2>2 DEF SlotInv, Filling
  <2>5. \A j \in Gens : call'[j].at # "none" => sup'[j].cand = call'[j].cand
    BY <2>1 DEF SlotInv, OtherCalls, SameButPc
  <2>6. \A h \in Gens :
       /\ sup'[h].pc \in {"watch", "drain", "remove"} => InMap(h)'
       /\ sup'[h].pc \notin {"free", "starting"} => sup'[h].reg \in RegsOf[sup'[h].cand]
       /\ sup'[h].pc \in {"account", "crashloop", "delay", "respawning"} => sup'[h].respawn
    BY <2>1 DEF SlotInv, SameButPc
  <2> QED
    BY <2>3, <2>4, <2>5, <2>6 DEF SlotInv
<1> QED
  BY <1>1, <1>2, <1>3, <1>4, <1>5, <1>6, <1>7, <1>8, <1>9 DEF Shape

\* A generation that has left its select is nobody's newcomer.
LEMMA NotCalled ==
  ASSUME Inv, SlotInv, ChainInv, NEW c \in Cands \ raced, NEW x \in Gens, NEW k \in Gens,
         Calls(x, k), OfCand(x, c)
  PROVE  sup[k].pc \in {"starting", "watch"}
<1>1. call[x].cand = c /\ x \in Callers
  BY CallFacts DEF Calls, OfCand, SlotInv
<1>2. CASE call[x].at = "ok"
  BY <1>1, <1>2 DEF ChainInv, Overtaken, Calls
<1>3. CASE call[x].at # "ok"
  BY <1>1, <1>3, CallFacts DEF Calls, Filling
<1> QED
  BY <1>2, <1>3

\* What a candidate that no reload has raced has while a reload runs.
LEMMA ReloadFacts ==
  ASSUME Inv, SlotInv, ChainInv, Reloading, NEW c \in Cands \ raced, NEW x \in Gens, OfCand(x, c)
  PROVE  /\ sup[x].pc \notin {"starting", "watch"} => ~sup[x].respawn
         /\ c \in main.desired => sup[x].pc \in {"starting", "watch"}
         /\ c \in main.desired /\ sup[x].pc = "watch" => ~Drained(x)
         /\ sup[x].pc = "starting" => call[Main].gen = x /\ Filling(Main)
<1>1. \A g \in Gens : ~(/\ sup[g].cand = c
                        /\ sup[g].pc \notin {"free", "starting"}
                        /\ sup[g].pc = "watch" => Drained(g)
                        /\ sup[g].respawn \/ c \in main.desired)
  BY DEF ChainInv, Between, Drained
<1>2. ASSUME sup[x].pc = "starting" PROVE call[Main].gen = x /\ Filling(Main)
  <2>1. PICK j \in Callers : Filling(j) /\ call[j].gen = x
    BY <1>2 DEF SlotInv
  <2>2. j \notin Gens
    <3> SUFFICES ASSUME j \in Gens PROVE FALSE
      OBVIOUS
    <3>1. sup[j].cand = call[j].cand /\ call[j].cand = c /\ sup[j].pc \in {"respawning", "crashloop"}
      BY <2>1, CallFacts DEF SlotInv, Filling, OfCand
    <3>2. sup[j].respawn
      BY <3>1 DEF SlotInv
    <3> QED
      BY <1>1, <3>1, <3>2
  <2> QED
    BY <2>1, <2>2 DEF Callers
<1> QED
  BY <1>1, <1>2 DEF OfCand

\* A candidate has one generation, or two of which one called for the other.
LEMMA ChainKept ==
  ASSUME Inv, SlotInv, ChainInv, Shape, Tracks,
         main.pc = "start" => main.todo \subseteq main.desired
  PROVE  ChainInv'
<1> USE CallFacts, BlankFields
<1> SUFFICES ASSUME NEW c \in Cands \ raced', NEW g \in Gens, NEW h \in Gens,
                    OfCand(g, c)', OfCand(h, c)'
             PROVE  g = h \/ Calls(g, h)' \/ Calls(h, g)'
  BY DEF ChainInv, Tracks
<1>0. c \in Cands \ raced
  BY DEF Tracks
<1> SUFFICES ASSUME Shape
             PROVE  \/ g = h \/ Calls(g, h)' \/ Calls(h, g)'
                    \/ /\ OfCand(g, c) /\ OfCand(h, c)
                       /\ Calls(g, h) => Calls(g, h)'
                       /\ Calls(h, g) => Calls(h, g)'
  BY <1>0 DEF ChainInv
<1>1. CASE Quiet
  BY <1>1 DEF Quiet, Edge, OfCand, Calls
<1>2. ASSUME NEW k \in Callers, NEW d \in Cands, NEW n \in Gens, Begins(k, d, n)
      PROVE  \/ g = h \/ Calls(g, h)' \/ Calls(h, g)'
             \/ /\ OfCand(g, c) /\ OfCand(h, c)
                /\ Calls(g, h) => Calls(g, h)'
                /\ Calls(h, g) => Calls(h, g)'
  <2>1. CASE c # d
    <3>1. OfCand(g, c) /\ OfCand(h, c) /\ g \notin {n, k} /\ h \notin {n, k}
      BY <1>2, <2>1 DEF Begins, OfCand, SameButPc
    <3> QED
      BY <1>2, <3>1 DEF Begins, OtherCalls, Calls
  <2>2. CASE c = d /\ k \in Gens
    <3>1. ASSUME NEW x \in Gens, OfCand(x, c) PROVE x = k
      <4>1. OfCand(k, c) /\ sup[k].pc = "delay"
        BY <1>2, <2>2 DEF Begins, OfCand
      <4>2. x = k \/ Calls(x, k) \/ Calls(k, x)
        BY <1>0, <2>2, <3>1, <4>1 DEF ChainInv
      <4>3. ~Calls(k, x)
        BY <4>1 DEF Calls
      <4>4. ~Calls(x, k)
        BY <1>0, <2>2, <3>1, <4>1, NotCalled
      <4> QED
        BY <4>2, <4>3, <4>4
    <3>2. \A x \in Gens \ {n, k} : ~OfCand(x, c)'
      BY <1>2, <3>1 DEF Begins, OfCand
    <3>3. Calls(k, n)'
      BY <1>2, <2>2 DEF Begins, Calls
    <3>4. g \in {n, k} /\ h \in {n, k}
      BY <3>2
    <3> QED
      BY <3>3, <3>4
  <2>3. CASE c = d /\ k \notin Gens
    <3>1. /\ main.pc = "start" /\ c \in main.desired /\ ~Active(c) /\ call[Main].at = "none"
          /\ Reloading
      BY <1>2, <2>3 DEF Begins, Reloading, Callers
    <3>2. ASSUME NEW x \in Gens, OfCand(x, c) PROVE FALSE
      <4>1. sup[x].pc = "watch"
        BY <1>0, <3>1, <3>2, ReloadFacts DEF Filling
      <4>2. InMap(x)
        BY <4>1 DEF SlotInv
      <4> QED
        BY <3>1, <3>2, <4>2 DEF InMap, Active, OfCand
    <3>3. \A x \in Gens \ {n} : ~OfCand(x, c)'
      BY <1>2, <2>3, <3>2 DEF Begins, OfCand
    <3> QED
      BY <3>3
  <2> QED
    BY <2>1, <2>2, <2>3
<1>3. ASSUME NEW k \in Callers, Fails(k)
      PROVE  /\ OfCand(g, c) /\ OfCand(h, c)
             /\ Calls(g, h) => Calls(g, h)'
             /\ Calls(h, g) => Calls(h, g)'
  <2> DEFINE n == call[k].gen
  <2>1. n \in Gens /\ sup'[n] = Free /\ \A x \in Gens \ {n} : sup'[x] = sup[x]
    BY <1>3 DEF Fails, Others, Filling
  <2>2. g # n /\ h # n
    BY <2>1 DEF OfCand
  <2> QED
    BY <1>3, <2>1, <2>2 DEF Fails, OfCand, Calls, OtherCalls
<1>4. ASSUME NEW k \in Callers, NEW x \in Gens, NEW reg \in RegsOf[call[k].cand], Inserts(k, x, reg)
      PROVE  /\ OfCand(g, c) /\ OfCand(h, c)
             /\ Calls(g, h) => Calls(g, h)'
             /\ Calls(h, g) => Calls(h, g)'
  BY <1>4 DEF Inserts, Others, OtherCalls, OfCand, Calls
<1>5. ASSUME NEW k \in Callers, NEW x \in Gens, Clears(k, x)
      PROVE  /\ OfCand(g, c) /\ OfCand(h, c)
             /\ Calls(g, h) => Calls(g, h)'
             /\ Calls(h, g) => Calls(h, g)'
  <2>1. sup[x].pc = "starting"
    BY <1>5 DEF Clears, Filling
  <2> QED
    BY <1>5, <2>1 DEF Clears, Others, OtherCalls, SameButPc, OfCand, Calls
<1>6. ASSUME NEW k \in Callers, Returns(k)
      PROVE  /\ OfCand(g, c) /\ OfCand(h, c)
             /\ Calls(g, h) => Calls(g, h)'
             /\ Calls(h, g) => Calls(h, g)'
  <2>1. g # k /\ h # k
    BY <1>6 DEF Returns, OfCand
  <2> QED
    BY <1>6, <2>1 DEF Returns, Others, OtherCalls, OfCand, Calls
<1>7. CASE Answers
  BY <1>7 DEF Answers, OtherCalls, OfCand, Calls
<1>8. ASSUME NEW x \in Gens, Unmaps(x)
      PROVE  /\ OfCand(g, c) /\ OfCand(h, c)
             /\ Calls(g, h) => Calls(g, h)'
             /\ Calls(h, g) => Calls(h, g)'
  BY <1>8 DEF Unmaps, Others, SameButPc, OfCand, Calls
<1>9. ASSUME NEW x \in Gens, Ends(x)
      PROVE  /\ OfCand(g, c) /\ OfCand(h, c)
             /\ Calls(g, h) => Calls(g, h)'
             /\ Calls(h, g) => Calls(h, g)'
  <2>1. g # x /\ h # x
    BY <1>9 DEF Ends, OfCand
  <2> QED
    BY <1>9, <2>1 DEF Ends, Others, OfCand, Calls
<1>10. ASSUME NEW x \in Gens, Accounts(x)
      PROVE  /\ OfCand(g, c) /\ OfCand(h, c)
             /\ Calls(g, h) => Calls(g, h)'
             /\ Calls(h, g) => Calls(h, g)'
  BY <1>10 DEF Accounts, Others, OtherCalls, SameButPc, OfCand, Calls
<1> QED
  BY <1>1, <1>2, <1>3, <1>4, <1>5, <1>6, <1>7, <1>8, <1>9, <1>10 DEF Shape

-----------------------------------------------------------------------------
(* Every step has a shape *)

\* A command that is sent joins the ones before it.
LEMMA ContainsAppend ==
  ASSUME NEW s \in Seq(Commands), NEW x \in Commands, NEW y
  PROVE  Contains(Append(s, x), y) <=> (Contains(s, y) \/ x = y)
<1>1. Len(s) \in Nat /\ Len(Append(s, x)) = Len(s) + 1
  OBVIOUS
<1>2. \A i \in 1..Len(s) : Append(s, x)[i] = s[i]
  OBVIOUS
<1>3. Append(s, x)[Len(s) + 1] = x
  OBVIOUS
<1>4. Contains(s, y) => Contains(Append(s, x), y)
  BY <1>1, <1>2 DEF Contains
<1>5. x = y => Contains(Append(s, x), y)
  BY <1>1, <1>3 DEF Contains
<1>6. Contains(Append(s, x), y) => Contains(s, y) \/ x = y
  <2> SUFFICES ASSUME NEW i \in 1..Len(Append(s, x)), Append(s, x)[i] = y
               PROVE  Contains(s, y) \/ x = y
    BY DEF Contains
  <2>1. CASE i = Len(s) + 1
    BY <1>3, <2>1
  <2>2. CASE i # Len(s) + 1
    <3>1. i \in 1..Len(s)
      BY <1>1, <2>2
    <3> QED
      BY <1>2, <3>1 DEF Contains
  <2> QED
    BY <2>1, <2>2
<1> QED
  BY <1>4, <1>5, <1>6

\* Nobody is told to end for good.
NoOrders == \A h \in Gens : (Drained(h)' => Drained(h)) /\ (Stopping(h)' => Stopping(h))

\* The select, the drain, the cleanup and the two ways a process ends.
LEMMA MovesShape ==
  ASSUME StateType, NEW g \in Gens,
         \/ ChildExits(g) \/ KillAndRespawn(g) \/ SuperviseExit(g) \/ SuperviseCommand(g)
         \/ DrainStop(g) \/ CleanRoutes(g) \/ CleanPrefixes(g) \/ Mark(g)
         \/ Decide(g) /\ sup[g].respawn /\ should_respawn(sup[g].cand)
  PROVE  Quiet /\ Others(g) /\ NoOrders /\ main' = main /\ config' = config
         /\ shutting' = shutting /\ failed' = failed
<1>1. /\ main' = main /\ config' = config /\ call' = call /\ extensions' = extensions
      /\ shutting' = shutting /\ failed' = failed
  BY DEF ChildExits, KillAndRespawn, SuperviseExit, SuperviseCommand, DrainStop, CleanRoutes,
         CleanPrefixes, Mark, Decide, tables
<1>2. sup[g] \in SupType /\ sup \in [Gens -> SupType] /\ sup[g].commands \in Seq(Commands)
  BY DEF StateType, SupType
<1> SUFFICES Others(g) /\ Edge(g) /\ (Drained(g)' <=> Drained(g)) /\ (Stopping(g)' <=> Stopping(g))
  <2>1. Others(g) => \A h \in Gens \ {g} :
          Edge(h) /\ (Drained(h)' <=> Drained(h)) /\ (Stopping(h)' <=> Stopping(h))
    BY DEF Others, Edge, Drained, Stopping
  <2> QED
    BY <1>1, <2>1 DEF Quiet, NoOrders
<1>3. CASE KillAndRespawn(g)
  <2> DEFINE s == Append(sup[g].commands, "kill")
  <2>1. /\ sup' = [sup EXCEPT ![g] = [sup[g] EXCEPT !.commands = s]]
        /\ s \in Seq(Commands)
    BY <1>2, <1>3 DEF KillAndRespawn, Commands
  <2>2. /\ Contains(s, "drain") <=> Contains(sup[g].commands, "drain")
        /\ Contains(s, "stop") <=> Contains(sup[g].commands, "stop")
    BY <1>2, ContainsAppend DEF Commands
  <2> HIDE DEF s
  <2>3. /\ sup'[g].pc = sup[g].pc /\ sup'[g].cand = sup[g].cand /\ sup'[g].reg = sup[g].reg
        /\ sup'[g].respawn = sup[g].respawn /\ sup'[g].commands = s
        /\ Others(g)
    BY <1>2, <2>1 DEF SupType, Others
  <2> QED
    BY <2>2, <2>3 DEF Edge, Drained, Stopping
<1>4. CASE ChildExits(g)
  <2>1. sup' = [sup EXCEPT ![g] = [sup[g] EXCEPT !.alive = FALSE]]
    BY <1>4 DEF ChildExits
  <2>2. /\ sup'[g].pc = sup[g].pc /\ sup'[g].cand = sup[g].cand /\ sup'[g].reg = sup[g].reg
        /\ sup'[g].respawn = sup[g].respawn /\ sup'[g].commands = sup[g].commands
        /\ Others(g)
    BY <1>2, <2>1 DEF SupType, Others
  <2> QED
    BY <2>2 DEF Edge, Drained, Stopping
<1>5. CASE SuperviseExit(g)
  <2>1. /\ sup' = [sup EXCEPT ![g] = [sup[g] EXCEPT !.pc = "remove", !.respawn = TRUE]]
        /\ sup[g].pc = "watch"
    BY <1>2, <1>5 DEF SuperviseExit
  <2>2. /\ sup'[g].pc = "remove" /\ sup'[g].cand = sup[g].cand /\ sup'[g].reg = sup[g].reg
        /\ sup'[g].respawn /\ sup'[g].commands = sup[g].commands
        /\ Others(g)
    BY <1>2, <2>1 DEF SupType, Others
  <2> QED
    BY <2>1, <2>2 DEF Edge, Drained, Stopping
<1>6. CASE SuperviseCommand(g)
  <2> DEFINE kill == Head(sup[g].commands) = "kill"
             to == IF kill THEN "remove" ELSE "drain"
             live == sup[g].alive /\ ~kill
             r == [sup[g] EXCEPT !.pc = to, !.respawn = kill, !.alive = live]
  <2>1. sup' = [sup EXCEPT ![g] = r] /\ sup[g].pc = "watch" /\ sup[g].commands # << >>
    BY <1>2, <1>6 DEF SuperviseCommand
  <2>2. kill \in BOOLEAN /\ live \in BOOLEAN /\ to \in {"remove", "drain"}
    OBVIOUS
  <2>3. ~kill => Drained(g) \/ Stopping(g)
    <3>1. /\ 1 \in 1..Len(sup[g].commands) /\ Head(sup[g].commands) = sup[g].commands[1]
          /\ sup[g].commands[1] \in Commands
      BY <1>2, <2>1
    <3> QED
      BY <3>1 DEF Drained, Stopping, Contains, Commands
  <2> HIDE DEF kill, to, live
  <2>4. /\ r.cand = sup[g].cand /\ r.reg = sup[g].reg /\ r.pc = to /\ r.respawn = kill
        /\ r.commands = sup[g].commands
    BY <1>2, <2>2 DEF SupType
  <2> HIDE DEF r
  <2>5. sup'[g] = r /\ Others(g)
    BY <1>2, <2>1 DEF Others
  <2> QED
    BY <2>1, <2>2, <2>3, <2>4, <2>5 DEF Edge, Drained, Stopping
<1>7. CASE DrainStop(g)
  <2>1. /\ sup' = [sup EXCEPT ![g] = [sup[g] EXCEPT !.pc = "remove", !.alive = FALSE]]
        /\ sup[g].pc = "drain"
    BY <1>2, <1>7 DEF DrainStop
  <2>2. /\ sup'[g].pc = "remove" /\ SameButPc(g) /\ Others(g)
    BY <1>2, <2>1 DEF SupType, Others, SameButPc
  <2> QED
    BY <2>1, <2>2 DEF Edge, Drained, Stopping, SameButPc
<1>8. CASE \/ CleanRoutes(g) \/ CleanPrefixes(g) \/ Mark(g)
           \/ Decide(g) /\ sup[g].respawn /\ should_respawn(sup[g].cand)
  <2>1. PICK to \in {"prefixes", "mark", "decide", "account"} :
          /\ sup' = [sup EXCEPT ![g] = [sup[g] EXCEPT !.pc = to]]
          /\ \/ sup[g].pc \in {"routes", "prefixes", "mark"} /\ to # "account"
             \/ sup[g].pc = "decide" /\ to = "account" /\ sup[g].respawn
    <3>1. CASE CleanRoutes(g)
      BY <3>1 DEF CleanRoutes
    <3>2. CASE CleanPrefixes(g)
      BY <3>2 DEF CleanPrefixes
    <3>3. CASE Mark(g)
      BY <3>3 DEF Mark
    <3>4. CASE Decide(g) /\ sup[g].respawn /\ should_respawn(sup[g].cand)
      BY <3>4 DEF Decide
    <3> QED
      BY <1>8, <3>1, <3>2, <3>3, <3>4
  <2>2. sup'[g].pc = to /\ SameButPc(g) /\ Others(g)
    BY <1>2, <2>1 DEF SupType, Others, SameButPc
  <2> QED
    BY <2>1, <2>2 DEF Edge, Drained, Stopping, SameButPc
<1> QED
  BY <1>3, <1>4, <1>5, <1>6, <1>7, <1>8

\* start_extension is called.
LEMMA BeginShape ==
  ASSUME Inv, NEW k \in Callers, NEW c \in Cands, BeginCall(k, c), extensions' = extensions,
         call[k].at = "none",
         k \in Gens => sup[k].pc = "delay" /\ sup[k].cand = c /\ Wanted(c),
         k \notin Gens => main.pc = "start" /\ c \in main.todo /\ ~Active(c)
  PROVE  (\E n \in Gens : Begins(k, c, n)) /\ NoOrders
<1>1. StateType
  BY DEF Inv
<1>2. PICK n \in Gens :
           /\ n # k /\ sup[n].pc = "free" /\ n \notin Held
           /\ sup'[n] = [Free EXCEPT !.pc = "starting", !.cand = c, !.alive = TRUE]
           /\ k \in Gens => sup'[k] = [sup[k] EXCEPT !.pc = "respawning"]
           /\ \A h \in Gens \ {n, k} : sup'[h] = sup[h]
           /\ call' = [call EXCEPT ![k] = [at |-> "insert", cand |-> c, gen |-> n]]
           /\ sup' \in [Gens -> SupType]
  BY <1>1, BeginFacts
<1>3. sup'[n].pc = "starting" /\ sup'[n].cand = c /\ sup'[n].commands = << >>
  BY <1>2 DEF Free
<1>4. k \in Gens => sup'[k].pc = "respawning" /\ SameButPc(k)
  BY <1>1, <1>2, Fields DEF SupType, SameButPc
<1>5. call'[k].at = "insert" /\ call'[k].cand = c /\ call'[k].gen = n /\ OtherCalls(k)
  BY <1>1, <1>2 DEF StateType, OtherCalls
<1>6. Begins(k, c, n)
  BY <1>2, <1>3, <1>4, <1>5 DEF Begins
<1>7. ~Drained(n)' /\ ~Stopping(n)'
  BY <1>3 DEF Drained, Stopping, Contains
<1>8. NoOrders
  BY <1>2, <1>4, <1>7 DEF NoOrders, Drained, Stopping, SameButPc
<1> QED
  BY <1>6, <1>8

\* A slot that is freed has no commands.
LEMMA FreeNoOrders ==
  ASSUME NEW g \in Gens, sup'[g] = Free, Others(g)
  PROVE  NoOrders
<1>1. sup'[g].commands = << >>
  BY DEF Free
<1>2. ~Drained(g)' /\ ~Stopping(g)'
  BY <1>1 DEF Drained, Stopping, Contains
<1> QED
  BY <1>2 DEF NoOrders, Others, Drained, Stopping

\* The steps of a call.
LEMMA CallShape ==
  ASSUME Inv, NEW k \in Callers, CallStep(k)
  PROVE  /\ NoOrders /\ main' = main /\ config' = config /\ shutting' = shutting
         /\ \/ (StartFails(k) \/ Insert(k)) /\ Fails(k)
               /\ routes' = routes /\ prefixes' = prefixes /\ unavailable' = unavailable
               /\ failed' = failed
            \/ \E g \in Gens : \E reg \in RegsOf[call[k].cand] :
                 /\ Inserts(k, g, reg)
                 /\ routes' = Give(routes, reg.paths, reg.id)
                 /\ prefixes' = Give(prefixes, reg.channels, reg.id)
                 /\ unavailable' = unavailable /\ failed' = failed
            \/ \E g \in Gens : ClearMarks(k) /\ Clears(k, g)
            \/ (ReportOk(k) \/ ReportFailed(k)) /\ Returns(k)
            \/ (ReportOk(k) \/ ReportFailed(k)) /\ k = Main /\ Answers
<1> USE CallFacts, BlankFields, BlankTypes
<1>1. /\ StateType /\ sup \in [Gens -> SupType] /\ call \in [Callers -> CallType]
      /\ \A g \in Gens : sup[g] \in SupType
  BY DEF Inv, StateType
<1>2. main' = main /\ config' = config /\ shutting' = shutting
  BY DEF CallStep, StartFails, Insert, ClearMarks, ReportOk, ReportFailed
<1> DEFINE g == call[k].gen
<1>3. ASSUME call[k].at = "insert", sup' = [sup EXCEPT ![g] = Free],
             call' = [call EXCEPT ![k].at = "fail"], extensions' = extensions
      PROVE  Fails(k) /\ NoOrders
  <2>1. g \in Gens
    BY <1>3 DEF Filling
  <2>2. sup'[g] = Free /\ Others(g)
    BY <1>1, <1>3, <2>1 DEF Others
  <2>3. call'[k].at = "fail" /\ call'[k].cand = call[k].cand /\ OtherCalls(k)
    BY <1>1, <1>3 DEF CallType, OtherCalls
  <2> QED
    BY <1>3, <2>1, <2>2, <2>3, FreeNoOrders DEF Fails
<1>4. CASE StartFails(k)
  BY <1>2, <1>3, <1>4 DEF StartFails, tables
<1>5. CASE Insert(k)
  <2>1. PICK reg \in RegsOf[call[k].cand] :
            IF Collides(call[k].cand, reg)
             THEN /\ sup' = [sup EXCEPT ![g] = Free]
                  /\ call' = [call EXCEPT ![k].at = "fail"]
                  /\ UNCHANGED tables
             ELSE /\ extensions' = [id \in DOMAIN extensions \cup {reg.id} |->
                                      IF id = reg.id THEN g ELSE extensions[id]]
                  /\ routes' = Give(routes, reg.paths, reg.id)
                  /\ prefixes' = Give(prefixes, reg.channels, reg.id)
                  /\ sup' = [sup EXCEPT ![g].reg = reg]
                  /\ call' = [call EXCEPT ![k].at = "clear"]
                  /\ UNCHANGED <<unavailable, failed>>
    BY <1>5 DEF Insert
  <2>2. CASE Collides(call[k].cand, reg)
    BY <1>2, <1>3, <1>5, <2>1, <2>2 DEF Insert, tables
  <2>3. CASE ~Collides(call[k].cand, reg)
    <3>1. g \in Gens /\ reg.id \notin DOMAIN extensions /\ call[k].at = "insert"
      BY <1>5, <2>3 DEF Insert, Filling, Collides
    <3>2. /\ sup'[g].pc = sup[g].pc /\ sup'[g].cand = sup[g].cand /\ sup'[g].reg = reg
          /\ sup'[g].respawn = sup[g].respawn /\ sup'[g].commands = sup[g].commands /\ Others(g)
      <4>1. sup' = [sup EXCEPT ![g].reg = reg] /\ sup \in [Gens -> SupType]
        BY <1>1, <2>1, <2>3
      <4>2. sup'[g] = [sup[g] EXCEPT !.reg = reg] /\ sup[g] \in SupType
        BY <3>1, <4>1
      <4>3. Others(g)
        BY <3>1, <4>1 DEF Others
      <4> QED
        BY <4>2, <4>3 DEF SupType
    <3>3. /\ call'[k].at = "clear" /\ call'[k].cand = call[k].cand /\ call'[k].gen = g
          /\ OtherCalls(k)
      BY <1>1, <2>1, <2>3 DEF CallType, OtherCalls
    <3>4. /\ DOMAIN extensions' = DOMAIN extensions \cup {reg.id} /\ extensions'[reg.id] = g
          /\ \A id \in DOMAIN extensions : extensions'[id] = extensions[id]
      BY <2>1, <2>3, <3>1
    <3>5. Inserts(k, g, reg)
      BY <2>3, <3>1, <3>2, <3>3, <3>4 DEF Inserts
    <3>6. NoOrders
      BY <3>2 DEF NoOrders, Others, Drained, Stopping
    <3> QED
      BY <1>2, <2>1, <2>3, <3>1, <3>5, <3>6
  <2> QED
    BY <2>2, <2>3
<1>6. CASE ClearMarks(k)
  <2>1. /\ g \in Gens /\ call[k].at = "clear" /\ extensions' = extensions
        /\ sup' = [sup EXCEPT ![g].pc = "watch"] /\ call' = [call EXCEPT ![k].at = "ok"]
    BY <1>6 DEF ClearMarks, Filling
  <2>2. sup'[g].pc = "watch" /\ SameButPc(g) /\ Others(g)
    BY <1>1, <2>1 DEF SupType, Others, SameButPc
  <2>3. call'[k].at = "ok" /\ call'[k].cand = call[k].cand /\ call'[k].gen = g /\ OtherCalls(k)
    BY <1>1, <2>1 DEF CallType, OtherCalls
  <2>4. Clears(k, g) /\ NoOrders
    BY <2>1, <2>2, <2>3 DEF Clears, NoOrders, Others, SameButPc, Drained, Stopping
  <2> QED
    BY <1>2, <1>6, <2>1, <2>4
<1>7. CASE ReportOk(k) \/ ReportFailed(k)
  <2>1. /\ call[k].at \in {"ok", "fail"} /\ extensions' = extensions /\ sup' = Returned(k)
        /\ call' = [call EXCEPT ![k] = NoCall]
    BY <1>7 DEF ReportOk, ReportFailed
  <2>2. call'[k] = NoCall /\ OtherCalls(k)
    BY <1>1, <2>1 DEF OtherCalls
  <2>3. CASE k \in Gens
    <3>1. sup'[k] = Free /\ Others(k)
      BY <1>1, <2>1, <2>3 DEF Returned, Others
    <3> QED
      BY <1>2, <1>7, <2>1, <2>2, <2>3, <3>1, FreeNoOrders DEF Returns
  <2>4. CASE k \notin Gens
    <3>1. k = Main /\ sup' = sup
      BY <2>1, <2>4 DEF Returned, Callers
    <3> QED
      BY <1>2, <1>7, <2>1, <2>2, <3>1 DEF Answers, NoOrders, Drained, Stopping
  <2> QED
    BY <2>3, <2>4
<1> QED
  BY <1>4, <1>5, <1>6, <1>7 DEF CallStep

\* The cleanup of the map, the decision, the account and the wake.
LEMMA CleanMapShape ==
  ASSUME Inv, SlotInv, NEW g \in Gens, CleanMap(g)
  PROVE  /\ Unmaps(g) /\ NoOrders /\ main' = main /\ config' = config /\ shutting' = shutting
         /\ failed' = failed /\ unavailable' = unavailable
         /\ routes' = routes /\ prefixes' = prefixes
<1> DEFINE id == sup[g].reg.id
<1>1. sup[g].pc = "remove" /\ id \in DOMAIN extensions /\ extensions[id] = g
  BY DEF CleanMap, SlotInv, InMap
<1>2. /\ sup' = [sup EXCEPT ![g] = [sup[g] EXCEPT !.pc = "routes"]]
      /\ extensions' = [i \in {i \in DOMAIN extensions : i # id} |-> extensions[i]]
      /\ call' = call
  BY <1>1 DEF CleanMap
<1>3. sup \in [Gens -> SupType] /\ sup[g] \in SupType
  BY DEF Inv, StateType
<1>4. sup'[g].pc = "routes" /\ SameButPc(g) /\ Others(g)
  BY <1>2, <1>3 DEF SupType, SameButPc, Others
<1>5. /\ DOMAIN extensions' = DOMAIN extensions \ {id}
      /\ \A i \in DOMAIN extensions' : extensions'[i] = extensions[i]
  BY <1>2
<1>6. NoOrders
  BY <1>4 DEF NoOrders, Others, SameButPc, Drained, Stopping
<1>7. Unmaps(g)
  BY <1>1, <1>2, <1>4, <1>5 DEF Unmaps
<1> QED
  BY <1>6, <1>7 DEF CleanMap

LEMMA DecideShape ==
  ASSUME Inv, NEW g \in Gens,
         \/ Decide(g) /\ ~(sup[g].respawn /\ should_respawn(sup[g].cand))
         \/ Wake(g) /\ ~RespawnWanted(sup[g].cand)
  PROVE  /\ Ends(g) /\ NoOrders /\ main' = main /\ config' = config /\ shutting' = shutting
         /\ failed' = failed /\ unavailable' = unavailable
         /\ routes' = routes /\ prefixes' = prefixes
<1>1. /\ sup' = [sup EXCEPT ![g] = Free] /\ call' = call /\ extensions' = extensions
      /\ sup[g].pc \in {"decide", "delay"} /\ main' = main /\ config' = config
      /\ shutting' = shutting /\ failed' = failed /\ unavailable' = unavailable
      /\ routes' = routes /\ prefixes' = prefixes
  BY DEF Decide, Wake, tables
<1>2. sup'[g] = Free /\ Others(g)
  BY <1>1 DEF Inv, StateType, Others
<1> QED
  BY <1>1, <1>2, FreeNoOrders DEF Ends

LEMMA AccountShape ==
  ASSUME Inv, NEW g \in Gens, Account(g)
  PROVE  /\ Accounts(g) /\ NoOrders /\ main' = main /\ config' = config /\ shutting' = shutting
         /\ failed' = failed /\ unavailable' = unavailable
         /\ routes' = routes /\ prefixes' = prefixes
<1>1. /\ sup[g].pc = "account" /\ extensions' = extensions
      /\ main' = main /\ config' = config /\ shutting' = shutting /\ failed' = failed
      /\ unavailable' = unavailable /\ routes' = routes /\ prefixes' = prefixes
  BY DEF Account, tables
<1> DEFINE loop == Len(Exits(recent[sup[g].cand])) >= config.threshold
           to == IF loop THEN "crashloop" ELSE "delay"
           failure == [NoCall EXCEPT !.at = "fail", !.cand = sup[g].cand]
           r == IF loop THEN failure ELSE NoCall
<1>2. /\ sup' = [sup EXCEPT ![g] = [sup[g] EXCEPT !.pc = to]]
      /\ call' = [call EXCEPT ![g] = r]
      /\ to \in {"crashloop", "delay"} /\ r.at \in {"none", "fail"}
      /\ r.cand \in {NoName, sup[g].cand} /\ (r.at = "fail" => r.cand = sup[g].cand)
  <2>1. /\ sup' = [sup EXCEPT ![g] = [sup[g] EXCEPT !.pc = to]]
        /\ call' = [call EXCEPT ![g] = r]
    BY DEF Account
  <2>2. failure.at = "fail" /\ failure.cand = sup[g].cand
    BY DEF NoCall
  <2>3. NoCall.at = "none" /\ NoCall.cand = NoName
    BY DEF NoCall
  <2> HIDE DEF loop, failure
  <2>4. to \in {"crashloop", "delay"} /\ r \in {failure, NoCall}
    OBVIOUS
  <2> HIDE DEF r, to
  <2> QED
    BY <2>1, <2>2, <2>3, <2>4
<1> HIDE DEF loop, to, failure, r
<1>3. sup \in [Gens -> SupType] /\ sup[g] \in SupType /\ call \in [Callers -> CallType] /\ g \in Callers
  BY BlankTypes DEF Inv, StateType
<1>4. sup'[g].pc = to /\ SameButPc(g) /\ Others(g)
  BY <1>2, <1>3 DEF SupType, SameButPc, Others
<1>5. call'[g] = r /\ OtherCalls(g)
  BY <1>2, <1>3 DEF OtherCalls
<1>6. NoOrders
  BY <1>4 DEF NoOrders, Others, SameButPc, Drained, Stopping
<1> QED
  BY <1>1, <1>2, <1>4, <1>5, <1>6 DEF Accounts

LEMMA WakeShape ==
  ASSUME Inv, NEW g \in Gens, Wake(g), RespawnWanted(sup[g].cand)
  PROVE  /\ \E n \in Gens : Begins(g, sup[g].cand, n)
         /\ NoOrders /\ main' = main /\ config' = config /\ shutting' = shutting
         /\ failed' = failed /\ unavailable' = unavailable
         /\ routes' = routes /\ prefixes' = prefixes
<1>1. /\ sup[g].pc = "delay" /\ extensions' = extensions
      /\ main' = main /\ config' = config /\ shutting' = shutting /\ failed' = failed
      /\ unavailable' = unavailable /\ routes' = routes /\ prefixes' = prefixes
      /\ BeginCall(g, sup[g].cand)
  BY DEF Wake, tables
<1>2. sup[g].cand \in Cands /\ g \in Callers /\ call[g].at = "none"
  BY <1>1, CallFacts
<1>3. Wanted(sup[g].cand)
  BY DEF RespawnWanted, should_respawn, Wanted
<1> QED
  BY <1>1, <1>2, <1>3, BeginShape

\* Nothing moves.
LEMMA StillShape ==
  ASSUME sup' = sup, call' = call, extensions' = extensions
  PROVE  Quiet /\ NoOrders
BY DEF Quiet, Edge, NoOrders, Drained, Stopping

\* A command changes nothing but the queue it is put in.
LEMMA ToldShape ==
  ASSUME StateType, NEW g \in Gens, NEW command \in Commands, sup' = Told(g, command),
         call' = call, extensions' = extensions
  PROVE  /\ Quiet /\ Others(g) /\ sup'[g].pc = sup[g].pc
         /\ sup'[g].cand = sup[g].cand /\ sup'[g].reg = sup[g].reg
         /\ \A h \in Gens : Drained(h)' =>
              Drained(h) \/ (h = g /\ command = "drain" /\ sup[g].pc \in {"starting", "watch"})
         /\ \A h \in Gens : Stopping(h)' => Stopping(h) \/ command = "stop"
         /\ sup[g].pc \in {"starting", "watch"} /\ command = "drain" => Drained(g)'
<1>1. sup \in [Gens -> SupType] /\ sup[g] \in SupType /\ sup[g].commands \in Seq(Commands)
  BY DEF StateType, SupType
<1>2. CASE sup[g].pc \notin {"starting", "watch"}
  BY <1>2, StillShape DEF Told, Others, Drained, Stopping
<1>3. CASE sup[g].pc \in {"starting", "watch"}
  <2> DEFINE s == Append(sup[g].commands, command)
  <2>1. sup' = [sup EXCEPT ![g] = [sup[g] EXCEPT !.commands = s]]
    BY <1>3 DEF Told
  <2>2. \A y : Contains(s, y) <=> (Contains(sup[g].commands, y) \/ command = y)
    BY <1>1, ContainsAppend
  <2> HIDE DEF s
  <2>3. /\ sup'[g].pc = sup[g].pc /\ sup'[g].cand = sup[g].cand /\ sup'[g].reg = sup[g].reg
        /\ sup'[g].respawn = sup[g].respawn /\ sup'[g].commands = s
        /\ Others(g)
    BY <1>1, <2>1 DEF SupType, Others
  <2>4. /\ Drained(g)' <=> (Drained(g) \/ command = "drain")
        /\ Stopping(g)' <=> (Stopping(g) \/ command = "stop")
    BY <2>2, <2>3 DEF Drained, Stopping
  <2>5. \A h \in Gens \ {g} : /\ Edge(h) /\ (Drained(h)' <=> Drained(h))
                              /\ (Stopping(h)' <=> Stopping(h))
    BY <2>3 DEF Others, Edge, Drained, Stopping
  <2>6. Edge(g)
    BY <2>3, <2>4 DEF Edge
  <2> QED
    BY <1>3, <2>3, <2>4, <2>5, <2>6 DEF Quiet
<1> QED
  BY <1>2, <1>3

\* The same for any handle, a slot or not.
LEMMA ToldAny ==
  ASSUME StateType, NEW g, NEW command \in Commands, sup' = Told(g, command),
         call' = call, extensions' = extensions
  PROVE  /\ Quiet /\ Others(g)
         /\ \A h \in Gens : sup'[h].pc = sup[h].pc /\ sup'[h].cand = sup[h].cand
                              /\ sup'[h].reg = sup[h].reg
         /\ \A h \in Gens : Drained(h)' =>
              Drained(h) \/ (h = g /\ command = "drain" /\ sup[g].pc \in {"starting", "watch"})
         /\ \A h \in Gens : Stopping(h)' => Stopping(h) \/ command = "stop"
         /\ g \in Gens /\ sup[g].pc \in {"starting", "watch"} /\ command = "drain" => Drained(g)'
<1>1. CASE g \in Gens
  BY <1>1, ToldShape DEF Others
<1>2. CASE g \notin Gens
  <2>1. [sup EXCEPT ![g].commands = Append(sup[g].commands, command)] = sup
    BY <1>2 DEF StateType
  <2>2. sup' = sup
    BY <2>1 DEF Told
  <2> QED
    BY <1>2, <2>2, StillShape DEF Others, Drained, Stopping
<1> QED
  BY <1>1, <1>2

\* The main task, where it neither calls nor sends.
LEMMA MainShape ==
  ASSUME Reload \/ Shutdown \/ Tick \/ Scan \/ StopRoutes \/ StopPrefixes \/ StopDone
           \/ ShutdownSnapshot \/ ShutdownWait
  PROVE  Quiet /\ NoOrders /\ unavailable' = unavailable /\ failed' = failed
         /\ sup' = sup /\ call' = call /\ extensions' = extensions
<1>1. /\ sup' = sup /\ call' = call /\ extensions' = extensions
      /\ unavailable' = unavailable /\ failed' = failed
  BY DEF Reload, Shutdown, Tick, Scan, StopRoutes, StopPrefixes, StopDone,
         ShutdownSnapshot, ShutdownWait, tables
<1> QED
  BY <1>1, StillShape

\* A call of the main task begins or is answered, or nothing moves.
LEMMA StartShape ==
  ASSUME Inv, Missing \/ Start
  PROVE  /\ NoOrders /\ config' = config /\ shutting' = shutting
         /\ failed' = failed /\ unavailable' = unavailable
         /\ routes' = routes /\ prefixes' = prefixes
         /\ main.pc \in {"missing", "start"} /\ call[Main].at = "none"
         /\ \/ Quiet /\ sup' = sup /\ call' = call
               /\ \/ main.todo = {} /\ main.pc = "missing"
                       /\ main' = [main EXCEPT !.pc = "start", !.todo = main.desired]
                  \/ main.todo = {} /\ main.pc = "start" /\ main' = [main EXCEPT !.pc = "idle"]
                  \/ \E c \in main.todo :
                       /\ main' = [main EXCEPT !.todo = main.todo \ {c}]
                       /\ main.pc = "start" => Active(c)
            \/ \E c \in main.todo :
                 /\ main.pc = "start" /\ main' = [main EXCEPT !.todo = main.todo \ {c}]
                 /\ \E n \in Gens : Begins(Main, c, n)
            \/ \E c \in main.todo :
                 /\ main.pc = "missing" /\ main' = [main EXCEPT !.todo = main.todo \ {c}]
                 /\ Answers /\ call'[Main].cand = c /\ call'[Main].at = "fail"
                 /\ c \notin main.desired /\ ~Active(c)
<1> USE CallFacts
<1>1. /\ config' = config /\ shutting' = shutting /\ extensions' = extensions
      /\ failed' = failed /\ unavailable' = unavailable
      /\ routes' = routes /\ prefixes' = prefixes
      /\ main.pc \in {"missing", "start"} /\ call[Main].at = "none"
  BY DEF Missing, Start, tables
<1>2. CASE Missing
  <2>1. sup' = sup /\ main.pc = "missing"
    BY <1>2 DEF Missing
  <2>2. CASE main.todo = {}
    BY <1>1, <1>2, <2>1, <2>2, StillShape DEF Missing
  <2>3. CASE main.todo # {}
    <3>1. PICK c \in main.todo :
              /\ main' = [main EXCEPT !.todo = main.todo \ {c}]
              /\ call' = IF Active(c) \/ c \in main.desired THEN call
                         ELSE [call EXCEPT ![Main] = [NoCall EXCEPT !.at = "fail", !.cand = c]]
      BY <1>2, <2>3 DEF Missing
    <3>2. CASE Active(c) \/ c \in main.desired
      BY <1>1, <2>1, <3>1, <3>2, StillShape
    <3>3. CASE ~(Active(c) \/ c \in main.desired)
      <4> DEFINE r == [NoCall EXCEPT !.at = "fail", !.cand = c]
      <4>0. r.at = "fail" /\ r.cand = c
        BY DEF NoCall
      <4> HIDE DEF r
      <4>1. call' = [call EXCEPT ![Main] = r]
        BY <3>1, <3>3 DEF r
      <4>2. call'[Main].at = "fail" /\ call'[Main].cand = c /\ OtherCalls(Main)
        BY <4>0, <4>1 DEF Inv, StateType, OtherCalls
      <4>3. Answers
        BY <1>1, <2>1, <3>3, <4>2 DEF Answers
      <4>4. NoOrders
        BY <2>1 DEF NoOrders, Drained, Stopping
      <4> QED
        BY <1>1, <2>1, <3>1, <3>3, <4>2, <4>3, <4>4
    <3> QED
      BY <3>2, <3>3
  <2> QED
    BY <2>2, <2>3
<1>3. CASE Start
  <2>1. main.pc = "start" /\ main.todo \subseteq Cands
    BY <1>3 DEF Start, Inv, MainInv
  <2>2. CASE main.todo = {}
    BY <1>1, <1>3, <2>1, <2>2, StillShape DEF Start
  <2>3. CASE main.todo # {}
    <3>1. PICK c \in main.todo :
              /\ main' = [main EXCEPT !.todo = main.todo \ {c}]
              /\ IF Active(c) THEN UNCHANGED <<sup, call>> ELSE BeginCall(Main, c)
      BY <1>3, <2>3 DEF Start
    <3>2. CASE Active(c)
      BY <1>1, <2>1, <3>1, <3>2, StillShape
    <3>3. CASE ~Active(c)
      <4>1. (\E n \in Gens : Begins(Main, c, n)) /\ NoOrders
        BY <1>1, <2>1, <3>1, <3>3, BeginShape
      <4> QED
        BY <1>1, <2>1, <3>1, <4>1
    <3> QED
      BY <3>2, <3>3
  <2> QED
    BY <2>2, <2>3
<1> QED
  BY <1>2, <1>3

-----------------------------------------------------------------------------
(* The main task: its call, and the clones a reload holds *)

StopPcs == {"stop", "stop_prefixes", "stop_send"}
Cloned == {main.current} \cup (IF main.pc \in StopPcs THEN main.todo ELSE {})

PhaseInv ==
  /\ main.pc \notin {"stop_prefixes", "stop_send"} => main.current = NoHandle
  /\ main.pc = "start" => main.todo \subseteq main.desired
  /\ main.pc # "scan" => \A c \in main.desired : Wanted(c)
  /\ ~shutting => \A g \in Gens : ~Stopping(g)
  /\ call[Main].at # "none" => main.pc \in {"missing", "start"}
  /\ call[Main].at \in {"insert", "clear", "ok"} =>
       main.pc = "start" /\ call[Main].cand \in main.desired
  /\ main.pc \in StopPcs => \A h \in main.todo : h.gen \in Gens
  /\ main.pc \in {"stop_prefixes", "stop_send"} => main.current.gen \in Gens

\* A clone is of what its slot still holds, or of a generation that is gone;
\* and its candidate has no other.
CloneInv ==
  \A h \in Cloned : h.gen \in Gens =>
    /\ h.cand \in Cands /\ h.reg \in RegsOf[h.cand] /\ h.cand \notin main.desired
    /\ \/ sup[h.gen].pc = "free"
       \/ /\ sup[h.gen].cand = h.cand /\ sup[h.gen].reg = h.reg
          /\ sup[h.gen].pc = "starting" => InMap(h.gen)
    /\ h.cand \notin raced => \A g \in Gens : OfCand(g, h.cand) => g = h.gen

Base == Inv /\ SlotInv /\ ChainInv /\ PhaseInv /\ CloneInv

\* A reload holds clones only while it stops extensions.
LEMMA CloneStops ==
  ASSUME PhaseInv, NEW h \in Cloned, h.gen \in Gens
  PROVE  main.pc \in StopPcs /\ Reloading
<1>1. NoHandle.gen = Main /\ Main \notin Gens
  BY BlankTypes DEF NoHandle
<1>2. main.pc \in StopPcs
  BY <1>1 DEF PhaseInv, Cloned, StopPcs
<1> QED
  BY <1>2 DEF StopPcs, Reloading

\* A generation in the map has its candidate's registration.
LEMMA MapReg ==
  ASSUME Inv, SlotInv, NEW g \in Gens, InMap(g)
  PROVE  /\ sup[g].reg \in RegsOf[sup[g].cand]
         /\ sup[g].cand \in Cands /\ sup[g].pc \in {"starting", "watch", "drain", "remove"}
<1>1. /\ sup[g].pc \in {"starting", "watch", "drain", "remove"}
      /\ sup[g].cand \in Cands
  BY CallFacts DEF InMap
<1>2. CASE sup[g].pc = "starting"
  <2>1. PICK k \in Callers : Filling(k) /\ call[k].gen = g
    BY <1>2 DEF SlotInv
  <2>2. call[k].at # "insert"
    BY <2>1, CallFacts DEF InMap
  <2>3. call[k].at = "clear" /\ call[k].cand = sup[g].cand
    BY <2>1, <2>2, CallFacts DEF Filling
  <2> QED
    BY <1>1, <2>1, <2>3 DEF SlotInv
<1>3. CASE sup[g].pc # "starting"
  BY <1>1, <1>3 DEF SlotInv
<1> QED
  BY <1>1, <1>2, <1>3

\* Where a step can put a generation.
LEMMA NewOnly ==
  ASSUME Inv, Shape, NEW g \in Gens, NEW c, OfCand(g, c)'
  PROVE  OfCand(g, c) \/ \E k \in Callers : Begins(k, c, g)
<1> USE CallFacts, BlankFields
<1>1. CASE Quiet
  BY <1>1 DEF Quiet, Edge, OfCand
<1>2. ASSUME NEW k \in Callers, NEW d \in Cands, NEW n \in Gens, Begins(k, d, n)
      PROVE  OfCand(g, c) \/ \E j \in Callers : Begins(j, c, g)
  <2>1. CASE g = n
    <3>1. c = d
      BY <1>2, <2>1 DEF Begins, OfCand
    <3> QED
      BY <1>2, <2>1, <3>1
  <2>2. CASE g # n
    BY <1>2, <2>2 DEF Begins, OfCand, SameButPc
  <2> QED
    BY <2>1, <2>2
<1>3. ASSUME NEW k \in Callers, Fails(k) PROVE OfCand(g, c)
  <2>1. call[k].gen \in Gens
    BY <1>3 DEF Fails, Filling
  <2> QED
    BY <1>3, <2>1 DEF Fails, Others, OfCand
<1>4. ASSUME NEW k \in Callers, NEW x \in Gens, NEW reg \in RegsOf[call[k].cand], Inserts(k, x, reg)
      PROVE  OfCand(g, c)
  BY <1>4 DEF Inserts, Others, OfCand
<1>5. ASSUME NEW k \in Callers, NEW x \in Gens, Clears(k, x) PROVE OfCand(g, c)
  <2>1. sup[x].pc = "starting"
    BY <1>5 DEF Clears, Filling
  <2> QED
    BY <1>5, <2>1 DEF Clears, Others, SameButPc, OfCand
<1>6. ASSUME NEW k \in Callers, Returns(k) PROVE OfCand(g, c)
  BY <1>6 DEF Returns, Others, OfCand
<1>7. CASE Answers
  BY <1>7 DEF Answers, OfCand
<1>8. ASSUME NEW x \in Gens, Unmaps(x) \/ Ends(x) \/ Accounts(x) PROVE OfCand(g, c)
  BY <1>8 DEF Unmaps, Ends, Accounts, Others, SameButPc, OfCand
<1> QED
  BY <1>1, <1>2, <1>3, <1>4, <1>5, <1>6, <1>7, <1>8 DEF Shape

\* A generation keeps its slot, its candidate and its registration until the
\* slot is free.
LEMMA SlotKeeps ==
  ASSUME Inv, SlotInv, Shape, NEW g \in Gens, sup[g].pc # "free"
  PROVE  \/ sup'[g].pc = "free"
         \/ /\ sup'[g].cand = sup[g].cand /\ (Drained(g) => Drained(g)')
            /\ sup'[g].pc = "starting" => sup[g].pc = "starting"
            /\ \/ sup'[g].reg = sup[g].reg /\ (sup'[g].pc = "starting" /\ InMap(g) => InMap(g)')
               \/ \E k \in Callers : \E reg \in RegsOf[call[k].cand] : Inserts(k, g, reg)
<1> USE CallFacts, BlankFields
<1>1. CASE Quiet
  BY <1>1 DEF Quiet, Edge, InMap
<1>2. ASSUME NEW k \in Callers, NEW d \in Cands, NEW n \in Gens, Begins(k, d, n)
      PROVE  /\ sup'[g].cand = sup[g].cand /\ (Drained(g) => Drained(g)')
             /\ sup'[g].pc = "starting" => sup[g].pc = "starting"
             /\ sup'[g].reg = sup[g].reg /\ (InMap(g) => InMap(g)')
  BY <1>2 DEF Begins, SameButPc, Drained, InMap
<1>3. ASSUME NEW k \in Callers, Fails(k)
      PROVE  sup'[g].pc = "free" \/ (sup'[g] = sup[g] /\ (InMap(g) => InMap(g)'))
  <2>1. call[k].gen \in Gens
    BY <1>3 DEF Fails, Filling
  <2> QED
    BY <1>3, <2>1 DEF Fails, Others, InMap
<1>4. ASSUME NEW k \in Callers, NEW x \in Gens, NEW reg \in RegsOf[call[k].cand], Inserts(k, x, reg)
      PROVE  /\ sup'[g].cand = sup[g].cand /\ (Drained(g) => Drained(g)')
             /\ sup'[g].pc = "starting" => sup[g].pc = "starting"
             /\ g # x => sup'[g].reg = sup[g].reg /\ (InMap(g) => InMap(g)')
  BY <1>4 DEF Inserts, Others, Drained, InMap
<1>5. ASSUME NEW k \in Callers, NEW x \in Gens, Clears(k, x)
      PROVE  /\ sup'[g].cand = sup[g].cand /\ (Drained(g) => Drained(g)')
             /\ sup'[g].pc = "starting" => sup[g].pc = "starting"
             /\ sup'[g].reg = sup[g].reg /\ (InMap(g) => InMap(g)')
  BY <1>5 DEF Clears, Others, SameButPc, Drained, InMap
<1>6. ASSUME NEW k \in Callers, Returns(k)
      PROVE  sup'[g].pc = "free" \/ (sup'[g] = sup[g] /\ (InMap(g) => InMap(g)'))
  BY <1>6 DEF Returns, Others, InMap
<1>7. CASE Answers
  BY <1>7 DEF Answers, InMap, Drained
<1>8. ASSUME NEW x \in Gens, Unmaps(x)
      PROVE  /\ sup'[g].cand = sup[g].cand /\ (Drained(g) => Drained(g)')
             /\ sup'[g].pc = "starting" => sup[g].pc = "starting"
             /\ sup'[g].reg = sup[g].reg /\ (sup'[g].pc = "starting" /\ InMap(g) => InMap(g)')
  <2>1. InMap(x)
    BY <1>8 DEF Unmaps, SlotInv
  <2> QED
    BY <1>8, <2>1 DEF Unmaps, Others, SameButPc, Drained, InMap
<1>9. ASSUME NEW x \in Gens, Ends(x) \/ Accounts(x)
      PROVE  \/ sup'[g].pc = "free"
             \/ /\ sup'[g].cand = sup[g].cand /\ (Drained(g) => Drained(g)')
                /\ sup'[g].pc = "starting" => sup[g].pc = "starting"
                /\ sup'[g].reg = sup[g].reg /\ (InMap(g) => InMap(g)')
  BY <1>9 DEF Ends, Accounts, Others, SameButPc, Drained, InMap
<1> QED
  BY <1>1, <1>2, <1>3, <1>4, <1>5, <1>6, <1>7, <1>8, <1>9 DEF Shape, Drained

\* The clones stay what they are in every step but the scan that takes them.
LEMMA CloneKept ==
  ASSUME Base, Shape, Tracks, main'.desired = main.desired,
         \A h \in Cloned' : h.gen \in Gens => h \in Cloned
  PROVE  CloneInv'
<1> USE DEF Base
<1> SUFFICES ASSUME NEW h \in Cloned, h.gen \in Gens
             PROVE  /\ \/ sup'[h.gen].pc = "free"
                       \/ /\ sup'[h.gen].cand = h.cand /\ sup'[h.gen].reg = h.reg
                          /\ sup'[h.gen].pc = "starting" => InMap(h.gen)'
                    /\ h.cand \notin raced' => \A g \in Gens : OfCand(g, h.cand)' => g = h.gen
  BY DEF CloneInv
<1> DEFINE x == h.gen
<1>1. /\ x \in Gens /\ h.cand \in Cands /\ main.pc \in StopPcs /\ Reloading
      /\ h.cand \notin raced' => h.cand \notin raced
      /\ \E e \in Held : e = x
  BY CloneStops DEF CloneInv, Tracks, Held, Cloned, StopPcs
<1>2. /\ \/ sup[x].pc = "free"
         \/ /\ sup[x].cand = h.cand /\ sup[x].reg = h.reg
            /\ sup[x].pc = "starting" => InMap(x)
      /\ h.cand \notin raced => \A g \in Gens : OfCand(g, h.cand) => g = x
  BY <1>1 DEF CloneInv
<1> HIDE DEF x
<1>3. \/ sup'[x].pc = "free"
      \/ /\ sup'[x].cand = h.cand /\ sup'[x].reg = h.reg
         /\ sup'[x].pc = "starting" => InMap(x)'
  <2>1. CASE sup[x].pc = "free"
    <3> SUFFICES ASSUME sup'[x].pc # "free" PROVE FALSE
      OBVIOUS
    <3>0. PICK c : c = sup'[x].cand
      OBVIOUS
    <3>1. OfCand(x, c)' /\ ~OfCand(x, c)
      BY <2>1, <3>0 DEF OfCand
    <3>2. PICK k \in Callers : Begins(k, c, x)
      BY <1>1, <3>1, NewOnly
    <3> QED
      BY <1>1, <3>2 DEF Begins
  <2>2. CASE sup[x].pc # "free"
    <3>1. \A k \in Callers : \A reg \in RegsOf[call[k].cand] : ~Inserts(k, x, reg)
      <4> SUFFICES ASSUME NEW k \in Callers, NEW reg \in RegsOf[call[k].cand], Inserts(k, x, reg)
                   PROVE  FALSE
        OBVIOUS
      <4>1. call[k].at = "insert" /\ call[k].gen = x /\ sup[x].pc = "starting"
        BY CallFacts DEF Inserts, Filling
      <4> QED
        BY <1>2, <4>1, CallFacts DEF InMap
    <3> QED
      BY <1>1, <1>2, <2>2, <3>1, SlotKeeps
  <2> QED
    BY <2>1, <2>2
<1>4. ASSUME h.cand \notin raced', NEW g \in Gens, OfCand(g, h.cand)' PROVE g = x
  <2>1. CASE OfCand(g, h.cand)
    BY <1>1, <1>2, <1>4, <2>1
  <2>2. ASSUME NEW k \in Callers, Begins(k, h.cand, g) PROVE FALSE
    <3>1. k \in Gens /\ OfCand(k, h.cand) /\ sup[k].pc = "delay"
      BY <1>1, <2>2 DEF Begins, StopPcs, OfCand
    <3>2. sup[k].respawn
      BY <3>1 DEF SlotInv
    <3> QED
      BY <1>1, <1>4, <3>1, <3>2, ReloadFacts
  <2> QED
    BY <1>4, <2>1, <2>2, NewOnly
<1> QED
  BY <1>3, <1>4 DEF x

\* A scan takes the clones of what runs and is not wanted.
LEMMA CloneScan ==
  ASSUME Base, Scan, Tracks
  PROVE  CloneInv'
<1> USE DEF Base
<1>1. PICK found \in Scans :
        /\ main.pc = "scan"
        /\ main' = [main EXCEPT !.pc = "stop", !.desired = Desired(found),
                                !.todo = {h \in Handles : h.cand \notin Desired(found)}]
  BY DEF Scan
<1>2. sup' = sup /\ call' = call /\ extensions' = extensions
  BY DEF Scan, tables
<1>3. /\ main'.pc = "stop" /\ main'.desired = Desired(found) /\ main'.current = NoHandle
      /\ main'.todo = {h \in Handles : h.cand \notin Desired(found)}
  <2>1. main \in MainType /\ main.current = NoHandle
    BY <1>1 DEF Inv, StateType, PhaseInv
  <2> DEFINE d == Desired(found)
             t == {h \in Handles : h.cand \notin Desired(found)}
  <2>2. main' = [main EXCEPT !.pc = "stop", !.desired = d, !.todo = t]
    BY <1>1
  <2> HIDE DEF d, t
  <2>3. main'.pc = "stop" /\ main'.desired = d /\ main'.current = NoHandle /\ main'.todo = t
    BY <2>1, <2>2 DEF MainType
  <2> QED
    BY <2>3 DEF d, t
<1>4. Reloading'
  BY <1>3 DEF Reloading
<1>5. NoHandle.gen \notin Gens
  BY BlankTypes DEF NoHandle
<1> SUFFICES ASSUME NEW h \in Handles, h.cand \notin main'.desired
             PROVE  /\ h.cand \in Cands /\ h.reg \in RegsOf[h.cand]
                    /\ sup'[h.gen].cand = h.cand /\ sup'[h.gen].reg = h.reg /\ InMap(h.gen)'
                    /\ h.cand \notin raced' => \A g \in Gens : OfCand(g, h.cand)' => g = h.gen
  <2>1. \A h \in Cloned' : h.gen \in Gens => h \in Handles /\ h.cand \notin main'.desired
    BY <1>3, <1>5 DEF Cloned, StopPcs
  <2> QED
    BY <2>1 DEF CloneInv
<1>6. PICK id \in DOMAIN extensions : h = HandleOf(extensions[id])
  BY DEF Handles
<1> DEFINE x == extensions[id]
<1>7. x \in Gens /\ sup[x].reg.id = id /\ InMap(x)
  BY CallFacts DEF InMap
<1>8. /\ sup[x].reg \in RegsOf[sup[x].cand] /\ sup[x].cand \in Cands
      /\ sup[x].pc \in {"starting", "watch", "drain", "remove"}
  BY <1>7, MapReg
<1> HIDE DEF x
<1>9. h.gen = x /\ h.cand = sup[x].cand /\ h.reg = sup[x].reg
  BY <1>6 DEF HandleOf, x
<1>10. InMap(h.gen)'
  BY <1>2, <1>7, <1>9 DEF InMap
<1>11. ASSUME h.cand \notin raced', NEW g \in Gens, OfCand(g, h.cand)' PROVE g = x
  <2>1. OfCand(g, h.cand) /\ OfCand(x, h.cand) /\ h.cand \in Cands \ raced
    BY <1>2, <1>8, <1>9, <1>11 DEF OfCand, Tracks
  <2>2. g = x \/ Calls(g, x) \/ Calls(x, g)
    BY <1>7, <2>1 DEF ChainInv
  <2>3. ~Calls(x, g)
    BY <1>8 DEF Calls
  <2>4. ~Calls(g, x)
    <3> SUFFICES ASSUME Calls(g, x) PROVE FALSE
      OBVIOUS
    <3>1. sup'[g].pc = "respawning" /\ sup'[g].respawn /\ sup'[g].cand = h.cand
      BY <1>2, <2>1 DEF Calls, SlotInv, OfCand
    <3>2. Between(h.cand)'
      BY <3>1 DEF Between
    <3> QED
      BY <1>4, <1>11, <2>1, <3>2 DEF Tracks
  <2> QED
    BY <2>2, <2>3, <2>4
<1> QED
  BY <1>2, <1>8, <1>9, <1>10, <1>11

\* The main task does not move, and its call goes on or ends.
LEMMA PhaseFrame ==
  ASSUME PhaseInv, main' = main, config' = config, shutting' = shutting, NoOrders,
         \/ call'[Main] = call[Main] \/ call'[Main].at = "none"
         \/ call[Main].at # "none" /\ call'[Main].at = "fail"
         \/ call[Main].at \in {"insert", "clear"} /\ call'[Main].cand = call[Main].cand
  PROVE  PhaseInv'
BY DEF PhaseInv, Wanted, NoOrders

\* What a step of the supervisors and of their environment is.
SupShape(g) ==
  \/ Quiet /\ Others(g)
  \/ \E n \in Gens : Begins(g, sup[g].cand, n)
  \/ Unmaps(g) \/ Ends(g) \/ Accounts(g)

LEMMA SupStepShape ==
  ASSUME Inv, SlotInv, NEW g \in Gens, SupStep(g) \/ ChildExits(g) \/ KillAndRespawn(g)
  PROVE  /\ SupShape(g) /\ NoOrders /\ main' = main /\ config' = config
         /\ shutting' = shutting /\ failed' = failed
<1>1. StateType
  BY DEF Inv
<1>2. CASE CleanMap(g)
  BY <1>2, CleanMapShape DEF SupShape
<1>3. CASE Account(g)
  BY <1>3, AccountShape DEF SupShape
<1>4. CASE Wake(g)
  BY <1>4, WakeShape, DecideShape DEF SupShape
<1>5. CASE Decide(g)
  BY <1>1, <1>5, MovesShape, DecideShape DEF SupShape
<1>6. CASE \/ ChildExits(g) \/ KillAndRespawn(g) \/ SuperviseExit(g) \/ SuperviseCommand(g)
           \/ DrainStop(g) \/ CleanRoutes(g) \/ CleanPrefixes(g) \/ Mark(g)
  BY <1>1, <1>6, MovesShape DEF SupShape
<1> QED
  BY <1>2, <1>3, <1>4, <1>5, <1>6 DEF SupStep

\* The steps of the supervisors leave the call of the main task alone.
LEMMA SupLeavesMain ==
  ASSUME Inv, NEW g \in Gens, SupShape(g)
  PROVE  call'[Main] = call[Main] /\ Shape
<1> USE CallFacts
<1>1. ASSUME NEW n \in Gens, Begins(g, sup[g].cand, n) PROVE call'[Main] = call[Main] /\ Shape
  <2>1. sup[g].cand \in Cands
    BY <1>1 DEF Begins
  <2> QED
    BY <1>1, <2>1 DEF Begins, OtherCalls, Shape
<1>2. CASE Quiet \/ Unmaps(g) \/ Ends(g) \/ Accounts(g)
  BY <1>2 DEF Quiet, Unmaps, Ends, Accounts, OtherCalls, Shape
<1> QED
  BY <1>1, <1>2 DEF SupShape

\* Every step has a shape.
LEMMA StepShape ==
  ASSUME Inv, SlotInv, Next, main.pc # "off"
  PROVE  Shape /\ Running
<1>0. Running
  BY DEF Next, CallNext, SupNext, MainNext
<1> SUFFICES Shape
  BY <1>0
<1>1. ASSUME NEW k \in Callers, CallStep(k) PROVE Shape
  BY <1>1, CallShape DEF Shape
<1>2. ASSUME NEW g \in Gens, SupStep(g) \/ ChildExits(g) \/ KillAndRespawn(g) PROVE Shape
  BY <1>2, SupStepShape, SupLeavesMain
<1>3. CASE Reload \/ Shutdown \/ Tick \/ Scan \/ StopRoutes \/ StopPrefixes \/ StopDone
             \/ ShutdownSnapshot \/ ShutdownWait
  <2>1. Quiet
    BY <1>3, MainShape
  <2> QED
    BY <2>1 DEF Shape
<1>4. CASE Missing \/ Start
  <2>1. main.pc = "start" => main.todo \subseteq Cands
    BY DEF Inv, MainInv
  <2>2. Main \in Callers
    BY CallFacts
  <2>3. CASE Quiet
    BY <2>3 DEF Shape
  <2>4. CASE Answers
    BY <2>4 DEF Shape
  <2>5. ASSUME NEW c \in main.todo, main.pc = "start", NEW n \in Gens, Begins(Main, c, n)
        PROVE  Shape
    BY <2>1, <2>2, <2>5 DEF Shape
  <2>6. \/ Quiet \/ Answers
        \/ main.pc = "start" /\ \E c \in main.todo, n \in Gens : Begins(Main, c, n)
    BY <1>4, StartShape
  <2> QED
    BY <2>3, <2>4, <2>5, <2>6
<1>5. CASE StopSend \/ ShutdownSend
  <2>1. /\ call' = call /\ extensions' = extensions
        /\ \/ sup' = sup \/ \E g : sup' = Told(g, "stop")
           \/ sup' = Told(main.current.gen, "drain")
    BY <1>5 DEF StopSend, ShutdownSend, tables
  <2>2. StateType /\ "stop" \in Commands /\ "drain" \in Commands
    BY DEF Inv, Commands
  <2>3. Quiet
    <3>1. CASE sup' = sup
      BY <2>1, <3>1, StillShape
    <3>2. ASSUME NEW g, sup' = Told(g, "stop") PROVE Quiet
      BY <2>1, <2>2, <3>2, ToldAny
    <3>3. CASE sup' = Told(main.current.gen, "drain")
      BY <2>1, <2>2, <3>3, ToldAny
    <3> QED
      BY <2>1, <3>1, <3>2, <3>3
  <2> QED
    BY <2>3 DEF Shape
<1> QED
  BY <1>1, <1>2, <1>3, <1>4, <1>5 DEF Next, CallNext, SupNext, MainNext, MainStep

\* raced records what it should.
LEMMA RunningTracks == Running => Tracks
BY DEF Running, Tracks

\* How the main task moves, field by field.
MainMove(to) ==
  main'.pc = to /\ main'.desired = main.desired

LEMMA MainFields ==
  ASSUME StateType
  PROVE  /\ Reload => main.pc = "idle" /\ MainMove("scan") /\ main'.todo = main.todo
                        /\ main'.current = main.current
         /\ Shutdown => main.pc = "idle" /\ MainMove("shutdown") /\ main'.current = main.current
         /\ StopPrefixes => main.pc = "stop_prefixes" /\ MainMove("stop_send")
                        /\ main'.todo = main.todo /\ main'.current = main.current
         /\ StopSend => main.pc = "stop_send" /\ MainMove("stop")
                        /\ main'.todo = main.todo /\ main'.current = NoHandle
         /\ StopDone => main.pc = "stop" /\ MainMove("missing") /\ main.todo = {}
                        /\ main'.todo = config.enabled /\ main'.current = main.current
         /\ ShutdownSnapshot => main.pc = "shutdown" /\ main'.pc = "shutdown_send"
                        /\ main'.current = main.current /\ main'.desired = main.desired
<1>1. main \in MainType
  BY DEF StateType
<1>2. Reload => main.pc = "idle" /\ MainMove("scan") /\ main'.todo = main.todo
                        /\ main'.current = main.current
  BY <1>1 DEF MainType, Reload, MainMove
<1>3. Shutdown => main.pc = "idle" /\ MainMove("shutdown") /\ main'.current = main.current
  BY <1>1 DEF MainType, Shutdown, MainMove
<1>4. StopPrefixes => main.pc = "stop_prefixes" /\ MainMove("stop_send")
                        /\ main'.todo = main.todo /\ main'.current = main.current
  BY <1>1 DEF MainType, StopPrefixes, MainMove
<1>5. StopSend => main.pc = "stop_send" /\ MainMove("stop")
                        /\ main'.todo = main.todo /\ main'.current = NoHandle
  BY <1>1 DEF MainType, StopSend, MainMove
<1>6. StopDone => main.pc = "stop" /\ MainMove("missing") /\ main.todo = {}
                        /\ main'.todo = config.enabled /\ main'.current = main.current
  BY <1>1 DEF MainType, StopDone, MainMove
<1>7. ShutdownSnapshot => main.pc = "shutdown" /\ main'.pc = "shutdown_send"
                        /\ main'.current = main.current /\ main'.desired = main.desired
  BY <1>1 DEF MainType, ShutdownSnapshot
<1> QED
  BY <1>2, <1>3, <1>4, <1>5, <1>6, <1>7

\* The scan, and the clone that is stopped next.
LEMMA ScanFields ==
  ASSUME StateType, Scan
  PROVE  \E found \in Scans :
           /\ main.pc = "scan" /\ main'.pc = "stop" /\ main'.current = main.current
           /\ main'.desired = Desired(found)
           /\ main'.todo = {h \in Handles : h.cand \notin Desired(found)}
<1>1. PICK found \in Scans :
        /\ main.pc = "scan"
        /\ main' = [main EXCEPT !.pc = "stop", !.desired = Desired(found),
                                !.todo = {h \in Handles : h.cand \notin Desired(found)}]
  BY DEF Scan
<1>2. main \in MainType
  BY DEF StateType
<1> DEFINE d == Desired(found)
           t == {h \in Handles : h.cand \notin Desired(found)}
<1>3. main' = [main EXCEPT !.pc = "stop", !.desired = d, !.todo = t]
  BY <1>1
<1> HIDE DEF d, t
<1>4. main'.pc = "stop" /\ main'.desired = d /\ main'.current = main.current /\ main'.todo = t
  BY <1>2, <1>3 DEF MainType
<1> QED
  BY <1>1, <1>4 DEF d, t

LEMMA StopRoutesFields ==
  ASSUME StateType, StopRoutes
  PROVE  \E h \in main.todo :
           /\ main.pc = "stop" /\ MainMove("stop_prefixes") /\ main'.current = h
           /\ main'.todo = main.todo \ {h} /\ routes' = Without(routes, h.reg.id)
<1>1. PICK h \in main.todo :
       /\ main' = [main EXCEPT !.pc = "stop_prefixes", !.current = h, !.todo = main.todo \ {h}]
       /\ routes' = Without(routes, h.reg.id) /\ main.pc = "stop"
  BY DEF StopRoutes
<1>2. main \in MainType
  BY DEF StateType
<1>3. MainMove("stop_prefixes") /\ main'.current = h /\ main'.todo = main.todo \ {h}
  BY <1>1, <1>2 DEF MainType, MainMove
<1> QED
  BY <1>1, <1>3

\* The send and the wait of the shutdown.
LEMMA ShutdownFields ==
  ASSUME StateType, ShutdownSend \/ ShutdownWait
  PROVE  /\ main.pc \in {"shutdown_send", "shutdown_wait"}
         /\ main'.pc \in {"shutdown_send", "shutdown_wait", "off"}
         /\ main'.current = main.current /\ main'.desired = main.desired
<1>1. main \in MainType
  BY DEF StateType
<1>2. CASE ShutdownSend
  <2>1. \/ main' = [main EXCEPT !.pc = "shutdown_wait"]
        \/ \E h \in main.todo : main' = [main EXCEPT !.todo = main.todo \ {h}]
    BY <1>2 DEF ShutdownSend
  <2>2. main.pc = "shutdown_send"
    BY <1>2 DEF ShutdownSend
  <2> QED
    BY <1>1, <2>1, <2>2 DEF MainType
<1>3. CASE ShutdownWait
  <2>1. main' = [main EXCEPT !.pc = "off"]
    BY <1>3 DEF ShutdownWait
  <2>2. main.pc = "shutdown_wait"
    BY <1>3 DEF ShutdownWait
  <2> QED
    BY <1>1, <2>1, <2>2 DEF MainType
<1> QED
  BY <1>2, <1>3

\* The steps of Next by who takes them.
LEMMA Cases ==
  ASSUME Next, main.pc # "off"
  PROVE  \/ \E k \in Callers : CallStep(k)
         \/ \E g \in Gens : SupStep(g) \/ ChildExits(g) \/ KillAndRespawn(g)
         \/ Tick \/ Reload \/ Scan \/ StopRoutes \/ StopPrefixes \/ StopSend \/ StopDone
         \/ Missing \/ Start
         \/ Shutdown \/ ShutdownSnapshot \/ ShutdownSend \/ ShutdownWait
BY DEF Next, CallNext, SupNext, MainNext, MainStep

\* The main task finishes a reload's stops before it starts anything, and
\* starts what the configuration wants.
LEMMA PhaseKept ==
  ASSUME Inv, SlotInv, PhaseInv, Next, main.pc # "off"
  PROVE  PhaseInv'
<1>1. ASSUME NEW k \in Callers, CallStep(k) PROVE PhaseInv'
  <2>1. NoOrders /\ main' = main /\ config' = config /\ shutting' = shutting
    BY <1>1, CallShape
  <2>2. \/ call'[Main] = call[Main] \/ call'[Main].at = "none"
        \/ call[Main].at # "none" /\ call'[Main].at = "fail"
        \/ call[Main].at \in {"insert", "clear"} /\ call'[Main].cand = call[Main].cand
    <3>0. k = Main => Main \in Callers /\ k \notin Gens
      BY CallFacts
    <3>1. CASE Fails(k)
      BY <3>0, <3>1, CallFacts DEF Fails, OtherCalls
    <3>2. ASSUME NEW g \in Gens, NEW reg \in RegsOf[call[k].cand], Inserts(k, g, reg)
          PROVE  call'[Main] = call[Main]
                   \/ (call[Main].at = "insert" /\ call'[Main].cand = call[Main].cand)
      BY <3>0, <3>2, CallFacts DEF Inserts, OtherCalls
    <3>3. ASSUME NEW g \in Gens, Clears(k, g)
          PROVE  call'[Main] = call[Main]
                   \/ (call[Main].at = "clear" /\ call'[Main].cand = call[Main].cand)
      BY <3>0, <3>3, CallFacts DEF Clears, OtherCalls
    <3>4. CASE Returns(k)
      BY <3>0, <3>4, CallFacts DEF Returns, OtherCalls
    <3>5. CASE call[Main].at # "none" /\ Answers
      BY <3>5, BlankFields DEF Answers
    <3>6. \/ Fails(k)
          \/ Returns(k)
          \/ call[Main].at # "none" /\ Answers
          \/ \E g \in Gens : \E reg \in RegsOf[call[k].cand] : Inserts(k, g, reg)
          \/ \E g \in Gens : Clears(k, g)
      BY <1>1, CallShape DEF ReportOk, ReportFailed
    <3> QED
      BY <3>1, <3>2, <3>3, <3>4, <3>5, <3>6
  <2> QED
    BY <2>1, <2>2, PhaseFrame
<1>2. ASSUME NEW g \in Gens, SupStep(g) \/ ChildExits(g) \/ KillAndRespawn(g) PROVE PhaseInv'
  BY <1>2, SupStepShape, SupLeavesMain, PhaseFrame
<1>3. CASE Tick
  <2>1. main' = main /\ config' = config /\ shutting' = shutting /\ call' = call /\ NoOrders
    BY <1>3, MainShape DEF Tick
  <2> QED
    BY <2>1, PhaseFrame
<1>st. StateType /\ (shutting <=> main.pc \in ShutPcs)
  BY DEF Inv, MainInv
<1>4. CASE Reload
  <2>1. call' = call /\ shutting' = shutting /\ NoOrders
    BY <1>4, MainShape DEF Reload
  <2>2. main.pc = "idle" /\ main'.pc = "scan" /\ main'.current = main.current
    BY <1>4, <1>st, MainFields DEF MainMove
  <2> QED
    BY <2>1, <2>2 DEF PhaseInv, NoOrders, StopPcs
<1>5. CASE Scan
  <2>1. call' = call /\ shutting' = shutting /\ config' = config /\ NoOrders
    BY <1>5, MainShape DEF Scan
  <2>2. PICK found \in Scans :
           /\ main.pc = "scan" /\ main'.pc = "stop" /\ main'.current = main.current
           /\ main'.desired = Desired(found)
           /\ main'.todo = {h \in Handles : h.cand \notin Desired(found)}
    BY <1>5, <1>st, ScanFields
  <2>3. \A c \in Desired(found) : Wanted(c)
    BY DEF Desired, Wanted
  <2>4. \A c \in main'.desired : Wanted(c)'
    BY <2>1, <2>2, <2>3 DEF Wanted
  <2>5. \A h \in main'.todo : h.gen \in Gens
    BY <2>2, CallFacts DEF Handles, HandleOf
  <2> QED
    BY <2>1, <2>2, <2>4, <2>5 DEF PhaseInv, NoOrders, StopPcs
<1>6. CASE StopRoutes
  <2>1. call' = call /\ shutting' = shutting /\ config' = config /\ NoOrders
    BY <1>6, MainShape DEF StopRoutes
  <2>2. /\ main.pc = "stop" /\ MainMove("stop_prefixes")
        /\ main'.todo \subseteq main.todo /\ main'.current \in main.todo
    BY <1>6, <1>st, StopRoutesFields
  <2> QED
    BY <2>1, <2>2 DEF PhaseInv, NoOrders, MainMove, Wanted, StopPcs
<1>7. CASE StopPrefixes \/ StopDone
  <2>1. call' = call /\ shutting' = shutting /\ config' = config /\ NoOrders
    BY <1>7, MainShape DEF StopPrefixes, StopDone
  <2>2. \/ main.pc = "stop_prefixes" /\ MainMove("stop_send")
             /\ main'.todo = main.todo /\ main'.current = main.current
        \/ main.pc = "stop" /\ MainMove("missing") /\ main'.current = main.current
    BY <1>7, <1>st, MainFields
  <2> QED
    BY <2>1, <2>2 DEF PhaseInv, NoOrders, MainMove, Wanted, StopPcs
<1>8. CASE StopSend
  <2>1. /\ call' = call /\ shutting' = shutting /\ config' = config /\ extensions' = extensions
        /\ sup' = Told(main.current.gen, "drain")
    BY <1>8 DEF StopSend
  <2>2. main.pc = "stop_send" /\ MainMove("stop") /\ main'.current = NoHandle
          /\ main'.todo = main.todo
    BY <1>8, <1>st, MainFields
  <2>3. \A h \in Gens : Stopping(h)' => Stopping(h)
    BY <1>st, <2>1, ToldAny DEF Commands
  <2> QED
    BY <2>1, <2>2, <2>3 DEF PhaseInv, MainMove, Wanted, StopPcs
<1>9. CASE Missing \/ Start
  <2>1. main \in MainType
    BY <1>st DEF StateType
  <2>2. /\ NoOrders /\ config' = config /\ shutting' = shutting
        /\ main.pc \in {"missing", "start"} /\ call[Main].at = "none"
    BY <1>9, StartShape
  <2>3. CASE call' = call /\ main.todo = {} /\ main.pc = "missing"
               /\ main' = [main EXCEPT !.pc = "start", !.todo = main.desired]
    <3>1. /\ main'.pc = "start" /\ main'.todo = main.desired /\ main'.desired = main.desired
          /\ main'.current = main.current
      BY <2>1, <2>3 DEF MainType
    <3> QED
      BY <2>2, <2>3, <3>1 DEF PhaseInv, NoOrders, Wanted, StopPcs
  <2>4. CASE call' = call /\ main.todo = {} /\ main.pc = "start" /\ main' = [main EXCEPT !.pc = "idle"]
    <3>1. main'.pc = "idle" /\ main'.desired = main.desired /\ main'.current = main.current
      BY <2>1, <2>4 DEF MainType
    <3> QED
      BY <2>2, <2>4, <3>1 DEF PhaseInv, NoOrders, Wanted, StopPcs
  <2>5. ASSUME NEW c \in main.todo, main' = [main EXCEPT !.todo = main.todo \ {c}],
               \/ call' = call
               \/ main.pc = "start" /\ call'[Main].cand = c
               \/ call'[Main].at = "fail"
        PROVE  PhaseInv'
    <3>1. /\ main'.pc = main.pc /\ main'.desired = main.desired /\ main'.current = main.current
          /\ main'.todo = main.todo \ {c}
      BY <2>1, <2>5 DEF MainType
    <3> QED
      BY <2>2, <2>5, <3>1 DEF PhaseInv, NoOrders, Wanted, StopPcs
  <2>6. \/ call' = call /\ main.todo = {} /\ main.pc = "missing"
             /\ main' = [main EXCEPT !.pc = "start", !.todo = main.desired]
        \/ call' = call /\ main.todo = {} /\ main.pc = "start" /\ main' = [main EXCEPT !.pc = "idle"]
        \/ \E c \in main.todo :
             /\ main' = [main EXCEPT !.todo = main.todo \ {c}]
             /\ \/ call' = call
                \/ main.pc = "start" /\ call'[Main].cand = c
                \/ call'[Main].at = "fail"
    BY <1>9, StartShape DEF Begins
  <2> QED
    BY <2>3, <2>4, <2>5, <2>6
<1>10. CASE Shutdown \/ ShutdownSnapshot \/ ShutdownSend \/ ShutdownWait
  <2>1. /\ call' = call /\ config' = config
        /\ main.pc \notin {"stop_prefixes", "stop_send", "scan"} /\ main'.current = main.current
        /\ main'.desired = main.desired /\ main'.pc \in ShutPcs /\ main.pc \notin {"missing", "start"}
    <3>1. call' = call /\ config' = config
      BY <1>10 DEF Shutdown, ShutdownSnapshot, ShutdownSend, ShutdownWait
    <3> QED
      BY <1>10, <1>st, <3>1, MainFields, ShutdownFields DEF MainMove, ShutPcs
  <2>2. shutting'
    <3>1. Inv'
      BY NextInv
    <3> QED
      BY <2>1, <3>1 DEF Inv, MainInv
  <2> QED
    BY <2>1, <2>2 DEF PhaseInv, Wanted, ShutPcs, StopPcs
<1> QED
  BY <1>1, <1>2, <1>3, <1>4, <1>5, <1>6, <1>7, <1>8, <1>9, <1>10, Cases

\* Only a scan takes clones.
LEMMA CloneFewer ==
  ASSUME Inv, SlotInv, PhaseInv, Next, main.pc # "off", ~Scan
  PROVE  /\ main'.desired = main.desired
         /\ \A h \in Cloned' : h.gen \in Gens => h \in Cloned
<1>0. StateType /\ NoHandle.gen \notin Gens /\ main \in MainType
  BY BlankTypes DEF Inv, StateType, NoHandle
<1> DEFINE Goal == /\ main'.desired = main.desired
                   /\ \A h \in Cloned' : h.gen \in Gens => h \in Cloned
<1>1. CASE main' = main
  BY <1>1 DEF Cloned
<1>2. CASE Reload \/ Shutdown
  BY <1>0, <1>2, MainFields DEF MainMove, Cloned, StopPcs
<1>3. CASE StopRoutes
  BY <1>0, <1>3, StopRoutesFields DEF MainMove, Cloned, StopPcs
<1>4. CASE StopPrefixes \/ StopSend \/ StopDone
  BY <1>0, <1>4, MainFields DEF MainMove, Cloned, StopPcs
<1>5. CASE Missing \/ Start
  <2>1. /\ main.pc \in {"missing", "start"}
        /\ \/ main' = [main EXCEPT !.pc = "start", !.todo = main.desired]
           \/ main' = [main EXCEPT !.pc = "idle"]
           \/ \E c \in main.todo : main' = [main EXCEPT !.todo = main.todo \ {c}]
    BY <1>5, StartShape
  <2>2. main'.desired = main.desired /\ main'.current = main.current /\ main'.pc \notin StopPcs
    BY <1>0, <2>1 DEF MainType, StopPcs
  <2> QED
    BY <2>2 DEF Cloned
<1>6. CASE ShutdownSnapshot \/ ShutdownSend \/ ShutdownWait
  BY <1>0, <1>6, MainFields, ShutdownFields DEF Cloned, StopPcs
<1>7. ASSUME NEW k \in Callers, CallStep(k) PROVE main' = main
  BY <1>7, CallShape
<1>8. ASSUME NEW g \in Gens, SupStep(g) \/ ChildExits(g) \/ KillAndRespawn(g) PROVE main' = main
  BY <1>8, SupStepShape
<1>9. ASSUME Tick PROVE main' = main
  BY <1>9 DEF Tick
<1> QED
  BY <1>1, <1>2, <1>3, <1>4, <1>5, <1>6, <1>7, <1>8, <1>9, Cases

LEMMA BaseInit == Init => Base
<1> SUFFICES ASSUME Init PROVE Base
  OBVIOUS
<1>1. Inv
  BY InitInv
<1>2. /\ \A g \in Gens : sup[g].pc = "free" /\ sup[g].commands = << >>
      /\ \A k \in Callers : call[k].at = "none"
      /\ main.pc = "scan" /\ main.current = NoHandle /\ NoHandle.gen \notin Gens
      /\ Main \in Callers
  BY BlankFields, BlankTypes DEF Init, Free, NoCall, NoHandle
<1>3. SlotInv
  BY <1>2, BlankTypes DEF SlotInv
<1>4. ChainInv
  BY <1>2 DEF ChainInv, Between, Overtaken, OfCand
<1>5. PhaseInv
  BY <1>2 DEF PhaseInv, Stopping, Contains, StopPcs
<1>6. CloneInv
  BY <1>2 DEF CloneInv, Cloned, StopPcs
<1> QED
  BY <1>1, <1>3, <1>4, <1>5, <1>6 DEF Base

\* Nothing changes: a stuttering step, or the step of a server that is off.
LEMMA BaseStill == ASSUME Base, UNCHANGED vars PROVE Base'
<1>1. Inv'
  BY NextInv DEF Base
<1>2. /\ sup' = sup /\ call' = call /\ main' = main /\ extensions' = extensions
      /\ raced' = raced /\ config' = config /\ shutting' = shutting
  BY DEF vars, tables
<1>3. SlotInv'
  BY <1>2 DEF Base, SlotInv, InMap, Filling
<1>4. ChainInv'
  BY <1>2 DEF Base, ChainInv, Between, Overtaken, OfCand, Calls, Reloading
<1>5. PhaseInv'
  BY <1>2 DEF Base, PhaseInv, Stopping, Wanted
<1>6. CloneInv'
  BY <1>2 DEF Base, CloneInv, Cloned, OfCand, InMap
<1> QED
  BY <1>1, <1>3, <1>4, <1>5, <1>6 DEF Base

LEMMA BaseNext == Base /\ [Next]_vars => Base'
<1> SUFFICES ASSUME Base, [Next]_vars PROVE Base'
  OBVIOUS
<1>1. CASE UNCHANGED vars
  BY <1>1, BaseStill
<1>2. CASE Next /\ main.pc # "off"
  <2>1. Inv /\ SlotInv /\ ChainInv /\ PhaseInv /\ CloneInv
    BY DEF Base
  <2>2. Inv'
    BY <2>1, NextInv
  <2>3. Shape /\ Tracks
    BY <1>2, <2>1, StepShape, RunningTracks
  <2>4. SlotInv'
    BY <2>1, <2>3, SlotKept
  <2>5. ChainInv'
    BY <2>1, <2>3, ChainKept DEF PhaseInv
  <2>6. PhaseInv'
    BY <1>2, <2>1, PhaseKept
  <2>7. CloneInv'
    BY <1>2, <2>1, <2>3, CloneScan, CloneKept, CloneFewer
  <2> QED
    BY <2>2, <2>4, <2>5, <2>6, <2>7 DEF Base
<1>3. CASE Next /\ main.pc = "off"
  BY <1>1, <1>3 DEF Next, CallNext, SupNext, MainNext, Running
<1> QED
  BY <1>1, <1>2, <1>3

\* A candidate that no reload has met in between has one generation, or the
\* one its supervisor has called for beside it; the clones a reload holds are
\* of generations that are still in their slots or gone.
THEOREM BaseAlways == Spec => []Base
<1> QED
  BY BaseInit, BaseNext, PTL DEF Spec

-----------------------------------------------------------------------------
(* Claims *)

\* A generation that serves: registered, and not told to drain.
Up(g) == sup[g].pc \in {"starting", "watch"} /\ InMap(g) /\ ~Drained(g)

\* A generation serves because it did before, or because it has just been
\* inserted.
LEMMA UpBack ==
  ASSUME Inv, SlotInv, Shape, NEW g \in Gens, Up(g)'
  PROVE  \/ Up(g) /\ sup'[g].reg = sup[g].reg /\ sup'[g].cand = sup[g].cand
         \/ \E k \in Callers : \E reg \in RegsOf[call[k].cand] : Inserts(k, g, reg)
<1> USE CallFacts, BlankFields
<1>1. /\ sup'[g].pc \in {"starting", "watch"} /\ sup'[g].reg.id \in DOMAIN extensions'
      /\ extensions'[sup'[g].reg.id] = g /\ ~Drained(g)'
  BY DEF Up, InMap
<1> DEFINE Same == Up(g) /\ sup'[g].reg = sup[g].reg /\ sup'[g].cand = sup[g].cand
<1>2. ASSUME Quiet PROVE Same
  <2>1. /\ sup'[g].cand = sup[g].cand /\ sup'[g].reg = sup[g].reg /\ (Drained(g) => Drained(g)')
        /\ sup[g].pc \in {"starting", "watch"} /\ extensions' = extensions
    BY <1>1, <1>2 DEF Quiet, Edge
  <2> QED
    BY <1>1, <2>1 DEF Up, InMap
<1>3. ASSUME sup'[g] = sup[g], \A id \in DOMAIN extensions' :
               extensions'[id] = g => id \in DOMAIN extensions /\ extensions[id] = g
      PROVE  Same
  BY <1>1, <1>3 DEF Up, InMap, Drained
<1>4. ASSUME NEW k \in Callers, NEW d \in Cands, NEW n \in Gens, Begins(k, d, n) PROVE Same
  <2>1. CASE g \notin {n, k}
    BY <1>3, <1>4, <2>1 DEF Begins
  <2>2. CASE g = n
    <3>1. sup[g].pc = "free" /\ extensions' = extensions
      BY <1>4, <2>2 DEF Begins
    <3> QED
      BY <1>1, <3>1
  <2>3. CASE g = k
    BY <1>1, <1>4, <2>3 DEF Begins
  <2> QED
    BY <2>1, <2>2, <2>3
<1>5. ASSUME NEW k \in Callers, Fails(k) PROVE Same
  BY <1>1, <1>3, <1>5 DEF Fails, Others
<1>6. ASSUME NEW k \in Callers, NEW x \in Gens, NEW reg \in RegsOf[call[k].cand],
             Inserts(k, x, reg), x # g
      PROVE  Same
  <2>1. sup'[g] = sup[g]
    BY <1>6 DEF Inserts, Others
  <2>2. \A id \in DOMAIN extensions' :
               extensions'[id] = g => id \in DOMAIN extensions /\ extensions[id] = g
    BY <1>6 DEF Inserts
  <2> QED
    BY <1>3, <2>1, <2>2
<1>7. ASSUME NEW k \in Callers, NEW x \in Gens, Clears(k, x) PROVE Same
  <2>1. CASE x # g
    BY <1>3, <1>7, <2>1 DEF Clears, Others
  <2>2. CASE x = g
    <3>0. call[k].at = "clear" /\ x = call[k].gen
      BY <1>7 DEF Clears
    <3>1. sup[g].pc = "starting"
      BY <2>2, <3>0 DEF Filling
    <3>2. SameButPc(x) /\ extensions' = extensions
      BY <1>7 DEF Clears
    <3> QED
      BY <1>1, <2>2, <3>1, <3>2 DEF Up, InMap, Drained, SameButPc
  <2> QED
    BY <2>1, <2>2
<1>8. ASSUME NEW k \in Callers, Returns(k) PROVE Same
  BY <1>1, <1>3, <1>8 DEF Returns, Others
<1>9. CASE Answers
  BY <1>3, <1>9 DEF Answers
<1>10. ASSUME NEW x \in Gens, Unmaps(x) \/ Ends(x) \/ Accounts(x) PROVE Same
  <2>1. x # g
    BY <1>1, <1>10 DEF Unmaps, Ends, Accounts
  <2> QED
    BY <1>3, <1>10, <2>1 DEF Unmaps, Ends, Accounts, Others
<1> QED
  BY <1>2, <1>4, <1>5, <1>6, <1>7, <1>8, <1>9, <1>10 DEF Shape

\* A prefix overlaps itself, so a claim that is taken is refused.
LEMMA SelfOverlap ==
  ASSUME NEW p \in Seq(STRING)
  PROVE  channel_prefixes_overlap(p, p)
<1>1. SubSeq(p, 1, Len(p)) = p /\ Len(p) <= Len(p)
  OBVIOUS
<1> QED
  BY <1>1 DEF channel_prefixes_overlap, channel_is_in_prefix

\* What an insert and a removal do to the claims of another extension.
LEMMA GiveKeeps ==
  ASSUME NEW T, NEW keys, NEW id, NEW k \in DOMAIN T, k \notin ToSet(keys)
  PROVE  k \in DOMAIN Give(T, keys, id) /\ Give(T, keys, id)[k] = T[k]
BY DEF Give

LEMMA GiveGives ==
  ASSUME NEW T, NEW keys, NEW id, NEW k \in ToSet(keys)
  PROVE  k \in DOMAIN Give(T, keys, id) /\ Give(T, keys, id)[k] = id
BY DEF Give

LEMMA WithoutKeeps ==
  ASSUME NEW T, NEW id, NEW k \in DOMAIN T, T[k] # id
  PROVE  k \in DOMAIN Without(T, id) /\ Without(T, id)[k] = T[k]
BY DEF Without

\* Candidates register ids of their own.  Two that register one id take each
\* other's claims: the cleanup of the first removes by id what the second has
\* just inserted.
OwnIds == \A c, d \in Cands : c # d => \A r \in RegsOf[c], s \in RegsOf[d] : r.id # s.id

Routed(g) ==
  /\ \A k \in ToSet(sup[g].reg.paths) : k \in DOMAIN routes /\ routes[k] = sup[g].reg.id
  /\ \A k \in ToSet(sup[g].reg.channels) : k \in DOMAIN prefixes /\ prefixes[k] = sup[g].reg.id

RouteInv ==
  \A g \in Gens : Up(g) /\ main.current.gen # g /\ sup[g].cand \notin raced => Routed(g)

\* Who changes the claims: a cleanup, the stop of a clone, or an insert.
Cleans(id) ==
  /\ routes' = routes \/ routes' = Without(routes, id)
  /\ prefixes' = prefixes \/ prefixes' = Without(prefixes, id)

LEMMA ClaimSteps ==
  ASSUME Inv, SlotInv, PhaseInv, Next, main.pc # "off"
  PROVE  \/ routes' = routes /\ prefixes' = prefixes
         \/ \E x \in Gens : sup[x].pc \in {"routes", "prefixes"} /\ Cleans(sup[x].reg.id)
         \/ \E h \in Cloned : h.gen \in Gens /\ main'.current = h /\ Cleans(h.reg.id)
         \/ \E k \in Callers, x \in Gens : \E reg \in RegsOf[call[k].cand] :
              /\ Inserts(k, x, reg)
              /\ routes' = Give(routes, reg.paths, reg.id)
              /\ prefixes' = Give(prefixes, reg.channels, reg.id)
<1>0. StateType
  BY DEF Inv
<1>1. ASSUME NEW k \in Callers, CallStep(k)
      PROVE  \/ routes' = routes /\ prefixes' = prefixes
             \/ \E x \in Gens : \E reg \in RegsOf[call[k].cand] :
                  /\ Inserts(k, x, reg)
                  /\ routes' = Give(routes, reg.paths, reg.id)
                  /\ prefixes' = Give(prefixes, reg.channels, reg.id)
  <2>1. ClearMarks(k) \/ ReportOk(k) \/ ReportFailed(k) => routes' = routes /\ prefixes' = prefixes
    BY DEF ClearMarks, ReportOk, ReportFailed
  <2> QED
    BY <1>1, <2>1, CallShape
<1>2. ASSUME NEW g \in Gens, SupStep(g) \/ ChildExits(g) \/ KillAndRespawn(g)
      PROVE  \/ routes' = routes /\ prefixes' = prefixes
             \/ sup[g].pc \in {"routes", "prefixes"} /\ Cleans(sup[g].reg.id)
  <2>1. CASE CleanRoutes(g) \/ CleanPrefixes(g)
    BY <2>1 DEF CleanRoutes, CleanPrefixes, Cleans
  <2>2. CASE ~(CleanRoutes(g) \/ CleanPrefixes(g))
    BY <1>2, <2>2
       DEF SupStep, ChildExits, KillAndRespawn, SuperviseExit, SuperviseCommand, DrainStop,
           CleanMap, Mark, Decide, Account, Wake, tables
  <2> QED
    BY <2>1, <2>2
<1>3. CASE StopRoutes
  <2>1. PICK h \in main.todo :
          main.pc = "stop" /\ main'.current = h /\ routes' = Without(routes, h.reg.id)
    BY <1>0, <1>3, StopRoutesFields
  <2>2. prefixes' = prefixes
    BY <1>3 DEF StopRoutes
  <2>3. h \in Cloned /\ h.gen \in Gens
    BY <2>1 DEF Cloned, StopPcs, PhaseInv
  <2> QED
    BY <2>1, <2>2, <2>3 DEF Cleans
<1>4. CASE StopPrefixes
  <2>1. main.pc = "stop_prefixes" /\ main'.current = main.current
    BY <1>0, <1>4, MainFields
  <2>2. routes' = routes /\ prefixes' = Without(prefixes, main.current.reg.id)
    BY <1>4 DEF StopPrefixes
  <2>3. main.current \in Cloned /\ main.current.gen \in Gens
    BY <2>1 DEF Cloned, PhaseInv
  <2>4. Cleans(main.current.reg.id)
    BY <2>2 DEF Cleans
  <2> QED
    BY <2>1, <2>3, <2>4
<1>5. CASE \/ Tick \/ Reload \/ Scan \/ StopSend \/ StopDone \/ Missing \/ Start
           \/ Shutdown \/ ShutdownSnapshot \/ ShutdownSend \/ ShutdownWait
  BY <1>5 DEF Tick, Reload, Scan, StopSend, StopDone, Missing, Start, Shutdown,
              ShutdownSnapshot, ShutdownSend, ShutdownWait, tables
<1> QED
  BY <1>1, <1>2, <1>3, <1>4, <1>5, Cases

\* A generation that is no longer being stopped has been told to drain.
LEMMA CurrentBack ==
  ASSUME Inv, SlotInv, PhaseInv, Next, main.pc # "off", NEW g \in Gens, Up(g)',
         main'.current.gen # g
  PROVE  main.current.gen # g
<1> SUFFICES ASSUME main.current.gen = g PROVE FALSE
  OBVIOUS
<1>0. StateType /\ Main \notin Gens /\ NoHandle.gen = Main
  BY CallFacts DEF Inv, NoHandle
<1>1. main.pc \in {"stop_prefixes", "stop_send"}
  BY <1>0 DEF PhaseInv
<1>2. main' # main
  OBVIOUS
<1>3. ASSUME StopSend PROVE FALSE
  <2>1. call' = call /\ extensions' = extensions /\ sup' = Told(main.current.gen, "drain")
    BY <1>3 DEF StopSend
  <2>2. sup' = Told(g, "drain") /\ "drain" \in Commands
    BY <2>1 DEF Commands
  <2>3. /\ sup'[g].pc = sup[g].pc
        /\ sup[g].pc \in {"starting", "watch"} => Drained(g)'
    BY <1>0, <2>1, <2>2, ToldAny
  <2> QED
    BY <2>3 DEF Up
<1>4. ASSUME StopPrefixes PROVE FALSE
  BY <1>0, <1>4, MainFields
<1>5. ~StopRoutes /\ ~Scan /\ ~Missing /\ ~Start /\ ~Reload /\ ~StopDone
  BY <1>1 DEF StopRoutes, Scan, Missing, Start, Reload, StopDone
<1>6. ~Shutdown /\ ~ShutdownSnapshot /\ ~ShutdownSend /\ ~ShutdownWait
  BY <1>1 DEF Shutdown, ShutdownSnapshot, ShutdownSend, ShutdownWait
<1>7. ASSUME NEW k \in Callers, CallStep(k) PROVE FALSE
  BY <1>2, <1>7, CallShape
<1>8. ASSUME NEW x \in Gens, SupStep(x) \/ ChildExits(x) \/ KillAndRespawn(x) PROVE FALSE
  BY <1>2, <1>8, SupStepShape
<1>9. ~Tick
  BY <1>2 DEF Tick
<1> QED
  BY <1>3, <1>4, <1>5, <1>6, <1>7, <1>8, <1>9, Cases

\* What is removed by the id of another extension leaves a routed generation
\* alone.
LEMMA CleansOther ==
  ASSUME NEW g \in Gens, Routed(g), NEW id, id # sup[g].reg.id, Cleans(id),
         sup'[g].reg = sup[g].reg
  PROVE  Routed(g)'
<1>1. \A k \in ToSet(sup[g].reg.paths) : k \in DOMAIN routes' /\ routes'[k] = sup[g].reg.id
  BY WithoutKeeps DEF Routed, Cleans
<1>2. \A k \in ToSet(sup[g].reg.channels) : k \in DOMAIN prefixes' /\ prefixes'[k] = sup[g].reg.id
  BY WithoutKeeps DEF Routed, Cleans
<1> QED
  BY <1>1, <1>2 DEF Routed

\* An insert takes no claim of a generation in the map.
LEMMA InsertOther ==
  ASSUME Inv, NEW g \in Gens, Routed(g), InMap(g), NEW k \in Callers,
         NEW reg \in RegsOf[call[k].cand], NEW x \in Gens, Inserts(k, x, reg), x # g,
         routes' = Give(routes, reg.paths, reg.id),
         prefixes' = Give(prefixes, reg.channels, reg.id)
  PROVE  Routed(g)'
<1> DEFINE id == sup[g].reg.id
<1>1. sup'[g].reg = sup[g].reg
  BY DEF Inserts, Others
<1>2. /\ reg.id # id /\ call[k].cand \in Cands
      /\ validate_registration_claims(reg.id, reg.paths, reg.channels, routes, prefixes)
  BY CallFacts DEF Inserts, Collides, InMap
<1>3. \A p \in ToSet(sup[g].reg.paths) : p \in DOMAIN routes' /\ routes'[p] = id
  <2> SUFFICES ASSUME NEW p \in ToSet(sup[g].reg.paths)
               PROVE  p \in DOMAIN routes' /\ routes'[p] = id
    OBVIOUS
  <2>1. p \in DOMAIN routes /\ routes[p] = id
    BY DEF Routed
  <2>2. p \notin ToSet(reg.paths)
    BY <1>2, <2>1 DEF validate_registration_claims, ClaimOk, ToSet
  <2> QED
    BY <2>1, <2>2, GiveKeeps
<1>4. \A p \in ToSet(sup[g].reg.channels) : p \in DOMAIN prefixes' /\ prefixes'[p] = id
  <2> SUFFICES ASSUME NEW p \in ToSet(sup[g].reg.channels)
               PROVE  p \in DOMAIN prefixes' /\ prefixes'[p] = id
    OBVIOUS
  <2>1. p \in DOMAIN prefixes /\ prefixes[p] = id
    BY DEF Routed
  <2>2. ASSUME p \in ToSet(reg.channels) PROVE FALSE
    <3>1. PICK i \in DOMAIN reg.channels : p = reg.channels[i]
      BY <2>2 DEF ToSet
    <3>2. p \in Seq(STRING)
      BY <1>2, <3>1, RegsAssumption
    <3>3. PrefixOk(reg.id, p, routes, prefixes)
      BY <1>2, <3>1 DEF validate_registration_claims
    <3>4. prefixes[p] = reg.id \/ ~channel_prefixes_overlap(p, p)
      BY <2>1, <3>3 DEF PrefixOk
    <3> QED
      BY <1>2, <2>1, <3>2, <3>4, SelfOverlap
  <2> QED
    BY <2>1, <2>2, GiveKeeps
<1> QED
  BY <1>1, <1>3, <1>4 DEF Routed

\* A generation that is inserted has all its claims.
LEMMA InsertOwn ==
  ASSUME NEW g \in Gens, NEW k \in Callers, NEW reg \in RegsOf[call[k].cand],
         Inserts(k, g, reg), routes' = Give(routes, reg.paths, reg.id),
         prefixes' = Give(prefixes, reg.channels, reg.id)
  PROVE  Routed(g)'
<1>1. sup'[g].reg = reg
  BY DEF Inserts
<1>2. \A p \in ToSet(reg.paths) : p \in DOMAIN routes' /\ routes'[p] = reg.id
  BY GiveGives
<1>3. \A p \in ToSet(reg.channels) : p \in DOMAIN prefixes' /\ prefixes'[p] = reg.id
  BY GiveGives
<1> QED
  BY <1>1, <1>2, <1>3 DEF Routed

\* Only the call itself inserts.
LEMMA InsertStep ==
  ASSUME Inv, SlotInv, Next, main.pc # "off", NEW k \in Callers, NEW g \in Gens,
         call[k].at = "insert", call'[k].at = "clear", g = call[k].gen
  PROVE  /\ \E reg \in RegsOf[call[k].cand] :
              /\ Inserts(k, g, reg)
              /\ routes' = Give(routes, reg.paths, reg.id)
              /\ prefixes' = Give(prefixes, reg.channels, reg.id)
         /\ unavailable' = unavailable /\ failed' = failed
         /\ main' = main /\ config' = config /\ shutting' = shutting
<1> DEFINE Goal ==
         /\ \E reg \in RegsOf[call[k].cand] :
              /\ Inserts(k, g, reg)
              /\ routes' = Give(routes, reg.paths, reg.id)
              /\ prefixes' = Give(prefixes, reg.channels, reg.id)
         /\ unavailable' = unavailable /\ failed' = failed
         /\ main' = main /\ config' = config /\ shutting' = shutting
<1> SUFFICES Goal
  OBVIOUS
<1> HIDE DEF Goal
<1>1. call' # call
  OBVIOUS
<1>2. ASSUME NEW j \in Callers, CallStep(j) PROVE Goal
  <2>1. ASSUME Fails(j) PROVE FALSE
    BY <2>1 DEF Fails, OtherCalls
  <2>2. ASSUME Returns(j) PROVE FALSE
    BY <2>2, BlankFields DEF Returns, OtherCalls
  <2>3. ASSUME Answers PROVE FALSE
    BY <2>3, BlankFields DEF Answers, OtherCalls
  <2>4. ASSUME NEW x \in Gens, Clears(j, x) PROVE FALSE
    BY <2>4 DEF Clears, OtherCalls
  <2>5. ASSUME NEW x \in Gens, NEW reg \in RegsOf[call[j].cand], Inserts(j, x, reg)
        PROVE  j = k /\ x = g
    BY <2>5 DEF Inserts, OtherCalls
  <2> QED
    BY <1>2, <2>1, <2>2, <2>3, <2>4, <2>5, CallShape DEF Goal
<1>3. ASSUME NEW x \in Gens, SupStep(x) \/ ChildExits(x) \/ KillAndRespawn(x) PROVE FALSE
  <2>1. ASSUME NEW n \in Gens, Begins(x, sup[x].cand, n) PROVE FALSE
    BY <2>1 DEF Begins, OtherCalls
  <2>2. ASSUME Accounts(x) PROVE FALSE
    BY <2>2 DEF Accounts, OtherCalls
  <2>3. ~Quiet /\ ~Unmaps(x) /\ ~Ends(x)
    BY <1>1 DEF Quiet, Unmaps, Ends
  <2> QED
    BY <1>3, <2>1, <2>2, <2>3, SupStepShape DEF SupShape
<1>4. ASSUME Missing \/ Start PROVE FALSE
  <2>1. ASSUME NEW c, NEW n \in Gens, Begins(Main, c, n) PROVE FALSE
    BY <2>1 DEF Begins, OtherCalls
  <2>2. ~Answers
    BY BlankFields DEF Answers, OtherCalls
  <2> QED
    BY <1>1, <1>4, <2>1, <2>2, StartShape
<1>5. ~(StopSend \/ ShutdownSend)
  BY <1>1 DEF StopSend, ShutdownSend
<1>6. ~(\/ Reload \/ Shutdown \/ Tick \/ Scan \/ StopRoutes \/ StopPrefixes \/ StopDone
        \/ ShutdownSnapshot \/ ShutdownWait)
  BY <1>1, MainShape
<1> QED
  BY <1>2, <1>3, <1>4, <1>5, <1>6, Cases

LEMMA RouteKept ==
  ASSUME Base, RouteInv, OwnIds, Next, main.pc # "off"
  PROVE  RouteInv'
<1>0. Inv /\ SlotInv /\ ChainInv /\ PhaseInv /\ CloneInv /\ Shape /\ Tracks
  BY StepShape, RunningTracks DEF Base
<1> SUFFICES ASSUME NEW g \in Gens, Up(g)', main'.current.gen # g, sup'[g].cand \notin raced'
             PROVE  Routed(g)'
  BY DEF RouteInv
<1>1. ASSUME NEW k \in Callers, NEW reg \in RegsOf[call[k].cand], Inserts(k, g, reg)
      PROVE  Routed(g)'
  <2>1. call[k].at = "insert" /\ call'[k].at = "clear" /\ g = call[k].gen
    BY <1>1 DEF Inserts
  <2> QED
    BY <1>0, <2>1, InsertStep, InsertOwn
<1>2. ASSUME Up(g), sup'[g].reg = sup[g].reg, sup'[g].cand = sup[g].cand
      PROVE  Routed(g)'
  <2> DEFINE id == sup[g].reg.id
             c == sup[g].cand
  <2>1. Routed(g) /\ InMap(g) /\ c \notin raced
    BY <1>0, <1>2, CurrentBack DEF RouteInv, Tracks, Up
  <2>2. sup[g].reg \in RegsOf[c] /\ c \in Cands /\ OfCand(g, c)
    BY <1>0, <1>2, <2>1, MapReg DEF Up, OfCand
  <2>3. CASE routes' = routes /\ prefixes' = prefixes
    BY <1>2, <2>1, <2>3 DEF Routed
  <2>4. ASSUME NEW x \in Gens, sup[x].pc \in {"routes", "prefixes"}, Cleans(sup[x].reg.id)
        PROVE  Routed(g)'
    <3>1. /\ sup[x].reg \in RegsOf[sup[x].cand] /\ sup[x].cand \in Cands
          /\ OfCand(x, sup[x].cand) /\ x # g
      BY <1>0, <1>2, <2>4, CallFacts DEF SlotInv, OfCand, Up
    <3>2. sup[x].reg.id # id
      <4> SUFFICES ASSUME sup[x].reg.id = id PROVE FALSE
        OBVIOUS
      <4>1. sup[x].cand = c
        BY <2>2, <3>1 DEF OwnIds
      <4>2. Calls(g, x) \/ Calls(x, g)
        BY <1>0, <2>1, <2>2, <3>1, <4>1 DEF ChainInv
      <4> QED
        BY <1>2, <2>4, <4>2 DEF Calls, Up
    <3> QED
      BY <1>2, <2>1, <2>4, <3>2, CleansOther
  <2>5. ASSUME NEW h \in Cloned, h.gen \in Gens, main'.current = h, Cleans(h.reg.id)
        PROVE  Routed(g)'
    <3>1. h.reg.id # id
      <4> SUFFICES ASSUME h.reg.id = id PROVE FALSE
        OBVIOUS
      <4>1. h.cand = c
        BY <1>0, <2>2, <2>5 DEF OwnIds, CloneInv
      <4> QED
        BY <1>0, <2>1, <2>2, <2>5, <4>1 DEF CloneInv
    <3> QED
      BY <1>2, <2>1, <2>5, <3>1, CleansOther
  <2>6. ASSUME NEW k \in Callers, NEW x \in Gens, NEW reg \in RegsOf[call[k].cand],
               Inserts(k, x, reg), routes' = Give(routes, reg.paths, reg.id),
               prefixes' = Give(prefixes, reg.channels, reg.id)
        PROVE  Routed(g)'
    BY <1>0, <2>1, <2>6, InsertOther, InsertOwn
  <2> QED
    BY <1>0, <2>3, <2>4, <2>5, <2>6, ClaimSteps
<1> QED
  BY <1>0, <1>1, <1>2, UpBack

\* A supervised process nobody has told to stop holds all its claims, unless a
\* reload met its candidate between two generations: the removals of
\* cleanup_extension_generation and of unroute_extension are by id, and no
\* other generation of an id that is its candidate's own is ever in them
\* beside it.
THEOREM RoutedWhileReadyAlways ==
  ASSUME OwnIds PROVE Spec => []RoutedWhileReady
<1>1. Init => RouteInv
  BY BlankFields DEF Init, RouteInv, Up
<1>2. Base /\ RouteInv /\ [Next]_vars => RouteInv'
  <2> SUFFICES ASSUME Base, RouteInv, [Next]_vars PROVE RouteInv'
    OBVIOUS
  <2>1. CASE UNCHANGED vars
    BY <2>1 DEF vars, tables, RouteInv, Up, InMap, Drained, Routed
  <2>2. CASE Next /\ main.pc = "off"
    BY <2>1, <2>2 DEF Next, CallNext, SupNext, MainNext, Running
  <2>3. CASE Next /\ main.pc # "off"
    BY <2>3, RouteKept
  <2> QED
    BY <2>1, <2>2, <2>3
<1>3. Base /\ RouteInv => RoutedWhileReady
  BY DEF Base, RouteInv, SlotInv, RoutedWhileReady, Routed, Up, Drained
<1> QED
  BY <1>1, <1>2, <1>3, BaseAlways, PTL DEF Spec

-----------------------------------------------------------------------------
(* The marks of an extension in backoff *)

\* The keys of two candidates, names and claims, are different: an extension
\* that starts or is stopped clears the marks of its own keys, whoever set
\* them.
OwnKeys ==
  \A c, d \in Cands : c # d =>
    \A r \in RegsOf[c], s \in RegsOf[d] :
      ({c} \cup ToSet(r.paths)) \cap ({d} \cup ToSet(s.paths)) = {}

Backing(g) == sup[g].pc \in {"decide", "account", "delay"} /\ sup[g].respawn

MarkInv ==
  \A g \in Gens : Backing(g) /\ sup[g].cand \notin raced => KeysOf(sup[g]) \subseteq unavailable

\* A generation comes to its backoff by marking its keys.
LEMMA BackingBack ==
  ASSUME Inv, SlotInv, Next, main.pc # "off", NEW g \in Gens, Backing(g)'
  PROVE  \/ Mark(g)
         \/ Backing(g) /\ sup'[g].cand = sup[g].cand /\ sup'[g].reg = sup[g].reg
<1> USE CallFacts, BlankFields
<1> DEFINE Same == Backing(g) /\ sup'[g].cand = sup[g].cand /\ sup'[g].reg = sup[g].reg
<1>0. /\ StateType /\ sup \in [Gens -> SupType] /\ sup[g] \in SupType
      /\ sup'[g].pc \in {"decide", "account", "delay"} /\ sup'[g].respawn
  BY DEF Inv, StateType, Backing
<1>1. ASSUME sup'[g] = sup[g] PROVE Same
  BY <1>1 DEF Backing
<1>2. ASSUME NEW k \in Callers, CallStep(k) PROVE Same
  <2>1. ASSUME Fails(k) PROVE sup'[g] = sup[g]
    BY <1>0, <2>1 DEF Fails, Others
  <2>2. ASSUME NEW x \in Gens, NEW reg \in RegsOf[call[k].cand], Inserts(k, x, reg)
        PROVE  sup'[g] = sup[g]
    <3>1. sup[x].pc = "starting" /\ sup'[x].pc = sup[x].pc /\ Others(x)
      BY <2>2 DEF Inserts, Filling
    <3> QED
      BY <1>0, <3>1 DEF Others
  <2>3. ASSUME NEW x \in Gens, Clears(k, x) PROVE sup'[g] = sup[g]
    BY <1>0, <2>3 DEF Clears, Others
  <2>4. ASSUME Returns(k) PROVE sup'[g] = sup[g]
    BY <1>0, <2>4 DEF Returns, Others
  <2>5. ASSUME Answers PROVE sup'[g] = sup[g]
    BY <2>5 DEF Answers
  <2> QED
    BY <1>1, <1>2, <2>1, <2>2, <2>3, <2>4, <2>5, CallShape
<1>3. ASSUME NEW x \in Gens, x # g, SupStep(x) \/ ChildExits(x) \/ KillAndRespawn(x) PROVE Same
  <2>1. ASSUME NEW n \in Gens, Begins(x, sup[x].cand, n) PROVE sup'[g] = sup[g]
    BY <1>0, <1>3, <2>1 DEF Begins
  <2>2. CASE (Quiet /\ Others(x)) \/ Unmaps(x) \/ Ends(x) \/ Accounts(x)
    BY <1>1, <1>3, <2>2 DEF Unmaps, Ends, Accounts, Others
  <2> QED
    BY <1>1, <1>3, <2>1, <2>2, SupStepShape DEF SupShape
<1>4. ASSUME SupStep(g) \/ ChildExits(g) \/ KillAndRespawn(g), ~Mark(g) PROVE Same
  <2>1. ASSUME Unmaps(g) \/ Ends(g) PROVE FALSE
    BY <1>0, <2>1 DEF Unmaps, Ends
  <2>2. ASSUME NEW n \in Gens, Begins(g, sup[g].cand, n) PROVE FALSE
    BY <1>0, <2>2 DEF Begins
  <2>3. CASE Accounts(g)
    BY <1>0, <2>3 DEF Accounts, SameButPc, Backing
  <2>4. CASE Quiet
    <3>1. sup'[g].cand = sup[g].cand /\ sup'[g].reg = sup[g].reg
      BY <2>4 DEF Quiet, Edge
    <3>2. ~CleanRoutes(g) /\ ~CleanPrefixes(g) /\ ~SuperviseExit(g) /\ ~SuperviseCommand(g) /\ ~DrainStop(g)
      BY <1>0 DEF CleanRoutes, CleanPrefixes, SuperviseExit, SuperviseCommand, DrainStop, SupType
    <3>3. ~CleanMap(g)
      BY <1>0, CleanMapShape DEF Unmaps
    <3>4. sup[g].pc \notin {"routes", "prefixes", "mark"}
      BY <1>0, <1>4, <3>2, <3>3
         DEF SupStep, ChildExits, KillAndRespawn, Decide, Account, Wake
    <3> QED
      BY <1>0, <2>4, <3>1, <3>4 DEF Quiet, Edge, Backing
  <2> QED
    BY <1>4, <2>1, <2>2, <2>3, <2>4, SupStepShape DEF SupShape
<1>5. CASE \/ Reload \/ Shutdown \/ Tick \/ Scan \/ StopRoutes \/ StopPrefixes \/ StopDone
           \/ ShutdownSnapshot \/ ShutdownWait
  BY <1>1, <1>5, MainShape
<1>6. CASE Missing \/ Start
  <2>1. ASSUME NEW c, NEW n \in Gens, Begins(Main, c, n) PROVE sup'[g] = sup[g]
    BY <1>0, <2>1 DEF Begins
  <2> QED
    BY <1>1, <1>6, <2>1, StartShape DEF Answers
<1>7. CASE StopSend \/ ShutdownSend
  <2>1. Quiet /\ \A h \in Gens : sup'[h].pc = sup[h].pc
    <3>1. /\ call' = call /\ extensions' = extensions
          /\ \/ sup' = sup \/ \E x : sup' = Told(x, "stop")
             \/ sup' = Told(main.current.gen, "drain")
      BY <1>7 DEF StopSend, ShutdownSend, tables
    <3>2. "stop" \in Commands /\ "drain" \in Commands
      BY DEF Commands
    <3>3. CASE sup' = sup
      BY <3>1, <3>3, StillShape
    <3>4. ASSUME NEW x, NEW command \in Commands, sup' = Told(x, command)
          PROVE  Quiet /\ \A h \in Gens : sup'[h].pc = sup[h].pc
      BY <1>0, <3>1, <3>4, ToldAny
    <3> QED
      BY <3>1, <3>2, <3>3, <3>4
  <2> QED
    BY <1>0, <2>1 DEF Quiet, Edge, Backing
<1> QED
  BY <1>2, <1>3, <1>4, <1>5, <1>6, <1>7, Cases

\* Who clears marks: a start, the cleanup of a generation that is not
\* respawned, and a reload's stop.
LEMMA MarkSteps ==
  ASSUME Inv, SlotInv, Next, main.pc # "off"
  PROVE  \/ unavailable \subseteq unavailable'
         \/ \E k \in Callers, x \in Gens : Clears(k, x) /\ unavailable' = unavailable \ KeysOf(sup[x])
         \/ \E x \in Gens : sup[x].pc = "mark" /\ unavailable' = unavailable \ KeysOf(sup[x])
         \/ main.pc = "stop_send" /\ unavailable' = unavailable \ KeysOf(main.current)
<1>1. ASSUME NEW k \in Callers, CallStep(k)
      PROVE  \/ unavailable \subseteq unavailable'
             \/ \E x \in Gens : Clears(k, x) /\ unavailable' = unavailable \ KeysOf(sup[x])
  <2>1. ReportOk(k) \/ ReportFailed(k) => unavailable \subseteq unavailable'
    BY DEF ReportOk, ReportFailed
  <2>2. ASSUME NEW x \in Gens, ClearMarks(k), Clears(k, x)
        PROVE  unavailable' = unavailable \ KeysOf(sup[x])
    BY <2>2 DEF ClearMarks, Clears
  <2> QED
    BY <1>1, <2>1, <2>2, CallShape
<1>2. ASSUME NEW x \in Gens, SupStep(x) \/ ChildExits(x) \/ KillAndRespawn(x)
      PROVE  \/ unavailable \subseteq unavailable'
             \/ sup[x].pc = "mark" /\ unavailable' = unavailable \ KeysOf(sup[x])
  <2>1. CASE Mark(x)
    BY <2>1 DEF Mark
  <2>2. CASE ~Mark(x)
    BY <1>2, <2>2
       DEF SupStep, ChildExits, KillAndRespawn, SuperviseExit, SuperviseCommand, DrainStop,
           CleanMap, CleanRoutes, CleanPrefixes, Decide, Account, Wake, tables
  <2> QED
    BY <2>1, <2>2
<1>3. CASE StopSend
  BY <1>3 DEF StopSend
<1>4. CASE \/ Tick \/ Reload \/ Scan \/ StopRoutes \/ StopPrefixes \/ StopDone \/ Missing \/ Start
           \/ Shutdown \/ ShutdownSnapshot \/ ShutdownSend \/ ShutdownWait
  BY <1>4 DEF Tick, Reload, Scan, StopRoutes, StopPrefixes, StopDone, Missing, Start, Shutdown,
              ShutdownSnapshot, ShutdownSend, ShutdownWait, tables
<1> QED
  BY <1>1, <1>2, <1>3, <1>4, Cases

\* A generation in backoff has its candidate to itself.
LEMMA BackingAlone ==
  ASSUME Base, NEW g \in Gens, Backing(g), sup[g].cand \notin raced,
         NEW x \in Gens, sup[x].pc \in {"starting", "mark"}
  PROVE  sup[x].cand # sup[g].cand
<1> SUFFICES ASSUME sup[x].cand = sup[g].cand PROVE FALSE
  OBVIOUS
<1>1. sup[g].cand \in Cands \ raced /\ OfCand(g, sup[g].cand) /\ OfCand(x, sup[g].cand) /\ x # g
  BY CallFacts DEF Base, OfCand, Backing
<1>2. Calls(g, x) \/ Calls(x, g)
  BY <1>1 DEF Base, ChainInv
<1> QED
  BY <1>2 DEF Calls, Backing

\* Keys of another candidate.
LEMMA KeysApart ==
  ASSUME OwnKeys, NEW c \in Cands, NEW d \in Cands, c # d,
         NEW a, a.cand = c, a.reg \in RegsOf[c], NEW b, b.cand = d, b.reg \in RegsOf[d]
  PROVE  KeysOf(a) \cap KeysOf(b) = {}
BY DEF OwnKeys, KeysOf

LEMMA MarkKept ==
  ASSUME Base, MarkInv, OwnKeys, Next, main.pc # "off"
  PROVE  MarkInv'
<1>0. Inv /\ SlotInv /\ ChainInv /\ PhaseInv /\ CloneInv /\ Shape /\ Tracks
  BY StepShape, RunningTracks DEF Base
<1> SUFFICES ASSUME NEW g \in Gens, Backing(g)', sup'[g].cand \notin raced'
             PROVE  KeysOf(sup'[g]) \subseteq unavailable'
  BY DEF MarkInv
<1>1. ASSUME Mark(g) PROVE KeysOf(sup'[g]) \subseteq unavailable'
  <2>1. sup[g] \in SupType /\ sup \in [Gens -> SupType]
    BY <1>0 DEF Inv, StateType
  <2>2. sup' = [sup EXCEPT ![g].pc = "decide"]
    BY <1>1 DEF Mark
  <2>3. /\ sup'[g].respawn = sup[g].respawn /\ sup'[g].cand = sup[g].cand
        /\ sup'[g].reg = sup[g].reg
    BY <2>1, <2>2 DEF SupType
  <2>4. unavailable' = unavailable \cup KeysOf(sup[g])
    BY <1>1, <2>3 DEF Mark, MarkedKeys, Backing
  <2> QED
    BY <2>3, <2>4 DEF KeysOf
<1>2. ASSUME Backing(g), sup'[g].cand = sup[g].cand, sup'[g].reg = sup[g].reg
      PROVE  KeysOf(sup'[g]) \subseteq unavailable'
  <2> DEFINE c == sup[g].cand
  <2>1. c \in Cands \ raced /\ OfCand(g, c) /\ sup[g].reg \in RegsOf[c]
    BY <1>0, <1>2, CallFacts DEF Backing, OfCand, Tracks, SlotInv
  <2>2. KeysOf(sup[g]) \subseteq unavailable /\ KeysOf(sup'[g]) = KeysOf(sup[g])
    BY <1>2, <2>1 DEF MarkInv, KeysOf
  <2>3. CASE unavailable \subseteq unavailable'
    BY <2>2, <2>3
  <2>4. ASSUME NEW k \in Callers, NEW x \in Gens, Clears(k, x),
               unavailable' = unavailable \ KeysOf(sup[x])
        PROVE  KeysOf(sup'[g]) \subseteq unavailable'
    <3>1. call[k].at = "clear" /\ call[k].gen = x
      BY <2>4 DEF Clears
    <3>2. /\ sup[x].pc = "starting" /\ sup[x].cand = call[k].cand /\ call[k].cand \in Cands
          /\ sup[x].reg \in RegsOf[sup[x].cand]
      BY <1>0, <3>1, CallFacts DEF Filling, SlotInv
    <3>3. sup[x].cand # c
      BY <1>2, <2>1, <3>2, BackingAlone
    <3>4. KeysOf(sup[g]) \cap KeysOf(sup[x]) = {}
      BY <2>1, <3>2, <3>3, KeysApart
    <3> QED
      BY <2>2, <2>4, <3>4
  <2>5. ASSUME NEW x \in Gens, sup[x].pc = "mark", unavailable' = unavailable \ KeysOf(sup[x])
        PROVE  KeysOf(sup'[g]) \subseteq unavailable'
    <3>1. sup[x].cand \in Cands /\ sup[x].reg \in RegsOf[sup[x].cand]
      BY <1>0, <2>5, CallFacts DEF SlotInv
    <3>2. sup[x].cand # c
      BY <1>2, <2>1, <2>5, BackingAlone
    <3>3. KeysOf(sup[g]) \cap KeysOf(sup[x]) = {}
      BY <2>1, <3>1, <3>2, KeysApart
    <3> QED
      BY <2>2, <2>5, <3>3
  <2>6. main.pc # "stop_send"
    <3>1. Reloading => ~Between(c)
      BY <1>0, <2>1 DEF ChainInv
    <3>2. Between(c)
      BY <1>2 DEF Between, Backing
    <3> QED
      BY <3>1, <3>2 DEF Reloading
  <2> QED
    BY <1>0, <2>3, <2>4, <2>5, <2>6, MarkSteps
<1> QED
  BY <1>0, <1>1, <1>2, BackingBack

\* Requests for a claim of an extension in backoff are told to retry: until
\* its respawn nothing clears the marks that its cleanup set.
THEOREM BackoffAnswers503Always ==
  ASSUME OwnKeys PROVE Spec => []BackoffAnswers503
<1>1. Init => MarkInv
  BY BlankFields DEF Init, MarkInv, Backing
<1>2. Base /\ MarkInv /\ [Next]_vars => MarkInv'
  <2> SUFFICES ASSUME Base, MarkInv, [Next]_vars PROVE MarkInv'
    OBVIOUS
  <2>1. CASE UNCHANGED vars
    BY <2>1 DEF vars, tables, MarkInv, Backing
  <2>2. CASE Next /\ main.pc = "off"
    BY <2>1, <2>2 DEF Next, CallNext, SupNext, MainNext, Running
  <2>3. CASE Next /\ main.pc # "off"
    BY <2>3, MarkKept
  <2> QED
    BY <2>1, <2>2, <2>3
<1>3. Base /\ MarkInv => BackoffAnswers503
  BY DEF Base, MarkInv, SlotInv, BackoffAnswers503, Backing, Answer
<1> QED
  BY <1>1, <1>2, <1>3, BaseAlways, PTL DEF Spec

-----------------------------------------------------------------------------
(* Statuses *)

LEMMA ActiveIs ==
  ASSUME Inv, NEW c
  PROVE  Active(c) <=> \E g \in Gens : InMap(g) /\ sup[g].cand = c
BY CallFacts DEF Active, InMap

\* A candidate becomes active by an insert.
LEMMA ActiveBack ==
  ASSUME Inv, Inv', SlotInv, Shape, NEW c, Active(c)'
  PROVE  \/ Active(c)
         \/ \E k \in Callers, g \in Gens : \E reg \in RegsOf[call[k].cand] :
              Inserts(k, g, reg) /\ call[k].cand = c
<1> USE CallFacts, BlankFields
<1>1. PICK id \in DOMAIN extensions' : sup'[extensions'[id]].cand = c
  BY DEF Active
<1>2. PICK g : g = extensions'[id]
  OBVIOUS
<1>3. g \in Gens /\ sup'[g].cand = c /\ sup'[g].pc \in {"starting", "watch", "drain", "remove"}
  BY <1>1, <1>2 DEF Inv, MapInv
<1>4. ASSUME id \in DOMAIN extensions, extensions[id] = g, sup[g].cand = c PROVE Active(c)
  BY <1>4 DEF Active
<1>5. CASE Quiet
  BY <1>1, <1>2, <1>3, <1>4, <1>5 DEF Quiet, Edge
<1>6. ASSUME NEW k \in Callers, NEW d \in Cands, NEW n \in Gens, Begins(k, d, n) PROVE Active(c)
  <2>1. extensions' = extensions /\ sup[n].pc = "free"
    BY <1>6 DEF Begins
  <2>2. g # n
    BY <1>1, <1>2, <2>1
  <2>3. sup'[g].cand = sup[g].cand
    BY <1>3, <1>6, <2>2 DEF Begins, SameButPc
  <2> QED
    BY <1>1, <1>2, <1>3, <1>4, <2>1, <2>3
<1>7. ASSUME NEW k \in Callers, Fails(k) PROVE Active(c)
  BY <1>1, <1>2, <1>3, <1>4, <1>7 DEF Fails, Others
<1>8. ASSUME NEW k \in Callers, NEW x \in Gens, NEW reg \in RegsOf[call[k].cand], Inserts(k, x, reg)
      PROVE  Active(c) \/ call[k].cand = c
  <2>1. CASE id = reg.id
    <3>1. sup'[x].cand = sup[x].cand /\ g = x /\ call[k].at = "insert" /\ x = call[k].gen
      BY <1>2, <1>8, <2>1 DEF Inserts
    <3>2. sup[x].cand = call[k].cand
      BY <3>1 DEF Filling
    <3> QED
      BY <1>3, <3>1, <3>2
  <2>2. CASE id # reg.id
    <3>1. id \in DOMAIN extensions /\ extensions[id] = g
      BY <1>1, <1>2, <1>8, <2>2 DEF Inserts
    <3>2. sup'[g].cand = sup[g].cand
      BY <1>3, <1>8 DEF Inserts, Others
    <3> QED
      BY <1>3, <1>4, <3>1, <3>2
  <2> QED
    BY <2>1, <2>2
<1>9. ASSUME NEW k \in Callers, NEW x \in Gens, Clears(k, x) PROVE Active(c)
  <2>1. sup'[g].cand = sup[g].cand /\ extensions' = extensions
    BY <1>3, <1>9 DEF Clears, Others, SameButPc
  <2> QED
    BY <1>1, <1>2, <1>3, <1>4, <2>1
<1>10. ASSUME NEW k \in Callers, Returns(k) PROVE Active(c)
  BY <1>1, <1>2, <1>3, <1>4, <1>10 DEF Returns, Others
<1>11. CASE Answers
  BY <1>1, <1>2, <1>3, <1>4, <1>11 DEF Answers
<1>12. ASSUME NEW x \in Gens, Unmaps(x) \/ Ends(x) \/ Accounts(x) PROVE Active(c)
  <2>1. sup'[g].cand = sup[g].cand
    BY <1>3, <1>12 DEF Unmaps, Ends, Accounts, Others, SameButPc
  <2>2. id \in DOMAIN extensions /\ extensions[id] = g
    BY <1>1, <1>2, <1>12 DEF Unmaps, Ends, Accounts
  <2> QED
    BY <1>3, <1>4, <2>1, <2>2
<1> QED
  BY <1>5, <1>6, <1>7, <1>8, <1>9, <1>10, <1>11, <1>12 DEF Shape

\* Only a reload's stop orders a drain.
LEMMA DrainBack ==
  ASSUME Inv, SlotInv, Next, main.pc # "off", NEW g \in Gens, Drained(g)', ~Drained(g)
  PROVE  main.pc = "stop_send" /\ main.current.gen = g /\ sup[g].pc \in {"starting", "watch"}
<1>0. StateType /\ "stop" \in Commands /\ "drain" \in Commands
  BY DEF Inv, Commands
<1>1. ASSUME NoOrders PROVE FALSE
  BY <1>1 DEF NoOrders
<1>2. ASSUME NEW k \in Callers, CallStep(k) PROVE FALSE
  BY <1>1, <1>2, CallShape
<1>3. ASSUME NEW x \in Gens, SupStep(x) \/ ChildExits(x) \/ KillAndRespawn(x) PROVE FALSE
  BY <1>1, <1>3, SupStepShape
<1>4. ASSUME \/ Reload \/ Shutdown \/ Tick \/ Scan \/ StopRoutes \/ StopPrefixes \/ StopDone
             \/ ShutdownSnapshot \/ ShutdownWait
      PROVE  FALSE
  BY <1>1, <1>4, MainShape
<1>5. ASSUME Missing \/ Start PROVE FALSE
  BY <1>1, <1>5, StartShape
<1>6. ASSUME ShutdownSend PROVE FALSE
  <2>1. /\ call' = call /\ extensions' = extensions
        /\ sup' = sup \/ \E x : sup' = Told(x, "stop")
    BY <1>6 DEF ShutdownSend, tables
  <2>2. sup' # sup
    BY DEF Drained
  <2> QED
    BY <1>0, <2>1, <2>2, ToldAny
<1>7. CASE StopSend
  <2>1. /\ call' = call /\ extensions' = extensions /\ sup' = Told(main.current.gen, "drain")
        /\ main.pc = "stop_send"
    BY <1>7 DEF StopSend
  <2>2. PICK x : x = main.current.gen
    OBVIOUS
  <2>3. sup' = Told(x, "drain")
    BY <2>1, <2>2
  <2>4. g = x /\ sup[x].pc \in {"starting", "watch"}
    BY <1>0, <2>1, <2>3, ToldAny
  <2> QED
    BY <2>1, <2>2, <2>4
<1> QED
  BY <1>2, <1>3, <1>4, <1>5, <1>6, <1>7, Cases

\* A failure that is to be reported is, and a start clears it.
LEMMA CallMoves ==
  ASSUME Inv, SlotInv, Next, main.pc # "off", NEW j \in Callers, call[j].at \in {"clear", "fail"},
         call'[j] # call[j]
  PROVE  /\ call[j].at = "fail" => call[j].cand \in failed'
         /\ call[j].at = "clear" => call[j].cand \notin failed'
<1> USE CallFacts
<1>1. ASSUME NEW k \in Callers, CallStep(k)
      PROVE  /\ call[j].at = "fail" => call[j].cand \in failed'
             /\ call[j].at = "clear" => call[j].cand \notin failed'
  <2>1. CASE k # j
    <3>1. Fails(k) \/ Returns(k) => OtherCalls(k)
      BY DEF Fails, Returns
    <3>2. \A x \in Gens : Clears(k, x) => OtherCalls(k)
      BY DEF Clears
    <3>3. \A x \in Gens : \A reg \in RegsOf[call[k].cand] : Inserts(k, x, reg) => OtherCalls(k)
      BY DEF Inserts
    <3>4. k = Main /\ Answers => OtherCalls(k)
      BY DEF Answers
    <3>5. OtherCalls(k)
      BY <1>1, <3>1, <3>2, <3>3, <3>4, CallShape
    <3> QED
      BY <2>1, <3>5 DEF OtherCalls
  <2>2. CASE k = j
    BY <1>1, <2>2 DEF CallStep, StartFails, Insert, ClearMarks, ReportOk, ReportFailed
  <2> QED
    BY <2>1, <2>2
<1>2. ASSUME NEW x \in Gens, SupStep(x) \/ ChildExits(x) \/ KillAndRespawn(x) PROVE FALSE
  <2>1. ASSUME NEW n \in Gens, Begins(x, sup[x].cand, n) PROVE FALSE
    BY <2>1 DEF Begins, OtherCalls
  <2>2. ASSUME Accounts(x) PROVE FALSE
    BY <2>2 DEF Accounts, OtherCalls
  <2>3. ~Quiet /\ ~Unmaps(x) /\ ~Ends(x)
    BY DEF Quiet, Unmaps, Ends
  <2> QED
    BY <1>2, <2>1, <2>2, <2>3, SupStepShape DEF SupShape
<1>3. ASSUME Missing \/ Start PROVE FALSE
  <2>1. ASSUME NEW c, NEW n \in Gens, Begins(Main, c, n) PROVE FALSE
    BY <2>1 DEF Begins, OtherCalls
  <2>2. ASSUME Answers PROVE call[Main].at # "none"
    BY <2>2 DEF Answers, OtherCalls
  <2> QED
    BY <1>3, <2>1, <2>2, StartShape
<1>4. ~(StopSend \/ ShutdownSend)
  BY DEF StopSend, ShutdownSend
<1>5. ~(\/ Reload \/ Shutdown \/ Tick \/ Scan \/ StopRoutes \/ StopPrefixes \/ StopDone
        \/ ShutdownSnapshot \/ ShutdownWait)
  BY MainShape
<1> QED
  BY <1>1, <1>2, <1>3, <1>4, <1>5, Cases

\* Who records and clears a failure.
LEMMA FailedSteps ==
  ASSUME Inv, SlotInv, Next, main.pc # "off", NEW c, (c \in failed) # (c \in failed')
  PROVE  /\ c \in failed' =>
              \E k \in Callers : /\ call[k].at = "fail" /\ call[k].cand = c
                                 /\ extensions' = extensions /\ (Returns(k) \/ sup' = sup)
         /\ c \notin failed' =>
              \/ \E k \in Callers, g \in Gens : Clears(k, g) /\ c \in {call[k].cand, sup[g].reg.id}
              \/ \E k \in Callers : /\ call[k].at = "ok" /\ call[k].cand = c
                                    /\ Returns(k) \/ sup' = sup
<1> DEFINE Goal ==
         /\ c \in failed' =>
              \E k \in Callers : /\ call[k].at = "fail" /\ call[k].cand = c
                                 /\ extensions' = extensions /\ (Returns(k) \/ sup' = sup)
         /\ c \notin failed' =>
              \/ \E k \in Callers, g \in Gens : Clears(k, g) /\ c \in {call[k].cand, sup[g].reg.id}
              \/ \E k \in Callers : /\ call[k].at = "ok" /\ call[k].cand = c
                                    /\ Returns(k) \/ sup' = sup
<1> SUFFICES Goal
  OBVIOUS
<1>1. ASSUME NEW k \in Callers, CallStep(k) PROVE Goal
  <2>1. ASSUME ReportOk(k), Returns(k) \/ Answers PROVE Goal
    BY <2>1 DEF ReportOk, Answers
  <2>2. ASSUME ReportFailed(k), Returns(k) \/ Answers PROVE Goal
    BY <2>2 DEF ReportFailed, Answers
  <2>3. ASSUME NEW g \in Gens, ClearMarks(k), Clears(k, g) PROVE Goal
    <3>1. failed' = failed \ {call[k].cand, sup[g].reg.id}
      BY <2>3 DEF ClearMarks, Clears
    <3> QED
      BY <2>3, <3>1
  <2>4. failed' # failed
    OBVIOUS
  <2> HIDE DEF Goal
  <2> QED
    BY <1>1, <2>1, <2>2, <2>3, <2>4, CallShape
<1>2. ASSUME NEW x \in Gens, SupStep(x) \/ ChildExits(x) \/ KillAndRespawn(x) PROVE FALSE
  BY <1>2, SupStepShape
<1>3. ASSUME Missing \/ Start PROVE FALSE
  BY <1>3, StartShape
<1>4. ~(StopSend \/ ShutdownSend)
  BY DEF StopSend, ShutdownSend, tables
<1>5. ~(\/ Reload \/ Shutdown \/ Tick \/ Scan \/ StopRoutes \/ StopPrefixes \/ StopDone
        \/ ShutdownSnapshot \/ ShutdownWait)
  BY MainShape
<1> HIDE DEF Goal
<1> QED
  BY <1>1, <1>2, <1>3, <1>4, <1>5, Cases

\* A supervisor returns before it calls only when no respawn is due.
LEMMA EndStep ==
  ASSUME Inv, SlotInv, Next, main.pc # "off", NEW g \in Gens, Ends(g)
  PROVE  ~sup[g].respawn \/ ~should_respawn(sup[g].cand) \/ Active(sup[g].cand)
<1> USE CallFacts, BlankFields
<1>0. StateType /\ sup[g].pc \in {"decide", "delay"} /\ sup'[g].pc = "free"
  BY DEF Inv, Ends
<1>1. ASSUME NEW k \in Callers, CallStep(k) PROVE FALSE
  <2>1. ASSUME Fails(k) PROVE sup'[g] = sup[g]
    BY <1>0, <2>1 DEF Fails, Others, Filling
  <2>2. ASSUME NEW x \in Gens, NEW reg \in RegsOf[call[k].cand], Inserts(k, x, reg)
        PROVE  sup'[g].pc = sup[g].pc
    BY <2>2 DEF Inserts, Others
  <2>3. ASSUME NEW x \in Gens, Clears(k, x) PROVE sup'[g] = sup[g]
    BY <1>0, <2>3 DEF Clears, Others
  <2>4. ASSUME Returns(k) PROVE sup'[g] = sup[g]
    BY <1>0, <2>4 DEF Returns, Others
  <2>5. ASSUME Answers PROVE sup'[g] = sup[g]
    BY <2>5 DEF Answers
  <2> QED
    BY <1>0, <1>1, <2>1, <2>2, <2>3, <2>4, <2>5, CallShape
<1>2. ASSUME NEW x \in Gens, x # g, SupStep(x) \/ ChildExits(x) \/ KillAndRespawn(x) PROVE FALSE
  <2>1. ASSUME NEW n \in Gens, Begins(x, sup[x].cand, n) PROVE FALSE
    BY <1>0, <1>2, <2>1 DEF Begins
  <2>2. ASSUME (Quiet /\ Others(x)) \/ Unmaps(x) \/ Ends(x) \/ Accounts(x) PROVE FALSE
    BY <1>0, <1>2, <2>2 DEF Unmaps, Ends, Accounts, Others
  <2> QED
    BY <1>2, <2>1, <2>2, SupStepShape DEF SupShape
<1>3. CASE SupStep(g) \/ ChildExits(g) \/ KillAndRespawn(g)
  <2>1. Decide(g) \/ Wake(g)
    BY <1>0, <1>3 DEF SupStep, ChildExits, KillAndRespawn, SuperviseExit, SuperviseCommand,
       DrainStop, CleanMap, CleanRoutes, CleanPrefixes, Mark, Account
  <2>2. ASSUME Decide(g), sup[g].respawn, should_respawn(sup[g].cand) PROVE FALSE
    <3>1. Quiet
      BY <1>0, <2>2, MovesShape
    <3> QED
      BY <1>0, <3>1 DEF Quiet, Edge
  <2>3. ASSUME Wake(g), RespawnWanted(sup[g].cand) PROVE FALSE
    <3>1. PICK n \in Gens : Begins(g, sup[g].cand, n)
      BY <2>3, WakeShape
    <3> QED
      BY <1>0, <3>1 DEF Begins
  <2> QED
    BY <2>1, <2>2, <2>3 DEF RespawnWanted
<1>4. ASSUME \/ Reload \/ Shutdown \/ Tick \/ Scan \/ StopRoutes \/ StopPrefixes \/ StopDone
             \/ ShutdownSnapshot \/ ShutdownWait
      PROVE  FALSE
  BY <1>0, <1>4, MainShape
<1>5. ASSUME Missing \/ Start PROVE FALSE
  <2>1. ASSUME NEW c, NEW n \in Gens, Begins(Main, c, n) PROVE sup'[g].pc # "free"
    BY <1>0, <2>1 DEF Begins
  <2> QED
    BY <1>0, <1>5, <2>1, StartShape DEF Answers
<1>6. ASSUME StopSend \/ ShutdownSend PROVE FALSE
  <2>1. /\ call' = call /\ extensions' = extensions
        /\ \/ sup' = sup \/ \E x : sup' = Told(x, "stop")
           \/ sup' = Told(main.current.gen, "drain")
    <3>1. CASE StopSend
      BY <3>1 DEF StopSend, tables
    <3>2. CASE ShutdownSend
      BY <3>2 DEF ShutdownSend, tables
    <3> QED
      BY <1>6, <3>1, <3>2
  <2>2. "stop" \in Commands /\ "drain" \in Commands
    BY DEF Commands
  <2>3. ASSUME NEW x, NEW command \in Commands, sup' = Told(x, command)
        PROVE  sup'[g].pc = sup[g].pc
    BY <1>0, <2>1, <2>3, ToldAny
  <2> QED
    BY <1>0, <2>1, <2>2, <2>3
<1> QED
  BY <1>1, <1>2, <1>3, <1>4, <1>5, <1>6, Cases

\* How a call comes to where it is.
LEMMA CallBack ==
  ASSUME Inv, Shape, NEW k \in Callers, call'[k] # call[k]
  PROVE  \/ call'[k].at = "none"
         \/ call'[k].at = "insert" /\ \E c \in Cands, n \in Gens : Begins(k, c, n)
         \/ call'[k].at = "fail" /\ (Fails(k) \/ (k = Main /\ Answers) \/ (k \in Gens /\ Accounts(k)))
         \/ call'[k].at = "clear"
         \/ call'[k].at = "ok" /\ \E g \in Gens : Clears(k, g)
<1> USE CallFacts, BlankFields
<1> DEFINE Goal ==
         \/ call'[k].at = "none"
         \/ call'[k].at = "insert" /\ \E c \in Cands, n \in Gens : Begins(k, c, n)
         \/ call'[k].at = "fail" /\ (Fails(k) \/ (k = Main /\ Answers) \/ (k \in Gens /\ Accounts(k)))
         \/ call'[k].at = "clear"
         \/ call'[k].at = "ok" /\ \E g \in Gens : Clears(k, g)
<1> SUFFICES Goal
  OBVIOUS
<1>1. ~Quiet
  BY DEF Quiet
<1>2. ASSUME NEW j \in Callers, NEW d \in Cands, NEW n \in Gens, Begins(j, d, n) PROVE Goal
  <2>1. j = k /\ call'[j].at = "insert"
    BY <1>2 DEF Begins, OtherCalls
  <2> QED
    BY <1>2, <2>1
<1>3. ASSUME NEW j \in Callers, Fails(j) PROVE Goal
  <2>1. j = k /\ call'[j].at = "fail"
    BY <1>3 DEF Fails, OtherCalls
  <2> QED
    BY <1>3, <2>1
<1>4. ASSUME NEW j \in Callers, NEW x \in Gens, NEW reg \in RegsOf[call[j].cand], Inserts(j, x, reg)
      PROVE  Goal
  BY <1>4 DEF Inserts, OtherCalls
<1>5. ASSUME NEW j \in Callers, NEW x \in Gens, Clears(j, x) PROVE Goal
  <2>1. j = k /\ call'[j].at = "ok"
    BY <1>5 DEF Clears, OtherCalls
  <2> QED
    BY <1>5, <2>1
<1>6. ASSUME NEW j \in Callers, Returns(j) PROVE Goal
  BY <1>6 DEF Returns, OtherCalls
<1>7. ASSUME Answers PROVE Goal
  <2>1. k = Main /\ call'[k].at \in {"none", "fail"}
    BY <1>7 DEF Answers, OtherCalls
  <2> QED
    BY <1>7, <2>1
<1>8. ASSUME NEW x \in Gens, Accounts(x) PROVE Goal
  <2>1. x = k /\ call'[x].at \in {"none", "fail"}
    BY <1>8 DEF Accounts, OtherCalls
  <2> QED
    BY <1>8, <2>1
<1>9. ASSUME NEW x \in Gens PROVE ~Unmaps(x) /\ ~Ends(x)
  BY DEF Unmaps, Ends
<1> HIDE DEF Goal
<1> QED
  BY <1>1, <1>2, <1>3, <1>4, <1>5, <1>6, <1>7, <1>8, <1>9 DEF Shape

\* How a generation comes to where it is.
LEMMA PcBack ==
  ASSUME Inv, Shape, NEW g \in Gens, sup[g].pc # "free", sup'[g].pc # "free"
  PROVE  /\ sup'[g].cand = sup[g].cand
         /\ sup'[g].pc = "watch" => sup[g].pc \in {"starting", "watch"}
         /\ sup'[g].pc \notin {"starting", "watch"} =>
              \/ sup[g].pc \notin {"starting", "watch"} /\ (sup[g].respawn => sup'[g].respawn)
              \/ sup[g].pc = "watch" /\ (sup'[g].respawn \/ Drained(g) \/ Stopping(g))
<1> USE CallFacts, BlankFields
<1> DEFINE Goal ==
         /\ sup'[g].cand = sup[g].cand
         /\ sup'[g].pc = "watch" => sup[g].pc \in {"starting", "watch"}
         /\ sup'[g].pc \notin {"starting", "watch"} =>
              \/ sup[g].pc \notin {"starting", "watch"} /\ (sup[g].respawn => sup'[g].respawn)
              \/ sup[g].pc = "watch" /\ (sup'[g].respawn \/ Drained(g) \/ Stopping(g))
<1> SUFFICES Goal
  OBVIOUS
<1>1. ASSUME Quiet PROVE Goal
  BY <1>1 DEF Quiet, Edge
<1>2. ASSUME sup'[g] = sup[g] PROVE Goal
  BY <1>2
<1>3. ASSUME NEW k \in Callers, NEW d \in Cands, NEW n \in Gens, Begins(k, d, n) PROVE Goal
  <2>1. CASE g \notin {n, k}
    BY <1>2, <1>3, <2>1 DEF Begins
  <2>2. g # n
    BY <1>3 DEF Begins
  <2>3. CASE g = k
    BY <1>3, <2>3 DEF Begins, SameButPc
  <2> QED
    BY <2>1, <2>2, <2>3
<1>4. ASSUME NEW k \in Callers, Fails(k) PROVE Goal
  BY <1>2, <1>4 DEF Fails, Others
<1>5. ASSUME NEW k \in Callers, NEW x \in Gens, NEW reg \in RegsOf[call[k].cand], Inserts(k, x, reg)
      PROVE  Goal
  <2>1. CASE g # x
    BY <1>2, <1>5, <2>1 DEF Inserts, Others
  <2>2. CASE g = x
    BY <1>5, <2>2 DEF Inserts
  <2> QED
    BY <2>1, <2>2
<1>6. ASSUME NEW k \in Callers, NEW x \in Gens, Clears(k, x) PROVE Goal
  <2>1. CASE g # x
    BY <1>2, <1>6, <2>1 DEF Clears, Others
  <2>2. CASE g = x
    <3>1. call[k].at = "clear" /\ call[k].gen = x
      BY <1>6 DEF Clears
    <3>2. sup[x].pc = "starting"
      BY <3>1 DEF Filling
    <3> QED
      BY <1>6, <2>2, <3>2 DEF Clears, SameButPc
  <2> QED
    BY <2>1, <2>2
<1>7. ASSUME NEW k \in Callers, Returns(k) PROVE Goal
  BY <1>2, <1>7 DEF Returns, Others
<1>8. ASSUME Answers PROVE Goal
  BY <1>2, <1>8 DEF Answers
<1>9. ASSUME NEW x \in Gens, Unmaps(x) \/ Ends(x) \/ Accounts(x) PROVE Goal
  <2>1. CASE g # x
    BY <1>2, <1>9, <2>1 DEF Unmaps, Ends, Accounts, Others
  <2>2. CASE g = x
    BY <1>9, <2>2 DEF Unmaps, Ends, Accounts, SameButPc
  <2> QED
    BY <2>1, <2>2
<1> HIDE DEF Goal
<1> QED
  BY <1>1, <1>3, <1>4, <1>5, <1>6, <1>7, <1>8, <1>9 DEF Shape

\* What the main task has done before it is idle, or in its start loop; and
\* only a reload changes the configuration.
LEMMA MainBack ==
  ASSUME Inv, SlotInv, Next, main.pc # "off"
  PROVE  /\ main'.pc = "idle" =>
              main.pc = "idle" \/ (main.pc = "start" /\ main.todo = {})
         /\ main'.pc = "start" /\ main.pc # "start" => main'.todo = main'.desired
         /\ config' # config => main'.pc = "scan"
         /\ main'.pc = "scan" => main.pc \in {"idle", "scan"}
<1> DEFINE Goal ==
         /\ main'.pc = "idle" =>
              main.pc = "idle" \/ (main.pc = "start" /\ main.todo = {})
         /\ main'.pc = "start" /\ main.pc # "start" => main'.todo = main'.desired
         /\ config' # config => main'.pc = "scan"
         /\ main'.pc = "scan" => main.pc \in {"idle", "scan"}
<1> SUFFICES Goal
  OBVIOUS
<1>0. StateType /\ main \in MainType
  BY DEF Inv, StateType
<1>1. ASSUME main' = main, config' = config PROVE Goal
  BY <1>1
<1>2. ASSUME NEW k \in Callers, CallStep(k) PROVE Goal
  BY <1>1, <1>2, CallShape
<1>3. ASSUME NEW x \in Gens, SupStep(x) \/ ChildExits(x) \/ KillAndRespawn(x) PROVE Goal
  BY <1>1, <1>3, SupStepShape
<1>4. ASSUME Tick PROVE Goal
  BY <1>1, <1>4 DEF Tick
<1>5. ASSUME Missing \/ Start PROVE Goal
  <2>1. /\ config' = config
        /\ \/ main.pc = "missing" /\ main' = [main EXCEPT !.pc = "start", !.todo = main.desired]
           \/ main.todo = {} /\ main.pc = "start" /\ main' = [main EXCEPT !.pc = "idle"]
           \/ main.pc \in {"missing", "start"} /\ \E c \in main.todo : main' = [main EXCEPT !.todo = main.todo \ {c}]
    BY <1>5, StartShape
  <2> QED
    BY <1>0, <2>1 DEF MainType
<1>6. ASSUME Reload PROVE Goal
  BY <1>0, <1>6, MainFields DEF MainMove
<1>7. ASSUME \/ StopPrefixes \/ StopSend \/ StopDone \/ Shutdown \/ ShutdownSnapshot PROVE Goal
  <2>1. config' = config
    BY <1>7 DEF StopPrefixes, StopSend, StopDone, Shutdown, ShutdownSnapshot
  <2> QED
    BY <1>0, <1>7, <2>1, MainFields DEF MainMove
<1>8. ASSUME StopRoutes \/ Scan PROVE Goal
  <2>1. config' = config
    BY <1>8 DEF StopRoutes, Scan
  <2> QED
    BY <1>0, <1>8, <2>1, StopRoutesFields, ScanFields DEF MainMove
<1>9. ASSUME ShutdownSend \/ ShutdownWait PROVE Goal
  <2>1. config' = config
    BY <1>9 DEF ShutdownSend, ShutdownWait
  <2> QED
    BY <1>0, <1>9, <2>1, ShutdownFields
<1> HIDE DEF Goal
<1> QED
  BY <1>2, <1>3, <1>4, <1>5, <1>6, <1>7, <1>8, <1>9, Cases

\* A start that is to be reported is of a generation that is still there; a
\* respawn is of a candidate that is wanted; a start of the main task that
\* failed left nothing running.
ReportInv ==
  \A c \in Cands \ raced : \A k \in Callers : call[k].cand = c =>
    /\ call[k].at = "ok" => \E g \in Gens : g = call[k].gen /\ OfCand(g, c)
    /\ call[k].at = "insert" /\ k \in Gens => Wanted(c)
    /\ call[k].at = "fail" /\ k = Main => ~Active(c)

\* A generation that starts has not been told to drain, and in a running
\* server one of a candidate that is wanted ends only to be respawned.
DrainInv ==
  \A c \in Cands \ raced : \A g \in Gens : OfCand(g, c) =>
    /\ sup[g].pc = "starting" => ~Drained(g)
    /\ c \in main.desired /\ ~shutting =>
         /\ sup[g].pc = "watch" => ~Drained(g)
         /\ sup[g].pc \notin {"starting", "watch"} => sup[g].respawn

\* What serves is wanted, or a reload is about to find out that it is not.
WantInv ==
  \A c \in Cands \ raced : \A g \in Gens : Up(g) /\ sup[g].cand = c =>
    Wanted(c) \/ main.pc = "scan" \/ \E h \in Cloned : h.gen = g

\* What is active and failed is about to be cleared.
FailInv ==
  \A c \in Cands \ raced : Active(c) /\ c \in failed =>
    \E k \in Callers : call[k].at = "clear" /\ call[k].cand = c

\* What the main task has started is there, or has failed.
Handled(c) ==
  /\ c \in main.desired
  /\ main.pc = "idle" \/ (main.pc = "start" /\ c \notin main.todo)
StartedInv ==
  \A c \in Cands \ raced : Handled(c) =>
    \/ c \in failed
    \/ \E g \in Gens : OfCand(g, c)
    \/ \E k \in Callers : call[k].at = "fail" /\ call[k].cand = c

\* A registration does not have the name of another candidate: a start clears
\* the failure of its candidate and of its id.
OwnNames == \A c \in Cands : \A r \in RegsOf[c] : r.id \notin Cands \ {c}

\* The start a supervisor has called for, outside a reload.
LEMMA RespawnsOutside ==
  ASSUME Inv, SlotInv, ChainInv, NEW c \in Cands \ raced, NEW k \in Gens, call[k].at # "none",
         call[k].cand = c
  PROVE  ~Reloading /\ OfCand(k, c) /\ sup[k].pc \in {"respawning", "crashloop"}
<1>1. sup[k].pc \in {"respawning", "crashloop"} /\ sup[k].cand = c /\ sup[k].respawn
  BY CallFacts DEF SlotInv
<1>2. Between(c)
  BY <1>1 DEF Between
<1> QED
  BY <1>1, <1>2 DEF ChainInv, OfCand

\* A candidate with a generation before its insert, or past its cleanup, has
\* none in the map unless it has called for it.
LEMMA NotActive ==
  ASSUME Inv, SlotInv, ChainInv, NEW c \in Cands \ raced, NEW x \in Gens, OfCand(x, c), ~InMap(x),
         \A y \in Gens : ~Calls(x, y)
  PROVE  ~Active(c)
<1> SUFFICES ASSUME Active(c) PROVE FALSE
  OBVIOUS
<1>1. PICK g \in Gens : InMap(g) /\ sup[g].cand = c
  BY ActiveIs
<1>2. sup[g].pc \in {"starting", "watch", "drain", "remove"}
  BY <1>1, MapReg
<1>3. OfCand(g, c) /\ g # x
  BY <1>1, <1>2 DEF OfCand
<1>4. Calls(g, x)
  BY <1>3 DEF ChainInv
<1> QED
  BY <1>2, <1>4 DEF Calls

LEMMA ReportKept ==
  ASSUME Base, Base', ReportInv, Next, main.pc # "off"
  PROVE  ReportInv'
<1>0. /\ Inv /\ SlotInv /\ ChainInv /\ PhaseInv /\ Shape /\ Tracks
      /\ Inv' /\ SlotInv' /\ ChainInv'
  BY StepShape, RunningTracks DEF Base
<1> USE CallFacts
<1> SUFFICES ASSUME NEW c \in Cands \ raced', NEW k \in Callers, call'[k].cand = c
             PROVE  /\ call'[k].at = "ok" => \E g \in Gens : g = call'[k].gen /\ OfCand(g, c)'
                    /\ call'[k].at = "insert" /\ k \in Gens => Wanted(c)'
                    /\ call'[k].at = "fail" /\ k = Main => ~Active(c)'
  BY DEF ReportInv
<1>1. c \in Cands \ raced
  BY <1>0 DEF Tracks
<1>2. ASSUME call'[k].at = "ok" PROVE \E g \in Gens : g = call'[k].gen /\ OfCand(g, c)'
  <2>1. CASE call'[k] = call[k]
    <3>1. PICK g \in Gens : g = call[k].gen /\ OfCand(g, c)
      BY <1>1, <1>2, <2>1 DEF ReportInv
    <3>2. sup'[g].pc = "watch"
      BY <1>0, <1>2, <2>1, <3>1 DEF ChainInv, Overtaken
    <3>3. sup'[g].cand = sup[g].cand
      BY <1>0, <3>1, <3>2, PcBack DEF OfCand
    <3> QED
      BY <2>1, <3>1, <3>2, <3>3 DEF OfCand
  <2>2. CASE call'[k] # call[k]
    <3>1. PICK g \in Gens : Clears(k, g)
      BY <1>0, <1>2, <2>2, CallBack
    <3>2. /\ call[k].at = "clear" /\ call[k].gen = g /\ call[k].cand = c /\ call'[k].gen = g
          /\ sup'[g].pc = "watch" /\ sup'[g].cand = sup[g].cand
      BY <3>1 DEF Clears, SameButPc
    <3>3. sup[g].cand = c
      BY <1>0, <3>2 DEF Filling
    <3> QED
      BY <3>2, <3>3 DEF OfCand
  <2> QED
    BY <2>1, <2>2
<1>3. ASSUME call'[k].at = "insert", k \in Gens PROVE Wanted(c)'
  <2>1. Wanted(c)
    <3>1. CASE call'[k] = call[k]
      BY <1>1, <1>3, <3>1 DEF ReportInv
    <3>2. CASE call'[k] # call[k]
      <4>1. PICK d \in Cands, n \in Gens : Begins(k, d, n)
        BY <1>0, <1>3, <3>2, CallBack
      <4> QED
        BY <1>3, <4>1 DEF Begins
    <3> QED
      BY <3>1, <3>2
  <2>2. config' = config
    <3> SUFFICES ASSUME config' # config PROVE FALSE
      OBVIOUS
    <3>1. main'.pc = "scan"
      BY <1>0, MainBack
    <3>2. sup'[k].pc \in {"respawning", "crashloop"} /\ sup'[k].cand = c /\ sup'[k].respawn
      BY <1>0, <1>3 DEF Inv, CallInv, SlotInv
    <3>3. Between(c)' /\ Reloading'
      BY <1>3, <3>1, <3>2 DEF Between, Reloading
    <3> QED
      BY <1>0, <3>3 DEF ChainInv
  <2> QED
    BY <2>1, <2>2 DEF Wanted
<1>4. ASSUME call'[k].at = "fail", k = Main, Active(c)' PROVE FALSE
  <2>1. ASSUME NEW j \in Callers, NEW g \in Gens, NEW reg \in RegsOf[call[j].cand],
               Inserts(j, g, reg), call[j].cand = c
        PROVE  FALSE
    <3>1. j # k /\ call'[k] = call[k] /\ j \in Gens /\ call[j].at # "none"
      BY <1>4, <2>1 DEF Inserts, OtherCalls, Callers
    <3>2. Reloading
      BY <1>0, <1>4, <3>1 DEF PhaseInv, Reloading
    <3> QED
      BY <1>0, <1>1, <2>1, <3>1, <3>2, RespawnsOutside
  <2>2. Active(c)
    BY <1>0, <1>4, <2>1, ActiveBack
  <2>3. CASE call'[k] = call[k]
    BY <1>1, <1>4, <2>2, <2>3 DEF ReportInv
  <2>4. CASE Fails(k)
    <3>1. call[k].at = "insert" /\ call[k].cand = c
      BY <2>4 DEF Fails
    <3>2. PICK x \in Gens : x = call[k].gen
      BY <1>0, <3>1 DEF Filling
    <3>3. OfCand(x, c) /\ ~InMap(x) /\ sup[x].pc = "starting"
      BY <1>0, <3>1, <3>2 DEF Filling, OfCand, InMap
    <3>4. \A y \in Gens : ~Calls(x, y)
      BY <3>3 DEF Calls
    <3> QED
      BY <1>0, <1>1, <2>2, <3>3, <3>4, NotActive
  <2>5. CASE Answers
    BY <1>4, <2>2, <2>5, BlankFields DEF Answers
  <2> QED
    BY <1>0, <1>4, <2>3, <2>4, <2>5, CallBack
<1> QED
  BY <1>2, <1>3, <1>4

LEMMA DrainKept ==
  ASSUME Base, Base', DrainInv, Next, main.pc # "off"
  PROVE  DrainInv'
<1>0. /\ Inv /\ SlotInv /\ ChainInv /\ PhaseInv /\ Shape /\ Tracks
      /\ Inv' /\ ChainInv'
  BY StepShape, RunningTracks DEF Base
<1> SUFFICES ASSUME NEW c \in Cands \ raced', NEW g \in Gens, OfCand(g, c)'
             PROVE  /\ sup'[g].pc = "starting" => ~Drained(g)'
                    /\ c \in main'.desired /\ ~shutting' =>
                         /\ sup'[g].pc = "watch" => ~Drained(g)'
                         /\ sup'[g].pc \notin {"starting", "watch"} => sup'[g].respawn
  BY DEF DrainInv
<1>1. c \in Cands \ raced /\ sup'[g].pc # "free" /\ sup'[g].cand = c
  BY <1>0 DEF Tracks, OfCand
<1>2. ASSUME NEW k \in Callers, Begins(k, c, g) PROVE sup'[g].pc = "starting" /\ ~Drained(g)'
  BY <1>2 DEF Begins, Drained, Contains
<1>3. OfCand(g, c) \/ \E k \in Callers : Begins(k, c, g)
  BY <1>0, NewOnly
<1>4. ASSUME sup'[g].pc = "starting", OfCand(g, c) PROVE ~Drained(g)'
  <2>1. sup[g].pc = "starting"
    BY <1>0, <1>4, SlotKeeps DEF OfCand
  <2>2. ~Drained(g)
    BY <1>1, <1>4, <2>1 DEF DrainInv
  <2>3. main.pc # "stop_send"
    <3> SUFFICES ASSUME main.pc = "stop_send" PROVE FALSE
      OBVIOUS
    <3>1. Filling(Main)
      BY <1>0, <1>1, <1>4, <2>1, ReloadFacts DEF Reloading
    <3> QED
      BY <1>0, <3>1 DEF PhaseInv, Filling
  <2> QED
    BY <1>0, <2>2, <2>3, DrainBack
<1>5. ASSUME c \in main'.desired, ~shutting', OfCand(g, c)
      PROVE  /\ sup'[g].pc = "watch" => ~Drained(g)'
             /\ sup'[g].pc \notin {"starting", "watch"} => sup'[g].respawn
  <2>1. CASE Reloading'
    BY <1>0, <1>1, <1>5, <2>1 DEF ChainInv, Between, Drained
  <2>2. CASE ~Reloading'
    <3>1. main'.pc = "idle"
      BY <1>0, <1>5, <2>2 DEF Inv, MainInv, StateType, MainType, MainPcs, ShutPcs, Reloading
    <3>2. main.pc \in {"idle", "start"} /\ ~shutting
      BY <1>0, <3>1, MainBack DEF Inv, MainInv, ShutPcs
    <3>3. ~Scan
      BY <3>2 DEF Scan
    <3>4. c \in main.desired
      BY <1>0, <1>5, <3>3, CloneFewer
    <3>5. /\ sup[g].pc \in {"starting", "watch"} => ~Drained(g)
          /\ sup[g].pc \notin {"starting", "watch"} => sup[g].respawn
      BY <1>1, <1>5, <3>2, <3>4 DEF DrainInv
    <3>6. ~Stopping(g)
      BY <1>0, <3>2 DEF PhaseInv
    <3>7. Drained(g)' => Drained(g)
      BY <1>0, <3>2, DrainBack
    <3> QED
      BY <1>0, <1>1, <1>5, <3>5, <3>6, <3>7, PcBack DEF OfCand
  <2> QED
    BY <2>1, <2>2
<1> QED
  BY <1>2, <1>3, <1>4, <1>5

LEMMA WantKept ==
  ASSUME Base, Base', ReportInv, WantInv, Next, main.pc # "off"
  PROVE  WantInv'
<1>0. Inv /\ SlotInv /\ ChainInv /\ PhaseInv /\ CloneInv /\ Shape /\ Tracks /\ StateType
  BY StepShape, RunningTracks DEF Base, Inv
<1> SUFFICES ASSUME NEW c \in Cands \ raced', NEW g \in Gens, Up(g)', sup'[g].cand = c
             PROVE  Wanted(c)' \/ main'.pc = "scan" \/ \E h \in Cloned' : h.gen = g
  BY DEF WantInv
<1>1. c \in Cands \ raced
  BY <1>0 DEF Tracks
<1>2. Wanted(c) => Wanted(c)' \/ main'.pc = "scan"
  BY <1>0, MainBack DEF Wanted
<1>3. ASSUME NEW k \in Callers, NEW reg \in RegsOf[call[k].cand], Inserts(k, g, reg)
      PROVE  Wanted(c)
  <2>1. call[k].at = "insert" /\ call[k].gen = g /\ sup'[g].cand = sup[g].cand
    BY <1>3 DEF Inserts
  <2>2. call[k].cand = c
    BY <1>0, <2>1, CallFacts DEF Filling
  <2>3. CASE k \in Gens
    BY <1>1, <2>1, <2>2, <2>3 DEF ReportInv
  <2>4. CASE k = Main
    BY <1>0, <2>1, <2>2, <2>4 DEF PhaseInv
  <2> QED
    BY <2>3, <2>4 DEF Callers
<1>4. ASSUME Up(g), sup[g].cand = c PROVE Wanted(c)' \/ main'.pc = "scan" \/ \E h \in Cloned' : h.gen = g
  <2>1. Wanted(c) \/ main.pc = "scan" \/ \E h \in Cloned : h.gen = g
    BY <1>1, <1>4 DEF WantInv
  <2>2. ASSUME main.pc = "scan", main'.pc # "scan"
        PROVE  Wanted(c)' \/ \E h \in Cloned' : h.gen = g
    <3>1. Scan
      <4>1. main' # main
        BY <2>2
      <4>2. ASSUME NEW k \in Callers, CallStep(k) PROVE FALSE
        BY <1>0, <4>1, <4>2, CallShape
      <4>3. ASSUME NEW x \in Gens, SupStep(x) \/ ChildExits(x) \/ KillAndRespawn(x) PROVE FALSE
        BY <1>0, <4>1, <4>3, SupStepShape
      <4>4. ~(\/ Tick \/ Reload \/ StopRoutes \/ StopPrefixes \/ StopSend \/ StopDone
              \/ Missing \/ Start)
        BY <2>2, <4>1 DEF Tick, Reload, StopRoutes, StopPrefixes, StopSend, StopDone, Missing, Start
      <4>5. ~(Shutdown \/ ShutdownSnapshot \/ ShutdownSend \/ ShutdownWait)
        BY <2>2 DEF Shutdown, ShutdownSnapshot, ShutdownSend, ShutdownWait
      <4> QED
        BY <4>2, <4>3, <4>4, <4>5, Cases
    <3>2. PICK found \in Scans :
             /\ main'.pc = "stop" /\ main'.desired = Desired(found)
             /\ main'.todo = {h \in Handles : h.cand \notin Desired(found)}
      BY <1>0, <3>1, ScanFields
    <3>3. config' = config
      BY <3>1 DEF Scan
    <3>4. CASE c \in Desired(found)
      BY <3>3, <3>4 DEF Desired, Wanted
    <3>5. CASE c \notin Desired(found)
      <4>1. HandleOf(g) \in Handles /\ HandleOf(g).cand = c /\ HandleOf(g).gen = g
        BY <1>4 DEF Up, InMap, Handles, HandleOf
      <4>2. HandleOf(g) \in main'.todo
        BY <3>2, <3>5, <4>1
      <4>3. HandleOf(g) \in Cloned'
        BY <3>2, <4>2 DEF Cloned, StopPcs
      <4> QED
        BY <4>1, <4>3
    <3> QED
      BY <3>4, <3>5
  <2>3. ASSUME NEW h \in Cloned, h.gen = g PROVE \E e \in Cloned' : e.gen = g
    <3>1. main.pc \in StopPcs
      BY <1>0, <2>3, CloneStops
    <3>2. CASE main' = main
      BY <2>3, <3>2 DEF Cloned
    <3>3. CASE StopRoutes
      <4>1. main.current.gen \notin Gens /\ main.pc = "stop"
        BY <1>0, <3>3, CallFacts DEF StopRoutes, PhaseInv, NoHandle
      <4>2. h \in main.todo
        BY <2>3, <4>1 DEF Cloned
      <4>3. PICK d \in main.todo : /\ main'.pc = "stop_prefixes" /\ main'.current = d
                                   /\ main'.todo = main.todo \ {d}
        BY <1>0, <3>3, StopRoutesFields DEF MainMove
      <4>4. h \in Cloned'
        BY <4>2, <4>3 DEF Cloned, StopPcs
      <4> QED
        BY <2>3, <4>4
    <3>4. CASE StopPrefixes
      <4>1. /\ main'.current = main.current /\ main'.todo = main.todo
            /\ main'.pc = "stop_send" /\ main.pc = "stop_prefixes"
        BY <1>0, <3>4, MainFields DEF MainMove
      <4>2. Cloned' = Cloned
        BY <4>1 DEF Cloned, StopPcs
      <4> QED
        BY <2>3, <4>2
    <3>5. CASE StopSend
      <4>1. main'.todo = main.todo /\ main'.pc = "stop" /\ main'.current = NoHandle
        BY <1>0, <3>5, MainFields DEF MainMove
      <4>2. main.current.gen # g
        BY <1>0, <4>1, CurrentBack, CallFacts DEF NoHandle
      <4>3. h \in main.todo
        BY <2>3, <3>1, <4>2 DEF Cloned
      <4>4. h \in Cloned'
        BY <4>1, <4>3 DEF Cloned, StopPcs
      <4> QED
        BY <2>3, <4>4
    <3>6. CASE StopDone
      <4>1. main.todo = {} /\ main.current.gen \notin Gens
        BY <1>0, <3>6, CallFacts DEF StopDone, PhaseInv, NoHandle
      <4> QED
        BY <2>3, <4>1 DEF Cloned
    <3>7. ASSUME NEW k \in Callers, CallStep(k) PROVE main' = main
      BY <1>0, <3>7, CallShape
    <3>8. ASSUME NEW x \in Gens, SupStep(x) \/ ChildExits(x) \/ KillAndRespawn(x) PROVE main' = main
      BY <1>0, <3>8, SupStepShape
    <3>9. Tick => main' = main
      BY DEF Tick
    <3>10. ~(\/ Reload \/ Scan \/ Missing \/ Start \/ Shutdown \/ ShutdownSnapshot \/ ShutdownSend
             \/ ShutdownWait)
      BY <3>1 DEF Reload, Scan, Missing, Start, Shutdown, ShutdownSnapshot, ShutdownSend,
                  ShutdownWait, StopPcs
    <3> QED
      BY <3>2, <3>3, <3>4, <3>5, <3>6, <3>7, <3>8, <3>9, <3>10, Cases
  <2> QED
    BY <1>2, <2>1, <2>2, <2>3
<1> QED
  BY <1>0, <1>2, <1>3, <1>4, UpBack

LEMMA FailKept ==
  ASSUME Base, Base', ReportInv, FailInv, Next, main.pc # "off"
  PROVE  FailInv'
<1>0. Inv /\ Inv' /\ SlotInv /\ ChainInv /\ Shape /\ Tracks
  BY StepShape, RunningTracks DEF Base
<1> SUFFICES ASSUME NEW c \in Cands \ raced', Active(c)', c \in failed'
             PROVE  \E k \in Callers : call'[k].at = "clear" /\ call'[k].cand = c
  BY DEF FailInv
<1>1. c \in Cands \ raced
  BY <1>0 DEF Tracks
<1>2. ASSUME NEW k \in Callers, NEW g \in Gens, NEW reg \in RegsOf[call[k].cand],
             Inserts(k, g, reg), call[k].cand = c
      PROVE  call'[k].at = "clear" /\ call'[k].cand = c
  BY <1>2 DEF Inserts
<1>3. CASE Active(c)
  <2>1. c \in failed
    <3> SUFFICES ASSUME c \notin failed PROVE FALSE
      OBVIOUS
    <3>1. PICK k \in Callers : call[k].at = "fail" /\ call[k].cand = c
      BY <1>0, FailedSteps
    <3>2. CASE k = Main
      BY <1>1, <1>3, <3>1, <3>2 DEF ReportInv
    <3>3. CASE k \in Gens
      <4>1. OfCand(k, c) /\ sup[k].pc \in {"respawning", "crashloop"}
        BY <1>0, <1>1, <3>1, <3>3, RespawnsOutside
      <4>2. ~InMap(k)
        BY <1>0, <3>3, <4>1, MapReg
      <4>3. \A y \in Gens : ~Calls(k, y)
        BY <3>1 DEF Calls
      <4> QED
        BY <1>0, <1>1, <1>3, <3>3, <4>1, <4>2, <4>3, NotActive
    <3> QED
      BY <3>2, <3>3 DEF Callers
  <2>2. PICK k \in Callers : call[k].at = "clear" /\ call[k].cand = c
    BY <1>1, <1>3, <2>1 DEF FailInv
  <2>3. call'[k] = call[k]
    BY <1>0, <2>2, CallMoves
  <2> QED
    BY <2>2, <2>3
<1> QED
  BY <1>0, <1>2, <1>3, ActiveBack

\* A candidate whose only generation ends without a respawn has failed.
LEMMA EndFailed ==
  ASSUME Base, DrainInv, Next, main.pc # "off", NEW c \in Cands \ raced, NEW g \in Gens,
         OfCand(g, c), Ends(g), Handled(c)
  PROVE  c \in failed
<1>0. Inv /\ SlotInv /\ ChainInv /\ PhaseInv
  BY DEF Base
<1>1. sup[g].cand = c /\ sup[g].pc \in {"decide", "delay"}
  BY DEF OfCand, Ends
<1>2. ~shutting /\ Wanted(c)
  BY <1>0 DEF Handled, PhaseInv, Inv, MainInv, ShutPcs
<1>3. sup[g].respawn
  BY <1>1, <1>2 DEF DrainInv, Handled
<1>4. ~Active(c)
  <2>1. ~InMap(g)
    BY <1>0, <1>1, MapReg
  <2>2. \A y \in Gens : ~Calls(g, y)
    BY <1>1 DEF Calls
  <2> QED
    BY <1>0, <2>1, <2>2, NotActive
<1>5. ~should_respawn(c)
  BY <1>0, <1>1, <1>3, <1>4, EndStep
<1> QED
  BY <1>2, <1>5 DEF should_respawn, Wanted

\* Why a slot becomes free.
LEMMA FreedBy ==
  ASSUME Inv, Shape, NEW g \in Gens, sup[g].pc # "free", sup'[g].pc = "free"
  PROVE  \/ \E k \in Callers : Fails(k) /\ call[k].gen = g
         \/ Returns(g) \/ Ends(g)
<1> USE CallFacts, BlankFields
<1> DEFINE Goal == \/ \E k \in Callers : Fails(k) /\ call[k].gen = g
                   \/ Returns(g) \/ Ends(g)
<1> SUFFICES Goal
  OBVIOUS
<1>1. ASSUME Quiet PROVE FALSE
  BY <1>1 DEF Quiet, Edge
<1>2. ASSUME NEW k \in Callers, NEW d \in Cands, NEW n \in Gens, Begins(k, d, n) PROVE FALSE
  BY <1>2 DEF Begins
<1>3. ASSUME NEW k \in Callers, Fails(k) PROVE Goal
  BY <1>3 DEF Fails, Others
<1>4. ASSUME NEW k \in Callers, NEW x \in Gens, NEW reg \in RegsOf[call[k].cand], Inserts(k, x, reg)
      PROVE  FALSE
  BY <1>4 DEF Inserts, Others
<1>5. ASSUME NEW k \in Callers, NEW x \in Gens, Clears(k, x) PROVE FALSE
  BY <1>5 DEF Clears, Others
<1>6. ASSUME NEW k \in Callers, Returns(k) PROVE Goal
  <2>1. k = g
    BY <1>6 DEF Returns, Others
  <2> QED
    BY <1>6, <2>1
<1>7. ~Answers
  BY DEF Answers
<1>8. ASSUME NEW x \in Gens, Unmaps(x) \/ Accounts(x) PROVE FALSE
  BY <1>8 DEF Unmaps, Accounts, Others
<1>9. ASSUME NEW x \in Gens, Ends(x) PROVE Goal
  <2>1. x = g
    BY <1>9 DEF Ends, Others
  <2> QED
    BY <1>9, <2>1
<1> HIDE DEF Goal
<1> QED
  BY <1>1, <1>2, <1>3, <1>4, <1>5, <1>6, <1>7, <1>8, <1>9 DEF Shape

\* What the start loop does to the candidate it takes.
LEMMA HandledBack ==
  ASSUME Inv, SlotInv, PhaseInv, Next, main.pc # "off", NEW c, Handled(c)', ~Handled(c)
  PROVE  (Active(c) /\ sup' = sup) \/ \E n \in Gens : Begins(Main, c, n)
<1>0. StateType /\ main \in MainType
  BY DEF Inv, StateType
<1>1. c \in main'.desired /\ (main'.pc = "idle" \/ (main'.pc = "start" /\ c \notin main'.todo))
  BY DEF Handled
<1>2. main.pc \in {"idle", "start"}
  BY <1>1, MainBack
<1>3. c \in main.desired
  <2>1. ~Scan
    BY <1>2 DEF Scan
  <2> QED
    BY <1>1, <2>1, CloneFewer
<1>4. main.pc = "start" /\ c \in main.todo /\ main'.pc = "start" /\ c \notin main'.todo
  <2>1. main'.pc # "idle"
    BY <1>3, MainBack DEF Handled
  <2>2. main'.pc = "start" /\ c \notin main'.todo
    BY <1>1, <2>1
  <2>3. main.pc = "start"
    BY <1>1, <2>2, MainBack
  <2> QED
    BY <1>3, <2>2, <2>3 DEF Handled
<1>5. Start \/ Missing
  <2>1. main' # main
    BY <1>4
  <2>2. ASSUME NEW k \in Callers, CallStep(k) PROVE FALSE
    BY <2>1, <2>2, CallShape
  <2>3. ASSUME NEW x \in Gens, SupStep(x) \/ ChildExits(x) \/ KillAndRespawn(x) PROVE FALSE
    BY <2>1, <2>3, SupStepShape
  <2>4. ~(Tick \/ Reload \/ Scan \/ StopRoutes \/ StopPrefixes \/ StopSend \/ StopDone)
    BY <1>4, <2>1 DEF Tick, Reload, Scan, StopRoutes, StopPrefixes, StopSend, StopDone
  <2>5. ~(Shutdown \/ ShutdownSnapshot \/ ShutdownSend \/ ShutdownWait)
    BY <1>4 DEF Shutdown, ShutdownSnapshot, ShutdownSend, ShutdownWait
  <2> QED
    BY <2>2, <2>3, <2>4, <2>5, Cases
<1>6. PICK d \in main.todo :
        /\ main' = [main EXCEPT !.todo = main.todo \ {d}]
        /\ (Active(d) /\ sup' = sup) \/ \E n \in Gens : Begins(Main, d, n)
  BY <1>4, <1>5, StartShape
<1>7. main'.todo = main.todo \ {d}
  BY <1>0, <1>6 DEF MainType
<1>8. d = c
  BY <1>4, <1>7
<1> QED
  BY <1>6, <1>8

LEMMA StartedKept ==
  ASSUME Base, Base', ReportInv, DrainInv, StartedInv, OwnNames, Next, main.pc # "off"
  PROVE  StartedInv'
<1>0. Inv /\ Inv' /\ SlotInv /\ ChainInv /\ PhaseInv /\ Shape /\ Tracks
  BY StepShape, RunningTracks DEF Base
<1> SUFFICES ASSUME NEW c \in Cands \ raced', Handled(c)'
             PROVE  \/ c \in failed'
                    \/ \E g \in Gens : OfCand(g, c)'
                    \/ \E k \in Callers : call'[k].at = "fail" /\ call'[k].cand = c
  BY DEF StartedInv
<1>1. c \in Cands \ raced
  BY <1>0 DEF Tracks
<1> DEFINE Goal == \/ c \in failed'
                   \/ \E g \in Gens : OfCand(g, c)'
                   \/ \E k \in Callers : call'[k].at = "fail" /\ call'[k].cand = c
<1>2. ASSUME NEW k \in Callers, NEW d \in Cands, NEW n \in Gens, Begins(k, d, n), d = c PROVE Goal
  BY <1>2 DEF Begins, OfCand
<1>3. ASSUME Active(c), sup' = sup PROVE Goal
  <2>1. PICK g \in Gens : InMap(g) /\ sup[g].cand = c
    BY <1>0, <1>3, ActiveIs
  <2>2. sup[g].pc # "free"
    BY <1>0, <2>1, MapReg
  <2> QED
    BY <1>3, <2>1, <2>2 DEF OfCand
<1>4. ASSUME ~Handled(c) PROVE Goal
  <2>1. Main \in Callers
    BY <1>0, CallFacts
  <2> HIDE DEF Goal
  <2> QED
    BY <1>0, <1>1, <1>2, <1>3, <1>4, <2>1, HandledBack
\* A start that is reported to have succeeded.
<1>5. ASSUME NEW k \in Callers, call[k].at = "ok", call[k].cand = c, Returns(k) \/ sup' = sup
      PROVE  Goal
  <2>1. PICK g \in Gens : g = call[k].gen /\ OfCand(g, c)
    BY <1>1, <1>5 DEF ReportInv
  <2>2. sup[g].pc = "watch"
    BY <1>0, <1>1, <1>5, <2>1 DEF ChainInv, Overtaken
  <2>3. sup'[g] = sup[g]
    BY <1>0, <1>5, <2>2, CallFacts DEF Returns, Others
  <2> QED
    BY <2>1, <2>3 DEF OfCand
\* The failure is cleared.
<1>6. ASSUME c \in failed, c \notin failed' PROVE Goal
  <2>1. ASSUME NEW k \in Callers, NEW g \in Gens, Clears(k, g), c \in {call[k].cand, sup[g].reg.id}
        PROVE  Goal
    <3>1. /\ call[k].at = "clear" /\ call[k].gen = g
          /\ sup'[g].pc = "watch" /\ sup'[g].cand = sup[g].cand
      BY <2>1 DEF Clears, SameButPc
    <3>2. sup[g].reg \in RegsOf[call[k].cand] /\ call[k].cand \in Cands /\ sup[g].cand = call[k].cand
      BY <1>0, <3>1, CallFacts DEF SlotInv, Filling
    <3>3. call[k].cand = c
      BY <1>1, <2>1, <3>2 DEF OwnNames
    <3> QED
      BY <3>1, <3>2, <3>3 DEF OfCand
  <2> HIDE DEF Goal
  <2> QED
    BY <1>0, <1>5, <1>6, <2>1, FailedSteps
\* The generation is gone.
<1>7. ASSUME NEW g \in Gens, OfCand(g, c), ~OfCand(g, c)', Handled(c) PROVE Goal
  <2>1. sup[g].pc # "free" /\ sup[g].cand = c
    BY <1>7 DEF OfCand
  <2>2. sup'[g].pc = "free"
    BY <1>0, <1>7, <2>1, PcBack DEF OfCand
  <2>3. ASSUME NEW k \in Callers, Fails(k), call[k].gen = g PROVE Goal
    <3>1. call[k].at = "insert" /\ call'[k].at = "fail" /\ call'[k].cand = call[k].cand
      BY <2>3 DEF Fails
    <3>2. call[k].cand = c
      BY <1>0, <2>1, <2>3, <3>1, CallFacts DEF Filling
    <3> QED
      BY <3>1, <3>2
  <2>4. ASSUME Returns(g) PROVE Goal
    <3>1. g \in Callers /\ call[g].at \in {"ok", "fail"} /\ call'[g] # call[g]
      BY <1>0, <2>4, CallFacts, BlankFields DEF Returns
    <3>2. call[g].cand = c
      BY <1>0, <2>1, <3>1 DEF SlotInv
    <3>3. call[g].at = "fail" => c \in failed'
      BY <1>0, <3>1, <3>2, CallMoves
    <3>4. call[g].at = "ok" => Goal
      BY <1>5, <2>4, <3>1, <3>2
    <3> QED
      BY <3>1, <3>3, <3>4
  <2>5. ASSUME Ends(g) PROVE Goal
    <3>1. c \in failed
      BY <1>1, <1>7, <2>5, EndFailed
    <3> QED
      BY <1>6, <3>1
  <2> HIDE DEF Goal
  <2> QED
    BY <1>0, <2>1, <2>2, <2>3, <2>4, <2>5, FreedBy
\* The failure is reported.
<1>8. ASSUME NEW k \in Callers, call[k].at = "fail", call[k].cand = c PROVE Goal
  BY <1>0, <1>8, CallMoves
<1>9. CASE Handled(c)
  <2>1. \/ c \in failed
        \/ \E g \in Gens : OfCand(g, c)
        \/ \E k \in Callers : call[k].at = "fail" /\ call[k].cand = c
    BY <1>1, <1>9 DEF StartedInv
  <2>2. ASSUME NEW g \in Gens, OfCand(g, c) PROVE Goal
    BY <1>7, <1>9, <2>2
  <2> QED
    BY <1>6, <1>8, <2>1, <2>2
<1> QED
  BY <1>4, <1>9

StatusInv == ReportInv /\ DrainInv /\ WantInv /\ FailInv /\ StartedInv

\* Once nothing is in progress an extension that the last scan found and
\* wanted is running or failed, not both, and nothing else is running, unless
\* a reload met it between two generations or its start was reported after it
\* had ended.
THEOREM StatusTrueAlways ==
  ASSUME OwnNames PROVE Spec => []StatusTrue
<1>1. Init => StatusInv
  <2> SUFFICES ASSUME Init PROVE StatusInv
    OBVIOUS
  <2>1. /\ \A g \in Gens : sup[g].pc = "free"
        /\ \A k \in Callers : call[k].at = "none"
        /\ main.pc = "scan" /\ DOMAIN extensions = {}
    BY BlankFields DEF Init
  <2>2. ReportInv /\ DrainInv /\ WantInv /\ FailInv /\ StartedInv
    BY <2>1 DEF ReportInv, DrainInv, WantInv, FailInv, StartedInv, OfCand, Up, Active, Handled
  <2> QED
    BY <2>2 DEF StatusInv
<1>2. Base /\ StatusInv /\ [Next]_vars => StatusInv'
  <2> SUFFICES ASSUME Base, StatusInv, [Next]_vars PROVE StatusInv'
    OBVIOUS
  <2>1. Base'
    BY BaseNext
  <2>2. CASE UNCHANGED vars
    <3>1. /\ sup' = sup /\ call' = call /\ main' = main /\ extensions' = extensions
          /\ raced' = raced /\ config' = config /\ shutting' = shutting /\ failed' = failed
      BY <2>2 DEF vars, tables
    <3>2. ReportInv' /\ DrainInv'
      BY <3>1 DEF StatusInv, ReportInv, DrainInv, OfCand, Wanted, Active, Drained
    <3>3. WantInv' /\ FailInv' /\ StartedInv'
      BY <3>1 DEF StatusInv, WantInv, FailInv, StartedInv, OfCand, Wanted, Active, Drained,
                  Up, InMap, Cloned, Handled
    <3> QED
      BY <3>2, <3>3 DEF StatusInv
  <2>3. CASE Next /\ main.pc = "off"
    BY <2>2, <2>3 DEF Next, CallNext, SupNext, MainNext, Running
  <2>4. CASE Next /\ main.pc # "off"
    BY <2>1, <2>4, ReportKept, DrainKept, WantKept, FailKept, StartedKept DEF StatusInv
  <2> QED
    BY <2>2, <2>3, <2>4
<1>3. Base /\ StatusInv => StatusTrue
  <2> SUFFICES ASSUME Base, StatusInv, Settled, NEW c \in Cands \ raced
               PROVE  /\ c \in main.desired => Active(c) # (c \in failed)
                      /\ Active(c) => c \in config.enabled \/ config.autostart_all
    BY DEF StatusTrue
  <2>1. /\ Inv /\ SlotInv /\ main.pc = "idle" /\ \A k \in Callers : call[k].at = "none"
        /\ \A g \in Gens : sup[g].pc = "free" \/ (sup[g].pc = "watch" /\ sup[g].commands = << >>)
    BY DEF Base, Settled
  <2>2. ~(Active(c) /\ c \in failed)
    BY <2>1 DEF StatusInv, FailInv
  <2>3. c \in main.desired => Active(c) \/ c \in failed
    <3> SUFFICES ASSUME c \in main.desired, c \notin failed PROVE Active(c)
      OBVIOUS
    <3>1. PICK g \in Gens : OfCand(g, c)
      BY <2>1 DEF StatusInv, StartedInv, Handled
    <3>2. InMap(g) /\ sup[g].cand = c
      BY <2>1, <3>1 DEF OfCand, SlotInv
    <3> QED
      BY <2>1, <3>2, ActiveIs
  <2>4. Active(c) => Wanted(c)
    <3> SUFFICES ASSUME Active(c) PROVE Wanted(c)
      OBVIOUS
    <3>1. PICK g \in Gens : InMap(g) /\ sup[g].cand = c
      BY <2>1, ActiveIs
    <3>2. sup[g].pc = "watch" /\ sup[g].commands = << >>
      BY <2>1, <3>1, MapReg
    <3>3. Up(g)
      BY <3>1, <3>2 DEF Up, Drained, Contains
    <3>4. \A h \in Cloned : h.gen # g
      BY <2>1, CloneStops DEF Base, StopPcs
    <3> QED
      BY <2>1, <3>1, <3>3, <3>4 DEF StatusInv, WantInv
  <2> QED
    BY <2>2, <2>3, <2>4 DEF Wanted
<1> QED
  BY <1>1, <1>2, <1>3, BaseAlways, PTL DEF Spec

-----------------------------------------------------------------------------
(* StatusLocks *)

\* A step under its locks is a step of ExtensionLifecycle, or only moves locks.
LEMMA LockStep == LockNext => [Next]_vars
<1> SUFFICES ASSUME LockNext PROVE [Next]_vars
  OBVIOUS
<1>1. ASSUME NEW k \in Callers, CallerNext(k) PROVE [Next]_vars
  <2>1. CASE JoinTake(k)
    BY <2>1 DEF JoinTake
  <2>2. CASE JoinedInsert(k)
    BY <2>2 DEF JoinedInsert, Next, CallNext, CallStep
  <2>3. CASE LockCall(k)
    BY <2>3 DEF LockCall, Next, CallNext, CallStep
  <2> QED
    BY <1>1, <2>1, <2>2, <2>3 DEF CallerNext
<1>2. ASSUME NEW g \in Gens, LockSup(g) \/ LockDrain(g) PROVE [Next]_vars
  BY <1>2 DEF LockSup, LockDrain, Next, SupNext, SupStep
<1>3. CASE LockMain
  BY <1>3 DEF LockMain, Next, MainNext, MainStep
<1>4. CASE LockEnvironment
  BY <1>4 DEF LockEnvironment, Next
<1>5. CASE StatusBegin \/ StatusEnd
  BY <1>5 DEF StatusBegin, StatusEnd
<1>6. CASE main.pc = "off" /\ UNCHANGED allVars
  BY <1>6 DEF allVars
<1> QED
  BY <1>1, <1>2, <1>3, <1>4, <1>5, <1>6 DEF LockNext

\* Waiting for the locks, the joined writes of start_extension and the reads of
\* status_json included, only orders the steps of ExtensionLifecycle: its
\* theorems hold of the behaviours with locks too.
THEOREM LocksRefine == LockSpec => Spec
<1>1. LockInit => Init
  BY DEF LockInit
<1>2. [LockNext]_allVars => [Next]_vars
  BY LockStep DEF allVars
<1> QED
  BY <1>1, <1>2, PTL DEF LockSpec, Spec
=============================================================================

-------------------------- MODULE TokenSessionProofs --------------------------
(***************************************************************************)
(* Safety of TokenSession for any sets of names, control connections,       *)
(* clients and connection slots, any number of secrets, and any faults,     *)
(* reloads, edits and restarts.                                             *)
(***************************************************************************)
EXTENDS TokenSession, TLAPS

ConnType ==
  [pc : {"free", "authed", "loop"}, client : Clients \cup {None}, name : Names \cup {None},
   secret : Secrets \cup {None}, signal : {"none", "revoked", "shutdown"},
   awaiting : BOOLEAN, late : BOOLEAN]
ClientType ==
  [pc : {"connect", "wait", "up", "stopped"}, token : Secrets \cup {None}, conn : Conns \cup {None}]
ReloadType ==
  [pc : {"idle", "compare", "replace", "close"}, new : StoreType, names : SUBSET Names,
   stale : BOOLEAN]
AdminType == [name : Names \cup {None}, secret : Secrets \cup {None}]

\* The types of the variables, and what TypeOK says of the history.
StateType ==
  /\ mem \in StoreType /\ disk \in StoreType
  /\ minted \in Secrets
  /\ admin \in [Admins -> AdminType]
  /\ reload \in ReloadType
  /\ server \in {"up", "stopping", "down"}
  /\ conn \in [Conns -> ConnType]
  /\ client \in [Clients -> ClientType]
  /\ issued \subseteq 1..minted /\ ended \subseteq 1..minted /\ retired \subseteq 1..minted
  /\ torn \in BOOLEAN /\ crossed \in BOOLEAN

\* A slot in use belongs to a client, a name and a secret, and a client in a
\* session points at the slot that serves it with its token.
SlotInv ==
  /\ \A k \in Conns :
       /\ conn[k].pc = "free" => conn[k] = NoConn
       /\ conn[k].pc # "free" => /\ conn[k].client # None /\ conn[k].name # None
                                 /\ conn[k].secret # None /\ Running
       /\ ~Live(k) => conn[k].signal = "none"
  /\ \A c \in Clients :
       /\ client[c].conn # None <=> client[c].pc \in {"wait", "up"}
       /\ client[c].conn # None => /\ conn[client[c].conn].client = c
                                   /\ conn[client[c].conn].secret = client[c].token
       /\ client[c].token # None => client[c].token \in issued
       /\ client[c].pc # "stopped" => client[c].token # None

\* A reload runs only in a server that is up, and names nobody before it compares.
ReloadInv ==
  /\ reload.pc # "idle" => server = "up"
  /\ reload.pc \in {"idle", "compare"} => reload.names = {}

\* What the reload read is what the last successful request left.
Fresh == reload.pc \in {"compare", "replace"} /\ ~reload.stale

\* Every secret the state mentions has been minted.
MintedInv ==
  /\ \A n \in Names : mem[n] <= minted /\ disk[n] <= minted /\ reload.new[n] <= minted
  /\ \A k \in Conns : conn[k].secret <= minted
  /\ \A a \in Admins : admin[a].secret <= minted

\* A secret was minted for one name, and is found under that name only.
Owner(owner) ==
  /\ \A n \in Names :
       /\ mem[n] # None => owner[mem[n]] = n
       /\ disk[n] # None => owner[disk[n]] = n
       /\ reload.new[n] # None => owner[reload.new[n]] = n
  /\ \A k \in Conns : conn[k].pc # "free" => owner[conn[k].secret] = conn[k].name
OwnerInv == \E owner \in [Secrets -> Names] : Owner(owner)

\* The secret of an answer that is still due has not been issued, and is due once.
AnswerInv ==
  /\ \A a \in Admins : /\ admin[a].secret \notin issued
                       /\ admin[a].name = None => admin[a].secret = None
  /\ \A a, b \in Admins : a # b /\ admin[a].secret = admin[b].secret => admin[a].secret = None

\* Retired secrets are out of the file, of memory and of what a reload read.
RetireInv ==
  torn \/
    /\ \A n \in Names : disk[n] \notin retired /\ (Running => mem[n] \notin retired)
    /\ Fresh => \A n \in Names : /\ reload.new[n] \notin retired
                                 /\ disk[n] = reload.new[n] \/ disk[n] = None
    /\ Fresh /\ reload.pc = "replace" => reload.names = invalidated_names(reload.new)

\* Their connections are signalled or about to be.
SignalInv ==
  torn \/ \A k \in Conns :
    Live(k) /\ conn[k].secret \in retired /\ ~conn[k].late =>
      conn[k].signal # "none" \/ CloseDue(conn[k].name)

\* What was answered, or is about to be, is held until it is ended.
Held(s) == /\ \E n \in Names : disk[n] = s
           /\ Running => \E n \in Names : mem[n] = s
AcceptInv ==
  /\ \A s \in issued : s \in ended \/ Held(s)
  /\ \A a \in Admins : admin[a].secret = None \/ admin[a].secret \in ended \/ Held(admin[a].secret)

\* A secret that the file or a connection holds and memory does not was to end.
DifferInv ==
  /\ \A k \in Conns : conn[k].pc = "free" \/ conn[k].secret = mem[conn[k].name]
                                          \/ conn[k].secret \in ended
  /\ torn \/
       \A n \in Names :
         /\ disk[n] = None \/ disk[n] = mem[n] \/ disk[n] \in ended
         /\ Fresh => reload.new[n] = None \/ reload.new[n] = mem[n] \/ reload.new[n] \in ended

\* While a close_named is due and no request on the name overlaps it, nobody
\* can have connected with the newer secret.
CloseInv ==
  torn \/ crossed \/
    /\ \A a \in Admins : admin[a].name # None =>
         LET n == admin[a].name IN
         /\ mem[n] = None \/ mem[n] = admin[a].secret
         /\ disk[n] = None \/ disk[n] = admin[a].secret
         /\ Fresh => reload.new[n] = None \/ reload.new[n] = admin[a].secret
         /\ \A k \in Conns : conn[k].name = n => conn[k].secret \in ended
    /\ reload.pc = "close" =>
         /\ \A n \in reload.names : mem[n] = None \/ mem[n] \in ended
         /\ \A k \in Conns : conn[k].name \in reload.names => conn[k].secret \in ended
    /\ \A k \in Conns : conn[k].signal = "revoked" => conn[k].secret \in ended

Inv ==
  /\ StateType /\ SlotInv /\ ReloadInv /\ MintedInv /\ OwnerInv /\ AnswerInv
  /\ RetireInv /\ SignalInv /\ AcceptInv /\ DifferInv /\ CloseInv /\ ValidNotEvicted

-----------------------------------------------------------------------------
\* The blank values have their types.
LEMMA BlankTypes ==
  /\ Blank \in StoreType /\ NoRequest \in AdminType
  /\ NoConn \in ConnType /\ NoReload \in ReloadType
<1> USE DEF None
<1>1. Blank \in StoreType
  BY DEF Blank, StoreType
<1>2. NoRequest \in AdminType
  BY DEF NoRequest, AdminType
<1>3. NoConn \in ConnType
  BY DEF NoConn, ConnType
<1>4. NoReload \in ReloadType
  BY <1>1 DEF NoReload, ReloadType
<1> QED
  BY <1>1, <1>2, <1>3, <1>4

\* Setting a Boolean field of a reload or of a connection.
LEMMA SetStale ==
  ASSUME NEW r \in ReloadType, NEW b \in BOOLEAN
  PROVE  LET q == [r EXCEPT !.stale = b]
         IN  /\ q \in ReloadType /\ q.new = r.new /\ q.names = r.names /\ q.pc = r.pc
             /\ q.stale = b
BY DEF ReloadType

LEMMA SetAwaiting ==
  ASSUME NEW r \in ConnType, NEW b \in BOOLEAN
  PROVE  LET q == [r EXCEPT !.awaiting = b]
         IN  /\ q \in ConnType /\ q.pc = r.pc /\ q.late = r.late /\ q.client = r.client
             /\ q.name = r.name /\ q.secret = r.secret /\ q.signal = r.signal
BY DEF ConnType

\* The initial state satisfies the invariant.
LEMMA InitInv == Init => Inv
<1> SUFFICES ASSUME Init PROVE Inv
  OBVIOUS
<1> USE TokenBounds DEF Init, Secrets, None
<1> DEFINE name == CHOOSE n \in Names : TRUE
<1>1. name \in Names /\ mem = [Blank EXCEPT ![name] = 1] /\ disk = mem
  OBVIOUS
<1> HIDE DEF name
<1>2. StateType
  <2>1. mem \in StoreType
    BY <1>1 DEF StoreType, Blank
  <2>2. client \in [Clients -> ClientType]
    BY DEF ClientType
  <2>3. torn \in BOOLEAN /\ crossed \in BOOLEAN
    OBVIOUS
  <2>4. /\ issued \subseteq 1..minted /\ ended \subseteq 1..minted /\ retired \subseteq 1..minted
        /\ minted \in Secrets /\ server \in {"up", "stopping", "down"}
    OBVIOUS
  <2>5. conn \in [Conns -> ConnType] /\ admin \in [Admins -> AdminType] /\ reload \in ReloadType
    BY BlankTypes
  <2> QED
    BY <1>1, <2>1, <2>2, <2>3, <2>4, <2>5 DEF StateType
<1> USE DEF Blank, NoRequest, NoConn, NoReload
<1>3. SlotInv /\ ReloadInv /\ AnswerInv /\ ValidNotEvicted
  BY DEF SlotInv, ReloadInv, AnswerInv, ValidNotEvicted, Running, Live
<1>4. MintedInv
  BY <1>1 DEF MintedInv
<1>5. OwnerInv
  <2> DEFINE owner == [s \in Secrets |-> name]
  <2>1. Owner(owner)
    <3>1. \A s \in Secrets : owner[s] = name
      OBVIOUS
    <3>2. \A n \in Names : mem[n] = IF n = name THEN 1 ELSE None
      BY <1>1
    <3> HIDE DEF owner
    <3> QED
      BY <3>1, <3>2, <1>1 DEF Owner
  <2>2. owner \in [Secrets -> Names]
    BY <1>1
  <2> QED
    BY <2>1, <2>2 DEF OwnerInv
<1>6. RetireInv /\ SignalInv /\ CloseInv /\ DifferInv
  BY <1>1 DEF RetireInv, SignalInv, CloseInv, DifferInv, Fresh, Running, Live
<1>7. AcceptInv
  BY <1>1 DEF AcceptInv, Held
<1> QED
  BY <1>2, <1>3, <1>4, <1>5, <1>6, <1>7 DEF Inv

\* A token request: name n holds the secret, which is new, or none.
LEMMA RequestInv ==
  ASSUME Inv, NEW a \in Admins, NEW n \in Names, NEW secret, NEW closes \in BOOLEAN,
         Request(a, n, secret, closes),
         \/ /\ secret = minted + 1 /\ minted < MaxSecrets /\ minted' = minted + 1
            /\ closes \/ mem[n] = None
         \/ secret = None /\ minted' = minted /\ closes
  PROVE  Inv'
<1> DEFINE new == [mem EXCEPT ![n] = secret]
<1> USE TokenBounds DEF Inv, Secrets, None
<1>0. /\ Running /\ admin[a] = NoRequest /\ mem' = new
      /\ ended' = ended \cup ({mem[n]} \ {None})
      /\ crossed' = (crossed \/ CloseDue(n))
      /\ reload' = [reload EXCEPT !.stale = reload.pc \in {"compare", "replace"}]
      /\ server' = server /\ conn' = conn /\ client' = client /\ torn' = torn
      /\ disk' = disk \/ disk' = new
  BY DEF Request, PersistOk, PersistErr
<1>1. \/ /\ disk' = new
         /\ admin' = [admin EXCEPT ![a] = IF closes THEN [name |-> n, secret |-> secret] ELSE @]
         /\ issued' = IF closes THEN issued ELSE issued \cup ({secret} \ {None})
         /\ retired' = retired \cup ({mem[n]} \ {None})
      \/ admin' = admin /\ issued' = issued /\ retired' = retired
  BY DEF Request, PersistOk
<1>2. secret \in Secrets \cup {None} /\ minted' \in Secrets /\ minted <= minted' /\ secret <= minted'
  BY DEF StateType
<1>3. new \in StoreType /\ mem[n] \in Secrets \cup {None} /\ mem[n] <= minted
      /\ \A m \in Names : new[m] = IF m = n THEN secret ELSE mem[m]
  BY <1>2 DEF StateType, StoreType, MintedInv
<1>4. reload' \in ReloadType /\ reload'.new = reload.new /\ reload'.names = reload.names
      /\ reload'.pc = reload.pc /\ ~Fresh'
  <2> DEFINE b == reload.pc \in {"compare", "replace"}
  <2>1. b \in BOOLEAN /\ reload \in ReloadType /\ reload' = [reload EXCEPT !.stale = b]
    BY <1>0 DEF StateType
  <2>2. /\ reload' \in ReloadType /\ reload'.new = reload.new /\ reload'.names = reload.names
        /\ reload'.pc = reload.pc /\ reload'.stale = b
    <3> HIDE DEF b
    <3> QED
      BY <2>1, SetStale
  <2>3. ~Fresh'
    BY <2>2 DEF Fresh
  <2> QED
    BY <2>2, <2>3
<1> HIDE DEF new
<1>5. StateType'
  BY <1>0, <1>1, <1>2, <1>3, <1>4 DEF StateType, AdminType, NoRequest
<1>6. SlotInv' /\ ReloadInv'
  BY <1>0, <1>1, <1>4 DEF SlotInv, ReloadInv, Running, Live
<1>7. MintedInv'
  <2>1. \A m \in Names : mem'[m] <= minted' /\ disk'[m] <= minted' /\ reload'.new[m] <= minted'
    BY <1>0, <1>2, <1>3, <1>4 DEF MintedInv, StateType, StoreType, ReloadType
  <2>2. \A k \in Conns : conn'[k].secret <= minted'
    BY <1>0, <1>2 DEF MintedInv, StateType, ConnType
  <2>3. \A b \in Admins : admin'[b].secret <= minted'
    BY <1>1, <1>2 DEF MintedInv, StateType, AdminType
  <2> QED
    BY <2>1, <2>2, <2>3 DEF MintedInv
<1>8. OwnerInv'
  <2>1. PICK owner \in [Secrets -> Names] : Owner(owner)
    BY DEF OwnerInv
  <2>2. CASE secret = None
    <3>1. Owner(owner)'
      BY <1>0, <1>3, <1>4, <2>1, <2>2 DEF Owner
    <3> QED
      BY <3>1 DEF OwnerInv
  <2>3. CASE secret = minted + 1
    <3> DEFINE own == [owner EXCEPT ![secret] = n]
    <3>1. own \in [Secrets -> Names] /\ own[secret] = n /\ \A s \in 1..minted : own[s] = owner[s]
      BY <1>2, <2>3 DEF StateType
    <3>2. \A m \in Names : /\ mem[m] # None => mem[m] \in 1..minted
                           /\ disk[m] # None => disk[m] \in 1..minted
                           /\ reload.new[m] # None => reload.new[m] \in 1..minted
      BY DEF StateType, StoreType, MintedInv, ReloadType
    <3>3. \A k \in Conns : conn[k].pc # "free" => conn[k].secret \in 1..minted
      BY DEF StateType, SlotInv, ConnType, MintedInv
    <3> HIDE DEF own
    <3>4. \A m \in Names : /\ mem'[m] # None => own[mem'[m]] = m
                           /\ disk'[m] # None => own[disk'[m]] = m
                           /\ reload'.new[m] # None => own[reload'.new[m]] = m
      BY <1>0, <1>3, <1>4, <2>1, <3>1, <3>2 DEF Owner
    <3>5. \A k \in Conns : conn'[k].pc # "free" => own[conn'[k].secret] = conn'[k].name
      BY <1>0, <2>1, <3>1, <3>3 DEF Owner
    <3>6. Owner(own)'
      BY <3>4, <3>5 DEF Owner
    <3> QED
      BY <3>1, <3>6 DEF OwnerInv
  <2> QED
    BY <2>2, <2>3
<1>9. AnswerInv'
  <2>1. secret # None => secret \notin issued /\ \A b \in Admins : admin[b].secret # secret
    BY DEF StateType, AdminType, MintedInv
  <2>2. \A b \in Admins : admin[b].secret \notin issued'
    BY <1>1, <2>1 DEF AnswerInv
  <2>3. admin'[a].secret \notin issued'
    BY <1>1, <1>2, <2>1 DEF AnswerInv, StateType, AdminType
  <2> QED
    BY <1>1, <2>1, <2>2, <2>3 DEF AnswerInv, StateType, AdminType
<1>10. PICK owner \in [Secrets -> Names] : Owner(owner)
  BY DEF OwnerInv
<1>11. \A m \in Names \ {n} : mem[m] # None => mem[m] # mem[n]
  BY <1>10 DEF Owner
<1>12. RetireInv'
  <2>1. secret \notin retired' /\ None \notin retired'
    BY <1>1, <1>2, <1>3 DEF StateType
  <2>2. SUFFICES ASSUME ~torn, NEW m \in Names
                 PROVE  disk'[m] \notin retired' /\ mem'[m] \notin retired'
    BY <1>0, <1>4 DEF RetireInv
  <2>3. disk[m] \notin retired /\ mem[m] \notin retired
    BY <1>0, <2>2 DEF RetireInv
  <2>4. mem'[m] \notin retired'
    BY <1>0, <1>1, <1>3, <1>11, <2>1, <2>3
  <2> QED
    BY <1>0, <1>1, <2>3, <2>4
<1>13. CloseDue(n)' \/ retired' = retired
  <2>1. SUFFICES ASSUME retired' # retired PROVE CloseDue(n)'
    OBVIOUS
  <2>2. closes
    BY <1>1, <2>1
  <2>3. admin' = [admin EXCEPT ![a] = [name |-> n, secret |-> secret]]
    BY <1>1, <2>1, <2>2
  <2>4. admin'[a].name = n
    BY <2>3 DEF StateType
  <2> QED
    BY <2>4 DEF CloseDue
<1>14. \A m \in Names : CloseDue(m) => CloseDue(m)'
  BY <1>0, <1>1, <1>4 DEF CloseDue, StateType, NoRequest
<1>15. SignalInv'
  <2>1. SUFFICES ASSUME ~torn, NEW k \in Conns, Live(k), conn[k].secret \in retired', ~conn[k].late,
                        conn[k].signal = "none"
                 PROVE  \A m \in Names : m = conn[k].name => CloseDue(m)'
    <3>1. \A j \in Conns : Live(j) => conn[j].name \in Names
      BY DEF SlotInv, StateType, ConnType, Live
    <3> QED
      BY <1>0, <2>1, <3>1 DEF SignalInv, Live
  <2>2. conn[k].name \in Names /\ conn[k].secret # None
    BY <2>1 DEF SlotInv, StateType, ConnType, Live
  <2>3. CASE conn[k].secret \in retired
    BY <1>14, <2>1, <2>2, <2>3 DEF SignalInv
  <2>4. CASE conn[k].secret = mem[n] /\ retired' # retired
    <3>1. conn[k].name = n
      BY <1>10, <2>1, <2>2, <2>4 DEF Owner, Live
    <3> QED
      BY <3>1, <1>13, <2>4
  <2> QED
    BY <1>1, <2>1, <2>3, <2>4
<1>16. \A s \in Secrets : s # secret /\ Held(s) => s \in ended' \/ Held(s)'
  <2>1. SUFFICES ASSUME NEW s \in Secrets, s # secret, Held(s), s # mem[n]
                 PROVE  Held(s)'
    BY <1>0
  <2>2. PICK m \in Names : mem[m] = s
    BY <1>0, <2>1 DEF Held
  <2>3. PICK o \in Names : disk[o] = s
    BY <2>1 DEF Held
  <2>4. m # n /\ mem'[m] = s /\ new[m] = s
    BY <1>0, <1>3, <2>1, <2>2
  <2> QED
    BY <1>0, <2>3, <2>4 DEF Held
<1>17. secret # None /\ disk' = new => Held(secret)'
  BY <1>0, <1>3 DEF Held
<1>18. AcceptInv'
  <2>1. \A s \in issued : s \in ended' \/ Held(s)'
    <3>1. SUFFICES ASSUME NEW s \in issued PROVE s \in ended' \/ Held(s)'
      OBVIOUS
    <3>2. s \in Secrets /\ s # secret
      BY DEF StateType
    <3> QED
      BY <1>0, <1>16, <3>2 DEF AcceptInv
  <2>2. \A b \in Admins, s \in Secrets : admin[b].secret = s => s \in ended' \/ Held(s)'
    <3>1. SUFFICES ASSUME NEW b \in Admins, NEW s \in Secrets, admin[b].secret = s
                   PROVE  s \in ended' \/ Held(s)'
      OBVIOUS
    <3>2. s # secret
      BY <3>1 DEF StateType, AdminType, MintedInv
    <3> QED
      BY <1>0, <1>16, <3>1, <3>2 DEF AcceptInv
  <2>0. \A b \in Admins : admin'[b].secret = None \/ admin'[b].secret \in Secrets
    BY <1>5 DEF StateType, AdminType
  <2>3. CASE admin' = admin /\ issued' = issued
    BY <2>0, <2>1, <2>2, <2>3 DEF AcceptInv
  <2>4. CASE /\ disk' = new
             /\ admin' = [admin EXCEPT ![a] = IF closes THEN [name |-> n, secret |-> secret] ELSE @]
             /\ issued' = IF closes THEN issued ELSE issued \cup ({secret} \ {None})
    BY <1>17, <2>0, <2>1, <2>2, <2>4 DEF AcceptInv, StateType
  <2> QED
    BY <1>1, <2>3, <2>4
<1>19. DifferInv'
  <2>1. \A k \in Conns : conn[k].pc = "free" \/ conn[k].secret = mem'[conn[k].name]
                                             \/ conn[k].secret \in ended'
    BY <1>0, <1>3 DEF DifferInv, SlotInv, StateType, ConnType
  <2>2. ~torn => \A m \in Names : disk'[m] = None \/ disk'[m] = mem'[m] \/ disk'[m] \in ended'
    BY <1>0, <1>3 DEF DifferInv
  <2> QED
    BY <1>0, <1>4, <2>1, <2>2 DEF DifferInv
<1>20. CloseInv'
  <2>1. SUFFICES ASSUME ~torn, ~crossed, ~CloseDue(n) PROVE CloseInv'
    BY <1>0 DEF CloseInv
  <2>2. n \notin reload.names /\ \A b \in Admins : admin[b].name # n
    BY <2>1 DEF CloseDue
  <2>3. ASSUME NEW b \in Admins, admin'[b].name # None
        PROVE  LET m == admin'[b].name IN
               /\ mem'[m] = None \/ mem'[m] = admin'[b].secret
               /\ disk'[m] = None \/ disk'[m] = admin'[b].secret
               /\ \A k \in Conns : conn'[k].name = m => conn'[k].secret \in ended'
    <3>1. CASE admin'[b] = admin[b]
      <4>1. admin[b].name \in Names \ {n}
        BY <2>2, <2>3, <3>1 DEF StateType, AdminType
      <4> QED
        BY <1>0, <1>3, <2>1, <2>3, <3>1, <4>1 DEF CloseInv
    <3>2. CASE admin'[b] = [name |-> n, secret |-> secret] /\ disk' = new
      <4>1. \A k \in Conns : conn[k].name = n => conn[k].secret \in ended'
        BY <1>0, <1>3 DEF DifferInv, SlotInv, NoConn, StateType, ConnType
      <4> QED
        BY <1>0, <1>3, <3>2, <4>1
    <3> QED
      BY <1>1, <3>1, <3>2 DEF StateType
  <2>4. reload'.pc = "close" =>
          /\ \A m \in reload'.names : mem'[m] = None \/ mem'[m] \in ended'
          /\ \A k \in Conns : conn'[k].name \in reload'.names => conn'[k].secret \in ended'
    BY <1>0, <1>3, <1>4, <2>1, <2>2 DEF CloseInv, StateType, ReloadType
  <2>5. \A k \in Conns : conn'[k].signal = "revoked" => conn'[k].secret \in ended'
    BY <1>0, <2>1 DEF CloseInv
  <2> QED
    BY <1>4, <2>3, <2>4, <2>5 DEF CloseInv
<1>21. ValidNotEvicted'
  BY <1>0 DEF ValidNotEvicted
<1> QED
  BY <1>5, <1>6, <1>7, <1>8, <1>9, <1>12, <1>15, <1>18, <1>19, <1>20, <1>21

\* Signalled changes the signal of live connections of the names, and no more.
LEMMA SignalledConns ==
  ASSUME StateType, NEW names, NEW reason \in {"revoked", "shutdown"}
  PROVE  LET q == Signalled(names, reason)
         IN  /\ q \in [Conns -> ConnType]
             /\ \A k \in Conns :
                  /\ q[k].pc = conn[k].pc /\ q[k].client = conn[k].client
                  /\ q[k].name = conn[k].name /\ q[k].secret = conn[k].secret
                  /\ q[k].late = conn[k].late
                  /\ IF Live(k) /\ conn[k].name \in names
                       THEN q[k].signal = reason ELSE q[k] = conn[k]
BY DEF StateType, Signalled, ConnType

\* The close_named of a rotate or a revoke, and its answer.
LEMMA CloseNamedInv ==
  ASSUME Inv, NEW a \in Admins, close_named(a)
  PROVE  Inv'
<1> USE TokenBounds DEF Inv, Secrets, None
<1>0. /\ admin[a] # NoRequest
      /\ admin' = [admin EXCEPT ![a] = NoRequest]
      /\ issued' = issued \cup ({admin[a].secret} \ {None})
      /\ mem' = mem /\ disk' = disk /\ minted' = minted /\ reload' = reload /\ server' = server
      /\ client' = client /\ ended' = ended /\ retired' = retired /\ torn' = torn
      /\ crossed' = crossed
  BY DEF close_named, store
<1>1. /\ conn' \in [Conns -> ConnType]
      /\ \A k \in Conns :
           /\ conn'[k].pc = conn[k].pc /\ conn'[k].client = conn[k].client
           /\ conn'[k].name = conn[k].name /\ conn'[k].secret = conn[k].secret
           /\ conn'[k].late = conn[k].late
           /\ IF Live(k) /\ conn[k].name = admin[a].name
                THEN conn'[k].signal = "revoked" ELSE conn'[k] = conn[k]
  BY SignalledConns DEF close_named
<1>2. /\ admin[a].name \in Names /\ admin[a].secret \in Secrets \cup {None}
      /\ admin[a].secret <= minted
  BY <1>0 DEF AnswerInv, StateType, AdminType, NoRequest, MintedInv
<1>3. admin'[a] = NoRequest /\ \A b \in Admins : b # a => admin'[b] = admin[b]
  BY <1>0 DEF StateType
<1>4. NoRequest.name = None /\ NoRequest.secret = None
  BY DEF NoRequest
<1>5. StateType'
  <2>1. issued' \subseteq 1..minted'
    <3> DEFINE s == admin[a].secret
    <3>1. s = None \/ s \in 1..minted
      BY <1>2 DEF StateType
    <3>2. issued' = issued \cup ({s} \ {None}) /\ minted' = minted /\ issued \subseteq 1..minted
      BY <1>0 DEF StateType
    <3> HIDE DEF s
    <3> QED
      BY <3>1, <3>2
  <2>2. admin' \in [Admins -> AdminType]
    BY <1>0, BlankTypes DEF StateType
  <2> QED
    BY <1>0, <1>1, <2>1, <2>2 DEF StateType
<1>6. SlotInv' /\ ReloadInv'
  <2>1. \A k \in Conns : conn[k].pc = "free" => conn'[k] = conn[k]
    BY <1>1 DEF Live
  <2>2. ASSUME NEW k \in Conns
        PROVE  /\ conn'[k].pc = "free" => conn'[k] = NoConn
               /\ conn'[k].pc # "free" => /\ conn'[k].client # None /\ conn'[k].name # None
                                          /\ conn'[k].secret # None /\ Running'
               /\ ~Live(k)' => conn'[k].signal = "none"
    BY <1>0, <1>1, <2>1 DEF SlotInv, Running, Live
  <2>3. ASSUME NEW c \in Clients
        PROVE  /\ client'[c].conn # None <=> client'[c].pc \in {"wait", "up"}
               /\ client'[c].conn # None => /\ conn'[client'[c].conn].client = c
                                            /\ conn'[client'[c].conn].secret = client'[c].token
               /\ client'[c].token # None => client'[c].token \in issued'
               /\ client'[c].pc # "stopped" => client'[c].token # None
    BY <1>0, <1>1 DEF SlotInv, StateType, ClientType
  <2> QED
    BY <1>0, <2>2, <2>3 DEF SlotInv, ReloadInv
<1>7. MintedInv' /\ OwnerInv'
  <2>0. \A b \in Admins : admin'[b].secret <= minted
    BY <1>3, <1>4 DEF MintedInv, StateType
  <2>1. MintedInv'
    BY <1>0, <1>1, <2>0 DEF MintedInv
  <2>2. \A owner \in [Secrets -> Names] : Owner(owner) => Owner(owner)'
    BY <1>0, <1>1 DEF Owner
  <2> QED
    BY <2>1, <2>2 DEF OwnerInv
<1>8. AnswerInv'
  <2>1. \A b \in Admins : admin[b].secret # None /\ b # a => admin[b].secret # admin[a].secret
    BY DEF AnswerInv
  <2>2. None \notin issued'
    BY <1>0 DEF StateType
  <2> QED
    BY <1>0, <1>3, <1>4, <2>1, <2>2 DEF AnswerInv
<1>9. RetireInv' /\ DifferInv'
  BY <1>0, <1>1 DEF RetireInv, DifferInv, Fresh, Running, invalidated_names
<1>10. SignalInv'
  <2>1. \A m \in Names : CloseDue(m) => CloseDue(m)' \/ m = admin[a].name
    BY <1>0, <1>3 DEF CloseDue
  <2>2. SUFFICES ASSUME ~torn, NEW k \in Conns, Live(k), conn[k].secret \in retired, ~conn[k].late,
                        conn'[k].signal = "none"
                 PROVE  \A m \in Names : m = conn[k].name => CloseDue(m)'
    <3>1. \A j \in Conns : Live(j) => conn[j].name \in Names
      BY DEF SlotInv, StateType, ConnType, Live
    <3> QED
      BY <1>0, <1>1, <2>2, <3>1 DEF SignalInv, Live
  <2>3. conn'[k] = conn[k] /\ conn[k].name # admin[a].name
    BY <1>1, <2>2
  <2> QED
    BY <2>1, <2>2, <2>3 DEF SignalInv
<1>11. AcceptInv'
  <2>1. \A s : Held(s)' <=> Held(s)
    BY <1>0 DEF Held, Running
  <2>2. \A s \in issued' : s \in ended' \/ Held(s)'
    BY <1>0, <2>1 DEF AcceptInv
  <2>3. ASSUME NEW b \in Admins, NEW s, s = admin'[b].secret
        PROVE  s = None \/ s \in ended' \/ Held(s)'
    BY <1>0, <1>3, <1>4, <2>1, <2>3 DEF AcceptInv
  <2> QED
    BY <2>2, <2>3 DEF AcceptInv
<1>12. CloseInv'
  <2>1. SUFFICES ASSUME ~torn, ~crossed PROVE CloseInv'
    BY <1>0 DEF CloseInv
  <2>2. ASSUME NEW b \in Admins, admin'[b].name # None
        PROVE  LET m == admin'[b].name IN
               /\ mem'[m] = None \/ mem'[m] = admin'[b].secret
               /\ disk'[m] = None \/ disk'[m] = admin'[b].secret
               /\ Fresh' => reload'.new[m] = None \/ reload'.new[m] = admin'[b].secret
               /\ \A k \in Conns : conn'[k].name = m => conn'[k].secret \in ended'
    <3>1. admin'[b] = admin[b]
      BY <1>3, <1>4, <2>2
    <3>2. Fresh' <=> Fresh
      BY <1>0 DEF Fresh
    <3> QED
      BY <1>0, <1>1, <2>1, <2>2, <3>1, <3>2 DEF CloseInv
  <2>3. reload'.pc = "close" =>
          /\ \A m \in reload'.names : mem'[m] = None \/ mem'[m] \in ended'
          /\ \A k \in Conns : conn'[k].name \in reload'.names => conn'[k].secret \in ended'
    BY <1>0, <1>1, <2>1 DEF CloseInv
  <2>4. \A k \in Conns : conn'[k].signal = "revoked" => conn'[k].secret \in ended'
    BY <1>0, <1>1, <1>2, <2>1 DEF CloseInv
  <2> QED
    BY <2>2, <2>3, <2>4 DEF CloseInv
<1>13. ValidNotEvicted'
  BY <1>0 DEF ValidNotEvicted
<1> QED
  BY <1>5, <1>6, <1>7, <1>8, <1>9, <1>10, <1>11, <1>12, <1>13

\* shutdown_state signals every connection.
LEMMA ShutdownInv ==
  ASSUME Inv, Shutdown
  PROVE  Inv'
<1> USE TokenBounds DEF Inv, Secrets, None
<1>0. /\ server = "up" /\ server' = "stopping" /\ reload.pc = "idle"
      /\ mem' = mem /\ disk' = disk /\ minted' = minted /\ reload' = reload /\ admin' = admin
      /\ client' = client /\ issued' = issued /\ ended' = ended /\ retired' = retired
      /\ torn' = torn /\ crossed' = crossed
  BY DEF Shutdown, store, ghosts
<1>1. /\ conn' \in [Conns -> ConnType]
      /\ \A k \in Conns :
           /\ conn'[k].pc = conn[k].pc /\ conn'[k].client = conn[k].client
           /\ conn'[k].name = conn[k].name /\ conn'[k].secret = conn[k].secret
           /\ conn'[k].late = conn[k].late
           /\ IF Live(k) /\ conn[k].name \in Names
                THEN conn'[k].signal = "shutdown" ELSE conn'[k] = conn[k]
  BY SignalledConns DEF Shutdown
<1>2. StateType'
  BY <1>0, <1>1 DEF StateType
<1>3. SlotInv' /\ ReloadInv'
  <2>1. \A k \in Conns : conn[k].pc = "free" => conn'[k] = conn[k]
    BY <1>1 DEF Live
  <2> QED
    BY <1>0, <1>1, <2>1 DEF SlotInv, ReloadInv, Running, Live, StateType, ClientType
<1>4. MintedInv' /\ OwnerInv' /\ AnswerInv' /\ AcceptInv' /\ ValidNotEvicted'
  BY <1>0, <1>1 DEF MintedInv, OwnerInv, Owner, AnswerInv, AcceptInv, Held, Running, ValidNotEvicted
<1>5. RetireInv' /\ DifferInv'
  BY <1>0, <1>1 DEF RetireInv, DifferInv, Fresh, Running, invalidated_names
<1>6. SignalInv'
  BY <1>0, <1>1 DEF SignalInv, Live, CloseDue
<1>7. CloseInv'
  BY <1>0, <1>1 DEF CloseInv, Fresh
<1> QED
  BY <1>2, <1>3, <1>4, <1>5, <1>6, <1>7

\* Steps that leave connections and clients alone keep what is said of them.
LEMMA KeepSlots ==
  ASSUME SlotInv, conn' = conn, client' = client, issued' = issued, Running => Running'
  PROVE  SlotInv'
BY DEF SlotInv, Live

\* The three steps of reload_from_path under which the registry does not change.
LEMMA ReadStoreInv ==
  ASSUME Inv, ReadStore
  PROVE  Inv'
<1> USE TokenBounds DEF Inv, Secrets, None
<1>0. /\ mem' = mem /\ disk' = disk /\ minted' = minted /\ admin' = admin /\ server' = server
      /\ conn' = conn /\ client' = client /\ issued' = issued /\ ended' = ended
      /\ retired' = retired /\ torn' = torn /\ crossed' = crossed
      /\ server = "up" /\ reload.pc = "idle"
  BY DEF ReadStore, store, ghosts
<1>1. /\ reload' \in ReloadType /\ reload'.pc = "compare" /\ reload'.new = disk
      /\ reload'.names = reload.names /\ reload'.stale = reload.stale
  BY DEF ReadStore, StateType, ReloadType
<1>2. reload.names = {}
  BY <1>0 DEF ReloadInv
<1>3. StateType'
  BY <1>0, <1>1 DEF StateType
<1>4. SlotInv'
  BY <1>0, KeepSlots DEF Running
<1>5. ReloadInv' /\ AnswerInv'
  BY <1>0, <1>1, <1>2 DEF ReloadInv, AnswerInv
<1>6. MintedInv'
  BY <1>0, <1>1 DEF MintedInv
<1>7. OwnerInv'
  <2>1. \A owner \in [Secrets -> Names] : Owner(owner) => Owner(owner)'
    BY <1>0, <1>1 DEF Owner
  <2> QED
    BY <2>1 DEF OwnerInv
<1>8. RetireInv'
  BY <1>0, <1>1 DEF RetireInv, Fresh, Running
<1>9. SignalInv'
  <2>1. \A m : CloseDue(m)' <=> CloseDue(m)
    BY <1>0, <1>1 DEF CloseDue
  <2> QED
    BY <1>0, <2>1 DEF SignalInv, Live
<1>10. AcceptInv' /\ ValidNotEvicted'
  BY <1>0 DEF AcceptInv, Held, Running, ValidNotEvicted
<1>11. DifferInv'
  BY <1>0, <1>1 DEF DifferInv
<1>12. CloseInv'
  BY <1>0, <1>1 DEF CloseInv
<1> QED
  BY <1>3, <1>4, <1>5, <1>6, <1>7, <1>8, <1>9, <1>10, <1>11, <1>12

LEMMA CompareInv ==
  ASSUME Inv, Compare
  PROVE  Inv'
<1> USE TokenBounds DEF Inv, Secrets, None
<1>0. /\ mem' = mem /\ disk' = disk /\ minted' = minted /\ admin' = admin /\ server' = server
      /\ conn' = conn /\ client' = client /\ issued' = issued /\ ended' = ended
      /\ retired' = retired /\ torn' = torn /\ crossed' = crossed
      /\ reload.pc = "compare"
  BY DEF Compare, store, ghosts
<1>1. /\ reload' \in ReloadType /\ reload'.pc = "replace" /\ reload'.new = reload.new
      /\ reload'.names = invalidated_names(reload.new) /\ reload'.stale = reload.stale
  <2>1. invalidated_names(reload.new) \in SUBSET Names
    BY DEF invalidated_names
  <2> QED
    BY <2>1 DEF Compare, StateType, ReloadType
<1>2. reload.names = {}
  BY <1>0 DEF ReloadInv
<1>3. StateType'
  BY <1>0, <1>1 DEF StateType
<1>4. SlotInv'
  BY <1>0, KeepSlots DEF Running
<1>5. ReloadInv' /\ AnswerInv'
  BY <1>0, <1>1, <1>2 DEF ReloadInv, AnswerInv
<1>6. MintedInv'
  BY <1>0, <1>1 DEF MintedInv
<1>7. OwnerInv'
  <2>1. \A owner \in [Secrets -> Names] : Owner(owner) => Owner(owner)'
    BY <1>0, <1>1 DEF Owner
  <2> QED
    BY <2>1 DEF OwnerInv
<1>8. RetireInv'
  <2>1. Fresh' <=> Fresh
    BY <1>0, <1>1 DEF Fresh
  <2>2. reload'.names = invalidated_names(reload.new)'
    BY <1>0, <1>1 DEF invalidated_names
  <2> QED
    BY <1>0, <1>1, <2>1, <2>2 DEF RetireInv, Running
<1>9. SignalInv'
  <2>1. \A m : CloseDue(m) => CloseDue(m)'
    BY <1>0, <1>1, <1>2 DEF CloseDue
  <2> QED
    BY <1>0, <2>1 DEF SignalInv, Live
<1>10. AcceptInv' /\ ValidNotEvicted'
  BY <1>0 DEF AcceptInv, Held, Running, ValidNotEvicted
<1>11. DifferInv'
  <2>1. Fresh' <=> Fresh
    BY <1>0, <1>1 DEF Fresh
  <2> QED
    BY <1>0, <1>1, <2>1 DEF DifferInv
<1>12. CloseInv'
  <2>1. Fresh' <=> Fresh
    BY <1>0, <1>1 DEF Fresh
  <2> QED
    BY <1>0, <1>1, <2>1 DEF CloseInv
<1> QED
  BY <1>3, <1>4, <1>5, <1>6, <1>7, <1>8, <1>9, <1>10, <1>11, <1>12

\* The write lock's part of a reload: what it read becomes the store.
LEMMA ReplaceInv ==
  ASSUME Inv, Replace
  PROVE  Inv'
<1> DEFINE changed == {m \in Names : mem[m] # reload.new[m]}
           gone == {mem[n] : n \in changed} \ {None}
<1> USE TokenBounds DEF Inv, Secrets, None
<1>0. /\ mem' = reload.new /\ disk' = disk /\ minted' = minted /\ admin' = admin
      /\ server' = server /\ conn' = conn /\ client' = client /\ issued' = issued
      /\ ended' = ended \cup gone /\ retired' = retired \cup gone
      /\ torn' = (torn \/ reload.stale) /\ crossed' = crossed /\ reload.pc = "replace"
  BY DEF Replace
<1>1. /\ reload' \in ReloadType /\ reload'.pc = "close" /\ reload'.new = reload.new
      /\ reload'.names = reload.names
  BY DEF Replace, StateType, ReloadType
<1>2. /\ \A s \in gone : s \in 1..minted /\ \E n \in Names : s = mem[n] /\ s # reload.new[n]
      /\ \A n \in Names : mem[n] # reload.new[n] /\ mem[n] # None => mem[n] \in gone
  BY DEF StateType, StoreType, MintedInv
<1>3. ~torn' => ~torn /\ Fresh
  BY <1>0 DEF Fresh, StateType
<1>4. server = "up" /\ Running /\ ~Fresh'
  BY <1>0, <1>1 DEF ReloadInv, Running, Fresh
<1>5. PICK owner \in [Secrets -> Names] : Owner(owner)
  BY DEF OwnerInv
<1> HIDE DEF changed, gone
<1>6. StateType'
  <2>1. reload.new \in StoreType
    BY DEF StateType, ReloadType
  <2>2. torn' \in BOOLEAN
    BY <1>0
  <2>3. ended' \subseteq 1..minted /\ retired' \subseteq 1..minted
    BY <1>0, <1>2 DEF StateType
  <2> QED
    BY <1>0, <1>1, <2>1, <2>2, <2>3 DEF StateType
<1>7. SlotInv'
  BY <1>0, KeepSlots DEF Running
<1>8. ReloadInv' /\ AnswerInv'
  BY <1>0, <1>1, <1>4 DEF ReloadInv, AnswerInv
<1>9. MintedInv'
  BY <1>0, <1>1 DEF MintedInv
<1>10. OwnerInv'
  <2>1. Owner(owner)'
    BY <1>0, <1>1, <1>5 DEF Owner
  <2> QED
    BY <2>1 DEF OwnerInv
<1>11. RetireInv'
  <2>1. SUFFICES ASSUME ~torn, Fresh, NEW n \in Names
                 PROVE  disk[n] \notin retired' /\ reload.new[n] \notin retired'
    BY <1>0, <1>3, <1>4 DEF RetireInv
  <2>2. disk[n] \notin retired /\ reload.new[n] \notin retired /\ disk[n] \in {reload.new[n], None}
    BY <2>1 DEF RetireInv
  <2>3. reload.new[n] \notin gone
    <3>1. SUFFICES ASSUME reload.new[n] \in gone PROVE FALSE
      OBVIOUS
    <3>2. PICK m \in Names : reload.new[n] = mem[m] /\ reload.new[n] # reload.new[m]
      BY <1>2, <3>1
    <3>3. mem[m] # None
      BY <1>2, <3>1, <3>2
    <3>4. m = n
      BY <1>5, <3>2, <3>3 DEF Owner
    <3> QED
      BY <3>2, <3>4
  <2>4. None \notin gone /\ None \notin retired
    BY <1>2 DEF StateType
  <2> QED
    BY <1>0, <2>2, <2>3, <2>4
<1>12. SignalInv'
  <2>1. SUFFICES ASSUME ~torn, Fresh, NEW k \in Conns, Live(k), conn[k].secret \in retired', ~conn[k].late,
                        conn[k].signal = "none"
                 PROVE  \A m \in Names : m = conn[k].name => CloseDue(m)'
    <3>1. \A j \in Conns : Live(j) => conn[j].name \in Names
      BY DEF SlotInv, StateType, ConnType, Live
    <3> QED
      BY <1>0, <1>3, <2>1, <3>1 DEF SignalInv, Live
  <2>2. \A m \in Names : CloseDue(m) => CloseDue(m)'
    BY <1>0, <1>1 DEF CloseDue
  <2>3. CASE conn[k].secret \in retired
    BY <2>1, <2>2, <2>3 DEF SignalInv
  <2>4. CASE conn[k].secret \in gone
    <3>1. PICK m \in Names : conn[k].secret = mem[m] /\ mem[m] # reload.new[m]
      BY <1>2, <2>4
    <3>2. mem[m] # None /\ conn[k].name = m
      BY <1>2, <1>5, <2>1, <2>4, <3>1 DEF Owner, Live
    <3>3. m \in reload'.names
      BY <1>0, <1>1, <2>1, <3>1, <3>2 DEF RetireInv, invalidated_names
    <3> QED
      BY <3>2, <3>3 DEF CloseDue
  <2> QED
    BY <1>0, <2>1, <2>3, <2>4
<1>13. AcceptInv'
  <2>1. ASSUME NEW s \in Secrets, Held(s) PROVE s \in ended' \/ Held(s)'
    <3>1. PICK n \in Names : mem[n] = s
      BY <1>4, <2>1 DEF Held
    <3>2. PICK o \in Names : disk[o] = s
      BY <2>1 DEF Held
    <3>3. s \in gone \/ reload.new[n] = s
      BY <1>2, <3>1
    <3> QED
      BY <1>0, <3>2, <3>3 DEF Held
  <2>2. \A s \in issued' : s \in ended' \/ Held(s)'
    BY <1>0, <2>1 DEF AcceptInv, StateType
  <2>3. ASSUME NEW b \in Admins, NEW s, s = admin'[b].secret
        PROVE  s = None \/ s \in ended' \/ Held(s)'
    BY <1>0, <2>1, <2>3 DEF AcceptInv, StateType, AdminType
  <2> QED
    BY <2>2, <2>3 DEF AcceptInv
<1>14. DifferInv'
  <2>1. ASSUME NEW k \in Conns
        PROVE  conn[k].pc = "free" \/ conn[k].secret = mem'[conn[k].name] \/ conn[k].secret \in ended'
    BY <1>0, <1>2 DEF DifferInv, SlotInv, StateType, ConnType
  <2>2. ~torn' => \A n \in Names : disk[n] = None \/ disk[n] = mem'[n] \/ disk[n] \in ended'
    BY <1>0, <1>3 DEF RetireInv
  <2> QED
    BY <1>0, <1>4, <2>1, <2>2 DEF DifferInv
<1>15. CloseInv'
  <2>1. SUFFICES ASSUME ~torn, Fresh, ~crossed PROVE CloseInv'
    BY <1>0, <1>3 DEF CloseInv
  <2>2. ASSUME NEW b \in Admins, admin'[b].name # None
        PROVE  LET m == admin'[b].name IN
               /\ mem'[m] = None \/ mem'[m] = admin'[b].secret
               /\ disk'[m] = None \/ disk'[m] = admin'[b].secret
               /\ \A k \in Conns : conn'[k].name = m => conn'[k].secret \in ended'
    BY <1>0, <2>1, <2>2 DEF CloseInv
  <2>3. reload.names = invalidated_names(reload.new)
    BY <1>0, <2>1 DEF RetireInv
  <2>4. \A m \in reload'.names : mem'[m] = None \/ mem'[m] \in ended'
    BY <1>0, <1>1, <2>1, <2>3 DEF DifferInv, invalidated_names
  <2>5. \A k \in Conns : conn'[k].name \in reload'.names => conn'[k].secret \in ended'
    <3>1. SUFFICES ASSUME NEW k \in Conns, conn[k].name \in reload.names
                   PROVE  conn[k].secret \in ended'
      BY <1>0, <1>1
    <3>2. conn[k].name \in Names /\ mem[conn[k].name] \in gone
      BY <1>2, <2>3, <3>1 DEF invalidated_names
    <3>3. conn[k].pc # "free"
      BY <3>2 DEF SlotInv, NoConn
    <3> QED
      BY <1>0, <3>2, <3>3 DEF DifferInv
  <2>6. \A k \in Conns : conn'[k].signal = "revoked" => conn'[k].secret \in ended'
    BY <1>0, <2>1 DEF CloseInv
  <2> QED
    BY <1>4, <2>2, <2>4, <2>5, <2>6 DEF CloseInv
<1>16. ValidNotEvicted'
  BY <1>0 DEF ValidNotEvicted
<1> QED
  BY <1>6, <1>7, <1>8, <1>9, <1>10, <1>11, <1>12, <1>13, <1>14, <1>15, <1>16

\* The end of a reload: the connections of the names it invalidated.
LEMMA CloseInvalidatedInv ==
  ASSUME Inv, CloseInvalidated
  PROVE  Inv'
<1> USE TokenBounds DEF Inv, Secrets, None
<1>0. /\ mem' = mem /\ disk' = disk /\ minted' = minted /\ admin' = admin /\ server' = server
      /\ client' = client /\ issued' = issued /\ ended' = ended /\ retired' = retired
      /\ torn' = torn /\ crossed' = crossed /\ reload.pc = "close" /\ reload' = NoReload
  BY DEF CloseInvalidated, store, ghosts
<1>1. /\ conn' \in [Conns -> ConnType]
      /\ \A k \in Conns :
           /\ conn'[k].pc = conn[k].pc /\ conn'[k].client = conn[k].client
           /\ conn'[k].name = conn[k].name /\ conn'[k].secret = conn[k].secret
           /\ conn'[k].late = conn[k].late
           /\ IF Live(k) /\ conn[k].name \in reload.names
                THEN conn'[k].signal = "revoked" ELSE conn'[k] = conn[k]
  BY SignalledConns DEF CloseInvalidated
<1>2. /\ reload' \in ReloadType /\ reload'.pc = "idle" /\ reload'.names = {}
      /\ \A n \in Names : reload'.new[n] = None
  BY <1>0, BlankTypes DEF NoReload, Blank
<1>3. ~Fresh'
  BY <1>2 DEF Fresh
<1>4. StateType'
  BY <1>0, <1>1, <1>2 DEF StateType
<1>5. SlotInv'
  <2>1. \A k \in Conns : conn[k].pc = "free" => conn'[k] = conn[k]
    BY <1>1 DEF Live
  <2> QED
    BY <1>0, <1>1, <2>1 DEF SlotInv, Running, Live, StateType, ClientType
<1>6. ReloadInv' /\ AnswerInv' /\ AcceptInv' /\ ValidNotEvicted'
  BY <1>0, <1>2 DEF ReloadInv, AnswerInv, AcceptInv, Held, Running, ValidNotEvicted
<1>7. MintedInv'
  BY <1>0, <1>1, <1>2 DEF MintedInv, StateType
<1>8. OwnerInv'
  <2>1. \A owner \in [Secrets -> Names] : Owner(owner) => Owner(owner)'
    BY <1>0, <1>1, <1>2 DEF Owner
  <2> QED
    BY <2>1 DEF OwnerInv
<1>9. RetireInv' /\ DifferInv'
  BY <1>0, <1>1, <1>3 DEF RetireInv, DifferInv, Running
<1>10. SignalInv'
  <2>1. \A m \in Names : CloseDue(m) => CloseDue(m)' \/ m \in reload.names
    BY <1>0 DEF CloseDue
  <2>2. SUFFICES ASSUME ~torn, NEW k \in Conns, Live(k), conn[k].secret \in retired, ~conn[k].late,
                        conn'[k].signal = "none"
                 PROVE  \A m \in Names : m = conn[k].name => CloseDue(m)'
    <3>1. \A j \in Conns : Live(j) => conn[j].name \in Names
      BY DEF SlotInv, StateType, ConnType, Live
    <3> QED
      BY <1>0, <1>1, <2>2, <3>1 DEF SignalInv, Live
  <2>3. conn'[k] = conn[k] /\ conn[k].name \notin reload.names
    BY <1>1, <2>2
  <2> QED
    BY <2>1, <2>2, <2>3 DEF SignalInv
<1>11. CloseInv'
  <2>1. SUFFICES ASSUME ~torn, ~crossed PROVE CloseInv'
    BY <1>0 DEF CloseInv
  <2>2. ASSUME NEW b \in Admins, admin'[b].name # None
        PROVE  LET m == admin'[b].name IN
               /\ mem'[m] = None \/ mem'[m] = admin'[b].secret
               /\ disk'[m] = None \/ disk'[m] = admin'[b].secret
               /\ \A k \in Conns : conn'[k].name = m => conn'[k].secret \in ended'
    BY <1>0, <1>1, <2>1, <2>2 DEF CloseInv
  <2>3. \A k \in Conns : conn'[k].signal = "revoked" => conn'[k].secret \in ended'
    BY <1>0, <1>1, <2>1 DEF CloseInv
  <2> QED
    BY <1>2, <1>3, <2>2, <2>3 DEF CloseInv
<1> QED
  BY <1>4, <1>5, <1>6, <1>7, <1>8, <1>9, <1>10, <1>11

\* An operator takes a token out of the file.
LEMMA EditStoreInv ==
  ASSUME Inv, NEW n \in Names, EditStore(n)
  PROVE  Inv'
<1> USE TokenBounds DEF Inv, Secrets, None
<1>0. /\ mem' = mem /\ disk[n] # None /\ disk' = [disk EXCEPT ![n] = None] /\ minted' = minted
      /\ admin' = admin /\ reload' = reload /\ server' = server /\ conn' = conn
      /\ client' = client /\ issued' = issued /\ ended' = ended \cup {disk[n]}
      /\ retired' = retired /\ torn' = torn /\ crossed' = crossed
  BY DEF EditStore
<1>1. /\ disk' \in StoreType /\ disk[n] \in 1..minted
      /\ \A m \in Names : disk'[m] = IF m = n THEN None ELSE disk[m]
  BY <1>0 DEF StateType, StoreType, MintedInv
<1>2. Fresh' <=> Fresh
  BY <1>0 DEF Fresh
<1>3. StateType'
  BY <1>0, <1>1 DEF StateType
<1>4. SlotInv'
  BY <1>0, KeepSlots DEF Running
<1>5. ReloadInv' /\ AnswerInv' /\ ValidNotEvicted'
  BY <1>0 DEF ReloadInv, AnswerInv, ValidNotEvicted
<1>6. MintedInv'
  BY <1>0, <1>1 DEF MintedInv, StateType
<1>7. OwnerInv'
  <2>1. \A owner \in [Secrets -> Names] : Owner(owner) => Owner(owner)'
    BY <1>0, <1>1 DEF Owner
  <2> QED
    BY <2>1 DEF OwnerInv
<1>8. RetireInv'
  <2>1. None \notin retired
    BY DEF StateType
  <2>2. invalidated_names(reload.new)' = invalidated_names(reload.new)
    BY <1>0 DEF invalidated_names
  <2> QED
    BY <1>0, <1>1, <1>2, <2>1, <2>2 DEF RetireInv, Running
<1>9. SignalInv'
  <2>1. \A m : CloseDue(m)' <=> CloseDue(m)
    BY <1>0 DEF CloseDue
  <2> QED
    BY <1>0, <2>1 DEF SignalInv, Live
<1>10. AcceptInv'
  <2>1. ASSUME NEW s \in Secrets, Held(s) PROVE s \in ended' \/ Held(s)'
    <3>1. PICK o \in Names : disk[o] = s
      BY <2>1 DEF Held
    <3>2. CASE o = n
      BY <1>0, <3>1, <3>2
    <3>3. CASE o # n
      BY <1>0, <1>1, <2>1, <3>1, <3>3 DEF Held, Running
    <3> QED
      BY <3>2, <3>3
  <2>2. \A s \in issued' : s \in ended' \/ Held(s)'
    BY <1>0, <2>1 DEF AcceptInv, StateType
  <2>3. ASSUME NEW b \in Admins, NEW s, s = admin'[b].secret
        PROVE  s = None \/ s \in ended' \/ Held(s)'
    BY <1>0, <2>1, <2>3 DEF AcceptInv, StateType, AdminType
  <2> QED
    BY <2>2, <2>3 DEF AcceptInv
<1>11. DifferInv'
  BY <1>0, <1>1, <1>2 DEF DifferInv
<1>12. CloseInv'
  <2>1. SUFFICES ASSUME ~torn, ~crossed PROVE CloseInv'
    BY <1>0 DEF CloseInv
  <2>2. ASSUME NEW b \in Admins, admin'[b].name # None
        PROVE  LET m == admin'[b].name IN
               /\ mem'[m] = None \/ mem'[m] = admin'[b].secret
               /\ disk'[m] = None \/ disk'[m] = admin'[b].secret
               /\ Fresh' => reload'.new[m] = None \/ reload'.new[m] = admin'[b].secret
               /\ \A k \in Conns : conn'[k].name = m => conn'[k].secret \in ended'
    <3>1. admin[b].name \in Names
      BY <1>0, <2>2 DEF StateType, AdminType
    <3> QED
      BY <1>0, <1>1, <1>2, <2>1, <2>2, <3>1 DEF CloseInv
  <2> QED
    BY <1>0, <2>1, <2>2 DEF CloseInv
<1> QED
  BY <1>3, <1>4, <1>5, <1>6, <1>7, <1>8, <1>9, <1>10, <1>11, <1>12

\* What a step of a connection or a client may do to a slot: free it, leave it
\* as it is but for the ping, insert it, or take it for an accepted token.
SlotStep(k) ==
  \/ conn'[k] = NoConn
  \/ /\ conn'[k].pc = conn[k].pc /\ conn'[k].name = conn[k].name /\ conn'[k].secret = conn[k].secret
     /\ conn'[k].signal = conn[k].signal /\ conn'[k].late = conn[k].late
  \/ /\ conn[k].pc = "authed" /\ conn'[k].pc = "loop" /\ conn'[k].name = conn[k].name
     /\ conn'[k].secret = conn[k].secret /\ conn'[k].signal = conn[k].signal
     /\ conn'[k].late = (mem[conn[k].name] # conn[k].secret)
  \/ /\ conn'[k].pc = "authed" /\ conn'[k].name \in Names /\ conn'[k].signal = "none"
     /\ conn'[k].secret = mem[conn'[k].name] /\ conn'[k].secret # None
     /\ conn'[k].secret \in issued

StoreUnchanged ==
  /\ mem' = mem /\ disk' = disk /\ minted' = minted /\ admin' = admin /\ reload' = reload
  /\ server' = server /\ issued' = issued /\ ended' = ended /\ retired' = retired
  /\ torn' = torn /\ crossed' = crossed

\* Such steps keep everything that is not about the pairing of slots and clients.
LEMMA ConnStepInv ==
  ASSUME Inv, StoreUnchanged, \A k \in Conns : SlotStep(k)
  PROVE  /\ ReloadInv' /\ MintedInv' /\ OwnerInv' /\ AnswerInv' /\ RetireInv' /\ SignalInv'
         /\ AcceptInv' /\ DifferInv' /\ CloseInv'
<1> USE TokenBounds DEF Inv, Secrets, None
<1>0. StoreUnchanged
  OBVIOUS
<1>n. /\ NoConn.pc = "free" /\ NoConn.name = None /\ NoConn.secret = None
      /\ NoConn.signal = "none"
  BY DEF NoConn
<1>1. Fresh' <=> Fresh
  BY <1>0 DEF StoreUnchanged, Fresh
<1>2. ReloadInv' /\ AnswerInv' /\ AcceptInv'
  BY <1>0 DEF StoreUnchanged, ReloadInv, AnswerInv, AcceptInv, Held, Running
<1>3. MintedInv'
  <2>1. ASSUME NEW k \in Conns PROVE conn'[k].secret <= minted
    BY <1>n DEF SlotStep, MintedInv, StateType
  <2> QED
    BY <1>0, <2>1 DEF StoreUnchanged, MintedInv
<1>4. OwnerInv'
  <2>1. PICK owner \in [Secrets -> Names] : Owner(owner)
    BY DEF OwnerInv
  <2>2. ASSUME NEW k \in Conns PROVE conn'[k].pc # "free" => owner[conn'[k].secret] = conn'[k].name
    BY <1>n, <2>1 DEF SlotStep, Owner
  <2>3. Owner(owner)'
    BY <1>0, <2>1, <2>2 DEF StoreUnchanged, Owner
  <2> QED
    BY <2>3 DEF OwnerInv
<1>5. RetireInv'
  <2>1. invalidated_names(reload.new)' = invalidated_names(reload.new)
    BY <1>0 DEF StoreUnchanged, invalidated_names
  <2> QED
    BY <1>0, <1>1, <2>1 DEF StoreUnchanged, RetireInv, Running
<1>6. SignalInv'
  <2>1. SUFFICES ASSUME ~torn, NEW k \in Conns, Live(k)', conn'[k].secret \in retired,
                        ~conn'[k].late, conn'[k].signal = "none"
                 PROVE  \A m : m = conn'[k].name => CloseDue(m)'
    BY <1>0 DEF StoreUnchanged, SignalInv
  <2>2. \A m : CloseDue(m)' <=> CloseDue(m)
    BY <1>0 DEF StoreUnchanged, CloseDue
  <2>3. CASE Live(k) /\ conn'[k].name = conn[k].name /\ conn'[k].secret = conn[k].secret
             /\ conn'[k].signal = conn[k].signal /\ conn'[k].late = conn[k].late
    BY <2>1, <2>2, <2>3 DEF SignalInv
  <2>4. CASE /\ conn[k].pc = "authed" /\ conn'[k].name = conn[k].name
             /\ conn'[k].secret = conn[k].secret
             /\ conn'[k].late = (mem[conn[k].name] # conn[k].secret)
    <3>1. conn[k].name \in Names /\ Running
      BY <2>4 DEF SlotInv, StateType, ConnType
    <3>2. mem[conn[k].name] = conn[k].secret
      BY <2>1, <2>4
    <3> QED
      BY <2>1, <2>4, <3>1, <3>2 DEF RetireInv
  <2> QED
    BY <1>n, <2>1, <2>3, <2>4 DEF SlotStep, Live
<1>7. DifferInv'
  <2>1. ASSUME NEW k \in Conns
        PROVE  conn'[k].pc = "free" \/ conn'[k].secret = mem[conn'[k].name] \/ conn'[k].secret \in ended
    BY <1>n DEF SlotStep, DifferInv
  <2> QED
    BY <1>0, <1>1, <2>1 DEF StoreUnchanged, DifferInv
<1>8. CloseInv'
  <2>1. SUFFICES ASSUME ~torn, ~crossed PROVE CloseInv'
    BY <1>0 DEF StoreUnchanged, CloseInv
  <2>2. ASSUME NEW k \in Conns, NEW a \in Admins, admin[a].name # None, conn'[k].name = admin[a].name
        PROVE  conn'[k].secret \in ended
    <3>1. admin[a].secret \notin issued
      BY DEF AnswerInv
    <3> QED
      BY <1>n, <2>1, <2>2, <3>1 DEF SlotStep, CloseInv
  <2>3. ASSUME NEW k \in Conns, reload.pc = "close", conn'[k].name \in reload.names
        PROVE  conn'[k].secret \in ended
    <3>1. reload.names \subseteq Names
      BY DEF StateType, ReloadType
    <3> QED
      BY <1>n, <2>1, <2>3, <3>1 DEF SlotStep, CloseInv
  <2>4. ASSUME NEW k \in Conns, conn'[k].signal = "revoked" PROVE conn'[k].secret \in ended
    BY <1>n, <2>1, <2>4 DEF SlotStep, CloseInv
  <2> QED
    BY <1>0, <1>1, <2>1, <2>2, <2>3, <2>4 DEF StoreUnchanged, CloseInv
<1> QED
  BY <1>2, <1>3, <1>4, <1>5, <1>6, <1>7, <1>8

\* A slot is freed and its client, if still attached, reconnects or stops.
LEMMA LeaveInv ==
  ASSUME Inv, NEW k \in Conns, NEW pc \in {"connect", "stopped"}, StoreUnchanged,
         Live(k), Removed(k), Leaves(k, pc),
         pc = "stopped" => conn[k].signal = "revoked"
  PROVE  Inv'
<1> USE TokenBounds DEF Inv, Secrets, None
<1>1. conn' = [conn EXCEPT ![k] = NoConn] /\ conn' \in [Conns -> ConnType]
  BY BlankTypes DEF Removed, StateType
<1>n. NoConn.pc = "free" /\ NoConn.signal = "none"
  BY DEF NoConn
<1>2. /\ client' \in [Clients -> ClientType]
      /\ \A c \in Clients :
           /\ client'[c].token = client[c].token
           /\ IF client[c].conn = k THEN client'[c].pc = pc /\ client'[c].conn = None
                                    ELSE client'[c] = client[c]
  <2>1. \A c \in Clients : client[c].conn = k => conn[k].client = c
    BY DEF SlotInv
  <2>2. conn[k].client \in Clients
    BY DEF SlotInv, StateType, ConnType, Live
  <2>3. CASE Attached(k)
    <3>1. client' = [client EXCEPT ![conn[k].client].pc = pc, ![conn[k].client].conn = None]
      BY <2>3 DEF Leaves
    <3>2. client[conn[k].client].conn = k
      BY <2>3 DEF Attached
    <3> QED
      BY <2>1, <2>2, <3>1, <3>2 DEF StateType, ClientType
  <2>4. CASE ~Attached(k)
    <3>1. client' = client
      BY <2>4 DEF Leaves
    <3>2. \A c \in Clients : client[c].conn # k
      BY <2>1, <2>2, <2>4 DEF Attached
    <3> QED
      BY <3>1, <3>2 DEF StateType, ClientType
  <2> QED
    BY <2>3, <2>4
<1>3. StateType'
  BY <1>1, <1>2 DEF StateType, StoreUnchanged
<1>4. SlotInv'
  <2>1. \A j \in Conns : conn'[j] = IF j = k THEN NoConn ELSE conn[j]
    BY <1>1 DEF StateType
  <2>2. ASSUME NEW j \in Conns
        PROVE  /\ conn'[j].pc = "free" => conn'[j] = NoConn
               /\ conn'[j].pc # "free" => /\ conn'[j].client # None /\ conn'[j].name # None
                                          /\ conn'[j].secret # None /\ Running'
               /\ ~Live(j)' => conn'[j].signal = "none"
    BY <1>n, <2>1 DEF SlotInv, Running, Live, StoreUnchanged
  <2>3. ASSUME NEW c \in Clients
        PROVE  /\ client'[c].conn # None <=> client'[c].pc \in {"wait", "up"}
               /\ client'[c].conn # None => /\ conn'[client'[c].conn].client = c
                                            /\ conn'[client'[c].conn].secret = client'[c].token
               /\ client'[c].token # None => client'[c].token \in issued'
               /\ client'[c].pc # "stopped" => client'[c].token # None
    BY <1>2, <2>1 DEF SlotInv, StateType, ClientType, StoreUnchanged
  <2> QED
    BY <2>2, <2>3 DEF SlotInv
<1>5. ValidNotEvicted'
  <2>1. SUFFICES ASSUME ~torn, ~crossed, NEW c \in Clients, client'[c].pc = "stopped",
                        client[c].token # None, client[c].conn = k
                 PROVE  client[c].token \in ended
    BY <1>2 DEF ValidNotEvicted, StoreUnchanged
  <2>2. conn[k].secret = client[c].token
    BY <2>1 DEF SlotInv
  <2> QED
    BY <1>2, <2>1, <2>2 DEF CloseInv
<1>6. \A j \in Conns : SlotStep(j)
  BY <1>1 DEF SlotStep, StateType
<1> QED
  BY <1>3, <1>4, <1>5, <1>6, ConnStepInv

\* The steps that end a connection.
LEMMA EndInv ==
  ASSUME Inv, NEW k \in Conns, Closing(k) \/ Drop(k) \/ (Tick(k) /\ conn[k].awaiting)
  PROVE  Inv'
<1>1. StoreUnchanged /\ Live(k) /\ Removed(k)
  BY DEF Closing, Drop, Tick, StoreUnchanged, store, ghosts
<1>2. \/ Leaves(k, "connect")
      \/ conn[k].signal = "revoked" /\ Leaves(k, "stopped")
  BY DEF Closing, Drop, Tick, closing_is_fatal
<1> QED
  BY <1>1, <1>2, LeaveInv

\* The ping and its answer.
LEMMA PingInv ==
  ASSUME Inv, NEW k \in Conns, Pong(k) \/ (Tick(k) /\ ~conn[k].awaiting)
  PROVE  Inv'
<1> USE TokenBounds DEF Inv, Secrets, None
<1>1. StoreUnchanged /\ client' = client
  BY DEF Pong, Tick, StoreUnchanged, store, ghosts
<1>2. PICK b \in BOOLEAN : conn' = [conn EXCEPT ![k].awaiting = b]
  BY DEF Pong, Tick
<1>3. conn[k] \in ConnType /\ conn' = [conn EXCEPT ![k] = [conn[k] EXCEPT !.awaiting = b]]
  BY <1>2 DEF StateType
<1>4. /\ conn' \in [Conns -> ConnType]
      /\ \A j \in Conns :
           /\ conn'[j].pc = conn[j].pc /\ conn'[j].client = conn[j].client
           /\ conn'[j].name = conn[j].name /\ conn'[j].secret = conn[j].secret
           /\ conn'[j].signal = conn[j].signal /\ conn'[j].late = conn[j].late
           /\ j # k => conn'[j] = conn[j]
  BY <1>3, SetAwaiting DEF StateType
<1>5. conn[k].pc = "loop"
  BY DEF Pong, Tick, Live
<1>6. StateType'
  BY <1>1, <1>4 DEF StateType, StoreUnchanged
<1>7. SlotInv'
  BY <1>1, <1>4, <1>5 DEF SlotInv, Running, Live, StoreUnchanged, StateType, ClientType
<1>8. ValidNotEvicted'
  BY <1>1 DEF ValidNotEvicted, StoreUnchanged
<1>9. \A j \in Conns : SlotStep(j)
  BY <1>4 DEF SlotStep
<1> QED
  BY <1>1, <1>6, <1>7, <1>8, <1>9, ConnStepInv

\* A connection enters the registry.
LEMMA InsertInv ==
  ASSUME Inv, NEW k \in Conns, Insert(k)
  PROVE  Inv'
<1> USE TokenBounds DEF Inv, Secrets, None
<1> DEFINE b == mem[conn[k].name] # conn[k].secret
<1>1. StoreUnchanged /\ conn[k].pc = "authed" /\ b \in BOOLEAN
  BY DEF Insert, StoreUnchanged, store, ghosts
<1>2. conn[k] \in ConnType /\ conn' = [conn EXCEPT ![k] = [conn[k] EXCEPT !.pc = "loop", !.late = b]]
  BY DEF StateType, Insert
<1>3. /\ conn' \in [Conns -> ConnType]
      /\ \A j \in Conns :
           /\ conn'[j].client = conn[j].client
           /\ conn'[j].name = conn[j].name /\ conn'[j].secret = conn[j].secret
           /\ conn'[j].signal = conn[j].signal
           /\ IF j = k THEN conn'[j].pc = "loop" /\ conn'[j].late = b ELSE conn'[j] = conn[j]
  <2> DEFINE q == [conn[k] EXCEPT !.pc = "loop", !.late = b]
  <2> HIDE DEF b
  <2>1. /\ q \in ConnType /\ q.pc = "loop" /\ q.late = b /\ q.client = conn[k].client
        /\ q.name = conn[k].name /\ q.secret = conn[k].secret /\ q.signal = conn[k].signal
    <3>1. conn[k] \in ConnType /\ b \in BOOLEAN
      BY <1>1, <1>2
    <3> QED
      BY <3>1 DEF ConnType
  <2>2. conn' = [conn EXCEPT ![k] = q] /\ conn \in [Conns -> ConnType]
    BY <1>2 DEF StateType
  <2> HIDE DEF q
  <2> QED
    BY <2>1, <2>2
<1>4. /\ client' \in [Clients -> ClientType]
      /\ \A c \in Clients :
           /\ client'[c].token = client[c].token /\ client'[c].conn = client[c].conn
           /\ \/ client'[c].pc = client[c].pc
              \/ client[c].conn = k /\ client'[c].pc = "up"
  <2>1. CASE Attached(k)
    <3>1. client' = [client EXCEPT ![conn[k].client].pc = "up"]
      BY <2>1 DEF Insert
    <3>2. client[conn[k].client].conn = k
      BY <2>1 DEF Attached
    <3> DEFINE h == conn[k].client
               z == [client[h] EXCEPT !.pc = "up"]
    <3>3. client' = [client EXCEPT ![h] = z] /\ client \in [Clients -> ClientType]
      BY <3>1 DEF StateType
    <3>4. ASSUME h \in Clients
          PROVE  z \in ClientType /\ z.pc = "up" /\ z.token = client[h].token /\ z.conn = client[h].conn
      BY <3>3, <3>4 DEF ClientType
    <3> HIDE DEF z, h
    <3>5. client[h].conn = k
      BY <3>2 DEF h
    <3> QED
      BY <3>3, <3>4, <3>5
  <2>2. CASE ~Attached(k)
    <3>1. client' = client
      BY <2>2 DEF Insert
    <3> QED
      BY <3>1 DEF StateType
  <2> QED
    BY <2>1, <2>2
<1>5. StateType'
  BY <1>1, <1>3, <1>4 DEF StateType, StoreUnchanged
<1>6. SlotInv'
  <2>1. ASSUME NEW j \in Conns
        PROVE  /\ conn'[j].pc = "free" => conn'[j] = NoConn
               /\ conn'[j].pc # "free" => /\ conn'[j].client # None /\ conn'[j].name # None
                                          /\ conn'[j].secret # None /\ Running'
               /\ ~Live(j)' => conn'[j].signal = "none"
    BY <1>1, <1>3 DEF SlotInv, Running, Live, StoreUnchanged
  <2>2. ASSUME NEW c \in Clients
        PROVE  /\ client'[c].conn # None <=> client'[c].pc \in {"wait", "up"}
               /\ client'[c].conn # None => /\ conn'[client'[c].conn].client = c
                                            /\ conn'[client'[c].conn].secret = client'[c].token
               /\ client'[c].token # None => client'[c].token \in issued'
               /\ client'[c].pc # "stopped" => client'[c].token # None
    BY <1>1, <1>3, <1>4 DEF SlotInv, StateType, ClientType, StoreUnchanged
  <2> QED
    BY <2>1, <2>2 DEF SlotInv
<1>7. ValidNotEvicted'
  BY <1>1, <1>4 DEF ValidNotEvicted, StoreUnchanged
<1>8. \A j \in Conns : SlotStep(j)
  BY <1>1, <1>3 DEF SlotStep
<1> QED
  BY <1>1, <1>5, <1>6, <1>7, <1>8, ConnStepInv

\* A token is accepted and its client waits for the upgrade.
LEMMA AuthenticateInv ==
  ASSUME Inv, NEW c \in Clients, NEW k \in Conns, Authenticate(c, k)
  PROVE  Inv'
<1> USE TokenBounds DEF Inv, Secrets, None
<1>1. /\ StoreUnchanged /\ Running /\ client[c].pc = "connect" /\ conn[k].pc = "free"
      /\ client' = [client EXCEPT ![c].pc = "wait", ![c].conn = k]
  BY DEF Authenticate, StoreUnchanged, store, ghosts
<1>2. PICK n \in Names :
         /\ mem[n] = client[c].token
         /\ conn' = [conn EXCEPT ![k] = [NoConn EXCEPT !.pc = "authed", !.client = c, !.name = n,
                                                       !.secret = client[c].token]]
  BY DEF Authenticate, authenticate
<1>3. client[c].token \in Secrets /\ client[c].token \in issued
  BY <1>1 DEF SlotInv, StateType, ClientType
<1>4. LET q == [NoConn EXCEPT !.pc = "authed", !.client = c, !.name = n, !.secret = client[c].token]
      IN  /\ q \in ConnType /\ q.pc = "authed" /\ q.client = c /\ q.name = n
          /\ q.secret = client[c].token /\ q.signal = "none"
  <2>1. NoConn \in ConnType /\ NoConn.signal = "none"
    BY BlankTypes DEF NoConn
  <2> QED
    BY <1>3, <2>1 DEF ConnType
<1>5. /\ conn' \in [Conns -> ConnType]
      /\ \A j \in Conns : j # k => conn'[j] = conn[j]
      /\ conn'[k].pc = "authed" /\ conn'[k].client = c /\ conn'[k].name = n
      /\ conn'[k].secret = client[c].token /\ conn'[k].signal = "none"
  BY <1>2, <1>4 DEF StateType
<1>6. /\ client' \in [Clients -> ClientType]
      /\ client'[c].pc = "wait" /\ client'[c].conn = k /\ client'[c].token = client[c].token
      /\ \A d \in Clients : d # c => client'[d] = client[d]
  BY <1>1 DEF StateType, ClientType
<1>7. StateType'
  BY <1>1, <1>5, <1>6 DEF StateType, StoreUnchanged
<1>8. SlotInv'
  <2>1. \A d \in Clients : client[d].conn # k
    <3>1. conn[k].client = None
      BY <1>1 DEF SlotInv, NoConn
    <3> QED
      BY <3>1 DEF SlotInv
  <2>2. ASSUME NEW j \in Conns
        PROVE  /\ conn'[j].pc = "free" => conn'[j] = NoConn
               /\ conn'[j].pc # "free" => /\ conn'[j].client # None /\ conn'[j].name # None
                                          /\ conn'[j].secret # None /\ Running'
               /\ ~Live(j)' => conn'[j].signal = "none"
    BY <1>1, <1>3, <1>5 DEF SlotInv, Running, Live, StoreUnchanged
  <2>3. ASSUME NEW d \in Clients
        PROVE  /\ client'[d].conn # None <=> client'[d].pc \in {"wait", "up"}
               /\ client'[d].conn # None => /\ conn'[client'[d].conn].client = d
                                            /\ conn'[client'[d].conn].secret = client'[d].token
               /\ client'[d].token # None => client'[d].token \in issued'
               /\ client'[d].pc # "stopped" => client'[d].token # None
    BY <1>1, <1>3, <1>5, <1>6, <2>1 DEF SlotInv, StateType, ClientType, StoreUnchanged
  <2> QED
    BY <2>2, <2>3 DEF SlotInv
<1>9. ValidNotEvicted'
  BY <1>1, <1>6 DEF ValidNotEvicted, StoreUnchanged
<1>10. \A j \in Conns : SlotStep(j)
  BY <1>2, <1>3, <1>5 DEF SlotStep
<1> QED
  BY <1>1, <1>7, <1>8, <1>9, <1>10, ConnStepInv

\* The steps of a client alone: refused, gone, or given a token.
LEMMA ClientInv ==
  ASSUME Inv, NEW c \in Clients,
         Reject(c) \/ Vanish(c) \/ \E s \in Secrets : Provision(c, s)
  PROVE  Inv'
<1> USE TokenBounds DEF Inv, Secrets, None
<1>1. StoreUnchanged /\ conn' = conn
  BY DEF Reject, Vanish, Provision, StoreUnchanged, store, ghosts
<1>2. \A j \in Conns : SlotStep(j)
  BY <1>1 DEF SlotStep
<1>3. CASE Reject(c)
  <2>1. client[c].pc = "connect" /\ client' = [client EXCEPT ![c].pc = "stopped"]
        /\ \A n \in Names : mem[n] # client[c].token
    BY <1>3 DEF Reject, authenticate
  <2>2. StateType' /\ SlotInv'
    BY <1>1, <2>1 DEF StateType, ClientType, SlotInv, Running, Live, StoreUnchanged
  <2>3. client[c].token \in ended
    BY <1>3, <2>1 DEF SlotInv, AcceptInv, Held, Reject
  <2>4. ValidNotEvicted'
    BY <1>1, <2>1, <2>3 DEF ValidNotEvicted, StateType, StoreUnchanged
  <2> QED
    BY <1>1, <1>2, <2>2, <2>4, ConnStepInv
<1>4. CASE Vanish(c)
  <2>1. /\ client[c].pc \in {"wait", "up"}
        /\ client' = [client EXCEPT ![c].pc = "connect", ![c].conn = None]
    BY <1>4 DEF Vanish
  <2>2. StateType' /\ SlotInv'
    BY <1>1, <2>1 DEF StateType, ClientType, SlotInv, Running, Live, StoreUnchanged
  <2>3. ValidNotEvicted'
    BY <1>1, <2>1 DEF ValidNotEvicted, StateType, StoreUnchanged
  <2> QED
    BY <1>1, <1>2, <2>2, <2>3, ConnStepInv
<1>5. CASE \E s \in Secrets : Provision(c, s)
  <2>1. PICK s \in Secrets : /\ s \in issued
                             /\ client' = [client EXCEPT ![c] = [pc |-> "connect", token |-> s, conn |-> None]]
    BY <1>5 DEF Provision
  <2>2. StateType' /\ SlotInv'
    BY <1>1, <2>1 DEF StateType, ClientType, SlotInv, Running, Live, StoreUnchanged
  <2>3. ValidNotEvicted'
    BY <1>1, <2>1 DEF ValidNotEvicted, StateType, StoreUnchanged
  <2> QED
    BY <1>1, <1>2, <2>2, <2>3, ConnStepInv
<1> QED
  BY <1>3, <1>4, <1>5

\* The server ends, by a shutdown or a crash, and starts from its file.
LEMMA RestartInv ==
  ASSUME Inv, Exit \/ Start
  PROVE  Inv'
<1> USE TokenBounds DEF Inv, Secrets, None
<1>n. /\ NoConn.pc = "free" /\ NoConn.name = None /\ NoConn.secret = None
      /\ NoConn.signal = "none" /\ NoRequest.name = None /\ NoRequest.secret = None
      /\ NoReload.pc = "idle" /\ NoReload.names = {}
      /\ \A n \in Names : NoReload.new[n] = None
  BY DEF NoConn, NoRequest, NoReload, Blank
<1>1. CASE Exit
  <2>0. /\ server' = "down" /\ mem' = mem /\ disk' = disk /\ minted' = minted
        /\ conn' = [k \in Conns |-> NoConn] /\ admin' = [a \in Admins |-> NoRequest]
        /\ reload' = NoReload /\ issued' = issued /\ ended' = ended /\ retired' = retired
        /\ torn' = torn /\ crossed' = crossed
    BY <1>1 DEF Exit, store, ghosts
  <2>1. /\ client' \in [Clients -> ClientType]
        /\ \A c \in Clients :
             /\ client'[c].token = client[c].token /\ client'[c].conn = None
             /\ IF client[c].conn = None THEN client'[c].pc = client[c].pc
                                         ELSE client'[c].pc = "connect"
    BY <1>1 DEF Exit, StateType, ClientType
  <2>2. /\ \A k \in Conns : conn'[k] = NoConn
        /\ \A a \in Admins : admin'[a] = NoRequest
        /\ ~Running' /\ ~Fresh'
    BY <1>n, <2>0 DEF Running, Fresh
  <2>3. StateType'
    <3>1. conn' \in [Conns -> ConnType] /\ admin' \in [Admins -> AdminType] /\ reload' \in ReloadType
      BY <2>0, BlankTypes
    <3> QED
      BY <2>0, <2>1, <3>1 DEF StateType
  <2>4. SlotInv'
    <3>1. ASSUME NEW k \in Conns
          PROVE  /\ conn'[k].pc = "free" => conn'[k] = NoConn
                 /\ conn'[k].pc = "free" /\ conn'[k].signal = "none"
      BY <1>n, <2>2
    <3>2. ASSUME NEW c \in Clients
          PROVE  /\ client'[c].conn # None <=> client'[c].pc \in {"wait", "up"}
                 /\ client'[c].conn = None
                 /\ client'[c].token # None => client'[c].token \in issued'
                 /\ client'[c].pc # "stopped" => client'[c].token # None
      BY <2>0, <2>1 DEF SlotInv
    <3> QED
      BY <3>1, <3>2 DEF SlotInv
  <2>5. ReloadInv' /\ AnswerInv'
    <3>1. None \notin issued
      BY DEF StateType
    <3> QED
      BY <1>n, <2>0, <2>2, <3>1 DEF ReloadInv, AnswerInv
  <2>6. MintedInv'
    BY <1>n, <2>0, <2>2 DEF MintedInv, StateType
  <2>7. OwnerInv'
    <3>1. \A owner \in [Secrets -> Names] : Owner(owner) => Owner(owner)'
      BY <1>n, <2>0, <2>2 DEF Owner
    <3> QED
      BY <3>1 DEF OwnerInv
  <2>8. RetireInv' /\ SignalInv' /\ DifferInv'
    BY <1>n, <2>0, <2>2 DEF RetireInv, SignalInv, DifferInv, Live
  <2>9. AcceptInv'
    BY <1>n, <2>0, <2>2 DEF AcceptInv, Held
  <2>10. CloseInv'
    BY <1>n, <2>0, <2>2 DEF CloseInv
  <2>11. ValidNotEvicted'
    BY <2>0, <2>1 DEF ValidNotEvicted, SlotInv
  <2> QED
    BY <2>3, <2>4, <2>5, <2>6, <2>7, <2>8, <2>9, <2>10, <2>11
<1>2. CASE Start
  <2>0. /\ server = "down" /\ server' = "up" /\ mem' = disk /\ disk' = disk /\ minted' = minted
        /\ conn' = conn /\ admin' = admin /\ reload' = reload /\ client' = client
        /\ issued' = issued /\ ended' = ended /\ retired' = retired
        /\ torn' = torn /\ crossed' = crossed
    BY <1>2 DEF Start, ghosts
  <2>1. ~Fresh /\ ~Fresh' /\ ~Running /\ Running' /\ reload.pc = "idle"
    BY <2>0 DEF ReloadInv, Fresh, Running, StateType, ReloadType
  <2>2. \A k \in Conns : conn[k].pc = "free"
    BY <2>1 DEF SlotInv
  <2>3. StateType'
    BY <2>0 DEF StateType
  <2>4. SlotInv'
    BY <2>0, <2>1, KeepSlots
  <2>5. ReloadInv' /\ AnswerInv' /\ ValidNotEvicted'
    BY <2>0 DEF ReloadInv, AnswerInv, ValidNotEvicted
  <2>6. MintedInv'
    BY <2>0 DEF MintedInv
  <2>7. OwnerInv'
    <3>1. \A owner \in [Secrets -> Names] : Owner(owner) => Owner(owner)'
      BY <2>0 DEF Owner
    <3> QED
      BY <3>1 DEF OwnerInv
  <2>8. RetireInv' /\ SignalInv' /\ DifferInv'
    BY <2>0, <2>1, <2>2 DEF RetireInv, SignalInv, DifferInv, Live
  <2>9. AcceptInv'
    BY <2>0 DEF AcceptInv, Held
  <2>10. CloseInv'
    BY <2>0, <2>1 DEF CloseInv
  <2> QED
    BY <2>3, <2>4, <2>5, <2>6, <2>7, <2>8, <2>9, <2>10
<1> QED
  BY <1>1, <1>2

-----------------------------------------------------------------------------
\* Every step keeps the invariant.
LEMMA NextInv == Inv /\ [Next]_vars => Inv'
<1> SUFFICES ASSUME Inv, [Next]_vars PROVE Inv'
  OBVIOUS
<1>1. ASSUME NEW a \in Admins, NEW n \in Names, add(a, n) \/ rotate(a, n) \/ revoke(a, n)
      PROVE  Inv'
  <2>1. CASE add(a, n)
    BY <2>1, RequestInv DEF add
  <2>2. CASE rotate(a, n)
    BY <2>2, RequestInv DEF rotate
  <2>3. CASE revoke(a, n)
    BY <2>3, RequestInv DEF revoke
  <2> QED
    BY <1>1, <2>1, <2>2, <2>3
<1>2. CASE \E a \in Admins : close_named(a)
  BY <1>2, CloseNamedInv
<1>3. CASE ReadStore \/ Compare \/ Replace \/ CloseInvalidated
  BY <1>3, ReadStoreInv, CompareInv, ReplaceInv, CloseInvalidatedInv
<1>4. CASE \E n \in Names : EditStore(n)
  BY <1>4, EditStoreInv
<1>5. CASE \E c \in Clients : \/ Reject(c) \/ Vanish(c)
                              \/ \E k \in Conns : Authenticate(c, k)
                              \/ \E s \in Secrets : Provision(c, s)
  BY <1>5, ClientInv, AuthenticateInv
<1>6. CASE \E k \in Conns : Insert(k) \/ Closing(k) \/ Tick(k) \/ Pong(k) \/ Drop(k)
  BY <1>6, InsertInv, EndInv, PingInv
<1>7. CASE Shutdown \/ Exit \/ Start
  BY <1>7, ShutdownInv, RestartInv
<1>8. CASE UNCHANGED vars
  <2>1. StoreUnchanged /\ conn' = conn /\ client' = client
    BY <1>8 DEF vars, store, ghosts, StoreUnchanged
  <2>2. \A k \in Conns : SlotStep(k)
    BY <2>1 DEF SlotStep
  <2>3. StateType' /\ ValidNotEvicted'
    BY <2>1 DEF Inv, StateType, ValidNotEvicted, StoreUnchanged
  <2>4. SlotInv'
    BY <2>1, KeepSlots DEF Inv, Running, StoreUnchanged
  <2> QED
    BY <2>1, <2>2, <2>3, <2>4, ConnStepInv DEF Inv
<1> QED
  BY <1>1, <1>2, <1>3, <1>4, <1>5, <1>6, <1>7, <1>8 DEF Next

\* Whatever the administrators, the operator, the clients and the restarts do,
\* the state satisfies the invariant (token_store.rs, token_control.rs,
\* subscriber_ws.rs).
THEOREM InvAlways == Spec => []Inv
BY InitInv, NextInv, PTL DEF Spec

\* RevokedGone: a connection of a token that was ended without an error has
\* its close signal or is about to get it, with the exceptions the property
\* names, and the state is well typed (token_control.rs, daemon.rs:1187).
THEOREM RevokedGoneAlways == Spec => []RevokedGone
<1>1. Inv => TypeOK
  BY DEF Inv, StateType, SlotInv, TypeOK, AdminType, ReloadType, ConnType, ClientType
<1>2. Inv => RevokedGone
  BY <1>1 DEF Inv, SignalInv, RevokedGone
<1> QED
  BY <1>2, InvAlways, PTL

\* RetiredIsGone: a token ended without an error is in neither the store nor the
\* file again, through faults, reloads, edits and restarts (token_store.rs:120-144).
THEOREM RetiredIsGoneAlways == Spec => []RetiredIsGone
<1>1. Inv => RetiredIsGone
  <2> SUFFICES ASSUME Inv, ~torn, NEW n \in Names
               PROVE  retired \cap {disk[n], IF Running THEN mem[n] ELSE None} = {}
    BY DEF RetiredIsGone
  <2>1. None \notin retired
    BY DEF Inv, StateType, None
  <2> QED
    BY <2>1 DEF Inv, RetireInv
<1> QED
  BY <1>1, InvAlways, PTL

\* AcceptedUntilEnded: what was answered and nothing was to end is in memory
\* and in the file (token_store.rs:51-78).
THEOREM AcceptedUntilEndedAlways == Spec => []AcceptedUntilEnded
<1>1. Inv => AcceptedUntilEnded
  BY DEF Inv, AcceptInv, Held, AcceptedUntilEnded
<1> QED
  BY <1>1, InvAlways, PTL

\* ValidNotEvicted: a client that stopped for good had a token that was to end
\* (subscribers.rs:227-234, token_control.rs).
THEOREM ValidNotEvictedAlways == Spec => []ValidNotEvicted
<1>1. Inv => ValidNotEvicted
  BY DEF Inv
<1> QED
  BY <1>1, InvAlways, PTL
=============================================================================

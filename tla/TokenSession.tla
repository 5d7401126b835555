------------------------------ MODULE TokenSession ------------------------------
(***************************************************************************)
(* Subscriber tokens and the connections that use them: the token store in  *)
(* memory and on disk (token_store.rs), add, rotate and revoke on the       *)
(* control plane (token_control.rs, control_plane.rs), the reload of the    *)
(* store on SIGHUP (daemon.rs:1176-1194), the handshake of a connection,    *)
(* its ping and its close signal (subscriber_ws.rs, subscribers.rs), the    *)
(* end and the restart of the server, and the client's run loop             *)
(* (whdr-sub-kit).                                                          *)
(*                                                                         *)
(* A secret is a number; minting yields a new one.  Hashing, the syntax of  *)
(* names and the creation time are left out.  Requests that are refused     *)
(* (a name that exists, one that does not) change nothing.                  *)
(***************************************************************************)
EXTENDS Integers, FiniteSets

CONSTANTS
  Names,          \* token names
  Admins,         \* control plane connections, each serving a request at a time
  Clients,        \* subscriber clients
  Conns,          \* connection slots of the server
  MaxSecrets,     \* bound on secrets minted
  Troubles,       \* which of "fault", "reload", "edit" and "stop" happen
  MaxTroubles     \* bound on how many of them, in all

\* The code's Option::None.
None == 0

ASSUME TokenBounds ==
  /\ Names # {} /\ MaxSecrets \in Nat \ {0}
  /\ None \notin Names \cup Clients \cup Conns
  /\ Troubles \subseteq {"fault", "reload", "edit", "stop"} /\ MaxTroubles \in Nat

Secrets == 1..MaxSecrets

VARIABLES
  mem,            \* TokenStore.tokens: name -> secret
  disk,           \* the file, as the last rename left it
  minted,         \* secrets minted so far
  admin,          \* each control connection: the close_named and the answer due
  reload,         \* the SIGHUP in progress
  server,         \* "up", "stopping" or "down"
  conn,           \* subscriber_socket tasks
  client,         \* Client::run
  budget,         \* what is left of MaxTroubles
  issued,         \* history: secrets an answer carried
  ended,          \* history: secrets an operation, an edit or a reload was to end
  retired,        \* history: secrets whose end was carried through without an error
  torn,           \* history: a reload put in place a file read before a request
  crossed         \* history: a request on a name whose close_named was still due

store == <<mem, disk, minted>>
ghosts == <<issued, ended, retired, torn, crossed>>
vars == <<store, admin, reload, server, conn, client, budget, ghosts>>

Blank == [n \in Names |-> None]
NoRequest == [name |-> None, secret |-> None]
NoConn == [pc |-> "free", client |-> None, name |-> None, secret |-> None,
           signal |-> "none", awaiting |-> FALSE, late |-> FALSE]
NoReload == [pc |-> "idle", new |-> Blank, names |-> {}, stale |-> FALSE]

\* One name has a token, which one client holds; the other clients have none.
Init ==
  LET name == CHOOSE n \in Names : TRUE
      holder == CHOOSE c \in Clients : TRUE
  IN  /\ mem = [Blank EXCEPT ![name] = 1]
      /\ disk = mem
      /\ minted = 1
      /\ admin = [a \in Admins |-> NoRequest]
      /\ reload = NoReload
      /\ server = "up"
      /\ conn = [k \in Conns |-> NoConn]
      /\ client = [c \in Clients |->
                     IF c = holder THEN [pc |-> "connect", token |-> 1, conn |-> None]
                                   ELSE [pc |-> "stopped", token |-> None, conn |-> None]]
      /\ budget = MaxTroubles
      /\ issued = {1} /\ ended = {} /\ retired = {}
      /\ torn = FALSE /\ crossed = FALSE

Running == server # "down"

\* A persist that fails, a SIGHUP, an edit of the file, the end of the server.
Trouble(kind) ==
  /\ kind \in Troubles /\ budget > 0
  /\ budget' = budget - 1

\* In the registry.
Live(k) == conn[k].pc = "loop"

\* A close_named for this name is still to be carried out.
CloseDue(n) ==
  \/ \E a \in Admins : admin[a].name = n
  \/ n \in reload.names

-----------------------------------------------------------------------------
(* add, rotate and revoke hold the store's write lock through persist; the   *)
(* close_named of rotate and revoke follows after the lock is dropped, and   *)
(* the answer after that.                                                    *)

\* Mutant: the answer does not wait for the file.
PersistOkLater(new) == UNCHANGED <<disk, budget>>

\* persist: write and fsync a new file, rename it, fsync the directory.
PersistOk(new) == disk' = new /\ UNCHANGED budget

\* Mutant: the file is written in place.
PersistErrInPlace(new) ==
  /\ Trouble("fault")
  /\ disk' = Blank

\* An error leaves the old file or, after the rename, the new one.
PersistErr(new) ==
  /\ Trouble("fault")
  /\ disk' \in {disk, new}

\* Name n holds the secret, or none, in memory first; an error is answered
\* with memory as it is.
Request(a, n, secret, closes) ==
  LET new == [mem EXCEPT ![n] = secret]
  IN  /\ Running /\ admin[a] = NoRequest
      /\ mem' = new
      /\ ended' = ended \cup ({mem[n]} \ {None})
      /\ crossed' = (crossed \/ CloseDue(n))
      /\ reload' = [reload EXCEPT !.stale = reload.pc \in {"compare", "replace"}]
      /\ \/ /\ PersistOk(new)
            /\ admin' = [admin EXCEPT ![a] = IF closes THEN [name |-> n, secret |-> secret] ELSE @]
            /\ issued' = IF closes THEN issued ELSE issued \cup ({secret} \ {None})
            /\ retired' = retired \cup ({mem[n]} \ {None})
         \/ /\ PersistErr(new)
            /\ UNCHANGED <<admin, issued, retired>>
      /\ UNCHANGED <<server, conn, client, torn>>

add(a, n) ==
  /\ mem[n] = None /\ minted < MaxSecrets
  /\ minted' = minted + 1
  /\ Request(a, n, minted + 1, FALSE)

rotate(a, n) ==
  /\ mem[n] # None /\ minted < MaxSecrets
  /\ minted' = minted + 1
  /\ Request(a, n, minted + 1, TRUE)

\* Mutant: the connections of a revoked token are left alone.
revokeOnly(a, n) ==
  /\ mem[n] # None
  /\ UNCHANGED minted
  /\ Request(a, n, None, FALSE)

revoke(a, n) ==
  /\ mem[n] # None
  /\ UNCHANGED minted
  /\ Request(a, n, None, TRUE)

\* close_named: every connection in the registry, by name.  The channel keeps
\* the last reason only.
Signalled(names, reason) ==
  [k \in Conns |-> IF Live(k) /\ conn[k].name \in names
                     THEN [conn[k] EXCEPT !.signal = reason] ELSE conn[k]]

close_named(a) ==
  /\ admin[a] # NoRequest
  /\ conn' = Signalled({admin[a].name}, "revoked")
  /\ admin' = [admin EXCEPT ![a] = NoRequest]
  /\ issued' = issued \cup ({admin[a].secret} \ {None})
  /\ UNCHANGED <<store, reload, server, client, budget, ended, retired, torn, crossed>>

-----------------------------------------------------------------------------
(* reload_from_path: the file is read without a lock, compared under the     *)
(* read lock, and put in place under the write lock.                         *)

ReadStore ==
  /\ server = "up" /\ reload.pc = "idle"
  /\ Trouble("reload")
  /\ reload' = [reload EXCEPT !.pc = "compare", !.new = disk]
  /\ UNCHANGED <<store, admin, server, conn, client, ghosts>>

\* Mutant: every name is taken to have changed.
invalidated_namesAll(new) == {n \in Names : mem[n] # None}

invalidated_names(new) == {n \in Names : mem[n] # None /\ new[n] # mem[n]}

Compare ==
  /\ reload.pc = "compare"
  /\ reload' = [reload EXCEPT !.pc = "replace", !.names = invalidated_names(reload.new)]
  /\ UNCHANGED <<store, admin, server, conn, client, budget, ghosts>>

\* The copy is put in place.  Whatever it no longer has counts as ended, a token
\* added or rotated in after a stale read too (torn): the reload has taken it out
\* of the store, and what the file then holds is left to RetiredIsGone.
Replace ==
  LET gone == {mem[n] : n \in {m \in Names : mem[m] # reload.new[m]}} \ {None}
  IN  /\ reload.pc = "replace"
      /\ mem' = reload.new
      /\ reload' = [reload EXCEPT !.pc = "close"]
      /\ torn' = (torn \/ reload.stale)
      /\ ended' = ended \cup gone
      /\ retired' = retired \cup gone
      /\ UNCHANGED <<disk, minted, admin, server, conn, client, budget, issued, crossed>>

CloseInvalidated ==
  /\ reload.pc = "close"
  /\ conn' = Signalled(reload.names, "revoked")
  /\ reload' = NoReload
  /\ UNCHANGED <<store, admin, server, client, budget, ghosts>>

\* An operator removes a token from the file by hand.
EditStore(n) ==
  /\ Trouble("edit")
  /\ disk[n] # None
  /\ disk' = [disk EXCEPT ![n] = None]
  /\ ended' = ended \cup {disk[n]}
  /\ UNCHANGED <<mem, minted, admin, reload, server, conn, client, issued, retired, torn, crossed>>

-----------------------------------------------------------------------------
(* The handshake, the connection's loop and the client's.                    *)

Attached(k) == conn[k].client # None /\ client[conn[k].client].conn = k

\* The session of slot k's client ends: it reconnects, or stops for good.
Leaves(k, pc) ==
  IF Attached(k)
    THEN client' = [client EXCEPT ![conn[k].client].pc = pc, ![conn[k].client].conn = None]
    ELSE UNCHANGED client

\* subscriber_socket's last line.
Removed(k) == conn' = [conn EXCEPT ![k] = NoConn]

\* The name a presented token belongs to, if any.
authenticate(token) == {n \in Names : mem[n] = token}

\* subscribe_handler accepts; the upgrade comes later.
Authenticate(c, k) ==
  /\ Running /\ client[c].pc = "connect" /\ conn[k].pc = "free"
  /\ \E n \in authenticate(client[c].token) :
          conn' = [conn EXCEPT ![k] = [NoConn EXCEPT !.pc = "authed", !.client = c, !.name = n,
                                                     !.secret = client[c].token]]
  /\ client' = [client EXCEPT ![c].pc = "wait", ![c].conn = k]
  /\ UNCHANGED <<store, admin, reload, server, budget, ghosts>>

\* Mutant: the kit takes a 401 for a failure that passes.
RejectRetries(c) ==
  /\ Running /\ client[c].pc = "connect"
  /\ authenticate(client[c].token) = {}
  /\ UNCHANGED vars

\* 401, Error::Auth: the client's run returns.
Reject(c) ==
  /\ Running /\ client[c].pc = "connect"
  /\ authenticate(client[c].token) = {}
  /\ client' = [client EXCEPT ![c].pc = "stopped"]
  /\ UNCHANGED <<store, admin, reload, server, conn, budget, ghosts>>

\* The connection enters the registry and sends its welcome; a signal that
\* comes in between waits for the loop.  late records that the token had changed
\* by the time of the insert.
Insert(k) ==
  /\ conn[k].pc = "authed"
  /\ conn' = [conn EXCEPT ![k].pc = "loop", ![k].late = mem[conn[k].name] # conn[k].secret]
  /\ client' = IF Attached(k) THEN [client EXCEPT ![conn[k].client].pc = "up"] ELSE client
  /\ UNCHANGED <<store, admin, reload, server, budget, ghosts>>

closing_is_fatal(reason) == reason = "revoked"

\* The closing frame reaches the client, or the connection is lost before.
Closing(k) ==
  /\ Live(k) /\ conn[k].signal # "none"
  /\ Removed(k)
  /\ \/ Leaves(k, IF closing_is_fatal(conn[k].signal) THEN "stopped" ELSE "connect")
     \/ Leaves(k, "connect")
  /\ UNCHANGED <<store, admin, reload, server, budget, ghosts>>

\* Mutant: a ping is sent at every tick.
TickForgets(k) ==
  /\ Live(k)
  /\ UNCHANGED vars

\* The ping interval: a ping, or the end when the last one is unanswered.
Tick(k) ==
  /\ Live(k)
  /\ IF conn[k].awaiting
       THEN Removed(k) /\ Leaves(k, "connect")
       ELSE conn' = [conn EXCEPT ![k].awaiting = TRUE] /\ UNCHANGED client
  /\ UNCHANGED <<store, admin, reload, server, budget, ghosts>>

\* recv answers the ping.
Pong(k) ==
  /\ Live(k) /\ conn[k].awaiting /\ Attached(k)
  /\ conn' = [conn EXCEPT ![k].awaiting = FALSE]
  /\ UNCHANGED <<store, admin, reload, server, client, budget, ghosts>>

\* The connection ends on both sides.
Drop(k) ==
  /\ Live(k)
  /\ Removed(k)
  /\ Leaves(k, "connect")
  /\ UNCHANGED <<store, admin, reload, server, budget, ghosts>>

\* The client's side ends and the server does not hear of it.
Vanish(c) ==
  /\ client[c].pc \in {"wait", "up"}
  /\ client' = [client EXCEPT ![c].pc = "connect", ![c].conn = None]
  /\ UNCHANGED <<store, admin, reload, server, conn, budget, ghosts>>

\* A stopped client is given a token and started again.
Provision(c, s) ==
  /\ client[c].pc = "stopped" /\ s \in issued /\ s # client[c].token
  /\ client' = [client EXCEPT ![c] = [pc |-> "connect", token |-> s, conn |-> None]]
  /\ UNCHANGED <<store, admin, reload, server, conn, budget, ghosts>>

-----------------------------------------------------------------------------
(* The end of the server: shutdown_state signals the connections and then    *)
(* waits for the extensions while both planes still serve; or a crash.       *)

Shutdown ==
  /\ server = "up" /\ reload.pc = "idle"
  /\ "stop" \in Troubles /\ budget > 0
  /\ server' = "stopping"
  /\ conn' = Signalled(Names, "shutdown")
  /\ UNCHANGED <<store, admin, reload, client, budget, ghosts>>

Exit ==
  /\ Running
  /\ Trouble("stop")
  /\ server' = "down"
  /\ conn' = [k \in Conns |-> NoConn]
  /\ client' = [c \in Clients |-> IF client[c].conn = None THEN client[c]
                                  ELSE [client[c] EXCEPT !.pc = "connect", !.conn = None]]
  /\ admin' = [a \in Admins |-> NoRequest]
  /\ reload' = NoReload
  /\ UNCHANGED <<store, ghosts>>

Start ==
  /\ server = "down"
  /\ server' = "up"
  /\ mem' = disk
  /\ UNCHANGED <<disk, minted, admin, reload, conn, client, budget, ghosts>>

-----------------------------------------------------------------------------
Next ==
  \/ \E a \in Admins : close_named(a) \/ \E n \in Names : add(a, n) \/ rotate(a, n) \/ revoke(a, n)
  \/ ReadStore \/ Compare \/ Replace \/ CloseInvalidated
  \/ \E n \in Names : EditStore(n)
  \/ \E c \in Clients :
       \/ Reject(c) \/ Vanish(c)
       \/ \E k \in Conns : Authenticate(c, k)
       \/ \E s \in Secrets : Provision(c, s)
  \/ \E k \in Conns : Insert(k) \/ Closing(k) \/ Tick(k) \/ Pong(k) \/ Drop(k)
  \/ Shutdown \/ Exit \/ Start

Spec == Init /\ [][Next]_vars

\* Tasks that can run do run, the ping interval ticks, a client in its loop
\* reconnects, and a server that is to end ends and is started again.
FairSpec ==
  /\ Spec
  /\ WF_vars(\E a \in Admins : close_named(a))
  /\ WF_vars(Compare \/ Replace \/ CloseInvalidated)
  /\ WF_vars(server = "stopping" /\ Exit) /\ WF_vars(Start)
  /\ \A c \in Clients : WF_vars(Reject(c) \/ \E k \in Conns : Authenticate(c, k))
  /\ \A k \in Conns : WF_vars(Insert(k)) /\ WF_vars(Closing(k)) /\ WF_vars(Tick(k))

-----------------------------------------------------------------------------
StoreType == [Names -> Secrets \cup {None}]

\* Only a connection in the registry has a close signal, and a client in a
\* session points at the slot that serves it.
TypeOK ==
  /\ {mem, disk, reload.new} \subseteq StoreType
  /\ minted \in Secrets
  /\ admin \in [Admins -> [name : Names \cup {None}, secret : Secrets \cup {None}]]
  /\ reload.pc \in {"idle", "compare", "replace", "close"}
  /\ reload.names \subseteq Names /\ reload.stale \in BOOLEAN
  /\ server \in {"up", "stopping", "down"}
  /\ \A k \in Conns :
       /\ conn[k].pc \in {"free", "authed", "loop"}
       /\ ~Live(k) => conn[k].signal = "none"
  /\ \A c \in Clients :
       /\ client[c].pc \in {"connect", "wait", "up", "stopped"}
       /\ client[c].conn # None <=> client[c].pc \in {"wait", "up"}
       /\ client[c].conn # None => conn[client[c].conn].client = c
  /\ issued \cup ended \cup retired \subseteq 1..minted
  /\ torn \in BOOLEAN /\ crossed \in BOOLEAN

\* A connection in the registry whose token was ended without an error has its
\* close signal, or the close_named of its name is still due; except one that
\* entered the registry after its token had changed (late), and after a reload
\* put an older file in place (TokenControl::rotate, ::revoke; daemon.rs:1187).
\* And the state is well typed.
RevokedGone ==
  /\ TypeOK
  /\ \A k \in Conns :
       Live(k) /\ conn[k].secret \in retired =>
         conn[k].signal # "none" \/ CloseDue(conn[k].name) \/ conn[k].late \/ torn

\* What the specification says of revocation: a live connection uses a token
\* the store accepts, or it is being closed (docs/SPEC.md:323-324).
RevocationEffective ==
  \A k \in Conns :
    Live(k) => \/ mem[conn[k].name] = conn[k].secret
               \/ conn[k].signal # "none"
               \/ CloseDue(conn[k].name)

\* A token ended without an error is in neither the store nor the file again,
\* through restarts, reloads, failed writes and edits (token_store.rs:120-144),
\* unless a reload put in place a file read before a request.
RetiredIsGone ==
  torn \/ \A n \in Names : retired \cap {disk[n], IF Running THEN mem[n] ELSE None} = {}

\* A token that was answered and that nothing was to end is accepted, now and
\* after a restart: memory and the file both hold it (token_store.rs:51-78).
AcceptedUntilEnded ==
  \A s \in issued \ ended :
    /\ \E n \in Names : disk[n] = s
    /\ Running => \E n \in Names : mem[n] = s

\* A client that stopped for good had a token that was to end: close_named goes
\* by name, and reaches no connection of a newer token of that name unless a
\* request on the name overlapped the close (subscribers.rs:227-234).
ValidNotEvicted ==
  torn \/ crossed \/
    \A c \in Clients : client[c].pc = "stopped" /\ client[c].token # None => client[c].token \in ended

\* Every client of a token that was ended without an error stops, whether the
\* closing frame reaches it or not, unless its connection is late
\* (subscriber_ws.rs:109-120, error.rs:50-62).
RevokedStops ==
  \A c \in Clients :
    client[c].token \in retired ~>
      \/ client[c].pc = "stopped"
      \/ \E k \in Conns : conn[k].client = c /\ conn[k].late
      \/ torn

\* A connection whose peer is gone leaves the registry (subscriber_ws.rs:73-83).
DeadPeerRemoved ==
  \A k \in Conns : (conn[k].pc # "free" /\ ~Attached(k)) ~> conn[k].pc = "free"
=============================================================================

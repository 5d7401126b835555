# Verification of whdr

whdr receives webhooks over HTTP, hands them to extension processes that turn
them into events on channels, and delivers the events to subscribers over
WebSocket, optionally through a durable log with replay. This directory holds
TLA+ models of its concurrent and fault-prone parts, the TLC runs that check
them on small instances, and TLAPS proofs for the ones that must hold for every
instance. `PROJECT.json` maps each definition to the source lines it models.

## The system

| part | state | operations | what is hard |
|---|---|---|---|
| delivery log (`delivery_log.rs`) | redb table `seq -> row`; atomics `head`, `floor`, `retained_count`, `retained_bytes`; writer mutex | `open`, `append`, `prune`, `read_after`, `head_seq`, `floor_seq` | crash between commit and stores, failed transactions, lock-free readers, retention at its limits |
| outbound queue (`outbound_queue.rs`) | frames, `delivered`, `dropped`, `lag_pending`, a `Notify` | `push_event`, `push_control`, `pop`, `take_pending_lag` | concurrent pushers, eviction, lost wake-ups, lag taken outside the lock |
| subscriber connection (`subscriber_ws.rs`) | the select! loop, ping state, close signal | handshake, subscribe with replay, live delivery, closing | replay/live boundary, stale floor and head, cancellation of `pop` |
| registry and fan-out (`subscribers.rs`) | connections with patterns and queues, in-memory seq | `insert`, `remove`, `subscribe`, `unsubscribe`, `fanout`, `close_named`, `close_all` | concurrent fan-outs, failed append, dropped request |
| Rust subscriber kit (`whdr-sub-kit`) | cursor, recent ids, saved cursor | `run`, `run_session`, `ResumeState` | crash between handling and saving, reconnect, duplicates |
| dispatch window (`dispatch_window.rs`) | in-flight permits, pending replies | `reserve`, `wait`, `remove`, `clear` | timeout against a late result, drop, drain |
| extension lifecycle (`daemon.rs`) | handles, routes, failed and unavailable sets, generations | start, register, dispatch, respawn, reload, drain, shutdown | respawn against reload, crashloop accounting, generations |
| tokens (`token_store.rs`, `token_control.rs`) | hashed tokens in memory and on disk | add, rotate, revoke, reload, authenticate | persist failure, revocation against handshake, restart |
| channels and claims (`channel.rs`, `channel_claims.rs`) | none | validation, matching, overlap, filtering | the edges of the grammar, collisions between extensions that come and go |
| bundled extensions (`exts/`, `whdr-ext-kit`) | none | one reply per dispatch | a payload mapped to a channel the filter then drops; an error that ends the process |
| ingest, control plane, config | little or none | request mapping | concurrent control requests, a load that changes what is wanted |
| metrics, CLI, installer, other-language clients | none here | rendering, I/O | see "Not modelled" |

How they interact: an HTTP request is dispatched to an extension through its
dispatch window; the result's events are filtered by claims and fanned out
inside the request's own future. Fan-out appends the batch to the log on a
blocking thread, then pushes one frame per matching connection into that
connection's queue. The connection task pops frames to the socket, and answers
`subscribe` with a replay read straight from the log. The client keeps the only
cursor; the server holds none.

## What makes each part correct

* Log: seqs are contiguous and never reused; the atomics tell readers the truth;
  pruning removes exactly what the limits demand, from the front.
* Queue: budgets hold; every drop is counted and announced before the next
  event; control frames are never lost; no wake-up is lost.
* End to end: the client handles every matching event at least once, in order,
  or is told that it is gone; a restart resumes from an event it handled.
* Dispatch window: permits never leak nor exceed the limit; every caller gets
  exactly one outcome; a drain that ends has waited for what it saw.
* Lifecycle: one active generation per extension; routes lead to it; a disabled
  extension stops; an enabled one is running, starting, or marked failed.
* Tokens: a revoked token loses its connections and stays revoked through
  restarts; one that was not revoked stays accepted and keeps its connections.
* Namespaces: a channel has one publisher; an event reaches exactly the
  connections whose patterns cover it.

## Modules

`DeliveryLog` models `delivery_log.rs` with one action per step another thread
can see: `AppendCall`, `Lock`, `AppendCommit`, `AppendFail`, `StoreHead`,
`StoreFloor`, `AppendReturn`; `PruneCall`, `PruneCommit`, `PruneFail`,
`PruneStore`; `Crash`, `Open`; `Clock`. The prune loop is given by where it stops
(`PruneStopsAt`). A row keeps an event id, the event (with a size) and its
timestamp. `issued` and `lostHead` are histories.

`QueueOps` holds the pure operations of `outbound_queue.rs`; `OutboundQueue`
runs them with several pushers and the connection task. A push is lock, evict
one at a time, enqueue and unlock, notify; a pop is arm, check, park and wake, with the mutex held only for the check; the
lag is taken and sent in a step of its own, and then the frame.
`LoopIsPushEvent` justifies using `push_event` as one step elsewhere. The
`closing` frame flag of a queued frame is not modelled: no code outside tests
queues a `Closing` frame, it is sent directly (`CloseRequested`).

`DurableDelivery` composes `DeliveryLog` (by `INSTANCE`, sharing its variables),
the queue operations, one connection and one client. Fan-out `t` is append `t`
followed by `FanoutPush`; a replay is `Subscribe`, `ReadFloor`, `ReadHead`,
`Replay` (the scan and the direct frames), so that appends and prunes can come
between any two of them. A lost connection lets a prefix of the frames through.
The client is given an event in one step, its handler finishes in another
(`HandlerReturns`, from where the event counts as handled), and a third records and
saves it. `FanoutPush` pushes a whole batch in one step; the runs have batches of one
event (`MaxBatch = 1`), so that pops and other fan-outs come between any two pushes.

`DispatchWindow` models one generation of an extension: `dispatch_window.rs`, the
caller in `ExtHandle::dispatch`, the bounded channel and the writer task, the
reader that applies results, hang detection, the drain and the cleanup. A request
reads the route and then the handle (`LookupRoute`, `LookupHandle`), takes a permit
(`Reserve`, with the limits its dispatch cloned) and moves it into `pending` (`Insert`)
in separate steps, then waits for a slot of the channel (`SendOk`). The writer takes
from it while the pipe has room (`WriterWrites`, `PipeFills`, `PipeDrains`) and ends at
its first failed write, which can be any time after the process died. The reader
checks that the generation is active (`ReadLine`), takes a sender (`TakeResult`) and
uses it (`SendResult`); a drain reads `pending` and then `in_flight`, with the routes
still there or not; the cleanup leaves the map, unroutes and clears in three steps.
A req_id is the request itself.

`ExtensionLifecycle` models what becomes of extension processes: boot and SIGHUP
(`Reload`, `Scan`, `StopRoutes`/`StopPrefixes`/`StopSend`, `Missing`, `Start`),
`start_extension` (`BeginCall`, `StartFails`, `Insert`, `ClearMarks`, then the
caller's `ReportOk` or `ReportFailed`), the supervisor task (`SuperviseExit`,
`SuperviseCommand`, `DrainStop`, the cleanup in four steps, `Decide`, `Account`,
`Wake`) and the shutdown. One step is what runs under one lock, so that a reload
and any number of supervisors interleave between the locks. A generation is a
slot that is free again when its supervisor has returned. `unavailable_routes`
is read or written in the same step as the table before or after it. The crashloop
threshold and window are those of the configuration in force. Hang counting and the
wait of the drain are in `DispatchWindow`.

`StatusLocks` adds the two places that hold one lock while they wait for another: the
joined writes of `start_extension` (`JoinTake`, `JoinedInsert`) and the reads of
`status_json` (`StatusBegin`, `StatusEnd`). Every step of `ExtensionLifecycle` is taken
when its lock is to be had. tokio serves a lock's waiters in order; the model does
not, which allows more orders and lets no wait end that would not: outside `Wedged`
whoever is ahead in the queue goes on.

`TokenSession` models the token store in memory and on disk, concurrent control
connections, the reload of the store, and connections from the handshake to
their removal, with the kit's run loop at the other end. The store's write lock
is held through `persist`, so an operation is one step (`add`, `rotate`, `revoke`,
each with a `PersistOk` or `PersistErr` outcome); the `close_named` it owes is
another; a reload is `ReadStore`, `Compare`, `Replace`, `CloseInvalidated`; a
handshake is `Authenticate` and, later, `Insert`. `Shutdown` signals the
connections while both planes still serve, `Exit` is its end or a crash, `Start`
loads the file. A signal is a `watch` value: the last reason wins.

`ChannelClaims` holds the functions of `channel.rs` and `channel_claims.rs` as
operators over tokens, `Webhooks` what the three bundled extensions answer to a
dispatch. `Namespace` runs both: extensions register, drain, exit and publish
through `filter_owned_events`, a connection subscribes and unsubscribes, and
fan-out matches. A registration holds the three write locks together and is one
step; a removal leaves the map (`Forget`) or a reload's snapshot (`StopRemoved`), then
takes the routes (`UnroutePaths`), then the prefixes (`UnroutePrefixes`), and a
registration may come between any two. `ExtensionLifecycle` uses the same claim operators. A prefix
test on text with a dot after it is a test on whole tokens. Loops over a list
(`Retain`, `channel_matches`, `Added`) are recursive functions rather than
`SelectSeq` or a `RECURSIVE` operator, so that the proofs can reach them.

`AtLeastOnce` is the abstract promise; `DurableDelivery!ImplementsPromise` states
that the system implements it under the mapping of committed matching seqs,
announced gaps, handled seqs and the client's cursor.

The `MC*` modules give the constants their values.

## Runs

| run | expected | shows |
|---|---|---|
| `delivery_log` | pass | safety of the log with two appends, the pruner, failing transactions, a crash and a clock around the TTL |
| `delivery_log_reopen` | violation | a log pruned to empty reuses seqs after a restart |
| `outbound_queue` | pass | budgets, eviction policy and order (`QueueSound`), accounting, announced holes; no lost wake-up |
| `durable` | pass | one fan-out at a time: the system implements the promise, and committed matching events are eventually handled |
| `durable_faults` | pass | what still holds under every fault at once: frames carry persisted seqs, the cursor passes no unfinished event, one run handles an event once |
| `durable_concurrent` | violation | two fan-outs at a time: an event is lost silently |
| `dispatch_window` | pass | exact permits, no orphaned entries, sound drains, no hang missed at a threshold that stays, every dispatch answered that does not wait behind a full pipe |
| `lifecycle` | pass | one process per extension, claims that follow the map, a true status, 503 in backoff, bounded respawns, recovery unless locks are held against each other |
| `status_deadlock` | violation | a status request and a respawn wait for each other's locks for ever |
| `tokens` | pass | ended tokens stay ended and lose their connections; the others stay accepted and keep theirs |
| `tokens_revocation` | violation | a handshake overtaken by a rotation stays live on the old token |
| `namespace` | pass | disjoint namespaces and full routing tables for serving extensions, nothing left behind by a removal, sound patterns, exact delivery |

Type invariants are conjuncts of a property of each run (`QueueSound`,
`PersistBeforeDeliver`, `ClaimsFollowTheMap`, `RevokedGone`, `TablesExact`), except
for the delivery log and the dispatch window, where they are proved.

### What the passing runs leave out

`durable` shows that the design is right in the environment it assumes, and
`DurableDelivery` can leave that environment by its constants. Each of the
following loses an event silently, that is, breaks `NoSilentSkip`:

* fan-outs overlap (`Tasks` with two members): the run `durable_concurrent`;
* an append fails (`MaxAppendErrors = 1`): the event is stamped from an in-memory
  counter unrelated to the log's head (`subscribers.rs:174`), the client records
  that seq, and skips the next persisted event with the same seq;
* the webhook's request is dropped during the append (`MaxCancels = 1`,
  `subscribers.rs:160`): the event is persisted and never pushed, and a live
  client passes over it;
* a prune empties the log (`Times <- MCTimes`): `floor` becomes 0, which the gap
  test takes for a log that never had an event (`subscriber_ws.rs:211`), and a stale cursor
  gets no `replay_gap`, against `docs/SPEC.md:412`;
* a prune runs between a replay's read of the floor and its scan
  (`PruneRacesReplay = TRUE`).

In `OutboundQueue`, an oversized event is counted (`DropsAccounted`) but wakes
nobody (`outbound_queue.rs:72`): on an idle connection its `lagged` frame is never
sent, although `docs/SPEC.md:396` says that a drop surfaces.

Some properties of the other modules hold except in a named case, which a history
variable or a predicate states. Each exemption is a hazard of the code:

* `raced` (`ExtensionLifecycle`): a reload met the candidate between the end of
  its process and its respawn, or while it drained and was wanted again; or the process ended before the
  call that started it had reported (`Overtaken`). Then the reload's start and
  the respawn collide and the loser marks a running extension failed
  (`daemon.rs:984`), an unroute by id takes the claims of the next generation, or
  a late `failed.remove` erases a mark (`daemon.rs:977`). And an extension that is
  disabled and, while it still drains, enabled again is skipped as active
  (`daemon.rs:221`): when the drain ends it is wanted, not running, not failed and not
  started, against `docs/SPEC.md:226`, until the next SIGHUP.
* `torn` (`Namespace`): an extension registered in the middle of a removal by its own
  id, whose `unroute_extension` then takes the claims it has just entered
  (`daemon.rs:462, 466`). Its filter still passes them and another extension can
  register them: with two removals in progress and such extensions counted as
  serving, TLC finds two live publishers of one channel. `Serving` leaves them
  out, and the extensions a reload is draining.
* `Blocked` (`DispatchWindow`): a dispatch whose channel is full behind an extension
  that has stopped reading its stdin. `tx.send` has no timeout and the timer is
  armed after it (`daemon.rs:725, 729`), so the request waits as long as its HTTP
  client does. `Answered` shows that nobody else waits for ever.
* `seen` (`HangReported`): the dispatches counted since the last result cloned
  different thresholds. The kill is asked for on equality (`daemon.rs:749`), so a
  reload that lowers `hang_kill_threshold` to or below the count makes it step over.
* `Wedged` (`StatusLocks`): the finding of `status_deadlock`. A status request holds
  `extensions` and `failed_extensions` read-locked while it waits for `routes`, and a
  joined start that found `extensions` taken holds `routes` and `channel_prefixes`
  while it waits for it. `whdr status` (`control_plane.rs:59`) never drops its future,
  a scrape of `/metrics` (`metrics.rs:16`) only with its connection. Two joined
  starts can be wedged in the same way, each with some of the three locks: a
  reload's and a respawn's.
* `late` (`TokenSession`): the token changed between `authenticate` and the
  insert, the finding of `tokens_revocation`.
* `torn` (`TokenSession`): a reload read the file before a request and put it in
  place after it, undoing in memory what was answered (`daemon.rs:1178-1186`). A
  revoked token is accepted again; a token just issued is gone from memory, and
  counts as ended from then on (`Replace`), so that `AcceptedUntilEnded` says nothing
  of it.
* `crossed`: a request on a name whose `close_named` was still due, which may then
  close a connection of the newer token.

`AcceptedIsPublished` has no exemption: it says exactly when an accepted webhook loses
events (`Spoiled`). A Teams resource with three separators between two names keeps an
empty token, since `replace("..", ".")` runs once, and a resource with no name is one;
the event of such a webhook is answered 202 and dropped as a claim violation.

A revoke or rotate whose `persist` fails is not covered by `RevokedGone`: the
token has left memory, the error is returned before `close_named`, and a retry of
the revoke is refused as an unknown name, so the connection stays until a reload.

Differences from the documentation that no run states: the code marks an extension
failed at `crashloop_threshold` exits in the window (`daemon.rs:602`), where
`docs/SPEC.md:221` says "more than", so it grants one respawn fewer than the document
allows; `RespawnRate` is the bound both readings satisfy. And `next_respawn_delay`
starts from 250 ms where `docs/SPEC.md:220` says 500 ms.

### Bounds

* `DeliveryLog`: two tasks, batches of up to two, three events of two sizes, one
  crash. Two tasks are enough for every race on the mutex, three events for a
  batch next to a single append and for a prune that leaves one row. The clock
  reads 0, 1999 and 2000 ms around a TTL of 1 s; caps of two events and three
  bytes make each of the three limits fire alone.
* `OutboundQueue`: two pushers, four events of size 1, 3 and 4 against limits of
  two frames and three bytes, two control frames: one event can push out two,
  and one size never fits. A zero limit, which `new` raises to one, behaves as a
  limit of one.
* `DurableDelivery`: three events on two channels, a queue of one, a log of one
  row, one crash of each side, one prune. A queue and a log of one
  make eviction and gaps happen on the second event. `PruneRacesReplay` is FALSE
  where the environment of `durable` is assumed. A link that is lost alone is in
  `durable_faults`; in `durable` a link is lost with the server's crash, which the
  client survives with its memory, and with the client's own, which the server
  survives.
* `DispatchWindow`: two requests, a window of one with a hang threshold of one and a
  window of two with a threshold of two (a reload switches between any two dispatches),
  and a channel of one message: two timeouts in a row with or without a result in
  between, a full window, and a sender behind a full channel. The counter of timeouts
  is bounded by the requests.
* `StatusLocks`: one candidate with an alias and a channel prefix, two configurations
  (wanted with a crashloop threshold of two, not wanted with a threshold of one), a
  window an exit is in until the first tick (the theorems let reloads change the
  window too), a scan that finds it or not, three generation slots,
  at most three SIGHUPs and exits together (`MaxEvents`) and one status request. The
  races are between generations of one id; two generations and the start of a third
  are the most that overlap. Collisions between different extensions are in
  `Namespace`. `status_deadlock` needs one exit and two slots.
* `TokenSession`: two names, two administrators, two secrets (one given, one
  minted), one client and one connection slot, since the registry and the loops
  of different connections share nothing but the store; two troubles in all, of
  failed writes, reloads, edits and stops, so that any one can follow or overlap
  any other.
* `Namespace`: the three bundled extensions and one that may claim an alias, a
  prefix under another's path, under another's prefix, or two of its own that
  overlap; channels with empty, wildcard and invalid tokens; three lists of
  patterns, two of them invalid; resources with runs of one, two and three
  separators; one removal in progress at a time (the theorems have any number). The
  last publication has no influence on what follows and is left out of the states
  TLC tells apart (`MCView`).

### Fairness

`OutboundQueue!FairSpec`: a pusher inside `push_event` does not await and so
finishes; the connection task is polled when it can move; a send returns or
fails. `DurableDelivery!FairSpec`: the server's tasks, the blocking append and
the client keep running, and the server is restarted. `DispatchWindow!FairSpec`: a request's future is polled and its timer
fires, and the writer task runs while the pipe takes bytes or a write fails. The
extension need not read, answer or end, so the send at `daemon.rs:725` need not return.
`StatusLocks!LockFairness`: the main task, the calls, the supervisors and the status
request are polled when the lock they wait for is to be had, a child that has been
killed exits, and timeouts fire. A supervisor's send of `Shutdown` into the channel of
its extension (`daemon.rs:924`) has no timeout and is not fair (`LockDrain`). `TokenSession!FairSpec`: an owed `close_named`, a reload and a connection's
loop go on, the ping interval ticks, a client in its loop reconnects after its
backoff, and a server that stops is started again. A send is taken to return or
fail: TCP guarantees it for a peer that is gone, and the kit keeps reading; a peer
that keeps its connection and never reads can hold the loop in a send, before its
ping timer and close signal are looked at.
Faults, new events and closings are never forced. Weak fairness is enough because events and faults are
finite.

## Proofs

`DeliveryLogProofs` proves, for any set of appending tasks, any limits, batches
and clock readings: `TypeOK`, `Gapless`, `WindowExact`, `AckedIsReplayable`,
`AtomicsExact`, `SeqNeverReused` and the action property `FrontOnly`. None is
inductive alone. The invariant `Inv` adds who holds the mutex in which state
(`MutexInv`), what a task in a state has computed (`CallInv`: an append's base is
the end of the table while it writes), how the atomics relate to the table in
every phase of a writer (`TableInv`), that a closed log has no task (`DownInv`), and
that issued seqs lie at or below the end of the table unless an open met an
empty one (`IssuedInv`). The lemmas about intervals of keys (`IntervalKeys`,
`CutInterval`, `GrowInterval`) carry the reasoning about cardinalities. Assumption:
`LogAssumption`, the limits `Config::validate` accepts.

The action property `PruneExact` needs the byte counter. A batch is in the table
from its commit and in `retained_bytes` only later, so the invariant is on their
sum: `ByteInv` says that the counter and what the mutex holder still owes it
(`Owed`) make up the size of the table. The size is a sum over an interval of
keys, a recursive function; lemmas split and shift such sums. A prune
then stops exactly where the limits do, because the two counters it subtracts from
are the real count and size (`ExceedsExact`, `StopExact`, `CountersExact`). From the
same facts follows what it takes to empty the log: the newest row was older than the
retention or larger than `max_bytes` (`EmptiedByAgeTheorem`). The count and byte caps
alone always leave it, so the reuse of seqs that `SeqNeverReused` leaves open, and
`delivery_log_reopen` shows, takes a silence longer than the retention before the
restart.

`DispatchWindowProofs` proves, for every finite set of requests, every set of
limits and thresholds a reload switches between, and every capacity: `TypeOK`, `PermitsExact`, `NoOrphans`, `DrainSound` and
`HangReported`. Its invariant adds that a request enters `pending` at most once
and with an unused channel, that the reader's request has left `pending` for good
(`StageInv`), and that a request seen by the drain never returns to the stages
before a reservation (`DrainInv`). `TakeReleases` carries the counting: removing
entries releases exactly their permits, so the saturating subtraction never
saturates. Assumption: `WindowAssumption`.

`TokenSessionProofs` proves, for any names, administrators, clients, connection
slots and number of secrets, and any faults, reloads, edits and restarts:
`RevokedGone`, `RetiredIsGone`, `AcceptedUntilEnded` and `ValidNotEvicted`. None is
inductive: whether a retired token can return depends on what a reload has read
and not yet put in place. `Inv` adds that a secret belongs to one name wherever it
is found (`OwnerInv`, an existential over owners, so that no history variable is
needed), that an answer still due carries a secret nobody has yet (`AnswerInv`),
that file, memory and the reload's copy differ only by what was to end
(`RetireInv`, `DifferInv`), and that nobody connects with the newer secret while a
`close_named` for the name is due (`CloseInv`). Assumption: `TokenBounds`, which says
that the mark for "no name, client or slot" is none of them.

`NamespaceProofs` proves, for any extensions, claims, channels, patterns, payloads and
any number of removals in progress at once, everything the run `namespace` checks:

* `TablesExact` and `OwnerUnique`; that `validate_channel` accepts exactly the
  grammar (`ValidChannelExact`); that `filter_owned_events` admits exactly the
  channels the grammar gives an extension (`EmittedExact`); and that no channel
  passes the filter of two serving extensions (`DisjointAlways`), which is what the
  collision rules are for. `Inv` ties each entry of the two tables to a claim of an
  extension in the map or to a removal by its id that has yet to take it, and each
  claim of a serving extension to its entry (`EntryInv`), and says that claims which meet have one
  owner (`CollisionInv`); two prefixes of one channel overlap (`PrefixesOfOneChannel`).
* `PatternsSound` and `DeliveredExact`: `validate_pattern` accepts exactly the
  grammar (`ValidPatternExact`), and the loop of `channel_matches` decides what
  `RefMatches` says (`ChannelMatchesExact`; `AheadTurn` is one turn of the loop,
  downwards from the pattern's end). The lemmas on `Retain` say what a filter
  keeps, that two filters in a row are one, and that it depends on the elements
  alone: the filter of claims followed by the filter of patterns is then the one
  filter the property states.
* `AcceptedIsPublished`, in both directions: every event of an accepted webhook that
  is not `Spoiled` begins with a claim of its extension and goes on with plain tokens,
  and a spoiled one has an event that does not. For Teams that is a fact about
  three passes over a text: what `trim_matches` leaves has a name at each end and
  never three dots in a row (`TrimFacts`), of such a text `replace` leaves no two
  dots together (`HalveFacts`: of two dots the second is dropped, and between
  neighbouring kept positions nothing kept lies, `Neighbours`), and that splits
  into names only (`SplitFacts`). Conversely three dots between two names survive the
  trim (`TrimCrowds`), leave two together (`HalveCramps`), and those split into an empty
  token (`SplitEmpties`). That the claims themselves are plain is not
  assumed: a handle holds only what registration validated (`HandleInv`).

Assumptions: `TokenAssumption` (plain tokens are strings other than the empty one
and the wildcards), `ListTypes` (claims and channels are lists of texts) and
`BundledTypes`: what the bundled extensions are sent has the parts their handlers
read, and each registers the claim its channels begin with, as their `main.rs`
does (`start_extension` puts the id first in the paths); `unknown`, which the
GitHub extension writes for an unusable name, is a plain token.

`ExtensionLifecycleProofs` proves, for any candidates, registrations,
configurations and number of generation slots: `ClaimsFollowTheMap`,
`SingleProcess`, `RespawnRate`, `RoutedWhileReady`,
`BackoffAnswers503` and `StatusTrue`. `Inv` says which slot a call fills
and that it fills it alone (`CallInv`), that a candidate is in the map once
(`MapInv`) and a registered live process is in it (`AliveInv`), which cleanup owes
which table (`ClaimInv`), and that after `shutting_down` nothing is spawned
(`MainInv`). `RateInv` matches the i-th last respawn granted with an exit at least
as recent, so that the bound survives exits leaving the window and reloads that change
threshold and window. `LocksRefine` carries all of them to `StatusLocks`: waiting for
locks only orders the steps. Assumptions:
`LifecycleAssumption`, and `RegsAssumption`: a channel prefix is a list of texts.

The last three are about two generations of one candidate that share an id, its
claims and its marks, so they need to know when there are two. `Base` answers
that: outside `raced` a candidate has one generation, or its supervisor has called
for a second and does nothing but wait for the call (`ChainInv`); a generation is
in the map until its cleanup and its slot is filled by exactly one call
(`SlotInv`); the main task starts only what the configuration wants, after its
stops (`PhaseInv`); and the handles a reload has cloned are of generations still in
their slots, or gone, with no other generation of the candidate (`CloneInv`). Every
step of the specification is first shown to have one of ten `Shape`s, what it does
to slots, calls and map, and the invariants are preserved shape by shape. On top
of `Base`:

* `RouteInv`: a removal by id that meets a serving generation would be the cleanup
  of a second generation (`ChainInv`) or the stop of a clone of another
  (`CloneInv`); an insert takes no claim that is taken (`InsertOther`).
* `MarkInv`: the marks of a generation in backoff are cleared only by a start, a
  cleanup or a stop of the same candidate, and there is none.
* `StatusInv`: what serves is wanted or about to be stopped by the reload in
  progress (`WantInv`), in a running server a wanted generation ends only to be
  respawned (`DrainInv`), a failure of something active is about to be cleared
  (`FailInv`), and what the start loop has taken is there, or failed, or about to be
  reported failed (`StartedInv`).

Each carries a hypothesis on the registrations, and none can be dropped: TLC
finds a counterexample with two candidates when it fails. `RoutedWhileReady`
needs `OwnIds`: of two candidates that register one id, the cleanup of the first
removes by id the prefixes the second has just inserted. `BackoffAnswers503`
needs `OwnKeys`: an extension that starts on a claim of one in backoff clears its
mark, and when it ends its cleanup removes the route before it marks the claim
again. `StatusTrue`
needs `OwnNames`: a start clears the failure of its candidate and also the one of
the id it registered, which may be another candidate. The run `lifecycle` has one
candidate, so all three hold in it.

`QueueOpsProofs` holds the lemmas about `outbound_queue.rs` that the next two
modules share. A sum and the eviction loop are recursive functions over `0..n`;
what they compute cannot be had by the library's induction theorems, so `UpTo`
derives induction on an initial segment from the well-foundedness of `<` for a set
(not an operator), and `Iterates` builds the function a recursion defines. From
them: a sum grows and shrinks by the element put in or taken out (`TotalAppend`,
`TotalRemove`), a queue over budget has an event to evict (`RoomWhenEmpty`), the
loop ends (`PushEventLoop`), what every turn keeps push_event keeps
(`PushEventRule`), and what it leaves depends on the frames alone
(`PushEventFrames`, `PushEventTurn`). Assumption: `QueueAssumption`.

`OutboundQueueProofs` proves, for any fan-outs pushing at once, any limits and any
frame sizes: `QueueSound`, `DropsAccounted`, `HoleAnnouncedFirst` and the action
property `LoopIsPushEvent`. `HoleAnnouncedFirst` speaks of the socket's past, so it
needs an account of the present: `OrderInv` orders the numbers on the socket, in
the connection's hand and in the queue, separately for events and answers;
`CountInv` adds that drops pending and drops announced are all the drops;
`LossInv` says that the events in none of the three places are no more than the
drops, and that before an event is written those it leaves behind are announced.
The step that makes it work is `EmitLag`: an event lost after the pop of an older
one is never below it. `PusherAssumption` says that frames have a size.

`DurableDeliveryProofs` proves, for any number of overlapping fan-outs and any
number of failed appends, dropped requests, crashes, prunes and lost links:
`PersistBeforeDeliver`, `CursorEarned` and the action property `OncePerRun`.
`IdInv` says that an id is stamped once, by the log or in memory, and which calls
may still stamp it; `LinkInv` that queue and link carry stamped events; `ClientInv`
that what was given to the handler since the start is behind the cursor or still in
its hands, which makes a second delivery stop at the cursor test or at the recent
ids, and that the cursor is the seq of an event whose handler finished.
`PromiseNoSkip` shows what `ImplementsPromise` is worth: the promise excludes
silent loss. Assumption: `DurableAssumption`, with the log's limits.

The refinement is proved under a condition on the run, `Calm`, whose conjuncts exclude
the five ways listed above to lose an event silently: no event is committed
while another waits to be pushed, no append has failed, no request was dropped
halfway, the log has not been pruned to empty, and no prune is between its commit
and its stores while a replay reads. `Calm` says nothing of crashes of either
side, lost links, evicted frames, replays and other prunes. The argument:

* `LogImplemented`: the composed system leaves the log exactly its own steps, so
  the theorems of `DeliveryLogProofs` hold of it and are not proved again.
* `OrderInv` says where a due event can be. The queue is in the log's order and
  what a fan-out has yet to push comes after it (`QueueInv`). From the client's
  cursor on, the event in the handler's hands and every frame on the link pass
  over nothing that is not announced before them (`PlaceInv`, `WireInv`). On a
  connection that owes no `lagged` frame, whatever is due beyond that is on
  its way: up to the head the replay read, with a fan-out, in the queue, on the link
  or announced (`WayInv`). A replay starts from the client's cursor, and what it may miss is
  below the floor it has read (`ReadInv`).
* `OrderStep` shows, action by action, that it is kept and that the step is a step
  of `AtLeastOnce` or a stutter. From it `OrderAlways`, `ImplementsPromiseAlways`
  and, with `PromiseNoSkip`, `NoSilentSkipAlways`.

`Calm` is a hypothesis, not a promise of the code: "What the passing runs leave out"
gives for each of its conjuncts the way the code breaks it and the event that is
then lost. The theorems say that there is no other way.

Only model-checked: liveness under fairness (`FramesMove`, `EventuallyHandled`,
`Answered`, `RecoversUnlessWedged`, `RevokedStops`, `DeadPeerRemoved`), which is out of the
prover's reach. Every other property of a passing run is a theorem.

`TypeOK`, `AtomicsExact` and `FrontOnly` of the log and `TypeOK` of the dispatch
window are proved and not repeated in a run.

## Plan

Done: every module above with its runs, and the proofs listed. Left: one client
module for the kits in other languages.

## Not modelled

* Real time: the lengths of backoff delays, timeouts and the prune interval. A
  timeout may fire whenever it is armed.
* Metrics, status, logs, the CLI and the installer: they read or render. The locks a
  status request holds are in `StatusLocks`.
* Parsing and serialisation: TOML, ndjson, JSON, base64 and headers. A line that
  does not decode is a protocol error, a body that does not parse an error of the
  handler, a configuration that does not load no step.
* Cryptography: a signature is right or wrong, a token is its secret.
* The body limit and the status mapping of ingest: functions of one request.
* The u64 width of `after_seq + 1`: seqs start at one and grow by one, and the kit
  only sends cursors it was given.
* `whdr-ext-dev`, the example extension and `whdr-test-support`: scaffolding.
* The clients in other languages: they repeat the Rust kit's loop, and their
  differences are not catalogued yet.
* Memory ordering weaker than sequential consistency: the `Relaxed` atomics are
  read where a mutex or a channel orders them, except `head` and `floor` in a
  replay, whose staleness the separate store and read steps already allow.

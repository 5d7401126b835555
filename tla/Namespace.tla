------------------------------- MODULE Namespace -------------------------------
(***************************************************************************)
(* Who may publish where, and who receives it: registration of claims       *)
(* (daemon.rs:303-328), the two routing tables, the drain that unroutes an  *)
(* extension before it stops, the events extensions emit through            *)
(* filter_owned_events, and the patterns of the subscriber registry that    *)
(* fan-out matches them against (subscribers.rs:120-147, 181-206).          *)
(*                                                                         *)
(* A registration is taken under the three write locks together and is one  *)
(* step.  A removal takes them one after the other, by extension id: the    *)
(* map (or, for a reload, a snapshot of it), the routes, the prefixes.      *)
(***************************************************************************)
EXTENDS Webhooks

CONSTANTS
  Ids,            \* extension ids
  PathLists,      \* PathLists[id]: path lists the extension may register (id first)
  ChannelLists,   \* ChannelLists[id]: channel lists it may register
  Dispatches,     \* Dispatches[id]: requests a bundled extension may be sent
  Channels,       \* channels an extension may emit, valid and invalid
  Subs,           \* subscriber connections
  PatternLists,   \* lists of patterns a subscribe or unsubscribe may carry
  Tasks,          \* bound: removals that may be in progress at once
  Idle            \* no removal

\* Claims are strings, and split('.') yields at least one token.
Texts == Seq(STRING) \ {<<>>}
ASSUME ListTypes ==
  /\ \A id \in Ids : PathLists[id] \subseteq Seq(STRING) /\ ChannelLists[id] \subseteq Seq(Texts)
  /\ Channels \subseteq Texts /\ PatternLists \subseteq Seq(Texts)

ASSUME TaskAssumption == Idle \notin [id : Ids, at : {"routes", "prefixes"}]

VARIABLES
  routes,         \* Inner.routes: claim -> id
  prefixes,       \* Inner.channel_prefixes: prefix -> id
  extensions,     \* Inner.extensions: id -> [paths, channels]
  draining,       \* ids stop_removed_extensions has picked and still running
  task,           \* the removals in progress: whose, and the lock they are at
  torn,           \* history: ids whose extension registered during a removal by its id
  patterns,       \* Subscriber.patterns, a sequence per connection
  last            \* history: the batch of events the last step published, if any

tables == <<routes, prefixes>>
vars == <<tables, extensions, draining, task, torn, patterns, last>>

Nothing == [id |-> "", events |-> <<>>, got |-> [s \in Subs |-> <<>>]]

OwnedBy(table, id) == {k \in DOMAIN table : table[k] = id}
Without(table, id) == [k \in DOMAIN table \ OwnedBy(table, id) |-> table[k]]
Give(table, keys, id) ==
  [k \in DOMAIN table \cup ToSet(keys) |-> IF k \in ToSet(keys) THEN id ELSE table[k]]

Init ==
  /\ routes = <<>> /\ prefixes = <<>> /\ extensions = <<>>
  /\ draining = {} /\ task = [k \in Tasks |-> Idle] /\ torn = {}
  /\ patterns = [s \in Subs |-> <<>>]
  /\ last = Nothing

-----------------------------------------------------------------------------
(* Extensions *)

At(k, id, lock) == task[k] = [id |-> id, at |-> lock]

\* A removal by this id is in progress.
Removing(id) == \E k \in Tasks : At(k, id, "routes") \/ At(k, id, "prefixes")

\* start_extension from the locks on: a collision leaves the tables alone.
Register(id) ==
  \E claims \in PathLists[id], channels \in ChannelLists[id] :
    /\ id \notin DOMAIN extensions
    /\ validate_registration_claims(id, claims, channels, routes, prefixes)
    /\ extensions' = [i \in DOMAIN extensions \cup {id} |->
                        IF i = id THEN [paths |-> claims, channels |-> channels] ELSE extensions[i]]
    /\ routes' = Give(routes, claims, id)
    /\ prefixes' = Give(prefixes, channels, id)
    /\ torn' = IF Removing(id) THEN torn \cup {id} ELSE torn
    /\ last' = Nothing
    /\ UNCHANGED <<draining, task, patterns>>

BeginRemoval(id) ==
  \E k \in Tasks :
    /\ task[k] = Idle
    /\ task' = [task EXCEPT ![k] = [id |-> id, at |-> "routes"]]

\* stop_removed_extensions takes its snapshot of the map with an extension the
\* configuration no longer wants; unroute_extension follows.
StopRemoved(id) ==
  /\ id \in DOMAIN extensions /\ id \notin draining
  /\ BeginRemoval(id)
  /\ draining' = draining \cup {id}
  /\ last' = Nothing
  /\ UNCHANGED <<tables, extensions, torn, patterns>>

\* cleanup_extension_generation, after the process exited: out of the map, and
\* then, the lock released, unroute_extension.
Forget(id) ==
  /\ BeginRemoval(id)
  /\ extensions' = [i \in DOMAIN extensions \ {id} |-> extensions[i]]
  /\ draining' = draining \ {id}
  /\ torn' = torn \ {id}
  /\ UNCHANGED tables

Exit(id) ==
  /\ id \in DOMAIN extensions
  /\ Forget(id)
  /\ last' = Nothing
  /\ UNCHANGED patterns

\* unroute_extension, the routes: whatever the id owns by now.
UnroutePaths(k) ==
  /\ task[k] # Idle /\ task[k].at = "routes"
  /\ routes' = Without(routes, task[k].id)
  /\ task' = [task EXCEPT ![k].at = "prefixes"]
  /\ last' = Nothing
  /\ UNCHANGED <<prefixes, extensions, draining, torn, patterns>>

\* Mutant: the routes go and the prefixes stay.
UnroutePrefixesKept(k) ==
  /\ task[k] # Idle /\ task[k].at = "prefixes"
  /\ task' = [task EXCEPT ![k] = Idle]
  /\ last' = Nothing
  /\ UNCHANGED <<tables, extensions, draining, torn, patterns>>

\* unroute_extension, the prefixes.
UnroutePrefixes(k) ==
  /\ task[k] # Idle /\ task[k].at = "prefixes"
  /\ prefixes' = Without(prefixes, task[k].id)
  /\ task' = [task EXCEPT ![k] = Idle]
  /\ last' = Nothing
  /\ UNCHANGED <<routes, extensions, draining, torn, patterns>>

-----------------------------------------------------------------------------
(* Fan-out *)

Matches(s, channel) ==
  \E i \in DOMAIN patterns[s] : channel_matches(channel, patterns[s][i])

\* What each queue is pushed, in the order of the batch.
Pushed(events) == [s \in Subs |-> Retain(events, {c \in ToSet(events) : Matches(s, c)})]

\* filter_owned_events, then fanout: for a Result as for an unsolicited Event,
\* with the claims the handle was registered with.
Publish(id, events) ==
  LET handle == extensions[id]
      kept == filter_owned_events(handle.paths, handle.channels, events).events
  IN  last' = [id |-> id, events |-> events, got |-> Pushed(kept)]

\* An Event line, or a Result of an extension that is not bundled.
Emit(id) ==
  \E c \in Channels :
    /\ id \in DOMAIN extensions
    /\ Publish(id, << c >>)
    /\ UNCHANGED <<tables, extensions, draining, task, torn, patterns>>

HandlerOf(id, d) ==
  CASE id = "github" -> handle_github_dispatch(d)
    [] id = "hmac"   -> handle_hmac_dispatch(d)
    [] id = "teams"  -> handle_teams_dispatch(d)

\* What the bundled extensions are sent, and what each of them registers: the
\* claim its channels begin with, the id that start_extension puts first among
\* the paths (daemon.rs:272) or the prefix of HmacConfig (main.rs of each).
Item == [state : BOOLEAN, resource : Seq(PlainTokens \cup {Dot}) \cup {<< Absent >>}]
Bundled(id) == id \in Ids \cap DOMAIN Dispatches
ASSUME BundledTypes ==
  /\ DOMAIN Dispatches \subseteq {"github", "hmac", "teams"}
  /\ "unknown" \in PlainTokens
  /\ {"", Dot, "github", "teams", HmacPrefix} \subseteq STRING
  /\ Bundled("github") => \A claims \in PathLists["github"] : "github" \in ToSet(claims)
  /\ Bundled("hmac") =>
       /\ \A channels \in ChannelLists["hmac"] : << HmacPrefix >> \in ToSet(channels)
       /\ \A d \in Dispatches["hmac"] : d.path \in Seq(STRING)
  /\ Bundled("teams") =>
       /\ \A claims \in PathLists["teams"] : "teams" \in ToSet(claims)
       /\ \A d \in Dispatches["teams"] : d.items \in Seq(Item)

\* A webhook to a bundled extension; the route led here, or did when the
\* request read it.
Webhook(id) ==
  \E d \in Dispatches[id] :
    LET reply == HandlerOf(id, d)
    IN  /\ id \in DOMAIN extensions
        /\ IF reply.exits THEN Forget(id) /\ last' = Nothing
           ELSE Publish(id, reply.events) /\ UNCHANGED <<tables, extensions, draining, task, torn>>
        /\ UNCHANGED patterns

-----------------------------------------------------------------------------
(* The registry's patterns *)

\* subscribe validates the whole list before it takes the lock.
Accepted(list) ==
  IF \A i \in DOMAIN list : validate_pattern(list[i]) = "Ok" THEN list ELSE <<>>

\* Each new pattern is pushed unless it is there already, earlier ones of the
\* same list included.
Added(old, list) ==
  LET added[i \in 0..Len(list)] ==
        IF i = 0 THEN old
        ELSE IF Contains(added[i - 1], list[i]) THEN added[i - 1]
        ELSE Append(added[i - 1], list[i])
  IN  added[Len(list)]

Subscribe(s) ==
  \E list \in PatternLists :
    /\ patterns' = [patterns EXCEPT ![s] = Added(@, Accepted(list))]
    /\ last' = Nothing
    /\ UNCHANGED <<tables, extensions, draining, task, torn>>

Unsubscribe(s) ==
  \E list \in PatternLists :
    /\ patterns' = [patterns EXCEPT ![s] = Retain(@, ToSet(@) \ ToSet(list))]
    /\ last' = Nothing
    /\ UNCHANGED <<tables, extensions, draining, task, torn>>

Next ==
  \/ \E id \in Ids : Register(id) \/ StopRemoved(id) \/ Exit(id) \/ Emit(id)
  \/ \E k \in Tasks : UnroutePaths(k) \/ UnroutePrefixes(k)
  \/ \E id \in Ids \cap DOMAIN Dispatches : Webhook(id)
  \/ \E s \in Subs : Subscribe(s) \/ Unsubscribe(s)

Spec == Init /\ [][Next]_vars

-----------------------------------------------------------------------------
(* Reference definitions, from the grammar rather than from the loops *)

\* A pattern's fixed part lines up with the channel's first tokens; a final
\* '>' stands for one or more further tokens.
RefMatches(channel, pattern) ==
  LET tail == pattern[Len(pattern)] = ">"
      fixed == IF tail THEN Len(pattern) - 1 ELSE Len(pattern)
  IN  /\ IF tail THEN Len(channel) > fixed ELSE Len(channel) = fixed
      /\ \A i \in 1..fixed : pattern[i] \in {"*", channel[i]}

RefChannel(channel) == \A i \in DOMAIN channel : channel[i] \in PlainTokens

RefPattern(pattern) ==
  /\ \A k \in DOMAIN pattern : pattern[k] \in PlainTokens \cup {"*", ">"}
  /\ \A k \in DOMAIN pattern : pattern[k] = ">" => k = Len(pattern)

\* The channels an extension's handle entitles it to.
RefOwns(handle, channel) ==
  \/ channel[1] \in ToSet(handle.paths)
  \/ \E p \in ToSet(handle.channels) :
       /\ Len(p) <= Len(channel)
       /\ \A i \in DOMAIN p : p[i] = channel[i]

-----------------------------------------------------------------------------
(* Properties *)

TypeOK ==
  /\ DOMAIN routes \subseteq PlainTokens
  /\ \A k \in DOMAIN routes : routes[k] \in Ids
  /\ \A k \in DOMAIN prefixes : prefixes[k] \in Ids
  /\ draining \subseteq DOMAIN extensions /\ torn \subseteq DOMAIN extensions
  /\ DOMAIN extensions \subseteq Ids
  /\ task \in [Tasks -> [id : Ids, at : {"routes", "prefixes"}] \cup {Idle}]

\* The extensions in the map that no reload is draining and that did not register
\* in the middle of a removal by their id.  One that did may lose claims it has
\* just entered: unroute_extension goes by id and not by generation
\* (daemon.rs:462, 466).
Serving == DOMAIN extensions \ (draining \cup torn)

\* No two serving extensions may publish on the same channel: the collision rules
\* of validate_registration_claims make the namespaces of filter_owned_events
\* disjoint, whatever order extensions register, drain and exit in and wherever
\* their removals stand between the locks.
OwnerUnique ==
  \A c \in Channels :
    Cardinality({id \in Serving : RefChannel(c) /\ RefOwns(extensions[id], c)}) <= 1

\* What an id is entitled to own in the tables.
Entitled(id, field) ==
  IF id \in DOMAIN extensions \ draining THEN ToSet(extensions[id][field]) ELSE {}

\* Nothing dangles once the removals of an id are over: it owns no more than its
\* extension claims, and nothing when that is gone or drained.  And a serving
\* extension owns all it claims, whatever registers or is removed around it.
TablesExact ==
  /\ \A id \in Ids : ~Removing(id) =>
       /\ OwnedBy(routes, id) \subseteq Entitled(id, "paths")
       /\ OwnedBy(prefixes, id) \subseteq Entitled(id, "channels")
  /\ \A id \in Serving :
       /\ OwnedBy(routes, id) = Entitled(id, "paths")
       /\ OwnedBy(prefixes, id) = Entitled(id, "channels")

\* Fan-out delivers an event to a connection exactly when the event's channel
\* is well formed, its sender owns it, and the grammar's own reading of some
\* pattern of the connection covers it; the batch's order is kept.
DeliveredExact ==
  [][last'.id # "" =>
       \A s \in Subs :
         LET due == {c \in ToSet(last'.events) :
                       /\ RefChannel(c)
                       /\ RefOwns(extensions[last'.id], c)
                       /\ \E i \in DOMAIN patterns[s] : RefMatches(c, patterns[s][i])}
         IN  last'.got[s] = Retain(last'.events, due)]_vars

\* Only valid patterns are ever stored, each once, so that fan-out never meets a
\* pattern on which matches fails and one unsubscribe is enough; and on each of
\* them the loop of channel_matches decides what the grammar says, for every
\* valid channel.
PatternsSound ==
  \A s \in Subs :
    /\ NoDuplicates(patterns[s])
    /\ \A i \in DOMAIN patterns[s] :
         LET p == patterns[s][i]
         IN  /\ RefPattern(p)
             /\ \A c \in Channels :
                  RefChannel(c) => (channel_matches(c, p) <=> RefMatches(c, p))

\* A resource with at least one name, in which no two names are more than two
\* separators apart.
Separated(resource) ==
  /\ \E i \in DOMAIN resource : resource[i] # Dot
  /\ \A i \in 1..(Len(resource) - 2) :
       \E j \in i..(i + 2) :
         resource[j] # Dot \/ (\A k \in 1..j : resource[k] = Dot)
                           \/ (\A k \in j..Len(resource) : resource[k] = Dot)

\* A Teams batch of which resource_to_channel makes a channel with an empty token.
Spoiled(id, d) ==
  id = "teams" /\ \E i \in DOMAIN d.items :
    d.items[i].resource # << Absent >> /\ ~Separated(d.items[i].resource)

\* A webhook a bundled extension has accepted loses events to the namespace filter
\* exactly when it is a Teams batch with such a resource: those are answered 202
\* and dropped as claim violations, and nothing else is.
AcceptedIsPublished ==
  \A id \in DOMAIN extensions \cap DOMAIN Dispatches : \A d \in Dispatches[id] :
    LET reply == HandlerOf(id, d)
        handle == extensions[id]
        lost == filter_owned_events(handle.paths, handle.channels, reply.events).violations
    IN  lost = 0 <=> reply.events = <<>> \/ ~Spoiled(id, d)
=============================================================================

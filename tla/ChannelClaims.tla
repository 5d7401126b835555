----------------------------- MODULE ChannelClaims -----------------------------
(***************************************************************************)
(* Channels, patterns and namespace claims as pure operators:               *)
(* crates/whdr-proto/src/channel.rs and                                     *)
(* crates/whdr-server/src/channel_claims.rs.                                *)
(*                                                                         *)
(* A channel or pattern is the sequence of tokens that split('.') yields: a *)
(* string with two adjacent dots has the token "" between them, and the     *)
(* empty string is the one-token sequence << "" >>.  The characters of a    *)
(* token are abstracted to the set PlainTokens of tokens whose bytes are    *)
(* all allowed.                                                             *)
(***************************************************************************)
EXTENDS Integers, Sequences

CONSTANT PlainTokens    \* what valid_plain_token accepts

ASSUME TokenAssumption == PlainTokens \subseteq STRING \ {"", "*", ">"}

-----------------------------------------------------------------------------
(* Validation: Ok, or the error of the first offending token. *)

FirstError(tokens, ErrorAt(_)) ==
  LET bad == {i \in DOMAIN tokens : ErrorAt(i) # "Ok"}
  IN  IF tokens = << "" >> THEN "Empty"
      ELSE IF bad = {} THEN "Ok"
      ELSE ErrorAt(CHOOSE i \in bad : \A j \in bad : i <= j)

validate_channel(channel) ==
  LET ErrorAt(i) ==
        CASE channel[i] = "" -> "EmptyToken"
          [] channel[i] \in {"*", ">"} -> "WildcardInChannel"
          [] channel[i] \in PlainTokens -> "Ok"
          [] OTHER -> "InvalidToken"
  IN  FirstError(channel, ErrorAt)

validate_pattern(pattern) ==
  LET ErrorAt(i) ==
        CASE pattern[i] = "" -> "EmptyToken"
          [] pattern[i] = ">" ->
               IF i # Len(pattern) THEN "TailWildcardNotFinal" ELSE "Ok"
          [] pattern[i] \in PlainTokens \cup {"*"} -> "Ok"
          [] OTHER -> "InvalidToken"
  IN  FirstError(pattern, ErrorAt)

-----------------------------------------------------------------------------
(* channel_matches: the loop over the pattern's tokens.  A turn that goes on *)
(* takes one token of each, so that pi = ci: matched[i] is what the loop      *)
(* returns when it has consumed i tokens of both.                            *)

\* Mutant: a tail wildcard also matches no token at all.
channel_matchesEmptyTail(channel, pattern) ==
  LET matched[i \in 0..Len(pattern)] ==
        IF i = Len(pattern) THEN i = Len(channel)
        ELSE IF pattern[i + 1] = ">" THEN i <= Len(channel)
        ELSE i < Len(channel) /\ pattern[i + 1] \in {"*", channel[i + 1]} /\ matched[i + 1]
  IN  /\ validate_channel(channel) = "Ok"
      /\ validate_pattern(pattern) = "Ok"
      /\ matched[0]

channel_matches(channel, pattern) ==
  LET matched[i \in 0..Len(pattern)] ==
        IF i = Len(pattern) THEN i = Len(channel)
        ELSE IF pattern[i + 1] = ">" THEN i < Len(channel) \/ i = 0
        ELSE i < Len(channel) /\ pattern[i + 1] \in {"*", channel[i + 1]} /\ matched[i + 1]
  IN  /\ validate_channel(channel) = "Ok"
      /\ validate_pattern(pattern) = "Ok"
      /\ matched[0]

-----------------------------------------------------------------------------
(* Claims: a path claim is one token, a channel prefix is a channel. *)

validate_path_claim(claim) == claim \in PlainTokens

first_channel_segment(channel) == channel[1]

\* strip_prefix on the text, then a dot: whole tokens.
channel_is_in_prefix(channel, prefix) ==
  /\ Len(prefix) <= Len(channel)
  /\ SubSeq(channel, 1, Len(prefix)) = prefix

channel_prefixes_overlap(left, right) ==
  channel_is_in_prefix(left, right) \/ channel_is_in_prefix(right, left)

NoDuplicates(seq) == \A i, j \in DOMAIN seq : i # j => seq[i] # seq[j]

ClaimOk(id, claim, routes, existing) ==
  /\ validate_path_claim(claim)
  /\ claim \notin DOMAIN routes
  /\ \A prefix \in DOMAIN existing :
        existing[prefix] = id \/ first_channel_segment(prefix) # claim

\* Mutant: a prefix is compared with the other prefixes and not with routes.
PrefixOkUnrouted(id, prefix, routes, existing) ==
  /\ validate_channel(prefix) = "Ok"
  /\ \A other \in DOMAIN existing :
        existing[other] = id \/ ~channel_prefixes_overlap(prefix, other)

PrefixOk(id, prefix, routes, existing) ==
  LET first == first_channel_segment(prefix)
  IN  /\ validate_channel(prefix) = "Ok"
      /\ first \in DOMAIN routes => routes[first] = id
      /\ \A other \in DOMAIN existing :
            existing[other] = id \/ ~channel_prefixes_overlap(prefix, other)

\* routes maps a claim to its owner, existing a prefix to its owner; claims
\* and prefixes are the newcomer's, in the order it sent them.
validate_registration_claims(id, claims, prefixes, routes, existing) ==
  /\ NoDuplicates(claims)
  /\ \A i \in DOMAIN claims : ClaimOk(id, claims[i], routes, existing)
  /\ \A i \in DOMAIN prefixes : PrefixOk(id, prefixes[i], routes, existing)
  /\ \A i, j \in DOMAIN prefixes :
        i # j => ~channel_prefixes_overlap(prefixes[i], prefixes[j])

\* Mutant: a prefix is compared as text, without the dot after it: here, on
\* the first token alone.
validate_emitted_channelLoose(channel, claims, prefixes) ==
  /\ validate_channel(channel) = "Ok"
  /\ \/ \E i \in DOMAIN claims : claims[i] = first_channel_segment(channel)
     \/ \E i \in DOMAIN prefixes :
          first_channel_segment(prefixes[i]) = first_channel_segment(channel)

validate_emitted_channel(channel, claims, prefixes) ==
  /\ validate_channel(channel) = "Ok"
  /\ \/ \E i \in DOMAIN claims : claims[i] = first_channel_segment(channel)
     \/ \E i \in DOMAIN prefixes : channel_is_in_prefix(channel, prefixes[i])

\* Vec::retain and Iterator::filter: the elements of seq in keep, in order.
\* (SelectSeq, as a recursive function, which can be reasoned about.)
Retain(seq, keep) ==
  LET kept[i \in 0..Len(seq)] ==
        IF i = 0 THEN <<>>
        ELSE IF seq[i] \in keep THEN Append(kept[i - 1], seq[i]) ELSE kept[i - 1]
  IN  kept[Len(seq)]

\* What passes, in order, and how many were counted as violations.
filter_owned_events(claims, prefixes, events) ==
  LET owned == {c \in {events[i] : i \in DOMAIN events} :
                  validate_emitted_channel(c, claims, prefixes)}
      kept == Retain(events, owned)
  IN  [events |-> kept, violations |-> Len(events) - Len(kept)]
=============================================================================

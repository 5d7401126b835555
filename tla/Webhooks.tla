------------------------------- MODULE Webhooks -------------------------------
(***************************************************************************)
(* What the bundled extensions answer to a dispatch, as pure operators:     *)
(* exts/whdr-ext-github, exts/whdr-ext-hmac and exts/whdr-ext-teams, run by *)
(* the loop of crates/whdr-ext-kit.                                         *)
(*                                                                         *)
(* A path segment, header or JSON field is a token that is kept, or one of  *)
(* whose characters channel_token leaves nothing.  A Teams resource is the  *)
(* sequence of its names and of the separators '/', '.' and ':' between     *)
(* them, all of which resource_to_channel writes as a dot.                  *)
(***************************************************************************)
EXTENDS ChannelClaims, FiniteSets, SequencesExt

CONSTANT HmacPrefix     \* HmacConfig.channel_prefix

Dot == "."
Absent == "absent"      \* an optional field that is not there

-----------------------------------------------------------------------------
(* A dispatch ends in a reply with events, or in an error, on which          *)
(* run_extension returns and the process exits.                              *)

Reply(status, events) == [status |-> status, events |-> events, exits |-> FALSE]
Rejected == Reply(401, <<>>)
Failure == [status |-> 0, events |-> <<>>, exits |-> TRUE]

-----------------------------------------------------------------------------
(* whdr-ext-hmac *)

channel_token(segment) == IF segment \in PlainTokens THEN segment ELSE ""

\* Mutant: segments that tokenise to nothing are pushed all the same.
derive_channelKeepEmpty(path) ==
  LET Token(i) == channel_token(path[i + 2])
  IN  << HmacPrefix >> \o [i \in 1..(IF Len(path) > 2 THEN Len(path) - 2 ELSE 0) |-> Token(i)]

\* split('/').skip(2): what precedes the leading slash and the mount.
derive_channel(path) ==
  LET tail == SubSeq(path, 3, Len(path))
      tokens == [i \in DOMAIN tail |-> channel_token(tail[i])]
  IN  << HmacPrefix >> \o Retain(tokens, ToSet(tokens) \ {""})

\* sig is absent, malformed (prefix missing or undecodable), wrong or right.
handle_hmac_dispatch(d) ==
  IF d.secret /\ d.sig = "right" THEN Reply(200, << derive_channel(d.path) >>)
  ELSE Rejected

-----------------------------------------------------------------------------
(* whdr-ext-github *)

github_channel_token(text) == IF text \in PlainTokens THEN text ELSE "unknown"

\* The action's token is never empty: channel_token falls back to "unknown".
github_channel(event, action) ==
  << "github", github_channel_token(event) >>
    \o (IF action = Absent THEN <<>> ELSE << github_channel_token(action) >>)

handle_github_dispatch(d) ==
  IF ~(d.secret /\ d.sig = "right") THEN Rejected
  ELSE IF ~d.json THEN Failure
  ELSE Reply(200, << github_channel(d.event, d.action) >>)

-----------------------------------------------------------------------------
(* whdr-ext-teams *)

\* trim_matches('.')
TrimDots(s) ==
  LET names == {i \in DOMAIN s : s[i] # Dot}
      first == CHOOSE i \in names : \A j \in names : i <= j
      last  == CHOOSE i \in names : \A j \in names : i >= j
  IN  IF names = {} THEN <<>> ELSE SubSeq(s, first, last)

\* The positions in S, in order.
Positions(s, S) == Retain([i \in DOMAIN s |-> i], S)

\* replace("..", "."): pairs from the left, so of a run every second dot goes.
HalveDots(s) ==
  LET InRun(i) == Cardinality({j \in 1..i : \A k \in j..i : s[k] = Dot})
      kept == {i \in DOMAIN s : s[i] # Dot \/ InRun(i) % 2 = 1}
      order == Positions(s, kept)
  IN  [n \in DOMAIN order |-> s[order[n]]]

\* The tokens a text of names and dots splits into.
SplitDots(s) ==
  LET cuts == << 0 >> \o Positions(s, {i \in DOMAIN s : s[i] = Dot}) \o << Len(s) + 1 >>
  IN  [n \in 1..(Len(cuts) - 1) |->
         IF cuts[n + 1] = cuts[n] + 1 THEN "" ELSE s[cuts[n] + 1]]

resource_to_channel(resource) == SplitDots(HalveDots(TrimDots(resource)))

\* A validation handshake answers at once; the JSON is parsed before the
\* secret is looked at; one wrong clientState rejects the whole batch.
handle_teams_dispatch(d) ==
  IF d.validation THEN Reply(200, <<>>)
  ELSE IF ~d.json THEN Failure
  ELSE IF ~d.secret \/ \E i \in DOMAIN d.items : ~d.items[i].state THEN Rejected
  ELSE LET named == Retain(d.items, {item \in ToSet(d.items) : item.resource # << Absent >>})
       IN  Reply(202, [i \in DOMAIN named |->
                         << "teams" >> \o resource_to_channel(named[i].resource)])
=============================================================================

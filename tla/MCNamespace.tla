------------------------------ MODULE MCNamespace ------------------------------
(* A small instance of Namespace: the three bundled extensions and one more,  *)
(* "x", that may claim what they claim.                                       *)
EXTENDS Namespace

\* The last publication has no influence on what follows.
MCView == <<tables, extensions, draining, task, torn, patterns>>

MCPlainTokens == {"github", "gh", "hmac", "teams", "unknown", "x", "a", "b"}

MCPathLists ==
  [id \in Ids |-> CASE id = "github" -> {<< "github", "gh" >>}
                    [] id = "x" -> {<< "x" >>, << "x", "gh" >>}
                    [] OTHER -> {<< id >>}]

MCChannelLists ==
  [id \in Ids |-> CASE id = "hmac" -> {<< << HmacPrefix >> >>}
                    [] id = "x" -> {<< << "github", "a" >> >>, << << "hmac", "a" >> >>,
                                    << << "b" >>, << "b", "a" >> >>}
                    [] OTHER -> {<<>>}]

MCChannels ==
  {<< "github", "a" >>, << "gh" >>, << "hmac", "a" >>, << "b", "a" >>, << "b", "a", "a" >>,
   << "hmac", "b" >>, << "" >>, << "x", "" >>, << "x", "*" >>, << "x", "!" >>}

\* The second and the third are refused by subscribe; unsubscribe takes them.
MCPatternLists ==
  {<< << "github", "*" >>, << "b", "a", ">" >>, << "github", "*" >>, << ">" >> >>,
   << << ">" >>, << "" >> >>, << << "x", "*" >>, << ">", "x" >> >>}

MCPaths == {<< "", "hmac" >>, << "", "hmac", "a", "!" >>, << "", "", "hmac", "b" >>}

MCSigs == {"wrong", "right"}

MCResources ==
  {<< Absent >>, << "a", Dot, "b" >>, << Dot, "a", Dot, Dot, "b", Dot, Dot, Dot >>,
   << "a", Dot, Dot, Dot, "b" >>, << Dot >>}

MCItems == [state : {TRUE}, resource : MCResources] \cup [state : {FALSE}, resource : {<< Absent >>}]

MCItemLists ==
  {<< i >> : i \in MCItems} \cup {<< i, [state |-> TRUE, resource |-> << "b" >>] >> : i \in MCItems}

\* Every way to refuse or to fail, with one payload; every payload, accepted.
MCDispatches ==
  [id \in {"github", "hmac", "teams"} |->
     CASE id = "github" ->
            [secret : BOOLEAN, sig : MCSigs, json : BOOLEAN, event : {"a"}, action : {Absent}]
              \cup [secret : {TRUE}, sig : {"right"}, json : {TRUE},
                    event : {"a", "!"}, action : {Absent, "b"}]
       [] id = "hmac" ->
            [secret : BOOLEAN, sig : MCSigs, path : {<< "", "hmac" >>}]
              \cup [secret : {TRUE}, sig : {"right"}, path : MCPaths]
       [] id = "teams" ->
            [validation : BOOLEAN, json : BOOLEAN, secret : BOOLEAN,
             items : {<< [state |-> TRUE, resource |-> << "a", Dot, "b" >>] >>}]
              \cup [validation : {FALSE}, json : {TRUE}, secret : {TRUE}, items : MCItemLists]]
=============================================================================

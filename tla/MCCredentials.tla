--------------------------- MODULE MCCredentials ---------------------------
(***************************************************************************)
(* An instance of Credentials for TLC.                                     *)
(***************************************************************************)
EXTENDS Credentials

CONSTANTS v1, v2, v3

Plain(v) == [file |-> None, env |-> v]
Filed(v, w) == [file |-> v, env |-> w]

\* One, both or none of the clients, which see one vault or two; and a vault that
\* both have, that only the second has, or none.
MCEnvironments ==
  {[CREDS_USE |-> [k \in Client |-> IF k = "service" THEN use ELSE None],
    OP_CONNECT_HOST |-> TRUE, OP_VAULT |-> vault.wanted,
    TOKEN |-> [k \in Client |-> IF k = "service" THEN Plain("token") ELSE token],
    vaults |-> [k \in Client |-> IF k = "service" THEN {v2, v3} ELSE vault.listed]] :
      use \in {"true", "no"},
      token \in {Plain("token"), Filed("", "token")},
      vault \in {[wanted |-> Plain(None), listed |-> {v1}],
                 [wanted |-> Plain(v2), listed |-> {v1, v2}],
                 [wanted |-> Filed(v3, v1), listed |-> {v1, v2}]}}

\* Two sections that may share a label, and one or two fields in them, outside
\* of them, or in a section that is not there; a field's value is its place.  And
\* an item without a list of sections.
MCItems ==
  {[sections |-> None, fields |-> <<[label |-> "a", section |-> None, value |-> 1]>>]} \cup
  {[sections |-> <<[id |-> 1, label |-> "s"], [id |-> 2, label |-> t]>>,
    fields |-> [i \in DOMAIN s |-> [label |-> IF i = 1 THEN "a" ELSE l, section |-> s[i], value |-> i]]] :
      t \in {"s", "t"}, l \in {"a", "b"}, s \in {<<1>>, <<None, 1>>, <<2, 1>>, <<1, 3>>}}

MCPaths == {<<"i">>, <<"i", "a">>, <<"i", "s", "a">>}
MCSections == {{"s"}, {"s", "t"}}
=============================================================================

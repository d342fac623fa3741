--------------------------- MODULE MCMessageFlow ---------------------------
(***************************************************************************)
(* An instance of MessageFlow for TLC.                                     *)
(***************************************************************************)
EXTENDS MessageFlow

\* An event of each kind that the code tells apart.
MCEvents ==
  {[routable |-> TRUE, data |-> [form |-> "dict", timestamp |-> "device"]],
   [routable |-> TRUE, data |-> [form |-> "other", timestamp |-> None]],
   [routable |-> FALSE, data |-> [form |-> "dict", timestamp |-> None]],
   [routable |-> TRUE, data |-> [form |-> "number", timestamp |-> None]]}
=============================================================================

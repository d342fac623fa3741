----------------------------- MODULE MCShutdown -----------------------------
(* Instances of Shutdown for TLC: a thread per class, each with a name of  *)
(* its own.                                                                *)
EXTENDS Shutdown

CONSTANTS r, w, m, l

DistinctName == [t \in Thread |-> t]
MCKind == [t \in Thread |-> CASE t = r -> "relay"
                              [] t = w -> "worker"
                              [] t = m -> "mqrelay"
                              [] OTHER -> "listener"]
=============================================================================

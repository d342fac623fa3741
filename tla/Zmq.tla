-------------------------------- MODULE Zmq --------------------------------
(***************************************************************************)
(* zmq.py: the sockets of the application's threads, the registry that     *)
(* zmq_socket() fills, and the context that zmq_term() terminates.         *)
(*                                                                         *)
(* A thread owns at most two sockets: the one Closable.get_socket() makes  *)
(* (ZmqRelay's source) and the one exception_handler makes.  term() blocks *)
(* until every socket of the context is closed, and meanwhile operations   *)
(* on the open ones raise ContextTerminated.                               *)
(***************************************************************************)
EXTENDS Threads

Socket == Thread \X {"closable", "handler"}
ClosableSocket(t) == <<t, "closable">>
HandlerSocket(t) == <<t, "handler">>

VARIABLES
  sock,     \* the state of each socket
  context   \* the state of zmq_context

zmqVars == <<sock, context>>

ZmqTypeOK ==
  /\ sock \in [Socket -> {"none", "open", "closed"}]
  /\ context \in {"open", "terminating", "terminated"}

\* zmq_sockets: what zmq_socket() has created.
zmq_sockets == {s \in Socket : sock[s] # "none"}
OpenSockets == {s \in Socket : sock[s] = "open"}

-----------------------------------------------------------------------------
zmq_socket(s) ==
  /\ context = "open"
  /\ sock' = [sock EXCEPT ![s] = "open"]
  /\ UNCHANGED context

try_close(s) ==
  /\ sock' = [sock EXCEPT ![s] = IF @ = "none" THEN "none" ELSE "closed"]
  /\ UNCHANGED context

\* zmq_term() enters term() ...
ZmqTerm ==
  /\ context' = "terminating"
  /\ UNCHANGED sock

\* ... which returns when the last socket is closed.
ZmqTermReturn ==
  /\ OpenSockets = {}
  /\ context' = "terminated"
  /\ UNCHANGED sock
=============================================================================

--------------------------- MODULE MCSleepEvent ---------------------------
(* Instances of SleepEvent: signals anywhere, and signals that find the    *)
(* main thread outside the critical sections of the event.                 *)
EXTENDS SleepEvent

Outside == Label \ Critical
=============================================================================

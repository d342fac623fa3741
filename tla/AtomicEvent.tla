---------------------------- MODULE AtomicEvent ----------------------------
(***************************************************************************)
(* What threads expect of a threading.Event, and what the models of the    *)
(* shutdown take interruptable_sleep to be: setting it is one step, a wait *)
(* ends only if the event is set or the wait is over time, and who waits   *)
(* for an event that is set gets away.                                     *)
(***************************************************************************)
CONSTANTS
  Sleeper,   \* the threads that wait for the event
  Timed      \* those whose waits have a timeout

VARIABLES
  isSet,
  waiting    \* the sleepers that are inside wait()

Init == isSet = FALSE /\ waiting = {}

Set == isSet' = TRUE /\ UNCHANGED waiting

Wait(s) == s \notin waiting /\ waiting' = waiting \cup {s} /\ UNCHANGED isSet

Leave(s) ==
  /\ s \in waiting /\ (isSet \/ s \in Timed)
  /\ waiting' = waiting \ {s} /\ UNCHANGED isSet

Next == Set \/ \E s \in Sleeper : Wait(s) \/ Leave(s)

SafeSpec == Init /\ [][Next]_<<isSet, waiting>>
Spec == SafeSpec /\ \A s \in Sleeper \ Timed : WF_<<isSet, waiting>>(Leave(s))
=============================================================================

----------------------------- MODULE Lifecycle -----------------------------
(***************************************************************************)
(* What the library promises about the end of the process.  The process    *)
(* runs, is stopped once by somebody, leaves and exits.  The first failure *)
(* to be noted is the cause and stays it; somebody who stops the process   *)
(* because of a failure has noted one first; and the exit code, settled    *)
(* when the process starts to leave, is 1 exactly when there is a cause by *)
(* then.  A first failure that is noted while it leaves does not show.     *)
(***************************************************************************)
EXTENDS Integers

CONSTANTS
  Failer,     \* who stops the process because of a failure
  Stopper,    \* who else does
  None

VARIABLES phase, cause, stopper, code

vars == <<phase, cause, stopper, code>>

Init ==
  /\ phase = "running"
  /\ cause = None
  /\ stopper = None
  /\ code = -1

Fail(f) ==
  /\ phase # "exited" /\ cause = None
  /\ cause' = f
  /\ UNCHANGED <<phase, stopper, code>>

Stop(a) ==
  /\ phase = "running"
  /\ a \in Failer => cause # None
  /\ phase' = "stopping"
  /\ stopper' = a
  /\ UNCHANGED <<cause, code>>

Leave ==
  /\ phase = "stopping"
  /\ phase' = "leaving"
  /\ code' = IF cause = None THEN 0 ELSE 1
  /\ UNCHANGED <<cause, stopper>>

Exit ==
  /\ phase = "leaving"
  /\ phase' = "exited"
  /\ UNCHANGED <<cause, stopper, code>>

Next ==
  \/ \E f \in Failer : Fail(f)
  \/ \E a \in Failer \cup Stopper : Stop(a)
  \/ Leave \/ Exit

SafeSpec == Init /\ [][Next]_vars
Spec == SafeSpec /\ WF_vars(Leave) /\ WF_vars(Exit)
=============================================================================

------------------------------ MODULE Threads ------------------------------
(***************************************************************************)
(* The shared state of threads.py: the shutdown flag, the exception that   *)
(* triggered the shutdown, the event that interrupts sleepers, the names   *)
(* of the threads the nanny watches; and the operations on it: die(),      *)
(* bye(), AppThread.__init__ and AppThread.untrack().                      *)
(*                                                                         *)
(* die() is three steps, because other threads run between them: it        *)
(* latches the exception, then flushes Sentry for up to three seconds,     *)
(* then raises the flag, then sets the event.  The test and the assignment *)
(* of the latch are one step: the interpreter (with its global lock)       *)
(* switches threads only at calls and backward jumps, and there is none    *)
(* between them.                                                           *)
(***************************************************************************)
EXTENDS Integers, FiniteSets

CONSTANTS
  Thread,     \* the AppThread objects of the application
  Name,       \* Name[t]: the name under which t registers with the nanny
  Nanny,      \* the thread that runs thread_nanny()
  Main,       \* the main thread
  Signal,     \* a signal handler, on top of the main thread's stack
  None        \* Python's None

Actor == Thread \cup {Nanny, Main, Signal}

\* The callers of die(exception=e) with an exception; the others call die().
Failing == Thread \cup {Nanny}

ASSUME ThreadsAssumption ==
  /\ Nanny \notin Thread /\ Main \notin Thread /\ Signal \notin Thread
  /\ Nanny # Main /\ Nanny # Signal /\ Main # Signal
  /\ None \notin Actor
  /\ DOMAIN Name = Thread

VARIABLES
  shutting_down,
  interruptable_sleep,  \* is the event set?
  trigger_exception,    \* the actor whose exception is latched, or None
  threads_tracked,
  exit_code,            \* NoExit until bye() has read the latch
  dying,                \* the next step of each actor's call of die()
  stopped_by            \* history: the actor that raised shutting_down

threadsVars == <<shutting_down, interruptable_sleep, trigger_exception,
                 threads_tracked, exit_code, dying, stopped_by>>

NoExit == -1

ThreadsTypeOK ==
  /\ shutting_down \in BOOLEAN
  /\ interruptable_sleep \in BOOLEAN
  /\ trigger_exception \in Failing \cup {None}
  /\ threads_tracked \subseteq {Name[t] : t \in Thread}
  /\ exit_code \in {NoExit, 0, 1}
  /\ dying \in [Actor -> {"no", "latch", "flag", "event"}]
  /\ stopped_by \in Actor \cup {None}

ThreadsInit(started) ==
  /\ shutting_down = FALSE
  /\ interruptable_sleep = FALSE
  /\ trigger_exception = None
  /\ threads_tracked = {Name[t] : t \in started}
  /\ exit_code = NoExit
  /\ dying = [a \in Actor |-> "no"]
  /\ stopped_by = None

-----------------------------------------------------------------------------
DieException(a) == IF a \in Failing THEN a ELSE None

CallDie(a) == dying' = [dying EXCEPT ![a] = "latch"]

\* A die() that wakes the sleepers before it flushes Sentry.
MutDieEarly(a) ==
  /\ dying[a] = "latch"
  /\ trigger_exception' = IF trigger_exception = None THEN DieException(a)
                                                      ELSE trigger_exception
  /\ interruptable_sleep' = TRUE
  /\ dying' = [dying EXCEPT ![a] = "flag"]
  /\ UNCHANGED <<shutting_down, threads_tracked, exit_code, stopped_by>>

\* A die() that lets a later, exceptionless call clear the latch.
MutDieLatch(a) ==
  /\ dying[a] = "latch"
  /\ trigger_exception' = DieException(a)
  /\ dying' = [dying EXCEPT ![a] = "flag"]
  /\ UNCHANGED <<shutting_down, interruptable_sleep, threads_tracked,
                 exit_code, stopped_by>>

DieLatch(a) ==
  /\ dying[a] = "latch"
  /\ trigger_exception' = IF trigger_exception = None THEN DieException(a)
                                                      ELSE trigger_exception
  /\ dying' = [dying EXCEPT ![a] = "flag"]
  /\ UNCHANGED <<shutting_down, interruptable_sleep, threads_tracked,
                 exit_code, stopped_by>>

\* The flag goes up; whoever raises it first stops the process.
RaiseFlag(a) ==
  /\ shutting_down' = TRUE
  /\ stopped_by' = IF shutting_down THEN stopped_by ELSE a

DieFlag(a) ==
  /\ dying[a] = "flag"
  /\ RaiseFlag(a)
  /\ dying' = [dying EXCEPT ![a] = "event"]
  /\ UNCHANGED <<interruptable_sleep, trigger_exception, threads_tracked,
                 exit_code>>

DieEvent(a) ==
  /\ dying[a] = "event"
  /\ interruptable_sleep' = TRUE
  /\ dying' = [dying EXCEPT ![a] = "no"]
  /\ UNCHANGED <<shutting_down, trigger_exception, threads_tracked,
                 exit_code, stopped_by>>

Die(a) == DieLatch(a) \/ DieFlag(a) \/ DieEvent(a)

\* A bye() that does not look at the latch.
MutBye ==
  /\ exit_code' = 0
  /\ UNCHANGED <<shutting_down, interruptable_sleep, trigger_exception,
                 threads_tracked, dying, stopped_by>>

\* The code is settled here, before bye() logs, flushes the loggers and exits: a
\* failure that is latched meanwhile does not change it.
Bye ==
  /\ exit_code' = IF trigger_exception # None THEN 1 ELSE 0
  /\ UNCHANGED <<shutting_down, interruptable_sleep, trigger_exception,
                 threads_tracked, dying, stopped_by>>

\* AppThread.__init__: a thread is tracked from its construction.
Track(t) ==
  /\ threads_tracked' = threads_tracked \cup {Name[t]}
  /\ UNCHANGED <<shutting_down, interruptable_sleep, trigger_exception,
                 exit_code, dying, stopped_by>>

\* AppThread.untrack(); a name that is not tracked is a KeyError.
Untrack(t) ==
  /\ Name[t] \in threads_tracked
  /\ threads_tracked' = threads_tracked \ {Name[t]}
  /\ UNCHANGED <<shutting_down, interruptable_sleep, trigger_exception,
                 exit_code, dying, stopped_by>>
=============================================================================

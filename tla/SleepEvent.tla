----------------------------- MODULE SleepEvent -----------------------------
(***************************************************************************)
(* interruptable_sleep at the grain of its lock.  The other modules take   *)
(* Event.set() and Event.wait() to be one step; they are not: both hold    *)
(* the lock of the event's condition for a while, and that lock is not     *)
(* reentrant.  The signal handler of process.py runs die(), hence set(),   *)
(* on the main thread, on top of whatever that thread is doing.            *)
(*                                                                         *)
(* The main thread follows the convention for blocking waits: it waits on  *)
(* the event until shutting_down, then calls die() itself.  The nanny      *)
(* waits on it, calls die() when a thread is missing, and once it sees the *)
(* shutdown sets it in every pass.  Workers fail and call die().           *)
(***************************************************************************)
EXTENDS Integers

CONSTANTS
  MaxSignals,     \* bound on the SIGTERMs delivered
  Interruptible,  \* where in the main thread's frames signals arrive
  Worker          \* application threads

\* The frames of the main thread: 0 is the application's, the others those of
\* the nested calls of terminate().
Frame == 0 .. MaxSignals
Nanny == -1
Runner == Frame \cup {Nanny} \cup Worker
Sleeper == {0, Nanny}
Free == MaxSignals + 1

\* Where a runner can be: at its own loop or done with it, in die(), or in a
\* method of the event: about to take the lock, holding it, asleep.
Label == {"loop", "flag", "set", "raise", "notify", "notified", "wait", "test", "enlist",
          "asleep", "rewait", "woken", "done"}
Critical == {"raise", "notify", "notified", "test", "enlist", "woken"}

ASSUME SleepAssumption ==
  /\ MaxSignals \in Nat /\ Interruptible \subseteq Label
  /\ Worker \cap (Frame \cup {Nanny, Free}) = {}

VARIABLES
  shutting_down,
  isSet,      \* the event's flag
  lock,       \* the runner that holds the event's lock, or Free
  notified,   \* the sleepers that have been notified
  pc,         \* where each runner is
  then,       \* where the nanny goes on after set()
  top,        \* the frame the main thread executes
  signals     \* how many SIGTERMs have come: last_signal is SIGTERM from the first on

event == <<isSet, lock, notified>>
vars == <<shutting_down, isSet, lock, notified, pc, then, top, signals>>

TypeOK ==
  /\ shutting_down \in BOOLEAN /\ isSet \in BOOLEAN /\ signals \in 0 .. MaxSignals
  /\ lock \in Runner \cup {Free}
  /\ notified \subseteq Sleeper
  /\ pc \in [Runner -> Label] /\ then \in {"loop", "wait"}
  /\ top \in Frame

Init ==
  /\ shutting_down = FALSE /\ isSet = FALSE /\ signals = 0
  /\ lock = Free
  /\ notified = {}
  /\ pc = [f \in Runner |-> IF f \in Frame \ {0} THEN "done" ELSE "loop"]
  /\ then = "loop" /\ top = 0

-----------------------------------------------------------------------------
Goto(f, label) == pc' = [pc EXCEPT ![f] = label]

\* A set() that goes ahead while another thread holds the lock.
MutAcquire(f) == lock' = f

Acquire(f) == lock = Free /\ lock' = f
Release(f) == lock = f /\ lock' = Free

\* A return that pops the application's frame like a handler's.
MutReturn(f) ==
  /\ Goto(f, IF f = Nanny THEN then ELSE "done")
  /\ top' = IF f \in Frame THEN f - 1 ELSE top

\* The end of die() in the application, in a handler (its frame is popped) and
\* in a worker, and of set() in the nanny.
Return(f) ==
  /\ Goto(f, IF f = Nanny THEN then ELSE "done")
  /\ top' = IF f \in Frame \ {0} THEN f - 1 ELSE top

\* A die() that raises the flag and leaves the sleepers to their timeouts.
MutDie(f) ==
  /\ pc[f] = "flag"
  /\ shutting_down' = TRUE
  /\ Return(f)
  /\ UNCHANGED <<event, then, signals>>

\* die() raises the flag, and then sets the event.
Die(f) ==
  /\ pc[f] = "flag"
  /\ shutting_down' = TRUE
  /\ Goto(f, "set")
  /\ UNCHANGED <<event, then, top, signals>>

\* Event.set(): take the lock, set the flag, notify all sleepers, release.
SetAcquire(f) ==
  /\ pc[f] = "set"
  /\ Acquire(f)
  /\ Goto(f, "raise")
  /\ UNCHANGED <<shutting_down, isSet, notified, then, top, signals>>

SetFlag(f) ==
  /\ pc[f] = "raise"
  /\ isSet' = TRUE
  /\ Goto(f, "notify")
  /\ UNCHANGED <<shutting_down, lock, notified, then, top, signals>>

SetNotify(f) ==
  /\ pc[f] = "notify"
  /\ notified' = notified \cup {g \in Sleeper : pc[g] = "asleep"}
  /\ Goto(f, "notified")
  /\ UNCHANGED <<shutting_down, isSet, lock, then, top, signals>>

SetRelease(f) ==
  /\ pc[f] = "notified"
  /\ Release(f)
  /\ Return(f)
  /\ UNCHANGED <<shutting_down, isSet, notified, then, signals>>

\* Event.wait(): take the lock; if the flag is set release it and return, else
\* join the sleepers, release it and sleep until notified (the nanny: or sixty
\* seconds), take the lock again and release it.
WaitAcquire(f) ==
  /\ pc[f] = "wait"
  /\ Acquire(f)
  /\ Goto(f, "test")
  /\ UNCHANGED <<shutting_down, isSet, notified, then, top, signals>>

\* A wait that goes to sleep without a look at the flag.
MutWaitTest(f) ==
  /\ pc[f] = "test"
  /\ Goto(f, "enlist")
  /\ UNCHANGED <<shutting_down, event, then, top, signals>>

WaitTest(f) ==
  /\ pc[f] = "test"
  /\ Goto(f, IF isSet THEN "woken" ELSE "enlist")
  /\ UNCHANGED <<shutting_down, event, then, top, signals>>

WaitSleep(f) ==
  /\ pc[f] = "enlist"
  /\ Release(f)
  /\ Goto(f, "asleep")
  /\ UNCHANGED <<shutting_down, isSet, notified, then, top, signals>>

WaitWake(f) ==
  /\ pc[f] = "asleep"
  /\ f \in notified \/ f = Nanny
  /\ notified' = notified \ {f}
  /\ Goto(f, "rewait")
  /\ UNCHANGED <<shutting_down, isSet, lock, then, top, signals>>

WaitReacquire(f) ==
  /\ pc[f] = "rewait"
  /\ Acquire(f)
  /\ Goto(f, "woken")
  /\ UNCHANGED <<shutting_down, isSet, notified, then, top, signals>>

WaitRelease(f) ==
  /\ pc[f] = "woken"
  /\ Release(f)
  /\ Goto(f, "loop")
  /\ UNCHANGED <<shutting_down, isSet, notified, then, top, signals>>

Event(f) ==
  \/ SetAcquire(f) \/ SetFlag(f) \/ SetNotify(f) \/ SetRelease(f)
  \/ WaitAcquire(f) \/ WaitTest(f) \/ WaitSleep(f)
  \/ WaitWake(f) \/ WaitReacquire(f) \/ WaitRelease(f)

-----------------------------------------------------------------------------
\* The application: while not shutting_down: interruptable_sleep.wait();
\* then, or for reasons of its own before, die().
MainLoop ==
  /\ pc[0] = "loop"
  /\ \/ ~shutting_down /\ Goto(0, "wait")
     \/ Goto(0, "flag")
  /\ UNCHANGED <<shutting_down, event, then, top, signals>>

\* The nanny's pass: poll the signal; then wait, after die() if a thread is
\* missing, or set.
NannyLoop ==
  /\ pc[Nanny] = "loop"
  /\ shutting_down' = (shutting_down \/ signals > 0)
  /\ \/ shutting_down' /\ then' = "loop" /\ Goto(Nanny, "set")
     \/ ~shutting_down' /\ then' = "wait" /\ (Goto(Nanny, "wait") \/ Goto(Nanny, "flag"))
  /\ UNCHANGED <<event, top, signals>>

\* The handler of a worker's failure calls die(), unless the flag is up already.
Fail(w) ==
  /\ pc[w] = "loop" /\ ~shutting_down
  /\ Goto(w, "flag")
  /\ UNCHANGED <<shutting_down, event, then, top, signals>>

\* SIGTERM: terminate() is called on top of the main thread's current frame.
Terminate ==
  /\ signals < MaxSignals /\ pc[top] \in Interruptible
  /\ signals' = signals + 1
  /\ top' = top + 1
  /\ Goto(top + 1, "flag")
  /\ UNCHANGED <<shutting_down, event, then>>

MainStep == (top = 0 /\ MainLoop) \/ Die(top) \/ Event(top)

NannyStep == NannyLoop \/ Die(Nanny) \/ Event(Nanny)

WorkerStep(w) == Die(w) \/ Event(w)

Next == MainStep \/ NannyStep \/ Terminate \/ \E w \in Worker : Fail(w) \/ WorkerStep(w)

\* The scheduler is fair, and a thread that waits for the lock gets it in the
\* end: nobody keeps it, and the nanny leaves it alone for seconds in every pass.
\* The nanny leaves the methods of the event, but need not get to its next pass:
\* Sentry and Cronitor may hold it up, and die() is to wake the sleepers without
\* its help.
Spec ==
  /\ Init /\ [][Next]_vars
  /\ SF_vars(MainStep) /\ SF_vars(Die(Nanny) \/ Event(Nanny))
  /\ \A w \in Worker : SF_vars(WorkerStep(w))

-----------------------------------------------------------------------------
\* No wake-up is lost: nobody sleeps on an event that is set, except those who
\* have been notified and those whom the setter is just about to notify.
NoLostWakeup ==
  isSet => \A s \in Sleeper : pc[s] = "asleep" =>
             s \in notified \/ (lock # Free /\ pc[lock] = "notify")

\* When the flag is up, the event is set or somebody is on the way to set it.
FlagReachesEvent ==
  shutting_down => isSet \/ \E f \in Runner : pc[f] \in {"set", "raise"}

\* The shutdown interrupts the sleep of the main thread, which gets to the end
\* of its own die(), without the help of the nanny's next pass: what die() is for.
InterruptsSleepers == shutting_down ~> pc[0] = "done"

-----------------------------------------------------------------------------
Inside == {"wait", "test", "enlist", "asleep", "rewait", "woken"}

Atomic == INSTANCE AtomicEvent WITH Timed <- {Nanny}, waiting <- {s \in Sleeper : pc[s] \in Inside}

\* With its lock, the event is what the other modules take it to be.
IsAtomic == Atomic!Spec
=============================================================================

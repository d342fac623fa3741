------------------------------ MODULE Shutdown ------------------------------
(***************************************************************************)
(* The whole process: the application's threads, the nanny, the signal     *)
(* handlers of process.py and the main thread, from the start of the nanny *)
(* to the exit.                                                            *)
(*                                                                         *)
(* The main thread belongs to the application.  It does what threads.py    *)
(* expects of it: it waits on interruptable_sleep (or stops for reasons of *)
(* its own), calls die() without an exception, zmq_term() and bye().       *)
(***************************************************************************)
EXTENDS ThreadNanny

CONSTANTS
  LateThread,   \* threads that are constructed only once the nanny runs
  MaxSignals    \* bound on the signals delivered

ASSUME ShutdownAssumption == LateThread \subseteq Thread /\ MaxSignals \in Nat

VARIABLES
  main,      \* where the main thread is
  signals    \* the number of signals delivered

mainVars == <<main, signals>>
vars == <<threadsVars, zmqVars, appVars, nannyVars, last_signal, mainVars>>

TypeOK ==
  /\ ThreadsTypeOK /\ ZmqTypeOK /\ AppTypeOK /\ NannyTypeOK
  /\ main \in {"run", "term", "terminating", "bye", "leaving", "exited"}
  /\ signals \in 0 .. MaxSignals

Init ==
  /\ ThreadsInit(Thread \ LateThread)
  /\ AppInit(Thread \ LateThread)
  /\ NannyInit
  /\ main = "run"
  /\ signals = 0

-----------------------------------------------------------------------------
\* Python runs a handler on the main thread, between two of its instructions; a
\* signal inside term() interrupts the call, which then returns early.  A second
\* signal interrupts the first handler, whose remaining steps then repeat what
\* the second has done.
Deliver(signum) ==
  /\ signals < MaxSignals
  /\ signals' = signals + 1
  /\ last_signal' = signum
  /\ main' = IF main = "terminating" THEN "bye" ELSE main
  /\ UNCHANGED <<zmqVars, appVars, nannyVars>>

Terminate ==
  /\ Deliver("SIGTERM")
  /\ CallDie(Signal)
  /\ UNCHANGED <<shutting_down, interruptable_sleep, trigger_exception,
                 threads_tracked, exit_code, stopped_by>>

Hup == Deliver("SIGHUP") /\ UNCHANGED threadsVars

\* The main thread goes on when no handler and no die() of its own is running.
MainReady(at) == main = at /\ dying[Signal] = "no" /\ dying[Main] = "no"

MainStop ==
  /\ MainReady("run")
  /\ CallDie(Main)
  /\ main' = "term"
  /\ UNCHANGED <<shutting_down, interruptable_sleep, trigger_exception,
                 threads_tracked, exit_code, stopped_by,
                 zmqVars, appVars, nannyVars, last_signal, signals>>

MainWake == interruptable_sleep /\ MainStop

MainTerm ==
  /\ MainReady("term")
  /\ ZmqTerm
  /\ main' = "terminating"
  /\ UNCHANGED <<threadsVars, appVars, nannyVars, last_signal, signals>>

MainTermReturn ==
  /\ MainReady("terminating")
  /\ ZmqTermReturn
  /\ main' = "bye"
  /\ UNCHANGED <<threadsVars, appVars, nannyVars, last_signal, signals>>

MainBye ==
  /\ MainReady("bye")
  /\ Bye
  /\ main' = "leaving"
  /\ UNCHANGED <<zmqVars, appVars, nannyVars, last_signal, signals>>

\* The end of bye(); until then everybody else goes on.
MainExit ==
  /\ MainReady("leaving")
  /\ main' = "exited"
  /\ UNCHANGED <<threadsVars, zmqVars, appVars, nannyVars, last_signal, signals>>

\* The step of a die() that some actor has called; a handler's frame is above
\* the main thread's.
DieStep(a) ==
  /\ a = Main => dying[Signal] = "no"
  /\ Die(a)
  /\ UNCHANGED <<zmqVars, appVars, nannyVars, last_signal, mainVars>>

MainLeave == MainTerm \/ MainTermReturn \/ MainBye \/ MainExit

MainNext == MainStop \/ MainLeave

AppStep(t) == AppNext(t) /\ UNCHANGED <<nannyVars, last_signal, mainVars>>

NannyStep == NannyNext /\ UNCHANGED <<last_signal, mainVars>>

Running == main # "exited"

\* The process is gone: no thread of it runs.
Exited == ~Running /\ UNCHANGED vars

Next ==
  \/ /\ Running
     /\ \/ Terminate \/ Hup \/ MainNext \/ NannyStep
        \/ \E a \in Actor : DieStep(a)
        \/ \E t \in Thread : AppStep(t)
  \/ Exited

SafeSpec == Init /\ [][Next]_vars

(***************************************************************************)
(* Fairness: only the main thread, the nanny and the calls of die() they   *)
(* and the signal handlers make are sure to proceed, since they run only   *)
(* the library's code and waits that time out.  Nothing is assumed of the  *)
(* application's threads, which may block for ever in code of their own.   *)
(***************************************************************************)
Fairness ==
  /\ WF_vars(Running /\ MainWake)
  /\ WF_vars(Running /\ MainLeave)
  /\ WF_vars(Running /\ NannyStep)
  /\ \A a \in {Nanny, Main, Signal} : WF_vars(Running /\ DieStep(a))

Spec == SafeSpec /\ Fairness

\* The steps a thread takes when the application's code in it comes to an end
\* every time: all but those that wait for a message or for the broker.
OwnStep(t) ==
  \/ Startup(t) \/ Enter(t) \/ Loop(t) \/ Work(t) \/ HandlerExit(t) \/ Close(t)
  \/ context # "open" /\ Recv(t)

CooperativeSpec ==
  /\ Spec
  /\ \A t \in Thread :
       /\ WF_vars(Running /\ OwnStep(t) /\ UNCHANGED <<nannyVars, last_signal, mainVars>>)
       /\ WF_vars(Running /\ DieStep(t))

-----------------------------------------------------------------------------
\* Whoever is woken from interruptable_sleep finds the shutdown flag up, so the
\* usual loop "while not shutting_down: interruptable_sleep.wait()" ends and
\* does not spin (the order of die()'s last two assignments).
WokenSeesShutdown == interruptable_sleep => shutting_down

\* A process that a failing thread or the nanny brought down never exits with
\* code 0, however its die() interleaves with signals and other failures.
FailureExitsNonZero == exit_code = 0 => stopped_by \in {Main, Signal}

\* While a thread is in its loop the sockets it uses are open, unless the
\* shutdown has outlasted the grace period: nobody closes a socket under a
\* working thread before that.
SocketsUsableUntilGrace ==
  \A t \in Thread :
    /\ pc[t] \in {"loop", "recv", "work"}
    /\ elapsed <= Grace
    => sock[HandlerSocket(t)] = "open" /\ sock[SourceSocket(t)] = "open"

\* A thread that got as far as its handler leaves no socket behind that would
\* block zmq_term(), whatever ended it.
HandledDeathLeavesNoSocket ==
  \A t \in Thread :
    pc[t] = "dead" /\ exc[t] # "Uncaught" =>
      \A r \in {"closable", "handler"} : sock[<<t, r>>] # "open"

\* The nanny stops the process for a missing thread only if a thread that it
\* tracks has died (the message of the exception it raises says so).
AlarmMeansDeath ==
  [][dying[Nanny] = "no" /\ dying'[Nanny] = "latch" =>
       \E t \in Thread : pc[t] = "dead" /\ Name[t] \in threads_tracked]_vars

\* The loops of app.py are written to stop at the shutdown flag: none goes on to
\* wait for another message when the flag is up.  (They do not: the name they
\* test was bound at import.)
LoopStopsOnShutdown ==
  [][\A t \in Thread : pc[t] = "loop" /\ pc'[t] = "recv" => ~shutting_down]_vars

\* The end of a tracked thread, however silent, stops the process.
DeathIsNoticed ==
  \A t \in Thread :
    pc[t] = "dead" /\ Name[t] \in threads_tracked ~>
      shutting_down \/ Name[t] \notin threads_tracked

\* A shutdown, once begun, ends in the exit of the process, even when threads
\* are blocked for ever with their sockets open.
ShutdownCompletes == shutting_down ~> ~Running

\* The sockets that nobody but the nanny closes: that of a listener, which waits
\* for the broker and not for a socket, and those of a thread that an exception
\* ended outside its handler.
Abandoned(t) ==
  \/ Kind[t] = "listener" /\ pc[t] = "recv" /\ sock[HandlerSocket(t)] = "open"
  \/ exc[t] = "Uncaught" /\ \E r \in {"closable", "handler"} : sock[<<t, r>>] = "open"

\* The nanny is the only one that needs no cooperation, and it may be dead.  Then
\* the terminated context alone brings a shutdown to its end, if the threads'
\* own code does come to an end: each wakes and closes its sockets, unless one is
\* abandoned for ever.
ThreadsEndShutdown ==
  <>shutting_down => <>(~Running) \/ <>[](\E t \in Thread : Abandoned(t))

-----------------------------------------------------------------------------
\* The promise, with the phase read off the flag, the exit code and the exit.
Promise == INSTANCE Lifecycle WITH
  Failer <- Failing,
  Stopper <- {Main, Signal},
  phase <- IF ~Running THEN "exited"
           ELSE IF exit_code # NoExit THEN "leaving"
           ELSE IF shutting_down THEN "stopping" ELSE "running",
  cause <- trigger_exception,
  stopper <- stopped_by,
  code <- exit_code

KeepsPromise == Promise!Spec
=============================================================================

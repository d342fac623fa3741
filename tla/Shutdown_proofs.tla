-------------------------- MODULE Shutdown_proofs --------------------------
(***************************************************************************)
(* Proofs about Shutdown, for every set of threads, every naming, every    *)
(* grace period, every number of signals and every Cronitor configuration. *)
(***************************************************************************)
EXTENDS Shutdown, TLAPS

USE DEF NoExit

(***************************************************************************)
(* The inductive invariant behind the stop: what the latch, the flag and   *)
(* the event say of one another while calls of die() are under way.        *)
(***************************************************************************)
StopInv ==
  /\ interruptable_sleep => shutting_down
  /\ \A a \in Actor : dying[a] = "event" => shutting_down
  /\ \A f \in Failing : dying[f] \in {"flag", "event"} => trigger_exception # None
  /\ shutting_down => stopped_by # None
  /\ stopped_by \in Failing => trigger_exception # None

\* Where the main thread is, and what has happened by then.
MainInv ==
  /\ main = "term" => dying[Main] # "no" \/ shutting_down
  /\ main \in {"terminating", "bye", "leaving", "exited"} => shutting_down
  /\ exit_code # NoExit <=> main \in {"leaving", "exited"}
  /\ exit_code = 0 => stopped_by \in {Main, Signal}

ExitInv == TypeOK /\ StopInv /\ MainInv

\* Every state of the process satisfies the types its variables are meant to have.
LEMMA InitTypeOK == Init => TypeOK
<1> SUFFICES ASSUME Init PROVE TypeOK
  OBVIOUS
<1>1. ThreadsTypeOK
  BY DEF Init, ThreadsInit, ThreadsTypeOK
<1>2. ZmqTypeOK /\ AppTypeOK
  BY DEF Init, AppInit, ZmqTypeOK, AppTypeOK, Raised, Running_pc
<1>3. NannyTypeOK
  BY NannyAssumption DEF Init, NannyInit, NannyTypeOK
<1>4. QED
  BY <1>1, <1>2, <1>3, ShutdownAssumption DEF Init, TypeOK

\* The state of threads.py keeps its type in every step.
LEMMA ThreadsTypeStep == TypeOK /\ [Next]_vars => ThreadsTypeOK'
<1> SUFFICES ASSUME ThreadsTypeOK, NannyTypeOK, [Next]_vars PROVE ThreadsTypeOK'
  BY DEF TypeOK
<1> USE DEF Actor, Failing
<1>1. ASSUME NEW t \in Thread, AppStep(t) PROVE ThreadsTypeOK'
  <2>1. UNCHANGED threadsVars \/ Construct(t) \/ Forget(t) \/ HandlerExit(t)
    BY <1>1 DEF AppStep, AppNext, Start, Startup, Enter, Loop, Recv, Work, Consume,
       Close, Collect
  <2>2. QED
    BY <2>1 DEF ThreadsTypeOK, threadsVars, Construct, Forget, Track, Untrack,
       HandlerExit, CallDie
<1>2. ASSUME NannyStep PROVE ThreadsTypeOK'
  <2>1. CASE NannyTakeStock
    BY <2>1 DEF NannyTakeStock, RaiseFlag, ThreadsTypeOK
  <2>2. CASE NannyInspect
    BY <2>2 DEF NannyInspect, CallDie, ThreadsTypeOK
  <2>3. CASE NannyShutdown
    BY <2>3 DEF NannyShutdown, ThreadsTypeOK
  <2>4. CASE UNCHANGED threadsVars
    BY <2>4 DEF threadsVars, ThreadsTypeOK
  <2>5. QED
    BY <1>2, <2>1, <2>2, <2>3, <2>4 DEF NannyStep, NannyNext, NannySetup,
       NannySweep, NannySweepEnd
<1>3. ASSUME NEW a \in Actor, DieStep(a) PROVE ThreadsTypeOK'
  BY <1>3 DEF DieStep, Die, DieLatch, DieFlag, DieEvent, DieException, RaiseFlag,
     ThreadsTypeOK
<1>4. ASSUME MainNext PROVE ThreadsTypeOK'
  BY <1>4 DEF MainNext, MainLeave, MainStop, MainTerm, MainTermReturn, MainBye, MainExit, Bye, CallDie,
     threadsVars, ThreadsTypeOK
<1>5. ASSUME Terminate \/ Hup \/ UNCHANGED vars PROVE ThreadsTypeOK'
  BY <1>5 DEF Terminate, Hup, Deliver, CallDie, vars, threadsVars, ThreadsTypeOK
<1>6. QED
  BY <1>1, <1>2, <1>3, <1>4, <1>5 DEF Next, Exited

\* The sockets and the threads keep theirs.
LEMMA AppTypeStep == TypeOK /\ [Next]_vars => ZmqTypeOK' /\ AppTypeOK'
<1> SUFFICES ASSUME ZmqTypeOK, AppTypeOK, [Next]_vars PROVE ZmqTypeOK' /\ AppTypeOK'
  BY DEF TypeOK
<1> USE DEF ZmqTypeOK, AppTypeOK, Running_pc, Raised
<1>1. ASSUME NEW t \in Thread, AppStep(t) PROVE ZmqTypeOK' /\ AppTypeOK'
  <2> DEFINE C == ClosableSocket(t)
             H == HandlerSocket(t)
  <2>1. C \in Socket /\ H \in Socket
    BY DEF ClosableSocket, HandlerSocket, Socket
  <2> HIDE DEF C, H
  <2>2. ASSUME Startup(t) \/ Enter(t) \/ HandlerExit(t) \/ Close(t) \/ Collect(t)
        PROVE  ZmqTypeOK' /\ AppTypeOK'
    <3>1. CASE Startup(t)
      BY <2>1, <3>1 DEF C, Startup, GetSocket, Goto, Uncaught, zmq_socket, zmqVars
    <3>2. CASE Enter(t)
      BY <2>1, <3>2 DEF H, Enter, Goto, Uncaught, zmq_socket, zmqVars
    <3>3. CASE HandlerExit(t) \/ Close(t) \/ Collect(t)
      BY <2>1, <3>3 DEF C, H, HandlerExit, Close, Collect, Goto, try_close, appVars
    <3>4. QED
      BY <2>2, <3>1, <3>2, <3>3
  <2>3. ASSUME Construct(t) \/ Start(t) \/ Forget(t) \/ Loop(t) \/ Recv(t)
               \/ Work(t) \/ Consume(t)
        PROVE  ZmqTypeOK' /\ AppTypeOK'
    BY <2>3 DEF Construct, Start, Forget, Loop, Recv, Work, Consume, Goto, Raise,
       zmqVars, appVars
  <2>4. QED
    BY <1>1, <2>2, <2>3 DEF AppStep, AppNext
<1>2. ASSUME NannyStep PROVE ZmqTypeOK' /\ AppTypeOK'
  BY <1>2 DEF NannyStep, NannyNext, NannySetup, NannyTakeStock, NannyInspect,
     NannyShutdown, NannySweep, NannySweepEnd, try_close, zmqVars, appVars
<1>3. ASSUME MainNext PROVE ZmqTypeOK' /\ AppTypeOK'
  BY <1>3 DEF MainNext, MainLeave, MainStop, MainTerm, MainTermReturn, MainBye, MainExit, ZmqTerm,
     ZmqTermReturn, zmqVars, appVars
<1>4. ASSUME NEW a \in Actor, DieStep(a) PROVE ZmqTypeOK' /\ AppTypeOK'
  BY <1>4 DEF DieStep, zmqVars, appVars
<1>5. ASSUME Terminate \/ Hup \/ UNCHANGED vars PROVE ZmqTypeOK' /\ AppTypeOK'
  BY <1>5 DEF Terminate, Hup, Deliver, vars, zmqVars, appVars
<1>6. QED
  BY <1>1, <1>2, <1>3, <1>4, <1>5 DEF Next, Exited

\* So do the nanny and the main thread.
LEMMA NannyTypeStep == TypeOK /\ [Next]_vars => NannyTypeOK'
<1> SUFFICES ASSUME NannyTypeOK, [Next]_vars PROVE NannyTypeOK'
  BY DEF TypeOK
<1> USE NannyAssumption DEF NannyTypeOK
<1>1. ASSUME NannyStep PROVE NannyTypeOK'
  <2>1. AliveNames \subseteq {Name[t] : t \in Thread} /\ zmq_sockets \subseteq Socket
    BY DEF AliveNames, zmq_sockets
  <2>2. QED
    BY <1>1, <2>1 DEF NannyStep, NannyNext, NannySetup, NannyTakeStock, NannyInspect,
       NannyShutdown, NannySweep, NannySweepEnd, GraceExceeded
<1>2. ASSUME Terminate \/ Hup PROVE NannyTypeOK'
  BY <1>2 DEF Terminate, Hup, Deliver, nannyVars
<1>3. ASSUME UNCHANGED <<nannyVars, last_signal>> PROVE NannyTypeOK'
  BY <1>3 DEF nannyVars
<1>4. QED
  BY <1>1, <1>2, <1>3 DEF Next, Exited, AppStep, DieStep, MainNext, MainLeave, MainStop,
     MainTerm, MainTermReturn, MainBye, MainExit, vars

LEMMA TypeStep == TypeOK /\ [Next]_vars => TypeOK'
<1> SUFFICES ASSUME TypeOK, [Next]_vars PROVE TypeOK'
  OBVIOUS
<1>1. /\ main' \in {"run", "term", "terminating", "bye", "leaving", "exited"}
      /\ signals' \in 0 .. MaxSignals
  BY ShutdownAssumption DEF TypeOK, Next, Exited, AppStep, DieStep, NannyStep, MainNext,
     MainLeave, MainStop, MainTerm, MainTermReturn, MainBye, MainExit, Terminate, Hup, Deliver, mainVars, vars
<1>2. QED
  BY <1>1, ThreadsTypeStep, AppTypeStep, NannyTypeStep DEF TypeOK

\* Type correctness of the process.
THEOREM TypeCorrect == SafeSpec => []TypeOK
  BY InitTypeOK, TypeStep, PTL DEF SafeSpec

-----------------------------------------------------------------------------
\* StopInv holds initially ...
LEMMA InitStopInv == Init => StopInv
  BY ThreadsAssumption DEF Init, ThreadsInit, StopInv, Actor, Failing

\* ... and every step keeps it: who raises the flag for a failure has latched
\* one before, and the event is set behind the flag.
LEMMA StopStep == TypeOK /\ StopInv /\ [Next]_vars => StopInv'
<1> SUFFICES ASSUME ThreadsTypeOK, StopInv, [Next]_vars PROVE StopInv'
  BY DEF TypeOK
<1> USE DEF StopInv
<1>1. ASSUME NEW a \in Actor, DieStep(a) PROVE StopInv'
  <2>1. CASE DieLatch(a)
    BY <2>1, ThreadsAssumption DEF DieLatch, DieException, ThreadsTypeOK, Actor, Failing
  <2>2. CASE DieFlag(a)
    BY <2>2, ThreadsAssumption DEF DieFlag, RaiseFlag, ThreadsTypeOK, Actor, Failing
  <2>3. CASE DieEvent(a)
    BY <2>3 DEF DieEvent, ThreadsTypeOK
  <2>4. QED
    BY <1>1, <2>1, <2>2, <2>3 DEF DieStep, Die
<1>2. ASSUME NEW a, dying' = [dying EXCEPT ![a] = "latch"],
             UNCHANGED <<shutting_down, interruptable_sleep, trigger_exception, stopped_by>>
      PROVE  StopInv'
  BY <1>2 DEF ThreadsTypeOK, Actor, Failing
<1>3. ASSUME UNCHANGED <<shutting_down, interruptable_sleep, trigger_exception,
                         dying, stopped_by>>
      PROVE  StopInv'
  BY <1>3
<1>4. ASSUME NannyTakeStock PROVE StopInv'
  BY <1>4, ThreadsAssumption DEF NannyTakeStock, RaiseFlag, Failing, Actor
<1>5. ASSUME NannyShutdown PROVE StopInv'
  BY <1>5 DEF NannyShutdown
<1>6. ASSUME NEW t \in Thread, AppStep(t) PROVE StopInv'
  <2>1. CASE HandlerExit(t)
    BY <2>1, <1>2, <1>3 DEF HandlerExit, CallDie
  <2>2. CASE ~HandlerExit(t)
    BY <1>6, <2>2, <1>3 DEF AppStep, AppNext, Construct, Start, Forget, Startup, Enter,
       Loop, Recv, Work, Consume, Close, Collect, Track, Untrack, threadsVars
  <2>3. QED
    BY <2>1, <2>2
<1>7. ASSUME NannyStep PROVE StopInv'
  <2>1. CASE NannyInspect
    BY <2>1, <1>2, <1>3 DEF NannyInspect, CallDie
  <2>2. CASE UNCHANGED threadsVars
    BY <2>2, <1>3 DEF threadsVars
  <2>3. QED
    BY <1>7, <1>4, <1>5, <2>1, <2>2 DEF NannyStep, NannyNext, NannySetup, NannySweep,
       NannySweepEnd
<1>8. ASSUME MainNext \/ Terminate \/ Hup \/ UNCHANGED vars PROVE StopInv'
  BY <1>8, <1>2, <1>3 DEF MainNext, MainLeave, MainStop, MainTerm, MainTermReturn, MainBye, MainExit, Bye,
     Terminate, Hup, Deliver, CallDie, threadsVars, vars
<1>9. QED
  BY <1>1, <1>6, <1>7, <1>8 DEF Next, Exited

LEMMA InitMainInv == Init => MainInv
  BY DEF Init, ThreadsInit, MainInv, Running

\* The main thread gets to term() and bye() only behind its own die(), so that
\* who raised the flag for a failure has latched one when bye() looks.
LEMMA MainStep == TypeOK /\ StopInv /\ MainInv /\ [Next]_vars => MainInv'
<1> SUFFICES ASSUME ThreadsTypeOK, MainInv, [Next]_vars,
                    dying[Main] = "event" => shutting_down,
                    shutting_down => stopped_by # None,
                    stopped_by \in Failing => trigger_exception # None
             PROVE  MainInv'
  BY DEF TypeOK, StopInv, Actor
<1> USE DEF MainInv, Running
<1>1. ASSUME NEW a \in Actor, DieStep(a), Running PROVE MainInv'
  <2>1. UNCHANGED <<main, exit_code>>
    BY <1>1 DEF DieStep, mainVars, Die, DieLatch, DieFlag, DieEvent
  <2>2. dying'[Main] = "no" => dying[Main] = "no" \/ dying[Main] = "event"
    BY <1>1 DEF DieStep, Die, DieLatch, DieFlag, DieEvent, ThreadsTypeOK, Actor
  <2>3. (shutting_down => shutting_down') /\ (shutting_down => stopped_by' = stopped_by)
    BY <1>1 DEF DieStep, Die, DieLatch, DieFlag, DieEvent, RaiseFlag
  <2>4. QED
    <3>1. (exit_code # NoExit <=> main \in {"leaving", "exited"})'
      BY <2>1
    <3>2. (exit_code = 0 => stopped_by \in {Main, Signal})'
      <4>1. exit_code = 0 => shutting_down
        OBVIOUS
      <4>2. QED
        BY <2>1, <2>3, <4>1
    <3>3. /\ (main = "term" => dying[Main] # "no" \/ shutting_down)'
          /\ (main \in {"terminating", "bye", "leaving", "exited"} => shutting_down)'
      BY <2>1, <2>2, <2>3
    <3>4. QED
      BY <3>1, <3>2, <3>3
<1>2. ASSUME Running, UNCHANGED <<main, exit_code>>, dying'[Main] = dying[Main],
             (shutting_down => shutting_down'), shutting_down => stopped_by' = stopped_by
      PROVE  MainInv'
  <2>1. (exit_code # NoExit <=> main \in {"leaving", "exited"})'
    BY <1>2
  <2>2. exit_code = 0 => shutting_down
    OBVIOUS
  <2>3. (exit_code = 0 => stopped_by \in {Main, Signal})'
    BY <1>2, <2>2
  <2>4. /\ (main = "term" => dying[Main] # "no" \/ shutting_down)'
        /\ (main \in {"terminating", "bye", "leaving", "exited"} => shutting_down)'
    BY <1>2
  <2>5. QED
    BY <2>1, <2>3, <2>4
<1>3. ASSUME NEW t \in Thread, AppStep(t), Running PROVE MainInv'
  <2>1. UNCHANGED <<main, exit_code, shutting_down, stopped_by>> /\ dying'[Main] = dying[Main]
    BY <1>3, ThreadsAssumption DEF AppStep, AppNext, Construct, Start, Forget, Startup,
       Enter, Loop, Recv, Work, Consume, HandlerExit, Close, Collect, Track, Untrack, CallDie,
       threadsVars, mainVars, ThreadsTypeOK, Actor
  <2>2. QED
    BY <1>2, <1>3, <2>1
<1>4. ASSUME NannyStep, Running PROVE MainInv'
  <2>1. /\ UNCHANGED <<main, exit_code>> /\ dying'[Main] = dying[Main]
        /\ (shutting_down => shutting_down') /\ (shutting_down => stopped_by' = stopped_by)
    BY <1>4, ThreadsAssumption DEF NannyStep, NannyNext, NannySetup, NannyTakeStock,
       NannyInspect, NannyShutdown, NannySweep, NannySweepEnd, RaiseFlag, CallDie,
       threadsVars, mainVars, ThreadsTypeOK, Actor
  <2>2. QED
    BY <1>2, <1>4, <2>1
<1>5. ASSUME Terminate \/ Hup, Running PROVE MainInv'
  <2>1. UNCHANGED <<exit_code, shutting_down, stopped_by>>
    BY <1>5 DEF Terminate, Hup, threadsVars
  <2>2. dying'[Main] = dying[Main]
    BY <1>5, ThreadsAssumption DEF Terminate, Hup, CallDie, threadsVars, ThreadsTypeOK, Actor
  <2>3. main' = main \/ (main = "terminating" /\ main' = "bye")
    BY <1>5 DEF Terminate, Hup, Deliver
  <2>4. QED
    BY <1>5, <2>1, <2>2, <2>3
<1>6. ASSUME MainNext, Running PROVE MainInv'
  <2>1. CASE MainStop
    BY <2>1, <1>6 DEF MainStop, MainReady, CallDie, ThreadsTypeOK, Actor
  <2>2. CASE MainTerm \/ MainTermReturn \/ MainExit
    BY <2>2, <1>6 DEF MainTerm, MainTermReturn, MainExit, MainReady, threadsVars
  <2>3. CASE MainBye
    BY <2>3, <1>6 DEF MainBye, MainReady, Bye, ThreadsTypeOK, Actor, Failing
  <2>4. QED
    BY <1>6, <2>1, <2>2, <2>3 DEF MainNext, MainLeave
<1>7. ASSUME UNCHANGED vars PROVE MainInv'
  BY <1>7 DEF vars, threadsVars, mainVars
<1>8. QED
  BY <1>1, <1>3, <1>4, <1>5, <1>6, <1>7 DEF Next, Exited

\* The three together are inductive.
THEOREM ExitInvariant == SafeSpec => []ExitInv
<1>1. Init => ExitInv
  BY InitTypeOK, InitStopInv, InitMainInv DEF ExitInv
<1>2. ExitInv /\ [Next]_vars => ExitInv'
  BY TypeStep, StopStep, MainStep DEF ExitInv
<1>3. QED
  BY <1>1, <1>2, PTL DEF SafeSpec

\* Whoever is woken from interruptable_sleep finds shutting_down set.
THEOREM WokenSafe == SafeSpec => []WokenSeesShutdown
<1>1. ExitInv => WokenSeesShutdown
  BY DEF ExitInv, StopInv, WokenSeesShutdown
<1>2. QED
  BY <1>1, ExitInvariant, PTL

\* A process that a failing thread or the nanny brought down does not exit
\* with code 0.
THEOREM FailureSafe == SafeSpec => []FailureExitsNonZero
<1>1. ExitInv => FailureExitsNonZero
  BY DEF ExitInv, MainInv, FailureExitsNonZero
<1>2. QED
  BY <1>1, ExitInvariant, PTL

-----------------------------------------------------------------------------
(***************************************************************************)
(* Shutdown implements Lifecycle: only four kinds of step show through the *)
(* refinement mapping, the latch, the flag, and bye()'s look at the latch  *)
(* and its exit.                                                           *)
(***************************************************************************)
LEMMA InitPromise == Init => Promise!Init
  BY DEF Init, ThreadsInit, Promise!Init, Running

LEMMA StepPromise == ExitInv /\ [Next]_vars => [Promise!Next]_(Promise!vars)
<1> SUFFICES ASSUME ExitInv, [Next]_vars PROVE [Promise!Next]_(Promise!vars)
  OBVIOUS
<1> USE DEF Running, Promise!vars, mainVars
<1>1. ASSUME UNCHANGED <<trigger_exception, stopped_by, exit_code, shutting_down>>,
             main' = "exited" <=> main = "exited"
      PROVE  UNCHANGED Promise!vars
  BY <1>1
<1>2. ASSUME Running, NEW a \in Actor, DieStep(a) PROVE [Promise!Next]_(Promise!vars)
  <2>0. UNCHANGED main
    BY <1>2 DEF DieStep
  <2>1. CASE DieLatch(a) /\ a \in Failing /\ trigger_exception = None
    <3>1. Promise!Fail(a)
      BY <1>2, <2>0, <2>1 DEF Promise!Fail, DieLatch, DieException
    <3>2. QED
      BY <2>1, <3>1 DEF Promise!Next
  <2>2. CASE DieLatch(a) /\ ~(a \in Failing /\ trigger_exception = None)
    BY <1>1, <2>0, <2>2 DEF DieLatch, DieException
  <2>3. CASE DieFlag(a) /\ ~shutting_down
    <3>1. Promise!Stop(a)
      BY <1>2, <2>0, <2>3 DEF ExitInv, StopInv, MainInv, Promise!Stop, DieFlag, RaiseFlag
    <3>2. QED
      BY <3>1 DEF Promise!Next, Actor, Failing
  <2>4. CASE DieFlag(a) /\ shutting_down
    BY <1>1, <2>0, <2>4 DEF DieFlag, RaiseFlag
  <2>5. CASE DieEvent(a)
    BY <1>1, <2>0, <2>5 DEF DieEvent
  <2>6. QED
    BY <1>2, <2>1, <2>2, <2>3, <2>4, <2>5 DEF DieStep, Die
<1>3. ASSUME Running, NannyStep, NannyTakeStock PROVE [Promise!Next]_(Promise!vars)
  <2>1. CASE last_signal = "SIGTERM" /\ ~shutting_down
    <3>1. Promise!Stop(Signal)
      BY <1>3, <2>1, ThreadsAssumption DEF Promise!Stop, ExitInv, MainInv, NannyStep, NannyTakeStock,
         RaiseFlag, Failing
    <3>2. QED
      BY <3>1 DEF Promise!Next
  <2>2. CASE ~(last_signal = "SIGTERM" /\ ~shutting_down)
    BY <1>1, <1>3, <2>2 DEF NannyStep, NannyTakeStock, RaiseFlag, ExitInv, TypeOK, ThreadsTypeOK
  <2>3. QED
    BY <2>1, <2>2
<1>4. ASSUME Running, MainBye PROVE [Promise!Next]_(Promise!vars)
  <2>1. Promise!Leave
    BY <1>4 DEF ExitInv, MainInv, MainBye, MainReady, Bye, Promise!Leave
  <2>2. QED
    BY <2>1 DEF Promise!Next
<1>9. ASSUME Running, MainExit PROVE [Promise!Next]_(Promise!vars)
  <2>1. Promise!Exit
    BY <1>9 DEF ExitInv, MainInv, MainExit, MainReady, threadsVars, Promise!Exit
  <2>2. QED
    BY <2>1 DEF Promise!Next
<1>5. ASSUME MainStop \/ MainTerm \/ MainTermReturn \/ Terminate \/ Hup \/ UNCHANGED vars
      PROVE  UNCHANGED Promise!vars
  BY <1>1, <1>5 DEF MainStop, MainTerm, MainTermReturn, MainReady, Terminate, Hup, Deliver,
     CallDie, vars, threadsVars
<1>6. ASSUME NannyStep, ~NannyTakeStock PROVE UNCHANGED Promise!vars
  BY <1>1, <1>6 DEF NannyStep, NannyNext, NannySetup, NannyInspect, NannyShutdown, NannySweep,
     NannySweepEnd, CallDie, threadsVars
<1>7. ASSUME NEW t \in Thread, AppStep(t) PROVE UNCHANGED Promise!vars
  BY <1>1, <1>7 DEF AppStep, AppNext, Construct, Start, Forget, Startup, Enter, Loop,
     Recv, Work, Consume, HandlerExit, Close, Collect, Track, Untrack, CallDie, threadsVars
<1>8. QED
  BY <1>2, <1>3, <1>4, <1>5, <1>6, <1>7, <1>9 DEF Next, Exited, MainNext, MainLeave

\* The safety part of the promise: threads.py, the nanny, the handlers and the
\* signals together behave as Lifecycle says.
THEOREM Refinement == SafeSpec => Promise!SafeSpec
<1>1. ExitInv /\ [Next]_vars => [Promise!Next]_(Promise!vars)
  BY StepPromise
<1>2. QED
  BY InitPromise, <1>1, ExitInvariant, PTL DEF SafeSpec, Promise!SafeSpec

-----------------------------------------------------------------------------
(***************************************************************************)
(* The sockets.  GraceInv: before the grace period is over the nanny does  *)
(* not sweep, so the sockets are where the threads' own steps put them.    *)
(* ClosedInv: what exception_handler has closed nobody opens again.        *)
(***************************************************************************)
GraceInv ==
  /\ nanny = "sweep" => elapsed > Grace
  /\ elapsed <= Grace => \A t \in Thread :
       /\ pc[t] \in {"unborn", "new", "startup", "enter"} => sock[HandlerSocket(t)] = "none"
       /\ pc[t] \in {"loop", "recv", "work"} => sock[HandlerSocket(t)] = "open"
       /\ pc[t] \in {"enter", "loop", "recv", "work"} /\ Kind[t] = "relay" =>
            sock[ClosableSocket(t)] = "open"

ClosedInv == \A t \in Thread :
  /\ pc[t] = "close" => sock[HandlerSocket(t)] # "open"
  /\ pc[t] = "dead" /\ exc[t] # "Uncaught" =>
       sock[HandlerSocket(t)] # "open" /\ sock[ClosableSocket(t)] # "open"

SocketInv == GraceInv /\ ClosedInv

LEMMA SocketFacts ==
  ASSUME NEW t \in Thread
  PROVE  /\ ClosableSocket(t) \in Socket /\ HandlerSocket(t) \in Socket
         /\ \A u \in Thread : /\ ClosableSocket(t) # HandlerSocket(u)
                              /\ t # u => /\ ClosableSocket(t) # ClosableSocket(u)
                                          /\ HandlerSocket(t) # HandlerSocket(u)
  BY DEF ClosableSocket, HandlerSocket, Socket

LEMMA InitSocketInv == Init => SocketInv
  BY SocketFacts DEF Init, AppInit, NannyInit, SocketInv, GraceInv, ClosedInv

\* A thread's own steps, one by one.
LEMMA SocketAppStep ==
  ASSUME TypeOK, SocketInv, NEW t \in Thread, AppStep(t)
  PROVE  SocketInv'
<1> USE DEF SocketInv, GraceInv, ClosedInv
<1>1. /\ UNCHANGED <<nanny, elapsed>>
      /\ pc \in [Thread -> {"unborn", "new", "dead"} \cup Running_pc]
      /\ exc \in [Thread -> Raised \cup {"Uncaught"}]
      /\ sock \in [Socket -> {"none", "open", "closed"}]
  BY DEF AppStep, nannyVars, TypeOK, AppTypeOK, ZmqTypeOK
<1>2. /\ ClosableSocket(t) \in Socket /\ HandlerSocket(t) \in Socket
      /\ \A u \in Thread : /\ ClosableSocket(u) \in Socket /\ HandlerSocket(u) \in Socket
                           /\ ClosableSocket(t) # HandlerSocket(u)
                           /\ HandlerSocket(t) # ClosableSocket(u)
                           /\ t # u => /\ ClosableSocket(t) # ClosableSocket(u)
                                       /\ HandlerSocket(t) # HandlerSocket(u)
  BY SocketFacts
<1>3. CASE Construct(t) \/ Start(t)
  BY <1>1, <1>2, <1>3 DEF Construct, Start, Goto, zmqVars
<1>4. CASE Forget(t)
  BY <1>1, <1>4 DEF Forget, zmqVars, appVars
<1>5. CASE Startup(t)
  BY <1>1, <1>2, <1>5 DEF Startup, GetSocket, zmq_socket, Goto, Uncaught, zmqVars
<1>6. CASE Enter(t)
  BY <1>1, <1>2, <1>6 DEF Enter, zmq_socket, Goto, Uncaught, zmqVars
<1>7. CASE Loop(t) \/ Recv(t)
  BY <1>1, <1>7 DEF Loop, Recv, Goto, Raise, zmqVars
<1>8. CASE Work(t) \/ Consume(t)
  BY <1>1, <1>8 DEF Work, Consume, Goto, Raise, zmqVars
<1>9. CASE HandlerExit(t)
  BY <1>1, <1>2, <1>9 DEF HandlerExit, try_close, Goto
<1>10. CASE Close(t)
  BY <1>1, <1>2, <1>10 DEF Close, try_close, Goto
<1>11. CASE Collect(t)
  BY <1>1, <1>2, <1>11 DEF Collect, try_close, appVars
<1>12. QED
  BY <1>3, <1>4, <1>5, <1>6, <1>7, <1>8, <1>9, <1>10, <1>11 DEF AppStep, AppNext

LEMMA SocketStep == TypeOK /\ SocketInv /\ [Next]_vars => SocketInv'
<1> SUFFICES ASSUME TypeOK, SocketInv, [Next]_vars PROVE SocketInv'
  OBVIOUS
<1> USE DEF SocketInv, GraceInv, ClosedInv
<1>1. ASSUME UNCHANGED <<sock, pc, exc, nanny, elapsed>> PROVE SocketInv'
  BY <1>1
<1>2. ASSUME NannyStep PROVE SocketInv'
  <2>1. UNCHANGED <<pc, exc>>
    BY <1>2 DEF NannyStep, NannyNext, NannySetup, NannyTakeStock, NannyInspect,
       NannyShutdown, NannySweep, NannySweepEnd, appVars
  <2>2. CASE NannySetup \/ NannyTakeStock \/ NannyInspect \/ NannySweepEnd
    BY <2>1, <2>2 DEF NannySetup, NannyTakeStock, NannyInspect, NannySweepEnd, zmqVars
  <2>3. CASE NannyShutdown
    BY <2>1, <2>3, NannyAssumption DEF NannyShutdown, GraceExceeded, zmqVars, TypeOK,
       NannyTypeOK
  <2>4. ASSUME NEW s \in Socket, NannySweep(s) PROVE SocketInv'
    <3>1. elapsed' > Grace /\ elapsed' \in Nat
      BY <2>4, NannyAssumption DEF NannySweep, TypeOK, NannyTypeOK
    <3>2. \A c \in Socket : sock'[c] = "open" => sock[c] = "open"
      BY <2>4 DEF NannySweep, try_close, TypeOK, ZmqTypeOK
    <3>3. QED
      BY <2>1, <3>1, <3>2, SocketFacts, NannyAssumption
  <2>5. QED
    BY <1>2, <2>2, <2>3, <2>4 DEF NannyStep, NannyNext
<1>3. ASSUME \/ Terminate \/ Hup \/ MainNext \/ UNCHANGED vars
             \/ \E a \in Actor : DieStep(a)
      PROVE  SocketInv'
  BY <1>1, <1>3 DEF Terminate, Hup, Deliver, MainNext, MainLeave, MainStop, MainTerm, MainTermReturn, MainBye, MainExit,
     ZmqTerm, ZmqTermReturn, DieStep, vars, zmqVars, appVars, nannyVars
<1>4. QED
  BY <1>2, <1>3, SocketAppStep DEF Next, Exited

THEOREM SocketInvariant == SafeSpec => [](TypeOK /\ SocketInv)
<1>1. Init => TypeOK /\ SocketInv
  BY InitTypeOK, InitSocketInv
<1>2. TypeOK /\ SocketInv /\ [Next]_vars => (TypeOK /\ SocketInv)'
  BY TypeStep, SocketStep
<1>3. QED
  BY <1>1, <1>2, PTL DEF SafeSpec

\* Nobody closes a socket under a working thread before the grace period ends.
THEOREM SocketsSafe == SafeSpec => []SocketsUsableUntilGrace
<1>1. SocketInv => SocketsUsableUntilGrace
  BY DEF SocketInv, GraceInv, SocketsUsableUntilGrace, SourceSocket
<1>2. QED
  BY <1>1, SocketInvariant, PTL

\* A thread that got as far as its handler leaves no open socket.
THEOREM HandledDeathSafe == SafeSpec => []HandledDeathLeavesNoSocket
<1>1. SocketInv => HandledDeathLeavesNoSocket
  BY DEF SocketInv, ClosedInv, HandledDeathLeavesNoSocket, ClosableSocket, HandlerSocket
<1>2. QED
  BY <1>1, SocketInvariant, PTL

-----------------------------------------------------------------------------
(***************************************************************************)
(* The alarm.  When all threads are started before the nanny, a thread     *)
(* that its snapshot misses has died: the snapshot may be old, but a       *)
(* living thread was living when it was taken.                             *)
(***************************************************************************)
SnapshotInv ==
  /\ \A t \in Thread : pc[t] \notin {"unborn", "new"}
  /\ nanny = "inspect" => \A t \in Thread : Name[t] \in threads_alive \/ pc[t] = "dead"

LEMMA InitSnapshotInv == LateThread = {} /\ Init => SnapshotInv
  BY DEF Init, AppInit, NannyInit, SnapshotInv

LEMMA SnapshotStep == TypeOK /\ SnapshotInv /\ [Next]_vars => SnapshotInv'
<1> SUFFICES ASSUME TypeOK, SnapshotInv, [Next]_vars PROVE SnapshotInv'
  OBVIOUS
<1> USE DEF SnapshotInv
<1>1. ASSUME UNCHANGED <<pc, nanny, threads_alive>> PROVE SnapshotInv'
  BY <1>1
<1>2. ASSUME NEW t \in Thread, AppStep(t) PROVE SnapshotInv'
  <2>1. pc \in [Thread -> {"unborn", "new", "dead"} \cup Running_pc]
    BY DEF TypeOK, AppTypeOK
  <2>2. UNCHANGED <<nanny, threads_alive>>
    BY <1>2 DEF AppStep, nannyVars
  <2>3. /\ pc[t] = "dead" => pc' = pc
        /\ \/ pc' = pc
           \/ \E label \in Running_pc \cup {"dead"} : pc' = [pc EXCEPT ![t] = label]
    BY <1>2, <2>1 DEF AppStep, AppNext, Construct, Start, Forget, Startup, GetSocket,
       Enter, Loop, Recv, Work, Consume, HandlerExit, Close, Collect, Goto, Raise, Uncaught,
       appVars, Running_pc, Alive
  <2>4. QED
    BY <2>1, <2>2, <2>3 DEF Running_pc
<1>3. ASSUME NannyStep PROVE SnapshotInv'
  <2>1. UNCHANGED pc
    BY <1>3 DEF NannyStep, NannyNext, NannySetup, NannyTakeStock, NannyInspect,
       NannyShutdown, NannySweep, NannySweepEnd, appVars
  <2>2. CASE NannyTakeStock
    BY <2>1, <2>2 DEF NannyTakeStock, AliveNames, Alive, TypeOK, AppTypeOK
  <2>3. CASE ~NannyTakeStock
    <3>1. nanny' # "inspect"
      BY <1>3, <2>3 DEF NannyStep, NannyNext, NannySetup, NannyInspect, NannyShutdown,
         NannySweep, NannySweepEnd
    <3>2. QED
      BY <2>1, <3>1
  <2>4. QED
    BY <2>2, <2>3
<1>4. ASSUME \/ Terminate \/ Hup \/ MainNext \/ UNCHANGED vars
             \/ \E a \in Actor : DieStep(a)
      PROVE  SnapshotInv'
  BY <1>1, <1>4 DEF Terminate, Hup, Deliver, MainNext, MainLeave, MainStop, MainTerm, MainTermReturn, MainBye, MainExit,
     DieStep, vars, appVars, nannyVars
<1>5. QED
  BY <1>2, <1>3, <1>4 DEF Next, Exited

\* Only the nanny's verdict starts its die().
LEMMA AlarmStep ==
  TypeOK /\ SnapshotInv /\ [Next]_vars =>
    (dying[Nanny] = "no" /\ dying'[Nanny] = "latch" =>
       \E t \in Thread : pc[t] = "dead" /\ Name[t] \in threads_tracked)
<1> SUFFICES ASSUME TypeOK, SnapshotInv, [Next]_vars,
                    dying[Nanny] = "no", dying'[Nanny] = "latch"
             PROVE  \E t \in Thread : pc[t] = "dead" /\ Name[t] \in threads_tracked
  OBVIOUS
<1>1. NannyInspect
  <2>1. dying \in [Actor -> {"no", "latch", "flag", "event"}]
    BY DEF TypeOK, ThreadsTypeOK
  <2>2. ASSUME NEW t \in Thread, AppStep(t) PROVE dying'[Nanny] = dying[Nanny]
    BY <2>1, <2>2, ThreadsAssumption DEF AppStep, AppNext, Construct, Start, Forget,
       Startup, Enter, Loop, Recv, Work, Consume, HandlerExit, Close, Collect, Track, Untrack,
       CallDie, threadsVars, Actor
  <2>3. ASSUME NEW a \in Actor, DieStep(a) PROVE dying'[Nanny] = dying[Nanny]
    BY <2>1, <2>3 DEF DieStep, Die, DieLatch, DieFlag, DieEvent, Actor
  <2>4. ASSUME Terminate \/ Hup \/ MainNext \/ UNCHANGED vars
        PROVE  dying'[Nanny] = dying[Nanny]
    BY <2>1, <2>4, ThreadsAssumption DEF Terminate, Hup, Deliver, MainNext, MainLeave, MainStop, MainTerm,
       MainTermReturn, MainBye, MainExit, Bye, CallDie, threadsVars, vars, Actor
  <2>5. ASSUME NannyStep, ~NannyInspect PROVE UNCHANGED dying
    BY <2>5 DEF NannyStep, NannyNext, NannySetup, NannyTakeStock, NannyShutdown, NannySweep,
       NannySweepEnd, threadsVars
  <2>6. QED
    BY <2>2, <2>3, <2>4, <2>5 DEF Next, Exited
<1>2. Deficit # {} /\ nanny = "inspect"
  BY <1>1 DEF NannyInspect
<1>3. PICK t \in Thread : Name[t] \in threads_tracked /\ Name[t] \notin threads_alive
  BY <1>2 DEF Deficit, TypeOK, ThreadsTypeOK
<1>4. QED
  BY <1>2, <1>3 DEF SnapshotInv

\* The nanny's alarm is true of every application that starts its threads
\* before the nanny.
THEOREM AlarmSafe == LateThread = {} => (SafeSpec => AlarmMeansDeath)
<1> SUFFICES ASSUME LateThread = {} PROVE SafeSpec => AlarmMeansDeath
  OBVIOUS
<1>1. Init => TypeOK /\ SnapshotInv
  BY InitTypeOK, InitSnapshotInv
<1>2. TypeOK /\ SnapshotInv /\ [Next]_vars => (TypeOK /\ SnapshotInv)'
  BY TypeStep, SnapshotStep
<1>3. QED
  BY <1>1, <1>2, AlarmStep, PTL DEF SafeSpec, AlarmMeansDeath

=============================================================================

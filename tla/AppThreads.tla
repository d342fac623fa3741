----------------------------- MODULE AppThreads -----------------------------
(***************************************************************************)
(* The threads of the application, from construction to death: AppThread   *)
(* and its two loops of app.py (ZmqRelay, ZmqWorker), the two of rabbit.py *)
(* (RabbitMQRelay, ZMQListener), and exception_handler (handler.py), the   *)
(* context manager every one of them runs in with and_raise=False,         *)
(* shutdown_on_error=True and close_on_exit=True.                          *)
(*                                                                         *)
(* What startup(), process_message() and the broker do is up to the        *)
(* application: they may return, raise anything, or block for ever.        *)
(***************************************************************************)
EXTENDS Zmq

CONSTANT Kind    \* Kind[t]: the class of t

ASSUME KindAssumption ==
  Kind \in [Thread -> {"relay", "worker", "mqrelay", "listener"}]

VARIABLES
  pc,     \* where each thread is
  exc     \* the exception each thread's handler has to handle, or "Uncaught"
          \* once one has ended the thread outside its handler

appVars == <<pc, exc>>

Running_pc == {"startup", "enter", "loop", "recv", "work", "exit", "close"}
Alive(t) == pc[t] \in Running_pc

\* What a handler can be asked to handle; BaseException stands for SystemExit
\* and the others that are no Exception.
Raised == {"none", "ContextTerminated", "ResourceWarning", "Exception",
           "BaseException"}

AppTypeOK ==
  /\ pc \in [Thread -> {"unborn", "new", "dead"} \cup Running_pc]
  /\ exc \in [Thread -> Raised \cup {"Uncaught"}]

\* The application constructs and starts the threads of started, then the nanny.
AppInit(started) ==
  /\ sock = [s \in Socket |-> "none"]
  /\ context = "open"
  /\ pc = [t \in Thread |-> IF t \in started THEN "startup" ELSE "unborn"]
  /\ exc = [t \in Thread |-> "none"]

-----------------------------------------------------------------------------
Goto(t, label) ==
  /\ pc' = [pc EXCEPT ![t] = label]
  /\ exc' = [exc EXCEPT ![t] = "none"]

Raise(t, e) ==
  /\ pc' = [pc EXCEPT ![t] = "exit"]
  /\ exc' = [exc EXCEPT ![t] = e]

\* An exception outside the with statement ends the thread.
Uncaught(t) ==
  /\ pc' = [pc EXCEPT ![t] = "dead"]
  /\ exc' = [exc EXCEPT ![t] = "Uncaught"]

Construct(t) ==
  /\ pc[t] = "unborn"
  /\ Track(t)
  /\ Goto(t, "new")
  /\ UNCHANGED zmqVars

Start(t) ==
  /\ pc[t] = "new"
  /\ Goto(t, "startup")
  /\ UNCHANGED <<threadsVars, zmqVars>>

\* The owner of a thread takes it off the nanny's list, whatever became of it.
Forget(t) ==
  /\ pc[t] # "unborn"
  /\ Untrack(t)
  /\ UNCHANGED <<zmqVars, appVars>>

\* Closable.get_socket(): the socket is created, then bound or connected.
GetSocket(t) ==
  /\ zmq_socket(ClosableSocket(t))
  /\ Goto(t, "enter") \/ Uncaught(t)

\* run() before its with statement.  What raises is the application's startup(),
\* which a listener has not, or the creation of the socket.
Startup(t) ==
  /\ pc[t] = "startup"
  /\ \/ Kind[t] = "relay" /\ GetSocket(t)
     \/ Kind[t] # "relay" /\ Goto(t, "enter") /\ UNCHANGED zmqVars
     \/ Kind[t] # "listener" /\ Uncaught(t) /\ UNCHANGED zmqVars
  /\ UNCHANGED threadsVars

\* exception_handler.__enter__; without __exit__ nobody closes the socket of
\* an __enter__ that fails, except that its collection may.
Enter(t) ==
  /\ pc[t] = "enter"
  /\ \/ /\ zmq_socket(HandlerSocket(t))
        /\ Uncaught(t) \/ Goto(t, IF Kind[t] = "listener" THEN "recv" ELSE "loop")
     \/ Uncaught(t) /\ UNCHANGED zmqVars
  /\ UNCHANGED threadsVars

-----------------------------------------------------------------------------
\* The flag the guard of the while loop reads.  app.py imports the name, so
\* its loops test the FALSE that was bound at import; rabbit.py reads
\* threads.shutting_down.
GuardFlag(t) == Kind[t] = "mqrelay" /\ shutting_down

Loop(t) ==
  /\ pc[t] = "loop"
  /\ IF GuardFlag(t) THEN Raise(t, "none") ELSE Goto(t, "recv")
  /\ UNCHANGED <<threadsVars, zmqVars>>

SourceSocket(t) == IF Kind[t] = "relay" THEN ClosableSocket(t)
                                        ELSE HandlerSocket(t)

\* recv_pyobj(): a message, or the context or the socket is gone.  A thread
\* whose socket the nanny closes under it may also stay blocked.
Recv(t) ==
  /\ pc[t] = "recv" /\ Kind[t] # "listener"
  /\ \/ context = "open" /\ sock[SourceSocket(t)] = "open" /\ Goto(t, "work")
     \/ context # "open" /\ Raise(t, "ContextTerminated")
     \/ sock[SourceSocket(t)] = "closed" /\ Raise(t, "Exception")
  /\ UNCHANGED <<threadsVars, zmqVars>>

\* process_message(), and the send of what it returns.
Work(t) ==
  /\ pc[t] = "work"
  /\ \/ Kind[t] = "mqrelay" /\ Goto(t, "loop")
     \/ /\ Kind[t] # "mqrelay" /\ Goto(t, "loop")
        /\ context = "open" /\ sock[HandlerSocket(t)] = "open"
     \/ \E e \in {"Exception", "BaseException", "ResourceWarning"} : Raise(t, e)
     \/ Kind[t] # "mqrelay" /\ context # "open" /\ Raise(t, "ContextTerminated")
  /\ UNCHANGED <<threadsVars, zmqVars>>

\* ZMQListener.run() in start_consuming().  Its callback changes nothing when
\* it sends, and swallows a failing send during the shutdown: the terminated
\* context never wakes a listener.
Consume(t) ==
  /\ pc[t] = "recv" /\ Kind[t] = "listener"
  /\ \E e \in {"none", "ResourceWarning", "Exception", "BaseException"} : Raise(t, e)
  /\ UNCHANGED <<threadsVars, zmqVars>>

\* exception_handler.__exit__: close the socket; a fatal exception outside the
\* shutdown calls die(); the exception is suppressed in every case.
Fatal == {"ResourceWarning", "Exception"}

\* An __exit__ that forgets to close the socket.
MutHandlerExit(t) ==
  /\ pc[t] = "exit"
  /\ IF exc[t] \in Fatal /\ ~shutting_down THEN CallDie(t) ELSE UNCHANGED dying
  /\ Goto(t, "close")
  /\ UNCHANGED <<shutting_down, interruptable_sleep, trigger_exception,
                 threads_tracked, exit_code, stopped_by, zmqVars>>

HandlerExit(t) ==
  /\ pc[t] = "exit"
  /\ try_close(HandlerSocket(t))
  /\ IF exc[t] \in Fatal /\ ~shutting_down THEN CallDie(t) ELSE UNCHANGED dying
  /\ Goto(t, "close")
  /\ UNCHANGED <<shutting_down, interruptable_sleep, trigger_exception,
                 threads_tracked, exit_code, stopped_by>>

\* The end of run(): ZmqRelay closes its source socket.
Close(t) ==
  /\ pc[t] = "close" /\ dying[t] = "no"
  /\ try_close(ClosableSocket(t))
  /\ Goto(t, "dead")
  /\ UNCHANGED threadsVars

\* The garbage collector reaches the handler of a thread that died in __enter__.
Collect(t) ==
  /\ pc[t] = "dead" /\ sock[HandlerSocket(t)] = "open"
  /\ try_close(HandlerSocket(t))
  /\ UNCHANGED <<threadsVars, appVars>>

AppNext(t) ==
  \/ Construct(t) \/ Start(t) \/ Forget(t) \/ Startup(t) \/ Enter(t)
  \/ Loop(t) \/ Recv(t) \/ Work(t) \/ Consume(t) \/ HandlerExit(t)
  \/ Close(t) \/ Collect(t)
=============================================================================

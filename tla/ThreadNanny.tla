---------------------------- MODULE ThreadNanny ----------------------------
(***************************************************************************)
(* thread_nanny() of threads.py: the loop that compares the threads that   *)
(* should be alive with those that are, and that during the shutdown, once *)
(* the grace period is over, closes the sockets that keep zmq_term() from  *)
(* returning.                                                              *)
(*                                                                         *)
(* One pass is a snapshot of the living threads, then the verdict on it;   *)
(* other threads run in between.  A pass ends with sleeps of bounded       *)
(* length, so time is counted in passes.                                   *)
(***************************************************************************)
EXTENDS AppThreads

CONSTANTS
  Grace,          \* shutting_down_grace_secs, in passes of the nanny
  MonitorConfig,  \* what app.conf, the environment and the extras offer Cronitor
  Lingerers       \* has the application non-daemon threads of its own?

ASSUME NannyAssumption ==
  /\ Grace \in Nat /\ Lingerers \in BOOLEAN
  /\ MonitorConfig \in {"no_key", "key_only", "key_and_env", "key_and_creds"}

VARIABLES
  nanny,          \* where the nanny is
  last_signal,    \* SignalHandler.last_signal, which the nanny polls
  threads_alive,  \* the names in the nanny's snapshot, empty once judged
  elapsed,        \* passes since shutting_down_time was set
  seen, todo      \* the registry when the sweep began, and what is left of it

nannyVars == <<nanny, threads_alive, elapsed, seen, todo>>

NannyTypeOK ==
  /\ nanny \in {"setup", "stock", "inspect", "sweep", "dead"}
  /\ last_signal \in {"none", "SIGTERM", "SIGHUP"}
  /\ threads_alive \subseteq {Name[t] : t \in Thread}
  /\ elapsed \in 0 .. Grace + 1
  /\ seen \subseteq Socket /\ todo \subseteq Socket

NannyInit ==
  /\ nanny = "setup"
  /\ last_signal = "none"
  /\ threads_alive = {}
  /\ elapsed = 0
  /\ seen = {} /\ todo = {}

-----------------------------------------------------------------------------
\* _setup_cronitor(): ConfigParser.get() without a fallback raises on a missing
\* section or option, and so do a missing package (like "key_only") and, perhaps,
\* the credential store.
SetupRaises == MonitorConfig \in {"no_key", "key_only", "key_and_creds"}
SetupReturns == MonitorConfig \in {"key_and_env", "key_and_creds"}

NannySetup ==
  /\ nanny = "setup"
  /\ \/ SetupReturns /\ nanny' = "stock"
     \/ SetupRaises /\ nanny' = "dead"
  /\ UNCHANGED <<threads_alive, elapsed, seen, todo, threadsVars, zmqVars, appVars>>

\* A snapshot of the thread objects that does not ask is_alive().
MutAliveNames == {Name[t] : t \in {u \in Thread : pc[u] # "unborn"}}

AliveNames == {Name[t] : t \in {u \in Thread : Alive(u)}}

\* During the shutdown the nanny prints the stacks of non-daemon threads; if one
\* ends between is_alive() and the look-up of its frame, the KeyError is the
\* end of the nanny.
NannyTakeStock ==
  /\ nanny = "stock" /\ dying[Nanny] = "no"
  /\ IF last_signal = "SIGTERM" THEN RaiseFlag(Signal)
                                ELSE UNCHANGED <<shutting_down, stopped_by>>
  /\ \/ nanny' = "inspect" /\ threads_alive' = AliveNames
     \/ nanny' = "dead" /\ threads_alive' = {} /\ Lingerers /\ shutting_down'
  /\ UNCHANGED <<elapsed, seen, todo, interruptable_sleep, trigger_exception,
                 threads_tracked, exit_code, dying, zmqVars, appVars>>

\* A verdict that expects every thread there is, and not the tracked ones.
MutDeficit == {Name[t] : t \in Thread} \ threads_alive

Deficit == threads_tracked \ threads_alive

NannyInspect ==
  /\ nanny = "inspect" /\ ~shutting_down
  /\ IF Deficit # {} THEN CallDie(Nanny) ELSE UNCHANGED dying
  /\ nanny' = "stock"
  /\ threads_alive' = {}
  /\ UNCHANGED <<elapsed, seen, todo, shutting_down,
                 interruptable_sleep, trigger_exception, threads_tracked,
                 exit_code, stopped_by, zmqVars, appVars>>

\* Off by one, early; off by one, late.
MutGraceEarly == elapsed >= Grace
MutGraceLate == elapsed > Grace + 1

GraceExceeded == elapsed > Grace

\* A nanny that sets shutting_down_time anew in every pass.
MutNannyShutdown ==
  /\ nanny = "inspect" /\ shutting_down
  /\ interruptable_sleep' = TRUE
  /\ threads_alive' = {}
  /\ elapsed' = 1
  /\ IF GraceExceeded THEN nanny' = "sweep" /\ seen' = zmq_sockets /\ todo' = seen'
                      ELSE nanny' = "stock" /\ UNCHANGED <<seen, todo>>
  /\ UNCHANGED <<shutting_down, trigger_exception,
                 threads_tracked, exit_code, dying, stopped_by, zmqVars, appVars>>

NannyShutdown ==
  /\ nanny = "inspect" /\ shutting_down
  /\ interruptable_sleep' = TRUE
  /\ threads_alive' = {}
  /\ elapsed' = IF GraceExceeded THEN elapsed ELSE elapsed + 1
  /\ IF GraceExceeded THEN nanny' = "sweep" /\ seen' = zmq_sockets /\ todo' = seen'
                      ELSE nanny' = "stock" /\ UNCHANGED <<seen, todo>>
  /\ UNCHANGED <<shutting_down, trigger_exception,
                 threads_tracked, exit_code, dying, stopped_by, zmqVars, appVars>>

NannySweep(s) ==
  /\ nanny = "sweep" /\ s \in todo
  /\ try_close(s)
  /\ todo' = todo \ {s}
  /\ UNCHANGED <<nanny, threads_alive, elapsed, seen, threadsVars, appVars>>

\* The sweep is over; or the registry grew under it and iterating it raises the
\* RuntimeError that postpones the rest to the next pass (from Python 3.14 on the
\* iteration is over a copy and goes on: NannySweep allows that too).
NannySweepEnd ==
  /\ nanny = "sweep" /\ (todo = {} \/ zmq_sockets # seen)
  /\ nanny' = "stock"
  /\ todo' = {} /\ seen' = {}
  /\ UNCHANGED <<threads_alive, elapsed, threadsVars, zmqVars, appVars>>

NannyNext ==
  \/ NannySetup \/ NannyTakeStock \/ NannyInspect \/ NannyShutdown
  \/ (\E s \in Socket : NannySweep(s)) \/ NannySweepEnd
=============================================================================

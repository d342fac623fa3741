# A verification of tailucas-pylib in TLA+

`tailucas-pylib` is a framework for small multi-threaded daemons: application
threads that pass messages over ZeroMQ and RabbitMQ, a *nanny* that watches
them, and a shutdown that has to work however the threads fail; around it come a
credential store, cached cloud sessions and a few tools. This directory
specifies the parts of it in which order and interleaving matter, checks them
with TLC on small instances, and proves the safety properties with TLAPS for all
instances. Source paths below are relative to `src/tailucas_pylib/` of the
repository.

- [The system](#the-system): components, state, operations, what is hard
- [The modules](#the-modules): which module models what, and how
- [The runs](#the-runs): what TLC checks, with which bounds
- [The proofs](#the-proofs): what is proved, from what, and how
- [Disagreements](#disagreements-between-the-code-and-what-it-says)
- [What is assumed and what is left out](#what-is-assumed)
- [Not modelled](#not-modelled) and [the plan](#the-plan)

## The system

| Component | State | Operations | Interacts with |
|---|---|---|---|
| Thread nanny and shutdown (`threads.py`) | `shutting_down`, `interruptable_sleep`, `trigger_exception`, `threads_tracked`; in the nanny: the snapshot, `shutting_down_time` | `die()`, `bye()`, `_setup_cronitor()`, the passes of `thread_nanny()` | reads `SignalHandler.last_signal`; closes sockets of `zmq.py`; called by every other component |
| Application threads (`app.py`) | each thread's position in `run()` | construct, `untrack()` (`Forget`), `startup()`, the loops of `ZmqRelay` and `ZmqWorker` | register with the nanny; run inside `exception_handler` |
| Exception handler (`handler.py`) | its socket | `__enter__`, `__exit__` | creates and closes sockets; calls `die()` |
| ZeroMQ (`zmq.py`) | registry `zmq_sockets`, `zmq_context` | `zmq_socket()`, `try_close()`, `Closable`, `zmq_term()` | `term()` waits for every socket of every thread |
| Signals (`process.py`) | `last_signal` | `terminate()`, `hup()`, `exec_cmd()` | handlers run on top of the main thread |
| RabbitMQ connection (`rabbit.py`, `MQConnection`) | connection, channel, queue | `_basic_publish()` and its retries, set-up, close, `stop()` | pika and a broker that may go away |
| RabbitMQ listener and relay (`rabbit.py`) | as threads; the messages in hand; the listener's queue | `ZMQListener.run()`, `callback()`, `RabbitMQRelay.process_message()` | between RabbitMQ and ZeroMQ; behind the listener comes a `ZmqRelay` |
| AWS sessions (`aws/`) | cached session, expiry, credential store, metrics client | `get_boto_session()`, `post_count_metric()` | any thread calls them, no lock |
| Credential store, flags (`creds.py`, `flags.py`) | clients, chosen vault; the cached store | the constructor, `validate_creds()`, `get_creds()`, `get_fields_from_sections()`, `is_flag_enabled()` | 1Password; `aws/` and `flags.py` each cache a store, without a lock |
| Payloads (`data.py`) | none | `make_payload()` | called at each hop of a message |
| Configuration interpolation (`tools/config_interpol.py`) | the values found | `load_config()`, `main()` | files, environment, standard output |
| Bootstrap (`__init__.py`) | log handlers, `app_config`, names | runs on import | everything |
| Timestamps, devices (`datetime.py`, `device.py`) | none | pure conversions | message senders |
| Bluetooth, other tools (`bluetooth.py`, `tools/`) | none | wrappers of commands, scripts | none |

What makes each of them correct:

- *Shutdown.* Any thread, the nanny, a signal handler and the main thread may
  call `die()` at the same time. The first failure is remembered; the exit code
  says whether there was one; whoever is woken finds the flag up; a shutdown
  always ends, although `zmq_term()` waits for sockets of threads that may be
  blocked for ever.
- *Nanny.* The end of a tracked thread is noticed, however silent; no alarm
  without a death; no socket is closed under a working thread before the grace
  period is over.
- *Handler.* Whatever ends a thread inside its `with` statement, its sockets are
  closed, and a failure outside the shutdown stops the process.
- *Publisher.* Retries are bounded and so are the duplicates they cause; a
  channel on which something failed is not reused; the loop cannot fall through.
- *Messages.* What comes out went in, in the same order and once, with the time of the
  device; nothing is lost without a failure.
- *Sessions.* Callers get a session that has not expired, and the expiry they compare
  with the clock fits the session they get.
- *Credentials.* The store that everybody shares has been validated, asks for a vault
  that is there, and returns the field that was asked for.
- *Interpolation.* The output has all that both files have, each value from the file that
  counts, and a failing program prints nothing.

What is hard to test in it are the interleavings of four kinds of actors, the
two-second passes of the nanny against a snapshot that ages, signals that arrive
inside library calls, streams that break between use and notice, and caches
whose parts are assigned one after the other. `PROJECT.json` lists these hazards
with the line where each bites and the properties that watch it.

## The modules

```
Threads <- Zmq <- AppThreads <- ThreadNanny <- Shutdown <- MCShutdown
                                                  |   \
                                     Lifecycle <--+    Shutdown_proofs
AtomicEvent <-- SleepEvent <- MCSleepEvent, SleepEvent_proofs
Publisher <- Publisher_proofs
BotoSession <- BotoSession_proofs
Delivery <-- MessageFlow <- MCMessageFlow, MessageFlow_proofs
FieldLookup <- Credentials <- MCCredentials, Credentials_proofs
ConfigInterpol <- MCConfigInterpol, ConfigInterpol_proofs
Induction <- Credentials_proofs, ConfigInterpol_proofs
```

The single arrows are `EXTENDS`, the double ones `INSTANCE`; the first line is one
process. Each module of it adds the variables and the actions of one component, and an action leaves the variables of the
modules after its own to the module that composes it.

**`Threads`** — the globals of `threads.py` and the operations on them. `Die(a)`
is `die()` run by actor `a`, in three steps (`DieLatch`, `DieFlag`, `DieEvent`)
because other threads run while it flushes Sentry, and between the two
assignments after that. `dying[a]` is the next of these steps, and `CallDie(a)`
is the call. `stopped_by` is a history variable: who raised the flag first.

**`Zmq`** — `sock[s]` for the two sockets a thread can have, `context`, and the
registry, which is the set of sockets that were ever created (a weak dictionary
forgets collected sockets; these are closed, and closing them again does
nothing).

**`AppThreads`** — one state machine for the four classes of threads, told apart
by `Kind[t]`. The labels of `pc[t]` are the places in `run()`:

| `pc` | code | leaves by |
|---|---|---|
| `unborn`, `new` | before and after the constructor | `Construct` (tracks the name), `Start` |
| `startup` | `startup()`, `get_socket()` | `Startup`: may raise outside the handler, with or without a socket open |
| `enter` | `exception_handler.__enter__` | `Enter`: likewise |
| `loop` | the guard of the `while` | `Loop`, by `GuardFlag(t)`: the flag as the class sees it |
| `recv`, `work` | `recv_pyobj()`, `process_message()` and the send; `start_consuming()` | `Recv`, `Work`, `Consume`: return, raise, or never leave |
| `exit` | `exception_handler.__exit__` | `HandlerExit`: closes the socket, then perhaps calls `die()` |
| `close`, `dead` | the rest of `run()` | `Close`; `Collect` is the garbage collector on an abandoned handler |

**`ThreadNanny`** — `thread_nanny()` as set-up, snapshot (`NannyTakeStock`),
verdict (`NannyInspect` outside, `NannyShutdown` inside the shutdown) and sweep.
The snapshot and the verdict are separate steps, since threads run in between;
so are the closes of a sweep. `elapsed` counts the passes since
`shutting_down_time` was set. `MonitorConfig` is what `_setup_cronitor()` finds;
`Lingerers` says whether the application has non-daemon threads whose stacks the
nanny prints (the look-up of a frame may raise and end the nanny).

**`Shutdown`** — the process: the above with signal handlers and a main thread.
The main thread belongs to the application; it does what `threads.py` and the
coding conventions expect: wait on `interruptable_sleep` or stop for reasons of
its own, then `die()`, `zmq_term()`, `bye()`. A handler runs on top of it. `bye()` is two
steps: `MainBye` reads the latch and so settles the exit code (`threads.py:46-51`), `MainExit`
is the rest of it (logging, flushing, `exit()`), and in between (`main = "leaving"`) everybody
else goes on.

**`Lifecycle`** — the abstract specification: what the library promises about the
end of a process, in four variables. `Shutdown` implements it with the mapping
`phase` = what the flag, the exit code and the exit say together, `cause` =
`trigger_exception`, `stopper` = `stopped_by`, `code` = `exit_code`. The code tells of the
failures that were latched when the process started to leave; `Lifecycle` lets a first
failure be noted later than that, since a thread that is past the test in its handler
(`handler.py:92`) may reach the latch while the main thread is in the second half of `bye()`.

**`SleepEvent`** — one assumption of `Shutdown` opened up. There, setting and
waiting on `interruptable_sleep` are atomic. Here they take and release the lock
of the event, which is not reentrant, and look at its flag, set it, notify and join the
sleepers in between. The runners are the frames of the main thread, on which signal
handlers nest (`top` is the frame that runs), the nanny, and workers that fail. The
constant `Interruptible` is the set of places where a signal may find the main thread,
`Critical` those where a runner holds the lock; `then` is where the nanny goes on after
`set()`: to its `wait(60)` if it has called `die()`, to its next pass otherwise.

**`AtomicEvent`** — the abstract specification: what the other modules take an event to
be. `SleepEvent` implements it with `waiting` = the sleepers between the call of `wait()`
and its return.

**`BotoSession`** — the caches of `aws/`, one step per assignment, with any number
of callers; `Poster` are those that come through `post_count_metric()`. A session
is represented by the time its credentials expire. `torn` is a history variable: an expiry
has been cached (line 78) and no session since (line 83), because the caller is between the
two, or because `Session()` raised. The clock ticks between any two steps, so that racing
calls of `assume_role()` return different expiries; `CallTime` bounds how long a call takes
from its look at the expiry (line 33) to its end.

**`Publisher`** — `MQConnection._basic_publish()` and what it calls. `link` is the
stream, `connection` and `channel` are what pika knows of it; a loss is noticed
only when the stream is used. `copies` counts how many copies of the current
message reached the exchange.

**`MessageFlow`** — messages on their way through two processes. `at[s]` is the sequence
of messages at stage `s`; the stages alternate between what holds messages (a socket, the
broker with the listener's queue) and the thread that has one in hand:

| Stage | where | left by |
|---|---|---|
| `SOURCE` | sent to the `RabbitMQRelay` | `RelayRecv` |
| `RELAY` | in its `process_message()` | `RelayPublish`: published, published to nobody, lost with the connection, or not packable |
| `BROKER` | in the listener's queue or the buffer of its connection | `Consume`; a lost connection takes a suffix with it |
| `CALLBACK` | in the listener's `callback()` | `Callback`: ignored, sent on, or lost with a failing send |
| `PULLED`, `SINK` | sent to the `ZmqRelay`, in its `process_message()` | `SinkRecv`, `SinkSend` |
| `OUTPUT` | sent on | |

An event is what `make_payload()` tells apart: a dictionary with or without a time of its
own, a number (`len()` raises), or anything else; and whether its topic has the three parts
that the callback routes by. `Foreign` are messages of others, unroutable or unreadable.
`links` are the connections that are up; a publisher may use one that is down without
noticing. `missed` is the last message published before the listener had bound its queue.

**`Delivery`** — the abstract specification of such a chain: what comes out is a subsequence
of what went in.

**`FieldLookup`** — `get_creds()` and `get_fields_from_sections()` as operators on an item, a
sequence of labelled sections and a sequence of labelled fields: `Lookup` (the connect
client's; the service client resolves a path itself), `ConnectFields`, `ServiceFields`. The
sections may be `None`, as the SDK has it for an item without any; each function refuses
that in its own way, and the fields are a list. The
loop of the latter two is `Filling`, a recursive function of the number of fields read.

**`Credentials`** — the store over it. A caller of `is_flag_enabled()` or
`get_boto_session()` looks for the global `_creds` (`Call`), makes a store and assigns it
(`Construct`), validates with one client and then with the other (`ValidateConnect`,
`ValidateService`), and asks. Each of these is a step, since other callers run in between
and the global is read again. `environment` stands for the process's environment, its
secret files, and the vaults the servers list.

**`ConfigInterpol`** — `main()` as its two loops and its output, one step per option. `Get`
is `ConfigParser.get()` with `vars=os.environ`, whose interpolation is the recursive function
`Expansion` of the depth. `Depth` is one more than `MAX_INTERPOLATION_DEPTH`, since
`configparser` counts the references and not the plain value at their end.

**`Induction`** — lemmas about sets of natural numbers, for the proofs.

## The runs

| Run | Instance | Distinct states | Shows |
|---|---|---|---|
| `shutdown` | a relay that is constructed late, two signals, grace 1 | 344,000 | `Lifecycle` is implemented; shutdowns complete; deaths are noticed; flag before event; who closes which socket when |
| `mq_threads` | a RabbitMQ relay and a listener, no signal, grace 0; the nanny may die in its set-up or while it prints stacks | 285,000 | a failure shows in the exit code; no alarm without a death; without a nanny the threads end a shutdown on their own, but for a socket that is abandoned for ever |
| `event_outside` | a worker, two nested SIGTERMs outside critical sections | 11,000 | no lost wake-up, every set flag reaches the event, `AtomicEvent`; the event always wakes the main thread |
| `boto_sessions` | a caller and a poster; `Session()` may fail; the clock always runs | 260,000 | how far apart session and expiry may come, and how stale a returned session may be, unless a refresh is torn; a session is never without an expiry |
| `publisher` | three tries, three calls | 2,400 | duplicates, channel reuse, termination |
| `message_flow` | two messages of four kinds, a foreign one, room for one between listener and relay | 144,000 | order, times, loss, `Delivery`, arrival |
| `credentials` | two callers, 12 environments, 17 items | 79,000 | the shared store, the vault, the look-ups |
| `config_interpol` | 18 bases, 12 overlays or none, 3 environments | 6,700 | completeness, precedence, failure |
| `stale_flag`, `event_anywhere`, `boto_metrics`, `defaults_emitted` | | | one disagreement each, see below |

*Bounds.* `shutdown` has one thread that fails, the nanny that fails, the main thread and
nested signal handlers in `die()` at once, and a thread that is still being made while the
nanny sweeps; `mq_threads` has two threads that fail, and the nanny. A `ZmqWorker` is a
`ZmqRelay` without a socket of its own, and is in a run only where it differs (`stale_flag`);
the theorems are about any number of threads of any class. `Grace` is 1 in `shutdown`, where
passes within the period exist, and 0 in `mq_threads`. `MaxSignals` = 2 lets a signal interrupt
another's handler, or `term()` after the first has begun the shutdown. `MaxTime` = 4 in
`BotoSession` covers two lifetimes of the credentials (`Life` = 2), so that a session is
refreshed, and torn, once it has expired; `CallTime` = 1 lets the clock tick anywhere in a call,
which is enough for racing expiries to differ. Three
calls in `Publisher` let a handle left by one call be reused by the next and lost
under a third; three tries are the code's. Two messages in `message_flow` can overtake
each other, be duplicated, or have one lost between them and the other not, and with room
for one the listener waits while both relays work; any event may be in either place. In
`credentials` two callers race for the global, a third would repeat one of them; the
environments have one client, both or none, and a vault both, one or none of them lists;
items have no sections, or two that may share a label and two fields that may, in and out of
sections. In `config_interpol` a chain of references has up to three options, which is as
many as there are, so that longer chains are cycles: `Depth` = 3 stands for the eleven
options that a chain may have in `configparser`. The theorems do not depend on any of
these bounds.

*Fairness.* In `Shutdown` the main thread, the nanny, and the calls of `die()` that
they and the signal handlers make are weakly fair: they run only this library's
code and waits that time out (the nanny's `wait(60)` and `sleep(2)`, Sentry's
`flush(timeout=2.0)` and `close(timeout=1.0)`), except for `wait()` and `term()` of the
main thread, which are guarded by the state they wait for (`MainWake` by the event,
`MainTermReturn` by the last socket). Nothing is assumed of application
threads: each may block for ever at any place. That is why `ShutdownCompletes`
says something: it rests on the nanny's sweep alone. `ThreadsEndShutdown` is about the other
half of the shutdown, the one that is left when the nanny is dead, and is checked under
`CooperativeSpec`, which adds that the threads' own code comes to an end: `startup()`,
`process_message()`, the handler, a `die()` of theirs, and `recv_pyobj()` of a terminated
context. It does not add that a message comes, that a listener leaves `start_consuming()`, that
a constructed thread is started, or that the garbage collector runs. `SleepEvent` assumes strong
fairness of its threads, because a thread that waits for a lock which is taken
and released again and again is enabled again and again only; the nanny leaves the
lock alone for two seconds in every pass. Of the nanny it assumes only that it leaves
`die()` and the methods of the event, not that it gets to its next pass, so that
`InterruptsSleepers` is about `die()` and not about the nanny, which sets the event
again. `Publisher` assumes that a call of pika
returns or raises. `MessageFlow` assumes weak fairness of its three threads: their waits on
the network end, by timeouts and heartbeats, in an exception, and `Arrives` is about what
happens as long as nothing fails. `BotoSession`, `Credentials` and `ConfigInterpol` state no
liveness property and no fairness.

*Deadlock* is checked in the other runs. `Exited` in `Shutdown` is the stuttering of
a process that is gone. Four runs switch the check off because the system may really stop:
`event_anywhere`, which is about that; `message_flow`, where every thread may be dead;
`config_interpol` and `defaults_emitted`, a program that ends.

*Mutants.* Operators named `Mut...` stand before the definition they corrupt. For
each property of a passing run there is one that a plausible slip in the code would
produce, and under which TLC finds the property violated.

## The proofs

The modules `..._proofs` contain no unproved step. They use the named assumptions on the
constants (`ThreadsAssumption`, `KindAssumption`, `NannyAssumption`, `ShutdownAssumption`,
`SleepAssumption`, `PublisherAssumption`, `BotoAssumption`, `FlowAssumption`,
`CredentialsAssumption`, `ConfigAssumption`), which TLC also evaluates, and nothing else; the
sets of threads, callers, events, items and files may be infinite. Every invariant and every
action property of a passing run is proved.

- `TypeCorrect`, in each module: `[]TypeOK`.
- `WokenSafe`, `FailureSafe` and `Refinement` come from one inductive invariant about
  `die()` and the exit. `WokenSeesShutdown` is not inductive by itself: it takes that
  an actor about to set the event has raised the flag. `FailureExitsNonZero` takes
  that a failing actor past the latch has left something in it, that the actor who
  stopped the process is recorded with the flag, and that the main thread reaches
  `bye()` only after the flag. Failures that are latched once `bye()` has read the latch do
  not disturb it: whoever raised the flag has latched before. The same facts make each step a
  step of `Lifecycle` or a stutter.
- `SocketsSafe` and `HandledDeathSafe` come from an invariant that ties the state of a
  thread's two sockets to its place in `run()`, and that says the sweep runs only once
  `elapsed` exceeds `Grace`. Collecting the socket of an abandoned handler is the case
  that needs `exc[t]`.
- `AlarmSafe`: under `LateThread = {}`, a name missing from the snapshot belongs to a
  thread that was dead when the snapshot was taken, and the dead stay dead. The
  hypothesis is needed: a thread that is constructed but not started is tracked and
  not alive, and a pass of the nanny in between stops the process.
- `WakeupSafe`, `FlagSafe` and `WakesSafe` of `SleepEvent` share one invariant:
  a runner is in a critical section just when it has the lock; whoever is about to notify has
  set the event, and whoever is about to go to sleep has found it not set, which stays so
  because the other would need the lock (`OrderInv`); the frames above the running one have
  returned (`FrameInv`). None of it depends on where signals come, nor does `Refinement`, which
  maps each step to one of `AtomicEvent` or a stutter: a handler that comes at the wrong moment
  costs progress, never safety.
- `CopiesBounded`, `ChannelClean` and `AssertionUnreachable` come from an invariant of
  the retry loop that relates `tries`, `copies`, `attempt` and what the clean-up will
  close. From the same invariant `CallBounded` shows that `Remaining`, a number fixed by the
  tries left and the place in the loop, falls with each step of a call.
- `ExpirySafe`, `PairSafe`, `FreshSafe` of `BotoSession` hold for any number of racing callers,
  any lifetime and any `CallTime` below it. Two refreshes whose assignments interleave pair
  one's session with the other's expiry, and so the invariant speaks of windows: a caller that
  has looked at the expiry is through within `CallTime`, and what it got from `assume_role()`
  expires a lifetime after some moment of that window (`CallInv`); the cached expiry is no
  further off than one fetched now would be, and one that has overwritten that of a caller
  about to make its session is not much older (`ExpiryInv`); who is about to return has seen
  a session, or has made one (`ReturnInv`).
- `OrderSafe`, `EventsSafe`, `NothingLostSafe` and `Refinement` of `MessageFlow` share one
  invariant: who has a message in hand has one; what a message at each stage has in common
  with the event it was sent as (`ContentInv`); what was missed is older than anything not
  yet published (`MissedInv`). Order alone is not inductive at the step in which a stage
  passes its head on: it takes that ids are unique and bounded by what was sent. Lemmas say
  what moving, dropping, appending and cutting do to the stages, once for all actions.
- `CachedSafe` and `VaultSafe` of `Credentials`: somebody who is about to validate the
  cached store exists as long as nobody has (`WatchInv`), however callers replace the
  store; and a validated store's vault is one a client has listed, which a later
  validation may change, but only to another such vault (`KnownInv`).
- `LookupSafe` and `FieldsSafe` of `Credentials` say what the look-ups compute, for items with
  any number of sections and fields. A look-up is exact because a set of places has a least
  one (`LeastNumber`). The loop over the fields takes induction: `Filled` says what the
  dictionary, or the exception, after `n` fields has to do with the first `n` fields, and
  `FillStep` that one field more keeps it so.
- `Complete` of `ConfigInterpol`: what the loops have noted and what they have ahead make up
  what the program looks at, and so do the printed sections and those to print; what a section
  has of its own is among that. Its invariant also
  has that each value is `Get` of the file that counts.
- `ValuesSafe` and `FailureSafe` of `ConfigInterpol` add what `Get` computes. A `Chain` is a
  sequence of options each of which refers to the next, with the texts along it; `Means` says
  of a level of the recursion that its value is the texts of a chain no longer than the level,
  or that there is no such chain; `LevelMeans` goes up one level.

Induction over data is done without the library's induction theorems, which take an operator
as a parameter. The numbers for which a statement holds are a set, and `RangeInduction` is a
lemma about sets, which rests on the well-foundedness of `<` on the naturals. A recursive
function is a `CHOOSE` of a function that satisfies its equation, so that a lemma first builds
one, by the same induction (`FillsExist`, `LevelsExist`).

Checked by TLC only: the liveness properties (`ShutdownCompletes`, `ThreadsEndShutdown`,
`DeathIsNoticed`, `CallEnds`, `InterruptsSleepers`, `Arrives`, and the fairness parts
of `KeepsPromise` and `IsAtomic`), since neither fairness nor `ENABLED` is within the prover's reach.

## Disagreements between the code and what it says

Four runs end in a counterexample on purpose; each states something the repository
says of itself.

- `stale_flag` — `from .threads import shutting_down` in `app.py` binds `False` for good,
  so the loops of `ZmqRelay` and `ZmqWorker` never see the flag. They end only when the
  context is terminated or the nanny closes their socket.
- `event_anywhere` — `terminate()` calls `Event.set()` on the thread that may be inside
  `Event.wait()` of the same event, holding its lock: the process hangs.
- `boto_metrics` — the CloudWatch client is cached without an expiry and outlives its
  credentials.
- `defaults_emitted` — `config_interpol.py` says in lines 29 and 47 that it does not use
  `items()` "to avoid emitting the defaults too", but `options()` has them as well: the options
  of `[DEFAULT]` are printed in every section.

More are visible in the models without a run of their own, and are among the hazards:

- between the assignments of expiry and session another caller is given the expired session,
  and after a `Session()` that raised everybody is, for an hour (the properties of
  `boto_sessions` exclude this by `torn`, and fail without it); and two callers that refresh
  together may leave one's session with the other's expiry, which differ by no more than the
  time of a call (`ExpiryFitsSession` fails for equality);
- a failure that is latched while `bye()` is past its look at the latch does not show in the
  exit code (`Lifecycle` allows it; the failure that stops the process always shows);
- `app_config.get()` raises on a missing `cronitor_monitor_key`, which the next line expects
  as `None`; the nanny dies in its set-up;
- a thread constructed late raises a false alarm (`AlarmMeansDeath` with a non-empty
  `LateThread`), two listeners with one URL share a name and hide each other's death
  (`DeathIsNoticed` with a `Name` that is not injective), and a non-daemon thread that ends
  while its stack is being printed kills the nanny, after which a blocked thread hangs the
  shutdown (`ShutdownCompletes` with `Lingerers = TRUE`), as do a waiting listener and the
  socket of a thread that died in `__enter__` (`Abandoned` in `ThreadsEndShutdown`);
- an event that is a number ends the relay and its process (`RelayPublish`);
- with both 1Password clients the vault of the second is asked of the first
  (`AsksKnownVault` promises only that one of them listed it), and a store that failed its
  validation stays cached (`CachedStoreIsValidated` holds until a validation fails);
- the options of an overlay's `[DEFAULT]` override the base's own of every section that both
  files have (`Overlaid`).

## What is assumed

- The interpreter has its global lock, so that the latch's test and assignment in
  `die()` are one step. Sentry's client returns from `flush()` and `close()`.
- Outside `SleepEvent`, operations on the event are atomic; `SleepEvent` shows how far they
  are: always as to safety, and as to progress if signals stay out of its critical sections.
- The main thread's behaviour (see `Shutdown`); the application starts its threads, those
  in `LateThread` apart, before the nanny.
- Time is counted in passes of the nanny; the wall clock is not set during the
  shutdown. A call of
  `get_boto_session()` is through within `CallTime` of its look at the expiry, which is less
  than the lifetime of the credentials: these live for fifteen minutes at least, and the
  timeouts and retries of `assume_role()` are shorter.
- The nanny's snapshot is one step: `threading.enumerate()` copies the list, and
  a thread that ends between the copy and `is_alive()` counts as dead.
- A second signal during a handler: the steps of the interrupted handler repeat what
  the second one has done and are left out. A signal inside `term()` interrupts the call,
  which then returns early; the application goes on to `bye()`.
- A terminated context does not wake a ZMQListener: it waits in pika, and its callback
  swallows a failing send during the shutdown.
- In `MessageFlow` whoever is behind the `ZmqRelay` reads what it sends. The foreign messages
  are those that the listener must ignore; one that is routable and readable would be taken
  for the application's own. The packing is exact; a broker keeps the order of one publisher.
- In `Credentials` the servers' lists of vaults and the environment stay as they are, the two
  globals (of `aws/` and of `flags.py`) are two instances of the one modelled, and
  `answer = None` stands for whatever gets no answer: an exception of the service, an item
  that is not there (for which the service client's `get_fields_from_sections()` returns an
  empty dictionary and the connect client raises). One item has the title asked for.
- In `ConfigInterpol` a value refers to at most one option, at its end, and has no stray `%`.

## Not modelled

Log output, Cronitor pings (failures are swallowed), the asyncio context (nothing in the
library creates a socket of it), `exec_cmd()`, the bootstrap (it runs once, before any thread),
timestamps and device records (conversions without state), Bluetooth and the remaining tools
(commands and files); `PROJECT.json` gives a reason for each.

## The plan

Done, in this order: `Threads`, `Zmq`, `AppThreads`, `ThreadNanny`, `Shutdown` with
`Lifecycle` and their proofs; `SleepEvent` with `AtomicEvent` and their proofs; `BotoSession` and its
proofs; `Publisher` and its proofs; `MessageFlow` with `Delivery` and their proofs; `FieldLookup`
and `Credentials` and their proofs; `ConfigInterpol` and its proofs; `Induction`.

Next:

1. The other flag combinations of `exception_handler`, and the request and reply of
   `ZmqWorker` seen from its client, which waits for ever when the worker dies in between.
2. `make_timestamp()`: which of its inputs are converted to the time zone asked for.
3. Theorems: the safety halves of the remaining liveness properties, as `CallBounded` is one of
   `CallEnds`: that somebody who can move always carries the shutdown on, and what a pass of the
   nanny brings nearer.

---------------------------- MODULE BotoSession ----------------------------
(***************************************************************************)
(* The module-level caches of aws/: get_boto_session() keeps a session and *)
(* the expiry of its credentials in two globals that no lock protects, and *)
(* aws/metrics.py keeps a client of the first session it was given.        *)
(*                                                                         *)
(* A session, and a client of it, is represented by the time its           *)
(* credentials expire.                                                     *)
(***************************************************************************)
EXTENDS Integers

CONSTANTS
  Caller,       \* the threads that call get_boto_session()
  Poster,       \* those among them that do it in post_count_metric()
  None,
  Life,         \* the lifetime of the credentials assume_role() returns
  CallTime,     \* bound on how long a call takes once it has looked at the expiry
  MaxTime,      \* bound on the clock
  SessionFails  \* may Session(...) raise?

ASSUME BotoAssumption ==
  /\ Poster \subseteq Caller
  /\ Life \in Nat /\ CallTime \in 0 .. Life - 1
  /\ MaxTime \in Nat /\ None \notin Nat
  /\ SessionFails \in BOOLEAN

VARIABLES
  now,
  _creds,                \* the cached credential store, if any
  _boto_session,
  _boto_session_expiry,
  _app_metrics,          \* the cached CloudWatch client, if any
  pc,                    \* where each caller is
  asked,                 \* when each caller last called, or looked at the expiry
  credentials,           \* the credentials each caller got from assume_role()
  torn                   \* has an expiry been cached and no session since?

vars == <<now, _creds, _boto_session, _boto_session_expiry, _app_metrics, pc,
          asked, credentials, torn>>

Time == 0 .. MaxTime + Life

TypeOK ==
  /\ now \in 0 .. MaxTime
  /\ _creds \in {None, "constructed", "validated"}
  /\ _boto_session \in Time \cup {None}
  /\ _boto_session_expiry \in Time \cup {None}
  /\ _app_metrics \in Time \cup {None}
  /\ pc \in [Caller -> {"idle", "creds", "construct", "validate", "fetch", "check", "assume",
                        "expiry", "session", "return", "post"}]
  /\ asked \in [Caller -> 0 .. MaxTime]
  /\ credentials \in [Caller -> Time]
  /\ torn \in BOOLEAN

Init ==
  /\ now = 0
  /\ _creds = None
  /\ _boto_session = None /\ _boto_session_expiry = None
  /\ _app_metrics = None
  /\ pc = [c \in Caller |-> "idle"]
  /\ asked = [c \in Caller |-> 0]
  /\ credentials = [c \in Caller |-> 0]
  /\ torn = FALSE

-----------------------------------------------------------------------------
session == <<_boto_session, _boto_session_expiry, torn>>

Goto(c, label) == pc' = [pc EXCEPT ![c] = label]

\* An exception leaves every cache as it is.
Raise(c) == Goto(c, "idle")

\* The clock ticks between any two steps.  A call is through within CallTime of
\* its look at the expiry: credentials live for a quarter of an hour at least, and
\* assume_role() has timeouts of a minute and few retries.
Tick ==
  /\ now < MaxTime
  /\ \A c \in Caller :
       pc[c] \in {"assume", "expiry", "session", "return"} => now < asked[c] + CallTime
  /\ now' = now + 1
  /\ UNCHANGED <<_creds, session, _app_metrics, pc, asked, credentials>>

\* A call; one for a metric goes straight to the post when there is a client.
Call(c) ==
  /\ pc[c] = "idle"
  /\ asked' = [asked EXCEPT ![c] = now]
  /\ Goto(c, IF c \in Poster /\ _app_metrics # None THEN "post" ELSE "creds")
  /\ UNCHANGED <<now, _creds, session, _app_metrics, credentials>>

\* The store is cached when it is constructed, before it is validated.
GetCreds(c) ==
  /\ \/ pc[c] = "creds" /\ Goto(c, IF _creds = None THEN "construct" ELSE "fetch")
        /\ UNCHANGED _creds
     \/ pc[c] = "construct" /\ Raise(c) /\ UNCHANGED _creds
     \/ pc[c] = "construct" /\ Goto(c, "validate") /\ _creds' = "constructed"
     \/ pc[c] = "validate" /\ Raise(c) /\ UNCHANGED _creds
     \/ pc[c] = "validate" /\ Goto(c, "fetch") /\ _creds' = "validated"
     \/ pc[c] = "fetch" /\ (Raise(c) \/ Goto(c, "check")) /\ UNCHANGED _creds
  /\ UNCHANGED <<now, session, _app_metrics, asked, credentials>>

\* A test that takes credentials to be good in the instant of their expiry.
MutRefresh == _boto_session = None \/ _boto_session_expiry < now

Refresh == _boto_session = None \/ _boto_session_expiry <= now

Check(c) ==
  /\ pc[c] = "check"
  /\ asked' = [asked EXCEPT ![c] = now]
  /\ Goto(c, IF Refresh THEN "assume" ELSE "return")
  /\ UNCHANGED <<now, _creds, session, _app_metrics, credentials>>

AssumeRole(c) ==
  /\ pc[c] = "assume"
  /\ \/ Raise(c) /\ UNCHANGED credentials
     \/ Goto(c, "expiry") /\ credentials' = [credentials EXCEPT ![c] = now + Life]
  /\ UNCHANGED <<now, _creds, session, _app_metrics, asked>>

\* A refresh that takes the expiration for a duration.
MutLateExpiry(c) ==
  /\ pc[c] = "expiry"
  /\ _boto_session_expiry' = now + credentials[c] /\ torn' = TRUE
  /\ Goto(c, "session")
  /\ UNCHANGED <<now, _creds, _boto_session, _app_metrics, asked, credentials>>

\* A refresh that caches the session first and its expiry second.
MutSetExpiry(c) ==
  /\ pc[c] = "expiry"
  /\ _boto_session' = credentials[c] /\ torn' = TRUE
  /\ Goto(c, "session")
  /\ UNCHANGED <<now, _creds, _boto_session_expiry, _app_metrics, asked, credentials>>

SetExpiry(c) ==
  /\ pc[c] = "expiry"
  /\ _boto_session_expiry' = credentials[c] /\ torn' = TRUE
  /\ Goto(c, "session")
  /\ UNCHANGED <<now, _creds, _boto_session, _app_metrics, asked, credentials>>

\* A refresh that extends the expiry and keeps the session it has.
MutSetSession(c) ==
  /\ pc[c] = "session"
  /\ _boto_session' = (IF _boto_session = None THEN credentials[c] ELSE _boto_session)
  /\ torn' = FALSE
  /\ Goto(c, "return")
  /\ UNCHANGED <<now, _creds, _boto_session_expiry, _app_metrics, asked, credentials>>

\* The expiry is cached, and only then the session is made, which may raise.
SetSession(c) ==
  /\ pc[c] = "session"
  /\ \/ Goto(c, "return") /\ _boto_session' = credentials[c] /\ torn' = FALSE
     \/ SessionFails /\ Raise(c) /\ UNCHANGED <<_boto_session, torn>>
  /\ UNCHANGED <<now, _creds, _boto_session_expiry, _app_metrics, asked, credentials>>

\* get_boto_session() returns whatever the global holds by now; a poster makes
\* its client from it, which may raise.
Return(c) ==
  /\ pc[c] = "return"
  /\ \/ c \in Poster /\ Goto(c, "post") /\ _app_metrics' = _boto_session
     \/ Goto(c, "idle") /\ UNCHANGED _app_metrics
  /\ UNCHANGED <<now, _creds, session, asked, credentials>>

\* put_metric_data() with the cached client; its failure is only logged.
Post(c) ==
  /\ pc[c] = "post"
  /\ Goto(c, "idle")
  /\ UNCHANGED <<now, _creds, session, _app_metrics, asked, credentials>>

Next ==
  \/ Tick
  \/ \E c \in Caller :
       \/ Call(c) \/ GetCreds(c) \/ Check(c) \/ AssumeRole(c) \/ SetExpiry(c)
       \/ SetSession(c) \/ Return(c) \/ Post(c)

Spec == Init /\ [][Next]_vars

-----------------------------------------------------------------------------
\* Refreshes race: one may cache its expiry, then another its expiry and its
\* session, and then the first its session.  What is cached then is a session
\* with the expiry of another one, but never one that is further off than a call
\* takes: callers do not trust a session for longer than that.  It takes no more
\* than a session to follow the expiry, whosever it is: torn says that none has,
\* since a caller is about to make it, or its Session() has raised.
ExpiryFitsSession ==
  ~torn /\ _boto_session # None =>
    /\ _boto_session_expiry <= _boto_session + CallTime
    /\ _boto_session <= _boto_session_expiry + CallTime

\* Whoever races it, a caller is handed a session that had not expired, or had
\* for no longer than a call takes, when it looked at the expiry, unless a
\* session was due when it got it.
FreshUnlessTorn ==
  \A c \in Caller : pc[c] = "return" /\ ~torn => _boto_session + CallTime > asked[c]

\* Whoever finds a session finds an expiry to compare with the clock: None is
\* no datetime, and the comparison would raise a TypeError.
ExpiryBeforeSession == _boto_session # None => _boto_session_expiry # None

\* A metric is posted with credentials that were alive when it was asked for.
MetricsUseLiveCredentials == \A c \in Poster : pc[c] = "post" => _app_metrics > asked[c]
=============================================================================

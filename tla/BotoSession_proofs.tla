------------------------- MODULE BotoSession_proofs -------------------------
(***************************************************************************)
(* Proofs about BotoSession, for any number of callers, any lifetime of    *)
(* the credentials and any stretch of time.                                *)
(***************************************************************************)
EXTENDS BotoSession, TLAPS

Busy == {"assume", "expiry", "session", "return"}

\* The window of a call: it ends within CallTime, and what assume_role() gave it
\* expires Life after some moment of it.
CallInv ==
  \A c \in Caller :
    /\ pc[c] \in Busy => asked[c] <= now /\ now <= asked[c] + CallTime
    /\ pc[c] \in {"expiry", "session"} =>
         asked[c] + Life <= credentials[c] /\ credentials[c] <= now + Life

\* No cached expiry is further off than one fetched now would be, and one that
\* overwrote that of a caller about to make its session is not much older.
ExpiryInv ==
  /\ _boto_session_expiry # None => _boto_session_expiry <= now + Life
  /\ \A c \in Caller : pc[c] = "session" =>
       /\ _boto_session_expiry # None
       /\ credentials[c] <= _boto_session_expiry + CallTime

\* Who is about to return has seen a session, or has made one.
ReturnInv == \A c \in Caller : pc[c] = "return" => _boto_session # None

Inv ==
  /\ TypeOK /\ CallInv /\ ExpiryInv /\ ReturnInv
  /\ ExpiryBeforeSession /\ ExpiryFitsSession /\ FreshUnlessTorn

LEMMA InitInv == Init => Inv
<1> SUFFICES ASSUME Init PROVE Inv
  OBVIOUS
<1>1. TypeOK
  <2>1. 0 \in Time /\ 0 \in 0 .. MaxTime
    BY BotoAssumption DEF Time
  <2>2. QED
    BY <2>1 DEF Init, TypeOK
<1>2. CallInv /\ ExpiryInv /\ ReturnInv
  BY DEF Init, CallInv, ExpiryInv, ReturnInv, Busy
<1>3. ExpiryBeforeSession /\ ExpiryFitsSession /\ FreshUnlessTorn
  BY DEF Init, ExpiryBeforeSession, ExpiryFitsSession, FreshUnlessTorn
<1>4. QED
  BY <1>1, <1>2, <1>3 DEF Inv

LEMMA TimeIsNat == Time \subseteq Nat /\ None \notin Time
BY BotoAssumption DEF Time

LEMMA NextType == TypeOK /\ [Next]_vars => TypeOK'
<1> SUFFICES ASSUME TypeOK, [Next]_vars PROVE TypeOK'
  OBVIOUS
<1> USE BotoAssumption DEF TypeOK, Goto, Raise, session
<1>1. CASE Tick
  BY <1>1 DEF Tick
<1>2. ASSUME NEW c \in Caller, Call(c) PROVE TypeOK'
  BY <1>2 DEF Call
<1>3. ASSUME NEW c \in Caller, GetCreds(c) PROVE TypeOK'
  BY <1>3 DEF GetCreds
<1>4. ASSUME NEW c \in Caller, Check(c) PROVE TypeOK'
  BY <1>4 DEF Check
<1>5. ASSUME NEW c \in Caller, AssumeRole(c) PROVE TypeOK'
  <2>1. now + Life \in Time
    BY DEF Time
  <2>2. QED
    BY <1>5, <2>1 DEF AssumeRole
<1>6. ASSUME NEW c \in Caller, SetExpiry(c) PROVE TypeOK'
  BY <1>6 DEF SetExpiry
<1>7. ASSUME NEW c \in Caller, SetSession(c) PROVE TypeOK'
  <2>1. /\ torn' \in BOOLEAN
        /\ UNCHANGED <<now, _creds, _boto_session_expiry, _app_metrics, asked, credentials>>
    BY <1>7, Zenon DEF SetSession
  <2>4. _boto_session' \in Time \cup {None}
    BY <1>7 DEF SetSession
  <2>2. pc' \in [Caller -> {"idle", "creds", "construct", "validate", "fetch", "check",
                            "assume", "expiry", "session", "return", "post"}]
    BY <1>7 DEF SetSession
  <2>3. QED
    BY <2>1, <2>2, <2>4
<1>8. ASSUME NEW c \in Caller, Return(c) PROVE TypeOK'
  BY <1>8 DEF Return
<1>9. ASSUME NEW c \in Caller, Post(c) PROVE TypeOK'
  BY <1>9 DEF Post
<1>10. CASE UNCHANGED vars
  BY <1>10 DEF vars
<1>11. QED
  BY <1>1, <1>2, <1>3, <1>4, <1>5, <1>6, <1>7, <1>8, <1>9, <1>10 DEF Next

\* What the types say of the numbers that the steps compare.
LEMMA Numbers ==
  ASSUME TypeOK
  PROVE  /\ now \in Nat /\ Life \in Nat /\ CallTime \in Nat /\ CallTime < Life
         /\ \A c \in Caller : asked[c] \in Nat /\ credentials[c] \in Nat
         /\ _boto_session # None => _boto_session \in Nat
         /\ _boto_session_expiry # None => _boto_session_expiry \in Nat
<1>1. Life \in Nat /\ CallTime \in Nat /\ CallTime < Life /\ MaxTime \in Nat
  BY BotoAssumption
<1>2. now \in Nat /\ \A c \in Caller : asked[c] \in Nat
  BY <1>1 DEF TypeOK
<1>3. \A c \in Caller : credentials[c] \in Nat
  BY TimeIsNat DEF TypeOK
<1>4. /\ _boto_session # None => _boto_session \in Nat
      /\ _boto_session_expiry # None => _boto_session_expiry \in Nat
  BY TimeIsNat DEF TypeOK
<1>5. QED
  BY <1>1, <1>2, <1>3, <1>4

\* The steps that leave the cached session alone: who may return afterwards could
\* before, or has just found the expiry to lie ahead.
LEMMA QuietSteps ==
  ASSUME Inv, UNCHANGED session, TypeOK', CallInv', now' \in {now, now + 1},
         \A c \in Caller : pc'[c] = "session" =>
           pc[c] = "session" /\ credentials'[c] = credentials[c],
         \A c \in Caller : pc'[c] = "return" =>
           \/ pc[c] = "return" /\ asked'[c] = asked[c]
           \/ ~Refresh /\ asked'[c] = now
  PROVE  Inv'
<1>1. ExpiryFitsSession' /\ ExpiryBeforeSession'
  BY DEF Inv, session, ExpiryFitsSession, ExpiryBeforeSession
<1>2. ExpiryInv'
  BY Numbers DEF Inv, session, ExpiryInv
<1>3. ASSUME NEW c \in Caller, pc'[c] = "return"
      PROVE  /\ _boto_session # None
             /\ ~torn => _boto_session + CallTime > asked'[c]
  <2>1. CASE pc[c] = "return" /\ asked'[c] = asked[c]
    BY <2>1 DEF Inv, ReturnInv, FreshUnlessTorn
  <2>2. CASE ~Refresh /\ asked'[c] = now
    <3>1. _boto_session # None /\ _boto_session_expiry # None
      BY <2>2 DEF Refresh, Inv, ExpiryBeforeSession
    <3>2. _boto_session_expiry > now
      BY <2>2, <3>1, Numbers DEF Refresh, Inv
    <3>3. ~torn => _boto_session_expiry <= _boto_session + CallTime
      BY <3>1 DEF Inv, ExpiryFitsSession
    <3>4. QED
      BY <2>2, <3>1, <3>2, <3>3, Numbers DEF Inv
  <2>3. QED
    BY <1>3, <2>1, <2>2
<1>4. ReturnInv' /\ FreshUnlessTorn'
  BY <1>3 DEF session, ReturnInv, FreshUnlessTorn
<1>5. QED
  BY <1>1, <1>2, <1>4 DEF Inv

\* An expiry that is cached is one of the last that could be: whoever it
\* overwrites is still in its own call.
LEMMA SetExpiryInv ==
  ASSUME Inv, TypeOK', NEW c \in Caller, SetExpiry(c)
  PROVE  Inv'
<1>1. /\ pc[c] = "expiry" /\ pc' = [pc EXCEPT ![c] = "session"]
      /\ _boto_session_expiry' = credentials[c] /\ torn'
      /\ UNCHANGED <<now, _boto_session, asked, credentials>>
  BY DEF SetExpiry, Goto
<1>2. pc \in [Caller -> {"idle", "creds", "construct", "validate", "fetch", "check",
                         "assume", "expiry", "session", "return", "post"}]
  BY DEF Inv, TypeOK
<1>3. /\ asked[c] + Life <= credentials[c] /\ credentials[c] <= now + Life
      /\ now <= asked[c] + CallTime
  BY <1>1 DEF Inv, CallInv, Busy
<1>4. CallInv'
  BY <1>1, <1>2 DEF Inv, CallInv, Busy
<1>5. credentials[c] # None
  BY BotoAssumption, Numbers DEF Inv
<1>6. ASSUME NEW d \in Caller, pc'[d] = "session"
      PROVE  credentials[d] <= credentials[c] + CallTime
  <2>1. credentials[d] <= now + Life
    BY <1>1, <1>2, <1>6 DEF Inv, CallInv
  <2>2. QED
    BY <1>3, <2>1, Numbers DEF Inv
<1>7. ExpiryInv'
  BY <1>1, <1>3, <1>5, <1>6 DEF ExpiryInv
<1>8. ReturnInv' /\ ExpiryBeforeSession' /\ ExpiryFitsSession' /\ FreshUnlessTorn'
  BY <1>1, <1>2, <1>5 DEF Inv, ReturnInv, ExpiryBeforeSession, ExpiryFitsSession, FreshUnlessTorn
<1>9. QED
  BY <1>4, <1>7, <1>8 DEF Inv

\* Whosever expiry a new session meets, both were fetched within one call's time.
LEMMA SetSessionInv ==
  ASSUME Inv, TypeOK', NEW c \in Caller, SetSession(c)
  PROVE  Inv'
<1>1. /\ pc[c] = "session"
      /\ UNCHANGED <<now, _boto_session_expiry, asked, credentials>>
  BY DEF SetSession
<1>2. pc \in [Caller -> {"idle", "creds", "construct", "validate", "fetch", "check",
                         "assume", "expiry", "session", "return", "post"}]
  BY DEF Inv, TypeOK
<1>3. CASE /\ pc' = [pc EXCEPT ![c] = "return"]
           /\ _boto_session' = credentials[c] /\ torn' = FALSE
  <2>1. /\ asked[c] + Life <= credentials[c] /\ credentials[c] <= now + Life
        /\ asked[c] <= now /\ now <= asked[c] + CallTime
    BY <1>1 DEF Inv, CallInv, Busy
  <2>2. /\ _boto_session_expiry # None /\ _boto_session_expiry <= now + Life
        /\ credentials[c] <= _boto_session_expiry + CallTime
    BY <1>1 DEF Inv, ExpiryInv
  <2>3. credentials[c] # None
    BY BotoAssumption, Numbers DEF Inv
  <2>4. CallInv'
    BY <1>1, <1>2, <1>3 DEF Inv, CallInv, Busy
  <2>5. ExpiryInv' /\ ReturnInv' /\ ExpiryBeforeSession'
    BY <1>1, <1>2, <1>3, <2>2, <2>3 DEF Inv, ExpiryInv, ReturnInv, ExpiryBeforeSession
  <2>6. ExpiryFitsSession'
    <3>1. _boto_session_expiry <= credentials[c] + CallTime
      BY <2>1, <2>2, Numbers DEF Inv
    <3>2. QED
      BY <1>1, <1>3, <2>2, <3>1 DEF ExpiryFitsSession
  <2>7. ASSUME NEW d \in Caller, pc'[d] = "return"
        PROVE  credentials[c] + CallTime > asked[d]
    <3>1. asked[d] <= now
      BY <1>1, <1>2, <1>3, <2>7 DEF Inv, CallInv, Busy
    <3>2. QED
      BY <2>1, <3>1, Numbers DEF Inv
  <2>8. FreshUnlessTorn'
    BY <1>1, <1>3, <2>7 DEF FreshUnlessTorn
  <2>9. QED
    BY <2>4, <2>5, <2>6, <2>8 DEF Inv
<1>4. CASE pc' = [pc EXCEPT ![c] = "idle"] /\ UNCHANGED <<_boto_session, torn>>
  <2>1. CallInv'
    BY <1>1, <1>2, <1>4 DEF Inv, CallInv, Busy
  <2>2. QED
    BY <1>1, <1>2, <1>4, <2>1, QuietSteps DEF session
<1>5. QED
  BY <1>3, <1>4 DEF SetSession, Goto, Raise

LEMMA NextInv == Inv /\ [Next]_vars => Inv'
<1> SUFFICES ASSUME Inv, [Next]_vars PROVE Inv'
  OBVIOUS
<1>0. TypeOK /\ CallInv /\ TypeOK'
  BY NextType DEF Inv
<1>n. now \in Nat /\ Life \in Nat /\ CallTime \in Nat /\ \A c \in Caller : asked[c] \in Nat /\ credentials[c] \in Nat
  BY <1>0, Numbers
<1> USE DEF Goto, Raise, session
<1>1. CASE Tick
  <2>1. CallInv'
    BY <1>0, <1>n, <1>1 DEF Tick, CallInv, Busy
  <2>2. QED
    BY <1>0, <1>1, <2>1, QuietSteps DEF Tick
<1>2. ASSUME NEW c \in Caller, Call(c) PROVE Inv'
  <2>1. CallInv'
    BY <1>0, <1>n, <1>2 DEF Call, CallInv, Busy, TypeOK
  <2>2. QED
    BY <1>0, <1>2, <2>1, QuietSteps DEF Call, TypeOK
<1>3. ASSUME NEW c \in Caller, GetCreds(c) PROVE Inv'
  <2>1. CallInv'
    BY <1>0, <1>n, <1>3 DEF GetCreds, CallInv, Busy, TypeOK
  <2>2. QED
    BY <1>0, <1>3, <2>1, QuietSteps DEF GetCreds, TypeOK
<1>4. ASSUME NEW c \in Caller, Check(c) PROVE Inv'
  <2>1. CallInv'
    BY <1>0, <1>n, <1>4 DEF Check, CallInv, Busy, TypeOK
  <2>2. QED
    BY <1>0, <1>4, <2>1, QuietSteps DEF Check, TypeOK
<1>5. ASSUME NEW c \in Caller, AssumeRole(c) PROVE Inv'
  <2>1. CallInv'
    BY <1>0, <1>n, <1>5 DEF AssumeRole, CallInv, Busy, TypeOK
  <2>2. QED
    BY <1>0, <1>5, <2>1, QuietSteps DEF AssumeRole, TypeOK
<1>6. ASSUME NEW c \in Caller, SetExpiry(c) PROVE Inv'
  BY <1>0, <1>6, SetExpiryInv
<1>7. ASSUME NEW c \in Caller, SetSession(c) PROVE Inv'
  BY <1>0, <1>7, SetSessionInv
<1>8. ASSUME NEW c \in Caller, Return(c) PROVE Inv'
  <2>1. CallInv'
    BY <1>0, <1>n, <1>8 DEF Return, CallInv, Busy, TypeOK
  <2>2. QED
    BY <1>0, <1>8, <2>1, QuietSteps DEF Return, TypeOK
<1>9. ASSUME NEW c \in Caller, Post(c) PROVE Inv'
  <2>1. CallInv'
    BY <1>0, <1>n, <1>9 DEF Post, CallInv, Busy, TypeOK
  <2>2. QED
    BY <1>0, <1>9, <2>1, QuietSteps DEF Post, TypeOK
<1>10. CASE UNCHANGED vars
  <2>1. CallInv'
    BY <1>0, <1>10 DEF vars, CallInv, Busy
  <2>2. QED
    BY <1>0, <1>10, <2>1, QuietSteps DEF vars
<1>11. QED
  BY <1>1, <1>2, <1>3, <1>4, <1>5, <1>6, <1>7, <1>8, <1>9, <1>10 DEF Next

THEOREM Invariant == Spec => []Inv
BY InitInv, NextInv, PTL DEF Spec

\* Every cache and every caller keeps its type.
THEOREM TypeCorrect == Spec => []TypeOK
<1>1. Inv => TypeOK
  BY DEF Inv
<1>2. QED
  BY <1>1, Invariant, PTL

\* Whoever finds a cached session finds an expiry to compare with the clock.
THEOREM ExpirySafe == Spec => []ExpiryBeforeSession
<1>1. Inv => ExpiryBeforeSession
  BY DEF Inv
<1>2. QED
  BY <1>1, Invariant, PTL

\* Once a session has followed the expiry, the two are those of one refresh or of
\* refreshes that raced: they lie within the time of one call of each other.
THEOREM PairSafe == Spec => []ExpiryFitsSession
<1>1. Inv => ExpiryFitsSession
  BY DEF Inv
<1>2. QED
  BY <1>1, Invariant, PTL

\* get_boto_session() hands out no session that had been expired for as long as a
\* call takes, unless an expiry is cached that no session has followed.
THEOREM FreshSafe == Spec => []FreshUnlessTorn
<1>1. Inv => FreshUnlessTorn
  BY DEF Inv
<1>2. QED
  BY <1>1, Invariant, PTL
=============================================================================

-------------------------- MODULE Publisher_proofs --------------------------
(***************************************************************************)
(* Proofs about Publisher, for every number of retries and of calls.       *)
(***************************************************************************)
EXTENDS Publisher, TLAPS

\* The loop: a turn is taken only within the retries, a turn that fails without
\* an exception leaves another one, and each turn made at most one copy.
LoopInv ==
  /\ pc \notin {"idle", "while"} => tries <= PUBLISH_RETRIES
  /\ pc = "while" => tries <= PUBLISH_RETRIES
  /\ pc = "finally" /\ attempt = "lost" => tries < PUBLISH_RETRIES
  /\ pc = "finally" => attempt \notin {"none", "AssertionError"}
  /\ copies <= IF pc = "finally" THEN tries ELSE tries - 1
  /\ result # "AssertionError"

\* The channel between two calls; an open one belongs to an open connection.
ChannelInv ==
  /\ pc = "idle" /\ channel = "open" => result = "success" /\ "close_channel" \notin closing
  /\ channel = "open" => connection = "open"
  /\ pc = "channel" => connection = "open"

Inv == TypeOK /\ LoopInv /\ ChannelInv

LEMMA InitInv == Init => Inv
<1> SUFFICES ASSUME Init PROVE Inv
  OBVIOUS
<1>2. TypeOK
  BY PublisherAssumption DEF Init, TypeOK, Handle, Error
<1>3. LoopInv /\ ChannelInv
  BY PublisherAssumption DEF Init, LoopInv, ChannelInv
<1>4. QED
  BY <1>2, <1>3 DEF Inv

\* No step leaves the types.
LEMMA TypeStep == Inv /\ [Next]_vars => TypeOK'
<1> SUFFICES ASSUME TypeOK, LoopInv, [Next]_vars PROVE TypeOK'
  BY DEF Inv
<1> USE PublisherAssumption DEF TypeOK, call, outcome
<1>1. CASE Publish
  BY <1>1 DEF Publish
<1>2. CASE While
  BY <1>2 DEF While, EndWith, Error
<1>3. CASE _setup_connection
  BY <1>3 DEF _setup_connection, EndWith, Error, Handle
<1>4. CASE _setup_channel
  BY <1>4 DEF _setup_channel, EndWith, ConnectionLost, ChannelClosed, Error, Handle
<1>5. CASE basic_publish
  <2>1. /\ link' \in {"up", "down"} /\ connection' \in Handle /\ channel' \in Handle
        /\ pc' = "finally" /\ attempt' \in Error \cup {"none", "success", "lost"}
        /\ UNCHANGED <<result, tries, closing, calls>>
    BY <1>5 DEF basic_publish, Finally, ConnectionLost, ChannelClosed, Error, Handle
  <2>2. copies' \in {copies, copies + 1} /\ copies + 1 <= tries /\ tries <= PUBLISH_RETRIES
    BY <1>5 DEF basic_publish, Arrive, LoopInv
  <2>3. QED
    BY <2>1, <2>2
<1>6. CASE CleanUp
  BY <1>6 DEF CleanUp, CloseHandles, Closed, LoopInv, Error, Handle
<1>7. CASE LoseStream \/ stop \/ UNCHANGED vars
  BY <1>7 DEF LoseStream, stop, CloseHandles, Closed, vars, Handle
<1>8. QED
  BY <1>1, <1>2, <1>3, <1>4, <1>5, <1>6, <1>7 DEF Next, Proceed

LEMMA LoopStep == Inv /\ [Next]_vars => LoopInv'
<1> SUFFICES ASSUME TypeOK, LoopInv, [Next]_vars PROVE LoopInv'
  BY DEF Inv
<1>0. /\ tries \in Nat /\ copies \in Nat /\ PUBLISH_RETRIES \in Nat \ {0}
  BY PublisherAssumption DEF TypeOK
<1> USE <1>0 DEF LoopInv
<1>1. CASE Publish
  BY <1>1 DEF Publish
<1>2. CASE While
  BY <1>2 DEF While, EndWith, outcome
<1>3. CASE _setup_connection \/ _setup_channel
  BY <1>3 DEF _setup_connection, _setup_channel, EndWith, outcome
<1>4. CASE basic_publish
  BY <1>4 DEF basic_publish, Finally, Arrive
<1>5. CASE CleanUp
  BY <1>5 DEF CleanUp
<1>6. CASE LoseStream \/ stop \/ UNCHANGED vars
  BY <1>6 DEF LoseStream, stop, outcome, vars
<1>7. QED
  BY <1>1, <1>2, <1>3, <1>4, <1>5, <1>6 DEF Next, Proceed

LEMMA ChannelStep == Inv /\ [Next]_vars => ChannelInv'
<1> SUFFICES ASSUME TypeOK, LoopInv, ChannelInv, [Next]_vars PROVE ChannelInv'
  BY DEF Inv
<1> USE DEF ChannelInv
<1>1. CASE Publish \/ While
  BY <1>1 DEF Publish, While, EndWith, call, outcome, LoopInv
<1>2. CASE _setup_connection \/ _setup_channel
  BY <1>2 DEF _setup_connection, _setup_channel, EndWith, ConnectionLost, ChannelClosed, call,
     outcome
<1>3. CASE basic_publish
  BY <1>3 DEF basic_publish, Finally, ConnectionLost, ChannelClosed
<1>4. CASE CleanUp
  BY <1>4 DEF CleanUp, CloseHandles, ClosesChannel, Closed, call
<1>5. CASE LoseStream \/ stop \/ UNCHANGED vars
  BY <1>5 DEF LoseStream, stop, CloseHandles, Closed, call, outcome, vars
<1>6. QED
  BY <1>1, <1>2, <1>3, <1>4, <1>5 DEF Next, Proceed

\* The invariant holds in every state the publisher reaches.
THEOREM PublisherInvariant == Spec => []Inv
<1>1. Inv /\ [Next]_vars => Inv'
  BY TypeStep, LoopStep, ChannelStep DEF Inv
<1>2. QED
  BY InitInv, <1>1, PTL DEF Spec

\* The publisher's variables keep their types, for every number of retries and calls.
THEOREM TypeCorrect == Spec => []TypeOK
<1>1. Inv => TypeOK
  BY DEF Inv
<1>2. QED
  BY <1>1, PublisherInvariant, PTL

\* The exchange never gets more copies of a message than turns were taken.
THEOREM CopiesBounded == Spec => []NoMoreCopiesThanTries
<1>1. Inv => NoMoreCopiesThanTries
  BY DEF Inv, LoopInv, NoMoreCopiesThanTries
<1>2. QED
  BY <1>1, PublisherInvariant, PTL

\* A channel that outlives a call has published its message.
THEOREM ChannelClean == Spec => []ReusedChannelIsClean
<1>1. Inv => ReusedChannelIsClean
  BY DEF Inv, ChannelInv, ReusedChannelIsClean
<1>2. QED
  BY <1>1, PublisherInvariant, PTL

\* The assertion behind the retry loop is unreachable, for every number of retries.
THEOREM AssertionUnreachable == Spec => []NeverFallsThrough
<1>1. Inv => NeverFallsThrough
  BY DEF Inv, LoopInv, NeverFallsThrough
<1>2. QED
  BY <1>1, PublisherInvariant, PTL

-----------------------------------------------------------------------------
\* How many steps the call has left at most.
Stage == [while |-> 5, connect |-> 4, channel |-> 3, publish |-> 2, finally |-> 1]
Remaining == IF pc = "idle" THEN 0 ELSE 5 * (PUBLISH_RETRIES + 1 - tries) + Stage[pc]

\* Every step of a call brings its end nearer, whatever the stream does: a call
\* can go round the loop no more than PUBLISH_RETRIES times.
CallAdvances == [][pc # "idle" => Remaining' \in 0 .. Remaining - 1 \/ LoseStream]_vars

\* The steps left before and after one of them.
LEMMA Advances ==
  ASSUME Inv, pc # "idle", Next, ~ LoseStream
  PROVE  Remaining' \in 0 .. Remaining - 1
<1>0. PUBLISH_RETRIES \in Nat /\ tries \in 1 .. PUBLISH_RETRIES
      /\ Remaining = 5 * (PUBLISH_RETRIES + 1 - tries) + Stage[pc]
  BY PublisherAssumption DEF Inv, TypeOK, LoopInv, Remaining
<1>1. CASE pc' = "idle"
  <2>1. Remaining' = 0
    BY <1>1 DEF Remaining
  <2>2. Stage[pc] \in 1 .. 5
    BY DEF Inv, TypeOK, Stage
  <2>3. QED
    BY <1>0, <2>1, <2>2
<1>2. ASSUME pc' # "idle"
      PROVE  \/ tries' = tries /\ Stage[pc'] \in 1 .. Stage[pc] - 1
             \/ tries' = tries + 1 /\ tries < PUBLISH_RETRIES /\ Stage[pc] = 1 /\ Stage[pc'] = 5
  <2>1. CASE While
    BY <1>2, <2>1 DEF While, EndWith, Stage
  <2>2. CASE _setup_connection
    BY <1>2, <2>2 DEF _setup_connection, EndWith, Stage
  <2>3. CASE _setup_channel
    BY <1>2, <2>3 DEF _setup_channel, EndWith, Stage
  <2>4. CASE basic_publish
    BY <2>4 DEF basic_publish, Finally, Stage
  <2>5. CASE CleanUp
    BY <1>2, <2>5 DEF CleanUp, Inv, LoopInv, Stage
  <2>6. QED
    BY <2>1, <2>2, <2>3, <2>4, <2>5 DEF Next, Proceed, Publish, stop
<1>3. CASE pc' # "idle"
  <2>1. Remaining' = 5 * (PUBLISH_RETRIES + 1 - tries') + Stage[pc']
    BY <1>3 DEF Remaining, Stage
  <2>2. Stage[pc] \in 1 .. 5
    BY DEF Inv, TypeOK, Stage
  <2> DEFINE before == Stage[pc]
             after == Stage[pc']
  <2>3. \/ tries' = tries /\ after \in 1 .. before - 1
        \/ tries' = tries + 1 /\ tries < PUBLISH_RETRIES /\ before = 1 /\ after = 5
    BY <1>2, <1>3
  <2>4. before \in 1 .. 5
    BY <2>2
  <2>5. Remaining = 5 * (PUBLISH_RETRIES + 1 - tries) + before
    BY <1>0
  <2>6. Remaining' = 5 * (PUBLISH_RETRIES + 1 - tries') + after
    BY <2>1
  <2> HIDE DEF before, after
  <2>7. QED
    BY <1>0, <2>3, <2>4, <2>5, <2>6
<1>4. QED
  BY <1>1, <1>3

\* A call takes no more than a number of steps that its retries set, however
\* often the stream is lost: with the fairness of Proceed, it ends.
THEOREM CallBounded == Spec => CallAdvances
<1>1. Inv /\ [Next]_vars => [pc # "idle" => Remaining' \in 0 .. Remaining - 1 \/ LoseStream]_vars
  BY Advances
<1>2. QED
  BY <1>1, PublisherInvariant, PTL DEF Spec, CallAdvances
=============================================================================

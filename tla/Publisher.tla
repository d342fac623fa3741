----------------------------- MODULE Publisher -----------------------------
(***************************************************************************)
(* MQConnection._basic_publish() of rabbit.py, the calls of _setup_channel *)
(* and the clean-up it makes, and the connection to the broker that may be *)
(* lost at any time.  The owner's thread makes one call after the other,   *)
(* and may call stop().                                                    *)
(*                                                                         *)
(* A lost stream is seen by pika only when it is used: link is the truth,  *)
(* connection is what pika knows.  A message that was handed to a stream   *)
(* may have arrived or not, whatever became of the call.                   *)
(***************************************************************************)
EXTENDS Integers

CONSTANTS
  PUBLISH_RETRIES,
  MaxCalls          \* bound on the calls of the owner

ASSUME PublisherAssumption == PUBLISH_RETRIES \in Nat \ {0} /\ MaxCalls \in Nat

VARIABLES
  link,         \* the stream to the broker: up or down
  connection,   \* _mq_connection
  channel,      \* _mq_channel
  pc,           \* where the call is
  closing,      \* what the call is asked to close afterwards
  tries,
  attempt,      \* how the attempt ended: with success, with a lost stream that
                \* is to be retried, or with the exception it raises
  result,       \* how the last call ended
  copies,       \* how many copies of its message reached the exchange
  calls

vars == <<link, connection, channel, pc, closing, tries, attempt, result, copies,
          calls>>

Handle == {"none", "open", "closed"}
Parameter == {"close_channel", "close_connection"}
Error == {"ResourceWarning", "RuntimeWarning", "AssertionError", "Exception"}

TypeOK ==
  /\ link \in {"up", "down"} /\ connection \in Handle /\ channel \in Handle
  /\ pc \in {"idle", "while", "connect", "channel", "publish", "finally"}
  /\ closing \subseteq Parameter
  /\ tries \in 1 .. PUBLISH_RETRIES + 1
  /\ attempt \in Error \cup {"none", "success", "lost"}
  /\ result \in Error \cup {"none", "success"}
  /\ copies \in 0 .. PUBLISH_RETRIES
  /\ calls \in 0 .. MaxCalls

Init ==
  /\ link = "down" /\ connection = "none" /\ channel = "none"
  /\ pc = "idle"
  /\ closing = {}
  /\ tries = 1 /\ attempt = "none" /\ result = "none"
  /\ copies = 0 /\ calls = 0

-----------------------------------------------------------------------------
call == <<closing, calls>>
outcome == <<attempt, result, copies>>

\* The stream breaks: between two calls, or under one.
LoseStream ==
  /\ link = "up"
  /\ link' = "down"
  /\ UNCHANGED <<connection, channel, pc, tries, call, outcome>>

\* pika notices that the stream or the connection is gone, and with the
\* connection its channel.
ConnectionLost ==
  /\ link' = "down"
  /\ connection' = "closed"
  /\ channel' = IF channel = "none" THEN "none" ELSE "closed"

ChannelClosed == channel' = "closed" /\ UNCHANGED <<link, connection>>

Publish ==
  /\ pc = "idle" /\ calls < MaxCalls
  /\ calls' = calls + 1
  /\ closing' \in SUBSET Parameter
  /\ tries' = 1 /\ attempt' = "none" /\ result' = "none"
  /\ copies' = 0
  /\ pc' = "while"
  /\ UNCHANGED <<link, connection, channel>>

\* A call ends before the try block with the finally clause: no clean-up.
EndWith(r) == pc' = "idle" /\ result' = r /\ UNCHANGED <<attempt, copies>>

\* A loop that takes one turn less than there are tries.
MutWhile ==
  /\ pc = "while"
  /\ IF tries < PUBLISH_RETRIES THEN pc' = "connect" /\ UNCHANGED outcome
                                ELSE EndWith("AssertionError")
  /\ UNCHANGED <<link, connection, channel, tries, call>>

While ==
  /\ pc = "while"
  /\ IF tries <= PUBLISH_RETRIES THEN pc' = "connect" /\ UNCHANGED outcome
                                 ELSE EndWith("AssertionError")
  /\ UNCHANGED <<link, connection, channel, tries, call>>

\* A connection that is set up again and again without counting.
Mut_setup_connection ==
  /\ pc = "connect"
  /\ \/ /\ connection = "open"
        /\ pc' = "channel" /\ UNCHANGED <<link, connection, channel, outcome>>
     \/ /\ connection # "open"
        /\ pc' = "channel" /\ connection' = "open" /\ link' = "up"
        /\ UNCHANGED <<channel, outcome>>
     \/ /\ connection # "open"
        /\ pc' = "while" /\ UNCHANGED <<link, connection, channel, outcome>>
  /\ UNCHANGED <<tries, call>>

_setup_connection ==
  /\ pc = "connect"
  /\ \/ /\ connection = "open"
        /\ pc' = "channel" /\ UNCHANGED <<link, connection, channel, outcome>>
     \/ /\ connection # "open"
        /\ pc' = "channel" /\ connection' = "open" /\ link' = "up"
        /\ UNCHANGED <<channel, outcome>>
     \/ /\ connection # "open"
        /\ EndWith("ResourceWarning") /\ UNCHANGED <<link, connection, channel>>
  /\ UNCHANGED <<tries, call>>

\* channel(), exchange_declare() and queue_declare() when there is no open
\* channel.  A lost connection ends the call; so does a channel that the broker
\* refuses, with an exception that _basic_publish does not handle.
_setup_channel ==
  /\ pc = "channel"
  /\ \/ channel = "open" /\ pc' = "publish" /\ UNCHANGED <<link, connection, channel, outcome>>
     \/ /\ channel # "open" /\ link = "up"
        /\ pc' = "publish" /\ channel' = "open" /\ UNCHANGED <<link, connection, outcome>>
     \/ channel # "open" /\ ConnectionLost /\ EndWith("ResourceWarning")
     \/ channel # "open" /\ link = "up" /\ ChannelClosed /\ EndWith("Exception")
  /\ UNCHANGED <<tries, call>>

Finally(how) == pc' = "finally" /\ attempt' = how /\ UNCHANGED result

\* The message may arrive as long as the stream is up when it is used.
Arrive == copies' \in IF link = "up" THEN {copies, copies + 1} ELSE {copies}

basic_publish ==
  /\ pc = "publish"
  /\ \/ Finally("success") /\ Arrive /\ UNCHANGED <<link, connection, channel>>
     \/ /\ ConnectionLost /\ Arrive           \* StreamLostError
        /\ Finally(IF tries < PUBLISH_RETRIES THEN "lost" ELSE "RuntimeWarning")
     \/ /\ ConnectionLost /\ Arrive           \* ConnectionClosedByBroker, or the
        /\ \E e \in {"ResourceWarning", "Exception"} :   \* time-out of a blocked one
             Finally(e)
     \/ /\ ChannelClosed /\ Arrive            \* a closed channel, among others
        /\ Finally("Exception")
     \/ /\ UNCHANGED <<link, connection, channel, copies>>   \* make_payload() fails
        /\ Finally("Exception")
  /\ UNCHANGED <<tries, call>>

Closed(h) == IF h = "open" THEN "closed" ELSE h

\* A finally clause that closes the channel only on request.
MutClosesChannel == "close_channel" \in closing

ClosesChannel == "close_channel" \in closing \/ attempt # "success"
ClosesConnection ==
  ClosesChannel /\ tries > 1 /\ ("close_connection" \in closing \/ attempt # "success")

\* _close_channel() and _close_connection(), which swallow what they raise.
\* Closing the connection closes its channels.
CloseHandles(c, k) ==
  /\ channel' = IF c \/ k THEN Closed(channel) ELSE channel
  /\ connection' = IF k THEN Closed(connection) ELSE connection
  /\ link' = IF k THEN "down" ELSE link

\* A retry that does not count.
MutCleanUp ==
  /\ pc = "finally"
  /\ CloseHandles(ClosesChannel, ClosesConnection)
  /\ IF attempt = "lost" THEN pc' = "while" /\ UNCHANGED result
                         ELSE pc' = "idle" /\ result' = attempt
  /\ UNCHANGED <<attempt, copies, tries, call>>

CleanUp ==
  /\ pc = "finally"
  /\ CloseHandles(ClosesChannel, ClosesConnection)
  /\ tries' = tries + 1
  /\ IF attempt = "lost" THEN pc' = "while" /\ UNCHANGED result
                         ELSE pc' = "idle" /\ result' = attempt
  /\ UNCHANGED <<attempt, copies, call>>

stop ==
  /\ pc = "idle"
  /\ CloseHandles(TRUE, TRUE)
  /\ UNCHANGED <<pc, tries, call, outcome>>

Proceed == While \/ _setup_connection \/ _setup_channel \/ basic_publish \/ CleanUp

Next == LoseStream \/ Publish \/ Proceed \/ stop

\* A call of pika returns or raises (blocked connections time out, too).
Spec == Init /\ [][Next]_vars /\ WF_vars(Proceed)

-----------------------------------------------------------------------------
\* However often the stream is lost, the exchange gets at most one copy of the
\* message for every turn of the retry loop that has been taken.
NoMoreCopiesThanTries == copies <= IF pc = "finally" THEN tries ELSE tries - 1

\* Between two calls there is an open channel only if the last call published
\* its message and was not asked to close it: nobody reuses a channel on which
\* something has gone wrong.
ReusedChannelIsClean ==
  pc = "idle" /\ channel = "open" => result = "success" /\ "close_channel" \notin closing

\* The loop ends in a success or in an exception: the assertion behind it is
\* never reached.
NeverFallsThrough == result # "AssertionError"

\* Every call comes to an end.
CallEnds == pc # "idle" ~> pc = "idle"
=============================================================================

---------------------------- MODULE MessageFlow ----------------------------
(***************************************************************************)
(* Messages on their way from one process to another: an application       *)
(* thread pushes them to a RabbitMQRelay, which publishes them; a          *)
(* ZMQListener in the other process consumes them and pushes them to a     *)
(* ZmqRelay, which sends them on.  Neither relay looks a message up again  *)
(* once it has taken it, and the listener's queue dies with its            *)
(* connection.                                                             *)
(*                                                                         *)
(* A message moves from stage to stage; a stage is the sequence of the     *)
(* messages that are there.                                                *)
(***************************************************************************)
EXTENDS Integers, Sequences

CONSTANTS
  Events,        \* the events the application may send
  MaxMessages,   \* bound on the messages it sends
  MaxForeign,    \* bound on the messages others publish to the exchange
  HWM            \* the high-water mark of the socket between listener and relay

\* What an event is to make_payload(): a dictionary, with or without a time of
\* its own, a value without a length, or anything else.
None == "none"
Data == [form : {"dict", "number", "other"}, timestamp : {None, "device", "relay"}]

\* A topic is routable if it has three parts.
Event == {e \in [routable : BOOLEAN, data : Data] :
            e.data.timestamp \in IF e.data.form = "dict" THEN {None, "device"} ELSE {None}}

ASSUME FlowAssumption ==
  /\ Events \subseteq Event
  /\ MaxMessages \in Nat /\ MaxForeign \in Nat /\ HWM \in Nat \ {0}

SOURCE == 1      \* sent to the RabbitMQRelay and not yet received
RELAY == 2       \* in process_message() of the RabbitMQRelay
BROKER == 3      \* in the listener's queue, or in the buffer of its connection
CALLBACK == 4    \* in callback() of the listener
PULLED == 5      \* sent to the ZmqRelay and not yet received
SINK == 6        \* in process_message() of the ZmqRelay
OUTPUT == 7      \* sent on by the ZmqRelay
Stage == SOURCE .. OUTPUT

VARIABLES
  sent,            \* what the application sent; its n-th message has the id n
  at,              \* at[s]: the messages at stage s, the oldest first
  relay,           \* where the RabbitMQRelay is
  listener,        \* where the ZMQListener is
  sink,            \* where the ZmqRelay is
  links,           \* the connections to the broker that are up
  shutting_down,   \* the processes whose shutdown flag is up
  missed,          \* the last message that was published without a queue for it
  foreign          \* how many messages others have published

vars == <<sent, at, relay, listener, sink, links, shutting_down, missed, foreign>>

\* Others may publish what msgpack cannot read; their messages have no place in
\* the order of the application's, and the id 0.
Message == [id : Nat, routable : BOOLEAN, readable : BOOLEAN, data : Data,
            envelope : {None, "sink"}]

TypeOK ==
  /\ sent \in Seq(Event) /\ Len(sent) <= MaxMessages
  /\ at \in [Stage -> Seq(Message)]
  /\ relay \in {"loop", "recv", "publish", "dead"}
  /\ listener \in {"starting", "consuming", "callback", "dead"}
  /\ sink \in {"recv", "send", "dead"}
  /\ links \subseteq {"relay", "listener"}
  /\ shutting_down \subseteq {"sender", "receiver"}
  /\ missed \in 0 .. MaxMessages
  /\ foreign \in 0 .. MaxForeign

Init ==
  /\ sent = << >>
  /\ at = [s \in Stage |-> << >>]
  /\ relay = "loop" /\ listener = "starting" /\ sink = "recv"
  /\ links = {"relay", "listener"}
  /\ shutting_down = {}
  /\ missed = 0 /\ foreign = 0

-----------------------------------------------------------------------------
\* The first message of stage s moves on, as what becomes of it ...
MoveAs(s, m) ==
  at' = [at EXCEPT ![s] = Tail(@), ![s + 1] = Append(@, m)]

Move(s) == MoveAs(s, Head(at[s]))

\* ... or is lost.
Drop(s) == at' = [at EXCEPT ![s] = Tail(@)]

Die(p) == shutting_down' = shutting_down \cup {p}

\* A payload whose time is put in last.
MutMakePayload(clock, data) == [form |-> "dict", timestamp |-> clock]

\* A payload that is given no time at all.
MutNoTime(clock, data) == IF data.form = "dict" THEN data ELSE [form |-> "dict"]

\* The dictionary make_payload() packs: with the time of whoever makes it, which
\* an entry of the data overrides.
MakePayload(clock, data) ==
  [form |-> "dict",
   timestamp |-> IF data.form = "dict" /\ data.timestamp # None THEN data.timestamp ELSE clock]

Send(e) ==
  /\ Len(sent) < MaxMessages
  /\ sent' = Append(sent, e)
  /\ at' = [at EXCEPT ![SOURCE] = Append(@, [id |-> Len(sent) + 1, routable |-> e.routable,
              readable |-> TRUE, data |-> e.data, envelope |-> None])]
  /\ UNCHANGED <<relay, listener, sink, links, shutting_down, missed, foreign>>

\* Somebody else publishes to the exchange.
Foreign ==
  /\ foreign < MaxForeign
  /\ listener \in {"consuming", "callback"} /\ "listener" \in links
  /\ foreign' = foreign + 1
  /\ \E readable \in BOOLEAN :
       at' = [at EXCEPT ![BROKER] = Append(@, [id |-> 0, routable |-> ~readable,
                readable |-> readable, envelope |-> None,
                data |-> [form |-> "dict", timestamp |-> "relay"]])]
  /\ UNCHANGED <<sent, relay, listener, sink, links, shutting_down, missed>>

-----------------------------------------------------------------------------
others == <<sent, missed, foreign>>

\* A loop that ends when there is nothing to do.
MutRelayLoop ==
  /\ relay = "loop"
  /\ relay' = IF "sender" \in shutting_down \/ at[SOURCE] = << >> THEN "dead" ELSE "recv"
  /\ UNCHANGED <<at, listener, sink, links, shutting_down, others>>

\* The guard of RabbitMQRelay's loop reads the live flag.
RelayLoop ==
  /\ relay = "loop"
  /\ relay' = IF "sender" \in shutting_down THEN "dead" ELSE "recv"
  /\ UNCHANGED <<at, listener, sink, links, shutting_down, others>>

\* recv_pyobj(), which the shutdown may end by terminating the context.
RelayRecv ==
  /\ relay = "recv"
  /\ \/ at[SOURCE] # << >> /\ Move(SOURCE) /\ relay' = "publish"
     \/ "sender" \in shutting_down /\ relay' = "dead" /\ UNCHANGED at
  /\ UNCHANGED <<listener, sink, links, shutting_down, others>>

\* A published message reaches the listener's queue if there is one; the
\* exchange forgets one that nobody has bound a queue for.
Bound == listener \in {"consuming", "callback"} /\ "listener" \in links

Published(m) ==
  IF Bound
  THEN MoveAs(RELAY, [m EXCEPT !.data = MakePayload("relay", @)]) /\ UNCHANGED missed
  ELSE Drop(RELAY) /\ missed' = m.id

\* A relay that survives the loss, and puts the message back.
MutRelayFails ==
  /\ relay' = "loop"
  /\ links' = links \ {"relay"}
  /\ at' = [at EXCEPT ![RELAY] = Tail(@), ![SOURCE] = Append(@, Head(at[RELAY]))]
  /\ UNCHANGED <<shutting_down, missed>>

\* The connection turns out to be lost: a ResourceWarning, which ends the thread
\* and the process.  The message may have got through.
RelayFails ==
  /\ relay' = "dead" /\ Die("sender")
  /\ links' = links \ {"relay"}
  /\ \/ "relay" \in links /\ Published(Head(at[RELAY]))
     \/ Drop(RELAY) /\ UNCHANGED missed

\* make_payload() and basic_publish(), which on a connection that is down may
\* well succeed.  len() raises on a number, and the exception ends the process.
RelayPublish ==
  /\ relay = "publish"
  /\ LET m == Head(at[RELAY]) IN
       \/ /\ m.data.form = "number"
          /\ relay' = "dead" /\ Die("sender") /\ Drop(RELAY)
          /\ UNCHANGED <<links, missed>>
       \/ /\ m.data.form # "number" /\ relay' = "loop"
          /\ IF "relay" \in links THEN Published(m) ELSE Drop(RELAY) /\ UNCHANGED missed
          /\ UNCHANGED <<links, shutting_down>>
       \/ m.data.form # "number" /\ RelayFails
  /\ UNCHANGED <<sent, listener, sink, foreign>>

-----------------------------------------------------------------------------
\* A callback that swallows a failing send at any time.
MutListenerDies == listener' = "consuming" /\ UNCHANGED shutting_down

ListenerDies == listener' = "dead" /\ Die("receiver")

\* run() of the listener up to start_consuming(): _setup_channel() declares and
\* binds a queue that belongs to the connection, and consumes from it.
ListenerSetup ==
  /\ listener = "starting"
  /\ \/ "listener" \in links /\ listener' = "consuming" /\ UNCHANGED <<links, shutting_down>>
     \/ links' = links \ {"listener"} /\ ListenerDies
  /\ UNCHANGED <<at, relay, sink, others>>

\* A delivered message is acknowledged before anybody looks at it.
Consume ==
  /\ listener = "consuming"
  /\ \/ /\ at[BROKER] # << >> /\ Move(BROKER)
        /\ listener' = "callback" /\ UNCHANGED shutting_down
     \/ "listener" \notin links /\ ListenerDies /\ at' = [at EXCEPT ![BROKER] = << >>]
  /\ UNCHANGED <<relay, sink, links, others>>

Ignored(m) == ~m.routable \/ ~m.readable

\* callback(): what it cannot route or read it ignores.  send_pyobj() waits for
\* room; should it raise, the message is lost, and outside the shutdown the
\* listener with it.
Callback ==
  /\ listener = "callback"
  /\ \/ /\ Ignored(Head(at[CALLBACK])) /\ Drop(CALLBACK)
        /\ listener' = "consuming" /\ UNCHANGED shutting_down
     \/ /\ ~Ignored(Head(at[CALLBACK])) /\ Len(at[PULLED]) < HWM /\ Move(CALLBACK)
        /\ listener' = "consuming" /\ UNCHANGED shutting_down
     \/ /\ ~Ignored(Head(at[CALLBACK])) /\ Drop(CALLBACK)
        /\ IF "receiver" \in shutting_down
           THEN listener' = "consuming" /\ UNCHANGED shutting_down ELSE ListenerDies
  /\ UNCHANGED <<relay, sink, links, others>>

\* ZmqRelay.process_message(): its loop tests a flag that is never up.
SinkRecv ==
  /\ sink = "recv"
  /\ \/ /\ at[PULLED] # << >> /\ sink' = "send"
        /\ MoveAs(PULLED, [Head(at[PULLED]) EXCEPT !.envelope =
             MakePayload("sink", [form |-> "dict", timestamp |-> None]).timestamp])
     \/ "receiver" \in shutting_down /\ sink' = "dead" /\ UNCHANGED at
  /\ UNCHANGED <<relay, listener, links, shutting_down, others>>

\* A relay that sends a message again that it has sent.
MutSinkSend ==
  /\ sink = "send"
  /\ \/ Move(SINK) /\ sink' = "recv"
     \/ at' = [at EXCEPT ![OUTPUT] = Append(@, Head(at[SINK]))] /\ UNCHANGED sink
  /\ UNCHANGED <<relay, listener, links, shutting_down, others>>

SinkSend ==
  /\ sink = "send"
  /\ \/ Move(SINK) /\ sink' = "recv" /\ UNCHANGED shutting_down
     \/ Drop(SINK) /\ sink' = "dead" /\ Die("receiver")
  /\ UNCHANGED <<relay, listener, links, others>>

-----------------------------------------------------------------------------
\* A connection to the broker is lost.  With the listener's goes its queue, but
\* for what was on its way to the callback already.
LoseLink(c) ==
  /\ c \in links
  /\ links' = links \ {c}
  /\ IF c = "listener"
     THEN \E n \in 0 .. Len(at[BROKER]) : at' = [at EXCEPT ![BROKER] = SubSeq(@, 1, n)]
     ELSE UNCHANGED at
  /\ UNCHANGED <<relay, listener, sink, shutting_down, others>>

\* A process is shut down for reasons of its own.
Stop(p) ==
  /\ p \notin shutting_down
  /\ Die(p)
  /\ UNCHANGED <<at, relay, listener, sink, links, others>>

RelayStep == RelayLoop \/ RelayRecv \/ RelayPublish
ListenerStep == ListenerSetup \/ Consume \/ Callback
SinkStep == SinkRecv \/ SinkSend

Next ==
  \/ \E e \in Events : Send(e)
  \/ Foreign \/ RelayStep \/ ListenerStep \/ SinkStep
  \/ \E c \in {"relay", "listener"} : LoseLink(c)
  \/ \E p \in {"sender", "receiver"} : Stop(p)

\* The threads go on as long as there is something to do: waits for the network
\* are bounded, by time-outs and heartbeats, and end in an exception.
Spec ==
  Init /\ [][Next]_vars /\ WF_vars(RelayStep) /\ WF_vars(ListenerStep) /\ WF_vars(SinkStep)

-----------------------------------------------------------------------------
\* No message overtakes another or exists twice, from the sender to the output:
\* whatever is lost, whoever fails.
OrderKept ==
  \A s, r \in Stage : \A i \in 1 .. Len(at[s]), j \in 1 .. Len(at[r]) :
    (r < s \/ (r = s /\ i < j)) /\ at[s][i].id # 0 /\ at[r][j].id # 0 =>
      at[s][i].id < at[r][j].id

\* The chain keeps the promise of Delivery.
Promise == INSTANCE Delivery
  WITH accepted <- Len(sent), delivered <- [i \in 1 .. Len(at[OUTPUT]) |-> at[OUTPUT][i].id]
KeepsOrder == Promise!Spec

\* Only the application's own, routable messages come out, each with the time
\* its device gave it, or else the time the first relay took it: never the time
\* of a later hop.
EventsKeepTheirTime ==
  \A i \in 1 .. Len(at[OUTPUT]) :
    LET m == at[OUTPUT][i] IN
      /\ m.id \in 1 .. Len(sent) /\ sent[m.id].routable
      /\ m.envelope = "sink"
      /\ m.data.timestamp =
           IF sent[m.id].data.timestamp = "device" THEN "device" ELSE "relay"

\* As long as no connection is lost and no process goes down, every routable
\* message the listener was ready for is somewhere on its way.
Healthy == links = {"relay", "listener"} /\ shutting_down = {}
NothingLostInHealth ==
  Healthy => \A n \in missed + 1 .. Len(sent) :
    sent[n].routable => \E s \in Stage : \E i \in 1 .. Len(at[s]) : at[s][i].id = n

\* And it arrives, unless something fails.
Expected(n) == n <= Len(sent) /\ sent[n].routable
Arrives ==
  \A n \in 1 .. MaxMessages :
    Expected(n) ~>
      ~Healthy \/ missed >= n \/ \E i \in 1 .. Len(at[OUTPUT]) : at[OUTPUT][i].id = n
=============================================================================

------------------------- MODULE MessageFlow_proofs -------------------------
(***************************************************************************)
(* Proofs about MessageFlow, for any events, any number of messages and    *)
(* any high-water mark.                                                    *)
(***************************************************************************)
EXTENDS MessageFlow, TLAPS

\* The threads in process_message() and in callback() have a message in hand.
HandInv ==
  /\ relay = "publish" => at[RELAY] # << >>
  /\ listener = "callback" => at[CALLBACK] # << >>
  /\ sink = "send" => at[SINK] # << >>

\* What a message at stage s has in common with the event it was sent as.
Faithful(s, m) ==
  /\ m.id <= Len(sent)
  /\ m.id = 0 => s >= BROKER /\ ~(m.routable /\ m.readable)
  /\ m.id # 0 => m.readable /\ m.routable = sent[m.id].routable
  /\ m.id # 0 /\ s <= RELAY => m.data = sent[m.id].data
  /\ m.id # 0 /\ s >= BROKER => m.data.timestamp =
       IF sent[m.id].data.timestamp = "device" THEN "device" ELSE "relay"
  /\ s >= PULLED => m.routable /\ m.readable
  /\ s >= SINK => m.envelope = "sink"

ContentInv == \A s \in Stage : \A i \in 1 .. Len(at[s]) : Faithful(s, at[s][i])

\* What has been missed is older than anything the RabbitMQRelay has not published.
MissedInv ==
  /\ missed <= Len(sent)
  /\ \A s \in {SOURCE, RELAY} : \A i \in 1 .. Len(at[s]) : missed < at[s][i].id

\* Whether the n-th message is on its way, or has arrived.
Present(n) == \E s \in Stage : \E i \in 1 .. Len(at[s]) : at[s][i].id = n

Inv == TypeOK /\ HandInv /\ ContentInv /\ MissedInv /\ OrderKept /\ NothingLostInHealth

-----------------------------------------------------------------------------
\* The ways in which the stages change.
Pushed(s, m) == at' = [at EXCEPT ![s] = Append(@, m)]
Cut(s, n) == at' = [at EXCEPT ![s] = SubSeq(@, 1, n)]

LEMMA Stages == Stage = {1, 2, 3, 4, 5, 6, 7}
BY DEF Stage, SOURCE, OUTPUT

\* A message that moves on leaves the rest where it is.
LEMMA MovedStages ==
  ASSUME at \in [Stage -> Seq(Message)], NEW s \in 1 .. 6, NEW m \in Message,
         at[s] # << >>, MoveAs(s, m)
  PROVE  /\ at' \in [Stage -> Seq(Message)]
         /\ \A r \in Stage : r \notin {s, s + 1} => at'[r] = at[r]
         /\ Len(at'[s]) = Len(at[s]) - 1
         /\ \A i \in 1 .. Len(at[s]) - 1 : at'[s][i] = at[s][i + 1]
         /\ Len(at'[s + 1]) = Len(at[s + 1]) + 1
         /\ \A i \in 1 .. Len(at[s + 1]) : at'[s + 1][i] = at[s + 1][i]
         /\ at'[s + 1][Len(at[s + 1]) + 1] = m
<1>1. s \in Stage /\ s + 1 \in Stage /\ s # s + 1
  BY Stages
<1>2. at'[s] = Tail(at[s]) /\ at'[s + 1] = Append(at[s + 1], m)
  BY <1>1 DEF MoveAs
<1>3. at[s] \in Seq(Message) /\ at[s + 1] \in Seq(Message)
  BY <1>1
<1>4. Tail(at[s]) \in Seq(Message) /\ Append(at[s + 1], m) \in Seq(Message)
  BY <1>3
<1>5. at' \in [Stage -> Seq(Message)]
  BY <1>1, <1>4 DEF MoveAs
<1>6. \A r \in Stage : r \notin {s, s + 1} => at'[r] = at[r]
  BY DEF MoveAs
<1>7. Len(Tail(at[s])) = Len(at[s]) - 1 /\ \A i \in 1 .. Len(at[s]) - 1 : Tail(at[s])[i] = at[s][i + 1]
  BY <1>3
<1>8. /\ Len(Append(at[s + 1], m)) = Len(at[s + 1]) + 1
      /\ \A i \in 1 .. Len(at[s + 1]) : Append(at[s + 1], m)[i] = at[s + 1][i]
      /\ Append(at[s + 1], m)[Len(at[s + 1]) + 1] = m
  BY <1>3
<1>9. QED
  BY <1>2, <1>5, <1>6, <1>7, <1>8

LEMMA DroppedStages ==
  ASSUME at \in [Stage -> Seq(Message)], NEW s \in Stage, at[s] # << >>, Drop(s)
  PROVE  /\ at' \in [Stage -> Seq(Message)]
         /\ \A r \in Stage : r # s => at'[r] = at[r]
         /\ Len(at'[s]) = Len(at[s]) - 1
         /\ \A i \in 1 .. Len(at[s]) - 1 : at'[s][i] = at[s][i + 1]
<1>1. at[s] \in Seq(Message) /\ at'[s] = Tail(at[s])
  BY DEF Drop
<1>2. Tail(at[s]) \in Seq(Message)
  BY <1>1
<1>3. at' \in [Stage -> Seq(Message)] /\ \A r \in Stage : r # s => at'[r] = at[r]
  BY <1>2 DEF Drop
<1>4. Len(Tail(at[s])) = Len(at[s]) - 1 /\ \A i \in 1 .. Len(at[s]) - 1 : Tail(at[s])[i] = at[s][i + 1]
  BY <1>1
<1>5. QED
  BY <1>1, <1>3, <1>4

LEMMA PushedStages ==
  ASSUME at \in [Stage -> Seq(Message)], NEW s \in Stage, NEW m \in Message, Pushed(s, m)
  PROVE  /\ at' \in [Stage -> Seq(Message)]
         /\ \A r \in Stage : r # s => at'[r] = at[r]
         /\ Len(at'[s]) = Len(at[s]) + 1
         /\ \A i \in 1 .. Len(at[s]) : at'[s][i] = at[s][i]
         /\ at'[s][Len(at[s]) + 1] = m
<1>1. at[s] \in Seq(Message) /\ at'[s] = Append(at[s], m)
  BY DEF Pushed
<1>2. Append(at[s], m) \in Seq(Message)
  BY <1>1
<1>3. at' \in [Stage -> Seq(Message)] /\ \A r \in Stage : r # s => at'[r] = at[r]
  BY <1>2 DEF Pushed
<1>4. QED
  BY <1>1, <1>3

LEMMA CutStages ==
  ASSUME at \in [Stage -> Seq(Message)], NEW s \in Stage, NEW n \in 0 .. Len(at[s]), Cut(s, n)
  PROVE  /\ at' \in [Stage -> Seq(Message)]
         /\ \A r \in Stage : r # s => at'[r] = at[r]
         /\ Len(at'[s]) = n
         /\ \A i \in 1 .. n : at'[s][i] = at[s][i]
<1>1. at[s] \in Seq(Message) /\ at'[s] = SubSeq(at[s], 1, n)
  BY DEF Cut
<1>2. /\ SubSeq(at[s], 1, n) \in Seq(Message) /\ Len(SubSeq(at[s], 1, n)) = n
      /\ \A i \in 1 .. n : SubSeq(at[s], 1, n)[i] = at[s][i]
  BY <1>1
<1>3. at' \in [Stage -> Seq(Message)] /\ \A r \in Stage : r # s => at'[r] = at[r]
  BY <1>2 DEF Cut
<1>4. QED
  BY <1>1, <1>2, <1>3

-----------------------------------------------------------------------------
\* OrderKept, one pair of messages at a time.
Before(s, i, r, j) == r < s \/ (r = s /\ i < j)

LEMMA OrderPair ==
  ASSUME OrderKept, NEW s \in Stage, NEW r \in Stage,
         NEW i \in 1 .. Len(at[s]), NEW j \in 1 .. Len(at[r]), Before(s, i, r, j),
         at[s][i].id # 0, at[r][j].id # 0
  PROVE  at[s][i].id < at[r][j].id
BY DEF OrderKept, Before

\* Where a message was before the first of stage s moved on as m.
Was(s, m, q, k) ==
  \/ q = s + 1 /\ k = Len(at[q]) + 1 /\ at'[q][k] = m /\ m.id = at[s][1].id
  \/ q = s /\ k + 1 \in 1 .. Len(at[q]) /\ at'[q][k] = at[q][k + 1]
  \/ q # s /\ k \in 1 .. Len(at[q]) /\ at'[q][k] = at[q][k]

LEMMA MovedPlace ==
  ASSUME at \in [Stage -> Seq(Message)], NEW s \in 1 .. 6, NEW m \in Message,
         at[s] # << >>, m.id = Head(at[s]).id, MoveAs(s, m),
         NEW q \in Stage, NEW k \in 1 .. Len(at'[q])
  PROVE  s \in Stage /\ s + 1 \in Stage /\ 1 \in 1 .. Len(at[s]) /\ Was(s, m, q, k)
<1> USE DEF Was
<1>1. s \in Stage /\ s + 1 \in Stage /\ s # s + 1
  BY Stages
<1>2. at[s] \in Seq(Message) /\ at[q] \in Seq(Message)
  BY <1>1
<1>3. Len(at[s]) \in Nat \ {0} /\ Head(at[s]) = at[s][1] /\ Len(at[q]) \in Nat
  BY <1>2
<1>4. CASE q = s
  <2>1. Len(at'[q]) = Len(at[q]) - 1 /\ \A i \in 1 .. Len(at[q]) - 1 : at'[q][i] = at[q][i + 1]
    BY <1>4, MovedStages
  <2>2. k \in 1 .. Len(at[q]) - 1 /\ k + 1 \in 1 .. Len(at[q])
    BY <2>1, <1>3
  <2>3. at'[q][k] = at[q][k + 1] /\ 1 \in 1 .. Len(at[s])
    BY <2>1, <2>2, <1>3
  <2>4. QED
    BY <2>2, <2>3, <1>1, <1>4
<1>5. CASE q = s + 1
  <2>1. /\ Len(at'[q]) = Len(at[q]) + 1 /\ \A i \in 1 .. Len(at[q]) : at'[q][i] = at[q][i]
        /\ at'[q][Len(at[q]) + 1] = m
    BY <1>5, MovedStages
  <2>2. QED
    BY <2>1, <1>1, <1>3, <1>5
<1>6. CASE q \notin {s, s + 1}
  <2>1. at'[q] = at[q]
    BY <1>6, MovedStages
  <2>2. QED
    BY <2>1, <1>1, <1>3, <1>6
<1>7. QED
  BY <1>4, <1>5, <1>6

LEMMA MovedOrder ==
  ASSUME at \in [Stage -> Seq(Message)], OrderKept, NEW s \in 1 .. 6, NEW m \in Message,
         at[s] # << >>, m.id = Head(at[s]).id, MoveAs(s, m)
  PROVE  OrderKept'
<1> SUFFICES ASSUME NEW p \in Stage, NEW r \in Stage,
                    NEW i \in 1 .. Len(at'[p]), NEW j \in 1 .. Len(at'[r]), Before(p, i, r, j),
                    at'[p][i].id # 0, at'[r][j].id # 0
             PROVE  at'[p][i].id < at'[r][j].id
  BY DEF OrderKept, Before
<1>0. s \in Stage /\ 1 \in 1 .. Len(at[s]) /\ Was(s, m, p, i) /\ Was(s, m, r, j)
  BY MovedPlace
<1>1. p \in Int /\ r \in Int /\ s \in Stage /\ 1 \in 1 .. Len(at[s])
  BY <1>0, Stages
<1>2. Len(at[p]) \in Nat /\ Len(at[r]) \in Nat
  OBVIOUS
<1>3. CASE p = s + 1 /\ i = Len(at[p]) + 1 /\ at'[p][i] = m /\ m.id = at[s][1].id
  <2>1. CASE r = s + 1 /\ j = Len(at[r]) + 1 /\ at'[r][j] = m /\ m.id = at[s][1].id
    BY <1>3, <2>1, <1>2 DEF Before
  <2>2. CASE r = s /\ j + 1 \in 1 .. Len(at[r]) /\ at'[r][j] = at[r][j + 1]
    <3>1. Before(s, 1, r, j + 1)
      BY <2>2 DEF Before
    <3>2. QED
      BY <1>1, <1>3, <2>2, <3>1, OrderPair
  <2>3. CASE r # s /\ j \in 1 .. Len(at[r]) /\ at'[r][j] = at[r][j]
    <3>1. Before(s, 1, r, j)
      BY <1>1, <1>2, <1>3, <2>3 DEF Before
    <3>2. QED
      BY <1>1, <1>3, <2>3, <3>1, OrderPair
  <2>4. QED
    BY <1>0, <2>1, <2>2, <2>3 DEF Was
<1>4. CASE p = s /\ i + 1 \in 1 .. Len(at[p]) /\ at'[p][i] = at[p][i + 1]
  <2>1. CASE r = s + 1 /\ j = Len(at[r]) + 1 /\ at'[r][j] = m /\ m.id = at[s][1].id
    BY <1>1, <1>4, <2>1 DEF Before
  <2>2. CASE r = s /\ j + 1 \in 1 .. Len(at[r]) /\ at'[r][j] = at[r][j + 1]
    <3>1. Before(p, i + 1, r, j + 1)
      BY <1>4, <2>2 DEF Before
    <3>2. QED
      BY <1>4, <2>2, <3>1, OrderPair
  <2>3. CASE r # s /\ j \in 1 .. Len(at[r]) /\ at'[r][j] = at[r][j]
    <3>1. Before(p, i + 1, r, j)
      BY <1>4, <2>3 DEF Before
    <3>2. QED
      BY <1>4, <2>3, <3>1, OrderPair
  <2>4. QED
    BY <1>0, <2>1, <2>2, <2>3 DEF Was
<1>5. CASE p # s /\ i \in 1 .. Len(at[p]) /\ at'[p][i] = at[p][i]
  <2>1. CASE r = s + 1 /\ j = Len(at[r]) + 1 /\ at'[r][j] = m /\ m.id = at[s][1].id
    <3>1. Before(p, i, s, 1)
      BY <1>1, <1>5, <2>1 DEF Before
    <3>2. QED
      BY <1>1, <1>5, <2>1, <3>1, OrderPair
  <2>2. CASE r = s /\ j + 1 \in 1 .. Len(at[r]) /\ at'[r][j] = at[r][j + 1]
    <3>1. Before(p, i, r, j + 1)
      BY <1>5, <2>2 DEF Before
    <3>2. QED
      BY <1>5, <2>2, <3>1, OrderPair
  <2>3. CASE r # s /\ j \in 1 .. Len(at[r]) /\ at'[r][j] = at[r][j]
    BY <1>5, <2>3, OrderPair
  <2>4. QED
    BY <1>0, <2>1, <2>2, <2>3 DEF Was
<1>6. QED
  BY <1>0, <1>3, <1>4, <1>5 DEF Was

LEMMA DroppedOrder ==
  ASSUME at \in [Stage -> Seq(Message)], OrderKept, NEW s \in Stage, at[s] # << >>, Drop(s)
  PROVE  OrderKept'
<1> SUFFICES ASSUME NEW p \in Stage, NEW r \in Stage,
                    NEW i \in 1 .. Len(at'[p]), NEW j \in 1 .. Len(at'[r]), Before(p, i, r, j),
                    at'[p][i].id # 0, at'[r][j].id # 0
             PROVE  at'[p][i].id < at'[r][j].id
  BY DEF OrderKept, Before
<1> DEFINE place(q, k) == IF q = s THEN k + 1 ELSE k
<1>1. ASSUME NEW q \in Stage, NEW k \in 1 .. Len(at'[q])
      PROVE  place(q, k) \in 1 .. Len(at[q]) /\ at'[q][k] = at[q][place(q, k)]
  <2>1. Len(at[q]) \in Nat
    OBVIOUS
  <2>2. CASE q = s
    <3>1. Len(at'[s]) = Len(at[s]) - 1 /\ \A n \in 1 .. Len(at[s]) - 1 : at'[s][n] = at[s][n + 1]
      BY DroppedStages
    <3>2. k \in 1 .. Len(at[s]) - 1
      BY <2>2, <3>1
    <3>3. at'[s][k] = at[s][k + 1]
      BY <3>1, <3>2
    <3>4. k + 1 \in 1 .. Len(at[s])
      BY <2>1, <2>2, <3>2
    <3>5. QED
      BY <2>2, <3>3, <3>4
  <2>3. CASE q # s
    <3>1. at'[q] = at[q]
      BY <2>3, DroppedStages
    <3>2. QED
      BY <2>3, <3>1
  <2>4. QED
    BY <2>2, <2>3
<1>2. Before(p, place(p, i), r, place(r, j))
  BY DEF Before
<1>3. place(p, i) \in 1 .. Len(at[p]) /\ at'[p][i] = at[p][place(p, i)]
  BY <1>1
<1>4. place(r, j) \in 1 .. Len(at[r]) /\ at'[r][j] = at[r][place(r, j)]
  BY <1>1
<1>5. QED
  <2> HIDE DEF place
  <2>1. QED
    BY <1>2, <1>3, <1>4, OrderPair

LEMMA CutOrder ==
  ASSUME at \in [Stage -> Seq(Message)], OrderKept, NEW s \in Stage,
         NEW n \in 0 .. Len(at[s]), Cut(s, n)
  PROVE  OrderKept'
<1> SUFFICES ASSUME NEW p \in Stage, NEW r \in Stage,
                    NEW i \in 1 .. Len(at'[p]), NEW j \in 1 .. Len(at'[r]), Before(p, i, r, j),
                    at'[p][i].id # 0, at'[r][j].id # 0
             PROVE  at'[p][i].id < at'[r][j].id
  BY DEF OrderKept, Before
<1>1. ASSUME NEW q \in Stage, NEW k \in 1 .. Len(at'[q])
      PROVE  k \in 1 .. Len(at[q]) /\ at'[q][k] = at[q][k]
  <2>1. CASE q = s
    BY <2>1, CutStages
  <2>2. CASE q # s
    BY <2>2, CutStages
  <2>3. QED
    BY <2>1, <2>2
<1>2. QED
  BY <1>1, OrderPair

\* A message that is newer than the others, or has no place among them.
LEMMA PushedOrder ==
  ASSUME at \in [Stage -> Seq(Message)], OrderKept, NEW s \in Stage, NEW m \in Message,
         Pushed(s, m),
         m.id = 0 \/ (s = SOURCE /\ \A r \in Stage : \A i \in 1 .. Len(at[r]) : at[r][i].id < m.id)
  PROVE  OrderKept'
<1> SUFFICES ASSUME NEW p \in Stage, NEW r \in Stage,
                    NEW i \in 1 .. Len(at'[p]), NEW j \in 1 .. Len(at'[r]), Before(p, i, r, j),
                    at'[p][i].id # 0, at'[r][j].id # 0
             PROVE  at'[p][i].id < at'[r][j].id
  BY DEF OrderKept, Before
<1> DEFINE new(q, k) == q = s /\ k = Len(at[s]) + 1
<1>0. \A q \in Stage : Len(at[q]) \in Nat /\ q \in 1 .. 7
  BY Stages
<1>1. ASSUME NEW q \in Stage, NEW k \in 1 .. Len(at'[q])
      PROVE  /\ ~new(q, k) => k \in 1 .. Len(at[q]) /\ at'[q][k] = at[q][k]
             /\ new(q, k) => at'[q][k] = m
  BY <1>0, PushedStages
<1>2. CASE ~new(p, i) /\ ~new(r, j)
  BY <1>1, <1>2, OrderPair
<1>3. CASE new(p, i)
  <2>1. m.id # 0 /\ s = SOURCE
    BY <1>1, <1>3
  <2>2. r = s /\ j > Len(at[s]) + 1
    BY <2>1, <1>0, <1>3 DEF Before, SOURCE
  <2>3. QED
    BY <2>2, <1>0, PushedStages
<1>4. CASE new(r, j) /\ ~new(p, i)
  BY <1>1, <1>4
<1>5. QED
  BY <1>2, <1>3, <1>4

-----------------------------------------------------------------------------
\* What a step can do to the messages: nothing, ...
Quiet == UNCHANGED <<at, sent, missed>>

\* ... a new one, ...
NewMessage(e) ==
  [id |-> Len(sent) + 1, routable |-> e.routable, readable |-> TRUE, data |-> e.data,
   envelope |-> None]
Sends ==
  \E e \in Event : sent' = Append(sent, e) /\ Len(sent) < MaxMessages /\
                   Pushed(SOURCE, NewMessage(e)) /\ missed' = missed
Hears ==
  \E m \in Message : /\ m.id = 0 /\ ~(m.routable /\ m.readable)
                     /\ Pushed(BROKER, m) /\ UNCHANGED <<sent, missed>>

\* ... one that moves on, ...
Moves ==
  \E s \in 1 .. 6 : \E m \in Message :
    /\ at[s] # << >> /\ m.id = Head(at[s]).id /\ Faithful(s + 1, m)
    /\ MoveAs(s, m) /\ UNCHANGED <<sent, missed>>

\* ... or some that are lost.
Loses ==
  \E s \in {RELAY, CALLBACK, SINK} :
    /\ at[s] # << >> /\ Drop(s) /\ UNCHANGED <<sent, missed>>
    /\ Healthy' => Head(at[s]).id = 0 \/ ~sent[Head(at[s]).id].routable
Misses == at[RELAY] # << >> /\ Drop(RELAY) /\ missed' = Head(at[RELAY]).id /\ sent' = sent
Cuts == ~Healthy' /\ UNCHANGED <<sent, missed>> /\ \E n \in 0 .. Len(at[BROKER]) : Cut(BROKER, n)

LEMMA HeadFaithful ==
  ASSUME TypeOK, ContentInv, NEW s \in Stage, at[s] # << >>
  PROVE  Head(at[s]) \in Message /\ Faithful(s, Head(at[s]))
<1>1. at[s] \in Seq(Message)
  BY DEF TypeOK
<1>2. Head(at[s]) = at[s][1] /\ 1 \in 1 .. Len(at[s])
  BY <1>1
<1>3. QED
  BY <1>1, <1>2 DEF ContentInv

LEMMA StageNumbers ==
  /\ SOURCE = 1 /\ RELAY = 2 /\ BROKER = 3 /\ CALLBACK = 4 /\ PULLED = 5 /\ SINK = 6 /\ OUTPUT = 7
  /\ Stage = 1 .. 7
BY DEF SOURCE, RELAY, BROKER, CALLBACK, PULLED, SINK, OUTPUT, Stage

\* The packed payload of the first relay.
LEMMA PackedFaithful ==
  ASSUME TypeOK, NEW m \in Message, Faithful(RELAY, m)
  PROVE  LET p == [m EXCEPT !.data = MakePayload("relay", m.data)]
         IN  p \in Message /\ p.id = m.id /\ Faithful(BROKER, p)
<1> DEFINE p == [m EXCEPT !.data = MakePayload("relay", m.data)]
<1>1. m.data \in Data /\ m.id \in Nat
  BY DEF Message
<1>2. MakePayload("relay", m.data) \in Data
  BY <1>1 DEF MakePayload, Data, None
<1>3. p \in Message /\ p.id = m.id /\ p.routable = m.routable /\ p.readable = m.readable
      /\ p.data = MakePayload("relay", m.data)
  BY <1>2 DEF Message
<1>4. m.id # 0 /\ m.id <= Len(sent) /\ m.data = sent[m.id].data
  BY StageNumbers DEF Faithful
<1>5. sent[m.id] \in Event
  BY <1>1, <1>4 DEF TypeOK
<1>6. p.data.timestamp = IF sent[m.id].data.timestamp = "device" THEN "device" ELSE "relay"
  <2>1. /\ sent[m.id].data.timestamp \in {None, "device"}
        /\ sent[m.id].data.timestamp = "device" => sent[m.id].data.form = "dict"
    BY <1>5 DEF Event, None
  <2>2. QED
    BY <1>3, <1>4, <2>1 DEF MakePayload, None
<1>7. QED
  BY <1>3, <1>4, <1>6, StageNumbers DEF Faithful

\* A message that moves on as it is, from one stage to the next.
LEMMA MovesOn ==
  ASSUME TypeOK, ContentInv, NEW s \in 1 .. 6, at[s] # << >>, Move(s),
         UNCHANGED <<sent, missed>>, Faithful(s + 1, Head(at[s]))
  PROVE  Moves
<1>1. Head(at[s]) \in Message
  BY HeadFaithful, StageNumbers
<1>2. QED
  BY <1>1 DEF Moves, Move

\* A message of the RabbitMQRelay is published, or has no queue to go to.
LEMMA PublishedShape ==
  ASSUME TypeOK, ContentInv, at[RELAY] # << >>, Published(Head(at[RELAY])), sent' = sent
  PROVE  Moves \/ Misses
<1>1. Head(at[RELAY]) \in Message /\ Faithful(RELAY, Head(at[RELAY]))
  BY HeadFaithful, StageNumbers
<1> DEFINE p == [Head(at[RELAY]) EXCEPT !.data = MakePayload("relay", Head(at[RELAY]).data)]
<1>2. p \in Message /\ p.id = Head(at[RELAY]).id /\ Faithful(BROKER, p)
  BY <1>1, PackedFaithful
<1>3. CASE Bound
  <2>1. MoveAs(RELAY, p) /\ missed' = missed
    BY <1>3 DEF Published
  <2>2. RELAY \in 1 .. 6 /\ BROKER = RELAY + 1
    BY StageNumbers
  <2> HIDE DEF p
  <2>3. QED
    BY <1>2, <2>1, <2>2 DEF Moves
<1>4. CASE ~Bound
  BY <1>4 DEF Published, Misses
<1>5. QED
  BY <1>3, <1>4

LEMMA DieUnhealthy == ASSUME NEW p, Die(p) PROVE ~Healthy'
BY DEF Die, Healthy

LEMMA PublishShape ==
  ASSUME TypeOK, HandInv, ContentInv, RelayPublish
  PROVE  Moves \/ Loses \/ Misses
<1>1. at[RELAY] # << >> /\ RELAY \in Stage /\ sent' = sent
  BY StageNumbers DEF RelayPublish, HandInv
<1>2. ASSUME Drop(RELAY), ~Healthy', missed' = missed PROVE Loses
  BY <1>1, <1>2 DEF Loses
<1>3. CASE Head(at[RELAY]).data.form = "number" /\ Die("sender") /\ Drop(RELAY) /\ missed' = missed
  BY <1>2, <1>3, DieUnhealthy
<1>4. CASE Published(Head(at[RELAY]))
  BY <1>1, <1>4, PublishedShape
<1>5. CASE "relay" \notin links /\ Drop(RELAY) /\ links' = links /\ missed' = missed
  BY <1>2, <1>5 DEF Healthy
<1>6. CASE Drop(RELAY) /\ missed' = missed /\ Die("sender")
  BY <1>2, <1>6, DieUnhealthy
<1>7. QED
  BY <1>3, <1>4, <1>5, <1>6 DEF RelayPublish, RelayFails

LEMMA RecvShape ==
  ASSUME TypeOK, HandInv, ContentInv, RelayRecv PROVE Moves \/ Quiet
<1>1. CASE at[SOURCE] # << >> /\ Move(SOURCE)
  <2>1. Faithful(SOURCE + 1, Head(at[SOURCE]))
    BY <1>1, HeadFaithful, StageNumbers DEF Faithful
  <2>2. SOURCE \in 1 .. 6 /\ UNCHANGED <<sent, missed>>
    BY StageNumbers DEF RelayRecv, others
  <2>3. QED
    BY <1>1, <2>1, <2>2, MovesOn
<1>2. CASE UNCHANGED at
  BY <1>2 DEF RelayRecv, others, Quiet
<1>3. QED
  BY <1>1, <1>2 DEF RelayRecv

LEMMA ConsumeShape ==
  ASSUME TypeOK, HandInv, ContentInv, Consume PROVE Moves \/ Cuts
<1>0. UNCHANGED <<sent, missed>> /\ BROKER \in 1 .. 6 /\ BROKER \in Stage
  BY StageNumbers DEF Consume, others
<1>1. CASE at[BROKER] # << >> /\ Move(BROKER)
  <2>1. Faithful(BROKER + 1, Head(at[BROKER]))
    BY <1>0, <1>1, HeadFaithful, StageNumbers DEF Faithful
  <2>2. QED
    BY <1>0, <1>1, <2>1, MovesOn
<1>2. CASE ListenerDies /\ at' = [at EXCEPT ![BROKER] = << >>]
  <2>1. at[BROKER] \in Seq(Message)
    BY <1>0 DEF TypeOK
  <2>2. SubSeq(at[BROKER], 1, 0) = << >> /\ 0 \in 0 .. Len(at[BROKER])
    BY <2>1
  <2>3. Cut(BROKER, 0)
    BY <1>2, <2>2 DEF Cut
  <2>4. QED
    BY <1>0, <1>2, <2>2, <2>3, DieUnhealthy DEF Cuts, ListenerDies
<1>3. QED
  BY <1>1, <1>2 DEF Consume

LEMMA CallbackShape ==
  ASSUME TypeOK, HandInv, ContentInv, Callback PROVE Moves \/ Loses
<1> DEFINE m == Head(at[CALLBACK])
<1>0. /\ UNCHANGED <<sent, missed>> /\ CALLBACK \in 1 .. 6 /\ CALLBACK \in Stage
      /\ at[CALLBACK] # << >>
  BY StageNumbers DEF Callback, others, HandInv
<1>1. m \in Message /\ Faithful(CALLBACK, m)
  BY <1>0, HeadFaithful
<1>2. CASE Ignored(m) /\ Drop(CALLBACK)
  <2>1. m.id = 0 \/ ~sent[m.id].routable
    BY <1>1, <1>2 DEF Ignored, Faithful
  <2>2. QED
    BY <1>0, <1>2, <2>1 DEF Loses
<1>3. CASE ~Ignored(m) /\ Move(CALLBACK)
  <2>1. Faithful(CALLBACK + 1, m)
    BY <1>1, <1>3, StageNumbers DEF Faithful, Ignored
  <2>2. QED
    BY <1>0, <1>3, <2>1, MovesOn
<1>4. CASE /\ Drop(CALLBACK)
           /\ IF "receiver" \in shutting_down
              THEN UNCHANGED shutting_down ELSE ListenerDies
  <2>1. ~Healthy'
    BY <1>4, DieUnhealthy DEF Healthy, ListenerDies
  <2>2. QED
    BY <1>0, <1>4, <2>1 DEF Loses
<1>5. QED
  BY <1>2, <1>3, <1>4 DEF Callback

LEMMA SinkShape ==
  ASSUME TypeOK, HandInv, ContentInv, SinkStep PROVE Moves \/ Loses \/ Quiet
<1>0. UNCHANGED <<sent, missed>> /\ PULLED \in 1 .. 6 /\ SINK \in 1 .. 6 /\ PULLED \in Stage /\ SINK \in Stage
  BY StageNumbers DEF SinkStep, SinkRecv, SinkSend, others
<1>1. CASE SinkRecv /\ at[PULLED] # << >>
  <2> DEFINE m == [Head(at[PULLED]) EXCEPT !.envelope =
                     MakePayload("sink", [form |-> "dict", timestamp |-> None]).timestamp]
  <2>1. Head(at[PULLED]) \in Message /\ Faithful(PULLED, Head(at[PULLED]))
    BY <1>0, <1>1, HeadFaithful
  <2>2. MakePayload("sink", [form |-> "dict", timestamp |-> None]).timestamp = "sink"
    BY DEF MakePayload
  <2>3. m \in Message /\ m.id = Head(at[PULLED]).id /\ Faithful(PULLED + 1, m)
    BY <2>1, <2>2, StageNumbers DEF Message, Faithful
  <2>4. CASE MoveAs(PULLED, m)
    <3> HIDE DEF m
    <3>1. QED
      BY <1>0, <1>1, <2>3, <2>4 DEF Moves
  <2>5. CASE UNCHANGED at
    BY <1>0, <2>5 DEF Quiet
  <2>6. QED
    BY <1>1, <2>4, <2>5 DEF SinkRecv
<1>2. CASE SinkRecv /\ at[PULLED] = << >>
  BY <1>0, <1>2 DEF SinkRecv, Quiet
<1>3. CASE SinkSend
  <2>1. at[SINK] # << >>
    BY <1>3 DEF SinkSend, HandInv
  <2>2. CASE Move(SINK)
    <3>1. Faithful(SINK + 1, Head(at[SINK]))
      BY <1>0, <2>1, HeadFaithful, StageNumbers DEF Faithful
    <3>2. QED
      BY <1>0, <2>1, <2>2, <3>1, MovesOn
  <2>3. CASE Drop(SINK) /\ Die("receiver")
    BY <1>0, <2>1, <2>3, DieUnhealthy DEF Loses
  <2>4. QED
    BY <1>3, <2>2, <2>3 DEF SinkSend
<1>4. QED
  BY <1>1, <1>2, <1>3 DEF SinkStep

LEMMA LinkShape ==
  ASSUME TypeOK, NEW c \in {"relay", "listener"}, LoseLink(c) PROVE Cuts \/ Quiet
<1>1. ~Healthy' /\ UNCHANGED <<sent, missed>>
  BY DEF LoseLink, Healthy, others
<1>2. QED
  BY <1>1 DEF LoseLink, Cuts, Cut, Quiet

LEMMA SendShape ==
  ASSUME TypeOK, NEW e \in Events, Send(e) PROVE Sends
BY FlowAssumption DEF Send, Sends, Pushed, NewMessage

LEMMA ForeignShape == ASSUME TypeOK, Foreign PROVE Hears
<1>1. PICK readable \in BOOLEAN :
        Pushed(BROKER, [id |-> 0, routable |-> ~readable, readable |-> readable, envelope |-> None,
                        data |-> [form |-> "dict", timestamp |-> "relay"]])
  BY DEF Foreign, Pushed
<1> DEFINE m == [id |-> 0, routable |-> ~readable, readable |-> readable, envelope |-> None,
                 data |-> [form |-> "dict", timestamp |-> "relay"]]
<1>2. m \in Message /\ m.id = 0 /\ ~(m.routable /\ m.readable)
  BY DEF Message, Data, None
<1>3. UNCHANGED <<sent, missed>>
  BY DEF Foreign
<1> HIDE DEF m
<1>4. QED
  BY <1>1, <1>2, <1>3 DEF Hears, m

LEMMA StepShape ==
  ASSUME TypeOK, HandInv, ContentInv, [Next]_vars
  PROVE  Quiet \/ Sends \/ Hears \/ Moves \/ Loses \/ Misses \/ Cuts
<1>1. CASE \E e \in Events : Send(e)
  BY <1>1, SendShape
<1>2. CASE Foreign
  BY <1>2, ForeignShape
<1>3. CASE RelayStep
  <2>1. CASE RelayLoop
    BY <2>1 DEF RelayLoop, others, Quiet
  <2>2. QED
    BY <1>3, <2>1, RecvShape, PublishShape DEF RelayStep
<1>4. CASE ListenerStep
  <2>1. CASE ListenerSetup
    BY <2>1 DEF ListenerSetup, others, Quiet
  <2>2. QED
    BY <1>4, <2>1, ConsumeShape, CallbackShape DEF ListenerStep
<1>5. CASE SinkStep
  BY <1>5, SinkShape
<1>6. CASE \E c \in {"relay", "listener"} : LoseLink(c)
  BY <1>6, LinkShape
<1>7. CASE (\E p \in {"sender", "receiver"} : Stop(p)) \/ UNCHANGED vars
  BY <1>7 DEF Stop, others, vars, Quiet
<1>8. QED
  BY <1>1, <1>2, <1>3, <1>4, <1>5, <1>6, <1>7 DEF Next

-----------------------------------------------------------------------------
\* After a step the messages are the old ones, but for m at stage r.
OldOr(r, m) ==
  \A q \in Stage : \A k \in 1 .. Len(at'[q]) :
    \/ \E j \in 1 .. Len(at[q]) : at'[q][k] = at[q][j]
    \/ q = r /\ at'[q][k] = m
Old ==
  \A q \in Stage : \A k \in 1 .. Len(at'[q]) :
    \E j \in 1 .. Len(at[q]) : at'[q][k] = at[q][j]

LEMMA MovedOld ==
  ASSUME at \in [Stage -> Seq(Message)], NEW s \in 1 .. 6, NEW m \in Message,
         at[s] # << >>, m.id = Head(at[s]).id, MoveAs(s, m)
  PROVE  OldOr(s + 1, m)
<1> SUFFICES ASSUME NEW q \in Stage, NEW k \in 1 .. Len(at'[q])
             PROVE  \/ \E j \in 1 .. Len(at[q]) : at'[q][k] = at[q][j]
                    \/ q = s + 1 /\ at'[q][k] = m
  BY DEF OldOr
<1>1. Was(s, m, q, k)
  BY MovedPlace
<1>2. QED
  BY <1>1 DEF Was

LEMMA PushedOld ==
  ASSUME at \in [Stage -> Seq(Message)], NEW s \in Stage, NEW m \in Message, Pushed(s, m)
  PROVE  OldOr(s, m)
<1> SUFFICES ASSUME NEW q \in Stage, NEW k \in 1 .. Len(at'[q])
             PROVE  \/ \E j \in 1 .. Len(at[q]) : at'[q][k] = at[q][j]
                    \/ q = s /\ at'[q][k] = m
  BY DEF OldOr
<1>1. Len(at[q]) \in Nat
  OBVIOUS
<1>2. QED
  BY <1>1, PushedStages

LEMMA DroppedOld ==
  ASSUME at \in [Stage -> Seq(Message)], NEW s \in Stage, at[s] # << >>, Drop(s)
  PROVE  Old
<1> SUFFICES ASSUME NEW q \in Stage, NEW k \in 1 .. Len(at'[q])
             PROVE  \E j \in 1 .. Len(at[q]) : at'[q][k] = at[q][j]
  BY DEF Old
<1>1. Len(at[q]) \in Nat
  OBVIOUS
<1>2. CASE q = s
  <2>1. k + 1 \in 1 .. Len(at[q]) /\ at'[q][k] = at[q][k + 1]
    BY <1>1, <1>2, DroppedStages
  <2>2. QED
    BY <2>1
<1>3. CASE q # s
  BY <1>3, DroppedStages
<1>4. QED
  BY <1>2, <1>3

LEMMA CutOld ==
  ASSUME at \in [Stage -> Seq(Message)], NEW s \in Stage, NEW n \in 0 .. Len(at[s]), Cut(s, n)
  PROVE  Old
<1> SUFFICES ASSUME NEW q \in Stage, NEW k \in 1 .. Len(at'[q])
             PROVE  \E j \in 1 .. Len(at[q]) : at'[q][k] = at[q][j]
  BY DEF Old
<1>1. CASE q = s
  BY <1>1, CutStages
<1>2. CASE q # s
  BY <1>2, CutStages
<1>3. QED
  BY <1>1, <1>2

-----------------------------------------------------------------------------
\* Who stays present.
LEMMA MovedPresent ==
  ASSUME at \in [Stage -> Seq(Message)], NEW s \in 1 .. 6, NEW m \in Message,
         at[s] # << >>, m.id = Head(at[s]).id, MoveAs(s, m), NEW n, Present(n)
  PROVE  Present(n)'
<1>1. PICK q \in Stage : \E i \in 1 .. Len(at[q]) : at[q][i].id = n
  BY DEF Present
<1>2. PICK i \in 1 .. Len(at[q]) : at[q][i].id = n
  BY <1>1
<1> SUFFICES \E p \in Stage : \E k \in 1 .. Len(at'[p]) : at'[p][k].id = n
  BY DEF Present
<1>0. s \in Stage /\ s + 1 \in Stage
  BY Stages
<1>3. at[s] \in Seq(Message) /\ at[q] \in Seq(Message) /\ at[s + 1] \in Seq(Message)
  BY <1>0
<1>4. Head(at[s]) = at[s][1] /\ Len(at[s]) \in Nat /\ Len(at[q]) \in Nat /\ Len(at[s + 1]) \in Nat
  BY <1>3
<1>5. CASE q = s /\ i = 1
  <2>1. /\ Len(at'[s + 1]) = Len(at[s + 1]) + 1
        /\ at'[s + 1][Len(at[s + 1]) + 1] = m
    BY MovedStages
  <2>2. Len(at[s + 1]) + 1 \in 1 .. Len(at'[s + 1]) /\ m.id = n
    BY <2>1, <1>2, <1>4, <1>5
  <2>3. QED
    BY <1>0, <2>1, <2>2
<1>6. CASE q = s /\ i # 1
  <2>1. i - 1 \in 1 .. Len(at[s]) - 1 /\ (i - 1) + 1 = i
    BY <1>4, <1>6
  <2>2. i - 1 \in 1 .. Len(at'[s]) /\ at'[s][i - 1] = at[s][(i - 1) + 1]
    BY <2>1, MovedStages
  <2>3. QED
    BY <1>0, <1>2, <1>6, <2>1, <2>2
<1>7. CASE q = s + 1
  <2>1. /\ Len(at'[q]) = Len(at[q]) + 1
        /\ \A k \in 1 .. Len(at[q]) : at'[q][k] = at[q][k]
    BY <1>7, MovedStages
  <2>2. i \in 1 .. Len(at'[q]) /\ at'[q][i] = at[q][i]
    BY <2>1, <1>4
  <2>3. QED
    BY <1>2, <2>2
<1>8. CASE q \notin {s, s + 1}
  <2>1. at'[q] = at[q]
    BY <1>8, MovedStages
  <2>2. QED
    BY <1>2, <2>1
<1>9. QED
  BY <1>5, <1>6, <1>7, <1>8

LEMMA DroppedPresent ==
  ASSUME at \in [Stage -> Seq(Message)], NEW s \in Stage, at[s] # << >>, Drop(s),
         NEW n, n # Head(at[s]).id, Present(n)
  PROVE  Present(n)'
<1>1. PICK q \in Stage : \E i \in 1 .. Len(at[q]) : at[q][i].id = n
  BY DEF Present
<1>2. PICK i \in 1 .. Len(at[q]) : at[q][i].id = n
  BY <1>1
<1> SUFFICES \E p \in Stage : \E k \in 1 .. Len(at'[p]) : at'[p][k].id = n
  BY DEF Present
<1>3. at[s] \in Seq(Message) /\ at[q] \in Seq(Message)
  OBVIOUS
<1>4. Head(at[s]) = at[s][1] /\ Len(at[s]) \in Nat /\ Len(at[q]) \in Nat
  BY <1>3
<1>5. CASE q = s
  <2>1. i - 1 \in 1 .. Len(at[s]) - 1 /\ (i - 1) + 1 = i
    BY <1>2, <1>4, <1>5
  <2>2. i - 1 \in 1 .. Len(at'[s]) /\ at'[s][i - 1] = at[s][(i - 1) + 1]
    BY <2>1, DroppedStages
  <2>3. QED
    BY <1>2, <1>5, <2>1, <2>2
<1>6. CASE q # s
  <2>1. at'[q] = at[q]
    BY <1>6, DroppedStages
  <2>2. QED
    BY <1>2, <2>1
<1>7. QED
  BY <1>5, <1>6

LEMMA PushedPresent ==
  ASSUME at \in [Stage -> Seq(Message)], NEW s \in Stage, NEW m \in Message, Pushed(s, m),
         NEW n, Present(n) \/ n = m.id
  PROVE  Present(n)'
<1> SUFFICES \E p \in Stage : \E k \in 1 .. Len(at'[p]) : at'[p][k].id = n
  BY DEF Present
<1>1. \A q \in Stage : Len(at[q]) \in Nat
  OBVIOUS
<1>2. CASE n = m.id
  <2>1. Len(at[s]) + 1 \in 1 .. Len(at'[s]) /\ at'[s][Len(at[s]) + 1].id = n
    BY <1>1, <1>2, PushedStages
  <2>2. QED
    BY <2>1
<1>3. CASE Present(n)
  <2>1. PICK q \in Stage : \E i \in 1 .. Len(at[q]) : at[q][i].id = n
    BY <1>3 DEF Present
  <2>2. PICK i \in 1 .. Len(at[q]) : at[q][i].id = n
    BY <2>1
  <2>3. CASE q = s
    <3>1. /\ Len(at'[q]) = Len(at[q]) + 1
          /\ \A k \in 1 .. Len(at[q]) : at'[q][k] = at[q][k]
      BY <2>3, PushedStages
    <3>2. i \in 1 .. Len(at'[q]) /\ at'[q][i] = at[q][i]
      BY <1>1, <3>1
    <3>3. QED
      BY <2>2, <3>2
  <2>4. CASE q # s
    <3>1. at'[q] = at[q]
      BY <2>4, PushedStages
    <3>2. QED
      BY <2>2, <3>1
  <2>5. QED
    BY <2>3, <2>4
<1>4. QED
  BY <1>2, <1>3

-----------------------------------------------------------------------------
\* What is sent stays so.
LEMMA SentGrows ==
  ASSUME TypeOK, Quiet \/ Sends \/ Hears \/ Moves \/ Loses \/ Misses \/ Cuts
  PROVE  /\ sent' \in Seq(Event) /\ Len(sent') <= MaxMessages
         /\ Len(sent) \in Nat /\ Len(sent') \in Nat /\ Len(sent) <= Len(sent')
         /\ \A n \in 1 .. Len(sent) : sent'[n] = sent[n]
<1>0. sent \in Seq(Event) /\ Len(sent) <= MaxMessages
  BY DEF TypeOK
<1>1. CASE sent' = sent
  BY <1>0, <1>1
<1>2. CASE Sends
  <2>1. PICK e \in Event : sent' = Append(sent, e) /\ Len(sent) < MaxMessages
    BY <1>2 DEF Sends
  <2>2. /\ Append(sent, e) \in Seq(Event) /\ Len(Append(sent, e)) = Len(sent) + 1
        /\ \A n \in 1 .. Len(sent) : Append(sent, e)[n] = sent[n]
    BY <1>0
  <2>3. Len(sent) \in Nat /\ MaxMessages \in Nat
    BY <1>0, FlowAssumption
  <2>4. QED
    BY <2>1, <2>2, <2>3
<1>3. QED
  BY <1>1, <1>2 DEF Quiet, Hears, Moves, Loses, Misses, Cuts

LEMMA ShapeType ==
  ASSUME TypeOK, ContentInv, Quiet \/ Sends \/ Hears \/ Moves \/ Loses \/ Misses \/ Cuts
  PROVE  at' \in [Stage -> Seq(Message)] /\ missed' \in 0 .. MaxMessages
<1>0. at \in [Stage -> Seq(Message)] /\ missed \in 0 .. MaxMessages
  BY DEF TypeOK
<1>1. CASE Quiet
  BY <1>0, <1>1 DEF Quiet
<1>2. CASE Sends
  <2>1. PICK e \in Event : Pushed(SOURCE, NewMessage(e)) /\ missed' = missed
    BY <1>2 DEF Sends
  <2>2. NewMessage(e) \in Message
    BY DEF NewMessage, Message, Event, TypeOK
  <2>3. QED
    BY <1>0, <2>1, <2>2, PushedStages, StageNumbers
<1>3. CASE Hears
  <2>1. PICK m \in Message : Pushed(BROKER, m) /\ missed' = missed
    BY <1>3 DEF Hears
  <2>2. QED
    BY <1>0, <2>1, PushedStages, StageNumbers
<1>4. CASE Moves
  BY <1>0, <1>4, MovedStages DEF Moves
<1>5. CASE Loses
  BY <1>0, <1>5, DroppedStages, StageNumbers DEF Loses
<1>6. CASE Misses
  <2>1. RELAY \in Stage /\ at[RELAY] # << >>
    BY <1>6, StageNumbers DEF Misses
  <2>2. Head(at[RELAY]) \in Message /\ Head(at[RELAY]).id <= Len(sent)
    BY <2>1, HeadFaithful DEF Faithful
  <2>3. Head(at[RELAY]).id \in 0 .. MaxMessages
    BY <2>2, FlowAssumption DEF TypeOK, Message
  <2>4. QED
    BY <1>0, <1>6, <2>1, <2>3, DroppedStages DEF Misses
<1>7. CASE Cuts
  <2>1. PICK n \in 0 .. Len(at[BROKER]) : Cut(BROKER, n)
    BY <1>7 DEF Cuts
  <2>2. QED
    BY <1>0, <1>7, <2>1, CutStages, StageNumbers DEF Cuts
<1>8. QED
  BY <1>1, <1>2, <1>3, <1>4, <1>5, <1>6, <1>7

-----------------------------------------------------------------------------
\* An old message stays faithful to what was sent.
LEMMA OldFaithful ==
  ASSUME TypeOK, ContentInv, Quiet \/ Sends \/ Hears \/ Moves \/ Loses \/ Misses \/ Cuts,
         NEW q \in Stage, NEW k \in 1 .. Len(at'[q]), NEW j \in 1 .. Len(at[q]),
         at'[q][k] = at[q][j]
  PROVE  Faithful(q, at[q][k])'
<1> DEFINE m == at[q][j]
<1>1. m \in Message /\ Faithful(q, m)
  BY DEF ContentInv, TypeOK
<1>2. m.id \in Nat /\ m.id <= Len(sent)
  BY <1>1 DEF Message, Faithful
<1>3. /\ Len(sent) \in Nat /\ Len(sent') \in Nat /\ Len(sent) <= Len(sent')
      /\ \A n \in 1 .. Len(sent) : sent'[n] = sent[n]
  BY SentGrows
<1>4. m.id # 0 => sent'[m.id] = sent[m.id]
  BY <1>2, <1>3
<1>5. m.id <= Len(sent')
  BY <1>2, <1>3
<1>6. at'[q][k] = m
  OBVIOUS
<1> HIDE DEF m
<1>7. QED
  BY <1>1, <1>4, <1>5, <1>6 DEF Faithful

LEMMA NextContent ==
  ASSUME TypeOK, ContentInv, Quiet \/ Sends \/ Hears \/ Moves \/ Loses \/ Misses \/ Cuts
  PROVE  ContentInv'
<1> SUFFICES ASSUME NEW q \in Stage, NEW k \in 1 .. Len(at'[q])
             PROVE  Faithful(q, at[q][k])'
  BY DEF ContentInv
<1>0. at \in [Stage -> Seq(Message)]
  BY DEF TypeOK
<1>1. CASE \E j \in 1 .. Len(at[q]) : at'[q][k] = at[q][j]
  BY <1>1, OldFaithful
<1>2. CASE Quiet
  BY <1>1, <1>2 DEF Quiet
<1>3. CASE Sends
  <2>1. PICK e \in Event : sent' = Append(sent, e) /\ Pushed(SOURCE, NewMessage(e))
    BY <1>3 DEF Sends
  <2> DEFINE m == NewMessage(e)
  <2>2. m \in Message
    BY DEF NewMessage, Message, Event, TypeOK
  <2>3. OldOr(SOURCE, m)
    BY <1>0, <2>1, <2>2, PushedOld, StageNumbers
  <2>4. CASE q = SOURCE /\ at'[q][k] = m
    <3>1. sent \in Seq(Event) /\ m.id = Len(sent) + 1 /\ m.readable /\ m.id # 0
      BY DEF TypeOK, NewMessage
    <3>2. sent'[m.id] = e /\ m.id <= Len(sent') /\ m.routable = e.routable /\ m.data = e.data
      BY <2>1, <3>1 DEF NewMessage
    <3>3. q = 1
      BY <2>4, StageNumbers
    <3> HIDE DEF m
    <3>4. QED
      BY <2>4, <3>1, <3>2, <3>3, StageNumbers DEF Faithful
  <2>5. QED
    BY <1>1, <2>3, <2>4 DEF OldOr
<1>4. CASE Hears
  <2>1. PICK m \in Message :
          m.id = 0 /\ ~(m.routable /\ m.readable) /\ Pushed(BROKER, m) /\ sent' = sent
    BY <1>4 DEF Hears
  <2>2. OldOr(BROKER, m)
    BY <1>0, <2>1, PushedOld, StageNumbers
  <2>3. CASE q = BROKER /\ at'[q][k] = m
    <3>1. Len(sent) \in Nat /\ Len(sent') \in Nat
      BY SentGrows
    <3>2. QED
      BY <2>1, <2>3, <3>1, StageNumbers DEF Faithful
  <2>4. QED
    BY <1>1, <2>2, <2>3 DEF OldOr
<1>5. CASE Moves
  <2>1. PICK s \in 1 .. 6 : \E m \in Message :
          /\ at[s] # << >> /\ m.id = Head(at[s]).id /\ Faithful(s + 1, m)
          /\ MoveAs(s, m) /\ sent' = sent
    BY <1>5 DEF Moves
  <2>2. PICK m \in Message :
          /\ at[s] # << >> /\ m.id = Head(at[s]).id /\ Faithful(s + 1, m)
          /\ MoveAs(s, m) /\ sent' = sent
    BY <2>1
  <2>3. OldOr(s + 1, m)
    BY <1>0, <2>2, MovedOld
  <2>4. CASE q = s + 1 /\ at'[q][k] = m
    BY <2>2, <2>4 DEF Faithful
  <2>5. QED
    BY <1>1, <2>3, <2>4 DEF OldOr
<1>6. CASE Loses
  <2>1. Old
    BY <1>0, <1>6, DroppedOld, StageNumbers DEF Loses
  <2>2. QED
    BY <1>1, <2>1 DEF Old
<1>7. CASE Misses
  <2>1. Old
    BY <1>0, <1>7, DroppedOld, StageNumbers DEF Misses
  <2>2. QED
    BY <1>1, <2>1 DEF Old
<1>8. CASE Cuts
  <2>1. Old
    BY <1>0, <1>8, CutOld, StageNumbers DEF Cuts
  <2>2. QED
    BY <1>1, <2>1 DEF Old
<1>9. QED
  BY <1>2, <1>3, <1>4, <1>5, <1>6, <1>7, <1>8

LEMMA NextOrder ==
  ASSUME TypeOK, ContentInv, OrderKept, Quiet \/ Sends \/ Hears \/ Moves \/ Loses \/ Misses \/ Cuts
  PROVE  OrderKept'
<1>0. at \in [Stage -> Seq(Message)]
  BY DEF TypeOK
<1>1. CASE Quiet
  BY <1>1 DEF Quiet, OrderKept
<1>2. CASE Sends
  <2>1. PICK e \in Event : Pushed(SOURCE, NewMessage(e))
    BY <1>2 DEF Sends
  <2>2. NewMessage(e) \in Message /\ NewMessage(e).id = Len(sent) + 1 /\ Len(sent) \in Nat
    BY DEF NewMessage, Message, Event, TypeOK
  <2>3. ASSUME NEW r \in Stage, NEW i \in 1 .. Len(at[r]) PROVE at[r][i].id < Len(sent) + 1
    <3>1. at[r][i] \in Message /\ at[r][i].id <= Len(sent)
      BY <1>0 DEF ContentInv, Faithful
    <3>2. QED
      BY <2>2, <3>1 DEF Message
  <2> DEFINE m == NewMessage(e)
  <2>4. /\ m \in Message /\ Pushed(SOURCE, m) /\ SOURCE \in Stage
        /\ \A r \in Stage : \A i \in 1 .. Len(at[r]) : at[r][i].id < m.id
    <3>1. m \in Message /\ m.id = Len(sent) + 1 /\ Pushed(SOURCE, m)
      BY <2>1, <2>2
    <3> HIDE DEF m
    <3>2. \A r \in Stage : \A i \in 1 .. Len(at[r]) : at[r][i].id < m.id
      BY <2>3, <3>1
    <3>3. QED
      BY <3>1, <3>2, StageNumbers
  <2> HIDE DEF m
  <2>5. QED
    BY <1>0, <2>4, PushedOrder
<1>3. CASE Hears
  BY <1>0, <1>3, PushedOrder, StageNumbers DEF Hears
<1>4. CASE Moves
  BY <1>0, <1>4, MovedOrder DEF Moves
<1>5. CASE Loses
  BY <1>0, <1>5, DroppedOrder, StageNumbers DEF Loses
<1>6. CASE Misses
  BY <1>0, <1>6, DroppedOrder, StageNumbers DEF Misses
<1>7. CASE Cuts
  BY <1>0, <1>7, CutOrder, StageNumbers DEF Cuts
<1>8. QED
  BY <1>1, <1>2, <1>3, <1>4, <1>5, <1>6, <1>7

\* Nothing the relay still holds has been missed.
LEMMA NextMissed ==
  ASSUME TypeOK, ContentInv, OrderKept, MissedInv,
         Quiet \/ Sends \/ Hears \/ Moves \/ Loses \/ Misses \/ Cuts
  PROVE  MissedInv'
<1>0. /\ at \in [Stage -> Seq(Message)] /\ missed \in Nat /\ missed <= Len(sent)
      /\ SOURCE \in Stage /\ RELAY \in Stage
  BY StageNumbers, FlowAssumption DEF TypeOK, MissedInv
<1>1. Len(sent) \in Nat /\ Len(sent') \in Nat /\ Len(sent) <= Len(sent')
  BY SentGrows
<1>2. CASE missed' = missed
  <2>1. missed' <= Len(sent')
    BY <1>0, <1>1, <1>2
  <2> SUFFICES ASSUME NEW q \in {SOURCE, RELAY}, NEW k \in 1 .. Len(at'[q])
               PROVE  missed < at'[q][k].id
    BY <2>1, <1>2 DEF MissedInv
  <2>2. CASE \E j \in 1 .. Len(at[q]) : at'[q][k] = at[q][j]
    BY <2>2 DEF MissedInv
  <2>3. q \in Stage /\ q # BROKER
    BY StageNumbers
  <2>4. CASE Quiet
    BY <2>2, <2>4 DEF Quiet
  <2>5. CASE Sends
    <3>1. PICK e \in Event : Pushed(SOURCE, NewMessage(e))
      BY <2>5 DEF Sends
    <3>2. NewMessage(e) \in Message /\ NewMessage(e).id = Len(sent) + 1
      BY DEF NewMessage, Message, Event, TypeOK
    <3>3. OldOr(SOURCE, NewMessage(e))
      BY <1>0, <3>1, <3>2, PushedOld
    <3>4. CASE at'[q][k] = NewMessage(e)
      BY <1>0, <1>1, <3>2, <3>4
    <3>5. QED
      BY <2>2, <2>3, <3>3, <3>4 DEF OldOr
  <2>6. CASE Hears
    <3>1. PICK m \in Message : Pushed(BROKER, m)
      BY <2>6 DEF Hears
    <3>2. OldOr(BROKER, m)
      BY <1>0, <3>1, PushedOld, StageNumbers
    <3>3. QED
      BY <2>2, <2>3, <3>2 DEF OldOr
  <2>7. CASE Moves
    <3>1. PICK s \in 1 .. 6 : \E m \in Message :
            at[s] # << >> /\ m.id = Head(at[s]).id /\ MoveAs(s, m)
      BY <2>7 DEF Moves
    <3>2. PICK m \in Message : at[s] # << >> /\ m.id = Head(at[s]).id /\ MoveAs(s, m)
      BY <3>1
    <3>3. OldOr(s + 1, m)
      BY <1>0, <3>2, MovedOld
    <3>4. CASE q = s + 1 /\ at'[q][k] = m
      <4>1. s = SOURCE
        BY <3>4, StageNumbers
      <4>2. at[s] \in Seq(Message)
        BY <1>0, <4>1
      <4>3. Head(at[s]) = at[s][1] /\ 1 \in 1 .. Len(at[s])
        BY <3>2, <4>2
      <4>4. missed < at[s][1].id
        BY <4>1, <4>3 DEF MissedInv
      <4>5. QED
        BY <3>2, <3>4, <4>3, <4>4
    <3>5. QED
      BY <2>2, <2>3, <3>3, <3>4 DEF OldOr
  <2>8. CASE Loses
    <3>1. Old
      BY <1>0, <2>8, DroppedOld, StageNumbers DEF Loses
    <3>2. QED
      BY <2>2, <2>3, <3>1 DEF Old
  <2>9. CASE Misses
    <3>1. Old
      BY <1>0, <2>9, DroppedOld DEF Misses
    <3>2. QED
      BY <2>2, <2>3, <3>1 DEF Old
  <2>10. CASE Cuts
    <3>1. Old
      BY <1>0, <2>10, CutOld, StageNumbers DEF Cuts
    <3>2. QED
      BY <2>2, <2>3, <3>1 DEF Old
  <2>11. QED
    BY <2>4, <2>5, <2>6, <2>7, <2>8, <2>9, <2>10
<1>3. CASE Misses
  <2>1. /\ at[RELAY] # << >> /\ Drop(RELAY) /\ missed' = Head(at[RELAY]).id /\ sent' = sent
        /\ at[RELAY] \in Seq(Message)
    BY <1>0, <1>3 DEF Misses
  <2>2. Head(at[RELAY]) = at[RELAY][1] /\ 1 \in 1 .. Len(at[RELAY]) /\ Len(at[RELAY]) \in Nat
    BY <2>1
  <2>3. ASSUME NEW s \in {SOURCE, RELAY}, NEW i \in 1 .. Len(at[s]) PROVE at[s][i].id # 0
    <3>1. Faithful(s, at[s][i])
      BY <1>0 DEF ContentInv
    <3>2. QED
      BY <3>1, StageNumbers DEF Faithful
  <2>4. missed' <= Len(sent')
    BY <1>0, <2>1, <2>2 DEF ContentInv, Faithful
  <2>5. ASSUME NEW k \in 1 .. Len(at'[SOURCE]) PROVE missed' < at'[SOURCE][k].id
    <3>1. at'[SOURCE] = at[SOURCE]
      BY <1>0, <2>1, DroppedStages, StageNumbers
    <3>2. Before(RELAY, 1, SOURCE, k)
      BY StageNumbers DEF Before
    <3>3. QED
      BY <1>0, <2>1, <2>2, <2>3, <3>1, <3>2, OrderPair
  <2>6. ASSUME NEW k \in 1 .. Len(at'[RELAY]) PROVE missed' < at'[RELAY][k].id
    <3>1. /\ Len(at'[RELAY]) = Len(at[RELAY]) - 1
          /\ \A i \in 1 .. Len(at[RELAY]) - 1 : at'[RELAY][i] = at[RELAY][i + 1]
      BY <1>0, <2>1, DroppedStages
    <3>2. at'[RELAY][k] = at[RELAY][k + 1] /\ k + 1 \in 1 .. Len(at[RELAY])
      BY <2>2, <3>1
    <3>3. Before(RELAY, 1, RELAY, k + 1)
      BY DEF Before
    <3>4. at[RELAY][1].id < at[RELAY][k + 1].id
      BY <1>0, <2>2, <2>3, <3>2, <3>3, OrderPair
    <3>5. QED
      BY <2>1, <2>2, <3>2, <3>4
  <2>7. QED
    BY <2>4, <2>5, <2>6 DEF MissedInv
<1>4. QED
  BY <1>2, <1>3 DEF Quiet, Sends, Hears, Moves, Loses, Misses, Cuts

-----------------------------------------------------------------------------
\* What has failed stays so.
LEMMA HealthOnlyFades ==
  ASSUME TypeOK, [Next]_vars, Healthy' PROVE Healthy
<1>1. links' \subseteq links /\ shutting_down \subseteq shutting_down'
  <2> USE DEF Die
  <2>1. CASE (\E e \in Events : Send(e)) \/ Foreign \/ UNCHANGED vars
    BY <2>1 DEF Send, Foreign, vars
  <2>2. CASE RelayStep
    BY <2>2 DEF RelayStep, RelayLoop, RelayRecv, RelayPublish, RelayFails
  <2>3. CASE ListenerStep
    BY <2>3 DEF ListenerStep, ListenerSetup, Consume, Callback, ListenerDies
  <2>4. CASE SinkStep
    BY <2>4 DEF SinkStep, SinkRecv, SinkSend
  <2>5. CASE \/ \E c \in {"relay", "listener"} : LoseLink(c)
             \/ \E p \in {"sender", "receiver"} : Stop(p)
    BY <2>5 DEF LoseLink, Stop
  <2>6. QED
    BY <2>1, <2>2, <2>3, <2>4, <2>5 DEF Next
<1>2. QED
  BY <1>1 DEF Healthy, TypeOK

LEMMA Above ==
  ASSUME NEW a \in Nat, NEW b \in Nat PROVE \A n \in a + 1 .. b : n \in Nat /\ n > a /\ n <= b
OBVIOUS

LEMMA NextNothingLost ==
  ASSUME TypeOK, ContentInv, MissedInv, NothingLostInHealth, [Next]_vars,
         Quiet \/ Sends \/ Hears \/ Moves \/ Loses \/ Misses \/ Cuts, MissedInv'
  PROVE  NothingLostInHealth'
<1> SUFFICES ASSUME Healthy', NEW n \in Nat, n > missed', n <= Len(sent'), sent'[n].routable
             PROVE  Present(n)'
  <2>1. missed' \in Nat /\ Len(sent') \in Nat
    BY ShapeType, SentGrows, FlowAssumption
  <2>2. \A n \in (missed' + 1) .. Len(sent') : n \in Nat /\ n > missed' /\ n <= Len(sent')
    BY <2>1, Above
  <2>3. QED
    BY <2>2 DEF NothingLostInHealth, Present
<1>0. /\ at \in [Stage -> Seq(Message)] /\ Healthy
      /\ missed \in Nat /\ missed' \in Nat /\ sent \in Seq(Event)
  BY HealthOnlyFades, ShapeType, FlowAssumption DEF TypeOK
<1>1. /\ Len(sent) \in Nat /\ Len(sent') \in Nat /\ Len(sent) <= Len(sent')
      /\ \A i \in 1 .. Len(sent) : sent'[i] = sent[i]
  BY SentGrows
<1>2. n # 0 /\ n > missed' /\ n <= Len(sent')
  BY <1>0
<1>3. n <= Len(sent) => sent[n].routable
  BY <1>1, <1>2
<1>4. n <= Len(sent) /\ missed' >= missed => Present(n)
  BY <1>0, <1>1, <1>2, <1>3 DEF NothingLostInHealth, Present
<1>5. CASE Quiet
  <2>1. Present(n)
    BY <1>0, <1>2, <1>4, <1>5 DEF Quiet
  <2>2. QED
    BY <2>1, <1>5 DEF Present, Quiet
<1>6. CASE Sends
  <2>1. PICK e \in Event : sent' = Append(sent, e) /\ Pushed(SOURCE, NewMessage(e)) /\ missed' = missed
    BY <1>6 DEF Sends
  <2>2. NewMessage(e) \in Message /\ NewMessage(e).id = Len(sent) + 1
    BY DEF NewMessage, Message, Event, TypeOK
  <2>3. Len(sent') = Len(sent) + 1
    BY <1>0, <2>1
  <2>4. Present(n) \/ n = NewMessage(e).id
    BY <1>0, <1>1, <1>2, <1>4, <2>1, <2>2, <2>3
  <2> DEFINE m == NewMessage(e)
  <2>5. m \in Message /\ Pushed(SOURCE, m) /\ SOURCE \in Stage /\ (Present(n) \/ n = m.id)
    BY <2>1, <2>2, <2>4, StageNumbers
  <2> HIDE DEF m
  <2>6. QED
    BY <1>0, <2>5, PushedPresent
<1>7. CASE Hears
  <2>1. Present(n)
    BY <1>0, <1>2, <1>4, <1>7 DEF Hears
  <2>2. PICK m \in Message : Pushed(BROKER, m)
    BY <1>7 DEF Hears
  <2>3. QED
    BY <1>0, <2>1, <2>2, PushedPresent, StageNumbers
<1>8. CASE Moves
  <2>1. Present(n)
    BY <1>0, <1>2, <1>4, <1>8 DEF Moves
  <2>2. PICK s \in 1 .. 6 : \E m \in Message :
          at[s] # << >> /\ m.id = Head(at[s]).id /\ MoveAs(s, m)
    BY <1>8 DEF Moves
  <2>3. QED
    BY <1>0, <2>1, <2>2, MovedPresent
<1>9. CASE Loses
  <2>1. Present(n) /\ sent[n].routable
    BY <1>0, <1>2, <1>3, <1>4, <1>9 DEF Loses
  <2>2. PICK s \in Stage : /\ at[s] # << >> /\ Drop(s)
                           /\ Head(at[s]).id = 0 \/ ~sent[Head(at[s]).id].routable
    BY <1>9, StageNumbers DEF Loses
  <2>3. n # Head(at[s]).id
    BY <1>2, <2>1, <2>2
  <2>4. QED
    BY <1>0, <2>1, <2>2, <2>3, DroppedPresent
<1>10. CASE Misses
  <2>1. /\ at[RELAY] # << >> /\ Drop(RELAY) /\ RELAY \in Stage /\ missed' = Head(at[RELAY]).id
        /\ sent' = sent
    BY <1>10, StageNumbers DEF Misses
  <2>2. at[RELAY] \in Seq(Message)
    BY <1>0, <2>1
  <2>3. Head(at[RELAY]) = at[RELAY][1] /\ 1 \in 1 .. Len(at[RELAY])
    BY <2>1, <2>2
  <2>4. missed < missed'
    BY <2>1, <2>3 DEF MissedInv
  <2>5. Present(n)
    BY <1>0, <1>2, <1>4, <2>1, <2>4
  <2>6. n # Head(at[RELAY]).id
    BY <1>2, <2>1
  <2>7. QED
    BY <1>0, <2>1, <2>5, <2>6, DroppedPresent
<1>11. CASE Cuts
  BY <1>11 DEF Cuts
<1>12. QED
  BY <1>5, <1>6, <1>7, <1>8, <1>9, <1>10, <1>11

-----------------------------------------------------------------------------
\* The rest of the type invariant.
ControlOK ==
  /\ relay \in {"loop", "recv", "publish", "dead"}
  /\ listener \in {"starting", "consuming", "callback", "dead"}
  /\ sink \in {"recv", "send", "dead"}
  /\ links \subseteq {"relay", "listener"}
  /\ shutting_down \subseteq {"sender", "receiver"}
  /\ foreign \in 0 .. MaxForeign

LEMMA NextControl == ASSUME ControlOK, [Next]_vars PROVE ControlOK'
<1> USE DEF ControlOK, Die, others
<1>1. CASE (\E e \in Events : Send(e)) \/ UNCHANGED vars
  BY <1>1 DEF Send, vars
<1>2. CASE Foreign
  BY <1>2, FlowAssumption DEF Foreign
<1>3. CASE RelayStep
  BY <1>3 DEF RelayStep, RelayLoop, RelayRecv, RelayPublish, RelayFails
<1>4. CASE ListenerStep
  BY <1>4 DEF ListenerStep, ListenerSetup, Consume, Callback, ListenerDies
<1>5. CASE SinkStep
  BY <1>5 DEF SinkStep, SinkRecv, SinkSend
<1>6. CASE \/ \E c \in {"relay", "listener"} : LoseLink(c)
           \/ \E p \in {"sender", "receiver"} : Stop(p)
  BY <1>6 DEF LoseLink, Stop
<1>7. QED
  BY <1>1, <1>2, <1>3, <1>4, <1>5, <1>6 DEF Next

LEMMA AppendFills == ASSUME NEW q \in Seq(Message), NEW m \in Message PROVE Append(q, m) # << >>
<1>1. Len(Append(q, m)) = Len(q) + 1 /\ Len(q) \in Nat
  OBVIOUS
<1>2. Len(<< >>) = 0
  OBVIOUS
<1>3. QED
  BY <1>1, <1>2

\* A move concerns two stages, and fills the second.
LEMMA MovedElsewhere ==
  ASSUME at \in [Stage -> Seq(Message)], NEW s \in 1 .. 6, NEW m \in Message, MoveAs(s, m)
  PROVE  at'[s + 1] # << >> /\ \A r \in Stage \ {s, s + 1} : at'[r] = at[r]
<1>1. s + 1 \in Stage
  BY Stages
<1>2. at'[s + 1] = Append(at[s + 1], m)
  BY <1>1 DEF MoveAs
<1>3. QED
  BY <1>1, <1>2, AppendFills DEF MoveAs

LEMMA DroppedElsewhere ==
  ASSUME at \in [Stage -> Seq(Message)], NEW s, Drop(s)
  PROVE  \A r \in Stage \ {s} : at'[r] = at[r]
BY DEF Drop

\* A thread has a message in hand until it lets go of it itself.
LEMMA NextHand ==
  ASSUME TypeOK, HandInv, [Next]_vars PROVE HandInv'
<1> USE DEF HandInv
<1>0. at \in [Stage -> Seq(Message)]
  BY DEF TypeOK
<1>1. \A s \in Stage : at[s] # << >> => Head(at[s]) \in Message
  BY <1>0
<1>2. CASE \E e \in Events : Send(e)
  BY <1>0, <1>2, StageNumbers DEF Send
<1>3. CASE Foreign
  BY <1>0, <1>3, StageNumbers DEF Foreign
<1>4. CASE RelayLoop
  BY <1>4 DEF RelayLoop
<1>5. CASE RelayRecv
  <2>1. CASE at[SOURCE] # << >> /\ Move(SOURCE)
    <3>1. MoveAs(1, Head(at[SOURCE])) /\ Head(at[SOURCE]) \in Message
      BY <1>1, <2>1, StageNumbers DEF Move
    <3>2. at'[RELAY] # << >> /\ at'[CALLBACK] = at[CALLBACK] /\ at'[SINK] = at[SINK]
      BY <1>0, <3>1, MovedElsewhere, StageNumbers
    <3>3. QED
      BY <1>5, <3>2 DEF RelayRecv
  <2>2. QED
    BY <1>5, <2>1 DEF RelayRecv
<1>6. CASE RelayPublish
  <2>1. relay' # "publish" /\ UNCHANGED <<listener, sink>> /\ at[RELAY] # << >>
    BY <1>6 DEF RelayPublish, RelayFails
  <2>2. CASE Drop(RELAY)
    <3>1. CALLBACK \in Stage \ {RELAY} /\ SINK \in Stage \ {RELAY}
      BY StageNumbers
    <3>2. at'[CALLBACK] = at[CALLBACK] /\ at'[SINK] = at[SINK]
      BY <1>0, <2>2, <3>1, DroppedElsewhere
    <3>3. QED
      BY <2>1, <3>2
  <2>3. CASE Published(Head(at[RELAY])) /\ ~Drop(RELAY)
    <3> DEFINE m == Head(at[RELAY])
               p == [m EXCEPT !.data = MakePayload("relay", m.data)]
    <3>1. m \in Message
      BY <1>1, <2>1, StageNumbers
    <3>2. p \in Message
      BY <3>1 DEF Message, MakePayload, Data, None
    <3>3. MoveAs(2, p)
      BY <2>3, StageNumbers DEF Published
    <3> HIDE DEF p
    <3>4. at'[CALLBACK] = at[CALLBACK] /\ at'[SINK] = at[SINK]
      BY <1>0, <3>2, <3>3, MovedElsewhere, StageNumbers
    <3>5. QED
      BY <2>1, <3>4
  <2>4. QED
    BY <1>6, <2>2, <2>3 DEF RelayPublish, RelayFails
<1>7. CASE ListenerSetup
  BY <1>7 DEF ListenerSetup, ListenerDies
<1>8. CASE Consume
  <2>1. CASE at[BROKER] # << >> /\ Move(BROKER)
    <3>1. MoveAs(3, Head(at[BROKER])) /\ Head(at[BROKER]) \in Message
      BY <1>1, <2>1, StageNumbers DEF Move
    <3>2. at'[CALLBACK] # << >> /\ at'[RELAY] = at[RELAY] /\ at'[SINK] = at[SINK]
      BY <1>0, <3>1, MovedElsewhere, StageNumbers
    <3>3. QED
      BY <1>8, <3>2 DEF Consume
  <2>2. CASE ListenerDies /\ at' = [at EXCEPT ![BROKER] = << >>]
    <3>1. at'[RELAY] = at[RELAY] /\ at'[SINK] = at[SINK]
      BY <1>0, <2>2, StageNumbers
    <3>2. QED
      BY <1>8, <2>2, <3>1 DEF Consume, ListenerDies
  <2>3. QED
    BY <1>8, <2>1, <2>2 DEF Consume
<1>9. CASE Callback
  <2>1. listener' # "callback" /\ UNCHANGED <<relay, sink>> /\ at[CALLBACK] # << >>
    BY <1>9 DEF Callback, ListenerDies
  <2>2. CASE Drop(CALLBACK)
    BY <1>0, <2>1, <2>2, DroppedElsewhere, StageNumbers
  <2>3. CASE Move(CALLBACK)
    <3>1. MoveAs(4, Head(at[CALLBACK])) /\ Head(at[CALLBACK]) \in Message
      BY <1>1, <2>1, <2>3, StageNumbers DEF Move
    <3>2. at'[RELAY] = at[RELAY] /\ at'[SINK] = at[SINK]
      BY <1>0, <3>1, MovedElsewhere, StageNumbers
    <3>3. QED
      BY <2>1, <3>2
  <2>4. QED
    BY <1>9, <2>2, <2>3 DEF Callback
<1>10. CASE SinkRecv
  <2> DEFINE m == [Head(at[PULLED]) EXCEPT !.envelope =
                     MakePayload("sink", [form |-> "dict", timestamp |-> None]).timestamp]
  <2>1. CASE at[PULLED] # << >> /\ MoveAs(PULLED, m)
    <3>1. MoveAs(5, m) /\ m \in Message
      BY <1>1, <2>1, StageNumbers DEF MakePayload, Message
    <3> HIDE DEF m
    <3>2. at'[SINK] # << >> /\ at'[RELAY] = at[RELAY] /\ at'[CALLBACK] = at[CALLBACK]
      BY <1>0, <3>1, MovedElsewhere, StageNumbers
    <3>3. QED
      BY <1>10, <3>2 DEF SinkRecv
  <2>2. QED
    BY <1>10, <2>1 DEF SinkRecv
<1>11. CASE SinkSend
  <2>1. sink' # "send" /\ UNCHANGED <<relay, listener>> /\ at[SINK] # << >>
    BY <1>11 DEF SinkSend
  <2>2. CASE Drop(SINK)
    <3>1. RELAY \in Stage \ {SINK} /\ CALLBACK \in Stage \ {SINK}
      BY StageNumbers
    <3>2. at'[RELAY] = at[RELAY] /\ at'[CALLBACK] = at[CALLBACK]
      BY <1>0, <2>2, <3>1, DroppedElsewhere
    <3>3. QED
      BY <2>1, <3>2
  <2>3. CASE Move(SINK)
    <3>1. MoveAs(6, Head(at[SINK])) /\ Head(at[SINK]) \in Message
      BY <1>1, <2>1, <2>3, StageNumbers DEF Move
    <3>2. at'[RELAY] = at[RELAY] /\ at'[CALLBACK] = at[CALLBACK]
      BY <1>0, <3>1, MovedElsewhere, StageNumbers
    <3>3. QED
      BY <2>1, <3>2
  <2>4. QED
    BY <1>11, <2>2, <2>3 DEF SinkSend
<1>12. CASE \E c \in {"relay", "listener"} : LoseLink(c)
  BY <1>0, <1>12, StageNumbers DEF LoseLink
<1>13. CASE (\E p \in {"sender", "receiver"} : Stop(p)) \/ UNCHANGED vars
  BY <1>13 DEF Stop, vars
<1>14. QED
  BY <1>2, <1>3, <1>4, <1>5, <1>6, <1>7, <1>8, <1>9, <1>10, <1>11, <1>12, <1>13
  DEF Next, RelayStep, ListenerStep, SinkStep

-----------------------------------------------------------------------------
LEMMA InitInv == Init => Inv
<1> SUFFICES ASSUME Init PROVE Inv
  OBVIOUS
<1>1. Len(sent) = 0 /\ sent \in Seq(Event) /\ missed = 0
  BY DEF Init
<1>2. at \in [Stage -> Seq(Message)] /\ \A s \in Stage : at[s] = << >> /\ Len(at[s]) = 0
  BY DEF Init
<1>3. TypeOK
  BY <1>1, <1>2, FlowAssumption DEF Init, TypeOK
<1>4. HandInv
  BY DEF Init, HandInv
<1>5. ContentInv /\ OrderKept
  BY <1>2 DEF ContentInv, OrderKept
<1>6. MissedInv
  BY <1>1, <1>2, StageNumbers DEF MissedInv
<1>7. NothingLostInHealth
  BY <1>1 DEF NothingLostInHealth
<1>8. QED
  BY <1>3, <1>4, <1>5, <1>6, <1>7 DEF Inv

LEMMA NextInv == Inv /\ [Next]_vars => Inv'
<1> SUFFICES ASSUME Inv, [Next]_vars PROVE Inv'
  OBVIOUS
<1>0. TypeOK /\ HandInv /\ ContentInv /\ MissedInv /\ OrderKept /\ NothingLostInHealth
  BY DEF Inv
<1>1. Quiet \/ Sends \/ Hears \/ Moves \/ Loses \/ Misses \/ Cuts
  BY <1>0, StepShape
<1>2. TypeOK'
  <2>1. ControlOK'
    BY <1>0, NextControl DEF TypeOK, ControlOK
  <2>2. QED
    BY <1>0, <1>1, <2>1, SentGrows, ShapeType DEF TypeOK, ControlOK
<1>3. HandInv'
  BY <1>0, NextHand
<1>4. ContentInv'
  BY <1>0, <1>1, NextContent
<1>5. MissedInv'
  BY <1>0, <1>1, NextMissed
<1>6. OrderKept'
  BY <1>0, <1>1, NextOrder
<1>7. NothingLostInHealth'
  BY <1>0, <1>1, <1>5, NextNothingLost
<1>8. QED
  BY <1>2, <1>3, <1>4, <1>5, <1>6, <1>7 DEF Inv

THEOREM Invariant == Spec => []Inv
BY InitInv, NextInv, PTL DEF Spec

\* Every stage holds messages, and every thread is where its code has a place.
THEOREM TypeCorrect == Spec => []TypeOK
<1>1. Inv => TypeOK
  BY DEF Inv
<1>2. QED
  BY <1>1, Invariant, PTL

\* No message overtakes another or exists twice, between process_message() of
\* the RabbitMQRelay and that of the ZmqRelay.
THEOREM OrderSafe == Spec => []OrderKept
<1>1. Inv => OrderKept
  BY DEF Inv
<1>2. QED
  BY <1>1, Invariant, PTL

\* Without a failure of a connection or a process the chain loses no message.
THEOREM NothingLostSafe == Spec => []NothingLostInHealth
<1>1. Inv => NothingLostInHealth
  BY DEF Inv
<1>2. QED
  BY <1>1, Invariant, PTL

\* What comes out is what was sent, with the time make_payload() gave it first.
THEOREM EventsSafe == Spec => []EventsKeepTheirTime
<1>1. Inv => EventsKeepTheirTime
  <2> SUFFICES ASSUME Inv, NEW i \in 1 .. Len(at[OUTPUT])
               PROVE  LET m == at[OUTPUT][i] IN
                        /\ m.id \in 1 .. Len(sent) /\ sent[m.id].routable
                        /\ m.envelope = "sink"
                        /\ m.data.timestamp =
                             IF sent[m.id].data.timestamp = "device" THEN "device" ELSE "relay"
    BY DEF EventsKeepTheirTime
  <2> DEFINE m == at[OUTPUT][i]
  <2>1. m \in Message /\ Faithful(OUTPUT, m)
    BY StageNumbers DEF Inv, TypeOK, ContentInv
  <2>2. m.id \in Nat /\ Len(sent) \in Nat
    BY <2>1 DEF Message, Inv, TypeOK
  <2> HIDE DEF m
  <2>3. QED
    BY <2>1, <2>2, StageNumbers DEF Faithful, m
<1>2. QED
  BY <1>1, Invariant, PTL

-----------------------------------------------------------------------------
\* The messages that came out, as Delivery sees them.
delivered == [i \in 1 .. Len(at[OUTPUT]) |-> at[OUTPUT][i].id]
accepted == Len(sent)

\* A step that leaves the output alone is a stutter of Delivery, or Accept.
LEMMA OutputQuiet ==
  ASSUME Inv, at'[OUTPUT] = at[OUTPUT], sent' = sent \/ Sends
  PROVE  Promise!Next \/ UNCHANGED <<accepted, delivered>>
<1>1. delivered' = delivered
  BY DEF delivered
<1>2. CASE sent' = sent
  BY <1>1, <1>2 DEF accepted
<1>3. CASE Sends
  <2>1. Len(sent') = Len(sent) + 1
    BY <1>3 DEF Sends, Inv, TypeOK
  <2>2. QED
    BY <1>1, <2>1 DEF Promise!Next, Promise!Accept, delivered
<1>4. QED
  BY <1>2, <1>3

\* The only step that adds to the output delivers a message.
LEMMA OutputDelivers ==
  ASSUME Inv, NEW m \in Message, at[SINK] # << >>, m.id = Head(at[SINK]).id,
         Faithful(OUTPUT, m), MoveAs(SINK, m), sent' = sent
  PROVE  Promise!Deliver
<1>0. /\ at \in [Stage -> Seq(Message)] /\ OUTPUT \in Stage /\ SINK \in Stage
      /\ Len(at[OUTPUT]) \in Nat /\ at[SINK] \in Seq(Message) /\ Len(sent) \in Nat
  BY StageNumbers DEF Inv, TypeOK
<1>1. m.id \in Nat /\ m.id # 0 /\ m.id <= Len(sent)
  BY StageNumbers DEF Faithful, Message
<1>2. m.id \in 1 .. Len(sent)
  BY <1>0, <1>1
<1>3. Head(at[SINK]) = at[SINK][1] /\ 1 \in 1 .. Len(at[SINK])
  BY <1>0
<1>4. ASSUME NEW i \in 1 .. Len(at[OUTPUT]) PROVE at[OUTPUT][i].id < m.id
  <2>1. at[OUTPUT][i].id # 0
    <3>1. Faithful(OUTPUT, at[OUTPUT][i])
      BY <1>0 DEF Inv, ContentInv
    <3>2. QED
      BY <3>1, StageNumbers DEF Faithful
  <2>2. Before(OUTPUT, i, SINK, 1)
    BY StageNumbers DEF Before
  <2>3. at[SINK][1].id # 0 /\ OrderKept
    BY <1>1, <1>3 DEF Inv
  <2>4. QED
    BY <1>0, <1>3, <2>1, <2>2, <2>3, OrderPair
<1>5. /\ Len(at'[OUTPUT]) = Len(at[OUTPUT]) + 1
      /\ \A i \in 1 .. Len(at[OUTPUT]) : at'[OUTPUT][i] = at[OUTPUT][i]
      /\ at'[OUTPUT][Len(at[OUTPUT]) + 1] = m
  BY <1>0, MovedStages, StageNumbers
<1>6. delivered \in Seq(Nat) /\ Len(delivered) = Len(at[OUTPUT])
      /\ \A i \in 1 .. Len(at[OUTPUT]) : delivered[i] = at[OUTPUT][i].id
  <2>1. \A i \in 1 .. Len(at[OUTPUT]) : at[OUTPUT][i].id \in Nat
    <3>1. \A i \in 1 .. Len(at[OUTPUT]) : at[OUTPUT][i] \in Message
      BY <1>0
    <3>2. QED
      BY <3>1 DEF Message
  <2>2. delivered \in [1 .. Len(at[OUTPUT]) -> Nat]
    BY <2>1 DEF delivered
  <2>3. QED
    BY <1>0, <2>2 DEF delivered
<1>7. delivered' = Append(delivered, m.id)
  <2> DEFINE app == Append(delivered, m.id)
             ids == [i \in 1 .. Len(at[OUTPUT]) + 1 |-> at'[OUTPUT][i].id]
  <2>1. /\ Len(app) = Len(at[OUTPUT]) + 1 /\ app \in Seq(Nat)
        /\ \A i \in 1 .. Len(at[OUTPUT]) : app[i] = at[OUTPUT][i].id
        /\ app[Len(at[OUTPUT]) + 1] = m.id
    BY <1>0, <1>1, <1>6
  <2>2. app = [i \in 1 .. Len(at[OUTPUT]) + 1 |-> app[i]]
    BY <2>1
  <2>3. \A i \in 1 .. Len(at[OUTPUT]) + 1 : app[i] = at'[OUTPUT][i].id
    <3>1. TAKE i \in 1 .. Len(at[OUTPUT]) + 1
    <3>2. i \in 1 .. Len(at[OUTPUT]) \/ i = Len(at[OUTPUT]) + 1
      BY <1>0
    <3>3. QED
      BY <1>5, <2>1, <3>2
  <2>4. delivered' = ids
    BY <1>5 DEF delivered
  <2> HIDE DEF app
  <2>5. ids = app
    BY <2>2, <2>3
  <2>6. QED
    BY <2>4, <2>5 DEF app
<1>8. \A i \in 1 .. Len(delivered) : delivered[i] < m.id
  BY <1>4, <1>6
<1>9. QED
  BY <1>2, <1>7, <1>8 DEF Promise!Deliver, delivered

LEMMA StepRefines ==
  ASSUME Inv, [Next]_vars PROVE Promise!Next \/ UNCHANGED <<accepted, delivered>>
<1>0. /\ at \in [Stage -> Seq(Message)] /\ TypeOK /\ HandInv /\ ContentInv
      /\ OUTPUT \in Stage
  BY StageNumbers DEF Inv, TypeOK
<1>1. at[OUTPUT] \in Seq(Message)
  BY <1>0
<1>2. CASE Quiet
  BY <1>2, OutputQuiet DEF Quiet
<1>3. CASE Sends
  <2>1. PICK e \in Event : Pushed(SOURCE, NewMessage(e))
    BY <1>3 DEF Sends
  <2>2. at'[OUTPUT] = at[OUTPUT]
    BY <2>1, <1>0, StageNumbers DEF Pushed
  <2>3. QED
    BY <1>3, <2>2, OutputQuiet
<1>4. CASE Hears
  <2>1. at'[OUTPUT] = at[OUTPUT]
    BY <1>0, <1>4, StageNumbers DEF Hears, Pushed
  <2>2. QED
    BY <1>4, <2>1, OutputQuiet DEF Hears
<1>5. CASE Moves
  <2>1. PICK s \in 1 .. 6 : \E m \in Message :
          /\ at[s] # << >> /\ m.id = Head(at[s]).id /\ Faithful(s + 1, m)
          /\ MoveAs(s, m) /\ sent' = sent
    BY <1>5 DEF Moves
  <2>2. PICK m \in Message :
          /\ at[s] # << >> /\ m.id = Head(at[s]).id /\ Faithful(s + 1, m)
          /\ MoveAs(s, m) /\ sent' = sent
    BY <2>1
  <2>3. CASE s = SINK
    BY <2>2, <2>3, OutputDelivers, StageNumbers DEF Promise!Next
  <2>4. CASE s # SINK
    <3>1. OUTPUT \in Stage \ {s, s + 1}
      BY <2>4, StageNumbers
    <3>2. at'[OUTPUT] = at[OUTPUT]
      BY <1>0, <2>2, <3>1, MovedElsewhere
    <3>3. QED
      BY <2>2, <3>2, OutputQuiet
  <2>5. QED
    BY <2>3, <2>4
<1>6. CASE Loses \/ Misses \/ Cuts
  <2>1. sent' = sent
    BY <1>6 DEF Loses, Misses, Cuts
  <2>2. CASE Loses
    <3>1. PICK s \in {RELAY, CALLBACK, SINK} : Drop(s)
      BY <2>2 DEF Loses
    <3>2. OUTPUT \in Stage \ {s}
      BY StageNumbers
    <3>3. QED
      BY <1>0, <2>1, <3>1, <3>2, DroppedElsewhere, OutputQuiet
  <2>3. CASE Misses
    <3>1. OUTPUT \in Stage \ {RELAY}
      BY StageNumbers
    <3>2. QED
      BY <1>0, <2>1, <2>3, <3>1, DroppedElsewhere, OutputQuiet DEF Misses
  <2>4. CASE Cuts
    <3>1. at'[OUTPUT] = at[OUTPUT]
      BY <1>0, <2>4, StageNumbers DEF Cuts, Cut
    <3>2. QED
      BY <2>1, <3>1, OutputQuiet
  <2>5. QED
    BY <1>6, <2>2, <2>3, <2>4
<1>7. QED
  BY <1>0, <1>2, <1>3, <1>4, <1>5, <1>6, StepShape

\* The detailed chain keeps the promise of Delivery: what comes out was sent, in
\* the order in which it was sent, and nothing comes out twice.
THEOREM Refinement == Spec => KeepsOrder
<1>1. Init => Promise!Init
  <2> SUFFICES ASSUME Init PROVE accepted = 0 /\ delivered = << >>
    BY DEF Promise!Init, accepted, delivered
  <2>1. Len(sent) = 0
    BY DEF Init
  <2>2. at[OUTPUT] = << >>
    BY StageNumbers DEF Init
  <2>3. QED
    BY <2>1, <2>2 DEF accepted, delivered
<1>2. Inv /\ [Next]_vars => [Promise!Next]_<<accepted, delivered>>
  BY StepRefines
<1>3. QED
  BY <1>1, <1>2, Invariant, PTL DEF Spec, KeepsOrder, Promise!Spec, accepted, delivered
=============================================================================

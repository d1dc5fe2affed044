-------------------------- MODULE MessengerProofs --------------------------
(***************************************************************************)
(* What is proved of Messenger for any number of clients, brokers and      *)
(* commands.                                                               *)
(***************************************************************************)
EXTENDS Messenger, OrderLemmas, SequenceTheorems

-----------------------------------------------------------------------------
(* The part of the invariant that is about texts.  A text is in one place:  *)
(* in the inbox of its sender, with a broker that is about to relay it, or  *)
(* with the client it was relayed to.                                       *)

\* What a broker is about to relay.
Held(b) == IF pcB[b] = "relay" THEN msg[b] ELSE NoText

InboxOnce ==
    \A s, t \in Socket : \A i \in DOMAIN inbox[s], j \in DOMAIN inbox[t] :
        inbox[s][i] \in Text /\ inbox[s][i] = inbox[t][j] => s = t /\ i = j

HeldOnce == \A b, c \in Broker : Held(b) \in Text /\ Held(b) = Held(c) => b = c

Apart ==
    /\ \A b \in Broker, s \in Socket : \A i \in DOMAIN inbox[s] :
          Held(b) \in Text => Held(b) # inbox[s][i]
    /\ \A b \in Broker, t \in Socket : \A j \in DOMAIN received[t] :
          received[t][j] # Held(b)
    /\ \A s, t \in Socket : \A i \in DOMAIN inbox[s], j \in DOMAIN received[t] :
          received[t][j] # inbox[s][i]

\* Texts are numbered by the commands sent before.
Numbered ==
    /\ \A s \in Socket : \A i \in DOMAIN inbox[s] :
          inbox[s][i] \in Text => inbox[s][i].nth < sent
    /\ \A b \in Broker : Held(b) \in Text => Held(b).nth < sent
    /\ \A t \in Socket : \A j \in DOMAIN received[t] : received[t][j].nth < sent

\* Between its command and its text nothing is left in msg.
Emptied == \A b \in Broker : pcB[b] \in {"text", "closing"} => msg[b] = NoText

TextsOnce == InboxOnce /\ HeldOnce /\ Apart /\ Numbered /\ Emptied /\ RelayedOnce

DispatcherTypes ==
    /\ waiting \in Seq(Socket) /\ peers \in Seq(Socket) /\ mtcp \in Seq(Socket)
    /\ pcD \in {"copy", "clear", "listen", "read", "recv", "remove"}
    /\ cur \in Socket \cup {NoSocket} /\ other \in Socket \cup {NoSocket}
    /\ pcD \in {"read", "recv", "remove"} => cur # NoSocket
    /\ pcD = "remove" => other # NoSocket

BrokerTypes ==
    /\ pcB \in [Broker -> {"new", "listen", "deaf", "read", "closing", "text", "relay", "done"}]
    /\ pair \in [Broker -> Seq(Socket)]
    /\ brokerOn \in [Broker -> BOOLEAN]
    /\ from \in [Broker -> Socket \cup {NoSocket}]
    /\ \A b \in Broker : /\ pcB[b] # "new" => Len(pair[b]) = 2
                         /\ pcB[b] \in {"read", "closing", "text", "relay"} =>
                              from[b] # NoSocket
    /\ msg \in [Broker -> Text \cup {NoText}]

ClientTypes ==
    /\ accepted \subseteq Socket
    /\ inbox \in [Socket -> Seq(Word)]
    /\ hung \in [Socket -> BOOLEAN] /\ closed \in [Socket -> SUBSET BOOLEAN]
    /\ sent \in 0..MaxSent
    /\ received \in [Socket -> Seq(Text)]
    /\ scrambled \in BOOLEAN /\ crashed \in BOOLEAN

\* The types of the three parts are all of them.
LEMMA TypeParts == TypeOK <=> DispatcherTypes /\ BrokerTypes /\ ClientTypes
  BY DEF TypeOK, DispatcherTypes, BrokerTypes, ClientTypes

\* And so they are after a step.
LEMMA TypePartsPrimed == DispatcherTypes' /\ BrokerTypes' /\ ClientTypes' => TypeOK'
  BY DEF TypeOK, DispatcherTypes, BrokerTypes, ClientTypes

\* The server begins without a text.
LEMMA InitTexts == Init => TypeOK /\ TextsOnce
  <1> SUFFICES ASSUME Init PROVE TypeOK /\ TextsOnce
    OBVIOUS
  <1>0. \A S : <<>> \in Seq(S) /\ Len(<<>>) = 0 /\ DOMAIN <<>> = {}
    OBVIOUS
  <1>1. DispatcherTypes
    BY <1>0 DEF Init, DispatcherTypes
  <1>2. BrokerTypes
    BY <1>0 DEF Init, BrokerTypes
  <1>3. ClientTypes
    <2>1. inbox \in [Socket -> Seq(Word)] /\ received \in [Socket -> Seq(Text)]
      BY <1>0 DEF Init
    <2>2. sent \in 0..MaxSent
      BY MessengerConstants DEF Init
    <2> QED BY <2>1, <2>2 DEF Init, ClientTypes
  <1>4. \A b \in Broker : pcB[b] = "new" /\ Held(b) = NoText
    BY DEF Init, Held
  <1>5. \A s \in Socket : inbox[s] = <<>> /\ received[s] = <<>>
    BY DEF Init
  <1>6. NoText \notin Text
    BY DEF NoText, Text
  <1>7. TextsOnce
    BY <1>0, <1>4, <1>5, <1>6
       DEF TextsOnce, InboxOnce, HeldOnce, Apart, Numbered, Emptied, RelayedOnce
  <1> QED BY <1>1, <1>2, <1>3, <1>7, TypeParts

-----------------------------------------------------------------------------
(* Types *)

\* The first place of a socket that is in a vector.
LEMMA PlaceFound ==
  ASSUME NEW v \in Seq(Socket), NEW s \in ToSet(v)
  PROVE  /\ Place(v, s) \in DOMAIN v /\ v[Place(v, s)] = s
         /\ \A j \in 1..(Place(v, s) - 1) : v[j] # s
  <1> DEFINE T == {i \in DOMAIN v : v[i] = s}
  <1>1. DOMAIN v = 1..Len(v) /\ Len(v) \in Nat
    OBVIOUS
  <1>2. T # {} /\ T \in SUBSET Nat
    BY <1>1 DEF ToSet
  <1>3. PICK i \in T : \A j \in T : i <= j
    BY <1>2, LeastNat
  <1>4. \A j \in 1..(i - 1) : j \in DOMAIN v /\ ~(i <= j)
    BY <1>1, <1>3
  <1>5. v[i] = s /\ \A j \in 1..(i - 1) : v[j] # s
    BY <1>3, <1>4
  <1> QED BY <1>3, <1>5 DEF Place

\* What is left after a removal is a vector of sockets.
LEMMA RemovedType ==
  ASSUME NEW v \in Seq(Socket), NEW s
  PROVE  Removed(v, s) \in Seq(Socket)
  <1>1. CASE s \notin ToSet(v)
    BY <1>1 DEF Removed
  <1>2. CASE s \in ToSet(v)
    <2> DEFINE p == Place(v, s)
    <2>1. p \in 1..Len(v)
      BY <1>2, PlaceFound
    <2>2. SubSeq(v, 1, p - 1) \in Seq(Socket) /\ SubSeq(v, p + 1, Len(v)) \in Seq(Socket)
      BY <2>1
    <2>3. Removed(v, s) = SubSeq(v, 1, p - 1) \o SubSeq(v, p + 1, Len(v))
      BY <1>2 DEF Removed, RemoveAt
    <2> HIDE DEF p
    <2> QED BY <2>2, <2>3
  <1> QED BY <1>1, <1>2

\* A broker's two sockets, and the one it does not read.
LEMMA ToType ==
  ASSUME BrokerTypes, NEW b \in Broker, pcB[b] # "new"
  PROVE  To(b) \in Socket
  BY DEF BrokerTypes, To

\* A write leaves the server dead or as it was.
LEMMA WriteType ==
  ASSUME NEW S, WriteTo(S)
  PROVE  crashed' \in BOOLEAN
  BY DEF WriteTo

\* A socket whose inbox is not empty gives a word, and keeps words.
LEMMA PopType ==
  ASSUME ClientTypes, NEW s \in Socket, inbox[s] # <<>>
  PROVE  /\ Head(inbox[s]) \in Word
         /\ [inbox EXCEPT ![s] = Tail(@)] \in [Socket -> Seq(Word)]
  <1>1. inbox[s] \in Seq(Word)
    BY DEF ClientTypes
  <1>2. Head(inbox[s]) \in Word /\ Tail(inbox[s]) \in Seq(Word)
    BY <1>1
  <1> QED BY <1>2 DEF ClientTypes

\* Every step of the dispatcher keeps the types.
LEMMA DispatcherKeepsTypes ==
  ASSUME TypeOK, Dispatcher
  PROVE  TypeOK'
  <1> USE DEF dispatcher, brokers, clients
  <1>0. DispatcherTypes /\ BrokerTypes /\ ClientTypes
    BY TypeParts
  <1>a. ASSUME UNCHANGED brokers PROVE BrokerTypes'
    BY <1>0, <1>a DEF BrokerTypes
  <1>b. ASSUME UNCHANGED <<clients, inbox, received, scrambled>>, crashed' \in BOOLEAN
        PROVE ClientTypes'
    BY <1>0, <1>b DEF ClientTypes
  <1>c. crashed \in BOOLEAN /\ scrambled \in BOOLEAN
    BY <1>0 DEF ClientTypes
  <1>d. ASSUME EndIteration, waiting' = waiting, peers' \in Seq(Socket)
        PROVE DispatcherTypes'
    <2>1. <<>> \in Seq(Socket)
      OBVIOUS
    <2> QED BY <1>0, <1>d, <2>1 DEF DispatcherTypes, EndIteration
  <1>1. CASE CopyPeers
    <2>1. DispatcherTypes'
      BY <1>0, <1>1 DEF CopyPeers, DispatcherTypes
    <2> QED BY <1>1, <2>1, <1>a, <1>b, <1>c, TypePartsPrimed DEF CopyPeers
  <1>2. CASE ClearWaiting
    <2>1. DispatcherTypes'
      <3>1. <<>> \in Seq(Socket)
        OBVIOUS
      <3> QED BY <1>0, <1>2, <3>1 DEF ClearWaiting, DispatcherTypes
    <2> QED BY <1>2, <2>1, <1>a, <1>b, <1>c, TypePartsPrimed DEF ClearWaiting
  <1>3. CASE ListenTimeout
    <2>1. DispatcherTypes'
      BY <1>0, <1>3, <1>d DEF ListenTimeout, DispatcherTypes
    <2> QED BY <1>3, <2>1, <1>a, <1>b, <1>c, TypePartsPrimed DEF ListenTimeout
  <1>4. ASSUME NEW s \in Socket, Listen(s) PROVE TypeOK'
    <2>1. DispatcherTypes'
      BY <1>0, <1>4, MessengerConstants DEF Listen, DispatcherTypes
    <2> QED BY <1>4, <2>1, <1>a, <1>b, <1>c, TypePartsPrimed DEF Listen
  <1>5. ASSUME cur \in Socket, inbox[cur] # <<>>, Pop(cur), crashed' \in BOOLEAN,
               scrambled' \in BOOLEAN, UNCHANGED <<clients, received>>
        PROVE ClientTypes'
    BY <1>0, <1>5, PopType DEF ClientTypes, Pop
  <1>6. CASE ReadCommand
    <2>0. cur \in Socket
      BY <1>0, <1>6 DEF ReadCommand, DispatcherTypes
    <2>1. DispatcherTypes'
      <3>1. CASE EndIteration
        BY <1>0, <1>6, <3>1, <1>d DEF ReadCommand, DispatcherTypes
      <3>2. CASE pcD' = "recv" /\ UNCHANGED <<mtcp, cur, other>>
        BY <1>0, <1>6, <2>0, <3>2, MessengerConstants DEF ReadCommand, DispatcherTypes
      <3> QED BY <1>6, <3>1, <3>2 DEF ReadCommand
    <2>2. ClientTypes'
      BY <1>6, <2>0, <1>5, <1>b, <1>c DEF ReadCommand
    <2> QED BY <1>6, <2>1, <2>2, <1>a, TypePartsPrimed DEF ReadCommand
  <1>7. CASE ReceiveTarget
    <2>0. cur \in Socket
      BY <1>0, <1>7 DEF ReceiveTarget, DispatcherTypes
    <2>1. CASE Refuse /\ UNCHANGED inbox
      <3>1. DispatcherTypes'
        BY <1>0, <1>7, <2>1, <1>d DEF ReceiveTarget, Refuse, DispatcherTypes
      <3>2. ClientTypes'
        BY <1>7, <2>1, <1>b, WriteType DEF ReceiveTarget, Refuse
      <3> QED BY <2>1, <3>1, <3>2, <1>a, TypePartsPrimed DEF Refuse
    <2>2. CASE inbox[cur] # <<>> /\ Pop(cur) /\ Scramble
      <3>1. DispatcherTypes'
        BY <1>0, <1>7, <2>2 DEF ReceiveTarget, Scramble, DispatcherTypes
      <3>2. ClientTypes'
        BY <1>7, <2>0, <2>2, <1>5, <1>c DEF ReceiveTarget, Scramble
      <3> QED BY <2>2, <3>1, <3>2, <1>a, TypePartsPrimed DEF Scramble
    <2>3. CASE inbox[cur] # <<>> /\ Pop(cur) /\ Refuse
      <3>1. DispatcherTypes'
        BY <1>0, <1>7, <2>3, <1>d DEF ReceiveTarget, Refuse, DispatcherTypes
      <3>2. crashed' \in BOOLEAN /\ scrambled' \in BOOLEAN
        BY <2>3, <1>c, WriteType DEF Refuse
      <3>3. ClientTypes'
        BY <1>7, <2>0, <2>3, <3>2, <1>5 DEF ReceiveTarget
      <3> QED BY <2>3, <3>1, <3>3, <1>a, TypePartsPrimed DEF Refuse
    <2>4. ASSUME NEW b \in Broker, inbox[cur] # <<>>, Pop(cur), Head(inbox[cur]) \in Target,
                 CreateBroker(b, Head(inbox[cur]).of)
          PROVE TypeOK'
      <3> DEFINE t == Head(inbox[cur]).of
      <3>1. t \in Socket
        BY <2>4 DEF Target
      <3> HIDE DEF t
      <3>2. DispatcherTypes'
        BY <1>0, <1>7, <2>0, <2>4, <3>1, MessengerConstants
           DEF ReceiveTarget, CreateBroker, DispatcherTypes, t
      <3>3. ClientTypes'
        BY <1>7, <2>0, <2>4, <1>5, <1>c DEF ReceiveTarget, CreateBroker
      <3>4. BrokerTypes'
        <4>1. <<cur, t>> \in Seq(Socket) /\ Len(<<cur, t>>) = 2
          BY <2>0, <3>1
        <4>2. /\ pcB' = [pcB EXCEPT ![b] = "listen"] /\ pair' = [pair EXCEPT ![b] = <<cur, t>>]
              /\ brokerOn' = [brokerOn EXCEPT ![b] = TRUE] /\ from' = from /\ msg' = msg
          BY <2>4 DEF CreateBroker, t
        <4> QED BY <1>0, <4>1, <4>2 DEF BrokerTypes
      <3> QED BY <3>2, <3>3, <3>4, TypePartsPrimed
    <2> QED BY <1>7, <2>1, <2>2, <2>3, <2>4 DEF ReceiveTarget
  <1>8. CASE RemovePair
    <2>1. peers' \in Seq(Socket)
      <3>1. Removed(peers, cur) \in Seq(Socket)
        BY <1>0, RemovedType DEF DispatcherTypes
      <3>2. PICK second : peers' = Removed(Removed(peers, cur), second)
        BY <1>8 DEF RemovePair
      <3> QED BY <3>1, <3>2, RemovedType
    <2>2. DispatcherTypes'
      BY <1>0, <1>8, <2>1, <1>d DEF RemovePair, DispatcherTypes
    <2>3. crashed' \in BOOLEAN
      BY <1>8, WriteType DEF RemovePair
    <2> QED BY <1>8, <2>2, <2>3, <1>a, <1>b, TypePartsPrimed DEF RemovePair
  <1> QED BY <1>1, <1>2, <1>3, <1>4, <1>6, <1>7, <1>8 DEF Dispatcher

\* Every step of a broker keeps the types.
LEMMA BrokerKeepsTypes ==
  ASSUME TypeOK, NEW b \in Broker, BrokerRun(b)
  PROVE  TypeOK'
  <1> USE DEF dispatcher, brokers, clients
  <1>0. DispatcherTypes /\ BrokerTypes /\ ClientTypes
    BY TypeParts
  <1>1. pcB[b] # "new"
    BY DEF BrokerRun, BrokerListen, BrokerTimeout, ReadMessage, ReadWord, ReturnOther, ReadText,
       SendMessage
  <1>2. To(b) \in Socket
    BY <1>0, <1>1, ToType
  <1>a. ASSUME UNCHANGED dispatcher, waiting' \in Seq(Socket) PROVE DispatcherTypes'
    BY <1>0, <1>a DEF DispatcherTypes
  <1>b. ASSUME UNCHANGED <<clients, inbox, received, scrambled>>, crashed' \in BOOLEAN
        PROVE ClientTypes'
    BY <1>0, <1>b DEF ClientTypes
  <1>c. waiting \in Seq(Socket) /\ crashed \in BOOLEAN /\ scrambled \in BOOLEAN
    BY <1>0 DEF ClientTypes, DispatcherTypes
  <1>d. ASSUME NEW s \in Socket PROVE Append(waiting, s) \in Seq(Socket)
    BY <1>c
  <1>e. ASSUME NEW at \in {"listen", "deaf", "read", "closing", "text", "relay", "done"},
               Goto(b, at),
               at \in {"read", "closing", "text", "relay"} => from'[b] # NoSocket,
               from' \in [Broker -> Socket \cup {NoSocket}],
               \A c \in Broker \ {b} : from'[c] = from[c],
               msg' \in [Broker -> Text \cup {NoText}],
               brokerOn' \in [Broker -> BOOLEAN], pair' = pair
        PROVE BrokerTypes'
    <2>1. pcB' = [pcB EXCEPT ![b] = at]
      BY <1>e DEF Goto
    <2>2. pcB' \in [Broker -> {"new", "listen", "deaf", "read", "closing", "text", "relay", "done"}]
      BY <1>0, <2>1 DEF BrokerTypes
    <2>3. ASSUME NEW c \in Broker
          PROVE /\ pcB'[c] # "new" => Len(pair'[c]) = 2
                /\ pcB'[c] \in {"read", "closing", "text", "relay"} => from'[c] # NoSocket
      <3>1. CASE c = b
        BY <1>0, <1>1, <1>e, <2>1, <3>1 DEF BrokerTypes
      <3>2. CASE c # b
        BY <1>0, <1>e, <2>1, <3>2 DEF BrokerTypes
      <3> QED BY <3>1, <3>2
    <2> QED BY <1>0, <1>e, <2>2, <2>3 DEF BrokerTypes
  <1>f. /\ from \in [Broker -> Socket \cup {NoSocket}] /\ msg \in [Broker -> Text \cup {NoText}]
        /\ brokerOn \in [Broker -> BOOLEAN]
        /\ pcB[b] \in {"read", "closing", "text", "relay"} => from[b] \in Socket
    BY <1>0 DEF BrokerTypes
  <1>g. ASSUME from[b] \in Socket, inbox[from[b]] # <<>>, Pop(from[b]),
               UNCHANGED <<clients, received, crashed>>, scrambled' \in BOOLEAN
        PROVE ClientTypes'
    BY <1>0, <1>g, PopType DEF ClientTypes, Pop
  <1>3. ASSUME NEW s \in Socket, BrokerListen(b, s) PROVE TypeOK'
    <2>1. from' \in [Broker -> Socket \cup {NoSocket}] /\ from'[b] # NoSocket
      BY <1>3, <1>f, MessengerConstants DEF BrokerListen
    <2>2. BrokerTypes'
      BY <1>3, <1>e, <1>f, <2>1 DEF BrokerListen
    <2> QED BY <1>3, <1>a, <1>b, <1>c, <2>2, TypePartsPrimed DEF BrokerListen
  <1>4. CASE BrokerTimeout(b)
    <2>1. from' \in [Broker -> Socket \cup {NoSocket}]
      BY <1>4, <1>f DEF BrokerTimeout
    <2>2. BrokerTypes'
      BY <1>4, <1>e, <1>f, <2>1 DEF BrokerTimeout
    <2> QED BY <1>4, <1>a, <1>b, <1>c, <2>2, TypePartsPrimed DEF BrokerTimeout
  <1>5. CASE ReadMessage(b)
    <2>0. /\ from[b] \in Socket /\ from' = from /\ pair' = pair
          /\ msg' \in [Broker -> Text \cup {NoText}]
      BY <1>5, <1>f DEF ReadMessage, ReadWord
    <2>1. from[b] # NoSocket
      BY <2>0, MessengerConstants
    <2>2. PICK at \in {"listen", "closing", "text", "relay"} : Goto(b, at)
      BY <1>5 DEF ReadMessage, ReadWord
    <2>3. brokerOn' \in [Broker -> BOOLEAN] /\ waiting' \in Seq(Socket)
      <3>1. waiting' \in {waiting, Append(waiting, To(b)), Append(waiting, from[b])}
        BY <1>5 DEF ReadMessage, ReadWord
      <3>2. brokerOn' \in {brokerOn, [brokerOn EXCEPT ![b] = FALSE]}
        BY <1>5 DEF ReadMessage, ReadWord
      <3> QED BY <1>2, <1>c, <1>d, <1>f, <2>0, <3>1, <3>2
    <2>4. BrokerTypes'
      BY <1>e, <1>f, <2>0, <2>1, <2>2, <2>3
    <2>5. ClientTypes'
      <3>1. CASE inbox' = inbox
        BY <1>5, <1>b, <1>c, <3>1 DEF ReadMessage, ReadWord
      <3>2. CASE inbox[from[b]] # <<>> /\ Pop(from[b])
        BY <1>5, <1>c, <1>g, <2>0, <3>2 DEF ReadMessage, ReadWord
      <3> QED BY <1>5, <3>1, <3>2 DEF ReadMessage, ReadWord
    <2> QED BY <1>5, <1>a, <2>3, <2>4, <2>5, TypePartsPrimed DEF ReadMessage, ReadWord
  <1>6. CASE ReturnOther(b)
    <2>1. BrokerTypes'
      BY <1>6, <1>e, <1>f, MessengerConstants DEF ReturnOther
    <2> QED BY <1>6, <1>2, <1>a, <1>b, <1>c, <1>d, <2>1, TypePartsPrimed DEF ReturnOther
  <1>7. CASE ReadText(b)
    <2>0. from[b] \in Socket /\ from[b] # NoSocket
      BY <1>7, <1>f, MessengerConstants DEF ReadText
    <2>1. CASE inbox[from[b]] = <<>>
      <3>1. BrokerTypes'
        BY <1>7, <1>e, <1>f, <2>0, <2>1 DEF ReadText
      <3> QED BY <1>7, <1>a, <1>b, <1>c, <2>1, <3>1, TypePartsPrimed DEF ReadText
    <2>2. CASE inbox[from[b]] # <<>> /\ Head(inbox[from[b]]) \in Text
      <3>1. msg' \in [Broker -> Text \cup {NoText}]
        BY <1>7, <1>f, <2>2 DEF ReadText
      <3>2. BrokerTypes'
        BY <1>7, <1>e, <1>f, <2>0, <2>2, <3>1 DEF ReadText
      <3>3. ClientTypes'
        BY <1>7, <1>c, <1>g, <2>0, <2>2 DEF ReadText
      <3> QED BY <1>7, <1>a, <1>c, <3>2, <3>3, TypePartsPrimed DEF ReadText
    <2>3. CASE inbox[from[b]] # <<>> /\ Head(inbox[from[b]]) \notin Text
      <3>1. BrokerTypes'
        BY <1>0, <1>7, <2>3 DEF ReadText, BrokerTypes
      <3>2. ClientTypes'
        BY <1>7, <1>c, <1>g, <2>0, <2>3 DEF ReadText
      <3> QED BY <1>7, <1>a, <1>c, <3>1, <3>2, TypePartsPrimed DEF ReadText
    <2> QED BY <2>1, <2>2, <2>3
  <1>8. CASE SendMessage(b)
    <2>1. BrokerTypes'
      BY <1>8, <1>e, <1>f, MessengerConstants DEF SendMessage
    <2>2. received' \in [Socket -> Seq(Text)]
      <3>1. received \in [Socket -> Seq(Text)]
        BY <1>0 DEF ClientTypes
      <3>2. CASE msg[b] = NoText
        BY <1>8, <3>1, <3>2 DEF SendMessage
      <3>3. CASE msg[b] \in Text
        <4>1. Append(received[To(b)], msg[b]) \in Seq(Text)
          BY <1>2, <3>1, <3>3
        <4>2. received' \in {received, [received EXCEPT ![To(b)] = Append(@, msg[b])]}
          BY <1>8 DEF SendMessage
        <4> QED BY <1>2, <3>1, <4>1, <4>2
      <3> QED BY <1>f, <3>2, <3>3
    <2>3. crashed' \in BOOLEAN
      BY <1>8, WriteType DEF SendMessage
    <2>4. ClientTypes'
      BY <1>0, <1>8, <2>2, <2>3 DEF SendMessage, ClientTypes
    <2> QED BY <1>8, <1>a, <1>c, <2>1, <2>4, TypePartsPrimed DEF SendMessage
  <1> QED BY <1>3, <1>4, <1>5, <1>6, <1>7, <1>8 DEF BrokerRun

\* What a client sends are words.
LEMMA SendsKeepTypes ==
  ASSUME TypeOK, NEW s \in Socket, NEW words \in Seq(Word), Sends(s, words),
         hung' \in [Socket -> BOOLEAN], closed' \in [Socket -> SUBSET BOOLEAN]
  PROVE  TypeOK'
  <1>0. DispatcherTypes /\ BrokerTypes /\ ClientTypes
    BY TypeParts
  <1>1. DispatcherTypes'
    BY <1>0 DEF Sends, dispatcher, DispatcherTypes
  <1>2. BrokerTypes'
    BY <1>0 DEF Sends, brokers, BrokerTypes
  <1>3. inbox' \in [Socket -> Seq(Word)]
    <2>1. inbox[s] \o words \in Seq(Word)
      BY <1>0 DEF ClientTypes
    <2> QED BY <1>0, <2>1 DEF Sends, ClientTypes
  <1>4. sent' \in 0..MaxSent
    BY <1>0, MessengerConstants DEF Sends, ClientTypes
  <1>5. ClientTypes'
    BY <1>0, <1>3, <1>4 DEF Sends, ClientTypes
  <1> QED BY <1>1, <1>2, <1>5, TypePartsPrimed

\* Whoever connects or sends keeps the types.
LEMMA ClientKeepsTypes ==
  ASSUME TypeOK, NEW s \in Socket, Accept(s) \/ Client(s)
  PROVE  TypeOK'
  <1>0. DispatcherTypes /\ BrokerTypes /\ ClientTypes
    BY TypeParts
  <1>1. CASE Accept(s)
    <2>1. DispatcherTypes'
      BY <1>0, <1>1 DEF Accept, dispatcher, DispatcherTypes
    <2>2. BrokerTypes'
      BY <1>0, <1>1 DEF Accept, brokers, BrokerTypes
    <2>3. ClientTypes'
      BY <1>0, <1>1 DEF Accept, ClientTypes
    <2> QED BY <2>1, <2>2, <2>3, TypePartsPrimed
  <1>2. /\ hung \in [Socket -> BOOLEAN] /\ closed \in [Socket -> SUBSET BOOLEAN]
        /\ sent \in Nat
    BY <1>0, MessengerConstants DEF ClientTypes
  <1>3. ASSUME NEW t \in Socket, OpenSession(s, t) PROVE TypeOK'
    <2>1. <<[kind |-> "open"], [kind |-> "target", of |-> t]>> \in Seq(Word)
      BY DEF Word, Command, Target
    <2> QED BY <1>2, <1>3, <2>1, SendsKeepTypes DEF OpenSession
  <1>4. CASE SendText(s)
    <2>1. <<[kind |-> "send"], [kind |-> "text", by |-> s, nth |-> sent]>> \in Seq(Word)
      BY <1>2 DEF Word, Command, Text
    <2> QED BY <1>2, <1>4, <2>1, SendsKeepTypes DEF SendText
  <1>5. CASE CloseSession(s)
    <2>1. <<[kind |-> "close"]>> \in Seq(Word)
      BY DEF Word, Command
    <2> QED BY <1>2, <1>5, <2>1, SendsKeepTypes DEF CloseSession
  <1>6. CASE Disconnect(s)
    <2>1. PICK words \in {<<[kind |-> "exit"]>>, <<[kind |-> "exit"], [kind |-> "close"]>>} :
              Sends(s, words)
      BY <1>6 DEF Disconnect
    <2>2. [kind |-> "exit"] \in Word /\ [kind |-> "close"] \in Word
      BY DEF Word, Command
    <2>3. words \in Seq(Word)
      <3>1. <<[kind |-> "exit"]>> \in Seq(Word)
        BY <2>2
      <3>2. <<[kind |-> "exit"], [kind |-> "close"]>> \in Seq(Word)
        BY <2>2
      <3> QED BY <2>1, <3>1, <3>2
    <2>4. hung' \in [Socket -> BOOLEAN] /\ closed' \in [Socket -> SUBSET BOOLEAN]
      BY <1>2, <1>6 DEF Disconnect
    <2> QED BY <2>1, <2>3, <2>4, SendsKeepTypes
  <1>7. CASE HangUp(s)
    <2>1. hung' \in [Socket -> BOOLEAN] /\ closed' \in [Socket -> SUBSET BOOLEAN]
      BY <1>2, <1>7 DEF HangUp
    <2>2. <<>> \in Seq(Word)
      OBVIOUS
    <2> QED BY <1>7, <2>1, <2>2, SendsKeepTypes DEF HangUp
  <1> QED BY <1>1, <1>3, <1>4, <1>5, <1>6, <1>7 DEF Client

-----------------------------------------------------------------------------
(* Texts *)

\* A text is not nothing, and every place of one has a text or nothing.
LEMMA TextPlaces ==
  ASSUME TypeOK
  PROVE  /\ NoText \notin Text
         /\ \A b \in Broker : Held(b) \in Text \cup {NoText}
         /\ \A s \in Socket : /\ inbox[s] \in Seq(Word) /\ DOMAIN inbox[s] = 1..Len(inbox[s])
                              /\ Len(inbox[s]) \in Nat
         /\ \A t \in Socket : /\ received[t] \in Seq(Text)
                              /\ DOMAIN received[t] = 1..Len(received[t])
                              /\ Len(received[t]) \in Nat
                              /\ \A j \in DOMAIN received[t] : received[t][j] \in Text
         /\ sent \in Nat
         /\ \A x \in Text : x.nth \in Nat
  <1>1. NoText \notin Text /\ \A x \in Text : x.nth \in Nat
    BY DEF NoText, Text
  <1>2. \A b \in Broker : Held(b) \in Text \cup {NoText}
    BY DEF Held, TypeOK
  <1>3. \A s \in Socket : inbox[s] \in Seq(Word) /\ received[s] \in Seq(Text)
    BY DEF TypeOK
  <1>4. sent \in Nat
    BY MessengerConstants DEF TypeOK
  <1> QED BY <1>1, <1>2, <1>3, <1>4

\* A step that says nothing, and takes at most the first word of an inbox,
\* keeps every text in one place.
LEMMA FewerTexts ==
  ASSUME TypeOK, TextsOnce, NEW shift \in [Socket -> {0, 1}],
         \A s \in Socket : \A i \in DOMAIN inbox'[s] :
            i + shift[s] \in DOMAIN inbox[s] /\ inbox'[s][i] = inbox[s][i + shift[s]],
         \A s \in Socket : DOMAIN inbox'[s] \subseteq Nat,
         \A b \in Broker : Held(b)' \in {Held(b), NoText},
         Emptied', UNCHANGED <<received, sent>>
  PROVE  TextsOnce'
  <1> USE TextPlaces
  <1>1. InboxOnce'
    <2>1. ASSUME NEW s \in Socket, NEW t \in Socket, NEW i \in DOMAIN inbox'[s],
                 NEW j \in DOMAIN inbox'[t], inbox'[s][i] \in Text, inbox'[s][i] = inbox'[t][j]
          PROVE  s = t /\ i = j
      <3>1. s = t /\ i + shift[s] = j + shift[t]
        BY <2>1 DEF TextsOnce, InboxOnce
      <3>2. i \in Nat /\ j \in Nat /\ shift[s] \in Nat
        OBVIOUS
      <3> QED BY <3>1, <3>2
    <2> QED BY <2>1 DEF InboxOnce
  <1>2. HeldOnce'
    BY DEF TextsOnce, HeldOnce
  <1>3. Apart'
    BY DEF TextsOnce, Apart
  <1>4. Numbered'
    BY DEF TextsOnce, Numbered
  <1>5. RelayedOnce'
    BY DEF TextsOnce, RelayedOnce
  <1> QED BY <1>1, <1>2, <1>3, <1>4, <1>5 DEF TextsOnce

\* The same of a step that takes no word.
LEMMA SameTexts ==
  ASSUME TypeOK, TextsOnce, \A b \in Broker : Held(b)' \in {Held(b), NoText},
         Emptied', UNCHANGED <<inbox, received, sent>>
  PROVE  TextsOnce'
  <1> DEFINE shift == [s \in Socket |-> 0]
  <1>1. \A s \in Socket : DOMAIN inbox[s] \subseteq Nat
    BY TextPlaces
  <1>2. \A s \in Socket : \A i \in DOMAIN inbox'[s] : i + shift[s] = i
    BY <1>1
  <1>3. shift \in [Socket -> {0, 1}]
    OBVIOUS
  <1> HIDE DEF shift
  <1> QED BY <1>1, <1>2, <1>3, FewerTexts

\* The same of a step that takes one.
LEMMA PoppedTexts ==
  ASSUME TypeOK, TextsOnce, \A b \in Broker : Held(b)' \in {Held(b), NoText},
         Emptied', UNCHANGED <<received, sent>>,
         NEW s \in Socket, inbox[s] # <<>>, Pop(s)
  PROVE  TextsOnce'
  <1> DEFINE shift == [t \in Socket |-> IF t = s THEN 1 ELSE 0]
  <1>0. shift \in [Socket -> {0, 1}]
    OBVIOUS
  <1>1. inbox \in [Socket -> Seq(Word)] /\ inbox' = [inbox EXCEPT ![s] = Tail(@)]
    BY DEF TypeOK, Pop
  <1>2. ASSUME NEW t \in Socket, NEW i \in DOMAIN inbox'[t]
        PROVE  i \in Nat /\ i + shift[t] \in DOMAIN inbox[t]
               /\ inbox'[t][i] = inbox[t][i + shift[t]]
    <2>1. CASE t = s
      <3>1. inbox'[t] = Tail(inbox[t]) /\ inbox[t] \in Seq(Word) /\ shift[t] = 1
        BY <1>1, <2>1
      <3> HIDE DEF shift
      <3> QED BY <2>1, <3>1
    <2>2. CASE t # s
      <3>1. inbox'[t] = inbox[t] /\ inbox[t] \in Seq(Word) /\ shift[t] = 0
        BY <1>1, <2>2
      <3> HIDE DEF shift
      <3> QED BY <3>1
    <2> QED BY <2>1, <2>2
  <1>3. \A t \in Socket : DOMAIN inbox'[t] \subseteq Nat
    BY <1>2
  <1> HIDE DEF shift
  <1> QED BY <1>0, <1>2, <1>3, FewerTexts

\* A text goes from its inbox to the broker that reads it.
LEMMA ReadTextKeepsOnce ==
  ASSUME TypeOK, TextsOnce, NEW b \in Broker, ReadText(b)
  PROVE  TextsOnce'
  <1> DEFINE s == from[b]
  <1>0. s \in Socket /\ pcB[b] = "text"
    BY MessengerConstants DEF ReadText, TypeOK
  <1>1. /\ pcB \in [Broker -> {"new", "listen", "deaf", "read", "closing", "text", "relay", "done"}]
        /\ msg \in [Broker -> Text \cup {NoText}] /\ msg[b] = NoText
    BY <1>0 DEF TypeOK, TextsOnce, Emptied
  <1>2. sent' = sent /\ received' = received
    BY DEF ReadText, clients
  <1>3. CASE inbox[s] = <<>>
    <2>1. pcB' = [pcB EXCEPT ![b] = "relay"] /\ msg' = msg /\ inbox' = inbox
      BY <1>3 DEF ReadText, Goto
    <2>2. \A c \in Broker : Held(c)' \in {Held(c), NoText}
      BY <1>1, <2>1 DEF Held
    <2>3. Emptied'
      BY <1>1, <2>1 DEF Emptied, TextsOnce
    <2> QED BY <1>2, <2>1, <2>2, <2>3, SameTexts
  <1>4. CASE inbox[s] # <<>> /\ Head(inbox[s]) \notin Text
    <2>1. pcB' = pcB /\ msg' = msg /\ Pop(s)
      BY <1>4 DEF ReadText
    <2>2. (\A c \in Broker : Held(c)' \in {Held(c), NoText}) /\ Emptied'
      BY <2>1 DEF Held, Emptied, TextsOnce
    <2> HIDE DEF s
    <2> QED BY <1>0, <1>2, <1>4, <2>1, <2>2, PoppedTexts
  <1>5. CASE inbox[s] # <<>> /\ Head(inbox[s]) \in Text
    <2> DEFINE word == Head(inbox[s])
    <2>1. /\ pcB' = [pcB EXCEPT ![b] = "relay"] /\ msg' = [msg EXCEPT ![b] = word]
          /\ Pop(s)
      BY <1>5 DEF ReadText, Goto
    <2>2. 1 \in DOMAIN inbox[s] /\ word = inbox[s][1] /\ word \in Text
      BY <1>0, <1>5, TextPlaces
    <2>3. /\ Held(b)' = word /\ Held(b) = NoText
          /\ \A c \in Broker \ {b} : Held(c)' = Held(c)
      BY <1>0, <1>1, <2>1 DEF Held
    <2>4. inbox \in [Socket -> Seq(Word)] /\ inbox' = [inbox EXCEPT ![s] = Tail(@)]
      BY <2>1 DEF TypeOK, Pop
    <2> HIDE DEF s, word
    <2>5. ASSUME NEW t \in Socket, t # s PROVE inbox'[t] = inbox[t]
      BY <2>4, <2>5
    <2>6. \A i \in DOMAIN inbox'[s] : /\ i \in Nat \ {0} /\ i + 1 \in DOMAIN inbox[s]
                                      /\ inbox'[s][i] = inbox[s][i + 1]
      <3>1. inbox'[s] = Tail(inbox[s]) /\ inbox[s] \in Seq(Word) /\ inbox[s] # <<>>
        BY <1>0, <1>5, <2>4
      <3> QED BY <3>1
    <2>7. \A i \in DOMAIN inbox'[s] : inbox'[s][i] # word
      <3> SUFFICES ASSUME NEW i \in DOMAIN inbox'[s] PROVE inbox'[s][i] # word
        OBVIOUS
      <3>1. i + 1 # 1 /\ i + 1 \in DOMAIN inbox[s] /\ inbox'[s][i] = inbox[s][i + 1]
        BY <2>6
      <3> QED BY <1>0, <2>2, <3>1 DEF TextsOnce, InboxOnce
    <2>8. ASSUME NEW t \in Socket, t # s, NEW i \in DOMAIN inbox'[t] PROVE inbox'[t][i] # word
      BY <1>0, <2>2, <2>5, <2>8 DEF TextsOnce, InboxOnce
    <2>9. InboxOnce'
      <3>1. ASSUME NEW t \in Socket, NEW u \in Socket, NEW i \in DOMAIN inbox'[t],
                   NEW j \in DOMAIN inbox'[u], inbox'[t][i] \in Text, inbox'[t][i] = inbox'[u][j]
            PROVE  t = u /\ i = j
        <4>1. CASE t = s /\ u = s
          <5>1. i + 1 = j + 1 /\ i \in Nat /\ j \in Nat
            BY <2>6, <3>1, <4>1 DEF TextsOnce, InboxOnce
          <5> QED BY <4>1, <5>1
        <4>2. CASE t = s /\ u # s
          BY <2>5, <2>6, <3>1, <4>2 DEF TextsOnce, InboxOnce
        <4>3. CASE t # s /\ u = s
          BY <2>5, <2>6, <3>1, <4>3 DEF TextsOnce, InboxOnce
        <4>4. CASE t # s /\ u # s
          BY <2>5, <3>1, <4>4 DEF TextsOnce, InboxOnce
        <4> QED BY <4>1, <4>2, <4>3, <4>4
      <3> QED BY <3>1 DEF InboxOnce
    <2>10. HeldOnce'
      BY <1>0, <2>2, <2>3 DEF TextsOnce, HeldOnce, Apart
    <2>11. Apart'
      <3>1. ASSUME NEW c \in Broker, NEW t \in Socket, NEW i \in DOMAIN inbox'[t], Held(c)' \in Text
            PROVE  Held(c)' # inbox'[t][i]
        BY <2>3, <2>5, <2>6, <2>7, <2>8, <3>1 DEF TextsOnce, Apart
      <3>2. ASSUME NEW c \in Broker, NEW t \in Socket, NEW j \in DOMAIN received'[t]
            PROVE  received'[t][j] # Held(c)'
        BY <1>0, <1>2, <2>2, <2>3 DEF TextsOnce, Apart
      <3>3. ASSUME NEW u \in Socket, NEW t \in Socket, NEW i \in DOMAIN inbox'[u],
                   NEW j \in DOMAIN received'[t]
            PROVE  received'[t][j] # inbox'[u][i]
        BY <1>2, <2>5, <2>6 DEF TextsOnce, Apart
      <3> QED BY <3>1, <3>2, <3>3 DEF Apart
    <2>12. Numbered'
      <3>1. ASSUME NEW t \in Socket, NEW i \in DOMAIN inbox'[t], inbox'[t][i] \in Text
            PROVE  inbox'[t][i].nth < sent
        BY <2>5, <2>6, <3>1 DEF TextsOnce, Numbered
      <3>2. ASSUME NEW c \in Broker, Held(c)' \in Text PROVE Held(c)'.nth < sent
        BY <1>0, <2>2, <2>3, <3>2 DEF TextsOnce, Numbered
      <3> QED BY <1>2, <3>1, <3>2 DEF TextsOnce, Numbered
    <2>13. Emptied' /\ RelayedOnce'
      BY <1>1, <1>2, <2>1 DEF TextsOnce, Emptied, RelayedOnce
    <2> QED BY <2>9, <2>10, <2>11, <2>12, <2>13 DEF TextsOnce
  <1> QED BY <1>3, <1>4, <1>5

\* A text goes from the broker to the client it is for.
LEMMA SendMessageKeepsOnce ==
  ASSUME TypeOK, TextsOnce, NEW b \in Broker, SendMessage(b)
  PROVE  TextsOnce'
  <1>0. /\ pcB \in [Broker -> {"new", "listen", "deaf", "read", "closing", "text", "relay", "done"}]
        /\ received \in [Socket -> Seq(Text)]
        /\ BrokerTypes
    BY TypeParts DEF TypeOK
  <1>1. pcB[b] = "relay" /\ Held(b) = msg[b] /\ To(b) \in Socket
    BY <1>0, ToType DEF SendMessage, Held
  <1>2. sent' = sent /\ inbox' = inbox /\ msg' = msg
    BY DEF SendMessage, clients
  <1>3. PICK at \in {"listen", "done"} : pcB' = [pcB EXCEPT ![b] = at]
    BY DEF SendMessage, Goto
  <1>4. Held(b)' = NoText /\ \A c \in Broker \ {b} : Held(c)' = Held(c)
    BY <1>0, <1>2, <1>3 DEF Held
  <1>5. Emptied'
    BY <1>0, <1>2, <1>3 DEF TextsOnce, Emptied
  <1>6. CASE msg[b] = NoText
    <2>1. received' = received
      BY <1>6 DEF SendMessage
    <2>2. \A c \in Broker : Held(c)' \in {Held(c), NoText}
      BY <1>4
    <2> QED BY <1>2, <1>5, <2>1, <2>2, SameTexts
  <1>7. CASE msg[b] # NoText
    <2> DEFINE t == To(b)
               text == msg[b]
    <2>1. text \in Text /\ Held(b) = text /\ t \in Socket
      BY <1>1, <1>7, TextPlaces
    <2>2. received' = [received EXCEPT ![t] = Append(@, text)]
      BY <1>7 DEF SendMessage
    <2> HIDE DEF t, text
    <2>3. \A u \in Socket \ {t} : received'[u] = received[u]
      BY <1>0, <2>2
    <2>4. /\ DOMAIN received'[t] = 1..(Len(received[t]) + 1)
          /\ received'[t][Len(received[t]) + 1] = text
          /\ \A j \in 1..Len(received[t]) : received'[t][j] = received[t][j]
      <3>1. received'[t] = Append(received[t], text) /\ received[t] \in Seq(Text)
        BY <1>0, <2>1, <2>2
      <3> QED BY <2>1, <3>1, AppendProperties
    <2>5. ASSUME NEW u \in Socket, NEW j \in DOMAIN received'[u]
          PROVE  \/ j \in DOMAIN received[u] /\ received'[u][j] = received[u][j]
                 \/ u = t /\ j = Len(received[t]) + 1 /\ received'[u][j] = text
      BY <2>1, <2>3, <2>4, TextPlaces
    <2>6. ASSUME NEW u \in Socket, NEW j \in DOMAIN received[u] PROVE received[u][j] # text
      BY <2>1 DEF TextsOnce, Apart
    <2>7. RelayedOnce'
      <3>1. ASSUME NEW u \in Socket, NEW v \in Socket, NEW i \in DOMAIN received'[u],
                   NEW j \in DOMAIN received'[v], received'[u][i] = received'[v][j]
            PROVE  u = v /\ i = j
        BY <2>5, <2>6, <3>1 DEF TextsOnce, RelayedOnce
      <3> QED BY <3>1 DEF RelayedOnce
    <2>8. Apart'
      <3>1. ASSUME NEW c \in Broker, NEW u \in Socket, NEW i \in DOMAIN inbox'[u], Held(c)' \in Text
            PROVE  Held(c)' # inbox'[u][i]
        BY <1>2, <1>4, <3>1, TextPlaces DEF TextsOnce, Apart
      <3>2. ASSUME NEW c \in Broker, NEW u \in Socket, NEW j \in DOMAIN received'[u]
            PROVE  received'[u][j] # Held(c)'
        <4>1. CASE c = b
          BY <1>4, <2>1, <2>5, <4>1, TextPlaces
        <4>2. CASE c # b
          <5>1. Held(c) # text
            BY <2>1, <4>2 DEF TextsOnce, HeldOnce
          <5> QED BY <1>4, <2>5, <4>2, <5>1 DEF TextsOnce, Apart
        <4> QED BY <4>1, <4>2
      <3>3. ASSUME NEW u \in Socket, NEW v \in Socket, NEW i \in DOMAIN inbox'[u],
                   NEW j \in DOMAIN received'[v]
            PROVE  received'[v][j] # inbox'[u][i]
        BY <1>2, <2>1, <2>5 DEF TextsOnce, Apart
      <3> QED BY <3>1, <3>2, <3>3 DEF Apart
    <2>9. Numbered'
      <3>1. ASSUME NEW u \in Socket, NEW j \in DOMAIN received'[u] PROVE received'[u][j].nth < sent
        BY <2>1, <2>5 DEF TextsOnce, Numbered
      <3>2. ASSUME NEW c \in Broker, Held(c)' \in Text PROVE Held(c)'.nth < sent
        BY <1>4, <3>2, TextPlaces DEF TextsOnce, Numbered
      <3> QED BY <1>2, <3>1, <3>2 DEF TextsOnce, Numbered
    <2>10. InboxOnce' /\ HeldOnce'
      BY <1>2, <1>4, TextPlaces DEF TextsOnce, InboxOnce, HeldOnce
    <2> QED BY <1>5, <2>7, <2>8, <2>9, <2>10 DEF TextsOnce
  <1> QED BY <1>6, <1>7

\* A client says one text at most at a time, and a new one.
LEMMA SendsKeepOnce ==
  ASSUME TypeOK, TextsOnce, NEW s \in Socket, NEW words \in Seq(Word), Sends(s, words),
         \A i \in DOMAIN words : words[i] \in Text => words[i].nth = sent,
         \A i, j \in DOMAIN words : words[i] \in Text /\ words[j] \in Text => i = j
  PROVE  TextsOnce'
  <1> DEFINE n == Len(inbox[s])
  <1>0. /\ sent' = sent + 1 /\ inbox' = [inbox EXCEPT ![s] = @ \o words]
        /\ UNCHANGED <<pcB, msg, received>>
    BY DEF Sends, brokers
  <1>1. inbox \in [Socket -> Seq(Word)] /\ sent \in Nat
    BY TextPlaces DEF TypeOK
  <1>2. n \in Nat /\ DOMAIN inbox[s] = 1..n /\ Len(words) \in Nat /\ DOMAIN words = 1..Len(words)
    BY <1>1
  <1>3. \A t \in Socket \ {s} : inbox'[t] = inbox[t]
    BY <1>0, <1>1
  <1>4. /\ DOMAIN inbox'[s] = 1..(n + Len(words))
        /\ \A i \in 1..(n + Len(words)) :
              inbox'[s][i] = IF i <= n THEN inbox[s][i] ELSE words[i - n]
    <2>1. inbox'[s] = inbox[s] \o words /\ inbox[s] \in Seq(Word)
      BY <1>0, <1>1
    <2> QED BY <2>1, ConcatProperties
  <1> HIDE DEF n
  <1>5. ASSUME NEW t \in Socket, NEW i \in DOMAIN inbox'[t]
        PROVE  \/ i \in DOMAIN inbox[t] /\ inbox'[t][i] = inbox[t][i]
               \/ t = s /\ i \in Nat /\ i - n \in DOMAIN words /\ inbox'[t][i] = words[i - n]
    <2>1. CASE t # s
      BY <1>3, <2>1
    <2>2. CASE t = s
      <3>1. i \in 1..(n + Len(words)) /\ i \in Nat
        BY <1>2, <1>4, <2>2
      <3>2. CASE i <= n
        <4>1. i \in 1..n /\ inbox'[s][i] = inbox[s][i]
          BY <1>2, <1>4, <3>1, <3>2
        <4> QED BY <1>2, <2>2, <4>1
      <3>3. CASE ~(i <= n)
        <4>1. i - n \in 1..Len(words) /\ inbox'[s][i] = words[i - n]
          BY <1>2, <1>4, <3>1, <3>3
        <4> QED BY <1>2, <2>2, <3>1, <4>1
      <3> QED BY <3>2, <3>3
    <2> QED BY <2>1, <2>2
  <1>6. \A b \in Broker : Held(b)' = Held(b)
    BY <1>0 DEF Held
  <1>7. InboxOnce'
    <2>1. ASSUME NEW t \in Socket, NEW u \in Socket, NEW i \in DOMAIN inbox'[t],
                 NEW j \in DOMAIN inbox'[u], inbox'[t][i] \in Text, inbox'[t][i] = inbox'[u][j]
          PROVE  t = u /\ i = j
      <3>1. CASE i \in DOMAIN inbox[t] /\ inbox'[t][i] = inbox[t][i]
        <4>1. inbox'[t][i].nth < sent
          BY <2>1, <3>1 DEF TextsOnce, Numbered
        <4>2. j \in DOMAIN inbox[u] /\ inbox'[u][j] = inbox[u][j]
          BY <1>1, <1>5, <2>1, <4>1
        <4>3. inbox[t][i] = inbox[u][j] /\ inbox[t][i] \in Text
          BY <2>1, <3>1, <4>2
        <4> QED BY <3>1, <4>2, <4>3 DEF TextsOnce, InboxOnce
      <3>2. CASE t = s /\ i \in Nat /\ i - n \in DOMAIN words /\ inbox'[t][i] = words[i - n]
        <4>1. inbox'[t][i].nth = sent
          BY <2>1, <3>2
        <4>2. u = s /\ j \in Nat /\ j - n \in DOMAIN words /\ inbox'[u][j] = words[j - n]
          BY <1>1, <1>5, <2>1, <4>1 DEF TextsOnce, Numbered
        <4>3. i - n = j - n
          BY <2>1, <3>2, <4>2
        <4> QED BY <1>2, <3>2, <4>2, <4>3
      <3> QED BY <1>5, <3>1, <3>2
    <2> QED BY <2>1 DEF InboxOnce
  <1>8. HeldOnce' /\ Emptied' /\ RelayedOnce'
    BY <1>0, <1>6 DEF TextsOnce, HeldOnce, Emptied, RelayedOnce
  <1>9. Apart'
    <2>1. ASSUME NEW b \in Broker, NEW t \in Socket, NEW i \in DOMAIN inbox'[t], Held(b)' \in Text
          PROVE  Held(b)' # inbox'[t][i]
      <3>1. Held(b).nth < sent /\ Held(b) \in Text
        BY <1>6, <2>1 DEF TextsOnce, Numbered
      <3> QED BY <1>1, <1>5, <1>6, <3>1, TextPlaces DEF TextsOnce, Apart
    <2>2. ASSUME NEW u \in Socket, NEW t \in Socket, NEW i \in DOMAIN inbox'[u],
                 NEW j \in DOMAIN received'[t]
          PROVE  received'[t][j] # inbox'[u][i]
      <3>0. j \in DOMAIN received[t] /\ received'[t][j] = received[t][j]
        BY <1>0
      <3>1. received[t][j].nth < sent /\ received[t][j] \in Text
        BY <3>0, TextPlaces DEF TextsOnce, Numbered
      <3>2. CASE i \in DOMAIN inbox[u] /\ inbox'[u][i] = inbox[u][i]
        BY <3>0, <3>2 DEF TextsOnce, Apart
      <3>3. CASE i - n \in DOMAIN words /\ inbox'[u][i] = words[i - n]
        BY <1>1, <3>0, <3>1, <3>3, TextPlaces
      <3> QED BY <1>5, <3>2, <3>3
    <2> QED BY <1>0, <1>6, <2>1, <2>2 DEF TextsOnce, Apart
  <1>10. Numbered'
    <2>1. ASSUME NEW t \in Socket, NEW i \in DOMAIN inbox'[t], inbox'[t][i] \in Text
          PROVE  inbox'[t][i].nth < sent + 1
      <3>1. CASE inbox'[t][i].nth = sent
        BY <1>1, <3>1
      <3>2. CASE inbox'[t][i].nth < sent
        BY <1>1, <2>1, <3>2, TextPlaces
      <3> QED BY <1>5, <2>1, <3>1, <3>2 DEF TextsOnce, Numbered
    <2>2. ASSUME NEW b \in Broker, Held(b)' \in Text PROVE Held(b)'.nth < sent + 1
      BY <1>1, <1>6, <2>2, TextPlaces DEF TextsOnce, Numbered
    <2>3. ASSUME NEW t \in Socket, NEW j \in DOMAIN received'[t]
          PROVE  received'[t][j].nth < sent + 1
      BY <1>0, <1>1, TextPlaces DEF TextsOnce, Numbered
    <2> QED BY <1>0, <2>1, <2>2, <2>3 DEF Numbered
  <1> QED BY <1>7, <1>8, <1>9, <1>10 DEF TextsOnce

\* The dispatcher takes at most a word, from the peer it serves.
LEMMA DispatcherTakes ==
  ASSUME TypeOK, Dispatcher
  PROVE  inbox' = inbox \/ (cur \in Socket /\ inbox[cur] # <<>> /\ Pop(cur))
  <1>1. CASE ReadCommand
    <2>1. cur \in Socket
      BY <1>1, TypeParts DEF ReadCommand, DispatcherTypes
    <2> QED BY <1>1, <2>1 DEF ReadCommand
  <1>2. CASE ReceiveTarget
    <2>1. cur \in Socket
      BY <1>2, TypeParts DEF ReceiveTarget, DispatcherTypes
    <2> QED BY <1>2, <2>1 DEF ReceiveTarget
  <1>3. CASE \/ CopyPeers \/ ClearWaiting \/ ListenTimeout \/ RemovePair
             \/ \E s \in Socket : Listen(s)
    BY <1>3 DEF CopyPeers, ClearWaiting, ListenTimeout, Listen, RemovePair
  <1> QED BY <1>1, <1>2, <1>3 DEF Dispatcher

\* The dispatcher takes words and relays nothing.
LEMMA DispatcherKeepsOnce ==
  ASSUME TypeOK, TextsOnce, Dispatcher
  PROVE  TextsOnce'
  <1>1. UNCHANGED <<msg, received, sent>>
    BY DEF Dispatcher, CopyPeers, ClearWaiting, ListenTimeout, Listen, ReadCommand, ReceiveTarget,
       Refuse, Scramble, CreateBroker, RemovePair, brokers, clients
  <1>2. \/ pcB' = pcB
        \/ \E b \in Broker : pcB' = [pcB EXCEPT ![b] = "listen"]
    BY DEF Dispatcher, CopyPeers, ClearWaiting, ListenTimeout, Listen, ReadCommand, ReceiveTarget,
       Refuse, Scramble, CreateBroker, RemovePair, brokers
  <1>3. /\ pcB \in [Broker -> {"new", "listen", "deaf", "read", "closing", "text", "relay", "done"}]
        /\ cur \in Socket \cup {NoSocket}
    BY DEF TypeOK
  <1>4. /\ \A b \in Broker : Held(b)' \in {Held(b), NoText}
        /\ Emptied'
    BY <1>1, <1>2, <1>3 DEF Held, Emptied, TextsOnce
  <1>5. CASE inbox' = inbox
    BY <1>1, <1>4, <1>5, SameTexts
  <1>6. CASE cur \in Socket /\ inbox[cur] # <<>> /\ Pop(cur)
    BY <1>1, <1>4, <1>6, PoppedTexts
  <1>7. inbox' = inbox \/ (cur \in Socket /\ inbox[cur] # <<>> /\ Pop(cur))
    BY DispatcherTakes
  <1> QED BY <1>5, <1>6, <1>7

\* Reading a command empties msg, and every other step of a broker leaves the
\* texts alone.
LEMMA BrokerKeepsOnce ==
  ASSUME TypeOK, TextsOnce, NEW b \in Broker, BrokerRun(b)
  PROVE  TextsOnce'
  <1>1. CASE ReadText(b)
    BY <1>1, ReadTextKeepsOnce
  <1>2. CASE SendMessage(b)
    BY <1>2, SendMessageKeepsOnce
  <1>3. /\ pcB \in [Broker -> {"new", "listen", "deaf", "read", "closing", "text", "relay", "done"}]
        /\ msg \in [Broker -> Text \cup {NoText}]
        /\ pcB[b] \in {"read", "closing", "text", "relay"} => from[b] \in Socket
    BY DEF TypeOK
  <1>4. CASE ReadMessage(b)
    <2>1. /\ UNCHANGED <<received, sent>> /\ from[b] \in Socket
          /\ \/ inbox' = inbox
             \/ inbox[from[b]] # <<>> /\ Pop(from[b])
      BY <1>3, <1>4 DEF ReadMessage, ReadWord, clients
    <2>2. PICK at : pcB' = [pcB EXCEPT ![b] = at]
      BY <1>4 DEF ReadMessage, ReadWord, Goto
    <2>3. msg' = [msg EXCEPT ![b] = NoText]
      BY <1>4 DEF ReadMessage
    <2>4. /\ \A c \in Broker : Held(c)' \in {Held(c), NoText}
          /\ Emptied'
      BY <1>3, <2>2, <2>3 DEF Held, Emptied, TextsOnce
    <2> QED BY <2>1, <2>4, SameTexts, PoppedTexts
  <1>5. CASE ReturnOther(b) \/ BrokerTimeout(b) \/ \E s \in Socket : BrokerListen(b, s)
    <2>1. UNCHANGED <<received, sent, inbox, msg>>
      BY <1>5 DEF ReturnOther, BrokerTimeout, BrokerListen, clients
    <2>2. \/ pcB[b] = "closing" /\ pcB' = [pcB EXCEPT ![b] = "relay"]
          \/ pcB' = [pcB EXCEPT ![b] = "deaf"]
          \/ pcB' = [pcB EXCEPT ![b] = "read"]
      BY <1>5 DEF ReturnOther, BrokerTimeout, BrokerListen, Goto
    <2>3. /\ \A c \in Broker : Held(c)' \in {Held(c), NoText}
          /\ Emptied'
      BY <1>3, <2>1, <2>2 DEF Held, Emptied, TextsOnce
    <2> QED BY <2>1, <2>3, SameTexts
  <1> QED BY <1>1, <1>2, <1>4, <1>5 DEF BrokerRun

\* Whoever connects or sends keeps the texts in one place.
LEMMA ClientKeepsOnce ==
  ASSUME TypeOK, TextsOnce, NEW s \in Socket, Accept(s) \/ Client(s)
  PROVE  TextsOnce'
  <1>1. CASE Accept(s)
    <2>1. UNCHANGED <<inbox, received, sent, pcB, msg>>
      BY <1>1 DEF Accept, brokers
    <2>2. (\A b \in Broker : Held(b)' = Held(b)) /\ Emptied'
      BY <2>1 DEF Held, Emptied, TextsOnce
    <2> QED BY <2>1, <2>2, SameTexts
  <1>2. \A kind \in {"open", "send", "close", "exit"} :
            [kind |-> kind] \in Word /\ [kind |-> kind] \notin Text
    BY DEF Word, Command, Text
  <1>3. ASSUME NEW t \in Socket, OpenSession(s, t) PROVE TextsOnce'
    <2> DEFINE target == [kind |-> "target", of |-> t]
               words == <<[kind |-> "open"], target>>
    <2>1. target \in Word /\ target \notin Text
      BY DEF Word, Target, Text
    <2>2. words \in Seq(Word) /\ \A i \in DOMAIN words : words[i] \notin Text
      BY <1>2, <2>1
    <2>3. Sends(s, words)
      BY <1>3 DEF OpenSession
    <2> HIDE DEF words
    <2> QED BY <2>2, <2>3, SendsKeepOnce
  <1>4. CASE SendText(s)
    <2> DEFINE text == [kind |-> "text", by |-> s, nth |-> sent]
               words == <<[kind |-> "send"], text>>
    <2>1. text \in Word /\ text.nth = sent
      BY TextPlaces DEF Word, Text
    <2>2. /\ words \in Seq(Word)
          /\ \A i \in DOMAIN words : words[i] \in Text => i = 2 /\ words[i].nth = sent
      BY <1>2, <2>1
    <2>3. Sends(s, words)
      BY <1>4 DEF SendText
    <2> HIDE DEF words
    <2> QED BY <2>2, <2>3, SendsKeepOnce
  <1>5. ASSUME CloseSession(s) \/ Disconnect(s) PROVE TextsOnce'
    <2>1. PICK words \in {<<[kind |-> "close"]>>, <<[kind |-> "exit"]>>,
                          <<[kind |-> "exit"], [kind |-> "close"]>>} : Sends(s, words)
      BY <1>5 DEF CloseSession, Disconnect
    <2>2. words \in Seq(Word) /\ \A i \in DOMAIN words : words[i] \notin Text
      <3>1. CASE words = <<[kind |-> "close"]>>
        BY <1>2, <3>1
      <3>2. CASE words = <<[kind |-> "exit"]>>
        BY <1>2, <3>2
      <3>3. CASE words = <<[kind |-> "exit"], [kind |-> "close"]>>
        BY <1>2, <3>3
      <3> QED BY <3>1, <3>2, <3>3
    <2> QED BY <2>1, <2>2, SendsKeepOnce
  <1>6. CASE HangUp(s)
    <2>1. <<>> \in Seq(Word) /\ DOMAIN <<>> = {}
      OBVIOUS
    <2> QED BY <1>6, <2>1, SendsKeepOnce DEF HangUp
  <1> QED BY <1>1, <1>3, <1>4, <1>5, <1>6 DEF Client

-----------------------------------------------------------------------------
(* Vectors as sets *)

\* A vector that a socket is pushed on.
LEMMA AppendSet ==
  ASSUME NEW v \in Seq(Socket), NEW s \in Socket
  PROVE  ToSet(Append(v, s)) = ToSet(v) \cup {s}
  <1>1. /\ DOMAIN v = 1..Len(v) /\ Len(v) \in Nat
        /\ DOMAIN Append(v, s) = 1..(Len(v) + 1)
        /\ Append(v, s)[Len(v) + 1] = s
        /\ \A i \in 1..Len(v) : Append(v, s)[i] = v[i]
    BY AppendProperties
  <1>2. ToSet(Append(v, s)) \subseteq ToSet(v) \cup {s}
    BY <1>1 DEF ToSet
  <1>3. ToSet(v) \cup {s} \subseteq ToSet(Append(v, s))
    BY <1>1 DEF ToSet
  <1> QED BY <1>2, <1>3

\* Two vectors, one after the other.
LEMMA ConcatSet ==
  ASSUME NEW u \in Seq(Socket), NEW v \in Seq(Socket)
  PROVE  ToSet(u \o v) = ToSet(u) \cup ToSet(v)
  <1>1. /\ DOMAIN u = 1..Len(u) /\ Len(u) \in Nat
        /\ DOMAIN v = 1..Len(v) /\ Len(v) \in Nat
        /\ DOMAIN (u \o v) = 1..(Len(u) + Len(v))
        /\ \A i \in 1..(Len(u) + Len(v)) :
              (u \o v)[i] = IF i <= Len(u) THEN u[i] ELSE v[i - Len(u)]
    BY ConcatProperties
  <1>2. ASSUME NEW i \in DOMAIN (u \o v) PROVE (u \o v)[i] \in ToSet(u) \cup ToSet(v)
    <2>1. CASE i <= Len(u)
      BY <1>1, <2>1 DEF ToSet
    <2>2. CASE ~(i <= Len(u))
      <3>1. i - Len(u) \in DOMAIN v
        BY <1>1, <2>2
      <3> QED BY <1>1, <2>2, <3>1 DEF ToSet
    <2> QED BY <2>1, <2>2
  <1>3. ASSUME NEW i \in DOMAIN u PROVE u[i] \in ToSet(u \o v)
    BY <1>1 DEF ToSet
  <1>4. ASSUME NEW i \in DOMAIN v PROVE v[i] \in ToSet(u \o v)
    <2>1. /\ i + Len(u) \in DOMAIN (u \o v) /\ ~(i + Len(u) <= Len(u))
          /\ (i + Len(u)) - Len(u) = i
      BY <1>1
    <2> QED BY <1>1, <2>1 DEF ToSet
  <1> QED BY <1>2, <1>3, <1>4 DEF ToSet

\* A removal takes one place, and no socket but the one removed.
LEMMA RemovedSet ==
  ASSUME NEW v \in Seq(Socket), NEW s
  PROVE  /\ ToSet(Removed(v, s)) \subseteq ToSet(v)
         /\ ToSet(v) \ {s} \subseteq ToSet(Removed(v, s))
         /\ s \in ToSet(v) =>
              LET p == Place(v, s) IN
              /\ p \in 1..Len(v) /\ v[p] = s
              /\ DOMAIN Removed(v, s) = 1..(Len(v) - 1)
              /\ \A i \in 1..(Len(v) - 1) :
                    Removed(v, s)[i] = IF i < p THEN v[i] ELSE v[i + 1]
  <1>1. CASE s \notin ToSet(v)
    BY <1>1 DEF Removed
  <1>2. CASE s \in ToSet(v)
    <2> DEFINE p == Place(v, s)
               w == Removed(v, s)
    <2>1. p \in 1..Len(v) /\ v[p] = s
      BY <1>2, PlaceFound
    <2>2. w = SubSeq(v, 1, p - 1) \o SubSeq(v, p + 1, Len(v))
      BY <1>2 DEF Removed, RemoveAt
    <2> HIDE DEF p, w
    <2>3. /\ DOMAIN w = 1..(Len(v) - 1)
          /\ \A i \in 1..(Len(v) - 1) : w[i] = IF i < p THEN v[i] ELSE v[i + 1]
      <3>0. Len(v) \in Nat /\ p \in Nat
        BY <2>1
      <3>1. SubSeq(v, 1, p - 1) \in Seq(Socket) /\ Len(SubSeq(v, 1, p - 1)) = p - 1
            /\ \A i \in 1..(p - 1) : SubSeq(v, 1, p - 1)[i] = v[i]
        BY <2>1
      <3>2. /\ SubSeq(v, p + 1, Len(v)) \in Seq(Socket)
            /\ Len(SubSeq(v, p + 1, Len(v))) = Len(v) - p
            /\ \A i \in 1..(Len(v) - p) : SubSeq(v, p + 1, Len(v))[i] = v[p + i]
        BY <2>1
      <3> DEFINE a == SubSeq(v, 1, p - 1)
                 c == SubSeq(v, p + 1, Len(v))
      <3> HIDE DEF a, c
      <3>3. /\ DOMAIN w = 1..(Len(a) + Len(c))
            /\ \A i \in 1..(Len(a) + Len(c)) : w[i] = IF i <= Len(a) THEN a[i] ELSE c[i - Len(a)]
        BY <2>2, <3>1, <3>2, ConcatProperties DEF a, c
      <3>4. Len(a) = p - 1 /\ Len(c) = Len(v) - p /\ Len(a) + Len(c) = Len(v) - 1
        <4>1. Len(a) = p - 1
          BY <3>1 DEF a
        <4>2. Len(c) = Len(v) - p
          BY <3>2 DEF c
        <4> QED BY <3>0, <4>1, <4>2
      <3>5. ASSUME NEW i \in 1..(Len(v) - 1) PROVE w[i] = IF i < p THEN v[i] ELSE v[i + 1]
        <4>1. CASE i < p
          BY <3>0, <3>1, <3>3, <3>4, <4>1 DEF a
        <4>2. CASE ~(i < p)
          <5>1. i - Len(a) \in 1..(Len(v) - p) /\ p + (i - Len(a)) = i + 1 /\ ~(i <= Len(a))
            BY <3>0, <3>4, <4>2
          <5> QED BY <3>2, <3>3, <3>4, <4>2, <5>1 DEF c
        <4> QED BY <4>1, <4>2
      <3> QED BY <3>3, <3>4, <3>5
    <2>4. DOMAIN v = 1..Len(v) /\ Len(v) \in Nat
      OBVIOUS
    <2>5. ASSUME NEW i \in DOMAIN w
          PROVE  \E k \in DOMAIN v : k # p /\ w[i] = v[k]
      <3>1. CASE i < p
        BY <2>1, <2>3, <2>4, <3>1
      <3>2. CASE ~(i < p)
        BY <2>1, <2>3, <2>4, <3>2
      <3> QED BY <3>1, <3>2
    <2>6. ASSUME NEW k \in DOMAIN v, v[k] # s PROVE \E i \in DOMAIN w : w[i] = v[k]
      <3>1. CASE k < p
        BY <2>1, <2>3, <2>4, <3>1
      <3>2. CASE k > p
        <4>1. k - 1 \in DOMAIN w /\ ~(k - 1 < p) /\ (k - 1) + 1 = k
          BY <2>1, <2>3, <2>4, <3>2
        <4> QED BY <2>3, <4>1
      <3> QED BY <2>1, <2>4, <2>6, <3>1, <3>2
    <2>7. ToSet(w) \subseteq ToSet(v) /\ ToSet(v) \ {s} \subseteq ToSet(w)
      BY <2>5, <2>6 DEF ToSet
    <2> QED BY <1>2, <2>1, <2>3, <2>7 DEF p, w
  <1> QED BY <1>1, <1>2

\* Two places that are left were two places before.
LEMMA RemovedPlaces ==
  ASSUME NEW v \in Seq(Socket), NEW s,
         NEW i \in DOMAIN Removed(v, s), NEW j \in DOMAIN Removed(v, s), i # j
  PROVE  \E k, m \in DOMAIN v : /\ k # m /\ v[k] = Removed(v, s)[i]
                                /\ v[m] = Removed(v, s)[j]
  <1>1. CASE s \notin ToSet(v)
    BY <1>1 DEF Removed
  <1>2. CASE s \in ToSet(v)
    <2> DEFINE p == Place(v, s)
               w == Removed(v, s)
               place(a) == IF a < p THEN a ELSE a + 1
    <2>1. /\ p \in 1..Len(v) /\ DOMAIN w = 1..(Len(v) - 1)
          /\ \A a \in 1..(Len(v) - 1) : w[a] = IF a < p THEN v[a] ELSE v[a + 1]
          /\ DOMAIN v = 1..Len(v) /\ Len(v) \in Nat
      BY <1>2, RemovedSet
    <2> HIDE DEF p, w
    <2>2. ASSUME NEW a \in DOMAIN w PROVE place(a) \in DOMAIN v /\ w[a] = v[place(a)]
      BY <2>1
    <2>3. i \in DOMAIN w /\ j \in DOMAIN w
      BY DEF w
    <2>4. place(i) # place(j)
      BY <2>1, <2>3
    <2> HIDE DEF place
    <2> QED BY <2>2, <2>3, <2>4 DEF w
  <1> QED BY <1>1, <1>2

\* What is still there after its removal was there twice.
LEMMA RemovedTwice ==
  ASSUME NEW v \in Seq(Socket), NEW s, s \in ToSet(Removed(v, s))
  PROVE  \E i, j \in DOMAIN v : i # j /\ v[i] = s /\ v[j] = s
  <1>1. s \in ToSet(v)
    BY RemovedSet
  <1> DEFINE p == Place(v, s)
             w == Removed(v, s)
  <1>2. /\ p \in 1..Len(v) /\ v[p] = s /\ DOMAIN w = 1..(Len(v) - 1)
        /\ \A a \in 1..(Len(v) - 1) : w[a] = IF a < p THEN v[a] ELSE v[a + 1]
        /\ DOMAIN v = 1..Len(v) /\ Len(v) \in Nat
    BY <1>1, RemovedSet
  <1>3. PICK a \in DOMAIN w : w[a] = s
    BY DEF ToSet
  <1> HIDE DEF p, w
  <1>4. CASE a < p
    BY <1>2, <1>3, <1>4
  <1>5. CASE ~(a < p)
    BY <1>2, <1>3, <1>5
  <1> QED BY <1>4, <1>5
-----------------------------------------------------------------------------
(* Who reads a connection.  The invariant of the two ownership properties:   *)
(* the dispatcher's two copies of its vector agree while it uses them, a     *)
(* broker that listens is on, who exits has hung up, and the pair that the   *)
(* dispatcher is about to remove is a broker's, or was returned, or is gone. *)

Vectors ==
    /\ pcD = "copy" => mtcp = <<>>
    /\ pcD \in {"listen", "read", "recv", "remove"} => mtcp = peers
    /\ pcD \in {"read", "recv", "remove"} => cur \in ToSet(peers)
    /\ pcD = "remove" => other \in ToSet(peers)

Known ==
    /\ ToSet(waiting) \subseteq accepted /\ ToSet(peers) \subseteq accepted
    /\ ToSet(mtcp) \subseteq accepted
    /\ \A b \in Broker : pcB[b] # "new" => pair[b][1] \in accepted /\ pair[b][2] \in accepted

Reading ==
    \A b \in Broker :
        /\ pcB[b] \in {"listen", "deaf", "read", "closing", "text"} => brokerOn[b]
        /\ pcB[b] = "new" => ~brokerOn[b]
        /\ pcB[b] \in {"read", "closing", "text", "relay"} => from[b] \in {pair[b][1], pair[b][2]}

Leaving == \A s \in Socket : \A i \in DOMAIN inbox[s] : inbox[s][i].kind = "exit" => hung[s]

HandedOver(b, s) == brokerOn[b] \/ s \in ToSet(waiting) \/ hung[s]

Handover ==
    pcD = "remove" => \E b \in Broker : /\ pcB[b] # "new"
                                        /\ pair[b][1] = cur /\ pair[b][2] = other
                                        /\ HandedOver(b, cur) /\ HandedOver(b, other)

Owners == Vectors /\ Known /\ Reading /\ Leaving /\ Handover

\* The two sockets of a broker, and the one it does not read.
LEMMA PairSet ==
  ASSUME TypeOK, NEW b \in Broker, pcB[b] # "new"
  PROVE  /\ ToSet(pair[b]) = {pair[b][1], pair[b][2]}
         /\ pair[b][1] \in Socket /\ pair[b][2] \in Socket
         /\ To(b) \in {pair[b][1], pair[b][2]}
         /\ from[b] \in {pair[b][1], pair[b][2]} => {from[b], To(b)} = {pair[b][1], pair[b][2]}
  <1>1. pair[b] \in Seq(Socket) /\ Len(pair[b]) = 2
    BY DEF TypeOK
  <1>2. DOMAIN pair[b] = {1, 2}
    BY <1>1
  <1>3. ToSet(pair[b]) = {pair[b][1], pair[b][2]}
    BY <1>2 DEF ToSet
  <1> QED BY <1>1, <1>2, <1>3 DEF To

\* The program begins in the invariant.
LEMMA InitOwners == Init => Owners
  <1> SUFFICES ASSUME Init PROVE Owners
    OBVIOUS
  <1>1. ToSet(<<>>) = {}
    BY DEF ToSet
  <1>2. \A s \in Socket : inbox[s] = <<>> /\ DOMAIN inbox[s] = {}
    BY DEF Init
  <1> QED BY <1>1, <1>2 DEF Init, Owners, Vectors, Known, Reading, Leaving, Handover

\* A step that takes at most the first word of an inbox, and sends none, lets
\* no new client exit.
LEMMA LeavingKept ==
  ASSUME TypeOK, Leaving, hung' = hung,
         \/ inbox' = inbox
         \/ \E s \in Socket : inbox[s] # <<>> /\ Pop(s)
  PROVE  Leaving'
  <1>1. CASE inbox' = inbox
    BY <1>1 DEF Leaving
  <1>2. ASSUME NEW s \in Socket, inbox[s] # <<>>, Pop(s) PROVE Leaving'
    <2>1. inbox \in [Socket -> Seq(Word)] /\ inbox' = [inbox EXCEPT ![s] = Tail(@)]
      BY <1>2 DEF TypeOK, Pop
    <2>2. inbox'[s] = Tail(inbox[s]) /\ \A t \in Socket \ {s} : inbox'[t] = inbox[t]
      BY <2>1
    <2>3. ASSUME NEW i \in DOMAIN inbox'[s]
          PROVE  i + 1 \in DOMAIN inbox[s] /\ inbox'[s][i] = inbox[s][i + 1]
      <3>1. inbox[s] \in Seq(Word) /\ inbox[s] # <<>>
        BY <1>2, <2>1
      <3> QED BY <2>2, <3>1
    <2>4. ASSUME NEW t \in Socket, NEW i \in DOMAIN inbox'[t], inbox'[t][i].kind = "exit"
          PROVE  hung[t]
      <3>1. CASE t = s
        BY <2>3, <2>4, <3>1 DEF Leaving
      <3>2. CASE t # s
        BY <2>2, <2>4, <3>2 DEF Leaving
      <3> QED BY <3>1, <3>2
    <2> QED BY <2>4 DEF Leaving
  <1> QED BY <1>1, <1>2

\* The vectors may change and the brokers may not.
LEMMA BrokersFrame ==
  ASSUME TypeOK, Owners, UNCHANGED <<brokers, clients>>
  PROVE  /\ Reading'
         /\ \A b \in Broker : pcB'[b] # "new" =>
              pair'[b][1] \in accepted' /\ pair'[b][2] \in accepted'
  BY DEF Owners, Reading, Known, brokers, clients

\* The dispatcher's steps keep the invariant.
LEMMA DispatcherKeepsOwners ==
  ASSUME TypeOK, Owners, Dispatcher
  PROVE  Owners'
  <1>0. /\ waiting \in Seq(Socket) /\ peers \in Seq(Socket) /\ mtcp \in Seq(Socket)
        /\ ToSet(<<>>) = {}
    BY DEF TypeOK, ToSet
  <1>1. Leaving'
    <2>1. hung' = hung
      BY DEF Dispatcher, CopyPeers, ClearWaiting, ListenTimeout, Listen, ReadCommand, ReceiveTarget,
         RemovePair, clients
    <2>2. inbox' = inbox \/ (cur \in Socket /\ inbox[cur] # <<>> /\ Pop(cur))
      BY DispatcherTakes
    <2> QED BY <2>1, <2>2, LeavingKept DEF Owners
  <1>a. ASSUME EndIteration, UNCHANGED <<waiting, brokers, clients>>,
               ToSet(peers') \subseteq ToSet(peers)
        PROVE Owners'
    <2>1. Vectors' /\ Handover'
      BY <1>a DEF EndIteration, Vectors, Handover
    <2>2. Known' /\ Reading'
      BY <1>0, <1>a, BrokersFrame DEF EndIteration, Owners, Known, clients
    <2> QED BY <1>1, <2>1, <2>2 DEF Owners
  <1>2. CASE CopyPeers
    <2>1. Vectors' /\ Handover'
      BY <1>2 DEF CopyPeers, Vectors, Handover
    <2>2. Known' /\ Reading'
      BY <1>0, <1>2, BrokersFrame, ConcatSet DEF CopyPeers, Owners, Known, clients
    <2> QED BY <1>1, <2>1, <2>2 DEF Owners
  <1>3. CASE ClearWaiting
    <2>1. Vectors' /\ Handover'
      BY <1>3 DEF ClearWaiting, Vectors, Handover
    <2>2. Known' /\ Reading'
      BY <1>0, <1>3, BrokersFrame DEF ClearWaiting, Owners, Known, clients
    <2> QED BY <1>1, <2>1, <2>2 DEF Owners
  <1>4. CASE ListenTimeout
    BY <1>4, <1>a DEF ListenTimeout
  <1>5. ASSUME NEW s \in Socket, Listen(s) PROVE Owners'
    <2>1. s \in ToSet(mtcp) /\ mtcp = peers
      BY <1>5 DEF Listen, IsFirstReady, ToSet, Owners, Vectors
    <2>2. Vectors' /\ Handover'
      BY <1>5, <2>1 DEF Listen, Owners, Vectors, Handover
    <2>3. Known' /\ Reading'
      BY <1>5, BrokersFrame DEF Listen, Owners, Known, clients
    <2> QED BY <1>1, <2>2, <2>3 DEF Owners
  <1>6. CASE ReadCommand
    <2>1. CASE EndIteration
      BY <1>6, <1>a, <2>1 DEF ReadCommand
    <2>2. CASE pcD' = "recv" /\ UNCHANGED <<mtcp, cur, other>>
      <3>1. Vectors' /\ Handover'
        BY <1>6, <2>2 DEF ReadCommand, Owners, Vectors, Handover
      <3>2. Known' /\ Reading'
        BY <1>6, <2>2, BrokersFrame DEF ReadCommand, Owners, Known, clients
      <3> QED BY <1>1, <3>1, <3>2 DEF Owners
    <2> QED BY <1>6, <2>1, <2>2 DEF ReadCommand
  <1>7. CASE ReceiveTarget
    <2>1. CASE Refuse
      BY <1>7, <1>a, <2>1 DEF ReceiveTarget, Refuse
    <2>2. CASE Scramble
      <3>1. Vectors' /\ Handover'
        BY <1>7, <2>2 DEF ReceiveTarget, Scramble, Owners, Vectors, Handover, HandedOver, dispatcher,
           brokers, clients
      <3>2. Known' /\ Reading'
        BY <1>7, <2>2, BrokersFrame DEF ReceiveTarget, Scramble, Owners, Known, clients, dispatcher
      <3> QED BY <1>1, <3>1, <3>2 DEF Owners
    <2>3. ASSUME NEW b \in Broker, NEW t \in ToSet(peers), CreateBroker(b, t) PROVE Owners'
      <3>1. /\ pcD = "recv" /\ cur' = cur /\ other' = t /\ pcD' = "remove" /\ pcB[b] = "new"
            /\ UNCHANGED <<waiting, peers, mtcp, from, clients>>
            /\ pcB' = [pcB EXCEPT ![b] = "listen"] /\ pair' = [pair EXCEPT ![b] = <<cur, t>>]
            /\ brokerOn' = [brokerOn EXCEPT ![b] = TRUE]
        BY <1>7, <2>3 DEF ReceiveTarget, CreateBroker
      <3>2. Vectors'
        BY <3>1 DEF Owners, Vectors
      <3>3. /\ pcB'[b] = "listen" /\ pair'[b] = <<cur, t>> /\ brokerOn'[b]
            /\ \A c \in Broker \ {b} : pcB'[c] = pcB[c] /\ pair'[c] = pair[c]
                                       /\ brokerOn'[c] = brokerOn[c]
        BY <3>1 DEF TypeOK
      <3>4. pair'[b][1] = cur /\ pair'[b][2] = t
        BY <3>3
      <3>5. cur \in accepted /\ t \in accepted
        BY <3>1 DEF Owners, Vectors, Known
      <3>6. Known'
        BY <3>1, <3>3, <3>4, <3>5 DEF Owners, Known, clients
      <3>7. Reading'
        BY <3>1, <3>3 DEF Owners, Reading
      <3>8. Handover'
        BY <3>1, <3>3, <3>4 DEF Handover, HandedOver
      <3> QED BY <1>1, <3>2, <3>6, <3>7, <3>8 DEF Owners
    <2>4. \/ Refuse \/ Scramble
          \/ \E b \in Broker, t \in ToSet(peers) : CreateBroker(b, t)
      BY <1>7 DEF ReceiveTarget
    <2> QED BY <2>1, <2>2, <2>3, <2>4
  <1>8. CASE RemovePair
    <2>1. PICK second : peers' = Removed(Removed(peers, cur), second)
      BY <1>8 DEF RemovePair
    <2>2. ToSet(peers') \subseteq ToSet(peers)
      BY <1>0, <2>1, RemovedType, RemovedSet
    <2> QED BY <1>8, <1>a, <2>2 DEF RemovePair
  <1> QED BY <1>2, <1>3, <1>4, <1>5, <1>6, <1>7, <1>8 DEF Dispatcher

\* A broker's steps keep it.
LEMMA BrokerKeepsOwners ==
  ASSUME TypeOK, Owners, NEW b \in Broker, BrokerRun(b)
  PROVE  Owners'
  <1>0. /\ pcB \in [Broker -> {"new", "listen", "deaf", "read", "closing", "text", "relay", "done"}]
        /\ from \in [Broker -> Socket \cup {NoSocket}] /\ brokerOn \in [Broker -> BOOLEAN]
        /\ waiting \in Seq(Socket)
    BY DEF TypeOK
  <1>1. /\ pcB[b] # "new" /\ pair' = pair
        /\ UNCHANGED <<dispatcher, clients>>
    BY DEF BrokerRun, BrokerListen, BrokerTimeout, ReadMessage, ReadWord, ReturnOther, ReadText,
       SendMessage
  <1>2. /\ pair[b][1] \in accepted /\ pair[b][2] \in accepted
        /\ pair[b][1] \in Socket /\ pair[b][2] \in Socket
        /\ To(b) \in {pair[b][1], pair[b][2]}
    BY <1>1, PairSet DEF Owners, Known
  <1>3. Vectors'
    BY <1>1 DEF Owners, Vectors, dispatcher
  <1>4. pcB[b] \in {"read", "text"} => from[b] \in Socket
    BY DEF TypeOK
  <1>5. Leaving'
    <2>1. hung' = hung
      BY <1>1 DEF clients
    <2>2. \/ inbox' = inbox
          \/ \E s \in Socket : inbox[s] # <<>> /\ Pop(s)
      BY <1>4 DEF BrokerRun, BrokerListen, BrokerTimeout, ReadMessage, ReadWord, ReturnOther,
         ReadText, SendMessage
    <2> QED BY <2>1, <2>2, LeavingKept DEF Owners
  <1>6. PICK at \in {"listen", "deaf", "read", "closing", "text", "relay", "done"} :
            pcB' = [pcB EXCEPT ![b] = at]
    <2>1. CASE pcB' = pcB
      <3>1. pcB[b] = "text"
        BY <2>1, <1>0 DEF BrokerRun, BrokerListen, BrokerTimeout, ReadMessage, ReadWord, ReturnOther,
           ReadText, SendMessage, Goto
      <3>2. pcB' = [pcB EXCEPT ![b] = "text"]
        BY <1>0, <2>1, <3>1
      <3> QED BY <3>2
    <2>2. CASE \E at \in {"listen", "deaf", "read", "closing", "text", "relay", "done"} : Goto(b, at)
      BY <2>2 DEF Goto
    <2> QED BY <2>1, <2>2 DEF BrokerRun, BrokerListen, BrokerTimeout, ReadMessage, ReadWord,
               ReturnOther, ReadText, SendMessage
  <1>7. pcB'[b] = at /\ \A c \in Broker \ {b} : pcB'[c] = pcB[c]
    BY <1>0, <1>6
  <1>8. \/ waiting' = waiting
        \/ waiting' = Append(waiting, from[b]) /\ from[b] \in {pair[b][1], pair[b][2]}
        \/ waiting' = Append(waiting, To(b))
    BY DEF BrokerRun, BrokerListen, BrokerTimeout, ReadMessage, ReadWord, ReturnOther, ReadText,
       SendMessage, Owners, Reading
  <1>9. /\ ToSet(waiting) \subseteq ToSet(waiting')
        /\ ToSet(waiting') \subseteq ToSet(waiting) \cup {pair[b][1], pair[b][2]}
        /\ waiting' = Append(waiting, To(b)) => To(b) \in ToSet(waiting')
    <2>1. CASE waiting' = waiting
      <3>1. To(b) \in Socket
        BY <1>2
      <3>2. ToSet(Append(waiting, To(b))) = ToSet(waiting) \cup {To(b)}
        BY <1>0, <3>1, AppendSet
      <3> QED BY <2>1, <3>2
    <2>2. CASE waiting' = Append(waiting, from[b]) /\ from[b] \in {pair[b][1], pair[b][2]}
      <3>1. ToSet(waiting') = ToSet(waiting) \cup {from[b]} /\ To(b) \in Socket
        BY <1>0, <1>2, <2>2, AppendSet
      <3>2. waiting' = Append(waiting, To(b)) => ToSet(waiting') = ToSet(waiting) \cup {To(b)}
        BY <1>0, <3>1, AppendSet
      <3> QED BY <2>2, <3>1, <3>2
    <2>3. CASE waiting' = Append(waiting, To(b))
      <3>1. To(b) \in Socket
        BY <1>2
      <3>2. ToSet(waiting') = ToSet(waiting) \cup {To(b)}
        BY <1>0, <2>3, <3>1, AppendSet
      <3> QED BY <1>2, <3>2
    <2> QED BY <1>8, <2>1, <2>2, <2>3
  <1>10. Known'
    BY <1>1, <1>2, <1>7, <1>9 DEF Owners, Known, dispatcher, clients
  <1>11. \/ brokerOn' = brokerOn /\ (at = "relay" \/ at = "done" \/ brokerOn[b])
         \/ /\ brokerOn' = [brokerOn EXCEPT ![b] = FALSE] /\ at = "relay"
            /\ waiting' = Append(waiting, To(b))
            /\ pcB[b] = "read" /\ inbox[from[b]] # <<>> /\ Head(inbox[from[b]]).kind = "exit"
    BY <1>0, <1>6, <1>7 DEF BrokerRun, BrokerListen, BrokerTimeout, ReadMessage, ReadWord,
       ReturnOther, ReadText, SendMessage, Owners, Reading, Goto
  <1>12. /\ \A c \in Broker \ {b} : from'[c] = from[c]
         /\ at \in {"read", "closing", "text", "relay"} => from'[b] \in {pair[b][1], pair[b][2]}
    <2>1. CASE BrokerTimeout(b)
      BY <1>0, <1>6, <1>7, <2>1 DEF BrokerTimeout, Goto
    <2>2. ASSUME NEW s \in Socket, BrokerListen(b, s) PROVE <1>12!:
      <3>1. s \in ToSet(pair[b])
        BY <2>2 DEF BrokerListen, IsFirstReady, ToSet
      <3> QED BY <1>0, <1>1, <2>2, <3>1, PairSet DEF BrokerListen
    <2>3. CASE ReadMessage(b) \/ ReturnOther(b) \/ ReadText(b) \/ SendMessage(b)
      BY <2>3 DEF ReadMessage, ReadWord, ReturnOther, ReadText, SendMessage, Owners, Reading
    <2> QED BY <2>1, <2>2, <2>3 DEF BrokerRun
  <1>13. Reading'
    <2>1. \A c \in Broker \ {b} : brokerOn'[c] = brokerOn[c]
      BY <1>0, <1>11
    <2>2. at \in {"listen", "deaf", "read", "closing", "text"} => brokerOn'[b]
      BY <1>11
    <2> QED BY <1>1, <1>7, <1>12, <2>1, <2>2 DEF Owners, Reading
  <1>14. Handover'
    <2> SUFFICES ASSUME pcD = "remove" PROVE Handover'
      BY <1>1 DEF Handover, dispatcher
    <2>1. PICK c \in Broker : /\ pcB[c] # "new"
                              /\ pair[c][1] = cur /\ pair[c][2] = other
                              /\ HandedOver(c, cur) /\ HandedOver(c, other)
      BY DEF Owners, Handover
    <2>2. pcB'[c] # "new" /\ pair'[c][1] = cur /\ pair'[c][2] = other
      BY <1>1, <1>7, <2>1
    <2>3. HandedOver(c, cur)' /\ HandedOver(c, other)'
      <3>1. CASE brokerOn'[c] = brokerOn[c]
        BY <1>1, <1>9, <2>1, <3>1 DEF HandedOver, dispatcher, clients
      <3>2. CASE c = b /\ brokerOn' # brokerOn
        <4>1. hung[from[b]] /\ To(b) \in ToSet(waiting')
          <5>1. inbox[from[b]] \in Seq(Word) /\ inbox[from[b]] # <<>> /\ from[b] \in Socket
            BY <1>4, <1>11, <3>2 DEF TypeOK
          <5>2. 1 \in DOMAIN inbox[from[b]] /\ inbox[from[b]][1].kind = "exit"
            BY <1>11, <3>2, <5>1
          <5> QED BY <1>9, <1>11, <3>2, <5>1, <5>2 DEF Owners, Leaving
        <4>2. {from[b], To(b)} = {cur, other}
          BY <1>1, <1>11, <2>1, <3>2, PairSet DEF Owners, Reading
        <4> QED BY <1>1, <3>2, <4>1, <4>2 DEF HandedOver, dispatcher, clients
      <3>3. CASE c # b
        BY <1>0, <1>11, <3>1, <3>3
      <3> QED BY <3>1, <3>2, <3>3
    <2> QED BY <1>1, <2>2, <2>3 DEF Handover, dispatcher
  <1> QED BY <1>3, <1>5, <1>10, <1>13, <1>14 DEF Owners

\* What a client sends keeps it: who sends EXIT hangs up.
LEMMA ClientKeepsOwners ==
  ASSUME TypeOK, Owners, NEW s \in Socket, Accept(s) \/ Client(s)
  PROVE  Owners'
  <1>0. waiting \in Seq(Socket) /\ hung \in [Socket -> BOOLEAN]
    BY DEF TypeOK
  <1>1. UNCHANGED <<dispatcher, brokers>>
    BY DEF Accept, Client, OpenSession, SendText, CloseSession, Disconnect, HangUp, Sends
  <1>2. Vectors' /\ Reading'
    BY <1>1 DEF dispatcher, brokers, Owners, Vectors, Reading
  <1>3. /\ accepted \subseteq accepted' /\ ToSet(waiting) \subseteq ToSet(waiting')
        /\ ToSet(waiting') \subseteq ToSet(waiting) \cup accepted'
    <2>1. CASE Accept(s)
      BY <1>0, <2>1, AppendSet DEF Accept
    <2>2. CASE Client(s)
      BY <2>2 DEF Client, OpenSession, SendText, CloseSession, Disconnect, HangUp, Sends
    <2> QED BY <2>1, <2>2
  <1>4. Known'
    BY <1>1, <1>3 DEF dispatcher, brokers, Owners, Known
  <1>5. \A t \in Socket : hung[t] => hung'[t]
    BY <1>0 DEF Accept, Client, OpenSession, SendText, CloseSession, Disconnect, HangUp, Sends
  <1>6. Handover'
    <2> SUFFICES ASSUME pcD = "remove" PROVE Handover'
      BY <1>1 DEF Handover, dispatcher
    <2>1. PICK c \in Broker : /\ pcB[c] # "new"
                              /\ pair[c][1] = cur /\ pair[c][2] = other
                              /\ HandedOver(c, cur) /\ HandedOver(c, other)
      BY DEF Owners, Handover
    <2>2. cur \in Socket /\ other \in Socket
      BY DEF TypeOK
    <2>3. HandedOver(c, cur)' /\ HandedOver(c, other)'
      BY <1>1, <1>3, <1>5, <2>1, <2>2 DEF HandedOver, dispatcher, brokers
    <2> QED BY <1>1, <2>1, <2>3 DEF Handover, dispatcher, brokers
  <1>7. Leaving'
    <2>1. CASE Accept(s)
      BY <2>1 DEF Accept, Owners, Leaving
    <2>2. ASSUME NEW words \in Seq(Word), Sends(s, words),
                 hung'[s] \/ \A i \in DOMAIN words : words[i].kind # "exit"
          PROVE  Leaving'
      <3>1. inbox \in [Socket -> Seq(Word)] /\ inbox' = [inbox EXCEPT ![s] = @ \o words]
        BY <2>2 DEF Sends, TypeOK
      <3>2. inbox'[s] = inbox[s] \o words /\ \A t \in Socket \ {s} : inbox'[t] = inbox[t]
        BY <3>1
      <3>3. ASSUME NEW t \in Socket, NEW i \in DOMAIN inbox'[t], inbox'[t][i].kind = "exit"
            PROVE  hung'[t]
        <4>1. CASE t # s
          BY <1>5, <3>2, <3>3, <4>1 DEF Owners, Leaving
        <4>2. CASE t = s /\ ~hung'[s]
          <5>1. /\ inbox[s] \in Seq(Word) /\ Len(inbox[s]) \in Nat
                /\ DOMAIN inbox[s] = 1..Len(inbox[s])
                /\ Len(words) \in Nat /\ DOMAIN words = 1..Len(words)
            BY <3>1
          <5>2. /\ i \in 1..(Len(inbox[s]) + Len(words))
                /\ inbox'[s][i] = IF i <= Len(inbox[s]) THEN inbox[s][i]
                                  ELSE words[i - Len(inbox[s])]
            BY <3>2, <3>3, <4>2, <5>1, ConcatProperties
          <5>3. CASE i <= Len(inbox[s])
            <6>1. i \in DOMAIN inbox[s] /\ inbox[s][i].kind = "exit"
              BY <3>3, <4>2, <5>1, <5>2, <5>3
            <6> QED BY <1>5, <4>2, <6>1 DEF Owners, Leaving
          <5>4. CASE ~(i <= Len(inbox[s]))
            <6>1. i - Len(inbox[s]) \in DOMAIN words
              BY <5>1, <5>2, <5>4
            <6> QED BY <2>2, <3>3, <4>2, <5>2, <5>4, <6>1
          <5> QED BY <5>3, <5>4
        <4> QED BY <4>1, <4>2
      <3> QED BY <3>3 DEF Leaving
    <2>3. ASSUME NEW t \in Socket, OpenSession(s, t) PROVE Leaving'
      <3> DEFINE words == <<[kind |-> "open"], [kind |-> "target", of |-> t]>>
      <3>1. words \in Seq(Word)
        BY DEF Word, Command, Target
      <3>2. \A i \in DOMAIN words : words[i].kind # "exit"
        OBVIOUS
      <3>3. Sends(s, words)
        BY <2>3 DEF OpenSession
      <3> HIDE DEF words
      <3> QED BY <2>2, <3>1, <3>2, <3>3
    <2>4. CASE SendText(s)
      <3> DEFINE text == [kind |-> "text", by |-> s, nth |-> sent]
                 words == <<[kind |-> "send"], text>>
      <3>1. words \in Seq(Word)
        BY TextPlaces DEF Word, Command, Text
      <3>2. \A i \in DOMAIN words : words[i].kind # "exit"
        <4>1. text.kind = "text" /\ [kind |-> "send"].kind = "send"
          OBVIOUS
        <4> HIDE DEF text
        <4> QED BY <4>1
      <3>3. Sends(s, words)
        BY <2>4 DEF SendText
      <3> HIDE DEF words
      <3> QED BY <2>2, <3>1, <3>2, <3>3
    <2>5. CASE CloseSession(s)
      <3> DEFINE words == <<[kind |-> "close"]>>
      <3>1. words \in Seq(Word)
        BY DEF Word, Command
      <3>2. \A i \in DOMAIN words : words[i].kind # "exit"
        OBVIOUS
      <3>3. Sends(s, words)
        BY <2>5 DEF CloseSession
      <3> HIDE DEF words
      <3> QED BY <2>2, <3>1, <3>2, <3>3
    <2>6. CASE Disconnect(s)
      <3>1. PICK words \in {<<[kind |-> "exit"]>>, <<[kind |-> "exit"], [kind |-> "close"]>>} :
                Sends(s, words)
        BY <2>6 DEF Disconnect
      <3>2. [kind |-> "exit"] \in Word /\ [kind |-> "close"] \in Word
        BY DEF Word, Command
      <3>3. words \in Seq(Word)
        <4>1. <<[kind |-> "exit"]>> \in Seq(Word)
          BY <3>2
        <4>2. <<[kind |-> "exit"], [kind |-> "close"]>> \in Seq(Word)
          BY <3>2
        <4> QED BY <3>1, <4>1, <4>2
      <3>4. hung'[s]
        BY <1>0, <2>6 DEF Disconnect
      <3> QED BY <2>2, <3>1, <3>3, <3>4
    <2>7. CASE HangUp(s)
      <3>1. <<>> \in Seq(Word) /\ DOMAIN <<>> = {}
        OBVIOUS
      <3> QED BY <2>2, <2>7, <3>1 DEF HangUp
    <2> QED BY <2>1, <2>3, <2>4, <2>5, <2>6, <2>7 DEF Client
  <1> QED BY <1>2, <1>4, <1>6, <1>7 DEF Owners

-----------------------------------------------------------------------------
(* The invariant of the whole *)

IInv == TypeOK /\ TextsOnce /\ Owners

\* Every step keeps the invariant.
LEMMA NextIInv == IInv /\ [Next]_vars => IInv'
  <1> SUFFICES ASSUME IInv, [Next]_vars PROVE IInv'
    OBVIOUS
  <1>1. CASE Dispatcher
    BY <1>1, DispatcherKeepsTypes, DispatcherKeepsOnce, DispatcherKeepsOwners DEF IInv
  <1>2. ASSUME NEW b \in Broker, BrokerRun(b) PROVE IInv'
    BY <1>2, BrokerKeepsTypes, BrokerKeepsOnce, BrokerKeepsOwners DEF IInv
  <1>3. ASSUME NEW s \in Socket, Accept(s) \/ Client(s) PROVE IInv'
    BY <1>3, ClientKeepsTypes, ClientKeepsOnce, ClientKeepsOwners DEF IInv
  <1>4. CASE UNCHANGED vars
    <2>1. UNCHANGED <<waiting, peers, mtcp, pcD, cur, other, pcB, pair, brokerOn, from, msg, accepted,
                      hung, closed, sent, inbox, received, scrambled, crashed>>
      BY <1>4 DEF vars, dispatcher, brokers, clients
    <2>2. TypeOK' /\ TextsOnce'
      BY <2>1 DEF IInv, TypeOK, TextsOnce, InboxOnce, HeldOnce, Held, Apart, Numbered, Emptied,
         RelayedOnce
    <2>3. Owners'
      BY <2>1 DEF IInv, Owners, Vectors, Known, Reading, Leaving, Handover, HandedOver
    <2> QED BY <2>2, <2>3 DEF IInv
  <1> QED BY <1>1, <1>2, <1>3, <1>4 DEF Next

\* What holds of every state.
LEMMA Invariance == Spec => []IInv
  BY InitTexts, InitOwners, NextIInv, PTL DEF Spec, IInv

\* Every variable has its type.
THEOREM TypeCorrect == Spec => []TypeOK
  <1>1. IInv => TypeOK
    BY DEF IInv
  <1> QED BY <1>1, Invariance, PTL

\* No text is relayed twice, however many brokers and dispatchers come to read
\* one connection: readMessage takes a text from the stream once, and empties
\* msg before it reads again.
THEOREM NoTextTwice == Spec => []RelayedOnce
  <1>1. IInv => RelayedOnce
    BY DEF IInv, TextsOnce
  <1> QED BY <1>1, Invariance, PTL
-----------------------------------------------------------------------------
(* Two readers, and none *)

\* Removing a pair that is not shifted removes the pair.
LEMMA PairRemoved ==
  ASSUME TypeOK, Owners, RemovePair, ~Shifted
  PROVE  peers' = Removed(Removed(peers, cur), other)
  <1> DEFINE p == Place(peers, cur)
             q == Place(peers, other)
             rest == Removed(peers, cur)
  <1>1. /\ pcD = "remove" /\ peers \in Seq(Socket) /\ cur \in ToSet(peers)
        /\ other \in ToSet(peers)
    BY DEF RemovePair, TypeOK, Owners, Vectors
  <1>2. /\ p \in 1..Len(peers) /\ DOMAIN rest = 1..(Len(peers) - 1)
        /\ \A i \in 1..(Len(peers) - 1) : rest[i] = IF i < p THEN peers[i] ELSE peers[i + 1]
    BY <1>1, RemovedSet
  <1>3. q \in 1..Len(peers) /\ peers[q] = other
    BY <1>1, PlaceFound
  <1>4. ~(p <= q /\ q < Len(peers))
    BY <1>1 DEF Shifted
  <1>5. peers' = Removed(rest, IF q \in DOMAIN rest THEN rest[q] ELSE peers[Len(peers)])
    BY DEF RemovePair
  <1> HIDE DEF p, q, rest
  <1>6. CASE q < p
    <2>1. q \in DOMAIN rest /\ rest[q] = other
      BY <1>2, <1>3, <1>6
    <2> QED BY <1>5, <2>1 DEF rest
  <1>7. CASE ~(q < p)
    <2>1. q = Len(peers) /\ q \notin DOMAIN rest
      BY <1>2, <1>3, <1>4, <1>7
    <2> QED BY <1>3, <1>5, <2>1 DEF rest
  <1> QED BY <1>6, <1>7

\* The brokers keep what they hold when they and their sockets stay as they are.
LEMMA SameBrokers ==
  ASSUME UNCHANGED <<pair, brokerOn>>, NEW b \in Broker, NEW s
  PROVE  BrokerHolds(b, s)' <=> BrokerHolds(b, s)
  BY DEF BrokerHolds

\* The dispatcher comes to share a connection when it removes the wrong one,
\* or one that it has twice.
LEMMA DispatcherShares ==
  ASSUME TypeOK, Owners, Dispatcher, NEW s \in Socket, ~Shared(s), Shared(s)', ~Shifted
  PROVE  pcD \in {"recv", "remove"} /\ Twice(s)
  <1>0. /\ waiting \in Seq(Socket) /\ peers \in Seq(Socket) /\ mtcp \in Seq(Socket)
        /\ ToSet(<<>>) = {}
        /\ DOMAIN waiting = 1..Len(waiting) /\ DOMAIN peers = 1..Len(peers)
        /\ Len(waiting) \in Nat /\ Len(peers) \in Nat
    BY DEF TypeOK, ToSet
  <1>a. ASSUME UNCHANGED <<pair, brokerOn>>, DispatcherHolds(s)' => DispatcherHolds(s)
        PROVE  FALSE
    BY <1>a, SameBrokers DEF Shared
  <1>b. /\ DOMAIN (peers \o waiting) = 1..(Len(peers) + Len(waiting))
        /\ \A i \in 1..(Len(peers) + Len(waiting)) :
              (peers \o waiting)[i] = IF i <= Len(peers) THEN peers[i] ELSE waiting[i - Len(peers)]
    BY <1>0, ConcatProperties
  <1>1. CASE CopyPeers
    <2>1. ToSet(mtcp') = ToSet(peers) \cup ToSet(waiting)
      BY <1>0, <1>1, ConcatSet DEF CopyPeers
    <2> QED BY <1>1, <1>a, <2>1 DEF CopyPeers, DispatcherHolds, brokers
  <1>2. CASE ClearWaiting
    BY <1>0, <1>2, <1>a DEF ClearWaiting, DispatcherHolds, brokers
  <1>3. CASE ListenTimeout \/ ReadCommand \/ (ReceiveTarget /\ (Refuse \/ Scramble))
             \/ \E t \in Socket : Listen(t)
    <2>1. /\ UNCHANGED <<waiting, peers, brokers>> /\ ToSet(mtcp') \subseteq ToSet(mtcp)
          /\ pcD # "remove"
      BY <1>0, <1>3 DEF ListenTimeout, ReadCommand, ReceiveTarget, Refuse, Scramble, Listen,
         EndIteration, dispatcher
    <2> QED BY <1>a, <2>1 DEF DispatcherHolds, brokers
  <1>4. ASSUME NEW b \in Broker, NEW t \in ToSet(peers), ReceiveTarget, CreateBroker(b, t)
        PROVE  pcD \in {"recv", "remove"} /\ Twice(s)
    <2>1. /\ pcD = "recv" /\ cur' = cur /\ other' = t /\ pcD' = "remove" /\ pcB[b] = "new"
          /\ UNCHANGED <<waiting, peers, mtcp>>
          /\ pair' = [pair EXCEPT ![b] = <<cur, t>>]
          /\ brokerOn' = [brokerOn EXCEPT ![b] = TRUE]
      BY <1>4 DEF ReceiveTarget, CreateBroker
    <2>2. /\ pair'[b] = <<cur, t>>
          /\ \A c \in Broker \ {b} : pair'[c] = pair[c] /\ brokerOn'[c] = brokerOn[c]
      BY <2>1 DEF TypeOK
    <2>3. ToSet(pair'[b]) = {cur, t}
      BY <2>2 DEF ToSet
    <2>4. \A c \in Broker \ {b} : BrokerHolds(c, s)' <=> BrokerHolds(c, s)
      BY <2>2 DEF BrokerHolds
    <2>5. CASE s \notin {cur, t}
      <3>1. ~BrokerHolds(b, s)'
        BY <2>3, <2>5 DEF BrokerHolds
      <3>2. DispatcherHolds(s)' => DispatcherHolds(s)
        BY <2>1, <2>5 DEF DispatcherHolds
      <3> QED BY <2>4, <3>1, <3>2 DEF Shared
    <2>6. CASE s \in {cur, t}
      <3>1. s \in ToSet(peers)
        BY <2>1, <2>6 DEF Owners, Vectors
      <3>2. DispatcherHolds(s)
        BY <2>1, <3>1 DEF DispatcherHolds
      <3>3. \A c \in Broker : ~BrokerHolds(c, s)
        BY <3>2 DEF Shared
      <3>4. DispatcherHolds(s)'
        BY <2>4, <3>3 DEF Shared
      <3>5. s \in ToSet(waiting)
        BY <2>1, <2>6, <3>4 DEF DispatcherHolds
      <3>6. PICK i \in DOMAIN peers, j \in DOMAIN waiting : peers[i] = s /\ waiting[j] = s
        BY <3>1, <3>5 DEF ToSet
      <3>7. /\ i \in 1..(Len(peers) + Len(waiting)) /\ i <= Len(peers)
            /\ j + Len(peers) \in 1..(Len(peers) + Len(waiting)) /\ ~(j + Len(peers) <= Len(peers))
            /\ (j + Len(peers)) - Len(peers) = j /\ i # j + Len(peers)
        BY <1>0, <3>6
      <3> QED BY <1>b, <2>1, <3>6, <3>7 DEF Twice
    <2> QED BY <2>5, <2>6
  <1>5. CASE RemovePair
    <2>1. /\ pcD = "remove" /\ UNCHANGED <<waiting, brokers>> /\ mtcp' = <<>>
          /\ peers' = Removed(Removed(peers, cur), other)
      BY <1>5, PairRemoved DEF RemovePair, EndIteration
    <2>2. UNCHANGED <<pair, brokerOn>>
      BY <2>1 DEF brokers
    <2>3. DispatcherHolds(s)' /\ ~DispatcherHolds(s)
      BY <1>a, <2>2
    <2>4. s \in ToSet(peers') /\ s \notin ToSet(waiting)
      BY <1>0, <2>1, <2>3 DEF DispatcherHolds
    <2> DEFINE rest == Removed(peers, cur)
    <2>5. /\ rest \in Seq(Socket) /\ ToSet(rest) \subseteq ToSet(peers)
          /\ ToSet(peers') \subseteq ToSet(rest)
      BY <1>0, <2>1, RemovedType, RemovedSet
    <2>6. s \in {cur, other}
      BY <2>3, <2>4, <2>5 DEF DispatcherHolds
    <2>7. \E k, m \in DOMAIN peers : k # m /\ peers[k] = s /\ peers[m] = s
      <3>1. CASE s = cur
        <4>1. s \in ToSet(Removed(peers, s))
          BY <2>4, <2>5, <3>1
        <4> QED BY <1>0, <4>1, RemovedTwice
      <3>2. CASE s = other
        <4> HIDE DEF rest
        <4>1. s \in ToSet(Removed(rest, s))
          BY <2>1, <2>4, <3>2 DEF rest
        <4>2. PICK i, j \in DOMAIN rest : i # j /\ rest[i] = s /\ rest[j] = s
          BY <2>5, <4>1, RemovedTwice
        <4>3. \E k, m \in DOMAIN peers : k # m /\ peers[k] = rest[i] /\ peers[m] = rest[j]
          <5>1. /\ peers \in Seq(Socket) /\ i # j
                /\ i \in DOMAIN Removed(peers, cur) /\ j \in DOMAIN Removed(peers, cur)
            BY <1>0, <4>2 DEF rest
          <5>2. \E k, m \in DOMAIN peers : /\ k # m /\ peers[k] = Removed(peers, cur)[i]
                                            /\ peers[m] = Removed(peers, cur)[j]
            BY ONLY <5>1, RemovedPlaces
          <5> QED BY <5>2 DEF rest
        <4> QED BY <4>2, <4>3
      <3> QED BY <2>6, <3>1, <3>2
    <2>8. PICK k, m \in DOMAIN peers : k # m /\ peers[k] = s /\ peers[m] = s
      BY <2>7
    <2>9. /\ k \in 1..(Len(peers) + Len(waiting)) /\ k <= Len(peers)
          /\ m \in 1..(Len(peers) + Len(waiting)) /\ m <= Len(peers)
      BY <1>0
    <2> QED BY <1>b, <2>1, <2>8, <2>9 DEF Twice
  <1>6. ReceiveTarget => \/ Refuse \/ Scramble
                         \/ \E b \in Broker, t \in ToSet(peers) : CreateBroker(b, t)
    BY DEF ReceiveTarget
  <1> QED BY <1>1, <1>2, <1>3, <1>4, <1>5, <1>6 DEF Dispatcher

\* A broker comes to share one of its own only by CLOSE_SESSION_WITH_PEER.
LEMMA BrokerShares ==
  ASSUME TypeOK, Owners, NEW b \in Broker, BrokerRun(b), NEW s \in Socket, ~Shared(s), Shared(s)'
  PROVE  (pcB'[b] = "closing" \/ pcB[b] = "closing") /\ s \in ToSet(pair[b])
  <1> DEFINE Closing == pcB'[b] = "closing" \/ pcB[b] = "closing"
  <1>0. /\ pcB \in [Broker -> {"new", "listen", "deaf", "read", "closing", "text", "relay", "done"}]
        /\ brokerOn \in [Broker -> BOOLEAN] /\ waiting \in Seq(Socket)
    BY DEF TypeOK
  <1>1. pcB[b] # "new" /\ pair' = pair /\ UNCHANGED dispatcher
    BY DEF BrokerRun, BrokerListen, BrokerTimeout, ReadMessage, ReadWord, ReturnOther, ReadText,
       SendMessage
  <1>2. \/ waiting' = waiting /\ brokerOn' = brokerOn
        \/ /\ waiting' = Append(waiting, To(b)) /\ brokerOn' = [brokerOn EXCEPT ![b] = FALSE]
           /\ pcB[b] = "read"
        \/ /\ waiting' \in {Append(waiting, from[b]), Append(waiting, To(b))}
           /\ brokerOn' = brokerOn /\ pcB[b] \in {"read", "closing"} /\ Closing
    BY <1>0, <1>1 DEF BrokerRun, ReturnOther, BrokerListen, BrokerTimeout, ReadMessage, ReadWord, ReadText, SendMessage,
       Goto
  <1>3. CASE waiting' = waiting /\ brokerOn' = brokerOn
    <2>1. DispatcherHolds(s)' <=> DispatcherHolds(s)
      BY <1>1, <1>3 DEF DispatcherHolds, dispatcher
    <2> QED BY <1>1, <1>3, <2>1, SameBrokers DEF Shared
  <1>4. CASE /\ waiting' = Append(waiting, To(b)) /\ brokerOn' = [brokerOn EXCEPT ![b] = FALSE]
             /\ pcB[b] = "read"
    <2>1. To(b) \in Socket /\ To(b) \in ToSet(pair[b]) /\ brokerOn[b]
      BY <1>1, <1>4, PairSet DEF Owners, Reading
    <2>2. /\ ~BrokerHolds(b, s)'
          /\ \A c \in Broker \ {b} : BrokerHolds(c, s)' <=> BrokerHolds(c, s)
      BY <1>0, <1>1, <1>4 DEF BrokerHolds
    <2>3. ToSet(waiting') = ToSet(waiting) \cup {To(b)}
      BY <1>0, <1>4, <2>1, AppendSet
    <2>4. CASE s = To(b)
      <3>1. BrokerHolds(b, s)
        BY <2>1, <2>4 DEF BrokerHolds
      <3> QED BY <2>2, <3>1 DEF Shared
    <2>5. CASE s # To(b)
      <3>1. DispatcherHolds(s)' <=> DispatcherHolds(s)
        BY <1>1, <2>3, <2>5 DEF DispatcherHolds, dispatcher
      <3> QED BY <2>2, <3>1 DEF Shared
    <2> QED BY <2>4, <2>5
  <1>5. ASSUME NEW x \in {from[b], To(b)}, waiting' = Append(waiting, x),
               brokerOn' = brokerOn, pcB[b] \in {"read", "closing"}
        PROVE  s \in ToSet(pair[b])
    <2>1. x \in Socket /\ x \in ToSet(pair[b])
      <3>1. from[b] \in {pair[b][1], pair[b][2]}
        BY <1>5 DEF Owners, Reading
      <3> QED BY <1>1, <1>5, <3>1, PairSet
    <2> SUFFICES ASSUME s # x PROVE FALSE
      BY <2>1
    <2>2. ToSet(waiting') = ToSet(waiting) \cup {x}
      BY <1>0, <1>5, <2>1, AppendSet
    <2>3. DispatcherHolds(s)' <=> DispatcherHolds(s)
      BY <1>1, <2>2 DEF DispatcherHolds, dispatcher
    <2> QED BY <1>1, <1>5, <2>3, SameBrokers DEF Shared
  <1> QED BY <1>2, <1>3, <1>4, <1>5

\* Nobody comes to share one by connecting or sending.
LEMMA ClientShares ==
  ASSUME TypeOK, Owners, NEW t \in Socket, Accept(t) \/ Client(t), NEW s \in Socket, ~Shared(s)
  PROVE  ~Shared(s)'
  <1>1. UNCHANGED <<dispatcher, brokers>>
    BY DEF Accept, Client, OpenSession, SendText, CloseSession, Disconnect, HangUp, Sends
  <1>2. \A c \in Broker : BrokerHolds(c, s)' <=> BrokerHolds(c, s)
    BY <1>1, SameBrokers DEF brokers
  <1>3. CASE DispatcherHolds(s)' <=> DispatcherHolds(s)
    BY <1>2, <1>3 DEF Shared
  <1>4. CASE Accept(t) /\ s = t
    <2>1. \A c \in Broker : ~BrokerHolds(c, s)
      <3> SUFFICES ASSUME NEW c \in Broker, BrokerHolds(c, s) PROVE FALSE
        OBVIOUS
      <3>1. pcB[c] # "new" /\ s \in ToSet(pair[c])
        BY DEF BrokerHolds, Owners, Reading
      <3>2. s \in accepted
        BY <3>1, PairSet DEF Owners, Known
      <3> QED BY <1>4, <3>2 DEF Accept
    <2> QED BY <1>2, <2>1 DEF Shared
  <1>5. CASE ~(Accept(t) /\ s = t)
    <2>1. s \in ToSet(waiting') <=> s \in ToSet(waiting)
      <3>1. CASE Accept(t)
        BY <1>5, <3>1, AppendSet DEF Accept, TypeOK
      <3>2. CASE Client(t)
        BY <3>2 DEF Client, OpenSession, SendText, CloseSession, Disconnect, HangUp, Sends
      <3> QED BY <3>1, <3>2
    <2>2. DispatcherHolds(s)' <=> DispatcherHolds(s)
      BY <1>1, <2>1 DEF DispatcherHolds, dispatcher
    <2> QED BY <1>3, <2>2
  <1> QED BY <1>4, <1>5

\* However many clients, brokers and sessions, two threads come to read one
\* connection only by CLOSE_SESSION_WITH_PEER, by the stale index of
\* Dispatcher.cpp:131, or for a connection that the dispatcher has twice.
THEOREM SharedInThreeWays == Spec => SharedOnlyBy
  <1> DEFINE Excused(s) == \/ Shifted
                           \/ pcD \in {"recv", "remove"} /\ Twice(s)
                           \/ \E b \in Broker : /\ pcB'[b] = "closing" \/ pcB[b] = "closing"
                                               /\ s \in ToSet(pair[b])
             Step == \A s \in Socket : ~Shared(s) /\ Shared(s)' => Excused(s)
  <1>1. ASSUME IInv, Next PROVE Step
    <2> SUFFICES ASSUME NEW s \in Socket, ~Shared(s), Shared(s)' PROVE Excused(s)
      OBVIOUS
    <2>1. CASE Dispatcher
      BY <1>1, <2>1, DispatcherShares DEF IInv
    <2>2. ASSUME NEW b \in Broker, BrokerRun(b) PROVE Excused(s)
      BY <1>1, <2>2, BrokerShares DEF IInv
    <2>3. ASSUME NEW t \in Socket, Accept(t) \/ Client(t) PROVE FALSE
      BY <1>1, <2>3, ClientShares DEF IInv
    <2> QED BY <1>1, <2>1, <2>2, <2>3 DEF Next
  <1>2. IInv /\ [Next]_vars => [Step]_vars
    BY <1>1
  <1> QED BY Invariance, <1>2, PTL DEF Spec, SharedOnlyBy

\* However many clients, brokers and sessions, a client that is still there
\* comes to be listened to by nobody only while the dispatcher clears
\* waitingPeers, by the stale index of Dispatcher.cpp:131, or when it is left to a
\* broker that has timed out (Broker.cpp:106).
THEOREM StrandedInThreeWays == Spec => StrandedOnlyBy
  <1> DEFINE Left(s) == \E b \in Broker : BrokerHolds(b, s)' /\ pcB'[b] = "deaf"
             Kept(s) == \/ s \in ToSet(waiting) \cup ToSet(peers) \cup ToSet(mtcp)
                        \/ \E b \in Broker : BrokerHolds(b, s)
             Step == \A s \in Socket : Cared(s) /\ ~Cared(s)' =>
                         \/ hung[s] \/ pcD = "clear" \/ Shifted
                         \/ Left(s)
  <1>1. ASSUME IInv, Next PROVE Step
    <2> SUFFICES ASSUME NEW s \in Socket, Kept(s), ~hung[s], pcD # "clear", ~Shifted
                 PROVE  Kept(s)'
      BY DEF Cared
    <2>0. /\ TypeOK /\ Owners /\ ToSet(<<>>) = {}
          /\ waiting \in Seq(Socket) /\ peers \in Seq(Socket)
          /\ brokerOn \in [Broker -> BOOLEAN] /\ pair \in [Broker -> Seq(Socket)]
      <3>1. TypeOK /\ Owners
        BY <1>1 DEF IInv
      <3>2. ToSet(<<>>) = {}
        BY DEF ToSet
      <3> QED BY <3>1, <3>2 DEF TypeOK
    <2>1. CASE Dispatcher /\ ~RemovePair
      <3>1. /\ ToSet(waiting) \subseteq ToSet(waiting') /\ ToSet(peers) \subseteq ToSet(peers')
            /\ ToSet(mtcp) \subseteq ToSet(mtcp') \cup ToSet(peers')
        BY <2>0, <2>1 DEF Dispatcher, CopyPeers, ClearWaiting, ListenTimeout, ReadCommand,
           ReceiveTarget, Refuse, Scramble, CreateBroker, Listen, EndIteration, Owners, Vectors,
           dispatcher
      <3>2. \A b \in Broker : BrokerHolds(b, s) => BrokerHolds(b, s)'
        <4>1. \/ UNCHANGED <<pair, brokerOn>>
              \/ \E b \in Broker : \E t : ReceiveTarget /\ CreateBroker(b, t)
          BY <2>1 DEF Dispatcher, CopyPeers, ClearWaiting, ListenTimeout, ReadCommand,
             ReceiveTarget, Refuse, Scramble, Listen, brokers
        <4>2. ASSUME NEW b \in Broker, NEW t, CreateBroker(b, t), NEW c \in Broker, BrokerHolds(c, s)
              PROVE  BrokerHolds(c, s)'
          <5>1. ~brokerOn[b]
            BY <2>0, <4>2 DEF CreateBroker, Owners, Reading
          <5>2. c # b
            BY <4>2, <5>1 DEF BrokerHolds
          <5>3. pair'[c] = pair[c] /\ brokerOn'[c] = brokerOn[c]
            BY <2>0, <4>2, <5>2 DEF CreateBroker
          <5> QED BY <4>2, <5>3 DEF BrokerHolds
        <4> QED BY <4>1, <4>2, SameBrokers
      <3> QED BY <3>1, <3>2
    <2>2. CASE RemovePair
      <3>1. /\ pcD = "remove" /\ UNCHANGED <<waiting, brokers>> /\ mtcp = peers
            /\ peers' = Removed(Removed(peers, cur), other)
        BY <2>0, <2>2, PairRemoved DEF RemovePair, Owners, Vectors
      <3>2. \A b \in Broker : BrokerHolds(b, s)' <=> BrokerHolds(b, s)
        BY <3>1, SameBrokers DEF brokers
      <3>3. CASE s \in {cur, other}
        <4>1. PICK b \in Broker : /\ pcB[b] # "new"
                                  /\ pair[b][1] = cur /\ pair[b][2] = other
                                  /\ HandedOver(b, cur) /\ HandedOver(b, other)
          BY <2>0, <3>1 DEF Owners, Handover
        <4>2. s \in ToSet(pair[b])
          BY <2>0, <3>3, <4>1, PairSet
        <4>3. BrokerHolds(b, s) \/ s \in ToSet(waiting)
          BY <3>3, <4>1, <4>2 DEF HandedOver, BrokerHolds
        <4> QED BY <3>1, <3>2, <4>3
      <3>4. CASE s \notin {cur, other}
        <4>1. s \in ToSet(peers) => s \in ToSet(peers')
          <5>1. Removed(peers, cur) \in Seq(Socket)
            BY <2>0, RemovedType
          <5>2. s \in ToSet(peers) => s \in ToSet(Removed(peers, cur))
            BY <2>0, <3>4, RemovedSet
          <5>3. s \in ToSet(Removed(peers, cur)) => s \in ToSet(peers')
            BY <3>1, <3>4, <5>1, RemovedSet
          <5> QED BY <5>2, <5>3
        <4> QED BY <3>1, <3>2, <4>1
      <3> QED BY <3>3, <3>4
    <2>3. ASSUME NEW b \in Broker, BrokerRun(b) PROVE Kept(s)'
      <3>1. pcB[b] # "new" /\ pair' = pair /\ UNCHANGED dispatcher
        BY <2>3 DEF BrokerRun, BrokerListen, BrokerTimeout, ReadMessage, ReadWord, ReturnOther,
           ReadText, SendMessage
      <3>2. /\ To(b) \in Socket /\ pair[b][1] \in Socket /\ pair[b][2] \in Socket
            /\ ToSet(pair[b]) = {pair[b][1], pair[b][2]}
        BY <2>0, <3>1, PairSet
      <3>3. \/ \E t \in Socket : waiting' = Append(waiting, t) /\ brokerOn' = brokerOn
            \/ waiting' = waiting /\ brokerOn' = brokerOn
            \/ /\ waiting' = Append(waiting, To(b)) /\ brokerOn' = [brokerOn EXCEPT ![b] = FALSE]
               /\ pcB[b] = "read" /\ inbox[from[b]] # <<>> /\ Head(inbox[from[b]]).kind = "exit"
        <4>1. pcB[b] = "read" => from[b] \in Socket
          BY <2>0 DEF TypeOK
        <4> QED BY <2>3, <3>2, <4>1 DEF BrokerRun, BrokerListen, BrokerTimeout, ReadMessage, ReadWord,
                   ReturnOther, ReadText, SendMessage
      <3>4. CASE brokerOn' = brokerOn
        <4>1. ToSet(waiting) \subseteq ToSet(waiting')
          <5>1. CASE waiting' = waiting
            BY <5>1
          <5>2. ASSUME NEW t \in Socket, waiting' = Append(waiting, t)
                PROVE  ToSet(waiting) \subseteq ToSet(waiting')
            BY <2>0, <5>2, AppendSet
          <5> QED BY <3>2, <3>3, <5>1, <5>2
        <4>2. \A c \in Broker : BrokerHolds(c, s)' <=> BrokerHolds(c, s)
          BY <3>1, <3>4, SameBrokers
        <4> QED BY <3>1, <4>1, <4>2 DEF dispatcher
      <3>5. CASE /\ waiting' = Append(waiting, To(b)) /\ brokerOn' = [brokerOn EXCEPT ![b] = FALSE]
                 /\ pcB[b] = "read" /\ inbox[from[b]] # <<>> /\ Head(inbox[from[b]]).kind = "exit"
        <4>1. ToSet(waiting') = ToSet(waiting) \cup {To(b)}
          BY <2>0, <3>2, <3>5, AppendSet
        <4>2. from[b] \in {pair[b][1], pair[b][2]}
          BY <2>0, <3>5 DEF Owners, Reading
        <4>3. hung[from[b]]
          <5>1. inbox[from[b]] \in Seq(Word) /\ inbox[from[b]] # <<>> /\ from[b] \in Socket
            BY <2>0, <3>2, <3>5, <4>2 DEF TypeOK
          <5>2. 1 \in DOMAIN inbox[from[b]] /\ inbox[from[b]][1].kind = "exit"
            BY <3>5, <5>1
          <5> QED BY <2>0, <5>1, <5>2 DEF Owners, Leaving
        <4>4. s \in ToSet(pair[b]) => s = To(b)
          <5>1. {from[b], To(b)} = {pair[b][1], pair[b][2]}
            BY <2>0, <3>1, <4>2, PairSet
          <5> QED BY <3>2, <4>3, <5>1
        <4>5. \A c \in Broker \ {b} : BrokerHolds(c, s)' <=> BrokerHolds(c, s)
          BY <2>0, <3>1, <3>5 DEF BrokerHolds
        <4>6. BrokerHolds(b, s) => s \in ToSet(waiting')
          BY <4>1, <4>4 DEF BrokerHolds
        <4> QED BY <3>1, <4>1, <4>5, <4>6 DEF dispatcher
      <3> QED BY <3>3, <3>4, <3>5
    <2>4. ASSUME NEW t \in Socket, Accept(t) \/ Client(t) PROVE Kept(s)'
      <3>1. UNCHANGED <<dispatcher, brokers>>
        BY <2>4 DEF Accept, Client, OpenSession, SendText, CloseSession, Disconnect, HangUp, Sends
      <3>2. \A c \in Broker : BrokerHolds(c, s)' <=> BrokerHolds(c, s)
        BY <3>1, SameBrokers DEF brokers
      <3>3. ToSet(waiting) \subseteq ToSet(waiting')
        <4>1. CASE Accept(t)
          BY <2>0, <4>1, AppendSet DEF Accept
        <4>2. CASE Client(t)
          BY <4>2 DEF Client, OpenSession, SendText, CloseSession, Disconnect, HangUp, Sends
        <4> QED BY <2>4, <4>1, <4>2
      <3> QED BY <3>1, <3>2, <3>3 DEF dispatcher
    <2> QED BY <1>1, <2>1, <2>2, <2>3, <2>4 DEF Next
  <1>2. IInv /\ [Next]_vars => [Step]_vars
    BY <1>1
  <1> QED BY Invariance, <1>2, PTL DEF Spec, StrandedOnlyBy
=============================================================================

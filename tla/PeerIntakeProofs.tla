-------------------------- MODULE PeerIntakeProofs --------------------------
(***************************************************************************)
(* What is proved of PeerIntake for every set of connections: which        *)
(* sockets the two threads, racing over waitingPeers, can lose, and that   *)
(* neither waits for the other, nor for a payload that is not coming but   *)
(* for one that was left unread.                                           *)
(***************************************************************************)
EXTENDS PeerIntake, SequenceTheorems, TLAPS

-----------------------------------------------------------------------------
(* The sockets of a vector *)

\* ToSet is the range of a sequence.
LEMMA ToSetFacts ==
  ASSUME NEW S, NEW v \in Seq(S)
  PROVE  /\ \A i \in 1..Len(v) : v[i] \in ToSet(v)
         /\ \A x \in ToSet(v) : \E i \in 1..Len(v) : v[i] = x
  BY DEF ToSet

\* A cleared vector holds no socket.
LEMMA ToSetEmpty == ToSet(<<>>) = {}
  BY DEF ToSet

\* addAll keeps the sockets of both vectors.
LEMMA ToSetConcat ==
  ASSUME NEW S, NEW v \in Seq(S), NEW w \in Seq(S), NEW x \in ToSet(v)
  PROVE  x \in ToSet(v \o w)
  <1>1. PICK i \in 1..Len(v) : v[i] = x
    BY ToSetFacts
  <1>2. v \o w \in Seq(S) /\ (v \o w)[i] = x /\ i \in 1..Len(v \o w)
    BY <1>1
  <1> QED BY <1>2, ToSetFacts

\* What push_back pushes on.
LEMMA ToSetAppend ==
  ASSUME NEW S, NEW v \in Seq(S), NEW e \in S, NEW x \in ToSet(v)
  PROVE  /\ x \in ToSet(Append(v, e))
         /\ x \in ToSet(SubSeq(Append(v, e), 1, Len(v) + 1))
  <1>1. PICK i \in 1..Len(v) : v[i] = x
    BY ToSetFacts
  <1> DEFINE a == Append(v, e)
  <1>2. a \in Seq(S) /\ Len(a) = Len(v) + 1 /\ a[i] = x
    BY <1>1
  <1> HIDE DEF a
  <1>3. x \in ToSet(a)
    BY <1>2, ToSetFacts
  <1> DEFINE b == SubSeq(a, 1, Len(v) + 1)
  <1>4. b \in Seq(S) /\ Len(b) = Len(v) + 1 /\ b[i] = x
    BY <1>2
  <1> HIDE DEF b
  <1>5. x \in ToSet(b)
    BY <1>4, ToSetFacts
  <1> QED BY <1>3, <1>5 DEF a, b

-----------------------------------------------------------------------------
(* The inductive invariant: where the dispatcher is says how its local      *)
(* vector and peers compare, and a push that has begun on a vector finds it *)
(* as it was or cleared.                                                    *)

Loop ==
    /\ pcD = "collectPeers" => mtcp = <<>>
    /\ pcD \in {"collectWaiting", "listen", "read", "lock", "handle"} => mtcp = peers
    /\ pcD = "clearPeers" => ToSet(peers) \subseteq ToSet(mtcp)
    /\ pcD \in {"clearWaiting", "setPeers"} => peers = <<>>

Push == pcA = "publish" => waiting = snap \/ waiting = <<>>

IInv == TypeOK /\ Loop /\ Push

\* The server starts in the invariant.
LEMMA InitIInv == Init => IInv
  <1> SUFFICES ASSUME Init PROVE IInv
    OBVIOUS
  <1>1. TypeOK
    <2>1. /\ peers \in Seq(Socket) /\ waiting \in Seq(Socket) /\ mtcp \in Seq(Socket)
          /\ snap \in Seq(Socket)
      BY DEF Init
    <2>2. /\ inbox \in [Socket -> Seq(Message)]
          /\ owes \in [Socket -> BOOLEAN]
          /\ hung \in [Socket -> BOOLEAN]
      BY DEF Init
    <2>3. sent \in [Socket -> 0..MaxCommands]
      BY IntakeConstants DEF Init
    <2> QED BY <2>1, <2>2, <2>3 DEF Init, TypeOK
  <1>2. Loop /\ Push
    BY DEF Init, Loop, Push
  <1> QED BY <1>1, <1>2 DEF IInv

\* Either outcome of an interrupted push_back is a vector of sockets.
LEMMA PublishType ==
  ASSUME IInv, Publish
  PROVE  waiting' \in Seq(Socket)
  <1> DEFINE a == Append(snap, newPeer)
  <1>1. snap \in Seq(Socket) /\ waiting \in Seq(Socket) /\ newPeer \in Socket
    BY DEF IInv, TypeOK, Publish
  <1>2. Len(waiting) \in Nat /\ Len(waiting) <= Len(snap)
    BY <1>1 DEF IInv, Push, Publish
  <1>3. a \in Seq(Socket) /\ Len(a) = Len(snap) + 1
    BY <1>1
  <1>4. waiting' = a \/ waiting' = SubSeq(a, 1, Len(waiting) + 1)
    BY DEF Publish
  <1> HIDE DEF a
  <1>5. SubSeq(a, 1, Len(waiting) + 1) \in Seq(Socket)
    BY <1>2, <1>3
  <1> QED BY <1>3, <1>4, <1>5

\* Reading the head of a stream leaves a stream.
LEMMA InboxStep ==
  ASSUME TypeOK, NEW s \in Socket, NEW m \in Message
  PROVE  /\ [inbox EXCEPT ![s] = Append(@, m)] \in [Socket -> Seq(Message)]
         /\ inbox[s] # <<>> => [inbox EXCEPT ![s] = Tail(@)] \in [Socket -> Seq(Message)]
         /\ inbox[s] # <<>> => Head(inbox[s]) \in Message
  <1>1. inbox \in [Socket -> Seq(Message)]
    BY DEF TypeOK
  <1>2. inbox[s] \in Seq(Message)
    BY <1>1
  <1> HIDE DEF Message
  <1>3. Append(inbox[s], m) \in Seq(Message)
    BY <1>2
  <1>4. inbox[s] # <<>> => Tail(inbox[s]) \in Seq(Message) /\ Head(inbox[s]) \in Message
    BY <1>2
  <1> QED BY <1>1, <1>3, <1>4

\* Whatever a message is taken for is a command.
LEMMA TakenType ==
  ASSUME NEW m \in Message
  PROVE  /\ Taken(m) \subseteq {"none", "short", "long", "refused"}
         /\ m = "long" => Taken(m) \subseteq {"long", "refused"}
         /\ m = "short" => Taken(m) \subseteq {"short"}
  BY DEF Taken, Message

\* Every step of both threads and of every client preserves the invariant.
LEMMA NextIInv == IInv /\ [Next]_vars => IInv'
  <1> SUFFICES ASSUME IInv, [Next]_vars PROVE IInv'
    OBVIOUS
  <1>0. TypeOK
    BY DEF IInv
  <1>1. ASSUME NEW s \in Socket, Accept(s) PROVE IInv'
    <2>1. TypeOK'
      BY <1>0, <1>1, IntakeConstants DEF Accept, TypeOK, vectors, acceptor, dispatcher, clients
    <2>2. Loop' /\ Push'
      BY <1>0, <1>1 DEF Accept, IInv, Loop, Push, TypeOK, vectors, acceptor, dispatcher, clients
    <2> QED BY <2>1, <2>2 DEF IInv
  <1>2. ASSUME AddPeer PROVE IInv'
    <2>1. TypeOK'
      BY <1>0, <1>2 DEF AddPeer, TypeOK, vectors, acceptor, dispatcher, clients
    <2>2. Loop' /\ Push'
      BY <1>0, <1>2 DEF AddPeer, IInv, Loop, Push, TypeOK, vectors, acceptor, dispatcher, clients
    <2> QED BY <2>1, <2>2 DEF IInv
  <1>3. ASSUME Construct PROVE IInv'
    <2>1. TypeOK'
      BY <1>0, <1>3 DEF Construct, TypeOK, vectors, acceptor, dispatcher, clients
    <2>2. Loop' /\ Push'
      BY <1>0, <1>3 DEF Construct, IInv, Loop, Push, TypeOK, vectors, acceptor, dispatcher, clients
    <2> QED BY <2>1, <2>2 DEF IInv
  <1>4. ASSUME Publish PROVE IInv'
    <2>1. TypeOK'
      <3>1. waiting' \in Seq(Socket)
        BY <1>4, PublishType
      <3>2. snap' \in Seq(Socket)
        BY <1>4 DEF Publish
      <3> QED BY <1>0, <1>4, <3>1, <3>2 DEF Publish, TypeOK, dispatcher, clients
    <2>2. Loop' /\ Push'
      BY <1>0, <1>4 DEF Publish, IInv, Loop, Push, TypeOK, vectors, acceptor, dispatcher, clients
    <2> QED BY <2>1, <2>2 DEF IInv
  <1>5. ASSUME Announce PROVE IInv'
    <2>1. TypeOK'
      BY <1>0, <1>5 DEF Announce, TypeOK, vectors, acceptor, dispatcher, clients
    <2>2. Loop' /\ Push'
      BY <1>0, <1>5 DEF Announce, IInv, Loop, Push, TypeOK, vectors, acceptor, dispatcher, clients
    <2> QED BY <2>1, <2>2 DEF IInv
  <1>6. ASSUME CollectPeers PROVE IInv'
    <2>1. TypeOK'
      BY <1>0, <1>6 DEF CollectPeers, TypeOK, vectors, acceptor, dispatcher, clients
    <2>2. Loop' /\ Push'
      BY <1>0, <1>6 DEF CollectPeers, IInv, Loop, Push, TypeOK, vectors, acceptor, dispatcher, clients
    <2> QED BY <2>1, <2>2 DEF IInv
  <1>7. ASSUME CollectWaiting PROVE IInv'
    <2>1. TypeOK'
      BY <1>0, <1>7 DEF CollectWaiting, TypeOK, vectors, acceptor, dispatcher, clients
    <2>2. Loop' /\ Push'
      <3>1. ToSet(peers) \subseteq ToSet(mtcp')
        BY <1>0, <1>7, ToSetConcat DEF CollectWaiting, IInv, Loop, TypeOK
      <3> QED BY <1>7, <3>1 DEF CollectWaiting, IInv, Loop, Push, acceptor
    <2> QED BY <2>1, <2>2 DEF IInv
  <1>8. ASSUME ClearPeers PROVE IInv'
    <2>1. TypeOK'
      BY <1>0, <1>8 DEF ClearPeers, TypeOK, vectors, acceptor, dispatcher, clients
    <2>2. Loop' /\ Push'
      BY <1>0, <1>8 DEF ClearPeers, IInv, Loop, Push, TypeOK, vectors, acceptor, dispatcher, clients
    <2> QED BY <2>1, <2>2 DEF IInv
  <1>9. ASSUME ClearWaiting PROVE IInv'
    <2>1. TypeOK'
      BY <1>0, <1>9 DEF ClearWaiting, TypeOK, vectors, acceptor, dispatcher, clients
    <2>2. Loop' /\ Push'
      BY <1>0, <1>9 DEF ClearWaiting, IInv, Loop, Push, TypeOK, vectors, acceptor, dispatcher, clients
    <2> QED BY <2>1, <2>2 DEF IInv
  <1>10. ASSUME SetPeers PROVE IInv'
    <2>1. TypeOK'
      BY <1>0, <1>10 DEF SetPeers, TypeOK, vectors, acceptor, dispatcher, clients
    <2>2. Loop' /\ Push'
      BY <1>0, <1>10 DEF SetPeers, IInv, Loop, Push, TypeOK, vectors, acceptor, dispatcher, clients
    <2> QED BY <2>1, <2>2 DEF IInv
  <1>11. ASSUME Listen PROVE IInv'
    <2>1. TypeOK'
      <3>1. PICK i \in ReadyPlaces : cur' = mtcp[i]
        BY <1>11 DEF Listen
      <3>2. cur' \in Socket
        BY <1>0, <3>1 DEF ReadyPlaces, TypeOK
      <3> QED BY <1>0, <1>11, <3>2, IntakeConstants DEF Listen, TypeOK, vectors, acceptor, clients
    <2>2. Loop' /\ Push'
      BY <1>0, <1>11 DEF Listen, IInv, Loop, Push, TypeOK, vectors, acceptor, dispatcher, clients
    <2> QED BY <2>1, <2>2 DEF IInv
  <1>12. ASSUME ListenTimeout PROVE IInv'
    <2>1. TypeOK'
      BY <1>0, <1>12 DEF ListenTimeout, TypeOK, vectors, acceptor, dispatcher, clients
    <2>2. Loop' /\ Push'
      BY <1>0, <1>12 DEF ListenTimeout, IInv, Loop, Push, TypeOK, vectors, acceptor, dispatcher, clients
    <2> QED BY <2>1, <2>2 DEF IInv
  <1>13. ASSUME ReadCommand PROVE IInv'
    <2>1. TypeOK'
      <3>1. cur \in Socket
        BY <1>0, <1>13 DEF ReadCommand, TypeOK
      <3>2. inbox' \in [Socket -> Seq(Message)]
        <4>1. CASE inbox[cur] = <<>>
          BY <1>0, <1>13, <4>1 DEF ReadCommand, TypeOK
        <4>2. CASE inbox[cur] # <<>>
          <5>1. inbox' = [inbox EXCEPT ![cur] = Tail(@)]
            BY <1>13, <4>2 DEF ReadCommand
          <5> QED BY <1>0, <3>1, <4>2, <5>1, InboxStep DEF Message
        <4> QED BY <4>1, <4>2
      <3>3. command' \in {"none", "short", "long", "refused"}
        <4>1. inbox[cur] # <<>> => Head(inbox[cur]) \in Message
          BY <1>0, <3>1, InboxStep DEF Message
        <4> QED BY <1>13, <4>1, TakenType DEF ReadCommand
      <3> QED BY <1>0, <1>13, <3>2, <3>3 DEF ReadCommand, TypeOK, vectors, acceptor
    <2>2. Loop' /\ Push'
      BY <1>0, <1>13 DEF ReadCommand, IInv, Loop, Push, TypeOK, vectors, acceptor, dispatcher, clients
    <2> QED BY <2>1, <2>2 DEF IInv
  <1>14. ASSUME LockCommand PROVE IInv'
    <2>1. TypeOK'
      BY <1>0, <1>14 DEF LockCommand, TypeOK, vectors, acceptor, dispatcher, clients
    <2>2. Loop' /\ Push'
      BY <1>0, <1>14 DEF LockCommand, IInv, Loop, Push, TypeOK, vectors, acceptor, dispatcher, clients
    <2> QED BY <2>1, <2>2 DEF IInv
  <1>15. ASSUME HandleShort PROVE IInv'
    <2>1. TypeOK'
      BY <1>0, <1>15 DEF HandleShort, EndIteration, TypeOK, vectors, acceptor, dispatcher, clients
    <2>2. Loop' /\ Push'
      BY <1>0, <1>15 DEF HandleShort, EndIteration, IInv, Loop, Push, TypeOK, vectors, acceptor, dispatcher, clients
    <2> QED BY <2>1, <2>2 DEF IInv
  <1>16. ASSUME HandleLong PROVE IInv'
    <2>1. TypeOK'
      <3>1. cur \in Socket
        BY <1>0, <1>16 DEF HandleLong, TypeOK
      <3>2. inbox' \in [Socket -> Seq(Message)]
        <4>1. CASE inbox[cur] = <<>>
          BY <1>0, <1>16, <3>1, <4>1 DEF HandleLong, TypeOK
        <4>2. CASE inbox[cur] # <<>>
          <5>1. inbox' = [inbox EXCEPT ![cur] = Tail(@)]
            BY <1>16, <4>2 DEF HandleLong
          <5> QED BY <1>0, <3>1, <4>2, <5>1, InboxStep DEF Message
        <4> QED BY <4>1, <4>2
      <3> QED BY <1>0, <1>16, <3>2 DEF HandleLong, EndIteration, TypeOK, acceptor
    <2>2. Loop' /\ Push'
      BY <1>0, <1>16 DEF HandleLong, EndIteration, IInv, Loop, Push, TypeOK, vectors, acceptor, dispatcher, clients
    <2> QED BY <2>1, <2>2 DEF IInv
  <1>17. ASSUME HandleStranger PROVE IInv'
    <2>1. TypeOK'
      BY <1>0, <1>17 DEF HandleStranger, EndIteration, TypeOK, vectors, acceptor, dispatcher, clients
    <2>2. Loop' /\ Push'
      BY <1>0, <1>17 DEF HandleStranger, EndIteration, IInv, Loop, Push, TypeOK, vectors, acceptor, dispatcher, clients
    <2> QED BY <2>1, <2>2 DEF IInv
  <1>18. ASSUME NEW s \in Socket, NEW kind \in {"short", "long"}, SendCommand(s, kind) PROVE IInv'
    <2>1. TypeOK'
      <3>1. inbox' \in [Socket -> Seq(Message)]
        BY <1>0, <1>18, InboxStep DEF SendCommand, Message
      <3>2. sent' \in [Socket -> 0..MaxCommands]
        BY <1>0, <1>18, IntakeConstants DEF SendCommand, TypeOK
      <3>3. owes' \in [Socket -> BOOLEAN]
        BY <1>0, <1>18 DEF SendCommand, TypeOK
      <3> QED BY <1>0, <1>18, <3>1, <3>2, <3>3 DEF SendCommand, TypeOK, vectors, acceptor, dispatcher
    <2>2. Loop' /\ Push'
      BY <1>0, <1>18 DEF SendCommand, IInv, Loop, Push, TypeOK, vectors, acceptor, dispatcher, clients
    <2> QED BY <2>1, <2>2 DEF IInv
  <1>19. ASSUME NEW s \in Socket, SendPayload(s) PROVE IInv'
    <2>1. TypeOK'
      <3>1. inbox' \in [Socket -> Seq(Message)]
        BY <1>0, <1>19, InboxStep DEF SendPayload, Message
      <3>2. owes' \in [Socket -> BOOLEAN]
        BY <1>0, <1>19 DEF SendPayload, TypeOK
      <3> QED BY <1>0, <1>19, <3>1, <3>2 DEF SendPayload, TypeOK, vectors, acceptor, dispatcher
    <2>2. Loop' /\ Push'
      BY <1>0, <1>19 DEF SendPayload, IInv, Loop, Push, TypeOK, vectors, acceptor, dispatcher, clients
    <2> QED BY <2>1, <2>2 DEF IInv
  <1>20. ASSUME NEW s \in Socket, HangUp(s) PROVE IInv'
    <2>1. TypeOK'
      BY <1>0, <1>20 DEF HangUp, TypeOK, vectors, acceptor, dispatcher, clients
    <2>2. Loop' /\ Push'
      BY <1>0, <1>20 DEF HangUp, IInv, Loop, Push, TypeOK, vectors, acceptor, dispatcher, clients
    <2> QED BY <2>1, <2>2 DEF IInv
  <1>21. ASSUME VectorRace \/ CommandKills PROVE IInv'
    <2>1. TypeOK'
      BY <1>0, <1>21 DEF VectorRace, CommandKills, TypeOK, vectors, acceptor, dispatcher, clients
    <2>2. Loop' /\ Push'
      BY <1>0, <1>21 DEF VectorRace, CommandKills, IInv, Loop, Push, TypeOK, vectors, acceptor, dispatcher, clients
    <2> QED BY <2>1, <2>2 DEF IInv
  <1>22. CASE UNCHANGED vars
    <2>1. TypeOK'
      BY <1>0, <1>22 DEF vars, TypeOK, vectors, acceptor, dispatcher, clients
    <2>2. Loop' /\ Push'
      BY <1>22 DEF vars, IInv, Loop, Push, vectors, acceptor, dispatcher
    <2> QED BY <2>1, <2>2 DEF IInv
  <1> QED
    BY <1>1, <1>2, <1>3, <1>4, <1>5, <1>6, <1>7, <1>8, <1>9, <1>10,
       <1>11, <1>12, <1>13, <1>14, <1>15, <1>16, <1>17, <1>18, <1>19, <1>20, <1>21, <1>22
    DEF Next, Acceptor, Dispatcher, Client

-----------------------------------------------------------------------------
\* The invariant holds of every state the server reaches.
THEOREM Invariance == Spec => []IInv
  <1> QED BY InitIInv, NextIInv, PTL DEF Spec

\* Type correctness.
THEOREM TypeCorrect == Spec => []TypeOK
  <1>1. IInv => TypeOK
    BY DEF IInv
  <1> QED BY <1>1, Invariance, PTL

\* A socket in the dispatcher's hands stays there.
LEMMA CollectedStep ==
  ASSUME IInv, [Next]_vars, NEW s \in Socket, Collected(s)
  PROVE  Collected(s)'
  <1>1. s \in ToSet(peers) \/ s \in ToSet(mtcp)
    BY DEF Collected
  <1>2. peers \in Seq(Socket) /\ mtcp \in Seq(Socket) /\ waiting \in Seq(Socket)
    BY DEF IInv, TypeOK
  <1>3. CASE CollectPeers \/ SetPeers \/ ClearPeers
    BY <1>1, <1>3, ToSetEmpty
    DEF IInv, Loop, CollectPeers, SetPeers, ClearPeers, Collected
  <1>4. CASE CollectWaiting
    BY <1>1, <1>2, <1>4, ToSetConcat DEF CollectWaiting, Collected
  <1>5. CASE ListenTimeout \/ HandleShort \/ HandleLong \/ HandleStranger
    BY <1>1, <1>5
    DEF IInv, Loop, ListenTimeout, HandleShort, HandleLong, HandleStranger, EndIteration,
        Collected
  <1>6. ASSUME UNCHANGED <<peers, mtcp>> PROVE Collected(s)'
    BY <1>1, <1>6 DEF Collected
  <1>7. CASE Acceptor \/ ClearWaiting \/ Listen \/ ReadCommand \/ LockCommand
             \/ VectorRace \/ CommandKills \/ UNCHANGED vars
    BY <1>6, <1>7
    DEF Acceptor, AddPeer, Construct, Publish, Announce, ClearWaiting, Listen, ReadCommand,
        LockCommand, VectorRace, CommandKills, vars, vectors
  <1>8. CASE \E t \in Socket : Accept(t) \/ Client(t)
    BY <1>6, <1>8 DEF Accept, Client, SendCommand, SendPayload, HangUp, vectors
  <1> QED BY <1>3, <1>4, <1>5, <1>7, <1>8 DEF Next, Dispatcher

\* The dispatcher never drops a socket it has collected.
THEOREM CollectedIsKept == Spec => CollectedStays
  <1>1. IInv /\ [Next]_vars =>
          [\A s \in Socket : Collected(s) => Collected(s)']_vars
    BY CollectedStep
  <1> QED BY <1>1, Invariance, PTL DEF Spec, CollectedStays

\* A socket can only get lost in the window.
LEMMA HeldStep ==
  ASSUME IInv, [Next]_vars, NEW s \in Socket, Held(s), ~Held(s)'
  PROVE  \/ pcD = "clearWaiting"
         \/ pcA \in {"publish", "unlock"} /\ newPeer = s
  <1>1. ~Collected(s)
    BY CollectedStep DEF Held
  <1>2. CASE Publish
    <2>1. s \in ToSet(waiting) \/ s = newPeer
      BY <1>1 DEF Held
    <2>2. CASE s = newPeer
      BY <1>2, <2>2 DEF Publish
    <2>3. CASE s \in ToSet(waiting)
      <3>1. waiting = snap
        BY <1>2, <2>3, ToSetEmpty DEF Publish, IInv, Push
      <3>2. newPeer \in Socket /\ snap \in Seq(Socket)
        BY <1>2 DEF Publish, IInv, TypeOK
      <3>3. s \in ToSet(waiting')
        BY <1>2, <2>3, <3>1, <3>2, ToSetAppend DEF Publish
      <3> QED BY <3>3 DEF Held
    <2> QED BY <2>1, <2>2, <2>3
  <1>3. CASE Announce
    BY <1>1, <1>3 DEF Announce, Held, vectors, IInv, TypeOK
  <1>4. CASE \E t \in Socket : Accept(t)
    <2>1. UNCHANGED waiting /\ pcA = "accept"
      BY <1>4 DEF Accept, vectors
    <2>2. s # newPeer
      BY <2>1, IntakeConstants DEF IInv, TypeOK
    <2>3. s \in ToSet(waiting)
      BY <1>1, <2>2 DEF Held
    <2>4. s \in ToSet(waiting)'
      BY <2>1, <2>3
    <2> QED BY <2>4 DEF Held
  <1>5. CASE ClearWaiting
    BY <1>5 DEF ClearWaiting
  <1>6. ASSUME UNCHANGED <<waiting, newPeer>> PROVE FALSE
    BY <1>1, <1>6 DEF Held
  <1>7. CASE AddPeer \/ Construct \/ VectorRace \/ CommandKills \/ UNCHANGED vars
             \/ \E t \in Socket : Client(t)
    BY <1>6, <1>7
    DEF AddPeer, Construct, VectorRace, CommandKills, vars, vectors, acceptor,
        Client, SendCommand, SendPayload, HangUp
  <1>8. CASE \/ CollectPeers \/ CollectWaiting \/ ClearPeers \/ SetPeers
             \/ Listen \/ ListenTimeout \/ ReadCommand \/ LockCommand
             \/ HandleShort \/ HandleLong \/ HandleStranger
    BY <1>6, <1>8
    DEF CollectPeers, CollectWaiting, ClearPeers, SetPeers, Listen, ListenTimeout,
        ReadCommand, LockCommand, HandleShort, HandleLong, HandleStranger, EndIteration,
        vectors, acceptor
  <1> QED BY <1>2, <1>3, <1>4, <1>5, <1>7, <1>8 DEF Next, Acceptor, Dispatcher

\* Whatever the interleaving, a socket the acceptor has handed over is lost
\* only between the copy and the clearing of waitingPeers.
THEOREM LossIsInWindow == Spec => LostOnlyInWindow
  <1>1. IInv /\ [Next]_vars =>
          [\A s \in Socket :
             Held(s) /\ ~Held(s)' =>
               \/ pcD = "clearWaiting"
               \/ pcA \in {"publish", "unlock"} /\ newPeer = s]_vars
    BY HeldStep
  <1> QED BY <1>1, Invariance, PTL DEF Spec, LostOnlyInWindow
-----------------------------------------------------------------------------
(* The mutex and the streams: the program counters say who has the mutex, and *)
(* a client of whom no payload was left unread has sent a payload after every *)
(* long command and nowhere else, the last one perhaps being due.             *)

\* Dispatcher::mutex is held inside addPeer and while a command is handled.
Guarded ==
    /\ mutex = "acceptor" <=> pcA \in {"construct", "publish", "unlock"}
    /\ mutex = "dispatcher" <=> pcD = "handle"

\* The dispatcher has taken a command of s whose payload follows.
Due(s) == pcD \in {"lock", "handle"} /\ cur = s /\ command \in {"long", "refused"}

InFrame(s) ==
    /\ \A i \in 1..Len(inbox[s]) :
          inbox[s][i] = "payload" <=> IF i = 1 THEN Due(s) ELSE inbox[s][i - 1] = "long"
    /\ ~hung[s] =>
          (owes[s] <=> IF inbox[s] = <<>> THEN Due(s) ELSE inbox[s][Len(inbox[s])] = "long")

Framed == \A s \in Socket \ left : InFrame(s)

\* The server starts with the mutex free and nothing sent.
LEMMA InitGuarded == Init => Guarded /\ Framed
  BY DEF Init, Guarded, Framed, InFrame, Due

\* Every step keeps the mutex with whom the program counters say.
LEMMA NextGuarded ==
  ASSUME Guarded, [Next]_vars
  PROVE  Guarded'
  <1>1. CASE Acceptor
    BY <1>1 DEF Guarded, Acceptor, AddPeer, Construct, Publish, Announce, dispatcher
  <1>2. CASE CollectPeers \/ CollectWaiting \/ ClearPeers \/ ClearWaiting \/ SetPeers
             \/ Listen \/ ListenTimeout \/ ReadCommand \/ LockCommand
    BY <1>2 DEF Guarded, CollectPeers, CollectWaiting, ClearPeers, ClearWaiting, SetPeers,
                Listen, ListenTimeout, ReadCommand, LockCommand, acceptor
  <1>3. CASE HandleShort \/ HandleLong \/ HandleStranger
    BY <1>3 DEF Guarded, HandleShort, HandleLong, HandleStranger, EndIteration, acceptor
  <1>4. CASE VectorRace \/ CommandKills \/ UNCHANGED vars
    BY <1>4 DEF Guarded, VectorRace, CommandKills, vars, acceptor, dispatcher
  <1>5. ASSUME NEW s \in Socket, Accept(s) \/ Client(s) PROVE Guarded'
    BY <1>5 DEF Guarded, Accept, Client, SendCommand, SendPayload, HangUp, acceptor, dispatcher
  <1> QED BY <1>1, <1>2, <1>3, <1>4, <1>5 DEF Next, Dispatcher

\* A stream that neither the client nor the dispatcher touches stays in frame.
LEMMA FrameKept ==
  ASSUME NEW s \in Socket, InFrame(s),
         inbox'[s] = inbox[s], owes'[s] = owes[s], hung'[s] = hung[s], Due(s)' <=> Due(s)
  PROVE  InFrame(s)'
  BY DEF InFrame

\* A stream of which nothing waits is empty.
LEMMA NothingWaits ==
  ASSUME NEW S, NEW v \in Seq(S)
  PROVE  v = <<>> <=> Len(v) = 0
  BY EmptySeq

\* A client adds at the end: a command when nothing is owed, else the payload.
LEMMA FrameGrows ==
  ASSUME TypeOK, NEW s \in Socket, InFrame(s), ~hung[s], NEW m \in Message,
         inbox' = [inbox EXCEPT ![s] = Append(@, m)],
         owes' = [owes EXCEPT ![s] = m = "long"],
         hung' = hung, Due(s)' <=> Due(s),
         m = "payload" <=> owes[s]
  PROVE  InFrame(s)'
  <1>1. inbox[s] \in Seq(Message) /\ inbox'[s] = Append(inbox[s], m)
    BY DEF TypeOK
  <1>2. owes'[s] = (m = "long") /\ ~hung'[s]
    BY DEF TypeOK
  <1> DEFINE n == Len(inbox[s])
  <1> HIDE DEF Message
  <1>3. /\ n \in Nat /\ Len(inbox'[s]) = n + 1 /\ inbox'[s][n + 1] = m /\ inbox'[s] # <<>>
        /\ \A i \in 1..n : inbox'[s][i] = inbox[s][i]
        /\ inbox[s] = <<>> <=> n = 0
    BY <1>1, NothingWaits
  <1>4. ASSUME NEW i \in 1..(n + 1)
        PROVE  inbox'[s][i] = "payload" <=> IF i = 1 THEN Due(s)' ELSE inbox'[s][i - 1] = "long"
    <2>1. CASE i \in 1..n
      <3>1. inbox'[s][i] = inbox[s][i] /\ (i # 1 => inbox'[s][i - 1] = inbox[s][i - 1])
        BY <1>3, <2>1
      <3> QED BY <2>1, <3>1 DEF InFrame
    <2>2. CASE i = n + 1
      <3>1. m = "payload" <=> IF inbox[s] = <<>> THEN Due(s) ELSE inbox[s][n] = "long"
        BY DEF InFrame
      <3>2. CASE n = 0
        BY <1>3, <2>2, <3>1, <3>2
      <3>3. CASE n # 0
        <4>1. i # 1 /\ i - 1 = n /\ inbox'[s][i - 1] = inbox[s][n] /\ inbox'[s][i] = m
          BY <1>3, <2>2, <3>3
        <4> QED BY <1>3, <3>1, <3>3, <4>1
      <3> QED BY <3>2, <3>3
    <2> QED BY <1>3, <2>1, <2>2
  <1> HIDE DEF n
  <1>5. ~hung'[s] =>
           (owes'[s] <=> IF inbox'[s] = <<>> THEN Due(s)' ELSE inbox'[s][n + 1] = "long")
    BY <1>2, <1>3
  <1> QED BY <1>3, <1>4, <1>5 DEF InFrame

\* The dispatcher takes the first message: a command, or the payload that is
\* due.
LEMMA FrameTaken ==
  ASSUME TypeOK, NEW s \in Socket, InFrame(s), inbox[s] # <<>>,
         inbox' = [inbox EXCEPT ![s] = Tail(@)],
         owes' = owes, hung' = hung,
         Due(s)' <=> Head(inbox[s]) = "long"
  PROVE  InFrame(s)'
  <1>1. inbox[s] \in Seq(Message) /\ inbox'[s] = Tail(inbox[s])
    BY DEF TypeOK
  <1> DEFINE n == Len(inbox[s])
  <1> HIDE DEF Message
  <1>2. /\ n \in Nat /\ n > 0 /\ Len(inbox'[s]) = n - 1 /\ Head(inbox[s]) = inbox[s][1]
        /\ \A i \in 1..(n - 1) : inbox'[s][i] = inbox[s][i + 1]
        /\ inbox'[s] = <<>> <=> n = 1
    <2>1. Tail(inbox[s]) \in Seq(Message) /\ Len(Tail(inbox[s])) = n - 1 /\ n \in Nat /\ n > 0
      BY <1>1
    <2>2. \A i \in 1..(n - 1) : Tail(inbox[s])[i] = inbox[s][i + 1]
      BY <1>1
    <2>3. Tail(inbox[s]) = <<>> <=> n = 1
      <3>1. Tail(inbox[s]) = <<>> <=> Len(Tail(inbox[s])) = 0
        BY <2>1, NothingWaits
      <3> HIDE DEF n
      <3> QED BY <2>1, <3>1
    <2> HIDE DEF n
    <2>4. Head(inbox[s]) = inbox[s][1]
      BY <1>1
    <2> QED BY <1>1, <2>1, <2>2, <2>3, <2>4
  <1>3. ASSUME NEW i \in 1..(n - 1)
        PROVE  inbox'[s][i] = "payload" <=> IF i = 1 THEN Due(s)' ELSE inbox'[s][i - 1] = "long"
    <2>1. inbox'[s][i] = inbox[s][i + 1] /\ i + 1 \in 1..n /\ i + 1 # 1 /\ (i + 1) - 1 = i
      BY <1>2
    <2>2. inbox'[s][i] = "payload" <=> inbox[s][i] = "long"
      BY <2>1 DEF InFrame
    <2>3. i # 1 => inbox'[s][i - 1] = inbox[s][i]
      <3>1. i # 1 => i - 1 \in 1..(n - 1) /\ (i - 1) + 1 = i
        BY <1>2
      <3> QED BY <1>2, <3>1
    <2> QED BY <1>2, <2>2, <2>3
  <1>4. ~hung[s] => (owes[s] <=> inbox[s][n] = "long")
    BY DEF InFrame
  <1>5. n # 1 => inbox'[s][n - 1] = inbox[s][n]
    <2>1. n # 1 => n - 1 \in 1..(n - 1) /\ (n - 1) + 1 = n
      BY <1>2
    <2> QED BY <1>2, <2>1
  <1> HIDE DEF n
  <1>6. ~hung'[s] =>
           (owes'[s] <=> IF inbox'[s] = <<>> THEN Due(s)' ELSE inbox'[s][n - 1] = "long")
    BY <1>2, <1>4, <1>5
  <1> QED BY <1>2, <1>3, <1>6 DEF InFrame

\* Every step of both threads and of every client keeps the streams in frame.
LEMMA NextFramed ==
  ASSUME TypeOK, Framed, [Next]_vars
  PROVE  Framed'
  <1> SUFFICES ASSUME NEW s \in Socket, s \notin left' PROVE InFrame(s)'
    BY DEF Framed
  <1>1. CASE Acceptor \/ VectorRace \/ CommandKills \/ UNCHANGED vars
             \/ \E t \in Socket : Accept(t)
    <2>1. UNCHANGED <<inbox, owes, hung, left, pcD, cur, command>>
      BY <1>1 DEF Acceptor, AddPeer, Construct, Publish, Announce, VectorRace, CommandKills,
                  Accept, vars, dispatcher, clients
    <2> QED BY <2>1, FrameKept DEF Framed, Due
  <1>2. CASE CollectPeers \/ CollectWaiting \/ ClearPeers \/ ClearWaiting \/ SetPeers
             \/ Listen \/ ListenTimeout \/ LockCommand
    <2>1. UNCHANGED <<inbox, owes, hung, left>>
      BY <1>2 DEF CollectPeers, CollectWaiting, ClearPeers, ClearWaiting, SetPeers,
                  Listen, ListenTimeout, LockCommand, clients
    <2>2. Due(s)' <=> Due(s)
      BY <1>2 DEF CollectPeers, CollectWaiting, ClearPeers, ClearWaiting, SetPeers,
                  Listen, ListenTimeout, LockCommand, Due
    <2> QED BY <2>1, <2>2, FrameKept DEF Framed
  <1>3. CASE ReadCommand
    <2>1. /\ pcD = "read" /\ pcD' = "lock" /\ cur' = cur /\ left' = left
          /\ owes' = owes /\ hung' = hung /\ cur \in Socket /\ ~Due(s) /\ InFrame(s)
      BY <1>3 DEF ReadCommand, TypeOK, Framed, Due
    <2>2. CASE inbox[cur] = <<>> /\ command' = "none" /\ UNCHANGED inbox
      BY <2>1, <2>2, FrameKept DEF Due
    <2>3. CASE /\ inbox[cur] # <<>> /\ command' \in Taken(Head(inbox[cur]))
               /\ inbox' = [inbox EXCEPT ![cur] = Tail(@)]
      <3>1. CASE cur = s
        <4>1. inbox[s] \in Seq(Message) /\ inbox[s] # <<>>
          BY <2>3, <3>1 DEF TypeOK
        <4>2. Len(inbox[s]) >= 1 /\ Head(inbox[s]) = inbox[s][1] /\ inbox[s][1] \in Message
          <5> HIDE DEF Message
          <5> QED BY <4>1
        <4>3. Head(inbox[s]) # "payload"
          BY <2>1, <4>2 DEF InFrame
        <4>4. Head(inbox[s]) \in {"long", "short"}
          BY <4>2, <4>3 DEF Message
        <4>5. Due(s)' <=> Head(inbox[s]) = "long"
          <5>1. Head(inbox[s]) = "long" => command' \in {"long", "refused"}
            BY <2>3, <3>1, <4>2, TakenType
          <5>2. Head(inbox[s]) = "short" => command' = "short"
            BY <2>3, <3>1, <4>2, TakenType
          <5> QED BY <2>1, <3>1, <4>4, <5>1, <5>2 DEF Due
        <4> QED BY <2>1, <2>3, <3>1, <4>1, <4>5, FrameTaken
      <3>2. CASE cur # s
        <4>1. inbox'[s] = inbox[s] /\ ~Due(s)'
          BY <2>1, <2>3, <3>2 DEF TypeOK, Due
        <4> QED BY <2>1, <4>1, FrameKept
      <3> QED BY <3>1, <3>2
    <2> QED BY <1>3, <2>2, <2>3 DEF ReadCommand
  <1>4. CASE HandleShort
    <2>1. UNCHANGED <<inbox, owes, hung, left>> /\ ~Due(s) /\ ~Due(s)'
      BY <1>4 DEF HandleShort, EndIteration, clients, Due
    <2> QED BY <2>1, FrameKept DEF Framed
  <1>5. CASE HandleLong
    <2>1. /\ pcD = "handle" /\ command = "long" /\ Readable(cur) /\ cur \in Socket
          /\ ~Due(s)' /\ owes' = owes /\ hung' = hung /\ left' = left /\ InFrame(s)
      BY <1>5 DEF HandleLong, EndIteration, TypeOK, Framed, Due
    <2>2. inbox' = [inbox EXCEPT ![cur] = IF @ = <<>> THEN <<>> ELSE Tail(@)]
      BY <1>5 DEF HandleLong
    <2>3. CASE cur # s
      <3>1. inbox'[s] = inbox[s] /\ ~Due(s)
        BY <2>1, <2>2, <2>3 DEF TypeOK, Due
      <3> QED BY <2>1, <3>1, FrameKept
    <2>4. CASE cur = s /\ inbox[s] = <<>>
      <3>1. hung'[s] /\ inbox'[s] = <<>>
        BY <2>1, <2>2, <2>4 DEF TypeOK, Readable
      <3> QED BY <3>1 DEF InFrame
    <2>5. CASE cur = s /\ inbox[s] # <<>>
      <3>1. inbox[s] \in Seq(Message) /\ inbox' = [inbox EXCEPT ![s] = Tail(@)]
        BY <2>2, <2>5 DEF TypeOK
      <3>2. Len(inbox[s]) >= 1 /\ Head(inbox[s]) = inbox[s][1]
        <4> HIDE DEF Message
        <4> QED BY <2>5, <3>1
      <3>3. Due(s)
        BY <2>1, <2>5 DEF Due
      <3>4. Head(inbox[s]) = "payload"
        BY <2>1, <3>2, <3>3 DEF InFrame
      <3> QED BY <2>1, <2>5, <3>1, <3>4, FrameTaken
    <2> QED BY <2>3, <2>4, <2>5
  <1>6. CASE HandleStranger
    <2>1. UNCHANGED <<inbox, owes, hung>> /\ cur # s /\ s \notin left /\ ~Due(s) /\ ~Due(s)'
      BY <1>6 DEF HandleStranger, EndIteration, clients, Due
    <2> QED BY <2>1, FrameKept DEF Framed
  <1>7. ASSUME NEW t \in Socket, Client(t) PROVE InFrame(s)'
    <2>1. (Due(s)' <=> Due(s)) /\ left' = left /\ InFrame(s)
      BY <1>7 DEF Client, SendCommand, SendPayload, HangUp, dispatcher, Due, Framed
    <2>2. CASE t # s
      <3>1. inbox'[s] = inbox[s] /\ owes'[s] = owes[s] /\ hung'[s] = hung[s]
        BY <1>7, <2>2 DEF Client, SendCommand, SendPayload, HangUp, TypeOK
      <3> QED BY <2>1, <3>1, FrameKept
    <2>3. ASSUME NEW kind \in {"short", "long"}, t = s, SendCommand(t, kind)
          PROVE  InFrame(s)'
      <3>1. /\ ~hung[s] /\ ~owes[s] /\ hung' = hung /\ kind \in Message
            /\ inbox' = [inbox EXCEPT ![s] = Append(@, kind)]
            /\ owes' = [owes EXCEPT ![s] = kind = "long"]
        BY <2>3 DEF SendCommand, Connected, Message
      <3> QED BY <2>1, <2>3, <3>1, FrameGrows
    <2>4. ASSUME t = s, SendPayload(t) PROVE InFrame(s)'
      <3>1. /\ ~hung[s] /\ owes[s] /\ hung' = hung /\ "payload" \in Message
            /\ inbox' = [inbox EXCEPT ![s] = Append(@, "payload")]
            /\ owes' = [owes EXCEPT ![s] = FALSE]
        BY <2>4 DEF SendPayload, Connected, Message
      <3>2. owes' = [owes EXCEPT ![s] = "payload" = "long"]
        BY <3>1
      <3> QED BY <2>1, <3>1, <3>2, FrameGrows
    <2>5. ASSUME t = s, HangUp(t) PROVE InFrame(s)'
      <3>1. hung'[s] /\ inbox' = inbox
        BY <2>5 DEF HangUp, TypeOK
      <3> QED BY <2>1, <3>1 DEF InFrame
    <2> QED BY <1>7, <2>2, <2>3, <2>4, <2>5 DEF Client
  <1> QED BY <1>1, <1>2, <1>3, <1>4, <1>5, <1>6, <1>7 DEF Next, Dispatcher

\* The streams of the clients stay in frame, and the mutex with its holder.
THEOREM StreamsInFrame == Spec => [](Guarded /\ Framed)
  <1>1. IInv /\ Guarded /\ Framed /\ [Next]_vars => (Guarded /\ Framed)'
    BY NextGuarded, NextFramed DEF IInv
  <1> QED BY <1>1, InitGuarded, Invariance, PTL DEF Spec

\* What the frame of the current client's stream says of what is read next.
LEMMA FrameRead ==
  ASSUME TypeOK, Framed
  PROVE  PayloadsInStep
  <1>1. ASSUME Starved, cur \notin left PROVE FALSE
    <2>1. cur \in Socket /\ Due(cur) /\ inbox[cur] = <<>> /\ ~hung[cur] /\ ~owes[cur]
      BY <1>1 DEF Starved, Readable, TypeOK, Due
    <2> QED BY <1>1, <2>1 DEF Framed, InFrame
  <1>2. ASSUME pcD = "read", inbox[cur] # <<>>, Head(inbox[cur]) = "payload", cur \notin left
        PROVE  FALSE
    <2>1. cur \in Socket /\ ~Due(cur)
      BY <1>2 DEF TypeOK, Due
    <2>2. inbox[cur] \in Seq(Message)
      BY <2>1 DEF TypeOK
    <2>3. Len(inbox[cur]) >= 1 /\ Head(inbox[cur]) = inbox[cur][1]
      <3> HIDE DEF Message
      <3> QED BY <1>2, <2>2
    <2> QED BY <1>2, <2>1, <2>3 DEF Framed, InFrame
  <1> QED BY <1>1, <1>2 DEF PayloadsInStep

\* The dispatcher never takes a payload for a command, nor waits for one that
\* nobody owes, unless it left a payload of the same client unread
\* (Dispatcher::run, OPEN_MATCH_WITH_USER).
THEOREM StreamsStayInStep == Spec => []PayloadsInStep
  <1>1. IInv /\ Guarded /\ Framed => PayloadsInStep
    BY FrameRead DEF IInv
  <1> QED BY <1>1, Invariance, StreamsInFrame, PTL

\* Who waits for whom: the acceptor for the mutex only while a command is being
\* handled, the dispatcher for it only while the acceptor is inside addPeer,
\* where nothing blocks, and inside a command only for a payload.
WaitsEnd ==
    /\ pcA = "lock" /\ mutex # "free" => pcD = "handle"
    /\ pcD = "lock" /\ mutex # "free" => pcA \in {"construct", "publish", "unlock"}
    /\ pcD = "handle" /\ command = "long" /\ ~Readable(cur) =>
          (owes[cur] /\ ~hung[cur]) \/ cur \in left

\* The two threads never wait for each other: Dispatcher::mutex is the only
\* lock, and whoever has it waits for nothing but a payload that the client
\* still owes, unless a payload of that client was left unread.
THEOREM NobodyWaitsForEver == Spec => []WaitsEnd
  <1>1. IInv /\ Guarded /\ Framed => WaitsEnd
    <2> SUFFICES ASSUME IInv, Guarded, Framed PROVE WaitsEnd
      OBVIOUS
    <2>1. mutex \in {"free", "acceptor", "dispatcher"} /\ PayloadsInStep
      BY FrameRead DEF IInv, TypeOK
    <2>2. pcA = "lock" /\ mutex # "free" => pcD = "handle"
      BY <2>1 DEF Guarded
    <2>3. pcD = "lock" /\ mutex # "free" => pcA \in {"construct", "publish", "unlock"}
      BY <2>1 DEF Guarded
    <2>4. pcD = "handle" /\ command = "long" /\ ~Readable(cur) =>
            (owes[cur] /\ ~hung[cur]) \/ cur \in left
      BY <2>1 DEF PayloadsInStep, Starved, Readable
    <2> QED BY <2>2, <2>3, <2>4 DEF WaitsEnd
  <1> QED BY <1>1, Invariance, StreamsInFrame, PTL
=============================================================================

------------------------- MODULE P2PMessengerProofs -------------------------
(***************************************************************************)
(* What is proved of P2PMessenger for any number of peers, messages,       *)
(* clients and replies.                                                    *)
(***************************************************************************)
EXTENDS P2PMessenger, SequenceTheorems, TLAPS

-----------------------------------------------------------------------------
(* The inductive invariant.  Peers are numbered as they connect, and taken  *)
(* in that order, so that the backlog and what was heard are determined by  *)
(* their lengths and by where the server's thread is.                       *)

Accepted == Len(said) - Len(backlog)

Queue ==
    /\ Len(backlog) <= Len(said)
    /\ \A i \in DOMAIN backlog : backlog[i] = Accepted + i

InTurn ==
    /\ \A i \in DOMAIN heard : heard[i] = i
    /\ server \in {"none", "loop", "accept"} => Accepted = Len(heard)
    /\ server \in {"accepted", "recv"} => Accepted = Len(heard) + 1
    /\ server = "recv" => on = Accepted
    /\ server = "end" => Len(heard) <= Accepted

SessionKept ==
    /\ session \in {NULL, Accepted}
    /\ session = NULL /\ Accepted > 0 => early
    /\ p2pserver \in {"null", "constructing"} /\ ~early => Accepted = 0

Lifetime ==
    /\ p2pserver = "null" <=> server = "none"
    /\ server = "none" => ~listening
    /\ p2pserver = "live" => ~flag
    /\ p2pserver = "constructing" /\ flag => ~listening
    /\ p2pserver = "deleted" => server = "end"
    /\ silenced <=> server = "end"
    /\ server = "end" /\ p2pserver # "deleted" => ~listening
    /\ ~listening => said = <<>>

ServerInv == Queue /\ InTurn /\ SessionKept /\ Lifetime

ServerTypes ==
    /\ p2pserver \in {"null", "constructing", "live", "deleted"}
    /\ flag \in BOOLEAN /\ listening \in BOOLEAN
    /\ server \in {"none", "loop", "accept", "accepted", "recv", "end"}
    /\ said \in Seq(0..MaxMessages) /\ Len(said) <= MaxPeers
    /\ session \in {NULL} \cup DOMAIN said
    /\ on \in {NULL} \cup DOMAIN said
    /\ backlog \in Seq(DOMAIN said) /\ left \subseteq DOMAIN said
    /\ heard \in Seq(DOMAIN said) /\ replies \in Seq(DOMAIN said)
    /\ early \in BOOLEAN /\ silenced \in BOOLEAN

ClientTypes ==
    /\ client \in Seq({"recv", "handled", "ended"}) /\ Len(client) <= MaxClients
    /\ p2pclient \in {NULL} \cup Clients /\ deleted \subseteq Clients
    /\ linked \subseteq Clients /\ mail \subseteq Clients
    /\ crashed \in BOOLEAN

Server == ServerTypes /\ ServerInv

IInv == Server /\ ClientTypes /\ CrashedOnlyBy

\* The two halves of the types are all of them.
LEMMA TypeParts == TypeOK <=> ServerTypes /\ ClientTypes
  BY DEF TypeOK, ServerTypes, ClientTypes

\* What the server's invariant speaks of is a number, and the sequences of
\* peers have members below it.
LEMMA Counts ==
  ASSUME Server
  PROVE  /\ Len(said) \in Nat /\ Len(backlog) \in Nat /\ Len(heard) \in Nat
         /\ Accepted \in Nat /\ Accepted <= Len(said)
         /\ DOMAIN said = 1..Len(said) /\ DOMAIN heard = 1..Len(heard)
         /\ DOMAIN backlog = 1..Len(backlog)
  BY DEF Server, ServerTypes, ServerInv, Queue, Accepted

\* The program begins in the invariant.
LEMMA InitIInv == Init => IInv
  <1> SUFFICES ASSUME Init PROVE IInv
    OBVIOUS
  <1>0. \A S : <<>> \in Seq(S) /\ Len(<<>>) = 0
    OBVIOUS
  <1>1. ServerTypes
    <2>1. said \in Seq(0..MaxMessages) /\ Len(said) <= MaxPeers
      BY <1>0, P2PConstants DEF Init
    <2>2. /\ backlog \in Seq(DOMAIN said) /\ heard \in Seq(DOMAIN said)
          /\ replies \in Seq(DOMAIN said)
      BY <1>0 DEF Init
    <2> QED BY <2>1, <2>2 DEF Init, ServerTypes
  <1>2. ServerInv
    BY DEF Init, ServerInv, Queue, InTurn, SessionKept, Lifetime, Accepted, NULL
  <1>3. ClientTypes
    <2>1. client \in Seq({"recv", "handled", "ended"}) /\ Len(client) <= MaxClients
      BY <1>0, P2PConstants DEF Init
    <2> QED BY <2>1 DEF Init, ClientTypes
  <1>4. CrashedOnlyBy
    BY DEF Init, CrashedOnlyBy
  <1> QED BY <1>1, <1>2, <1>3, <1>4 DEF IInv, Server

-----------------------------------------------------------------------------
(* The server part *)

\* Whoever leaves the server part, the peers and the history alone keeps what
\* holds of them.
LEMMA ServerFrame ==
  ASSUME Server, UNCHANGED <<serverPart, peers, history>>
  PROVE  Server'
  <1>1. UNCHANGED <<p2pserver, flag, session, server, on, listening, backlog, said, left,
                    heard, replies, early, silenced>>
    BY DEF serverPart, peers, history
  <1>2. ServerTypes'
    BY <1>1 DEF Server, ServerTypes
  <1>3. ServerInv'
    BY <1>1 DEF Server, ServerInv, Queue, InTurn, SessionKept, Lifetime, Accepted
  <1> QED BY <1>2, <1>3 DEF Server

\* The thread begins, and nobody is there yet.
LEMMA InitServerKeeps ==
  ASSUME Server, InitServer
  PROVE  Server'
  <1>1. /\ p2pserver = "null" /\ p2pserver' = "constructing"
        /\ flag' \in BOOLEAN /\ server' = "loop"
        /\ UNCHANGED <<session, on, listening, backlog, said, left, heard, replies, early, silenced>>
    BY DEF InitServer, peers, history
  <1>2. ServerTypes'
    BY <1>1 DEF Server, ServerTypes
  <1>3. server = "none" /\ ~listening /\ said = <<>> /\ ~silenced
    BY <1>1 DEF Server, ServerInv, Lifetime
  <1>4. Accepted = 0 /\ Accepted' = 0
    BY <1>1, <1>3, Counts DEF Accepted
  <1>5. Queue' /\ InTurn'
    BY <1>1, <1>3, <1>4 DEF Server, ServerInv, Queue, InTurn
  <1>6. SessionKept' /\ Lifetime'
    BY <1>1, <1>3, <1>4 DEF Server, ServerInv, SessionKept, Lifetime
  <1> QED BY <1>2, <1>5, <1>6 DEF Server, ServerInv

\* The constructor forgets a session only of a peer who was early.
LEMMA EndInitKeeps ==
  ASSUME Server, EndInit
  PROVE  Server'
  <1>1. /\ p2pserver = "constructing" /\ p2pserver' = "live"
        /\ session' = NULL /\ flag' = FALSE
        /\ UNCHANGED <<server, on, listening, backlog, said, left, heard, replies, early, silenced>>
    BY DEF EndInit, peers, history
  <1>2. ServerTypes'
    BY <1>1 DEF Server, ServerTypes
  <1>3. Accepted' = Accepted
    BY <1>1 DEF Accepted
  <1>4. Queue' /\ InTurn'
    BY <1>1, <1>3 DEF Server, ServerInv, Queue, InTurn
  <1>5. SessionKept'
    BY <1>1, <1>3, Counts DEF Server, ServerInv, SessionKept
  <1>6. Lifetime'
    BY <1>1 DEF Server, ServerInv, Lifetime
  <1> QED BY <1>2, <1>4, <1>5, <1>6 DEF Server, ServerInv

\* The thread ends on a flag that is set, before it has ever listened.
LEMMA LoopKeeps ==
  ASSUME Server, Loop
  PROVE  Server'
  <1>1. /\ server = "loop"
        /\ server' = IF flag THEN "end" ELSE "accept"
        /\ silenced' = (silenced \/ flag)
        /\ listening' = (listening \/ ~flag)
        /\ UNCHANGED <<p2pserver, flag, session, on, backlog, said, left, heard, replies, early>>
    BY DEF Loop, ServerAt, peers
  <1>2. ServerTypes'
    BY <1>1 DEF Server, ServerTypes
  <1>3. Accepted' = Accepted
    BY <1>1 DEF Accepted
  <1>4. Queue' /\ InTurn'
    BY <1>1, <1>3, Counts DEF Server, ServerInv, Queue, InTurn
  <1>5. SessionKept'
    BY <1>1, <1>3 DEF Server, ServerInv, SessionKept
  <1>6. Lifetime'
    <2>1. p2pserver # "null" /\ p2pserver # "deleted" /\ ~silenced
      BY <1>1 DEF Server, ServerInv, Lifetime
    <2>2. flag => p2pserver = "constructing" /\ ~listening
      BY <2>1 DEF Server, ServerInv, ServerTypes, Lifetime
    <2> QED BY <1>1, <2>1, <2>2 DEF Server, ServerInv, ServerTypes, Lifetime
  <1> QED BY <1>2, <1>4, <1>5, <1>6 DEF Server, ServerInv

\* The peer accepted is the next one.
LEMMA AcceptKeeps ==
  ASSUME Server, Accept
  PROVE  Server'
  <1>1. /\ server = "accept" /\ backlog # <<>>
        /\ session' = Head(backlog) /\ backlog' = Tail(backlog)
        /\ server' = "accepted"
        /\ early' = (early \/ p2pserver = "constructing")
        /\ UNCHANGED <<p2pserver, flag, on, listening, said, left, heard, replies, silenced>>
    BY DEF Accept, ServerAt, peers
  <1>2. /\ backlog \in Seq(DOMAIN said) /\ backlog # <<>>
    BY <1>1 DEF Server, ServerTypes
  <1>3. /\ Head(backlog) \in DOMAIN said /\ Head(backlog) = backlog[1] /\ 1 \in DOMAIN backlog
        /\ Tail(backlog) \in Seq(DOMAIN said) /\ Len(Tail(backlog)) = Len(backlog) - 1
        /\ \A i \in DOMAIN Tail(backlog) :
               i + 1 \in DOMAIN backlog /\ Tail(backlog)[i] = backlog[i + 1] /\ i \in Nat
    BY <1>2
  <1>4. Accepted' = Accepted + 1 /\ session' = Accepted + 1
    <2>1. backlog[1] = Accepted + 1
      BY <1>3 DEF Server, ServerInv, Queue
    <2>2. Len(backlog') = Len(backlog) - 1 /\ said' = said
      BY <1>1, <1>3
    <2>3. Accepted' = Accepted + 1
      BY <2>2, Counts DEF Accepted
    <2> QED BY <1>1, <1>3, <2>1, <2>3
  <1>5. ServerTypes'
    BY <1>1, <1>3 DEF Server, ServerTypes
  <1>6. Queue'
    <2>1. \A i \in DOMAIN backlog' : backlog'[i] = Accepted + (i + 1) /\ i \in Nat
      BY <1>1, <1>3 DEF Server, ServerInv, Queue
    <2>2. Len(backlog') <= Len(said')
      BY <1>1, <1>3, Counts DEF Server, ServerInv, Queue
    <2> QED BY <1>4, <2>1, <2>2, Counts DEF Queue
  <1>7. InTurn'
    BY <1>1, <1>4 DEF Server, ServerInv, InTurn
  <1>8. SessionKept'
    <2>1. p2pserver # "null"
      BY <1>1 DEF Server, ServerInv, Lifetime
    <2>2. early' \/ p2pserver' \notin {"null", "constructing"}
      BY <1>1, <2>1
    <2>3. session' = Accepted' /\ session' # NULL
      BY <1>4, Counts DEF NULL
    <2> QED BY <2>2, <2>3 DEF SessionKept
  <1>9. Lifetime'
    BY <1>1 DEF Server, ServerInv, Lifetime
  <1> QED BY <1>5, <1>6, <1>7, <1>8, <1>9 DEF Server, ServerInv

\* The thread is in recv with the peer accepted last.
LEMMA ReceiveKeeps ==
  ASSUME Server, Receive
  PROVE  Server'
  <1>1. CASE session = NULL
    BY <1>1, ServerFrame DEF Receive, Crash
  <1>2. CASE session # NULL
    <2>1. /\ server = "accepted" /\ server' = "recv" /\ on' = session
          /\ UNCHANGED <<p2pserver, flag, session, listening, backlog, said, left, heard,
                         replies, early, silenced>>
      BY <1>2 DEF Receive, ServerAt, peers, history
    <2>2. ServerTypes'
      BY <2>1 DEF Server, ServerTypes
    <2>3. Accepted' = Accepted /\ session = Accepted
      BY <1>2, <2>1 DEF Accepted, Server, ServerInv, SessionKept
    <2>4. Queue' /\ InTurn'
      BY <2>1, <2>3 DEF Server, ServerInv, Queue, InTurn
    <2>5. SessionKept' /\ Lifetime'
      BY <2>1, <2>3 DEF Server, ServerInv, SessionKept, Lifetime
    <2> QED BY <2>2, <2>4, <2>5 DEF Server, ServerInv
  <1> QED BY <1>1, <1>2

\* The peer handled is the next one after those heard.
LEMMA HandleKeeps ==
  ASSUME Server, Handle
  PROVE  Server'
  <1>1. /\ server = "recv" /\ server' = "loop" /\ on' = NULL
        /\ said' = [said EXCEPT ![on] = IF @ > 0 THEN @ - 1 ELSE @]
        /\ heard' = Append(heard, on)
        /\ UNCHANGED <<p2pserver, flag, session, listening, backlog, left, replies, early, silenced>>
    BY DEF Handle, ServerAt
  <1>2. on = Accepted /\ on = Len(heard) + 1 /\ on \in 1..Len(said)
    BY <1>1, Counts DEF Server, ServerInv, InTurn
  <1>3. said[on] \in 0..MaxMessages /\ said \in Seq(0..MaxMessages) /\ heard \in Seq(DOMAIN said)
    BY <1>2, ElementOfSeq DEF Server, ServerTypes
  <1>4. (IF said[on] > 0 THEN said[on] - 1 ELSE said[on]) \in 0..MaxMessages
    BY <1>3, P2PConstants
  <1>5. said' \in Seq(0..MaxMessages) /\ Len(said') = Len(said) /\ DOMAIN said' = DOMAIN said
    BY <1>1, <1>2, <1>3, <1>4, ExceptSeq
  <1>6. /\ heard' \in Seq(DOMAIN said) /\ Len(heard') = Len(heard) + 1
        /\ DOMAIN heard' = 1..(Len(heard) + 1) /\ heard'[Len(heard) + 1] = on
        /\ \A i \in 1..Len(heard) : heard'[i] = heard[i]
    BY <1>1, <1>2, <1>3, Counts
  <1>7. ServerTypes'
    BY <1>1, <1>5, <1>6 DEF Server, ServerTypes
  <1>8. Accepted' = Accepted
    BY <1>1, <1>5 DEF Accepted
  <1>9. Queue'
    BY <1>1, <1>5, <1>8 DEF Server, ServerInv, Queue
  <1>10. InTurn'
    <2>1. ASSUME NEW i \in 1..(Len(heard) + 1) PROVE heard'[i] = i
      <3>1. CASE i \in 1..Len(heard)
        BY <1>6, <3>1, Counts DEF Server, ServerInv, InTurn
      <3>2. CASE i = Len(heard) + 1
        BY <1>2, <1>6, <3>2
      <3> QED BY <3>1, <3>2, Counts
    <2>2. Accepted' = Len(heard') /\ server' = "loop"
      BY <1>1, <1>2, <1>6, <1>8
    <2> QED BY <1>6, <2>1, <2>2 DEF InTurn
  <1>11. SessionKept'
    BY <1>1, <1>8 DEF Server, ServerInv, SessionKept
  <1>12. Lifetime'
    <2>1. listening
      BY <1>2, Counts DEF Server, ServerInv, Lifetime
    <2> QED BY <1>1, <2>1 DEF Server, ServerInv, Lifetime
  <1> QED BY <1>7, <1>9, <1>10, <1>11, <1>12 DEF Server, ServerInv

\* A closed server has heard no more than it accepted.
LEMMA CloseKeeps ==
  ASSUME Server, Close
  PROVE  Server'
  <1>1. /\ p2pserver' = IF p2pserver = "live" THEN "deleted" ELSE p2pserver
        /\ flag' = (flag \/ p2pserver = "live")
        /\ server' = IF p2pserver = "live" THEN "end" ELSE server
        /\ silenced' = (silenced \/ p2pserver = "live")
        /\ UNCHANGED <<session, on, listening, backlog, said, left, heard, replies, early>>
    BY DEF Close, CloseParts, peers
  <1>2. CASE p2pserver = "live"
    <2>1. /\ p2pserver' = "deleted" /\ flag' = TRUE /\ server' = "end" /\ silenced' = TRUE
      BY <1>1, <1>2
    <2>2. ServerTypes'
      BY <1>1, <2>1 DEF Server, ServerTypes
    <2>3. Accepted' = Accepted
      BY <1>1 DEF Accepted
    <2>4. Queue' /\ SessionKept'
      BY <1>1, <1>2, <2>1, <2>3 DEF Server, ServerInv, Queue, SessionKept
    <2>5. InTurn'
      <3>1. Len(heard) <= Accepted
        BY Counts DEF Server, ServerTypes, ServerInv, InTurn
      <3> QED BY <1>1, <2>1, <2>3, <3>1 DEF Server, ServerInv, InTurn
    <2>6. Lifetime'
      BY <1>1, <1>2, <2>1 DEF Server, ServerInv, Lifetime
    <2> QED BY <2>2, <2>4, <2>5, <2>6 DEF Server, ServerInv
  <1>3. CASE p2pserver # "live"
    <2>1. UNCHANGED <<p2pserver, flag, server, silenced>>
      BY <1>1, <1>3 DEF Server, ServerTypes
    <2> QED BY <1>1, <2>1, ServerFrame DEF serverPart, peers, history
  <1> QED BY <1>2, <1>3

\* A reply is to a peer who was accepted.
LEMMA ReplyKeeps ==
  ASSUME Server, Reply
  PROVE  Server'
  <1>1. /\ UNCHANGED <<p2pserver, flag, session, server, on, listening, backlog, said, left,
                       heard, early, silenced>>
        /\ replies' = replies \/ (session # NULL /\ replies' = Append(replies, session))
    BY DEF Reply, serverPart, peers
  <1>2. replies' \in Seq(DOMAIN said)
    <2>1. replies \in Seq(DOMAIN said) /\ session \in {NULL} \cup DOMAIN said
      BY DEF Server, ServerTypes
    <2>2. CASE session # NULL /\ replies' = Append(replies, session)
      <3>1. session \in DOMAIN said
        BY <2>1, <2>2
      <3> QED BY <2>1, <2>2, <3>1, AppendProperties
    <2> QED BY <1>1, <2>1, <2>2
  <1>3. ServerTypes'
    BY <1>1, <1>2 DEF Server, ServerTypes
  <1>4. ServerInv'
    BY <1>1 DEF Server, ServerInv, Queue, InTurn, SessionKept, Lifetime, Accepted
  <1> QED BY <1>3, <1>4 DEF Server

\* Who connects is behind all others.
LEMMA PeerConnectsKeeps ==
  ASSUME Server, PeerConnects
  PROVE  Server'
  <1> DEFINE n == Len(said)
  <1>1. /\ listening /\ Len(said) < MaxPeers
        /\ said' = Append(said, 0)
        /\ backlog' = Append(backlog, Len(said'))
        /\ UNCHANGED <<p2pserver, flag, session, server, on, listening, left, heard, replies,
                       early, silenced>>
    BY DEF PeerConnects, history
  <1>2. /\ said \in Seq(0..MaxMessages) /\ backlog \in Seq(1..n) /\ n \in Nat
        /\ heard \in Seq(1..n) /\ replies \in Seq(1..n)
        /\ Len(backlog) \in Nat /\ Len(backlog) <= n
        /\ session \in {NULL} \cup 1..n /\ on \in {NULL} \cup 1..n /\ left \subseteq 1..n
    BY Counts DEF Server, ServerTypes, ServerInv, Queue
  <1>3. /\ said' \in Seq(0..MaxMessages) /\ Len(said') = n + 1 /\ DOMAIN said' = 1..(n + 1)
    <2>1. 0 \in 0..MaxMessages
      BY P2PConstants
    <2> QED BY <1>1, <1>2, <2>1
  <1>4. 1..n \subseteq 1..(n + 1) /\ n + 1 \in 1..(n + 1)
    BY <1>2
  <1>5. /\ heard \in Seq(1..(n + 1)) /\ replies \in Seq(1..(n + 1)) /\ backlog \in Seq(1..(n + 1))
    BY <1>2, <1>4
  <1>6. /\ backlog' \in Seq(1..(n + 1)) /\ Len(backlog') = Len(backlog) + 1
        /\ DOMAIN backlog' = 1..(Len(backlog) + 1) /\ DOMAIN backlog = 1..Len(backlog)
        /\ backlog'[Len(backlog) + 1] = n + 1
        /\ \A i \in 1..Len(backlog) : backlog'[i] = backlog[i]
    BY <1>1, <1>3, <1>4, <1>5
  <1>7. ServerTypes'
    <2>1. Len(said') <= MaxPeers
      BY <1>1, <1>2, <1>3, P2PConstants
    <2> QED BY <1>1, <1>2, <1>3, <1>4, <1>5, <1>6, <2>1 DEF Server, ServerTypes
  <1>8. Accepted' = Accepted /\ Accepted = n - Len(backlog)
    BY <1>2, <1>3, <1>6 DEF Accepted
  <1>9. Queue'
    <2>1. ASSUME NEW i \in 1..(Len(backlog) + 1) PROVE backlog'[i] = Accepted + i
      <3>1. CASE i \in 1..Len(backlog)
        BY <1>6, <3>1 DEF Server, ServerInv, Queue
      <3>2. CASE i = Len(backlog) + 1
        BY <1>2, <1>6, <1>8, <3>2
      <3> QED BY <1>2, <3>1, <3>2
    <2>2. Len(backlog') <= Len(said')
      BY <1>2, <1>3, <1>6
    <2> QED BY <1>6, <1>8, <2>1, <2>2 DEF Queue
  <1>10. InTurn' /\ SessionKept'
    BY <1>1, <1>8 DEF Server, ServerInv, InTurn, SessionKept
  <1>11. Lifetime'
    BY <1>1 DEF Server, ServerInv, Lifetime
  <1> QED BY <1>7, <1>9, <1>10, <1>11 DEF Server, ServerInv

\* What a peer says, or that it leaves, changes nobody's turn.
LEMMA PeerKeeps ==
  ASSUME Server, NEW p, PeerSpeaks(p) \/ PeerLeaves(p)
  PROVE  Server'
  <1>1. /\ UNCHANGED <<p2pserver, flag, session, server, on, listening, backlog, heard, replies,
                       early, silenced>>
        /\ p \in DOMAIN said
    BY DEF PeerSpeaks, PeerLeaves, serverPart, history
  <1>2. /\ said' \in Seq(0..MaxMessages) /\ Len(said') = Len(said) /\ DOMAIN said' = DOMAIN said
        /\ left' \subseteq DOMAIN said /\ (said' = <<>> <=> said = <<>>)
    <2>1. CASE PeerSpeaks(p)
      <3>1. /\ p \in 1..Len(said) /\ said[p] < MaxMessages /\ left' = left
            /\ said' = [said EXCEPT ![p] = @ + 1] /\ said \in Seq(0..MaxMessages)
        BY <1>1, <2>1, Counts DEF PeerSpeaks, Server, ServerTypes
      <3>2. said[p] \in 0..MaxMessages
        BY <3>1, ElementOfSeq
      <3>3. said[p] + 1 \in 0..MaxMessages
        BY <3>1, <3>2, P2PConstants
      <3>4. said' \in Seq(0..MaxMessages) /\ Len(said') = Len(said) /\ DOMAIN said' = DOMAIN said
        BY <3>1, <3>3, ExceptSeq
      <3> QED BY <3>1, <3>4 DEF Server, ServerTypes
    <2>2. CASE PeerLeaves(p)
      BY <1>1, <2>2 DEF PeerLeaves, Server, ServerTypes
    <2> QED BY <2>1, <2>2
  <1>3. ServerTypes'
    BY <1>1, <1>2 DEF Server, ServerTypes
  <1>4. ServerInv'
    BY <1>1, <1>2 DEF Server, ServerInv, Queue, InTurn, SessionKept, Lifetime, Accepted
  <1> QED BY <1>3, <1>4 DEF Server

-----------------------------------------------------------------------------
(* The client part *)

Marks == {"recv", "handled", "ended"}

\* A client whose thread is marked anew is among the clients still.
LEMMA Marking ==
  ASSUME ClientTypes, NEW k \in Clients, NEW mark \in Marks,
         client' = [client EXCEPT ![k] = mark]
  PROVE  client' \in Seq(Marks) /\ Len(client') = Len(client) /\ Clients' = Clients
  <1>1. client \in Seq(Marks) /\ k \in 1..Len(client)
    BY DEF ClientTypes, Marks, Clients
  <1>2. client' \in Seq(Marks) /\ Len(client') = Len(client)
    BY <1>1, ExceptSeq
  <1> QED BY <1>2 DEF Clients

\* The client in use is cancelled with its object, the others go on.
LEMMA Cancelling ==
  ASSUME ClientTypes
  PROVE  Cancelled \in Seq(Marks) /\ Len(Cancelled) = Len(client) /\ Len(client) \in Nat
  <1>1. client \in Seq(Marks) /\ p2pclient \in {NULL} \cup 1..Len(client)
    BY DEF ClientTypes, Marks, Clients
  <1>2. CASE p2pclient = NULL
    BY <1>1, <1>2 DEF Cancelled
  <1>3. CASE p2pclient # NULL
    <2> DEFINE mark == IF client[p2pclient] = "recv" THEN "ended" ELSE client[p2pclient]
    <2>1. p2pclient \in 1..Len(client)
      BY <1>1, <1>3
    <2>2. client[p2pclient] \in Marks
      BY <1>1, <2>1, ElementOfSeq
    <2>3. mark \in Marks
      BY <2>2 DEF Marks
    <2>4. Cancelled = [client EXCEPT ![p2pclient] = mark]
      BY <1>3 DEF Cancelled
    <2> HIDE DEF mark
    <2> QED BY <1>1, <2>1, <2>3, <2>4, ExceptSeq
  <1> QED BY <1>2, <1>3

\* A client opened is the next one.
LEMMA OpenKeeps ==
  ASSUME ClientTypes, CrashedOnlyBy, Open
  PROVE  ClientTypes' /\ CrashedOnlyBy'
  <1> DEFINE n == Len(client)
  <1>1. /\ n < MaxClients
        /\ p2pclient' = n + 1
        /\ client' = Append(Cancelled, "recv")
        /\ deleted' = deleted \cup ({p2pclient} \ {NULL})
        /\ linked' \in {linked \ {p2pclient}, (linked \ {p2pclient}) \cup {p2pclient'}}
        /\ mail' = mail \ {p2pclient}
        /\ crashed' \in {FALSE, InRecv(p2pclient)}
    BY DEF Open, MayCrash
  <1>2. /\ client' \in Seq(Marks) /\ Len(client') = n + 1 /\ n \in Nat
    <2>1. "recv" \in Marks
      BY DEF Marks
    <2> QED BY <1>1, <2>1, Cancelling, AppendProperties
  <1>3. Clients' = 1..(n + 1) /\ Clients = 1..n /\ 1..n \subseteq 1..(n + 1) /\ n + 1 \in 1..(n + 1)
    BY <1>2 DEF Clients
  <1>4. /\ p2pclient \in {NULL} \cup 1..n /\ deleted \subseteq 1..n /\ linked \subseteq 1..n
        /\ mail \subseteq 1..n
    BY <1>3 DEF ClientTypes
  <1>5. ClientTypes'
    <2>1. Len(client') <= MaxClients
      BY <1>1, <1>2, P2PConstants
    <2>2. /\ deleted' \subseteq Clients' /\ linked' \subseteq Clients' /\ mail' \subseteq Clients'
          /\ p2pclient' \in Clients'
      BY <1>1, <1>3, <1>4
    <2>3. crashed' \in BOOLEAN
      BY <1>1 DEF InRecv
    <2> QED BY <1>2, <2>1, <2>2, <2>3 DEF ClientTypes, Marks
  <1>6. CrashedOnlyBy'
    <2>1. crashed' => p2pclient \in Clients
      BY <1>1 DEF InRecv
    <2>2. crashed' => p2pclient \in deleted'
      BY <1>1, <1>3, <1>4, <2>1 DEF NULL
    <2> QED BY <2>2 DEF CrashedOnlyBy
  <1> QED BY <1>5, <1>6

\* close deletes what there is to follow.
LEMMA CloseClientKeeps ==
  ASSUME ClientTypes, CrashedOnlyBy, Close
  PROVE  ClientTypes' /\ CrashedOnlyBy'
  <1>1. /\ client' = Cancelled
        /\ IF p2pclient = NULL THEN UNCHANGED <<deleted, linked, mail>> ELSE DeleteClient
        /\ crashed' \in {FALSE, p2pserver = "live" \/ InRecv(p2pclient)}
        /\ p2pclient' = p2pclient
        /\ p2pserver' = IF p2pserver = "live" THEN "deleted" ELSE p2pserver
    BY DEF Close, CloseParts, MayCrash
  <1>2. client' \in Seq(Marks) /\ Len(client') = Len(client) /\ Clients' = Clients
    BY <1>1, Cancelling DEF Clients
  <1>3. /\ deleted' \subseteq Clients /\ linked' \subseteq Clients /\ mail' \subseteq Clients
        /\ p2pclient # NULL => p2pclient \in deleted'
    BY <1>1 DEF ClientTypes, DeleteClient
  <1>4. ClientTypes'
    BY <1>1, <1>2, <1>3 DEF ClientTypes, Marks, InRecv
  <1>5. CrashedOnlyBy'
    <2>1. crashed' => p2pserver = "live" \/ p2pclient \in Clients
      BY <1>1 DEF InRecv
    <2>2. NULL \notin Clients
      BY DEF NULL, Clients
    <2>3. crashed' => p2pserver' = "deleted" \/ deleted' # {}
      BY <1>1, <1>3, <2>1, <2>2
    <2> QED BY <2>3 DEF CrashedOnlyBy
  <1> QED BY <1>4, <1>5

\* The threads of the clients, and what comes to them, crash nothing.
LEMMA ClientKeeps ==
  ASSUME ClientTypes, NEW k,
         ClientThread(k) \/ ReplyComes(k) \/ LinkBreaks(k)
  PROVE  ClientTypes' /\ CrashedOnlyBy' /\ UNCHANGED <<serverPart, peers, history>>
  <1>1. CASE ClientThread(k)
    <2>1. PICK mark \in Marks : client' = [client EXCEPT ![k] = mark]
      BY <1>1 DEF ClientThread, HandleReply, ReceiveNothing, ClientGoes, Marks
    <2>2. /\ k \in Clients /\ ~crashed /\ mail' \subseteq mail
          /\ UNCHANGED <<serverPart, peers, p2pclient, deleted, linked, crashed, history>>
      BY <1>1 DEF ClientThread, HandleReply, ReceiveNothing, ClientGoes, ClientAt
    <2>3. client' \in Seq(Marks) /\ Len(client') = Len(client) /\ Clients' = Clients
      BY <2>1, <2>2, Marking
    <2> QED BY <2>2, <2>3 DEF ClientTypes, CrashedOnlyBy, Marks
  <1>2. CASE ReplyComes(k)
    BY <1>2 DEF ReplyComes, ClientAt, ClientTypes, CrashedOnlyBy, Clients
  <1>3. CASE LinkBreaks(k)
    BY <1>3 DEF LinkBreaks, ClientTypes, CrashedOnlyBy, Clients
  <1> QED BY <1>1, <1>2, <1>3

\* What happens in the server part leaves the client part as it is, but for the
\* client EndInit forgets, and crashes on an early peer alone.
LEMMA ServerThreadClient ==
  ASSUME Server, ClientTypes, InitServer \/ EndInit \/ ServerThread
  PROVE  ClientTypes' /\ CrashedOnlyBy'
  <1>1. CASE InitServer
    BY <1>1 DEF InitServer, Command, clientPart, ClientTypes, CrashedOnlyBy, Clients
  <1>2. CASE EndInit
    BY <1>2 DEF EndInit, ClientTypes, CrashedOnlyBy, Clients
  <1>3. CASE Loop \/ Accept \/ Handle
    <2>1. UNCHANGED <<p2pclient, deleted, client, linked, mail, crashed>> /\ ~crashed
      BY <1>3 DEF Loop, Accept, Handle, ServerAt, clientPart
    <2> QED BY <2>1 DEF ClientTypes, CrashedOnlyBy, Clients
  <1>4. CASE Receive
    <2>1. CASE session = NULL
      <3>1. /\ crashed' = TRUE /\ server = "accepted" /\ early' = early
            /\ UNCHANGED <<p2pclient, deleted, client, linked, mail>>
        BY <1>4, <2>1 DEF Receive, Crash, ServerAt, clientPart, history
      <3>2. early
        BY <2>1, <3>1, Counts DEF Server, ServerInv, InTurn, SessionKept
      <3> QED BY <3>1, <3>2 DEF ClientTypes, CrashedOnlyBy, Clients
    <2>2. CASE session # NULL
      BY <1>4, <2>2 DEF Receive, ServerAt, clientPart, ClientTypes, CrashedOnlyBy, Clients
    <2> QED BY <2>1, <2>2
  <1> QED BY <1>1, <1>2, <1>3, <1>4 DEF ServerThread

\* The commands that leave both parts as they are crash where the property says.
LEMMA CommandClient ==
  ASSUME Server, ClientTypes, Send \/ Reply \/ ReplyWithoutClient \/ UseDeleted
  PROVE  ClientTypes' /\ CrashedOnlyBy'
  <1>1. /\ UNCHANGED <<p2pclient, deleted, client, linked, mail, p2pserver, left>>
        /\ ~crashed
    BY DEF Send, Reply, ReplyWithoutClient, UseDeleted, Crash, Command, clientPart, serverPart, peers
  <1>2. crashed' => \/ p2pclient \notin linked \/ left # {}
                    \/ deleted # {} \/ p2pserver = "deleted"
    <2>1. CASE Send
      BY <2>1 DEF Send, MayCrash
    <2>2. CASE Reply
      <3>1. crashed' => crashed \/ session \in left
        BY <2>2 DEF Reply, MayCrash
      <3> QED BY <1>1, <3>1
    <2>3. CASE ReplyWithoutClient
      BY <2>3 DEF ReplyWithoutClient, ClientTypes, Clients, NULL
    <2>4. CASE UseDeleted
      BY <2>4 DEF UseDeleted
    <2> QED BY <2>1, <2>2, <2>3, <2>4
  <1>3. crashed' \in BOOLEAN
    <2>1. CASE Send
      BY <2>1 DEF Send, MayCrash
    <2>2. CASE Reply
      <3>1. crashed' = crashed \/ crashed' = FALSE \/ crashed' = (session \in left)
        BY <2>2 DEF Reply, MayCrash
      <3>2. crashed \in BOOLEAN /\ FALSE \in BOOLEAN /\ (session \in left) \in BOOLEAN
        BY DEF ClientTypes
      <3>3. CASE crashed' = crashed
        BY <3>2, <3>3
      <3>4. CASE crashed' = FALSE
        BY <3>4
      <3>5. CASE crashed' = (session \in left)
        BY <3>5
      <3> QED BY <3>1, <3>3, <3>4, <3>5
    <2>3. CASE ReplyWithoutClient \/ UseDeleted
      BY <2>3 DEF ReplyWithoutClient, UseDeleted, Crash
    <2> QED BY <2>1, <2>2, <2>3
  <1> QED BY <1>1, <1>2, <1>3 DEF ClientTypes, CrashedOnlyBy, Clients

\* Peers crash nothing.
LEMMA PeersClient ==
  ASSUME ClientTypes, NEW p, PeerConnects \/ PeerSpeaks(p) \/ PeerLeaves(p)
  PROVE  ClientTypes' /\ CrashedOnlyBy'
  <1>1. UNCHANGED <<p2pclient, deleted, client, linked, mail, crashed>> /\ ~crashed
    BY DEF PeerConnects, PeerSpeaks, PeerLeaves, clientPart
  <1> QED BY <1>1 DEF ClientTypes, CrashedOnlyBy, Clients

-----------------------------------------------------------------------------
(* The theorems *)

\* Every step of the program keeps the invariant.
LEMMA NextIInv ==
  ASSUME IInv, [Next]_vars
  PROVE  IInv'
  <1>1. Server /\ ClientTypes /\ CrashedOnlyBy
    BY DEF IInv
  <1>2. CASE InitServer \/ EndInit \/ ServerThread
    BY <1>1, <1>2, InitServerKeeps, EndInitKeeps, LoopKeeps, AcceptKeeps, ReceiveKeeps, HandleKeeps,
       ServerThreadClient DEF IInv, ServerThread
  <1>3. CASE Send \/ ReplyWithoutClient \/ UseDeleted
    <2>1. UNCHANGED <<serverPart, peers, history>>
      BY <1>3 DEF Send, ReplyWithoutClient, UseDeleted, Crash
    <2> QED BY <1>1, <1>3, <2>1, ServerFrame, CommandClient DEF IInv
  <1>4. CASE Reply
    BY <1>1, <1>4, ReplyKeeps, CommandClient DEF IInv
  <1>5. CASE Open
    <2>1. UNCHANGED <<serverPart, peers, history>>
      BY <1>5 DEF Open
    <2> QED BY <1>1, <1>5, <2>1, ServerFrame, OpenKeeps DEF IInv
  <1>6. CASE Close
    BY <1>1, <1>6, CloseKeeps, CloseClientKeeps DEF IInv
  <1>7. CASE Others \/ (\E k \in Client : ClientThread(k))
    <2>1. CASE \E k \in Client : ClientThread(k) \/ ReplyComes(k) \/ LinkBreaks(k)
      BY <1>1, <2>1, ClientKeeps, ServerFrame DEF IInv
    <2>2. CASE PeerConnects \/ (\E p \in Peer : PeerSpeaks(p) \/ PeerLeaves(p))
      BY <1>1, <2>2, PeerConnectsKeeps, PeerKeeps, PeersClient DEF IInv
    <2> QED BY <1>7, <2>1, <2>2 DEF Others
  <1>8. CASE UNCHANGED vars
    <2>1. UNCHANGED <<serverPart, peers, history>>
      BY <1>8 DEF vars
    <2>2. UNCHANGED <<p2pserver, left, p2pclient, deleted, client, linked, mail, crashed, early>>
      BY <1>8 DEF vars, serverPart, peers, clientPart, history
    <2>3. ClientTypes' /\ CrashedOnlyBy'
      BY <1>1, <2>2 DEF ClientTypes, CrashedOnlyBy, Clients
    <2> QED BY <1>1, <2>1, <2>3, ServerFrame DEF IInv
  <1> QED BY <1>2, <1>3, <1>4, <1>5, <1>6, <1>7, <1>8 DEF Next, Main

\* The invariant holds in every state of the program.
THEOREM Invariance == Spec => []IInv
  <1>1. IInv /\ [Next]_vars => IInv'
    BY NextIInv
  <1> QED BY InitIInv, <1>1, PTL DEF Spec

\* Every variable of the peer-to-peer messenger has its type.
THEOREM TypeCorrect == Spec => []TypeOK
  <1>1. IInv => TypeOK
    BY TypeParts DEF IInv, Server
  <1> QED BY <1>1, Invariance, PTL

\* P2PServer::run handles one message of each peer, peer after peer as they
\* connected, whatever the commands and the constructor do to session.
THEOREM OneMessageEachInOrder == Spec => []HeardInOrder
  <1>1. IInv => HeardInOrder
    BY DEF IInv, Server, ServerInv, InTurn, HeardInOrder
  <1> QED BY <1>1, Invariance, PTL

\* The server forgets its peer only if it was accepted before the constructor
\* of P2PServer had ended, and ends by itself only if it has never listened.
THEOREM SessionIsKept == Spec => []SessionLostOnlyBy
  <1>1. IInv => SessionLostOnlyBy
    <2> SUFFICES ASSUME IInv PROVE SessionLostOnlyBy
      OBVIOUS
    <2>1. silenced /\ p2pserver # "deleted" => ~listening
      BY DEF IInv, Server, ServerInv, Lifetime
    <2>2. ASSUME heard # <<>>, session = NULL PROVE early
      <3>1. Len(heard) > 0
        BY <2>2, Counts, EmptySeq DEF IInv, Server, ServerTypes
      <3>2. Accepted > 0
        BY <3>1, Counts DEF IInv, Server, ServerTypes, ServerInv, InTurn
      <3> QED BY <2>2, <3>2 DEF IInv, Server, ServerInv, SessionKept
    <2> QED BY <2>1, <2>2 DEF SessionLostOnlyBy
  <1> QED BY <1>1, Invariance, PTL

\* The program crashes only in the ways CrashedOnlyBy names.
THEOREM CrashesAreKnown == Spec => []CrashedOnlyBy
  <1>1. IInv => CrashedOnlyBy
    BY DEF IInv
  <1> QED BY <1>1, Invariance, PTL

\* TCPP2PMSN::reply writes to the peer heard last, or to one who was accepted
\* since and has said nothing.
THEOREM RepliesAreToLastHeard == Spec => RepliesToLastHeard
  <1> DEFINE Fits ==
        LET to == replies'[Len(replies')] IN
            \/ heard # <<>> /\ to = heard[Len(heard)]
            \/ server \in {"accepted", "recv"} /\ to \notin {heard[i] : i \in DOMAIN heard}
  <1>1. ASSUME IInv, Next, replies' # replies PROVE Fits
    <2>1. Server /\ replies \in Seq(DOMAIN said)
      BY <1>1 DEF IInv, Server, ServerTypes
    <2>2. Reply
      BY <1>1 DEF Next, Main, ServerThread, Others, ClientThread, InitServer, EndInit, Open, Send,
         ReplyWithoutClient, Close, CloseParts, UseDeleted, Crash, Loop, Accept, Receive, Handle,
         HandleReply, ReceiveNothing, ClientGoes, PeerConnects, PeerSpeaks, PeerLeaves, ReplyComes,
         LinkBreaks, history
    <2>3. session # NULL /\ replies' = Append(replies, session) /\ p2pserver = "live"
      BY <1>1, <2>2 DEF Reply
    <2>4. session = Accepted /\ Accepted > 0 /\ session \in DOMAIN said
      BY <2>1, <2>3, Counts DEF Server, ServerTypes, ServerInv, SessionKept, NULL
    <2>5. replies'[Len(replies')] = session
      BY <2>1, <2>3, <2>4, AppendProperties
    <2>6. CASE server \in {"none", "loop", "accept"}
      <3>1. Accepted = Len(heard) /\ Len(heard) \in DOMAIN heard
        BY <2>1, <2>4, <2>6, Counts DEF Server, ServerInv, InTurn
      <3>2. heard # <<>> /\ heard[Len(heard)] = session
        BY <2>1, <2>4, <3>1 DEF Server, ServerInv, InTurn
      <3> QED BY <2>5, <3>2
    <2>7. CASE server \in {"accepted", "recv"}
      <3>1. Accepted = Len(heard) + 1
        BY <2>1, <2>7 DEF Server, ServerInv, InTurn
      <3>2. \A i \in DOMAIN heard : heard[i] # session
        BY <2>1, <2>4, <3>1, Counts DEF Server, ServerInv, InTurn
      <3> QED BY <2>5, <2>7, <3>2
    <2>8. server # "end"
      <3>1. listening
        BY <2>1, <2>4, Counts DEF Server, ServerInv, Lifetime
      <3> QED BY <2>1, <2>3, <3>1 DEF Server, ServerInv, Lifetime
    <2> QED BY <2>1, <2>6, <2>7, <2>8 DEF Server, ServerTypes
  <1>2. IInv /\ [Next]_vars => [replies' # replies => Fits]_vars
    BY <1>1 DEF vars, history
  <1> QED BY Invariance, <1>2, PTL DEF Spec, RepliesToLastHeard
=============================================================================

---------------------------- MODULE GameSession ----------------------------
(***************************************************************************)
(* The games of the game server: the two UDP sockets a challenge makes,    *)
(* and the thread of each game, which greets the second player's socket,   *)
(* has the greeting answered and waits for the answer.                     *)
(*                                                                         *)
(* Both sockets of a game are in the server: Socket::getIP asks for the    *)
(* name of a descriptor no socket has and answers 0.0.0.0, so the first    *)
(* socket is connected to the server's own host.  Nothing closes them.     *)
(*                                                                         *)
(* Matchmaking says who challenges whom and that a game is of the last     *)
(* challenge.  Here a challenge is known by its number, its first socket   *)
(* (caller) and its second one (callee) by the same number, and of the     *)
(* opponent only the port of his TCP connection counts: opponents on two   *)
(* hosts may have the same.  A challenge may be accepted twice.            *)
(***************************************************************************)
EXTENDS Naturals, Sequences, FiniteSets

CONSTANTS
    Port,           \* ports of the opponents' connections
    None,           \* no address
    MaxChallenges,  \* bound on the challenges
    MaxGames,       \* bound on the games
    MaxLost         \* bound on the datagrams the network loses

ASSUME GameConstants ==
    /\ Port \subseteq Nat
    /\ MaxChallenges \in Nat /\ MaxGames \in Nat /\ MaxLost \in Nat
    /\ None \notin Nat

\* The port UDPSocket takes for "do not bind".
NoBind == 9999

VARIABLES
    ports,      \* the port each callee was made for, in order of challenge
    peer,       \* the port each caller is connected to
    greetings,  \* datagrams waiting at each callee: who wrote them
    remote,     \* whom each callee heard last
    answers,    \* datagrams waiting at each caller: how many
    games,      \* the games, of which challenge and where their threads are
    \* history, read by the properties alone
    heard,      \* greetings of each caller that were received
    answered,   \* answers sent to each caller
    lost        \* challenges that lost a datagram

history == <<heard, answered, lost>>
vars == <<ports, peer, greetings, remote, answers, games, history>>

Challenge == 1..MaxChallenges
Made == 1..Len(ports)

Init ==
    /\ ports = <<>>
    /\ peer = [k \in Challenge |-> None]
    /\ greetings = [k \in Challenge |-> <<>>]
    /\ remote = [k \in Challenge |-> None]
    /\ answers = [k \in Challenge |-> 0]
    /\ games = <<>>
    /\ heard = [k \in Challenge |-> 0]
    /\ answered = [k \in Challenge |-> 0]
    /\ lost = {}

-----------------------------------------------------------------------------
(* Sockets *)

\* UDPSocket(9999) is not bound.
Bound(k) == ports[k] # NoBind

\* Socket::bind sets SO_REUSEADDR, so that it never fails: of the sockets
\* bound to one port the last one gets what is sent there.
Receiver(p) ==
    {k \in Made : Bound(k) /\ ports[k] = p /\ \A j \in Made : ports[j] = p => j <= k}

\* UDPSocket::write: the datagram waits at whoever is bound to the port the
\* caller is connected to, or is lost on the way, or nobody is there.
Write(k) ==
    \/ /\ \E j \in Receiver(peer[k]) : greetings' = [greetings EXCEPT ![j] = Append(@, k)]
       /\ UNCHANGED lost
    \/ Receiver(peer[k]) = {} /\ UNCHANGED <<greetings, lost>>
    \/ /\ Cardinality(lost) < MaxLost
       /\ lost' = lost \cup {k}
       /\ UNCHANGED greetings

\* UDPSocket::recv blocks until there is a datagram, and keeps its sender.
Recv(k) ==
    /\ greetings[k] # <<>>
    /\ greetings' = [greetings EXCEPT ![k] = Tail(@)]
    /\ remote' = [remote EXCEPT ![k] = Head(greetings[k])]
    /\ heard' = [heard EXCEPT ![Head(greetings[k])] = @ + 1]

\* UDPSocket::reply sends to the sender of the last message received on k.
\* The caller takes it: it comes from the port the caller is connected to.
Reply(k) ==
    /\ answered' = [answered EXCEPT ![remote[k]] = @ + 1]
    /\ \/ answers' = [answers EXCEPT ![remote[k]] = @ + 1] /\ UNCHANGED lost
       \/ /\ Cardinality(lost) < MaxLost
          /\ lost' = lost \cup {remote[k]}
          /\ UNCHANGED answers

-----------------------------------------------------------------------------
(* The dispatcher *)

\* The challenge gives the challenger a socket without a port and the
\* opponent one bound to the port of his connection.
SetUdp(p) ==
    /\ Len(ports) < MaxChallenges
    /\ ports' = Append(ports, p)
    /\ UNCHANGED <<peer, greetings, remote, answers, games, history>>

\* Mutant: the socket is connected to the first opponent's port.
OpenToFirst ==
    LET k == Len(ports) IN
    /\ k > 0
    /\ Len(games) < MaxGames
    /\ peer' = [peer EXCEPT ![k] = ports[1]]
    /\ games' = Append(games, [of |-> k, at |-> "write"])
    /\ UNCHANGED <<ports, greetings, remote, answers, history>>

\* The constructor of Game connects the first socket to the port of the
\* second player's TCP connection and starts the thread.
OpenGame ==
    LET k == Len(ports) IN
    /\ k > 0
    /\ Len(games) < MaxGames
    /\ peer' = [peer EXCEPT ![k] = ports[k]]
    /\ games' = Append(games, [of |-> k, at |-> "write"])
    /\ UNCHANGED <<ports, greetings, remote, answers, history>>

-----------------------------------------------------------------------------
(* Game::run *)

Step(g, from, to) ==
    /\ g \in DOMAIN games
    /\ games[g].at = from
    /\ games' = [games EXCEPT ![g].at = to]
    /\ UNCHANGED <<ports, peer>>

Greet(g) ==
    /\ Step(g, "write", "hear")
    /\ Write(games[g].of)
    /\ UNCHANGED <<remote, answers, heard, answered>>

\* Mutant: recv does not block.
HearNothing(g) ==
    /\ Step(g, "hear", "reply")
    /\ \/ Recv(games[g].of)
       \/ greetings[games[g].of] = <<>> /\ UNCHANGED <<greetings, remote, heard>>
    /\ UNCHANGED <<answers, answered, lost>>

Hear(g) ==
    /\ Step(g, "hear", "reply")
    /\ Recv(games[g].of)
    /\ UNCHANGED <<answers, answered, lost>>

\* Mutant: the thread answers without having received.
AnswerFirst(g) ==
    /\ \/ Step(g, "hear", "await") \/ Step(g, "reply", "await")
    /\ remote[games[g].of] # None
    /\ Reply(games[g].of)
    /\ UNCHANGED <<greetings, remote, heard>>

Answer(g) ==
    /\ Step(g, "reply", "await")
    /\ Reply(games[g].of)
    /\ UNCHANGED <<greetings, remote, heard>>

\* Mutant: the thread leaves the answer unread.
EndUnread(g) ==
    /\ Step(g, "await", "done")
    /\ answers[games[g].of] > 0
    /\ UNCHANGED <<greetings, remote, answers, history>>

End(g) ==
    LET k == games[g].of IN
    /\ Step(g, "await", "done")
    /\ answers[k] > 0
    /\ answers' = [answers EXCEPT ![k] = @ - 1]
    /\ UNCHANGED <<greetings, remote, history>>

GameThread(g) == Greet(g) \/ Hear(g) \/ Answer(g) \/ End(g)

Next ==
    \/ \E p \in Port : SetUdp(p)
    \/ OpenGame
    \/ \E g \in 1..MaxGames : GameThread(g)

Spec == Init /\ [][Next]_vars

\* A thread that can go on does, and so does one whose datagram has come.
FairSpec == Spec /\ \A g \in 1..MaxGames : WF_vars(GameThread(g))

-----------------------------------------------------------------------------
(* Properties *)

Places == {"write", "hear", "reply", "await", "done"}

Types ==
    /\ ports \in Seq(Port) /\ Len(ports) <= MaxChallenges
    /\ peer \in [Challenge -> Port \cup {None}]
    /\ greetings \in [Challenge -> Seq(Challenge)]
    /\ remote \in [Challenge -> Challenge \cup {None}]
    /\ answers \in [Challenge -> Nat]
    /\ games \in Seq([of : Challenge, at : Places])
    /\ heard \in [Challenge -> Nat] /\ answered \in [Challenge -> Nat]
    /\ lost \subseteq Challenge

\* Every variable has its type; a thread that is about to answer has somebody
\* to answer.
TypeOK ==
    /\ Types
    /\ \A g \in DOMAIN games : games[g].at = "reply" => remote[games[g].of] # None

\* Another challenge has made a socket for the same port.
Shared(k) == \E j \in Made \ {k} : ports[j] = ports[k]

GamesAt(k, place) ==
    Cardinality({g \in DOMAIN games : games[g].of = k /\ games[g].at = place})

\* Two threads of one challenge use the same two sockets, and the address
\* that one of them is about to answer is written by the recv of the other.
\* Still nobody is answered more often than he was heard, unless another
\* challenge bound the same port.
AnsweredAsHeard ==
    \A k \in Made : ~Shared(k) => answered[k] <= heard[k]

\* Between the threads of one challenge nothing is taken twice or left over:
\* in each of its two sockets as many datagrams wait as threads wait there,
\* unless one was lost or another challenge took the port.
Balanced ==
    \A k \in Made :
        ~Shared(k) /\ k \notin lost /\ Bound(k) =>
            /\ Len(greetings[k]) = GamesAt(k, "hear")
            /\ answers[k] = GamesAt(k, "await")

EndedOrCut(g) ==
    /\ g \in DOMAIN games
    /\ \/ games[g].at = "done"
       \/ Shared(games[g].of) \/ games[g].of \in lost \/ ~Bound(games[g].of)

\* Every game comes to its end, unless a datagram of its challenge is lost,
\* another challenge takes the port, or the port is the one UDPSocket does not
\* bind: then its thread waits in recv for ever.
HandshakeEnds ==
    \A g \in 1..MaxGames : g \in DOMAIN games ~> EndedOrCut(g)
=============================================================================

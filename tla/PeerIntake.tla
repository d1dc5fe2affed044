----------------------------- MODULE PeerIntake -----------------------------
(***************************************************************************)
(* How a connection gets from the Acceptor's thread to the Dispatcher's    *)
(* thread, and whose turn it then is.                                      *)
(*                                                                         *)
(* The acceptor pushes every new socket on waitingPeers under the          *)
(* dispatcher's mutex.  The dispatcher's loop moves waitingPeers into      *)
(* peers without it, selects on all of them, reads a command from the      *)
(* first one that is ready and handles it with the mutex held, blocking    *)
(* receives included.  A socket whose client has hung up stays in peers    *)
(* and is ready for ever: read() returns 0.                                *)
(*                                                                         *)
(* A socket is a connection.  What a command says is left to Matchmaking;  *)
(* here it is "short" (nothing follows) or "long" (a payload follows, in   *)
(* a segment of its own).                                                  *)
(***************************************************************************)
EXTENDS Naturals, Sequences, SequencesExt

CONSTANTS
    Socket,       \* connections clients may open
    NoSocket,     \* NULL
    MaxCommands,  \* bound on the commands one client sends
    HangUps,      \* whether clients hang up
    Strangers     \* whether clients challenge by name before they log in

ASSUME IntakeConstants ==
    /\ NoSocket \notin Socket
    /\ MaxCommands \in Nat
    /\ HangUps \in BOOLEAN
    /\ Strangers \in BOOLEAN

VARIABLES
    mutex,        \* Dispatcher::mutex: "free", "acceptor" or "dispatcher"
    peers,        \* peers->sockets
    waiting,      \* waitingPeers->sockets
    mtcp,         \* mtcp.sockets, local to an iteration of run
    pcA, pcD,     \* where the acceptor and the dispatcher are
    newPeer,      \* the socket the acceptor is handing over
    snap,         \* the contents of waiting that its push_back has seen
    cur,          \* the peer the dispatcher serves
    command,      \* what readCommand returned for it
    inbox,        \* what each client has sent and the server not yet read
    owes,         \* the client has sent a command whose payload is to follow
    hung,         \* the client has hung up
    sent,         \* commands each client has sent
    announced,    \* sockets reported as "moved to dispatcher!"
    crashed,      \* the server process is dead
    left          \* history: clients with a payload that a handler left unread

vectors == <<peers, waiting, mtcp>>
acceptor == <<pcA, newPeer, snap, announced>>
dispatcher == <<pcD, cur, command>>
clients == <<inbox, owes, hung, sent>>

vars == <<mutex, vectors, acceptor, dispatcher, clients, crashed, left>>

Init ==
    /\ mutex = "free"
    /\ peers = <<>> /\ waiting = <<>> /\ mtcp = <<>>
    /\ pcA = "accept" /\ newPeer = NoSocket /\ snap = <<>>
    /\ pcD = "collectPeers" /\ cur = NoSocket /\ command = "none"
    /\ inbox = [s \in Socket |-> <<>>]
    /\ owes = [s \in Socket |-> FALSE]
    /\ hung = [s \in Socket |-> FALSE]
    /\ sent = [s \in Socket |-> 0]
    /\ announced = {}
    /\ crashed = FALSE
    /\ left = {}

-----------------------------------------------------------------------------
(* Acceptor::run, ServerSDK::handlePeer and Dispatcher::addPeer *)

Accepted(s) == s \in announced \/ s = newPeer

Accept(s) ==
    /\ pcA = "accept"
    /\ ~Accepted(s)
    /\ newPeer' = s
    /\ pcA' = "lock"
    /\ UNCHANGED <<mutex, vectors, snap, announced, dispatcher, clients, crashed, left>>

AddPeer ==
    /\ pcA = "lock"
    /\ mutex = "free"
    /\ mutex' = "acceptor"
    /\ pcA' = "construct"
    /\ UNCHANGED <<vectors, newPeer, snap, announced, dispatcher, clients, crashed, left>>

\* Mutant: the push starts from an empty vector.
ConstructAnew ==
    /\ pcA = "construct"
    /\ snap' = <<>>
    /\ pcA' = "publish"
    /\ UNCHANGED <<mutex, vectors, newPeer, announced, dispatcher, clients, crashed, left>>

\* push_back copies the vector to a larger array, or writes past its end.
Construct ==
    /\ pcA = "construct"
    /\ snap' = waiting
    /\ pcA' = "publish"
    /\ UNCHANGED <<mutex, vectors, newPeer, announced, dispatcher, clients, crashed, left>>

\* It then installs the new array, or reads the end again and moves it by
\* one.  The two differ when the dispatcher has cleared the vector between.
Publish ==
    /\ pcA = "publish"
    /\ LET pushed == Append(snap, newPeer) IN
        \/ waiting' = pushed
        \/ waiting' = SubSeq(pushed, 1, Len(waiting) + 1)
    /\ snap' = <<>>
    /\ pcA' = "unlock"
    /\ UNCHANGED <<mutex, peers, mtcp, newPeer, announced, dispatcher, clients, crashed, left>>

\* Mutant: addPeer returns with the mutex locked.
AnnounceLocked ==
    /\ pcA = "unlock"
    /\ announced' = announced \cup {newPeer}
    /\ newPeer' = NoSocket
    /\ pcA' = "accept"
    /\ UNCHANGED <<mutex, vectors, snap, dispatcher, clients, crashed, left>>

\* The guard is destroyed; handlePeer reports the peer as moved.
Announce ==
    /\ pcA = "unlock"
    /\ mutex' = "free"
    /\ announced' = announced \cup {newPeer}
    /\ newPeer' = NoSocket
    /\ pcA' = "accept"
    /\ UNCHANGED <<vectors, snap, dispatcher, clients, crashed, left>>

-----------------------------------------------------------------------------
(* Dispatcher::run *)

\* Mutant: the peers of the last iteration are not copied.
CollectNothing ==
    /\ pcD = "collectPeers"
    /\ mtcp' = <<>>
    /\ pcD' = "collectWaiting"
    /\ UNCHANGED <<mutex, peers, waiting, acceptor, cur, command, clients, crashed, left>>

CollectPeers ==
    /\ pcD = "collectPeers"
    /\ mtcp' = peers
    /\ pcD' = "collectWaiting"
    /\ UNCHANGED <<mutex, peers, waiting, acceptor, cur, command, clients, crashed, left>>

CollectWaiting ==
    /\ pcD = "collectWaiting"
    /\ mtcp' = mtcp \o waiting
    /\ pcD' = "clearPeers"
    /\ UNCHANGED <<mutex, peers, waiting, acceptor, cur, command, clients, crashed, left>>

ClearPeers ==
    /\ pcD = "clearPeers"
    /\ peers' = <<>>
    /\ pcD' = "clearWaiting"
    /\ UNCHANGED <<mutex, waiting, mtcp, acceptor, cur, command, clients, crashed, left>>

ClearWaiting ==
    /\ pcD = "clearWaiting"
    /\ waiting' = <<>>
    /\ pcD' = "setPeers"
    /\ UNCHANGED <<mutex, peers, mtcp, acceptor, cur, command, clients, crashed, left>>

\* addAll and clear read the vector's pointers while push_back moves them:
\* a range that begins in one array and ends in another kills the server.
VectorRace ==
    /\ pcA = "publish"
    /\ pcD \in {"collectWaiting", "clearWaiting"}
    /\ crashed' = TRUE
    /\ UNCHANGED <<mutex, vectors, acceptor, dispatcher, clients, left>>

SetPeers ==
    /\ pcD = "setPeers"
    /\ peers' = mtcp
    /\ pcD' = "listen"
    /\ UNCHANGED <<mutex, waiting, mtcp, acceptor, cur, command, clients, crashed, left>>

Readable(s) == inbox[s] # <<>> \/ hung[s]

ReadyPlaces == {i \in DOMAIN mtcp : Readable(mtcp[i])}

\* Mutant: listen returns the last one.
ListenLast ==
    /\ pcD = "listen"
    /\ \E i \in ReadyPlaces :
        /\ \A j \in ReadyPlaces : i >= j
        /\ cur' = mtcp[i]
    /\ pcD' = "read"
    /\ UNCHANGED <<mutex, vectors, acceptor, command, clients, crashed, left>>

\* MTCPListener::listen returns the first ready socket of the vector.
Listen ==
    /\ pcD = "listen"
    /\ \E i \in ReadyPlaces :
        /\ \A j \in ReadyPlaces : i <= j
        /\ cur' = mtcp[i]
    /\ pcD' = "read"
    /\ UNCHANGED <<mutex, vectors, acceptor, command, clients, crashed, left>>

\* Mutant: the dispatcher goes on with the peer it has not got.
ListenAnyway ==
    /\ pcD = "listen"
    /\ ReadyPlaces = {}
    /\ pcD' = "read"
    /\ UNCHANGED <<mutex, vectors, acceptor, cur, command, clients, crashed, left>>

\* Four seconds and nobody is ready.
ListenTimeout ==
    /\ pcD = "listen"
    /\ ReadyPlaces = {}
    /\ mtcp' = <<>>
    /\ pcD' = "collectPeers"
    /\ UNCHANGED <<mutex, peers, waiting, acceptor, cur, command, clients, crashed, left>>

\* What a message is to the dispatcher.  OPEN_MATCH_WITH_USER of a client that
\* is not logged in is "refused": only this thread logs clients in.  A payload
\* that nobody read passes for whatever command its first word spells.
Taken(message) ==
    (CASE message = "short" -> {"short"}
       [] message = "long" -> {"long", "refused"}
       [] message = "payload" -> {"none", "short", "long", "refused"})
    \ (IF Strangers THEN {} ELSE {"refused"})

\* -1 ("none") when the client has hung up and left nothing behind.
ReadCommand ==
    /\ pcD = "read"
    /\ \/ inbox[cur] = <<>> /\ command' = "none" /\ UNCHANGED inbox
       \/ /\ inbox[cur] # <<>>
          /\ command' \in Taken(Head(inbox[cur]))
          /\ inbox' = [inbox EXCEPT ![cur] = Tail(@)]
    /\ pcD' = "lock"
    /\ UNCHANGED <<mutex, vectors, acceptor, cur, owes, hung, sent, crashed, left>>

LockCommand ==
    /\ pcD = "lock"
    /\ mutex = "free"
    /\ mutex' = "dispatcher"
    /\ pcD' = "handle"
    /\ UNCHANGED <<vectors, acceptor, cur, command, clients, crashed, left>>

\* The end of the iteration: its guard and its locals are gone.
EndIteration ==
    /\ mutex' = "free"
    /\ cur' = NoSocket
    /\ command' = "none"
    /\ mtcp' = <<>>
    /\ pcD' = "collectPeers"

\* No command, or one that needs no payload: answers are written at once.
HandleShort ==
    /\ pcD = "handle"
    /\ command \in {"none", "short"}
    /\ EndIteration
    /\ UNCHANGED <<peers, waiting, acceptor, clients, crashed, left>>

\* What a command writes or follows may end the server: an answer to a client
\* that has gone, or a challenge to an opponent who has, raises SIGPIPE, and
\* ACCEPT_MATCH follows pointers nobody may have set.
CommandKills ==
    /\ pcD = "handle"
    /\ \/ command = "short"
       \/ command = "long" /\ Readable(cur)
    /\ crashed' = TRUE
    /\ UNCHANGED <<mutex, vectors, acceptor, dispatcher, clients, left>>

\* Mutant: the payload is not received.
HandleUnread ==
    /\ pcD = "handle"
    /\ command = "long"
    /\ Readable(cur)
    /\ EndIteration
    /\ UNCHANGED <<peers, waiting, acceptor, clients, crashed, left>>

\* The receives of the payload block until it is there or the client hangs
\* up, and the mutex stays locked meanwhile.
HandleLong ==
    /\ pcD = "handle"
    /\ command = "long"
    /\ Readable(cur)
    /\ inbox' = [inbox EXCEPT ![cur] = IF @ = <<>> THEN <<>> ELSE Tail(@)]
    /\ EndIteration
    /\ UNCHANGED <<peers, waiting, acceptor, owes, hung, sent, crashed, left>>

\* A command that is refused: the payload stays where it is.
HandleStranger ==
    /\ pcD = "handle"
    /\ command = "refused"
    /\ EndIteration
    /\ left' = left \cup {cur}
    /\ UNCHANGED <<peers, waiting, acceptor, clients, crashed>>

-----------------------------------------------------------------------------
(* Clients *)

Connected(s) == Accepted(s) /\ ~hung[s]

SendCommand(s, kind) ==
    /\ Connected(s)
    /\ ~owes[s]
    /\ sent[s] < MaxCommands
    /\ sent' = [sent EXCEPT ![s] = @ + 1]
    /\ inbox' = [inbox EXCEPT ![s] = Append(@, kind)]
    /\ owes' = [owes EXCEPT ![s] = kind = "long"]
    /\ UNCHANGED <<mutex, vectors, acceptor, dispatcher, hung, crashed, left>>

SendPayload(s) ==
    /\ Connected(s)
    /\ owes[s]
    /\ inbox' = [inbox EXCEPT ![s] = Append(@, "payload")]
    /\ owes' = [owes EXCEPT ![s] = FALSE]
    /\ UNCHANGED <<mutex, vectors, acceptor, dispatcher, hung, sent, crashed, left>>

HangUp(s) ==
    /\ HangUps
    /\ Connected(s)
    /\ hung' = [hung EXCEPT ![s] = TRUE]
    /\ owes' = [owes EXCEPT ![s] = FALSE]
    /\ UNCHANGED <<mutex, vectors, acceptor, dispatcher, inbox, sent, crashed, left>>

-----------------------------------------------------------------------------
Acceptor == AddPeer \/ Construct \/ Publish \/ Announce

Dispatcher ==
    \/ CollectPeers \/ CollectWaiting \/ ClearPeers \/ ClearWaiting \/ SetPeers
    \/ Listen \/ ListenTimeout \/ ReadCommand \/ LockCommand
    \/ HandleShort \/ HandleLong \/ HandleStranger

Client(s) ==
    \/ \E kind \in {"short", "long"} : SendCommand(s, kind)
    \/ SendPayload(s)
    \/ HangUp(s)

Next ==
    /\ ~crashed
    /\ \/ Acceptor \/ Dispatcher
       \/ VectorRace \/ CommandKills
       \/ \E s \in Socket : Accept(s) \/ Client(s)

Spec == Init /\ [][Next]_vars

\* Both threads run, and a client that has sent a command with a payload
\* sends the payload or hangs up.  Nobody has to connect or to send.
FairSpec ==
    /\ Spec
    /\ WF_vars(~crashed /\ Acceptor)
    /\ WF_vars(~crashed /\ Dispatcher)
    /\ \A s \in Socket : WF_vars(~crashed /\ SendPayload(s))

-----------------------------------------------------------------------------
(* Properties *)

Message == {"short", "long", "payload"}

\* Every variable has its type.
TypeOK ==
    /\ mutex \in {"free", "acceptor", "dispatcher"}
    /\ peers \in Seq(Socket) /\ waiting \in Seq(Socket) /\ mtcp \in Seq(Socket)
    /\ pcA \in {"accept", "lock", "construct", "publish", "unlock"}
    /\ pcD \in {"collectPeers", "collectWaiting", "clearPeers", "clearWaiting",
                "setPeers", "listen", "read", "lock", "handle"}
    /\ newPeer \in Socket \cup {NoSocket}
    /\ (pcA = "accept") <=> (newPeer = NoSocket)
    /\ snap \in Seq(Socket)
    /\ cur \in Socket \cup {NoSocket}
    /\ (pcD \in {"read", "lock", "handle"}) <=> (cur # NoSocket)
    /\ command \in {"none", "short", "long", "refused"}
    /\ inbox \in [Socket -> Seq(Message)]
    /\ owes \in [Socket -> BOOLEAN]
    /\ hung \in [Socket -> BOOLEAN]
    /\ sent \in [Socket -> 0..MaxCommands]
    /\ announced \subseteq Socket
    /\ crashed \in BOOLEAN
    /\ left \subseteq Socket

Collected(s) == s \in ToSet(peers) \cup ToSet(mtcp)

Held(s) == Collected(s) \/ s \in ToSet(waiting) \/ s = newPeer

\* A socket that the dispatcher has collected is never dropped, whatever the
\* acceptor does meanwhile (Dispatcher.cpp:79-89 copies peers into a local
\* before it clears them, and back).
CollectedStays ==
    [][\A s \in Socket : Collected(s) => Collected(s)']_vars

\* The only way to lose a socket is to clear waitingPeers after the acceptor
\* pushed it and before the dispatcher copied it, or while it is pushing
\* (Dispatcher.cpp:82-85 against 66).
LostOnlyInWindow ==
    [][\A s \in Socket :
        Held(s) /\ ~Held(s)' =>
            \/ pcD = "clearWaiting"
            \/ pcA \in {"publish", "unlock"} /\ newPeer = s]_vars

\* The dispatcher waits in the receive of a payload, with the mutex locked
\* (Dispatcher.cpp:119), and its client has sent all he meant to send.
Starved ==
    /\ pcD = "handle" /\ command = "long"
    /\ ~Readable(cur) /\ ~owes[cur]

\* The stream of a client and the dispatcher's reading of it stay in step: it
\* never takes a payload for a command, nor waits for a payload that nobody
\* owes, unless it has left a payload of this client unread
\* (Dispatcher.cpp:216-263 receives it only of a client that is logged in).
PayloadsInStep ==
    /\ Starved => cur \in left
    /\ pcD = "read" /\ inbox[cur] # <<>> /\ Head(inbox[cur]) = "payload" => cur \in left

\* s waits behind a socket that is ready for ever.
HungAhead(s) ==
    \E i \in DOMAIN peers : hung[peers[i]] /\ \A j \in 1..i : peers[j] # s

\* The commands of a collected client are all served, whatever the others do,
\* as long as nobody has hung up ahead of it in peers and no payload is waited
\* for that nobody owes: the dispatcher never waits for the acceptor for ever,
\* and a client further back is reached.
Served ==
    \A s \in Socket :
        Collected(s) /\ inbox[s] # <<>>
            ~> inbox[s] = <<>> \/ HungAhead(s) \/ Starved \/ crashed

\* The acceptor gets the mutex and comes back for the next connection, unless
\* the dispatcher waits for a payload that nobody owes, or somebody has hung
\* up: his socket is ready for ever, and the dispatcher then takes the mutex
\* again as soon as it has given it back.
AcceptorReturns ==
    pcA = "lock"
        ~> pcA = "accept" \/ Starved \/ crashed \/ \E s \in Socket : hung[s]

\* A peer reported as moved is with the dispatcher (ServerSDK.cpp:23, "Peer
\* ... moved to dispatcher!").
AnnouncedIsHeld == \A s \in announced : Held(s)
=============================================================================

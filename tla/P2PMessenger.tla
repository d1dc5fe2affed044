---------------------------- MODULE P2PMessenger ----------------------------
(***************************************************************************)
(* The peer-to-peer messenger: one program with the server part others     *)
(* connect to and the client part it connects to another with.             *)
(*                                                                         *)
(* Three kinds of threads share the objects without a mutex: the main      *)
(* thread, which runs the commands of CLI in any order, the server's       *)
(* thread, and one thread for each client.  To follow NULL, or what was    *)
(* deleted, is to crash, or with what was deleted to get away with it.     *)
(*                                                                         *)
(* P2PServer's constructor starts the thread before it initialises flag    *)
(* and session; flag is then whatever the memory held.                     *)
(***************************************************************************)
EXTENDS Naturals, Sequences

CONSTANTS
    MaxPeers,       \* bound on the peers that connect
    MaxMessages,    \* bound on what a peer says
    MaxClients,     \* bound on the clients opened
    MaxReplies      \* bound on the replies given

ASSUME P2PConstants ==
    MaxPeers \in Nat /\ MaxMessages \in Nat /\ MaxClients \in Nat /\ MaxReplies \in Nat

VARIABLES
    \* the server part
    p2pserver,      \* null, constructing, live or deleted
    flag, session,
    server,         \* where the server's thread is
    on,             \* the peer it is in recv with
    listening,      \* listen has been called
    backlog,        \* peers not yet accepted
    \* the peers that connect
    said,           \* what each has said and nobody has read
    left,           \* peers that have hung up
    \* the client part
    p2pclient,      \* the client in use, or NULL
    deleted,        \* clients that have been deleted
    client,         \* where the thread of each client is
    linked,         \* clients whose connection was made and still stands
    mail,           \* clients to whom a reply has come
    crashed,        \* the program is dead
    \* history, read by the properties alone
    heard,          \* peers whose message was handled, in order
    replies,        \* peers who were given a reply, in order
    early,          \* a peer was accepted before the constructor had ended
    silenced        \* the server's thread has ended, or was cancelled

NULL == 0
Peer == 1..MaxPeers
Client == 1..MaxClients
Clients == 1..Len(client)

serverPart == <<p2pserver, flag, session, server, on, listening, backlog>>
peers == <<said, left>>
clientPart == <<p2pclient, deleted, client, linked, mail>>
history == <<heard, replies, early, silenced>>
vars == <<serverPart, peers, clientPart, crashed, history>>

Init ==
    /\ p2pserver = "null" /\ flag = FALSE /\ session = NULL
    /\ server = "none" /\ on = NULL /\ listening = FALSE /\ backlog = <<>>
    /\ said = <<>> /\ left = {}
    /\ p2pclient = NULL /\ deleted = {} /\ client = <<>> /\ linked = {} /\ mail = {}
    /\ crashed = FALSE
    /\ heard = <<>> /\ replies = <<>> /\ early = FALSE /\ silenced = FALSE

\* The main thread takes a command; in init it is busy.
Command == ~crashed /\ p2pserver # "constructing"

MayCrash(reason) == crashed' \in {FALSE, reason}

Crash == crashed' = TRUE /\ UNCHANGED <<serverPart, peers, clientPart, history>>

-----------------------------------------------------------------------------
(* TCPP2PMSN::init *)

\* The thread is started, flag has no value yet.
InitServer ==
    /\ Command /\ p2pserver = "null"
    /\ p2pserver' = "constructing"
    /\ flag' \in BOOLEAN
    /\ server' = "loop"
    /\ UNCHANGED <<session, on, listening, backlog, peers, clientPart, crashed, history>>

\* session and flag are initialised; two seconds later the client, if there is
\* one, is forgotten.
EndInit ==
    /\ ~crashed /\ p2pserver = "constructing"
    /\ p2pserver' = "live"
    /\ session' = NULL /\ flag' = FALSE
    /\ p2pclient' = NULL
    /\ UNCHANGED <<server, on, listening, backlog, peers, deleted, client, linked, mail,
                   crashed, history>>

-----------------------------------------------------------------------------
(* The server's thread *)

ServerAt(place) == ~crashed /\ server = place

Loop ==
    /\ ServerAt("loop")
    /\ server' = IF flag THEN "end" ELSE "accept"
    /\ silenced' = (silenced \/ flag)
    /\ listening' = (listening \/ ~flag)
    /\ UNCHANGED <<p2pserver, flag, session, on, backlog, peers, clientPart, crashed,
                   heard, replies, early>>

\* Mutant: the socket does not block.
AcceptAtOnce ==
    /\ ServerAt("accept")
    /\ session' = IF backlog = <<>> THEN NULL ELSE Head(backlog)
    /\ backlog' = IF backlog = <<>> THEN <<>> ELSE Tail(backlog)
    /\ server' = "accepted"
    /\ early' = (early \/ p2pserver = "constructing")
    /\ UNCHANGED <<p2pserver, flag, on, listening, peers, clientPart, crashed,
                   heard, replies, silenced>>

\* listenAndAccept: the session the server had is forgotten, not closed.
Accept ==
    /\ ServerAt("accept") /\ backlog # <<>>
    /\ session' = Head(backlog)
    /\ backlog' = Tail(backlog)
    /\ server' = "accepted"
    /\ early' = (early \/ p2pserver = "constructing")
    /\ UNCHANGED <<p2pserver, flag, on, listening, peers, clientPart, crashed,
                   heard, replies, silenced>>

\* session->recv begins, if the constructor has not reset session meanwhile.
Receive ==
    /\ ServerAt("accepted")
    /\ IF session = NULL
       THEN Crash
       ELSE /\ server' = "recv" /\ on' = session
            /\ UNCHANGED <<p2pserver, flag, session, listening, backlog, peers, clientPart,
                           crashed, history>>

\* Mutant: the thread stays with a peer for a second message.
HandleAgain ==
    /\ ServerAt("recv")
    /\ said[on] > 0 \/ on \in left
    /\ said' = [said EXCEPT ![on] = IF @ > 0 THEN @ - 1 ELSE @]
    /\ heard' = Append(heard, on)
    /\ server' = IF on \in left THEN "loop" ELSE "recv"
    /\ on' = IF on \in left THEN NULL ELSE on
    /\ UNCHANGED <<p2pserver, flag, session, listening, backlog, left, clientPart, crashed,
                   replies, early, silenced>>

\* Mutant: the session is over with its message.
HandleAndForget ==
    /\ ServerAt("recv")
    /\ said[on] > 0 \/ on \in left
    /\ said' = [said EXCEPT ![on] = IF @ > 0 THEN @ - 1 ELSE @]
    /\ heard' = Append(heard, on)
    /\ server' = "loop" /\ on' = NULL /\ session' = NULL
    /\ UNCHANGED <<p2pserver, flag, listening, backlog, left, clientPart, crashed,
                   replies, early, silenced>>

\* Mutant: the end of a peer is taken for a message.
HandleNothing ==
    /\ ServerAt("recv")
    /\ said[on] > 0 \/ on \in left
    /\ said' = [said EXCEPT ![on] = @ - 1]
    /\ heard' = Append(heard, on)
    /\ server' = "loop" /\ on' = NULL
    /\ UNCHANGED <<p2pserver, flag, session, listening, backlog, left, clientPart, crashed,
                   replies, early, silenced>>

\* One message is received and handled, or the end of a peer who has hung up.
Handle ==
    /\ ServerAt("recv")
    /\ said[on] > 0 \/ on \in left
    /\ said' = [said EXCEPT ![on] = IF @ > 0 THEN @ - 1 ELSE @]
    /\ heard' = Append(heard, on)
    /\ server' = "loop" /\ on' = NULL
    /\ UNCHANGED <<p2pserver, flag, session, listening, backlog, left, clientPart, crashed,
                   replies, early, silenced>>

ServerThread == Loop \/ Accept \/ Receive \/ Handle

-----------------------------------------------------------------------------
(* The thread of a client *)

ClientAt(k, place) == ~crashed /\ k \in Clients /\ client[k] = place

ClientGoes(k, to) ==
    /\ client' = [client EXCEPT ![k] = to]
    /\ UNCHANGED <<serverPart, peers, p2pclient, deleted, linked, crashed, history>>

\* Mutant: what has come is given up with the connection.
HandleLinked(k) ==
    /\ ClientAt(k, "recv") /\ k \in mail /\ k \in linked
    /\ ClientGoes(k, "handled")
    /\ mail' = mail \ {k}

\* One reply is received and handled; the ones behind it are not.
HandleReply(k) ==
    /\ ClientAt(k, "recv") /\ k \in mail
    /\ ClientGoes(k, "handled")
    /\ mail' = mail \ {k}

\* Without a connection recv returns -1 or 0, and '\0' is written in front of
\* the buffer or at its start.
ReceiveNothing(k) ==
    /\ ClientAt(k, "recv") /\ k \notin linked \cup mail
    /\ ClientGoes(k, "ended") /\ UNCHANGED mail

ClientThread(k) == HandleReply(k) \/ ReceiveNothing(k)

-----------------------------------------------------------------------------
(* The commands *)

InRecv(k) == k \in Clients /\ client[k] = "recv"

\* delete p2pclient: its destructors close the connection and cancel the
\* thread, which may have followed what was deleted if it was about to recv.
DeleteClient ==
    /\ deleted' = deleted \cup {p2pclient}
    /\ linked' = linked \ {p2pclient}
    /\ mail' = mail \ {p2pclient}

Cancelled ==
    IF p2pclient = NULL THEN client
    ELSE [client EXCEPT ![p2pclient] = IF @ = "recv" THEN "ended" ELSE @]

\* open always succeeds, whether the connection was made or not.
Open ==
    /\ Command /\ Len(client) < MaxClients
    /\ p2pclient \notin deleted
    /\ p2pclient' = Len(client) + 1
    /\ client' = Append(Cancelled, "recv")
    /\ deleted' = deleted \cup ({p2pclient} \ {NULL})
    /\ linked' \in {linked \ {p2pclient}, (linked \ {p2pclient}) \cup {p2pclient'}}
    /\ mail' = mail \ {p2pclient}
    /\ MayCrash(InRecv(p2pclient))
    /\ UNCHANGED <<serverPart, peers, history>>

\* isActiveClientSession asks for a descriptor, which every client has,
\* connected or not.
Send ==
    /\ Command /\ p2pclient \notin deleted \cup {NULL}
    /\ MayCrash(p2pclient \notin linked)
    /\ UNCHANGED <<serverPart, peers, clientPart, history>>

\* Mutant: the server keeps its first session.
ReplyToFirst ==
    /\ Command /\ p2pserver = "live" /\ p2pclient \notin deleted \cup {NULL}
    /\ IF session = NULL
       THEN UNCHANGED <<replies, crashed>>
       ELSE /\ Len(replies) < MaxReplies
            /\ replies' = Append(replies, IF heard = <<>> THEN session ELSE heard[1])
            /\ MayCrash(session \in left)
    /\ UNCHANGED <<serverPart, peers, clientPart, heard, early, silenced>>

\* reply looks for a client, and writes to the peer of the server part.
Reply ==
    /\ Command /\ p2pserver = "live" /\ p2pclient \notin deleted \cup {NULL}
    /\ IF session = NULL
       THEN UNCHANGED <<replies, crashed>>
       ELSE /\ Len(replies) < MaxReplies
            /\ replies' = Append(replies, session)
            /\ MayCrash(session \in left)
    /\ UNCHANGED <<serverPart, peers, clientPart, heard, early, silenced>>

\* A reply without a client follows NULL.
ReplyWithoutClient ==
    /\ Command /\ p2pserver # "null" /\ p2pclient = NULL
    /\ Crash

\* A command after close or a second close follows what was deleted.
UseDeleted ==
    /\ Command
    /\ p2pclient \in deleted \/ p2pserver = "deleted"
    /\ Crash

\* close deletes both parts and leaves the pointers.  The server's thread is
\* cancelled in a call that blocks; between two of them it calls
\* listenAndAccept, and follows the NULL it gets from the closed socket.
\* cliserver was never assigned, and is deleted as well.
CloseParts ==
    /\ p2pserver' = IF p2pserver = "live" THEN "deleted" ELSE p2pserver
    /\ flag' = (flag \/ p2pserver = "live")
    /\ server' = IF p2pserver = "live" THEN "end" ELSE server
    /\ silenced' = (silenced \/ p2pserver = "live")
    /\ client' = Cancelled
    /\ IF p2pclient = NULL THEN UNCHANGED <<deleted, linked, mail>> ELSE DeleteClient
    /\ MayCrash(p2pserver = "live" \/ InRecv(p2pclient))

Close ==
    /\ Command /\ p2pserver # "deleted" /\ p2pclient \notin deleted
    /\ CloseParts
    /\ UNCHANGED <<session, on, listening, backlog, peers, p2pclient, heard, replies, early>>

Main ==
    \/ InitServer \/ EndInit \/ Open \/ Send
    \/ Reply \/ ReplyWithoutClient \/ Close \/ UseDeleted

-----------------------------------------------------------------------------
(* The others: they connect, speak and leave; they answer our client *)

PeerConnects ==
    /\ ~crashed /\ listening /\ p2pserver # "deleted" /\ Len(said) < MaxPeers
    /\ said' = Append(said, 0)
    /\ backlog' = Append(backlog, Len(said'))
    /\ UNCHANGED <<p2pserver, flag, session, server, on, listening, left, clientPart, crashed,
                   history>>

PeerSpeaks(p) ==
    /\ ~crashed /\ p \in DOMAIN said /\ p \notin left /\ said[p] < MaxMessages
    /\ said' = [said EXCEPT ![p] = @ + 1]
    /\ UNCHANGED <<serverPart, left, clientPart, crashed, history>>

PeerLeaves(p) ==
    /\ ~crashed /\ p \in DOMAIN said /\ p \notin left
    /\ left' = left \cup {p}
    /\ UNCHANGED <<serverPart, said, clientPart, crashed, history>>

\* What comes to a client whose thread is done is never read.
ReplyComes(k) ==
    /\ ClientAt(k, "recv") /\ k \in linked \ mail
    /\ mail' = mail \cup {k}
    /\ UNCHANGED <<serverPart, peers, p2pclient, deleted, client, linked, crashed, history>>

LinkBreaks(k) ==
    /\ ~crashed /\ k \in linked
    /\ linked' = linked \ {k}
    /\ UNCHANGED <<serverPart, peers, p2pclient, deleted, client, mail, crashed, history>>

Others ==
    \/ PeerConnects
    \/ \E p \in Peer : PeerSpeaks(p) \/ PeerLeaves(p)
    \/ \E k \in Client : ReplyComes(k) \/ LinkBreaks(k)

Next ==
    \/ Main \/ ServerThread \/ Others
    \/ \E k \in Client : ClientThread(k)

Spec == Init /\ [][Next]_vars

\* The threads go on when they can, and a constructor that has begun ends.
FairSpec ==
    /\ Spec
    /\ WF_vars(EndInit) /\ WF_vars(ServerThread)
    /\ \A k \in Client : WF_vars(ClientThread(k))

-----------------------------------------------------------------------------
(* Properties *)

\* Every variable has its type.
TypeOK ==
    /\ p2pserver \in {"null", "constructing", "live", "deleted"}
    /\ flag \in BOOLEAN /\ listening \in BOOLEAN
    /\ server \in {"none", "loop", "accept", "accepted", "recv", "end"}
    /\ said \in Seq(0..MaxMessages) /\ Len(said) <= MaxPeers
    /\ session \in {NULL} \cup DOMAIN said
    /\ on \in {NULL} \cup DOMAIN said
    /\ backlog \in Seq(DOMAIN said) /\ left \subseteq DOMAIN said
    /\ client \in Seq({"recv", "handled", "ended"}) /\ Len(client) <= MaxClients
    /\ p2pclient \in {NULL} \cup Clients /\ deleted \subseteq Clients
    /\ linked \subseteq Clients /\ mail \subseteq Clients
    /\ crashed \in BOOLEAN
    /\ heard \in Seq(DOMAIN said) /\ replies \in Seq(DOMAIN said)
    /\ early \in BOOLEAN /\ silenced \in BOOLEAN

\* Of each peer one message is handled, and peer after peer as they connected:
\* whatever a peer says after that is never read.
HeardInOrder == \A i \in DOMAIN heard : heard[i] = i

\* The server forgets the peer it has accepted, or never accepts one, only if
\* it was used before it was constructed, or closed.
SessionLostOnlyBy ==
    /\ heard # <<>> /\ session = NULL => early
    /\ silenced /\ p2pserver # "deleted" => ~listening

\* A reply goes to the peer heard last, unless another has connected and was
\* accepted in between: then it goes to him, who has said nothing yet.
RepliesToLastHeard ==
    [][replies' # replies =>
        LET to == replies'[Len(replies')] IN
            \/ heard # <<>> /\ to = heard[Len(heard)]
            \/ server \in {"accepted", "recv"} /\ to \notin {heard[i] : i \in DOMAIN heard}]_vars

\* A program that does not delete anything, has its client connected and its
\* peers stay, and whose server was constructed in time, does not crash unless
\* it replies without a client.
CrashedOnlyBy ==
    crashed => \/ early \/ deleted # {} \/ p2pserver = "deleted"
               \/ p2pclient \notin linked
               \/ left # {}

Spoken(p) == p \in left \/ (p \in DOMAIN said /\ said[p] > 0)
Heard(p) == \E i \in DOMAIN heard : heard[i] = p

\* A peer who speaks is heard if all who connected before him have spoken: a
\* silent one keeps the thread in recv, for ever.
PeersAreHeard ==
    \A p \in Peer :
        (\A q \in 1..p : Spoken(q) \/ Heard(q)) ~> Heard(p) \/ silenced \/ crashed

Handled(k) == k \in Clients /\ client[k] = "handled"

\* The first reply that comes to a client in use is handled.
FirstReplyIsHandled ==
    \A k \in Client :
        k \in mail /\ InRecv(k) ~> k \in deleted \/ crashed \/ Handled(k)
=============================================================================

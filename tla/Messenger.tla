----------------------------- MODULE Messenger -----------------------------
(***************************************************************************)
(* The messenger's server: whose turn it is to read a connection.          *)
(*                                                                         *)
(* The dispatcher holds the clients that are in no session.  On            *)
(* OPEN_SESSION_WITH_PEER it starts a broker for the two and removes them  *)
(* from its vector; the broker relays what either says to the other, and   *)
(* gives them back with addPeer.  Every broker is a thread of its own, and *)
(* so are the server that accepts and the dispatcher.                      *)
(*                                                                         *)
(* A stream is a sequence of words: a command, and the length and text of  *)
(* a payload as one word.  A thread that expects a payload and finds a     *)
(* command, because another one has read the payload, is out of step with  *)
(* the stream for ever; the model stops there (scrambled).  A payload      *)
(* taken for a command is none: the text is longer than 6, the last        *)
(* command, and made of letters, a multiple of four of them; the reader    *)
(* goes through it in one step.                                            *)
(*                                                                         *)
(* A push on waitingPeers is one step here; PeerIntake takes the same code *)
(* apart.                                                                  *)
(***************************************************************************)
EXTENDS Naturals, Sequences, SequencesExt

CONSTANTS
    Socket,      \* connections, numbered as the server accepts them
    Broker,      \* brokers, numbered as the sessions are opened
    NoSocket,    \* NULL
    MaxSent      \* bound on what all clients do, their commands and hang-ups

ASSUME MessengerConstants ==
    /\ Socket \subseteq Nat /\ Broker \subseteq Nat
    /\ NoSocket \notin Socket
    /\ MaxSent \in Nat

VARIABLES
    waiting,     \* waitingPeers->sockets
    peers,       \* peers->sockets
    mtcp,        \* mtcp.sockets, local to an iteration of Dispatcher::run
    pcD,         \* where the dispatcher is
    cur,         \* the peer the dispatcher serves
    other,       \* the peer it opens a session with
    pcB,         \* where each broker is; "new" before it is made
    pair,        \* the two sockets of each broker
    brokerOn,    \* Broker::brokerOn
    from,        \* the socket each broker reads
    msg,         \* what readMessage left for sendMessage
    accepted,    \* connections the server has accepted
    inbox,       \* what each client has sent and the server not yet read
    hung,        \* the client has closed its socket
    closed,      \* what TCPMSNClient::closed may be: connect does not reset it
    sent,        \* commands and hang-ups of all clients
    received,    \* texts each client has been sent
    scrambled,   \* a thread is out of step with a stream
    crashed      \* the server process is dead

dispatcher == <<peers, mtcp, pcD, cur, other>>
brokers == <<pcB, pair, brokerOn, from, msg>>
clients == <<accepted, hung, closed, sent>>

vars == <<waiting, dispatcher, brokers, clients, inbox, received, scrambled, crashed>>

Command == [kind : {"open", "send", "close", "exit"}]
Target == [kind : {"target"}, of : Socket]
Text == [kind : {"text"}, by : Socket, nth : Nat]
Word == Command \cup Target \cup Text

NoText == [kind |-> "none"]

Init ==
    /\ waiting = <<>> /\ peers = <<>> /\ mtcp = <<>>
    /\ pcD = "copy" /\ cur = NoSocket /\ other = NoSocket
    /\ pcB = [b \in Broker |-> "new"]
    /\ pair = [b \in Broker |-> <<>>]
    /\ brokerOn = [b \in Broker |-> FALSE]
    /\ from = [b \in Broker |-> NoSocket]
    /\ msg = [b \in Broker |-> NoText]
    /\ accepted = {}
    /\ inbox = [s \in Socket |-> <<>>]
    /\ hung = [s \in Socket |-> FALSE]
    /\ closed = [s \in Socket |-> BOOLEAN]
    /\ sent = 0
    /\ received = [s \in Socket |-> <<>>]
    /\ scrambled = FALSE
    /\ crashed = FALSE

-----------------------------------------------------------------------------
(* Helpers *)

Readable(s) == inbox[s] # <<>> \/ hung[s]

\* MTCPListener::listen returns the first ready socket of the vector.
IsFirstReady(v, s) ==
    \E i \in DOMAIN v : /\ v[i] = s
                        /\ Readable(s)
                        /\ \A j \in 1..(i - 1) : ~Readable(v[j])

NoneReady(v) == \A i \in DOMAIN v : ~Readable(v[i])

\* getSocketIndex: the first place of a socket, by its address and port.
Place(v, s) == CHOOSE i \in DOMAIN v : v[i] = s /\ \A j \in 1..(i - 1) : v[j] # s

\* removePeer erases the first socket with the peer's address and port.
Removed(v, s) == IF s \in ToSet(v) THEN RemoveAt(v, Place(v, s)) ELSE v

Pop(s) == inbox' = [inbox EXCEPT ![s] = Tail(@)]

\* A write to clients one of whom has gone may raise SIGPIPE.
WriteTo(S) == crashed' \in {FALSE, \E s \in S : hung[s]}

-----------------------------------------------------------------------------
(* Server::run, TCPMSNServer::handlePeer and Dispatcher::addPeer *)

Accept(s) ==
    /\ s \notin accepted /\ \A t \in Socket : t < s => t \in accepted
    /\ accepted' = accepted \cup {s}
    /\ waiting' = Append(waiting, s)
    /\ UNCHANGED <<dispatcher, brokers, hung, closed, sent, inbox, received, scrambled, crashed>>

-----------------------------------------------------------------------------
(* Dispatcher::run *)

CopyPeers ==
    /\ pcD = "copy"
    /\ mtcp' = peers \o waiting
    /\ pcD' = "clear"
    /\ UNCHANGED <<waiting, peers, cur, other, brokers, clients, inbox, received,
                   scrambled, crashed>>

ClearWaiting ==
    /\ pcD = "clear"
    /\ peers' = mtcp
    /\ waiting' = <<>>
    /\ pcD' = "listen"
    /\ UNCHANGED <<mtcp, cur, other, brokers, clients, inbox, received, scrambled, crashed>>

EndIteration ==
    /\ mtcp' = <<>>
    /\ cur' = NoSocket
    /\ other' = NoSocket
    /\ pcD' = "copy"

Listen(s) ==
    /\ pcD = "listen"
    /\ IsFirstReady(mtcp, s)
    /\ cur' = s
    /\ pcD' = "read"
    /\ UNCHANGED <<waiting, peers, mtcp, other, brokers, clients, inbox, received,
                   scrambled, crashed>>

ListenTimeout ==
    /\ pcD = "listen"
    /\ NoneReady(mtcp)
    /\ EndIteration
    /\ UNCHANGED <<waiting, peers, brokers, clients, inbox, received, scrambled, crashed>>

\* Any command but OPEN_SESSION_WITH_PEER is dropped, its payload left.
ReadCommand ==
    /\ pcD = "read"
    /\ Readable(cur)
    /\ IF inbox[cur] = <<>>
       THEN EndIteration /\ UNCHANGED inbox
       ELSE /\ Pop(cur)
            /\ IF Head(inbox[cur]).kind = "open"
               THEN pcD' = "recv" /\ UNCHANGED <<mtcp, cur, other>>
               ELSE EndIteration
    /\ UNCHANGED <<waiting, peers, brokers, clients, received, scrambled, crashed>>

\* "Peer not found!", also when the payload never comes.
Refuse ==
    /\ EndIteration
    /\ WriteTo({cur})
    /\ UNCHANGED <<peers, brokers, scrambled>>

\* BrokerManager::createBroker starts the broker's thread at once.
CreateBroker(b, target) ==
    /\ pcB[b] = "new" /\ \A c \in Broker : c < b => pcB[c] # "new"
    /\ pcB' = [pcB EXCEPT ![b] = "listen"]
    /\ pair' = [pair EXCEPT ![b] = <<cur, target>>]
    /\ brokerOn' = [brokerOn EXCEPT ![b] = TRUE]
    /\ other' = target
    /\ pcD' = "remove"
    /\ UNCHANGED <<peers, mtcp, cur, from, msg, scrambled, crashed>>

Scramble ==
    /\ scrambled' = TRUE
    /\ UNCHANGED <<dispatcher, brokers, crashed>>

ReceiveTarget ==
    /\ pcD = "recv"
    /\ Readable(cur)
    /\ IF inbox[cur] = <<>>
       THEN Refuse /\ UNCHANGED inbox
       ELSE LET word == Head(inbox[cur]) IN
            /\ Pop(cur)
            /\ \/ word \notin Target /\ Scramble
               \/ word \in Target /\ word.of \notin ToSet(peers) /\ Refuse
               \/ /\ word \in Target /\ word.of \in ToSet(peers)
                  /\ \E b \in Broker : CreateBroker(b, word.of)
    /\ UNCHANGED <<waiting, clients, received>>

\* Mutant: the requester alone is removed.
RemoveRequester ==
    /\ pcD = "remove"
    /\ peers' = Removed(peers, cur)
    /\ WriteTo({cur, other})
    /\ EndIteration
    /\ UNCHANGED <<waiting, brokers, clients, inbox, received, scrambled>>

\* Both are told SESSION_ESTABLISHED and removed, the second by the index it
\* had before the first was erased.  Past the end of the vector that place
\* still holds what was the last socket.
RemovePair ==
    /\ pcD = "remove"
    /\ LET index == Place(peers, other)
           rest == Removed(peers, cur)
           second == IF index \in DOMAIN rest THEN rest[index] ELSE peers[Len(peers)]
       IN  /\ peers' = Removed(rest, second)
           /\ WriteTo({cur, second})
    /\ EndIteration
    /\ UNCHANGED <<waiting, brokers, clients, inbox, received, scrambled>>

-----------------------------------------------------------------------------
(* Broker::run *)

\* Mutant: the two are swapped.
ToSpeaker(b) == IF from[b] = pair[b][1] THEN pair[b][1] ELSE pair[b][2]

\* The other one of the two.
To(b) == IF from[b] = pair[b][1] THEN pair[b][2] ELSE pair[b][1]

Goto(b, label) == pcB' = [pcB EXCEPT ![b] = label]

BrokerListen(b, s) ==
    /\ pcB[b] = "listen"
    /\ IsFirstReady(pair[b], s)
    /\ from' = [from EXCEPT ![b] = s]
    /\ Goto(b, "read")
    /\ UNCHANGED <<waiting, dispatcher, pair, brokerOn, msg, clients, inbox, received,
                   scrambled, crashed>>

\* Mutant: after a timeout the broker goes on.
BrokerGoesOn(b) ==
    /\ pcB[b] = "listen"
    /\ NoneReady(pair[b])
    /\ from' = [from EXCEPT ![b] = NoSocket]
    /\ Goto(b, "read")
    /\ UNCHANGED <<waiting, dispatcher, pair, brokerOn, msg, clients, inbox, received,
                   scrambled, crashed>>

\* Three seconds without a word: the loop that listens again does not keep
\* what it hears.
BrokerTimeout(b) ==
    /\ pcB[b] = "listen"
    /\ NoneReady(pair[b])
    /\ from' = [from EXCEPT ![b] = NoSocket]
    /\ Goto(b, "deaf")
    /\ UNCHANGED <<waiting, dispatcher, pair, brokerOn, msg, clients, inbox, received,
                   scrambled, crashed>>

\* readMessage's command.  Nothing to read, and the broker listens again; else
\* it goes on to sendMessage, whatever the command was.
ReadWord(b) ==
    /\ pcB[b] = "read"
    /\ Readable(from[b])
    /\ IF inbox[from[b]] = <<>>
       THEN Goto(b, "listen") /\ UNCHANGED <<inbox, waiting, brokerOn>>
       ELSE LET kind == Head(inbox[from[b]]).kind IN
            /\ Pop(from[b])
            /\ \/ kind = "send" /\ Goto(b, "text") /\ UNCHANGED <<waiting, brokerOn>>
               \/ /\ kind = "exit"
                  /\ waiting' = Append(waiting, To(b))
                  /\ brokerOn' = [brokerOn EXCEPT ![b] = FALSE]
                  /\ Goto(b, "relay")
               \/ /\ kind = "close"
                  /\ waiting' = Append(waiting, from[b])
                  /\ Goto(b, "closing") /\ UNCHANGED brokerOn
               \/ /\ kind \in {"open", "target", "text"}
                  /\ Goto(b, "relay") /\ UNCHANGED <<waiting, brokerOn>>
    /\ UNCHANGED <<dispatcher, pair, from, clients, received, scrambled, crashed>>

\* Mutant: msg is not emptied.
ReadOver(b) == ReadWord(b) /\ UNCHANGED msg

\* readMessage empties msg before it reads.
ReadMessage(b) == ReadWord(b) /\ msg' = [msg EXCEPT ![b] = NoText]

\* CLOSE_SESSION_WITH_PEER gives back the other one too, and the broker stays.
ReturnOther(b) ==
    /\ pcB[b] = "closing"
    /\ waiting' = Append(waiting, To(b))
    /\ Goto(b, "relay")
    /\ UNCHANGED <<dispatcher, pair, brokerOn, from, msg, clients, inbox, received,
                   scrambled, crashed>>

ReadText(b) ==
    /\ pcB[b] = "text"
    /\ Readable(from[b])
    /\ IF inbox[from[b]] = <<>>
       THEN Goto(b, "relay") /\ UNCHANGED <<inbox, msg, scrambled>>
       ELSE LET word == Head(inbox[from[b]]) IN
            /\ Pop(from[b])
            /\ IF word \in Text
               THEN /\ msg' = [msg EXCEPT ![b] = word]
                    /\ Goto(b, "relay") /\ UNCHANGED scrambled
               ELSE scrambled' = TRUE /\ UNCHANGED <<pcB, msg>>
    /\ UNCHANGED <<waiting, dispatcher, pair, brokerOn, from, clients, received, crashed>>

\* Mutant: the broker's loop ends with its first message.
SendMessageOnce(b) ==
    /\ pcB[b] = "relay"
    /\ received' = IF msg[b] = NoText THEN received
                   ELSE [received EXCEPT ![To(b)] = Append(@, msg[b])]
    /\ WriteTo({To(b)})
    /\ Goto(b, "done")
    /\ UNCHANGED <<waiting, dispatcher, pair, brokerOn, from, msg, clients, inbox,
                   scrambled>>

\* sendMessage.  Without a text it is an empty message, which is not kept here.
SendMessage(b) ==
    /\ pcB[b] = "relay"
    /\ received' = IF msg[b] = NoText THEN received
                   ELSE [received EXCEPT ![To(b)] = Append(@, msg[b])]
    /\ WriteTo({To(b)})
    /\ Goto(b, IF brokerOn[b] THEN "listen" ELSE "done")
    /\ UNCHANGED <<waiting, dispatcher, pair, brokerOn, from, msg, clients, inbox,
                   scrambled>>

-----------------------------------------------------------------------------
(* TCPMSNClient.  A user may give any command at any time. *)

Sends(s, words) ==
    /\ s \in accepted
    /\ ~hung[s]
    /\ sent < MaxSent
    /\ sent' = sent + 1
    /\ inbox' = [inbox EXCEPT ![s] = @ \o words]
    /\ UNCHANGED <<waiting, dispatcher, brokers, accepted, received, scrambled, crashed>>

OpenSession(s, t) ==
    /\ Sends(s, <<[kind |-> "open"], [kind |-> "target", of |-> t]>>)
    /\ UNCHANGED <<hung, closed>>

SendText(s) ==
    /\ Sends(s, <<[kind |-> "send"], [kind |-> "text", by |-> s, nth |-> sent]>>)
    /\ UNCHANGED <<hung, closed>>

CloseSession(s) ==
    /\ Sends(s, <<[kind |-> "close"]>>)
    /\ closed' = [closed EXCEPT ![s] = {TRUE}]
    /\ UNCHANGED hung

\* disconnect closes the session too, unless it has been closed before.
Disconnect(s) ==
    /\ \E over \in closed[s] :
          Sends(s, IF over THEN <<[kind |-> "exit"]>>
                   ELSE <<[kind |-> "exit"], [kind |-> "close"]>>)
    /\ closed' = [closed EXCEPT ![s] = {TRUE}]
    /\ hung' = [hung EXCEPT ![s] = TRUE]

\* The command line's "x", or the client's death: not a word is sent.
HangUp(s) ==
    /\ Sends(s, <<>>)
    /\ hung' = [hung EXCEPT ![s] = TRUE]
    /\ UNCHANGED closed

-----------------------------------------------------------------------------
Dispatcher ==
    \/ CopyPeers \/ ClearWaiting \/ ListenTimeout \/ ReadCommand \/ ReceiveTarget
    \/ RemovePair
    \/ \E s \in Socket : Listen(s)

BrokerRun(b) ==
    \/ BrokerTimeout(b) \/ ReadMessage(b) \/ ReturnOther(b) \/ ReadText(b)
    \/ SendMessage(b)
    \/ \E s \in Socket : BrokerListen(b, s)

Client(s) ==
    \/ \E t \in Socket : OpenSession(s, t)
    \/ SendText(s) \/ CloseSession(s) \/ Disconnect(s) \/ HangUp(s)

Running == ~crashed /\ ~scrambled

Next ==
    /\ Running
    /\ \/ Dispatcher
       \/ \E b \in Broker : BrokerRun(b)
       \/ \E s \in Socket : Accept(s) \/ Client(s)

Spec == Init /\ [][Next]_vars

\* The dispatcher's and the brokers' threads go on when they can; clients need
\* not do anything.
FairSpec ==
    /\ Spec
    /\ WF_vars(Running /\ Dispatcher)
    /\ \A b \in Broker : WF_vars(Running /\ BrokerRun(b))

-----------------------------------------------------------------------------
(* Properties *)

\* Every variable has its type; a broker that reads has somebody to read.
TypeOK ==
    /\ waiting \in Seq(Socket) /\ peers \in Seq(Socket) /\ mtcp \in Seq(Socket)
    /\ pcD \in {"copy", "clear", "listen", "read", "recv", "remove"}
    /\ cur \in Socket \cup {NoSocket} /\ other \in Socket \cup {NoSocket}
    /\ pcD \in {"read", "recv", "remove"} => cur # NoSocket
    /\ pcD = "remove" => other # NoSocket
    /\ pcB \in [Broker -> {"new", "listen", "deaf", "read", "closing", "text", "relay", "done"}]
    /\ pair \in [Broker -> Seq(Socket)]
    /\ brokerOn \in [Broker -> BOOLEAN]
    /\ from \in [Broker -> Socket \cup {NoSocket}]
    /\ \A b \in Broker : /\ pcB[b] # "new" => Len(pair[b]) = 2
                         /\ pcB[b] \in {"read", "closing", "text", "relay"} =>
                              from[b] # NoSocket
    /\ msg \in [Broker -> Text \cup {NoText}]
    /\ accepted \subseteq Socket
    /\ inbox \in [Socket -> Seq(Word)]
    /\ hung \in [Socket -> BOOLEAN] /\ closed \in [Socket -> SUBSET BOOLEAN]
    /\ sent \in 0..MaxSent
    /\ received \in [Socket -> Seq(Text)]
    /\ scrambled \in BOOLEAN /\ crashed \in BOOLEAN

\* The dispatcher will select on s (again).
DispatcherHolds(s) ==
    \/ s \in ToSet(waiting)
    \/ s \in ToSet(peers) \cup ToSet(mtcp) /\ ~(pcD = "remove" /\ s \in {cur, other})

BrokerHolds(b, s) == brokerOn[b] /\ s \in ToSet(pair[b])

Shared(s) ==
    \/ DispatcherHolds(s) /\ \E b \in Broker : BrokerHolds(b, s)
    \/ \E b, c \in Broker : b # c /\ BrokerHolds(b, s) /\ BrokerHolds(c, s)

\* The requester stands before the other one in peers, who is not the last.
Shifted ==
    /\ pcD = "remove"
    /\ Place(peers, cur) <= Place(peers, other)
    /\ Place(peers, other) < Len(peers)

\* The dispatcher has been given s a second time while it held s.
Twice(s) ==
    LET held == peers \o waiting
    IN  \E i, j \in DOMAIN held : i # j /\ held[i] = s /\ held[j] = s

\* Two threads read one connection only after CLOSE_SESSION, after a session
\* has been opened by somebody who stands before the other in peers, or for a
\* connection that was returned twice (Broker.cpp:91-95, Dispatcher.cpp:131).
SharedOnlyBy ==
    [][\A s \in Socket : ~Shared(s) /\ Shared(s)' =>
        \/ Shifted
        \/ pcD \in {"recv", "remove"} /\ Twice(s)
        \/ \E b \in Broker : /\ pcB'[b] = "closing" \/ pcB[b] = "closing"
                            /\ s \in ToSet(pair[b])]_vars

\* Some thread listens to s, or will.
Cared(s) ==
    \/ s \in ToSet(waiting) \cup ToSet(peers) \cup ToSet(mtcp)
    \/ \E b \in Broker : BrokerHolds(b, s) /\ pcB[b] # "deaf"

\* A client who is still there comes to be listened to by nobody in three ways
\* only: it was returned or accepted while the dispatcher cleared waitingPeers
\* (Dispatcher.cpp:75); it stood behind a pair that was removed by a stale
\* index (Dispatcher.cpp:131); or it is left to a broker that has waited three
\* seconds for a word (Broker.cpp:106-107).
StrandedOnlyBy ==
    [][\A s \in Socket : Cared(s) /\ ~Cared(s)' =>
        \/ hung[s] \/ pcD = "clear" \/ Shifted
        \/ \E b \in Broker : BrokerHolds(b, s)' /\ pcB'[b] = "deaf"]_vars

\* No text is relayed twice, to whomever, however many brokers read a
\* connection: readMessage empties msg before it reads (Broker.cpp:46).
RelayedOnce ==
    \A s, t \in Socket : \A i \in DOMAIN received[s], j \in DOMAIN received[t] :
        received[s][i] = received[t][j] => s = t /\ i = j

\* A thread has come to read what another one has taken.
Deprived(b) == pcB[b] \in {"read", "text"} /\ ~Readable(from[b])

\* b reads what s says, and nobody else does; it waits for nothing in vain; and
\* it hears s although listen returns the first of the two that is ready, which
\* one that has hung up is for ever.
Attends(b, s) ==
    /\ BrokerHolds(b, s) /\ pcB[b] # "deaf" /\ ~Deprived(b)
    /\ \A t \in ToSet(pair[b]) : ~Shared(t)
    /\ s = pair[b][2] => s = pair[b][1] \/ ~hung[pair[b][1]]

IsText(word, n) == word.kind = "text" /\ word.nth = n

\* The n-th command is a text, and nobody has begun to read it.
Said(n) ==
    \E s \in Socket : \E i \in 2..Len(inbox[s]) :
        IsText(inbox[s][i], n) /\ inbox[s][i - 1].kind = "send"

Unattended(n) ==
    \E s \in Socket : /\ \E i \in DOMAIN inbox[s] : IsText(inbox[s][i], n)
                      /\ \A b \in Broker : ~Attends(b, s)

\* The text of one of a pair has been sent to the other one.
Heard(n) ==
    \E b \in Broker : \E i \in DOMAIN pair[b] :
        \E j \in DOMAIN received[pair[b][i]] :
            LET text == received[pair[b][i]][j]
            IN  text.nth = n /\ text.by = pair[b][3 - i]

\* What is said in a session is heard by the other one, unless the session ends,
\* is given back or is cut off behind one who has hung up while the text is still
\* unread.  Once a broker has read it, nothing but the server's end stops it.
SaidIsHeard ==
    \A n \in 0..(MaxSent - 1) : Said(n) ~> Heard(n) \/ Unattended(n) \/ ~Running

\* "remove the peer that requested to open session", "remove the other peer"
\* (Dispatcher.cpp:130-132): once a session is open the dispatcher's vector
\* holds neither of the two.
PairIsRemoved ==
    [][pcD = "remove" /\ pcD' = "copy" => {cur, other} \cap ToSet(peers') = {}]_vars
=============================================================================

-------------------------- MODULE MessengerClient --------------------------
(***************************************************************************)
(* The messenger's client: the main thread, which runs the commands of the *)
(* command line, and the reader threads, which take from the connection    *)
(* what the server sends and hand each text to the handler.                *)
(*                                                                         *)
(* All of them use one pointer, socket, without a mutex.  Every connect    *)
(* starts one more reader; every recv of a reader looks at socket anew, so *)
(* that a text may be taken by two readers or from two connections.        *)
(*                                                                         *)
(* The server (see Messenger) sends answers to OPEN_SESSION_WITH_PEER and  *)
(* texts: the word SEND_MSG_TO_PEER, a length and the text, in three       *)
(* writes.  The dispatcher and any number of brokers may write to one      *)
(* connection, and nothing keeps them from writing between one another's   *)
(* words, so every text here is sent by a thread of its own.  A text is a  *)
(* number of whole words of four bytes.                                    *)
(***************************************************************************)
EXTENDS Naturals, Sequences, FiniteSets

CONSTANTS
    Lengths,        \* words a text may have
    Wild,           \* a length that is none
    MaxConnects,    \* bound on the connections made
    MaxThreads,     \* bound on the readers started and the texts sent, together
    MaxWaiting      \* bound on the words unread when the server answers

ASSUME ClientConstants ==
    /\ Lengths \subseteq Nat
    /\ Wild \notin Nat
    /\ MaxConnects \in Nat /\ MaxThreads \in Nat /\ MaxWaiting \in Nat

VARIABLES
    socket,     \* the connection in use, or NULL
    connected, closed,
    readers,    \* reader threads: where, blocked in read on what, with what length
    inbox,      \* of each connection, what the server sent and nobody has read
    sending,    \* of each text, the connection it goes to and what is still to come
    hungup,     \* connections the client has closed
    gone,       \* connections whose other end is gone
    crashed,    \* the client is dead
    \* history, read by the properties alone
    session,    \* of socket: shut, open, or opened after an earlier close
    texts,      \* words of each text the server began to send
    torn,       \* something was sent in the middle of a text
    handled     \* what onMessageRecieved was given, in order

server == <<sending, texts, torn>>
history == <<session, handled>>
vars == <<socket, connected, closed, readers, inbox, hungup, gone, crashed, server, history>>

NULL == 0
Connection == 1..MaxConnects
Made == 1..Len(inbox)
Init ==
    /\ socket = NULL
    /\ connected = FALSE /\ closed = FALSE
    /\ readers = <<>>
    /\ inbox = <<>>
    /\ hungup = {} /\ gone = {}
    /\ crashed = FALSE
    /\ sending = <<>> /\ texts = <<>> /\ torn = FALSE
    /\ session = "shut" /\ handled = <<>>

-----------------------------------------------------------------------------
(* Words on a connection *)

Send == [is |-> "send", n |-> 0]
Answer == [is |-> "answer", n |-> 0]
Length(n) == [is |-> "length", n |-> n]
Chunk(t) == [is |-> "chunk", n |-> t]

\* The words of text t.
Text(t) == [i \in 1..texts[t] |-> Chunk(t)]

\* Mutant: an answer has data too.
IsAnyMsg(w) == w = Send \/ w = Length(1) \/ w = Answer

\* readcommand takes the word as it is: SESSION_ESTABLISHED and
\* SESSION_REFUSED come in network order, and are no command to it.  The
\* length of a text of four bytes would be SEND_MSG_TO_PEER.
IsSendMsg(w) == w = Send \/ w = Length(1)

\* What any word is as a length; letters and answers are no length.
AsLength(w) == IF w.is = "length" THEN w.n ELSE IF w = Send THEN 1 ELSE Wild

-----------------------------------------------------------------------------
(* The main thread *)

Reader == [at |-> "start", on |-> NULL, len |-> 0]

Thread == 1..MaxThreads

\* Room for one more thread, of the client or the server.
MayStart == Len(readers) + Len(texts) < MaxThreads

\* MThread::start.
StartReader ==
    /\ MayStart
    /\ readers' = Append(readers, Reader)

\* TCPMSNServerTest starts the client and connects it then; the command line
\* connects it at once.
Start ==
    /\ ~crashed /\ readers = <<>>
    /\ StartReader
    /\ UNCHANGED <<socket, connected, closed, inbox, hungup, gone, crashed, server, history>>

\* Mutant: no reader is started.
ConnectUnread ==
    /\ ~crashed /\ Len(inbox) < MaxConnects
    /\ inbox' = Append(inbox, <<>>)
    /\ socket' = Len(inbox')
    /\ connected' = TRUE
    /\ session' = "shut"
    /\ \/ gone' = gone
       \/ gone = Made /\ gone' = gone \cup {socket'}
    /\ UNCHANGED <<closed, readers, hungup, crashed, server, handled>>

\* A new socket is never NULL, so connect says that it succeeded, whether
\* there is a server or not (the one that serves another connection is there).
\* The socket it had is forgotten, not closed.
Connect ==
    /\ ~crashed /\ Len(inbox) < MaxConnects
    /\ inbox' = Append(inbox, <<>>)
    /\ socket' = Len(inbox')
    /\ connected' = TRUE
    /\ session' = "shut"
    /\ \/ gone' = gone
       \/ gone = Made /\ gone' = gone \cup {socket'}
    /\ StartReader
    /\ UNCHANGED <<closed, hungup, crashed, server, handled>>

\* sendCommand follows socket without a look at it; a write to a server that
\* is gone may raise SIGPIPE.
SendCommand ==
    /\ ~crashed /\ Made # {}
    /\ \/ crashed' = (socket = NULL)
       \/ socket \in gone /\ crashed' = TRUE

OpenSession ==
    /\ SendCommand
    /\ session' = IF closed THEN "reopened" ELSE "open"
    /\ UNCHANGED <<socket, connected, closed, readers, inbox, hungup, gone, server, handled>>

SendMessage ==
    /\ SendCommand
    /\ UNCHANGED <<socket, connected, closed, readers, inbox, hungup, gone, server, history>>

CloseSession ==
    /\ SendCommand
    /\ session' = "shut"
    /\ closed' = TRUE
    /\ UNCHANGED <<socket, connected, readers, inbox, hungup, gone, server, handled>>

\* Mutant: the session is left to the server.
DisconnectOnly ==
    /\ SendCommand
    /\ hungup' = hungup \cup ({socket} \ {NULL})
    /\ socket' = NULL
    /\ UNCHANGED <<connected, closed, readers, inbox, gone, server, history>>

\* Mutant: the pointer is cleared before the connection is closed.
DisconnectNull ==
    /\ SendCommand
    /\ session' = IF closed THEN session ELSE "shut"
    /\ closed' = TRUE
    /\ socket' = NULL
    /\ hungup' = hungup \cup {socket'}
    /\ UNCHANGED <<connected, readers, inbox, gone, server, handled>>

\* disconnect sends EXIT, and CLOSE_SESSION_WITH_PEER behind it if none was
\* ever sent, then closes the connection and deletes the socket its readers
\* use.  connected stays: the line that resets it is for a client without a
\* socket, who has crashed in the first line.
Disconnect ==
    /\ SendCommand
    /\ session' = IF closed THEN session ELSE "shut"
    /\ closed' = TRUE
    /\ hungup' = hungup \cup ({socket} \ {NULL})
    /\ socket' = NULL
    /\ UNCHANGED <<connected, readers, inbox, gone, server, handled>>

Main ==
    \/ Start \/ Connect
    \/ OpenSession \/ SendMessage \/ CloseSession \/ Disconnect

-----------------------------------------------------------------------------
(* A reader thread *)

At(r, place) == ~crashed /\ r \in DOMAIN readers /\ readers[r].at = place

Become(r, at, on, len) == readers' = [readers EXCEPT ![r] = [at |-> at, on |-> on, len |-> len]]

NoChangeButReader ==
    UNCHANGED <<socket, connected, closed, hungup, gone, session, server>>

\* The loop of run: connected is looked at between two commands.
Loop(r) ==
    /\ At(r, "start")
    /\ Become(r, IF connected THEN "command" ELSE "end", NULL, 0)
    /\ NoChangeButReader /\ UNCHANGED <<inbox, crashed, handled>>

Receiving == {"command", "length", "text"}

\* recv begins: it follows socket, and blocks in read on that connection.
Call(r) ==
    /\ ~crashed /\ r \in DOMAIN readers
    /\ readers[r].at \in Receiving /\ readers[r].on = NULL
    /\ IF socket = NULL
       THEN crashed' = TRUE /\ UNCHANGED readers
       ELSE /\ readers' = [readers EXCEPT ![r].on = socket]
            /\ UNCHANGED crashed
    /\ NoChangeButReader /\ UNCHANGED <<inbox, handled>>

\* r is in read at a place, and the connection has something to read.
Reads(r, place) ==
    /\ At(r, place) /\ readers[r].on # NULL
    /\ inbox[readers[r].on] # <<>>

Word(r) == Head(inbox[readers[r].on])
Take(r, n) == inbox' = [inbox EXCEPT ![readers[r].on] = SubSeq(@, n + 1, Len(@))]

\* Mutant: the length is not read.
TakeCommandAndLength(r) ==
    /\ Reads(r, "command")
    /\ Take(r, 1)
    /\ Become(r, IF IsSendMsg(Word(r)) THEN "text" ELSE "start", NULL, 1)
    /\ NoChangeButReader /\ UNCHANGED <<crashed, handled>>

TakeCommand(r) ==
    /\ Reads(r, "command")
    /\ Take(r, 1)
    /\ Become(r, IF IsSendMsg(Word(r)) THEN "length" ELSE "start", NULL, 0)
    /\ NoChangeButReader /\ UNCHANGED <<crashed, handled>>

TakeLength(r) ==
    /\ Reads(r, "length")
    /\ Take(r, 1)
    /\ Become(r, "text", NULL, AsLength(Word(r)))
    /\ NoChangeButReader /\ UNCHANGED <<crashed, handled>>

\* The handler keeps the last text; here all of them are kept.
onMessageRecieved(text) == handled' = Append(handled, text)

\* No byte is asked for, and none is waited for.
TakeNothing(r) ==
    /\ At(r, "text") /\ readers[r].on # NULL /\ readers[r].len = 0
    /\ onMessageRecieved(<<>>)
    /\ Become(r, "start", NULL, 0)
    /\ NoChangeButReader /\ UNCHANGED <<inbox, crashed>>

\* recv takes what there is, up to the length; buff[len] = '\0' is far outside
\* the buffer when the length is none.
TakeText(r) ==
    LET waiting == inbox[readers[r].on]
        asked == readers[r].len
        n == IF asked < Len(waiting) THEN asked ELSE Len(waiting)
    IN
    /\ Reads(r, "text")
    /\ IF asked = Wild
       THEN crashed' = TRUE /\ UNCHANGED <<readers, inbox, handled>>
       ELSE /\ asked > 0
            /\ onMessageRecieved(SubSeq(waiting, 1, n))
            /\ Take(r, n)
            /\ Become(r, "start", NULL, 0)
            /\ UNCHANGED crashed
    /\ NoChangeButReader

\* read returns 0 at the end of the stream.  The command is asked for again,
\* for ever; a length stays 0, and a text is whatever the buffer held.
EndOfStream(r) ==
    LET on == readers[r].on IN
    /\ ~crashed /\ r \in DOMAIN readers /\ on # NULL
    /\ on \in gone /\ inbox[on] = <<>>
    /\ \/ At(r, "command") /\ Become(r, "command", NULL, 0) /\ UNCHANGED <<handled, crashed>>
       \/ At(r, "length") /\ Become(r, "text", NULL, 0) /\ UNCHANGED <<handled, crashed>>
       \/ /\ At(r, "text") /\ readers[r].len # 0
          /\ IF readers[r].len = Wild
             THEN crashed' = TRUE /\ UNCHANGED <<readers, handled>>
             ELSE /\ onMessageRecieved(<<>>)
                  /\ Become(r, "start", NULL, 0)
                  /\ UNCHANGED crashed
    /\ NoChangeButReader /\ UNCHANGED inbox

\* read returns -1 when the connection was closed before it began.  The
\* command is asked for again, the rest of a message is given up.
ReadFails(r) ==
    /\ ~crashed /\ r \in DOMAIN readers
    /\ readers[r].on \in hungup
    /\ Become(r, IF readers[r].at = "command" THEN "command" ELSE "start", NULL, 0)
    /\ NoChangeButReader /\ UNCHANGED <<inbox, crashed, handled>>

ReadCommand(r) ==
    \/ Call(r)
    \/ TakeCommand(r) \/ TakeLength(r) \/ TakeText(r) \/ TakeNothing(r)
    \/ EndOfStream(r) \/ ReadFails(r)

Run(r) == Loop(r) \/ ReadCommand(r)

-----------------------------------------------------------------------------
(* The server *)

Serves(c) == ~crashed /\ c \in Made \ gone

Sends(c, words) == inbox' = [inbox EXCEPT ![c] = @ \o words]

\* A text is on its way to c.
Unfinished(c) == \E t \in DOMAIN sending : sending[t].on = c /\ sending[t].next # "nothing"

NoChangeByServer ==
    UNCHANGED <<socket, connected, closed, readers, hungup, gone, crashed, history>>

\* Dispatcher::sendFeedback.
SendAnswer(c) ==
    /\ Serves(c)
    /\ Len(inbox[c]) < MaxWaiting
    /\ Sends(c, <<Answer>>)
    /\ torn' = (torn \/ Unfinished(c))
    /\ NoChangeByServer /\ UNCHANGED <<sending, texts>>

\* The three writes of Broker::sendMessage.
SendCmd(c, n) ==
    /\ Serves(c)
    /\ MayStart
    /\ Sends(c, <<Send>>)
    /\ texts' = Append(texts, n)
    /\ sending' = Append(sending, [on |-> c, next |-> "length"])
    /\ torn' = (torn \/ Unfinished(c))
    /\ NoChangeByServer

\* The server is about to send a part of text t.
IsNext(t, part) ==
    /\ t \in DOMAIN sending
    /\ sending[t].next = part
    /\ Serves(sending[t].on)

\* After the length 0 the third write sends nothing.
SendLength(t) ==
    /\ IsNext(t, "length")
    /\ Sends(sending[t].on, <<Length(texts[t])>>)
    /\ sending' = [sending EXCEPT ![t].next = IF texts[t] = 0 THEN "nothing" ELSE "text"]
    /\ NoChangeByServer /\ UNCHANGED <<texts, torn>>

SendText(t) ==
    /\ IsNext(t, "text")
    /\ Sends(sending[t].on, Text(t))
    /\ sending' = [sending EXCEPT ![t].next = "nothing"]
    /\ NoChangeByServer /\ UNCHANGED <<texts, torn>>

\* The server ends, or the network.
ServerGoes ==
    /\ ~crashed /\ Made # gone
    /\ gone' = Made
    /\ UNCHANGED <<socket, connected, closed, readers, inbox, hungup, crashed, server, history>>

Server ==
    \/ \E c \in Made : SendAnswer(c) \/ \E n \in Lengths : SendCmd(c, n)
    \/ \E t \in Thread : SendLength(t) \/ SendText(t)
    \/ ServerGoes

Next == Main \/ Server \/ \E r \in Thread : Run(r)

Spec == Init /\ [][Next]_vars

\* A reader that can go on does.
FairSpec == Spec /\ \A r \in Thread : WF_vars(Run(r))

-----------------------------------------------------------------------------
(* Properties *)

Words == [is : {"send", "answer", "length", "chunk"}, n : Nat]

\* Every variable has its type.
TypeOK ==
    /\ socket \in {NULL} \cup Made
    /\ connected \in BOOLEAN /\ closed \in BOOLEAN
    /\ readers \in Seq([at : Receiving \cup {"start", "end"}, on : {NULL} \cup Made,
                        len : Nat \cup {Wild}])
    /\ inbox \in Seq(Seq(Words)) /\ Len(inbox) <= MaxConnects
    /\ hungup \subseteq Made /\ gone \subseteq Made
    /\ crashed \in BOOLEAN
    /\ session \in {"shut", "open", "reopened"}
    /\ texts \in Seq(Lengths)
    /\ sending \in Seq([on : Made, next : {"length", "text", "nothing"}])
    /\ Len(sending) = Len(texts)
    /\ torn \in BOOLEAN
    /\ handled \in Seq(Seq(Words))

\* Threads that read or may begin to.
Active == {r \in DOMAIN readers : readers[r].at # "end"}

\* Text t has been sent to its last word.
Whole(t) == t \in DOMAIN sending /\ sending[t].next = "nothing"

\* What the handler is given are the texts the server sent, whole and in
\* order, as long as no second reader was started and nothing was written in
\* the middle of a text (Broker.cpp:29-37).  A server that goes cuts off the
\* text it is sending, and no other.
WholeInOrder ==
    Cardinality(Active) <= 1 /\ ~torn =>
        /\ Len(handled) <= Len(texts)
        /\ \A i \in DOMAIN handled : Whole(i) => handled[i] = Text(i)

\* The client crashes in four ways only: after disconnect, by the NULL it leaves
\* behind; by a write to a server that is gone; when two readers share a text;
\* when something was written in the middle of a text.
CrashedOnlyBy ==
    crashed => socket = NULL \/ socket \in gone \/ Cardinality(Active) > 1 \/ torn

\* A session that was opened is closed when the client hangs up, unless one
\* had been closed before it, on this connection or an earlier one: nothing
\* resets closed.
ClosedAtHangUp ==
    [][hungup' # hungup /\ session = "open" => session' = "shut"]_vars

\* While the client keeps its connection, and has one reader, every text that
\* was sent whole is given to the handler, though the server be gone by then,
\* unless something was written in the middle of a text.
TextsAreHandled ==
    \A t \in 1..(MaxThreads - 1) :
        Whole(t) ~>
            \/ Len(handled) >= t
            \/ crashed \/ socket = NULL \/ Cardinality(Active) > 1 \/ torn
=============================================================================

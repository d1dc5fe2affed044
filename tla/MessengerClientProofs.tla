----------------------- MODULE MessengerClientProofs -----------------------
(***************************************************************************)
(* What is proved of MessengerClient for texts of any number and length,   *)
(* and any number of connections and readers.                              *)
(*                                                                         *)
(* A reader that has the only connection to itself, and that nothing was   *)
(* written into the middle of, finds on it the rest of the message it is   *)
(* at, and the messages behind it, with answers between them; the last may *)
(* be unfinished yet.  Laid says where each of them begins; every step of  *)
(* the reader and of the server moves those places as it moves the words.  *)
(***************************************************************************)
EXTENDS MessengerClient, Integers, FiniteSetTheorems, SequenceTheorems, TLAPS

-----------------------------------------------------------------------------
(* Types *)

Sendings == [on : Made, next : {"length", "text", "nothing"}]
Readers == [at : Receiving \cup {"start", "end"}, on : {NULL} \cup Made, len : Nat \cup {Wild}]

\* The client begins with its types.
LEMMA InitTypes == Init => TypeOK
  <1> SUFFICES ASSUME Init PROVE TypeOK
    OBVIOUS
  <1>1. \A S : <<>> \in Seq(S) /\ Len(<<>>) = 0
    OBVIOUS
  <1>2. Len(inbox) <= MaxConnects
    BY <1>1, ClientConstants DEF Init
  <1> QED BY <1>1, <1>2 DEF Init, TypeOK

\* Who reads has a connection, and becomes somebody who waits for a word.
LEMMA BecomeType ==
  ASSUME TypeOK, NEW r \in DOMAIN readers, NEW at \in Receiving \cup {"start", "end"},
         NEW on \in {NULL} \cup Made, NEW len \in Nat \cup {Wild}, Become(r, at, on, len)
  PROVE  readers' \in Seq(Readers)
  <1>1. readers \in Seq(Readers)
    BY DEF TypeOK, Readers
  <1> DEFINE became == [at |-> at, on |-> on, len |-> len]
  <1>2. became \in Readers
    BY DEF Readers
  <1>3. readers' = [readers EXCEPT ![r] = became]
    BY DEF Become
  <1> HIDE DEF became
  <1> QED BY <1>1, <1>2, <1>3

\* A reader that is in read is in read on a connection.
LEMMA OnType ==
  ASSUME TypeOK, NEW r \in DOMAIN readers, readers[r].on # NULL
  PROVE  readers[r].on \in 1..Len(inbox) /\ readers[r].on \in Made /\ inbox \in Seq(Seq(Words))
  <1>1. readers \in Seq(Readers) /\ inbox \in Seq(Seq(Words))
    BY DEF TypeOK, Readers
  <1>2. readers[r] \in Readers
    BY <1>1
  <1> QED BY <1>1, <1>2 DEF Readers, Made

\* The words left on a connection after some were taken.
LEMMA TakeType ==
  ASSUME TypeOK, NEW r \in DOMAIN readers, readers[r].on # NULL, NEW n \in Nat, Take(r, n)
  PROVE  inbox' \in Seq(Seq(Words)) /\ Len(inbox') = Len(inbox)
  <1>1. readers[r].on \in 1..Len(inbox) /\ inbox \in Seq(Seq(Words))
    BY OnType
  <1> DEFINE on == readers[r].on
  <1>2. SubSeq(inbox[on], n + 1, Len(inbox[on])) \in Seq(Words)
    BY <1>1
  <1>3. inbox' = [inbox EXCEPT ![on] = SubSeq(inbox[on], n + 1, Len(inbox[on]))]
    BY DEF Take
  <1> HIDE DEF on
  <1> QED BY <1>1, <1>2, <1>3 DEF on

\* The main thread's commands keep the types.
LEMMA MainKeepsTypes ==
  ASSUME TypeOK, Main
  PROVE  TypeOK'
  <1> USE DEF history, server
  <1>0. /\ readers \in Seq(Readers) /\ Reader \in Readers
        /\ inbox \in Seq(Seq(Words)) /\ Len(inbox) \in Nat
    BY DEF TypeOK, Readers, Reader
  <1>1. CASE Start
    <2>1. readers' \in Seq(Readers)
      BY <1>0, <1>1 DEF Start, StartReader
    <2>2. UNCHANGED <<socket, connected, closed, inbox, hungup, gone, crashed, server, history>>
      BY <1>1 DEF Start
    <2> QED BY <2>1, <2>2 DEF TypeOK, Readers, Made
  <1>2. CASE Connect
    <2>1. /\ inbox' = Append(inbox, <<>>) /\ inbox' \in Seq(Seq(Words))
          /\ Len(inbox') = Len(inbox) + 1 /\ Len(inbox') <= MaxConnects
      <3>1. <<>> \in Seq(Words)
        OBVIOUS
      <3> QED BY <1>0, <1>2, <3>1, ClientConstants DEF Connect
    <2>2. Made \subseteq Made' /\ socket' \in Made'
      BY <1>0, <1>2, <2>1 DEF Connect, Made
    <2>3. readers' \in Seq(Readers')
      <3>1. readers' \in Seq(Readers)
        BY <1>0, <1>2 DEF Connect, StartReader
      <3>2. Readers \subseteq Readers'
        BY <2>2 DEF Readers
      <3> QED BY <3>1, <3>2, SeqMonotonic
    <2>4. gone' \subseteq Made' /\ hungup' \subseteq Made'
      BY <1>2, <2>2 DEF Connect, TypeOK
    <2>5. /\ socket' \in {NULL} \cup Made' /\ hungup' \subseteq Made' /\ gone' \subseteq Made'
          /\ connected' \in BOOLEAN /\ session' \in {"shut", "open", "reopened"}
          /\ UNCHANGED <<closed, crashed, texts, torn, handled>>
      BY <1>2, <2>2, <2>4 DEF Connect
    <2>6. sending' \in Seq(Sendings')
      <3>1. sending' \in Seq(Sendings)
        BY <1>2 DEF Connect, TypeOK, Sendings
      <3>2. Sendings \subseteq Sendings'
        BY <2>2 DEF Sendings
      <3> QED BY <3>1, <3>2, SeqMonotonic
    <2>7. Len(sending') = Len(texts')
      BY <1>2 DEF Connect, TypeOK
    <2> QED BY <2>1, <2>3, <2>5, <2>6, <2>7 DEF TypeOK, Readers, Sendings
  <1>3. CASE OpenSession \/ SendMessage \/ CloseSession \/ Disconnect
    <2>1. UNCHANGED <<readers, inbox, gone, server, handled, connected>> /\ crashed' \in BOOLEAN
      BY <1>3 DEF OpenSession, SendMessage, CloseSession, Disconnect, SendCommand, TypeOK
    <2>2. /\ socket' \in {NULL, socket} /\ closed' \in BOOLEAN
          /\ hungup' \in {hungup, hungup \cup ({socket} \ {NULL})}
          /\ session' \in {"shut", "open", "reopened"}
      BY <1>3 DEF OpenSession, SendMessage, CloseSession, Disconnect, TypeOK
    <2>3. Made' = Made
      BY <2>1 DEF Made
    <2> QED BY <2>1, <2>2, <2>3 DEF TypeOK
  <1> QED BY <1>1, <1>2, <1>3 DEF Main

\* A word is one, and a length is a number or none.
LEMMA WordTypes ==
  ASSUME TypeOK, NEW r \in DOMAIN readers, readers[r].on # NULL, inbox[readers[r].on] # <<>>
  PROVE  Word(r) \in Words /\ AsLength(Word(r)) \in Nat \cup {Wild}
  <1>1. readers[r].on \in 1..Len(inbox) /\ inbox \in Seq(Seq(Words))
    BY OnType
  <1>2. Word(r) \in Words
    BY <1>1 DEF Word
  <1> QED BY <1>2 DEF AsLength, Words

\* A reader's steps keep the types.
LEMMA RunKeepsTypes ==
  ASSUME TypeOK, NEW r \in Thread, Run(r)
  PROVE  TypeOK'
  <1>0. /\ r \in DOMAIN readers /\ readers[r].on \in {NULL} \cup Made
        /\ readers[r].at \in Receiving \cup {"start", "end"} /\ readers[r].len \in Nat \cup {Wild}
        /\ readers \in Seq(Readers)
    <2>1. r \in DOMAIN readers /\ readers \in Seq(Readers)
      <3>1. r \in DOMAIN readers
        <4>1. CASE Loop(r)
          BY <4>1 DEF Loop, At
        <4>2. CASE Call(r) \/ EndOfStream(r) \/ ReadFails(r)
          BY <4>2 DEF Call, EndOfStream, ReadFails
        <4>3. CASE TakeCommand(r) \/ TakeLength(r) \/ TakeText(r) \/ TakeNothing(r)
          BY <4>3 DEF TakeCommand, TakeLength, TakeText, TakeNothing, Reads, At
        <4> QED BY <4>1, <4>2, <4>3 DEF Run, ReadCommand
      <3> QED BY <3>1 DEF TypeOK, Readers
    <2>2. readers[r] \in Readers
      BY <2>1
    <2> QED BY <2>1, <2>2 DEF Readers
  <1>a. ASSUME readers' \in Seq(Readers), inbox' \in Seq(Seq(Words)), Len(inbox') = Len(inbox),
               crashed' \in BOOLEAN, handled' \in Seq(Seq(Words)), NoChangeButReader
        PROVE  TypeOK'
    <2>1. Made' = Made
      BY <1>a DEF Made
    <2> QED BY <1>a, <2>1 DEF TypeOK, NoChangeButReader, Readers, server
  <1>b. /\ inbox \in Seq(Seq(Words)) /\ crashed \in BOOLEAN /\ handled \in Seq(Seq(Words))
        /\ 0 \in Nat \cup {Wild} /\ <<>> \in Seq(Words) /\ NULL \in {NULL} \cup Made
    BY DEF TypeOK
  <1>c. ASSUME NEW text \in Seq(Words), onMessageRecieved(text) PROVE handled' \in Seq(Seq(Words))
    BY <1>b, <1>c DEF onMessageRecieved
  <1>1. CASE Loop(r)
    <2>1. readers' \in Seq(Readers)
      BY <1>0, <1>1, <1>b, BecomeType DEF Loop, Receiving
    <2> QED BY <1>1, <1>a, <1>b, <2>1 DEF Loop
  <1>2. CASE Call(r)
    <2>1. CASE socket = NULL
      BY <1>0, <1>2, <1>a, <1>b, <2>1 DEF Call
    <2>2. CASE socket # NULL
      <3>1. [readers[r] EXCEPT !.on = socket] \in Readers
        <4>1. socket \in {NULL} \cup Made /\ readers[r] \in Readers
          BY <1>0 DEF TypeOK
        <4> QED BY <4>1 DEF Readers
      <3>2. readers' \in Seq(Readers)
        BY <1>0, <1>2, <2>2, <3>1 DEF Call
      <3> QED BY <1>2, <1>a, <1>b, <2>2, <3>2 DEF Call
    <2> QED BY <2>1, <2>2
  <1>3. CASE TakeCommand(r)
    <2>1. readers' \in Seq(Readers)
      BY <1>0, <1>3, <1>b, BecomeType DEF TakeCommand, Receiving
    <2>2. inbox' \in Seq(Seq(Words)) /\ Len(inbox') = Len(inbox)
      BY <1>0, <1>3, TakeType DEF TakeCommand, Reads
    <2> QED BY <1>3, <1>a, <1>b, <2>1, <2>2 DEF TakeCommand
  <1>4. CASE TakeLength(r)
    <2>1. readers' \in Seq(Readers)
      BY <1>0, <1>4, <1>b, BecomeType, WordTypes DEF TakeLength, Reads, Receiving
    <2>2. inbox' \in Seq(Seq(Words)) /\ Len(inbox') = Len(inbox)
      BY <1>0, <1>4, TakeType DEF TakeLength, Reads
    <2> QED BY <1>4, <1>a, <1>b, <2>1, <2>2 DEF TakeLength
  <1>5. CASE TakeText(r)
    <2>1. CASE readers[r].len = Wild
      BY <1>0, <1>5, <1>a, <1>b, <2>1 DEF TakeText
    <2>2. CASE readers[r].len # Wild
      <3> DEFINE waiting == inbox[readers[r].on]
                 asked == readers[r].len
                 n == IF asked < Len(waiting) THEN asked ELSE Len(waiting)
      <3>1. waiting \in Seq(Words) /\ asked \in Nat /\ n \in Nat /\ n <= Len(waiting)
        <4>1. waiting \in Seq(Words)
          BY <1>0, <1>5, <1>b DEF TakeText, Reads, Made
        <4> QED BY <1>0, <2>2, <4>1
      <3>2. onMessageRecieved(SubSeq(waiting, 1, n)) /\ Take(r, n) /\ Become(r, "start", NULL, 0)
        BY <1>5, <2>2 DEF TakeText
      <3>3. readers[r].on # NULL
        BY <1>5 DEF TakeText, Reads
      <3>4. SubSeq(waiting, 1, n) \in Seq(Words)
        BY <3>1
      <3> HIDE DEF n
      <3>5. handled' \in Seq(Seq(Words))
        BY <1>c, <3>2, <3>4
      <3>6. inbox' \in Seq(Seq(Words)) /\ Len(inbox') = Len(inbox)
        BY <1>0, <3>1, <3>2, <3>3, TakeType
      <3>7. readers' \in Seq(Readers)
        BY <1>0, <1>b, <3>2, BecomeType
      <3> QED BY <1>5, <1>a, <1>b, <2>2, <3>5, <3>6, <3>7 DEF TakeText
    <2> QED BY <2>1, <2>2
  <1>6. CASE TakeNothing(r)
    <2>1. readers' \in Seq(Readers)
      BY <1>0, <1>6, <1>b, BecomeType DEF TakeNothing
    <2>2. handled' \in Seq(Seq(Words))
      BY <1>6, <1>b, <1>c DEF TakeNothing
    <2> QED BY <1>6, <1>a, <1>b, <2>1, <2>2 DEF TakeNothing
  <1>7. CASE EndOfStream(r)
    <2>1. inbox' = inbox /\ NoChangeButReader
      BY <1>7 DEF EndOfStream
    <2>2. CASE \E at \in {"command", "text"} : Become(r, at, NULL, 0) /\ UNCHANGED <<handled, crashed>>
      <3>1. readers' \in Seq(Readers)
        BY <1>0, <1>b, <2>2, BecomeType DEF Receiving
      <3> QED BY <1>a, <1>b, <2>1, <2>2, <3>1
    <2>3. CASE crashed' = TRUE /\ UNCHANGED <<readers, handled>>
      BY <1>0, <1>a, <1>b, <2>1, <2>3
    <2>4. CASE onMessageRecieved(<<>>) /\ Become(r, "start", NULL, 0) /\ UNCHANGED crashed
      <3>1. readers' \in Seq(Readers)
        BY <1>0, <1>b, <2>4, BecomeType
      <3>2. handled' \in Seq(Seq(Words))
        BY <1>b, <1>c, <2>4
      <3> QED BY <1>a, <1>b, <2>1, <2>4, <3>1, <3>2
    <2> QED BY <1>7, <2>2, <2>3, <2>4 DEF EndOfStream
  <1>8. CASE ReadFails(r)
    <2>1. readers' \in Seq(Readers)
      BY <1>0, <1>8, <1>b, BecomeType DEF ReadFails, Receiving
    <2> QED BY <1>8, <1>a, <1>b, <2>1 DEF ReadFails
  <1> QED BY <1>1, <1>2, <1>3, <1>4, <1>5, <1>6, <1>7, <1>8 DEF Run, ReadCommand

\* What the server sends are words.
LEMMA SendsType ==
  ASSUME TypeOK, NEW c \in Made, NEW words \in Seq(Words), Sends(c, words)
  PROVE  inbox' \in Seq(Seq(Words)) /\ Len(inbox') = Len(inbox)
  <1>1. inbox \in Seq(Seq(Words)) /\ c \in 1..Len(inbox)
    BY DEF TypeOK, Made
  <1>2. inbox[c] \o words \in Seq(Words)
    BY <1>1
  <1>3. inbox' = [inbox EXCEPT ![c] = inbox[c] \o words]
    BY DEF Sends
  <1> QED BY <1>1, <1>2, <1>3

\* The texts and what is still to come of them.
LEMMA SendingType ==
  ASSUME TypeOK, NEW t \in DOMAIN sending
  PROVE  /\ DOMAIN sending = 1..Len(texts) /\ t \in 1..Len(texts) /\ Len(texts) \in Nat
         /\ sending[t] \in Sendings /\ texts[t] \in Nat /\ Text(t) \in Seq(Words) /\ Len(Text(t)) = texts[t]
         /\ \A i \in 1..texts[t] : Text(t)[i] = Chunk(t)
  <1>1. sending \in Seq(Sendings) /\ Len(sending) = Len(texts) /\ texts \in Seq(Lengths)
    BY DEF TypeOK, Sendings
  <1>2. DOMAIN sending = 1..Len(texts) /\ t \in 1..Len(texts) /\ Len(texts) \in Nat /\ sending[t] \in Sendings
    BY <1>1
  <1>3. texts[t] \in Nat
    <2>1. texts[t] \in Lengths
      BY <1>1, <1>2
    <2> QED BY <2>1, ClientConstants
  <1>4. t \in Nat /\ Chunk(t) \in Words
    BY <1>2 DEF Chunk, Words
  <1>5. Text(t) = [i \in 1..texts[t] |-> Chunk(t)]
    BY DEF Text
  <1>6. Text(t) \in Seq(Words) /\ Len(Text(t)) = texts[t]
    BY <1>3, <1>4, <1>5
  <1> QED BY <1>2, <1>3, <1>5, <1>6

\* The server's writes keep the types.
LEMMA ServerKeepsTypes ==
  ASSUME TypeOK, Server
  PROVE  TypeOK'
  <1> USE DEF history, server
  <1>0. /\ inbox \in Seq(Seq(Words)) /\ texts \in Seq(Lengths) /\ Len(texts) \in Nat
        /\ sending \in Seq(Sendings) /\ Len(sending) = Len(texts) /\ torn \in BOOLEAN
    BY DEF TypeOK, Sendings
  <1>a. ASSUME inbox' \in Seq(Seq(Words)), Len(inbox') = Len(inbox), texts' \in Seq(Lengths),
               sending' \in Seq(Sendings), Len(sending') = Len(texts'), torn' \in BOOLEAN,
               gone' \subseteq Made,
               UNCHANGED <<socket, connected, closed, readers, hungup, crashed, session, handled>>
        PROVE  TypeOK'
    <2>1. Made' = Made
      BY <1>a DEF Made
    <2> QED BY <1>a, <2>1 DEF TypeOK, Sendings
  <1>b. ASSUME NoChangeByServer
        PROVE  /\ gone' \subseteq Made
               /\ UNCHANGED <<socket, connected, closed, readers, hungup, crashed, session, handled>>
    BY <1>b DEF NoChangeByServer, TypeOK
  <1>c. ASSUME NEW t \in DOMAIN sending, NEW next \in {"length", "text", "nothing"},
               sending' = [sending EXCEPT ![t].next = next]
        PROVE  sending' \in Seq(Sendings) /\ Len(sending') = Len(sending)
    <2>1. [sending[t] EXCEPT !.next = next] \in Sendings
      BY SendingType DEF Sendings
    <2>2. sending' = [sending EXCEPT ![t] = [sending[t] EXCEPT !.next = next]]
      BY <1>c
    <2> QED BY <1>0, <2>1, <2>2
  <1>1. ASSUME NEW c \in Made, SendAnswer(c) PROVE TypeOK'
    <2>1. <<Answer>> \in Seq(Words)
      BY DEF Answer, Words
    <2>2. inbox' \in Seq(Seq(Words)) /\ Len(inbox') = Len(inbox)
      BY <1>1, <2>1, SendsType DEF SendAnswer
    <2>3. torn' \in BOOLEAN
      BY <1>1 DEF SendAnswer
    <2> QED BY <1>0, <1>1, <1>a, <1>b, <2>2, <2>3 DEF SendAnswer
  <1>2. ASSUME NEW c \in Made, NEW n \in Lengths, SendCmd(c, n) PROVE TypeOK'
    <2>1. <<Send>> \in Seq(Words)
      BY DEF Send, Words
    <2>2. inbox' \in Seq(Seq(Words)) /\ Len(inbox') = Len(inbox)
      BY <1>2, <2>1, SendsType DEF SendCmd
    <2>3. torn' \in BOOLEAN
      BY <1>2 DEF SendCmd
    <2>4. texts' \in Seq(Lengths) /\ Len(texts') = Len(texts) + 1
      BY <1>0, <1>2 DEF SendCmd
    <2>5. sending' \in Seq(Sendings) /\ Len(sending') = Len(sending) + 1
      <3>1. [on |-> c, next |-> "length"] \in Sendings
        BY DEF Sendings
      <3> QED BY <1>0, <1>2, <3>1 DEF SendCmd
    <2>6. Len(sending') = Len(texts')
      BY <1>0, <2>4, <2>5
    <2> QED BY <1>2, <1>a, <1>b, <2>2, <2>3, <2>4, <2>5, <2>6 DEF SendCmd
  <1>3. ASSUME NEW t \in Thread, SendLength(t) PROVE TypeOK'
    <2>1. t \in DOMAIN sending /\ sending[t].on \in Made /\ texts[t] \in Nat
      BY <1>3, SendingType DEF SendLength, IsNext, Sendings
    <2>2. <<Length(texts[t])>> \in Seq(Words)
      BY <2>1 DEF Length, Words
    <2>3. inbox' \in Seq(Seq(Words)) /\ Len(inbox') = Len(inbox)
      BY <1>3, <2>1, <2>2, SendsType DEF SendLength
    <2>4. sending' \in Seq(Sendings) /\ Len(sending') = Len(sending)
      <3>1. PICK next \in {"length", "text", "nothing"} : sending' = [sending EXCEPT ![t].next = next]
        BY <1>3 DEF SendLength
      <3> QED BY <1>c, <2>1, <3>1
    <2> QED BY <1>0, <1>3, <1>a, <1>b, <2>3, <2>4 DEF SendLength
  <1>4. ASSUME NEW t \in Thread, SendText(t) PROVE TypeOK'
    <2>1. t \in DOMAIN sending /\ sending[t].on \in Made /\ Text(t) \in Seq(Words)
      BY <1>4, SendingType DEF SendText, IsNext, Sendings
    <2>3. inbox' \in Seq(Seq(Words)) /\ Len(inbox') = Len(inbox)
      BY <1>4, <2>1, SendsType DEF SendText
    <2>4. sending' \in Seq(Sendings) /\ Len(sending') = Len(sending)
      BY <1>4, <1>c, <2>1 DEF SendText
    <2> QED BY <1>0, <1>4, <1>a, <1>b, <2>3, <2>4 DEF SendText
  <1>5. CASE ServerGoes
    BY <1>0, <1>5, <1>a DEF ServerGoes
  <1> QED BY <1>1, <1>2, <1>3, <1>4, <1>5 DEF Server

\* Every step keeps the types.
LEMMA NextTypes == TypeOK /\ [Next]_vars => TypeOK'
  <1> SUFFICES ASSUME TypeOK, [Next]_vars PROVE TypeOK'
    OBVIOUS
  <1>1. CASE UNCHANGED vars
    BY <1>1 DEF vars, history, server, TypeOK, Made
  <1> QED BY <1>1, MainKeepsTypes, ServerKeepsTypes, RunKeepsTypes DEF Next

\* Every variable keeps its type.
THEOREM TypeCorrect == Spec => []TypeOK
  <1> QED BY InitTypes, NextTypes, PTL DEF Spec

-----------------------------------------------------------------------------
(* How the texts lie on a connection *)

\* Words of the message a reader has taken before it comes to a place.
Taken(at) == IF at = "length" THEN 1 ELSE IF at = "text" THEN 2 ELSE 0

\* The words of the message of text t.
Message(sent, t, j) ==
    IF j = 1 THEN Send ELSE IF j = 2 THEN Length(sent[t]) ELSE Chunk(t)

\* The messages of the texts behind the first k lie on s one behind another, with
\* answers between them: b[t] words lie before the one of text t, or -b[t] of
\* its words were taken, and z[t] words of it were written.  Only the last may
\* be unfinished, and is the last thing written then.
Laid(b, z, s, sent, k) ==
    /\ b \in [1..Len(sent) -> Int] /\ z \in [1..Len(sent) -> Nat]
    /\ \A t \in k + 1..Len(sent) : 1 <= z[t] /\ z[t] <= 2 + sent[t] /\ b[t] + z[t] <= Len(s)
    /\ \A t, u \in k + 1..Len(sent) : t < u => b[t] + z[t] <= b[u]
    /\ \A t \in k + 1..Len(sent) : \A j \in 1..z[t] :
            b[t] + j > 0 => s[b[t] + j] = Message(sent, t, j)
    /\ \A x \in 1..Len(s) :
            s[x] = Answer \/ \E t \in k + 1..Len(sent) : b[t] < x /\ x <= b[t] + z[t]
    /\ \A t \in k + 1..Len(sent) :
            z[t] < 2 + sent[t] => t = Len(sent) /\ z[t] <= 2 /\ Len(s) = b[t] + z[t]

\* Whoever is at a place has taken as much of message k + 1 as the place says,
\* and of no other.
Begun(b, z, sent, k, at, len) ==
    /\ \A t \in k + 1..Len(sent) : b[t] >= 0 - Taken(at)
    /\ Taken(at) > 0 => k < Len(sent) /\ b[k + 1] = 0 - Taken(at) /\ z[k + 1] >= Taken(at)
    /\ at = "text" => len = sent[k + 1]

\* The messages before the ones behind k2 end within the first n words.
Passed(b, z, k, k2, n) == \A t \in k + 1..k2 : b[t] + z[t] <= n

\* The places n words further on.
Moved(b, n, N) == [t \in 1..N |-> b[t] - n]

\* Every message behind the first k was sent to its last word.
Finished(z, sent, k) == \A t \in k + 1..Len(sent) : z[t] = 2 + sent[t]

\* f with one more value.
Longer(f, N, x) == [t \in 1..N + 1 |-> IF t = N + 1 THEN x ELSE f[t]]

\* Taking n words moves what is behind them forward.
LEMMA LaidTakes ==
  ASSUME NEW sent \in Seq(Nat), NEW s \in Seq(Words), NEW k \in 0..Len(sent), NEW b, NEW z,
         Laid(b, z, s, sent, k), NEW n \in 0..Len(s), NEW k2 \in k..Len(sent),
         Passed(b, z, k, k2, n), NEW c, c = Moved(b, n, Len(sent))
  PROVE  Laid(c, z, SubSeq(s, n + 1, Len(s)), sent, k2) /\ \A t \in 1..Len(sent) : c[t] = b[t] - n
  <1> DEFINE N == Len(sent)
             rest == SubSeq(s, n + 1, Len(s))
  <1>1. /\ N \in Nat /\ Len(s) \in Nat /\ n \in Nat /\ n <= Len(s) /\ k2 \in Nat /\ k \in Nat /\ k <= k2
        /\ \A t \in k2 + 1..N : t \in k + 1..N /\ t \in 1..N /\ sent[t] \in Nat
    OBVIOUS
  <1>2. Len(rest) = Len(s) - n /\ \A i \in 1..Len(s) - n : rest[i] = s[i + n]
    BY <1>1
  <1>3. b \in [1..N -> Int] /\ z \in [1..N -> Nat]
    BY DEF Laid
  <1>4. c \in [1..N -> Int] /\ \A t \in 1..N : c[t] = b[t] - n /\ b[t] \in Int /\ z[t] \in Nat
    <2>1. \A t \in 1..N : b[t] \in Int /\ z[t] \in Nat /\ b[t] - n \in Int
      BY <1>1, <1>3
    <2> QED BY <2>1 DEF Moved
  <1> HIDE DEF rest, N
  <1>5. ASSUME NEW t \in k2 + 1..N
        PROVE  1 <= z[t] /\ z[t] <= 2 + sent[t] /\ c[t] + z[t] <= Len(rest)
    <2>1. 1 <= z[t] /\ z[t] <= 2 + sent[t] /\ b[t] + z[t] <= Len(s)
      BY <1>1 DEF Laid, N
    <2>2. c[t] = b[t] - n /\ b[t] \in Int /\ z[t] \in Nat
      BY <1>1, <1>4
    <2> QED BY <1>1, <1>2, <2>1, <2>2
  <1>6. ASSUME NEW t \in k2 + 1..N, NEW u \in k2 + 1..N, t < u PROVE c[t] + z[t] <= c[u]
    <2>1. b[t] + z[t] <= b[u]
      BY <1>1, <1>6 DEF Laid, N
    <2>2. c[t] = b[t] - n /\ b[t] \in Int /\ z[t] \in Nat /\ c[u] = b[u] - n /\ b[u] \in Int
      BY <1>1, <1>4
    <2> QED BY <1>1, <2>1, <2>2
  <1>7. ASSUME NEW t \in k2 + 1..N, NEW j \in 1..z[t], c[t] + j > 0
        PROVE  rest[c[t] + j] = Message(sent, t, j)
    <2>1. b[t] + z[t] <= Len(s) /\ (b[t] + j > 0 => s[b[t] + j] = Message(sent, t, j))
      BY <1>1 DEF Laid, N
    <2>2. c[t] = b[t] - n /\ b[t] \in Int /\ z[t] \in Nat /\ j \in Nat /\ j <= z[t]
      BY <1>1, <1>4
    <2>3. c[t] + j \in 1..Len(s) - n /\ (c[t] + j) + n = b[t] + j /\ b[t] + j > 0
      <3> DEFINE x == b[t]
                 y == z[t]
      <3>1. /\ x \in Int /\ y \in Nat /\ j \in Nat /\ j <= y /\ n \in Nat /\ Len(s) \in Nat
            /\ c[t] = x - n /\ c[t] + j > 0 /\ x + y <= Len(s)
        BY <1>1, <1>7, <2>1, <2>2
      <3> HIDE DEF x, y
      <3>2. (x - n) + j \in 1..Len(s) - n /\ ((x - n) + j) + n = x + j /\ x + j > 0
        BY <3>1
      <3>3. c[t] + j \in 1..Len(s) - n /\ (c[t] + j) + n = x + j /\ x + j > 0
        BY <3>1, <3>2
      <3> QED BY <3>3 DEF x
    <2> QED BY <1>2, <2>1, <2>3
  <1>8. ASSUME NEW x \in 1..Len(rest), rest[x] # Answer
        PROVE  \E t \in k2 + 1..N : c[t] < x /\ x <= c[t] + z[t]
    <2>1. x + n \in 1..Len(s) /\ s[x + n] # Answer /\ x \in Nat /\ x >= 1
      BY <1>1, <1>2, <1>8
    <2>2. PICK t \in k + 1..N : b[t] < x + n /\ x + n <= b[t] + z[t]
      BY <2>1 DEF Laid, N
    <2>3. t \in 1..N /\ b[t] \in Int /\ z[t] \in Nat /\ c[t] = b[t] - n
      BY <1>1, <1>4
    <2>4. t \notin k + 1..k2
      <3>1. ~(b[t] + z[t] <= n)
        BY <1>1, <2>1, <2>2, <2>3
      <3> QED BY <3>1 DEF Passed
    <2>5. t \in k2 + 1..N
      BY <1>1, <2>3, <2>4
    <2>6. c[t] < x /\ x <= c[t] + z[t]
      BY <1>1, <2>1, <2>2, <2>3
    <2> QED BY <2>5, <2>6
  <1>9. ASSUME NEW t \in k2 + 1..N, z[t] < 2 + sent[t]
        PROVE  t = N /\ z[t] <= 2 /\ Len(rest) = c[t] + z[t]
    <2>1. t = N /\ z[t] <= 2 /\ Len(s) = b[t] + z[t]
      BY <1>1, <1>9 DEF Laid, N
    <2>2. c[t] = b[t] - n /\ b[t] \in Int /\ z[t] \in Nat
      BY <1>1, <1>4
    <2> QED BY <1>1, <1>2, <2>1, <2>2
  <1>10. Laid(c, z, rest, sent, k2)
    BY <1>3, <1>4, <1>5, <1>6, <1>7, <1>8, <1>9 DEF Laid, N
  <1> QED BY <1>4, <1>10 DEF rest, N

\* An answer comes behind messages that were sent whole.
LEMMA LaidAnswers ==
  ASSUME NEW sent \in Seq(Nat), NEW s \in Seq(Words), NEW k \in 0..Len(sent), NEW b, NEW z,
         Laid(b, z, s, sent, k), Finished(z, sent, k)
  PROVE  Laid(b, z, s \o <<Answer>>, sent, k)
  <1> DEFINE N == Len(sent)
             w == s \o <<Answer>>
  <1>1. /\ N \in Nat /\ Len(s) \in Nat /\ k \in Nat
        /\ \A t \in k + 1..N : t \in 1..N /\ sent[t] \in Nat
    OBVIOUS
  <1>2. Len(w) = Len(s) + 1 /\ w[Len(s) + 1] = Answer /\ \A i \in 1..Len(s) : w[i] = s[i]
    OBVIOUS
  <1>3. /\ b \in [1..N -> Int] /\ z \in [1..N -> Nat]
        /\ \A t \in k + 1..N : b[t] \in Int /\ z[t] \in Nat
    BY <1>1 DEF Laid
  <1> HIDE DEF w, N
  <1>4. ASSUME NEW t \in k + 1..N
        PROVE  1 <= z[t] /\ z[t] <= 2 + sent[t] /\ b[t] + z[t] <= Len(s) /\ b[t] + z[t] <= Len(w)
    <2>1. 1 <= z[t] /\ z[t] <= 2 + sent[t] /\ b[t] + z[t] <= Len(s)
      BY DEF Laid, N
    <2> QED BY <1>1, <1>2, <1>3, <2>1
  <1>5. ASSUME NEW t \in k + 1..N, NEW j \in 1..z[t], b[t] + j > 0
        PROVE  w[b[t] + j] = Message(sent, t, j)
    <2>1. s[b[t] + j] = Message(sent, t, j)
      BY <1>5 DEF Laid, N
    <2>2. b[t] + j \in 1..Len(s)
      BY <1>1, <1>3, <1>4, <1>5
    <2> QED BY <1>2, <2>1, <2>2
  <1>6. ASSUME NEW x \in 1..Len(w), w[x] # Answer
        PROVE  \E t \in k + 1..N : b[t] < x /\ x <= b[t] + z[t]
    <2>1. x \in 1..Len(s) /\ s[x] # Answer
      BY <1>1, <1>2, <1>6
    <2> QED BY <2>1 DEF Laid, N
  <1>7. ASSUME NEW t \in k + 1..N PROVE ~(z[t] < 2 + sent[t])
    <2>1. z[t] = 2 + sent[t] /\ sent[t] \in Nat
      BY <1>1 DEF Finished, N
    <2> QED BY <2>1
  <1>8. \A t, u \in k + 1..N : t < u => b[t] + z[t] <= b[u]
    BY DEF Laid, N
  <1> QED BY <1>3, <1>4, <1>5, <1>6, <1>7, <1>8 DEF Laid, N, w

\* The first word of one more message.
LEMMA LaidBegins ==
  ASSUME NEW sent \in Seq(Nat), NEW s \in Seq(Words), NEW k \in 0..Len(sent), NEW b, NEW z,
         Laid(b, z, s, sent, k), Finished(z, sent, k), NEW n \in Nat,
         NEW c, c = Longer(b, Len(sent), Len(s)), NEW y, y = Longer(z, Len(sent), 1)
  PROVE  /\ Laid(c, y, s \o <<Send>>, Append(sent, n), k)
         /\ \A t \in 1..Len(sent) : c[t] = b[t] /\ y[t] = z[t] /\ Append(sent, n)[t] = sent[t]
         /\ c[Len(sent) + 1] = Len(s) /\ Len(Append(sent, n)) = Len(sent) + 1
  <1> DEFINE N == Len(sent)
             w == s \o <<Send>>
             more == Append(sent, n)
  <1>1. /\ N \in Nat /\ Len(s) \in Nat /\ k \in Nat /\ k <= N
        /\ \A t \in k + 1..N : t \in 1..N /\ sent[t] \in Nat
        /\ N + 1 \in 1..N + 1 /\ \A t \in 1..N : t \in 1..N + 1 /\ t # N + 1
        /\ \A t \in k + 1..N + 1 : t \in 1..N + 1 /\ (t = N + 1 \/ t \in k + 1..N)
    OBVIOUS
  <1>2. Len(w) = Len(s) + 1 /\ w[Len(s) + 1] = Send /\ \A i \in 1..Len(s) : w[i] = s[i]
    OBVIOUS
  <1>3. Len(more) = N + 1 /\ more[N + 1] = n /\ \A t \in 1..N : more[t] = sent[t]
    OBVIOUS
  <1>4. /\ b \in [1..N -> Int] /\ z \in [1..N -> Nat]
        /\ \A t \in 1..N : b[t] \in Int /\ z[t] \in Nat
    BY <1>1 DEF Laid
  <1>5. /\ \A t \in 1..N : c[t] = b[t] /\ y[t] = z[t]
        /\ c[N + 1] = Len(s) /\ y[N + 1] = 1
    BY <1>1 DEF Longer
  <1>6. c \in [1..N + 1 -> Int] /\ y \in [1..N + 1 -> Nat]
    <2>1. \A t \in 1..N + 1 : t # N + 1 => t \in 1..N
      BY <1>1
    <2> QED BY <1>1, <1>4, <2>1 DEF Longer
  <1> HIDE DEF w, N, more
  <1>7. ASSUME NEW t \in k + 1..N
        PROVE  /\ 1 <= z[t] /\ z[t] <= 2 + sent[t] /\ b[t] + z[t] <= Len(s)
               /\ t \in 1..N /\ c[t] = b[t] /\ y[t] = z[t] /\ more[t] = sent[t]
               /\ sent[t] \in Nat /\ b[t] \in Int /\ z[t] \in Nat
    <2>1. 1 <= z[t] /\ z[t] <= 2 + sent[t] /\ b[t] + z[t] <= Len(s)
      BY DEF Laid, N
    <2> QED BY <1>1, <1>3, <1>4, <1>5, <2>1
  <1>8. ASSUME NEW t \in k + 1..N + 1
        PROVE  1 <= y[t] /\ y[t] <= 2 + more[t] /\ c[t] + y[t] <= Len(w)
    <2>1. CASE t = N + 1
      BY <1>1, <1>2, <1>3, <1>5, <2>1
    <2>2. CASE t \in k + 1..N
      <3>1. /\ 1 <= z[t] /\ z[t] <= 2 + sent[t] /\ b[t] + z[t] <= Len(s)
            /\ c[t] = b[t] /\ y[t] = z[t] /\ more[t] = sent[t]
            /\ sent[t] \in Nat /\ b[t] \in Int /\ z[t] \in Nat
        BY <1>7, <2>2
      <3> QED BY <1>1, <1>2, <3>1
    <2> QED BY <1>1, <2>1, <2>2
  <1>9. ASSUME NEW t \in k + 1..N + 1, NEW u \in k + 1..N + 1, t < u PROVE c[t] + y[t] <= c[u]
    <2>1. t \in k + 1..N
      BY <1>1, <1>9
    <2>2. CASE u = N + 1
      BY <1>5, <1>7, <2>1, <2>2
    <2>3. CASE u \in k + 1..N
      <3>1. b[t] + z[t] <= b[u]
        BY <1>9, <2>1, <2>3 DEF Laid, N
      <3> QED BY <1>7, <2>1, <2>3, <3>1
    <2> QED BY <1>1, <2>2, <2>3
  <1>10. ASSUME NEW t \in k + 1..N + 1, NEW j \in 1..y[t], c[t] + j > 0
         PROVE  w[c[t] + j] = Message(more, t, j)
    <2>1. CASE t = N + 1
      <3>1. j = 1
        BY <1>5, <2>1
      <3> QED BY <1>2, <1>5, <2>1, <3>1 DEF Message
    <2>2. CASE t \in k + 1..N
      <3>1. s[b[t] + j] = Message(sent, t, j)
        BY <1>7, <1>10, <2>2 DEF Laid, N
      <3>2. b[t] + j \in 1..Len(s)
        <4>1. /\ b[t] + z[t] <= Len(s) /\ c[t] = b[t] /\ y[t] = z[t]
              /\ b[t] \in Int /\ z[t] \in Nat
          BY <1>7, <2>2
        <4>2. j \in Nat /\ j <= z[t] /\ b[t] + j > 0
          BY <1>10, <4>1
        <4> QED BY <1>1, <4>1, <4>2
      <3> QED BY <1>2, <1>7, <2>2, <3>1, <3>2 DEF Message
    <2> QED BY <1>1, <2>1, <2>2
  <1>11. ASSUME NEW x \in 1..Len(w), w[x] # Answer
         PROVE  \E t \in k + 1..N + 1 : c[t] < x /\ x <= c[t] + y[t]
    <2>1. CASE x = Len(s) + 1
      <3>1. c[N + 1] < x /\ x <= c[N + 1] + y[N + 1] /\ N + 1 \in k + 1..N + 1
        BY <1>1, <1>5, <2>1
      <3> QED BY <3>1
    <2>2. CASE x # Len(s) + 1
      <3>1. x \in 1..Len(s) /\ s[x] # Answer
        BY <1>1, <1>2, <1>11, <2>2
      <3>2. PICK t \in k + 1..N : b[t] < x /\ x <= b[t] + z[t]
        BY <3>1 DEF Laid, N
      <3>3. t \in k + 1..N + 1
        BY <1>1
      <3> QED BY <1>7, <3>2, <3>3
    <2> QED BY <2>1, <2>2
  <1>12. ASSUME NEW t \in k + 1..N + 1, y[t] < 2 + more[t]
         PROVE  t = N + 1 /\ y[t] <= 2 /\ Len(w) = c[t] + y[t]
    <2>1. CASE t = N + 1
      <3>1. y[t] = 1 /\ c[t] = Len(s)
        BY <1>5, <2>1
      <3> QED BY <1>1, <1>2, <2>1, <3>1
    <2>2. CASE t \in k + 1..N
      <3>1. z[t] = 2 + sent[t]
        BY <2>2 DEF N, Finished
      <3>2. y[t] = z[t] /\ more[t] = sent[t] /\ sent[t] \in Nat
        BY <1>7, <2>2
      <3> QED BY <1>12, <3>1, <3>2
    <2> QED BY <1>1, <2>1, <2>2
  <1>13. Laid(c, y, w, more, k)
    BY <1>3, <1>6, <1>8, <1>9, <1>10, <1>11, <1>12 DEF Laid
  <1> QED BY <1>3, <1>5, <1>13 DEF w, more, N

\* w ends, behind s, with the words of message t behind its first was, up to the first m.
Ends(s, w, sent, t, was, m) ==
    \A j \in was + 1..m : w[Len(s) + (j - was)] = Message(sent, t, j)

\* w is s with the words behind the first was of the last message, up to the first m.
Adds(s, w, sent, was, m) ==
    /\ Len(w) = Len(s) + (m - was)
    /\ \A i \in 1..Len(s) : w[i] = s[i]
    /\ Ends(s, w, sent, Len(sent), was, m)

\* The last message has had was words so far, and will have m.
Grows(z, sent, k, was, m) ==
    /\ k < Len(sent)
    /\ was = z[Len(sent)] /\ was < 2 + sent[Len(sent)]
    /\ was <= m /\ m <= 2 + sent[Len(sent)]
    /\ m < 2 + sent[Len(sent)] => m <= 2

\* f with another last value.
Until(f, N, x) == [f EXCEPT ![N] = x]

\* More words of the last message, until m of them are written.
LEMMA LaidGrows ==
  ASSUME NEW sent \in Seq(Nat), NEW s \in Seq(Words), NEW k \in 0..Len(sent), NEW b, NEW z,
         Laid(b, z, s, sent, k), NEW was \in Nat, NEW m \in Nat, Grows(z, sent, k, was, m),
         NEW w \in Seq(Words), Adds(s, w, sent, was, m), NEW y, y = Until(z, Len(sent), m)
  PROVE  Laid(b, y, w, sent, k) /\ \A t \in 1..Len(sent) : y[t] = IF t = Len(sent) THEN m ELSE z[t]
  <1> DEFINE N == Len(sent)
  <1>1. /\ N \in Nat /\ Len(s) \in Nat /\ Len(w) \in Nat /\ k \in Nat /\ k < N /\ N \in k + 1..N /\ N \in 1..N
        /\ \A t \in k + 1..N : t \in 1..N /\ sent[t] \in Nat
        /\ was = z[N] /\ was < 2 + sent[N] /\ was <= m /\ m <= 2 + sent[N]
        /\ m < 2 + sent[N] => m <= 2
    <2>1. /\ N \in Nat /\ Len(s) \in Nat /\ Len(w) \in Nat /\ k \in Nat
          /\ \A t \in k + 1..N : t \in 1..N /\ sent[t] \in Nat
      OBVIOUS
    <2>2. /\ k < N /\ was = z[N] /\ was < 2 + sent[N] /\ was <= m /\ m <= 2 + sent[N]
          /\ m < 2 + sent[N] => m <= 2
      BY DEF Grows
    <2>3. N \in k + 1..N /\ N \in 1..N
      BY <2>1, <2>2
    <2> QED BY <2>1, <2>2, <2>3
  <1>2. /\ b \in [1..N -> Int] /\ z \in [1..N -> Nat]
        /\ \A t \in 1..N : b[t] \in Int /\ z[t] \in Nat
    BY <1>1 DEF Laid
  <1>3. Len(s) = b[N] + z[N]
    <2>1. z[N] < 2 + sent[N]
      BY <1>1
    <2> QED BY <1>1, <2>1 DEF Laid
  <1>4. y \in [1..N -> Nat] /\ \A t \in 1..N : y[t] = IF t = N THEN m ELSE z[t]
    BY <1>2 DEF Until
  <1>5. /\ was = z[N] /\ m <= 2 + sent[N] /\ Len(w) = Len(s) + (m - was) /\ Len(s) = b[N] + was
        /\ y[N] = m /\ b[N] \in Int /\ sent[N] \in Nat /\ Len(w) = b[N] + m
        /\ was <= m /\ Len(s) \in Nat /\ Len(w) \in Nat
    <2>1. /\ was = z[N] /\ m <= 2 + sent[N] /\ Len(w) = Len(s) + (m - was) /\ Len(s) = b[N] + was
          /\ y[N] = m /\ b[N] \in Int /\ sent[N] \in Nat
      BY <1>1, <1>2, <1>3, <1>4 DEF Adds
    <2> DEFINE x == b[N]
    <2>2. x \in Int /\ Len(s) = x + was /\ Len(w) = Len(s) + (m - was)
      BY <2>1
    <2> HIDE DEF x
    <2>3. Len(w) = x + m
      BY <1>1, <2>2
    <2>4. Len(w) = b[N] + m
      BY <2>3 DEF x
    <2> QED BY <1>1, <2>1, <2>4
  <1>6. /\ \A j \in was + 1..m : w[Len(s) + (j - was)] = Message(sent, N, j)
        /\ \A i \in 1..Len(s) : w[i] = s[i]
    BY DEF Adds, Ends
  <1> HIDE DEF N
  <1>7. ASSUME NEW t \in k + 1..N
        PROVE  /\ 1 <= z[t] /\ z[t] <= 2 + sent[t] /\ b[t] + z[t] <= Len(s)
               /\ t \in 1..N /\ sent[t] \in Nat /\ b[t] \in Int /\ z[t] \in Nat /\ z[t] <= y[t]
               /\ y[t] = IF t = N THEN m ELSE z[t]
    <2>1. 1 <= z[t] /\ z[t] <= 2 + sent[t] /\ b[t] + z[t] <= Len(s)
      BY DEF Laid, N
    <2>2. t \in 1..N /\ sent[t] \in Nat
      BY <1>1
    <2>3. b[t] \in Int /\ z[t] \in Nat /\ y[t] = IF t = N THEN m ELSE z[t]
      BY <1>2, <1>4, <2>2
    <2>4. z[t] <= y[t]
      BY <1>5, <2>3
    <2> QED BY <2>1, <2>2, <2>3, <2>4
  <1>8. ASSUME NEW t \in k + 1..N
        PROVE  1 <= y[t] /\ y[t] <= 2 + sent[t] /\ b[t] + y[t] <= Len(w)
    <2>0. /\ 1 <= z[t] /\ z[t] <= 2 + sent[t] /\ b[t] + z[t] <= Len(s)
          /\ sent[t] \in Nat /\ b[t] \in Int /\ z[t] \in Nat
          /\ y[t] = IF t = N THEN m ELSE z[t]
      BY <1>7
    <2>1. CASE t = N
      <3>1. 1 <= was /\ y[t] = m
        BY <1>5, <2>0, <2>1
      <3>2. 1 <= m
        BY <1>5, <3>1
      <3>3. b[N] + m <= Len(w) /\ m <= 2 + sent[N]
        BY <1>5
      <3> QED BY <2>1, <3>1, <3>2, <3>3
    <2>2. CASE t # N
      <3>1. y[t] = z[t]
        BY <2>0, <2>2
      <3>2. Len(s) <= Len(w)
        BY <1>5
      <3> DEFINE e == b[t] + z[t]
      <3>3. e \in Int /\ e <= Len(s)
        BY <2>0
      <3> HIDE DEF e
      <3>4. e <= Len(w)
        BY <1>5, <3>2, <3>3
      <3>5. b[t] + z[t] <= Len(w)
        BY <3>4 DEF e
      <3> QED BY <2>0, <3>1, <3>5
    <2> QED BY <2>1, <2>2
  <1>9. ASSUME NEW t \in k + 1..N, NEW u \in k + 1..N, t < u PROVE b[t] + y[t] <= b[u]
    <2>1. b[t] + z[t] <= b[u] /\ t # N
      BY <1>1, <1>9 DEF Laid, N
    <2> QED BY <1>4, <1>7, <2>1
  <1>10. ASSUME NEW t \in k + 1..N, NEW j \in 1..y[t], b[t] + j > 0
         PROVE  w[b[t] + j] = Message(sent, t, j)
    <2>1. CASE j <= z[t]
      <3>1. s[b[t] + j] = Message(sent, t, j)
        BY <1>7, <1>10, <2>1 DEF Laid, N
      <3>2. b[t] + j \in 1..Len(s)
        <4>1. b[t] + z[t] <= Len(s) /\ b[t] \in Int /\ z[t] \in Nat /\ y[t] \in Nat
          BY <1>4, <1>7
        <4> DEFINE x == b[t]
                   q == z[t]
        <4>2. /\ j \in Nat /\ j <= q /\ x + j > 0 /\ x + q <= Len(s)
              /\ x \in Int /\ q \in Nat /\ Len(s) \in Nat
          BY <1>5, <1>10, <2>1, <4>1
        <4> HIDE DEF x, q
        <4>3. x + j \in 1..Len(s)
          BY <4>2
        <4> QED BY <4>3 DEF x
      <3> QED BY <1>6, <3>1, <3>2
    <2>2. CASE ~(j <= z[t])
      <3>1. z[t] \in Nat /\ y[t] \in Nat /\ y[t] = IF t = N THEN m ELSE z[t]
        BY <1>4, <1>7
      <3>2. t = N /\ y[t] = m /\ j \in Nat /\ j <= m
        BY <2>2, <3>1
      <3>3. z[t] = was /\ j > was
        BY <1>5, <2>2, <3>1, <3>2
      <3>4. j \in was + 1..m
        BY <3>2, <3>3
      <3> DEFINE x == b[N]
      <3>5. x \in Int /\ Len(s) = x + was
        BY <1>5
      <3> HIDE DEF x
      <3>6. x + j = Len(s) + (j - was)
        BY <3>2, <3>5
      <3>7. b[t] + j = Len(s) + (j - was)
        BY <3>2, <3>6 DEF x
      <3> QED BY <1>6, <3>2, <3>4, <3>7
    <2> QED BY <2>1, <2>2
  <1>11. ASSUME NEW x \in 1..Len(w), w[x] # Answer
         PROVE  \E t \in k + 1..N : b[t] < x /\ x <= b[t] + y[t]
    <2>1. CASE x <= Len(s)
      <3>1. x \in 1..Len(s) /\ s[x] # Answer
        BY <1>5, <1>6, <1>11, <2>1
      <3>2. PICK t \in k + 1..N : b[t] < x /\ x <= b[t] + z[t]
        BY <3>1 DEF Laid, N
      <3>3. x <= b[t] + y[t]
        <4>1. b[t] \in Int /\ z[t] \in Nat /\ z[t] <= y[t] /\ y[t] \in Nat
          BY <1>7
        <4> QED BY <3>1, <3>2, <4>1
      <3> QED BY <3>2, <3>3
    <2>2. CASE ~(x <= Len(s))
      <3>1. b[N] < x /\ x <= b[N] + y[N]
        BY <1>5, <2>2
      <3> QED BY <1>1, <3>1
    <2> QED BY <2>1, <2>2
  <1>12. ASSUME NEW t \in k + 1..N, y[t] < 2 + sent[t]
         PROVE  t = N /\ y[t] <= 2 /\ Len(w) = b[t] + y[t]
    <2>1. t = N
      <3> SUFFICES ASSUME t # N PROVE FALSE
        OBVIOUS
      <3>1. z[t] < 2 + sent[t]
        BY <1>4, <1>7, <1>12
      <3> QED BY <3>1 DEF Laid, N
    <2>2. y[t] <= 2
      BY <1>1, <1>5, <1>12, <2>1
    <2> QED BY <1>5, <2>1, <2>2
  <1>13. Laid(b, y, w, sent, k)
    BY <1>2, <1>4, <1>8, <1>9, <1>10, <1>11, <1>12 DEF Laid, N
  <1> QED BY <1>4, <1>13 DEF N

-----------------------------------------------------------------------------
(* What a reader finds at its place *)

\* Between two commands it finds the first word of the next message, or an answer.
LEMMA TakesCommand ==
  ASSUME NEW sent \in Seq(Nat), NEW s \in Seq(Words), NEW k \in 0..Len(sent), NEW b, NEW z, NEW len,
         Laid(b, z, s, sent, k), Begun(b, z, sent, k, "command", len), s # <<>>
  PROVE  /\ s[1] \in {Send, Answer}
         /\ \E c : /\ Laid(c, z, SubSeq(s, 1 + 1, Len(s)), sent, k)
                   /\ Begun(c, z, sent, k, IF s[1] = Send THEN "length" ELSE "start", 0)
  <1> DEFINE N == Len(sent)
  <1>1. /\ N \in Nat /\ Len(s) \in Nat /\ k \in Nat /\ k <= N /\ 1 \in 1..Len(s) /\ 1 \in 0..Len(s)
        /\ k \in k..N /\ \A t \in k + 1..N : t \in 1..N
    OBVIOUS
  <1>2. \A t \in k + 1..N : b[t] \in Int /\ z[t] \in Nat /\ 1 <= z[t] /\ b[t] >= 0
    <2>1. b \in [1..N -> Int] /\ z \in [1..N -> Nat]
      BY DEF Laid
    <2>2. \A t \in k + 1..N : 1 <= z[t] /\ b[t] >= 0 - Taken("command")
      BY DEF Laid, Begun
    <2>3. 0 - Taken("command") = 0
      BY DEF Taken
    <2> QED BY <1>1, <2>1, <2>2, <2>3
  <1> DEFINE c == Moved(b, 1, N)
  <1>3. Passed(b, z, k, k, 1)
    BY <1>1 DEF Passed
  <1> HIDE DEF N
  <1>4. Laid(c, z, SubSeq(s, 1 + 1, Len(s)), sent, k) /\ \A t \in 1..N : c[t] = b[t] - 1
    BY <1>1, <1>3, LaidTakes DEF N
  <1> HIDE DEF c
  <1>5. ASSUME NEW t \in k + 1..N, b[t] = 0 PROVE t = k + 1 /\ k < N /\ s[1] = Send
    <2>1. 1 \in 1..z[t] /\ b[t] + 1 = 1 /\ b[t] + 1 > 0
      BY <1>2, <1>5
    <2>2. s[b[t] + 1] = Message(sent, t, 1)
      BY <2>1 DEF Laid, N
    <2>3. ASSUME t # k + 1 PROVE FALSE
      <3>1. k + 1 \in k + 1..N /\ k + 1 < t
        BY <1>1, <2>3
      <3>2. b[k + 1] + z[k + 1] <= b[t]
        BY <3>1 DEF Laid, N
      <3>3. b[k + 1] \in Int /\ z[k + 1] \in Nat /\ 1 <= z[k + 1] /\ b[k + 1] >= 0
        BY <1>2, <3>1
      <3> QED BY <1>5, <3>2, <3>3
    <2>4. k < N
      BY <1>1
    <2> QED BY <2>1, <2>2, <2>3, <2>4 DEF Message
  <1>6. CASE s[1] = Answer
    <2>1. s[1] # Send
      BY <1>6 DEF Send, Answer
    <2>2. ASSUME NEW t \in k + 1..N PROVE c[t] >= 0 - Taken("start")
      <3>1. b[t] # 0 /\ b[t] \in Int /\ b[t] >= 0 /\ c[t] = b[t] - 1
        BY <1>1, <1>2, <1>4, <1>5, <2>1
      <3> QED BY <3>1 DEF Taken
    <2>3. Begun(c, z, sent, k, "start", 0)
      BY <2>2 DEF Begun, N, Taken
    <2> QED BY <1>4, <1>6, <2>1, <2>3
  <1>7. CASE s[1] # Answer
    <2>1. PICK t \in k + 1..N : b[t] < 1 /\ 1 <= b[t] + z[t]
      BY <1>1, <1>7 DEF Laid, N
    <2>2. b[t] = 0
      BY <1>2, <2>1
    <2>3. t = k + 1 /\ k < N /\ s[1] = Send
      BY <1>5, <2>1, <2>2
    <2>4. c[k + 1] = 0 - 1 /\ z[k + 1] >= 1
      BY <1>1, <1>2, <1>4, <2>1, <2>2, <2>3
    <2>5. ASSUME NEW u \in k + 1..N PROVE c[u] >= 0 - 1
      <3>1. b[u] \in Int /\ b[u] >= 0 /\ c[u] = b[u] - 1
        BY <1>1, <1>2, <1>4
      <3> QED BY <3>1
    <2>6. Begun(c, z, sent, k, "length", 0)
      BY <2>3, <2>4, <2>5 DEF Begun, N, Taken
    <2> QED BY <1>4, <2>3, <2>6
  <1> QED BY <1>6, <1>7

\* Behind the first word it finds the length of that text.
LEMMA TakesLength ==
  ASSUME NEW sent \in Seq(Nat), NEW s \in Seq(Words), NEW k \in 0..Len(sent), NEW b, NEW z, NEW len,
         Laid(b, z, s, sent, k), Begun(b, z, sent, k, "length", len), s # <<>>
  PROVE  /\ k + 1 \in 1..Len(sent) /\ s[1] = Length(sent[k + 1])
         /\ \E c : /\ Laid(c, z, SubSeq(s, 1 + 1, Len(s)), sent, k)
                   /\ Begun(c, z, sent, k, "text", sent[k + 1])
  <1> DEFINE N == Len(sent)
  <1>1. /\ N \in Nat /\ Len(s) \in Nat /\ Len(s) > 0 /\ k \in Nat /\ k <= N /\ 1 \in 0..Len(s)
        /\ k \in k..N /\ \A t \in k + 1..N : t \in 1..N /\ sent[t] \in Nat
    OBVIOUS
  <1>2. k < N /\ b[k + 1] = 0 - 1 /\ z[k + 1] >= 1 /\ \A t \in k + 1..N : b[t] >= 0 - 1
    BY DEF Begun, Taken
  <1> DEFINE c == Moved(b, 1, N)
  <1>3. Passed(b, z, k, k, 1)
    BY <1>1 DEF Passed
  <1> HIDE DEF N
  <1>4. Laid(c, z, SubSeq(s, 1 + 1, Len(s)), sent, k) /\ \A t \in 1..N : c[t] = b[t] - 1
    BY <1>1, <1>3, LaidTakes DEF N
  <1> HIDE DEF c
  <1>5. k + 1 \in k + 1..N /\ k + 1 \in 1..N
    BY <1>1, <1>2
  <1>6. \A t \in k + 1..N : b[t] \in Int /\ z[t] \in Nat
    BY <1>1 DEF Laid, N
  <1>7. z[k + 1] >= 2
    <2> SUFFICES ASSUME z[k + 1] < 2 PROVE FALSE
      BY <1>5, <1>6
    <2>1. z[k + 1] = 1 /\ sent[k + 1] \in Nat
      BY <1>1, <1>2, <1>5, <1>6
    <2>2. z[k + 1] < 2 + sent[k + 1]
      BY <2>1
    <2>3. Len(s) = b[k + 1] + z[k + 1]
      BY <1>5, <2>2 DEF Laid, N
    <2> QED BY <1>1, <1>2, <2>1, <2>3
  <1>8. s[1] = Length(sent[k + 1])
    <2>1. 2 \in 1..z[k + 1] /\ b[k + 1] + 2 = 1 /\ b[k + 1] + 2 > 0
      BY <1>2, <1>5, <1>6, <1>7
    <2>2. s[b[k + 1] + 2] = Message(sent, k + 1, 2)
      BY <1>5, <2>1 DEF Laid, N
    <2> QED BY <2>1, <2>2 DEF Message
  <1>9. ASSUME NEW u \in k + 1..N PROVE c[u] >= 0 - 2
    <2>1. b[u] \in Int /\ b[u] >= 0 - 1 /\ c[u] = b[u] - 1
      BY <1>1, <1>2, <1>4, <1>6
    <2> QED BY <2>1
  <1>10. c[k + 1] = 0 - 2
    BY <1>2, <1>4, <1>5
  <1>11. Begun(c, z, sent, k, "text", sent[k + 1])
    BY <1>2, <1>7, <1>9, <1>10 DEF Begun, N, Taken
  <1> QED BY <1>4, <1>5, <1>8, <1>11 DEF N

\* Behind the length it finds the text, to its last word if any of it is there.
LEMMA TakesText ==
  ASSUME NEW sent \in Seq(Nat), NEW s \in Seq(Words), NEW k \in 0..Len(sent), NEW b, NEW z, NEW len,
         Laid(b, z, s, sent, k), Begun(b, z, sent, k, "text", len), s # <<>> \/ len = 0
  PROVE  /\ k + 1 \in 1..Len(sent) /\ z[k + 1] = 2 + sent[k + 1]
         /\ len = sent[k + 1] /\ len \in 0..Len(s)
         /\ \A i \in 1..len : s[i] = Chunk(k + 1)
         /\ \E c : /\ Laid(c, z, SubSeq(s, len + 1, Len(s)), sent, k + 1)
                   /\ Begun(c, z, sent, k + 1, "start", 0)
  <1> DEFINE N == Len(sent)
  <1>1. /\ N \in Nat /\ Len(s) \in Nat /\ (s # <<>> => Len(s) > 0) /\ k \in Nat /\ k <= N
        /\ \A t \in k + 1..N : t \in 1..N /\ sent[t] \in Nat
    OBVIOUS
  <1>2. k < N /\ b[k + 1] = 0 - 2 /\ z[k + 1] >= 2 /\ len = sent[k + 1]
    BY DEF Begun, Taken
  <1> HIDE DEF N
  <1>3. k + 1 \in k + 1..N /\ k + 1 \in 1..N /\ k + 1 \in k..N /\ len \in Nat
    BY <1>1, <1>2
  <1>4. \A t \in k + 1..N : b[t] \in Int /\ z[t] \in Nat
    BY <1>1 DEF Laid, N
  <1>5. z[k + 1] \in Nat /\ z[k + 1] <= 2 + len /\ b[k + 1] + z[k + 1] <= Len(s)
    BY <1>2, <1>3, <1>4 DEF Laid, N
  <1>6. z[k + 1] = 2 + len
    <2> SUFFICES ASSUME z[k + 1] < 2 + len PROVE FALSE
      BY <1>3, <1>5
    <2>1. Len(s) = b[k + 1] + z[k + 1] /\ z[k + 1] <= 2
      BY <1>2, <1>3 DEF Laid, N
    <2>2. Len(s) = 0
      BY <1>1, <1>2, <1>5, <2>1
    <2>3. z[k + 1] = 2
      BY <1>2, <1>5, <2>1
    <2> QED BY <1>1, <1>3, <2>2, <2>3
  <1>7. len \in 0..Len(s)
    BY <1>1, <1>2, <1>3, <1>5, <1>6
  <1>8. ASSUME NEW i \in 1..len PROVE s[i] = Chunk(k + 1)
    <2>1. i + 2 \in 1..z[k + 1] /\ b[k + 1] + (i + 2) = i /\ i > 0 /\ i + 2 # 1 /\ i + 2 # 2
      BY <1>2, <1>3, <1>6
    <2>2. s[b[k + 1] + (i + 2)] = Message(sent, k + 1, i + 2)
      BY <1>3, <2>1 DEF Laid, N
    <2> QED BY <2>1, <2>2 DEF Message
  <1> DEFINE c == Moved(b, len, N)
  <1>9. Passed(b, z, k, k + 1, len)
    <2> SUFFICES ASSUME NEW t \in k + 1..k + 1 PROVE b[t] + z[t] <= len
      BY DEF Passed
    <2>1. t = k + 1
      BY <1>1
    <2>2. (0 - 2) + (2 + len) <= len
      BY <1>3
    <2> QED BY <1>2, <1>6, <2>1, <2>2
  <1>10. Laid(c, z, SubSeq(s, len + 1, Len(s)), sent, k + 1) /\ \A t \in 1..N : c[t] = b[t] - len
    BY <1>1, <1>3, <1>7, <1>9, LaidTakes DEF N
  <1> HIDE DEF c
  <1>11. ASSUME NEW t \in (k + 1) + 1..N PROVE c[t] >= 0
    <2>1. t \in k + 1..N /\ t \in 1..N /\ k + 1 < t
      BY <1>1
    <2>2. b[k + 1] + z[k + 1] <= b[t] /\ b[t] \in Int /\ c[t] = b[t] - len
      BY <1>3, <1>4, <1>10, <2>1 DEF Laid, N
    <2>3. b[k + 1] + z[k + 1] = len
      BY <1>2, <1>3, <1>6
    <2> QED BY <1>3, <2>2, <2>3
  <1>12. Begun(c, z, sent, k + 1, "start", 0)
    BY <1>11 DEF Begun, N, Taken
  <1> QED BY <1>2, <1>3, <1>6, <1>7, <1>8, <1>10, <1>12 DEF N

\* At the end of the stream in the middle of a message, that message is the last
\* and was not sent to its end.
LEMMA StreamEnds ==
  ASSUME NEW sent \in Seq(Nat), NEW s \in Seq(Words), NEW k \in 0..Len(sent), NEW b, NEW z, NEW at,
         NEW len, Laid(b, z, s, sent, k), Begun(b, z, sent, k, at, len), s = <<>>,
         at \in {"length", "text"}, at = "length" \/ len # 0
  PROVE  /\ k + 1 = Len(sent) /\ k + 1 \in 1..Len(sent) /\ z[k + 1] < 2 + sent[k + 1]
         /\ at = "text" => len = sent[k + 1]
  <1> DEFINE N == Len(sent)
  <1>1. /\ N \in Nat /\ Len(s) = 0 /\ k \in Nat /\ k <= N /\ 1..0 = {}
        /\ \A t \in k + 1..N : t \in 1..N /\ sent[t] \in Nat
    OBVIOUS
  <1> HIDE DEF N
  <1>2. k < N /\ b[k + 1] = 0 - Taken(at) /\ z[k + 1] >= Taken(at) /\ (at = "text" => len = sent[k + 1])
    BY DEF Begun, Taken, N
  <1>3. k + 1 \in k + 1..N /\ k + 1 \in 1..N /\ sent[k + 1] \in Nat
    BY <1>1, <1>2
  <1>4. b \in [1..N -> Int] /\ z \in [1..N -> Nat] /\ z[k + 1] \in Nat
    BY <1>3 DEF Laid, N
  <1>5. z[k + 1] <= Taken(at)
    <2>1. b[k + 1] + z[k + 1] <= 0
      BY <1>1, <1>3 DEF Laid, N
    <2> QED BY <1>2, <1>4, <2>1 DEF Taken
  <1>6. z[k + 1] < 2 + sent[k + 1]
    <2>1. CASE at = "length"
      BY <1>3, <1>4, <1>5, <2>1 DEF Taken
    <2>2. CASE at = "text" /\ len # 0
      BY <1>2, <1>3, <1>4, <1>5, <2>2 DEF Taken
    <2> QED BY <2>1, <2>2
  <1>7. k + 1 = N
    BY <1>3, <1>6 DEF Laid, N
  <1> QED BY <1>2, <1>3, <1>6, <1>7 DEF N

\* That is so of a text of which there is nothing.
LEMMA StreamEndsInText ==
  ASSUME NEW sent \in Seq(Nat), NEW s \in Seq(Words), NEW k \in 0..Len(sent), NEW b, NEW z,
         NEW len, Laid(b, z, s, sent, k), Begun(b, z, sent, k, "text", len), s = <<>>, len # 0
  PROVE  /\ k + 1 = Len(sent) /\ k + 1 \in 1..Len(sent) /\ z[k + 1] < 2 + sent[k + 1]
         /\ len = sent[k + 1]
  <1> DEFINE at == "text"
  <1>1. Begun(b, z, sent, k, at, len) /\ at \in {"length", "text"} /\ at = "text"
    OBVIOUS
  <1>2. at = "length" \/ len # 0
    OBVIOUS
  <1> HIDE DEF at
  <1>3. /\ k + 1 = Len(sent) /\ k + 1 \in 1..Len(sent) /\ z[k + 1] < 2 + sent[k + 1]
        /\ at = "text" => len = sent[k + 1]
    BY <1>1, <1>2, StreamEnds
  <1> QED BY <1>1, <1>3

\* Before the first word, and behind the last text, nothing is expected.
LEMMA LaidNothing ==
  ASSUME NEW sent \in Seq(Nat), NEW z \in [1..Len(sent) -> Nat]
  PROVE  \E b : Laid(b, z, <<>>, sent, Len(sent)) /\ Begun(b, z, sent, Len(sent), "start", 0)
  <1> DEFINE N == Len(sent)
             b == [t \in 1..N |-> 0]
  <1>1. N \in Nat /\ Len(<<>>) = 0 /\ 1..0 = {} /\ \A t \in N + 1..N : FALSE
    OBVIOUS
  <1>2. b \in [1..N -> Int]
    OBVIOUS
  <1> HIDE DEF b, N
  <1>3. Laid(b, z, <<>>, sent, N)
    BY <1>1, <1>2 DEF Laid, N
  <1>4. Begun(b, z, sent, N, "start", 0)
    BY <1>1 DEF Begun, Taken, N
  <1> QED BY <1>3, <1>4 DEF N

\* Between two commands a reader may be in the loop or in readcommand.
LEMMA BegunLoops ==
  ASSUME NEW sent, NEW k, NEW b, NEW z, NEW len, NEW len2, Begun(b, z, sent, k, "start", len)
  PROVE  Begun(b, z, sent, k, "command", len2)
  BY DEF Begun, Taken

\* More and sent agree on the messages of sent, of which no fewer words are
\* written, and the others lie further on.
Behind(b, z, sent, c, y, more) ==
    /\ Len(sent) <= Len(more)
    /\ \A t \in 1..Len(sent) : more[t] = sent[t] /\ c[t] = b[t] /\ z[t] <= y[t]
    /\ \A t \in Len(sent) + 1..Len(more) : c[t] \in Nat

\* What is written behind the words a reader takes changes nothing for it.
LEMMA BegunStays ==
  ASSUME NEW sent \in Seq(Nat), NEW more \in Seq(Nat), NEW k \in 0..Len(sent), NEW b, NEW z, NEW c, NEW y,
         NEW at, NEW len, Begun(b, z, sent, k, at, len),
         z \in [1..Len(sent) -> Nat], y \in [1..Len(more) -> Nat], Behind(b, z, sent, c, y, more)
  PROVE  Begun(c, y, more, k, at, len)
  <1> DEFINE N == Len(sent)
             M == Len(more)
  <1>a. /\ N <= M /\ \A t \in 1..N : more[t] = sent[t] /\ c[t] = b[t] /\ z[t] <= y[t]
        /\ \A t \in N + 1..M : c[t] \in Nat
    BY DEF Behind
  <1>1. /\ N \in Nat /\ M \in Nat /\ N <= M /\ k \in Nat
        /\ \A t \in k + 1..N : t \in 1..N
        /\ \A t \in k + 1..M : t \in k + 1..N \/ t \in N + 1..M
    BY <1>a
  <1>2. Taken(at) \in Nat
    BY DEF Taken
  <1>3. ASSUME NEW t \in k + 1..M PROVE c[t] >= 0 - Taken(at)
    <2>1. CASE t \in k + 1..N
      BY <1>1, <1>a, <2>1 DEF Begun
    <2>2. CASE t \in N + 1..M
      <3>1. c[t] \in Nat
        BY <1>a, <2>2
      <3> HIDE DEF N, M
      <3> QED BY <1>2, <3>1
    <2> QED BY <1>1, <2>1, <2>2
  <1>4. ASSUME Taken(at) > 0
        PROVE  k < M /\ c[k + 1] = 0 - Taken(at) /\ y[k + 1] >= Taken(at) /\ more[k + 1] = sent[k + 1]
    <2>1. k < N /\ b[k + 1] = 0 - Taken(at) /\ z[k + 1] >= Taken(at)
      BY <1>4 DEF Begun
    <2>2. k + 1 \in 1..N /\ k + 1 \in 1..M
      BY <1>1, <2>1
    <2>3. z[k + 1] \in Nat /\ y[k + 1] \in Nat /\ z[k + 1] <= y[k + 1]
      BY <1>a, <2>2
    <2>4. y[k + 1] >= Taken(at)
      <3> HIDE DEF N, M
      <3> QED BY <1>2, <2>1, <2>3
    <2> QED BY <1>1, <1>a, <2>1, <2>2, <2>4
  <1>5. at = "text" => Taken(at) > 0 /\ len = sent[k + 1]
    BY DEF Taken, Begun
  <1> QED BY <1>3, <1>4, <1>5 DEF Begun

-----------------------------------------------------------------------------
(* One reader on one connection *)

Sole == \A r, s \in Active : r = s

\* A reader that is in read, or that can begin to.
Live(r) == socket # NULL \/ readers[r].on # NULL

\* Words written of each message.
WrittenOf(t) ==
    IF sending[t].next = "length" THEN 1 ELSE IF sending[t].next = "text" THEN 2 ELSE 2 + texts[t]
Written == [t \in 1..Len(texts) |-> WrittenOf(t)]

Framed(r) ==
    \E b : /\ Laid(b, Written, inbox[1], texts, Len(handled))
           /\ Begun(b, Written, texts, Len(handled), readers[r].at, readers[r].len)

\* The server went between the first word of a message and its length, which is
\* 0 to the reader.
CutOff(r) ==
    /\ gone # {} /\ inbox[1] = <<>>
    /\ readers[r].at = "text" /\ readers[r].len = 0
    /\ Len(handled) + 1 = Len(texts) /\ ~Whole(Len(handled) + 1)

\* Where the threads are.
Places ==
    /\ socket \notin hungup
    /\ \A r \in DOMAIN readers : readers[r].at \in {"start", "end"} => readers[r].on = NULL
    /\ ~connected => inbox = <<>> /\ texts = <<>> /\ handled = <<>>
    /\ connected => Active # {}
    /\ \A t \in DOMAIN sending : sending[t].next = "text" => texts[t] # 0

\* A text that was handed over is as it was sent, or was cut off.
AsSent ==
    /\ Len(handled) <= Len(texts)
    /\ \A i \in DOMAIN handled : IF Whole(i) THEN handled[i] = Text(i) ELSE gone # {}

\* A reader that has the only connection to itself, and no text that was torn.
Alone == connected /\ Sole /\ ~torn

InOrder ==
    Alone => /\ Len(inbox) = 1
             /\ AsSent
             /\ \A r \in Active : Live(r) => Framed(r) \/ CutOff(r)

\* What was written of a message.
LEMMA WrittenIs ==
  ASSUME TypeOK, Places
  PROVE  /\ Written \in [1..Len(texts) -> Nat] /\ DOMAIN sending = 1..Len(texts) /\ Len(texts) \in Nat
         /\ texts \in Seq(Nat)
         /\ \A t \in 1..Len(texts) :
                /\ Written[t] = WrittenOf(t) /\ texts[t] \in Nat
                /\ Whole(t) <=> Written[t] = 2 + texts[t]
                /\ Whole(t) <=> ~(Written[t] < 2 + texts[t])
  <1>1. texts \in Seq(Lengths) /\ sending \in Seq(Sendings) /\ Len(sending) = Len(texts)
    BY DEF TypeOK, Sendings
  <1>2. DOMAIN sending = 1..Len(texts) /\ Len(texts) \in Nat /\ texts \in Seq(Nat)
    <2>1. texts \in Seq(Nat)
      BY <1>1, SeqMonotonic, ClientConstants
    <2> QED BY <1>1, <2>1
  <1>3. ASSUME NEW t \in 1..Len(texts)
        PROVE  /\ WrittenOf(t) \in Nat /\ texts[t] \in Nat
               /\ Whole(t) <=> WrittenOf(t) = 2 + texts[t]
               /\ Whole(t) <=> ~(WrittenOf(t) < 2 + texts[t])
    <2>1. texts[t] \in Nat /\ sending[t] \in Sendings /\ t \in DOMAIN sending
      BY <1>1, <1>2
    <2>2. sending[t].next \in {"length", "text", "nothing"}
      BY <2>1 DEF Sendings
    <2>3. CASE sending[t].next = "length"
      <3>1. WrittenOf(t) = 1 /\ ~Whole(t)
        BY <2>3 DEF WrittenOf, Whole
      <3> QED BY <2>1, <3>1
    <2>4. CASE sending[t].next = "text"
      <3>1. WrittenOf(t) = 2 /\ ~Whole(t) /\ texts[t] # 0
        BY <2>1, <2>4 DEF WrittenOf, Whole, Places
      <3> QED BY <2>1, <3>1
    <2>5. CASE sending[t].next = "nothing"
      <3>1. WrittenOf(t) = 2 + texts[t] /\ Whole(t)
        BY <2>1, <2>5 DEF WrittenOf, Whole
      <3> QED BY <2>1, <3>1
    <2> QED BY <2>2, <2>3, <2>4, <2>5
  <1> QED BY <1>2, <1>3 DEF Written

\* What a reader's step leaves alone.
LEMMA ReaderSteps ==
  ASSUME TypeOK, Places, NEW r \in Thread, Run(r)
  PROVE  /\ r \in Active /\ ~crashed /\ NoChangeButReader
         /\ DOMAIN readers' = DOMAIN readers
         /\ \A q \in DOMAIN readers : q # r => readers'[q] = readers[q]
         /\ connected => Active' = Active
         /\ readers'[r].at \in {"start", "end"} => readers'[r].on = NULL
         /\ UNCHANGED inbox \/ readers[r].on \in Made
         /\ UNCHANGED handled \/ readers[r].on \in Made
  <1>0. readers \in Seq(Readers) /\ DOMAIN readers = 1..Len(readers)
    BY DEF TypeOK, Readers
  <1>a. ASSUME r \in DOMAIN readers PROVE readers[r].on \in {NULL} \cup Made
    <2>1. readers[r] \in Readers
      BY <1>0, <1>a
    <2> QED BY <2>1 DEF Readers
  <1>b. NULL \notin hungup /\ hungup \subseteq Made /\ NULL \notin Made
    BY DEF TypeOK, NULL, Made
  <1>1. r \in DOMAIN readers /\ readers[r].at # "end"
    <2>1. CASE Loop(r)
      BY <2>1 DEF Loop, At
    <2>2. CASE TakeCommand(r) \/ TakeLength(r) \/ TakeText(r) \/ TakeNothing(r)
      BY <2>2 DEF TakeCommand, TakeLength, TakeText, TakeNothing, Reads, At
    <2>3. CASE Call(r)
      BY <2>3 DEF Call, Receiving
    <2>4. CASE EndOfStream(r)
      BY <2>4 DEF EndOfStream, At
    <2>5. CASE ReadFails(r)
      <3>1. r \in DOMAIN readers /\ readers[r].on # NULL
        BY <1>b, <2>5 DEF ReadFails
      <3> QED BY <3>1 DEF Places
    <2> QED BY <2>1, <2>2, <2>3, <2>4, <2>5 DEF Run, ReadCommand
  <1>2. ~crashed /\ NoChangeButReader
    BY DEF Run, ReadCommand, Loop, Call, TakeCommand, TakeLength, TakeText, TakeNothing, EndOfStream,
           ReadFails, Reads, At
  <1>3. \/ readers' = readers
        \/ \E at \in Receiving \cup {"start", "end"}, len \in Nat \cup {Wild} :
               Become(r, at, NULL, len) /\ (connected => at # "end")
        \/ readers' = [readers EXCEPT ![r].on = socket] /\ readers[r].at \in Receiving
    <2> USE DEF Receiving
    <2>0. 0 \in Nat \cup {Wild}
      OBVIOUS
    <2>1. CASE Loop(r)
      <3>1. Become(r, IF connected THEN "command" ELSE "end", NULL, 0)
        BY <2>1 DEF Loop
      <3>2. CASE connected
        BY <2>0, <3>1, <3>2
      <3>3. CASE ~connected
        BY <2>0, <3>1, <3>3
      <3> QED BY <3>2, <3>3
    <2>2. CASE TakeCommand(r)
      <3>1. Become(r, IF IsSendMsg(Word(r)) THEN "length" ELSE "start", NULL, 0)
        BY <2>2 DEF TakeCommand
      <3> QED BY <2>0, <3>1
    <2>3. CASE TakeLength(r)
      <3>1. Become(r, "text", NULL, AsLength(Word(r)))
        BY <2>3 DEF TakeLength
      <3>2. AsLength(Word(r)) \in Nat \cup {Wild}
        BY <2>3, WordTypes, <1>1 DEF TakeLength, Reads
      <3> QED BY <3>1, <3>2
    <2>4. CASE TakeText(r)
      BY <2>0, <2>4 DEF TakeText
    <2>5. CASE TakeNothing(r)
      BY <2>0, <2>5 DEF TakeNothing
    <2>6. CASE Call(r)
      BY <2>6 DEF Call
    <2>7. CASE EndOfStream(r)
      BY <2>0, <2>7 DEF EndOfStream
    <2>8. CASE ReadFails(r)
      <3>1. Become(r, IF readers[r].at = "command" THEN "command" ELSE "start", NULL, 0)
        BY <2>8 DEF ReadFails
      <3> QED BY <2>0, <3>1
    <2> QED BY <2>1, <2>2, <2>3, <2>4, <2>5, <2>6, <2>7, <2>8 DEF Run, ReadCommand
  <1>4. /\ DOMAIN readers' = DOMAIN readers
        /\ \A q \in DOMAIN readers : q # r => readers'[q] = readers[q]
    BY <1>3 DEF Become
  <1>5. /\ readers'[r].at \in {"start", "end"} => readers'[r].on = NULL
        /\ connected => readers'[r].at # "end"
    <2>1. CASE readers' = readers
      BY <1>1, <2>1 DEF Places
    <2>2. CASE \E at \in Receiving \cup {"start", "end"}, len \in Nat \cup {Wild} :
                   Become(r, at, NULL, len) /\ (connected => at # "end")
      <3>1. PICK at \in Receiving \cup {"start", "end"}, len \in Nat \cup {Wild} :
                   Become(r, at, NULL, len) /\ (connected => at # "end")
        BY <2>2
      <3>2. readers'[r] = [at |-> at, on |-> NULL, len |-> len]
        BY <1>1, <3>1 DEF Become
      <3> QED BY <3>1, <3>2
    <2>3. CASE readers' = [readers EXCEPT ![r].on = socket] /\ readers[r].at \in Receiving
      <3>1. readers'[r] = [readers[r] EXCEPT !.on = socket]
        BY <1>1, <2>3
      <3>2. readers[r] \in Readers
        BY <1>0, <1>1
      <3>3. readers'[r].at = readers[r].at
        BY <3>1, <3>2 DEF Readers
      <3> QED BY <2>3, <3>3 DEF Receiving
    <2> QED BY <1>3, <2>1, <2>2, <2>3
  <1>6. connected => Active' = Active
    BY <1>1, <1>4, <1>5 DEF Active
  <1>7. UNCHANGED <<inbox, handled>> \/ readers[r].on # NULL
    BY <1>b DEF Run, ReadCommand, Loop, Call, TakeCommand, TakeLength, TakeText, TakeNothing, EndOfStream,
           ReadFails, Reads
  <1> QED BY <1>a, <1>1, <1>2, <1>4, <1>5, <1>6, <1>7 DEF Active

\* Threads keep to their places.
LEMMA PlacesStep ==
  ASSUME TypeOK, Places, [Next]_vars
  PROVE  Places'
  <1> USE DEF history, server
  <1>0. /\ readers \in Seq(Readers) /\ DOMAIN readers = 1..Len(readers) /\ Len(readers) \in Nat
        /\ inbox \in Seq(Seq(Words)) /\ hungup \subseteq Made /\ NULL \notin hungup
        /\ socket \in {NULL} \cup Made
    BY DEF TypeOK, Readers, NULL, Made
  <1>a. ASSUME UNCHANGED <<readers, connected>>, socket' \notin hungup',
               ~connected => inbox' = <<>> /\ texts' = <<>> /\ handled' = <<>>,
               \A t \in DOMAIN sending' : sending'[t].next = "text" => texts'[t] # 0
        PROVE  Places'
    BY <1>a DEF Places, Active
  <1>b. ASSUME UNCHANGED <<sending, texts>>
        PROVE  \A t \in DOMAIN sending' : sending'[t].next = "text" => texts'[t] # 0
    BY <1>b DEF Places
  <1>c. ASSUME NEW c \in Made PROVE connected
    <2>1. inbox # <<>>
      BY <1>0 DEF Made
    <2> QED BY <2>1 DEF Places
  <1>1. CASE Start
    <2>1. Active = {} /\ ~connected
      <3>1. DOMAIN readers = {}
        BY <1>0, <1>1 DEF Start
      <3> QED BY <3>1 DEF Active, Places
    <2>2. readers' = Append(readers, Reader) /\ Len(readers) = 0
      BY <1>0, <1>1 DEF Start, StartReader
    <2>3. \A r \in DOMAIN readers' : readers'[r] = Reader
      BY <1>0, <2>2
    <2> QED BY <1>1, <1>b, <2>1, <2>3 DEF Start, Places, Reader
  <1>2. CASE Connect
    <2>1. readers' = Append(readers, Reader) /\ connected' = TRUE
      BY <1>2 DEF Connect, StartReader
    <2>2. /\ DOMAIN readers' = 1..Len(readers) + 1 /\ readers'[Len(readers) + 1] = Reader
          /\ \A r \in DOMAIN readers : readers'[r] = readers[r]
      BY <1>0, <2>1
    <2>3. Len(readers) + 1 \in Active'
      BY <1>0, <2>2 DEF Active, Reader
    <2>4. \A r \in DOMAIN readers' : readers'[r].at \in {"start", "end"} => readers'[r].on = NULL
      <3>1. ASSUME NEW r \in DOMAIN readers', r # Len(readers) + 1 PROVE r \in DOMAIN readers
        BY <1>0, <2>2, <3>1
      <3> QED BY <2>2, <3>1 DEF Places, Reader
    <2>5. socket' \notin hungup'
      <3>1. socket' = Len(inbox) + 1 /\ hungup' = hungup /\ Len(inbox) \in Nat
        BY <1>0, <1>2 DEF Connect
      <3> QED BY <1>0, <3>1 DEF Made
    <2>6. UNCHANGED <<sending, texts>>
      BY <1>2 DEF Connect
    <2> QED BY <1>b, <2>1, <2>3, <2>4, <2>5, <2>6 DEF Places
  <1>3. CASE OpenSession \/ SendMessage \/ CloseSession
    BY <1>3, <1>a, <1>b DEF OpenSession, SendMessage, CloseSession, Places
  <1>4. CASE Disconnect
    <2>1. NULL \notin hungup'
      BY <1>0, <1>4 DEF Disconnect
    <2> QED BY <1>4, <1>a, <1>b, <2>1 DEF Disconnect, Places
  <1>5. ASSUME NEW c \in Made, SendAnswer(c) PROVE Places'
    BY <1>5, <1>a, <1>b, <1>c DEF SendAnswer, NoChangeByServer, Places
  <1>6. ASSUME NEW c \in Made, NEW n \in Lengths, SendCmd(c, n) PROVE Places'
    <2>1. /\ texts' = Append(texts, n) /\ sending' = Append(sending, [on |-> c, next |-> "length"])
          /\ texts \in Seq(Lengths) /\ sending \in Seq(Sendings) /\ Len(texts) = Len(sending)
      BY <1>6 DEF SendCmd, TypeOK, Sendings
    <2>2. ASSUME NEW t \in DOMAIN sending', sending'[t].next = "text" PROVE texts'[t] # 0
      <3>1. CASE t \in DOMAIN sending
        <4>1. sending'[t] = sending[t] /\ texts'[t] = texts[t]
          BY <2>1, <3>1
        <4> QED BY <2>2, <3>1, <4>1 DEF Places
      <3>2. CASE t \notin DOMAIN sending
        <4>1. sending'[t] = [on |-> c, next |-> "length"]
          BY <2>1, <3>2
        <4> QED BY <2>2, <4>1
      <3> QED BY <3>1, <3>2
    <2> QED BY <1>6, <1>a, <1>c, <2>2 DEF SendCmd, NoChangeByServer, Places
  <1>7. ASSUME NEW t \in Thread, SendLength(t) \/ SendText(t) PROVE Places'
    <2>1. t \in DOMAIN sending /\ sending[t].on \in Made
      BY <1>7, SendingType DEF SendLength, SendText, IsNext, Sendings
    <2>2. PICK next : /\ sending' = [sending EXCEPT ![t].next = next]
                      /\ next = "text" => texts[t] # 0
      BY <1>7 DEF SendLength, SendText
    <2>3. ASSUME NEW u \in DOMAIN sending', sending'[u].next = "text" PROVE texts'[u] # 0
      <3>1. u \in DOMAIN sending /\ texts' = texts
        BY <1>7, <2>2, <2>3 DEF SendLength, SendText
      <3>2. CASE u = t
        <4>1. sending[t] \in Sendings
          BY <2>1, SendingType
        <4>2. sending'[u].next = next
          BY <2>1, <2>2, <3>2, <4>1 DEF Sendings
        <4> QED BY <2>2, <2>3, <3>1, <3>2, <4>2
      <3>3. CASE u # t
        BY <2>2, <2>3, <3>1, <3>3 DEF Places
      <3> QED BY <3>2, <3>3
    <2> QED BY <1>7, <1>a, <1>c, <2>1, <2>3 DEF SendLength, SendText, NoChangeByServer, Places
  <1>d. CASE ServerGoes
    BY <1>d, <1>a, <1>b DEF ServerGoes, Places
  <1>8. ASSUME NEW r \in Thread, Run(r) PROVE Places'
    <2>1. /\ r \in Active /\ NoChangeButReader
          /\ DOMAIN readers' = DOMAIN readers
          /\ \A q \in DOMAIN readers : q # r => readers'[q] = readers[q]
          /\ connected => Active' = Active
          /\ readers'[r].at \in {"start", "end"} => readers'[r].on = NULL
          /\ UNCHANGED inbox \/ readers[r].on \in Made
          /\ UNCHANGED handled \/ readers[r].on \in Made
      BY <1>8, ReaderSteps
    <2>2. ~connected => UNCHANGED <<inbox, handled>>
      <3> SUFFICES ASSUME ~connected PROVE UNCHANGED <<inbox, handled>>
        OBVIOUS
      <3>1. inbox = <<>>
        BY DEF Places
      <3>2. Made = {}
        BY <3>1 DEF Made
      <3> QED BY <2>1, <3>2
    <2> QED BY <2>1, <2>2, <1>b DEF Places, NoChangeButReader
  <1>9. CASE UNCHANGED vars
    BY <1>9, <1>a, <1>b DEF vars, Places
  <1> QED BY <1>1, <1>2, <1>3, <1>4, <1>5, <1>6, <1>7, <1>d, <1>8, <1>9 DEF Next, Main, Server

\* The types of what one connection and one reader have.
LEMMA AloneTypes ==
  ASSUME TypeOK, Alone, InOrder
  PROVE  /\ Len(inbox) = 1 /\ Made = {1} /\ inbox[1] \in Seq(Words) /\ inbox \in Seq(Seq(Words))
         /\ texts \in Seq(Nat) /\ Len(handled) \in 0..Len(texts) /\ handled \in Seq(Seq(Words))
         /\ Len(texts) \in Nat
  <1>1. /\ Len(inbox) = 1 /\ inbox \in Seq(Seq(Words)) /\ texts \in Seq(Lengths)
        /\ handled \in Seq(Seq(Words)) /\ Len(handled) <= Len(texts)
    BY DEF TypeOK, InOrder, AsSent
  <1>2. texts \in Seq(Nat)
    BY <1>1, SeqMonotonic, ClientConstants
  <1>3. Made = {1}
    BY <1>1 DEF Made
  <1>4. inbox[1] \in Seq(Words)
    <2>1. 1 \in 1..Len(inbox)
      BY <1>1
    <2> QED BY <1>1, <2>1, ElementOfSeq
  <1>5. Len(texts) \in Nat /\ Len(handled) \in Nat
    BY <1>1
  <1> QED BY <1>1, <1>2, <1>3, <1>4, <1>5

\* Handing over the next text, or what there is of one that was cut off.
LEMMA HandOver ==
  ASSUME TypeOK, Alone, InOrder, NEW text, onMessageRecieved(text), UNCHANGED <<texts, sending, gone>>,
         Len(handled) < Len(texts),
         IF Whole(Len(handled) + 1) THEN text = Text(Len(handled) + 1) ELSE gone # {}
  PROVE  AsSent' /\ Len(handled') = Len(handled) + 1
  <1>1. handled \in Seq(Seq(Words)) /\ Len(texts) \in Nat /\ AsSent
    BY AloneTypes DEF InOrder
  <1>2. handled' = Append(handled, text)
    BY DEF onMessageRecieved
  <1>3. /\ Len(handled') = Len(handled) + 1 /\ DOMAIN handled' = 1..Len(handled) + 1
        /\ handled'[Len(handled) + 1] = text /\ DOMAIN handled = 1..Len(handled)
        /\ \A i \in 1..Len(handled) : handled'[i] = handled[i]
    BY <1>1, <1>2
  <1>4. \A i : Text(i)' = Text(i) /\ (Whole(i)' <=> Whole(i))
    BY DEF Text, Whole
  <1>5. ASSUME NEW i \in DOMAIN handled'
        PROVE  IF Whole(i)' THEN handled'[i] = Text(i)' ELSE gone' # {}
    <2>1. CASE i = Len(handled) + 1
      BY <1>3, <1>4, <2>1
    <2>2. CASE i # Len(handled) + 1
      <3>1. i \in DOMAIN handled
        BY <1>1, <1>3, <2>2
      <3> QED BY <1>1, <1>3, <1>4, <3>1 DEF AsSent
    <2> QED BY <2>1, <2>2
  <1>6. Len(handled') <= Len(texts')
    BY <1>1, <1>3
  <1> QED BY <1>3, <1>5, <1>6 DEF AsSent

\* A reader alone takes each text whole and in its turn.
LEMMA ReaderInOrder ==
  ASSUME TypeOK, Places, InOrder, NEW r \in Thread, Run(r)
  PROVE  InOrder'
  <1> SUFFICES ASSUME Alone'
               PROVE  /\ Len(inbox') = 1 /\ AsSent'
                      /\ \A q \in Active' : Live(q)' => Framed(q)' \/ CutOff(q)'
    BY DEF InOrder
  <1>0. /\ r \in Active /\ NoChangeButReader /\ r \in DOMAIN readers
        /\ connected => Active' = Active
    BY ReaderSteps DEF Active
  <1>1. Alone /\ Active' = Active /\ \A q \in Active' : q = r
    BY <1>0 DEF Alone, Sole, NoChangeButReader, server
  <1>2. /\ Len(inbox) = 1 /\ Made = {1} /\ inbox[1] \in Seq(Words) /\ inbox \in Seq(Seq(Words))
        /\ texts \in Seq(Nat) /\ Len(handled) \in 0..Len(texts) /\ handled \in Seq(Seq(Words))
        /\ Len(texts) \in Nat
    BY <1>1, AloneTypes
  <1>3. AsSent /\ (Live(r) => Framed(r) \/ CutOff(r))
    BY <1>0, <1>1 DEF InOrder
  <1>4. readers[r].on \in {NULL, 1} /\ readers[r] \in Readers
    <2>1. readers \in Seq(Readers)
      BY DEF TypeOK, Readers
    <2>2. readers[r] \in Readers
      BY <1>0, <2>1
    <2> QED BY <1>2, <2>2 DEF Readers
  <1>5. UNCHANGED <<texts, sending, socket, gone>> /\ Written' = Written /\ DOMAIN sending = 1..Len(texts)
    <2>1. UNCHANGED <<texts, sending, socket, gone>>
      BY <1>0 DEF NoChangeButReader, server
    <2> QED BY <2>1, WrittenIs DEF Written, WrittenOf
  <1>6. ASSUME UNCHANGED handled PROVE AsSent'
    BY <1>3, <1>5, <1>6 DEF AsSent, Text, Whole
  <1>7. ASSUME NEW n \in Nat, Take(r, n), readers[r].on = 1
        PROVE  Len(inbox') = 1 /\ inbox'[1] = SubSeq(inbox[1], n + 1, Len(inbox[1]))
    <2> DEFINE rest == SubSeq(inbox[1], n + 1, Len(inbox[1]))
    <2>1. inbox' = [inbox EXCEPT ![1] = rest]
      BY <1>7 DEF Take
    <2> HIDE DEF rest
    <2>2. Len(inbox') = 1 /\ inbox'[1] = rest
      BY <1>2, <2>1
    <2> QED BY <2>2 DEF rest
  <1>8. ASSUME NEW at, NEW len, Become(r, at, NULL, len)
        PROVE  readers'[r].at = at /\ readers'[r].on = NULL /\ readers'[r].len = len
    BY <1>0, <1>8 DEF Become
  <1> SUFFICES Len(inbox') = 1 /\ AsSent' /\ (Live(r)' => Framed(r)' \/ CutOff(r)')
    BY <1>1
  <1> DEFINE s == inbox[1]
             k == Len(handled)
             z == Written
  <1>9. ASSUME NEW place, Reads(r, place)
        PROVE  /\ readers[r].on = 1 /\ readers[r].at = place /\ s # <<>> /\ Len(s) \in Nat /\ Len(s) >= 1
               /\ Word(r) = s[1] /\ Live(r)
               /\ \E b : Laid(b, z, s, texts, k) /\ Begun(b, z, texts, k, place, readers[r].len)
    <2>1. readers[r].on = 1 /\ readers[r].at = place /\ s # <<>>
      BY <1>4, <1>9 DEF Reads, At
    <2>2. Len(s) \in Nat /\ Len(s) >= 1 /\ Word(r) = s[1]
      BY <1>2, <2>1 DEF Word
    <2>3. Live(r)
      BY <2>1 DEF Live, NULL
    <2> QED BY <1>3, <2>1, <2>2, <2>3 DEF Framed, CutOff
  <1>10. CASE Loop(r)
    <2>1. Become(r, "command", NULL, 0) /\ UNCHANGED <<inbox, handled>> /\ readers[r].at = "start"
      BY <1>1, <1>10 DEF Loop, Alone, At
    <2>2. readers'[r].at = "command" /\ readers'[r].len = 0 /\ readers'[r].on = NULL
      BY <1>8, <2>1
    <2>3. Live(r)' => Framed(r)'
      <3> SUFFICES ASSUME Live(r)' PROVE Framed(r)'
        OBVIOUS
      <3>1. Live(r) /\ ~CutOff(r)
        BY <1>5, <2>1, <2>2 DEF Live, CutOff
      <3>2. PICK b : Laid(b, z, s, texts, k) /\ Begun(b, z, texts, k, "start", readers[r].len)
        BY <1>3, <2>1, <3>1 DEF Framed
      <3>3. Begun(b, z, texts, k, "command", 0)
        BY <3>2, BegunLoops
      <3> QED BY <1>5, <2>1, <2>2, <3>2, <3>3 DEF Framed
    <2> QED BY <1>2, <1>6, <2>1, <2>3
  <1>11. CASE Call(r)
    <2>1. UNCHANGED <<inbox, handled>>
      BY <1>11 DEF Call
    <2>2. CASE socket = NULL
      <3>1. UNCHANGED readers
        BY <1>11, <2>2 DEF Call
      <3> QED BY <1>2, <1>3, <1>5, <1>6, <2>1, <3>1 DEF Live, Framed, CutOff, Whole
    <2>3. CASE socket # NULL
      <3>1. readers' = [readers EXCEPT ![r].on = socket]
        BY <1>11, <2>3 DEF Call
      <3>2. readers'[r] = [readers[r] EXCEPT !.on = socket]
        BY <1>0, <3>1
      <3>3. readers'[r].at = readers[r].at /\ readers'[r].len = readers[r].len
        BY <1>4, <3>2 DEF Readers
      <3>4. Live(r)
        BY <2>3 DEF Live
      <3> QED BY <1>2, <1>3, <1>5, <1>6, <2>1, <3>3, <3>4 DEF Framed, CutOff, Whole
    <2> QED BY <2>2, <2>3
  <1>12. CASE TakeCommand(r)
    <2>1. /\ Reads(r, "command") /\ Take(r, 1) /\ UNCHANGED handled
          /\ Become(r, IF IsSendMsg(s[1]) THEN "length" ELSE "start", NULL, 0)
      BY <1>9, <1>12 DEF TakeCommand
    <2>2. PICK b : Laid(b, z, s, texts, k) /\ Begun(b, z, texts, k, "command", readers[r].len)
      BY <1>9, <2>1
    <2>3. Len(inbox') = 1 /\ inbox'[1] = SubSeq(s, 1 + 1, Len(s)) /\ s # <<>>
      BY <1>7, <1>9, <2>1
    <2>4. /\ s[1] \in {Send, Answer}
          /\ \E c : /\ Laid(c, z, SubSeq(s, 1 + 1, Len(s)), texts, k)
                    /\ Begun(c, z, texts, k, IF s[1] = Send THEN "length" ELSE "start", 0)
      BY <1>2, <2>2, <2>3, TakesCommand
    <2>5. IsSendMsg(s[1]) <=> s[1] = Send
      BY <2>4 DEF IsSendMsg, Send, Answer, Length
    <2>6. readers'[r].at = (IF s[1] = Send THEN "length" ELSE "start") /\ readers'[r].len = 0
      BY <1>8, <2>1, <2>5
    <2>7. Framed(r)'
      BY <1>5, <2>1, <2>3, <2>4, <2>6 DEF Framed
    <2> QED BY <1>6, <2>1, <2>3, <2>7
  <1>13. CASE TakeLength(r)
    <2>1. /\ Reads(r, "length") /\ Take(r, 1) /\ UNCHANGED handled
          /\ Become(r, "text", NULL, AsLength(s[1]))
      BY <1>9, <1>13 DEF TakeLength
    <2>2. PICK b : Laid(b, z, s, texts, k) /\ Begun(b, z, texts, k, "length", readers[r].len)
      BY <1>9, <2>1
    <2>3. Len(inbox') = 1 /\ inbox'[1] = SubSeq(s, 1 + 1, Len(s)) /\ s # <<>>
      BY <1>7, <1>9, <2>1
    <2>4. /\ s[1] = Length(texts[k + 1])
          /\ \E c : /\ Laid(c, z, SubSeq(s, 1 + 1, Len(s)), texts, k)
                    /\ Begun(c, z, texts, k, "text", texts[k + 1])
      BY <1>2, <2>2, <2>3, TakesLength
    <2>5. AsLength(s[1]) = texts[k + 1]
      BY <2>4 DEF AsLength, Length
    <2>6. readers'[r].at = "text" /\ readers'[r].len = texts[k + 1]
      BY <1>8, <2>1, <2>5
    <2>7. Framed(r)'
      BY <1>5, <2>1, <2>3, <2>4, <2>6 DEF Framed
    <2> QED BY <1>6, <2>1, <2>3, <2>7
  <1>a. ASSUME NEW b, Laid(b, z, s, texts, k), NEW len, Begun(b, z, texts, k, "text", len), s # <<>> \/ len = 0,
               onMessageRecieved(SubSeq(s, 1, len)), Len(inbox') = 1, inbox'[1] = SubSeq(s, len + 1, Len(s)),
               Become(r, "start", NULL, 0)
        PROVE  AsSent' /\ Framed(r)'
    <2>1. /\ k + 1 \in 1..Len(texts) /\ z[k + 1] = 2 + texts[k + 1]
          /\ len = texts[k + 1] /\ len \in 0..Len(s) /\ \A i \in 1..len : s[i] = Chunk(k + 1)
          /\ \E c : /\ Laid(c, z, SubSeq(s, len + 1, Len(s)), texts, k + 1)
                    /\ Begun(c, z, texts, k + 1, "start", 0)
      <3>1. Laid(b, z, s, texts, k) /\ Begun(b, z, texts, k, "text", len) /\ (s # <<>> \/ len = 0)
        BY <1>a
      <3> QED BY <1>2, <3>1, TakesText
    <2>2. Whole(k + 1)
      BY <2>1, WrittenIs
    <2>3. SubSeq(s, 1, len) = Text(k + 1)
      <3>1. SubSeq(s, 1, len) = [i \in 1..len |-> s[i]]
        BY <1>2, <2>1
      <3> QED BY <2>1, <3>1 DEF Text
    <2>4. AsSent' /\ Len(handled') = k + 1
      <3>1. k < Len(texts)
        BY <1>2, <2>1
      <3>2. IF Whole(k + 1) THEN SubSeq(s, 1, len) = Text(k + 1) ELSE gone # {}
        BY <2>2, <2>3
      <3>3. onMessageRecieved(SubSeq(s, 1, len))
        BY <1>a
      <3> QED BY <1>1, <1>5, <3>1, <3>2, <3>3, HandOver
    <2>5. readers'[r].at = "start" /\ readers'[r].len = 0
      BY <1>8, <1>a
    <2>6. Framed(r)'
      BY <1>5, <1>a, <2>1, <2>4, <2>5 DEF Framed
    <2> QED BY <2>4, <2>6
  <1>14. CASE TakeText(r)
    <2>0. Reads(r, "text") /\ s # <<>> /\ readers[r].on = 1
      BY <1>9, <1>14 DEF TakeText
    <2>1. PICK b : Laid(b, z, s, texts, k) /\ Begun(b, z, texts, k, "text", readers[r].len)
      BY <1>9, <2>0
    <2>2. readers[r].len \in 0..Len(s)
      BY <1>2, <2>0, <2>1, TakesText
    <2>3. readers[r].len # Wild /\ readers[r].len \in Nat /\ readers[r].len <= Len(s)
      BY <2>2, <1>9, <2>0, ClientConstants
    <2> DEFINE len == readers[r].len
               n == IF len < Len(s) THEN len ELSE Len(s)
    <2>4. onMessageRecieved(SubSeq(s, 1, n)) /\ Take(r, n) /\ Become(r, "start", NULL, 0)
      BY <1>14, <2>0, <2>3 DEF TakeText
    <2>5. n = len
      BY <1>9, <2>0, <2>3
    <2> HIDE DEF n
    <2>6. Len(inbox') = 1 /\ inbox'[1] = SubSeq(s, len + 1, Len(s))
      BY <1>7, <2>0, <2>3, <2>4, <2>5
    <2> QED BY <1>a, <2>0, <2>1, <2>4, <2>5, <2>6
  <1>b. ASSUME k + 1 = Len(texts), ~Whole(k + 1), gone # {}, onMessageRecieved(<<>>),
               UNCHANGED inbox, inbox[1] = <<>>, Become(r, "start", NULL, 0)
        PROVE  AsSent' /\ Framed(r)'
    <2>1. AsSent' /\ Len(handled') = k + 1
      <3>1. k < Len(texts)
        BY <1>2, <1>b
      <3>2. IF Whole(k + 1) THEN <<>> = Text(k + 1) ELSE gone # {}
        BY <1>b
      <3>3. onMessageRecieved(<<>>)
        BY <1>b
      <3> QED BY <1>1, <1>5, <3>1, <3>2, <3>3, HandOver
    <2>2. readers'[r].at = "start" /\ readers'[r].len = 0
      BY <1>8, <1>b
    <2>3. \E b : Laid(b, z, <<>>, texts, k + 1) /\ Begun(b, z, texts, k + 1, "start", 0)
      BY <1>2, <1>b, WrittenIs, LaidNothing
    <2> QED BY <1>5, <1>b, <2>1, <2>2, <2>3 DEF Framed
  <1>15. CASE TakeNothing(r)
    <2>0. /\ readers[r].at = "text" /\ readers[r].on = 1 /\ readers[r].len = 0 /\ Live(r)
          /\ onMessageRecieved(<<>>) /\ Become(r, "start", NULL, 0) /\ UNCHANGED inbox
      BY <1>4, <1>15 DEF TakeNothing, At, Live, NULL
    <2>1. CASE Framed(r)
      <3>1. PICK b : Laid(b, z, s, texts, k) /\ Begun(b, z, texts, k, "text", 0)
        BY <2>0, <2>1 DEF Framed
      <3>2. SubSeq(s, 1, 0) = <<>> /\ SubSeq(s, 0 + 1, Len(s)) = s
        BY <1>2
      <3> QED BY <1>2, <1>a, <2>0, <3>1, <3>2
    <2>2. CASE CutOff(r)
      BY <1>2, <1>b, <2>0, <2>2 DEF CutOff
    <2> QED BY <1>3, <2>0, <2>1, <2>2
  <1>16. CASE EndOfStream(r)
    <2>0. /\ readers[r].on = 1 /\ 1 \in gone /\ gone # {} /\ s = <<>> /\ UNCHANGED inbox /\ Live(r)
      BY <1>4, <1>16 DEF EndOfStream, Live, NULL
    <2>1. CASE readers[r].at = "command"
      <3>1. Become(r, "command", NULL, 0) /\ UNCHANGED handled
        BY <1>16, <2>1 DEF EndOfStream, At
      <3>2. PICK b : Laid(b, z, s, texts, k) /\ Begun(b, z, texts, k, "command", readers[r].len)
        BY <1>3, <2>0, <2>1 DEF Framed, CutOff
      <3>3. Begun(b, z, texts, k, "command", 0)
        BY <3>2 DEF Begun
      <3>4. readers'[r].at = "command" /\ readers'[r].len = 0
        BY <1>8, <3>1
      <3>5. Framed(r)'
        BY <1>5, <2>0, <3>1, <3>2, <3>3, <3>4 DEF Framed
      <3> QED BY <1>2, <1>6, <2>0, <3>1, <3>5
    <2>2. CASE readers[r].at = "length"
      <3>1. Become(r, "text", NULL, 0) /\ UNCHANGED handled
        BY <1>16, <2>2 DEF EndOfStream, At
      <3>2. PICK b : Laid(b, z, s, texts, k) /\ Begun(b, z, texts, k, "length", readers[r].len)
        BY <1>3, <2>0, <2>2 DEF Framed, CutOff
      <3>3. k + 1 = Len(texts) /\ k + 1 \in 1..Len(texts) /\ z[k + 1] < 2 + texts[k + 1]
        BY <1>2, <2>0, <3>2, StreamEnds
      <3>4. ~Whole(k + 1)
        BY <3>3, WrittenIs
      <3>5. readers'[r].at = "text" /\ readers'[r].len = 0
        BY <1>8, <3>1
      <3>6. CutOff(r)'
        BY <1>5, <2>0, <3>1, <3>3, <3>4, <3>5 DEF CutOff, Whole
      <3> QED BY <1>2, <1>6, <2>0, <3>1, <3>6
    <2>3. CASE readers[r].at = "text"
      <3>0. readers[r].len # 0
        BY <1>16, <2>3 DEF EndOfStream, At
      <3>2. PICK b : Laid(b, z, s, texts, k) /\ Begun(b, z, texts, k, "text", readers[r].len)
        BY <1>3, <2>0, <2>3, <3>0 DEF Framed, CutOff
      <3>3. /\ k + 1 = Len(texts) /\ k + 1 \in 1..Len(texts) /\ z[k + 1] < 2 + texts[k + 1]
            /\ readers[r].len = texts[k + 1]
        BY <1>2, <2>0, <3>0, <3>2, StreamEndsInText
      <3>4. ~Whole(k + 1) /\ readers[r].len \in Nat
        BY <3>3, WrittenIs
      <3>5. onMessageRecieved(<<>>) /\ Become(r, "start", NULL, 0)
        BY <1>16, <2>3, <3>4, ClientConstants DEF EndOfStream, At
      <3>6. AsSent' /\ Framed(r)'
        BY <1>b, <2>0, <3>3, <3>4, <3>5
      <3> QED BY <1>2, <2>0, <3>6
    <2> QED BY <1>16, <2>1, <2>2, <2>3 DEF EndOfStream, At
  <1>17. CASE ReadFails(r)
    <2>1. readers[r].on \in hungup /\ UNCHANGED <<inbox, handled>>
      BY <1>17 DEF ReadFails
    <2>2. readers'[r].on = NULL
      BY <1>8, <1>17 DEF ReadFails
    <2>3. socket = NULL
      <3>1. hungup \subseteq Made /\ socket \in {NULL} \cup Made
        BY DEF TypeOK
      <3> QED BY <1>2, <2>1, <3>1 DEF Places
    <2>4. ~Live(r)'
      BY <1>5, <2>2, <2>3 DEF Live
    <2> QED BY <1>2, <1>6, <2>1, <2>4
  <1> QED BY <1>10, <1>11, <1>12, <1>13, <1>14, <1>15, <1>16, <1>17 DEF Run, ReadCommand

\* What the server finds when it writes to the connection of a reader that is alone.
LEMMA ServedAlone ==
  ASSUME TypeOK, Places, InOrder, Alone, NEW c \in Made, Serves(c)
  PROVE  /\ gone = {} /\ c = 1 /\ Made = {1} /\ Len(inbox) = 1
         /\ \A q \in Active : Live(q) => Framed(q)
         /\ \A i \in DOMAIN handled : Whole(i) /\ handled[i] = Text(i)
  <1>1. Len(inbox) = 1 /\ Made = {1} /\ c = 1
    BY AloneTypes
  <1>2. gone \subseteq Made /\ c \notin gone
    BY DEF TypeOK, Serves
  <1>3. gone = {}
    BY <1>1, <1>2
  <1> QED BY <1>1, <1>3 DEF InOrder, AsSent, CutOff

\* A write behind what lies on the connection leaves the reader where it is.
LEMMA Served ==
  ASSUME TypeOK, Places, InOrder, Alone, TypeOK', NEW c \in Made, Serves(c), NEW words, Sends(c, words),
         UNCHANGED <<socket, readers, gone, handled>>, inbox[1] \o words = inbox'[1],
         Len(texts) <= Len(texts'), \A t \in 1..Len(texts) : texts'[t] = texts[t],
         \A t \in 1..Len(texts) : Whole(t) => Whole(t)',
         \A b : Laid(b, Written, inbox[1], texts, Len(handled)) =>
             \E d : /\ Laid(d, Written', inbox[1] \o words, texts', Len(handled))
                    /\ \A at, len : Begun(b, Written, texts, Len(handled), at, len)
                                        => Begun(d, Written', texts', Len(handled), at, len)
  PROVE  /\ Len(inbox') = 1 /\ AsSent'
         /\ \A q \in Active' : Live(q)' => Framed(q)' \/ CutOff(q)'
  <1>1. /\ gone = {} /\ c = 1 /\ Len(inbox) = 1
        /\ \A q \in Active : Live(q) => Framed(q)
        /\ \A i \in DOMAIN handled : Whole(i) /\ handled[i] = Text(i)
    BY ServedAlone
  <1>2. Len(inbox') = 1
    BY <1>1 DEF Sends, TypeOK
  <1>3. AsSent'
    <2>1. /\ Len(handled) \in 0..Len(texts) /\ DOMAIN handled = 1..Len(handled) /\ Len(texts) \in Nat
          /\ Len(texts') \in Nat
      BY AloneTypes DEF TypeOK
    <2>2. ASSUME NEW i \in DOMAIN handled PROVE Whole(i)' /\ handled[i] = Text(i)'
      <3>1. i \in 1..Len(texts)
        BY <2>1
      <3>2. Text(i)' = Text(i)
        BY <3>1 DEF Text
      <3> QED BY <1>1, <3>1, <3>2
    <2>3. Len(handled) <= Len(texts')
      BY <2>1
    <2> QED BY <2>2, <2>3 DEF AsSent
  <1>4. ASSUME NEW q \in Active', Live(q)' PROVE Framed(q)'
    <2>1. q \in Active /\ Live(q)
      BY <1>4 DEF Active, Live
    <2>2. PICK b : /\ Laid(b, Written, inbox[1], texts, Len(handled))
                   /\ Begun(b, Written, texts, Len(handled), readers[q].at, readers[q].len)
      BY <1>1, <2>1 DEF Framed
    <2>3. PICK d : /\ Laid(d, Written', inbox[1] \o words, texts', Len(handled))
                   /\ \A at, len : Begun(b, Written, texts, Len(handled), at, len)
                                       => Begun(d, Written', texts', Len(handled), at, len)
      BY <2>2
    <2>4. Begun(d, Written', texts', Len(handled), readers[q].at, readers[q].len)
      BY <2>2, <2>3
    <2> QED BY <2>3, <2>4 DEF Framed
  <1> QED BY <1>2, <1>3, <1>4

\* What the server writes lies behind the rest, in the order of the texts.
LEMMA ServerInOrder ==
  ASSUME TypeOK, Places, InOrder, Alone, TypeOK', Places', ~torn',
         \/ \E c \in Made : SendAnswer(c) \/ \E n \in Lengths : SendCmd(c, n)
         \/ \E t \in Thread : SendLength(t) \/ SendText(t)
  PROVE  /\ Len(inbox') = 1 /\ AsSent'
         /\ \A q \in Active' : Live(q)' => Framed(q)' \/ CutOff(q)'
  <1> DEFINE N == Len(texts)
             s == inbox[1]
             k == Len(handled)
             z == Written
  <1>0. /\ Len(inbox) = 1 /\ Made = {1} /\ s \in Seq(Words) /\ inbox \in Seq(Seq(Words))
        /\ texts \in Seq(Nat) /\ k \in 0..N /\ N \in Nat /\ k \in Nat /\ k <= N
    BY AloneTypes
  <1>1. /\ z \in [1..N -> Nat] /\ DOMAIN sending = 1..N
        /\ \A t \in 1..N : /\ z[t] = WrittenOf(t) /\ texts[t] \in Nat
                           /\ Whole(t) <=> z[t] = 2 + texts[t]
                           /\ Whole(t) <=> ~(z[t] < 2 + texts[t])
    BY WrittenIs
  <1>2. ASSUME NEW words, Sends(1, words) PROVE inbox'[1] = s \o words
    <2>1. 1 \in DOMAIN inbox
      BY <1>0
    <2> QED BY <1>2, <2>1 DEF Sends
  <1>3. ASSUME NEW t \in DOMAIN sending PROVE sending[t].on = 1 /\ sending[t].next \in {"length", "text", "nothing"}
    BY <1>0, <1>3, SendingType DEF Sendings
  <1>4. ASSUME ~Unfinished(1) PROVE Finished(z, texts, k)
    <2> SUFFICES ASSUME NEW t \in k + 1..N PROVE z[t] = 2 + texts[t]
      BY DEF Finished
    <2>1. t \in 1..N
      BY <1>0
    <2>2. Whole(t)
      BY <1>1, <1>3, <1>4, <2>1 DEF Unfinished, Whole
    <2> QED BY <1>1, <2>1, <2>2
  <1>5. ASSUME NEW c \in Made, SendAnswer(c)
        PROVE  /\ Len(inbox') = 1 /\ AsSent'
               /\ \A q \in Active' : Live(q)' => Framed(q)' \/ CutOff(q)'
    <2>1. /\ c = 1 /\ Sends(c, <<Answer>>) /\ ~Unfinished(1) /\ Serves(c)
          /\ UNCHANGED <<socket, readers, gone, handled, sending, texts>>
      BY <1>0, <1>5 DEF SendAnswer, NoChangeByServer, history
    <2>2. Written' = Written
      BY <2>1 DEF Written, WrittenOf
    <2>3. ASSUME NEW b, Laid(b, z, s, texts, k)
          PROVE  \E d : /\ Laid(d, Written', s \o <<Answer>>, texts', k)
                        /\ \A at, len : Begun(b, z, texts, k, at, len) => Begun(d, Written', texts', k, at, len)
      <3>1. Laid(b, z, s \o <<Answer>>, texts, k)
        BY <1>0, <1>4, <2>1, <2>3, LaidAnswers
      <3> QED BY <2>1, <2>2, <3>1
    <2>4. /\ N <= Len(texts') /\ \A t \in 1..N : texts'[t] = texts[t]
          /\ \A t \in 1..N : Whole(t) => Whole(t)'
      BY <1>0, <2>1 DEF Whole
    <2>5. inbox'[1] = s \o <<Answer>>
      BY <1>2, <2>1
    <2> QED BY <2>1, <2>3, <2>4, <2>5, Served
  <1>6. ASSUME NEW c \in Made, NEW n \in Lengths, SendCmd(c, n)
        PROVE  /\ Len(inbox') = 1 /\ AsSent'
               /\ \A q \in Active' : Live(q)' => Framed(q)' \/ CutOff(q)'
    <2>1. /\ c = 1 /\ Sends(c, <<Send>>) /\ ~Unfinished(1) /\ Serves(c)
          /\ texts' = Append(texts, n) /\ sending' = Append(sending, [on |-> c, next |-> "length"])
          /\ UNCHANGED <<socket, readers, gone, handled>>
      BY <1>0, <1>6 DEF SendCmd, NoChangeByServer, history
    <2>2. /\ n \in Nat /\ sending \in Seq(Sendings) /\ Len(sending) = N
      BY ClientConstants DEF TypeOK, Sendings
    <2>3. /\ Len(texts') = N + 1 /\ texts' \in Seq(Nat) /\ \A t \in 1..N : texts'[t] = texts[t]
          /\ \A t \in 1..N : sending'[t] = sending[t]
          /\ sending'[N + 1] = [on |-> c, next |-> "length"] /\ DOMAIN sending' = 1..N + 1
      BY <1>0, <2>1, <2>2
    <2>4. Written' = Longer(Written, N, 1)
      <3>1. ASSUME NEW t \in 1..N + 1
            PROVE  WrittenOf(t)' = IF t = N + 1 THEN 1 ELSE z[t]
        <4>1. CASE t = N + 1
          BY <2>3, <4>1 DEF WrittenOf
        <4>2. CASE t # N + 1
          <5>1. t \in 1..N
            BY <1>0, <4>2
          <5> QED BY <1>1, <2>3, <4>2, <5>1 DEF WrittenOf
        <4> QED BY <4>1, <4>2
      <3> QED BY <2>3, <3>1 DEF Written, Longer
    <2>5. ASSUME NEW b, Laid(b, z, s, texts, k)
          PROVE  \E d : /\ Laid(d, Written', s \o <<Send>>, texts', k)
                        /\ \A at, len : Begun(b, z, texts, k, at, len) => Begun(d, Written', texts', k, at, len)
      <3> DEFINE d == Longer(b, N, Len(s))
      <3>1. /\ Laid(d, Written', s \o <<Send>>, texts', k)
            /\ \A t \in 1..N : d[t] = b[t] /\ Written'[t] = z[t]
            /\ d[N + 1] = Len(s)
        <4> DEFINE y == Longer(z, N, 1)
        <4>1. Finished(z, texts, k)
          BY <1>4, <2>1
        <4>2. /\ Laid(d, y, s \o <<Send>>, Append(texts, n), k)
              /\ \A t \in 1..N : d[t] = b[t] /\ y[t] = z[t]
              /\ d[N + 1] = Len(s)
          BY <1>0, <2>2, <2>5, <4>1, LaidBegins
        <4>3. Written' = y /\ texts' = Append(texts, n)
          BY <2>1, <2>4
        <4> HIDE DEF y, d
        <4> QED BY <4>2, <4>3
      <3> HIDE DEF d
      <3>2. ASSUME NEW at, NEW len, Begun(b, z, texts, k, at, len)
            PROVE  Begun(d, Written', texts', k, at, len)
        <4>1. Written' \in [1..Len(texts') -> Nat]
          BY <2>3, <3>1 DEF Laid
        <4>2. ASSUME NEW t \in N + 1..Len(texts') PROVE d[t] \in Nat
          <5>1. t = N + 1 /\ Len(s) \in Nat
            BY <1>0, <2>3
          <5> QED BY <3>1, <5>1
        <4>3. N <= Len(texts')
          BY <1>0, <2>3
        <4>4. ASSUME NEW t \in 1..N PROVE texts'[t] = texts[t] /\ d[t] = b[t] /\ z[t] <= Written'[t]
          <5>1. d[t] = b[t] /\ Written'[t] = z[t] /\ z[t] \in Nat
            BY <1>1, <3>1
          <5> QED BY <2>3, <5>1
        <4>5. Behind(b, z, texts, d, Written', texts')
          BY <4>2, <4>3, <4>4 DEF Behind
        <4>6. texts \in Seq(Nat) /\ k \in 0..Len(texts) /\ z \in [1..Len(texts) -> Nat]
          BY <1>0, <1>1
        <4> HIDE DEF z, k
        <4> QED BY <2>3, <3>2, <4>1, <4>5, <4>6, BegunStays
      <3> QED BY <3>1, <3>2
    <2>6. \A t \in 1..N : Whole(t) => Whole(t)'
      BY <1>0, <1>1, <2>3 DEF Whole
    <2>7. inbox'[1] = s \o <<Send>>
      BY <1>2, <2>1
    <2>8. N <= Len(texts')
      BY <1>0, <2>3
    <2> QED BY <2>1, <2>3, <2>5, <2>6, <2>7, <2>8, Served
  <1>7. ASSUME NEW t \in DOMAIN sending, Serves(1), sending[t].next # "nothing", NEW words \in Seq(Words),
               Sends(1, words), UNCHANGED <<socket, readers, gone, handled, texts>>,
               NEW next \in {"text", "nothing"}, sending' = [sending EXCEPT ![t].next = next],
               Len(words) = WrittenOf(t)' - WrittenOf(t), WrittenOf(t) <= WrittenOf(t)',
               \A j \in WrittenOf(t) + 1..WrittenOf(t)' : words[j - WrittenOf(t)] = Message(texts, t, j)
        PROVE  /\ Len(inbox') = 1 /\ AsSent'
               /\ \A q \in Active' : Live(q)' => Framed(q)' \/ CutOff(q)'
    <2>1. t \in 1..N /\ ~Whole(t) /\ z[t] < 2 + texts[t] /\ z[t] = WrittenOf(t) /\ z[t] \in Nat
      BY <1>1, <1>7 DEF Whole
    <2>2. t \in k + 1..N
      <3>1. t \notin DOMAIN handled
        BY <1>0, <1>7, <2>1, ServedAlone
      <3>2. DOMAIN handled = 1..k
        BY <1>0 DEF TypeOK
      <3> QED BY <1>0, <2>1, <3>1, <3>2
    <2>3. sending'[t].next = next /\ \A u \in DOMAIN sending : u # t => sending'[u] = sending[u]
      <3>1. sending[t] \in Sendings
        BY SendingType
      <3> QED BY <1>7, <3>1 DEF Sendings
    <2>4. DOMAIN sending' = DOMAIN sending
      BY <1>7
    <2> DEFINE m == WrittenOf(t)'
    <2>5. /\ m \in Nat /\ z[t] <= m /\ m <= 2 + texts[t] /\ (m < 2 + texts[t] => m <= 2)
          /\ \A u \in 1..N : Written'[u] = IF u = t THEN m ELSE z[u]
      <3>1. \A u \in 1..N : Written'[u] = WrittenOf(u)'
        BY <1>7 DEF Written
      <3>2. m = IF next = "text" THEN 2 ELSE 2 + texts[t]
        BY <1>7, <2>3 DEF WrittenOf
      <3>3. ASSUME NEW u \in 1..N, u # t PROVE WrittenOf(u)' = z[u]
        <4>1. WrittenOf(u) = z[u] /\ sending'[u] = sending[u] /\ texts'[u] = texts[u]
          BY <1>1, <1>7, <2>3, <3>3
        <4> QED BY <4>1 DEF WrittenOf
      <3>4. texts[t] \in Nat
        BY <1>1, <2>1
      <3>5. z[t] <= m
        BY <1>7, <2>1
      <3>6. m \in Nat /\ m <= 2 + texts[t] /\ (m < 2 + texts[t] => m <= 2)
        BY <3>2, <3>4
      <3> HIDE DEF m
      <3>7. \A u \in 1..N : Written'[u] = IF u = t THEN m ELSE z[u]
        BY <2>1, <3>1, <3>3 DEF m
      <3> QED BY <3>5, <3>6, <3>7
    <2>6. Written' = [u \in 1..N |-> Written'[u]]
      BY <1>7 DEF Written
    <2>7. /\ s \o words \in Seq(Words) /\ Len(s \o words) = Len(s) + (m - z[t])
          /\ \A i \in 1..Len(s) : (s \o words)[i] = s[i]
          /\ Ends(s, s \o words, texts, t, z[t], m)
      <3> DEFINE was == z[t]
                 w == s \o words
      <3>1. /\ Len(s) \in Nat /\ was \in Nat /\ Len(words) = m - was /\ Len(words) \in Nat
            /\ m \in Nat /\ was <= m /\ words \in Seq(Words)
            /\ \A j \in was + 1..m : words[j - was] = Message(texts, t, j)
        BY <1>0, <1>7, <2>1, <2>5
      <3> HIDE DEF was, m
      <3>0. s \in Seq(Words)
        BY <1>0
      <3>2. w \in Seq(Words) /\ Len(w) = Len(s) + Len(words)
        <4> HIDE DEF s
        <4> QED BY <3>0, <3>1, ConcatProperties
      <3>6. ASSUME NEW x \in 1..Len(s) + Len(words)
            PROVE  w[x] = IF x <= Len(s) THEN s[x] ELSE words[x - Len(s)]
        <4> HIDE DEF s
        <4> QED BY <3>0, <3>1, ConcatProperties
      <3> HIDE DEF w, s
      <3>3. ASSUME NEW i \in 1..Len(s) PROVE w[i] = s[i]
        <4>1. i \in 1..Len(s) + Len(words) /\ i <= Len(s)
          BY <3>1
        <4> QED BY <3>6, <4>1
      <3>4. ASSUME NEW j \in was + 1..m PROVE w[Len(s) + (j - was)] = Message(texts, t, j)
        <4> DEFINE x == Len(s) + (j - was)
        <4>1. x \in 1..Len(s) + Len(words) /\ ~(x <= Len(s)) /\ x - Len(s) = j - was
          BY <3>1
        <4> HIDE DEF x
        <4>2. w[x] = words[j - was]
          BY <3>6, <4>1
        <4> QED BY <3>1, <4>2 DEF x
      <3>5. Len(w) = Len(s) + (m - was)
        BY <3>1, <3>2
      <3>7. Ends(s, w, texts, t, was, m)
        BY <3>4 DEF Ends
      <3> QED BY <3>2, <3>3, <3>5, <3>7 DEF was, w, s
    <2> HIDE DEF m
    <2>8. ASSUME NEW b, Laid(b, z, s, texts, k)
          PROVE  \E d : /\ Laid(d, Written', s \o words, texts', k)
                        /\ \A at, len : Begun(b, z, texts, k, at, len) => Begun(d, Written', texts', k, at, len)
      <3>1. t = N
        BY <2>1, <2>2, <2>8 DEF Laid
      <3>2. Grows(z, texts, k, z[N], m)
        <4>1. k < N
          BY <1>0, <2>2
        <4> QED BY <2>1, <2>5, <3>1, <4>1 DEF Grows
      <3>3. Adds(s, s \o words, texts, z[N], m)
        <4> DEFINE w == s \o words
        <4>1. Len(w) = Len(s) + (m - z[N]) /\ \A i \in 1..Len(s) : w[i] = s[i]
          BY <2>7, <3>1
        <4>2. Ends(s, w, texts, N, z[N], m)
          <5>1. Ends(s, w, texts, t, z[t], m)
            BY <2>7
          <5> HIDE DEF s, w, z, N
          <5> QED BY <3>1, <5>1
        <4> HIDE DEF w
        <4>3. Adds(s, w, texts, z[N], m)
          BY <4>1, <4>2 DEF Adds
        <4> QED BY <4>3 DEF w
      <3>4. Written' = Until(z, N, m)
        <4>1. Until(z, N, m) = [u \in 1..N |-> IF u = N THEN m ELSE z[u]]
          BY <1>1 DEF Until
        <4> QED BY <2>5, <2>6, <3>1, <4>1
      <3>5. Laid(b, Written', s \o words, texts, k)
        BY <1>0, <2>1, <2>5, <2>7, <2>8, <3>1, <3>2, <3>3, <3>4, LaidGrows
      <3>6. ASSUME NEW at, NEW len, Begun(b, z, texts, k, at, len) PROVE Begun(b, Written', texts, k, at, len)
        <4>1. Written' \in [1..N -> Nat]
          BY <3>5 DEF Laid
        <4>2. ASSUME NEW u \in 1..N PROVE z[u] <= Written'[u]
          <5>1. z[u] \in Nat /\ Written'[u] = IF u = t THEN m ELSE z[u]
            BY <1>1, <2>5
          <5> QED BY <2>5, <5>1
        <4>3. Behind(b, z, texts, b, Written', texts)
          <5>1. N <= N /\ \A u \in N + 1..N : FALSE
            BY <1>0
          <5> QED BY <4>2, <5>1 DEF Behind
        <4>4. texts \in Seq(Nat) /\ k \in 0..Len(texts) /\ z \in [1..Len(texts) -> Nat]
          BY <1>0, <1>1
        <4> HIDE DEF z, k
        <4> QED BY <3>6, <4>1, <4>3, <4>4, BegunStays
      <3> QED BY <1>7, <3>5, <3>6
    <2>9. \A u \in 1..N : Whole(u) => Whole(u)'
      BY <1>1, <2>1, <2>3, <2>4 DEF Whole
    <2>10. inbox'[1] = s \o words /\ N <= Len(texts') /\ \A u \in 1..N : texts'[u] = texts[u]
      BY <1>0, <1>2, <1>7
    <2> QED BY <1>0, <1>7, <2>8, <2>9, <2>10, Served
  <1>8. ASSUME NEW t \in Thread, SendLength(t)
        PROVE  /\ Len(inbox') = 1 /\ AsSent'
               /\ \A q \in Active' : Live(q)' => Framed(q)' \/ CutOff(q)'
    <2>1. t \in DOMAIN sending /\ sending[t].on = 1 /\ texts[t] \in Nat /\ sending[t] \in Sendings
      BY <1>3, <1>8, SendingType DEF SendLength, IsNext
    <2> DEFINE words == <<Length(texts[t])>>
               next == IF texts[t] = 0 THEN "nothing" ELSE "text"
    <2>2. /\ sending[t].next = "length" /\ Serves(1) /\ Sends(1, words)
          /\ sending' = [sending EXCEPT ![t].next = next]
          /\ UNCHANGED <<socket, readers, gone, handled, texts>>
      BY <1>8, <2>1 DEF SendLength, IsNext, NoChangeByServer, history
    <2>3. words \in Seq(Words) /\ Len(words) = 1 /\ words[1] = Length(texts[t])
      BY <2>1 DEF Words, Length
    <2>4. sending'[t].next = next
      BY <2>1, <2>2 DEF Sendings
    <2>5. WrittenOf(t) = 1 /\ WrittenOf(t)' = 2
      BY <2>2, <2>4 DEF WrittenOf
    <2>6. \A j \in 1 + 1..2 : words[j - 1] = Message(texts, t, j)
      BY <2>3 DEF Message
    <2>7. next \in {"text", "nothing"} /\ sending[t].next # "nothing"
      BY <2>2
    <2> HIDE DEF words, next
    <2>8. /\ Len(words) = WrittenOf(t)' - WrittenOf(t) /\ WrittenOf(t) <= WrittenOf(t)'
          /\ \A j \in WrittenOf(t) + 1..WrittenOf(t)' : words[j - WrittenOf(t)] = Message(texts, t, j)
      BY <2>3, <2>5, <2>6
    <2> QED BY <1>7, <2>1, <2>2, <2>3, <2>7, <2>8
  <1>9. ASSUME NEW t \in Thread, SendText(t)
        PROVE  /\ Len(inbox') = 1 /\ AsSent'
               /\ \A q \in Active' : Live(q)' => Framed(q)' \/ CutOff(q)'
    <2>1. /\ t \in DOMAIN sending /\ sending[t].on = 1 /\ texts[t] \in Nat /\ sending[t] \in Sendings
          /\ Text(t) \in Seq(Words) /\ Len(Text(t)) = texts[t] /\ \A i \in 1..texts[t] : Text(t)[i] = Chunk(t)
      BY <1>3, <1>9, SendingType DEF SendText, IsNext
    <2>2. /\ sending[t].next = "text" /\ Serves(1) /\ Sends(1, Text(t))
          /\ sending' = [sending EXCEPT ![t].next = "nothing"]
          /\ UNCHANGED <<socket, readers, gone, handled, texts>>
      BY <1>9, <2>1 DEF SendText, IsNext, NoChangeByServer, history
    <2>4. sending'[t].next = "nothing"
      BY <2>1, <2>2 DEF Sendings
    <2>5. WrittenOf(t) = 2 /\ WrittenOf(t)' = 2 + texts[t]
      BY <2>2, <2>4 DEF WrittenOf
    <2>6. ASSUME NEW j \in 2 + 1..2 + texts[t] PROVE Text(t)[j - 2] = Message(texts, t, j)
      <3>1. j - 2 \in 1..texts[t] /\ j # 1 /\ j # 2
        BY <2>1
      <3> QED BY <2>1, <3>1 DEF Message
    <2>7. Len(Text(t)) = (2 + texts[t]) - 2 /\ 2 <= 2 + texts[t]
      BY <2>1
    <2> QED BY <1>7, <2>1, <2>2, <2>5, <2>6, <2>7
  <1> QED BY <1>5, <1>6, <1>8, <1>9


\* The commands, the readers and the server keep the order of what is there.
LEMMA OrderStep ==
  ASSUME TypeOK, Places, InOrder, [Next]_vars, TypeOK', Places'
  PROVE  InOrder'
  <1> USE DEF history, server
  <1>0. /\ readers \in Seq(Readers) /\ DOMAIN readers = 1..Len(readers) /\ Len(readers) \in Nat
        /\ inbox \in Seq(Seq(Words)) /\ gone \subseteq Made /\ texts \in Seq(Lengths)
    BY DEF TypeOK, Readers
  <1>a. ASSUME UNCHANGED <<readers, connected, inbox, texts, sending, torn, handled>>,
               socket' \in {NULL, socket}, gone' = gone \/ gone' # {}
        PROVE  InOrder'
    <2>1. Active' = Active /\ (Alone' <=> Alone) /\ Written' = Written
      BY <1>a DEF Active, Alone, Sole, Written, WrittenOf
    <2>2. AsSent => AsSent'
      BY <1>a DEF AsSent, Text, Whole
    <2>3. ASSUME NEW r, Live(r)' PROVE Live(r)
      BY <1>a, <2>3 DEF Live
    <2>4. ASSUME NEW r, Framed(r) PROVE Framed(r)'
      BY <1>a, <2>1, <2>4 DEF Framed
    <2>5. ASSUME NEW r, CutOff(r) PROVE CutOff(r)'
      BY <1>a, <2>5 DEF CutOff, Whole
    <2> QED BY <1>a, <2>1, <2>2, <2>3, <2>4, <2>5 DEF InOrder
  <1>1. CASE Start
    <2>1. DOMAIN readers = {}
      BY <1>0, <1>1 DEF Start
    <2>2. ~connected
      BY <2>1 DEF Places, Active
    <2> QED BY <1>1, <2>2 DEF Start, InOrder, Alone
  <1>2. CASE Connect
    <2> SUFFICES ASSUME Alone'
                 PROVE  /\ Len(inbox') = 1 /\ AsSent'
                        /\ \A q \in Active' : Live(q)' => Framed(q)'
      BY DEF InOrder
    <2>0. PICK N : N = Len(readers) + 1
      OBVIOUS
    <2>1. readers' = Append(readers, Reader)
      BY <1>2 DEF Connect, StartReader
    <2>2. /\ DOMAIN readers' = 1..N /\ readers'[N] = Reader /\ N \notin DOMAIN readers
          /\ \A r \in DOMAIN readers : r \in DOMAIN readers' /\ readers'[r] = readers[r]
      BY <1>0, <2>0, <2>1
    <2>3. N \in Active'
      BY <1>0, <2>0, <2>2 DEF Active, Reader
    <2>4. Active' = {N}
      BY <2>3 DEF Alone, Sole
    <2>5. Active = {}
      BY <2>2, <2>4 DEF Active
    <2>6. inbox = <<>> /\ texts = <<>> /\ handled = <<>>
      BY <2>5 DEF Places
    <2>7. inbox' = Append(inbox, <<>>) /\ UNCHANGED <<texts, sending, handled>>
      BY <1>2 DEF Connect
    <2>8. Len(inbox') = 1 /\ inbox'[1] = <<>>
      BY <2>6, <2>7
    <2>9. Len(<<>>) = 0 /\ DOMAIN <<>> = {}
      OBVIOUS
    <2>10. AsSent'
      BY <2>6, <2>7, <2>9 DEF AsSent
    <2>11. Framed(N)'
      <3>1. readers'[N].at = "start" /\ readers'[N].len = 0
        BY <2>2 DEF Reader
      <3>2. texts' \in Seq(Nat) /\ Written' \in [1..Len(texts') -> Nat]
        BY <2>7, WrittenIs DEF Written, WrittenOf
      <3>3. \E b : /\ Laid(b, Written', <<>>, texts', Len(texts'))
                   /\ Begun(b, Written', texts', Len(texts'), "start", 0)
        BY <3>2, LaidNothing
      <3>4. Len(handled') = Len(texts')
        BY <2>6, <2>7
      <3> QED BY <2>8, <3>1, <3>3, <3>4 DEF Framed
    <2> QED BY <2>4, <2>8, <2>10, <2>11
  <1>3. CASE OpenSession \/ SendMessage \/ CloseSession \/ Disconnect
    BY <1>3, <1>a DEF OpenSession, SendMessage, CloseSession, Disconnect
  <1>4. CASE \/ \E c \in Made : SendAnswer(c) \/ \E n \in Lengths : SendCmd(c, n)
             \/ \E t \in Thread : SendLength(t) \/ SendText(t)
    <2> SUFFICES ASSUME Alone'
                 PROVE  /\ Len(inbox') = 1 /\ AsSent'
                        /\ \A q \in Active' : Live(q)' => Framed(q)' \/ CutOff(q)'
      BY DEF InOrder
    <2>1. UNCHANGED <<readers, connected>> /\ (torn => torn')
      <3>1. ASSUME NEW c \in Made, SendAnswer(c) PROVE UNCHANGED <<readers, connected>> /\ (torn => torn')
        BY <3>1, Zenon DEF SendAnswer, NoChangeByServer
      <3>2. ASSUME NEW c \in Made, NEW n \in Lengths, SendCmd(c, n)
            PROVE  UNCHANGED <<readers, connected>> /\ (torn => torn')
        BY <3>2, Zenon DEF SendCmd, NoChangeByServer
      <3>3. ASSUME NEW t \in Thread, SendLength(t) \/ SendText(t)
            PROVE  UNCHANGED <<readers, connected>> /\ (torn => torn')
        BY <3>3 DEF SendLength, SendText, NoChangeByServer
      <3> QED BY <1>4, <3>1, <3>2, <3>3
    <2>2. Alone
      BY <2>1 DEF Alone, Sole, Active
    <2>3. ~torn'
      BY DEF Alone
    <2> QED BY <1>4, <2>2, <2>3, ServerInOrder
  <1>5. CASE ServerGoes
    <2>1. gone' # {}
      BY <1>0, <1>5 DEF ServerGoes
    <2> QED BY <1>5, <1>a, <2>1 DEF ServerGoes
  <1>6. ASSUME NEW r \in Thread, Run(r) PROVE InOrder'
    BY <1>6, ReaderInOrder
  <1>7. CASE UNCHANGED vars
    BY <1>7, <1>a DEF vars
  <1> QED BY <1>1, <1>2, <1>3, <1>4, <1>5, <1>6, <1>7 DEF Next, Main, Server

\* What makes the client crash.
CrashKnown == crashed => socket = NULL \/ socket \in gone \/ ~Sole \/ torn

\* A length that is none does not come to a reader that is alone.
LEMMA LengthIsOne ==
  ASSUME TypeOK, Places, InOrder, Alone, NEW r \in Active, Live(r), readers[r].at = "text"
  PROVE  readers[r].len # Wild
  <1>1. texts \in Seq(Nat) /\ Len(handled) \in 0..Len(texts) /\ Len(texts) \in Nat
    BY AloneTypes
  <1>2. CASE Framed(r)
    <2>1. PICK b : Begun(b, Written, texts, Len(handled), "text", readers[r].len)
      BY <1>2 DEF Framed
    <2>2. Len(handled) < Len(texts) /\ readers[r].len = texts[Len(handled) + 1]
      BY <2>1 DEF Begun, Taken
    <2>3. Len(handled) + 1 \in 1..Len(texts)
      BY <1>1, <2>2
    <2>4. readers[r].len \in Nat
      BY <1>1, <2>2, <2>3
    <2> QED BY <2>4, ClientConstants
  <1>3. CASE CutOff(r)
    BY <1>3, ClientConstants DEF CutOff
  <1> QED BY <1>2, <1>3 DEF InOrder

\* A command crashes the client by its socket, and a reader one that follows
\* none, or that is not alone, or that comes upon a text that was torn.
LEMMA CrashStep ==
  ASSUME TypeOK, Places, InOrder, CrashKnown, [Next]_vars
  PROVE  CrashKnown'
  <1> USE DEF history, server
  <1>1. CASE UNCHANGED vars
    BY <1>1 DEF vars, CrashKnown, Sole, Active
  <1>2. CASE Start \/ Connect
    BY <1>2 DEF Start, Connect, CrashKnown
  <1>3. CASE OpenSession \/ SendMessage \/ CloseSession \/ Disconnect
    <2>1. /\ socket' \in {NULL, socket} /\ UNCHANGED <<gone, readers>>
          /\ crashed' => socket = NULL \/ socket \in gone
      BY <1>3 DEF OpenSession, SendMessage, CloseSession, Disconnect, SendCommand
    <2> QED BY <2>1 DEF CrashKnown
  <1>4. CASE Server
    BY <1>4 DEF Server, SendAnswer, SendCmd, SendLength, SendText, IsNext, NoChangeByServer, ServerGoes,
                Serves, CrashKnown
  <1>5. ASSUME NEW r \in Thread, Run(r) PROVE CrashKnown'
    <2>1. /\ ~crashed /\ NoChangeButReader /\ r \in Active
          /\ connected => Active' = Active
      BY <1>5, ReaderSteps
    <2>2. CASE crashed' = crashed
      BY <2>1, <2>2 DEF CrashKnown
    <2>3. CASE Call(r)
      BY <2>1, <2>3 DEF Call, CrashKnown, NoChangeButReader
    <2>4. ASSUME readers[r].len = Wild, readers[r].at = "text", readers[r].on # NULL PROVE CrashKnown'
      <3> SUFFICES ASSUME Sole', ~torn' PROVE FALSE
        BY DEF CrashKnown
      <3>1. connected
        <4>1. readers[r].on \in Made /\ inbox \in Seq(Seq(Words))
          BY <2>1, <2>4, OnType DEF Active
        <4>2. inbox # <<>>
          BY <4>1 DEF Made
        <4> QED BY <4>2 DEF Places
      <3>2. Alone
        BY <2>1, <3>1 DEF Alone, Sole, NoChangeButReader
      <3>3. Live(r)
        BY <2>4 DEF Live
      <3> QED BY <2>1, <2>4, <3>2, <3>3, LengthIsOne
    <2>5. CASE EndOfStream(r) /\ crashed' # crashed
      BY <2>1, <2>4, <2>5 DEF EndOfStream, At
    <2>6. CASE TakeText(r) /\ crashed' # crashed
      BY <2>1, <2>4, <2>6 DEF TakeText, Reads, At
    <2>7. CASE Loop(r) \/ TakeCommand(r) \/ TakeLength(r) \/ TakeNothing(r) \/ ReadFails(r)
      BY <2>2, <2>7 DEF Loop, TakeCommand, TakeLength, TakeNothing, ReadFails
    <2> QED BY <1>5, <2>2, <2>3, <2>5, <2>6, <2>7 DEF Run, ReadCommand
  <1> QED BY <1>1, <1>2, <1>3, <1>4, <1>5 DEF Next, Main

\* To be alone is to be counted once.
LEMMA SoleIsOne ==
  ASSUME TypeOK
  PROVE  Cardinality(Active) <= 1 <=> Sole
  <1>1. IsFiniteSet(Active)
    <2>1. DOMAIN readers = 1..Len(readers) /\ Len(readers) \in Nat
      BY DEF TypeOK
    <2>2. IsFiniteSet(1..Len(readers))
      BY <2>1, FS_Interval
    <2> QED BY <2>1, <2>2, FS_Subset DEF Active
  <1>2. ASSUME Cardinality(Active) <= 1, NEW r \in Active, NEW s \in Active, r # s PROVE FALSE
    <2>1. {r, s} \subseteq Active
      OBVIOUS
    <2>2. Cardinality({r, s}) = 2
      <3>1. IsFiniteSet({s}) /\ Cardinality({s}) = 1
        BY FS_Singleton
      <3>2. Cardinality({s} \cup {r}) = Cardinality({s}) + 1
        BY <1>2, <3>1, FS_AddElement
      <3>3. {s} \cup {r} = {r, s}
        OBVIOUS
      <3> QED BY <3>1, <3>2, <3>3
    <2>3. Cardinality({r, s}) <= Cardinality(Active) /\ Cardinality(Active) \in Nat
      BY <1>1, <2>1, FS_Subset, FS_CardinalityType
    <2> QED BY <1>2, <2>2, <2>3
  <1>3. ASSUME Sole PROVE Cardinality(Active) <= 1
    <2>1. CASE Active = {}
      BY <2>1, FS_EmptySet
    <2>2. CASE Active # {}
      <3>1. PICK r : r \in Active
        BY <2>2
      <3>2. Active = {r}
        BY <1>3, <3>1 DEF Sole
      <3>3. Cardinality({r}) = 1
        BY FS_Singleton
      <3> QED BY <3>2, <3>3
    <2> QED BY <2>1, <2>2
  <1> QED BY <1>2, <1>3 DEF Sole

\* What holds of every state.
IInv == TypeOK /\ Places /\ InOrder /\ CrashKnown

\* It holds at the start.
LEMMA InitInvariant == Init => IInv
  <1> SUFFICES ASSUME Init PROVE IInv
    OBVIOUS
  <1>1. Places /\ InOrder /\ CrashKnown
    BY DEF Init, Places, InOrder, Alone, CrashKnown, NULL
  <1> QED BY <1>1, InitTypes DEF IInv

\* It is inductive.
LEMMA Invariance == Spec => []IInv
  <1>1. IInv /\ [Next]_vars => IInv'
    BY NextTypes, PlacesStep, OrderStep, CrashStep DEF IInv
  <1> QED BY <1>1, InitInvariant, PTL DEF Spec

\* However many texts of whatever length, connections and readers: what the
\* handler is given are the texts in their order and whole, while no two
\* readers were started and nothing was written in the middle of a text.  A
\* server that goes cuts off no other text than the one it was sending.
THEOREM TextsInOrder == Spec => []WholeInOrder
  <1>1. IInv => WholeInOrder
    <2> SUFFICES ASSUME IInv, Sole, ~torn PROVE AsSent
      BY SoleIsOne DEF IInv, WholeInOrder, AsSent
    <2>1. CASE connected
      BY <2>1 DEF IInv, InOrder, Alone
    <2>2. CASE ~connected
      <3>1. texts = <<>> /\ handled = <<>>
        BY <2>2 DEF IInv, Places
      <3>2. Len(<<>>) = 0 /\ DOMAIN <<>> = {}
        OBVIOUS
      <3> QED BY <3>1, <3>2 DEF AsSent
    <2> QED BY <2>1, <2>2
  <1> QED BY <1>1, Invariance, PTL

\* However many texts, connections and readers, the client crashes in four
\* ways only: by the NULL that disconnect leaves, by a write to a server that
\* is gone, by two readers, and by a text in the middle of which something was
\* written.
THEOREM CrashesAreKnown == Spec => []CrashedOnlyBy
  <1>1. IInv => CrashedOnlyBy
    <2> SUFFICES ASSUME IInv, crashed, socket # NULL, socket \notin gone, ~torn
                 PROVE  Cardinality(Active) > 1
      BY DEF CrashedOnlyBy
    <2>1. ~Sole
      BY DEF IInv, CrashKnown
    <2>2. ~(Cardinality(Active) <= 1)
      BY <2>1, SoleIsOne DEF IInv
    <2>3. Cardinality(Active) \in Nat
      <3>1. DOMAIN readers = 1..Len(readers) /\ Len(readers) \in Nat
        BY DEF IInv, TypeOK
      <3>2. IsFiniteSet(1..Len(readers))
        BY <3>1, FS_Interval
      <3> QED BY <3>1, <3>2, FS_Subset, FS_CardinalityType DEF Active
    <2> QED BY <2>2, <2>3
  <1> QED BY <1>1, Invariance, PTL

-----------------------------------------------------------------------------
(* Sessions *)

\* A session that was opened before any was closed.
FirstSession == session = "open" => ~closed

\* A command that closes a session marks it closed, and one opened behind it
\* is no first one.
LEMMA SessionStep == FirstSession /\ [Next]_vars => FirstSession'
  <1> SUFFICES ASSUME FirstSession, [Next]_vars PROVE FirstSession'
    OBVIOUS
  <1> USE DEF history, server, FirstSession
  <1>1. CASE Start \/ Connect
    BY <1>1 DEF Start, Connect
  <1>2. CASE OpenSession
    BY <1>2 DEF OpenSession
  <1>3. CASE SendMessage
    BY <1>3 DEF SendMessage
  <1>4. CASE CloseSession
    BY <1>4 DEF CloseSession
  <1>5. CASE Disconnect
    BY <1>5 DEF Disconnect
  <1>6. ASSUME NEW c \in Made, SendAnswer(c) PROVE FirstSession'
    BY <1>6 DEF SendAnswer, NoChangeByServer
  <1>7. ASSUME NEW c \in Made, NEW n \in Lengths, SendCmd(c, n) PROVE FirstSession'
    BY <1>7 DEF SendCmd, NoChangeByServer
  <1>a. ASSUME NEW t \in Thread, SendLength(t) \/ SendText(t) PROVE FirstSession'
    BY <1>a DEF SendLength, SendText, NoChangeByServer
  <1>8. CASE ServerGoes
    BY <1>8 DEF ServerGoes
  <1>9. ASSUME NEW r \in Thread, Run(r) PROVE FirstSession'
    <2>1. NoChangeButReader
      BY <1>9 DEF Run, ReadCommand, Loop, Call, TakeCommand, TakeLength, TakeText, TakeNothing,
                  EndOfStream, ReadFails
    <2> QED BY <2>1 DEF NoChangeButReader
  <1>10. CASE UNCHANGED vars
    BY <1>10 DEF vars
  <1> QED BY <1>1, <1>2, <1>3, <1>4, <1>5, <1>6, <1>7, <1>a, <1>8, <1>9, <1>10 DEF Next, Main, Server

\* The client hangs up in disconnect alone, which closes a first session.
LEMMA HangUpStep ==
  ASSUME FirstSession, [Next]_vars, hungup' # hungup, session = "open"
  PROVE  session' = "shut"
  <1> USE DEF history, server
  <1>1. CASE Disconnect
    BY <1>1 DEF Disconnect, FirstSession
  <1>2. CASE Start \/ Connect \/ OpenSession \/ SendMessage \/ CloseSession
    BY <1>2 DEF Start, Connect, OpenSession, SendMessage, CloseSession
  <1>3. CASE Server
    BY <1>3 DEF Server, SendAnswer, SendCmd, SendLength, SendText, NoChangeByServer, ServerGoes
  <1>4. ASSUME NEW r \in Thread, Run(r) PROVE FALSE
    <2>1. NoChangeButReader
      BY <1>4 DEF Run, ReadCommand, Loop, Call, TakeCommand, TakeLength, TakeText, TakeNothing,
                  EndOfStream, ReadFails
    <2> QED BY <2>1 DEF NoChangeButReader
  <1>5. CASE UNCHANGED vars
    BY <1>5 DEF vars
  <1> QED BY <1>1, <1>2, <1>3, <1>4, <1>5 DEF Next, Main

\* However many connections, readers and commands, a session opened before any
\* was closed does not outlive its connection: disconnect closes it.
THEOREM FirstIsClosed == Spec => ClosedAtHangUp
  <1>1. Init => FirstSession
    BY DEF Init, FirstSession
  <1>2. FirstSession /\ [Next]_vars => [hungup' # hungup /\ session = "open" => session' = "shut"]_vars
    BY HangUpStep
  <1> QED BY <1>1, <1>2, SessionStep, PTL DEF Spec, ClosedAtHangUp

=============================================================================

---------------------------- MODULE UserAccounts ----------------------------
(***************************************************************************)
(* The game server's account store: UserManager::registerUser over         *)
(* FileManager, whose whole state is the map usersMap, the file users.txt  *)
(* and the input stream fileIn that stays open on it.                      *)
(*                                                                         *)
(* The file is one line, "<length> <user>,<user>,...", rewritten from      *)
(* scratch for every new user: the writer reads the old line, truncates    *)
(* the file and writes the length, a space and the new line, each with a   *)
(* write() of its own.  "stage" says which of them have reached the file:  *)
(* "clear" (nothing), "len", "space" or "line".  The server may be stopped *)
(* between any two of them.                                                *)
(*                                                                         *)
(* A caller is a thread that calls the public operations; the server has   *)
(* one, its dispatcher.  A step of a caller between two points where it    *)
(* can be preempted or stopped is one action.                              *)
(***************************************************************************)
EXTENDS Naturals, Sequences, SequencesExt

CONSTANTS
    Caller,       \* threads that call UserManager and FileManager
    Name,         \* user names clients register
    Letter,       \* what passwords are made of
    Pass,         \* passwords clients register with
    EmptyName,    \* the name "", the key readUsers makes up for a torn file
    NoUser,       \* no entry / NULL
    NoCaller,     \* the mutex is free
    Garbage,      \* values an uninitialised int score may hold
    Points,       \* points a setScore call may add
    MaxScore      \* bound on the points granted to all users

ASSUME AccountConstants ==
    /\ Pass \subseteq Seq(Letter)
    /\ Garbage \subseteq Nat
    /\ Points \subseteq Nat
    /\ MaxScore \in Nat
    /\ EmptyName \notin Name
    /\ NoUser \notin [pass : Seq(Letter), score : Nat]
    /\ NoUser \notin [name : Name \cup {EmptyName}, pass : Seq(Letter), score : Nat]
    /\ NoCaller \notin Caller
    \* updateFileFromMap truncates the file without the mutex.  What a second
    \* caller's half-written line then looks like is not modelled: scores
    \* are set by a lone caller.
    /\ Points # {} => \A c, d \in Caller : c = d

VARIABLES
    usersMap,     \* the map from names to pair(password, score)
    stage, line,  \* the file: how much of it has been written, and its users
    goodbit,      \* fileIn has no failbit set
    mutex,        \* FileManager::mutex: the caller that holds it
    pc,           \* where each caller is
    user,         \* the user a caller registers or writes
    fullLine,     \* what readUsers returned to writeUser
    todo,         \* the keys updateFileFromMap has not written yet
    copy,         \* the User object a caller got from getUserFromMap and keeps
    \* history, read by the properties alone
    acked,        \* the account of every registration that has returned
    granted,      \* points granted so far
    loaded,       \* readUsers has run since the server started
    torn          \* the server was stopped while the file was incomplete

vars == <<usersMap, stage, line, goodbit, mutex, pc, user, fullLine, todo,
          copy, acked, granted, loaded, torn>>

memory == <<usersMap, goodbit, loaded>>
disk == <<stage, line>>
history == <<acked, granted, torn>>

Key == Name \cup {EmptyName}
Account == [pass : Seq(Letter), score : Nat]
User == [name : Key, pass : Seq(Letter), score : Nat]
Entry == [name : Key, hash : Seq(Letter), score : Nat]

\* FileManager::hashpass, applied once on the way to the file and once on
\* the way back.
hashpass(p) == Reverse(p)

-----------------------------------------------------------------------------
(* readUsers and what it does with the users of the line *)

EntryOf(u) == [name |-> u.name, hash |-> hashpass(u.pass), score |-> u.score]
AccountOf(e) == [pass |-> hashpass(e.hash), score |-> e.score]

PlacesOf(l, n) == {i \in DOMAIN l : l[i].name = n}

\* map::insert never overwrites: a key already in the map wins over the
\* file, and of two entries of one name the first.
LoadedMap(map, l) ==
    [n \in Key |->
        IF map[n] # NoUser \/ PlacesOf(l, n) = {}
        THEN map[n]
        ELSE AccountOf(l[CHOOSE i \in PlacesOf(l, n) :
                            \A j \in PlacesOf(l, n) : i <= j])]

\* readLineIntoMap on an empty string finds no comma: the empty name and
\* password, and a score nobody initialised.
PhantomMap(map, g) ==
    IF map[EmptyName] = NoUser
    THEN [map EXCEPT ![EmptyName] = [pass |-> <<>>, score |-> g]]
    ELSE map

ReadableLine == IF goodbit THEN line ELSE <<>>

\* A file whose line is missing makes get() or getline() set failbit, which
\* nothing ever clears: from then on every read returns the empty string.
readUsers ==
    /\ loaded' = TRUE
    /\ UNCHANGED disk
    /\ \/ /\ goodbit
          /\ stage \in {"clear", "line"}
          /\ usersMap' = LoadedMap(usersMap, line)
          /\ UNCHANGED goodbit
       \/ /\ ~goodbit \/ stage \in {"len", "space"}
          /\ \E g \in Garbage : usersMap' = PhantomMap(usersMap, g)
          /\ goodbit' = FALSE

-----------------------------------------------------------------------------
Init ==
    /\ usersMap = [n \in Key |-> NoUser]
    /\ stage = "clear"
    /\ line = <<>>
    /\ goodbit = TRUE
    /\ mutex = NoCaller
    /\ pc = [c \in Caller |-> "idle"]
    /\ user = [c \in Caller |-> NoUser]
    /\ fullLine = [c \in Caller |-> <<>>]
    /\ todo = [c \in Caller |-> {}]
    /\ copy = [c \in Caller |-> NoUser]
    /\ acked = [n \in Name |-> NoUser]
    /\ granted = 0
    /\ loaded = FALSE
    /\ torn = FALSE

Goto(c, label) == pc' = [pc EXCEPT ![c] = label]

-----------------------------------------------------------------------------
(* UserManager::registerUser *)

\* fileManager->readUsers(); user = new User(name, pass)
RegisterUser(c, n, p) ==
    /\ pc[c] = "idle"
    /\ mutex = NoCaller
    /\ readUsers
    /\ user' = [user EXCEPT ![c] = [name |-> n, pass |-> p, score |-> 0]]
    /\ Goto(c, "find")
    /\ UNCHANGED <<mutex, fullLine, todo, copy, history>>

\* Mutant: nobody looks whether the name is taken.
FindNobody(c) ==
    /\ pc[c] = "find"
    /\ Goto(c, "read")
    /\ UNCHANGED <<memory, disk, mutex, user, fullLine, todo, copy, history>>

\* "The user already exists!", or on to writeUser.
FindUser(c) ==
    /\ pc[c] = "find"
    /\ IF usersMap[user[c].name] # NoUser
       THEN Goto(c, "idle") /\ user' = [user EXCEPT ![c] = NoUser]
       ELSE Goto(c, "read") /\ UNCHANGED user
    /\ UNCHANGED <<memory, disk, mutex, fullLine, todo, copy, history>>

-----------------------------------------------------------------------------
(* FileManager::writeUser *)

\* Mutant: writeUser takes its guard before it reads the file.
ReadLineGuarded(c) ==
    /\ pc[c] = "read"
    /\ mutex = NoCaller
    /\ mutex' = c
    /\ readUsers
    /\ fullLine' = [fullLine EXCEPT ![c] = ReadableLine]
    /\ Goto(c, "lock")
    /\ UNCHANGED <<user, todo, copy, history>>

\* fullLine = readUsers(): takes the mutex and gives it back.
ReadLine(c) ==
    /\ pc[c] = "read"
    /\ mutex = NoCaller
    /\ readUsers
    /\ fullLine' = [fullLine EXCEPT ![c] = ReadableLine]
    /\ Goto(c, "lock")
    /\ UNCHANGED <<mutex, user, todo, copy, history>>

\* Mutant: the file is opened again without O_TRUNC.
OpenFile(c) ==
    /\ pc[c] = "lock"
    /\ mutex = NoCaller
    /\ mutex' = c
    /\ stage' = "clear"
    /\ Goto(c, "len")
    /\ UNCHANGED <<memory, line, user, fullLine, todo, copy, history>>

\* The guard, then closeOpenAndClear.
ClearFile(c) ==
    /\ pc[c] = "lock"
    /\ mutex = NoCaller
    /\ mutex' = c
    /\ stage' = "clear"
    /\ line' = <<>>
    /\ Goto(c, "len")
    /\ UNCHANGED <<memory, user, fullLine, todo, copy, history>>

WriteLen(c) ==
    /\ pc[c] = "len"
    /\ stage' = "len"
    /\ Goto(c, "space")
    /\ UNCHANGED <<memory, line, mutex, user, fullLine, todo, copy, history>>

WriteSpace(c) ==
    /\ pc[c] = "space"
    /\ stage' = "space"
    /\ Goto(c, "line")
    /\ UNCHANGED <<memory, line, mutex, user, fullLine, todo, copy, history>>

\* Mutant: the old line is not put back.
WriteNewLine(c) ==
    /\ pc[c] = "line"
    /\ stage' = "line"
    /\ line' = <<EntryOf(user[c])>>
    /\ Goto(c, "insert")
    /\ UNCHANGED <<memory, mutex, user, fullLine, todo, copy, history>>

\* The new user goes before the users of the old line.
WriteLine(c) ==
    /\ pc[c] = "line"
    /\ stage' = "line"
    /\ line' = <<EntryOf(user[c])>> \o fullLine[c]
    /\ Goto(c, "insert")
    /\ UNCHANGED <<memory, mutex, user, fullLine, todo, copy, history>>

\* The user enters the map, the guard is destroyed, and writeUser returns to
\* registerUser or to the loop of updateFileFromMap; its locals are gone.
InsertUser(c) ==
    /\ pc[c] = "insert"
    /\ LET u == user[c] IN
        /\ usersMap' = [usersMap EXCEPT ![u.name] =
                            IF @ = NoUser THEN [pass |-> u.pass, score |-> u.score] ELSE @]
        /\ acked' = IF u.name \in Name /\ acked[u.name] = NoUser
                    THEN [acked EXCEPT ![u.name] = [pass |-> u.pass, score |-> u.score]]
                    ELSE acked
    /\ mutex' = NoCaller
    /\ Goto(c, IF todo[c] = {} THEN "idle" ELSE "next")
    /\ user' = [user EXCEPT ![c] = NoUser]
    /\ fullLine' = [fullLine EXCEPT ![c] = <<>>]
    /\ UNCHANGED <<disk, goodbit, loaded, todo, copy, granted, torn>>

-----------------------------------------------------------------------------
(* UserManager::loginUser, which looks in the map alone. *)

\* Mutant: the password is not looked at.
LoginByName(n, p) == IF usersMap[n] = NoUser THEN "unknown" ELSE "in"

loginUser(n, p) ==
    IF usersMap[n] = NoUser THEN "unknown"
    ELSE IF usersMap[n].pass = p THEN "in" ELSE "wrong"

-----------------------------------------------------------------------------
(* FileManager::getUserFromMap, setScore and updateFileFromMap *)

\* A caller keeps a new User object with what the map holds now.
FetchUser(c, n) ==
    /\ pc[c] = "idle"
    /\ usersMap[n] # NoUser
    /\ copy' = [copy EXCEPT ![c] =
                    [name |-> n, pass |-> usersMap[n].pass, score |-> usersMap[n].score]]
    /\ UNCHANGED <<memory, disk, mutex, pc, user, fullLine, todo, history>>

\* Mutant: the score changes in memory alone.
SetScoreInMemory(c, points) ==
    /\ pc[c] = "idle"
    /\ copy[c] # NoUser
    /\ LET u == copy[c] IN
        /\ usersMap[u.name] # NoUser
        /\ granted + points <= MaxScore
        /\ usersMap' = [usersMap EXCEPT ![u.name] =
                            [pass |-> u.pass, score |-> u.score + points]]
        /\ granted' = granted + points
    /\ UNCHANGED <<goodbit, loaded, disk, mutex, pc, user, fullLine, todo, copy, acked, torn>>

\* The User is passed by value: its score, as old as it is, is what the
\* points are added to, and the caller's object stays as it was.
SetScore(c, points) ==
    /\ pc[c] = "idle"
    /\ copy[c] # NoUser
    /\ LET u == copy[c] IN
        /\ usersMap[u.name] # NoUser
        /\ granted + points <= MaxScore
        /\ usersMap' = [usersMap EXCEPT ![u.name] =
                            [pass |-> u.pass, score |-> u.score + points]]
        /\ granted' = granted + points
    /\ Goto(c, "clear")
    /\ UNCHANGED <<goodbit, loaded, disk, mutex, user, fullLine, todo, copy, acked, torn>>

\* closeOpenAndClear, under no guard, and the loop over the map begins.
UpdateClear(c) ==
    /\ pc[c] = "clear"
    /\ stage' = "clear"
    /\ line' = <<>>
    /\ todo' = [todo EXCEPT ![c] = {n \in Key : usersMap[n] # NoUser}]
    /\ Goto(c, "next")
    /\ UNCHANGED <<memory, mutex, user, fullLine, copy, history>>

\* The loop writes the map's users one by one, each with a writeUser of its
\* own; any order stands for the order of the keys.
NextUser(c, n) ==
    /\ pc[c] = "next"
    /\ n \in todo[c]
    /\ user' = [user EXCEPT ![c] =
                    [name |-> n, pass |-> usersMap[n].pass, score |-> usersMap[n].score]]
    /\ todo' = [todo EXCEPT ![c] = @ \ {n}]
    /\ Goto(c, "read")
    /\ UNCHANGED <<memory, disk, mutex, fullLine, copy, history>>

-----------------------------------------------------------------------------
(* The server is stopped and started again: FileManager's constructor opens *)
(* the file it finds and reads nothing.                                     *)

\* The lone caller c has truncated the file and not put every user back.
Rewriting(c) == \/ pc[c] \in {"len", "space", "line", "next"}
                \/ todo[c] # {}
                \/ pc[c] \in {"read", "lock"} /\ usersMap[user[c].name] # NoUser

Stop ==
    /\ torn' = (torn \/ \E c \in Caller : Rewriting(c))
    /\ usersMap' = [n \in Key |-> NoUser]
    /\ goodbit' = TRUE
    /\ loaded' = FALSE
    /\ mutex' = NoCaller
    /\ pc' = [c \in Caller |-> "idle"]
    /\ user' = [c \in Caller |-> NoUser]
    /\ fullLine' = [c \in Caller |-> <<>>]
    /\ todo' = [c \in Caller |-> {}]
    /\ copy' = [c \in Caller |-> NoUser]
    /\ UNCHANGED <<disk, acked, granted>>

-----------------------------------------------------------------------------
Step(c) ==
    \/ FindUser(c)
    \/ ReadLine(c)
    \/ ClearFile(c)
    \/ WriteLen(c)
    \/ WriteSpace(c)
    \/ WriteLine(c)
    \/ InsertUser(c)
    \/ UpdateClear(c)
    \/ \E n \in Key : NextUser(c, n)

Call(c) ==
    \/ \E n \in Name, p \in Pass : RegisterUser(c, n, p)
    \/ \E n \in Name : FetchUser(c, n)
    \/ \E points \in Points : SetScore(c, points)

Next ==
    \/ \E c \in Caller : Step(c) \/ Call(c)
    \/ Stop

Spec == Init /\ [][Next]_vars

\* A call that has begun goes on; nobody has to call.
FairSpec == Spec /\ \A c \in Caller : WF_vars(Step(c))

-----------------------------------------------------------------------------
(* Properties *)

Label == {"idle", "find", "read", "lock", "len", "space", "line", "insert",
          "clear", "next"}

\* Every variable has its type, and a line is on disk exactly when the last
\* of the three write() calls has run.
TypeOK ==
    /\ usersMap \in [Key -> Account \cup {NoUser}]
    /\ stage \in {"clear", "len", "space", "line"}
    /\ line \in Seq(Entry)
    /\ (stage = "line") <=> (line # <<>>)
    /\ goodbit \in BOOLEAN
    /\ mutex \in Caller \cup {NoCaller}
    /\ pc \in [Caller -> Label]
    /\ user \in [Caller -> User \cup {NoUser}]
    /\ fullLine \in [Caller -> Seq(Entry)]
    /\ todo \in [Caller -> SUBSET Key]
    /\ copy \in [Caller -> [name : Name, pass : Seq(Letter), score : Nat] \cup {NoUser}]
    /\ acked \in [Name -> Account \cup {NoUser}]
    /\ granted \in 0..MaxScore
    /\ loaded \in BOOLEAN
    /\ torn \in BOOLEAN

\* The account a reader of line l finds for n.
AccountIn(l, n) == LoadedMap([k \in Key |-> NoUser], l)[n]

Quiet == \A c \in Caller : pc[c] = "idle"

\* A registration that has returned is on the disk with its password, for
\* this server and for the one started after it, whatever has been rewritten
\* since, unless the server was stopped with the file incomplete
\* (FileManager::writeUser and updateFileFromMap keep the old users).
AckedOnDisk ==
    ~torn /\ (\A c \in Caller : ~Rewriting(c)) =>
        \A n \in Name : acked[n] # NoUser =>
            /\ AccountIn(line, n) # NoUser
            /\ AccountIn(line, n).pass = acked[n].pass

\* Between two calls the map and the file hold the same accounts, scores
\* included, once the server has read the file.
MapAgreesWithDisk ==
    loaded /\ ~torn /\ Quiet => \A n \in Name : usersMap[n] = AccountIn(line, n)

\* Whoever has registered logs in with his password, and nobody with another,
\* in this server and in those started after it.  But a server that has just
\* started knows nobody until somebody registers, and loads the file.
LoginAsRegistered ==
    Quiet /\ ~torn =>
        \A n \in Name, p \in Pass : acked[n] # NoUser =>
            loginUser(n, p) = IF ~loaded THEN "unknown"
                              ELSE IF p = acked[n].pass THEN "in" ELSE "wrong"

\* A call that has begun returns: the guard of writeUser is not taken under
\* the guard of readUsers, and the loop of updateFileFromMap ends.
CallsReturn == \A c \in Caller : pc[c] # "idle" ~> pc[c] = "idle"

\* The users a server started now, or the rewrite in progress, brings back:
\* those of the map once setScore rewrites everything, those of the old line
\* while writeUser adds one, else those of the file.
UpdatingBy(c) ==
    \/ pc[c] \in {"clear", "next"}
    \/ pc[c] \in {"read", "lock", "len", "space", "line", "insert"}
         /\ usersMap[user[c].name] # NoUser

Durable(n) ==
    IF \E c \in Caller : UpdatingBy(c) THEN usersMap[n]
    ELSE IF \E c \in Caller : pc[c] \in {"len", "space", "line"}
         THEN AccountIn(fullLine[CHOOSE c \in Caller : pc[c] \in {"len", "space", "line"}], n)
         ELSE AccountIn(line, n)

durableAccounts ==
    [n \in Name |-> IF Durable(n) = NoUser THEN NoUser ELSE Durable(n).pass]

Store == INSTANCE UserStore WITH NoPass <- NoUser, accounts <- durableAccounts

\* With a lone caller the accounts that survive are a UserStore, wherever the
\* server is stopped: a name is registered once, for good, with the password it
\* was registered with (UserManager::registerUser), until a stop tears the file.
ImplementsUserStore == Store!Spec
=============================================================================

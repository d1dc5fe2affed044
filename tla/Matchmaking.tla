---------------------------- MODULE Matchmaking ----------------------------
(***************************************************************************)
(* The commands of the game server: what Dispatcher::run does with each    *)
(* of them once it has read it, from registration to an open game.         *)
(*                                                                         *)
(* The dispatcher holds its mutex for a whole command, so a command is one *)
(* action.  A client's commands are served in the order they were sent;    *)
(* between two clients any order is possible, and what a client sent       *)
(* before it hung up is still served.                                      *)
(*                                                                         *)
(* opp2, player1 and player2 are locals of the loop body that no command   *)
(* initialises.  A command that reads one it has not assigned finds what   *)
(* an earlier command left in the same place of the stack, or NULL, or     *)
(* anything else (Wild); to follow NULL or Wild is to crash.               *)
(***************************************************************************)
EXTENDS Naturals, Sequences, FiniteSets

CONSTANTS
    Socket,         \* connections, as numbers: tcpMap is ordered by address
    LastAddress,    \* the highest address there is
    Name, Pass,     \* users and passwords
    NameLength,     \* the length of each name, which is sent before it
    NoPass,         \* not registered
    NoUser,         \* no entry of tcpMap
    Null, Wild,     \* pointers that lead nowhere
    Nobody,         \* a random challenge asks for nobody
    MaxChallenges,  \* bound on the challenges made
    MaxGames,       \* bound on the games opened
    MaxLogins       \* bound on the logins served

SHOW_USERS == 3
ACCEPT_MATCH == 6
DECLINE_MATCH == 7

ASSUME MatchConstants ==
    /\ LastAddress \in Nat /\ Socket \subseteq 0..LastAddress
    \* A length of 1 or 2 would be taken for REGISTER or LOGIN (see Leftover).
    /\ NameLength \in [Name -> Nat \ 0..2]
    /\ NoPass \notin Pass
    /\ \A x \in {NoUser, Null, Wild} : x \notin [name : Name, tcp : Socket]
    /\ Nobody \notin Name
    /\ MaxChallenges \in Nat /\ MaxGames \in Nat /\ MaxLogins \in Nat

VARIABLES
    accounts,       \* what UserManager has registered
    loggedUsers,    \* UserManager::loggedUsers
    tcpMap,         \* the user logged in on each connection
    leftover,       \* the length word of a payload nobody read, or 0
    hung,           \* the client has hung up
    opp2, player1, player2,   \* the uninitialised locals, across iterations
    games,          \* the Games opened
    crashed,        \* the server process is dead
    \* history, read by the properties alone
    challenges,     \* the challenges made, in order
    acceptors       \* connections whose client has sent ACCEPT_MATCH

users == <<accounts, loggedUsers, tcpMap>>
locals == <<opp2, player1, player2>>
history == <<challenges, acceptors>>

vars == <<users, leftover, hung, locals, games, crashed, history>>

Users == INSTANCE UserStore WITH torn <- FALSE

User == [name : Name, tcp : Socket]

Init ==
    /\ Users!Init
    /\ loggedUsers = <<>>
    /\ tcpMap = [s \in Socket |-> NoUser]
    /\ leftover = [s \in Socket |-> 0]
    /\ hung = [s \in Socket |-> FALSE]
    /\ opp2 = Wild /\ player1 = Wild /\ player2 = Wild
    /\ games = <<>>
    /\ crashed = FALSE
    /\ challenges = <<>>
    /\ acceptors = {}

-----------------------------------------------------------------------------
(* Helpers *)

Online == {s \in Socket : tcpMap[s] # NoUser}

\* getUserFromTCPMap copies the user; a copy is equal to its original.
getUserFromTCPMap(s) == tcpMap[s]

\* setOnGame is never called.
isOnGame(u) == FALSE

\* What a read of an unassigned local may find.
Uninitialised(slot) == {slot, Null, Wild}

\* A command of s is next in its stream.
Receives(s) == ~crashed /\ leftover[s] = 0

\* A write to a client that has gone may raise SIGPIPE.
WriteTo(s) == crashed' \in {FALSE, hung[s]}

Crash ==
    /\ crashed' = TRUE
    /\ UNCHANGED <<users, leftover, hung, locals, games, history>>

-----------------------------------------------------------------------------
(* UserManager's commands *)

\* registerUser leaves a name alone that is taken.
Register(s, n, p) ==
    /\ Receives(s)
    /\ Users!Register(n, p)
    /\ UNCHANGED <<loggedUsers, tcpMap, leftover, hung, locals, games, crashed, history>>

\* Mutant: a failed login enters the map too.
LoginAnyway(s, n, p) ==
    /\ Receives(s)
    /\ Len(loggedUsers) < MaxLogins
    /\ loggedUsers' = IF accounts[n] = p THEN Append(loggedUsers, n) ELSE loggedUsers
    /\ tcpMap' = IF tcpMap[s] = NoUser
                 THEN [tcpMap EXCEPT ![s] = [name |-> n, tcp |-> s]]
                 ELSE tcpMap
    /\ UNCHANGED <<accounts, leftover, hung, locals, games, crashed, history>>

\* Mutant: setTcp is forgotten.
LoginWithoutTcp(s, n, p) ==
    /\ Receives(s)
    /\ accounts[n] = p
    /\ Len(loggedUsers) < MaxLogins
    /\ loggedUsers' = Append(loggedUsers, n)
    /\ tcpMap' = IF tcpMap[s] = NoUser
                 THEN [tcpMap EXCEPT ![s] = [name |-> n, tcp |-> Null]]
                 ELSE tcpMap
    /\ UNCHANGED <<accounts, leftover, hung, locals, games, crashed, history>>

\* loginUser remembers every login; tcpMap->insert keeps the user a
\* connection already has.
Login(s, n, p) ==
    /\ Receives(s)
    /\ accounts[n] = p
    /\ Len(loggedUsers) < MaxLogins
    /\ loggedUsers' = Append(loggedUsers, n)
    /\ tcpMap' = IF tcpMap[s] = NoUser
                 THEN [tcpMap EXCEPT ![s] = [name |-> n, tcp |-> s]]
                 ELSE tcpMap
    /\ UNCHANGED <<accounts, leftover, hung, locals, games, crashed, history>>

\* printLoggedUsers writes the names to whoever asks, logged in or not.
PrintLoggedUsers(s) ==
    /\ Online # {}
    /\ WriteTo(s)
    /\ UNCHANGED games

ShowUsers(s) ==
    /\ Receives(s)
    /\ PrintLoggedUsers(s)
    /\ UNCHANGED <<users, leftover, hung, locals, challenges, acceptors>>

-----------------------------------------------------------------------------
(* Challenges *)

\* Mutant: the player to be is not the one invited now.
ChallengeFormer(s, opp, asked) ==
    /\ Len(challenges) < MaxChallenges
    /\ challenges' = Append(challenges,
                        [by |-> s, from |-> tcpMap[s], to |-> opp, asked |-> asked])
    /\ player1' = tcpMap[s]
    /\ player2' = IF player2 \in User THEN player2 ELSE opp
    /\ WriteTo(opp.tcp)
    /\ UNCHANGED <<users, leftover, hung, games, acceptors>>

\* The invitation is written, and the two are the players of the next
\* ACCEPT_MATCH.
Challenge(s, opp, asked) ==
    /\ Len(challenges) < MaxChallenges
    /\ challenges' = Append(challenges,
                        [by |-> s, from |-> tcpMap[s], to |-> opp, asked |-> asked])
    /\ player1' = tcpMap[s]
    /\ player2' = opp
    /\ WriteTo(opp.tcp)
    /\ UNCHANGED <<users, leftover, hung, games, acceptors>>

FirstOnline == CHOOSE t \in Online : \A v \in Online : t <= v

\* The first user of the map, or any if that is the challenger's name.
RandomOpponents(s) ==
    IF tcpMap[FirstOnline].name = tcpMap[s].name
    THEN {tcpMap[t] : t \in Online}
    ELSE {tcpMap[FirstOnline]}

\* Nothing happens to a stranger, or to a user alone in the map.
OpenMatchRandom(s) ==
    /\ Receives(s)
    /\ getUserFromTCPMap(s) # NoUser
    /\ Cardinality(Online) # 1
    /\ \E opp \in RandomOpponents(s) :
        /\ ~isOnGame(tcpMap[s]) /\ ~isOnGame(opp)
        /\ Challenge(s, opp, Nobody)
    /\ UNCHANGED opp2

Named(n) == {t \in Online : tcpMap[t].name = n}

\* Mutant: the search stops one short of the map's end.
NamedButLast(n) ==
    LET searched == {t \in Online : \E v \in Online : t < v} \cap Named(n)
    IN  IF searched # {}
        THEN {tcpMap[CHOOSE t \in searched : \A v \in searched : t >= v]}
        ELSE Uninitialised(opp2)

\* The search keeps the last match of the map.  Without a match opp2 is not
\* assigned, and its NULL alone is reported as "Opponent's name not found!".
NamedOpponents(n) ==
    IF Named(n) # {}
    THEN {tcpMap[CHOOSE t \in Named(n) : \A v \in Named(n) : t >= v]}
    ELSE Uninitialised(opp2)

OpenMatchWithUser(s, n) ==
    /\ Receives(s)
    /\ getUserFromTCPMap(s) # NoUser
    /\ \E opp \in NamedOpponents(n) :
        \/ opp = Null /\ UNCHANGED vars
        \/ opp = Wild /\ Crash
        \/ /\ opp \in User
           /\ ~isOnGame(tcpMap[s]) /\ ~isOnGame(opp)
           /\ opp2' = opp
           /\ Challenge(s, opp, n)

\* A stranger's payload is not read: its length is the next command.
OpenMatchStranger(s, n) ==
    /\ Receives(s)
    /\ getUserFromTCPMap(s) = NoUser
    /\ leftover' = [leftover EXCEPT ![s] = NameLength[n]]
    /\ UNCHANGED <<users, hung, locals, games, crashed, history>>

-----------------------------------------------------------------------------
(* Answers *)

\* ServerSDK::openGameSession, with whatever the two locals hold.
OpenGameSession(s) ==
    \E p1 \in Uninitialised(player1), p2 \in Uninitialised(player2) :
        IF p1 \in User /\ p2 \in User
        THEN /\ Len(games) < MaxGames
             /\ games' = Append(games, [p1 |-> p1, p2 |-> p2, by |-> s,
                                        nth |-> Len(challenges)])
             /\ UNCHANGED crashed
        ELSE crashed' = TRUE /\ UNCHANGED games

AcceptMatch(s) ==
    /\ Receives(s)
    /\ OpenGameSession(s)
    /\ acceptors' = acceptors \cup {s}
    /\ UNCHANGED <<users, leftover, hung, locals, challenges>>

\* "Your opponent refused to play with you" is written to the one who refused.
Refuse(s) ==
    /\ WriteTo(s)
    /\ UNCHANGED games

DeclineMatch(s) ==
    /\ Receives(s)
    /\ Refuse(s)
    /\ UNCHANGED <<users, leftover, hung, locals, challenges, acceptors>>

-----------------------------------------------------------------------------
\* readCommand takes the length of a stranger's payload for a command, and
\* then the letters, which are none.  The client is still a stranger, so
\* OPEN_MATCH_RANDOM and OPEN_MATCH_WITH_USER do nothing.
Leftover(s) ==
    /\ ~crashed
    /\ leftover[s] # 0
    /\ leftover' = [leftover EXCEPT ![s] = 0]
    /\ \/ leftover[s] = SHOW_USERS /\ PrintLoggedUsers(s)
       \/ leftover[s] = ACCEPT_MATCH /\ OpenGameSession(s)
       \/ leftover[s] = DECLINE_MATCH /\ Refuse(s)
       \/ /\ leftover[s] \notin {SHOW_USERS, ACCEPT_MATCH, DECLINE_MATCH}
          /\ UNCHANGED <<games, crashed>>
    /\ UNCHANGED <<users, hung, locals, challenges, acceptors>>

HangUp(s) ==
    /\ ~crashed
    /\ ~hung[s]
    /\ hung' = [hung EXCEPT ![s] = TRUE]
    /\ UNCHANGED <<users, leftover, locals, games, crashed, history>>

Command(s) ==
    \/ \E n \in Name, p \in Pass : Register(s, n, p) \/ Login(s, n, p)
    \/ ShowUsers(s)
    \/ OpenMatchRandom(s)
    \/ \E n \in Name : OpenMatchWithUser(s, n) \/ OpenMatchStranger(s, n)
    \/ AcceptMatch(s)
    \/ DeclineMatch(s)

Next == \E s \in Socket : Command(s) \/ Leftover(s) \/ HangUp(s)

Spec == Init /\ [][Next]_vars

-----------------------------------------------------------------------------
(* Properties *)

Local == User \cup {Null, Wild}

\* Every variable has its type.
TypeOK ==
    /\ accounts \in [Name -> Pass \cup {NoPass}]
    /\ loggedUsers \in Seq(Name)
    /\ tcpMap \in [Socket -> User \cup {NoUser}]
    /\ leftover \in [Socket -> Nat]
    /\ hung \in [Socket -> BOOLEAN]
    /\ opp2 \in Local /\ player1 \in Local /\ player2 \in Local
    /\ games \in Seq([p1 : User, p2 : User, by : Socket, nth : Nat])
    /\ crashed \in BOOLEAN
    /\ challenges \in Seq([by : Socket, from : User, to : User, asked : Name \cup {Nobody}])
    /\ acceptors \subseteq Socket

\* A game is played by the two users of the last challenge before it, however
\* many challenges there were: the two locals that ACCEPT_MATCH reads without
\* assigning them hold those two or crash the server.
GameOfLastChallenge ==
    \A i \in DOMAIN games :
        LET g == games[i] IN
            /\ g.nth \in DOMAIN challenges
            /\ challenges[g.nth].from = g.p1
            /\ challenges[g.nth].to = g.p2

\* Whoever is online or plays has registered and logged in as the user he is
\* known as, and the server writes to him on the connection he logged in on.
PlayersLoggedIn ==
    /\ \A s \in Online : /\ accounts[tcpMap[s].name] # NoPass
                         /\ \E i \in DOMAIN loggedUsers : loggedUsers[i] = tcpMap[s].name
    /\ \A i \in DOMAIN games : \A u \in {games[i].p1, games[i].p2} : tcpMap[u.tcp] = u

\* A user who is challenged by name gets the challenge if he is online,
\* whatever opp2 held before the search.
NamedIsChallenged ==
    [][\A n \in Name : Named(n) # {} /\ Len(challenges') > Len(challenges) =>
        LET c == challenges'[Len(challenges')] IN c.asked = n => c.to.name = n]_vars

(* What the code says of itself and does not do *)

\* A challenge by a name that nobody online has is not made: "Opponent's name
\* not found!" (Dispatcher.cpp:239-240).
NotFoundIsReported ==
    \A i \in DOMAIN challenges :
        challenges[i].asked # Nobody => challenges[i].to.name = challenges[i].asked

\* The data that follows a command is not a command (Protocol.h:16-17): who
\* opens a game has sent ACCEPT_MATCH.
DataIsNoCommand == \A i \in DOMAIN games : games[i].by \in acceptors
=============================================================================

------------------------- MODULE MatchmakingProofs -------------------------
(***************************************************************************)
(* What is proved of Matchmaking for every set of connections and names    *)
(* and every bound.                                                        *)
(***************************************************************************)
EXTENDS Matchmaking, OrderLemmas, SequenceTheorems

-----------------------------------------------------------------------------
(* Whom the two searches find *)

\* No pointer that leads nowhere passes for a user.
LEMMA NoUserIsNoUser == NoUser \notin User /\ Null \notin User /\ Wild \notin User
  BY MatchConstants DEF User

\* OPEN_MATCH_RANDOM's begin() is an entry of tcpMap, if there is one.
LEMMA FirstIsOnline ==
  ASSUME Online # {}
  PROVE  FirstOnline \in Online
  <1>1. Online \in SUBSET Nat
    <2>1. 0..LastAddress \subseteq Nat
      BY MatchConstants
    <2> QED BY <2>1, MatchConstants DEF Online
  <1>2. \E t \in Online : \A v \in Online : t <= v
    BY <1>1, LeastNat
  <1> QED BY <1>2 DEF FirstOnline

\* OPEN_MATCH_RANDOM picks an entry of tcpMap.
LEMMA RandomIsOnline ==
  ASSUME NEW s \in Online, NEW opp \in RandomOpponents(s)
  PROVE  \E t \in Online : opp = tcpMap[t]
  BY FirstIsOnline DEF RandomOpponents

\* A search by name that has a match returns one.
LEMMA NamedIsOnline ==
  ASSUME NEW n, Named(n) # {}, NEW opp \in NamedOpponents(n)
  PROVE  \E t \in Online : opp = tcpMap[t] /\ tcpMap[t].name = n
  <1>1. LastAddress \in Nat /\ Named(n) \in SUBSET (0..LastAddress)
    BY MatchConstants DEF Named, Online
  <1>2. \E t \in Named(n) : \A v \in Named(n) : t >= v
    BY <1>1, GreatestNat
  <1>3. PICK t \in Named(n) : opp = tcpMap[t]
    BY <1>2 DEF NamedOpponents
  <1> QED BY <1>3 DEF Named

-----------------------------------------------------------------------------
(* The inductive invariant: every user the server has in its hands is the   *)
(* one of his connection, and the two players of the next ACCEPT_MATCH are  *)
(* both unassigned or both those of the last challenge.                     *)

Known(u) == u.tcp \in Socket /\ tcpMap[u.tcp] = u

MapKnown ==
    \A s \in Online :
        /\ tcpMap[s].tcp = s
        /\ accounts[tcpMap[s].name] # NoPass
        /\ \E i \in DOMAIN loggedUsers : loggedUsers[i] = tcpMap[s].name

LocalsKnown ==
    /\ opp2 \in User => Known(opp2)
    /\ player1 \in User => Known(player1)
    /\ player2 \in User => Known(player2)

PlayersChallenged ==
    player1 \in User /\ player2 \in User =>
        /\ challenges # <<>>
        /\ challenges[Len(challenges)].from = player1
        /\ challenges[Len(challenges)].to = player2

GamesKnown ==
    \A i \in DOMAIN games : Known(games[i].p1) /\ Known(games[i].p2)

IInv ==
    /\ TypeOK /\ MapKnown /\ LocalsKnown /\ PlayersChallenged
    /\ GamesKnown /\ GameOfLastChallenge

\* The server starts in the invariant.
LEMMA InitIInv == Init => IInv
  <1> SUFFICES ASSUME Init PROVE IInv
    OBVIOUS
  <1>1. TypeOK
    <2>1. accounts \in [Name -> Pass \cup {NoPass}]
      BY DEF Init, Users!Init, Users!Unregistered
    <2>2. /\ tcpMap \in [Socket -> User \cup {NoUser}]
          /\ leftover \in [Socket -> Nat]
          /\ hung \in [Socket -> BOOLEAN]
      BY DEF Init
    <2>3. opp2 \in Local /\ player1 \in Local /\ player2 \in Local
      BY DEF Init, Local
    <2>4. /\ loggedUsers \in Seq(Name)
          /\ games \in Seq([p1 : User, p2 : User, by : Socket, nth : Nat])
          /\ challenges \in Seq([by : Socket, from : User, to : User, asked : Name \cup {Nobody}])
      BY DEF Init
    <2>5. crashed \in BOOLEAN /\ acceptors \subseteq Socket
      BY DEF Init
    <2> QED BY <2>1, <2>2, <2>3, <2>4, <2>5 DEF TypeOK
  <1>2. MapKnown
    BY DEF Init, MapKnown, Online
  <1>3. LocalsKnown /\ PlayersChallenged
    BY NoUserIsNoUser DEF Init, LocalsKnown, PlayersChallenged
  <1>4. GamesKnown /\ GameOfLastChallenge
    BY DEF Init, GamesKnown, GameOfLastChallenge
  <1> QED BY <1>1, <1>2, <1>3, <1>4 DEF IInv

\* The users of tcpMap are those of their connections.
LEMMA OnlineIsKnown ==
  ASSUME IInv, NEW t \in Online
  PROVE  tcpMap[t] \in User /\ Known(tcpMap[t])
  BY DEF IInv, TypeOK, MapKnown, Known, Online

\* A challenge between two known users leaves them as the next players.
LEMMA ChallengeStep ==
  ASSUME IInv, NEW s \in Online, NEW opp \in User, Known(opp),
         NEW asked \in Name \cup {Nobody}, Challenge(s, opp, asked),
         opp2' = opp2 \/ opp2' = opp
  PROVE  IInv'
  <1>1. tcpMap[s] \in User /\ Known(tcpMap[s]) /\ s \in Socket
    BY OnlineIsKnown DEF Online
  <1> DEFINE c == [by |-> s, from |-> tcpMap[s], to |-> opp, asked |-> asked]
             CT == [by : Socket, from : User, to : User, asked : Name \cup {Nobody}]
  <1>2. c \in CT
    BY <1>1
  <1>3. challenges \in Seq(CT)
    BY DEF IInv, TypeOK
  <1>4. challenges' = Append(challenges, c)
    BY DEF Challenge
  <1>5. UNCHANGED <<users, leftover, hung, games, acceptors>>
    BY DEF Challenge
  <1>6. player1' = tcpMap[s] /\ player2' = opp
    BY DEF Challenge
  <1>7. crashed' \in BOOLEAN
    BY DEF Challenge, WriteTo, IInv, TypeOK, Known
  <1> HIDE DEF c, CT
  <1>8. /\ challenges' \in Seq(CT)
        /\ Len(challenges') = Len(challenges) + 1
        /\ challenges'[Len(challenges')] = c
        /\ \A i \in DOMAIN challenges : i \in DOMAIN challenges' /\ challenges'[i] = challenges[i]
    BY <1>2, <1>3, <1>4
  <1>9. TypeOK'
    BY <1>1, <1>5, <1>6, <1>7, <1>8 DEF IInv, TypeOK, users, Local, CT
  <1>10. MapKnown' /\ GamesKnown'
    BY <1>5 DEF IInv, MapKnown, GamesKnown, Known, Online, users
  <1>11. LocalsKnown'
    BY <1>1, <1>5, <1>6 DEF IInv, LocalsKnown, Known, users
  <1>12. PlayersChallenged'
    <2>1. challenges' # <<>>
      BY <1>3, <1>8
    <2> QED BY <1>6, <1>8, <2>1 DEF PlayersChallenged, c
  <1>13. GameOfLastChallenge'
    BY <1>5, <1>8 DEF IInv, GameOfLastChallenge
  <1> QED BY <1>9, <1>10, <1>11, <1>12, <1>13 DEF IInv

\* So does a game opened with whatever the two locals hold.
LEMMA OpenGameStep ==
  ASSUME IInv, NEW s \in Socket, OpenGameSession(s),
         UNCHANGED <<users, hung, locals, challenges>>,
         leftover' \in [Socket -> Nat], acceptors' \subseteq Socket
  PROVE  IInv'
  <1>1. PICK p1 \in Uninitialised(player1), p2 \in Uninitialised(player2) :
          IF p1 \in User /\ p2 \in User
          THEN /\ games' = Append(games, [p1 |-> p1, p2 |-> p2, by |-> s,
                                         nth |-> Len(challenges)])
               /\ UNCHANGED crashed
          ELSE crashed' = TRUE /\ UNCHANGED games
    BY DEF OpenGameSession
  <1> DEFINE GT == [p1 : User, p2 : User, by : Socket, nth : Nat]
             g == [p1 |-> p1, p2 |-> p2, by |-> s, nth |-> Len(challenges)]
  <1>2. MapKnown' /\ LocalsKnown' /\ PlayersChallenged'
    BY DEF IInv, MapKnown, LocalsKnown, PlayersChallenged, Known, Online, users, locals
  <1>3. CASE p1 \in User /\ p2 \in User
    <2>1. p1 = player1 /\ p2 = player2
      BY <1>3, NoUserIsNoUser DEF Uninitialised
    <2>2. /\ challenges # <<>>
          /\ challenges[Len(challenges)].from = p1
          /\ challenges[Len(challenges)].to = p2
          /\ Known(p1) /\ Known(p2)
      BY <1>3, <2>1 DEF IInv, PlayersChallenged, LocalsKnown
    <2>3. games \in Seq(GT) /\ Len(challenges) \in DOMAIN challenges
      BY <2>2 DEF IInv, TypeOK
    <2>4. g \in GT
      BY <1>3, <2>3 DEF IInv, TypeOK
    <2>5. games' = Append(games, g) /\ UNCHANGED crashed
      BY <1>1, <1>3
    <2>6. /\ g.p1 = p1 /\ g.p2 = p2 /\ g.nth = Len(challenges)
      OBVIOUS
    <2> HIDE DEF g, GT
    <2>7. /\ games' \in Seq(GT)
          /\ \A i \in DOMAIN games' : \/ i \in DOMAIN games /\ games'[i] = games[i]
                                     \/ games'[i] = g
      BY <2>3, <2>4, <2>5
    <2>8. TypeOK'
      BY <2>5, <2>7 DEF IInv, TypeOK, users, locals, GT
    <2>9. GamesKnown'
      BY <2>2, <2>6, <2>7 DEF IInv, GamesKnown, Known, users
    <2>10. GameOfLastChallenge'
      BY <2>2, <2>3, <2>6, <2>7 DEF IInv, GameOfLastChallenge
    <2> QED BY <1>2, <2>8, <2>9, <2>10 DEF IInv
  <1>4. CASE ~(p1 \in User /\ p2 \in User)
    <2>1. crashed' = TRUE /\ UNCHANGED games
      BY <1>1, <1>4
    <2>2. TypeOK'
      BY <2>1 DEF IInv, TypeOK, users, locals
    <2>3. GamesKnown' /\ GameOfLastChallenge'
      BY <2>1 DEF IInv, GamesKnown, GameOfLastChallenge, Known, users
    <2> QED BY <1>2, <2>2, <2>3 DEF IInv
  <1> QED BY <1>3, <1>4

\* A step that touches neither the users nor the players nor the challenges.
LEMMA IdleStep ==
  ASSUME IInv, UNCHANGED <<users, locals, games, challenges>>,
         leftover' \in [Socket -> Nat], hung' \in [Socket -> BOOLEAN],
         crashed' \in BOOLEAN, acceptors' \subseteq Socket
  PROVE  IInv'
  <1>1. TypeOK'
    BY DEF IInv, TypeOK, users, locals
  <1>2. MapKnown' /\ LocalsKnown' /\ PlayersChallenged'
    BY DEF IInv, MapKnown, LocalsKnown, PlayersChallenged, Known, Online, users, locals
  <1>3. GamesKnown' /\ GameOfLastChallenge'
    BY DEF IInv, GamesKnown, GameOfLastChallenge, Known, users
  <1> QED BY <1>1, <1>2, <1>3 DEF IInv

\* Every command, and a client that hangs up, preserves the invariant.
LEMMA NextIInv == IInv /\ [Next]_vars => IInv'
  <1> SUFFICES ASSUME IInv, [Next]_vars PROVE IInv'
    OBVIOUS
  <1>0. TypeOK
    BY DEF IInv
  <1>1. ASSUME NEW s \in Socket, NEW n \in Name, NEW p \in Pass, Register(s, n, p) PROVE IInv'
    <2>1. accounts' \in [Name -> Pass \cup {NoPass}]
          /\ \A m \in Name : accounts[m] # NoPass => accounts'[m] # NoPass
      BY <1>0, <1>1 DEF Register, Users!Register, TypeOK
    <2>2. UNCHANGED <<loggedUsers, tcpMap, leftover, hung, locals, games, crashed, history>>
      BY <1>1 DEF Register
    <2>3. TypeOK'
      BY <1>0, <2>1, <2>2 DEF TypeOK, locals, history
    <2>4. MapKnown'
      BY <2>1, <2>2 DEF IInv, MapKnown, TypeOK, Online, User
    <2>5. LocalsKnown' /\ PlayersChallenged' /\ GamesKnown' /\ GameOfLastChallenge'
      BY <2>2 DEF IInv, LocalsKnown, PlayersChallenged, GamesKnown, GameOfLastChallenge,
         Known, locals, history
    <2> QED BY <2>3, <2>4, <2>5 DEF IInv
  <1>2. ASSUME NEW s \in Socket, NEW n \in Name, NEW p \in Pass, Login(s, n, p) PROVE IInv'
    <2>1. UNCHANGED <<accounts, leftover, hung, locals, games, crashed, history>>
      BY <1>2 DEF Login
    <2>2. /\ loggedUsers' \in Seq(Name)
          /\ \A i \in DOMAIN loggedUsers : i \in DOMAIN loggedUsers'
                                         /\ loggedUsers'[i] = loggedUsers[i]
          /\ \E i \in DOMAIN loggedUsers' : loggedUsers'[i] = n
      <3>1. loggedUsers \in Seq(Name) /\ loggedUsers' = Append(loggedUsers, n)
        BY <1>0, <1>2 DEF Login, TypeOK
      <3>2. /\ loggedUsers' \in Seq(Name)
            /\ DOMAIN loggedUsers' = 1..(Len(loggedUsers) + 1)
            /\ DOMAIN loggedUsers = 1..Len(loggedUsers)
            /\ \A i \in 1..Len(loggedUsers) : loggedUsers'[i] = loggedUsers[i]
            /\ loggedUsers'[Len(loggedUsers) + 1] = n
        BY <3>1
      <3>3. Len(loggedUsers) \in Nat
        BY <3>1
      <3> QED BY <3>2, <3>3
    <2>3. accounts[n] # NoPass
      BY <1>2, MatchConstants DEF Login
    <2>4. /\ tcpMap' \in [Socket -> User \cup {NoUser}]
          /\ \A t \in Socket :
                \/ tcpMap'[t] = tcpMap[t]
                \/ t = s /\ tcpMap[t] = NoUser /\ tcpMap'[t] = [name |-> n, tcp |-> s]
      <3>0. tcpMap \in [Socket -> User \cup {NoUser}]
        BY <1>0 DEF TypeOK
      <3>1. [name |-> n, tcp |-> s] \in User
        BY DEF User
      <3>2. CASE tcpMap[s] = NoUser
        <4>1. tcpMap' = [tcpMap EXCEPT ![s] = [name |-> n, tcp |-> s]]
          BY <1>2, <3>2 DEF Login
        <4> QED BY <3>0, <3>1, <3>2, <4>1
      <3>3. CASE tcpMap[s] # NoUser
        <4>1. tcpMap' = tcpMap
          BY <1>2, <3>3 DEF Login
        <4> QED BY <3>0, <4>1
      <3> QED BY <3>2, <3>3
    <2>5. TypeOK'
      BY <1>0, <2>1, <2>2, <2>4 DEF TypeOK, locals, history
    <2>6. MapKnown'
      <3> SUFFICES ASSUME NEW t \in Online' 
                   PROVE  /\ tcpMap'[t].tcp = t
                          /\ accounts'[tcpMap'[t].name] # NoPass
                          /\ \E i \in DOMAIN loggedUsers' : loggedUsers'[i] = tcpMap'[t].name
        BY DEF MapKnown
      <3>1. t \in Socket
        BY DEF Online
      <3>2. CASE tcpMap'[t] = tcpMap[t]
        BY <2>1, <2>2, <3>1, <3>2 DEF IInv, MapKnown, Online
      <3>3. CASE t = s /\ tcpMap'[t] = [name |-> n, tcp |-> s]
        BY <2>1, <2>2, <2>3, <3>3
      <3> QED BY <2>4, <3>1, <3>2, <3>3
    <2>7. \A u \in User : Known(u) => Known(u)'
      BY <2>4, NoUserIsNoUser DEF Known
    <2>8. LocalsKnown' /\ PlayersChallenged' /\ GameOfLastChallenge'
      BY <2>1, <2>7 DEF IInv, LocalsKnown, PlayersChallenged, GameOfLastChallenge, locals, history
    <2>9. GamesKnown'
      <3>1. \A i \in DOMAIN games : games[i].p1 \in User /\ games[i].p2 \in User
        <4> DEFINE GT == [p1 : User, p2 : User, by : Socket, nth : Nat]
        <4>1. games \in Seq(GT)
          BY <1>0 DEF TypeOK
        <4>2. \A g \in GT : g.p1 \in User /\ g.p2 \in User
          OBVIOUS
        <4> HIDE DEF GT
        <4>3. \A i \in DOMAIN games : games[i] \in GT
          BY <4>1
        <4> QED BY <4>2, <4>3
      <3>2. games' = games
        BY <2>1
      <3>3. \A i \in DOMAIN games : Known(games[i].p1) /\ Known(games[i].p2)
        BY DEF IInv, GamesKnown
      <3>4. \A u \in User : Known(u) => u.tcp \in Socket /\ tcpMap'[u.tcp] = u
        BY <2>7 DEF Known
      <3>5. \A i \in DOMAIN games' : /\ games'[i].p1.tcp \in Socket
                                    /\ tcpMap'[games'[i].p1.tcp] = games'[i].p1
                                    /\ games'[i].p2.tcp \in Socket
                                    /\ tcpMap'[games'[i].p2.tcp] = games'[i].p2
        BY <3>1, <3>2, <3>3, <3>4
      <3> QED BY <3>5 DEF GamesKnown, Known
    <2> QED BY <2>5, <2>6, <2>8, <2>9 DEF IInv
  <1>3. ASSUME NEW s \in Socket, ShowUsers(s) PROVE IInv'
    <2>1. crashed' \in BOOLEAN
      BY <1>0, <1>3 DEF ShowUsers, PrintLoggedUsers, WriteTo, TypeOK
    <2> QED BY <1>0, <1>3, <2>1, IdleStep DEF ShowUsers, PrintLoggedUsers, TypeOK
  <1>4. ASSUME NEW s \in Socket, OpenMatchRandom(s) PROVE IInv'
    <2>1. s \in Online
      BY <1>4 DEF OpenMatchRandom, getUserFromTCPMap, Online
    <2>2. PICK opp \in RandomOpponents(s) : Challenge(s, opp, Nobody)
      BY <1>4 DEF OpenMatchRandom
    <2>3. opp \in User /\ Known(opp)
      BY <2>1, RandomIsOnline, OnlineIsKnown
    <2>4. opp2' = opp2
      BY <1>4 DEF OpenMatchRandom
    <2> QED BY <2>1, <2>2, <2>3, <2>4, ChallengeStep
  <1>5. ASSUME NEW s \in Socket, NEW n \in Name, OpenMatchWithUser(s, n) PROVE IInv'
    <2>1. s \in Online
      BY <1>5 DEF OpenMatchWithUser, getUserFromTCPMap, Online
    <2>2. PICK opp \in NamedOpponents(n) :
             \/ UNCHANGED vars
             \/ Crash
             \/ opp \in User /\ opp2' = opp /\ Challenge(s, opp, n)
      BY <1>5 DEF OpenMatchWithUser
    <2>3. CASE UNCHANGED vars
      BY <1>0, <2>3, IdleStep DEF vars, history, TypeOK
    <2>4. CASE Crash
      BY <1>0, <2>4, IdleStep DEF Crash, history, TypeOK
    <2>5. CASE opp \in User /\ opp2' = opp /\ Challenge(s, opp, n)
      <3>1. CASE Named(n) # {}
        <4>1. Known(opp)
          BY <3>1, NamedIsOnline, OnlineIsKnown
        <4> QED BY <2>1, <2>5, <4>1, ChallengeStep
      <3>2. CASE Named(n) = {}
        <4>1. opp = opp2
          BY <2>5, <3>2, NoUserIsNoUser DEF NamedOpponents, Uninitialised
        <4>2. Known(opp)
          BY <2>5, <4>1 DEF IInv, LocalsKnown
        <4> QED BY <2>1, <2>5, <4>2, ChallengeStep
      <3> QED BY <3>1, <3>2
    <2> QED BY <2>2, <2>3, <2>4, <2>5
  <1>6. ASSUME NEW s \in Socket, NEW n \in Name, OpenMatchStranger(s, n) PROVE IInv'
    <2>1. leftover' \in [Socket -> Nat]
      BY <1>0, <1>6, MatchConstants DEF OpenMatchStranger, TypeOK
    <2> QED BY <1>0, <1>6, <2>1, IdleStep DEF OpenMatchStranger, history, TypeOK
  <1>7. ASSUME NEW s \in Socket, AcceptMatch(s) PROVE IInv'
    BY <1>0, <1>7, OpenGameStep DEF AcceptMatch, TypeOK
  <1>8. ASSUME NEW s \in Socket, DeclineMatch(s) PROVE IInv'
    <2>1. Refuse(s)
      BY <1>8 DEF DeclineMatch
    <2>2. crashed' \in BOOLEAN
      BY <1>0, <2>1 DEF Refuse, WriteTo, TypeOK
    <2> QED BY <1>0, <1>8, <2>2, IdleStep DEF DeclineMatch, Refuse, TypeOK
  <1>9. ASSUME NEW s \in Socket, Leftover(s) PROVE IInv'
    <2>1. /\ leftover' \in [Socket -> Nat]
          /\ UNCHANGED <<users, hung, locals, challenges, acceptors>>
      BY <1>0, <1>9 DEF Leftover, TypeOK
    <2>2. CASE PrintLoggedUsers(s)
      <3>1. crashed' \in BOOLEAN
        BY <1>0, <2>2 DEF PrintLoggedUsers, WriteTo, TypeOK
      <3> QED BY <1>0, <2>1, <2>2, <3>1, IdleStep DEF PrintLoggedUsers, TypeOK
    <2>3. CASE OpenGameSession(s)
      BY <1>0, <2>1, <2>3, OpenGameStep DEF TypeOK
    <2>4. CASE Refuse(s)
      <3>1. crashed' \in BOOLEAN
        BY <1>0, <2>4 DEF Refuse, WriteTo, TypeOK
      <3> QED BY <1>0, <2>1, <2>4, <3>1, IdleStep DEF Refuse, TypeOK
    <2>5. CASE UNCHANGED <<games, crashed>>
      BY <1>0, <2>1, <2>5, IdleStep DEF TypeOK
    <2> QED BY <1>9, <2>2, <2>3, <2>4, <2>5 DEF Leftover
  <1>10. ASSUME NEW s \in Socket, HangUp(s) PROVE IInv'
    <2>1. hung' \in [Socket -> BOOLEAN]
      BY <1>0, <1>10 DEF HangUp, TypeOK
    <2> QED BY <1>0, <1>10, <2>1, IdleStep DEF HangUp, history, TypeOK
  <1>11. CASE UNCHANGED vars
    BY <1>0, <1>11, IdleStep DEF vars, history, TypeOK
  <1> QED
    BY <1>1, <1>2, <1>3, <1>4, <1>5, <1>6, <1>7, <1>8, <1>9, <1>10, <1>11
    DEF Next, Command

-----------------------------------------------------------------------------
\* The invariant holds of every state the server reaches.
THEOREM Invariance == Spec => []IInv
  <1> QED BY InitIInv, NextIInv, PTL DEF Spec

\* Type correctness.
THEOREM TypeCorrect == Spec => []TypeOK
  <1>1. IInv => TypeOK
    BY DEF IInv
  <1> QED BY <1>1, Invariance, PTL

\* Whatever the uninitialised locals hold, a game pairs the two users of the
\* last challenge.
THEOREM GamesAreChallenged == Spec => []GameOfLastChallenge
  <1>1. IInv => GameOfLastChallenge
    BY DEF IInv
  <1> QED BY <1>1, Invariance, PTL

\* Whoever is online or plays has registered and logged in.
THEOREM PlayersAreLoggedIn == Spec => []PlayersLoggedIn
  <1>1. IInv => PlayersLoggedIn
    BY DEF IInv, MapKnown, GamesKnown, PlayersLoggedIn, Known
  <1> QED BY <1>1, Invariance, PTL

\* The search of OPEN_MATCH_WITH_USER assigns opp2 if anyone has the name.
LEMMA NamedStep ==
  ASSUME IInv, [Next]_vars, NEW n \in Name, Named(n) # {},
         Len(challenges') > Len(challenges),
         challenges'[Len(challenges')].asked = n
  PROVE  challenges'[Len(challenges')].to.name = n
  <1> DEFINE CT == [by : Socket, from : User, to : User, asked : Name \cup {Nobody}]
  <1>1. challenges \in Seq(CT) /\ Len(challenges) \in Nat
    BY DEF IInv, TypeOK
  <1>2. challenges' # challenges
    BY <1>1
  <1>3. ASSUME NEW s \in Online, NEW opp \in User, NEW asked, Challenge(s, opp, asked)
        PROVE  /\ challenges'[Len(challenges')].asked = asked
               /\ challenges'[Len(challenges')].to = opp
    <2> DEFINE c == [by |-> s, from |-> tcpMap[s], to |-> opp, asked |-> asked]
    <2>1. challenges' = Append(challenges, c)
      BY <1>3 DEF Challenge
    <2>2. c.asked = asked /\ c.to = opp
      OBVIOUS
    <2> HIDE DEF c, CT
    <2>3. challenges'[Len(challenges')] = c
      BY <1>1, <2>1
    <2> QED BY <2>2, <2>3
  <1>4. ASSUME NEW s \in Socket, OpenMatchRandom(s) PROVE FALSE
    <2>1. s \in Online
      BY <1>4 DEF OpenMatchRandom, getUserFromTCPMap, Online
    <2>2. PICK opp \in RandomOpponents(s) : Challenge(s, opp, Nobody)
      BY <1>4 DEF OpenMatchRandom
    <2>3. opp \in User
      BY <2>1, RandomIsOnline, OnlineIsKnown
    <2>4. challenges'[Len(challenges')].asked = Nobody
      BY <1>3, <2>1, <2>2, <2>3
    <2> QED BY <2>4, MatchConstants
  <1>5. ASSUME NEW s \in Socket, NEW m \in Name, OpenMatchWithUser(s, m)
        PROVE  challenges'[Len(challenges')].to.name = n
    <2>1. s \in Online
      BY <1>5 DEF OpenMatchWithUser, getUserFromTCPMap, Online
    <2>2. PICK opp \in NamedOpponents(m) :
             \/ UNCHANGED vars
             \/ Crash
             \/ opp \in User /\ Challenge(s, opp, m)
      BY <1>5 DEF OpenMatchWithUser
    <2>3. opp \in User /\ Challenge(s, opp, m)
      BY <1>2, <2>2 DEF Crash, vars, history
    <2>4. /\ challenges'[Len(challenges')].asked = m
          /\ challenges'[Len(challenges')].to = opp
      BY <1>3, <2>1, <2>3
    <2>5. opp.name = n
      BY <2>4, NamedIsOnline
    <2> QED BY <2>4, <2>5
  <1>6. ASSUME NEW s \in Socket,
               \/ ShowUsers(s) \/ AcceptMatch(s) \/ DeclineMatch(s)
               \/ Leftover(s) \/ HangUp(s)
               \/ \E m \in Name : OpenMatchStranger(s, m)
               \/ \E m \in Name, p \in Pass : Register(s, m, p) \/ Login(s, m, p)
        PROVE  UNCHANGED challenges
    BY <1>6 DEF ShowUsers, AcceptMatch, DeclineMatch, Leftover, HangUp, OpenMatchStranger,
       Register, Login, history
  <1>7. ~UNCHANGED vars
    BY <1>2 DEF vars, history
  <1> QED BY <1>2, <1>4, <1>5, <1>6, <1>7 DEF Next, Command

\* Whatever opp2 holds, a user who is online is found by his name.
THEOREM NamedIsFound == Spec => NamedIsChallenged
  <1> DEFINE Found ==
          \A n \in Name : Named(n) # {} /\ Len(challenges') > Len(challenges) =>
            LET c == challenges'[Len(challenges')] IN c.asked = n => c.to.name = n
  <1>1. IInv /\ [Next]_vars => [Found]_vars
    BY NamedStep
  <1> QED BY <1>1, Invariance, PTL DEF Spec, NamedIsChallenged
=============================================================================

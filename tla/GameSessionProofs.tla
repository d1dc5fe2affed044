-------------------------- MODULE GameSessionProofs --------------------------
(***************************************************************************)
(* What is proved of GameSession for any number of challenges and games,   *)
(* any ports and any number of lost datagrams.                             *)
(***************************************************************************)
EXTENDS GameSession, FiniteSetTheorems, SequenceTheorems, TLAPS

-----------------------------------------------------------------------------
(* Counting threads *)

Threads(k, place) == {g \in DOMAIN games : games[g].of = k /\ games[g].at = place}

\* The number of threads at a place is a number.
LEMMA GamesAtNat ==
  ASSUME Types, NEW k, NEW place
  PROVE  /\ IsFiniteSet(Threads(k, place))
         /\ GamesAt(k, place) = Cardinality(Threads(k, place))
         /\ GamesAt(k, place) \in Nat
  <1>1. IsFiniteSet(1..Len(games))
    BY FS_Interval DEF Types
  <1>2. Threads(k, place) \in SUBSET (1..Len(games))
    BY DEF Threads, Types
  <1>3. IsFiniteSet(Threads(k, place))
    BY <1>1, <1>2, FS_Subset
  <1>4. GamesAt(k, place) = Cardinality(Threads(k, place))
    BY DEF GamesAt, Threads
  <1> QED BY <1>3, <1>4, FS_CardinalityType

\* Thread g of challenge c has gone from one place to the other.
Moved(g, c, from, to) ==
    /\ g \in DOMAIN games /\ games[g].of = c /\ games[g].at = from /\ c \in Challenge
    /\ games' \in Seq([of : Challenge, at : Places])
    /\ DOMAIN games' = DOMAIN games
    /\ \A h \in DOMAIN games : games'[h].of = games[h].of
    /\ \A h \in DOMAIN games \ {g} : games'[h] = games[h]
    /\ games'[g].at = to
    /\ \A k, place : k # c \/ place \notin {from, to} =>
           GamesAt(k, place)' = GamesAt(k, place)
    /\ GamesAt(c, to)' = GamesAt(c, to) + 1
    /\ GamesAt(c, from)' = GamesAt(c, from) - 1

\* A step of a thread takes it from one place and adds it to another.
LEMMA StepMoves ==
  ASSUME Types, NEW g, NEW from \in Places, NEW to \in Places, from # to, Step(g, from, to),
         NEW c, c = games[g].of
  PROVE  Moved(g, c, from, to)
  <1>1. games \in Seq([of : Challenge, at : Places])
    BY DEF Types
  <1>0. DOMAIN games = 1..Len(games) /\ g \in DOMAIN games /\ games[g].at = from
    BY <1>1, LenProperties DEF Step
  <1>2. g \in 1..Len(games) /\ games[g].of = c /\ games[g] \in [of : Challenge, at : Places] /\ games[g].at = from
    BY <1>0, <1>1, ElementOfSeq
  <1>3. games' = [games EXCEPT ![g] = [games[g] EXCEPT !.at = to]]
    BY DEF Step
  <1>4. [games[g] EXCEPT !.at = to] \in [of : Challenge, at : Places]
    BY <1>2
  <1>5. /\ games' \in Seq([of : Challenge, at : Places])
        /\ Len(games') = Len(games)
        /\ \A h \in 1..Len(games) : games'[h] = IF h = g THEN [games[g] EXCEPT !.at = to] ELSE games[h]
    BY <1>1, <1>2, <1>3, <1>4, ExceptSeq
  <1>6. DOMAIN games' = DOMAIN games /\ DOMAIN games = 1..Len(games)
    BY <1>1, <1>5
  <1>7. /\ \A h \in DOMAIN games : games'[h].of = games[h].of
        /\ \A h \in DOMAIN games \ {g} : games'[h] = games[h]
        /\ games'[g].at = to
    BY <1>2, <1>5, <1>6
  <1>8. \A k, place : /\ GamesAt(k, place) = Cardinality(Threads(k, place))
                      /\ GamesAt(k, place)' = Cardinality(Threads(k, place)')
                      /\ IsFiniteSet(Threads(k, place))
    BY GamesAtNat DEF GamesAt, Threads
  <1>9. ASSUME NEW k, NEW place, k # c \/ place \notin {from, to}
        PROVE  GamesAt(k, place)' = GamesAt(k, place)
    <2>1. Threads(k, place)' = Threads(k, place)
      BY <1>2, <1>6, <1>7, <1>9 DEF Threads
    <2> QED BY <1>8, <2>1
  <1>10. GamesAt(c, to)' = GamesAt(c, to) + 1
    <2>1. Threads(c, to)' = Threads(c, to) \cup {g} /\ g \notin Threads(c, to)
      BY <1>2, <1>6, <1>7 DEF Threads
    <2> QED BY <1>8, <2>1, FS_AddElement
  <1>11. GamesAt(c, from)' = GamesAt(c, from) - 1
    <2>1. Threads(c, from)' = Threads(c, from) \ {g} /\ g \in Threads(c, from)
      BY <1>2, <1>6, <1>7 DEF Threads
    <2> QED BY <1>8, <2>1, FS_RemoveElement
  <1> QED BY <1>2, <1>5, <1>6, <1>7, <1>9, <1>10, <1>11 DEF Moved

-----------------------------------------------------------------------------
(* The inductive invariant: a socket nobody has challenged for is untouched; *)
(* what waits at a callee, and whom it heard last, was sent to its port;     *)
(* and what was heard and not yet answered is what threads are about to      *)
(* answer.                                                                   *)

Fresh ==
    \A k \in Challenge \ Made :
        /\ greetings[k] = <<>> /\ remote[k] = None /\ answers[k] = 0
        /\ heard[k] = 0 /\ answered[k] = 0

Addressed ==
    \A k \in Made :
        /\ \A i \in DOMAIN greetings[k] :
              greetings[k][i] \in Made /\ ports[greetings[k][i]] = ports[k]
        /\ remote[k] # None => remote[k] \in Made /\ ports[remote[k]] = ports[k]

Opened ==
    \A g \in DOMAIN games :
        /\ games[g].of \in Made
        /\ peer[games[g].of] = ports[games[g].of]
        /\ games[g].at = "reply" => remote[games[g].of] # None

Counted == \A k \in Made : ~Shared(k) => heard[k] = answered[k] + GamesAt(k, "reply")

IInv == Types /\ Fresh /\ Addressed /\ Opened /\ Counted /\ Balanced

\* The challenges made are among those there may be.
LEMMA MadeChallenges ==
  ASSUME Types
  PROVE  Made \subseteq Challenge /\ DOMAIN ports = Made /\ Len(ports) \in Nat
         /\ \A k \in Made : ports[k] \in Port
  BY GameConstants DEF Types, Made, Challenge

\* The server starts in the invariant.
LEMMA InitIInv == Init => IInv
  <1> SUFFICES ASSUME Init PROVE IInv
    OBVIOUS
  <1>1. Types
    BY GameConstants DEF Init, Types, Challenge
  <1>2. Made = {}
    BY DEF Init, Made
  <1>3. Fresh
    BY DEF Init, Fresh
  <1>4. DOMAIN games = {}
    BY DEF Init
  <1> QED BY <1>1, <1>2, <1>3, <1>4 DEF IInv, Addressed, Opened, Counted, Balanced

\* A new challenge is counted from nothing, and may only make others shared.
LEMMA SetUdpIInv ==
  ASSUME IInv, NEW p \in Port, SetUdp(p)
  PROVE  IInv'
  <1> DEFINE n == Len(ports) + 1
  <1>1. /\ ports' = Append(ports, p) /\ ports \in Seq(Port) /\ Len(ports) \in Nat
        /\ Len(ports) < MaxChallenges
        /\ UNCHANGED <<peer, greetings, remote, answers, games, heard, answered, lost>>
    BY DEF SetUdp, IInv, Types, history
  <1>2. /\ ports' \in Seq(Port) /\ Len(ports') = n /\ ports'[n] = p
        /\ \A k \in 1..Len(ports) : ports'[k] = ports[k]
    BY <1>1
  <1>3. Made' = Made \cup {n} /\ n \in Challenge \ Made /\ Made \subseteq Challenge
    BY <1>1, <1>2, GameConstants DEF Made, Challenge
  <1>4. \A k \in Made : ports'[k] = ports[k]
    BY <1>2 DEF Made
  <1>5. \A k \in Made : Shared(k) => Shared(k)'
    BY <1>3, <1>4 DEF Shared
  <1>6. \A k, place : GamesAt(k, place)' = GamesAt(k, place)
    BY <1>1 DEF GamesAt
  <1>7. \A k \in Made : Bound(k)' = Bound(k)
    BY <1>4 DEF Bound
  <1>8. \A place : GamesAt(n, place) = 0
    <2>1. SUFFICES ASSUME NEW place PROVE Cardinality(Threads(n, place)) = 0
      BY GamesAtNat DEF IInv
    <2>2. Threads(n, place) = {}
      BY <1>3 DEF IInv, Opened, Threads
    <2> QED BY <2>2, FS_EmptySet
  <1>9. Types'
    <2>1. Len(ports') <= MaxChallenges
      BY <1>1, <1>2, GameConstants
    <2> QED BY <1>1, <1>2, <2>1 DEF IInv, Types
  <1>10. Fresh'
    BY <1>1, <1>3 DEF IInv, Fresh
  <1>11. /\ greetings[n] = <<>> /\ remote[n] = None /\ answers[n] = 0
         /\ heard[n] = 0 /\ answered[n] = 0
    BY <1>3 DEF IInv, Fresh
  <1>12. Addressed'
    <2>1. ASSUME NEW k \in Made PROVE
            /\ \A i \in DOMAIN greetings[k] :
                 greetings[k][i] \in Made' /\ ports'[greetings[k][i]] = ports'[k]
            /\ remote[k] # None => remote[k] \in Made' /\ ports'[remote[k]] = ports'[k]
      BY <1>3, <1>4 DEF IInv, Addressed
    <2>2. DOMAIN greetings[n] = {}
      BY <1>11
    <2> QED BY <1>1, <1>3, <1>11, <2>1, <2>2 DEF Addressed
  <1>13. Opened'
    BY <1>1, <1>3, <1>4 DEF IInv, Opened
  <1>14. Counted'
    <2>1. \A k \in Made : ~Shared(k)' => heard[k] = answered[k] + GamesAt(k, "reply")
      BY <1>5 DEF IInv, Counted
    <2> QED BY <1>1, <1>3, <1>6, <1>8, <1>11, <2>1 DEF Counted
  <1>15. Balanced'
    <2>1. ASSUME NEW k \in Made, ~Shared(k)', k \notin lost, Bound(k)'
          PROVE  Len(greetings[k]) = GamesAt(k, "hear") /\ answers[k] = GamesAt(k, "await")
      BY <1>5, <1>7, <2>1 DEF IInv, Balanced
    <2>2. Len(greetings[n]) = 0
      BY <1>11
    <2> QED BY <1>1, <1>3, <1>6, <1>8, <1>11, <2>1, <2>2 DEF Balanced
  <1> QED BY <1>9, <1>10, <1>12, <1>13, <1>14, <1>15 DEF IInv

\* A new game has its thread before the greeting.
LEMMA OpenGameIInv ==
  ASSUME IInv, OpenGame
  PROVE  IInv'
  <1> DEFINE k0 == Len(ports)
             new == [of |-> k0, at |-> "write"]
  <1>1. /\ k0 \in Made /\ k0 \in Challenge /\ ports[k0] \in Port
        /\ peer' = [peer EXCEPT ![k0] = ports[k0]]
        /\ games' = Append(games, new)
        /\ UNCHANGED <<ports, greetings, remote, answers, heard, answered, lost>>
    BY MadeChallenges DEF OpenGame, IInv, Made, history
  <1>2. games \in Seq([of : Challenge, at : Places]) /\ new \in [of : Challenge, at : Places]
    BY <1>1 DEF IInv, Types, Places
  <1>3. /\ games' \in Seq([of : Challenge, at : Places])
        /\ DOMAIN games = 1..Len(games) /\ DOMAIN games' = 1..(Len(games) + 1)
        /\ Len(games) \in Nat
        /\ \A g \in DOMAIN games : games'[g] = games[g]
        /\ games'[Len(games) + 1] = new
    BY <1>1, <1>2
  <1>4. \A k, place : place # "write" => GamesAt(k, place)' = GamesAt(k, place)
    <2>1. ASSUME NEW k, NEW place, place # "write" PROVE Threads(k, place)' = Threads(k, place)
      BY <1>3, <2>1 DEF Threads
    <2>2. \A k, place : /\ GamesAt(k, place) = Cardinality(Threads(k, place))
                        /\ GamesAt(k, place)' = Cardinality(Threads(k, place)')
      BY DEF GamesAt, Threads
    <2> QED BY <2>1, <2>2
  <1>5. peer' \in [Challenge -> Port \cup {None}] /\ peer'[k0] = ports[k0]
        /\ \A k \in Challenge : k # k0 => peer'[k] = peer[k]
    BY <1>1 DEF IInv, Types
  <1>6. Types'
    BY <1>1, <1>3, <1>5 DEF IInv, Types
  <1>7. Made' = Made /\ (\A k : Shared(k)' = Shared(k)) /\ (\A k : Bound(k)' = Bound(k))
    BY <1>1 DEF Made, Shared, Bound
  <1>8. Fresh' /\ Addressed'
    BY <1>1, <1>7 DEF IInv, Fresh, Addressed
  <1>9. Opened'
    <2>1. ASSUME NEW g \in DOMAIN games
          PROVE  /\ games[g].of \in Made /\ peer'[games[g].of] = ports[games[g].of]
                 /\ games[g].at = "reply" => remote[games[g].of] # None
      BY <1>5, MadeChallenges DEF IInv, Opened
    <2> QED BY <1>1, <1>3, <1>5, <1>7, <2>1 DEF Opened
  <1>10. Counted' /\ Balanced'
    BY <1>1, <1>4, <1>7 DEF IInv, Counted, Balanced
  <1> QED BY <1>6, <1>8, <1>9, <1>10 DEF IInv

\* The steps of a game leave the challenges as they are.
LEMMA StepFrame ==
  ASSUME NEW g, NEW from, NEW to, Step(g, from, to)
  PROVE  /\ UNCHANGED <<ports, peer>>
         /\ Made' = Made
         /\ \A k : Shared(k)' = Shared(k)
         /\ \A k : Bound(k)' = Bound(k)
  BY DEF Step, Made, Shared, Bound

\* The thread of a game knows its two sockets, and they agree on the port.
LEMMA ThreadSockets ==
  ASSUME IInv, NEW g \in DOMAIN games
  PROVE  LET k == games[g].of IN
         /\ k \in Made /\ k \in Challenge /\ peer[k] = ports[k] /\ ports[k] \in Port
         /\ games[g].at = "reply" =>
              /\ remote[k] \in Made /\ ports[remote[k]] = ports[k]
              /\ ~Shared(k) => remote[k] = k
  <1>1. games[g].of \in Made /\ peer[games[g].of] = ports[games[g].of]
        /\ (games[g].at = "reply" => remote[games[g].of] # None)
    BY DEF IInv, Opened
  <1>2. games[g].at = "reply" => remote[games[g].of] \in Made /\ ports[remote[games[g].of]] = ports[games[g].of]
    BY <1>1 DEF IInv, Addressed
  <1>3. \A k, j \in Made : ~Shared(k) /\ ports[j] = ports[k] => j = k
    BY DEF Shared
  <1> QED BY <1>1, <1>2, <1>3, MadeChallenges DEF IInv

\* A greeting reaches a callee of the caller's port, or nobody; the caller's
\* own callee, if nobody shares the port and nothing is lost.
LEMMA WriteEffect ==
  ASSUME IInv, NEW k0 \in Made, peer[k0] = ports[k0], Write(k0)
  PROVE  /\ greetings' \in [Challenge -> Seq(Challenge)]
         /\ lost' \subseteq Challenge /\ lost \subseteq lost'
         /\ \A k \in Challenge \ Made : greetings'[k] = greetings[k]
         /\ \A k \in Made : \A i \in DOMAIN greetings'[k] :
                greetings'[k][i] \in Made /\ ports[greetings'[k][i]] = ports[k]
         /\ \A k \in Made : ~Shared(k) /\ k # k0 => greetings'[k] = greetings[k]
         /\ ~Shared(k0) /\ Bound(k0) /\ k0 \notin lost' =>
                Len(greetings'[k0]) = Len(greetings[k0]) + 1
  <1>1. /\ greetings \in [Challenge -> Seq(Challenge)] /\ lost \subseteq Challenge
        /\ Made \subseteq Challenge
    BY MadeChallenges DEF IInv, Types
  <1>2. \A k \in Made : \A i \in DOMAIN greetings[k] :
            greetings[k][i] \in Made /\ ports[greetings[k][i]] = ports[k]
    BY DEF IInv, Addressed
  <1>3. \A k, j \in Made : ~Shared(k) /\ ports[j] = ports[k] => j = k
    BY DEF Shared
  <1>4. ASSUME NEW j \in Receiver(peer[k0]), greetings' = [greetings EXCEPT ![j] = Append(@, k0)],
               lost' = lost
        PROVE  /\ greetings' \in [Challenge -> Seq(Challenge)]
               /\ \A k \in Challenge \ Made : greetings'[k] = greetings[k]
               /\ \A k \in Made : \A i \in DOMAIN greetings'[k] :
                      greetings'[k][i] \in Made /\ ports[greetings'[k][i]] = ports[k]
               /\ \A k \in Made : ~Shared(k) /\ k # k0 => greetings'[k] = greetings[k]
               /\ ~Shared(k0) => Len(greetings'[k0]) = Len(greetings[k0]) + 1
    <2>1. j \in Made /\ ports[j] = ports[k0] /\ j \in Challenge /\ k0 \in Challenge
      BY <1>1 DEF Receiver
    <2> DEFINE old == greetings[j]
               new == Append(old, k0)
    <2>2. old \in Seq(Challenge)
      BY <1>1, <2>1
    <2> HIDE DEF old
    <2>3. /\ new \in Seq(Challenge) /\ Len(new) = Len(old) + 1 /\ Len(old) \in Nat
          /\ DOMAIN new = 1..(Len(old) + 1) /\ DOMAIN old = 1..Len(old)
          /\ \A i \in 1..Len(old) : new[i] = old[i]
          /\ new[Len(old) + 1] = k0
      BY <2>1, <2>2
    <2> HIDE DEF new
    <2>4. greetings' \in [Challenge -> Seq(Challenge)] /\ greetings'[j] = new
          /\ \A k \in Challenge : k # j => greetings'[k] = greetings[k]
      BY <1>1, <1>4, <2>1, <2>3 DEF new, old
    <2>5. \A i \in DOMAIN new : new[i] \in Made /\ ports[new[i]] = ports[j]
      <3>1. \A i \in DOMAIN old : old[i] \in Made /\ ports[old[i]] = ports[j]
        BY <1>2, <2>1 DEF old
      <3> QED BY <2>1, <2>3, <3>1
    <2>6. \A k \in Made : \A i \in DOMAIN greetings'[k] :
              greetings'[k][i] \in Made /\ ports[greetings'[k][i]] = ports[k]
      <3>1. ASSUME NEW k \in Made PROVE
                \A i \in DOMAIN greetings'[k] :
                    greetings'[k][i] \in Made /\ ports[greetings'[k][i]] = ports[k]
        <4>1. CASE k = j
          BY <2>4, <2>5, <4>1
        <4>2. CASE k # j
          <5>1. greetings'[k] = greetings[k]
            BY <1>1, <2>4, <4>2
          <5> QED BY <1>2, <5>1
        <4> QED BY <4>1, <4>2
      <3> QED BY <3>1
    <2>7. ~Shared(k0) => j = k0
      BY <1>3, <2>1
    <2>8. \A k \in Made : ~Shared(k) /\ k # k0 => k # j
      BY <1>3, <2>1
    <2> QED BY <1>1, <2>1, <2>3, <2>4, <2>6, <2>7, <2>8 DEF old
  <1>5. ~Shared(k0) /\ Bound(k0) => Receiver(peer[k0]) # {}
    <2>1. ASSUME ~Shared(k0), Bound(k0) PROVE k0 \in Receiver(peer[k0])
      <3>1. k0 <= k0
        BY MadeChallenges DEF IInv, Made
      <3> QED BY <1>3, <2>1, <3>1 DEF Receiver
    <2> QED BY <2>1
  <1>6. CASE Receiver(peer[k0]) = {} /\ UNCHANGED <<greetings, lost>>
    BY <1>1, <1>2, <1>5, <1>6
  <1>7. CASE lost' = lost \cup {k0} /\ UNCHANGED greetings
    BY <1>1, <1>2, <1>7
  <1> QED BY <1>1, <1>4, <1>6, <1>7 DEF Write

\* The greeting reaches a callee of the same port, or nobody.
LEMMA GreetIInv ==
  ASSUME IInv, NEW g, Greet(g)
  PROVE  IInv'
  <1>0. PICK k0 : k0 = games[g].of
    OBVIOUS
  <1>1. Step(g, "write", "hear") /\ Write(k0)
        /\ UNCHANGED <<remote, answers, heard, answered>>
    BY <1>0 DEF Greet
  <1>2. "write" \in Places /\ "hear" \in Places
    BY DEF Places
  <1>3. Types
    BY DEF IInv
  <1>4. Moved(g, k0, "write", "hear")
    BY <1>0, <1>1, <1>2, <1>3, StepMoves
  <1>5. /\ UNCHANGED <<ports, peer>> /\ Made' = Made
        /\ \A k : Shared(k)' = Shared(k)
        /\ \A k : Bound(k)' = Bound(k)
    BY <1>1, StepFrame
  <1>6. k0 \in Made /\ k0 \in Challenge /\ peer[k0] = ports[k0] /\ ports[k0] \in Port
    BY <1>4, ThreadSockets DEF Moved
  <1>7. /\ greetings' \in [Challenge -> Seq(Challenge)]
        /\ lost' \subseteq Challenge /\ lost \subseteq lost'
        /\ \A k \in Challenge \ Made : greetings'[k] = greetings[k]
        /\ \A k \in Made : \A i \in DOMAIN greetings'[k] :
               greetings'[k][i] \in Made /\ ports[greetings'[k][i]] = ports[k]
        /\ \A k \in Made : ~Shared(k) /\ k # k0 => greetings'[k] = greetings[k]
        /\ ~Shared(k0) /\ Bound(k0) /\ k0 \notin lost' =>
               Len(greetings'[k0]) = Len(greetings[k0]) + 1
    BY <1>1, <1>6, WriteEffect
  <1>8. Types'
    BY <1>1, <1>4, <1>5, <1>7 DEF Moved, IInv, Types
  <1>9. Fresh' /\ Addressed'
    BY <1>1, <1>5, <1>7 DEF IInv, Fresh, Addressed
  <1>10. Opened'
    BY <1>1, <1>4, <1>5 DEF Moved, IInv, Opened
  <1>11. Counted'
    <2>1. \A k : GamesAt(k, "reply")' = GamesAt(k, "reply")
      BY <1>4 DEF Moved
    <2> QED BY <1>1, <1>5, <2>1 DEF IInv, Counted
  <1>12. Balanced'
    <2>1. ASSUME NEW k \in Made, ~Shared(k), k \notin lost', Bound(k)
          PROVE  Len(greetings'[k]) = GamesAt(k, "hear")' /\ answers'[k] = GamesAt(k, "await")'
      <3>1. Len(greetings[k]) = GamesAt(k, "hear") /\ answers[k] = GamesAt(k, "await")
        BY <1>7, <2>1 DEF IInv, Balanced
      <3>2. GamesAt(k, "await")' = GamesAt(k, "await")
        BY <1>4 DEF Moved
      <3>3. CASE k = k0
        <4>1. GamesAt(k, "hear")' = GamesAt(k, "hear") + 1
          BY <1>4, <3>3 DEF Moved
        <4>2. Len(greetings'[k]) = Len(greetings[k]) + 1
          BY <1>7, <2>1, <3>3
        <4> QED BY <1>1, <3>1, <3>2, <4>1, <4>2
      <3>4. CASE k # k0
        <4>1. GamesAt(k, "hear")' = GamesAt(k, "hear")
          BY <1>4, <3>4 DEF Moved
        <4>2. greetings'[k] = greetings[k]
          BY <1>7, <2>1, <3>4
        <4> QED BY <1>1, <3>1, <3>2, <4>1, <4>2
      <3> QED BY <3>3, <3>4
    <2> QED BY <1>5, <2>1 DEF Balanced
  <1> QED BY <1>8, <1>9, <1>10, <1>11, <1>12 DEF IInv

\* What is heard is counted, and to be answered.
LEMMA HearIInv ==
  ASSUME IInv, NEW g, Hear(g)
  PROVE  IInv'
  <1>0. PICK k0 : k0 = games[g].of
    OBVIOUS
  <1> DEFINE h == Head(greetings[k0])
  <1>1. /\ Step(g, "hear", "reply")
        /\ greetings[k0] # <<>>
        /\ greetings' = [greetings EXCEPT ![k0] = Tail(@)]
        /\ remote' = [remote EXCEPT ![k0] = h]
        /\ heard' = [heard EXCEPT ![h] = @ + 1]
        /\ UNCHANGED <<answers, answered, lost>>
    BY <1>0 DEF Hear, Recv
  <1>2. "hear" \in Places /\ "reply" \in Places /\ "hear" # "reply" /\ Types
    BY DEF Places, IInv
  <1>3. Moved(g, k0, "hear", "reply")
    BY <1>0, <1>1, <1>2, StepMoves
  <1>4. /\ UNCHANGED <<ports, peer>> /\ Made' = Made
        /\ \A k : Shared(k)' = Shared(k)
        /\ \A k : Bound(k)' = Bound(k)
    BY <1>1, StepFrame
  <1>5. k0 \in Made /\ k0 \in Challenge
    BY <1>3, ThreadSockets DEF Moved
  <1>6. /\ \A k \in Made : \A i \in DOMAIN greetings[k] :
               greetings[k][i] \in Made /\ ports[greetings[k][i]] = ports[k]
        /\ \A k \in Made : remote[k] # None => remote[k] \in Made /\ ports[remote[k]] = ports[k]
    BY DEF IInv, Addressed
  <1>7. /\ greetings \in [Challenge -> Seq(Challenge)] /\ remote \in [Challenge -> Challenge \cup {None}]
        /\ heard \in [Challenge -> Nat]
        /\ Made \subseteq Challenge
    BY <1>2, MadeChallenges DEF Types
  <1>8. /\ Tail(greetings[k0]) \in Seq(Challenge)
        /\ Len(Tail(greetings[k0])) = Len(greetings[k0]) - 1
        /\ h = greetings[k0][1] /\ 1 \in DOMAIN greetings[k0]
        /\ \A i \in DOMAIN Tail(greetings[k0]) :
               i + 1 \in DOMAIN greetings[k0] /\ Tail(greetings[k0])[i] = greetings[k0][i + 1]
    <2>1. greetings[k0] \in Seq(Challenge) /\ greetings[k0] # <<>>
      BY <1>1, <1>5, <1>7
    <2> QED BY <2>1
  <1>9. h \in Made /\ h \in Challenge /\ ports[h] = ports[k0] /\ h # None
    <2>1. h \in Made /\ ports[h] = ports[k0]
      BY <1>5, <1>6, <1>8
    <2> HIDE DEF h
    <2>2. h \in Challenge
      BY <1>7, <2>1
    <2>3. h # None
      BY <2>2, GameConstants DEF Challenge
    <2> QED BY <2>1, <2>2, <2>3
  <1>10. \A k \in Made : ~Shared(k) => (k = h <=> k = k0)
    BY <1>5, <1>9 DEF Shared
  <1> HIDE DEF h
  <1>11. /\ greetings' \in [Challenge -> Seq(Challenge)] /\ greetings'[k0] = Tail(greetings[k0])
         /\ \A k \in Challenge : k # k0 => greetings'[k] = greetings[k]
    BY <1>1, <1>5, <1>7, <1>8
  <1>12. /\ remote' \in [Challenge -> Challenge \cup {None}] /\ remote'[k0] = h
         /\ \A k \in Challenge : k # k0 => remote'[k] = remote[k]
    BY <1>1, <1>5, <1>7, <1>9
  <1>13. /\ heard' \in [Challenge -> Nat] /\ heard'[h] = heard[h] + 1
         /\ \A k \in Challenge : k # h => heard'[k] = heard[k]
    BY <1>1, <1>7, <1>9
  <1>14. Types'
    BY <1>1, <1>2, <1>3, <1>4, <1>11, <1>12, <1>13 DEF Moved, Types
  <1>15. Fresh'
    BY <1>1, <1>4, <1>5, <1>9, <1>11, <1>12, <1>13 DEF IInv, Fresh
  <1>16. Addressed'
    <2>1. ASSUME NEW k \in Made PROVE
            /\ \A i \in DOMAIN greetings'[k] :
                   greetings'[k][i] \in Made /\ ports[greetings'[k][i]] = ports[k]
            /\ remote'[k] # None => remote'[k] \in Made /\ ports[remote'[k]] = ports[k]
      <3>1. CASE k = k0
        <4>1. \A i \in DOMAIN greetings'[k] :
                  i + 1 \in DOMAIN greetings[k] /\ greetings'[k][i] = greetings[k][i + 1]
          BY <1>8, <1>11, <3>1
        <4>2. remote'[k] = h
          BY <1>12, <3>1
        <4> QED BY <1>6, <1>9, <3>1, <4>1, <4>2
      <3>2. CASE k # k0
        <4>1. greetings'[k] = greetings[k] /\ remote'[k] = remote[k]
          BY <1>7, <1>11, <1>12, <3>2
        <4> QED BY <1>6, <4>1
      <3> QED BY <3>1, <3>2
    <2> QED BY <1>4, <2>1 DEF Addressed
  <1>17. Opened'
    <2>1. ASSUME NEW f \in DOMAIN games
          PROVE  /\ games'[f].of \in Made
                 /\ peer[games'[f].of] = ports[games'[f].of]
                 /\ games'[f].at = "reply" => remote'[games'[f].of] # None
      <3>1. games[f].of \in Made /\ games'[f].of = games[f].of /\ games[f].of \in Challenge
            /\ peer[games[f].of] = ports[games[f].of]
            /\ (games[f].at = "reply" => remote[games[f].of] # None)
        BY <1>3, <1>7 DEF Moved, IInv, Opened
      <3>2. CASE games[f].of = k0
        BY <1>9, <1>12, <3>1, <3>2
      <3>3. CASE games[f].of # k0
        BY <1>3, <1>12, <3>1, <3>3 DEF Moved
      <3> QED BY <3>1, <3>2, <3>3
    <2> QED BY <1>3, <1>4, <2>1 DEF Moved, Opened
  <1>18. Counted'
    <2>1. ASSUME NEW k \in Made, ~Shared(k)
          PROVE  heard'[k] = answered'[k] + GamesAt(k, "reply")'
      <3>1. heard[k] = answered[k] + GamesAt(k, "reply") /\ answered'[k] = answered[k]
            /\ GamesAt(k, "reply") \in Nat /\ answered[k] \in Nat
        BY <1>1, <1>2, <1>7, <2>1, GamesAtNat DEF IInv, Counted, Types
      <3>2. CASE k = k0
        <4>1. heard'[k] = heard[k] + 1
          BY <1>10, <1>13, <2>1, <3>2
        <4>2. GamesAt(k, "reply")' = GamesAt(k, "reply") + 1
          BY <1>3, <3>2 DEF Moved
        <4> QED BY <3>1, <4>1, <4>2
      <3>3. CASE k # k0
        <4>1. heard'[k] = heard[k]
          BY <1>7, <1>10, <1>13, <2>1, <3>3
        <4>2. GamesAt(k, "reply")' = GamesAt(k, "reply")
          BY <1>3, <3>3 DEF Moved
        <4> QED BY <3>1, <4>1, <4>2
      <3> QED BY <3>2, <3>3
    <2> QED BY <1>4, <2>1 DEF Counted
  <1>19. Balanced'
    <2>1. ASSUME NEW k \in Made, ~Shared(k), k \notin lost, Bound(k)
          PROVE  Len(greetings'[k]) = GamesAt(k, "hear")' /\ answers'[k] = GamesAt(k, "await")'
      <3>1. Len(greetings[k]) = GamesAt(k, "hear") /\ answers'[k] = GamesAt(k, "await")
        BY <1>1, <2>1 DEF IInv, Balanced
      <3>2. GamesAt(k, "await")' = GamesAt(k, "await")
        BY <1>3 DEF Moved
      <3>3. CASE k = k0
        <4>1. GamesAt(k, "hear")' = GamesAt(k, "hear") - 1
          BY <1>3, <3>3 DEF Moved
        <4>2. Len(greetings'[k]) = Len(greetings[k]) - 1
          BY <1>8, <1>11, <3>3
        <4> QED BY <3>1, <3>2, <4>1, <4>2
      <3>4. CASE k # k0
        <4>1. GamesAt(k, "hear")' = GamesAt(k, "hear")
          BY <1>3, <3>4 DEF Moved
        <4>2. greetings'[k] = greetings[k]
          BY <1>7, <1>11, <3>4
        <4> QED BY <3>1, <3>2, <4>1, <4>2
      <3> QED BY <3>3, <3>4
    <2> QED BY <1>1, <1>4, <2>1 DEF Balanced
  <1> QED BY <1>14, <1>15, <1>16, <1>17, <1>18, <1>19 DEF IInv

\* An answer is counted at the caller, who is the thread's own one if nobody
\* shares the port.
LEMMA AnswerIInv ==
  ASSUME IInv, NEW g, Answer(g)
  PROVE  IInv'
  <1>0. PICK k0 : k0 = games[g].of
    OBVIOUS
  <1> DEFINE c == remote[k0]
  <1>1. /\ Step(g, "reply", "await") /\ Reply(k0)
        /\ UNCHANGED <<greetings, remote, heard>>
    BY <1>0 DEF Answer
  <1>2. "reply" \in Places /\ "await" \in Places /\ "reply" # "await" /\ Types
    BY DEF Places, IInv
  <1>3. Moved(g, k0, "reply", "await")
    BY <1>0, <1>1, <1>2, StepMoves
  <1>4. /\ UNCHANGED <<ports, peer>> /\ Made' = Made
        /\ \A k : Shared(k)' = Shared(k)
        /\ \A k : Bound(k)' = Bound(k)
    BY <1>1, StepFrame
  <1>5. /\ k0 \in Made /\ k0 \in Challenge /\ c \in Made /\ ports[c] = ports[k0]
    BY <1>3, ThreadSockets DEF Moved
  <1>6. c \in Challenge /\ Made \subseteq Challenge
        /\ answers \in [Challenge -> Nat] /\ answered \in [Challenge -> Nat]
        /\ lost \subseteq Challenge
    BY <1>2, <1>5, MadeChallenges DEF Types
  <1>7. \A k \in Made : ~Shared(k) => (k = c <=> k = k0)
    BY <1>5 DEF Shared
  <1>8. /\ answered' = [answered EXCEPT ![c] = @ + 1]
        /\ \/ answers' = [answers EXCEPT ![c] = @ + 1] /\ lost' = lost
           \/ lost' = lost \cup {c} /\ answers' = answers
    BY <1>1 DEF Reply
  <1> HIDE DEF c
  <1>9. /\ answered' \in [Challenge -> Nat] /\ answered'[c] = answered[c] + 1
        /\ \A k \in Challenge : k # c => answered'[k] = answered[k]
    BY <1>6, <1>8
  <1>10. /\ answers' \in [Challenge -> Nat] /\ lost' \subseteq Challenge /\ lost \subseteq lost'
         /\ c \notin lost' => answers'[c] = answers[c] + 1
         /\ \A k \in Challenge : k # c => answers'[k] = answers[k]
    BY <1>6, <1>8
  <1>11. Types'
    BY <1>1, <1>2, <1>3, <1>4, <1>9, <1>10 DEF Types, Moved
  <1>12. Fresh'
    BY <1>1, <1>4, <1>5, <1>9, <1>10 DEF IInv, Fresh
  <1>13. Addressed'
    BY <1>1, <1>4 DEF IInv, Addressed
  <1>14. Opened'
    <2>1. ASSUME NEW f \in DOMAIN games
          PROVE  /\ games'[f].of \in Made
                 /\ peer[games'[f].of] = ports[games'[f].of]
                 /\ games'[f].at = "reply" => remote[games'[f].of] # None
      <3>1. games[f].of \in Made /\ games'[f].of = games[f].of
            /\ peer[games[f].of] = ports[games[f].of]
            /\ (games[f].at = "reply" => remote[games[f].of] # None)
        BY <1>3 DEF IInv, Opened, Moved
      <3>2. games'[f].at = "reply" => games[f].at = "reply"
        BY <1>3 DEF Moved
      <3> QED BY <3>1, <3>2
    <2> QED BY <1>1, <1>3, <1>4, <2>1 DEF Opened, Moved
  <1>15. Counted'
    <2>1. ASSUME NEW k \in Made, ~Shared(k)
          PROVE  heard[k] = answered'[k] + GamesAt(k, "reply")'
      <3>1. heard[k] = answered[k] + GamesAt(k, "reply")
            /\ GamesAt(k, "reply") \in Nat /\ answered[k] \in Nat
        BY <1>2, <1>6, <2>1, GamesAtNat DEF IInv, Counted
      <3>2. CASE k = k0
        <4>1. answered'[k] = answered[k] + 1
          BY <1>7, <1>9, <2>1, <3>2
        <4>2. GamesAt(k, "reply")' = GamesAt(k, "reply") - 1
          BY <1>3, <3>2 DEF Moved
        <4> QED BY <3>1, <4>1, <4>2
      <3>3. CASE k # k0
        <4>1. answered'[k] = answered[k]
          BY <1>6, <1>7, <1>9, <2>1, <3>3
        <4>2. GamesAt(k, "reply")' = GamesAt(k, "reply")
          BY <1>3, <3>3 DEF Moved
        <4> QED BY <3>1, <4>1, <4>2
      <3> QED BY <3>2, <3>3
    <2> QED BY <1>1, <1>4, <2>1 DEF Counted
  <1>16. Balanced'
    <2>1. ASSUME NEW k \in Made, ~Shared(k), k \notin lost', Bound(k)
          PROVE  Len(greetings[k]) = GamesAt(k, "hear")' /\ answers'[k] = GamesAt(k, "await")'
      <3>1. Len(greetings[k]) = GamesAt(k, "hear") /\ answers[k] = GamesAt(k, "await")
        BY <1>10, <2>1 DEF IInv, Balanced
      <3>2. GamesAt(k, "hear")' = GamesAt(k, "hear")
        BY <1>3 DEF Moved
      <3>3. CASE k = k0
        <4>1. GamesAt(k, "await")' = GamesAt(k, "await") + 1
          BY <1>3, <3>3 DEF Moved
        <4>2. answers'[k] = answers[k] + 1
          BY <1>7, <1>10, <2>1, <3>3
        <4> QED BY <3>1, <3>2, <4>1, <4>2
      <3>4. CASE k # k0
        <4>1. GamesAt(k, "await")' = GamesAt(k, "await")
          BY <1>3, <3>4 DEF Moved
        <4>2. answers'[k] = answers[k]
          BY <1>6, <1>7, <1>10, <2>1, <3>4
        <4> QED BY <3>1, <3>2, <4>1, <4>2
      <3> QED BY <3>3, <3>4
    <2> QED BY <1>1, <1>4, <2>1 DEF Balanced
  <1> QED BY <1>11, <1>12, <1>13, <1>14, <1>15, <1>16 DEF IInv

\* A thread that ends takes one answer with it.
LEMMA EndIInv ==
  ASSUME IInv, NEW g, End(g)
  PROVE  IInv'
  <1>0. PICK k0 : k0 = games[g].of
    OBVIOUS
  <1>1. /\ Step(g, "await", "done")
        /\ answers[k0] > 0
        /\ answers' = [answers EXCEPT ![k0] = @ - 1]
        /\ UNCHANGED <<greetings, remote, heard, answered, lost>>
    BY <1>0 DEF End, history
  <1>2. "await" \in Places /\ "done" \in Places /\ "await" # "done" /\ Types
    BY DEF Places, IInv
  <1>3. Moved(g, k0, "await", "done")
    BY <1>0, <1>1, <1>2, StepMoves
  <1>4. /\ UNCHANGED <<ports, peer>> /\ Made' = Made
        /\ \A k : Shared(k)' = Shared(k)
        /\ \A k : Bound(k)' = Bound(k)
    BY <1>1, StepFrame
  <1>5. k0 \in Made /\ k0 \in Challenge /\ Made \subseteq Challenge
        /\ answers \in [Challenge -> Nat]
    BY <1>2, <1>3, MadeChallenges, ThreadSockets DEF Moved, Types
  <1>6. /\ answers' \in [Challenge -> Nat] /\ answers'[k0] = answers[k0] - 1
        /\ \A k \in Challenge : k # k0 => answers'[k] = answers[k]
    BY <1>1, <1>5
  <1>7. Types'
    BY <1>1, <1>2, <1>3, <1>4, <1>6 DEF Types, Moved
  <1>8. Fresh' /\ Addressed'
    BY <1>1, <1>4, <1>5, <1>6 DEF IInv, Fresh, Addressed
  <1>9. Opened'
    <2>1. ASSUME NEW f \in DOMAIN games
          PROVE  /\ games'[f].of \in Made
                 /\ peer[games'[f].of] = ports[games'[f].of]
                 /\ games'[f].at = "reply" => remote[games'[f].of] # None
      <3>1. games[f].of \in Made /\ games'[f].of = games[f].of
            /\ peer[games[f].of] = ports[games[f].of]
            /\ (games[f].at = "reply" => remote[games[f].of] # None)
        BY <1>3 DEF IInv, Opened, Moved
      <3>2. games'[f].at = "reply" => games[f].at = "reply"
        BY <1>3 DEF Moved
      <3> QED BY <3>1, <3>2
    <2> QED BY <1>1, <1>3, <1>4, <2>1 DEF Opened, Moved
  <1>10. Counted'
    <2>1. \A k : GamesAt(k, "reply")' = GamesAt(k, "reply")
      BY <1>3 DEF Moved
    <2> QED BY <1>1, <1>4, <2>1 DEF IInv, Counted
  <1>11. Balanced'
    <2>1. ASSUME NEW k \in Made, ~Shared(k), k \notin lost, Bound(k)
          PROVE  Len(greetings[k]) = GamesAt(k, "hear")' /\ answers'[k] = GamesAt(k, "await")'
      <3>1. Len(greetings[k]) = GamesAt(k, "hear") /\ answers[k] = GamesAt(k, "await")
        BY <2>1 DEF IInv, Balanced
      <3>2. GamesAt(k, "hear")' = GamesAt(k, "hear")
        BY <1>3 DEF Moved
      <3>3. CASE k = k0
        <4>1. GamesAt(k, "await")' = GamesAt(k, "await") - 1
          BY <1>3, <3>3 DEF Moved
        <4> QED BY <1>6, <3>1, <3>2, <3>3, <4>1
      <3>4. CASE k # k0
        <4>1. GamesAt(k, "await")' = GamesAt(k, "await")
          BY <1>3, <3>4 DEF Moved
        <4>2. answers'[k] = answers[k]
          BY <1>5, <1>6, <3>4
        <4> QED BY <3>1, <3>2, <4>1, <4>2
      <3> QED BY <3>3, <3>4
    <2> QED BY <1>1, <1>4, <2>1 DEF Balanced
  <1> QED BY <1>7, <1>8, <1>9, <1>10, <1>11 DEF IInv

-----------------------------------------------------------------------------
(* The theorems *)

\* The invariant holds in every state of the games.
THEOREM Invariance == Spec => []IInv
  <1>1. IInv /\ [Next]_vars => IInv'
    <2> SUFFICES ASSUME IInv, [Next]_vars PROVE IInv'
      OBVIOUS
    <2>1. CASE Next
      BY <2>1, SetUdpIInv, OpenGameIInv, GreetIInv, HearIInv, AnswerIInv, EndIInv
         DEF Next, GameThread
    <2>2. CASE UNCHANGED vars
      <3>1. UNCHANGED <<ports, peer, greetings, remote, answers, games, heard, answered, lost>>
        BY <2>2 DEF vars, history
      <3>2. /\ Made' = Made /\ (\A k : Shared(k)' = Shared(k)) /\ (\A k : Bound(k)' = Bound(k))
            /\ \A k, place : GamesAt(k, place)' = GamesAt(k, place)
        BY <3>1 DEF Made, Shared, Bound, GamesAt
      <3>3. Types'
        BY <3>1 DEF IInv, Types
      <3>4. Fresh' /\ Addressed' /\ Opened'
        BY <3>1, <3>2 DEF IInv, Fresh, Addressed, Opened
      <3>5. Counted' /\ Balanced'
        BY <3>1, <3>2 DEF IInv, Counted, Balanced
      <3> QED BY <3>3, <3>4, <3>5 DEF IInv
    <2> QED BY <2>1, <2>2
  <1> QED BY InitIInv, <1>1, PTL DEF Spec

\* Every variable of the games has its type.
THEOREM TypeCorrect == Spec => []TypeOK
  <1>1. IInv => TypeOK
    BY DEF IInv, Opened, TypeOK
  <1> QED BY <1>1, Invariance, PTL

\* Whatever the order in which the threads of a challenge use its sockets, no
\* caller is answered more often than it was heard (Game::run), unless another
\* challenge bound the same port.
THEOREM AnsweredNoOftener == Spec => []AnsweredAsHeard
  <1>1. IInv => AnsweredAsHeard
    <2> SUFFICES ASSUME IInv, NEW k \in Made, ~Shared(k)
                 PROVE  answered[k] <= heard[k]
      BY DEF AnsweredAsHeard
    <2>1. heard[k] = answered[k] + GamesAt(k, "reply")
      BY DEF IInv, Counted
    <2>2. GamesAt(k, "reply") \in Nat
      BY GamesAtNat DEF IInv
    <2>3. answered[k] \in Nat
      BY MadeChallenges DEF IInv, Types
    <2> QED BY <2>1, <2>2, <2>3
  <1> QED BY <1>1, Invariance, PTL

\* Between the threads of a challenge no datagram is taken twice or left over
\* (UDPSocket::recv, reply), unless one was lost or the port is not its own.
THEOREM NothingLeftOver == Spec => []Balanced
  <1>1. IInv => Balanced
    BY DEF IInv
  <1> QED BY <1>1, Invariance, PTL

\* A thread that waits for a datagram has one waiting for it.
Awaited ==
    \A g \in DOMAIN games :
        ~EndedOrCut(g) =>
            /\ games[g].at = "hear" => greetings[games[g].of] # <<>>
            /\ games[g].at = "await" => answers[games[g].of] > 0

\* No game waits in recv for what will not come (Game::run, UDPSocket::recv),
\* unless a datagram of its challenge was lost, another challenge took the
\* port, or the port is not bound: whatever the other threads of the same
\* sockets have taken, what this one waits for is there.
THEOREM NobodyWaitsInVain == Spec => []Awaited
  <1>1. IInv => Awaited
    <2> SUFFICES ASSUME IInv, NEW g \in DOMAIN games, ~EndedOrCut(g)
                 PROVE  /\ games[g].at = "hear" => greetings[games[g].of] # <<>>
                        /\ games[g].at = "await" => answers[games[g].of] > 0
      BY DEF Awaited
    <2> DEFINE k == games[g].of
    <2>1. k \in Made /\ ~Shared(k) /\ k \notin lost /\ Bound(k)
      BY DEF EndedOrCut, IInv, Opened
    <2>2. Len(greetings[k]) = GamesAt(k, "hear") /\ answers[k] = GamesAt(k, "await")
      BY <2>1 DEF IInv, Balanced
    <2>3. ASSUME NEW place, games[g].at = place
          PROVE  GamesAt(k, place) \in Nat /\ GamesAt(k, place) # 0
      <3>1. IsFiniteSet(Threads(k, place)) /\ GamesAt(k, place) = Cardinality(Threads(k, place))
            /\ GamesAt(k, place) \in Nat
        BY GamesAtNat DEF IInv
      <3>2. g \in Threads(k, place)
        BY <2>3 DEF Threads
      <3> QED BY <3>1, <3>2, FS_EmptySet
    <2>4. games[g].at = "hear" => Len(greetings[k]) # 0
      BY <2>2, <2>3
    <2>5. games[g].at = "await" => answers[k] > 0
      BY <2>2, <2>3
    <2>6. Len(<<>>) = 0
      OBVIOUS
    <2> QED BY <2>4, <2>5, <2>6
  <1> QED BY <1>1, Invariance, PTL
=============================================================================

------------------------- MODULE UserAccountsProofs -------------------------
(***************************************************************************)
(* What is proved of UserAccounts for every set of names and passwords and *)
(* every way of stopping the server.  Types, whole files and the end of    *)
(* calls are proved for any number of callers.  That no account is lost is *)
(* proved for one, which is what the server has: its dispatcher.  Two may  *)
(* lose accounts, since writeUser reads the file under one guard and       *)
(* rewrites it under another.                                              *)
(***************************************************************************)
EXTENDS UserAccounts, OrderLemmas, FiniteSetTheorems, SequenceTheorems, TLAPS

-----------------------------------------------------------------------------
(* The operators *)

\* hashpass keeps the letters and the length of a password.
LEMMA HashType ==
  ASSUME NEW S, NEW p \in Seq(S)
  PROVE  /\ hashpass(p) \in Seq(S)
         /\ Len(hashpass(p)) = Len(p)
         /\ \A i \in 1..Len(p) : hashpass(p)[i] = p[Len(p) - i + 1]
  <1>1. \A i \in 1..Len(p) : Len(p) - i + 1 \in 1..Len(p)
    OBVIOUS
  <1> QED BY <1>1 DEF hashpass, Reverse

\* Read back, a written password is the one that was registered.
LEMMA HashTwice ==
  ASSUME NEW S, NEW p \in Seq(S)
  PROVE  hashpass(hashpass(p)) = p
  <1>1. hashpass(p) \in Seq(S)
    BY HashType
  <1>2. /\ hashpass(hashpass(p)) \in Seq(S)
        /\ Len(hashpass(hashpass(p))) = Len(p)
    BY <1>1, HashType
  <1>3. ASSUME NEW i \in 1..Len(p)
        PROVE  hashpass(hashpass(p))[i] = p[i]
    <2>1. Len(p) - i + 1 \in 1..Len(p)
      OBVIOUS
    <2>2. hashpass(hashpass(p))[i] = hashpass(p)[Len(p) - i + 1]
      BY <1>1, HashType
    <2>3. hashpass(p)[Len(p) - i + 1] = p[Len(p) - (Len(p) - i + 1) + 1]
      BY <2>1, HashType
    <2>4. Len(p) - (Len(p) - i + 1) + 1 = i
      OBVIOUS
    <2> QED BY <2>2, <2>3, <2>4
  <1> QED BY <1>2, <1>3, SeqEqual

MapType == [Key -> Account \cup {NoUser}]

\* The account of a written user is the user's.
LEMMA EntryAccount ==
  ASSUME NEW u \in User
  PROVE  /\ EntryOf(u) \in Entry
         /\ AccountOf(EntryOf(u)) = [pass |-> u.pass, score |-> u.score]
  BY HashType, HashTwice DEF EntryOf, AccountOf, User, Entry

\* What a written user is read back as is an account.
LEMMA AccountType ==
  ASSUME NEW e \in Entry
  PROVE  AccountOf(e) \in Account
  BY HashType DEF AccountOf, Entry, Account

\* Loading a line keeps the users of the map.
LEMMA LoadedMapType ==
  ASSUME NEW map \in MapType, NEW l \in Seq(Entry)
  PROVE  /\ LoadedMap(map, l) \in MapType
         /\ \A n \in Key : map[n] # NoUser => LoadedMap(map, l)[n] = map[n]
         /\ \A n \in Key : PlacesOf(l, n) # {} => LoadedMap(map, l)[n] # NoUser
  <1>1. NoUser \notin Account
    BY AccountConstants DEF Account
  <1>2. ASSUME NEW n \in Key, map[n] = NoUser, PlacesOf(l, n) # {}
        PROVE  LoadedMap(map, l)[n] \in Account
    <2> DEFINE First(i) == \A j \in PlacesOf(l, n) : i <= j
               k == CHOOSE i \in PlacesOf(l, n) : First(i)
    <2>1. PlacesOf(l, n) \in SUBSET Nat
      BY DEF PlacesOf
    <2>2. \E i \in PlacesOf(l, n) : First(i)
      BY <1>2, <2>1, LeastNat
    <2>3. k \in PlacesOf(l, n)
      BY <2>2
    <2>4. l[k] \in Entry
      BY <2>3 DEF PlacesOf
    <2>5. LoadedMap(map, l)[n] = AccountOf(l[k])
      BY <1>2 DEF LoadedMap
    <2> QED BY <2>4, <2>5, AccountType
  <1>3. ASSUME NEW n \in Key, map[n] # NoUser \/ PlacesOf(l, n) = {}
        PROVE  LoadedMap(map, l)[n] = map[n]
    BY <1>3 DEF LoadedMap
  <1>4. LoadedMap(map, l) = [n \in Key |-> LoadedMap(map, l)[n]]
    BY DEF LoadedMap
  <1>5. \A n \in Key : map[n] \in Account \cup {NoUser}
    BY DEF MapType
  <1>6. \A n \in Key : LoadedMap(map, l)[n] \in Account \cup {NoUser}
    BY <1>2, <1>3, <1>5
  <1>7. LoadedMap(map, l) \in MapType
    BY <1>4, <1>6 DEF MapType
  <1> QED BY <1>1, <1>2, <1>3, <1>5, <1>7

\* The user that readUsers makes up for a torn file leaves the others alone.
LEMMA PhantomMapType ==
  ASSUME NEW map \in MapType, NEW g \in Garbage
  PROVE  /\ PhantomMap(map, g) \in MapType
         /\ \A n \in Key : map[n] # NoUser => PhantomMap(map, g)[n] = map[n]
  <1>1. [pass |-> <<>>, score |-> g] \in Account
    BY AccountConstants DEF Account
  <1> QED BY <1>1 DEF PhantomMap, MapType, Key

-----------------------------------------------------------------------------
(* The inductive invariant: whoever is inside writeUser's guard holds the   *)
(* mutex, how far he is says what is in the file, and nobody else finds a   *)
(* half-written file unless a stopped server left it.                       *)

Inside == {"len", "space", "line", "insert"}

MutexHolder == \A c \in Caller : pc[c] \in Inside <=> mutex = c

FileStage ==
    \A c \in Caller :
        /\ pc[c] = "len" => stage = "clear"
        /\ pc[c] = "space" => stage = "len"
        /\ pc[c] = "line" => stage = "space"
        /\ pc[c] = "insert" => stage = "line"

Whole == mutex = NoCaller /\ ~torn => stage \in {"clear", "line"}

Locals ==
    \A c \in Caller :
        /\ pc[c] \in {"find", "read", "lock"} \cup Inside => user[c] # NoUser
        /\ pc[c] = "clear" => Points # {}
        /\ \A n \in todo[c] : usersMap[n] # NoUser

\* Nobody's readUsers meets a file that a running writeUser has half written.
StreamGood == ~torn => goodbit

IInv == TypeOK /\ MutexHolder /\ FileStage /\ Whole /\ Locals /\ StreamGood

\* What one readUsers does to a state of the invariant.
LEMMA ReadUsersStep ==
  ASSUME TypeOK, readUsers
  PROVE  /\ usersMap' \in MapType
         /\ \A n \in Key : usersMap[n] # NoUser => usersMap'[n] # NoUser
         /\ goodbit' \in BOOLEAN
         /\ loaded' = TRUE
         /\ stage' = stage /\ line' = line
         /\ goodbit /\ stage \in {"clear", "line"} => goodbit'
  <1>1. usersMap \in MapType /\ line \in Seq(Entry) /\ goodbit \in BOOLEAN
    BY DEF TypeOK, MapType
  <1>2. CASE goodbit /\ stage \in {"clear", "line"} /\ usersMap' = LoadedMap(usersMap, line)
             /\ UNCHANGED goodbit
    BY <1>1, <1>2, LoadedMapType DEF readUsers, disk
  <1>3. CASE /\ ~goodbit \/ stage \in {"len", "space"}
             /\ \E g \in Garbage : usersMap' = PhantomMap(usersMap, g)
             /\ goodbit' = FALSE
    BY <1>1, <1>3, PhantomMapType DEF readUsers, disk
  <1> QED BY <1>2, <1>3 DEF readUsers

\* The server starts in the invariant.
LEMMA InitIInv == Init => IInv
  <1> SUFFICES ASSUME Init PROVE IInv
    OBVIOUS
  <1>1. TypeOK
    <2>1. /\ usersMap \in [Key -> Account \cup {NoUser}]
          /\ user \in [Caller -> User \cup {NoUser}]
          /\ copy \in [Caller -> [name : Name, pass : Seq(Letter), score : Nat] \cup {NoUser}]
          /\ acked \in [Name -> Account \cup {NoUser}]
      BY DEF Init
    <2>2. line \in Seq(Entry) /\ fullLine \in [Caller -> Seq(Entry)]
      BY DEF Init
    <2>3. /\ stage \in {"clear", "len", "space", "line"}
          /\ (stage = "line") <=> (line # <<>>)
          /\ mutex \in Caller \cup {NoCaller}
          /\ goodbit \in BOOLEAN /\ loaded \in BOOLEAN /\ torn \in BOOLEAN
      BY DEF Init
    <2>4. pc \in [Caller -> Label] /\ todo \in [Caller -> SUBSET Key]
      BY DEF Init, Label
    <2>5. granted \in 0..MaxScore
      BY AccountConstants DEF Init
    <2> QED BY <2>1, <2>2, <2>3, <2>4, <2>5 DEF TypeOK
  <1>2. MutexHolder /\ FileStage /\ Locals
    BY AccountConstants DEF Init, MutexHolder, FileStage, Locals, Inside
  <1>3. Whole /\ StreamGood
    BY DEF Init, Whole, StreamGood
  <1> QED BY <1>1, <1>2, <1>3 DEF IInv

\* Every step of every caller, and Stop, preserves the invariant.
LEMMA NextIInv == IInv /\ [Next]_vars => IInv'
  <1> SUFFICES ASSUME IInv, [Next]_vars PROVE IInv'
    OBVIOUS
  <1> USE AccountConstants
  <1>1. ASSUME NEW c \in Caller, NEW n \in Name, NEW p \in Pass, RegisterUser(c, n, p) PROVE IInv'
    <2>1. TypeOK'
      <3>1. usersMap' \in MapType /\ goodbit' \in BOOLEAN /\ loaded' = TRUE
            /\ stage' = stage /\ line' = line
        BY <1>1, ReadUsersStep DEF IInv, RegisterUser
      <3>2. [name |-> n, pass |-> p, score |-> 0] \in User
        BY DEF User, Key
      <3> QED BY <1>1, <3>1, <3>2 DEF RegisterUser, Goto, IInv, TypeOK, MapType, Label, history
    <2>2. MutexHolder' /\ FileStage'
      BY <1>1, ReadUsersStep DEF RegisterUser, Goto, IInv, TypeOK, MutexHolder, FileStage, Inside, Label, memory, disk, history
    <2>3. Locals'
      <3>1. \A m \in Key : usersMap[m] # NoUser => usersMap'[m] # NoUser
        BY <1>1, ReadUsersStep DEF IInv, RegisterUser
      <3>2. [name |-> n, pass |-> p, score |-> 0] # NoUser
        BY DEF Key
      <3> QED BY <1>1, <3>1, <3>2 DEF RegisterUser, Goto, IInv, TypeOK, Locals, Inside, history
    <2>4. Whole' /\ StreamGood'
      BY <1>1, ReadUsersStep DEF RegisterUser, Goto, IInv, TypeOK, Whole, StreamGood, MutexHolder, FileStage, Inside, memory, disk, history
    <2> QED BY <2>1, <2>2, <2>3, <2>4 DEF IInv
  <1>2. ASSUME NEW c \in Caller, FindUser(c) PROVE IInv'
    <2>1. TypeOK'
      BY <1>2 DEF FindUser, Goto, IInv, TypeOK, Label, memory, disk, history
    <2>2. MutexHolder' /\ FileStage'
      BY <1>2 DEF FindUser, Goto, IInv, TypeOK, MutexHolder, FileStage, Inside, Label, memory, disk, history
    <2>3. Locals'
      BY <1>2 DEF FindUser, Goto, IInv, TypeOK, Locals, Inside, memory, disk, history
    <2>4. Whole' /\ StreamGood'
      BY <1>2 DEF FindUser, Goto, IInv, TypeOK, Whole, StreamGood, MutexHolder, FileStage, Inside, memory, disk, history
    <2> QED BY <2>1, <2>2, <2>3, <2>4 DEF IInv
  <1>3. ASSUME NEW c \in Caller, ReadLine(c) PROVE IInv'
    <2>1. TypeOK'
      <3>1. usersMap' \in MapType /\ goodbit' \in BOOLEAN /\ loaded' = TRUE
            /\ stage' = stage /\ line' = line
        BY <1>3, ReadUsersStep DEF IInv, ReadLine
      <3>2. ReadableLine \in Seq(Entry)
        BY DEF ReadableLine, IInv, TypeOK
      <3> QED BY <1>3, <3>1, <3>2 DEF ReadLine, Goto, IInv, TypeOK, MapType, Label, history
    <2>2. MutexHolder' /\ FileStage'
      BY <1>3, ReadUsersStep DEF ReadLine, Goto, IInv, TypeOK, MutexHolder, FileStage, Inside, Label, memory, disk, history
    <2>3. Locals'
      <3>1. \A m \in Key : usersMap[m] # NoUser => usersMap'[m] # NoUser
        BY <1>3, ReadUsersStep DEF IInv, ReadLine
      <3> QED BY <1>3, <3>1 DEF ReadLine, Goto, IInv, TypeOK, Locals, Inside, history
    <2>4. Whole' /\ StreamGood'
      BY <1>3, ReadUsersStep DEF ReadLine, Goto, IInv, TypeOK, Whole, StreamGood, MutexHolder, FileStage, Inside, memory, disk, history
    <2> QED BY <2>1, <2>2, <2>3, <2>4 DEF IInv
  <1>4. ASSUME NEW c \in Caller, ClearFile(c) PROVE IInv'
    <2>1. TypeOK'
      BY <1>4 DEF ClearFile, Goto, IInv, TypeOK, Label, memory, disk, history
    <2>2. MutexHolder' /\ FileStage'
      BY <1>4 DEF ClearFile, Goto, IInv, TypeOK, MutexHolder, FileStage, Inside, Label, memory, disk, history
    <2>3. Locals'
      BY <1>4 DEF ClearFile, Goto, IInv, TypeOK, Locals, Inside, memory, disk, history
    <2>4. Whole' /\ StreamGood'
      BY <1>4 DEF ClearFile, Goto, IInv, TypeOK, Whole, StreamGood, MutexHolder, FileStage, Inside, memory, disk, history
    <2> QED BY <2>1, <2>2, <2>3, <2>4 DEF IInv
  <1>5. ASSUME NEW c \in Caller, WriteLen(c) PROVE IInv'
    <2>1. TypeOK'
      <3>1. line = <<>> /\ stage' # "line"
        BY <1>5 DEF WriteLen, IInv, FileStage, TypeOK
      <3> QED BY <1>5, <3>1 DEF WriteLen, Goto, IInv, TypeOK, Label, memory, history
    <2>2. MutexHolder' /\ FileStage'
      BY <1>5 DEF WriteLen, Goto, IInv, TypeOK, MutexHolder, FileStage, Inside, Label, memory, disk, history
    <2>3. Locals'
      BY <1>5 DEF WriteLen, Goto, IInv, TypeOK, Locals, Inside, memory, disk, history
    <2>4. Whole' /\ StreamGood'
      BY <1>5 DEF WriteLen, Goto, IInv, TypeOK, Whole, StreamGood, MutexHolder, FileStage, Inside, memory, disk, history
    <2> QED BY <2>1, <2>2, <2>3, <2>4 DEF IInv
  <1>6. ASSUME NEW c \in Caller, WriteSpace(c) PROVE IInv'
    <2>1. TypeOK'
      <3>1. line = <<>> /\ stage' # "line"
        BY <1>6 DEF WriteSpace, IInv, FileStage, TypeOK
      <3> QED BY <1>6, <3>1 DEF WriteSpace, Goto, IInv, TypeOK, Label, memory, history
    <2>2. MutexHolder' /\ FileStage'
      BY <1>6 DEF WriteSpace, Goto, IInv, TypeOK, MutexHolder, FileStage, Inside, Label, memory, disk, history
    <2>3. Locals'
      BY <1>6 DEF WriteSpace, Goto, IInv, TypeOK, Locals, Inside, memory, disk, history
    <2>4. Whole' /\ StreamGood'
      BY <1>6 DEF WriteSpace, Goto, IInv, TypeOK, Whole, StreamGood, MutexHolder, FileStage, Inside, memory, disk, history
    <2> QED BY <2>1, <2>2, <2>3, <2>4 DEF IInv
  <1>7. ASSUME NEW c \in Caller, WriteLine(c) PROVE IInv'
    <2>1. TypeOK'
      <3>1. user[c] \in User
        BY <1>7 DEF WriteLine, IInv, TypeOK, Locals, Inside
      <3>2. line' \in Seq(Entry) /\ line' # <<>>
        BY <1>7, <3>1, EntryAccount DEF WriteLine, IInv, TypeOK
      <3> QED BY <1>7, <3>2 DEF WriteLine, Goto, IInv, TypeOK, Label, memory, history
    <2>2. MutexHolder' /\ FileStage'
      BY <1>7 DEF WriteLine, Goto, IInv, TypeOK, MutexHolder, FileStage, Inside, Label, memory, disk, history
    <2>3. Locals'
      BY <1>7 DEF WriteLine, Goto, IInv, TypeOK, Locals, Inside, memory, disk, history
    <2>4. Whole' /\ StreamGood'
      BY <1>7 DEF WriteLine, Goto, IInv, TypeOK, Whole, StreamGood, MutexHolder, FileStage, Inside, memory, disk, history
    <2> QED BY <2>1, <2>2, <2>3, <2>4 DEF IInv
  <1>8. ASSUME NEW c \in Caller, InsertUser(c) PROVE IInv'
    <2>1. TypeOK'
      <3>1. user[c] \in User
        BY <1>8 DEF InsertUser, IInv, TypeOK, Locals, Inside
      <3>2. [pass |-> user[c].pass, score |-> user[c].score] \in Account
        BY <3>1 DEF User, Account
      <3>3. usersMap' \in [Key -> Account \cup {NoUser}]
        BY <1>8, <3>2 DEF InsertUser, IInv, TypeOK
      <3>4. acked' \in [Name -> Account \cup {NoUser}]
        BY <1>8, <3>2 DEF InsertUser, IInv, TypeOK
      <3> QED BY <1>8, <3>3, <3>4 DEF InsertUser, Goto, IInv, TypeOK, Label, disk
    <2>2. MutexHolder' /\ FileStage'
      BY <1>8 DEF InsertUser, Goto, IInv, TypeOK, MutexHolder, FileStage, Inside, Label, memory, disk, history
    <2>3. Locals'
      <3>1. user[c] \in User
        BY <1>8 DEF InsertUser, IInv, TypeOK, Locals, Inside
      <3>2. [pass |-> user[c].pass, score |-> user[c].score] # NoUser
        BY <3>1 DEF User
      <3>3. \A m \in Key : usersMap[m] # NoUser => usersMap'[m] # NoUser
        BY <1>8, <3>2 DEF InsertUser, IInv, TypeOK
      <3> QED BY <1>8, <3>3 DEF InsertUser, Goto, IInv, TypeOK, Locals, Inside, disk
    <2>4. Whole' /\ StreamGood'
      BY <1>8 DEF InsertUser, Goto, IInv, TypeOK, Whole, StreamGood, MutexHolder, FileStage, Inside, memory, disk, history
    <2> QED BY <2>1, <2>2, <2>3, <2>4 DEF IInv
  <1>9. ASSUME NEW c \in Caller, NEW n \in Name, FetchUser(c, n) PROVE IInv'
    <2>1. TypeOK'
      <3>1. usersMap[n] \in Account
        BY <1>9 DEF FetchUser, IInv, TypeOK, Key
      <3>2. [name |-> n, pass |-> usersMap[n].pass, score |-> usersMap[n].score]
               \in [name : Name, pass : Seq(Letter), score : Nat]
        BY <3>1 DEF Account
      <3> QED BY <1>9, <3>2 DEF FetchUser, IInv, TypeOK, memory, disk, history
    <2>2. MutexHolder' /\ FileStage'
      BY <1>9 DEF FetchUser, Goto, IInv, TypeOK, MutexHolder, FileStage, Inside, Label, memory, disk, history
    <2>3. Locals'
      BY <1>9 DEF FetchUser, Goto, IInv, TypeOK, Locals, Inside, memory, disk, history
    <2>4. Whole' /\ StreamGood'
      BY <1>9 DEF FetchUser, Goto, IInv, TypeOK, Whole, StreamGood, MutexHolder, FileStage, Inside, memory, disk, history
    <2> QED BY <2>1, <2>2, <2>3, <2>4 DEF IInv
  <1>10. ASSUME NEW c \in Caller, NEW points \in Points, SetScore(c, points) PROVE IInv'
    <2>1. TypeOK'
      <3>1. copy[c] \in [name : Name, pass : Seq(Letter), score : Nat]
        BY <1>10 DEF SetScore, IInv, TypeOK
      <3>2. [pass |-> copy[c].pass, score |-> copy[c].score + points] \in Account
        BY <3>1 DEF Account
      <3>3. usersMap' \in [Key -> Account \cup {NoUser}]
        BY <1>10, <3>2 DEF SetScore, IInv, TypeOK
      <3>4. granted' \in 0..MaxScore
        BY <1>10, AccountConstants DEF SetScore, IInv, TypeOK
      <3> QED BY <1>10, <3>3, <3>4 DEF SetScore, Goto, IInv, TypeOK, Label, disk
    <2>2. MutexHolder' /\ FileStage'
      BY <1>10 DEF SetScore, Goto, IInv, TypeOK, MutexHolder, FileStage, Inside, Label, memory, disk, history
    <2>3. Locals'
      <3>1. copy[c] \in [name : Name, pass : Seq(Letter), score : Nat]
        BY <1>10 DEF SetScore, IInv, TypeOK
      <3>2. [pass |-> copy[c].pass, score |-> copy[c].score + points] # NoUser
        BY <3>1
      <3>3. \A m \in Key : usersMap[m] # NoUser => usersMap'[m] # NoUser
        BY <1>10, <3>2 DEF SetScore, IInv, TypeOK
      <3> QED BY <1>10, <3>3 DEF SetScore, Goto, IInv, TypeOK, Locals, Inside, disk
    <2>4. Whole' /\ StreamGood'
      BY <1>10 DEF SetScore, Goto, IInv, TypeOK, Whole, StreamGood, MutexHolder, FileStage, Inside, memory, disk, history
    <2> QED BY <2>1, <2>2, <2>3, <2>4 DEF IInv
  <1>11. ASSUME NEW c \in Caller, UpdateClear(c) PROVE IInv'
    <2>1. TypeOK'
      BY <1>11 DEF UpdateClear, Goto, IInv, TypeOK, Label, memory, disk, history
    <2>2. MutexHolder' /\ FileStage'
      <3>1. \A d \in Caller : d = c
        BY <1>11 DEF UpdateClear, IInv, Locals
      <3> QED BY <1>11, <3>1 DEF UpdateClear, Goto, IInv, TypeOK, MutexHolder, FileStage, Inside
    <2>3. Locals'
      BY <1>11 DEF UpdateClear, Goto, IInv, TypeOK, Locals, Inside, memory, disk, history
    <2>4. Whole' /\ StreamGood'
      BY <1>11 DEF UpdateClear, Goto, IInv, TypeOK, Whole, StreamGood, MutexHolder, FileStage, Inside, memory, disk, history
    <2> QED BY <2>1, <2>2, <2>3, <2>4 DEF IInv
  <1>12. ASSUME NEW c \in Caller, NEW n \in Key, NextUser(c, n) PROVE IInv'
    <2>1. TypeOK'
      <3>1. usersMap[n] \in Account
        BY <1>12 DEF NextUser, IInv, TypeOK, Locals
      <3>2. [name |-> n, pass |-> usersMap[n].pass, score |-> usersMap[n].score] \in User
        BY <3>1 DEF Account, User
      <3> QED BY <1>12, <3>2 DEF NextUser, Goto, IInv, TypeOK, Label, memory, disk, history
    <2>2. MutexHolder' /\ FileStage'
      BY <1>12 DEF NextUser, Goto, IInv, TypeOK, MutexHolder, FileStage, Inside, Label, memory, disk, history
    <2>3. Locals'
      <3>1. usersMap[n] \in Account
        BY <1>12 DEF NextUser, IInv, TypeOK, Locals
      <3>2. [name |-> n, pass |-> usersMap[n].pass, score |-> usersMap[n].score] # NoUser
        BY <3>1 DEF Account, Key
      <3> QED BY <1>12, <3>2 DEF NextUser, Goto, IInv, TypeOK, Locals, Inside, memory
    <2>4. Whole' /\ StreamGood'
      BY <1>12 DEF NextUser, Goto, IInv, TypeOK, Whole, StreamGood, MutexHolder, FileStage, Inside, memory, disk, history
    <2> QED BY <2>1, <2>2, <2>3, <2>4 DEF IInv
  <1>13. ASSUME Stop PROVE IInv'
    <2>1. TypeOK'
      <3>1. torn' \in BOOLEAN
        BY <1>13, Zenon DEF Stop
      <3>2. /\ pc' \in [Caller -> Label]
            /\ todo' \in [Caller -> SUBSET Key]
            /\ user' \in [Caller -> User \cup {NoUser}]
            /\ fullLine' \in [Caller -> Seq(Entry)]
            /\ copy' \in [Caller -> [name : Name, pass : Seq(Letter), score : Nat] \cup {NoUser}]
            /\ usersMap' \in [Key -> Account \cup {NoUser}]
        BY <1>13 DEF Stop, Label
      <3>3. goodbit' \in BOOLEAN /\ loaded' \in BOOLEAN /\ mutex' \in Caller \cup {NoCaller}
        BY <1>13 DEF Stop
      <3> QED BY <1>13, <3>1, <3>2, <3>3 DEF Stop, IInv, TypeOK, disk
    <2>2. MutexHolder' /\ FileStage' /\ Locals'
      BY <1>13 DEF Stop, MutexHolder, FileStage, Locals, Inside
    <2>3. Whole' /\ StreamGood'
      <3>1. ASSUME ~torn' PROVE stage \in {"clear", "line"}
        <4>1. CASE mutex = NoCaller
          BY <1>13, <3>1, <4>1 DEF Stop, IInv, Whole, TypeOK
        <4>2. CASE mutex \in Caller
          <5>1. pc[mutex] \in Inside /\ pc[mutex] \notin {"space", "line"}
            BY <1>13, <3>1, <4>2 DEF Stop, IInv, MutexHolder, TypeOK, Rewriting
          <5> QED BY <4>2, <5>1 DEF IInv, FileStage, Inside
        <4> QED BY <4>1, <4>2 DEF IInv, TypeOK
      <3> QED BY <1>13, <3>1 DEF Stop, Whole, StreamGood, disk
    <2> QED BY <2>1, <2>2, <2>3 DEF IInv
  <1>14. CASE UNCHANGED vars
    BY <1>14 DEF vars, IInv, TypeOK, MutexHolder, FileStage, Whole, Locals, StreamGood
  <1> QED
    BY <1>1, <1>2, <1>3, <1>4, <1>5, <1>6, <1>7, <1>8, <1>9, <1>10, <1>11, <1>12,
       <1>13, <1>14 DEF Next, Step, Call

-----------------------------------------------------------------------------
\* The invariant holds of every state the store reaches.
THEOREM Invariance == Spec => []IInv
  <1> QED BY InitIInv, NextIInv, PTL DEF Spec

\* Type correctness.
THEOREM TypeCorrect == Spec => []TypeOK
  <1>1. IInv => TypeOK
    BY DEF IInv
  <1> QED BY <1>1, Invariance, PTL

-----------------------------------------------------------------------------
(* The inductive invariant of a lone caller.  What a reader finds in the    *)
(* line is what the map holds, but for the users the call in progress has   *)
(* taken out of the file and not put back yet.                              *)

\* Two entries tell the same user in, or nobody: scores are not compared.
SameLogin(a, b) == (a = NoUser <=> b = NoUser) /\ (a # NoUser => a.pass = b.pass)

AccountGiven(u) == [pass |-> u.pass, score |-> u.score]

Writing == {"read", "lock", "len", "space", "line"}

\* The line a call works from: the one it keeps once the file is truncated.
KeptLine(c) == IF pc[c] \in {"len", "space", "line"} THEN fullLine[c] ELSE line

\* The users a call has yet to put into that line.
YetToWrite(c) == IF pc[c] \in Writing THEN todo[c] \cup {user[c].name} ELSE todo[c]

\* What the line holds once the call has written the user it has in hand.
Expected(c, k) ==
    IF k \in YetToWrite(c) THEN NoUser
    ELSE IF pc[c] = "insert" /\ k = user[c].name THEN AccountGiven(user[c])
    ELSE usersMap[k]

\* A setScore that has not begun to write is ahead of the file by a score.
LineFollowsMap ==
    loaded => \A c \in Caller :
        /\ pc[c] # "clear" =>
             \A k \in Key : AccountIn(KeptLine(c), k) = Expected(c, k)
        /\ pc[c] = "clear" =>
             \A k \in Key : SameLogin(usersMap[k], AccountIn(line, k))

\* A server that has read nothing knows nobody.
NothingLoaded ==
    ~loaded => /\ \A c \in Caller : pc[c] = "idle"
               /\ \A k \in Key : usersMap[k] = NoUser

\* Once it has read the file, its map has every account it has acknowledged.
AckedKept ==
    \A n \in Name : acked[n] # NoUser =>
        SameLogin(acked[n], IF loaded THEN usersMap[n] ELSE AccountIn(line, n))

\* What a call holds: the user it writes is the map's or a new one, and is
\* not written again by the same loop; the old line is the file's.
InHand ==
    \A c \in Caller :
        /\ pc[c] \in {"idle", "find", "clear"} => todo[c] = {}
        /\ pc[c] = "lock" => fullLine[c] = line
        /\ pc[c] \in Writing \cup {"insert"} =>
             /\ user[c].name \notin todo[c]
             /\ usersMap[user[c].name] \in {NoUser, AccountGiven(user[c])}
             /\ usersMap[user[c].name] = NoUser => todo[c] = {}
        /\ \/ pc[c] = "find"
           \/ pc[c] \in Writing \cup {"insert"} /\ usersMap[user[c].name] = NoUser
           => user[c].name \in Name /\ user[c].pass \in Pass

\* A copy that setScore will write back has the password of the map.
CopiesLogIn ==
    \A c \in Caller : copy[c] # NoUser =>
        /\ usersMap[copy[c].name] # NoUser
        /\ usersMap[copy[c].name].pass = copy[c].pass

LoneInv ==
    ~torn => LineFollowsMap /\ NothingLoaded /\ AckedKept /\ InHand /\ CopiesLogIn
-----------------------------------------------------------------------------
(* What a reader of a line finds *)

\* No line, no account.
LEMMA EmptyLine ==
  ASSUME NEW n \in Key
  PROVE  AccountIn(<<>>, n) = NoUser
  BY DEF AccountIn, LoadedMap, PlacesOf

\* What is found in a line is an account or nothing.
LEMMA AccountInType ==
  ASSUME NEW l \in Seq(Entry), NEW n \in Key
  PROVE  AccountIn(l, n) \in Account \cup {NoUser}
  <1>1. [k \in Key |-> NoUser] \in MapType
    BY DEF MapType
  <1>2. LoadedMap([k \in Key |-> NoUser], l) \in MapType
    BY <1>1, LoadedMapType
  <1> QED BY <1>2 DEF AccountIn, MapType

\* Loading adds to the map what the line holds of the names the map lacks.
LEMMA LoadedLookup ==
  ASSUME NEW map \in MapType, NEW l \in Seq(Entry), NEW n \in Key
  PROVE  LoadedMap(map, l)[n] = IF map[n] # NoUser THEN map[n] ELSE AccountIn(l, n)
  BY DEF LoadedMap, AccountIn

\* The user in front is the one that is found; he hides nobody else.
LEMMA PrependUser ==
  ASSUME NEW u \in User, NEW l \in Seq(Entry), NEW n \in Key
  PROVE  AccountIn(<<EntryOf(u)>> \o l, n) =
            IF n = u.name THEN AccountGiven(u) ELSE AccountIn(l, n)
  <1> DEFINE m == <<EntryOf(u)>> \o l
             FirstIn(s, i) == i \in PlacesOf(s, n) /\ \A j \in PlacesOf(s, n) : i <= j
             First(s) == CHOOSE i \in PlacesOf(s, n) : \A j \in PlacesOf(s, n) : i <= j
  <1>1. EntryOf(u) \in Entry /\ AccountOf(EntryOf(u)) = AccountGiven(u) /\ EntryOf(u).name = u.name
    BY EntryAccount DEF AccountGiven, EntryOf
  <1>2. /\ m \in Seq(Entry) /\ Len(m) = 1 + Len(l) /\ m[1] = EntryOf(u)
        /\ \A i \in 1..Len(l) : m[i + 1] = l[i]
    BY <1>1
  <1> HIDE DEF m
  <1>3. /\ PlacesOf(m, n) = {i \in 1..Len(m) : m[i].name = n}
        /\ PlacesOf(l, n) = {i \in 1..Len(l) : l[i].name = n}
    BY <1>2 DEF PlacesOf
  <1>4. ASSUME NEW s \in {m, l}
        PROVE  AccountIn(s, n) = IF PlacesOf(s, n) = {} THEN NoUser ELSE AccountOf(s[First(s)])
    BY DEF AccountIn, LoadedMap
  <1>5. ASSUME NEW s \in {m, l}, NEW k, FirstIn(s, k)
        PROVE  First(s) = k
    <2>1. FirstIn(s, First(s))
      BY <1>5
    <2>2. PlacesOf(s, n) \subseteq Nat
      BY <1>3
    <2>3. k <= First(s) /\ First(s) <= k /\ k \in Nat /\ First(s) \in Nat
      BY <1>5, <2>1, <2>2
    <2> HIDE DEF First
    <2> QED BY <2>3
  <1>6. CASE n = u.name
    <2>1. FirstIn(m, 1)
      BY <1>1, <1>2, <1>3, <1>6
    <2>2. First(m) = 1 /\ PlacesOf(m, n) # {}
      BY <1>5, <2>1
    <2> QED BY <1>1, <1>2, <1>4, <1>6, <2>2 DEF m
  <1>7. CASE n # u.name
    <2>1. \A i \in PlacesOf(m, n) : i \in Nat /\ i - 1 \in PlacesOf(l, n)
      <3> SUFFICES ASSUME NEW i \in 1..Len(m), m[i].name = n
                   PROVE  i \in Nat /\ i - 1 \in 1..Len(l) /\ l[i - 1].name = n
        BY <1>3
      <3>1. i # 1
        BY <1>1, <1>2, <1>7
      <3>2. i - 1 \in 1..Len(l) /\ (i - 1) + 1 = i
        BY <1>2, <3>1
      <3> QED BY <1>2, <3>2
    <2>2. \A i \in PlacesOf(l, n) : i \in Nat /\ i + 1 \in PlacesOf(m, n)
      <3> SUFFICES ASSUME NEW i \in 1..Len(l), l[i].name = n
                   PROVE  i \in Nat /\ i + 1 \in 1..Len(m) /\ m[i + 1].name = n
        BY <1>3
      <3> QED BY <1>2
    <2>3. CASE PlacesOf(l, n) = {}
      BY <1>4, <1>7, <2>1, <2>3 DEF m
    <2>4. CASE PlacesOf(l, n) # {}
      <3>1. PlacesOf(l, n) \in SUBSET Nat
        BY <1>3
      <3>2. PICK k \in PlacesOf(l, n) : \A j \in PlacesOf(l, n) : k <= j
        BY <2>4, <3>1, LeastNat
      <3>3. FirstIn(l, k)
        BY <3>2
      <3>4. FirstIn(m, k + 1)
        <4>1. k + 1 \in PlacesOf(m, n)
          BY <2>2
        <4>2. ASSUME NEW j \in PlacesOf(m, n) PROVE k + 1 <= j
          <5>1. j \in Nat /\ j - 1 \in PlacesOf(l, n)
            BY <2>1
          <5>2. k <= j - 1 /\ k \in Nat
            BY <3>1, <3>2, <5>1
          <5> QED BY <5>1, <5>2
        <4> QED BY <4>1, <4>2
      <3>5. First(l) = k /\ First(m) = k + 1 /\ PlacesOf(m, n) # {}
        BY <1>5, <3>3, <3>4
      <3>6. m[k + 1] = l[k]
        BY <1>2, <1>3
      <3> HIDE DEF First
      <3>7. AccountIn(m, n) = AccountOf(m[k + 1]) /\ AccountIn(l, n) = AccountOf(l[k])
        BY <1>4, <2>4, <3>5
      <3> QED BY <1>7, <3>6, <3>7 DEF m
    <2> QED BY <2>3, <2>4
  <1> QED BY <1>6, <1>7

-----------------------------------------------------------------------------
(* A lone caller never writes an account it cannot read back. *)

Lone(d) == Caller = {d}

\* Whatever the read, the map afterwards is the map and, after a restart, the
\* line: a call that has put users aside finds no more than it knows.
LEMMA LoneRead ==
  ASSUME NEW d, Lone(d), IInv, LoneInv, ~torn, pc[d] \in {"idle", "read"},
         mutex = NoCaller, readUsers
  PROVE  /\ goodbit /\ stage' = stage /\ line' = line /\ loaded' = TRUE
         /\ usersMap' \in MapType
         /\ \A k \in Key : usersMap'[k] = IF loaded THEN usersMap[k] ELSE AccountIn(line, k)
  <1>1. goodbit /\ stage \in {"clear", "line"}
    BY DEF IInv, StreamGood, Whole
  <1>2. usersMap' = LoadedMap(usersMap, line) /\ stage' = stage /\ line' = line /\ loaded' = TRUE
    BY <1>1 DEF readUsers, disk
  <1>3. usersMap \in MapType /\ line \in Seq(Entry) /\ usersMap' \in MapType
    BY <1>2, LoadedMapType DEF IInv, TypeOK, MapType
  <1>4. ASSUME NEW k \in Key
        PROVE  usersMap'[k] = IF loaded THEN usersMap[k] ELSE AccountIn(line, k)
    <2>1. usersMap'[k] = IF usersMap[k] # NoUser THEN usersMap[k] ELSE AccountIn(line, k)
      BY <1>2, <1>3, LoadedLookup
    <2>2. CASE loaded
      <3>1. AccountIn(line, k) \in {NoUser, usersMap[k]}
        BY <2>2 DEF Lone, LoneInv, LineFollowsMap, KeptLine, Expected
      <3> QED BY <2>1, <2>2, <3>1
    <2>3. CASE ~loaded
      BY <2>1, <2>3 DEF LoneInv, NothingLoaded
    <2> QED BY <2>2, <2>3 DEF IInv, TypeOK
  <1> QED BY <1>1, <1>2, <1>3, <1>4

\* While no rewrite is under way the file has everything that was acknowledged.
LEMMA RestingLine ==
  ASSUME NEW d, Lone(d), IInv, LoneInv, ~torn, ~Rewriting(d)
  PROVE  \A n \in Name : acked[n] # NoUser => SameLogin(acked[n], AccountIn(line, n))
  <1> SUFFICES ASSUME NEW n \in Name, acked[n] # NoUser
               PROVE  SameLogin(acked[n], AccountIn(line, n))
    OBVIOUS
  <1>1. n \in Key /\ d \in Caller
    BY DEF Key, Lone
  <1>2. SameLogin(acked[n], IF loaded THEN usersMap[n] ELSE AccountIn(line, n))
    BY DEF LoneInv, AckedKept
  <1>3. CASE ~loaded
    BY <1>2, <1>3
  <1>4. CASE loaded
    <2>1. SameLogin(acked[n], usersMap[n])
      BY <1>2, <1>4
    <2>2. CASE pc[d] = "clear"
      <3>1. SameLogin(usersMap[n], AccountIn(line, n))
        BY <1>1, <1>4, <2>2 DEF LoneInv, LineFollowsMap
      <3> QED BY <2>1, <3>1 DEF SameLogin
    <2>3. CASE pc[d] # "clear"
      <3>1. todo[d] = {} /\ pc[d] \notin {"len", "space", "line", "next"}
        BY DEF Rewriting
      <3>2. AccountIn(line, n) = Expected(d, n)
        BY <1>1, <1>4, <2>3, <3>1 DEF LoneInv, LineFollowsMap, KeptLine
      <3>3. CASE pc[d] \in {"read", "lock"}
        <4>1. usersMap[user[d].name] = NoUser
          BY <3>3 DEF Rewriting
        <4>2. n # user[d].name
          BY <1>2, <1>4, <4>1 DEF SameLogin
        <4>3. AccountIn(line, n) = usersMap[n]
          BY <3>1, <3>2, <3>3, <4>2 DEF Expected, YetToWrite, Writing
        <4> QED BY <2>1, <4>3
      <3>4. CASE pc[d] \notin {"read", "lock"}
        <4>1. YetToWrite(d) = {}
          BY <3>1, <3>4 DEF YetToWrite, Writing
        <4>2. usersMap[n] # NoUser
          BY <2>1 DEF SameLogin
        <4>3. CASE pc[d] = "insert" /\ n = user[d].name
          <5>1. usersMap[n] = AccountGiven(user[d])
            BY <1>1, <4>2, <4>3 DEF LoneInv, InHand
          <5> QED BY <2>1, <3>2, <4>1, <4>3, <5>1 DEF Expected
        <4>4. CASE ~(pc[d] = "insert" /\ n = user[d].name)
          BY <2>1, <3>2, <4>1, <4>4 DEF Expected
        <4> QED BY <4>3, <4>4
      <3> QED BY <3>3, <3>4
    <2> QED BY <2>2, <2>3
  <1> QED BY <1>3, <1>4 DEF IInv, TypeOK

\* The server starts with nothing loaded.
LEMMA InitLoneInv == Init => LoneInv
  BY DEF Init, LoneInv, LineFollowsMap, NothingLoaded, AckedKept, InHand, CopiesLogIn, Writing

\* registerUser: the map after the read is what the line holds.
LEMMA LoneRegisterUser ==
  ASSUME NEW d, Lone(d), IInv, LoneInv, NEW n \in Name, NEW p \in Pass, RegisterUser(d, n, p)
  PROVE  LoneInv'
  <1> SUFFICES ASSUME ~torn' PROVE LoneInv'
    BY DEF LoneInv
  <1>1. ~torn /\ pc[d] = "idle" /\ mutex = NoCaller /\ readUsers /\ d \in Caller
    BY DEF RegisterUser, history, Lone
  <1>2. /\ line' = line /\ loaded' = TRUE
        /\ \A k \in Key : usersMap'[k] = IF loaded THEN usersMap[k] ELSE AccountIn(line, k)
    BY <1>1, LoneRead
  <1>3. /\ pc' = [pc EXCEPT ![d] = "find"]
        /\ user' = [user EXCEPT ![d] = [name |-> n, pass |-> p, score |-> 0]]
        /\ fullLine' = fullLine /\ todo' = todo /\ copy' = copy /\ acked' = acked
    BY DEF RegisterUser, Goto, history
  <1>4. pc'[d] = "find" /\ user'[d] = [name |-> n, pass |-> p, score |-> 0]
    BY <1>1, <1>3 DEF IInv, TypeOK
  <1>5. todo[d] = {}
    BY <1>1 DEF LoneInv, InHand
  <1>6. \A k \in Key : usersMap'[k] = AccountIn(line, k)
    <2>1. ASSUME NEW k \in Key, loaded PROVE AccountIn(line, k) = usersMap[k]
      BY <1>1, <1>5, <2>1 DEF LoneInv, LineFollowsMap, KeptLine, Expected, YetToWrite, Writing
    <2> QED BY <1>2, <2>1
  <1>7. LineFollowsMap'
    BY <1>2, <1>3, <1>4, <1>5, <1>6 DEF Lone, LineFollowsMap, KeptLine, Expected, YetToWrite, Writing
  <1>8. NothingLoaded'
    BY <1>2 DEF NothingLoaded
  <1>9. AckedKept'
    BY <1>1, <1>2, <1>3 DEF LoneInv, AckedKept, Key
  <1>10. InHand'
    BY <1>3, <1>4, <1>5 DEF Lone, InHand, Writing
  <1>11. CopiesLogIn'
    <2>1. ASSUME copy[d] # NoUser PROVE copy[d].name \in Key /\ loaded
      BY <1>1, <2>1 DEF IInv, TypeOK, Key, LoneInv, CopiesLogIn, NothingLoaded
    <2> QED BY <1>1, <1>2, <1>3, <2>1 DEF Lone, LoneInv, CopiesLogIn
  <1> QED BY <1>7, <1>8, <1>9, <1>10, <1>11 DEF LoneInv

\* registerUser turns a known name down, and goes on with an unknown one.
LEMMA LoneFindUser ==
  ASSUME NEW d, Lone(d), IInv, LoneInv, FindUser(d)
  PROVE  LoneInv'
  <1> SUFFICES ASSUME ~torn' PROVE LoneInv'
    BY DEF LoneInv
  <1>1. /\ ~torn /\ pc[d] = "find" /\ d \in Caller
        /\ usersMap' = usersMap /\ loaded' = loaded /\ line' = line
        /\ fullLine' = fullLine /\ todo' = todo /\ copy' = copy /\ acked' = acked
    BY DEF FindUser, memory, disk, history, Lone
  <1>2. todo[d] = {} /\ user[d].name \in Name /\ user[d].pass \in Pass /\ loaded
    BY <1>1 DEF LoneInv, InHand, NothingLoaded
  <1>3. \A k \in Key : AccountIn(line, k) = usersMap[k]
    BY <1>1, <1>2 DEF LoneInv, LineFollowsMap, KeptLine, Expected, YetToWrite, Writing
  <1>4. \/ usersMap[user[d].name] # NoUser /\ pc'[d] = "idle"
        \/ usersMap[user[d].name] = NoUser /\ pc'[d] = "read" /\ user'[d] = user[d]
    BY <1>1 DEF FindUser, Goto, IInv, TypeOK
  <1>5. LineFollowsMap'
    BY <1>1, <1>2, <1>3, <1>4 DEF Lone, LineFollowsMap, KeptLine, Expected, YetToWrite, Writing
  <1>6. NothingLoaded' /\ AckedKept' /\ CopiesLogIn'
    BY <1>1, <1>2 DEF LoneInv, NothingLoaded, AckedKept, CopiesLogIn
  <1>7. InHand'
    BY <1>1, <1>2, <1>4 DEF Lone, InHand, Writing
  <1> QED BY <1>5, <1>6, <1>7 DEF LoneInv

\* writeUser keeps the line it read.
LEMMA LoneReadLine ==
  ASSUME NEW d, Lone(d), IInv, LoneInv, ReadLine(d)
  PROVE  LoneInv'
  <1> SUFFICES ASSUME ~torn' PROVE LoneInv'
    BY DEF LoneInv
  <1>1. /\ ~torn /\ pc[d] = "read" /\ mutex = NoCaller /\ readUsers /\ d \in Caller
        /\ user' = user /\ todo' = todo /\ copy' = copy /\ acked' = acked
    BY DEF ReadLine, history, Lone
  <1>2. loaded
    BY <1>1 DEF LoneInv, NothingLoaded
  <1>3. /\ goodbit /\ line' = line /\ loaded' = TRUE /\ usersMap' \in MapType
        /\ \A k \in Key : usersMap'[k] = usersMap[k]
    BY <1>1, <1>2, LoneRead
  <1>4. usersMap' = usersMap
    BY <1>3 DEF MapType, IInv, TypeOK
  <1>5. pc'[d] = "lock" /\ fullLine'[d] = line
    BY <1>1, <1>3 DEF ReadLine, ReadableLine, Goto, IInv, TypeOK
  <1>6. LineFollowsMap'
    BY <1>1, <1>2, <1>3, <1>4, <1>5 DEF Lone, LoneInv, LineFollowsMap, KeptLine, Expected, YetToWrite, Writing
  <1>7. NothingLoaded' /\ AckedKept' /\ CopiesLogIn'
    BY <1>1, <1>2, <1>3, <1>4 DEF LoneInv, NothingLoaded, AckedKept, CopiesLogIn
  <1>8. InHand'
    BY <1>1, <1>3, <1>4, <1>5 DEF Lone, LoneInv, InHand, Writing
  <1> QED BY <1>6, <1>7, <1>8 DEF LoneInv

\* The file is truncated and the length and the space are written: the old
\* line is in writeUser's hands.
LEMMA LoneWriteHead ==
  ASSUME NEW d, Lone(d), IInv, LoneInv, ClearFile(d) \/ WriteLen(d) \/ WriteSpace(d)
  PROVE  LoneInv'
  <1> SUFFICES ASSUME ~torn' PROVE LoneInv'
    BY DEF LoneInv
  <1>1. /\ ~torn /\ d \in Caller /\ usersMap' = usersMap /\ loaded' = loaded
        /\ user' = user /\ fullLine' = fullLine /\ todo' = todo /\ copy' = copy /\ acked' = acked
        /\ pc[d] \in {"lock", "len", "space"} /\ pc'[d] \in {"len", "space", "line"}
    BY DEF ClearFile, WriteLen, WriteSpace, Goto, memory, disk, history, Lone, IInv, TypeOK
  <1>2. loaded
    BY <1>1 DEF LoneInv, NothingLoaded
  <1>3. \A k \in Key : AccountIn(fullLine[d], k) = Expected(d, k)
    BY <1>1, <1>2 DEF LoneInv, LineFollowsMap, InHand, KeptLine
  <1>4. LineFollowsMap'
    BY <1>1, <1>3 DEF Lone, LineFollowsMap, KeptLine, Expected, YetToWrite, Writing
  <1>5. NothingLoaded' /\ AckedKept' /\ CopiesLogIn'
    BY <1>1, <1>2 DEF LoneInv, NothingLoaded, AckedKept, CopiesLogIn
  <1>6. InHand'
    BY <1>1 DEF Lone, LoneInv, InHand, Writing
  <1> QED BY <1>4, <1>5, <1>6 DEF LoneInv

\* The new line holds the old one's accounts and the user's.
LEMMA LoneWriteLine ==
  ASSUME NEW d, Lone(d), IInv, LoneInv, WriteLine(d)
  PROVE  LoneInv'
  <1> SUFFICES ASSUME ~torn' PROVE LoneInv'
    BY DEF LoneInv
  <1>1. /\ ~torn /\ d \in Caller /\ usersMap' = usersMap /\ loaded' = loaded
        /\ user' = user /\ fullLine' = fullLine /\ todo' = todo /\ copy' = copy /\ acked' = acked
        /\ pc[d] = "line" /\ pc'[d] = "insert"
        /\ line' = <<EntryOf(user[d])>> \o fullLine[d]
    BY DEF WriteLine, Goto, memory, history, Lone, IInv, TypeOK
  <1>2. loaded
    BY <1>1 DEF LoneInv, NothingLoaded
  <1>3. user[d] \in User /\ fullLine[d] \in Seq(Entry)
    BY <1>1 DEF IInv, TypeOK, Locals, Inside
  <1>4. \A k \in Key : AccountIn(fullLine[d], k) =
                          IF k \in todo[d] \cup {user[d].name} THEN NoUser ELSE usersMap[k]
    BY <1>1, <1>2 DEF LoneInv, LineFollowsMap, KeptLine, Expected, YetToWrite, Writing
  <1>5. user[d].name \notin todo[d]
    BY <1>1 DEF LoneInv, InHand, Writing
  <1>6. \A k \in Key : AccountIn(line', k) =
                          IF k = user[d].name THEN AccountGiven(user[d]) ELSE AccountIn(fullLine[d], k)
    BY <1>1, <1>3, PrependUser
  <1>7. \A k \in Key : AccountIn(line', k) =
                          IF k \in todo[d] THEN NoUser
                          ELSE IF k = user[d].name THEN AccountGiven(user[d]) ELSE usersMap[k]
    BY <1>4, <1>5, <1>6
  <1>8. LineFollowsMap'
    BY <1>1, <1>7 DEF Lone, LineFollowsMap, KeptLine, Expected, YetToWrite, Writing
  <1>9. NothingLoaded' /\ AckedKept' /\ CopiesLogIn'
    BY <1>1, <1>2 DEF LoneInv, NothingLoaded, AckedKept, CopiesLogIn
  <1>10. InHand'
    BY <1>1 DEF Lone, LoneInv, InHand, Writing
  <1> QED BY <1>8, <1>9, <1>10 DEF LoneInv

\* The user enters the map and is acknowledged: his account is on the line.
LEMMA LoneInsertUser ==
  ASSUME NEW d, Lone(d), IInv, LoneInv, InsertUser(d)
  PROVE  LoneInv'
  <1> SUFFICES ASSUME ~torn' PROVE LoneInv'
    BY DEF LoneInv
  <1> DEFINE n == user[d].name
  <1>1. /\ ~torn /\ d \in Caller /\ line' = line /\ loaded' = loaded
        /\ todo' = todo /\ copy' = copy /\ pc[d] = "insert"
        /\ pc'[d] = IF todo[d] = {} THEN "idle" ELSE "next"
    BY DEF InsertUser, Goto, disk, Lone, IInv, TypeOK
  <1>2. user[d] \in User
    BY <1>1 DEF IInv, TypeOK, Locals, Inside
  <1>3. n \in Key /\ AccountGiven(user[d]) \in Account
    BY <1>2 DEF User, AccountGiven, Account
  <1>4. loaded /\ n \notin todo[d] /\ usersMap[n] \in {NoUser, AccountGiven(user[d])}
    BY <1>1 DEF LoneInv, NothingLoaded, InHand
  <1>5. usersMap' = [usersMap EXCEPT ![n] = AccountGiven(user[d])]
    <2>1. usersMap' = [usersMap EXCEPT ![n] =
             IF usersMap[n] = NoUser THEN AccountGiven(user[d]) ELSE usersMap[n]]
      BY DEF InsertUser, AccountGiven
    <2> QED BY <1>4, <2>1
  <1>6. \A k \in Key : usersMap'[k] = IF k = n THEN AccountGiven(user[d]) ELSE usersMap[k]
    BY <1>5 DEF IInv, TypeOK
  <1>7. \A k \in Key : AccountIn(line, k) =
                          IF k \in todo[d] THEN NoUser
                          ELSE IF k = n THEN AccountGiven(user[d]) ELSE usersMap[k]
    BY <1>1, <1>4 DEF LoneInv, LineFollowsMap, KeptLine, Expected, YetToWrite, Writing
  <1>8. NoUser \notin Account
    BY AccountConstants DEF Account
  <1> HIDE DEF n
  <1>9. LineFollowsMap'
    BY <1>1, <1>4, <1>6, <1>7 DEF Lone, LineFollowsMap, KeptLine, Expected, YetToWrite, Writing
  <1>10. NothingLoaded'
    BY <1>1, <1>4 DEF NothingLoaded
  <1>11. AckedKept'
    <2> SUFFICES ASSUME NEW m \in Name, acked'[m] # NoUser
                 PROVE  SameLogin(acked'[m], usersMap'[m])
      BY <1>1, <1>4 DEF AckedKept
    <2>1. m \in Key
      BY DEF Key
    <2>2. \/ acked'[m] = acked[m]
          \/ m = n /\ acked'[m] = AccountGiven(user[d])
      <3>1. acked' = acked \/ acked' = [acked EXCEPT ![n] = AccountGiven(user[d])]
        BY DEF InsertUser, AccountGiven, n
      <3>2. acked \in [Name -> Account \cup {NoUser}]
        BY DEF IInv, TypeOK
      <3> QED BY <3>1, <3>2
    <2>3. CASE m = n /\ acked'[m] = AccountGiven(user[d])
      BY <1>6, <2>1, <2>3 DEF SameLogin
    <2>4. CASE acked'[m] = acked[m]
      <3>1. SameLogin(acked[m], usersMap[m])
        BY <1>1, <1>4, <2>4 DEF LoneInv, AckedKept
      <3>2. usersMap[m] # NoUser
        BY <2>4, <3>1 DEF SameLogin
      <3>3. usersMap'[m] = usersMap[m]
        BY <1>4, <1>6, <2>1, <3>2
      <3> QED BY <2>4, <3>1, <3>3
    <2> QED BY <2>2, <2>3, <2>4
  <1>12. InHand'
    BY <1>1 DEF Lone, InHand, Writing
  <1>13. CopiesLogIn'
    <2> SUFFICES ASSUME copy[d] # NoUser
                 PROVE  /\ usersMap'[copy[d].name] # NoUser
                        /\ usersMap'[copy[d].name].pass = copy[d].pass
      BY <1>1 DEF Lone, CopiesLogIn
    <2>1. copy[d].name \in Key
      BY <1>1 DEF IInv, TypeOK, Key
    <2>2. usersMap[copy[d].name] # NoUser /\ usersMap[copy[d].name].pass = copy[d].pass
      BY <1>1 DEF LoneInv, CopiesLogIn
    <2>3. usersMap'[copy[d].name] = usersMap[copy[d].name]
      BY <1>4, <1>6, <2>1, <2>2
    <2> QED BY <2>2, <2>3
  <1> QED BY <1>9, <1>10, <1>11, <1>12, <1>13 DEF LoneInv

\* getUserFromMap copies the password the map has.
LEMMA LoneFetchUser ==
  ASSUME NEW d, Lone(d), IInv, LoneInv, NEW n \in Name, FetchUser(d, n)
  PROVE  LoneInv'
  <1> SUFFICES ASSUME ~torn' PROVE LoneInv'
    BY DEF LoneInv
  <1>1. /\ ~torn /\ d \in Caller /\ usersMap[n] # NoUser
        /\ usersMap' = usersMap /\ loaded' = loaded /\ line' = line /\ pc' = pc /\ user' = user
        /\ fullLine' = fullLine /\ todo' = todo /\ acked' = acked
    BY DEF FetchUser, memory, disk, history, Lone
  <1>2. copy'[d] = [name |-> n, pass |-> usersMap[n].pass, score |-> usersMap[n].score]
    BY <1>1 DEF FetchUser, IInv, TypeOK
  <1>3. LineFollowsMap' /\ NothingLoaded' /\ AckedKept' /\ InHand'
    BY <1>1 DEF LoneInv, LineFollowsMap, NothingLoaded, AckedKept, InHand, KeptLine, Expected, YetToWrite
  <1>4. CopiesLogIn'
    BY <1>1, <1>2 DEF Lone, CopiesLogIn
  <1> QED BY <1>3, <1>4 DEF LoneInv

\* setScore changes a score in the map; the passwords still agree with the file.
LEMMA LoneSetScore ==
  ASSUME NEW d, Lone(d), IInv, LoneInv, NEW points \in Points, SetScore(d, points)
  PROVE  LoneInv'
  <1> SUFFICES ASSUME ~torn' PROVE LoneInv'
    BY DEF LoneInv
  <1> DEFINE n == copy[d].name
             a == [pass |-> copy[d].pass, score |-> copy[d].score + points]
  <1>1. /\ ~torn /\ d \in Caller /\ pc[d] = "idle" /\ pc'[d] = "clear" /\ copy[d] # NoUser
        /\ loaded' = loaded /\ line' = line /\ user' = user
        /\ fullLine' = fullLine /\ todo' = todo /\ copy' = copy /\ acked' = acked
    BY DEF SetScore, Goto, disk, Lone, IInv, TypeOK
  <1>2. n \in Key
    BY <1>1 DEF IInv, TypeOK, Key
  <1>3. usersMap[n] # NoUser /\ usersMap[n].pass = a.pass
    BY <1>1 DEF LoneInv, CopiesLogIn
  <1>4. loaded
    BY <1>1, <1>2, <1>3 DEF LoneInv, NothingLoaded
  <1>5. a # NoUser
    <2>1. a \in [pass : Seq(Letter), score : Nat]
      BY <1>1, AccountConstants DEF IInv, TypeOK
    <2> QED BY <2>1, AccountConstants
  <1>6. \A k \in Key : usersMap'[k] = IF k = n THEN a ELSE usersMap[k]
    BY DEF SetScore, IInv, TypeOK
  <1>7. \A k \in Key : SameLogin(usersMap[k], usersMap'[k])
    BY <1>3, <1>5, <1>6 DEF SameLogin
  <1> HIDE DEF n, a
  <1>8. todo[d] = {}
    BY <1>1 DEF LoneInv, InHand
  <1>9. \A k \in Key : AccountIn(line, k) = usersMap[k]
    BY <1>1, <1>4, <1>8 DEF LoneInv, LineFollowsMap, KeptLine, Expected, YetToWrite, Writing
  <1>10. LineFollowsMap'
    BY <1>1, <1>7, <1>9 DEF Lone, LineFollowsMap, SameLogin
  <1>11. NothingLoaded'
    BY <1>1, <1>4 DEF NothingLoaded
  <1>12. AckedKept'
    BY <1>1, <1>4, <1>7 DEF LoneInv, AckedKept, SameLogin, Key
  <1>13. InHand'
    BY <1>1, <1>8 DEF Lone, InHand, Writing
  <1>14. CopiesLogIn'
    <2>1. SameLogin(usersMap[n], usersMap'[n])
      BY <1>2, <1>7
    <2> QED BY <1>1, <1>3, <2>1 DEF Lone, LoneInv, CopiesLogIn, SameLogin, n
  <1> QED BY <1>10, <1>11, <1>12, <1>13, <1>14 DEF LoneInv

\* updateFileFromMap: every user of the map is yet to be written.
LEMMA LoneUpdateClear ==
  ASSUME NEW d, Lone(d), IInv, LoneInv, UpdateClear(d)
  PROVE  LoneInv'
  <1> SUFFICES ASSUME ~torn' PROVE LoneInv'
    BY DEF LoneInv
  <1>1. /\ ~torn /\ d \in Caller /\ pc[d] = "clear" /\ pc'[d] = "next" /\ line' = <<>>
        /\ usersMap' = usersMap /\ loaded' = loaded /\ user' = user
        /\ fullLine' = fullLine /\ copy' = copy /\ acked' = acked
        /\ todo'[d] = {n \in Key : usersMap[n] # NoUser}
    BY DEF UpdateClear, Goto, memory, history, Lone, IInv, TypeOK
  <1>2. loaded
    BY <1>1 DEF LoneInv, NothingLoaded
  <1>3. \A k \in Key : AccountIn(line', k) = NoUser
    BY <1>1, EmptyLine
  <1>4. LineFollowsMap'
    BY <1>1, <1>3 DEF Lone, LineFollowsMap, KeptLine, Expected, YetToWrite, Writing
  <1>5. NothingLoaded' /\ AckedKept' /\ CopiesLogIn'
    BY <1>1, <1>2 DEF LoneInv, NothingLoaded, AckedKept, CopiesLogIn
  <1>6. InHand'
    BY <1>1 DEF Lone, InHand, Writing
  <1> QED BY <1>4, <1>5, <1>6 DEF LoneInv

\* The loop takes the next user from the map.
LEMMA LoneNextUser ==
  ASSUME NEW d, Lone(d), IInv, LoneInv, NEW n \in Key, NextUser(d, n)
  PROVE  LoneInv'
  <1> SUFFICES ASSUME ~torn' PROVE LoneInv'
    BY DEF LoneInv
  <1>1. /\ ~torn /\ d \in Caller /\ pc[d] = "next" /\ pc'[d] = "read" /\ n \in todo[d]
        /\ usersMap' = usersMap /\ loaded' = loaded /\ line' = line
        /\ fullLine' = fullLine /\ copy' = copy /\ acked' = acked
        /\ todo'[d] = todo[d] \ {n}
        /\ user'[d] = [name |-> n, pass |-> usersMap[n].pass, score |-> usersMap[n].score]
    BY DEF NextUser, Goto, memory, disk, history, Lone, IInv, TypeOK
  <1>2. loaded
    BY <1>1 DEF LoneInv, NothingLoaded
  <1>3. usersMap[n] # NoUser /\ usersMap[n] = AccountGiven(user'[d])
    <2>1. usersMap[n] # NoUser /\ usersMap[n] \in Account \cup {NoUser}
      BY <1>1 DEF IInv, TypeOK, Locals
    <2> QED BY <1>1, <2>1 DEF AccountGiven, Account
  <1>4. \A k \in Key : AccountIn(line, k) = IF k \in todo[d] THEN NoUser ELSE usersMap[k]
    BY <1>1, <1>2 DEF LoneInv, LineFollowsMap, KeptLine, Expected, YetToWrite, Writing
  <1>5. todo'[d] \cup {user'[d].name} = todo[d] /\ user'[d].name = n
    BY <1>1
  <1>6. LineFollowsMap'
    BY <1>1, <1>4, <1>5 DEF Lone, LineFollowsMap, KeptLine, Expected, YetToWrite, Writing
  <1>7. NothingLoaded' /\ AckedKept' /\ CopiesLogIn'
    BY <1>1, <1>2 DEF LoneInv, NothingLoaded, AckedKept, CopiesLogIn
  <1>8. InHand'
    BY <1>1, <1>3, <1>5 DEF Lone, InHand, Writing
  <1> QED BY <1>6, <1>7, <1>8 DEF LoneInv

\* A server that is stopped between rewrites leaves a file with every account
\* acknowledged; the next one has loaded nothing of it yet.
LEMMA LoneStop ==
  ASSUME NEW d, Lone(d), IInv, LoneInv, Stop
  PROVE  LoneInv'
  <1> SUFFICES ASSUME ~torn' PROVE LoneInv'
    BY DEF LoneInv
  <1>1. ~torn /\ ~Rewriting(d)
    BY DEF Stop, Lone
  <1>2. /\ ~loaded' /\ line' = line /\ acked' = acked
        /\ usersMap' = [n \in Key |-> NoUser]
        /\ pc' = [c \in Caller |-> "idle"] /\ todo' = [c \in Caller |-> {}]
        /\ copy' = [c \in Caller |-> NoUser]
    BY DEF Stop, disk
  <1>3. AckedKept'
    BY <1>1, <1>2, RestingLine DEF AckedKept
  <1>4. LineFollowsMap' /\ NothingLoaded' /\ InHand' /\ CopiesLogIn'
    BY <1>2 DEF LineFollowsMap, NothingLoaded, InHand, CopiesLogIn, Writing
  <1> QED BY <1>3, <1>4 DEF LoneInv

\* Every step of the lone caller, and Stop, keeps the file readable.
LEMMA NextLoneInv ==
  ASSUME NEW d, Lone(d)
  PROVE  IInv /\ LoneInv /\ [Next]_vars => LoneInv'
  <1> SUFFICES ASSUME IInv, LoneInv, [Next]_vars PROVE LoneInv'
    OBVIOUS
  <1>1. CASE Stop
    BY <1>1, LoneStop
  <1>2. CASE UNCHANGED vars
    BY <1>2 DEF vars, LoneInv, LineFollowsMap, NothingLoaded, AckedKept, InHand, CopiesLogIn,
                KeptLine, Expected, YetToWrite
  <1>3. CASE Step(d)
    BY <1>3, LoneFindUser, LoneReadLine, LoneWriteHead, LoneWriteLine, LoneInsertUser,
       LoneUpdateClear, LoneNextUser DEF Step
  <1>4. CASE Call(d)
    BY <1>4, LoneRegisterUser, LoneFetchUser, LoneSetScore DEF Call
  <1> QED BY <1>1, <1>2, <1>3, <1>4 DEF Next, Lone

\* Both invariants hold of a server with one dispatcher.
THEOREM LoneInvariance ==
  ASSUME NEW d, Lone(d)
  PROVE  Spec => [](IInv /\ LoneInv)
  <1>1. Init => LoneInv
    BY InitLoneInv
  <1>2. IInv /\ LoneInv /\ [Next]_vars => LoneInv'
    BY NextLoneInv
  <1> QED BY <1>1, <1>2, InitIInv, NextIInv, PTL DEF Spec

\* A registration that has returned stays on the disk with its password,
\* whatever writeUser and updateFileFromMap do to the file afterwards and
\* however often the server is restarted, unless it is stopped within a rewrite.
THEOREM AckedStayOnDisk ==
  ASSUME NEW d, Lone(d)
  PROVE  Spec => []AckedOnDisk
  <1>1. IInv /\ LoneInv => AckedOnDisk
    <2> SUFFICES ASSUME IInv, LoneInv, ~torn, \A c \in Caller : ~Rewriting(c),
                        NEW n \in Name, acked[n] # NoUser
                 PROVE  /\ AccountIn(line, n) # NoUser
                        /\ AccountIn(line, n).pass = acked[n].pass
      BY DEF AckedOnDisk
    <2>1. SameLogin(acked[n], AccountIn(line, n))
      BY RestingLine DEF Lone
    <2> QED BY <2>1 DEF SameLogin
  <1> QED BY <1>1, LoneInvariance, PTL

\* Between two calls the map and the users file hold the same accounts.
THEOREM MapFollowsDisk ==
  ASSUME NEW d, Lone(d)
  PROVE  Spec => []MapAgreesWithDisk
  <1>1. IInv /\ LoneInv => MapAgreesWithDisk
    <2> SUFFICES ASSUME LoneInv, loaded, ~torn, Quiet, NEW n \in Name
                 PROVE  usersMap[n] = AccountIn(line, n)
      BY DEF MapAgreesWithDisk
    <2>1. d \in Caller /\ n \in Key /\ pc[d] = "idle"
      BY DEF Lone, Key, Quiet
    <2>2. todo[d] = {}
      BY <2>1 DEF LoneInv, InHand
    <2> QED BY <2>1, <2>2 DEF LoneInv, LineFollowsMap, KeptLine, Expected, YetToWrite, Writing
  <1> QED BY <1>1, LoneInvariance, PTL

\* Whoever has registered logs in with his password and with no other, once
\* his server has read its file; loginUser tells everybody else he is unknown.
THEOREM RegisteredLogIn ==
  ASSUME NEW d, Lone(d)
  PROVE  Spec => []LoginAsRegistered
  <1>1. IInv /\ LoneInv => LoginAsRegistered
    <2> SUFFICES ASSUME IInv, LoneInv, ~torn, NEW n \in Name, NEW p \in Pass, acked[n] # NoUser
                 PROVE  loginUser(n, p) = IF ~loaded THEN "unknown"
                                          ELSE IF p = acked[n].pass THEN "in" ELSE "wrong"
      BY DEF LoginAsRegistered
    <2>1. n \in Key
      BY DEF Key
    <2>2. CASE ~loaded
      BY <2>1, <2>2 DEF LoneInv, NothingLoaded, loginUser
    <2>3. CASE loaded
      <3>1. SameLogin(acked[n], usersMap[n])
        BY <2>3 DEF LoneInv, AckedKept
      <3> QED BY <2>3, <3>1 DEF SameLogin, loginUser
    <2> QED BY <2>2, <2>3 DEF IInv, TypeOK
  <1> QED BY <1>1, LoneInvariance, PTL

-----------------------------------------------------------------------------
(* With a lone caller the account store implements UserStore: WriteLine of  *)
(* a new user is Register, a stop inside a rewrite is Tear, and all other   *)
(* steps leave the durable accounts as they are.                            *)

\* Only a stop tears the file.
LEMMA StepKeepsTorn ==
  ASSUME NEW c, Step(c) \/ Call(c)
  PROVE  torn' = torn
  <1>1. CASE Step(c)
    BY <1>1 DEF Step, FindUser, ReadLine, ClearFile, WriteLen, WriteSpace, WriteLine,
                InsertUser, UpdateClear, NextUser, history
  <1>2. CASE Call(c)
    BY <1>2 DEF Call, RegisterUser, FetchUser, SetScore, history
  <1> QED BY <1>1, <1>2

\* What Durable says when the one caller is d, before a step and after it.
LEMMA LoneDurable ==
  ASSUME NEW d, Lone(d), NEW n
  PROVE  /\ Durable(n) = IF UpdatingBy(d) THEN usersMap[n]
                         ELSE IF pc[d] \in {"len", "space", "line"}
                         THEN AccountIn(fullLine[d], n) ELSE AccountIn(line, n)
         /\ Durable(n)' = IF UpdatingBy(d)' THEN usersMap'[n]
                          ELSE IF pc'[d] \in {"len", "space", "line"}
                          THEN AccountIn(fullLine'[d], n) ELSE AccountIn(line', n)
  <1>1. /\ (\E c \in Caller : UpdatingBy(c)) <=> UpdatingBy(d)
        /\ (\E c \in Caller : UpdatingBy(c)') <=> UpdatingBy(d)'
    BY DEF Lone
  <1>2. ASSUME pc[d] \in {"len", "space", "line"}
        PROVE  (CHOOSE c \in Caller : pc[c] \in {"len", "space", "line"}) = d
    BY <1>2 DEF Lone
  <1>3. ASSUME pc'[d] \in {"len", "space", "line"}
        PROVE  (CHOOSE c \in Caller : pc'[c] \in {"len", "space", "line"}) = d
    BY <1>3 DEF Lone
  <1>4. Durable(n) = IF UpdatingBy(d) THEN usersMap[n]
                     ELSE IF pc[d] \in {"len", "space", "line"}
                     THEN AccountIn(fullLine[d], n) ELSE AccountIn(line, n)
    BY <1>1, <1>2 DEF Durable, Lone
  <1>5. Durable(n)' = IF UpdatingBy(d)' THEN usersMap'[n]
                      ELSE IF pc'[d] \in {"len", "space", "line"}
                      THEN AccountIn(fullLine'[d], n) ELSE AccountIn(line', n)
    BY <1>1, <1>3 DEF Durable, Lone
  <1> QED BY <1>4, <1>5

\* Scores apart, no account changes.
SameLogins == \A n \in Name : SameLogin(Durable(n), Durable(n)')

\* Steps that leave the passwords alone leave the abstract accounts alone.
LEMMA SameIsStutter ==
  ASSUME SameLogins
  PROVE  durableAccounts' = durableAccounts
  BY DEF SameLogins, SameLogin, durableAccounts

\* registerUser and the reading of the file.
LEMMA DurableBeforeWrite ==
  ASSUME NEW d, Lone(d), IInv, LoneInv, ~torn,
         \/ \E n \in Name, p \in Pass : RegisterUser(d, n, p)
         \/ FindUser(d) \/ ReadLine(d)
  PROVE  SameLogins
  <1> SUFFICES ASSUME NEW n \in Name PROVE Durable(n)' = Durable(n)
    BY DEF SameLogins, SameLogin
  <1>1. d \in Caller /\ n \in Key
    BY DEF Lone, Key
  <1>2. CASE \E m \in Name, p \in Pass : RegisterUser(d, m, p)
    <2>1. pc[d] = "idle" /\ pc'[d] = "find" /\ line' = line
      BY <1>1, <1>2 DEF RegisterUser, readUsers, Goto, disk, IInv, TypeOK
    <2> QED BY <2>1, LoneDurable DEF UpdatingBy
  <1>3. CASE FindUser(d)
    <2>1. /\ pc[d] = "find" /\ line' = line /\ usersMap' = usersMap
          /\ \/ pc'[d] = "idle"
             \/ pc'[d] = "read" /\ user'[d] = user[d] /\ usersMap[user[d].name] = NoUser
      BY <1>1, <1>3 DEF FindUser, Goto, memory, disk, IInv, TypeOK
    <2> QED BY <2>1, LoneDurable DEF UpdatingBy
  <1>4. CASE ReadLine(d)
    <2>1. /\ pc[d] = "read" /\ pc'[d] = "lock" /\ line' = line /\ user' = user
          /\ mutex = NoCaller /\ readUsers
      BY <1>1, <1>4 DEF ReadLine, readUsers, Goto, disk, IInv, TypeOK
    <2>2. loaded /\ usersMap' \in MapType /\ usersMap \in MapType
      BY <1>1, <2>1, LoneRead DEF LoneInv, NothingLoaded, MapType, IInv, TypeOK
    <2>3. \A k \in Key : usersMap'[k] = usersMap[k]
      BY <2>1, <2>2, LoneRead
    <2>4. usersMap' = usersMap
      BY <2>2, <2>3 DEF MapType
    <2> QED BY <2>1, <2>4, LoneDurable DEF UpdatingBy
  <1> QED BY <1>2, <1>3, <1>4

\* writeUser up to the line itself: the old line is in its hands.
LEMMA DurableWhileWriting ==
  ASSUME NEW d, Lone(d), IInv, LoneInv, ~torn, ClearFile(d) \/ WriteLen(d) \/ WriteSpace(d)
  PROVE  SameLogins
  <1> SUFFICES ASSUME NEW n \in Name PROVE Durable(n)' = Durable(n)
    BY DEF SameLogins, SameLogin
  <1>1. /\ d \in Caller /\ usersMap' = usersMap /\ user' = user /\ fullLine' = fullLine
        /\ pc[d] \in {"lock", "len", "space"} /\ pc'[d] \in {"len", "space", "line"}
    BY DEF ClearFile, WriteLen, WriteSpace, Goto, memory, disk, Lone, IInv, TypeOK
  <1>2. pc[d] = "lock" => fullLine[d] = line
    BY <1>1 DEF LoneInv, InHand
  <1> QED BY <1>1, <1>2, LoneDurable DEF UpdatingBy

\* The line with the new user is the step that registers him.
LEMMA DurableRegister ==
  ASSUME NEW d, Lone(d), IInv, LoneInv, ~torn, WriteLine(d)
  PROVE  Store!Next \/ durableAccounts' = durableAccounts
  <1>1. /\ d \in Caller /\ usersMap' = usersMap /\ user' = user
        /\ pc[d] = "line" /\ pc'[d] = "insert"
        /\ line' = <<EntryOf(user[d])>> \o fullLine[d]
    BY DEF WriteLine, Goto, memory, Lone, IInv, TypeOK
  <1>2. user[d] \in User /\ fullLine[d] \in Seq(Entry) /\ loaded
    BY <1>1 DEF IInv, TypeOK, Locals, Inside, LoneInv, NothingLoaded
  <1>3. CASE usersMap[user[d].name] # NoUser
    <2>1. \A n \in Name : Durable(n)' = Durable(n)
      BY <1>1, <1>3, LoneDurable DEF UpdatingBy
    <2> QED BY <2>1, SameIsStutter DEF SameLogins, SameLogin
  <1>4. CASE usersMap[user[d].name] = NoUser
    <2> DEFINE m == user[d].name
               p == user[d].pass
    <2>1. m \in Name /\ p \in Pass /\ m \in Key
      BY <1>1, <1>4 DEF LoneInv, InHand, Writing, Key
    <2>2. \A n \in Name : /\ Durable(n) = AccountIn(fullLine[d], n)
                          /\ Durable(n)' = AccountIn(line', n)
      BY <1>1, <1>4, LoneDurable DEF UpdatingBy
    <2>3. AccountIn(fullLine[d], m) = NoUser
      BY <1>1, <1>2, <2>1 DEF LoneInv, LineFollowsMap, KeptLine, Expected, YetToWrite, Writing
    <2>4. \A n \in Name : AccountIn(line', n) =
                             IF n = m THEN AccountGiven(user[d]) ELSE AccountIn(fullLine[d], n)
      BY <1>1, <1>2, PrependUser DEF Key
    <2>5. AccountGiven(user[d]) # NoUser /\ AccountGiven(user[d]).pass = p
      BY <1>2, AccountConstants DEF AccountGiven, User
    <2>6. durableAccounts[m] = NoUser
      BY <2>1, <2>2, <2>3 DEF durableAccounts
    <2>7. durableAccounts' = [durableAccounts EXCEPT ![m] = p]
      <3>1. \A n \in Name : durableAccounts'[n] = IF n = m THEN p ELSE durableAccounts[n]
        BY <2>2, <2>4, <2>5 DEF durableAccounts
      <3> HIDE DEF m, p
      <3>2. /\ durableAccounts' = [n \in Name |-> durableAccounts'[n]]
            /\ durableAccounts = [n \in Name |-> durableAccounts[n]]
        BY DEF durableAccounts
      <3> QED BY <3>1, <3>2
    <2>8. Store!Register(m, p)
      <3>1. torn' = torn
        BY DEF WriteLine, history
      <3> QED BY <2>6, <2>7, <3>1 DEF Store!Register
    <2> QED BY <2>1, <2>8 DEF Store!Next
  <1> QED BY <1>3, <1>4

\* The end of writeUser, and the calls that rewrite every user.
LEMMA DurableInMap ==
  ASSUME NEW d, Lone(d), IInv, LoneInv, ~torn,
         \/ InsertUser(d) \/ UpdateClear(d)
         \/ \E n \in Key : NextUser(d, n)
         \/ \E n \in Name : FetchUser(d, n)
         \/ \E points \in Points : SetScore(d, points)
  PROVE  SameLogins
  <1> SUFFICES ASSUME NEW n \in Name PROVE SameLogin(Durable(n), Durable(n)')
    BY DEF SameLogins
  <1>1. d \in Caller /\ n \in Key
    BY DEF Lone, Key
  <1>2. CASE InsertUser(d)
    <2>1. /\ pc[d] = "insert" /\ line' = line
          /\ pc'[d] = IF todo[d] = {} THEN "idle" ELSE "next"
      BY <1>1, <1>2 DEF InsertUser, Goto, disk, IInv, TypeOK
    <2>2. loaded /\ (usersMap[user[d].name] = NoUser => todo[d] = {})
          /\ usersMap[user[d].name] \in {NoUser, AccountGiven(user[d])}
      BY <1>1, <2>1 DEF LoneInv, NothingLoaded, InHand
    <2>3. CASE usersMap[user[d].name] = NoUser
      BY <2>1, <2>2, <2>3, LoneDurable DEF UpdatingBy, SameLogin
    <2>4. CASE usersMap[user[d].name] # NoUser
      <3>1. usersMap' = usersMap
        BY <1>2, <2>4 DEF InsertUser, IInv, TypeOK
      <3>2. todo[d] = {} => AccountIn(line, n) = usersMap[n]
        BY <1>1, <2>1, <2>2, <2>4
           DEF LoneInv, LineFollowsMap, KeptLine, Expected, YetToWrite, Writing
      <3> QED BY <2>1, <2>4, <3>1, <3>2, LoneDurable DEF UpdatingBy, SameLogin
    <2> QED BY <2>3, <2>4
  <1>3. CASE UpdateClear(d)
    <2>1. pc[d] = "clear" /\ pc'[d] = "next" /\ usersMap' = usersMap
      BY <1>1, <1>3 DEF UpdateClear, Goto, memory, IInv, TypeOK
    <2> QED BY <2>1, LoneDurable DEF UpdatingBy, SameLogin
  <1>4. ASSUME NEW m \in Key, NextUser(d, m) PROVE SameLogin(Durable(n), Durable(n)')
    <2>1. /\ pc[d] = "next" /\ pc'[d] = "read" /\ usersMap' = usersMap
          /\ user'[d].name = m /\ m \in todo[d]
      BY <1>1, <1>4 DEF NextUser, Goto, memory, IInv, TypeOK
    <2>2. usersMap[m] # NoUser
      BY <1>1, <2>1 DEF IInv, Locals
    <2> QED BY <2>1, <2>2, LoneDurable DEF UpdatingBy, SameLogin
  <1>5. ASSUME NEW m \in Name, FetchUser(d, m) PROVE SameLogin(Durable(n), Durable(n)')
    <2>1. pc[d] = "idle" /\ pc' = pc /\ line' = line
      BY <1>5 DEF FetchUser, disk
    <2> QED BY <2>1, LoneDurable DEF UpdatingBy, SameLogin
  <1>6. ASSUME NEW points \in Points, SetScore(d, points)
        PROVE  SameLogin(Durable(n), Durable(n)')
    <2> DEFINE m == copy[d].name
               a == [pass |-> copy[d].pass, score |-> copy[d].score + points]
    <2>1. pc[d] = "idle" /\ pc'[d] = "clear" /\ copy[d] # NoUser /\ usersMap[m] # NoUser
      BY <1>1, <1>6 DEF SetScore, Goto, IInv, TypeOK
    <2>2. m \in Key /\ a # NoUser /\ usersMap[m].pass = a.pass
      <3>1. copy[d] \in [name : Name, pass : Seq(Letter), score : Nat]
        BY <1>1, <2>1 DEF IInv, TypeOK
      <3>2. a \in [pass : Seq(Letter), score : Nat]
        BY <3>1, AccountConstants
      <3>3. usersMap[m].pass = copy[d].pass
        BY <1>1, <2>1 DEF LoneInv, CopiesLogIn
      <3> QED BY <3>1, <3>2, <3>3, AccountConstants DEF Key
    <2>3. usersMap'[n] = IF n = m THEN a ELSE usersMap[n]
      BY <1>1, <1>6 DEF SetScore, IInv, TypeOK
    <2> HIDE DEF m, a
    <2>4. loaded /\ todo[d] = {}
      BY <1>1, <2>1, <2>2 DEF LoneInv, NothingLoaded, InHand
    <2>5. AccountIn(line, n) = usersMap[n]
      BY <1>1, <2>1, <2>4 DEF LoneInv, LineFollowsMap, KeptLine, Expected, YetToWrite, Writing
    <2>6. Durable(n) = usersMap[n] /\ Durable(n)' = usersMap'[n]
      BY <2>1, <2>5, LoneDurable DEF UpdatingBy
    <2> QED BY <2>1, <2>2, <2>3, <2>6 DEF SameLogin
  <1> QED BY <1>2, <1>3, <1>4, <1>5, <1>6

\* A server stopped between rewrites leaves all durable accounts in the file.
LEMMA DurableStop ==
  ASSUME NEW d, Lone(d), IInv, LoneInv, ~torn, ~Rewriting(d), Stop
  PROVE  SameLogins
  <1> SUFFICES ASSUME NEW n \in Name PROVE SameLogin(Durable(n), Durable(n)')
    BY DEF SameLogins
  <1>1. d \in Caller /\ n \in Key
    BY DEF Lone, Key
  <1>2. pc'[d] = "idle" /\ line' = line
    BY <1>1 DEF Stop, disk
  <1>3. Durable(n)' = AccountIn(line, n)
    BY <1>2, LoneDurable DEF UpdatingBy
  <1>4. todo[d] = {} /\ pc[d] \notin {"len", "space", "line", "next"}
    BY DEF Rewriting
  <1>5. CASE ~UpdatingBy(d)
    BY <1>3, <1>4, <1>5, LoneDurable DEF SameLogin
  <1>6. CASE UpdatingBy(d)
    <2>1. Durable(n) = usersMap[n]
      BY <1>6, LoneDurable
    <2>2. pc[d] = "clear" \/ (pc[d] = "insert" /\ usersMap[user[d].name] # NoUser)
      BY <1>4, <1>6 DEF UpdatingBy, Rewriting
    <2>3. loaded
      BY <1>1, <2>2 DEF LoneInv, NothingLoaded
    <2>4. CASE pc[d] = "clear"
      BY <1>1, <1>3, <2>1, <2>3, <2>4 DEF LoneInv, LineFollowsMap
    <2>5. CASE pc[d] = "insert" /\ usersMap[user[d].name] # NoUser
      <3>1. usersMap[user[d].name] = AccountGiven(user[d])
        BY <1>1, <2>5 DEF LoneInv, InHand
      <3>2. AccountIn(line, n) = usersMap[n]
        BY <1>1, <1>4, <2>3, <2>5, <3>1
           DEF LoneInv, LineFollowsMap, KeptLine, Expected, YetToWrite, Writing
      <3> QED BY <1>3, <2>1, <3>2 DEF SameLogin
    <2> QED BY <2>2, <2>4, <2>5
  <1> QED BY <1>5, <1>6

\* The accounts that survive are a UserStore, for every set of names and
\* passwords and wherever the server is stopped: a name is registered once and
\* for all, with one password, and neither setScore nor a restart changes that,
\* until a stop inside a rewrite tears the file.
THEOREM RegistrationsLast ==
  ASSUME NEW d, Lone(d)
  PROVE  Spec => ImplementsUserStore
  <1>1. Init => Store!Init
    <2> SUFFICES ASSUME Init, NEW n \in Name PROVE Durable(n) = NoUser
      BY DEF Init, Store!Init, Store!Unregistered, durableAccounts
    <2>1. d \in Caller /\ n \in Key
      BY DEF Lone, Key
    <2>2. pc[d] = "idle" /\ line = <<>>
      BY <2>1 DEF Init
    <2> QED BY <2>1, <2>2, LoneDurable, EmptyLine DEF UpdatingBy
  <1>2. IInv /\ LoneInv /\ [Next]_vars => [Store!Next]_<<durableAccounts, torn>>
    <2>0. torn' => Store!Next
      BY DEF Store!Next, Store!Tear
    <2> SUFFICES ASSUME IInv, LoneInv, ~torn', [Next]_vars
                 PROVE  Store!Next \/ (durableAccounts' = durableAccounts /\ torn' = torn)
      BY <2>0
    <2>1. CASE Stop
      <3>1. ~torn /\ ~Rewriting(d) /\ (~torn' /\ ~torn => torn' = torn)
        BY <2>1 DEF Stop, Lone, IInv, TypeOK
      <3> QED BY <2>1, <3>1, DurableStop, SameIsStutter
    <2>2. CASE UNCHANGED vars
      BY <2>2 DEF vars, durableAccounts, Durable, UpdatingBy
    <2>3. CASE Step(d)
      <3>1. ~torn /\ torn' = torn
        BY <2>3, StepKeepsTorn
      <3> QED BY <2>3, <3>1, DurableBeforeWrite, DurableWhileWriting, DurableRegister,
                 DurableInMap, SameIsStutter DEF Step
    <2>4. CASE Call(d)
      <3>1. ~torn /\ torn' = torn
        BY <2>4, StepKeepsTorn
      <3> QED BY <2>4, <3>1, DurableBeforeWrite, DurableInMap, SameIsStutter DEF Call
    <2> QED BY <2>1, <2>2, <2>3, <2>4 DEF Next, Lone
  <1> QED BY <1>1, <1>2, LoneInvariance, PTL DEF Spec, ImplementsUserStore, Store!Spec

-----------------------------------------------------------------------------
(* What of CallsReturn needs no fairness: each step of a call takes it      *)
(* nearer to its end, and as long as a call is under way some caller is not *)
(* blocked.                                                                 *)

UsersInMap == {n \in Key : usersMap[n] # NoUser}

\* The loop of updateFileFromMap has something to write when it begins.
LoopHasUsers ==
    \A c \in Caller : /\ pc[c] = "clear" => UsersInMap # {}
                      /\ pc[c] = "next" => todo[c] # {}

EndInv == IsFiniteSet(UsersInMap) /\ LoopHasUsers

PlaceInCall ==
    [idle |-> 0, next |-> 2, insert |-> 3, line |-> 4, space |-> 5, len |-> 6, lock |-> 7,
     read |-> 8, find |-> 9, clear |-> 10]

\* Every user that is yet to be written is a pass through writeUser.
StepsLeft(c) ==
    10 * Cardinality(IF pc[c] = "clear" THEN UsersInMap ELSE todo[c]) + PlaceInCall[pc[c]]

\* The guards of Step(c); a readUsers has an outcome in every state, if an
\* uninitialised int holds anything at all.
Unblocked(c) ==
    \/ pc[c] \in {"find", "len", "space", "line", "insert", "clear"}
    \/ pc[c] \in {"read", "lock"} /\ mutex = NoCaller
    \/ pc[c] = "next" /\ todo[c] # {}

\* However long the line, it adds finitely many users to the map.
LEMMA LoadedFinite ==
  ASSUME NEW map \in MapType, NEW l \in Seq(Entry),
         IsFiniteSet({n \in Key : map[n] # NoUser})
  PROVE  IsFiniteSet({n \in Key : LoadedMap(map, l)[n] # NoUser})
  <1> DEFINE Names == {l[i].name : i \in 1..Len(l)}
             Old == {n \in Key : map[n] # NoUser}
             New == {n \in Key : LoadedMap(map, l)[n] # NoUser}
  <1>1. IsFiniteSet(Names)
    <2>1. IsFiniteSet(1..Len(l))
      BY FS_Interval
    <2> DEFINE f == [i \in 1..Len(l) |-> l[i].name]
    <2>2. f \in Surjection(1..Len(l), Names)
      BY DEF Surjection
    <2> QED BY <2>1, <2>2, FS_Surjection
  <1>2. IsFiniteSet(Names \cup Old)
    BY <1>1, FS_Union
  <1>3. New \subseteq Names \cup Old
    BY DEF LoadedMap, PlacesOf
  <1> QED BY <1>2, <1>3, FS_Subset

\* The map stays finite whatever is read.
LEMMA ReadFinite ==
  ASSUME TypeOK, IsFiniteSet(UsersInMap), readUsers
  PROVE  IsFiniteSet(UsersInMap)'
  <1>1. usersMap \in MapType /\ line \in Seq(Entry)
    BY DEF TypeOK, MapType
  <1>2. CASE usersMap' = LoadedMap(usersMap, line)
    BY <1>1, <1>2, LoadedFinite DEF UsersInMap
  <1>3. CASE \E g \in Garbage : usersMap' = PhantomMap(usersMap, g)
    <2>1. UsersInMap' \subseteq UsersInMap \cup {EmptyName}
      BY <1>1, <1>3 DEF UsersInMap, PhantomMap, MapType
    <2>2. IsFiniteSet(UsersInMap \cup {EmptyName})
      BY FS_AddElement
    <2> QED BY <2>1, <2>2, FS_Subset
  <1> QED BY <1>2, <1>3 DEF readUsers

\* The server starts without users and without a call.
LEMMA InitEndInv == Init => EndInv
  <1> SUFFICES ASSUME Init PROVE EndInv
    OBVIOUS
  <1>1. UsersInMap = {}
    BY DEF Init, UsersInMap
  <1> QED BY <1>1, FS_EmptySet DEF Init, EndInv, LoopHasUsers

\* Every step, and Stop, keeps the map finite and the loop's list not empty.
LEMMA NextEndInv == IInv /\ EndInv /\ [Next]_vars => EndInv'
  <1> SUFFICES ASSUME IInv, EndInv, [Next]_vars PROVE EndInv'
    OBVIOUS
  <1>1. ASSUME NEW c \in Caller, NEW n \in Name, NEW p \in Pass, RegisterUser(c, n, p) PROVE EndInv'
    <2>1. IsFiniteSet(UsersInMap)' /\ UsersInMap \subseteq UsersInMap'
      BY <1>1, ReadFinite, ReadUsersStep DEF RegisterUser, IInv, EndInv, UsersInMap
    <2> QED BY <1>1, <2>1 DEF RegisterUser, Goto, IInv, TypeOK, EndInv, LoopHasUsers
  <1>2. ASSUME NEW c \in Caller, ReadLine(c) PROVE EndInv'
    <2>1. IsFiniteSet(UsersInMap)' /\ UsersInMap \subseteq UsersInMap'
      BY <1>2, ReadFinite, ReadUsersStep DEF ReadLine, IInv, EndInv, UsersInMap
    <2> QED BY <1>2, <2>1 DEF ReadLine, Goto, IInv, TypeOK, EndInv, LoopHasUsers
  <1>3. ASSUME NEW c \in Caller,
               \/ FindUser(c) \/ ClearFile(c) \/ WriteLen(c) \/ WriteSpace(c) \/ WriteLine(c)
               \/ \E n \in Name : FetchUser(c, n)
               \/ \E n \in Key : NextUser(c, n)
        PROVE  EndInv'
    <2>1. UsersInMap' = UsersInMap
      BY <1>3 DEF UsersInMap, FindUser, ClearFile, WriteLen, WriteSpace, WriteLine, FetchUser,
                  NextUser, memory
    <2> QED BY <1>3, <2>1 DEF FindUser, ClearFile, WriteLen, WriteSpace, WriteLine, FetchUser,
               NextUser, Goto, IInv, TypeOK, EndInv, LoopHasUsers
  <1>4. ASSUME NEW c \in Caller, InsertUser(c) PROVE EndInv'
    <2>1. UsersInMap' \subseteq UsersInMap \cup {user[c].name}
      BY <1>4 DEF InsertUser, UsersInMap, IInv, TypeOK
    <2>2. UsersInMap \subseteq UsersInMap'
      <3>1. user[c] \in User
        BY <1>4 DEF InsertUser, IInv, TypeOK, Locals, Inside
      <3>2. [pass |-> user[c].pass, score |-> user[c].score] # NoUser
        BY <3>1, AccountConstants DEF User
      <3> QED BY <1>4, <3>2 DEF InsertUser, UsersInMap, IInv, TypeOK
    <2>3. IsFiniteSet(UsersInMap \cup {user[c].name})
      BY FS_AddElement DEF EndInv
    <2>4. IsFiniteSet(UsersInMap)'
      BY <2>1, <2>3, FS_Subset
    <2> QED BY <1>4, <2>2, <2>4 DEF InsertUser, Goto, IInv, TypeOK, EndInv, LoopHasUsers
  <1>5. ASSUME NEW c \in Caller, NEW points \in Points, SetScore(c, points) PROVE EndInv'
    <2>1. copy[c] \in [name : Name, pass : Seq(Letter), score : Nat]
      BY <1>5 DEF SetScore, IInv, TypeOK
    <2>2. [pass |-> copy[c].pass, score |-> copy[c].score + points] # NoUser
      BY <2>1, AccountConstants
    <2>3. UsersInMap' = UsersInMap /\ copy[c].name \in UsersInMap
      BY <1>5, <2>1, <2>2 DEF SetScore, UsersInMap, IInv, TypeOK, Key
    <2> QED BY <1>5, <2>3 DEF SetScore, Goto, IInv, TypeOK, EndInv, LoopHasUsers
  <1>6. ASSUME NEW c \in Caller, UpdateClear(c) PROVE EndInv'
    <2>1. UsersInMap' = UsersInMap /\ todo' = [todo EXCEPT ![c] = UsersInMap]
      BY <1>6 DEF UpdateClear, UsersInMap, memory
    <2> QED BY <1>6, <2>1 DEF UpdateClear, Goto, IInv, TypeOK, EndInv, LoopHasUsers
  <1>7. CASE Stop
    <2>1. UsersInMap' = {}
      BY <1>7 DEF Stop, UsersInMap
    <2> QED BY <1>7, <2>1, FS_EmptySet DEF Stop, EndInv, LoopHasUsers
  <1>8. CASE UNCHANGED vars
    BY <1>8 DEF vars, EndInv, LoopHasUsers, UsersInMap
  <1> QED BY <1>1, <1>2, <1>3, <1>4, <1>5, <1>6, <1>7, <1>8 DEF Next, Step, Call

UsersLeft(c) == IF pc[c] = "clear" THEN UsersInMap ELSE todo[c]

\* The steps that are left can be counted, before a step and after it.
LEMMA StepsLeftNat ==
  ASSUME IInv, EndInv, IInv', EndInv', NEW c \in Caller
  PROVE  /\ IsFiniteSet(UsersLeft(c)) /\ IsFiniteSet(UsersLeft(c))'
         /\ StepsLeft(c) \in Nat /\ StepsLeft(c)' \in Nat
  <1>1. todo[c] \in SUBSET UsersInMap /\ IsFiniteSet(UsersInMap)
    BY DEF IInv, TypeOK, Locals, UsersInMap, EndInv
  <1>2. todo'[c] \in SUBSET UsersInMap' /\ IsFiniteSet(UsersInMap)'
    BY DEF IInv, TypeOK, Locals, UsersInMap, EndInv
  <1>3. IsFiniteSet(UsersLeft(c)) /\ IsFiniteSet(UsersLeft(c))'
    BY <1>1, <1>2, FS_Subset DEF UsersLeft
  <1>4. Cardinality(UsersLeft(c)) \in Nat /\ Cardinality(UsersLeft(c))' \in Nat
    BY <1>3, FS_CardinalityType
  <1>5. PlaceInCall[pc[c]] \in Nat /\ PlaceInCall[pc[c]]' \in Nat
    <2>1. pc[c] \in Label /\ pc'[c] \in Label
      BY DEF IInv, TypeOK
    <2> QED BY <2>1 DEF Label, PlaceInCall
  <1> QED BY <1>3, <1>4, <1>5 DEF StepsLeft, UsersLeft

\* Fewer users are left, or as many at a later place of the call.
LEMMA StepGoesDown ==
  ASSUME IInv, EndInv, IInv', EndInv', NEW c \in Caller, Step(c)
  PROVE  StepsLeft(c)' < StepsLeft(c)
  <1> DEFINE u == Cardinality(UsersLeft(c))
             v == Cardinality(UsersLeft(c))'
             p == PlaceInCall[pc[c]]
             q == PlaceInCall[pc'[c]]
  <1>1. IsFiniteSet(UsersLeft(c)) /\ u \in Nat /\ v \in Nat
    BY StepsLeftNat, FS_CardinalityType
  <1>2. StepsLeft(c) = 10 * u + p /\ StepsLeft(c)' = 10 * v + q
    BY DEF StepsLeft, UsersLeft
  <1>3. CASE FindUser(c) \/ ReadLine(c) \/ ClearFile(c) \/ WriteLen(c) \/ WriteSpace(c)
             \/ WriteLine(c) \/ InsertUser(c)
    <2>1. todo' = todo /\ pc[c] # "clear" /\ pc'[c] # "clear"
      BY <1>3 DEF FindUser, ReadLine, ClearFile, WriteLen, WriteSpace, WriteLine, InsertUser,
                  Goto, IInv, TypeOK
    <2>2. UsersLeft(c)' = UsersLeft(c)
      BY <2>1 DEF UsersLeft
    <2>3. \/ pc[c] = "find" /\ pc'[c] \in {"idle", "read"}
          \/ pc[c] = "read" /\ pc'[c] = "lock"
          \/ pc[c] = "lock" /\ pc'[c] = "len"
          \/ pc[c] = "len" /\ pc'[c] = "space"
          \/ pc[c] = "space" /\ pc'[c] = "line"
          \/ pc[c] = "line" /\ pc'[c] = "insert"
          \/ pc[c] = "insert" /\ pc'[c] \in {"idle", "next"}
      BY <1>3 DEF FindUser, ReadLine, ClearFile, WriteLen, WriteSpace, WriteLine, InsertUser,
                  Goto, IInv, TypeOK
    <2>4. p \in Nat /\ q \in Nat /\ q < p
      BY <2>3 DEF PlaceInCall
    <2>5. v = u
      BY <2>2
    <2> HIDE DEF u, v, p, q
    <2> QED BY <1>1, <1>2, <2>4, <2>5
  <1>4. CASE UpdateClear(c)
    <2>1. /\ pc[c] = "clear" /\ pc'[c] = "next" /\ todo'[c] = UsersInMap
      BY <1>4 DEF UpdateClear, Goto, UsersInMap, IInv, TypeOK
    <2>2. UsersLeft(c)' = UsersLeft(c)
      BY <2>1 DEF UsersLeft
    <2>3. v = u /\ p = 10 /\ q = 2
      BY <2>1, <2>2 DEF PlaceInCall
    <2> HIDE DEF u, v, p, q
    <2> QED BY <1>1, <1>2, <2>3
  <1>5. ASSUME NEW n \in Key, NextUser(c, n) PROVE StepsLeft(c)' < StepsLeft(c)
    <2>1. /\ pc[c] = "next" /\ pc'[c] = "read" /\ n \in todo[c] /\ todo'[c] = todo[c] \ {n}
      BY <1>5 DEF NextUser, Goto, IInv, TypeOK
    <2>2. n \in UsersLeft(c) /\ UsersLeft(c)' = UsersLeft(c) \ {n}
      BY <2>1 DEF UsersLeft
    <2>3. v = u - 1
      BY <1>1, <2>2, FS_RemoveElement
    <2>4. p = 2 /\ q = 8
      BY <2>1 DEF PlaceInCall
    <2> HIDE DEF u, v, p, q
    <2> QED BY <1>1, <1>2, <2>3, <2>4
  <1> QED BY <1>3, <1>4, <1>5 DEF Step

\* What another caller does, and what a stop does, adds no steps to a call.
LEMMA OthersWait ==
  ASSUME IInv, EndInv, IInv', EndInv', Next, NEW c \in Caller, pc[c] # "idle", ~Step(c)
  PROVE  StepsLeft(c)' <= StepsLeft(c)
  <1>1. StepsLeft(c) \in Nat /\ StepsLeft(c)' \in Nat
    BY StepsLeftNat
  <1>2. CASE Stop
    <2>1. pc'[c] = "idle" /\ todo'[c] = {}
      BY <1>2 DEF Stop
    <2>2. UsersLeft(c)' = {}
      BY <2>1 DEF UsersLeft
    <2>3. StepsLeft(c)' = 0
      BY <2>1, FS_EmptySet DEF StepsLeft, PlaceInCall
    <2> QED BY <1>1, <2>3
  <1>3. ASSUME NEW b \in Caller, Step(b) \/ Call(b) PROVE StepsLeft(c)' <= StepsLeft(c)
    <2>1. b # c
      BY <1>3 DEF Call, RegisterUser, FetchUser, SetScore
    <2>2. pc[c] # "clear"
      BY <2>1, AccountConstants DEF IInv, Locals
    <2>3. pc'[c] = pc[c] /\ todo'[c] = todo[c]
      BY <1>3, <2>1 DEF Step, Call, RegisterUser, FetchUser, SetScore, FindUser, ReadLine,
           ClearFile, WriteLen, WriteSpace, WriteLine, InsertUser, UpdateClear, NextUser, Goto,
           IInv, TypeOK
    <2>4. StepsLeft(c)' = StepsLeft(c)
      BY <2>2, <2>3 DEF StepsLeft
    <2> QED BY <1>1, <2>4
  <1> QED BY <1>2, <1>3 DEF Next

\* A step of a call leaves fewer steps of it, and what others do no more:
\* registerUser and setScore take finitely many steps for any number of users,
\* callers and restarts.
THEOREM CallsGoDown ==
  Spec => [][\A c \in Caller :
                /\ StepsLeft(c) \in Nat /\ StepsLeft(c)' \in Nat
                /\ pc[c] # "idle" => StepsLeft(c)' <= StepsLeft(c)
                /\ Step(c) => StepsLeft(c)' < StepsLeft(c)]_vars
  <1> DEFINE Down(c) == /\ StepsLeft(c) \in Nat /\ StepsLeft(c)' \in Nat
                        /\ pc[c] # "idle" => StepsLeft(c)' <= StepsLeft(c)
                        /\ Step(c) => StepsLeft(c)' < StepsLeft(c)
  <1>1. Init => EndInv
    BY InitEndInv
  <1>2. IInv /\ EndInv /\ [Next]_vars => EndInv'
    BY NextEndInv
  <1>3. IInv /\ EndInv /\ IInv' /\ EndInv' /\ Next => \A c \in Caller : Down(c)
    <2> SUFFICES ASSUME IInv, EndInv, IInv', EndInv', Next, NEW c \in Caller
                 PROVE  Down(c)
      OBVIOUS
    <2>1. StepsLeft(c) \in Nat /\ StepsLeft(c)' \in Nat
      BY StepsLeftNat
    <2>2. Step(c) => StepsLeft(c)' < StepsLeft(c)
      BY StepGoesDown
    <2>3. pc[c] # "idle" => StepsLeft(c)' <= StepsLeft(c)
      BY <2>1, <2>2, OthersWait
    <2> QED BY <2>1, <2>2, <2>3
  <1> QED BY <1>1, <1>2, <1>3, Invariance, PTL DEF Spec

\* As long as a call is under way, some caller can go on: writeUser does not
\* ask for the mutex while it has it, and the loop of updateFileFromMap is
\* never entered with nothing to write.
THEOREM SomebodyGoesOn ==
  Spec => []((\E c \in Caller : pc[c] # "idle") => \E c \in Caller : Unblocked(c))
  <1>1. Init => EndInv
    BY InitEndInv
  <1>2. IInv /\ EndInv /\ [Next]_vars => EndInv'
    BY NextEndInv
  <1>3. IInv /\ EndInv => ((\E c \in Caller : pc[c] # "idle") => \E c \in Caller : Unblocked(c))
    <2> SUFFICES ASSUME IInv, EndInv, NEW c \in Caller, pc[c] # "idle"
                 PROVE  \E b \in Caller : Unblocked(b)
      OBVIOUS
    <2>1. CASE mutex = NoCaller
      BY <2>1 DEF IInv, TypeOK, Label, EndInv, LoopHasUsers, Unblocked
    <2>2. CASE mutex \in Caller
      BY <2>2 DEF IInv, MutexHolder, Inside, Unblocked
    <2> QED BY <2>1, <2>2 DEF IInv, TypeOK
  <1> QED BY <1>1, <1>2, <1>3, Invariance, PTL DEF Spec
=============================================================================

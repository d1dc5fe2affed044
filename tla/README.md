# The NPLProject servers in TLA+

NPLProject is a set of C++ programs for a network-programming course: a game
server (`ServerSDK`) with its socket library (`SocketUtilities`), and an older
messenger (`TCPMSNServer`, `TCPMSNClient`, `TCPP2PMSN`) with the library it grew
from (`SocketUtils`). The repository has no documents: what the code promises is
in its comments, its messages to clients and its protocol headers. This directory
holds TLA+ modules for it, the TLC configurations that check them, and proofs for
TLAPS. `PROJECT.json` lists the components, the runs, the source lines of every
definition, the hazards, the disagreements found and the theorems.

## The system

| component | state | operations | runs in |
|---|---|---|---|
| Acceptor | its listening socket | `run`: accept, `handlePeer` | a thread of its own |
| Dispatcher | `peers`, `waitingPeers`, `tcpMap`, the locals of its loop, `mutex` | `addPeer` (called by the acceptor), `run`: collect, listen, read a command, handle it | a thread of its own |
| UserManager, FileManager | `usersMap`, `users.txt`, the stream `fileIn`, `mutex` | `registerUser`, `loginUser`, `readUsers`, `writeUser`, `setScore`, `updateFileFromMap` | the dispatcher's thread |
| GameManager, Game | two UDP sockets | the UDP handshake | a thread per game |
| TCPMSNServer: Server, Dispatcher, BrokerManager, Broker | who owns each socket: the dispatcher's two vectors or a broker | accept, open a session, relay, close, exit | a thread each, and one per broker |
| TCPMSNClient and its command line | socket, `connected`, `closed` | connect, open, send, close, exit, `readcommand` | the user's thread and a reader thread per connect |
| TCPP2PMSN | `p2pserver`, `p2pclient` | init, open, send, reply, close | the user's thread, a server thread, a client thread |

The acceptor hands sockets to the dispatcher through `waitingPeers`. The
dispatcher takes a command from the first socket that is ready and calls
UserManager, or the ServerSDK, which opens a Game. All of it happens in one
iteration of its loop, with its mutex locked from after the command word was read
to the end of the iteration.

What is hard about it:

* **Interleaving.** `addPeer` locks the mutex, the dispatcher's copying and
  clearing of the same vectors does not. `writeUser` reads the file under one
  guard and rewrites it under another.
* **Stopping.** The users file is truncated and rewritten for every user; a stop
  in between leaves no line, or half a file that breaks the input stream.
* **Stale state.** `player1`, `player2` and `opp2` are locals of the loop body that
  no command initialises: `ACCEPT_MATCH` reads what an earlier iteration left in
  the same place of the stack. `setScore` works on a copy of the user. The
  messenger's dispatcher removes a pair with an index it took before the first
  removal.
* **Ownership.** Nothing but convention says which thread of the messenger reads a
  connection: the dispatcher gives it to a broker, and brokers give it back.
* **Liveness.** `listen` returns the *first* ready socket, a socket whose client
  has hung up is ready for ever and is never removed, and payloads are received,
  blocking, with the mutex locked.
* **Protocol.** A command that is refused leaves its payload in the stream, where
  it is read as the next commands.
* **Shared sockets.** Every game of a challenge uses the same two UDP sockets from a
  thread of its own; `recv` writes the address that another thread's `reply` is about
  to use, and two sockets may be bound to one port (`SO_REUSEADDR`).
* **Shared pointers.** The messenger's client and the peer-to-peer messenger change
  `socket`, `session` and `p2pclient` while their threads are between two reads, and a
  thread looks at the pointer anew for every read. `P2PServer` starts its thread
  before it initialises what the thread uses.

The whole list, with lines and the properties for each, is under `hazards` in
`PROJECT.json`.

## The modules

| module | models | checked by | proofs |
|---|---|---|---|
| `UserStore` | abstract: what the store promises of accounts | as a property of `accounts_store` | |
| `UserAccounts` | `UserManager::registerUser` and `FileManager` | `MCUserAccounts` | `UserAccountsProofs` |
| `PeerIntake` | `Acceptor`, `Dispatcher::addPeer`, the loop of `Dispatcher::run`, `MTCPListener` | `MCPeerIntake` | `PeerIntakeProofs` |
| `Matchmaking` | the commands of `Dispatcher::run`; uses `UserStore` for registration, with a store that is never torn (`torn <- FALSE`) | `MCMatchmaking` | `MatchmakingProofs` |
| `GameSession` | `Game`, `GameManager`, `UDPSocket`, and what the dispatcher does to the players' UDP sockets | `MCGameSession` | `GameSessionProofs` |
| `Messenger` | `TCPMSNServer`: `Server::run`, `Dispatcher`, `BrokerManager::createBroker`, `Broker`; what `TCPMSNClient` sends | `MCMessenger` | `MessengerProofs` |
| `MessengerClient` | `TCPMSNClient` and its command line | `MCMessengerClient` | `MessengerClientProofs` |
| `P2PMessenger` | `TCPP2PMSN`: `P2PServer`, `P2PClient`, `TCPP2PMSN`, `CLI` | `MCP2PMessenger` | `P2PMessengerProofs` |
| `OrderLemmas` | least and greatest elements, for first and last matches | | itself |

**UserAccounts.** The file is one line, `<length> <user>,<user>,...`. `stage` says
which of the three `write()` calls have reached it since it was truncated, `line`
is the sequence of its users. A user on disk is a record with the reversed
password (`hashpass`); `LoadedMap` is what the loop of `readUsers` does to the map
(`insert` never overwrites, the first of two entries wins), `PhantomMap` what it
does when the stream has failed: `readLineIntoMap` finds no comma, and a user
with an empty name and an uninitialised score enters the map. `loginUser` looks in
the map alone, which is empty after a restart until somebody registers. Every step between
two points where the thread can be stopped or preempted is an action; locals that
have gone out of scope are reset. `Stop` is a restart: the constructor opens the
file and reads nothing.

**PeerIntake.** One action per access to a vector that the other thread can come
between. `push_back` is two steps: the copy it makes of the vector (`Construct`)
and the new end it installs (`Publish`), which differ from an atomic push when the
dispatcher has cleared the vector in between; a copy or a clear that meets a push
half way may kill the server (`VectorRace`). A command is `short`, `long` (a
payload follows and is received with the mutex locked), `refused` (a payload follows
and is left unread: `OPEN_MATCH_WITH_USER` of a client that is not logged in), or
`none` (the client has hung up). A payload left unread passes for any of these
(`Taken`); `left`, which no action reads, remembers whose. What a command writes or
follows may kill the server (`CommandKills`): an answer to a client that has gone, a
challenge to an opponent who has (both SIGPIPE), or a pointer nobody has set.

**Matchmaking.** The dispatcher's mutex covers a whole command, so a command is one
action. `opp2`, `player1` and `player2` keep their values across iterations, as
their stack slots do in the Debug build (`-O0`); a command that reads one without
having assigned it finds that value, `NULL` or `Wild`, and to follow either is to
crash. Users that `getUserFromTCPMap` copies are equal to the originals.
`challenges` and `acceptors` are history that no action reads, but for
the bounds. A connection is a number because the search and `begin()` follow the
order of `tcpMap`, which is by address.

**Messenger.** The dispatcher's two vectors and `mtcp`, and for every broker its two
sockets, where it is in `run`, and `msg`. A stream is a sequence of words; a thread
that finds a command where it expects a payload, because another one has read the
payload, is out of step for ever, and the model stops (`scrambled`). `RemovePair`
is the stale index of `Dispatcher.cpp:131` as the vector's memory has it: the place
past the end still holds what was the last socket. A push on `waitingPeers` is one
step; `PeerIntake` takes the same code apart. A broker that once hears nothing for
three seconds is `deaf` for ever (`Broker.cpp:106-107`), and both of its clients are
read by nobody from then on. A client leaves by `Disconnect`, which says `EXIT`, or by
`HangUp`, which says nothing (the command line's `x`, `TCPMSNClientCLI.cpp:70-75`, or its
death); one that has hung up is ready for ever, so that a broker may read 0 from it for
ever and never come to the other. `closed` may be anything at first, since no `connect`
resets it. A write or a text is one step here; that the server's writes come apart is in
`MessengerClient`. Half a command of a client that dies is not modelled. Connections are numbered as they are
accepted and brokers as they are opened, which nothing depends on but the size of the run.

**GameSession.** The UDP half of a match, which `Matchmaking` leaves out. A challenge
is its number, the two sockets it makes (a caller and a callee) have that number too,
and a game is the challenge it is of and the place of its thread in `Game::run`: write, hear, reply,
await. `Receiver` is the kernel's choice among sockets bound to one port, the last one.
A datagram waits at a socket, is lost (`MaxLost`), or has nobody to go to. The same
challenge may be accepted again, which starts a second thread on the same sockets.

**MessengerClient.** The main thread and any number of readers. `socket` is the pointer
they share; `Call` is the moment a `recv` follows it, and what a reader then reads
comes from the connection it was called on. `inbox` is what the server has sent on
each connection, in words of four bytes, so that two readers can take a text apart
and a word of a text can be taken for a length. The server's threads write to a
connection without a lock: `Broker::sendMessage` in three writes (`SendCmd`, `SendLength`,
`SendText`; `sending` says of every text what is still to come), and the dispatcher's
answers or another broker's texts between any two of them. `torn`, which no action reads,
remembers that something came into the middle of a text, after which a lone reader may
take an answer for a length.

**P2PMessenger.** The main thread's commands in any order, the server's thread and one
thread per client. A peer is its number in the order of connecting. What was deleted
is remembered (`deleted`, `p2pserver = "deleted"`); to follow it is to crash or to get
away with it. `flag` starts with any value, and `EndInit` is the end of the
constructor, which may come after the thread has accepted somebody.

## What is checked

Passing runs:

| run | instance | shows |
|---|---|---|
| `accounts_store` | 1 caller, 2 names, 2 passwords, 2 points granted, stops anywhere, fairness | no acknowledged account leaves the file but through a torn rewrite; map and file agree between calls; who registered logs in with his own password alone; the file implements `UserStore`, which promises nothing after a torn rewrite; every call returns |
| `intake_live` | 2 connections, 2 commands each, hang-ups, fairness | a collected socket stays; a socket is lost only in the window between copy and clear; a payload passes for a command, or is waited for though nobody owes it, only after one of the same client was left unread; commands are served unless a client that has hung up is ahead or the dispatcher waits in vain; the acceptor returns until then or until somebody hangs up |
| `match_safety` | 2 connections, 2 names, 2 challenges, 1 game, 3 logins | a game pairs the users of the last challenge; players are logged in on their connections; a named user is found |
| `messenger_owners` | 3 clients, 2 brokers, 3 commands or hang-ups | two threads come to read one connection only by `CLOSE_SESSION`, a shifted index or a second return; a client comes to be read by nobody only in the clearing window, by a shifted index or by a broker gone deaf; no text is relayed twice |
| `messenger_heard` | 2 clients, 2 brokers, 3 commands or hang-ups, fairness | a text for which one broker alone listens is sent to the other of the pair, unless before it is read the session ends or is given back, or the speaker is behind one who has hung up |
| `game_session` | 3 challenges on ports 1, 2 and 9999, 3 games, 1 lost datagram, fairness | threads that share two sockets answer nobody too often and leave nothing over; a handshake ends unless a datagram is lost, another socket has the port, or the port is 9999 |
| `client_readers` | 2 connections, 3 readers and texts (of 0 or 1 words) together, answers between and into them, fairness | to a single reader the texts come whole, in order and all, unless the server wrote into the middle of one; the crashes are those of `CrashedOnlyBy`; a session is closed at hang-up unless one was closed before |
| `p2p_peers` | 2 peers of 2 messages, 2 clients, 1 reply, fairness | one message of each peer is handled, in order; a reply goes to the peer heard last or to one accepted since; the first reply to a client is handled; the crashes are those of `CrashedOnlyBy` |

Runs that end in a violation, each a disagreement between the code and what the
repository says of it (`findings` in `PROJECT.json`): `intake_lost` (a peer "moved to
dispatcher" is in none of its vectors), `match_notfound` (an unknown name challenges
the opponent of an earlier challenge), `match_data` (the length of a payload opens a
game), `messenger_removed` ("remove the other peer" removes a third one).

More was seen that needs no run:

* `DECLINE_MATCH` tells "Your opponent refused" to the one who refused
  (`src/ServerSDK/src/Dispatcher.cpp:269`); nobody calls `setOnGame`, so the check for
  a running game never fires; a random opponent may be the challenger; anybody may
  accept a challenge.
* `setScore` adds to the score of a copy (`FileManager.cpp:245`), and `writeUser` reads
  the file under one guard and rewrites it under another (`FileManager.cpp:151`,
  `:156`), so that two callers would lose points and accounts. Only the dispatcher's thread
  registers users, and nothing in the repository calls `FileManager::setScore` but a line
  of `Tests.cpp` that is commented out (`:90`).
* The messenger's server answers `SESSION_ESTABLISHED` in network order
  and the client compares it as it is, so that it prints neither answer; `sendMessage`
  calls a write of fewer than four bytes a failure
  (`src/TCPMSNClient/src/TCPMSNClient.cpp:118`, `:141`, `:148`).
* `isActiveClientSession` is true of a client that was never connected
  (`src/TCPP2PMSN/src/TCPP2PMSN.cpp:74`), and `connect` and `open` always succeed.

**Bounds.** `MaxScore`, `MaxCommands`, `MaxChallenges`, `MaxGames`, `MaxLogins` and
`MaxSent` bound what would grow without end. Two names make a rewrite that
puts one user back before the other, two passwords (one of them a palindrome) tell
`hashpass` from the identity, two points of score let one user score twice. Three
connections let the acceptor push one while the dispatcher holds another and has
just lost a third. Two challenges by two connections overwrite each other's
players, three logins give a connection a second login and both connections one
name. Names of length 6 and 9 make one leftover length a command and one not. Three
messenger clients put one behind a pair that is removed; three commands open a
session, say or return something in it, and open another with what was returned;
a third session is past the bound, and the texts of `messenger_heard` are two in one
session, or one in a session that is closed or left. Of three challenges two may share a port while
the third has its own, and three games put two threads on one pair of sockets beside
another game. Two readers take one text apart, or one reader takes two texts that the
server writes into one another (`MaxThreads` bounds readers and texts together); texts of
no word and of one are the ones whose length is a command and is none; `MaxWaiting` lets
an answer stand before, behind and inside a text; and two connections let a reader finish
a text on the one and begin on the other. Two peers put one in the backlog while the
other is silent, and the second client is opened over the first.

**Fairness.** `accounts_store`: weak fairness of the steps of a call; nobody has to
call. `intake_live`: weak fairness of each of the two threads, which nothing ever
suspends but the mutex and blocking reads, and of a client's sending the payload of
a command it has sent, as `sendCommand` does in one go (`Tests.cpp:16-29`). Clients
need not connect, send or hang up. `messenger_heard`: weak fairness of the dispatcher's
thread and of each broker's, which share no lock in the model; clients need not act.
`game_session`, `client_readers` and `p2p_peers`:
weak fairness of each thread the program has started (`GameThread`, `Run`,
`ServerThread`, `ClientThread`), nothing of which holds a lock, and of the end of a
constructor that has begun (`EndInit`); no command, peer or server has to do
anything, and a datagram that is lost stays lost. Weak fairness of the acceptor is not enough to
get the mutex from a dispatcher that never waits, which is why `AcceptorReturns`
excepts clients that have hung up.

**Deadlock.** Not checked where the modelled server really stops: after a crash, or
when all bounds are reached.

## What is proved

For every set of connections, callers, names and passwords and every bound, but for
the one hypothesis that the accounts name:

* `UserAccountsProofs`, for any number of callers: `TypeCorrect`, and about the operators
  `HashTwice` (a password read back is the one written). The inductive invariant adds to the type: whoever is inside
  `writeUser`'s guard holds the mutex (`MutexHolder`), how far he is says what is in the
  file (`FileStage`), and without a holder the file is whole unless a stop tore it
  (`Whole`).

  For a lone caller (`Lone(d)`: `Caller = {d}`): `AckedStayOnDisk` (`AckedOnDisk`),
  `MapFollowsDisk` (`MapAgreesWithDisk`), `RegisteredLogIn` (`LoginAsRegistered`)
  and `RegistrationsLast` (`ImplementsUserStore`). The server has one:
  its dispatcher's thread makes every call, and with two the properties are false, as
  noted above. `LoneInv` ties the map to the file while a call is under way: an entry of
  the line that the file has, or of the one in hand, is what the map says, what `insert`
  is about to make it say, or nothing when the loop of `updateFileFromMap` has yet to
  write it (`LineFollowsMap`, `Expected`); a server that has read nothing knows nobody
  (`NothingLoaded`), which is why the accounts must be in the line then and in the map
  later (`AckedKept`); what a call holds is the map's (`InHand`, `CopiesLogIn`).
  `RegistrationsLast` supposes nothing of the stops: `UserStore` has a `torn` of its own,
  which a stop inside a rewrite sets and after which nothing is promised.

  Of `CallsReturn`, the part without fairness, for any number of callers: `CallsGoDown`
  (a step of a call lowers the number of steps it has left, ten for every user that is
  yet to be written, and no other caller raises it) and `SomebodyGoesOn` (when calls are under way, one
  of them has the guard of its next step, `Unblocked`). They need that the map has
  finitely many users and that the loop of `updateFileFromMap` has one to write
  (`EndInv`).
* `PeerIntakeProofs`: `TypeCorrect`, `CollectedIsKept`, `LossIsInWindow`,
  `StreamsStayInStep` (`PayloadsInStep`) and `NobodyWaitsForEver`. The
  invariant ties the program counters to the vectors: while the dispatcher is
  between clearing `peers` and setting it, `mtcp` holds what `peers` held, and what a
  push has seen of `waiting` is `waiting` itself unless it has been cleared. The last
  two rest on the holder of the mutex (`Guarded`) and on the frame of every stream
  (`Framed`): a payload is where a long command is before it, in the stream or in the
  dispatcher's hands, and the last of a stream says whether a payload is owed.
  `NobodyWaitsForEver` is the part of `Served` and `AcceptorReturns` without fairness:
  who has the mutex waits for a payload that is owed, or of a client one of whose
  payloads was left unread, and for nothing else.
* `GameSessionProofs`: `TypeCorrect`, `AnsweredNoOftener` (`AnsweredAsHeard`),
  `NothingLeftOver` (`Balanced`), and `NobodyWaitsInVain`, the part of `HandshakeEnds`
  without fairness: who waits in `recv` has something to receive. None is inductive: `heard[k] = answered[k] +` the
  threads about to answer (`Counted`) needs that what waits at a socket, and whom it
  heard last, was sent to its port (`Addressed`), that a thread about to answer has
  heard somebody (`Opened`), and that sockets not yet made are untouched (`Fresh`).
  `StepMoves` counts the threads: each step takes one from one place to another.
* `P2PMessengerProofs`: `TypeCorrect`, `OneMessageEachInOrder` (`HeardInOrder`),
  `SessionIsKept` (`SessionLostOnlyBy`), `CrashesAreKnown` (`CrashedOnlyBy`) and
  `RepliesAreToLastHeard`. The invariant says that the backlog holds the peers behind
  those accepted (`Queue`), that where the thread is tells how many of them were heard
  (`InTurn`), that the session is the peer accepted last unless the constructor reset it
  (`SessionKept`), and what the life of the server allows (`Lifetime`).
* `MessengerProofs`: `TypeCorrect`, `NoTextTwice` (`RelayedOnce`), `SharedInThreeWays`
  (`SharedOnlyBy`) and `StrandedInThreeWays` (`StrandedOnlyBy`). A text is in one place at
  a time: on the connection, in the `msg` of one broker that is about to relay it, or
  with the receiver (`TextsOnce`). Who reads what follows from `Owners`: the dispatcher
  listens to what its vectors say, a broker that listens is on, a peer that exits has
  hung up, and the pair that is about to be removed is a broker's, has been given back,
  or is gone. The two action properties compare the readers before and after each step.
* `MessengerClientProofs`: `TypeCorrect`, `TextsInOrder` (`WholeInOrder`),
  `CrashesAreKnown` (`CrashedOnlyBy`) and `FirstIsClosed` (`ClosedAtHangUp`). The
  invariant says how the texts lie on the connection of a lone reader while nothing was
  written into the middle of one (`Laid`): the word each begins at and how many of its
  words are written, that only the last may be unfinished and then ends what is there,
  and that between them are answers alone; and that the reader has taken as much of the
  next one as its place says (`Begun`). Each step of the reader moves those places by the
  words it takes (`LaidTakes`); an answer, the first word of a text and the rest of one
  are put behind them (`LaidAnswers`, `LaidBegins`, `LaidGrows`). A server that goes
  leaves the last text unfinished (`CutOff`), and no other.
* `MatchmakingProofs`: `TypeCorrect`, `GamesAreChallenged`, `PlayersAreLoggedIn`,
  `NamedIsFound`. The invariant says that every user in the
  locals, the map and the games is the one of his connection, and that the two
  players, when both are assigned, are those of the last challenge.

The assumptions are those on the constants (`AccountConstants`, `IntakeConstants`,
`MatchConstants`, `GameConstants`, `MessengerConstants`, `ClientConstants`,
`P2PConstants`). Every invariant, action property and refinement of the passing runs is
proved. Model-checked only are the liveness properties, which under fairness are out of
the prover's reach: `CallsReturn`, `Served`, `AcceptorReturns`, `HandshakeEnds`,
`SaidIsHeard`, `TextsAreHandled`, `PeersAreHeard` and `FirstReplyIsHandled`.

## What is not modelled

Bytes (short reads, buffers of 100 and 1024 bytes, commas in names), the text of
messages and the checks of what a game received, which change nothing, a failing
`accept`, `updateFileFromMap` under two callers (it truncates without the mutex;
`AccountConstants` excludes it), the closing and the destructors of `TCPMSNServer`,
`exit`, `getPort`, `isActivePeerSession` and `isGotMsg`, which nothing calls while the
program runs, and a second `init` of the peer-to-peer messenger. Generated files and
the empty `ClientSDK` have nothing to model. `Tests` and `TestAll` are drivers; what they
show of the order of calls is in the models of what they drive.

## Plan

1. `Messenger`: the abstract specification it breaks, that every socket has one owner,
   the dispatcher or one broker; the composition with `MessengerClient`, whose server here
   may write at any time.
2. `CommandStream` (words and bytes, short reads) under `Matchmaking`; a users-file
   codec under `UserAccounts`; `GameServer`, the composition of `PeerIntake`,
   `Matchmaking`, `GameSession` and `UserAccounts`.
3. Proofs: what the liveness of `Messenger`, `MessengerClient` and `P2PMessenger` rests
   on, as `CallsGoDown` and `NobodyWaitsForEver` do for the accounts and the intake.

# Verification of the replicated message server

The repository holds the exercises of an operating-systems course. Its main
program is a Twitter-like server (`src/Etapa2/code`): users log in, follow each
other and send messages; a group of servers replicates every command, one of
them leads, and the others take over when it fails. `src/Etapa1/code` is the
earlier single-server version of the same classes, `src/PG1-WebSockets` a small
chat server and `src/PG2-WebServices` a calculator service. Paths below are
relative to `src/Etapa2/code` unless they start with `src/`.

## 1. The system

### Components, their state and their operations

| Component | State | Operations |
|---|---|---|
| `common/CriticalSessionControl` | `RWSemaphore`: `_nReaders`, `_writerActive`, one condition variable; `Semaphore`: a counter; `Flag`: a boolean | begin/end read and write; wait/notify; wait/set/unset |
| `server/ReplicaManager/ReplicationManager` | `_messages`: timestamp -> (packet, stamp, state, marks, failures); `_dead`, `_epoch` | `newReplication`, `getMessageState` (user threads); `processReceivedPacket`, `checkSent`, `getNextTo…`/`update…`, `checkTimeouts`, `setEpoch`, `setDead`, `clear` (main thread) |
| `server/ReplicaManager/ReplicaManager` | the connections, `_rmSem`, `_mustUpdateClients` | `start` (the main thread's loop), `waitCommit` (user threads), `commit`, `_updateClients` |
| `server/ReplicaManager/ReplicaConnection` | `_connected`, `_first_connection`, socket, heartbeat times | `loop` (connect, read one packet, heartbeat), `electionState`, `sendReplication`, `_lostConnection` |
| `server/ReplicaManager/ElectionManager` | `_state`, `_action`, `_leaderID`, `_leaderIsAlive`, `_epoch`, `_locked`, two timers | `startElection`, `receivedElection/Answer/Coordinator`, `action`, `step` |
| `server/Server` | a thread per client | `newClient` (login, reconnect), `_handleUser` (deliver, CLOSE, FOLLOW, MESSAGE) |
| `server/SessionMonitor`, `SessionController` | map user -> session; count and sockets of a session | `createSession`, `closeSession`, `getSession`; `newSession`, `sendMessage`, `deliverMessages` |
| `server/MessageManager`, `ProducerConsumerBuffer` | map user -> ring of pending messages | `processIncomingMessage`, `getPacket`, `markDelivered`; `enqueue`, `dequeue`, `peek` |
| `server/PersistenceManager`, `PersistentUser`, `User` | a file with one line per user | `loadUser`, `saveUser`, `addFollower` |
| `client` | three threads, the connection, the ring of messages shown | login, commands, reception, reconnection |
| `common/PacketBuilder`, `ServerConnectionManager`, parsers, `Stoppable` | none that outlives a call | formatting of packets, socket calls, options, SIGINT |

### How they interact

- A **user thread** of the leader calls `waitCommit` for every command: it puts
  the command in the table under the read lock and polls it every 25 ms until
  it is COMMITTED or CANCELED (or gone), then does the command on the leader.
- The **main thread** of every server runs `ReplicaManager::start`: it reads at
  most one packet of every connection (in a write section), elects a leader if
  there is none, refreshes epoch and dead marks (outside any lock), and in a
  second write section sends (leader) or confirms and applies (backup), and
  checks timeouts.
- Servers exchange packets on one TCP connection per pair, opened once.
- On a backup, `commit` does to sessions, messages and users what the user
  thread did on the leader.
- A server that begins to lead tells the other backups to close the sessions it
  knows, calls every client on its listening port with its own address, and
  forgets the sessions; the clients log in again with RECONNECT.
- A **client** has a thread for what the user types and one for what the server
  sends; `main` waits for both and reconnects if the server was lost.

### What is hard about it

Threads against the main thread around one lock; commands resent to all peers
while one peer fails; peers that vanish, join late or are taken for dead after
eight seconds of silence; retries by age of the entry; epochs that change
between the reading of a packet and its commit; locks of the sessions held
across `waitCommit`, which itself needs the main thread; commands that are
cancelled on the leader and carried out by a backup; sections of a ring that
overlap; a client whose threads, a signal and three servers in a row race each
other. `PROJECT.json` lists these hazards with the line where each bites.

### What makes each component correct

- Lock: exclusion, no lost wakeup, neither side starves.
- Replication: what was reported as committed is not lost; no backup applies a
  command twice; backups apply in one order; nothing of an epoch that was left
  is applied; every `waitCommit` returns; what is committed arrives.
- Election: whom a server follows was elected, a leader leads for life and
  follows nobody else, its followers have its epoch, every election ends, and a
  replica confirms to its leader. That there is one leader only is not among
  these: two servers whose timers for answers expire together both lead, and a
  server 0 that starts late may lead beside the one that was elected before.
- Sessions and server: at most two sessions per user, the count is the number
  of sockets whose threads still use them, no thread waits for ever for a lock,
  and the backup knows every client, follower and message it will need.
- Buffer: first in first out, no message overwritten before it is delivered,
  none delivered twice.
- Persistence: a follower that was saved is found again, on the backup too.
- Client: no message shown twice, a CLOSE on every way out of a session, no leader that lives
  waits for it in vain, and it ends when it is told to.

## 2. The modules

### RWLock, RWSemaphore, RWSemaphoreProofs

`RWLock` is the abstract lock: readers inside, and a writer that is out, has
asked, or is in. `RWSemaphore` is the class: a method is one step because it
holds the mutex from its first to its last line, except that a method that
waits is cut at `condition.wait` (thread states out, blocked, woken, in).
Spurious wakeups are allowed, as C++ allows them. There is one writer, the main
thread: `beginWrite` does not test for another one.

### CommitLog, Replication, ReplicationLog, MCReplication, ReplicationProofs, ReplicationOrder

One leader (server 0: servers prefer the lowest id) and `N` backups.

| State | Code |
|---|---|
| `messages[s]` | `_messages` of server `s`; ABSENT means the map has no such key; `old` means that the entry was stamped more than `_packetTimeToLive` ago |
| `dead`, `rmEpoch`, `emEpoch` | `_dead`, `ReplicationManager::_epoch`, `ElectionManager::_epoch` |
| `conn`, `bconn` | the two ends of a connection: never opened, open, broken (a send failed), closed by its owner |
| `chan`, `back` | packets in the two directions of the socket, `MaxInFlight` each |
| `lpc`, `cursor`, `sending` | the leader's place in `start`, in its loop over the connections, and in the iteration of `getNextToSend` |
| `user` | the user threads inside `waitCommit` |
| `told`, `applied` | history: ids reported as committed; ids given to `commit` on each backup, in order |

The leader's turn is cut where another thread or process can see it in between:
the first write section (`LeaderReceive`), the unlocked part (`LeaderManage`),
`LeaderCheckSent`, every pick of a command (`LeaderNextToSend`), every send
(`LeaderSend`), and `LeaderCheckTimeouts`, which ends the second write section.
User threads act outside the write sections only; that this is what the lock
gives them is what `RWSemaphore` shows. A backup's turn is one step: between
its read and its commits it waits for nothing but socket space, and no other
thread of a backup uses the table. Its confirmations may fail from any point of
the map order on.

Sends have three outcomes: the packet is queued; the peer is gone and the
kernel takes the packet anyway; the send fails and every later one on this
socket fails. A full socket blocks the sender, as `send` does.

The helpers (`ReceivedConfirms`, `UpdateSend`, `ReceivedToReplicate`,
`UpdateConfirm`, `CheckTimeouts`, `Clear` …) map an entry to an entry, one per
method of `ReplicationManager`, and `ForAll` applies one to a whole table.

`ReplicationLog` reads `Replication` as `CommitLog`, the promise that users of
`waitCommit` rely on: one sequence of commands without repetition, of which
every backup has carried out a prefix. The log is what the backup that is ahead
has applied. Backups that start late begin in the middle of it and are left out.

### Leadership, Election, MCElection, ElectionProofs

`Leadership` is what the election promises at any time: servers lead, follow
one that leads, or drop the one they follow. `Election` is the bully algorithm
of the code, among servers `0..N`.

| State | Code |
|---|---|
| `em[s]` | the `ElectionManager` of `s`: `_leaderID`, `_isLeader`, `_state`, `_leaderIsAlive`, `_action`, `_epoch` |
| `pc[s]`, `cursor[s]` | its place in `ReplicaManager::start`: the outer loop (`loop`), the start of a turn of the inner loop (`turn`), or the connections of that turn (`electionState`); the connection served next |
| `doing[s]` | the action that `action()` returned for this turn |
| `conn[s, t]`, `chan[s, t]` | the end of `s` of its connection to `t`, and the packets to `t` |
| `status[s]` | not started, running, crashed |

The operators on a manager are the methods of the class, one each; both timers
are the disjuncts of `TurnTimeout`. One pass over a connection is one step
(`LoopConnect`, `LoopReceive`, `LoopLose`, `LoopNothing` in the outer loop,
`ElectionSend`, `ElectionReceive` in the inner one), because packets of other
servers may arrive between two connections. Details that matter and are kept:
the inner loop neither opens connections nor notices silence; the reply to an
ELECTION is sent with the epoch the manager has before it hears of it; a leader
takes over the epoch of a COORDINATOR, but not the leader; ANSWERs of an
earlier epoch are ignored; an action read from `action()` is carried out to the
end of the turn even if a packet changed it meanwhile.

Heartbeats and commands are not in this module: they only keep a connection
from falling silent, which is what `Timely` says of it.

### Mailbox, ProducerConsumerBuffer, BufferProofs

The messages that wait for one user. `Mailbox` is what `MessageManager`
promises: first in, first out, bounded. `ProducerConsumerBuffer` is the ring.
Every counter has a `Semaphore` of its own, held for the lines that use it, so
each such section is a step; the slots have none, and the write of one is a step
between two sections.

| State | Code |
|---|---|
| `buffer`, `capacity`, `numProduced`, `writeIndex`, `readIndex` | the fields of the class; a slot is a message, its delivered mark, and whether its type reads as NOTHING |
| `modifying` | `_modifyingFlag` |
| `prod` | threads inside `enqueue`: `Enqueue`, `Admit`, `Reserve`, `Write`, `Produce` |
| `cons` | the one thread inside `deliverMessages`: `Peek`, the outcome of `waitCommit`, `Mark`, `Send`, `Dequeue`, `Read`, `Release` |
| `accepted`, `sent`, `overlapped` | history |

Two uses of memory are undefined in the code and a choice in the model: a slot
that is read while it is written mixes the old and the new message (`Copies`),
and a slot that was never written has a type nobody has set (`Init`).
`processIncomingMessage` starts one `enqueue` per follower and joins it, so a
user's buffer has overlapping producers exactly when two whom the user follows
send at the same time. The refinement of `Mailbox` holds until that happens
(`overlapped`): `Pending` reads the box from the ring as the identities of the
counted messages, without the first once it has been sent and waits to be
dequeued; what happens then is the finding of run `buffer_overwrite`.

### Persistence, Sessions, Server, MCServer, ServerProofs, ServerMail

`Persistence` is the file of users as a sequence of lines, with the search of
`loadUser`: the first line in which the name followed by a comma occurs. Which
names end with which others is the constant `EndsWith`. `Sessions` has, as
operators on a server's state, what `SessionMonitor`, `SessionController` and
`MessageManager` do, and `Commit`, which is `ReplicaManager::commit`. The ring
is a sequence there.

`Server` runs the threads of the clients on a leader over these operators,
beside a backup. Of the replication it uses what `CommitLog` promises: a
command enters one log between the call of `waitCommit` and its return; the
backup carries the log out behind; a call may be cancelled although the command
is in the log; a backup that takes over drops what it has not carried out.

The backup is there from the start. `TakeOver` makes it the leader and puts
another one beside it that carried out the same commands. `_updateClients` tells
that one to close every session, in packets that go past the table: while the
send to some third server fails, a CLOSE is built again with a new timestamp and
sent to all peers again, and the backup may never have got the LOGIN if the old
leader died between two sends. `TakeOver` therefore chooses any set `stray` of
sockets whose CLOSE comes once too often; `ReceiveCloses` has the session gone by
then, which is a null pointer (`SessionMonitor.cpp:33`) and ends the backup.
`used.stray` records that this happened, and `BackupNeverFails` says that
nothing else ends a backup. A leader without a backup is not followed further.

| State | Code |
|---|---|
| `lead`, `back` | file, sessions, buffers of leader and backup; `down`: a null pointer was dereferenced, or the process died |
| `thr[t]` | a thread of `newClient` and `_handleUser`, named by its socket: where it is, its command, whether its client was let in |
| `mapSem`, `sem` | holders of `SessionMonitor::_mapSem` and of each session's `_sem`, which are kept across `waitCommit` by FOLLOW and by `deliverMessages` |
| `log` | committed commands the backup has still to carry out |
| `ahead` | history: the backup's state now, and after each entry of `log`; the last one is `Future`. With it "the backup will know" is a statement about one state, and nothing has to be folded over the log |
| `shown`, `promised` | history: messages sent to a user's sockets; messages accepted for a follower |

`createSession` and `closeSession` are two steps (take the map, then the
session), FOLLOW and DELIVERED three (before, in, after `waitCommit`), MESSAGE
four, as the followers are read twice. `closeConnection` only shuts a socket
down and never closes it, so descriptors are not used again and name a thread.

### Client, ClientProofs

The client with the servers that lead one after the other. Main, the input
thread and the listening thread each have a place (`pc`); `flags` are
`_continue`, `is_over`, `closed`, `server_lost`; `sock` is the connection with
the packets in both directions; `calls` are the connections that wait on the
listening port; `ring` is the table of `messageExists`. Of a leader there is
what a client can tell: the state of the thread that serves it, the messages
not yet marked, and what its successor has heard of both (`Replicate`). Steps
of the leader are cut where `Server` cuts them; that the session of a client in
`known` is among those of the next leader is `BackupKnowsClients` there. A send
fails or vanishes when the peer is gone; a crash may take with it what the
client has not read. `reconnect` reads 0 bytes from a caller that died, and
goes on with a packet nobody has filled: the address cannot be reached, and
`openConnection` ends the program.

## 3. The runs

| Run | Bounds | Question |
|---|---|---|
| `rwsemaphore` | 3 readers, 1 writer | exclusion, wakeups, starvation, refinement of `RWLock` |
| `replication_safety` | 2 backups, 2 user threads, 2 commands, one per thread, 1 retry of each; the first command grows old at any moment; a backup or the leader may fail, between two sends of one command too | at most once, one order, refinement of `CommitLog` |
| `replication_live` | 2 backups of which one joins late and may fail, 1 command, timeouts at any moment, 1 retry, fair threads | `waitCommit` returns, nothing reported is lost, committed commands arrive |
| `replication_epochs` | 1 backup, epochs 0..2 that move freely, up and down, 2 commands, timeouts of the first at any moment, 1 retry | no stale commit |
| `replication_confirmations` | 2 backups, 1 command | violated, see section 6 |
| `election_startup` | servers 0 to 2, server 0 maybe long after the others; epochs modulo 3 | consistent managers, shared epoch, refinement of `Leadership` |
| `election_live` | servers 0 to 2, connected, nobody leads; 0 may crash at any moment, before, during or after the election; epochs modulo 2 | every election ends behind a leader that runs, although epochs wrap around |
| `election_confirms` | servers 0 to 2 behind leader 0, which may crash | violated, see section 6 |
| `buffer` | 2 producers, ring of 2, 5 messages | accounts of the counters, refinement of `Mailbox` while enqueues do not overlap, what is accepted is sent |
| `buffer_overwrite` | 2 producers, ring of 2, 3 messages | violated, see section 6 |
| `server` | 2 connections of one user, 1 of another whom they may follow; 1 message, 1 follow, 1 cancelled `waitCommit`, 1 crash and take-over | session accounts, login limit, leader and backup agree, no deadlock |
| `client` | 3 leaders of which 2 may crash, 2 messages, 1 command, ring of 2, another session of the user online | CLOSE on the way out, nothing twice, no leader waits in vain, the client ends or is served |

Why these bounds: two backups are the least for which a send loop can be cut in
the middle and an order can differ; two commands the least for an order; one
retry (`MaxFailures = 1`) reaches first failure, retry and cancellation, on the
leader as on a backup; one packet in a socket gives blocking senders, two let
confirmations queue up. `MaxApplied` stops the ageing of the entries of a backup
that has applied more commands than that, which keeps the untimed runs finite. User
threads are symmetric; backups are not, since the leader serves them in the
order of their ids.

The constraints of `MCReplication` are bounds too. In `replication_safety` the
leader crashes, or backup 2 fails and the first command grows old, but not both
(`OneFails`), only the first command grows old (`OneAges`), and each user thread has one
command (`OneCommandEach`). The other two are no bounds; they choose one of
several orders that differ in nothing a property sees. `AgesWhenRead`: how old
an entry is matters in `checkTimeouts` only, so an entry grows old just before
its server gets there. `LeaderGoesOn`: the end of the write section and the
marks of dead peers depend on what only the leader and its user threads write
(while nobody changes the epoch), so no other server steps in between.

What a retry of the leader is in the code: a peer falls silent; the command that
needs it stays SEND and goes out to the others in every turn; after more than eight
seconds the peer is given up (`ReplicaConnection.cpp:152`), the command becomes
SENT, and the `checkTimeouts` of the same turn finds it older than its 8000 ms:
it is sent to everybody once more. The model lets a leader's entry grow old at
any moment, also while it is being sent and while its user waits.

`Timely` is about the entries of backups only. A backup that has forgotten a
command applies a late copy again, so `AppliedAtMostOnce` and `SameOrder` need
that it does not forget as long as copies are to come: as long as one is on its
way to it, or the leader has the command as SEND or SENT and can write to it, or
a user is about to insert it (`MoreCopies`). Every copy stamps the backup's
entry anew, and the leader sends one in every turn, so this says that copies of
one command reach a backup less than eight seconds apart. A send that blocks the
leader for longer breaks it, and the code then does apply twice (hazard at
`ReplicationManager.cpp:232`). Without `Timely` a backup's entry, too, may grow
old at any moment; `NothingLost`, `NoStaleCommit`, `WaitReturns` and
`CommittedEverywhere` are checked so.

The elections have three servers, the least for which a server has a peer of a
lower and one of a higher id. `EpochModulus` is small so that epochs wrap
around, as they do in the code after 65536 elections; the more often they do,
the more ANSWERs are ignored for an epoch that only looks earlier.
`MaxInFlight` bounds the ELECTIONs a server repeats to a peer that does not
read. The liveness run needs two: with one, an ANSWER that travels would hold
back an election that the code would repeat. Here `Timely` means that three seconds are enough for a connected peer to
answer what it can read and to be heard, and that only a peer that is gone is
silent for eight seconds; it is needed for `EventuallyStable`, without it a
server may give up a leader again and again. The proofs do without it. Two
runs of `Election` begin in a state that the run from `Init` would have too
many states to leave behind: `ConnectedInit` (everyone connected, no leader)
and `LedInit` (everyone behind server 0). Both are reachable from `Init`: TLC
violates `NotConnected` and `NotLed` of `MCElection` under `Spec`.

The ring of two slots wraps around twice with five messages; two producers are
the least that overlap. In `server` the limit of sessions is one and not two, so
that two connections of one user already meet it: one login is refused, counted,
and closed again while the other comes or goes. The names do not end in one
another (so the name of a user and the one in the line found for it, which
`SessionController` uses, are the same). One message suffices for the two readings of the followers, its mark
and its way to a backup, and the backup is at most one command behind
(`MaxLag`); a cancelled call may or may not have entered the log. `NoDeadlock` is
stated on the locks and not left to TLC's deadlock check, because a user who
reads nothing could always go on in the place of two threads that wait for each
other. In `client` the last of three leaders does not crash: two losses in a row
are what it takes for two calls to wait on the listening port, of which the
first is out of date. The ring of the client holds as many messages as there
are, as the 200 of the code are more than the 100 a server's ring can send again.

`CHECK_DEADLOCK FALSE` is used in two runs in which the system may really
stop: in `replication_safety` all commands are done and nobody is left, or the
leader and a backup block each other, both inside `send` on full sockets (hazard
at `ReplicaManager.cpp:110`); in `client` the program has ended.

### Fairness

Main threads loop for ever (weak fairness of the leader's and of each backup's
steps). A user thread tries the lock every 25 ms and the main thread sleeps
25 ms outside it in every turn, so a user step that is enabled again and again
happens (strong fairness). Silence of eight seconds is noticed once per turn
(strong fairness of losing a peer that is gone). Requests, crashes, epochs and
the ageing of entries are never forced. For the lock: a section ends, a woken
writer gets the mutex, and a woken reader gets it at some moment at which the
writer sleeps. For the election: main threads loop (weak fairness of
`MainThread`); a timer that may expire in turn after turn does (strong
fairness of `TurnTimeout`, as the timer is read once a turn), and so does the
silence of a peer that is gone. Late servers need not start, crashes need not
happen. For the buffer: threads run (weak fairness), and a DELIVERED that is
tried again and again is committed once (strong fairness), as `waitCommit` fails
only for a command that stayed eight seconds in the table; nobody has to send.
For the client: its threads and the leader's run (weak fairness), a dead leader
is succeeded, and ten seconds without a packet are noticed by a thread that
looks at the clock whenever it has read nothing (strong fairness of
`ServerLost`). The user never has to type, a signal never has to come.

## 4. What is proved

All theorems hold for every value of the constants that satisfies the named
assumptions (`ThreadsAssumption`, `ConstantsAssumption`, `BufferAssumption`,
`NamesAssumption`, `ServerAssumption`, `ClientAssumption`, and those of the
modules they extend); where a theorem needs more, its ASSUME says what, and this
section why.

- `RWSemaphoreProofs`: the inductive invariant `IInv` (`SemaphoreInvariant`)
  says that the counter is the number of readers inside and that the flag is up
  from the moment the writer asks; it is needed because exclusion alone says
  nothing of a writer that still waits. From it `SemaphoreTypes`,
  `SemaphoreExcludes`, `SemaphoreWakes`, and step by step
  `SemaphoreImplementsLock` (the class refines `RWLock`).

- `ReplicationProofs`: `ReplicationTypes`, by `TypeInv`: a leader entry past
  the limit of failures is CANCELED, a cursor inside the connections points to
  an entry that is SEND or SENT (so that `updateSend` writes to an entry that
  is there).

- `ReplicationOrder`: what a backup applies. `RestInv` says that between two
  turns a backup that can write to its connection owes no confirmation, and
  that no entry of a backup is COMMIT; so a turn applies the packet it reads or
  nothing, and `NoStaleCommitHolds` for all constants.

  Three results hold over any number of epochs. What makes them possible is
  that the table a later epoch clears (`setEpoch`) and the packets the backup
  then refuses (`receivedToReplicate`) are those of the same epochs: `Outdated`
  says of a backup and a command that the backup has left the epoch of every
  copy there is, and `StepDone` that a command applied or outdated stays so.
  - `AppliedOnceAcrossEpochs`: `OnceInv` adds that an old entry of a backup is
    settled (`SettledOn`: no more copies come to that backup, and its timestamp
    has passed) and that the copies of a command are of one
    epoch (`StampInv`); so a command that was applied is still in the table, can
    no longer come, or is outdated. Of the leader's entries nothing is assumed:
    they grow old, are sent again and are cancelled at any moment.
  - `OneOrderAcrossEpochs`: `OrderInv` says that some sequence of commands
    exists, in the order in which the leader took them for the first time, along
    which every founding backup applies, with the rest on its way in turn, and
    of which each has or gets all it does not refuse but the one that is being
    sent. The sequence is under an existential quantifier, as no variable holds
    it: the leader's table is a map, and the order is only in the cursor and in
    the channels. Two backups then agree on the order of what both apply; what
    one of them skips it has refused for good.
  - `ReportedIsNotLostAcrossEpochs`: `DeliveryInv` follows a command backwards:
    reported, hence COMMITTED, hence SENT, hence marked for every connected
    backup; a mark is set only with a packet put on the connection; and a backup
    whose connection holds applies in a turn what it has read, or refuses it.
    Crashes are unbounded and `Timely` is not needed.

  The hypotheses on the behaviours stand to the left of the implication:
  `EpochsRise` (a backup's epoch never falls, which `receivedCoordinator` does
  not ensure) and `OneEpochPerStamp` (no two user threads hold one timestamp
  with two epochs; `newReplication` knows a command by its timestamp alone).
  The first two results also need `Timely` (section 3): `checkTimeouts` of a
  backup forgets what is old, and a copy that comes later would be applied again.
  Without `EpochsRise`, or without `OneEpochPerStamp`, TLC finds a command
  applied twice after 21 states (one backup, two user threads, two commands,
  epochs 0 to 2, one retry). These searches are not among the runs of section 3:
  take the other hypothesis as an action constraint with these bounds. What `EpochsRise` and `Timely`
  exclude are hazards of `PROJECT.json`. Over several epochs the plain `SameOrder`
  and `NothingLost` are false: a backup whose epoch runs ahead drops commands
  that the others apply.

  With `OneEpoch` the two epoch hypotheses hold by themselves
  (`OneEpochRises`), nothing is refused, and what the runs check follows:
  `AppliedOnce`, `OneOrder`, `ReportedIsNotLost`. `LogImplemented` is the
  refinement of `CommitLog` with the log of the backup that is ahead;
  `Early # {}` is there because without a founding backup there is nobody to be
  ahead.

- `ElectionProofs`: `ElectionInvariant` is `IInv` of `Election`. That whoever is
  followed leads is not inductive: the follower learnt of it from a packet. So
  `IInv` adds that a COORDINATOR that is still to be read comes from a leader,
  that whoever is in the middle of sending them leads, and that a server
  without a leader is not in the state LEADER. The proof classifies every step
  once (`StepMoves`): it changes one manager, which stays, searches, wins,
  adopts the sender of a COORDINATOR or heeds its epoch, and every packet it
  sends is no COORDINATOR or comes from a leader with its epoch. From that
  follow the invariant, `ElectionImplementsLeadership` (wins is `Lead`, adopts
  is `Follow`, searches is `Drop`, the others stutter) and
  `ElectionFollowersShareEpoch`, whose inductive form `EpochInv` adds that the
  COORDINATORs of the only leader carry its epoch. `Timely` is not used.

- `BufferProofs`: `BufferInvariant` is `IInv` of `ProducerConsumerBuffer`. That
  the counters stay in their range is not inductive; `Accounting` makes it so:
  free capacity, counted messages and the units that threads hold on their way
  in or out add up to the size. The proof follows the four sections that move a
  unit, with the cardinality of the producers on their way in.
  `MailboxImplemented` is the refinement of `Mailbox`, for any ring. `RingInv`
  says, while no two producers have overlapped, where everything is: the k-th
  counted message lies k places on from the read index (one place further while
  a dequeue has uncounted it but not moved the index, `Start`); their numbers
  rise and only the first can be delivered (`CountedOK`); the message of the one
  producer inside has a higher number and lies behind them (`ComingOK`); the
  delivering thread is about the first (`FirstOK`). It needs `Accounting`: a
  producer that holds a unit of capacity and the slot that is being read or
  dequeued leave room for each other (`Room`, `PlacesApart`), so the copy of a
  slot is never torn. Produce is then `Accept`, Send is `HandOut`, and every
  other section stutters, the dequeue too, as its message left the box when it
  was sent. With overlapping producers `RingInv` is false: that is the finding of
  `buffer_overwrite`.

- `ServerProofs`: one inductive invariant `IInv` (`ServerInvariant`) for
  threads, locks, sessions and log. A lock is held by exactly the thread that
  is in its section (`LocksOK`); the sockets of a session are those of the
  attached threads (`LeaderOK`), from which `SessionsCounted` and, with a
  count of the clients that were let in, `SessionsLimited`; and every entry of
  the log can be carried out by the backup that has carried out those before it
  (`BackupOK`). The last one is not inductive without `FutureOK`: a thread whose
  LOGIN is in the log and whose CLOSE is not has its socket in the sessions of
  `Future`, and no other has. From these `ClientsKnown` and
  `BackupLives`: whatever was committed in whatever order, a backup that was there
  from the start is ended by the CLOSEs of a take-over or by nothing. The
  proofs hold for any `EndsWith`: confused lines of the file lose followers,
  not sessions.
  The locks: `NoCycleOfWaits` says that whoever waits waits for a thread that
  waits for none, or for one that waits for such a thread: the map is taken
  before a session and never the other way round. `RunnersStep` says that a
  thread that waits for no lock and no commit has a step of its own, by writing
  down the state it leads to (`Onward`) and showing that the action allows it.
  The two are what `NoDeadlock` asks, which is stated with ENABLED and stays with
  TLC.

- `ServerMail`: three results about followers and messages, over `IInv` of
  `ServerProofs`. `ShownStaysMarked`: `MarkInv` adds that a message whose
  DELIVERED is in the log is no longer unread in `Future` (`MarkedOK`), that
  messages are numbered as they are received (`IdsOK`), and
  that one still on its way is in no buffer and shown to nobody (`FreshOK`).
  `FollowersRemembered`: `FileInv` says that a file has one line per name, that
  the user in an open session is the one of its line (`SavedOK`), and that the
  backup will know every name and follower the leader's file has, including the
  follower a thread that holds the map is about to add (`FollowersOK`).
  `MessagesKept`: `KeepInv` adds that those who followed when a message was sent
  are in the file still and that the backup has it for each of them once it is
  in the log (`AskedOK`), that no buffer holds a message twice (`DistinctOK`),
  and that what was promised is shown or unread on the leader and in the buffer
  of the backup (`PromisedOK`), over any number of take-overs.

  `FollowersRemembered` and `MessagesKept` assume `NamesApart`: no name ends in
  another. Without it the first is false, and TLC shows how with two names that
  are confused: two first logins are committed in one order and carried out by
  the leader in the other; the leader finds the second user in the line of the
  first, the backup writes a line for each, and a follower that the leader
  saves in the one line is not in the backup's (hazard at
  `PersistenceManager.cpp:42`). `MessagesKept` also assumes that a buffer has
  room for all messages, `MaxMessages <= BoxSize`: one that is full drops what
  comes (hazard at `MessageManager.cpp:75`).

- `ClientProofs`: `IInv` (`ClientInvariant`) has a core and the ring. The core
  (`PeersOK`, `CallsOK`, `HandlersOK`, `SessionOK`) relates the places of the
  three threads, the flags and the socket to the session that the leader has:
  the flag that ends a thread says why, a SUCCESS on its way belongs to an open
  session, and once the input thread is done the CLOSE is on its way or nobody
  is there to read it. From it `ClientSaysClose`, and `ClientNotAbandoned` with
  `CallsOK` (at most one call waits that is not out of date). `RingOK` says that
  the ring holds the last messages shown, as many as it has slots:
  `RingRemembers` (a message is shown again only after more others than there
  are slots) for every number of messages, and `ShownOnceInRing` if there are
  no more messages than slots.

Only model-checked:

- liveness, under fairness out of the prover's reach: `WriterIsServed`,
  `ReaderIsServed`, `WaitReturns`, `CommittedEverywhere`, `EventuallyStable`,
  `AcceptedIsSent`, `EndsWhenStopped`, `ServedOrEnds`;
- `NoDeadlock`, because of its ENABLED; its two halves are proved
  (`NoCycleOfWaits`, `RunnersStep`);
- the three violations of section 6, which are counterexamples.

## 5. Plan

Done: lock, replication, election, ring, persistence, sessions, server, client,
the abstract specifications `RWLock`, `CommitLog`, `Leadership`, `Mailbox`, and
the proofs of section 4.

Every invariant, action property and refinement that a run checks is proved
but for `NoDeadlock`. Left:

1. Replication and election meet in the epoch only. A module that runs one
   election and the table of commands together would say when the election
   delivers the hypothesis `EpochsRise` of `ReplicationOrder`.
2. What the proofs of `Server` take from `CommitLog` (`log` grows at the end,
   the backup carries out a prefix) as a refinement between the two modules.
3. `_updateClients` as steps over connections that fail one by one, and a
   backup that joins late, in `Server`.
4. Invariants behind the liveness properties (what a fair step finds when it
   runs), as far as they can be stated without ENABLED.

## 6. Findings

- `ReplicationManager.hpp:18` calls SENT the state "used by the leader to wait
  confirmations". `checkSent` commits every SENT entry in the next turn whether
  or not a confirmation came, so a user is told of success while a connected
  backup has not confirmed (run `replication_confirmations`). What the leader
  does wait for is that the command was written to every connected peer, which
  is what `NothingLost` relies on.
- `ReplicaManager.cpp:121` takes the connection at position `getLeaderID()` to
  confirm to the leader. The constructor adds no connection of a server to
  itself, so from the server's own id on the position is one less than the id:
  a server that follows a leader with a higher id confirms to the wrong peer,
  or indexes past the end of the vector (run `election_confirms`). It comes to
  that when the leader crashes and a higher id notices first: the lower one
  answers its ELECTION with the old epoch, and that ANSWER is ignored.
- `ProducerConsumerBuffer.cpp:35`: `enqueue` reserves a slot, fills it, and then
  adds one to the count, whatever slots were reserved before and are still
  empty. If a second sender overtakes the first, the consumer takes the empty
  slot for a delivered message and steps over it; what is written there later is
  overlooked and overwritten in the next turn of the ring, which line 31 reports
  as an error (run `buffer_overwrite`). `AcceptedIsSent` and `FirstInFirstOut`
  say that overlapping senders are all that it takes.

## 7. Not modelled

Socket set-up, packet formatting, option parsing, prompts and desktop
notifications are I/O. The data races of the code on `std::map` itself (a lookup
beside an insert, `clear` outside the lock) are listed as hazards: the model
interleaves these operations but takes each as atomic. `Server` and `Client`
take `_updateClients` as one step. `Server` has the CLOSEs that come once too
often, but not those that never come: `timedOut` is never reset, so after one
second of failing sends the CLOSE of every later session is tried only once. A
backup that joins late is not in `Server`: it has no session of the clients that
logged in before, and the first CLOSE of one of them ends it, as
`SessionMonitor.cpp:33` uses the session it does not find. What the properties of
`Server` say holds for backups that were there from the start. `ClientFunctions` of the second stage is no longer called
(`server/app/src/main.cpp:35` is commented out).

`src/Etapa1/code` is the same server without replication: its session classes
are those of `Sessions` but for the listening port, `ClientFunctions::newConnection` is
`Server` with a `waitCommit` that returns at once and no backup, and its ring
differs in that a sender waits for capacity instead of dropping its message and
that nothing is peeked at. A run of its own would repeat the accounts and locks
that `server` and `buffer` check with more interleavings. The chat
server of PG1 keeps a map in the hands of its container's threads and no
protocol; PG2 is stateless. `third_party` is vendored.

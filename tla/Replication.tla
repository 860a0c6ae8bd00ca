---------------------------- MODULE Replication -----------------------------
(***************************************************************************)
(* Primary/backup replication of commands: ReplicationManager, the part of *)
(* ReplicaManager::start that drives it, ReplicaManager::waitCommit and    *)
(* the sockets of ReplicaConnection, under one leader.                     *)
(*                                                                         *)
(* User threads of the leader insert a command in the leader's table and   *)
(* poll it until it is committed or cancelled.  The leader's main thread   *)
(* loops: it reads at most one packet of every connection, records which   *)
(* peers are connected, commits what was sent, sends what is to be sent,   *)
(* and checks timeouts.  A backup's main thread loops too: it reads one    *)
(* packet, confirms what it has not confirmed and applies what it has      *)
(* confirmed.                                                              *)
(*                                                                         *)
(* Server 0 leads: servers prefer the lowest id.  Which server leads is    *)
(* module Election's subject; here a COORDINATOR packet from outside gives *)
(* a server any other epoch.  _rmSem is the lock of module RWLock: user    *)
(* threads act only outside the main thread's write sections.              *)
(*                                                                         *)
(* The clock is left out: an entry is "old" once it has been in the table  *)
(* for more than _packetTimeToLive since it was last stamped, which may be *)
(* at any moment: the leader's entry ages while it is being sent and while *)
(* its user waits too, and is then sent again or cancelled.  Timely leaves *)
(* out one case only: a backup's entry does not grow old while a copy of   *)
(* the command is on its way to that backup or the leader may still send   *)
(* one.  As every copy stamps the entry anew, it says that copies of one   *)
(* command reach a backup less than eight seconds apart.                   *)
(***************************************************************************)
EXTENDS Integers, Sequences, FiniteSets

CONSTANTS
    N,              \* number of backups; their ids are 1..N
    Users,          \* user threads of the leader
    MaxId,          \* bound: timestamps are 1..MaxId
    MaxEpoch,       \* bound: epochs are 0..MaxEpoch
    MaxFailures,    \* _maxFailures
    MaxApplied,     \* bound: a backup that applied so much ages no more
    MaxInFlight,    \* packets a connection holds before send() blocks
    Late,           \* backups that start after the leader
    Faulty,         \* servers that may crash or be taken for dead
    Timely          \* whether a backup's entry outlasts the copies to come

Leader  == 0
Backups == 1..N
Servers == 0..N
Ids     == 1..MaxId
Epochs  == 0..MaxEpoch

ASSUME ConstantsAssumption ==
    /\ N \in Nat /\ MaxId \in Nat /\ MaxEpoch \in Nat /\ MaxFailures \in Nat
    /\ MaxApplied \in Nat
    /\ MaxInFlight \in Nat \ {0}
    /\ Late \subseteq Backups
    /\ Faulty \subseteq Servers
    /\ Timely \in BOOLEAN

VARIABLES
    messages,       \* _messages of every server: timestamp -> entry
    dead,           \* _dead of the leader, as a set
    rmEpoch,        \* ReplicationManager::_epoch of every server
    emEpoch,        \* ElectionManager::_epoch of every server
    alive,          \* the servers whose process runs
    conn,           \* the leader's end of the connection to each backup
    bconn,          \* the backup's end
    chan,           \* REPLICATE packets on their way to each backup
    back,           \* R_CONFIRM packets on their way to the leader
    lpc,            \* where the leader's main thread is
    cursor,         \* its position in _connections; N + 1 is the end
    sending,        \* the entry getNextToSend returned last
    user,           \* every user thread: pc, and its command's id and seqn
    clock,          \* the latest timestamp a command was given
    told,           \* history: commands waitCommit reported as committed
    applied         \* history: what each backup has applied, in order

netVars    == <<alive, conn, bconn, chan, back>>
leaderVars == <<dead, lpc, cursor, sending>>
userVars   == <<user, clock, told>>
vars == <<messages, rmEpoch, emEpoch, applied, netVars, leaderVars, userVars>>

-----------------------------------------------------------------------------
(* The table: ReplicationManager.                                          *)

States == {"ABSENT", "SEND", "SENT", "CONFIRM", "CONFIRMDUP", "COMMIT",
           "COMMITTED", "CANCELED"}

Entry == [state : States, seqn : Epochs, sentTo : SUBSET Servers,
          fails : Nat, old : BOOLEAN]

\* ABSENT is not a state of the code: the map has no entry for the id.
NewEntry(state, seqn, sentTo) ==
    [state |-> state, seqn |-> seqn, sentTo |-> sentTo,
     fails |-> 0, old |-> FALSE]

Absent == NewEntry("ABSENT", 0, {})

\* Whether every server has its mark or is dead.
AllMarked(marks) == Servers \subseteq marks \cup dead

\* receivedConfirm for a set of senders; the marks of a COMMITTED entry are
\* never read.
ReceivedConfirms(e, from) ==
    LET marked == e.sentTo \cup from
    IN  IF e.state # "SENT" \/ from = {} THEN e
        ELSE [e EXCEPT !.sentTo = marked,
                       !.state = IF AllMarked(marked)
                                 THEN "COMMITTED" ELSE "SENT"]

CheckSent(e) == IF e.state = "SENT" THEN [e EXCEPT !.state = "COMMITTED"] ELSE e

\* The marks are reset once all are there, so that they count confirmations.
UpdateSend(e, to, success) ==
    LET marked == IF success THEN e.sentTo \cup {to} ELSE e.sentTo \ {to}
    IN  IF AllMarked(marked)
        THEN [e EXCEPT !.state = "SENT", !.sentTo = {Leader}]
        ELSE [e EXCEPT !.sentTo = marked]

ReceivedAgain(e, seqn, epoch) ==         \* mutant: no CONFIRMDUP
    IF seqn < epoch THEN e
    ELSE IF e.state = "ABSENT" THEN NewEntry("CONFIRM", seqn, {})
    ELSE [e EXCEPT !.state = "CONFIRM", !.old = FALSE]

ReceivedOfLaterEpoch(e, seqn, epoch) ==  \* mutant: <= for <
    IF seqn <= epoch THEN e ELSE NewEntry("CONFIRM", seqn, {})

ReceivedToReplicate(e, seqn, epoch) ==
    IF seqn < epoch THEN e
    ELSE IF e.state = "ABSENT" THEN NewEntry("CONFIRM", seqn, {})
    ELSE IF e.state = "CONFIRM" THEN e
    ELSE [e EXCEPT !.state = IF e.state = "COMMITTED" THEN "CONFIRMDUP"
                             ELSE "CONFIRM",
                   !.old = FALSE]

UpdateConfirmTwice(e) == [e EXCEPT !.state = "COMMIT"]        \* mutant: ignores DUP

UpdateConfirmDone(e) == [e EXCEPT !.state = "COMMITTED"]      \* mutant: skips COMMIT

UpdateConfirm(e) ==
    [e EXCEPT !.state = IF e.state = "CONFIRMDUP" THEN "COMMITTED" ELSE "COMMIT"]

CheckTimeoutsForever(e) ==     \* mutant: no limit on the failures
    IF e.state \in {"SEND", "SENT", "CONFIRM", "CONFIRMDUP"} /\ e.old
    THEN [e EXCEPT !.fails = e.fails + 1, !.old = FALSE,
                   !.state = IF e.state = "SENT" THEN "SEND" ELSE e.state]
    ELSE IF e.state = "COMMITTED" /\ e.old THEN Absent ELSE e

CheckTimeouts(e) ==
    IF e.state \in {"SEND", "SENT", "CONFIRM", "CONFIRMDUP"} /\ e.old
    THEN IF e.fails + 1 > MaxFailures
         THEN [e EXCEPT !.fails = e.fails + 1, !.state = "CANCELED"]
         ELSE [e EXCEPT !.fails = e.fails + 1, !.old = FALSE,
                        !.state = IF e.state = "SENT" THEN "SEND" ELSE e.state]
    ELSE IF e.state = "CANCELED" \/ (e.state = "COMMITTED" /\ e.old)
    THEN Absent
    ELSE e

ClearConfirmed(e, epoch) ==    \* mutant: spares CONFIRM, not COMMIT
    IF e.seqn < epoch /\ e.state # "CONFIRM" THEN Absent ELSE e

Clear(e, epoch) ==
    IF e.seqn < epoch /\ e.state # "COMMIT" THEN Absent ELSE e

\* One of the helpers above, applied to every entry of a table.
ForAll(table, Op(_)) == [i \in Ids |-> Op(table[i])]

-----------------------------------------------------------------------------

Init ==
    /\ messages = [s \in Servers |-> [i \in Ids |-> Absent]]
    /\ dead = {}
    /\ rmEpoch = [s \in Servers |-> 0]
    /\ emEpoch = [s \in Servers |-> 0]
    /\ alive = Servers
    /\ conn = [b \in Backups |-> IF b \in Late THEN "never" ELSE "open"]
    /\ bconn = conn
    /\ chan = [b \in Backups |-> <<>>]
    /\ back = [b \in Backups |-> <<>>]
    /\ lpc = "receive"
    /\ cursor = N + 1
    /\ sending = 0
    /\ user = [u \in Users |-> [pc |-> "idle", id |-> 0, seqn |-> 0]]
    /\ clock = 0
    /\ told = {}
    /\ applied = [b \in Backups |-> <<>>]

-----------------------------------------------------------------------------
(* User threads: ReplicaManager::waitCommit.                               *)

\* The write sections of the main thread take the steps of the "send" phase;
\* the one around the reads is a single step.
WriteSection == lpc = "send"

\* A command gets the millisecond at which its packet was built for its id,
\* maybe the one another thread's command has, and the epoch read before the
\* lock is taken.
Request(u) ==
    /\ Leader \in alive
    /\ user[u].pc = "idle"
    /\ \E i \in {clock, clock + 1} \cap Ids :
         /\ i > user[u].id
         /\ clock' = i
         /\ user' = [user EXCEPT ![u] =
                       [pc |-> "begin", id |-> i, seqn |-> emEpoch[Leader]]]
    /\ UNCHANGED <<messages, rmEpoch, emEpoch, applied, netVars, leaderVars, told>>

NewReplication(u) ==
    LET i == user[u].id
        new == messages[Leader][i].state = "ABSENT"
    IN  /\ Leader \in alive
        /\ user[u].pc = "begin"
        /\ ~WriteSection
        /\ user' = [user EXCEPT ![u].pc = IF new THEN "wait" ELSE "idle"]
        /\ messages' = IF new
                       THEN [messages EXCEPT ![Leader][i] =
                               NewEntry("SEND", user[u].seqn, {Leader})]
                       ELSE messages
        /\ UNCHANGED <<rmEpoch, emEpoch, applied, netVars, leaderVars, clock, told>>

\* An entry that is gone counts as cancelled.
GetMessageState(i) ==
    LET state == messages[Leader][i].state
    IN  IF state = "ABSENT" THEN "CANCELED" ELSE state

Poll(u) ==
    LET state == GetMessageState(user[u].id)
    IN  /\ Leader \in alive
        /\ user[u].pc = "wait"
        /\ ~WriteSection
        /\ state \in {"COMMITTED", "CANCELED"}
        /\ user' = [user EXCEPT ![u].pc = "idle"]
        /\ told' = IF state = "COMMITTED" THEN told \cup {user[u].id} ELSE told
        /\ UNCHANGED <<messages, rmEpoch, emEpoch, applied, netVars, leaderVars, clock>>

-----------------------------------------------------------------------------
(* Connections.  The two ends of a connection fail apart: an end is "open",*)
(* "broken" once a send on it has failed (every later one fails too),      *)
(* "closed" once its owner gave it up, and never opens again.              *)

BackupGone(b) == b \notin alive \/ bconn[b] = "closed"
LeaderGone(b) == Leader \notin alive \/ conn[b] = "closed"

Reads(b) == conn[b] \in {"open", "broken"} /\ back[b] # <<>>

MayLose(b) ==
    /\ conn[b] \in {"open", "broken"} /\ back[b] = <<>>
    /\ BackupGone(b) \/ b \in Faulty

JoinsAgain(b) == conn[b] \in {"never", "closed"} /\ b \in alive  \* mutant: reconnects

\* _connect is tried until it succeeds once (_first_connection).
Joins(b) == conn[b] = "never" /\ b \in alive

\* One write section: every connection gives the leader a packet, or
\* nothing, or is lost after eight seconds of that; a backup that starts
\* late is accepted.  The connections share nothing, so one step reads all.
LeaderReceive ==
    /\ Leader \in alive
    /\ lpc = "receive"
    /\ messages' = [messages EXCEPT ![Leader] =
          [i \in Ids |-> ReceivedConfirms(messages[Leader][i],
                            {b \in Backups : Reads(b) /\ Head(back[b]) = i})]]
    /\ back' = [b \in Backups |-> IF Reads(b) THEN Tail(back[b]) ELSE back[b]]
    /\ \E lost \in SUBSET {b \in Backups : MayLose(b)},
          joined \in SUBSET {b \in Backups : Joins(b)} :
         /\ conn' = [b \in Backups |-> IF b \in lost THEN "closed"
                                       ELSE IF b \in joined THEN "open"
                                       ELSE conn[b]]
         /\ bconn' = [b \in Backups |-> IF b \in joined THEN "open" ELSE bconn[b]]
    /\ lpc' = "manage"
    /\ UNCHANGED <<rmEpoch, emEpoch, applied, alive, chan, dead, cursor, sending,
                   userVars>>

-----------------------------------------------------------------------------
(* The rest of the leader's loop.                                          *)

LeaderManageAllAlive ==        \* mutant: setDead is never called
    /\ Leader \in alive
    /\ lpc = "manage"
    /\ rmEpoch' = [rmEpoch EXCEPT ![Leader] = emEpoch[Leader]]
    /\ messages' = [messages EXCEPT ![Leader] =
                      ForAll(@, LAMBDA e : Clear(e, emEpoch[Leader]))]
    /\ lpc' = "ready"
    /\ UNCHANGED <<emEpoch, applied, netVars, dead, cursor, sending, userVars>>

\* setEpoch, setDead/setAlive and clear run outside any lock.
LeaderManage ==
    /\ Leader \in alive
    /\ lpc = "manage"
    /\ rmEpoch' = [rmEpoch EXCEPT ![Leader] = emEpoch[Leader]]
    /\ dead' = {b \in Backups : conn[b] \in {"never", "closed"}}
    /\ messages' = [messages EXCEPT ![Leader] =
                      ForAll(@, LAMBDA e : Clear(e, emEpoch[Leader]))]
    /\ lpc' = "ready"
    /\ UNCHANGED <<emEpoch, applied, netVars, cursor, sending, userVars>>

LeaderCheckSent ==
    /\ Leader \in alive
    /\ lpc = "ready"
    /\ messages' = [messages EXCEPT ![Leader] = ForAll(@, CheckSent)]
    /\ lpc' = "send"
    /\ UNCHANGED <<rmEpoch, emEpoch, applied, netVars, dead, cursor, sending,
                   userVars>>

ToSend == {i \in Ids : i > sending /\ messages[Leader][i].state = "SEND"}

\* getNextToSend walks the map by timestamp, forwards.
LeaderNextToSend ==
    /\ Leader \in alive
    /\ lpc = "send" /\ cursor = N + 1
    /\ \E i \in ToSend :
         /\ \A j \in ToSend : i <= j
         /\ sending' = i
    /\ cursor' = 1
    /\ UNCHANGED <<messages, rmEpoch, emEpoch, applied, netVars, dead, lpc, userVars>>

\* sendReplication and updateSend for one connection.  The write to a peer
\* that is gone is either lost in the kernel or reported as failed.
LeaderSend(b) ==
    LET packet == [id |-> sending, seqn |-> messages[Leader][sending].seqn]
        updated(success) ==
            [messages EXCEPT ![Leader][sending] = UpdateSend(@, b, success)]
    IN  /\ Leader \in alive
        /\ lpc = "send" /\ cursor = b
        /\ cursor' = cursor + 1
        /\ \/ /\ conn[b] = "open" /\ ~BackupGone(b)
              /\ Len(chan[b]) < MaxInFlight
              /\ chan' = [chan EXCEPT ![b] = Append(@, packet)]
              /\ messages' = updated(TRUE)
              /\ UNCHANGED conn
           \/ /\ conn[b] = "open" /\ BackupGone(b)
              /\ messages' = updated(TRUE)
              /\ UNCHANGED <<chan, conn>>
           \/ /\ conn[b] = "open" => BackupGone(b)
              /\ messages' = updated(FALSE)
              /\ conn' = [conn EXCEPT ![b] = IF @ = "open" THEN "broken" ELSE @]
              /\ UNCHANGED chan
        /\ UNCHANGED <<rmEpoch, emEpoch, applied, alive, bconn, back,
                       dead, lpc, sending, userVars>>

LeaderCheckTimeouts ==
    /\ Leader \in alive
    /\ lpc = "send" /\ cursor = N + 1
    /\ ToSend = {}
    /\ messages' = [messages EXCEPT ![Leader] = ForAll(@, CheckTimeouts)]
    /\ lpc' = "receive"
    /\ sending' = 0
    /\ UNCHANGED <<rmEpoch, emEpoch, applied, netVars, dead, cursor, userVars>>

-----------------------------------------------------------------------------
(* A backup's loop.  It waits for nothing between its read and its commits *)
(* but socket space, and no other thread of it uses the table: one step.   *)

\* A set of timestamps in map order.
InOrder(S) ==
    {q \in [1..Cardinality(S) -> S] :
        \A i, j \in 1..Cardinality(S) : i < j => q[i] < q[j]}

\* The table after the read of the turn, setEpoch and clear.
Received(b) ==
    LET t == messages[b]
        p == Head(chan[b])
        read == IF chan[b] = <<>> THEN t
                ELSE [t EXCEPT ![p.id] =
                        ReceivedToReplicate(t[p.id], p.seqn, rmEpoch[b])]
    IN  ForAll(read, LAMBDA e : Clear(e, emEpoch[b]))

\* Entries a table holds in one of the given states.
In(table, states) == {i \in Ids : table[i].state \in states}

\* The confirmations of the turn go out in map order until one fails; what
\* was confirmed is applied, in map order, and becomes COMMITTED.
BackupTurn(b) ==
    LET received  == Received(b)
        toConfirm == In(received, {"CONFIRM", "CONFIRMDUP"})
    IN  /\ b \in alive
        /\ bconn[b] \in {"open", "broken"}
        /\ chan' = [chan EXCEPT ![b] = IF @ = <<>> THEN @ ELSE Tail(@)]
        /\ rmEpoch' = [rmEpoch EXCEPT ![b] = emEpoch[b]]
        /\ \E ok \in SUBSET toConfirm :
             LET confirmed == [i \in Ids |-> IF i \in ok
                                             THEN UpdateConfirm(received[i])
                                             ELSE received[i]]
                 toCommit  == In(confirmed, {"COMMIT"})
                 committed == [i \in Ids |-> IF i \in toCommit
                                 THEN [confirmed[i] EXCEPT !.state = "COMMITTED"]
                                 ELSE confirmed[i]]
             IN  /\ \A i \in ok, j \in toConfirm : j < i => j \in ok
                 /\ \/ /\ ok = toConfirm /\ bconn[b] = "open" /\ ~LeaderGone(b)
                       /\ Len(back[b]) + Cardinality(ok) <= MaxInFlight
                       /\ \E q \in InOrder(ok) :
                            back' = [back EXCEPT ![b] = @ \o q]
                       /\ UNCHANGED bconn
                    \/ /\ bconn[b] = "open" /\ LeaderGone(b)
                       /\ bconn' = [bconn EXCEPT ![b] =
                                      IF ok = toConfirm THEN "open" ELSE "broken"]
                       /\ UNCHANGED back
                    \/ /\ bconn[b] = "broken" /\ ok = {}
                       /\ UNCHANGED <<bconn, back>>
                 /\ \E q \in InOrder(toCommit) :
                      applied' = [applied EXCEPT ![b] = @ \o q]
                 /\ messages' = [messages EXCEPT ![b] =
                                   ForAll(committed, CheckTimeouts)]
        /\ UNCHANGED <<emEpoch, alive, conn, leaderVars, userVars>>

\* Eight seconds of silence: the backup closes its end and goes to elect
\* another leader, which this module does not follow.
BackupLoses(b) ==
    /\ b \in alive
    /\ bconn[b] \in {"open", "broken"}
    /\ chan[b] = <<>>
    /\ LeaderGone(b) \/ b \in Faulty
    /\ bconn' = [bconn EXCEPT ![b] = "closed"]
    /\ UNCHANGED <<messages, rmEpoch, emEpoch, applied, alive, conn, chan, back,
                   leaderVars, userVars>>

-----------------------------------------------------------------------------
(* The environment.                                                        *)

Crash(s) ==
    /\ s \in alive \cap Faulty
    /\ alive' = alive \ {s}
    /\ UNCHANGED <<messages, rmEpoch, emEpoch, applied, conn, bconn, chan, back,
                   leaderVars, userVars>>

\* A COORDINATOR read on another connection: its epoch is taken over, even
\* an earlier one.
NewEpoch(s) ==
    /\ s \in alive
    /\ \E e \in Epochs :
         /\ e # emEpoch[s]
         /\ emEpoch' = [emEpoch EXCEPT ![s] = e]
    /\ UNCHANGED <<messages, rmEpoch, applied, netVars, leaderVars, userVars>>

InFlight(b, i) == \E k \in DOMAIN chan[b] : chan[b][k].id = i

\* Copies of command i are on their way to b, or the leader may send more.
MoreCopies(b, i) ==
    \/ InFlight(b, i)
    \/ /\ Leader \in alive /\ conn[b] \in {"never", "open"}
       /\ \/ messages[Leader][i].state \in {"SEND", "SENT"}
          \/ \E u \in Users : user[u].pc = "begin" /\ user[u].id = i

\* The entry was stamped more than eight seconds ago, and by then the clock
\* has passed its timestamp.
Age(s, i) ==
    /\ messages[s][i].state # "ABSENT"
    /\ ~messages[s][i].old
    /\ Timely /\ s \in Backups => ~MoreCopies(s, i)
    /\ s \in Backups => Len(applied[s]) <= MaxApplied
    /\ messages' = [messages EXCEPT ![s][i].old = TRUE]
    /\ clock' = IF clock = i THEN i + 1 ELSE clock
    /\ UNCHANGED <<rmEpoch, emEpoch, applied, netVars, leaderVars, user, told>>

-----------------------------------------------------------------------------

LeaderStep ==
    \/ LeaderReceive
    \/ \E b \in Backups : LeaderSend(b)
    \/ LeaderManage \/ LeaderCheckSent
    \/ LeaderNextToSend \/ LeaderCheckTimeouts

Next ==
    \/ LeaderStep
    \/ \E u \in Users : Request(u) \/ NewReplication(u) \/ Poll(u)
    \/ \E b \in Backups : BackupTurn(b) \/ BackupLoses(b)
    \/ \E s \in Servers : Crash(s) \/ NewEpoch(s)
    \/ \E s \in Servers, i \in Ids : Age(s, i)

Spec == Init /\ [][Next]_vars

(***************************************************************************)
(* Fairness.  The main threads loop forever.  A user thread gets the lock  *)
(* again and again, 25 ms a turn, so it acts if it can infinitely often    *)
(* (SF).  A peer that is gone is noticed: nothing arrives from it and the  *)
(* eight seconds pass (SF, as the leader reads a connection once a turn). *)
(* Requests, crashes, new epochs and the ageing of entries need not happen.*)
(***************************************************************************)
Fairness ==
    /\ WF_vars(LeaderStep)
    /\ \A b \in Backups :
         /\ WF_vars(BackupTurn(b))
         /\ SF_vars(BackupGone(b) /\ LeaderReceive /\ conn'[b] # conn[b])
    /\ \A u \in Users : SF_vars(NewReplication(u)) /\ SF_vars(Poll(u))

FairSpec == Spec /\ Fairness

-----------------------------------------------------------------------------
(* Properties.                                                             *)

Packet == [id : Ids, seqn : Epochs]

\* The type of every variable.  An entry of the leader fails at most
\* MaxFailures + 1 times before it is dropped; one of a backup may be revived
\* by another copy and fail more often.
TypeOK ==
    /\ messages \in [Servers -> [Ids -> Entry]]
    /\ \A i \in Ids : messages[Leader][i].fails <= MaxFailures + 1
    /\ dead \subseteq Backups
    /\ rmEpoch \in [Servers -> Epochs]
    /\ emEpoch \in [Servers -> Epochs]
    /\ alive \subseteq Servers
    /\ conn \in [Backups -> {"never", "open", "broken", "closed"}]
    /\ bconn \in [Backups -> {"never", "open", "broken", "closed"}]
    /\ chan \in [Backups -> Seq(Packet)]
    /\ back \in [Backups -> Seq(Ids)]
    /\ lpc \in {"receive", "manage", "ready", "send"}
    /\ cursor \in 1..(N + 1)
    /\ sending \in 0..MaxId
    /\ user \in [Users -> [pc : {"idle", "begin", "wait"}, id : 0..MaxId,
                           seqn : Epochs]]
    /\ clock \in 0..(MaxId + 1)
    /\ told \subseteq Ids
    /\ applied \in [Backups -> Seq(Ids)]

AppliedOn(b) == {applied[b][k] : k \in DOMAIN applied[b]}

Healthy(b) ==
    /\ {Leader, b} \subseteq alive
    /\ conn[b] = "open" /\ bconn[b] = "open"

\* A backup applies a command at most once, although the leader sends it
\* again as long as one connected peer cannot be written to, and again when
\* its own entry has grown old: also one that every peer was sent, since the
\* eight seconds after which a peer is given up are those of the entry.
AppliedAtMostOnce ==
    \A b \in Backups : Cardinality(AppliedOn(b)) = Len(applied[b])

\* The backups that were there from the start apply the same commands in the
\* same order; one of them may be behind.
SameOrder ==
    \A b, c \in Backups \ Late :
        \A k \in DOMAIN applied[b] \cap DOMAIN applied[c] :
            applied[b][k] = applied[c][k]

\* A command that waitCommit reported as committed is not lost: a backup
\* that was there from the start and whose connection holds has applied it,
\* has it in its table, or has it on the way.
NothingLost ==
    \A i \in told, b \in Backups \ Late :
        Healthy(b) => \/ i \in AppliedOn(b)
                      \/ messages[b][i].state = "CONFIRM"
                      \/ InFlight(b, i)

\* A backup never applies a command of an epoch that it has left, although
\* the packet may have waited in its connection, or its entry in its table,
\* while the epoch changed.
NoStaleCommit ==
    [][\A b \in Backups : applied'[b] # applied[b] =>
          \A k \in DOMAIN applied'[b] \ DOMAIN applied[b] :
              messages'[b][applied'[b][k]].seqn >= rmEpoch'[b]]_vars

\* Every waitCommit returns, whatever backups do.
WaitReturns ==
    \A u \in Users : user[u].pc = "wait" ~> (user[u].pc = "idle" \/ Leader \notin alive)

\* What was reported as committed is applied by every backup that was there
\* from the start and stays connected.
CommittedEverywhere ==
    \A i \in Ids, b \in Backups \ Late :
        i \in told ~> (i \in AppliedOn(b) \/ ~Healthy(b))

\* ReplicationManager.hpp calls SENT the state "used by the leader to wait
\* confirmations": so a command is COMMITTED only after every connected
\* backup has confirmed it, which it does in the turn in which it applies it.
CommittedAfterConfirmations ==
    \A i \in Ids, b \in Backups :
        messages[Leader][i].state = "COMMITTED" /\ Healthy(b) /\ b \notin dead
            => i \in AppliedOn(b)

=============================================================================

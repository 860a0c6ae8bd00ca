------------------------------ MODULE Election ------------------------------
(***************************************************************************)
(* The election of a leader: ElectionManager, the part of                  *)
(* ReplicaManager::start that drives it, and the connecting, reading and   *)
(* losing of peers in ReplicaConnection.                                   *)
(*                                                                         *)
(* The main thread of a server loops over its connections, in the order of *)
(* the ids: it opens the connection if it never was open, reads at most    *)
(* one packet of it, or gives it up after eight seconds of silence.  While *)
(* it has no leader it runs the bully algorithm in an inner loop: it sends *)
(* ELECTION to the lower ids, leads if no one answers for three seconds,   *)
(* and otherwise waits for a COORDINATOR for three seconds.                *)
(*                                                                         *)
(* Heartbeats and commands travel on the same connections; here they only  *)
(* keep a connection from falling silent.  The clock is left out: a timer  *)
(* may expire, and a connection without packets may be taken for silent,   *)
(* at any moment.  With Timely, a timer outlasts an answer that a          *)
(* connected peer has yet to give, and only a peer that is gone is silent. *)
(***************************************************************************)
EXTENDS Integers, Sequences

CONSTANTS
    N,              \* the servers' ids are 0..N
    EpochModulus,   \* the epoch is a uint16_t: 65536 in the code
    MaxInFlight,    \* bound: packets to a peer while an election is repeated
    Late,           \* servers that are started later than the others
    Faulty,         \* servers that may crash
    Timely          \* whether the timers outlast a round of the system

Servers == 0..N
Links   == {l \in Servers \X Servers : l[1] # l[2]}
Epochs  == 0..(EpochModulus - 1)
End     == N + 1

ASSUME ConstantsAssumption ==
    /\ N \in Nat
    /\ EpochModulus \in Nat \ {0}
    /\ MaxInFlight \in Nat \ {0}
    /\ Late \subseteq Servers
    /\ Faulty \subseteq Servers
    /\ Timely \in BOOLEAN

VARIABLES
    em,             \* the ElectionManager of every server
    pc,             \* where its main thread is
    cursor,         \* the peer whose connection it serves next, or End
    doing,          \* the action of the turn of the inner loop it is in
    status,         \* whether its process runs
    conn,           \* conn[s, t]: the end of s of the connection to t
    chan            \* chan[s, t]: the packets from s to t

vars == <<em, pc, cursor, doing, status, conn, chan>>

Alive(s) == status[s] = "running"

-----------------------------------------------------------------------------
(* ElectionManager, one operator per method.                               *)

Actions == {"SendElection", "SendCoordinator", "WaitAnswer", "WaitElection", "None"}

Manager == [leaderID : Servers, isLeader : BOOLEAN, state : {"LEADER", "REPLICA"},
            leaderIsAlive : BOOLEAN, action : Actions, epoch : Epochs]

BeginElection(e) ==                                   \* _startElection
    [e EXCEPT !.state = "REPLICA", !.isLeader = FALSE,
              !.action = "SendElection", !.epoch = (@ + 1) % EpochModulus]

StartElectionAnyTime(e) ==     \* mutant: although the leader is alive
    IF e.action = "None" THEN BeginElection(e) ELSE e

\* receivedElection does the same.
StartElection(e) ==
    IF ~e.leaderIsAlive /\ e.action = "None" THEN BeginElection(e) ELSE e

ReceivedAnswer(e, epoch) ==
    IF e.leaderIsAlive \/ epoch < e.epoch THEN e
    ELSE [e EXCEPT !.state = "REPLICA", !.action = "WaitElection"]

ReceivedCoordinatorAlways(e, self, id, epoch) ==   \* mutant: a leader adopts, too
    [e EXCEPT !.leaderID = id, !.isLeader = id = self \/ @,
              !.state = IF id = self THEN "LEADER" ELSE "REPLICA",
              !.leaderIsAlive = TRUE, !.action = "None", !.epoch = epoch]

ReceivedCoordinatorLater(e, self, id, epoch) ==    \* mutant: keeps a later epoch
    IF e.state = "LEADER" THEN [e EXCEPT !.epoch = IF epoch < @ THEN @ ELSE epoch]
    ELSE [leaderID |-> id,
          isLeader |-> id = self \/ e.isLeader,
          state    |-> IF id = self THEN "LEADER" ELSE "REPLICA",
          leaderIsAlive |-> TRUE,
          action   |-> "None",
          epoch    |-> IF epoch < e.epoch THEN e.epoch ELSE epoch]

\* self receives it from server id, or from itself.  The epoch is taken over
\* in any case, a leader is not.
ReceivedCoordinator(e, self, id, epoch) ==
    IF e.state = "LEADER" THEN [e EXCEPT !.epoch = epoch]
    ELSE [leaderID |-> id,
          isLeader |-> id = self \/ e.isLeader,
          state    |-> IF id = self THEN "LEADER" ELSE "REPLICA",
          leaderIsAlive |-> TRUE,
          action   |-> "None",
          epoch    |-> epoch]

UnsetLeaderIsAlive(e) == BeginElection([e EXCEPT !.leaderIsAlive = FALSE])

Step(e) ==
    [e EXCEPT !.action = CASE @ = "SendElection"    -> "WaitAnswer"
                           [] @ = "SendCoordinator" -> "None"
                           [] OTHER                 -> @]

\* The part of action() behind each of the two timers.
WaitAnswerTimeout(e, self) ==
    [ReceivedCoordinator(e, self, self, e.epoch) EXCEPT
        !.leaderIsAlive = TRUE, !.action = "SendCoordinator"]

WaitElectionTimeout(e) == BeginElection(e)

-----------------------------------------------------------------------------
(* Connections.                                                            *)

Packet == [type : {"ELECTION", "ANSWER", "COORDINATOR"}, epoch : Epochs]

\* The peer whose connection follows the one to t in _connections of s; the
\* first one follows -1.
NextPeer(s, t) == IF t + 1 = s THEN t + 2 ELSE t + 1
FirstPeer(s) == NextPeer(s, -1)

Gone(t, s) == status[t] = "crashed" \/ conn[t, s] = "closed"

\* What s has sent to t after it sends these packets, too: a socket that is
\* not connected loses them, and so does one whose peer is gone.
Sent(s, t, packets) ==
    IF conn[s, t] = "open" /\ ~Gone(t, s) THEN chan[s, t] \o packets ELSE chan[s, t]

\* serverSignal: its epoch is the one at the moment of the send.
Signal(type, e) == <<[type |-> type, epoch |-> e.epoch]>>

\* The three cases of _receivePacket that concern the election.
Replies(e, p) ==
    IF p.type # "ELECTION" THEN <<>>
    ELSE IF e.isLeader THEN Signal("ANSWER", e) \o Signal("COORDINATOR", e)
    ELSE Signal("ANSWER", e)

Handled(e, s, t, p) ==
    CASE p.type = "ELECTION"    -> IF e.isLeader THEN e ELSE StartElection(e)
      [] p.type = "ANSWER"      -> ReceivedAnswer(e, p.epoch)
      [] p.type = "COORDINATOR" -> ReceivedCoordinator(e, s, t, p.epoch)

Readable(s, t) == conn[s, t] = "open" /\ chan[t, s] # <<>>

\* The reply to an ELECTION is sent before the manager hears of it.
ReceivePacket(s, t) ==
    LET p == Head(chan[t, s])
    IN  /\ Readable(s, t)
        /\ em' = [em EXCEPT ![s] = Handled(@, s, t, p)]
        /\ chan' = [chan EXCEPT ![<<t, s>>] = Tail(@),
                                ![<<s, t>>] = Sent(s, t, Replies(em[s], p))]

-----------------------------------------------------------------------------

Init ==
    /\ em = [s \in Servers |->
               [leaderID |-> 0, isLeader |-> FALSE, state |-> "REPLICA",
                leaderIsAlive |-> FALSE, action |-> "None", epoch |-> 0]]
    /\ pc = [s \in Servers |-> "loop"]
    /\ cursor = [s \in Servers |-> FirstPeer(s)]
    /\ doing = [s \in Servers |-> "None"]
    /\ status = [s \in Servers |-> IF s \in Late THEN "waiting" ELSE "running"]
    /\ conn = [l \in Links |-> "never"]
    /\ chan = [l \in Links |-> <<>>]

-----------------------------------------------------------------------------
(* ReplicaConnection::loop, on the connection under the cursor.            *)

\* Of two servers the lower id accepts what the higher id connects; the
\* kernel completes a connection before it is accepted.
Reachable(s, t) == IF s < t THEN conn[t, s] # "never" ELSE Alive(t)

LoopAt(s, t) ==
    /\ Alive(s)
    /\ pc[s] = "loop" /\ cursor[s] = t

Advance(s) == cursor' = [cursor EXCEPT ![s] = NextPeer(s, cursor[s])]

\* The same pass goes on to read from the new connection.
LoopConnect(s, t) ==
    /\ LoopAt(s, t)
    /\ conn[s, t] = "never" /\ Reachable(s, t)
    /\ conn' = [conn EXCEPT ![<<s, t>>] = "open"]
    /\ UNCHANGED <<em, pc, cursor, doing, status, chan>>

LoopReceive(s, t) ==
    /\ LoopAt(s, t)
    /\ ReceivePacket(s, t)
    /\ Advance(s)
    /\ UNCHANGED <<pc, doing, status, conn>>

Lost(e, t) == IF e.leaderID = t THEN UnsetLeaderIsAlive(e) ELSE e

\* _lostConnection after eight seconds without a packet.
LoopLose(s, t) ==
    /\ LoopAt(s, t)
    /\ conn[s, t] = "open"
    /\ Gone(t, s) \/ (~Timely /\ chan[t, s] = <<>>)
    /\ conn' = [conn EXCEPT ![<<s, t>>] = "closed"]
    /\ chan' = [chan EXCEPT ![<<t, s>>] = <<>>]
    /\ em' = [em EXCEPT ![s] = Lost(@, t)]
    /\ Advance(s)
    /\ UNCHANGED <<pc, doing, status>>

LoopNothing(s, t) ==
    /\ LoopAt(s, t)
    /\ ~Readable(s, t)
    /\ conn[s, t] = "never" => ~Reachable(s, t)
    /\ Advance(s)
    /\ UNCHANGED <<em, pc, doing, status, conn, chan>>

-----------------------------------------------------------------------------
(* The election part of ReplicaManager::start.                             *)

\* block and startElection; without an election the loop starts again.
LoopEnd(s) ==
    /\ Alive(s)
    /\ pc[s] = "loop" /\ cursor[s] = End
    /\ em' = [em EXCEPT ![s] = StartElection(@)]
    /\ pc' = [pc EXCEPT ![s] = IF em[s].leaderIsAlive THEN "loop" ELSE "turn"]
    /\ cursor' = [cursor EXCEPT ![s] = FirstPeer(s)]
    /\ UNCHANGED <<doing, status, conn, chan>>

InTransit(q, types) == \E k \in DOMAIN q : q[k].type \in types

\* With Timely, three seconds are enough for a peer to answer what it can
\* read, and to be heard.
MayExpire(s) ==
    Timely => \A t \in Servers \ {s} :
                 conn[s, t] = "open" /\ conn[t, s] = "open" /\ Alive(t)
                     => /\ ~InTransit(chan[s, t], {"ELECTION"})
                        /\ ~InTransit(chan[t, s], {"ANSWER", "COORDINATOR"})

\* The bound on the elections that nobody has read.
MaySendElection(s) == \A t \in Servers \ {s} : Len(chan[s, t]) < MaxInFlight

BeginTurn(s, e) ==
    /\ em' = [em EXCEPT ![s] = e]
    /\ doing' = [doing EXCEPT ![s] = e.action]
    /\ pc' = [pc EXCEPT ![s] = "electionState"]
    /\ UNCHANGED <<cursor, status, conn, chan>>

\* action() without, and with, a timer that expires.
Turn(s) ==
    /\ Alive(s)
    /\ pc[s] = "turn"
    /\ BeginTurn(s, em[s])

TurnTimeoutForAnswers(s) ==    \* mutant: no timer for the coordinator
    /\ Alive(s)
    /\ pc[s] = "turn"
    /\ MayExpire(s)
    /\ em[s].action = "WaitAnswer"
    /\ BeginTurn(s, WaitAnswerTimeout(em[s], s))

TurnTimeout(s) ==
    /\ Alive(s)
    /\ pc[s] = "turn"
    /\ MayExpire(s)
    /\ \/ em[s].action = "WaitAnswer" /\ BeginTurn(s, WaitAnswerTimeout(em[s], s))
       \/ /\ em[s].action = "WaitElection" /\ MaySendElection(s)
          /\ BeginTurn(s, WaitElectionTimeout(em[s]))

ElectionStateAt(s, t) ==
    /\ Alive(s)
    /\ pc[s] = "electionState" /\ cursor[s] = t

\* electionState goes by the action of the turn, whatever was read in it.
ElectionSend(s, t) ==
    /\ ElectionStateAt(s, t)
    /\ \/ /\ doing[s] = "SendElection" /\ t < s
          /\ chan' = [chan EXCEPT ![<<s, t>>] = Sent(s, t, Signal("ELECTION", em[s]))]
       \/ /\ doing[s] = "None" \/ (doing[s] = "SendElection" /\ t > s)
          /\ UNCHANGED chan
       \/ /\ doing[s] = "SendCoordinator"
          /\ chan' = [chan EXCEPT ![<<s, t>>] = Sent(s, t, Signal("COORDINATOR", em[s]))]
    /\ Advance(s)
    /\ UNCHANGED <<em, pc, doing, status, conn>>

\* Silence is ignored here, and no connection is opened.
ElectionReceive(s, t) ==
    /\ ElectionStateAt(s, t)
    /\ doing[s] \in {"WaitAnswer", "WaitElection"}
    /\ \/ ReceivePacket(s, t)
       \/ ~Readable(s, t) /\ UNCHANGED <<em, chan>>
    /\ Advance(s)
    /\ UNCHANGED <<pc, doing, status, conn>>

\* step, and the condition of the inner loop.
TurnEnd(s) ==
    /\ Alive(s)
    /\ pc[s] = "electionState" /\ cursor[s] = End
    /\ em' = [em EXCEPT ![s] = Step(@)]
    /\ pc' = [pc EXCEPT ![s] = IF em[s].leaderIsAlive THEN "loop" ELSE "turn"]
    /\ cursor' = [cursor EXCEPT ![s] = FirstPeer(s)]
    /\ doing' = [doing EXCEPT ![s] = "None"]
    /\ UNCHANGED <<status, conn, chan>>

-----------------------------------------------------------------------------
(* Processes.                                                              *)

Start(s) ==
    /\ status[s] = "waiting"
    /\ status' = [status EXCEPT ![s] = "running"]
    /\ UNCHANGED <<em, pc, cursor, doing, conn, chan>>

\* What was on its way to a crashed server is lost, and so is its place in
\* the loop; its manager is kept as a history of who was elected.
Crash(s) ==
    /\ s \in Faulty /\ Alive(s)
    /\ status' = [status EXCEPT ![s] = "crashed"]
    /\ chan' = [l \in Links |-> IF l[2] = s THEN <<>> ELSE chan[l]]
    /\ pc' = [pc EXCEPT ![s] = "loop"]
    /\ cursor' = [cursor EXCEPT ![s] = FirstPeer(s)]
    /\ doing' = [doing EXCEPT ![s] = "None"]
    /\ UNCHANGED <<em, conn>>

MainThread(s) ==
    \/ \E t \in Servers \ {s} :
         \/ LoopConnect(s, t) \/ LoopReceive(s, t) \/ LoopLose(s, t)
         \/ LoopNothing(s, t) \/ ElectionSend(s, t) \/ ElectionReceive(s, t)
    \/ LoopEnd(s) \/ Turn(s) \/ TurnTimeout(s) \/ TurnEnd(s)

Next == \E s \in Servers : MainThread(s) \/ Start(s) \/ Crash(s)

Spec == Init /\ [][Next]_vars

(***************************************************************************)
(* Fairness.  The main threads loop for ever.  Time passes: a timer that   *)
(* may expire in turn after turn does (SF, as it is read once a turn), and *)
(* so does the silence of a peer that is gone.  Servers need not crash;    *)
(* late ones need not start.                                               *)
(***************************************************************************)
Fairness ==
    \A s \in Servers :
        /\ WF_vars(MainThread(s))
        /\ SF_vars(TurnTimeout(s))
        /\ SF_vars(\E t \in Servers \ {s} : Gone(t, s) /\ LoopLose(s, t))

FairSpec == Spec /\ Fairness

-----------------------------------------------------------------------------
(* Properties.                                                             *)

NoLeader == End

\* Whom s takes for its leader.
View(s) == IF em[s].leaderIsAlive THEN em[s].leaderID ELSE NoLeader

Leaders == {s \in Servers : em[s].isLeader}

\* The type of every variable; a server that runs has one of its peers, or
\* End, under its cursor.
TypeOK ==
    /\ em \in [Servers -> Manager]
    /\ pc \in [Servers -> {"loop", "turn", "electionState"}]
    /\ cursor \in [Servers -> 0..End]
    /\ \A s \in Servers : cursor[s] # s
    /\ doing \in [Servers -> Actions]
    /\ status \in [Servers -> {"waiting", "running", "crashed"}]
    /\ conn \in [Links -> {"never", "open", "closed"}]
    /\ chan \in [Links -> Seq(Packet)]

\* A leader is complete and follows itself, whoever searches has no leader,
\* and only a leader is about to announce itself.
Consistent(s) ==
    LET e == em[s]
    IN  /\ e.isLeader <=> e.state = "LEADER"
        /\ e.isLeader => e.leaderIsAlive /\ e.leaderID = s
        /\ e.leaderIsAlive => e.action \in {"None", "SendCoordinator"}
        /\ e.action = "SendCoordinator" => e.isLeader
        /\ doing[s] = "SendCoordinator" => e.isLeader

FollowsLeader ==
    \A s \in Servers : em[s].leaderIsAlive => em[em[s].leaderID].isLeader

AnnouncedByLeader ==
    \A l \in Links : InTransit(chan[l], {"COORDINATOR"}) => em[l[1]].isLeader

\* What makes the promises below inductive: a server that is followed, or
\* whose COORDINATOR has yet to be read, leads.
IInv ==
    /\ TypeOK
    /\ \A s \in Servers : Consistent(s)
    /\ FollowsLeader
    /\ AnnouncedByLeader

\* Whatever the timers and the connections do, whoever follows a server
\* follows one that was elected, a leader leads for life, and it never
\* follows another one although it takes over the epoch of another one's
\* COORDINATOR.
Promise == INSTANCE Leadership WITH
             Servers <- Servers, None <- NoLeader,
             leads <- Leaders, view <- [s \in Servers |-> View(s)]

ImplementsLeadership == Promise!Spec

\* While a server is the only one that was ever elected, its followers have
\* its epoch, the one their commands are checked against, although each of
\* them has counted its own elections and may have been told several times.
FollowersShareEpoch ==
    \A s, l \in Servers :
        Leaders = {l} /\ View(s) = l => em[s].epoch = em[l].epoch

\* Every election ends: a leader that crashes is given up and replaced, and at
\* last every server follows, for good, a leader that runs.
EventuallyStable ==
    <>[](\A s \in Servers : Alive(s) => View(s) # NoLeader /\ Alive(View(s)))

\* The connection at position i of _connections, which has none to s itself,
\* leads to this server, or to none if i is past the end.
ConnectionAt(s, i) == IF i < s THEN i ELSE i + 1

\* ReplicaManager.cpp takes the connection at position getLeaderID() to
\* confirm to the leader: so it must be the one that leads to it.
ConfirmsToLeader ==
    \A s \in Servers :
        Alive(s) /\ View(s) \notin {s, NoLeader}
            => ConnectionAt(s, View(s)) = View(s)

=============================================================================

--------------------------- MODULE ElectionProofs ---------------------------
(***************************************************************************)
(* Proofs about Election, for any number of servers and any epoch width:   *)
(* types, the invariant, the promise of Leadership, and the epoch that     *)
(* followers share with the only leader.                                   *)
(***************************************************************************)
EXTENDS Election, SequenceTheorems, TLAPS

-----------------------------------------------------------------------------
(* Types.                                                                  *)

LEMMA LinkFacts ==
    ASSUME NEW s \in Servers, NEW t \in Servers, s # t
    PROVE  <<s, t>> \in Links /\ <<t, s>> \in Links /\ <<s, t>> # <<t, s>>
BY DEF Links

LEMMA ZeroIsAServer == 0 \in Servers
BY ConstantsAssumption DEF Servers

LEMMA EpochGrows ==
    ASSUME NEW e \in Epochs
    PROVE  (e + 1) % EpochModulus \in Epochs
<1>1. EpochModulus \in Nat \ {0} /\ e + 1 \in Nat
  BY ConstantsAssumption DEF Epochs
<1>2. (e + 1) % EpochModulus \in 0..(EpochModulus - 1)
  BY <1>1
<1> QED BY <1>2 DEF Epochs

\* The cursor moves from a peer to a peer, or to the end.
LEMMA NextPeerIsAPeer ==
    ASSUME NEW s \in Servers, NEW t \in Servers \cup {-1}, t # s
    PROVE  NextPeer(s, t) \in 0..End /\ NextPeer(s, t) # s
BY ConstantsAssumption DEF NextPeer, End, Servers

LEMMA FirstPeerIsAPeer ==
    ASSUME NEW s \in Servers
    PROVE  FirstPeer(s) \in 0..End /\ FirstPeer(s) # s
BY ConstantsAssumption DEF FirstPeer, NextPeer, End, Servers

\* Every method of the manager leaves a manager.
LEMMA ManagerTypes ==
    ASSUME NEW e \in Manager, NEW self \in Servers, NEW id \in Servers,
           NEW epoch \in Epochs
    PROVE  /\ BeginElection(e) \in Manager
           /\ StartElection(e) \in Manager
           /\ ReceivedAnswer(e, epoch) \in Manager
           /\ ReceivedCoordinator(e, self, id, epoch) \in Manager
           /\ UnsetLeaderIsAlive(e) \in Manager
           /\ Lost(e, id) \in Manager
           /\ Step(e) \in Manager
           /\ WaitAnswerTimeout(e, self) \in Manager
           /\ WaitElectionTimeout(e) \in Manager
<1>1. ASSUME NEW f \in Manager PROVE BeginElection(f) \in Manager
  <2>1. (f.epoch + 1) % EpochModulus \in Epochs
    BY EpochGrows DEF Manager
  <2> QED BY <2>1 DEF BeginElection, Manager, Actions
<1>2. ASSUME NEW x \in Servers, NEW y \in Epochs
      PROVE ReceivedCoordinator(e, self, x, y) \in Manager
  BY DEF ReceivedCoordinator, Manager, Actions
<1>3. UnsetLeaderIsAlive(e) \in Manager
  <2>1. [e EXCEPT !.leaderIsAlive = FALSE] \in Manager
    BY DEF Manager
  <2> QED BY <2>1, <1>1 DEF UnsetLeaderIsAlive
<1>4. Step(e) \in Manager
  BY DEF Step, Manager, Actions
<1>5. WaitAnswerTimeout(e, self) \in Manager
  <2>1. ReceivedCoordinator(e, self, self, e.epoch) \in Manager
    BY <1>2 DEF Manager
  <2> QED BY <2>1 DEF WaitAnswerTimeout, Manager, Actions
<1>6. ReceivedAnswer(e, epoch) \in Manager
  BY DEF ReceivedAnswer, Manager, Actions
<1> QED BY <1>1, <1>2, <1>3, <1>4, <1>5, <1>6
     DEF StartElection, Lost, WaitElectionTimeout

LEMMA PacketTypes ==
    ASSUME NEW e \in Manager,
           NEW type \in {"ELECTION", "ANSWER", "COORDINATOR"}, NEW p \in Packet
    PROVE  Signal(type, e) \in Seq(Packet) /\ Replies(e, p) \in Seq(Packet)
<1>1. ASSUME NEW y \in {"ELECTION", "ANSWER", "COORDINATOR"}
      PROVE  Signal(y, e) \in Seq(Packet)
  BY DEF Signal, Packet, Manager
<1> QED BY <1>1 DEF Replies

LEMMA SentTypes ==
    ASSUME TypeOK, NEW s \in Servers, NEW t \in Servers, s # t,
           NEW q \in Seq(Packet)
    PROVE  Sent(s, t, q) \in Seq(Packet)
<1>1. chan[s, t] \in Seq(Packet)
  BY LinkFacts DEF TypeOK
<1>2. chan[s, t] \o q \in Seq(Packet)
  BY <1>1, ConcatProperties
<1> QED BY <1>1, <1>2 DEF Sent

\* What is at the head of a channel, and what the manager makes of it.
LEMMA ReceivedTypes ==
    ASSUME TypeOK, NEW s \in Servers, NEW t \in Servers, s # t, Readable(s, t)
    PROVE  /\ Head(chan[t, s]) \in Packet
           /\ Tail(chan[t, s]) \in Seq(Packet)
           /\ Handled(em[s], s, t, Head(chan[t, s])) \in Manager
           /\ Sent(s, t, Replies(em[s], Head(chan[t, s]))) \in Seq(Packet)
<1> DEFINE p == Head(chan[t, s])
<1>1. chan[t, s] \in Seq(Packet) /\ chan[t, s] # <<>>
  BY LinkFacts DEF TypeOK, Readable
<1>2. p \in Packet /\ Tail(chan[t, s]) \in Seq(Packet)
  BY <1>1, HeadTailProperties
<1>3. em[s] \in Manager
  BY DEF TypeOK
<1>4. Handled(em[s], s, t, p) \in Manager
  <2>1. p.epoch \in Epochs /\ p.type \in {"ELECTION", "ANSWER", "COORDINATOR"}
    BY <1>2 DEF Packet
  <2>2. /\ StartElection(em[s]) \in Manager
        /\ ReceivedAnswer(em[s], p.epoch) \in Manager
        /\ ReceivedCoordinator(em[s], s, t, p.epoch) \in Manager
    BY <1>3, <2>1, ManagerTypes
  <2> HIDE DEF p
  <2> QED BY <1>3, <2>1, <2>2 DEF Handled
<1>5. Replies(em[s], p) \in Seq(Packet)
  BY <1>2, <1>3, PacketTypes
<1>6. Sent(s, t, Replies(em[s], p)) \in Seq(Packet)
  BY <1>5, SentTypes
<1> QED BY <1>2, <1>4, <1>6

\* Channels of one link, or of both directions of a connection, changed.
LEMMA ChannelTypes ==
    ASSUME TypeOK, NEW s \in Servers, NEW t \in Servers, s # t,
           NEW q \in Seq(Packet), NEW r \in Seq(Packet)
    PROVE  /\ [chan EXCEPT ![<<s, t>>] = q] \in [Links -> Seq(Packet)]
           /\ [chan EXCEPT ![<<t, s>>] = q, ![<<s, t>>] = r]
                \in [Links -> Seq(Packet)]
<1>1. chan \in [Links -> Seq(Packet)]
  BY DEF TypeOK
<1> QED BY <1>1

LEMMA ReceivePacketTypes ==
    ASSUME TypeOK, NEW s \in Servers, NEW t \in Servers, s # t,
           ReceivePacket(s, t)
    PROVE  em' \in [Servers -> Manager] /\ chan' \in [Links -> Seq(Packet)]
<1>1. Readable(s, t)
  BY DEF ReceivePacket
<1>2. em' = [em EXCEPT ![s] = Handled(em[s], s, t, Head(chan[t, s]))]
  BY DEF ReceivePacket, TypeOK
<1>3. chan' = [chan EXCEPT ![<<t, s>>] = Tail(chan[t, s]),
                           ![<<s, t>>] = Sent(s, t, Replies(em[s], Head(chan[t, s])))]
  BY LinkFacts DEF ReceivePacket, TypeOK
<1>4. em' \in [Servers -> Manager]
  BY <1>1, <1>2, ReceivedTypes DEF TypeOK
<1>5. chan' \in [Links -> Seq(Packet)]
  BY <1>1, <1>3, ReceivedTypes, ChannelTypes
<1> QED BY <1>4, <1>5

LEMMA InitTypes == Init => TypeOK
<1> SUFFICES ASSUME Init PROVE TypeOK
  OBVIOUS
<1>1. em \in [Servers -> Manager]
  <2>1. 0 \in Epochs
    BY ConstantsAssumption DEF Epochs
  <2> QED BY <2>1, ZeroIsAServer DEF Init, Manager, Actions
<1>2. cursor \in [Servers -> 0..End] /\ \A s \in Servers : cursor[s] # s
  BY FirstPeerIsAPeer DEF Init
<1>3. chan \in [Links -> Seq(Packet)]
  BY DEF Init
<1> QED BY <1>1, <1>2, <1>3 DEF Init, TypeOK, Actions

\* The moves of the cursor, and of the program counter.
LEMMA CursorTypes ==
    ASSUME TypeOK, NEW s \in Servers,
           \/ cursor[s] \in Servers /\ Advance(s)
           \/ cursor' = [cursor EXCEPT ![s] = FirstPeer(s)]
           \/ UNCHANGED cursor
    PROVE  cursor' \in [Servers -> 0..End] /\ \A u \in Servers : cursor'[u] # u
<1>1. CASE cursor[s] \in Servers /\ Advance(s)
  <2>1. NextPeer(s, cursor[s]) \in 0..End /\ NextPeer(s, cursor[s]) # s
    BY <1>1, NextPeerIsAPeer DEF TypeOK
  <2> QED BY <1>1, <2>1 DEF TypeOK, Advance
<1>2. CASE cursor' = [cursor EXCEPT ![s] = FirstPeer(s)]
  BY <1>2, FirstPeerIsAPeer DEF TypeOK
<1>3. CASE UNCHANGED cursor
  BY <1>3 DEF TypeOK
<1> QED BY <1>1, <1>2, <1>3

\* Each action of the main thread keeps the types.
LEMMA LoopTypes ==
    ASSUME TypeOK, NEW s \in Servers, NEW t \in Servers, s # t,
           \/ LoopConnect(s, t) \/ LoopReceive(s, t)
           \/ LoopLose(s, t) \/ LoopNothing(s, t)
    PROVE  TypeOK'
<1>1. CASE LoopConnect(s, t)
  <2>1. conn' \in [Links -> {"never", "open", "closed"}]
    BY <1>1 DEF LoopConnect, TypeOK
  <2> QED BY <1>1, <2>1 DEF LoopConnect, TypeOK
<1>2. CASE LoopReceive(s, t)
  <2>1. cursor' \in [Servers -> 0..End] /\ \A u \in Servers : cursor'[u] # u
    BY <1>2, CursorTypes DEF LoopReceive, LoopAt
  <2>2. em' \in [Servers -> Manager] /\ chan' \in [Links -> Seq(Packet)]
    BY <1>2, ReceivePacketTypes DEF LoopReceive
  <2> QED BY <1>2, <2>1, <2>2 DEF LoopReceive, TypeOK
<1>3. CASE LoopLose(s, t)
  <2>1. cursor' \in [Servers -> 0..End] /\ \A u \in Servers : cursor'[u] # u
    BY <1>3, CursorTypes DEF LoopLose, LoopAt
  <2>2. em' \in [Servers -> Manager]
    <3>1. Lost(em[s], t) \in Manager
      <4>1. em[s] \in Manager /\ em[s].epoch \in Epochs
        BY DEF TypeOK, Manager
      <4> QED BY <4>1, ManagerTypes
    <3>2. em' = [em EXCEPT ![s] = Lost(em[s], t)]
      BY <1>3 DEF LoopLose, TypeOK
    <3> QED BY <3>1, <3>2 DEF TypeOK
  <2>3. conn' \in [Links -> {"never", "open", "closed"}]
    BY <1>3 DEF LoopLose, TypeOK
  <2>4. chan' \in [Links -> Seq(Packet)]
    BY <1>3, EmptySeq DEF LoopLose, TypeOK
  <2> QED BY <1>3, <2>1, <2>2, <2>3, <2>4 DEF LoopLose, TypeOK
<1>4. CASE LoopNothing(s, t)
  <2>1. cursor' \in [Servers -> 0..End] /\ \A u \in Servers : cursor'[u] # u
    BY <1>4, CursorTypes DEF LoopNothing, LoopAt
  <2> QED BY <1>4, <2>1 DEF LoopNothing, TypeOK
<1> QED BY <1>1, <1>2, <1>3, <1>4

LEMMA TurnTypes ==
    ASSUME TypeOK, NEW s \in Servers,
           LoopEnd(s) \/ Turn(s) \/ TurnTimeout(s) \/ TurnEnd(s)
    PROVE  TypeOK'
<1>1. /\ em[s] \in Manager
      /\ \A e \in Manager : e.action \in Actions
      /\ StartElection(em[s]) \in Manager
      /\ WaitAnswerTimeout(em[s], s) \in Manager
      /\ WaitElectionTimeout(em[s]) \in Manager
      /\ Step(em[s]) \in Manager
  <2>1. em[s] \in Manager
    BY DEF TypeOK
  <2>2. em[s].epoch \in Epochs
    BY <2>1 DEF Manager
  <2>3. \A e \in Manager : e.action \in Actions
    BY DEF Manager
  <2> QED BY <2>1, <2>2, <2>3, ManagerTypes
<1>2. CASE LoopEnd(s)
  <2>1. cursor' \in [Servers -> 0..End] /\ \A u \in Servers : cursor'[u] # u
    BY <1>2, CursorTypes DEF LoopEnd
  <2>2. em' = [em EXCEPT ![s] = StartElection(em[s])]
    BY <1>2 DEF LoopEnd, TypeOK
  <2>3. em' \in [Servers -> Manager]
    BY <1>1, <2>2 DEF TypeOK
  <2>4. pc' \in [Servers -> {"loop", "turn", "electionState"}]
    BY <1>2 DEF LoopEnd, TypeOK
  <2> QED BY <1>2, <2>1, <2>3, <2>4 DEF LoopEnd, TypeOK
<1>3. CASE Turn(s) \/ TurnTimeout(s)
  <2>1. PICK e \in Manager : BeginTurn(s, e)
    BY <1>1, <1>3 DEF Turn, TurnTimeout
  <2>2. e.action \in Actions
    BY <1>1
  <2> QED BY <2>1, <2>2 DEF BeginTurn, TypeOK
<1>4. CASE TurnEnd(s)
  <2>1. cursor' \in [Servers -> 0..End] /\ \A u \in Servers : cursor'[u] # u
    BY <1>4, CursorTypes DEF TurnEnd
  <2>2. em' = [em EXCEPT ![s] = Step(em[s])]
    BY <1>4 DEF TurnEnd, TypeOK
  <2>3. em' \in [Servers -> Manager]
    BY <1>1, <2>2 DEF TypeOK
  <2>4. /\ pc' \in [Servers -> {"loop", "turn", "electionState"}]
        /\ doing' \in [Servers -> Actions]
    BY <1>4 DEF TurnEnd, TypeOK, Actions
  <2> QED BY <1>4, <2>1, <2>3, <2>4 DEF TurnEnd, TypeOK
<1> QED BY <1>2, <1>3, <1>4

LEMMA ElectionStateTypes ==
    ASSUME TypeOK, NEW s \in Servers, NEW t \in Servers, s # t,
           ElectionSend(s, t) \/ ElectionReceive(s, t)
    PROVE  TypeOK'
<1>1. cursor' \in [Servers -> 0..End] /\ \A u \in Servers : cursor'[u] # u
  BY CursorTypes DEF ElectionSend, ElectionReceive, ElectionStateAt
<1>2. CASE ElectionSend(s, t)
  <2>1. \A type \in {"ELECTION", "ANSWER", "COORDINATOR"} :
           Sent(s, t, Signal(type, em[s])) \in Seq(Packet)
    <3>1. em[s] \in Manager
      BY DEF TypeOK
    <3>2. \A type \in {"ELECTION", "ANSWER", "COORDINATOR"} :
             Signal(type, em[s]) \in Seq(Packet)
      BY <3>1 DEF Signal, Packet, Manager
    <3> QED BY <3>2, SentTypes
  <2>2. chan' \in [Links -> Seq(Packet)]
    BY <1>2, <2>1, ChannelTypes, EmptySeq DEF ElectionSend, TypeOK
  <2> QED BY <1>1, <1>2, <2>2 DEF ElectionSend, TypeOK
<1>3. CASE ElectionReceive(s, t)
  <2>1. em' \in [Servers -> Manager] /\ chan' \in [Links -> Seq(Packet)]
    BY <1>3, ReceivePacketTypes DEF ElectionReceive, TypeOK
  <2> QED BY <1>1, <1>3, <2>1 DEF ElectionReceive, TypeOK
<1> QED BY <1>2, <1>3

LEMMA ProcessTypes ==
    ASSUME TypeOK, NEW s \in Servers, Start(s) \/ Crash(s)
    PROVE  TypeOK'
<1>1. CASE Start(s)
  BY <1>1 DEF Start, TypeOK
<1>2. CASE Crash(s)
  <2>1. cursor' \in [Servers -> 0..End] /\ \A u \in Servers : cursor'[u] # u
    BY <1>2, CursorTypes DEF Crash
  <2>2. chan' \in [Links -> Seq(Packet)]
    BY <1>2, EmptySeq DEF Crash, TypeOK
  <2>3. /\ status' \in [Servers -> {"waiting", "running", "crashed"}]
        /\ pc' \in [Servers -> {"loop", "turn", "electionState"}]
        /\ doing' \in [Servers -> Actions]
    BY <1>2 DEF Crash, TypeOK, Actions
  <2> QED BY <1>2, <2>1, <2>2, <2>3 DEF Crash, TypeOK
<1> QED BY <1>1, <1>2

LEMMA StepTypes == TypeOK /\ [Next]_vars => TypeOK'
<1> SUFFICES ASSUME TypeOK, [Next]_vars PROVE TypeOK'
  OBVIOUS
<1>1. CASE Next
  <2>1. PICK s \in Servers : MainThread(s) \/ Start(s) \/ Crash(s)
    BY <1>1 DEF Next
  <2>2. CASE Start(s) \/ Crash(s)
    BY <2>2, ProcessTypes
  <2>3. CASE LoopEnd(s) \/ Turn(s) \/ TurnTimeout(s) \/ TurnEnd(s)
    BY <2>3, TurnTypes
  <2>4. ASSUME NEW t \in Servers \ {s},
               \/ LoopConnect(s, t) \/ LoopReceive(s, t)
               \/ LoopLose(s, t) \/ LoopNothing(s, t)
        PROVE  TypeOK'
    BY <2>4, LoopTypes
  <2>5. ASSUME NEW t \in Servers \ {s},
               ElectionSend(s, t) \/ ElectionReceive(s, t)
        PROVE  TypeOK'
    BY <2>5, ElectionStateTypes
  <2> QED BY <2>1, <2>2, <2>3, <2>4, <2>5 DEF MainThread
<1>2. CASE UNCHANGED vars
  BY <1>2 DEF vars, TypeOK
<1> QED BY <1>1, <1>2

-----------------------------------------------------------------------------
(* What a step can do to a manager.  Sound is Consistent without the turn; *)
(* the rest are the ways from a manager e to a manager f.                  *)

Sound(s, e) ==
    /\ e.isLeader <=> e.state = "LEADER"
    /\ e.isLeader => e.leaderIsAlive /\ e.leaderID = s
    /\ e.leaderIsAlive => e.action \in {"None", "SendCoordinator"}
    /\ e.action = "SendCoordinator" => e.isLeader

Stays(e, f) ==
    /\ f.isLeader = e.isLeader
    /\ f.leaderIsAlive = e.leaderIsAlive
    /\ f.leaderID = e.leaderID
    /\ f.epoch = e.epoch

Searches(e, f) == ~e.isLeader /\ ~f.isLeader /\ ~f.leaderIsAlive

Wins(s, e, f) ==
    /\ ~e.leaderIsAlive
    /\ f.isLeader /\ f.leaderIsAlive /\ f.leaderID = s
    /\ f.epoch = e.epoch

Adopts(t, p, e, f) ==
    /\ ~e.isLeader /\ ~f.isLeader
    /\ f.leaderIsAlive /\ f.leaderID = t
    /\ f.epoch = p.epoch

Heeds(p, e, f) ==
    /\ e.isLeader /\ f.isLeader
    /\ f.leaderIsAlive = e.leaderIsAlive /\ f.leaderID = e.leaderID
    /\ f.epoch = p.epoch

LEMMA ConsistentIsSound ==
    ASSUME NEW s \in Servers
    PROVE  Consistent(s) <=> /\ Sound(s, em[s])
                             /\ doing[s] = "SendCoordinator" => em[s].isLeader
BY DEF Consistent, Sound

\* A new election is begun by a server without a leader.
LEMMA SoundBegin ==
    ASSUME NEW s \in Servers, NEW e \in Manager, ~e.leaderIsAlive
    PROVE  /\ Sound(s, BeginElection(e))
           /\ ~BeginElection(e).isLeader /\ ~BeginElection(e).leaderIsAlive
BY DEF Sound, BeginElection, Manager

LEMMA SoundStart ==
    ASSUME NEW s \in Servers, NEW e \in Manager, Sound(s, e)
    PROVE  /\ Sound(s, StartElection(e))
           /\ Stays(e, StartElection(e)) \/ Searches(e, StartElection(e))
<1>1. CASE ~e.leaderIsAlive /\ e.action = "None"
  <2>1. StartElection(e) = BeginElection(e)
    BY <1>1 DEF StartElection
  <2>2. ~e.isLeader
    BY <1>1 DEF Sound
  <2> QED BY <1>1, <2>1, <2>2, SoundBegin DEF Searches
<1>2. CASE ~(~e.leaderIsAlive /\ e.action = "None")
  BY <1>2 DEF StartElection, Stays
<1> QED BY <1>1, <1>2

LEMMA SoundLost ==
    ASSUME NEW s \in Servers, NEW t \in Servers, s # t,
           NEW e \in Manager, Sound(s, e)
    PROVE  /\ Sound(s, Lost(e, t))
           /\ Stays(e, Lost(e, t)) \/ Searches(e, Lost(e, t))
<1>1. CASE e.leaderID = t
  <2> DEFINE f == [e EXCEPT !.leaderIsAlive = FALSE]
  <2>1. Lost(e, t) = BeginElection(f)
    BY <1>1 DEF Lost, UnsetLeaderIsAlive
  <2>2. ~e.isLeader
    BY <1>1 DEF Sound
  <2>3. f \in Manager /\ ~f.leaderIsAlive
    BY DEF Manager
  <2> QED BY <2>1, <2>2, <2>3, SoundBegin DEF Searches
<1>2. CASE e.leaderID # t
  BY <1>2 DEF Lost, Stays
<1> QED BY <1>1, <1>2

\* A packet of server t makes a leader heed it, and only a COORDINATOR makes
\* another server follow t.
LEMMA SoundHandled ==
    ASSUME NEW s \in Servers, NEW t \in Servers, s # t,
           NEW e \in Manager, Sound(s, e), NEW p \in Packet
    PROVE  LET f == Handled(e, s, t, p)
           IN  /\ Sound(s, f)
               /\ \/ Stays(e, f)
                  \/ Searches(e, f)
                  \/ p.type = "COORDINATOR" /\ (Adopts(t, p, e, f) \/ Heeds(p, e, f))
<1> DEFINE f == Handled(e, s, t, p)
<1>1. CASE p.type = "ELECTION"
  <2>1. f = IF e.isLeader THEN e ELSE StartElection(e)
    BY <1>1 DEF Handled
  <2> QED BY <2>1, SoundStart DEF Stays
<1>2. CASE p.type = "ANSWER"
  <2>1. f = ReceivedAnswer(e, p.epoch)
    BY <1>2 DEF Handled
  <2>2. CASE f = e
    BY <2>2 DEF Stays
  <2>3. CASE f = [e EXCEPT !.state = "REPLICA", !.action = "WaitElection"]
               /\ ~e.leaderIsAlive
    BY <2>3 DEF Sound, Stays, Manager
  <2> QED BY <2>1, <2>2, <2>3 DEF ReceivedAnswer
<1>3. CASE p.type = "COORDINATOR"
  <2>1. f = ReceivedCoordinator(e, s, t, p.epoch)
    BY <1>3 DEF Handled
  <2>2. CASE e.state = "LEADER"
    <3>1. f = [e EXCEPT !.epoch = p.epoch]
      BY <2>1, <2>2 DEF ReceivedCoordinator
    <3>2. Sound(s, f) /\ Heeds(p, e, f)
      BY <2>2, <3>1 DEF Sound, Heeds, Manager
    <3> QED BY <1>3, <3>2
  <2>3. CASE e.state # "LEADER"
    <3>1. ~e.isLeader
      BY <2>3 DEF Sound
    <3>2. f = [leaderID |-> t, isLeader |-> FALSE, state |-> "REPLICA",
               leaderIsAlive |-> TRUE, action |-> "None", epoch |-> p.epoch]
      <4>1. (t = s \/ e.isLeader) = FALSE
        BY <3>1
      <4> QED BY <2>1, <2>3, <4>1 DEF ReceivedCoordinator
    <3>3. Sound(s, f) /\ Adopts(t, p, e, f)
      BY <3>1, <3>2 DEF Sound, Adopts
    <3> QED BY <1>3, <3>3
  <2> QED BY <2>2, <2>3
<1> QED BY <1>1, <1>2, <1>3 DEF Packet

LEMMA SoundStep ==
    ASSUME NEW s \in Servers, NEW e \in Manager, Sound(s, e)
    PROVE  Sound(s, Step(e)) /\ Stays(e, Step(e))
BY DEF Sound, Stays, Step, Manager, Actions

LEMMA SoundWaitAnswerTimeout ==
    ASSUME NEW s \in Servers, NEW e \in Manager, Sound(s, e), e.action = "WaitAnswer"
    PROVE  LET f == WaitAnswerTimeout(e, s) IN Sound(s, f) /\ Wins(s, e, f)
<1> DEFINE g == ReceivedCoordinator(e, s, s, e.epoch)
<1>1. ~e.leaderIsAlive /\ e.state # "LEADER"
  BY DEF Sound
<1>2. g = [leaderID |-> s, isLeader |-> TRUE, state |-> "LEADER",
           leaderIsAlive |-> TRUE, action |-> "None", epoch |-> e.epoch]
  BY <1>1 DEF ReceivedCoordinator
<1>3. WaitAnswerTimeout(e, s) =
        [leaderID |-> s, isLeader |-> TRUE, state |-> "LEADER",
         leaderIsAlive |-> TRUE, action |-> "SendCoordinator", epoch |-> e.epoch]
  <2>1. WaitAnswerTimeout(e, s) =
          [g EXCEPT !.leaderIsAlive = TRUE, !.action = "SendCoordinator"]
    BY DEF WaitAnswerTimeout
  <2> HIDE DEF g
  <2> QED BY <1>2, <2>1
<1> QED BY <1>1, <1>3 DEF Sound, Wins

LEMMA SoundWaitElectionTimeout ==
    ASSUME NEW s \in Servers, NEW e \in Manager, Sound(s, e), e.action = "WaitElection"
    PROVE  LET f == WaitElectionTimeout(e) IN Sound(s, f) /\ Searches(e, f)
<1>1. ~e.leaderIsAlive /\ ~e.isLeader
  BY DEF Sound
<1> QED BY <1>1, SoundBegin DEF WaitElectionTimeout, Searches

-----------------------------------------------------------------------------
(* What a step can send, and the step as a whole.                          *)

Packets(q) == {q[k] : k \in DOMAIN q}

\* A leader announces itself with its epoch, and nobody else does.
Announced(s, p) ==
    p.type = "COORDINATOR" => em[s].isLeader /\ p.epoch = em[s].epoch

SendsTruly ==
    \A s, t \in Servers : s # t =>
        \A p \in Packets(chan'[s, t]) : p \in Packets(chan[s, t]) \/ Announced(s, p)

Moves(s) ==
    \E f \in Manager :
        /\ em' = [em EXCEPT ![s] = f]
        /\ Sound(s, f)
        /\ doing' \in {doing, [doing EXCEPT ![s] = "None"],
                      [doing EXCEPT ![s] = f.action]}
        /\ \/ Stays(em[s], f) \/ Searches(em[s], f) \/ Wins(s, em[s], f)
           \/ \E t \in Servers \ {s} : \E p \in Packets(chan[t, s]) :
                 /\ p.type = "COORDINATOR"
                 /\ Adopts(t, p, em[s], f) \/ Heeds(p, em[s], f)

LEMMA PacketsOfTail ==
    ASSUME NEW q \in Seq(Packet), q # <<>>
    PROVE  Packets(Tail(q)) \subseteq Packets(q) /\ Head(q) \in Packets(q)
<1>1. ASSUME NEW k \in DOMAIN Tail(q) PROVE Tail(q)[k] \in Packets(q)
  <2>1. Tail(q) \in Seq(Packet) /\ k \in 1..Len(Tail(q)) /\ Len(Tail(q)) = Len(q) - 1
    BY <1>1, HeadTailProperties, LenProperties
  <2>2. Tail(q)[k] = q[k + 1]
    BY <2>1, HeadTailProperties
  <2>3. k + 1 \in DOMAIN q
    BY <2>1, LenProperties
  <2> QED BY <2>2, <2>3 DEF Packets
<1>2. Head(q) \in Packets(q)
  <2>1. 1 \in DOMAIN q /\ Head(q) = q[1]
    BY LenProperties, EmptySeq
  <2> QED BY <2>1 DEF Packets
<1> QED BY <1>1, <1>2 DEF Packets

LEMMA NoPackets == Packets(<<>>) = {}
<1>1. DOMAIN <<>> = {}
  OBVIOUS
<1> QED BY <1>1 DEF Packets

LEMMA PacketsOfConcat ==
    ASSUME NEW q \in Seq(Packet), NEW r \in Seq(Packet)
    PROVE  Packets(q \o r) \subseteq Packets(q) \cup Packets(r)
<1>1. ASSUME NEW k \in DOMAIN (q \o r)
      PROVE  (q \o r)[k] \in Packets(q) \cup Packets(r)
  <2>1. q \o r \in Seq(Packet) /\ Len(q) \in Nat /\ Len(r) \in Nat
    BY ConcatProperties, LenProperties
  <2>2. k \in 1..(Len(q) + Len(r))
    BY <1>1, <2>1, ConcatProperties, LenProperties
  <2>3. CASE k <= Len(q)
    <3>1. (q \o r)[k] = q[k] /\ k \in DOMAIN q
      BY <2>1, <2>2, <2>3, ConcatProperties, LenProperties
    <3> QED BY <3>1 DEF Packets
  <2>4. CASE k > Len(q)
    <3>1. (q \o r)[k] = r[k - Len(q)] /\ k - Len(q) \in DOMAIN r
      BY <2>1, <2>2, <2>4, ConcatProperties, LenProperties
    <3> QED BY <3>1 DEF Packets
  <2> QED BY <2>1, <2>2, <2>3, <2>4
<1> QED BY <1>1 DEF Packets

LEMMA TransitIsPackets ==
    ASSUME NEW q
    PROVE  InTransit(q, {"COORDINATOR"})
             <=> \E p \in Packets(q) : p.type = "COORDINATOR"
BY DEF InTransit, Packets

\* The packets of a signal, and of a reply.
LEMMA PacketsOfSignal ==
    ASSUME NEW s \in Servers,
           NEW type \in {"ELECTION", "ANSWER", "COORDINATOR"},
           type = "COORDINATOR" => em[s].isLeader
    PROVE  \A p \in Packets(Signal(type, em[s])) : Announced(s, p)
<1>1. \A p \in Packets(Signal(type, em[s])) : p = [type |-> type, epoch |-> em[s].epoch]
  BY DEF Packets, Signal
<1> QED BY <1>1 DEF Announced

LEMMA PacketsOfReplies ==
    ASSUME TypeOK, NEW s \in Servers, NEW p \in Packet
    PROVE  \A r \in Packets(Replies(em[s], p)) : Announced(s, r)
<1>1. CASE p.type # "ELECTION"
  BY <1>1 DEF Replies, Packets
<1>2. CASE p.type = "ELECTION" /\ ~em[s].isLeader
  <2>1. Replies(em[s], p) = Signal("ANSWER", em[s])
    BY <1>2 DEF Replies
  <2> QED BY <2>1, PacketsOfSignal
<1>3. CASE p.type = "ELECTION" /\ em[s].isLeader
  <2>1. Replies(em[s], p) = Signal("ANSWER", em[s]) \o Signal("COORDINATOR", em[s])
    BY <1>3 DEF Replies
  <2>2. /\ Signal("ANSWER", em[s]) \in Seq(Packet)
        /\ Signal("COORDINATOR", em[s]) \in Seq(Packet)
    BY PacketTypes DEF TypeOK
  <2>3. /\ \A r \in Packets(Signal("ANSWER", em[s])) : Announced(s, r)
        /\ \A r \in Packets(Signal("COORDINATOR", em[s])) : Announced(s, r)
    BY <1>3, PacketsOfSignal
  <2> QED BY <2>1, <2>2, <2>3, PacketsOfConcat
<1> QED BY <1>1, <1>2, <1>3

LEMMA PacketsOfSent ==
    ASSUME TypeOK, NEW s \in Servers, NEW t \in Servers, s # t,
           NEW q \in Seq(Packet), \A p \in Packets(q) : Announced(s, p)
    PROVE  \A p \in Packets(Sent(s, t, q)) :
              p \in Packets(chan[s, t]) \/ Announced(s, p)
<1>1. chan[s, t] \in Seq(Packet)
  BY LinkFacts DEF TypeOK
<1>2. Packets(chan[s, t] \o q) \subseteq Packets(chan[s, t]) \cup Packets(q)
  BY <1>1, PacketsOfConcat
<1>3. Sent(s, t, q) = chan[s, t] \o q \/ Sent(s, t, q) = chan[s, t]
  BY DEF Sent
<1> QED BY <1>2, <1>3

\* The two shapes of a step's effect on the channels.
LEMMA TrulyOnOneLink ==
    ASSUME TypeOK, NEW s \in Servers, NEW t \in Servers, s # t, NEW q,
           chan' = [chan EXCEPT ![<<s, t>>] = q],
           \A p \in Packets(q) : p \in Packets(chan[s, t]) \/ Announced(s, p)
    PROVE  SendsTruly
<1> SUFFICES ASSUME NEW a \in Servers, NEW b \in Servers, a # b,
                    NEW p \in Packets(chan'[a, b])
             PROVE  p \in Packets(chan[a, b]) \/ Announced(a, p)
  BY DEF SendsTruly
<1>1. CASE a = s /\ b = t
  <2>1. chan'[a, b] = q
    BY <1>1, LinkFacts DEF TypeOK
  <2> QED BY <1>1, <2>1
<1>2. CASE ~(a = s /\ b = t)
  <2>1. chan'[a, b] = chan[a, b]
    BY <1>2, LinkFacts DEF TypeOK
  <2> QED BY <2>1
<1> QED BY <1>1, <1>2

LEMMA TrulyOnReceive ==
    ASSUME TypeOK, NEW s \in Servers, NEW t \in Servers, s # t,
           ReceivePacket(s, t)
    PROVE  SendsTruly
<1> DEFINE p == Head(chan[t, s])
           q == Sent(s, t, Replies(em[s], p))
<1>1. /\ chan[t, s] \in Seq(Packet) /\ chan[t, s] # <<>>
      /\ p \in Packet
      /\ Packets(Tail(chan[t, s])) \subseteq Packets(chan[t, s])
  <2>1. chan[t, s] \in Seq(Packet) /\ chan[t, s] # <<>>
    BY LinkFacts DEF TypeOK, ReceivePacket, Readable
  <2> QED BY <2>1, HeadTailProperties, PacketsOfTail
<1>2. chan' = [chan EXCEPT ![<<t, s>>] = Tail(chan[t, s]), ![<<s, t>>] = q]
  BY LinkFacts DEF ReceivePacket, TypeOK
<1>3. \A r \in Packets(q) : r \in Packets(chan[s, t]) \/ Announced(s, r)
  <2>1. em[s] \in Manager
    BY DEF TypeOK
  <2>2. Replies(em[s], p) \in Seq(Packet)
    BY <1>1, <2>1, PacketTypes
  <2>3. \A r \in Packets(Replies(em[s], p)) : Announced(s, r)
    BY <1>1, PacketsOfReplies
  <2> QED BY <2>2, <2>3, PacketsOfSent
<1> HIDE DEF p, q
<1> SUFFICES ASSUME NEW a \in Servers, NEW b \in Servers, a # b,
                    NEW r \in Packets(chan'[a, b])
             PROVE  r \in Packets(chan[a, b]) \/ Announced(a, r)
  BY DEF SendsTruly
<1>4. CASE a = s /\ b = t
  <2>1. chan'[a, b] = q
    BY <1>2, <1>4, LinkFacts DEF TypeOK
  <2> QED BY <1>3, <1>4, <2>1
<1>5. CASE a = t /\ b = s
  <2>1. chan'[a, b] = Tail(chan[t, s])
    BY <1>2, <1>5, LinkFacts DEF TypeOK
  <2> QED BY <1>1, <1>5, <2>1
<1>6. CASE ~(a = s /\ b = t) /\ ~(a = t /\ b = s)
  <2>1. chan'[a, b] = chan[a, b]
    BY <1>2, <1>6, LinkFacts DEF TypeOK
  <2> QED BY <2>1
<1> QED BY <1>4, <1>5, <1>6

LEMMA TrulyWhenLost ==
    ASSUME TypeOK, NEW L,
           chan' = [l \in Links |-> IF l \in L THEN <<>> ELSE chan[l]]
    PROVE  SendsTruly
<1> SUFFICES ASSUME NEW a \in Servers, NEW b \in Servers, a # b,
                    NEW p \in Packets(chan'[a, b])
             PROVE  p \in Packets(chan[a, b])
  BY DEF SendsTruly
<1>1. chan'[a, b] = IF <<a, b>> \in L THEN <<>> ELSE chan[a, b]
  BY LinkFacts
<1> QED BY <1>1, NoPackets

LEMMA StayingMoves ==
    ASSUME TypeOK, NEW s \in Servers, Consistent(s), UNCHANGED em,
           doing' \in {doing, [doing EXCEPT ![s] = "None"],
                      [doing EXCEPT ![s] = em[s].action]}
    PROVE  Moves(s)
<1>1. em[s] \in Manager /\ em' = [em EXCEPT ![s] = em[s]]
  BY DEF TypeOK
<1>2. Sound(s, em[s]) /\ Stays(em[s], em[s])
  BY ConsistentIsSound DEF Stays
<1> QED BY <1>1, <1>2 DEF Moves

LEMMA ReceiveMoves ==
    ASSUME TypeOK, NEW s \in Servers, NEW t \in Servers, s # t, Consistent(s),
           ReceivePacket(s, t), UNCHANGED doing
    PROVE  Moves(s)
<1> DEFINE p == Head(chan[t, s])
           f == Handled(em[s], s, t, p)
<1>1. p \in Packet /\ f \in Manager
  BY ReceivedTypes DEF ReceivePacket
<1>2. p \in Packets(chan[t, s])
  <2>1. chan[t, s] \in Seq(Packet) /\ chan[t, s] # <<>>
    BY LinkFacts DEF TypeOK, ReceivePacket, Readable
  <2> QED BY <2>1, PacketsOfTail
<1>3. em' = [em EXCEPT ![s] = f]
  BY DEF ReceivePacket, TypeOK
<1>4. em[s] \in Manager /\ Sound(s, em[s])
  BY ConsistentIsSound DEF TypeOK
<1>5. /\ Sound(s, f)
      /\ \/ Stays(em[s], f) \/ Searches(em[s], f)
         \/ p.type = "COORDINATOR" /\ (Adopts(t, p, em[s], f) \/ Heeds(p, em[s], f))
  BY <1>1, <1>4, SoundHandled
<1> HIDE DEF p, f
<1> QED BY <1>1, <1>2, <1>3, <1>5 DEF Moves

\* Each action of the main thread, and of its process.
LEMMA LoopMoves ==
    ASSUME TypeOK, NEW s \in Servers, NEW t \in Servers, s # t, Consistent(s),
           \/ LoopConnect(s, t) \/ LoopReceive(s, t)
           \/ LoopLose(s, t) \/ LoopNothing(s, t)
    PROVE  Moves(s) /\ SendsTruly
<1>1. CASE LoopConnect(s, t) \/ LoopNothing(s, t)
  <2>1. UNCHANGED <<em, doing, chan>>
    BY <1>1 DEF LoopConnect, LoopNothing
  <2>2. Moves(s)
    BY <2>1, StayingMoves
  <2>3. SendsTruly
    BY <2>1 DEF SendsTruly
  <2> QED BY <2>2, <2>3
<1>2. CASE LoopReceive(s, t)
  BY <1>2, ReceiveMoves, TrulyOnReceive DEF LoopReceive
<1>3. CASE LoopLose(s, t)
  <2> DEFINE f == Lost(em[s], t)
  <2>1. em[s] \in Manager /\ Sound(s, em[s]) /\ em[s].epoch \in Epochs
    BY ConsistentIsSound DEF TypeOK, Manager
  <2>2. f \in Manager
    BY <2>1, ManagerTypes
  <2>3. em' = [em EXCEPT ![s] = f] /\ doing' = doing
    BY <1>3 DEF LoopLose, TypeOK
  <2>4. Sound(s, f) /\ (Stays(em[s], f) \/ Searches(em[s], f))
    BY <2>1, SoundLost
  <2>5. SendsTruly
    <3>1. chan' = [chan EXCEPT ![<<t, s>>] = <<>>]
      BY <1>3 DEF LoopLose
    <3> QED BY <3>1, NoPackets, TrulyOnOneLink
  <2> HIDE DEF f
  <2> QED BY <2>2, <2>3, <2>4, <2>5 DEF Moves
<1> QED BY <1>1, <1>2, <1>3

LEMMA TurnMoves ==
    ASSUME TypeOK, NEW s \in Servers, Consistent(s),
           LoopEnd(s) \/ Turn(s) \/ TurnTimeout(s) \/ TurnEnd(s)
    PROVE  Moves(s) /\ SendsTruly
<1>1. /\ em[s] \in Manager /\ Sound(s, em[s])
      /\ StartElection(em[s]) \in Manager
      /\ WaitAnswerTimeout(em[s], s) \in Manager
      /\ WaitElectionTimeout(em[s]) \in Manager
      /\ Step(em[s]) \in Manager
  <2>1. em[s] \in Manager /\ Sound(s, em[s])
    BY ConsistentIsSound DEF TypeOK
  <2>2. em[s].epoch \in Epochs
    BY <2>1 DEF Manager
  <2> QED BY <2>1, <2>2, ManagerTypes
<1>2. SendsTruly
  BY DEF LoopEnd, Turn, TurnTimeout, TurnEnd, BeginTurn, SendsTruly
<1>3. CASE LoopEnd(s)
  <2>1. em' = [em EXCEPT ![s] = StartElection(em[s])] /\ doing' = doing
    BY <1>3 DEF LoopEnd, TypeOK
  <2>2. /\ Sound(s, StartElection(em[s]))
        /\ \/ Stays(em[s], StartElection(em[s]))
           \/ Searches(em[s], StartElection(em[s]))
    BY <1>1, SoundStart
  <2> QED BY <1>1, <1>2, <2>1, <2>2 DEF Moves
<1>4. CASE Turn(s)
  <2>1. em' = [em EXCEPT ![s] = em[s]]
        /\ doing' = [doing EXCEPT ![s] = em[s].action]
    BY <1>4 DEF Turn, BeginTurn
  <2>2. UNCHANGED em
    BY <2>1 DEF TypeOK
  <2> QED BY <1>2, <2>1, <2>2, StayingMoves
<1>5. CASE TurnTimeout(s)
  <2>1. CASE em[s].action = "WaitAnswer" /\ BeginTurn(s, WaitAnswerTimeout(em[s], s))
    <3> DEFINE f == WaitAnswerTimeout(em[s], s)
    <3>1. Sound(s, f) /\ Wins(s, em[s], f)
      BY <1>1, <2>1, SoundWaitAnswerTimeout
    <3>2. em' = [em EXCEPT ![s] = f] /\ doing' = [doing EXCEPT ![s] = f.action]
      BY <2>1 DEF BeginTurn
    <3> HIDE DEF f
    <3> QED BY <1>1, <1>2, <3>1, <3>2 DEF Moves, f
  <2>2. CASE em[s].action = "WaitElection" /\ BeginTurn(s, WaitElectionTimeout(em[s]))
    <3> DEFINE f == WaitElectionTimeout(em[s])
    <3>1. Sound(s, f) /\ Searches(em[s], f)
      BY <1>1, <2>2, SoundWaitElectionTimeout
    <3>2. em' = [em EXCEPT ![s] = f] /\ doing' = [doing EXCEPT ![s] = f.action]
      BY <2>2 DEF BeginTurn
    <3> HIDE DEF f
    <3> QED BY <1>1, <1>2, <3>1, <3>2 DEF Moves, f
  <2> QED BY <1>5, <2>1, <2>2 DEF TurnTimeout
<1>6. CASE TurnEnd(s)
  <2>1. em' = [em EXCEPT ![s] = Step(em[s])] /\ doing' = [doing EXCEPT ![s] = "None"]
    BY <1>6 DEF TurnEnd, TypeOK
  <2>2. Sound(s, Step(em[s])) /\ Stays(em[s], Step(em[s]))
    BY <1>1, SoundStep
  <2> QED BY <1>1, <1>2, <2>1, <2>2 DEF Moves
<1> QED BY <1>3, <1>4, <1>5, <1>6

LEMMA ElectionStateMoves ==
    ASSUME TypeOK, NEW s \in Servers, NEW t \in Servers, s # t, Consistent(s),
           ElectionSend(s, t) \/ ElectionReceive(s, t)
    PROVE  Moves(s) /\ SendsTruly
<1>1. CASE ElectionSend(s, t)
  <2>1. Moves(s)
    BY <1>1, StayingMoves DEF ElectionSend
  <2>2. ASSUME NEW type \in {"ELECTION", "ANSWER", "COORDINATOR"},
               type = "COORDINATOR" => em[s].isLeader,
               chan' = [chan EXCEPT ![<<s, t>>] = Sent(s, t, Signal(type, em[s]))]
        PROVE  SendsTruly
    <3>1. Signal(type, em[s]) \in Seq(Packet)
      <4>1. em[s] \in Manager
        BY DEF TypeOK
      <4> QED BY <4>1 DEF Signal, Packet, Manager
    <3>2. \A p \in Packets(Signal(type, em[s])) : Announced(s, p)
      BY <2>2, PacketsOfSignal
    <3>3. \A p \in Packets(Sent(s, t, Signal(type, em[s]))) :
             p \in Packets(chan[s, t]) \/ Announced(s, p)
      BY <3>1, <3>2, PacketsOfSent
    <3> QED BY <2>2, <3>3, TrulyOnOneLink
  <2>3. doing[s] = "SendCoordinator" => em[s].isLeader
    BY DEF Consistent
  <2>4. ASSUME UNCHANGED chan PROVE SendsTruly
    BY <2>4 DEF SendsTruly
  <2>5. SendsTruly
    BY <1>1, <2>2, <2>3, <2>4 DEF ElectionSend
  <2> QED BY <2>1, <2>5
<1>2. CASE ElectionReceive(s, t)
  <2>1. CASE ReceivePacket(s, t)
    BY <1>2, <2>1, ReceiveMoves, TrulyOnReceive DEF ElectionReceive
  <2>2. CASE UNCHANGED <<em, chan>>
    BY <1>2, <2>2, StayingMoves DEF ElectionReceive, SendsTruly
  <2> QED BY <1>2, <2>1, <2>2 DEF ElectionReceive
<1> QED BY <1>1, <1>2

LEMMA ProcessMoves ==
    ASSUME TypeOK, NEW s \in Servers, Consistent(s), Start(s) \/ Crash(s)
    PROVE  Moves(s) /\ SendsTruly
<1>1. CASE Start(s)
  BY <1>1, StayingMoves DEF Start, SendsTruly
<1>2. CASE Crash(s)
  <2>1. Moves(s)
    BY <1>2, StayingMoves DEF Crash
  <2>2. chan' = [l \in Links |-> IF l \in {m \in Links : m[2] = s} THEN <<>> ELSE chan[l]]
    BY <1>2 DEF Crash
  <2> QED BY <2>1, <2>2, TrulyWhenLost
<1> QED BY <1>1, <1>2

LEMMA StepMoves ==
    ASSUME TypeOK, \A s \in Servers : Consistent(s), Next
    PROVE  SendsTruly /\ \E s \in Servers : Moves(s)
<1>1. PICK s \in Servers : MainThread(s) \/ Start(s) \/ Crash(s)
  BY DEF Next
<1>2. CASE Start(s) \/ Crash(s)
  BY <1>2, ProcessMoves
<1>3. CASE LoopEnd(s) \/ Turn(s) \/ TurnTimeout(s) \/ TurnEnd(s)
  BY <1>3, TurnMoves
<1>4. ASSUME NEW t \in Servers \ {s},
             \/ LoopConnect(s, t) \/ LoopReceive(s, t)
             \/ LoopLose(s, t) \/ LoopNothing(s, t)
      PROVE  Moves(s) /\ SendsTruly
  BY <1>4, LoopMoves
<1>5. ASSUME NEW t \in Servers \ {s}, ElectionSend(s, t) \/ ElectionReceive(s, t)
      PROVE  Moves(s) /\ SendsTruly
  BY <1>5, ElectionStateMoves
<1> QED BY <1>1, <1>2, <1>3, <1>4, <1>5 DEF MainThread

-----------------------------------------------------------------------------
(* The invariant.                                                          *)

\* The move of s from the point of view of its peers.
LEMMA Others ==
    ASSUME TypeOK, NEW s \in Servers, NEW f, em' = [em EXCEPT ![s] = f]
    PROVE  /\ em'[s] = f
           /\ \A u \in Servers \ {s} : em'[u] = em[u]
BY DEF TypeOK

\* No move takes the lead from a leader.
LEMMA LeadersStay ==
    ASSUME TypeOK, NEW s \in Servers, Moves(s), NEW u \in Servers, em[u].isLeader
    PROVE  em'[u].isLeader
<1>1. PICK f \in Manager : Moves(s)!(f)
  BY DEF Moves
<1>2. CASE u # s
  BY <1>1, <1>2, Others
<1>3. CASE u = s /\ ~Wins(s, em[s], f)
  BY <1>1, <1>3, Others DEF Stays, Searches, Adopts, Heeds
<1>4. CASE u = s /\ Wins(s, em[s], f)
  <2>1. em'[u] = f
    BY <1>1, <1>4, Others
  <2>2. f.isLeader
    BY <1>4 DEF Wins
  <2> QED BY <2>1, <2>2
<1> QED BY <1>2, <1>3, <1>4

\* Whose COORDINATOR is read had announced itself.
LEMMA SenderLeads ==
    ASSUME AnnouncedByLeader, NEW s \in Servers, NEW t \in Servers, s # t,
           NEW p \in Packets(chan[t, s]), p.type = "COORDINATOR"
    PROVE  em[t].isLeader
<1>1. InTransit(chan[<<t, s>>], {"COORDINATOR"})
  BY TransitIsPackets
<1> QED BY <1>1, LinkFacts DEF AnnouncedByLeader

LEMMA MoveInvariant ==
    ASSUME IInv, TypeOK', NEW s \in Servers, Moves(s), SendsTruly
    PROVE  IInv'
<1>1. PICK f \in Manager : Moves(s)!(f)
  BY DEF Moves
<1>2. TypeOK
  BY DEF IInv
<1>3. em'[s] = f /\ \A u \in Servers \ {s} : em'[u] = em[u]
  BY <1>1, <1>2, Others
<1>4. ASSUME NEW u \in Servers PROVE Consistent(u)'
  <2>1. Sound(u, em'[u])
    <3>1. CASE u = s
      BY <1>1, <1>3, <3>1
    <3>2. CASE u # s
      BY <1>3, <3>2, ConsistentIsSound DEF IInv
    <3> QED BY <3>1, <3>2
  <2>2. doing'[u] = "SendCoordinator" => em'[u].isLeader
    <3>1. CASE doing'[u] = doing[u]
      BY <3>1, <1>2, LeadersStay DEF IInv, Consistent
    <3>2. CASE doing'[u] # doing[u]
      <4>1. u = s /\ (doing'[u] = "None" \/ doing'[u] = f.action)
        <5>1. doing \in [Servers -> Actions]
          BY <1>2 DEF TypeOK
        <5>2. CASE doing' = doing
          BY <3>2, <5>2
        <5>3. CASE doing' = [doing EXCEPT ![s] = "None"]
          BY <3>2, <5>1, <5>3
        <5>4. CASE doing' = [doing EXCEPT ![s] = f.action]
          BY <3>2, <5>1, <5>4
        <5> QED BY <1>1, <5>2, <5>3, <5>4
      <4> QED BY <1>1, <1>3, <4>1 DEF Sound
    <3> QED BY <3>1, <3>2
  <2> QED BY <2>1, <2>2 DEF Consistent, Sound
<1>5. FollowsLeader'
  <2> SUFFICES ASSUME NEW u \in Servers, em'[u].leaderIsAlive
               PROVE  em'[em'[u].leaderID].isLeader
    BY DEF FollowsLeader
  <2>1. CASE em'[u].leaderIsAlive = em[u].leaderIsAlive
             /\ em'[u].leaderID = em[u].leaderID
    <3>1. em[u].leaderID \in Servers
      BY <1>2 DEF TypeOK, Manager
    <3>2. em[em[u].leaderID].isLeader
      BY <2>1 DEF IInv, FollowsLeader
    <3> QED BY <1>2, <2>1, <3>1, <3>2, LeadersStay
  <2>2. CASE ~(em'[u].leaderIsAlive = em[u].leaderIsAlive
               /\ em'[u].leaderID = em[u].leaderID)
    <3>1. u = s
      BY <1>3, <2>2
    <3>2. ~Stays(em[s], f) /\ ~Searches(em[s], f) /\ \A p : ~Heeds(p, em[s], f)
      BY <1>3, <2>2, <3>1 DEF Stays, Searches, Heeds
    <3>3. CASE Wins(s, em[s], f)
      BY <1>3, <3>1, <3>3 DEF Wins
    <3>4. CASE ~Wins(s, em[s], f)
      <4>1. PICK t \in Servers \ {s} : \E p \in Packets(chan[t, s]) :
               p.type = "COORDINATOR" /\ Adopts(t, p, em[s], f)
        BY <1>1, <3>2, <3>4
      <4>2. em[t].isLeader
        BY <4>1, SenderLeads DEF IInv
      <4> QED BY <1>3, <3>1, <4>1, <4>2 DEF Adopts
    <3> QED BY <3>3, <3>4
  <2> QED BY <2>1, <2>2
<1>6. AnnouncedByLeader'
  <2> SUFFICES ASSUME NEW a \in Servers, NEW b \in Servers, a # b,
                      InTransit(chan'[<<a, b>>], {"COORDINATOR"})
               PROVE  em'[a].isLeader
    BY DEF AnnouncedByLeader, Links
  <2>1. PICK p \in Packets(chan'[a, b]) : p.type = "COORDINATOR"
    BY TransitIsPackets
  <2>2. p \in Packets(chan[a, b]) \/ Announced(a, p)
    BY DEF SendsTruly
  <2>3. em[a].isLeader
    <3>1. CASE p \in Packets(chan[a, b])
      BY <2>1, <3>1, SenderLeads DEF IInv
    <3>2. CASE Announced(a, p)
      BY <2>1, <3>2 DEF Announced
    <3> QED BY <2>2, <3>1, <3>2
  <2> QED BY <1>2, <2>3, LeadersStay
<1> QED BY <1>4, <1>5, <1>6 DEF IInv

LEMMA InitInvariant == Init => IInv
<1> SUFFICES ASSUME Init PROVE IInv
  OBVIOUS
<1>1. TypeOK
  BY InitTypes
<1>2. ASSUME NEW s \in Servers
      PROVE  /\ em[s] = [leaderID |-> 0, isLeader |-> FALSE, state |-> "REPLICA",
                         leaderIsAlive |-> FALSE, action |-> "None", epoch |-> 0]
             /\ doing[s] = "None"
  BY DEF Init
<1>3. \A s \in Servers : Consistent(s)
  BY <1>2 DEF Consistent
<1>4. FollowsLeader
  BY <1>2 DEF FollowsLeader
<1>5. AnnouncedByLeader
  <2>1. \A l \in Links : chan[l] = <<>>
    BY DEF Init
  <2>2. \A l \in Links : ~InTransit(chan[l], {"COORDINATOR"})
    BY <2>1, NoPackets, TransitIsPackets
  <2> QED BY <2>2 DEF AnnouncedByLeader
<1> QED BY <1>1, <1>3, <1>4, <1>5 DEF IInv

LEMMA StepInvariant == IInv /\ [Next]_vars => IInv'
<1> SUFFICES ASSUME IInv, [Next]_vars PROVE IInv'
  OBVIOUS
<1>1. TypeOK'
  BY StepTypes DEF IInv
<1>2. CASE Next
  <2>1. SendsTruly /\ \E s \in Servers : Moves(s)
    BY <1>2, StepMoves DEF IInv
  <2> QED BY <1>1, <2>1, MoveInvariant
<1>3. CASE UNCHANGED vars
  BY <1>1, <1>3 DEF vars, IInv, Consistent, FollowsLeader, AnnouncedByLeader
<1> QED BY <1>2, <1>3

\* In every state of the election, whatever the timers, the losses and the
\* crashes: the managers are consistent, whom a server follows was elected,
\* and so was whoever sent a COORDINATOR that is still to be read.
THEOREM ElectionInvariant == Spec => []IInv
BY InitInvariant, StepInvariant, PTL DEF Spec

-----------------------------------------------------------------------------
(* The refinement of Leadership.                                           *)

\* The step of s seen through the refinement mapping.
LEMMA MappedStep ==
    ASSUME TypeOK, NEW s \in Servers, NEW f, em' = [em EXCEPT ![s] = f],
           em[s].isLeader => f.isLeader
    PROVE  /\ Leaders' = IF f.isLeader THEN Leaders \cup {s} ELSE Leaders
           /\ [u \in Servers |-> View(u)'] =
                 [[u \in Servers |-> View(u)] EXCEPT
                    ![s] = IF f.leaderIsAlive THEN f.leaderID ELSE NoLeader]
<1>1. em'[s] = f /\ \A u \in Servers \ {s} : em'[u] = em[u]
  BY Others
<1>2. ASSUME NEW u \in Servers
      PROVE  u \in Leaders' <=> u \in (IF f.isLeader THEN Leaders \cup {s} ELSE Leaders)
  <2>1. CASE u = s
    <3>1. u \in Leaders' <=> f.isLeader
      BY <1>1, <2>1 DEF Leaders
    <3>2. u \in Leaders <=> em[s].isLeader
      BY <2>1 DEF Leaders
    <3> QED BY <2>1, <3>1, <3>2
  <2>2. CASE u # s
    <3>1. u \in Leaders' <=> u \in Leaders
      BY <1>1, <2>2 DEF Leaders
    <3> QED BY <2>2, <3>1
  <2> QED BY <2>1, <2>2
<1>3. Leaders' \subseteq Servers /\ Leaders \subseteq Servers
  BY DEF Leaders
<1>4. ASSUME NEW u \in Servers
      PROVE  View(u)' = IF u = s THEN (IF f.leaderIsAlive THEN f.leaderID ELSE NoLeader)
                        ELSE View(u)
  BY <1>1 DEF View, NoLeader
<1> QED BY <1>2, <1>3, <1>4

LEMMA MoveKeepsPromise ==
    ASSUME IInv, NEW s \in Servers, Moves(s)
    PROVE  [Promise!Next]_(Promise!vars)
<1> DEFINE views == [u \in Servers |-> View(u)]
           viewOf(f) == IF f.leaderIsAlive THEN f.leaderID ELSE NoLeader
<1>1. PICK f \in Manager : Moves(s)!(f)
  BY DEF Moves
<1>2. TypeOK /\ Sound(s, em[s])
  BY ConsistentIsSound DEF IInv
<1>3. em[s].isLeader => f.isLeader
  BY <1>1, <1>2, LeadersStay, Others
<1>4. /\ Leaders' = IF f.isLeader THEN Leaders \cup {s} ELSE Leaders
      /\ views' = [views EXCEPT ![s] = viewOf(f)]
  BY <1>1, <1>2, <1>3, MappedStep
<1>5. (s \in Leaders <=> em[s].isLeader) /\ views[s] = viewOf(em[s])
  BY DEF Leaders, View
<1>6. CASE Stays(em[s], f) \/ \E p : Heeds(p, em[s], f)
  <2>1. viewOf(f) = viewOf(em[s]) /\ f.isLeader = em[s].isLeader
    <3>1. f.leaderIsAlive = em[s].leaderIsAlive /\ f.leaderID = em[s].leaderID
      BY <1>6 DEF Stays, Heeds
    <3>2. f.isLeader = em[s].isLeader
      <4>1. em[s].isLeader \in BOOLEAN /\ f.isLeader \in BOOLEAN
        BY <1>1, <1>2 DEF TypeOK, Manager
      <4> QED BY <1>6, <4>1 DEF Stays, Heeds
    <3> QED BY <3>1, <3>2
  <2>2. Leaders' = Leaders
    BY <1>4, <1>5, <2>1
  <2>3. views' = views
    BY <1>4, <1>5, <2>1
  <2> QED BY <2>2, <2>3 DEF Promise!vars
<1>7. CASE Searches(em[s], f)
  <2>1. s \notin Leaders /\ Leaders' = Leaders /\ viewOf(f) = NoLeader
    BY <1>4, <1>5, <1>7 DEF Searches
  <2>2. Promise!Drop(s)
    BY <1>4, <2>1 DEF Promise!Drop
  <2> QED BY <2>2 DEF Promise!Next
<1>8. CASE Wins(s, em[s], f)
  <2>1. views[s] = NoLeader /\ Leaders' = Leaders \cup {s} /\ viewOf(f) = s
    BY <1>4, <1>5, <1>8 DEF Wins
  <2>2. Promise!Lead(s)
    BY <1>4, <2>1 DEF Promise!Lead
  <2> QED BY <2>2 DEF Promise!Next
<1>9. ASSUME NEW t \in Servers \ {s}, NEW p \in Packets(chan[t, s]),
             p.type = "COORDINATOR", Adopts(t, p, em[s], f)
      PROVE  [Promise!Next]_(Promise!vars)
  <2>1. t \in Leaders
    BY <1>9, SenderLeads DEF IInv, Leaders
  <2>2. s \notin Leaders /\ Leaders' = Leaders /\ viewOf(f) = t
    BY <1>4, <1>5, <1>9 DEF Adopts
  <2>3. Promise!Follow(s, t)
    BY <1>4, <2>1, <2>2 DEF Promise!Follow
  <2> QED BY <2>3 DEF Promise!Next
<1> QED BY <1>1, <1>6, <1>7, <1>8, <1>9

LEMMA StepKeepsPromise ==
    IInv /\ [Next]_vars => [Promise!Next]_(Promise!vars)
<1> SUFFICES ASSUME IInv, [Next]_vars PROVE [Promise!Next]_(Promise!vars)
  OBVIOUS
<1>1. CASE Next
  <2>1. \E s \in Servers : Moves(s)
    BY <1>1, StepMoves DEF IInv
  <2> QED BY <2>1, MoveKeepsPromise
<1>2. CASE UNCHANGED vars
  BY <1>2 DEF vars, Promise!vars, Leaders, View
<1> QED BY <1>1, <1>2

LEMMA InitKeepsPromise == Init => Promise!Init
<1> SUFFICES ASSUME Init PROVE Promise!Init
  OBVIOUS
<1>1. \A s \in Servers : ~em[s].isLeader /\ ~em[s].leaderIsAlive
  BY DEF Init
<1>2. Leaders = {}
  BY <1>1 DEF Leaders
<1>3. \A s \in Servers : View(s) = NoLeader
  BY <1>1 DEF View
<1> QED BY <1>2, <1>3 DEF Promise!Init

\* The election keeps the promise of Leadership: with any number of servers,
\* and whatever expires, is lost or crashes, whom a server follows was
\* elected, and a leader leads, and follows nobody else, for life.
THEOREM ElectionImplementsLeadership == Spec => ImplementsLeadership
<1>1. Spec => []IInv
  BY ElectionInvariant
<1>2. Init => Promise!Init
  BY InitKeepsPromise
<1>3. IInv /\ [Next]_vars => [Promise!Next]_(Promise!vars)
  BY StepKeepsPromise
<1> QED BY <1>1, <1>2, <1>3, PTL DEF Spec, ImplementsLeadership, Promise!Spec

-----------------------------------------------------------------------------
(* The shared epoch.                                                       *)

\* What makes FollowersShareEpoch inductive: the COORDINATORs of the only
\* leader that are still to be read carry its epoch, too.
EpochInv ==
    \A l \in Servers : Leaders = {l} =>
        /\ \A s \in Servers : View(s) = l => em[s].epoch = em[l].epoch
        /\ \A s \in Servers \ {l} : \A p \in Packets(chan[l, s]) :
              p.type = "COORDINATOR" => p.epoch = em[l].epoch

LEMMA NoLeaderIsNoServer == NoLeader \notin Servers
BY ConstantsAssumption DEF NoLeader, End, Servers

\* Without a leader nobody follows, and no COORDINATOR is in transit.
LEMMA NobodyLeads ==
    ASSUME IInv, Leaders = {}
    PROVE  /\ \A s \in Servers : View(s) = NoLeader
           /\ \A s, t \in Servers : s # t =>
                 \A p \in Packets(chan[s, t]) : p.type # "COORDINATOR"
<1>1. \A s \in Servers : ~em[s].isLeader
  BY DEF Leaders
<1>2. ASSUME NEW s \in Servers PROVE View(s) = NoLeader
  <2>1. em[s].leaderID \in Servers
    BY DEF IInv, TypeOK, Manager
  <2> QED BY <1>1, <2>1 DEF View, IInv, FollowsLeader
<1>3. ASSUME NEW s \in Servers, NEW t \in Servers, s # t, NEW p \in Packets(chan[s, t])
      PROVE  p.type # "COORDINATOR"
  BY <1>1, <1>3, SenderLeads DEF IInv
<1> QED BY <1>2, <1>3

LEMMA MoveKeepsEpoch ==
    ASSUME IInv, EpochInv, NEW s \in Servers, Moves(s), SendsTruly,
           NEW l \in Servers, Leaders' = {l}
    PROVE  /\ \A u \in Servers : View(u)' = l => em'[u].epoch = em'[l].epoch
           /\ \A u \in Servers \ {l} : \A p \in Packets(chan'[l, u]) :
                 p.type = "COORDINATOR" => p.epoch = em'[l].epoch
<1>1. PICK f \in Manager : Moves(s)!(f)
  BY DEF Moves
<1>2. TypeOK /\ Sound(s, em[s])
  BY ConsistentIsSound DEF IInv
<1>3. em'[s] = f /\ \A u \in Servers \ {s} : em'[u] = em[u]
  BY <1>1, <1>2, Others
<1>4. em[s].isLeader => f.isLeader
  BY <1>2, <1>3, LeadersStay
<1>5. Leaders' = IF f.isLeader THEN Leaders \cup {s} ELSE Leaders
  BY <1>1, <1>2, <1>4, MappedStep
<1>6. \A u \in Servers : View(u)' = IF em'[u].leaderIsAlive THEN em'[u].leaderID
                                   ELSE NoLeader
  BY DEF View, NoLeader
<1>7. CASE Leaders = {}
  <2>1. s = l /\ f.isLeader
    BY <1>5, <1>7
  <2>2. ASSUME NEW u \in Servers, View(u)' = l PROVE u = l
    <3>1. CASE u = s
      BY <2>1, <3>1
    <3>2. CASE u # s
      <4>1. View(u)' = View(u)
        BY <1>3, <3>2 DEF View, NoLeader
      <4> QED BY <1>7, <2>2, <4>1, NobodyLeads, NoLeaderIsNoServer
    <3> QED BY <3>1, <3>2
  <2>3. ASSUME NEW u \in Servers \ {l}, NEW p \in Packets(chan'[l, u]),
               p.type = "COORDINATOR"
        PROVE  FALSE
    <3>1. p \in Packets(chan[l, u]) \/ Announced(l, p)
      BY <2>3 DEF SendsTruly
    <3>2. ~em[l].isLeader
      BY <1>7 DEF Leaders
    <3> QED BY <1>7, <2>3, <3>1, <3>2, NobodyLeads DEF Announced
  <2> QED BY <2>2, <2>3
<1>8. CASE Leaders # {}
  <2>1. Leaders = {l} /\ (f.isLeader => s = l)
    BY <1>5, <1>8
  <2>2. em[l].isLeader /\ em[l].leaderIsAlive
    <3>1. em[l].isLeader
      BY <2>1 DEF Leaders
    <3> QED BY <3>1 DEF IInv, Consistent
  <2>3. ASSUME NEW t \in Servers \ {s}, NEW p \in Packets(chan[t, s]),
               p.type = "COORDINATOR"
        PROVE  t = l /\ s # l /\ p.epoch = em[l].epoch
    <3>1. t = l
      BY <2>1, <2>3, SenderLeads DEF IInv, Leaders
    <3> QED BY <2>1, <2>3, <3>1 DEF EpochInv
  <2>4. ~Wins(s, em[s], f) /\ (s = l => Stays(em[s], f))
    <3>1. ~Wins(s, em[s], f)
      BY <2>1, <2>2 DEF Wins
    <3>2. ASSUME s = l PROVE Stays(em[s], f)
      BY <1>1, <2>2, <2>3, <3>1, <3>2 DEF Searches
    <3> QED BY <3>1, <3>2
  <2>5. em'[l].epoch = em[l].epoch
    BY <1>3, <2>4 DEF Stays
  <2>6. ASSUME NEW u \in Servers, View(u)' = l
        PROVE  em'[u].epoch = em'[l].epoch
    <3>1. CASE View(u) = l /\ em'[u].epoch = em[u].epoch
      BY <2>1, <2>5, <3>1 DEF EpochInv
    <3>2. CASE u # s
      <4>1. View(u)' = View(u)
        BY <1>3, <3>2 DEF View, NoLeader
      <4> QED BY <1>3, <2>6, <3>1, <3>2, <4>1
    <3>3. CASE u = s /\ Stays(em[s], f)
      <4>1. View(u)' = View(u)
        BY <1>3, <3>3 DEF View, NoLeader, Stays
      <4> QED BY <1>3, <2>6, <3>1, <3>3, <4>1 DEF Stays
    <3>4. CASE u = s /\ ~Stays(em[s], f)
      <4>1. ~Searches(em[s], f)
        BY <1>3, <1>6, <2>6, <3>4, NoLeaderIsNoServer DEF Searches
      <4>2. \A p : ~Heeds(p, em[s], f)
        BY <2>1, <2>4, <3>4 DEF Heeds
      <4>3. PICK t \in Servers \ {s} : \E p \in Packets(chan[t, s]) :
              p.type = "COORDINATOR" /\ Adopts(t, p, em[s], f)
        BY <1>1, <2>4, <3>4, <4>1, <4>2
      <4> QED BY <1>3, <2>3, <2>5, <3>4, <4>3 DEF Adopts
    <3> QED BY <3>2, <3>3, <3>4
  <2>7. ASSUME NEW u \in Servers \ {l}, NEW p \in Packets(chan'[l, u]),
               p.type = "COORDINATOR"
        PROVE  p.epoch = em'[l].epoch
    <3>1. p \in Packets(chan[l, u]) \/ Announced(l, p)
      BY <2>7 DEF SendsTruly
    <3> QED BY <2>1, <2>5, <2>7, <3>1 DEF EpochInv, Announced
  <2> QED BY <2>6, <2>7
<1> QED BY <1>7, <1>8

LEMMA StepKeepsEpoch == IInv /\ EpochInv /\ [Next]_vars => EpochInv'
<1> SUFFICES ASSUME IInv, EpochInv, [Next]_vars PROVE EpochInv'
  OBVIOUS
<1>1. CASE Next
  <2>1. SendsTruly /\ \E s \in Servers : Moves(s)
    BY <1>1, StepMoves DEF IInv
  <2> QED BY <2>1, MoveKeepsEpoch DEF EpochInv
<1>2. CASE UNCHANGED vars
  BY <1>2 DEF vars, EpochInv, Leaders, View
<1> QED BY <1>1, <1>2

LEMMA InitKeepsEpoch == Init => EpochInv
<1> SUFFICES ASSUME Init PROVE EpochInv
  OBVIOUS
<1>1. Leaders = {}
  BY DEF Init, Leaders
<1> QED BY <1>1 DEF EpochInv

\* While one server alone was ever elected, its followers have its epoch:
\* no COORDINATOR that is still on its way can give them another one.
THEOREM ElectionFollowersShareEpoch == Spec => []FollowersShareEpoch
<1>1. Spec => []IInv
  BY ElectionInvariant
<1>2. EpochInv => FollowersShareEpoch
  BY DEF EpochInv, FollowersShareEpoch
<1> QED BY <1>1, <1>2, InitKeepsEpoch, StepKeepsEpoch, PTL DEF Spec

=============================================================================

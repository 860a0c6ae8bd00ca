------------------------- MODULE ReplicationProofs --------------------------
(***************************************************************************)
(* Theorems about Replication for any number of backups, user threads and  *)
(* commands.                                                               *)
(***************************************************************************)
EXTENDS Replication, FiniteSetTheorems, FunctionTheorems, SequenceTheorems, TLAPS

-----------------------------------------------------------------------------
(* The helpers map entries to entries.                                     *)

LEMMA NewEntryType ==
    ASSUME NEW state \in States, NEW seqn \in Epochs, NEW marks \in SUBSET Servers
    PROVE  NewEntry(state, seqn, marks) \in Entry
BY DEF NewEntry, Entry

LEMMA AbsentType == Absent \in Entry
<1>1. 0 \in Epochs /\ "ABSENT" \in States /\ {} \in SUBSET Servers
  BY ConstantsAssumption DEF Epochs, States
<1>2. QED
  BY <1>1, NewEntryType DEF Absent

LEMMA ConfirmTypes ==
    ASSUME NEW e \in Entry, NEW marks \in SUBSET Servers
    PROVE  /\ ReceivedConfirms(e, marks) \in Entry
           /\ UpdateConfirm(e) \in Entry
           /\ CheckSent(e) \in Entry
           /\ [e EXCEPT !.state = "COMMITTED"] \in Entry
           /\ [e EXCEPT !.old = TRUE] \in Entry
<1>1. ReceivedConfirms(e, marks) \in Entry
  BY DEF ReceivedConfirms, Entry, States
<1>2. UpdateConfirm(e) \in Entry /\ CheckSent(e) \in Entry
  BY DEF UpdateConfirm, CheckSent, Entry, States
<1>3. /\ [e EXCEPT !.state = "COMMITTED"] \in Entry
      /\ [e EXCEPT !.old = TRUE] \in Entry
  BY DEF Entry, States
<1>4. QED
  BY <1>1, <1>2, <1>3

LEMMA UpdateSendType ==
    ASSUME NEW e \in Entry, NEW to \in Servers, NEW ok \in BOOLEAN
    PROVE  UpdateSend(e, to, ok) \in Entry
<1>1. {Leader} \in SUBSET Servers
  BY ConstantsAssumption DEF Servers, Leader
<1>2. e.sentTo \cup {to} \in SUBSET Servers /\ e.sentTo \ {to} \in SUBSET Servers
  BY DEF Entry
<1>3. ASSUME NEW m \in SUBSET Servers
      PROVE  /\ [e EXCEPT !.sentTo = m] \in Entry
             /\ [e EXCEPT !.state = "SENT", !.sentTo = m] \in Entry
  BY DEF Entry, States
<1>4. QED
  BY <1>1, <1>2, <1>3 DEF UpdateSend

LEMMA ReceivedToReplicateType ==
    ASSUME NEW e \in Entry, NEW seqn \in Epochs, NEW epoch \in Epochs
    PROVE  ReceivedToReplicate(e, seqn, epoch) \in Entry
<1>1. NewEntry("CONFIRM", seqn, {}) \in Entry
  BY NewEntryType DEF States
<1>2. ASSUME NEW state \in States
      PROVE  [e EXCEPT !.state = state, !.old = FALSE] \in Entry
  BY DEF Entry
<1>3. QED
  BY <1>1, <1>2 DEF ReceivedToReplicate, States

LEMMA CheckTimeoutsType ==
    ASSUME NEW e \in Entry
    PROVE  CheckTimeouts(e) \in Entry
<1>1. ASSUME NEW f \in Nat, NEW state \in States
      PROVE  /\ [e EXCEPT !.fails = f, !.state = state] \in Entry
             /\ [e EXCEPT !.fails = f, !.old = FALSE, !.state = state] \in Entry
  BY DEF Entry
<1>2. e.fails + 1 \in Nat
  BY DEF Entry
<1>3. (IF e.state = "SENT" THEN "SEND" ELSE e.state) \in States
  BY DEF Entry, States
<1>4. [e EXCEPT !.fails = e.fails + 1, !.state = "CANCELED"] \in Entry
  BY <1>1, <1>2 DEF States
<1>5. [e EXCEPT !.fails = e.fails + 1, !.old = FALSE,
               !.state = IF e.state = "SENT" THEN "SEND" ELSE e.state] \in Entry
  BY <1>1, <1>2, <1>3
<1>6. QED
  BY <1>4, <1>5, AbsentType DEF CheckTimeouts

LEMMA ClearType ==
    ASSUME NEW e \in Entry, NEW epoch \in Epochs
    PROVE  Clear(e, epoch) \in Entry
BY AbsentType DEF Clear

\* A set of timestamps in map order is a sequence of its elements.
LEMMA InOrderType ==
    ASSUME NEW S \in SUBSET Ids, NEW q \in InOrder(S)
    PROVE  /\ q \in Seq(Ids)
           /\ Len(q) = Cardinality(S)
           /\ \A k \in 1..Len(q) : q[k] \in S
<1>1. IsFiniteSet(Ids) /\ IsFiniteSet(S)
  <2>1. 1 \in Int /\ MaxId \in Int
    BY ConstantsAssumption
  <2>2. IsFiniteSet(Ids)
    BY <2>1, FS_Interval DEF Ids
  <2>3. QED
    BY <2>2, FS_Subset
<1>2. Cardinality(S) \in Nat
  BY <1>1, FS_CardinalityType
<1>3. q \in [1..Cardinality(S) -> S]
  BY DEF InOrder
<1>4. q \in [1..Cardinality(S) -> Ids]
  BY <1>3
<1>5. q \in Seq(Ids)
  BY <1>2, <1>4, SeqDef
<1>6. Len(q) = Cardinality(S)
  BY <1>2, <1>3
<1>7. QED
  BY <1>3, <1>5, <1>6

-----------------------------------------------------------------------------
(* Type correctness.  The bound on the failures of the leader's entries    *)
(* needs a stronger form: an entry past the limit is CANCELED.             *)

LeaderStates == {"ABSENT", "SEND", "SENT", "COMMITTED", "CANCELED"}

LeaderEntry(e) ==
    /\ e.state \in LeaderStates
    /\ e.fails <= IF e.state = "CANCELED" THEN MaxFailures + 1 ELSE MaxFailures

TypeInv ==
    /\ TypeOK
    /\ \A i \in Ids : LeaderEntry(messages[Leader][i])
    /\ \A u \in Users : user[u].pc # "idle" => user[u].id \in Ids
    /\ lpc # "send" => cursor = N + 1
    /\ cursor # N + 1 => /\ sending \in Ids
                         /\ messages[Leader][sending].state \in {"SEND", "SENT"}

LEMMA LeaderEntryHelpers ==
    ASSUME NEW e \in Entry, LeaderEntry(e), NEW epoch \in Epochs,
           NEW marks \in SUBSET Servers, NEW seqn \in Epochs
    PROVE  /\ LeaderEntry(ReceivedConfirms(e, marks))
           /\ LeaderEntry(CheckSent(e))
           /\ LeaderEntry(CheckTimeouts(e))
           /\ LeaderEntry(Clear(e, epoch))
           /\ LeaderEntry([e EXCEPT !.old = TRUE])
           /\ LeaderEntry(NewEntry("SEND", seqn, {Leader}))
<1>1. MaxFailures \in Nat
  BY ConstantsAssumption
<1> USE DEF Entry, LeaderEntry, LeaderStates, States
<1>2. LeaderEntry(ReceivedConfirms(e, marks))
  BY DEF ReceivedConfirms
<1>3. LeaderEntry(CheckSent(e))
  BY DEF CheckSent
<1>4. LeaderEntry(Absent) /\ LeaderEntry(NewEntry("SEND", seqn, {Leader}))
  BY <1>1 DEF Absent, NewEntry
<1>5. LeaderEntry(CheckTimeouts(e))
  BY <1>1, <1>4 DEF CheckTimeouts
<1>6. LeaderEntry(Clear(e, epoch))
  BY <1>4 DEF Clear
<1>7. LeaderEntry([e EXCEPT !.old = TRUE])
  OBVIOUS
<1>8. QED
  BY <1>2, <1>3, <1>4, <1>5, <1>6, <1>7

LEMMA SendKeepsLeaderEntry ==
    ASSUME NEW e \in Entry, LeaderEntry(e), e.state \in {"SEND", "SENT"},
           NEW to \in Servers, NEW ok \in BOOLEAN
    PROVE  /\ LeaderEntry(UpdateSend(e, to, ok))
           /\ UpdateSend(e, to, ok).state \in {"SEND", "SENT"}
BY ConstantsAssumption DEF UpdateSend, Entry, LeaderEntry, LeaderStates

LEMMA InitTypeInv == Init => TypeInv
<1> SUFFICES ASSUME Init PROVE TypeInv
  OBVIOUS
<1>1. Leader \in Servers /\ Backups \subseteq Servers /\ 0 \in Epochs
  BY ConstantsAssumption DEF Leader, Servers, Backups, Epochs
<1>2. messages \in [Servers -> [Ids -> Entry]]
  BY AbsentType DEF Init
<1>3. \A i \in Ids : LeaderEntry(messages[Leader][i]) /\ messages[Leader][i].fails = 0
  BY <1>1, ConstantsAssumption
     DEF Init, Absent, NewEntry, LeaderEntry, LeaderStates
<1>4. /\ conn \in [Backups -> {"never", "open", "broken", "closed"}]
      /\ bconn \in [Backups -> {"never", "open", "broken", "closed"}]
  BY DEF Init
<1>5. /\ chan \in [Backups -> Seq(Packet)]
      /\ back \in [Backups -> Seq(Ids)]
      /\ applied \in [Backups -> Seq(Ids)]
  BY EmptySeq DEF Init
<1>6. /\ rmEpoch \in [Servers -> Epochs]
      /\ emEpoch \in [Servers -> Epochs]
  BY <1>1 DEF Init
<1>7. user \in [Users -> [pc : {"idle", "begin", "wait"}, id : 0..MaxId, seqn : Epochs]]
  BY <1>1, ConstantsAssumption DEF Init
<1>8. /\ sending \in 0..MaxId /\ clock \in 0..(MaxId + 1)
      /\ cursor \in 1..(N + 1)
      /\ lpc \in {"receive", "manage", "ready", "send"}
      /\ dead \subseteq Backups /\ alive \subseteq Servers /\ told \subseteq Ids
  BY ConstantsAssumption DEF Init
<1>9. \A i \in Ids : messages[Leader][i].fails <= MaxFailures + 1
  BY <1>3, ConstantsAssumption
<1>10. TypeOK
  BY <1>2, <1>4, <1>5, <1>6, <1>7, <1>8, <1>9 DEF TypeOK
<1>11. QED
  BY <1>3, <1>10 DEF Init, TypeInv

LEMMA LeaderEntriesBounded ==
    ASSUME NEW table \in [Ids -> Entry], \A i \in Ids : LeaderEntry(table[i])
    PROVE  \A i \in Ids : table[i].fails <= MaxFailures + 1
BY ConstantsAssumption DEF Entry, LeaderEntry

\* User threads.
LEMMA UserTypes ==
    ASSUME TypeInv, NEW u \in Users,
           Request(u) \/ NewReplication(u) \/ Poll(u)
    PROVE  TypeInv'
<1>0. Leader \in Servers /\ emEpoch[Leader] \in Epochs
  BY ConstantsAssumption DEF Leader, Servers, TypeInv, TypeOK
<1>1. CASE Request(u)
  <2>1. PICK i \in {clock, clock + 1} \cap Ids :
           /\ clock' = i
           /\ user' = [user EXCEPT ![u] =
                         [pc |-> "begin", id |-> i, seqn |-> emEpoch[Leader]]]
    BY <1>1 DEF Request
  <2>2. i \in 0..MaxId /\ i \in 0..(MaxId + 1)
    BY ConstantsAssumption DEF Ids
  <2>3. user' \in [Users -> [pc : {"idle", "begin", "wait"}, id : 0..MaxId,
                            seqn : Epochs]]
    BY <1>0, <2>1, <2>2 DEF TypeInv, TypeOK
  <2>4. \A v \in Users : user'[v].pc # "idle" => user'[v].id \in Ids
    BY <2>1 DEF TypeInv, TypeOK
  <2>5. QED
    BY <1>1, <2>1, <2>2, <2>3, <2>4
       DEF Request, TypeInv, TypeOK, netVars, leaderVars
<1>2. CASE NewReplication(u)
  <2> DEFINE i == user[u].id
  <2>1. i \in Ids /\ user[u].seqn \in Epochs
    BY <1>2 DEF NewReplication, TypeInv, TypeOK
  <2>2. user' \in [Users -> [pc : {"idle", "begin", "wait"}, id : 0..MaxId,
                            seqn : Epochs]]
    BY <1>2 DEF NewReplication, TypeInv, TypeOK
  <2>3. \A v \in Users : user'[v].pc # "idle" => user'[v].id \in Ids
    BY <1>2, <2>1 DEF NewReplication, TypeInv, TypeOK
  <2>4. NewEntry("SEND", user[u].seqn, {Leader}) \in Entry
    <3>1. {Leader} \in SUBSET Servers /\ "SEND" \in States
      BY <1>0 DEF States
    <3>2. QED
      BY <2>1, <3>1, NewEntryType
  <2>5. messages' \in [Servers -> [Ids -> Entry]]
    BY <1>0, <1>2, <2>1, <2>4 DEF NewReplication, TypeInv, TypeOK
  <2>6. LeaderEntry(NewEntry("SEND", user[u].seqn, {Leader}))
    BY ConstantsAssumption DEF NewEntry, LeaderEntry, LeaderStates
  <2>7. \A j \in Ids : LeaderEntry(messages'[Leader][j])
    BY <1>0, <1>2, <2>1, <2>6 DEF NewReplication, TypeInv, TypeOK
  <2>8. \A j \in Ids : messages'[Leader][j].fails <= MaxFailures + 1
    BY <1>0, <2>5, <2>7, LeaderEntriesBounded
  <2>9. lpc # "send" /\ cursor = N + 1
    BY <1>2 DEF NewReplication, WriteSection, TypeInv
  <2>10. QED
    BY <1>2, <2>2, <2>3, <2>5, <2>7, <2>8, <2>9
       DEF NewReplication, TypeInv, TypeOK, netVars, leaderVars
<1>3. CASE Poll(u)
  <2>1. user[u].id \in Ids
    BY <1>3 DEF Poll, TypeInv
  <2>2. /\ user' \in [Users -> [pc : {"idle", "begin", "wait"}, id : 0..MaxId,
                               seqn : Epochs]]
        /\ \A v \in Users : user'[v].pc # "idle" => user'[v].id \in Ids
    BY <1>3 DEF Poll, TypeInv, TypeOK
  <2>3. told' \subseteq Ids
    BY <1>3, <2>1 DEF Poll, TypeInv, TypeOK
  <2>4. QED
    BY <1>3, <2>2, <2>3 DEF Poll, TypeInv, TypeOK, netVars, leaderVars
<1>4. QED
  BY <1>1, <1>2, <1>3

\* A helper applied to the leader's whole table keeps the types if it maps the
\* leader's entries to such entries.
LEMMA LeaderTable ==
    ASSUME TypeInv, NEW table \in [Ids -> Entry],
           \A i \in Ids : LeaderEntry(table[i]),
           messages' = [messages EXCEPT ![Leader] = table]
    PROVE  /\ messages' \in [Servers -> [Ids -> Entry]]
           /\ \A i \in Ids : messages'[Leader][i] = table[i]
           /\ \A i \in Ids : LeaderEntry(messages'[Leader][i])
           /\ \A i \in Ids : messages'[Leader][i].fails <= MaxFailures + 1
<1>1. Leader \in Servers
  BY ConstantsAssumption DEF Leader, Servers
<1>2. /\ messages' \in [Servers -> [Ids -> Entry]]
      /\ messages'[Leader] = table
  BY <1>1 DEF TypeInv, TypeOK
<1>3. QED
  BY <1>2, LeaderEntriesBounded

\* The leader's entries, as the lemmas on the helpers want them.
LEMMA LeaderEntries ==
    ASSUME TypeInv
    PROVE  /\ \A i \in Ids : messages[Leader][i] \in Entry
           /\ \A i \in Ids : LeaderEntry(messages[Leader][i])
           /\ emEpoch[Leader] \in Epochs
           /\ Leader \in Servers
           /\ Backups \subseteq Servers
BY ConstantsAssumption DEF Leader, Servers, Backups, TypeInv, TypeOK

\* The steps of the leader's main thread.
LEMMA ReceiveTypes ==
    ASSUME TypeInv, LeaderReceive
    PROVE  TypeInv'
<1> DEFINE from(i) == {b \in Backups : Reads(b) /\ Head(back[b]) = i}
           table   == [i \in Ids |-> ReceivedConfirms(messages[Leader][i], from(i))]
<1>1. \A i \in Ids : from(i) \in SUBSET Servers
  BY LeaderEntries
<1>2. table \in [Ids -> Entry]
  BY <1>1, LeaderEntries, ConfirmTypes
<1>3. \A i \in Ids : LeaderEntry(table[i])
  <2>1. ASSUME NEW i \in Ids
        PROVE  LeaderEntry(ReceivedConfirms(messages[Leader][i], from(i)))
    BY <1>1, LeaderEntries, LeaderEntryHelpers
  <2>2. QED
    BY <2>1
<1>4. messages' = [messages EXCEPT ![Leader] = table]
  BY DEF LeaderReceive
<1>5. /\ messages' \in [Servers -> [Ids -> Entry]]
      /\ \A i \in Ids : LeaderEntry(messages'[Leader][i])
      /\ \A i \in Ids : messages'[Leader][i].fails <= MaxFailures + 1
  BY <1>2, <1>3, <1>4, LeaderTable
<1>6. back' \in [Backups -> Seq(Ids)]
  <2>1. ASSUME NEW b \in Backups, Reads(b)
        PROVE  Tail(back[b]) \in Seq(Ids)
    BY <2>1, HeadTailProperties DEF Reads, TypeInv, TypeOK
  <2>2. QED
    BY <2>1 DEF LeaderReceive, TypeInv, TypeOK
<1>7. /\ conn' \in [Backups -> {"never", "open", "broken", "closed"}]
      /\ bconn' \in [Backups -> {"never", "open", "broken", "closed"}]
  BY DEF LeaderReceive, TypeInv, TypeOK
<1>8. lpc = "receive" /\ lpc' = "manage" /\ cursor = N + 1
  BY DEF LeaderReceive, TypeInv
<1>9. QED
  BY <1>5, <1>6, <1>7, <1>8 DEF LeaderReceive, TypeInv, TypeOK, userVars

LEMMA ManageTypes ==
    ASSUME TypeInv, LeaderManage
    PROVE  TypeInv'
<1> DEFINE table == [i \in Ids |-> Clear(messages[Leader][i], emEpoch[Leader])]
<1>1. table \in [Ids -> Entry] /\ \A i \in Ids : LeaderEntry(table[i])
  <2>1. ASSUME NEW i \in Ids
        PROVE  /\ Clear(messages[Leader][i], emEpoch[Leader]) \in Entry
               /\ LeaderEntry(Clear(messages[Leader][i], emEpoch[Leader]))
    <3>1. {} \in SUBSET Servers
      OBVIOUS
    <3>2. QED
      BY <3>1, LeaderEntries, ClearType, LeaderEntryHelpers
  <2>2. QED
    BY <2>1
<1>2. messages' = [messages EXCEPT ![Leader] = table]
  BY DEF LeaderManage, ForAll
<1>3. /\ messages' \in [Servers -> [Ids -> Entry]]
      /\ \A i \in Ids : LeaderEntry(messages'[Leader][i])
      /\ \A i \in Ids : messages'[Leader][i].fails <= MaxFailures + 1
  BY <1>1, <1>2, LeaderTable
<1>4. rmEpoch' \in [Servers -> Epochs] /\ dead' \subseteq Backups
  BY LeaderEntries DEF LeaderManage, TypeInv, TypeOK
<1>5. lpc = "manage" /\ lpc' = "ready" /\ cursor = N + 1
  BY DEF LeaderManage, TypeInv
<1>6. QED
  BY <1>3, <1>4, <1>5 DEF LeaderManage, TypeInv, TypeOK, netVars, userVars

LEMMA CheckSentTypes ==
    ASSUME TypeInv, LeaderCheckSent
    PROVE  TypeInv'
<1> DEFINE table == [i \in Ids |-> CheckSent(messages[Leader][i])]
<1>1. table \in [Ids -> Entry] /\ \A i \in Ids : LeaderEntry(table[i])
  <2>1. ASSUME NEW i \in Ids
        PROVE  /\ CheckSent(messages[Leader][i]) \in Entry
               /\ LeaderEntry(CheckSent(messages[Leader][i]))
    <3>1. {} \in SUBSET Servers
      OBVIOUS
    <3>2. QED
      BY <3>1, LeaderEntries, ConfirmTypes, LeaderEntryHelpers
  <2>2. QED
    BY <2>1
<1>2. messages' = [messages EXCEPT ![Leader] = table]
  BY DEF LeaderCheckSent, ForAll
<1>3. /\ messages' \in [Servers -> [Ids -> Entry]]
      /\ \A i \in Ids : LeaderEntry(messages'[Leader][i])
      /\ \A i \in Ids : messages'[Leader][i].fails <= MaxFailures + 1
  BY <1>1, <1>2, LeaderTable
<1>4. lpc = "ready" /\ lpc' = "send" /\ cursor = N + 1
  BY DEF LeaderCheckSent, TypeInv
<1>5. QED
  BY <1>3, <1>4 DEF LeaderCheckSent, TypeInv, TypeOK, netVars, userVars

LEMMA NextToSendTypes ==
    ASSUME TypeInv, LeaderNextToSend
    PROVE  TypeInv'
<1>1. /\ sending' \in Ids
      /\ messages[Leader][sending'].state = "SEND"
  BY DEF LeaderNextToSend, ToSend
<1>2. sending' \in 0..MaxId /\ 1 \in 1..(N + 1)
  BY <1>1, ConstantsAssumption DEF Ids
<1>3. QED
  BY <1>1, <1>2 DEF LeaderNextToSend, TypeInv, TypeOK, netVars, userVars

LEMMA SendTypes ==
    ASSUME TypeInv, NEW b \in Backups, LeaderSend(b)
    PROVE  TypeInv'
<1> DEFINE e == messages[Leader][sending]
<1>1. /\ cursor = b /\ b # N + 1
      /\ cursor' = cursor + 1 /\ cursor' \in 1..(N + 1)
      /\ lpc = "send" /\ lpc' = lpc
      /\ sending \in Ids /\ sending' = sending
      /\ e.state \in {"SEND", "SENT"}
  BY ConstantsAssumption DEF LeaderSend, TypeInv, Backups
<1>2. PICK ok \in BOOLEAN :
         messages' = [messages EXCEPT ![Leader][sending] = UpdateSend(e, b, ok)]
  BY DEF LeaderSend
<1>3. /\ UpdateSend(e, b, ok) \in Entry
      /\ LeaderEntry(UpdateSend(e, b, ok))
      /\ UpdateSend(e, b, ok).state \in {"SEND", "SENT"}
  BY <1>1, LeaderEntries, UpdateSendType, SendKeepsLeaderEntry
<1>4. /\ messages' \in [Servers -> [Ids -> Entry]]
      /\ messages'[Leader][sending] = UpdateSend(e, b, ok)
      /\ \A i \in Ids \ {sending} : messages'[Leader][i] = messages[Leader][i]
  BY <1>1, <1>2, <1>3, LeaderEntries DEF TypeInv, TypeOK
<1>5. \A i \in Ids : LeaderEntry(messages'[Leader][i])
  BY <1>3, <1>4 DEF TypeInv
<1>6. \A i \in Ids : messages'[Leader][i].fails <= MaxFailures + 1
  BY <1>4, <1>5, LeaderEntries, LeaderEntriesBounded
<1>7. chan' \in [Backups -> Seq(Packet)]
  <2>1. [id |-> sending, seqn |-> e.seqn] \in Packet
    BY <1>1, LeaderEntries DEF Packet, Entry
  <2>2. Append(chan[b], [id |-> sending, seqn |-> e.seqn]) \in Seq(Packet)
    BY <2>1 DEF TypeInv, TypeOK
  <2>3. QED
    BY <2>2 DEF LeaderSend, TypeInv, TypeOK
<1>8. conn' \in [Backups -> {"never", "open", "broken", "closed"}]
  BY DEF LeaderSend, TypeInv, TypeOK
<1>9. QED
  BY <1>1, <1>3, <1>4, <1>5, <1>6, <1>7, <1>8
     DEF LeaderSend, TypeInv, TypeOK, userVars

LEMMA CheckTimeoutsTypes ==
    ASSUME TypeInv, LeaderCheckTimeouts
    PROVE  TypeInv'
<1> DEFINE table == [i \in Ids |-> CheckTimeouts(messages[Leader][i])]
<1>1. table \in [Ids -> Entry] /\ \A i \in Ids : LeaderEntry(table[i])
  <2>1. ASSUME NEW i \in Ids
        PROVE  /\ CheckTimeouts(messages[Leader][i]) \in Entry
               /\ LeaderEntry(CheckTimeouts(messages[Leader][i]))
    <3>1. {} \in SUBSET Servers
      OBVIOUS
    <3>2. QED
      BY <3>1, LeaderEntries, CheckTimeoutsType, LeaderEntryHelpers
  <2>2. QED
    BY <2>1
<1>2. messages' = [messages EXCEPT ![Leader] = table]
  BY DEF LeaderCheckTimeouts, ForAll
<1>3. /\ messages' \in [Servers -> [Ids -> Entry]]
      /\ \A i \in Ids : LeaderEntry(messages'[Leader][i])
      /\ \A i \in Ids : messages'[Leader][i].fails <= MaxFailures + 1
  BY <1>1, <1>2, LeaderTable
<1>4. cursor = N + 1 /\ cursor' = cursor /\ sending' = 0 /\ 0 \in 0..MaxId
  BY ConstantsAssumption DEF LeaderCheckTimeouts
<1>5. QED
  BY <1>3, <1>4 DEF LeaderCheckTimeouts, TypeInv, TypeOK, netVars, userVars

\* A backup's turn.
LEMMA ReceivedType ==
    ASSUME TypeInv, NEW b \in Backups
    PROVE  Received(b) \in [Ids -> Entry]
<1> DEFINE t    == messages[b]
           p    == Head(chan[b])
           read == IF chan[b] = <<>> THEN t
                   ELSE [t EXCEPT ![p.id] =
                           ReceivedToReplicate(t[p.id], p.seqn, rmEpoch[b])]
<1>1. b \in Servers /\ t \in [Ids -> Entry]
      /\ rmEpoch[b] \in Epochs /\ emEpoch[b] \in Epochs
  BY LeaderEntries DEF TypeInv, TypeOK
<1>2. read \in [Ids -> Entry]
  <2>1. CASE chan[b] = <<>>
    BY <1>1, <2>1
  <2>2. CASE chan[b] # <<>>
    <3>1. p \in Packet
      BY <2>2, HeadTailProperties DEF TypeInv, TypeOK
    <3>2. p.id \in Ids /\ p.seqn \in Epochs
      BY <3>1 DEF Packet
    <3>3. ReceivedToReplicate(t[p.id], p.seqn, rmEpoch[b]) \in Entry
      BY <1>1, <3>2, ReceivedToReplicateType
    <3>4. QED
      BY <1>1, <2>2, <3>2, <3>3
  <2>3. QED
    BY <2>1, <2>2
<1>3. \A i \in Ids : Clear(read[i], emEpoch[b]) \in Entry
  BY <1>1, <1>2, ClearType
<1>4. Received(b) = [i \in Ids |-> Clear(read[i], emEpoch[b])]
  BY DEF Received, ForAll
<1>5. QED
  BY <1>3, <1>4

LEMMA BackupTurnTypes ==
    ASSUME TypeInv, NEW b \in Backups, BackupTurn(b)
    PROVE  TypeInv'
<1> DEFINE received  == Received(b)
           toConfirm == In(received, {"CONFIRM", "CONFIRMDUP"})
           confirmed(ok) == [i \in Ids |-> IF i \in ok
                                           THEN UpdateConfirm(received[i])
                                           ELSE received[i]]
           toCommit(ok)  == In(confirmed(ok), {"COMMIT"})
           committed(ok) == [i \in Ids |-> IF i \in toCommit(ok)
                               THEN [confirmed(ok)[i] EXCEPT !.state = "COMMITTED"]
                               ELSE confirmed(ok)[i]]
           table(ok)     == [i \in Ids |-> CheckTimeouts(committed(ok)[i])]
<1>1. PICK ok \in SUBSET toConfirm :
        /\ \/ \E q \in InOrder(ok) : back' = [back EXCEPT ![b] = @ \o q]
           \/ UNCHANGED back
        /\ \/ bconn' = [bconn EXCEPT ![b] = IF ok = toConfirm THEN "open" ELSE "broken"]
           \/ UNCHANGED bconn
        /\ \E q \in InOrder(toCommit(ok)) : applied' = [applied EXCEPT ![b] = @ \o q]
        /\ messages' = [messages EXCEPT ![b] = table(ok)]
  BY DEF BackupTurn, ForAll
<1> HIDE DEF received
<1>2. received \in [Ids -> Entry]
  BY ReceivedType DEF received
<1>3. ok \in SUBSET Ids /\ toCommit(ok) \in SUBSET Ids
  BY DEF In
<1>4. confirmed(ok) \in [Ids -> Entry]
  <2>1. \A i \in Ids : UpdateConfirm(received[i]) \in Entry
    BY <1>2, ConfirmTypes
  <2>2. QED
    BY <1>2, <2>1
<1>5. committed(ok) \in [Ids -> Entry]
  <2> HIDE DEF confirmed, toCommit
  <2>1. \A i \in Ids : [confirmed(ok)[i] EXCEPT !.state = "COMMITTED"] \in Entry
    BY <1>4, ConfirmTypes
  <2>2. QED
    BY <1>4, <2>1
<1>6. table(ok) \in [Ids -> Entry]
  <2> HIDE DEF committed
  <2>1. QED
    BY <1>5, CheckTimeoutsType
<1> HIDE DEF table, toCommit
<1>7. b \in Servers /\ b # Leader
  BY ConstantsAssumption DEF Servers, Backups, Leader
<1>8. /\ messages' \in [Servers -> [Ids -> Entry]]
      /\ messages'[Leader] = messages[Leader]
  BY <1>1, <1>6, <1>7, LeaderEntries DEF TypeInv, TypeOK
<1>9. back' \in [Backups -> Seq(Ids)]
  <2>1. ASSUME NEW q \in InOrder(ok)
        PROVE  back[b] \o q \in Seq(Ids)
    BY <1>3, InOrderType, ConcatProperties DEF TypeInv, TypeOK
  <2>2. back \in [Backups -> Seq(Ids)]
    BY DEF TypeInv, TypeOK
  <2>3. CASE \E q \in InOrder(ok) : back' = [back EXCEPT ![b] = @ \o q]
    BY <2>1, <2>2, <2>3
  <2>4. CASE UNCHANGED back
    BY <2>2, <2>4
  <2>5. QED
    BY <1>1, <2>3, <2>4
<1>10. applied' \in [Backups -> Seq(Ids)]
  <2>1. ASSUME NEW q \in InOrder(toCommit(ok))
        PROVE  applied[b] \o q \in Seq(Ids)
    BY <1>3, InOrderType, ConcatProperties DEF TypeInv, TypeOK
  <2>2. QED
    BY <1>1, <2>1 DEF TypeInv, TypeOK
<1>11. bconn' \in [Backups -> {"never", "open", "broken", "closed"}]
  BY <1>1 DEF TypeInv, TypeOK
<1>12. chan' \in [Backups -> Seq(Packet)]
  <2>1. chan[b] # <<>> => Tail(chan[b]) \in Seq(Packet)
    BY HeadTailProperties DEF TypeInv, TypeOK
  <2>2. chan' = [chan EXCEPT ![b] = IF @ = <<>> THEN @ ELSE Tail(@)]
    BY DEF BackupTurn
  <2>3. QED
    BY <2>1, <2>2 DEF TypeInv, TypeOK
<1>13. rmEpoch' \in [Servers -> Epochs]
  <2>1. rmEpoch' = [rmEpoch EXCEPT ![b] = emEpoch[b]]
    BY DEF BackupTurn
  <2>2. QED
    BY <1>7, <2>1 DEF TypeInv, TypeOK
<1>14. UNCHANGED <<emEpoch, alive, conn, leaderVars, userVars>>
  BY DEF BackupTurn
<1>15. QED
  BY <1>8, <1>9, <1>10, <1>11, <1>12, <1>13, <1>14
     DEF TypeInv, TypeOK, leaderVars, userVars

\* The environment.
LEMMA EnvironmentTypes ==
    ASSUME TypeInv,
           \/ \E b \in Backups : BackupLoses(b)
           \/ \E s \in Servers : Crash(s) \/ NewEpoch(s)
    PROVE  TypeInv'
<1>1. CASE \E b \in Backups : BackupLoses(b)
  BY <1>1 DEF BackupLoses, TypeInv, TypeOK, leaderVars, userVars
<1>2. CASE \E s \in Servers : Crash(s)
  BY <1>2 DEF Crash, TypeInv, TypeOK, leaderVars, userVars
<1>3. CASE \E s \in Servers : NewEpoch(s)
  BY <1>3 DEF NewEpoch, TypeInv, TypeOK, netVars, leaderVars, userVars
<1>4. QED
  BY <1>1, <1>2, <1>3

LEMMA AgeTypes ==
    ASSUME TypeInv, NEW s \in Servers, NEW i \in Ids, Age(s, i)
    PROVE  TypeInv'
<1> DEFINE e == messages[s][i]
<1>1. messages' = [messages EXCEPT ![s][i].old = TRUE]
  BY DEF Age
<1>2. e \in Entry /\ [e EXCEPT !.old = TRUE] \in Entry
  <2>1. e \in Entry
    BY DEF TypeInv, TypeOK
  <2>2. {} \in SUBSET Servers
    OBVIOUS
  <2>3. QED
    BY <2>1, <2>2, ConfirmTypes
<1>3. messages' \in [Servers -> [Ids -> Entry]]
  BY <1>1, <1>2 DEF TypeInv, TypeOK
<1>4. \A j \in Ids : /\ messages'[Leader][j].state = messages[Leader][j].state
                     /\ messages'[Leader][j].fails = messages[Leader][j].fails
  BY <1>1, LeaderEntries DEF TypeInv, TypeOK, Entry
<1>5. \A j \in Ids : LeaderEntry(messages'[Leader][j])
  BY <1>4 DEF LeaderEntry, TypeInv
<1>6. \A j \in Ids : messages'[Leader][j].fails <= MaxFailures + 1
  BY <1>4 DEF TypeInv, TypeOK
<1>7. clock' \in 0..(MaxId + 1)
  BY ConstantsAssumption DEF Age, TypeInv, TypeOK, Ids
<1>8. QED
  BY <1>3, <1>4, <1>5, <1>6, <1>7
     DEF Age, TypeInv, TypeOK, netVars, leaderVars, userVars

LEMMA StepTypeInv == TypeInv /\ [Next]_vars => TypeInv'
<1> SUFFICES ASSUME TypeInv, [Next]_vars PROVE TypeInv'
  OBVIOUS
<1>1. CASE LeaderStep
  BY <1>1, ReceiveTypes, SendTypes, ManageTypes, CheckSentTypes,
     NextToSendTypes, CheckTimeoutsTypes DEF LeaderStep
<1>2. CASE \E u \in Users : Request(u) \/ NewReplication(u) \/ Poll(u)
  BY <1>2, UserTypes
<1>3. CASE \E b \in Backups : BackupTurn(b) \/ BackupLoses(b)
  BY <1>3, BackupTurnTypes, EnvironmentTypes
<1>4. CASE \E s \in Servers : Crash(s) \/ NewEpoch(s)
  BY <1>4, EnvironmentTypes
<1>5. CASE \E s \in Servers, i \in Ids : Age(s, i)
  BY <1>5, AgeTypes
<1>6. CASE UNCHANGED vars
  BY <1>6 DEF vars, netVars, leaderVars, userVars, TypeInv, TypeOK
<1>7. QED
  BY <1>1, <1>2, <1>3, <1>4, <1>5, <1>6 DEF Next

\* The types, and what makes them inductive: an entry of the leader past its
\* failures is CANCELED, and the one that is being sent is SEND or SENT.
THEOREM SpecTypeInv == Spec => []TypeInv
BY InitTypeInv, StepTypeInv, PTL DEF Spec

\* Every variable keeps its type, for any number of servers, user threads and
\* commands; in particular an entry of the leader fails at most
\* MaxFailures + 1 times before checkTimeouts drops it.
THEOREM ReplicationTypes == Spec => []TypeOK
<1>1. TypeInv => TypeOK
  BY DEF TypeInv
<1>2. QED
  BY <1>1, SpecTypeInv, PTL

-----------------------------------------------------------------------------
(* What the results on the state of the backups are stated with.           *)

\* The leader is never elected again.
OneEpoch == MaxEpoch = 0

\* The backups that were there from the start.
Founding == Backups \ Late

\* A set in map order lists every element of it.
LEMMA InOrderComplete ==
    ASSUME NEW S \in SUBSET Ids, NEW q \in InOrder(S), NEW i \in S
    PROVE  \E k \in 1..Len(q) : q[k] = i
<1>1. IsFiniteSet(Ids) /\ IsFiniteSet(S)
  <2>1. 1 \in Int /\ MaxId \in Int
    BY ConstantsAssumption
  <2>2. IsFiniteSet(Ids)
    BY <2>1, FS_Interval DEF Ids
  <2>3. QED
    BY <2>2, FS_Subset
<1> DEFINE n == Cardinality(S)
<1>2. n \in Nat
  BY <1>1, FS_CardinalityType
<1>3. q \in [1..n -> S] /\ \A j, k \in 1..n : j < k => q[j] < q[k]
  BY DEF InOrder
<1>4. \A k \in 1..n : q[k] \in Int
  <2>1. Ids \subseteq Int
    BY ConstantsAssumption DEF Ids
  <2>2. QED
    BY <1>3, <2>1
<1>5. \A j, k \in 1..n : q[j] = q[k] => j = k
  BY <1>2, <1>3, <1>4
<1>6. q \in Injection(1..n, S)
  BY <1>3, <1>5, Fun_IsInj
<1>7. IsFiniteSet(1..n) /\ Cardinality(1..n) = n
  BY <1>2, FS_Interval
<1>8. q \in Surjection(1..n, S)
  BY <1>1, <1>6, <1>7, FS_Injection
<1>9. QED
  BY <1>8, InOrderType DEF Surjection

=============================================================================

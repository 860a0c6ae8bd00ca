-------------------------- MODULE ReplicationOrder --------------------------
(***************************************************************************)
(* What a backup applies: never a command of an epoch it has left,         *)
(* whatever the constants; if the entry of a backup outlasts the copies    *)
(* still to come, every command once and in the order in which the leader  *)
(* first sent it, however often the leader's own entries grow old; and no  *)
(* command reported as committed is lost.                                  *)
(*                                                                         *)
(* All of it rests on what a backup holds between two turns: as long as it *)
(* can write to its connection it owes no confirmation, and once it cannot *)
(* it applies nothing any more.  So a turn applies the packet it reads, or *)
(* nothing.                                                                *)
(*                                                                         *)
(* The results hold for any number of epochs, as long as the epoch of a    *)
(* backup does not fall back and no two commands have one timestamp in two *)
(* epochs.  For a single epoch, which is so without being assumed, they    *)
(* are the properties that the runs of Replication check.                  *)
(***************************************************************************)
EXTENDS ReplicationProofs, ReplicationLog, WellFoundedInduction

-----------------------------------------------------------------------------
(* Between two turns *)

Rests(b) ==
    /\ conn[b] = "never" => bconn[b] = "never"
    /\ bconn[b] \in {"never", "open"} =>
          \A i \in Ids : /\ messages[b][i].state \in {"ABSENT", "COMMITTED"}
                         /\ messages[b][i].state = "COMMITTED" => i \in AppliedOn(b)
    /\ \A i \in Ids : messages[b][i].state # "COMMIT"
    /\ bconn[b] = "never" => AppliedOn(b) = {}

RestInv == \A b \in Backups : Rests(b)

LEMMA BackupFacts ==
    ASSUME TypeInv, NEW b \in Backups
    PROVE  /\ b \in Servers /\ b # Leader /\ Leader \in Servers
           /\ messages[b] \in [Ids -> Entry]
           /\ rmEpoch[b] \in Epochs /\ emEpoch[b] \in Epochs
           /\ chan[b] \in Seq(Packet) /\ applied[b] \in Seq(Ids)
           /\ bconn[b] \in {"never", "open", "broken", "closed"}
           /\ conn[b] \in {"never", "open", "broken", "closed"}
BY ConstantsAssumption DEF Backups, Servers, Leader, TypeInv, TypeOK

\* Whether the packet of the turn is the one of command i, and whether it is
\* of an epoch that b leaves in this turn or has left.
ReadsOf(b, i) == chan[b] # <<>> /\ Head(chan[b]).id = i
Refuses(b) == Head(chan[b]).seqn < rmEpoch[b] \/ Head(chan[b]).seqn < emEpoch[b]

LEMMA ReceivedIs ==
    ASSUME TypeInv, NEW b \in Backups, NEW i \in Ids
    PROVE  LET e == messages[b][i]
               p == Head(chan[b])
           IN  /\ Received(b)[i] \in Entry
               /\ ~ReadsOf(b, i) => Received(b)[i] = Clear(e, emEpoch[b])
               /\ ReadsOf(b, i) =>
                     /\ p \in Packet
                     /\ Received(b)[i] = Clear(ReceivedToReplicate(e, p.seqn, rmEpoch[b]),
                                               emEpoch[b])
<1> DEFINE t == messages[b]
           p == Head(chan[b])
           read == IF chan[b] = <<>> THEN t
                   ELSE [t EXCEPT ![p.id] =
                           ReceivedToReplicate(t[p.id], p.seqn, rmEpoch[b])]
<1>1. Received(b) \in [Ids -> Entry]
  BY ReceivedType
<1>2. Received(b)[i] = Clear(read[i], emEpoch[b])
  BY DEF Received, ForAll
<1>3. chan[b] # <<>> => p \in Packet /\ p.id \in Ids
  <2>1. chan[b] # <<>> => p \in Packet
    BY BackupFacts, HeadTailProperties
  <2> QED BY <2>1 DEF Packet
<1>4. read[i] = IF ReadsOf(b, i) THEN ReceivedToReplicate(t[i], p.seqn, rmEpoch[b])
                ELSE t[i]
  BY <1>3, BackupFacts DEF ReadsOf
<1> QED BY <1>1, <1>2, <1>3, <1>4 DEF ReadsOf

\* The state that the read of a turn leaves, of an entry that rests.
LEMMA ReceivedState ==
    ASSUME TypeInv, NEW b \in Backups, NEW i \in Ids,
           messages[b][i].state \in {"ABSENT", "COMMITTED"}
    PROVE  LET e == messages[b][i]
               r == Received(b)[i]
           IN  \/ r = e /\ (ReadsOf(b, i) => Refuses(b))
               \/ /\ r = Absent
                  /\ e.state = "COMMITTED" => e.seqn < emEpoch[b]
                  /\ e.state = "ABSENT" /\ ReadsOf(b, i) => Refuses(b)
               \/ /\ ReadsOf(b, i) /\ e.state = "COMMITTED"
                  /\ r.state = "CONFIRMDUP" /\ r.old = FALSE
               \/ /\ ReadsOf(b, i) /\ e.state = "ABSENT"
                  /\ r.state = "CONFIRM" /\ r.old = FALSE /\ r.seqn >= emEpoch[b]
                  /\ Head(chan[b]).seqn >= rmEpoch[b]
<1> DEFINE e == messages[b][i]
           p == Head(chan[b])
           q == ReceivedToReplicate(e, p.seqn, rmEpoch[b])
<1>1. e \in Entry /\ e.seqn \in Nat /\ emEpoch[b] \in Nat /\ rmEpoch[b] \in Nat
  <2>1. e \in Entry /\ emEpoch[b] \in Epochs /\ rmEpoch[b] \in Epochs
    BY BackupFacts
  <2>2. e.seqn \in Epochs
    BY <2>1 DEF Entry
  <2> QED BY <2>1, <2>2, ConstantsAssumption DEF Epochs
<1>2. CASE ~ReadsOf(b, i)
  <2>1. Received(b)[i] = Clear(e, emEpoch[b])
    BY <1>2, ReceivedIs
  <2> QED BY <1>1, <1>2, <2>1 DEF Clear
<1>3. CASE ReadsOf(b, i)
  <2>1. Received(b)[i] = Clear(q, emEpoch[b]) /\ p \in Packet
    BY <1>3, ReceivedIs
  <2>2. p.seqn \in Nat
    BY <2>1, ConstantsAssumption DEF Packet, Epochs
  <2>3. CASE q = e /\ p.seqn < rmEpoch[b]
    BY <1>1, <2>1, <2>2, <2>3 DEF Clear, Refuses
  <2>4. CASE e.state = "COMMITTED" /\ q = [e EXCEPT !.state = "CONFIRMDUP", !.old = FALSE]
    <3>1. q.state = "CONFIRMDUP" /\ q.old = FALSE /\ q.seqn = e.seqn
      BY <1>1, <2>4 DEF Entry
    <3> HIDE DEF q
    <3> QED BY <1>1, <1>3, <2>1, <2>4, <3>1 DEF Clear
  <2>5. CASE /\ e.state = "ABSENT" /\ q = NewEntry("CONFIRM", p.seqn, {})
             /\ ~(p.seqn < rmEpoch[b])
    <3>1. q.state = "CONFIRM" /\ q.old = FALSE /\ q.seqn = p.seqn
      BY <2>5 DEF NewEntry
    <3> HIDE DEF q
    <3> QED BY <1>1, <1>3, <2>1, <2>2, <2>5, <3>1 DEF Clear, Refuses
  <2>6. \/ q = e /\ p.seqn < rmEpoch[b]
        \/ e.state = "COMMITTED" /\ q = [e EXCEPT !.state = "CONFIRMDUP", !.old = FALSE]
        \/ e.state = "ABSENT" /\ q = NewEntry("CONFIRM", p.seqn, {}) /\ ~(p.seqn < rmEpoch[b])
    BY DEF ReceivedToReplicate
  <2> QED BY <2>3, <2>4, <2>5, <2>6
<1> QED BY <1>2, <1>3

\* No entry is COMMIT after the read of a turn.
LEMMA ReceivedNoCommit ==
    ASSUME TypeInv, NEW b \in Backups, NEW i \in Ids, messages[b][i].state # "COMMIT"
    PROVE  Received(b)[i].state # "COMMIT"
<1> DEFINE e == messages[b][i]
           p == Head(chan[b])
           q == ReceivedToReplicate(e, p.seqn, rmEpoch[b])
<1>1. e \in Entry
  BY BackupFacts
<1>2. q.state # "COMMIT"
  BY <1>1 DEF ReceivedToReplicate, NewEntry, Entry
<1>3. Received(b)[i] = Clear(e, emEpoch[b]) \/ Received(b)[i] = Clear(q, emEpoch[b])
  BY ReceivedIs
<1> HIDE DEF q
<1> QED BY <1>2, <1>3 DEF Clear, Absent, NewEntry

-----------------------------------------------------------------------------
(* A turn *)

\* What a turn leaves of an entry.
Confirmed(b, ok, i) ==
    IF i \in ok THEN UpdateConfirm(Received(b)[i]) ELSE Received(b)[i]

Committed(b, ok, i) ==
    IF Confirmed(b, ok, i).state = "COMMIT"
    THEN [Confirmed(b, ok, i) EXCEPT !.state = "COMMITTED"]
    ELSE Confirmed(b, ok, i)

ToConfirm(b)    == In(Received(b), {"CONFIRM", "CONFIRMDUP"})
ToCommit(b, ok) == {i \in Ids : Confirmed(b, ok, i).state = "COMMIT"}

LEMMA TurnIs ==
    ASSUME TypeInv, NEW b \in Backups, BackupTurn(b)
    PROVE  \E ok \in SUBSET ToConfirm(b) :
              /\ \/ bconn[b] = "open" /\ (bconn'[b] = "open" => ok = ToConfirm(b))
                 \/ bconn[b] = "broken" /\ bconn'[b] = "broken" /\ ok = {}
              /\ bconn'[b] \in {"open", "broken"}
              /\ \E q \in InOrder(ToCommit(b, ok)) : applied'[b] = applied[b] \o q
              /\ \A i \in Ids : messages'[b][i] = CheckTimeouts(Committed(b, ok, i))
<1> DEFINE received  == Received(b)
           toConfirm == In(received, {"CONFIRM", "CONFIRMDUP"})
           confirmed(ok) == [i \in Ids |-> IF i \in ok
                                           THEN UpdateConfirm(received[i])
                                           ELSE received[i]]
           toCommit(ok)  == In(confirmed(ok), {"COMMIT"})
           committed(ok) == [i \in Ids |-> IF i \in toCommit(ok)
                               THEN [confirmed(ok)[i] EXCEPT !.state = "COMMITTED"]
                               ELSE confirmed(ok)[i]]
           table(ok)     == [i \in Ids |-> CheckTimeouts(committed(ok)[i])]
<1>0. bconn \in [Backups -> {"never", "open", "broken", "closed"}]
      /\ applied \in [Backups -> Seq(Ids)] /\ messages \in [Servers -> [Ids -> Entry]]
  BY DEF TypeInv, TypeOK
<1>1. PICK ok \in SUBSET toConfirm :
        /\ \/ ok = toConfirm /\ bconn[b] = "open" /\ UNCHANGED bconn
           \/ bconn[b] = "open" /\ bconn' = [bconn EXCEPT ![b] =
                                      IF ok = toConfirm THEN "open" ELSE "broken"]
           \/ bconn[b] = "broken" /\ ok = {} /\ UNCHANGED bconn
        /\ \E q \in InOrder(toCommit(ok)) : applied' = [applied EXCEPT ![b] = @ \o q]
        /\ messages' = [messages EXCEPT ![b] = table(ok)]
  BY DEF BackupTurn, ForAll
<1> HIDE DEF received
<1>2. \A i \in Ids : confirmed(ok)[i] = Confirmed(b, ok, i)
  BY DEF Confirmed, received
<1>3. toCommit(ok) = ToCommit(b, ok)
  <2> HIDE DEF confirmed
  <2> QED BY <1>2 DEF In, ToCommit
<1>4. \A i \in Ids : committed(ok)[i] = Committed(b, ok, i)
  <2> HIDE DEF confirmed, toCommit
  <2> QED BY <1>2, <1>3 DEF Committed, ToCommit
<1>5. \A i \in Ids : messages'[b][i] = CheckTimeouts(Committed(b, ok, i))
  <2> HIDE DEF committed
  <2> QED BY <1>0, <1>1, <1>4, BackupFacts
<1>6. toConfirm = ToConfirm(b)
  BY DEF ToConfirm, received
<1> HIDE DEF table, committed, toCommit, toConfirm
<1>7. \E q \in InOrder(ToCommit(b, ok)) : applied'[b] = applied[b] \o q
  BY <1>0, <1>1, <1>3
<1>8. /\ \/ bconn[b] = "open" /\ (bconn'[b] = "open" => ok = toConfirm)
         \/ bconn[b] = "broken" /\ bconn'[b] = "broken" /\ ok = {}
      /\ bconn'[b] \in {"open", "broken"}
  BY <1>0, <1>1
<1> QED BY <1>1, <1>5, <1>6, <1>7, <1>8

\* A set of one timestamp, or none, in order.
LEMMA InOrderSmall ==
    ASSUME NEW S \in SUBSET Ids, NEW q \in InOrder(S)
    PROVE  /\ S = {} => q = <<>>
           /\ \A i : S = {i} => q = <<i>>
<1>1. q \in Seq(Ids) /\ Len(q) = Cardinality(S) /\ \A k \in 1..Len(q) : q[k] \in S
  BY InOrderType
<1>2. S = {} => q = <<>>
  BY <1>1, FS_EmptySet, EmptySeq
<1>3. ASSUME NEW i, S = {i} PROVE q = <<i>>
  <2>1. Len(q) = 1
    BY <1>1, <1>3, FS_Singleton
  <2>2. 1 \in 1..Len(q)
    BY <2>1
  <2>3. q[1] = i
    BY <1>1, <1>3, <2>2
  <2> QED BY <1>1, <2>1, <2>3
<1> QED BY <1>2, <1>3

\* The turn of a backup that can write: what it applies is what it has read.
LEMMA TurnEntry ==
    ASSUME TypeInv, NEW b \in Backups, NEW i \in Ids, bconn[b] = "open",
           messages[b][i].state \in {"ABSENT", "COMMITTED"},
           NEW ok \in SUBSET ToConfirm(b)
    PROVE  LET e == messages[b][i]
               c == Committed(b, ok, i)
           IN  /\ i \in ToCommit(b, ok) =>
                     /\ ReadsOf(b, i) /\ e.state = "ABSENT"
                     /\ Head(chan[b]).seqn >= rmEpoch[b]
                     /\ c.state = "COMMITTED" /\ c.old = FALSE /\ c.seqn >= emEpoch[b]
               /\ c.old => e.old
               /\ ok = ToConfirm(b) =>
                     /\ c.state \in {"ABSENT", "COMMITTED"}
                     /\ c.state = "COMMITTED" =>
                           e.state = "COMMITTED" \/ i \in ToCommit(b, ok)
                     /\ e.state = "COMMITTED" /\ c.state # "COMMITTED" => e.seqn < emEpoch[b]
                     /\ ReadsOf(b, i) =>
                           e.state = "COMMITTED" \/ i \in ToCommit(b, ok) \/ Refuses(b)
<1> DEFINE e == messages[b][i]
           r == Received(b)[i]
           c == Committed(b, ok, i)
<1>0. e \in Entry /\ r \in Entry
  BY BackupFacts, ReceivedIs
<1>1. i \in ToConfirm(b) <=> r.state \in {"CONFIRM", "CONFIRMDUP"}
  BY DEF ToConfirm, In
<1>2. i \in ToCommit(b, ok) <=> Confirmed(b, ok, i).state = "COMMIT"
  BY DEF ToCommit
<1>3. CASE r = e \/ r = Absent
  <2>1. r.state \in {"ABSENT", "COMMITTED"}
    BY <1>3 DEF Absent, NewEntry
  <2>2. Confirmed(b, ok, i) = r
    BY <1>1, <2>1 DEF Confirmed
  <2>3. c = r /\ i \notin ToCommit(b, ok)
    BY <1>2, <2>1, <2>2 DEF Committed
  <2>4. r.old => e.old
    BY <1>3 DEF Absent, NewEntry
  <2>5. r.state = "COMMITTED" => e.state = "COMMITTED"
    BY <1>3 DEF Absent, NewEntry
  <2>6. ReadsOf(b, i) => e.state = "COMMITTED" \/ Refuses(b)
    BY <2>1, ReceivedState
  <2>7. e.state = "COMMITTED" /\ r.state # "COMMITTED" => e.seqn < emEpoch[b]
    BY <2>1, ReceivedState
  <2> QED BY <2>1, <2>3, <2>4, <2>5, <2>6, <2>7
<1>4. CASE ReadsOf(b, i) /\ e.state = "COMMITTED" /\ r.state = "CONFIRMDUP" /\ r.old = FALSE
  <2>1. i \in ok => Confirmed(b, ok, i).state = "COMMITTED" /\ Confirmed(b, ok, i).old = FALSE
    BY <1>0, <1>4 DEF Confirmed, UpdateConfirm, Entry
  <2>2. i \notin ok => Confirmed(b, ok, i) = r
    BY DEF Confirmed
  <2>3. c = Confirmed(b, ok, i) /\ i \notin ToCommit(b, ok)
    BY <1>2, <1>4, <2>1, <2>2 DEF Committed
  <2> QED BY <1>1, <1>4, <2>1, <2>2, <2>3
<1>5. CASE /\ ReadsOf(b, i) /\ e.state = "ABSENT"
           /\ r.state = "CONFIRM" /\ r.old = FALSE /\ r.seqn >= emEpoch[b]
           /\ Head(chan[b]).seqn >= rmEpoch[b]
  <2>1. CASE i \in ok
    <3>1. /\ UpdateConfirm(r).state = "COMMIT" /\ UpdateConfirm(r) \in Entry
          /\ UpdateConfirm(r).old = FALSE /\ UpdateConfirm(r).seqn = r.seqn
      BY <1>0, <1>5 DEF UpdateConfirm, Entry, States
    <3>2. Confirmed(b, ok, i) = UpdateConfirm(r)
      BY <2>1 DEF Confirmed
    <3>3. c = [UpdateConfirm(r) EXCEPT !.state = "COMMITTED"]
      BY <3>1, <3>2 DEF Committed
    <3>4. c.state = "COMMITTED" /\ c.old = FALSE /\ c.seqn = r.seqn
      BY <3>1, <3>3 DEF Entry
    <3>5. i \in ToCommit(b, ok)
      BY <1>2, <3>1, <3>2
    <3> QED BY <1>5, <3>4, <3>5
  <2>2. CASE i \notin ok
    <3>1. Confirmed(b, ok, i) = r
      BY <2>2 DEF Confirmed
    <3>2. c = r /\ i \notin ToCommit(b, ok)
      BY <1>2, <1>5, <3>1 DEF Committed
    <3> QED BY <1>1, <1>5, <2>2, <3>2
  <2> QED BY <2>1, <2>2
<1> QED BY <1>3, <1>4, <1>5, ReceivedState

\* What checkTimeouts leaves of it.
LEMMA TimedOut ==
    ASSUME NEW e \in Entry
    PROVE  /\ e.state # "COMMIT" => CheckTimeouts(e).state # "COMMIT"
           /\ e.state \in {"ABSENT", "COMMITTED"} =>
                 CheckTimeouts(e) = e \/ (e.old /\ CheckTimeouts(e) = Absent)
           /\ CheckTimeouts(e).old => e.old
<1>1. e.state # "COMMIT" => CheckTimeouts(e).state # "COMMIT"
  BY DEF CheckTimeouts, Absent, NewEntry, Entry
<1>2. e.state \in {"ABSENT", "COMMITTED"} =>
         CheckTimeouts(e) = e \/ (e.old /\ CheckTimeouts(e) = Absent)
  BY DEF CheckTimeouts
<1>3. CheckTimeouts(e).old => e.old
  BY DEF CheckTimeouts, Absent, NewEntry, Entry
<1> QED BY <1>1, <1>2, <1>3

LEMMA CommittedType ==
    ASSUME TypeInv, NEW b \in Backups, NEW i \in Ids, NEW ok
    PROVE  Committed(b, ok, i) \in Entry /\ Committed(b, ok, i).state # "COMMIT"
<1>1. Received(b)[i] \in Entry
  BY ReceivedIs
<1>2. Confirmed(b, ok, i) \in Entry
  BY <1>1, ConfirmTypes DEF Confirmed
<1>3. /\ [Confirmed(b, ok, i) EXCEPT !.state = "COMMITTED"] \in Entry
      /\ [Confirmed(b, ok, i) EXCEPT !.state = "COMMITTED"].state = "COMMITTED"
  BY <1>2, ConfirmTypes DEF Entry
<1> QED BY <1>2, <1>3 DEF Committed

\* A turn applies the packet it reads, or nothing; what it applies stays in the
\* table with the epoch of its packet.
LEMMA TurnApplies ==
    ASSUME TypeInv, NEW b \in Backups, Rests(b), BackupTurn(b)
    PROVE  \/ applied'[b] = applied[b]
           \/ \E i \in Ids :
                 /\ bconn[b] = "open" /\ ReadsOf(b, i)
                 /\ messages[b][i].state = "ABSENT"
                 /\ Head(chan[b]).seqn >= rmEpoch[b]
                 /\ applied'[b] = Append(applied[b], i)
                 /\ messages'[b][i].state = "COMMITTED"
                 /\ messages'[b][i].seqn >= emEpoch[b]
<1>1. PICK ok \in SUBSET ToConfirm(b) :
         /\ bconn[b] = "open" \/ ok = {}
         /\ \E q \in InOrder(ToCommit(b, ok)) : applied'[b] = applied[b] \o q
         /\ \A i \in Ids : messages'[b][i] = CheckTimeouts(Committed(b, ok, i))
  BY TurnIs
<1>2. applied[b] \in Seq(Ids)
  BY BackupFacts
<1>3. ToCommit(b, ok) \in SUBSET Ids
  BY DEF ToCommit
<1>4. CASE ToCommit(b, ok) = {}
  <2>1. applied'[b] = applied[b] \o <<>>
    BY <1>1, <1>3, <1>4, InOrderSmall
  <2> QED BY <1>2, <2>1
<1>5. ASSUME NEW i \in ToCommit(b, ok) PROVE applied'[b] # applied[b] =>
        /\ bconn[b] = "open" /\ ReadsOf(b, i)
        /\ messages[b][i].state = "ABSENT"
        /\ Head(chan[b]).seqn >= rmEpoch[b]
        /\ applied'[b] = Append(applied[b], i)
        /\ messages'[b][i].state = "COMMITTED"
        /\ messages'[b][i].seqn >= emEpoch[b]
  <2>1. bconn[b] = "open"
    <3>1. i \in Ids /\ Confirmed(b, ok, i).state = "COMMIT"
      BY <1>5 DEF ToCommit
    <3>2. Received(b)[i].state # "COMMIT"
      BY <3>1, ReceivedNoCommit DEF Rests
    <3> QED BY <1>1, <3>1, <3>2 DEF Confirmed
  <2>2. \A j \in ToCommit(b, ok) : /\ j \in Ids /\ ReadsOf(b, j)
                                   /\ messages[b][j].state = "ABSENT"
                                   /\ Head(chan[b]).seqn >= rmEpoch[b]
                                   /\ Committed(b, ok, j).state = "COMMITTED"
                                   /\ Committed(b, ok, j).old = FALSE
                                   /\ Committed(b, ok, j).seqn >= emEpoch[b]
    <3> SUFFICES ASSUME NEW j \in ToCommit(b, ok)
                 PROVE  /\ j \in Ids /\ ReadsOf(b, j)
                        /\ messages[b][j].state = "ABSENT"
                        /\ Head(chan[b]).seqn >= rmEpoch[b]
                        /\ Committed(b, ok, j).state = "COMMITTED"
                        /\ Committed(b, ok, j).old = FALSE
                        /\ Committed(b, ok, j).seqn >= emEpoch[b]
      OBVIOUS
    <3>1. j \in Ids
      BY <1>3
    <3>2. messages[b][j].state \in {"ABSENT", "COMMITTED"}
      BY <2>1, <3>1 DEF Rests
    <3>3. ok \in SUBSET ToConfirm(b)
      BY <1>1
    <3> QED BY <2>1, <3>1, <3>2, <3>3, TurnEntry
  <2>3. ToCommit(b, ok) = {i}
    BY <1>5, <2>2 DEF ReadsOf
  <2>4. applied'[b] = applied[b] \o <<i>>
    BY <1>1, <1>3, <2>3, InOrderSmall
  <2>5. applied'[b] = Append(applied[b], i)
    BY <1>2, <2>2, <2>4
  <2>6. messages'[b][i] = Committed(b, ok, i)
    BY <1>1, <2>2, CommittedType, TimedOut
  <2> QED BY <2>1, <2>2, <2>5, <2>6
<1> QED BY <1>3, <1>4, <1>5

-----------------------------------------------------------------------------
(* What any other step does to a backup *)

\* Only its own turn makes a backup apply, or changes the state of an entry
\* of it; its end of the connection opens when the leader's does.
Quiet(b) ==
    /\ applied'[b] = applied[b]
    /\ \A i \in Ids :
          \/ messages'[b][i] = messages[b][i]
          \/ messages'[b][i] = [messages[b][i] EXCEPT !.old = TRUE]
    /\ conn'[b] = "never" => conn[b] = "never" /\ bconn'[b] = bconn[b]
    /\ \/ bconn'[b] = bconn[b]
       \/ bconn[b] \in {"open", "broken"} /\ bconn'[b] = "closed"
       \/ conn[b] = "never" /\ bconn'[b] = "open"

LEMMA LeaderIsQuiet ==
    ASSUME TypeInv, NEW b \in Backups, LeaderStep
    PROVE  Quiet(b)
<1>0. /\ messages \in [Servers -> [Ids -> Entry]]
      /\ conn \in [Backups -> {"never", "open", "broken", "closed"}]
  BY DEF TypeInv, TypeOK
<1>1. applied'[b] = applied[b]
  BY DEF LeaderStep, LeaderReceive, LeaderSend, LeaderManage, LeaderCheckSent,
         LeaderNextToSend, LeaderCheckTimeouts
<1>2. messages'[b] = messages[b]
  <2>1. CASE LeaderReceive \/ LeaderManage \/ LeaderCheckSent
    BY <1>0, <2>1, BackupFacts DEF LeaderReceive, LeaderManage, LeaderCheckSent
  <2>2. CASE LeaderNextToSend \/ LeaderCheckTimeouts
    BY <1>0, <2>2, BackupFacts DEF LeaderNextToSend, LeaderCheckTimeouts
  <2>3. CASE \E c \in Backups : LeaderSend(c)
    BY <1>0, <2>3, BackupFacts DEF LeaderSend
  <2> QED BY <2>1, <2>2, <2>3 DEF LeaderStep
<1>3. /\ conn'[b] = "never" => conn[b] = "never" /\ bconn'[b] = bconn[b]
      /\ \/ bconn'[b] = bconn[b]
         \/ conn[b] = "never" /\ bconn'[b] = "open"
  <2>1. CASE LeaderReceive
    BY <2>1 DEF LeaderReceive, Joins
  <2>2. CASE LeaderManage \/ LeaderCheckSent \/ LeaderNextToSend \/ LeaderCheckTimeouts
    BY <2>2 DEF LeaderManage, LeaderCheckSent, LeaderNextToSend,
                LeaderCheckTimeouts, netVars
  <2>3. CASE \E c \in Backups : LeaderSend(c)
    BY <1>0, <2>3, BackupFacts DEF LeaderSend
  <2> QED BY <2>1, <2>2, <2>3 DEF LeaderStep
<1> QED BY <1>1, <1>2, <1>3 DEF Quiet

LEMMA OthersAreQuiet ==
    ASSUME TypeInv, NEW b \in Backups, Rests(b), [Next]_vars
    PROVE  Quiet(b) \/ BackupTurn(b)
<1>0. /\ messages \in [Servers -> [Ids -> Entry]]
      /\ applied \in [Backups -> Seq(Ids)]
      /\ bconn \in [Backups -> {"never", "open", "broken", "closed"}]
  BY DEF TypeInv, TypeOK
<1>1. CASE LeaderStep
  BY <1>1, LeaderIsQuiet
<1>2. CASE \E u \in Users : Request(u) \/ NewReplication(u) \/ Poll(u)
  <2>1. messages'[b] = messages[b]
    BY <1>0, <1>2, BackupFacts DEF Request, NewReplication, Poll
  <2>2. UNCHANGED <<applied, conn, bconn>>
    BY <1>2 DEF Request, NewReplication, Poll, netVars
  <2> QED BY <2>1, <2>2 DEF Quiet
<1>3. ASSUME NEW c \in Backups, BackupTurn(c), c # b PROVE Quiet(b)
  <2>1. UNCHANGED <<messages[b], applied[b], conn, bconn[b]>>
    BY <1>0, <1>3, BackupFacts DEF BackupTurn
  <2> QED BY <2>1 DEF Quiet
<1>4. ASSUME NEW c \in Backups, BackupLoses(c) PROVE Quiet(b)
  <2>1. UNCHANGED <<messages, applied, conn>>
    BY <1>4 DEF BackupLoses
  <2>2. \/ bconn'[b] = bconn[b]
        \/ bconn[b] \in {"open", "broken"} /\ bconn'[b] = "closed"
    BY <1>0, <1>4 DEF BackupLoses
  <2> QED BY <2>1, <2>2 DEF Quiet, Rests
<1>5. CASE \E s \in Servers : Crash(s) \/ NewEpoch(s)
  <2>1. UNCHANGED <<messages, applied, conn, bconn>>
    BY <1>5 DEF Crash, NewEpoch, netVars
  <2> QED BY <2>1 DEF Quiet
<1>6. ASSUME NEW s \in Servers, NEW j \in Ids, Age(s, j) PROVE Quiet(b)
  <2>1. UNCHANGED <<applied, conn, bconn>>
    BY <1>6 DEF Age, netVars
  <2>2. \A i \in Ids : \/ messages'[b][i] = messages[b][i]
                       \/ messages'[b][i] = [messages[b][i] EXCEPT !.old = TRUE]
    <3> DEFINE aged(e) == [e EXCEPT !.old = TRUE]
    <3>1. messages' = [messages EXCEPT ![s][j] = aged(@)]
      BY <1>6 DEF Age
    <3> HIDE DEF aged
    <3>2. \A i \in Ids : \/ messages'[b][i] = messages[b][i]
                         \/ messages'[b][i] = aged(messages[b][i])
      BY <1>0, <3>1, BackupFacts
    <3> QED BY <3>2 DEF aged
  <2> QED BY <2>1, <2>2 DEF Quiet
<1>7. CASE UNCHANGED vars
  BY <1>7 DEF vars, netVars, Quiet
<1> QED BY <1>1, <1>2, <1>3, <1>4, <1>5, <1>6, <1>7 DEF Next

-----------------------------------------------------------------------------
(* The turn of a backup whose connection holds *)

\* It keeps in its table what is neither old nor of an earlier epoch, and
\* applies what it reads unless it has it in its table or refuses it.
LEMMA TurnKeeps ==
    ASSUME TypeInv, NEW b \in Backups, Rests(b), BackupTurn(b),
           bconn'[b] = "open", NEW i \in Ids
    PROVE  LET e == messages[b][i]
               n == messages'[b][i]
           IN  /\ AppliedOn(b) \subseteq AppliedOn(b)'
               /\ n.state = "COMMITTED" => e.state = "COMMITTED" \/ i \in AppliedOn(b)'
               /\ e.state = "COMMITTED" => \/ n.state = "COMMITTED"
                                           \/ e.old \/ e.seqn < emEpoch[b]
               /\ ReadsOf(b, i) =>
                     e.state = "COMMITTED" \/ i \in AppliedOn(b)' \/ Refuses(b)
<1> DEFINE e == messages[b][i]
           n == messages'[b][i]
           c(ok) == Committed(b, ok, i)
<1>1. PICK ok \in SUBSET ToConfirm(b) :
         /\ bconn[b] = "open" /\ ok = ToConfirm(b)
         /\ \E q \in InOrder(ToCommit(b, ok)) : applied'[b] = applied[b] \o q
         /\ n = CheckTimeouts(c(ok))
  BY TurnIs
<1>2. e.state \in {"ABSENT", "COMMITTED"}
  BY <1>1 DEF Rests
<1>3. /\ i \in ToCommit(b, ok) => ReadsOf(b, i) /\ e.state = "ABSENT"
      /\ c(ok).old => e.old
      /\ c(ok).state \in {"ABSENT", "COMMITTED"}
      /\ c(ok).state = "COMMITTED" => e.state = "COMMITTED" \/ i \in ToCommit(b, ok)
      /\ e.state = "COMMITTED" /\ c(ok).state # "COMMITTED" => e.seqn < emEpoch[b]
      /\ ReadsOf(b, i) => e.state = "COMMITTED" \/ i \in ToCommit(b, ok) \/ Refuses(b)
  BY <1>1, <1>2, TurnEntry
<1>4. n = c(ok) \/ (c(ok).old /\ n = Absent)
  BY <1>1, <1>3, CommittedType, TimedOut
<1>5. PICK q \in InOrder(ToCommit(b, ok)) : applied'[b] = applied[b] \o q
  BY <1>1
<1>6. ToCommit(b, ok) \in SUBSET Ids
  BY DEF ToCommit
<1>7. /\ \A k \in DOMAIN applied[b] : k \in DOMAIN applied'[b] /\ applied'[b][k] = applied[b][k]
      /\ \A k \in 1..Len(q) : /\ Len(applied[b]) + k \in DOMAIN applied'[b]
                              /\ applied'[b][Len(applied[b]) + k] = q[k]
  <2>1. q \in Seq(Ids) /\ applied[b] \in Seq(Ids)
    BY <1>5, <1>6, InOrderType, BackupFacts
  <2>2. /\ \A k \in 1..Len(applied[b]) : applied'[b][k] = applied[b][k]
        /\ \A k \in 1..Len(q) : applied'[b][Len(applied[b]) + k] = q[k]
        /\ DOMAIN applied'[b] = 1..(Len(applied[b]) + Len(q))
        /\ DOMAIN applied[b] = 1..Len(applied[b])
        /\ Len(applied[b]) \in Nat /\ Len(q) \in Nat
    BY <1>5, <2>1, ConcatProperties
  <2> QED BY <2>2
<1>8. AppliedOn(b) \subseteq AppliedOn(b)'
  BY <1>7 DEF AppliedOn
<1>9. i \in ToCommit(b, ok) => i \in AppliedOn(b)'
  <2>1. SUFFICES ASSUME i \in ToCommit(b, ok) PROVE i \in AppliedOn(b)'
    OBVIOUS
  <2>2. PICK k \in 1..Len(q) : q[k] = i
    BY <1>5, <1>6, <2>1, InOrderComplete
  <2> QED BY <1>7, <2>2 DEF AppliedOn
<1> HIDE DEF c
<1>10. Absent.state = "ABSENT"
  BY DEF Absent, NewEntry
<1> QED BY <1>3, <1>4, <1>8, <1>9, <1>10

-----------------------------------------------------------------------------
(* No command of an epoch it has left *)

LEMMA InitRest == Init => RestInv
<1> SUFFICES ASSUME Init, NEW b \in Backups PROVE Rests(b)
  BY DEF RestInv
<1>1. b \in Servers
  BY ConstantsAssumption DEF Backups, Servers
<1>2. \A i \in Ids : messages[b][i].state = "ABSENT"
  BY <1>1 DEF Init, Absent, NewEntry
<1>3. applied[b] = <<>> /\ bconn[b] = conn[b]
  BY DEF Init
<1>4. AppliedOn(b) = {}
  BY <1>3 DEF AppliedOn
<1> QED BY <1>2, <1>3, <1>4 DEF Rests

LEMMA StepRest == TypeInv /\ RestInv /\ [Next]_vars => RestInv'
<1> SUFFICES ASSUME TypeInv, RestInv, [Next]_vars, NEW b \in Backups
             PROVE  Rests(b)'
  BY DEF RestInv
<1>0. Rests(b) /\ messages[b] \in [Ids -> Entry]
  BY BackupFacts DEF RestInv
<1>1. CASE Quiet(b)
  <2>1. \A i \in Ids : messages'[b][i].state = messages[b][i].state
    <3>1. \A i \in Ids : messages[b][i] \in Entry
      BY <1>0
    <3>2. \A e \in Entry : [e EXCEPT !.old = TRUE].state = e.state
      BY DEF Entry
    <3> QED BY <1>1, <3>1, <3>2 DEF Quiet
  <2>2. AppliedOn(b)' = AppliedOn(b)
    BY <1>1 DEF Quiet, AppliedOn
  <2>3. /\ conn'[b] = "never" => conn[b] = "never" /\ bconn'[b] = bconn[b]
        /\ \/ bconn'[b] = bconn[b] \/ bconn'[b] = "closed"
           \/ conn[b] = "never" /\ bconn'[b] = "open"
    BY <1>1 DEF Quiet
  <2> QED BY <1>0, <2>1, <2>2, <2>3 DEF Rests
<1>2. CASE BackupTurn(b)
  <2>1. PICK ok \in SUBSET ToConfirm(b) :
           /\ \/ bconn[b] = "open" /\ (bconn'[b] = "open" => ok = ToConfirm(b))
              \/ bconn[b] = "broken" /\ bconn'[b] = "broken" /\ ok = {}
           /\ bconn'[b] \in {"open", "broken"}
           /\ \A i \in Ids : messages'[b][i] = CheckTimeouts(Committed(b, ok, i))
    BY <1>2, TurnIs
  <2>2. conn'[b] = conn[b] /\ conn[b] # "never"
    BY <1>0, <1>2, <2>1 DEF BackupTurn, Rests
  <2>3. ASSUME NEW i \in Ids PROVE messages'[b][i].state # "COMMIT"
    BY <2>1, CommittedType, TimedOut
  <2>4. ASSUME NEW i \in Ids, bconn'[b] = "open"
        PROVE  /\ messages'[b][i].state \in {"ABSENT", "COMMITTED"}
               /\ messages'[b][i].state = "COMMITTED" => i \in AppliedOn(b)'
    <3>1. bconn[b] = "open" /\ ok = ToConfirm(b)
      BY <2>1, <2>4
    <3>2. messages[b][i].state \in {"ABSENT", "COMMITTED"}
      BY <1>0, <3>1 DEF Rests
    <3>3. Committed(b, ok, i).state \in {"ABSENT", "COMMITTED"}
      BY <3>1, <3>2, TurnEntry
    <3>4. CheckTimeouts(Committed(b, ok, i)).state \in {"ABSENT", "COMMITTED"}
      BY <3>3, CommittedType, TimedOut DEF Absent, NewEntry
    <3>5. messages[b][i].state = "COMMITTED" => i \in AppliedOn(b)
      BY <1>0, <3>1 DEF Rests
    <3>6. messages'[b][i].state = "COMMITTED" => i \in AppliedOn(b)'
      BY <1>0, <1>2, <2>4, <3>5, TurnKeeps
    <3> QED BY <2>1, <3>4, <3>6
  <2> QED BY <2>1, <2>2, <2>3, <2>4 DEF Rests
<1> QED BY <1>0, <1>1, <1>2, OthersAreQuiet

\* Between two turns of ReplicaManager::start a backup owes nothing as long as it
\* can write, and has nothing left to commit in any case.
THEOREM SpecRest == Spec => []RestInv
BY InitRest, StepRest, SpecTypeInv, PTL DEF Spec

\* A backup never applies a command of an epoch that it has left (the clear
\* of setEpoch spares only what is COMMIT, and no entry is COMMIT between two
\* turns), for any constants: several epochs, any time to live, any crashes.
THEOREM NoStaleCommitHolds == Spec => NoStaleCommit
<1>1. ASSUME TypeInv, RestInv, [Next]_vars, NEW b \in Backups, applied'[b] # applied[b],
             NEW k \in DOMAIN applied'[b] \ DOMAIN applied[b]
      PROVE  messages'[b][applied'[b][k]].seqn >= rmEpoch'[b]
  <2>1. BackupTurn(b)
    BY <1>1, OthersAreQuiet DEF Quiet, RestInv
  <2>2. PICK i \in Ids : /\ applied'[b] = Append(applied[b], i)
                         /\ messages'[b][i].seqn >= emEpoch[b]
    BY <1>1, <2>1, TurnApplies DEF RestInv
  <2>3. rmEpoch'[b] = emEpoch[b]
    BY <2>1, BackupFacts, <1>1 DEF BackupTurn, TypeInv, TypeOK
  <2>4. applied'[b][k] = i
    <3>1. /\ Len(applied[b]) \in Nat /\ DOMAIN applied[b] = 1..Len(applied[b])
          /\ DOMAIN Append(applied[b], i) = 1..(Len(applied[b]) + 1)
          /\ Append(applied[b], i)[Len(applied[b]) + 1] = i
      BY <1>1, BackupFacts, AppendProperties, LenProperties
    <3>2. k = Len(applied[b]) + 1
      BY <1>1, <2>2, <3>1
    <3> QED BY <2>2, <3>1, <3>2
  <2> QED BY <2>2, <2>3, <2>4
<1>2. TypeInv /\ RestInv /\ [Next]_vars =>
         [\A b \in Backups : applied'[b] # applied[b] =>
             \A k \in DOMAIN applied'[b] \ DOMAIN applied[b] :
                 messages'[b][applied'[b][k]].seqn >= rmEpoch'[b]]_vars
  BY <1>1
<1> QED BY <1>2, SpecTypeInv, SpecRest, PTL DEF Spec, NoStaleCommit

-----------------------------------------------------------------------------
(* Every command once *)

\* Nothing of command i comes to b any more: no copy is on its way, the leader
\* sends none, and a new command gets a later timestamp.
SettledOn(b, i) == i < clock /\ ~MoreCopies(b, i)

OldIsSettled == \A b \in Backups, i \in Ids : messages[b][i].old => SettledOn(b, i)

\* The epoch of a backup never falls: no COORDINATOR of an earlier epoch comes
\* after one of a later epoch.
EpochsRise == \A b \in Backups : emEpoch'[b] >= emEpoch[b]

\* Threads whose commands got the same timestamp have read the same epoch for
\* them: by its timestamp alone a table knows a command.
OneEpochPerStamp ==
    \A u, v \in Users : user[u].id = user[v].id => user[u].seqn = user[v].seqn

\* Some thread, table or connection has command i with epoch x.
Copy(i, x) ==
    \/ \E u \in Users : user[u].id = i /\ user[u].seqn = x
    \/ \E s \in Servers : messages[s][i].state # "ABSENT" /\ messages[s][i].seqn = x
    \/ \E b \in Backups : \E k \in DOMAIN chan[b] : chan[b][k] = [id |-> i, seqn |-> x]

\* Command i has been given its timestamp.
Given(i) == i <= clock /\ (i < clock \/ \E u \in Users : user[u].id = i)

StampInv ==
    /\ \A i \in Ids, x, y \in Epochs : Copy(i, x) /\ Copy(i, y) => x = y
    /\ \A i \in Ids, x \in Epochs : Copy(i, x) => Given(i)
    /\ \A b \in Backups : rmEpoch[b] <= emEpoch[b]

\* Every copy of i is of an epoch that b has left.
Outdated(b, i) ==
    /\ Given(i) /\ rmEpoch[b] # 0
    /\ \A x \in Epochs : Copy(i, x) => x < rmEpoch[b]

\* What a backup has applied stays in its table until no copy is on its way, or
\* every copy is of an epoch that it has left.
AppliesOnce(b) ==
    /\ \A j, k \in DOMAIN applied[b] : applied[b][j] = applied[b][k] => j = k
    /\ bconn[b] \in {"never", "open"} =>
          \A i \in Ids : i \in AppliedOn(b) =>
             messages[b][i].state = "COMMITTED" \/ SettledOn(b, i) \/ Outdated(b, i)

OnceInv == OldIsSettled /\ StampInv /\ \A b \in Backups : AppliesOnce(b)

\* No step makes an entry old but the one that says so.
LEMMA HelpersKeepAge ==
    ASSUME NEW e \in Entry, NEW marks, NEW epoch, NEW seqn, NEW to, NEW ok
    PROVE  /\ ReceivedConfirms(e, marks).old => e.old
           /\ UpdateConfirm(e).old => e.old
           /\ CheckSent(e).old => e.old
           /\ UpdateSend(e, to, ok).old => e.old
           /\ Clear(e, epoch).old => e.old
           /\ CheckTimeouts(e).old => e.old
           /\ ReceivedToReplicate(e, seqn, epoch).old => e.old
<1>1. ReceivedConfirms(e, marks).old => e.old
  BY DEF ReceivedConfirms, Entry
<1>2. /\ UpdateConfirm(e).old => e.old
      /\ CheckSent(e).old => e.old
  BY DEF UpdateConfirm, CheckSent, Entry
<1>3. UpdateSend(e, to, ok).old => e.old
  BY DEF UpdateSend, Entry
<1>4. Clear(e, epoch).old => e.old
  BY DEF Clear, Absent, NewEntry
<1>5. CheckTimeouts(e).old => e.old
  BY TimedOut
<1>6. ReceivedToReplicate(e, seqn, epoch).old => e.old
  BY DEF ReceivedToReplicate, NewEntry, Entry
<1> QED BY <1>1, <1>2, <1>3, <1>4, <1>5, <1>6

LEMMA TurnKeepsAge ==
    ASSUME TypeInv, NEW b \in Backups, BackupTurn(b), NEW i \in Ids,
           messages'[b][i].old
    PROVE  messages[b][i].old
<1> DEFINE e == messages[b][i]
           p == Head(chan[b])
           q == ReceivedToReplicate(e, p.seqn, rmEpoch[b])
           r == Received(b)[i]
<1>1. PICK ok \in SUBSET ToConfirm(b) : messages'[b][i] = CheckTimeouts(Committed(b, ok, i))
  BY TurnIs
<1>2. Committed(b, ok, i).old
  BY <1>1, CommittedType, TimedOut
<1>3. e \in Entry /\ r \in Entry
  BY BackupFacts, ReceivedIs
<1>4. Confirmed(b, ok, i) \in Entry
  BY <1>3, ConfirmTypes DEF Confirmed
<1>5. Confirmed(b, ok, i).old
  BY <1>2, <1>4 DEF Committed, Entry
<1>6. r.old
  BY <1>3, <1>5, HelpersKeepAge DEF Confirmed
<1>7. CASE ~ReadsOf(b, i)
  <2>1. r = Clear(e, emEpoch[b])
    BY <1>7, ReceivedIs
  <2>2. Clear(e, emEpoch[b]).old => e.old
    BY <1>3, HelpersKeepAge
  <2> QED BY <1>6, <2>1, <2>2
<1>8. CASE ReadsOf(b, i)
  <2>1. p \in Packet /\ r = Clear(q, emEpoch[b]) /\ rmEpoch[b] \in Epochs
    BY <1>8, ReceivedIs, BackupFacts
  <2>2. q \in Entry
    BY <1>3, <2>1, ReceivedToReplicateType DEF Packet
  <2>3. q.old
    <3> HIDE DEF q
    <3> QED BY <1>6, <2>1, <2>2, HelpersKeepAge
  <2> QED BY <1>3, <2>3, HelpersKeepAge
<1> QED BY <1>7, <1>8

LEMMA OnlyAgeAges ==
    ASSUME TypeInv, [Next]_vars, NEW b \in Backups, NEW i \in Ids,
           messages'[b][i].old
    PROVE  messages[b][i].old \/ Age(b, i)
<1>0. messages \in [Servers -> [Ids -> Entry]] /\ b \in Servers /\ b # Leader
  BY BackupFacts DEF TypeInv, TypeOK
<1>1. CASE LeaderStep
  <2>1. messages'[b] = messages[b]
    <3>1. CASE LeaderReceive \/ LeaderManage \/ LeaderCheckSent
      BY <1>0, <3>1 DEF LeaderReceive, LeaderManage, LeaderCheckSent
    <3>2. CASE LeaderNextToSend \/ LeaderCheckTimeouts
      BY <1>0, <3>2 DEF LeaderNextToSend, LeaderCheckTimeouts
    <3>3. CASE \E c \in Backups : LeaderSend(c)
      BY <1>0, <3>3 DEF LeaderSend
    <3> QED BY <1>1, <3>1, <3>2, <3>3 DEF LeaderStep
  <2> QED BY <2>1
<1>2. CASE \E u \in Users : Request(u) \/ NewReplication(u) \/ Poll(u)
  <2>1. messages'[b] = messages[b]
    BY <1>0, <1>2 DEF Request, NewReplication, Poll
  <2> QED BY <2>1
<1>3. ASSUME NEW c \in Backups, BackupTurn(c)
      PROVE  messages[b][i].old \/ Age(b, i)
  <2>1. b # c => messages'[b] = messages[b]
    BY <1>0, <1>3 DEF BackupTurn
  <2> QED BY <1>3, <2>1, TurnKeepsAge
<1>4. CASE \/ \E c \in Backups : BackupLoses(c)
           \/ \E r \in Servers : Crash(r) \/ NewEpoch(r)
           \/ UNCHANGED vars
  BY <1>4 DEF BackupLoses, Crash, NewEpoch, vars
<1>5. ASSUME NEW r \in Servers, NEW j \in Ids, Age(r, j)
      PROVE  messages[b][i].old \/ Age(b, i)
  <2>1. messages'[b][i] = messages[b][i] \/ (r = b /\ i = j)
    BY <1>0, <1>5 DEF Age
  <2> QED BY <1>5, <2>1
<1> QED BY <1>1, <1>2, <1>3, <1>4, <1>5 DEF Next

-----------------------------------------------------------------------------
(* What is settled stays settled *)

Sendable(e) == e.state \in {"SEND", "SENT"}

LEMMA HelpersSendNothing ==
    ASSUME NEW e \in Entry, NEW marks, NEW epoch
    PROVE  /\ Sendable(ReceivedConfirms(e, marks)) => Sendable(e)
           /\ Sendable(CheckSent(e)) => Sendable(e)
           /\ Sendable(Clear(e, epoch)) => Sendable(e)
           /\ Sendable(CheckTimeouts(e)) => Sendable(e)
           /\ Sendable([e EXCEPT !.old = TRUE]) => Sendable(e)
<1> USE DEF Sendable, Entry
<1>1. Sendable(ReceivedConfirms(e, marks)) => Sendable(e)
  BY DEF ReceivedConfirms
<1>2. Sendable(CheckSent(e)) => Sendable(e)
  BY DEF CheckSent
<1>3. Sendable(Clear(e, epoch)) => Sendable(e)
  BY DEF Clear, Absent, NewEntry
<1>4. Sendable(CheckTimeouts(e)) => Sendable(e)
  BY DEF CheckTimeouts, Absent, NewEntry
<1>5. Sendable([e EXCEPT !.old = TRUE]) => Sendable(e)
  OBVIOUS
<1> QED BY <1>1, <1>2, <1>3, <1>4, <1>5

LEMMA LeaderSendsNothing ==
    ASSUME TypeInv, LeaderStep, NEW i \in Ids, ~Sendable(messages[Leader][i])
    PROVE  ~Sendable(messages'[Leader][i])
<1> DEFINE e == messages[Leader][i]
<1>0. /\ messages \in [Servers -> [Ids -> Entry]] /\ Leader \in Servers
      /\ e \in Entry
  BY ConstantsAssumption DEF TypeInv, TypeOK, Leader, Servers
<1>1. CASE LeaderReceive
  <2>1. messages'[Leader][i] = ReceivedConfirms(e, {b \in Backups : Reads(b) /\ Head(back[b]) = i})
    BY <1>0, <1>1 DEF LeaderReceive
  <2> QED BY <1>0, <2>1, HelpersSendNothing
<1>2. CASE LeaderManage
  <2>1. messages'[Leader][i] = Clear(e, emEpoch[Leader])
    BY <1>0, <1>2 DEF LeaderManage, ForAll
  <2>2. Sendable(Clear(e, emEpoch[Leader])) => Sendable(e)
    BY <1>0, HelpersSendNothing
  <2> QED BY <2>1, <2>2
<1>3. CASE LeaderCheckSent
  <2>1. messages'[Leader][i] = CheckSent(e)
    BY <1>0, <1>3 DEF LeaderCheckSent, ForAll
  <2> QED BY <1>0, <2>1, HelpersSendNothing
<1>4. CASE LeaderNextToSend
  BY <1>4 DEF LeaderNextToSend
<1>5. CASE LeaderCheckTimeouts
  <2>1. messages'[Leader][i] = CheckTimeouts(e)
    BY <1>0, <1>5 DEF LeaderCheckTimeouts, ForAll
  <2> QED BY <1>0, <2>1, HelpersSendNothing
<1>6. ASSUME NEW b \in Backups, LeaderSend(b) PROVE ~Sendable(messages'[Leader][i])
  <2>1. sending # i
    <3>1. cursor = b /\ cursor # N + 1
      BY <1>6, ConstantsAssumption DEF LeaderSend, Backups
    <3> QED BY <3>1 DEF TypeInv, Sendable
  <2>2. \E x : messages' = [messages EXCEPT ![Leader][sending] = x]
    <3> DEFINE u(ok) == UpdateSend(messages[Leader][sending], b, ok)
    <3>1. \/ messages' = [messages EXCEPT ![Leader][sending] = u(TRUE)]
          \/ messages' = [messages EXCEPT ![Leader][sending] = u(FALSE)]
      BY <1>6 DEF LeaderSend
    <3> HIDE DEF u
    <3> QED BY <3>1
  <2>3. PICK x : messages' = [messages EXCEPT ![Leader][sending] = x]
    BY <2>2
  <2>4. messages'[Leader][i] = e
    BY <1>0, <2>1, <2>3
  <2> QED BY <2>4
<1> QED BY <1>1, <1>2, <1>3, <1>4, <1>5, <1>6 DEF LeaderStep

LEMMA SettledSendsNothing ==
    ASSUME TypeInv, [Next]_vars, NEW i \in Ids, ~Sendable(messages[Leader][i]),
           \A u \in Users : user[u].pc = "begin" => user[u].id # i
    PROVE  ~Sendable(messages'[Leader][i])
<1>0. /\ messages \in [Servers -> [Ids -> Entry]] /\ Leader \in Servers
      /\ ~Sendable(messages[Leader][i]) /\ Leader \notin Backups
  BY ConstantsAssumption DEF TypeInv, TypeOK, Leader, Servers, Backups
<1>1. CASE LeaderStep
  BY <1>0, <1>1, LeaderSendsNothing
<1>2. CASE \E u \in Users : Request(u) \/ Poll(u)
  BY <1>0, <1>2 DEF Request, Poll
<1>3. ASSUME NEW u \in Users, NewReplication(u)
      PROVE  ~Sendable(messages'[Leader][i])
  <2>1. user[u].id # i
    BY <1>3 DEF NewReplication
  <2>2. messages'[Leader][i] = messages[Leader][i]
    BY <1>0, <1>3, <2>1 DEF NewReplication
  <2> QED BY <1>0, <2>2
<1>4. CASE \E b \in Backups : BackupTurn(b)
  <2>1. messages'[Leader] = messages[Leader]
    BY <1>0, <1>4 DEF BackupTurn
  <2> QED BY <1>0, <2>1
<1>5. CASE \/ \E b \in Backups : BackupLoses(b)
           \/ \E r \in Servers : Crash(r) \/ NewEpoch(r)
           \/ UNCHANGED vars
  BY <1>0, <1>5 DEF BackupLoses, Crash, NewEpoch, vars
<1>6. ASSUME NEW r \in Servers, NEW j \in Ids, Age(r, j)
      PROVE  ~Sendable(messages'[Leader][i])
  <2> DEFINE aged(e) == [e EXCEPT !.old = TRUE]
  <2>1. messages' = [messages EXCEPT ![r][j] = aged(@)]
    BY <1>6 DEF Age
  <2>2. Sendable(aged(messages[Leader][i])) => Sendable(messages[Leader][i])
    BY <1>0, HelpersSendNothing
  <2> HIDE DEF aged
  <2>3. \/ messages'[Leader][i] = messages[Leader][i]
        \/ messages'[Leader][i] = aged(messages[Leader][i])
    BY <1>0, <2>1
  <2> QED BY <1>0, <2>2, <2>3
<1> QED BY <1>1, <1>2, <1>3, <1>4, <1>5, <1>6 DEF Next

\* What is on its way to b was on its way, or is the packet of a send.
LEMMA ChanChanges ==
    ASSUME TypeInv, [Next]_vars, NEW b \in Backups
    PROVE  \/ chan'[b] = chan[b]
           \/ BackupTurn(b) /\ chan'[b] = IF chan[b] = <<>> THEN <<>> ELSE Tail(chan[b])
           \/ /\ LeaderSend(b) /\ conn[b] = "open" /\ ~BackupGone(b)
              /\ chan'[b] = Append(chan[b], [id |-> sending,
                                             seqn |-> messages[Leader][sending].seqn])
<1>0. chan \in [Backups -> Seq(Packet)]
  BY DEF TypeInv, TypeOK
<1> DEFINE p == [id |-> sending, seqn |-> messages[Leader][sending].seqn]
<1>1. CASE BackupTurn(b)
  <2>1. chan' = [chan EXCEPT ![b] = IF @ = <<>> THEN @ ELSE Tail(@)]
    BY <1>1 DEF BackupTurn
  <2>2. chan'[b] = IF chan[b] = <<>> THEN <<>> ELSE Tail(chan[b])
    BY <1>0, <2>1
  <2> QED BY <1>1, <2>2
<1>2. CASE LeaderSend(b)
  <2>1. \/ conn[b] = "open" /\ ~BackupGone(b) /\ chan' = [chan EXCEPT ![b] = Append(@, p)]
        \/ chan' = chan
    BY <1>2 DEF LeaderSend
  <2> HIDE DEF p
  <2>2. chan' = [chan EXCEPT ![b] = Append(@, p)] => chan'[b] = Append(chan[b], p)
    BY <1>0
  <2> QED BY <1>2, <2>1, <2>2 DEF p
<1>3. ASSUME NEW c \in Backups, c # b, LeaderSend(c) \/ BackupTurn(c)
      PROVE  chan'[b] = chan[b]
  BY <1>0, <1>3 DEF LeaderSend, BackupTurn
<1>4. CASE LeaderReceive \/ LeaderManage \/ LeaderCheckSent \/ LeaderNextToSend
           \/ LeaderCheckTimeouts
  BY <1>4 DEF LeaderReceive, LeaderManage, LeaderCheckSent, LeaderNextToSend,
              LeaderCheckTimeouts, netVars
<1>5. CASE \E u \in Users : Request(u) \/ NewReplication(u) \/ Poll(u)
  BY <1>5 DEF Request, NewReplication, Poll, netVars
<1>6. CASE \/ \E c \in Backups : BackupLoses(c)
           \/ \E s \in Servers : Crash(s) \/ NewEpoch(s)
           \/ \E s \in Servers, i \in Ids : Age(s, i)
           \/ UNCHANGED vars
  BY <1>6 DEF BackupLoses, Crash, NewEpoch, Age, vars, netVars
<1> QED BY <1>1, <1>2, <1>3, <1>4, <1>5, <1>6 DEF Next, LeaderStep

LEMMA AppendsAnother ==
    ASSUME NEW q \in Seq(Packet), NEW i, NEW p \in Packet, p.id # i,
           \A k \in DOMAIN q : q[k].id # i
    PROVE  \A k \in DOMAIN Append(q, p) : Append(q, p)[k].id # i
<1>1. /\ DOMAIN q = 1..Len(q) /\ Len(q) \in Nat
      /\ DOMAIN Append(q, p) = 1..(Len(q) + 1)
      /\ Append(q, p)[Len(q) + 1] = p
      /\ \A k \in 1..Len(q) : Append(q, p)[k] = q[k]
  BY AppendProperties, LenProperties
<1>2. \A k \in 1..(Len(q) + 1) : k \in 1..Len(q) \/ k = Len(q) + 1
  BY <1>1
<1> QED BY <1>1, <1>2

\* The clock does not go back.
LEMMA ClockRises ==
    ASSUME TypeInv, [Next]_vars
    PROVE  /\ clock \in Nat /\ clock' \in Nat /\ clock <= clock'
           /\ clock' \in {clock, clock + 1}
<1>0. clock \in Nat
  BY ConstantsAssumption DEF TypeInv, TypeOK
<1>1. CASE \E u \in Users : Request(u)
  BY <1>0, <1>1 DEF Request, Ids
<1>2. CASE \E u \in Users : NewReplication(u) \/ Poll(u)
  BY <1>0, <1>2 DEF NewReplication, Poll
<1>3. CASE LeaderStep
  <2>1. clock' = clock
    BY <1>3 DEF LeaderStep, LeaderReceive, LeaderSend, LeaderManage,
       LeaderCheckSent, LeaderNextToSend, LeaderCheckTimeouts, userVars
  <2> QED BY <1>0, <2>1
<1>4. CASE \/ \E c \in Backups : BackupTurn(c) \/ BackupLoses(c)
           \/ \E s \in Servers : Crash(s) \/ NewEpoch(s)
           \/ UNCHANGED vars
  BY <1>0, <1>4 DEF BackupTurn, BackupLoses, Crash, NewEpoch, vars, userVars
<1>5. CASE \E s \in Servers, j \in Ids : Age(s, j)
  BY <1>0, <1>5 DEF Age
<1> QED BY <1>1, <1>2, <1>3, <1>4, <1>5 DEF Next

LEMMA LeaderStaysDead ==
    ASSUME [Next]_vars, Leader \in alive'
    PROVE  Leader \in alive
<1>1. CASE LeaderStep
  BY <1>1 DEF LeaderStep, LeaderReceive, LeaderSend, LeaderManage, LeaderCheckSent,
     LeaderNextToSend, LeaderCheckTimeouts, netVars
<1>2. CASE \E u \in Users : Request(u) \/ NewReplication(u) \/ Poll(u)
  BY <1>2 DEF Request, NewReplication, Poll
<1>3. CASE \E b \in Backups : BackupTurn(b) \/ BackupLoses(b)
  BY <1>3 DEF BackupTurn, BackupLoses
<1>4. CASE \E s \in Servers : Crash(s) \/ NewEpoch(s)
  BY <1>4 DEF Crash, NewEpoch, netVars
<1>5. CASE (\E s \in Servers, i \in Ids : Age(s, i)) \/ UNCHANGED vars
  BY <1>5 DEF Age, vars, netVars
<1> QED BY <1>1, <1>2, <1>3, <1>4, <1>5 DEF Next

\* A connection that the leader has lost, or on which a send has failed, does
\* not carry a packet again.
LEMMA ConnStaysLost ==
    ASSUME TypeInv, [Next]_vars, NEW b \in Backups, conn'[b] \in {"never", "open"}
    PROVE  conn[b] \in {"never", "open"}
<1>0. conn \in [Backups -> {"never", "open", "broken", "closed"}]
  BY DEF TypeInv, TypeOK
<1>1. CASE LeaderReceive
  BY <1>0, <1>1 DEF LeaderReceive, Joins
<1>2. CASE \E c \in Backups : LeaderSend(c)
  <2>1. PICK c \in Backups : LeaderSend(c)
    BY <1>2
  <2>2. \/ conn' = conn
        \/ conn' = [conn EXCEPT ![c] = IF @ = "open" THEN "broken" ELSE @]
    BY <2>1 DEF LeaderSend
  <2> QED BY <1>0, <2>2
<1>3. CASE LeaderManage \/ LeaderCheckSent \/ LeaderNextToSend \/ LeaderCheckTimeouts
  BY <1>3 DEF LeaderManage, LeaderCheckSent, LeaderNextToSend, LeaderCheckTimeouts, netVars
<1>4. CASE \E u \in Users : Request(u) \/ NewReplication(u) \/ Poll(u)
  BY <1>4 DEF Request, NewReplication, Poll, netVars
<1>5. CASE \/ \E c \in Backups : BackupTurn(c) \/ BackupLoses(c)
           \/ \E s \in Servers : Crash(s) \/ NewEpoch(s)
  BY <1>5 DEF BackupTurn, BackupLoses, Crash, NewEpoch, netVars
<1>6. CASE (\E s \in Servers, i \in Ids : Age(s, i)) \/ UNCHANGED vars
  BY <1>6 DEF Age, vars, netVars
<1> QED BY <1>1, <1>2, <1>3, <1>4, <1>5, <1>6 DEF Next, LeaderStep

\* Only a request makes a thread begin with a command, and it is a later one.
LEMMA OnlyRequestBegins ==
    ASSUME TypeInv, [Next]_vars, NEW i \in Ids, i < clock,
           \A u \in Users : user[u].pc = "begin" => user[u].id # i
    PROVE  \A u \in Users : user'[u].pc = "begin" => user'[u].id # i
<1>0. /\ user \in [Users -> [pc : {"idle", "begin", "wait"}, id : 0..MaxId, seqn : Epochs]]
      /\ i \in Nat /\ clock \in Nat
  BY ConstantsAssumption DEF TypeInv, TypeOK, Ids
<1>1. CASE \E v \in Users : Request(v)
  <2>1. PICK v \in Users : Request(v)
    BY <1>1
  <2>2. PICK j \in {clock, clock + 1} \cap Ids :
           user' = [user EXCEPT ![v] = [pc |-> "begin", id |-> j, seqn |-> emEpoch[Leader]]]
    BY <2>1 DEF Request
  <2>3. \A u \in Users : user'[u] = user[u] \/ user'[u].id = j
    BY <1>0, <2>2
  <2>4. j # i
    BY <1>0
  <2> QED BY <2>3, <2>4
<1>2. ASSUME NEW v \in Users, NewReplication(v) \/ Poll(v)
      PROVE  \A u \in Users : user'[u].pc = "begin" => user'[u].id # i
  <2>1. PICK to \in {"wait", "idle"} : user' = [user EXCEPT ![v].pc = to]
    BY <1>2 DEF NewReplication, Poll
  <2>2. \A u \in Users : user'[u] = user[u] \/ user'[u].pc = to
    BY <1>0, <2>1
  <2> QED BY <2>2
<1>3. CASE LeaderStep
  BY <1>3 DEF LeaderStep, LeaderReceive, LeaderSend, LeaderManage,
     LeaderCheckSent, LeaderNextToSend, LeaderCheckTimeouts, userVars
<1>4. CASE \/ \E c \in Backups : BackupTurn(c) \/ BackupLoses(c)
           \/ \E s \in Servers : Crash(s) \/ NewEpoch(s)
           \/ \E s \in Servers, j \in Ids : Age(s, j)
           \/ UNCHANGED vars
  BY <1>4 DEF BackupTurn, BackupLoses, Crash, NewEpoch, Age, vars, userVars
<1> QED BY <1>1, <1>2, <1>3, <1>4 DEF Next

\* What is settled stays so: the leader sends only what it has to, over an open connection.
LEMMA SettledStays ==
    ASSUME TypeInv, [Next]_vars, NEW b \in Backups, NEW i \in Ids, SettledOn(b, i)
    PROVE  SettledOn(b, i)'
<1> DEFINE p == [id |-> sending, seqn |-> messages[Leader][sending].seqn]
           reachable == Leader \in alive /\ conn[b] \in {"never", "open"}
<1>0. i \in Nat /\ i < clock /\ ~InFlight(b, i)
  BY ConstantsAssumption DEF SettledOn, MoreCopies, Ids
<1>1. i < clock'
  BY <1>0, ClockRises
<1>2. reachable => /\ ~Sendable(messages[Leader][i])
                   /\ \A u \in Users : user[u].pc = "begin" => user[u].id # i
  BY DEF SettledOn, MoreCopies, Sendable
<1>3. ~InFlight(b, i)'
  <2>1. /\ \A k \in DOMAIN chan[b] : chan[b][k].id # i
        /\ chan[b] \in Seq(Packet)
    BY <1>0, BackupFacts DEF InFlight
  <2>2. CASE chan'[b] = chan[b]
    BY <2>1, <2>2 DEF InFlight
  <2>3. CASE BackupTurn(b) /\ chan'[b] = IF chan[b] = <<>> THEN <<>> ELSE Tail(chan[b])
    <3>1. CASE chan[b] = <<>>
      BY <2>1, <2>3, <3>1 DEF InFlight
    <3>2. CASE chan[b] # <<>>
      <4>1. \A k \in DOMAIN Tail(chan[b]) : Tail(chan[b])[k].id # i
        BY <2>1, <3>2, HeadTailProperties, LenProperties
      <4> QED BY <2>3, <3>2, <4>1 DEF InFlight
    <3> QED BY <3>1, <3>2
  <2>4. CASE LeaderSend(b) /\ conn[b] = "open" /\ chan'[b] = Append(chan[b], p)
    <3>1. cursor = b /\ cursor # N + 1 /\ reachable
      BY <2>4, ConstantsAssumption DEF LeaderSend, Backups
    <3>2. sending \in Ids /\ Sendable(messages[Leader][sending])
      BY <3>1 DEF TypeInv, Sendable
    <3>3. sending # i
      BY <1>2, <3>1, <3>2
    <3>4. messages[Leader][sending] \in Entry
      BY <3>2, BackupFacts DEF TypeInv, TypeOK
    <3>5. p \in Packet /\ p.id # i
      BY <3>2, <3>3, <3>4 DEF Packet, Entry
    <3> HIDE DEF p
    <3>6. \A k \in DOMAIN Append(chan[b], p) : Append(chan[b], p)[k].id # i
      BY <2>1, <3>5, AppendsAnother
    <3> QED BY <2>4, <3>6 DEF InFlight
  <2> QED BY <2>2, <2>3, <2>4, ChanChanges
<1>4. ASSUME Leader \in alive', conn'[b] \in {"never", "open"} PROVE reachable
  <2>1. Leader \in alive
    BY <1>4, LeaderStaysDead
  <2>2. conn[b] \in {"never", "open"}
    BY <1>4, ConnStaysLost
  <2> QED BY <2>1, <2>2
<1>5. reachable => ~Sendable(messages'[Leader][i])
  BY <1>2, SettledSendsNothing
<1>6. reachable => \A u \in Users : user'[u].pc = "begin" => user'[u].id # i
  BY <1>0, <1>2, OnlyRequestBegins
<1> HIDE DEF reachable
<1> QED BY <1>1, <1>3, <1>4, <1>5, <1>6 DEF SettledOn, MoreCopies, Sendable

\* An entry of a backup is old only when nothing of its command comes any more.
LEMMA AgedIsSettled ==
    ASSUME TypeInv, StampInv, Timely, NEW b \in Backups, NEW i \in Ids, Age(b, i)
    PROVE  SettledOn(b, i)'
<1>1. i \in Nat /\ clock \in Nat /\ i <= clock
  <2>1. messages[b][i].state # "ABSENT" /\ messages[b][i].seqn \in Epochs
    BY BackupFacts DEF Age, Entry
  <2>2. Copy(i, messages[b][i].seqn)
    BY <2>1, BackupFacts DEF Copy
  <2> QED BY <2>1, <2>2, ConstantsAssumption DEF StampInv, Given, Ids, TypeInv, TypeOK
<1>2. i < clock'
  BY <1>1 DEF Age
<1>3. ~InFlight(b, i)' /\ ~InFlight(b, i)
  BY DEF Age, MoreCopies, InFlight, netVars
<1>4. messages'[Leader] = messages[Leader] /\ UNCHANGED <<alive, conn, user>>
  BY BackupFacts DEF Age, netVars, TypeInv, TypeOK
<1>5. ~MoreCopies(b, i)
  BY DEF Age
<1> QED BY <1>2, <1>3, <1>4, <1>5 DEF SettledOn, MoreCopies

-----------------------------------------------------------------------------
(* Where the copies of a command come from *)

\* An entry is not of another epoch afterwards, and no entry comes from none.
Stamps(e, new) == new.state # "ABSENT" => e.state # "ABSENT" /\ new.seqn = e.seqn

LEMMA HelpersKeepSeqn ==
    ASSUME NEW e \in Entry, NEW marks, NEW epoch, NEW seqn, NEW to, NEW ok
    PROVE  /\ Stamps(e, ReceivedConfirms(e, marks))
           /\ Stamps(e, CheckSent(e))
           /\ Stamps(e, Clear(e, epoch))
           /\ Stamps(e, CheckTimeouts(e))
           /\ Stamps(e, [e EXCEPT !.old = TRUE])
           /\ e.state # "ABSENT" => /\ Stamps(e, UpdateSend(e, to, ok))
                                    /\ Stamps(e, UpdateConfirm(e))
           /\ Stamps(e, ReceivedToReplicate(e, seqn, epoch))
                 \/ ReceivedToReplicate(e, seqn, epoch).seqn = seqn
<1>1. Stamps(e, ReceivedConfirms(e, marks))
  BY DEF ReceivedConfirms, Entry, Stamps
<1>2. Stamps(e, CheckSent(e)) /\ Stamps(e, [e EXCEPT !.old = TRUE])
  BY DEF CheckSent, Entry, Stamps
<1>3. Stamps(e, Clear(e, epoch))
  BY DEF Clear, Absent, NewEntry, Stamps
<1>4. Stamps(e, CheckTimeouts(e))
  BY DEF CheckTimeouts, Absent, NewEntry, Entry, Stamps
<1>5. e.state # "ABSENT" => Stamps(e, UpdateSend(e, to, ok))
  BY DEF UpdateSend, Entry, Stamps
<1>6. e.state # "ABSENT" => Stamps(e, UpdateConfirm(e))
  BY DEF UpdateConfirm, Entry, Stamps
<1>7. \/ Stamps(e, ReceivedToReplicate(e, seqn, epoch))
      \/ ReceivedToReplicate(e, seqn, epoch).seqn = seqn
  BY DEF ReceivedToReplicate, NewEntry, Entry, Stamps
<1> QED BY <1>1, <1>2, <1>3, <1>4, <1>5, <1>6, <1>7

LEMMA LeaderKeepsSeqn ==
    ASSUME TypeInv, LeaderStep, NEW i \in Ids
    PROVE  Stamps(messages[Leader][i], messages'[Leader][i])
<1> DEFINE e == messages[Leader][i]
<1>0. /\ messages \in [Servers -> [Ids -> Entry]] /\ Leader \in Servers
      /\ e \in Entry
  BY ConstantsAssumption DEF TypeInv, TypeOK, Leader, Servers
<1>1. CASE LeaderReceive
  <2>1. messages'[Leader][i] = ReceivedConfirms(e, {b \in Backups : Reads(b) /\ Head(back[b]) = i})
    BY <1>0, <1>1 DEF LeaderReceive
  <2> QED BY <1>0, <2>1, HelpersKeepSeqn
<1>2. CASE LeaderManage
  <2>1. messages'[Leader][i] = Clear(e, emEpoch[Leader])
    BY <1>0, <1>2 DEF LeaderManage, ForAll
  <2> QED BY <1>0, <2>1, HelpersKeepSeqn
<1>3. CASE LeaderCheckSent
  <2>1. messages'[Leader][i] = CheckSent(e)
    BY <1>0, <1>3 DEF LeaderCheckSent, ForAll
  <2> QED BY <1>0, <2>1, HelpersKeepSeqn
<1>4. CASE LeaderNextToSend
  BY <1>4 DEF LeaderNextToSend, Stamps
<1>5. CASE LeaderCheckTimeouts
  <2>1. messages'[Leader][i] = CheckTimeouts(e)
    BY <1>0, <1>5 DEF LeaderCheckTimeouts, ForAll
  <2> QED BY <1>0, <2>1, HelpersKeepSeqn
<1>6. ASSUME NEW b \in Backups, LeaderSend(b) PROVE Stamps(e, messages'[Leader][i])
  <2>0. sending = i => e.state # "ABSENT"
    BY <1>6, ConstantsAssumption DEF TypeInv, LeaderSend, Backups
  <2>1. ASSUME NEW ok, messages' = [messages EXCEPT ![Leader][sending] = UpdateSend(@, b, ok)]
        PROVE  Stamps(e, messages'[Leader][i])
    <3>1. \/ messages'[Leader][i] = e
          \/ sending = i /\ messages'[Leader][i] = UpdateSend(e, b, ok)
      BY <1>0, <2>1
    <3>2. e.state # "ABSENT" => Stamps(e, UpdateSend(e, b, ok))
      BY <1>0, HelpersKeepSeqn
    <3> QED BY <2>0, <3>1, <3>2 DEF Stamps
  <2>2. \/ messages' = [messages EXCEPT ![Leader][sending] = UpdateSend(@, b, TRUE)]
        \/ messages' = [messages EXCEPT ![Leader][sending] = UpdateSend(@, b, FALSE)]
    BY <1>6 DEF LeaderSend
  <2> QED BY <2>1, <2>2
<1> QED BY <1>1, <1>2, <1>3, <1>4, <1>5, <1>6 DEF LeaderStep

LEMMA TurnKeepsSeqn ==
    ASSUME TypeInv, NEW b \in Backups, BackupTurn(b), NEW i \in Ids,
           messages'[b][i].state # "ABSENT"
    PROVE  \/ Stamps(messages[b][i], messages'[b][i])
           \/ ReadsOf(b, i) /\ messages'[b][i].seqn = Head(chan[b]).seqn
<1> DEFINE e == messages[b][i]
           r == Received(b)[i]
           f(ok) == Confirmed(b, ok, i)
           c(ok) == Committed(b, ok, i)
<1>1. PICK ok \in SUBSET ToConfirm(b) : messages'[b][i] = CheckTimeouts(c(ok))
  BY TurnIs
<1>2. e \in Entry /\ r \in Entry /\ c(ok) \in Entry
  BY BackupFacts, ReceivedIs, CommittedType
<1>3. Stamps(c(ok), messages'[b][i])
  <2> HIDE DEF c
  <2> QED BY <1>1, <1>2, HelpersKeepSeqn
<1>4. f(ok) \in Entry /\ Stamps(r, f(ok))
  <2>1. CASE i \in ok
    <3>1. r.state # "ABSENT"
      BY <2>1 DEF ToConfirm, In
    <3>2. f(ok) = UpdateConfirm(r)
      BY <2>1 DEF Confirmed
    <3> HIDE DEF r, f
    <3> QED BY <1>2, <3>1, <3>2, HelpersKeepSeqn, ConfirmTypes
  <2>2. CASE i \notin ok
    BY <1>2, <2>2 DEF Confirmed, Stamps
  <2> QED BY <2>1, <2>2
<1>5. Stamps(f(ok), c(ok))
  <2>1. c(ok) = IF f(ok).state = "COMMIT" THEN [f(ok) EXCEPT !.state = "COMMITTED"] ELSE f(ok)
    BY DEF Committed
  <2> HIDE DEF f, c
  <2> QED BY <1>4, <2>1 DEF Stamps, Entry
<1>6. r.state # "ABSENT" /\ messages'[b][i].seqn = r.seqn
  <2> HIDE DEF r, f, c
  <2> QED BY <1>3, <1>4, <1>5 DEF Stamps
<1>7. CASE ~ReadsOf(b, i)
  <2>1. r = Clear(e, emEpoch[b])
    BY <1>7, ReceivedIs
  <2>2. Stamps(e, Clear(e, emEpoch[b]))
    BY <1>2, HelpersKeepSeqn
  <2> QED BY <1>6, <2>1, <2>2 DEF Stamps
<1>8. CASE ReadsOf(b, i)
  <2> DEFINE p == Head(chan[b])
             q == ReceivedToReplicate(e, p.seqn, rmEpoch[b])
  <2>1. p \in Packet /\ r = Clear(q, emEpoch[b]) /\ rmEpoch[b] \in Epochs
    BY <1>8, ReceivedIs, BackupFacts
  <2>2. q \in Entry
    BY <1>2, <2>1, ReceivedToReplicateType DEF Packet
  <2>3. Stamps(q, r)
    <3> HIDE DEF q, r
    <3> QED BY <2>1, <2>2, HelpersKeepSeqn
  <2>4. Stamps(e, q) \/ q.seqn = p.seqn
    <3> HIDE DEF p
    <3> QED BY <1>2, HelpersKeepSeqn
  <2> HIDE DEF q, r
  <2> QED BY <1>6, <1>8, <2>3, <2>4 DEF Stamps
<1> QED BY <1>7, <1>8

\* Whatever the user threads do, only a request makes a copy.
LEMMA UserCopies ==
    ASSUME TypeInv, [Next]_vars, NEW u \in Users
    PROVE  \/ user'[u].id = user[u].id /\ user'[u].seqn = user[u].seqn
           \/ /\ Request(u) /\ clock' \in {clock, clock + 1} /\ user[u].id < clock'
              /\ user' = [user EXCEPT ![u] =
                            [pc |-> "begin", id |-> clock', seqn |-> emEpoch[Leader]]]
<1>0. user \in [Users -> [pc : {"idle", "begin", "wait"}, id : 0..MaxId, seqn : Epochs]]
      /\ user[u].id \in Nat
  BY ConstantsAssumption DEF TypeInv, TypeOK
<1>1. CASE \E v \in Users : Request(v)
  <2>1. PICK v \in Users, j \in {clock, clock + 1} \cap Ids :
           /\ Request(v) /\ j > user[v].id /\ clock' = j
           /\ user' = [user EXCEPT ![v] = [pc |-> "begin", id |-> j, seqn |-> emEpoch[Leader]]]
    BY <1>1 DEF Request
  <2>2. CASE u = v
    BY <1>0, <2>1, <2>2 DEF Ids
  <2>3. CASE u # v
    BY <1>0, <2>1, <2>3
  <2> QED BY <2>2, <2>3
<1>2. ASSUME NEW v \in Users, NewReplication(v) \/ Poll(v)
      PROVE  user'[u].id = user[u].id /\ user'[u].seqn = user[u].seqn
  <2>1. PICK to : user' = [user EXCEPT ![v].pc = to]
    BY <1>2 DEF NewReplication, Poll
  <2>2. user'[u] = user[u] \/ user'[u] = [user[u] EXCEPT !.pc = to]
    BY <1>0, <2>1
  <2> QED BY <1>0, <2>2
<1>3. CASE LeaderStep
  BY <1>3 DEF LeaderStep, LeaderReceive, LeaderSend, LeaderManage,
     LeaderCheckSent, LeaderNextToSend, LeaderCheckTimeouts, userVars
<1>4. CASE \/ \E c \in Backups : BackupTurn(c) \/ BackupLoses(c)
           \/ \E s \in Servers : Crash(s) \/ NewEpoch(s)
           \/ \E s \in Servers, j \in Ids : Age(s, j)
           \/ UNCHANGED vars
  BY <1>4 DEF BackupTurn, BackupLoses, Crash, NewEpoch, Age, vars, userVars
<1> QED BY <1>1, <1>2, <1>3, <1>4 DEF Next

LEMMA TableCopies ==
    ASSUME TypeInv, [Next]_vars, NEW s \in Servers, NEW i \in Ids,
           messages'[s][i].state # "ABSENT"
    PROVE  Copy(i, messages'[s][i].seqn)
<1> DEFINE e == messages[s][i]
           new == messages'[s][i]
<1>0. /\ messages \in [Servers -> [Ids -> Entry]] /\ e \in Entry
      /\ s = Leader \/ s \in Backups
  BY ConstantsAssumption DEF TypeInv, TypeOK, Leader, Servers, Backups
<1>a. Stamps(e, new) => Copy(i, new.seqn)
  BY DEF Stamps, Copy
<1>b. messages'[s] = messages[s] => Copy(i, new.seqn)
  BY DEF Copy
<1>1. CASE LeaderStep
  <2>1. s # Leader => messages'[s] = messages[s]
    <3>1. CASE LeaderReceive \/ LeaderManage \/ LeaderCheckSent
      BY <1>0, <3>1 DEF LeaderReceive, LeaderManage, LeaderCheckSent
    <3>2. CASE LeaderNextToSend \/ LeaderCheckTimeouts
      BY <1>0, <3>2 DEF LeaderNextToSend, LeaderCheckTimeouts
    <3>3. CASE \E c \in Backups : LeaderSend(c)
      BY <1>0, <3>3 DEF LeaderSend
    <3> QED BY <1>1, <3>1, <3>2, <3>3 DEF LeaderStep
  <2> QED BY <1>1, <1>a, <1>b, <2>1, LeaderKeepsSeqn
<1>2. CASE \E u \in Users : Request(u) \/ Poll(u)
  BY <1>2, <1>b DEF Request, Poll
<1>3. ASSUME NEW u \in Users, NewReplication(u) PROVE Copy(i, new.seqn)
  <2>1. \/ new = e
        \/ user[u].id = i /\ new = NewEntry("SEND", user[u].seqn, {Leader})
    BY <1>0, <1>3 DEF NewReplication
  <2>2. new = e => Copy(i, new.seqn)
    BY DEF Copy
  <2> QED BY <2>1, <2>2 DEF NewEntry, Copy
<1>4. ASSUME NEW b \in Backups, BackupTurn(b) PROVE Copy(i, new.seqn)
  <2>1. CASE s # b
    BY <1>0, <1>4, <1>b, <2>1 DEF BackupTurn
  <2>2. CASE s = b /\ ReadsOf(b, i) /\ new.seqn = Head(chan[b]).seqn
    <3>1. chan[b] \in Seq(Packet) /\ chan[b] # <<>> /\ Head(chan[b]).id = i
      BY <2>2, BackupFacts DEF ReadsOf
    <3>2. Head(chan[b]) \in Packet /\ Head(chan[b]) = chan[b][1] /\ 1 \in DOMAIN chan[b]
      BY <3>1, HeadTailProperties, EmptySeq, LenProperties
    <3>3. Head(chan[b]) = [id |-> i, seqn |-> new.seqn]
      BY <2>2, <3>1, <3>2 DEF Packet
    <3> QED BY <3>2, <3>3 DEF Copy
  <2> QED BY <1>4, <1>a, <2>1, <2>2, TurnKeepsSeqn
<1>5. CASE \/ \E b \in Backups : BackupLoses(b)
           \/ \E r \in Servers : Crash(r) \/ NewEpoch(r)
           \/ UNCHANGED vars
  BY <1>5, <1>b DEF BackupLoses, Crash, NewEpoch, vars
<1>6. ASSUME NEW r \in Servers, NEW j \in Ids, Age(r, j) PROVE Copy(i, new.seqn)
  <2> DEFINE aged(x) == [x EXCEPT !.old = TRUE]
  <2>1. messages' = [messages EXCEPT ![r][j] = aged(@)]
    BY <1>6 DEF Age
  <2>2. Stamps(e, aged(e))
    BY <1>0, HelpersKeepSeqn
  <2> HIDE DEF aged
  <2>3. new = e \/ new = aged(e)
    BY <1>0, <2>1
  <2>4. new = e => Copy(i, new.seqn)
    BY DEF Copy
  <2> QED BY <1>a, <2>2, <2>3, <2>4
<1> QED BY <1>1, <1>2, <1>3, <1>4, <1>5, <1>6 DEF Next

LEMMA ChanCopies ==
    ASSUME TypeInv, [Next]_vars, NEW b \in Backups, NEW k \in DOMAIN chan'[b],
           NEW i \in Ids, NEW x \in Epochs, chan'[b][k] = [id |-> i, seqn |-> x]
    PROVE  Copy(i, x)
<1> DEFINE p == [id |-> sending, seqn |-> messages[Leader][sending].seqn]
<1>0. chan[b] \in Seq(Packet)
  BY BackupFacts
<1>1. CASE chan'[b] = chan[b]
  BY <1>1 DEF Copy
<1>2. CASE chan'[b] = IF chan[b] = <<>> THEN <<>> ELSE Tail(chan[b])
  <2>1. CASE chan[b] = <<>>
    BY <1>2, <2>1
  <2>2. CASE chan[b] # <<>>
    <3>1. k \in 1..Len(Tail(chan[b])) /\ Tail(chan[b])[k] = chan[b][k + 1]
          /\ Len(Tail(chan[b])) = Len(chan[b]) - 1 /\ Len(chan[b]) \in Nat
          /\ DOMAIN chan[b] = 1..Len(chan[b])
      BY <1>0, <1>2, <2>2, HeadTailProperties, LenProperties
    <3>2. k + 1 \in DOMAIN chan[b] /\ chan[b][k + 1] = [id |-> i, seqn |-> x]
      BY <1>2, <2>2, <3>1
    <3> QED BY <3>2 DEF Copy
  <2> QED BY <2>1, <2>2
<1>3. CASE LeaderSend(b) /\ chan'[b] = Append(chan[b], p)
  <2>0. cursor = b /\ cursor # N + 1
    BY <1>3, ConstantsAssumption DEF LeaderSend, Backups
  <2>1. sending \in Ids /\ messages[Leader][sending].state # "ABSENT"
        /\ messages[Leader][sending] \in Entry /\ Leader \in Servers
    BY <2>0, BackupFacts DEF TypeInv, TypeOK
  <2>2. p \in Packet
    BY <2>1 DEF Packet, Entry
  <2>3. p = [id |-> i, seqn |-> x] => Copy(i, x)
    BY <2>1 DEF Copy
  <2> HIDE DEF p
  <2>4. /\ DOMAIN chan[b] = 1..Len(chan[b]) /\ Len(chan[b]) \in Nat
        /\ DOMAIN Append(chan[b], p) = 1..(Len(chan[b]) + 1)
        /\ Append(chan[b], p)[Len(chan[b]) + 1] = p
        /\ \A m \in 1..Len(chan[b]) : Append(chan[b], p)[m] = chan[b][m]
    BY <1>0, <2>2, AppendProperties, LenProperties
  <2>5. k \in 1..Len(chan[b]) \/ k = Len(chan[b]) + 1
    BY <1>3, <2>4
  <2>6. chan[b][k] = [id |-> i, seqn |-> x] /\ k \in DOMAIN chan[b] => Copy(i, x)
    BY DEF Copy
  <2> QED BY <1>3, <2>3, <2>4, <2>5, <2>6
<1> QED BY <1>1, <1>2, <1>3, ChanChanges

\* A copy comes from a copy, or is the first one of its command.
LEMMA CopyComesFrom ==
    ASSUME TypeInv, StampInv, OneEpochPerStamp', [Next]_vars,
           NEW i \in Ids, NEW x \in Epochs, Copy(i, x)'
    PROVE  \/ Copy(i, x)
           \/ ~Given(i) /\ Given(i)' /\ x = emEpoch[Leader]
<1>0. clock \in Nat /\ i \in Nat /\ i # 0
      /\ user \in [Users -> [pc : {"idle", "begin", "wait"}, id : 0..MaxId, seqn : Epochs]]
  BY ConstantsAssumption DEF TypeInv, TypeOK, Ids
<1>1. CASE \E s \in Servers : messages'[s][i].state # "ABSENT" /\ messages'[s][i].seqn = x
  BY <1>1, TableCopies
<1>2. CASE \E b \in Backups : \E k \in DOMAIN chan'[b] : chan'[b][k] = [id |-> i, seqn |-> x]
  BY <1>2, ChanCopies
<1>3. ASSUME NEW u \in Users, user'[u].id = i, user'[u].seqn = x
      PROVE  Copy(i, x) \/ (~Given(i) /\ Given(i)' /\ x = emEpoch[Leader])
  <2>1. CASE user'[u].id = user[u].id /\ user'[u].seqn = user[u].seqn
    BY <1>3, <2>1 DEF Copy
  <2>2. CASE /\ clock' \in {clock, clock + 1} /\ user[u].id < clock'
             /\ user' = [user EXCEPT ![u] =
                            [pc |-> "begin", id |-> clock', seqn |-> emEpoch[Leader]]]
    <3>1. i = clock' /\ x = emEpoch[Leader]
      BY <1>0, <1>3, <2>2
    <3>2. CASE Given(i)
      <4>1. PICK v \in Users : user[v].id = i
        BY <1>0, <2>2, <3>1, <3>2 DEF Given
      <4>2. v # u /\ user'[v] = user[v]
        BY <1>0, <2>2, <3>1, <4>1
      <4>3. user'[v].seqn = x
        BY <1>3, <4>1, <4>2 DEF OneEpochPerStamp
      <4> QED BY <4>1, <4>2, <4>3 DEF Copy
    <3>3. CASE ~Given(i)
      <4>1. Given(i)'
        BY <1>0, <1>3, <3>1 DEF Given
      <4> QED BY <3>1, <3>3, <4>1
    <3> QED BY <3>2, <3>3
  <2> QED BY <2>1, <2>2, UserCopies
<1> QED BY <1>1, <1>2, <1>3 DEF Copy

LEMMA InitStamp == Init => StampInv
<1> SUFFICES ASSUME Init PROVE StampInv
  OBVIOUS
<1>1. ASSUME NEW i \in Ids, NEW x PROVE ~Copy(i, x)
  <2>1. /\ \A u \in Users : user[u].id # i
        /\ \A s \in Servers : messages[s][i].state = "ABSENT"
        /\ \A b \in Backups : chan[b] = <<>>
    BY <1>1 DEF Init, Absent, NewEntry, Ids
  <2>2. \A b \in Backups : DOMAIN chan[b] = {}
    BY <2>1
  <2> QED BY <2>1, <2>2 DEF Copy
<1>2. clock = 0 /\ \A b \in Backups : rmEpoch[b] = 0 /\ emEpoch[b] = 0
  BY ConstantsAssumption DEF Init, Backups, Servers
<1> QED BY <1>1, <1>2 DEF StampInv

\* Only a turn takes over the epoch of the election.
LEMMA EpochSteps ==
    ASSUME TypeInv, [Next]_vars, NEW b \in Backups
    PROVE  \/ rmEpoch'[b] = rmEpoch[b]
           \/ rmEpoch'[b] = emEpoch[b] /\ emEpoch' = emEpoch
<1>0. rmEpoch \in [Servers -> Epochs] /\ b \in Servers /\ b # Leader
  BY BackupFacts DEF TypeInv, TypeOK
<1>1. CASE LeaderStep
  BY <1>0, <1>1 DEF LeaderStep, LeaderReceive, LeaderSend, LeaderManage,
     LeaderCheckSent, LeaderNextToSend, LeaderCheckTimeouts
<1>2. CASE \E c \in Backups : BackupTurn(c)
  BY <1>0, <1>2 DEF BackupTurn
<1>3. CASE \/ \E u \in Users : Request(u) \/ NewReplication(u) \/ Poll(u)
           \/ \E c \in Backups : BackupLoses(c)
           \/ \E s \in Servers : Crash(s) \/ NewEpoch(s)
           \/ \E s \in Servers, i \in Ids : Age(s, i)
           \/ UNCHANGED vars
  BY <1>3 DEF Request, NewReplication, Poll, BackupLoses, Crash, NewEpoch, Age, vars
<1> QED BY <1>1, <1>2, <1>3 DEF Next

LEMMA GivenStays ==
    ASSUME TypeInv, [Next]_vars, NEW i \in Ids, Given(i)
    PROVE  Given(i)'
<1>1. i \in Nat /\ clock \in Nat /\ clock' \in Nat /\ clock <= clock' /\ i <= clock
  BY ClockRises DEF Given, Ids
<1>2. CASE i < clock
  BY <1>1, <1>2 DEF Given
<1>3. ASSUME NEW u \in Users, user[u].id = i PROVE Given(i)'
  <2>1. CASE user'[u].id = user[u].id
    BY <1>1, <1>3, <2>1 DEF Given
  <2>2. CASE user[u].id < clock'
    BY <1>1, <1>3, <2>2 DEF Given
  <2> QED BY <2>1, <2>2, UserCopies
<1> QED BY <1>2, <1>3 DEF Given

LEMMA StepStamp ==
    ASSUME TypeInv, StampInv, OneEpochPerStamp', EpochsRise, [Next]_vars
    PROVE  StampInv'
<1>1. ASSUME NEW i \in Ids, NEW x \in Epochs, NEW y \in Epochs, Copy(i, x)', Copy(i, y)'
      PROVE  x = y
  <2>1. Copy(i, x) \/ (~Given(i) /\ x = emEpoch[Leader])
    BY <1>1, CopyComesFrom
  <2>2. Copy(i, y) \/ (~Given(i) /\ y = emEpoch[Leader])
    BY <1>1, CopyComesFrom
  <2>3. Copy(i, x) \/ Copy(i, y) => Given(i)
    BY DEF StampInv
  <2> QED BY <2>1, <2>2, <2>3 DEF StampInv
<1>2. ASSUME NEW i \in Ids, NEW x \in Epochs, Copy(i, x)' PROVE Given(i)'
  <2>1. Given(i) \/ Given(i)'
    BY <1>2, CopyComesFrom DEF StampInv
  <2> QED BY <2>1, GivenStays
<1>3. ASSUME NEW b \in Backups PROVE rmEpoch'[b] <= emEpoch'[b]
  <2>1. rmEpoch[b] \in Nat /\ emEpoch[b] \in Nat /\ emEpoch'[b] >= emEpoch[b]
        /\ rmEpoch[b] <= emEpoch[b]
    BY BackupFacts, ConstantsAssumption DEF EpochsRise, StampInv, Epochs
  <2>2. TypeInv' /\ b \in Servers
    BY StepTypeInv, BackupFacts
  <2>3. emEpoch'[b] \in Nat
    BY <2>2, ConstantsAssumption DEF TypeInv, TypeOK, Epochs
  <2> QED BY <2>1, <2>3, EpochSteps
<1> QED BY <1>1, <1>2, <1>3 DEF StampInv

LEMMA EpochsNeverFall ==
    ASSUME TypeInv, [EpochsRise]_vars
    PROVE  EpochsRise
<1>1. \A b \in Backups : emEpoch[b] \in Nat
  BY BackupFacts, ConstantsAssumption DEF Epochs
<1> QED BY <1>1 DEF EpochsRise, vars

LEMMA SpecStamp == Spec /\ [][EpochsRise]_vars /\ []OneEpochPerStamp => []StampInv
<1>1. TypeInv /\ StampInv /\ OneEpochPerStamp' /\ [EpochsRise]_vars /\ [Next]_vars => StampInv'
  BY StepStamp, EpochsNeverFall
<1> QED BY <1>1, InitStamp, SpecTypeInv, PTL DEF Spec

LEMMA OutdatedStays ==
    ASSUME TypeInv, StampInv, OneEpochPerStamp', [Next]_vars,
           NEW b \in Backups, NEW i \in Ids, Outdated(b, i)
    PROVE  Outdated(b, i)'
<1>1. Given(i) /\ Given(i)'
  BY GivenStays DEF Outdated
<1>2. rmEpoch[b] \in Nat /\ emEpoch[b] \in Nat /\ rmEpoch[b] <= emEpoch[b]
  BY BackupFacts, ConstantsAssumption DEF StampInv, Epochs
<1>3. rmEpoch'[b] \in Nat /\ rmEpoch[b] <= rmEpoch'[b] /\ rmEpoch[b] # 0
  BY <1>2, EpochSteps DEF Outdated
<1>4. ASSUME NEW x \in Epochs, Copy(i, x)' PROVE x < rmEpoch'[b]
  <2>1. Copy(i, x)
    BY <1>1, <1>4, CopyComesFrom DEF Outdated
  <2>2. x < rmEpoch[b] /\ x \in Nat
    BY <2>1, ConstantsAssumption DEF Outdated, Epochs
  <2> QED BY <1>2, <1>3, <2>2
<1> QED BY <1>1, <1>2, <1>3, <1>4 DEF Outdated

\* The packet that is read is a copy.
LEMMA HeadIsCopy ==
    ASSUME TypeInv, NEW b \in Backups, NEW i \in Ids, ReadsOf(b, i)
    PROVE  /\ Head(chan[b]).seqn \in Epochs /\ Copy(i, Head(chan[b]).seqn)
           /\ InFlight(b, i)
<1> DEFINE p == Head(chan[b])
<1>1. chan[b] \in Seq(Packet) /\ chan[b] # <<>> /\ p.id = i
  BY BackupFacts DEF ReadsOf
<1>2. p \in Packet /\ p = chan[b][1] /\ 1 \in DOMAIN chan[b]
  BY <1>1, HeadTailProperties, EmptySeq, LenProperties
<1>3. p = [id |-> i, seqn |-> p.seqn] /\ p.seqn \in Epochs
  BY <1>1, <1>2 DEF Packet
<1>4. Copy(i, p.seqn)
  BY <1>2, <1>3 DEF Copy
<1>5. InFlight(b, i)
  BY <1>1, <1>2 DEF InFlight
<1> QED BY <1>3, <1>4, <1>5

\* What it reads and does not refuse is not outdated.
LEMMA HeadOfLaterEpoch ==
    ASSUME TypeInv, NEW b \in Backups, NEW i \in Ids, ReadsOf(b, i),
           Head(chan[b]).seqn >= rmEpoch[b]
    PROVE  ~Outdated(b, i)
<1> DEFINE x == Head(chan[b]).seqn
<1>1. x \in Epochs /\ Copy(i, x) /\ rmEpoch[b] \in Epochs
  BY HeadIsCopy, BackupFacts
<1>2. x \in Nat /\ rmEpoch[b] \in Nat /\ x >= rmEpoch[b]
  BY <1>1, ConstantsAssumption DEF Epochs
<1> HIDE DEF x
<1> QED BY <1>1, <1>2 DEF Outdated

\* A turn leaves the epochs before that of the election.
LEMMA TurnLeaves ==
    ASSUME TypeInv, StampInv, OneEpochPerStamp', [Next]_vars,
           NEW b \in Backups, BackupTurn(b), NEW i \in Ids,
           NEW x \in Epochs, Copy(i, x), x < emEpoch[b]
    PROVE  Outdated(b, i)'
<1>1. x \in Nat /\ emEpoch[b] \in Nat /\ Given(i) /\ Given(i)'
  <2>1. Given(i)
    BY DEF StampInv
  <2>2. x \in Nat /\ emEpoch[b] \in Nat
    BY BackupFacts, ConstantsAssumption DEF Epochs
  <2> QED BY <2>1, <2>2, GivenStays
<1>2. rmEpoch'[b] = emEpoch[b]
  BY BackupFacts DEF BackupTurn, TypeInv, TypeOK
<1>3. ASSUME NEW y \in Epochs, Copy(i, y)' PROVE y = x
  <2>1. Copy(i, y)
    BY <1>1, <1>3, CopyComesFrom
  <2> QED BY <2>1 DEF StampInv
<1> QED BY <1>1, <1>2, <1>3 DEF Outdated

\* What a turn clears or refuses is outdated from then on.
LEMMA TurnOutdates ==
    ASSUME TypeInv, StampInv, OneEpochPerStamp', [Next]_vars,
           NEW b \in Backups, BackupTurn(b), NEW i \in Ids,
           \/ messages[b][i].state = "COMMITTED" /\ messages[b][i].seqn < emEpoch[b]
           \/ ReadsOf(b, i) /\ Refuses(b)
    PROVE  Outdated(b, i)'
<1>1. CASE messages[b][i].state = "COMMITTED" /\ messages[b][i].seqn < emEpoch[b]
  <2>1. b \in Servers /\ messages[b][i] \in Entry
    BY BackupFacts
  <2>2. messages[b][i].seqn \in Epochs /\ Copy(i, messages[b][i].seqn)
    BY <1>1, <2>1 DEF Copy, Entry
  <2> QED BY <1>1, <2>2, TurnLeaves
<1>2. CASE ReadsOf(b, i) /\ Refuses(b)
  <2> DEFINE x == Head(chan[b]).seqn
  <2>1. x \in Epochs /\ Copy(i, x) /\ (x < rmEpoch[b] \/ x < emEpoch[b])
    BY <1>2, HeadIsCopy DEF Refuses
  <2> HIDE DEF x
  <2>2. rmEpoch[b] <= emEpoch[b] /\ rmEpoch[b] \in Nat /\ emEpoch[b] \in Nat /\ x \in Nat
    BY <2>1, BackupFacts, ConstantsAssumption DEF StampInv, Epochs
  <2>3. x < emEpoch[b]
    BY <2>1, <2>2
  <2> QED BY <2>1, <2>3, TurnLeaves
<1> QED BY <1>1, <1>2

\* What b will not apply any more: it has, or has left the epochs of it.
Done(b, i) == i \in AppliedOn(b) \/ Outdated(b, i)

\* b is done for good.
StaysDone(b) == \A i \in Ids : Done(b, i) => Done(b, i)'

\* Whatever happens, b does not become undone with a command.
LEMMA StepDone ==
    ASSUME TypeInv, StampInv, OneEpochPerStamp', [Next]_vars, NEW b \in Backups, Rests(b)
    PROVE  StaysDone(b)
<1>1. AppliedOn(b) \subseteq AppliedOn(b)'
  <2>1. CASE applied'[b] = applied[b]
    BY <2>1 DEF AppliedOn
  <2>2. ASSUME NEW i \in Ids, applied'[b] = Append(applied[b], i)
        PROVE  AppliedOn(b) \subseteq AppliedOn(b)'
    <3>1. /\ DOMAIN applied[b] = 1..Len(applied[b]) /\ Len(applied[b]) \in Nat
          /\ DOMAIN applied'[b] = 1..(Len(applied[b]) + 1)
          /\ \A k \in 1..Len(applied[b]) : applied'[b][k] = applied[b][k]
      BY <2>2, BackupFacts, AppendProperties, LenProperties
    <3>2. \A k \in DOMAIN applied[b] :
             k \in DOMAIN applied'[b] /\ applied'[b][k] = applied[b][k]
      BY <3>1
    <3> QED BY <3>2 DEF AppliedOn
  <2>3. BackupTurn(b) \/ applied'[b] = applied[b]
    BY OthersAreQuiet DEF Quiet
  <2> QED BY <2>1, <2>2, <2>3, TurnApplies
<1>2. \A i \in Ids : Outdated(b, i) => Outdated(b, i)'
  BY OutdatedStays
<1> QED BY <1>1, <1>2 DEF StaysDone, Done

\* After its turn b is done with what it has read in it.
LEMMA ReadIsDone ==
    ASSUME TypeInv, StampInv, OneEpochPerStamp', [Next]_vars, NEW b \in Backups, Rests(b),
           BackupTurn(b), bconn'[b] = "open", NEW i \in Ids, ReadsOf(b, i)
    PROVE  Done(b, i)'
<1>1. \/ messages[b][i].state = "COMMITTED"
      \/ i \in AppliedOn(b)' \/ Refuses(b)
  BY TurnKeeps
<1>2. messages[b][i].state = "COMMITTED" => i \in AppliedOn(b)
  BY TurnIs DEF Rests
<1>3. i \in AppliedOn(b) => Done(b, i)'
  BY StepDone DEF StaysDone, Done
<1>4. Refuses(b) => Outdated(b, i)'
  BY TurnOutdates
<1> QED BY <1>1, <1>2, <1>3, <1>4 DEF Done

LEMMA InitOnce == Init => OnceInv
<1> SUFFICES ASSUME Init PROVE OnceInv
  OBVIOUS
<1>1. \A s \in Servers, i \in Ids : messages[s][i].state = "ABSENT" /\ messages[s][i].old = FALSE
  BY DEF Init, Absent, NewEntry
<1>2. OldIsSettled
  BY <1>1, ConstantsAssumption DEF OldIsSettled, Backups, Servers
<1>3. ASSUME NEW b \in Backups PROVE AppliesOnce(b)
  <2>1. b \in Servers
    BY ConstantsAssumption DEF Backups, Servers
  <2>2. applied[b] = <<>> /\ AppliedOn(b) = {}
    BY DEF Init, AppliedOn
  <2>3. \A j, k \in DOMAIN applied[b] : FALSE
    BY <2>2
  <2> QED BY <1>1, <2>1, <2>2, <2>3 DEF AppliesOnce
<1> QED BY <1>2, <1>3, InitStamp DEF OnceInv

LEMMA StepOnce ==
    ASSUME Timely
    PROVE  TypeInv /\ RestInv /\ OnceInv /\ [Next]_vars
              /\ OneEpochPerStamp' /\ [EpochsRise]_vars => OnceInv'
<1> SUFFICES ASSUME TypeInv, RestInv, OnceInv, [Next]_vars,
                    OneEpochPerStamp', [EpochsRise]_vars
             PROVE  OnceInv'
  OBVIOUS
<1>b. StampInv /\ StampInv'
  BY EpochsNeverFall, StepStamp DEF OnceInv
<1>1. ASSUME NEW b \in Backups, NEW i \in Ids, messages'[b][i].old
      PROVE  SettledOn(b, i)'
  <2>1. messages[b][i].old \/ Age(b, i)
    BY <1>1, OnlyAgeAges
  <2>2. messages[b][i].old => SettledOn(b, i)
    BY DEF OnceInv, OldIsSettled
  <2> QED BY <1>b, <2>1, <2>2, SettledStays, AgedIsSettled
<1>2. ASSUME NEW b \in Backups PROVE AppliesOnce(b)'
  <2>0. AppliesOnce(b) /\ Rests(b) /\ b \in Servers
    BY BackupFacts DEF OnceInv, RestInv
  <2>1. CASE Quiet(b)
    <3>1. \A i \in Ids : messages'[b][i].state = messages[b][i].state
      <4>1. \A i \in Ids : messages[b][i] \in Entry
        BY BackupFacts
      <4>2. \A e \in Entry : [e EXCEPT !.old = TRUE].state = e.state
        BY DEF Entry
      <4> QED BY <2>1, <4>1, <4>2 DEF Quiet
    <3>2. applied'[b] = applied[b] /\ AppliedOn(b)' = AppliedOn(b)
      BY <2>1 DEF Quiet, AppliedOn
    <3>3. bconn'[b] \in {"never", "open"} => bconn[b] \in {"never", "open"}
      BY <2>0, <2>1 DEF Quiet, Rests
    <3>4. \A i \in Ids : /\ SettledOn(b, i) => SettledOn(b, i)'
                         /\ Outdated(b, i) => Outdated(b, i)'
      BY <1>b, SettledStays, OutdatedStays
    <3> QED BY <2>0, <3>1, <3>2, <3>3, <3>4 DEF AppliesOnce
  <2>2. CASE BackupTurn(b)
    <3>1. \A j, k \in DOMAIN applied'[b] : applied'[b][j] = applied'[b][k] => j = k
      <4>1. CASE applied'[b] = applied[b]
        BY <2>0, <4>1 DEF AppliesOnce
      <4>2. CASE applied'[b] # applied[b]
        <5>1. PICK i \in Ids : /\ bconn[b] = "open" /\ ReadsOf(b, i)
                               /\ messages[b][i].state = "ABSENT"
                               /\ Head(chan[b]).seqn >= rmEpoch[b]
                               /\ applied'[b] = Append(applied[b], i)
          BY <2>0, <2>2, <4>2, TurnApplies
        <5>2. i \notin AppliedOn(b)
          <6>1. InFlight(b, i)
            BY <5>1, HeadIsCopy
          <6>2. ~SettledOn(b, i)
            BY <6>1 DEF SettledOn, MoreCopies
          <6>3. ~Outdated(b, i)
            BY <5>1, HeadOfLaterEpoch
          <6> QED BY <2>0, <5>1, <6>2, <6>3 DEF AppliesOnce
        <5>3. /\ Len(applied[b]) \in Nat /\ DOMAIN applied[b] = 1..Len(applied[b])
              /\ DOMAIN applied'[b] = 1..(Len(applied[b]) + 1)
              /\ applied'[b][Len(applied[b]) + 1] = i
              /\ \A k \in 1..Len(applied[b]) : applied'[b][k] = applied[b][k]
          BY <5>1, BackupFacts, AppendProperties, LenProperties
        <5>4. \A k \in DOMAIN applied[b] : applied[b][k] # i
          BY <5>2 DEF AppliedOn
        <5>5. \A k \in DOMAIN applied'[b] : k \in DOMAIN applied[b] \/ k = Len(applied[b]) + 1
          BY <5>3
        <5>6. \A j, k \in DOMAIN applied[b] : applied[b][j] = applied[b][k] => j = k
          BY <2>0 DEF AppliesOnce
        <5> QED BY <5>3, <5>4, <5>5, <5>6
      <4> QED BY <4>1, <4>2
    <3>2. ASSUME bconn'[b] = "open", NEW i \in Ids, i \in AppliedOn(b)'
          PROVE  \/ messages'[b][i].state = "COMMITTED"
                 \/ SettledOn(b, i)' \/ Outdated(b, i)'
      <4>0. bconn[b] = "open"
        BY <2>2, <3>2, TurnIs
      <4>1. CASE i \in AppliedOn(b)
        <5>1. messages[b][i].state = "COMMITTED" =>
                 \/ messages'[b][i].state = "COMMITTED" \/ messages[b][i].old
                 \/ messages[b][i].seqn < emEpoch[b]
          BY <2>0, <2>2, <3>2, TurnKeeps
        <5>2. messages[b][i].old => SettledOn(b, i)
          BY <2>0 DEF OnceInv, OldIsSettled
        <5>3. ASSUME messages[b][i].state = "COMMITTED", messages[b][i].seqn < emEpoch[b]
              PROVE  Outdated(b, i)'
          BY <1>b, <2>2, <5>3, TurnOutdates
        <5>4. \/ messages[b][i].state = "COMMITTED"
              \/ SettledOn(b, i) \/ Outdated(b, i)
          BY <2>0, <4>0, <4>1 DEF AppliesOnce
        <5> QED BY <1>b, <5>1, <5>2, <5>3, <5>4, SettledStays, OutdatedStays
      <4>2. CASE i \notin AppliedOn(b)
        <5>1. applied'[b] # applied[b]
          BY <3>2, <4>2 DEF AppliedOn
        <5>2. PICK j \in Ids : /\ applied'[b] = Append(applied[b], j)
                               /\ messages'[b][j].state = "COMMITTED"
          BY <2>0, <2>2, <5>1, TurnApplies
        <5>3. /\ DOMAIN applied[b] = 1..Len(applied[b]) /\ Len(applied[b]) \in Nat
              /\ DOMAIN applied'[b] = 1..(Len(applied[b]) + 1)
              /\ applied'[b][Len(applied[b]) + 1] = j
              /\ \A k \in 1..Len(applied[b]) : applied'[b][k] = applied[b][k]
          BY <5>2, BackupFacts, AppendProperties, LenProperties
        <5>4. i = j
          BY <3>2, <4>2, <5>3 DEF AppliedOn
        <5> QED BY <5>2, <5>4
      <4> QED BY <4>1, <4>2
    <3>3. bconn'[b] # "never"
      BY <2>2, TurnIs
    <3> QED BY <3>1, <3>2, <3>3 DEF AppliesOnce
  <2> QED BY <2>0, <2>1, <2>2, OthersAreQuiet
<1> QED BY <1>1, <1>2, <1>b DEF OnceInv, OldIsSettled

LEMMA SpecOnce ==
    ASSUME Timely
    PROVE  Spec /\ [][EpochsRise]_vars /\ []OneEpochPerStamp => []OnceInv
BY InitOnce, StepOnce, SpecTypeInv, SpecRest, PTL DEF Spec

\* In one epoch, epochs rise.
LEMMA OneEpochRises ==
    ASSUME OneEpoch
    PROVE  Spec => [][EpochsRise]_vars /\ []OneEpochPerStamp
<1>1. ASSUME TypeInv PROVE OneEpochPerStamp /\ \A b \in Backups : emEpoch[b] = 0
  <2>1. Epochs = {0}
    BY DEF OneEpoch, Epochs
  <2>2. /\ \A u \in Users : user[u].seqn \in Epochs
        /\ \A b \in Backups : emEpoch[b] \in Epochs
    BY <1>1, BackupFacts DEF TypeInv, TypeOK
  <2> QED BY <2>1, <2>2 DEF OneEpochPerStamp
<1>2. ASSUME TypeInv, TypeInv' PROVE EpochsRise
  <2>1. \A b \in Backups : emEpoch[b] = 0
    BY <1>1, <1>2
  <2>2. \A b \in Backups : emEpoch'[b] = 0
    BY <1>2, BackupFacts, ConstantsAssumption DEF TypeInv, TypeOK, OneEpoch, Epochs,
       Backups, Servers
  <2> QED BY <2>1, <2>2 DEF EpochsRise
<1>3. TypeInv => OneEpochPerStamp
  BY <1>1
<1>4. TypeInv /\ TypeInv' => [EpochsRise]_vars
  BY <1>2
<1> QED BY <1>3, <1>4, SpecTypeInv, PTL

\* A backup applies a command at most once, although the leader sends it
\* again whenever a send of it has failed and whenever its own entry has grown
\* old, be it SENT and its user waiting, and although setEpoch clears the table
\* that remembers what was applied: what a later epoch makes a backup forget,
\* the same epoch makes it refuse.  It needs a backup whose entry does not grow
\* old before the last copy has come, since checkTimeouts forgets what is old
\* (nothing is asked of the leader's entries); whose epoch never falls, since
\* ElectionManager takes over the epoch of any COORDINATOR; and no two commands
\* with one timestamp in two epochs.
THEOREM AppliedOnceAcrossEpochs ==
    ASSUME Timely
    PROVE  Spec /\ [][EpochsRise]_vars /\ []OneEpochPerStamp => []AppliedAtMostOnce
<1>1. ASSUME TypeInv, OnceInv, NEW b \in Backups
      PROVE  Cardinality(AppliedOn(b)) = Len(applied[b])
  <2> DEFINE n == Len(applied[b])
  <2>1. applied[b] \in Seq(Ids) /\ n \in Nat /\ DOMAIN applied[b] = 1..n
        /\ applied[b] \in [1..n -> Ids]
    BY <1>1, BackupFacts, LenProperties
  <2>2. applied[b] \in [1..n -> AppliedOn(b)]
    BY <2>1 DEF AppliedOn
  <2>3. \A j, k \in 1..n : applied[b][j] = applied[b][k] => j = k
    BY <1>1, <2>1 DEF OnceInv, AppliesOnce
  <2>4. \A t \in AppliedOn(b) : \E k \in 1..n : applied[b][k] = t
    BY <2>1 DEF AppliedOn
  <2>5. applied[b] \in Bijection(1..n, AppliedOn(b))
    BY <2>2, <2>3, <2>4, Fun_IsBij
  <2>6. ExistsBijection(1..n, AppliedOn(b))
    BY <2>5 DEF ExistsBijection
  <2>7. IsFiniteSet(1..n) /\ Cardinality(1..n) = n
    BY <2>1, FS_Interval
  <2> QED BY <2>6, <2>7, FS_Bijection
<1>2. TypeInv /\ OnceInv => AppliedAtMostOnce
  BY <1>1 DEF AppliedAtMostOnce
<1> QED BY <1>2, SpecTypeInv, SpecOnce, PTL

\* As long as no other leader is elected, it is so without a word on epochs.
COROLLARY AppliedOnce ==
    ASSUME OneEpoch, Timely
    PROVE  Spec => []AppliedAtMostOnce
BY OneEpochRises, AppliedOnceAcrossEpochs, PTL

-----------------------------------------------------------------------------
(* Every command in the order in which the leader sent it first *)

\* The order grows by a command when the leader takes it for the first time;
\* no variable holds it.
Ordered(ord) ==
    /\ ord \in Seq(Ids)
    /\ \A j, k \in DOMAIN ord : ord[j] = ord[k] => j = k
    /\ cursor # N + 1 => \E r \in DOMAIN ord : ord[r] = sending

\* b applies in this order, and a command only when it is done with those
\* before it.
AppliesInTurn(ord, b) ==
    /\ \A k \in DOMAIN applied[b] : \E s \in DOMAIN ord :
          applied[b][k] = ord[s] /\ \A r \in DOMAIN ord : r < s => Done(b, ord[r])
    /\ \A j, k \in DOMAIN applied[b], r, s \in DOMAIN ord :
          applied[b][j] = ord[r] /\ applied[b][k] = ord[s] /\ j < k => r < s

AppliesPrefix(ord, b) ==
    /\ Len(applied[b]) <= Len(ord)
    /\ \A k \in DOMAIN applied[b] : applied[b][k] = ord[k]

\* A packet on the way follows copies of the commands before its own with
\* which b is not done.
ComesInTurn(ord, b) ==
    \A m \in DOMAIN chan[b] : \E s \in DOMAIN ord :
        /\ chan[b][m].id = ord[s]
        /\ \A r \in DOMAIN ord : r < s =>
              Done(b, ord[r]) \/ \E q \in DOMAIN chan[b] : q < m /\ chan[b][q].id = ord[r]

\* b is done with all that was sent or has it on the way, but for what is
\* being sent for the first time.
GetsAll(ord, b) ==
    \A r \in DOMAIN ord :
        \/ Done(b, ord[r]) \/ InFlight(b, ord[r])
        \/ r = Len(ord) /\ cursor <= b /\ sending = ord[r]

Follows(ord, b) ==
    /\ conn[b] # "never"
    /\ AppliesInTurn(ord, b)
    /\ OneEpoch => AppliesPrefix(ord, b)
    /\ bconn[b] = "open" => ComesInTurn(ord, b)
    /\ bconn[b] = "open" /\ conn[b] = "open" /\ b \in alive => GetsAll(ord, b)

OrderOK(ord) == Ordered(ord) /\ \A b \in Founding : Follows(ord, b)

OrderInv == \E ord \in Seq(Ids) : OrderOK(ord)

LEMMA FoundingBackup ==
    ASSUME NEW b \in Founding
    PROVE  b \in Backups /\ b \in Nat /\ N \in Nat /\ b <= N /\ 1 <= b
BY ConstantsAssumption DEF Founding, Backups

LEMMA InitOrder == Init => OrderInv
<1> SUFFICES ASSUME Init PROVE OrderOK(<<>>)
  BY EmptySeq DEF OrderInv
<1>1. DOMAIN <<>> = {} /\ Len(<<>>) = 0 /\ <<>> \in Seq(Ids)
  BY EmptySeq
<1>2. Ordered(<<>>)
  BY <1>1 DEF Init, Ordered
<1>3. ASSUME NEW b \in Founding PROVE Follows(<<>>, b)
  <2>1. conn[b] # "never" /\ applied[b] = <<>> /\ chan[b] = <<>>
    BY FoundingBackup DEF Init, Founding
  <2>2. AppliesInTurn(<<>>, b) /\ AppliesPrefix(<<>>, b)
    BY <1>1, <2>1 DEF AppliesInTurn, AppliesPrefix
  <2>3. ComesInTurn(<<>>, b) /\ GetsAll(<<>>, b)
    BY <1>1, <2>1 DEF ComesInTurn, GetsAll
  <2> QED BY <2>1, <2>2, <2>3 DEF Follows
<1> QED BY <1>2, <1>3 DEF OrderOK

LEMMA AppliesKept ==
    ASSUME NEW ord \in Seq(Ids), NEW b \in Backups, StaysDone(b), applied'[b] = applied[b]
    PROVE  /\ AppliesInTurn(ord, b) => AppliesInTurn(ord, b)'
           /\ AppliesPrefix(ord, b) => AppliesPrefix(ord, b)'
<1>1. \A r \in DOMAIN ord : ord[r] \in Ids
  BY ElementOfSeq, LenProperties
<1>2. \A r \in DOMAIN ord : Done(b, ord[r]) => Done(b, ord[r])'
  BY <1>1 DEF StaysDone
<1>3. AppliesInTurn(ord, b) => AppliesInTurn(ord, b)'
  <2>1. SUFFICES ASSUME AppliesInTurn(ord, b) PROVE AppliesInTurn(ord, b)'
    OBVIOUS
  <2>2. ASSUME NEW k \in DOMAIN applied[b]
        PROVE  \E s \in DOMAIN ord :
                  applied[b][k] = ord[s] /\ \A r \in DOMAIN ord : r < s => Done(b, ord[r])'
    <3>1. PICK s \in DOMAIN ord :
             applied[b][k] = ord[s] /\ \A r \in DOMAIN ord : r < s => Done(b, ord[r])
      BY <2>1, <2>2 DEF AppliesInTurn
    <3> QED BY <1>2, <3>1
  <2> QED BY <2>1, <2>2 DEF AppliesInTurn
<1> QED BY <1>3 DEF AppliesPrefix

\* A step that brings b nothing and lets it apply nothing.
LEMMA FollowsKept ==
    ASSUME NEW ord \in Seq(Ids), NEW b \in Founding, Follows(ord, b), StaysDone(b),
           applied'[b] = applied[b], chan'[b] = chan[b], conn'[b] # "never",
           bconn'[b] = "open" => bconn[b] = "open",
           conn'[b] = "open" => conn[b] = "open",
           b \in alive' => b \in alive,
           cursor <= b => cursor' <= b /\ sending' = sending
    PROVE  Follows(ord, b)'
<1>0. \A r \in DOMAIN ord : Done(b, ord[r]) => Done(b, ord[r])'
  BY ElementOfSeq, LenProperties DEF StaysDone
<1>1. AppliesInTurn(ord, b)' /\ (OneEpoch => AppliesPrefix(ord, b)')
  BY AppliesKept, FoundingBackup DEF Follows
<1>2. ASSUME ComesInTurn(ord, b), NEW m \in DOMAIN chan[b]
      PROVE  \E s \in DOMAIN ord :
                /\ chan[b][m].id = ord[s]
                /\ \A r \in DOMAIN ord : r < s =>
                     \/ Done(b, ord[r])'
                     \/ \E q \in DOMAIN chan[b] : q < m /\ chan[b][q].id = ord[r]
  <2>1. PICK s \in DOMAIN ord :
           /\ chan[b][m].id = ord[s]
           /\ \A r \in DOMAIN ord : r < s =>
                \/ Done(b, ord[r])
                \/ \E q \in DOMAIN chan[b] : q < m /\ chan[b][q].id = ord[r]
    BY <1>2 DEF ComesInTurn
  <2> QED BY <1>0, <2>1
<1>3. ComesInTurn(ord, b) => ComesInTurn(ord, b)'
  BY <1>2 DEF ComesInTurn
<1>4. ASSUME GetsAll(ord, b), NEW r \in DOMAIN ord
      PROVE  \/ Done(b, ord[r])' \/ InFlight(b, ord[r])'
             \/ r = Len(ord) /\ cursor' <= b /\ sending' = ord[r]
  <2>1. InFlight(b, ord[r]) => InFlight(b, ord[r])'
    BY DEF InFlight
  <2> QED BY <1>0, <1>4, <2>1 DEF GetsAll
<1>5. GetsAll(ord, b) => GetsAll(ord, b)'
  BY <1>4 DEF GetsAll
<1> QED BY <1>1, <1>3, <1>5 DEF Follows

\* A command that is taken for the first time is appended to the order.
LEMMA FollowsLonger ==
    ASSUME NEW ord \in Seq(Ids), NEW i \in Ids, NEW b \in Founding, Follows(ord, b),
           StaysDone(b), \A r \in DOMAIN ord : ord[r] # i,
           ~(cursor <= b), cursor' <= b, sending' = i,
           TypeInv, UNCHANGED <<applied, chan, conn, bconn, alive>>
    PROVE  Follows(Append(ord, i), b)'
<1> DEFINE new == Append(ord, i)
<1>1. /\ Len(ord) \in Nat /\ DOMAIN ord = 1..Len(ord)
      /\ Len(new) = Len(ord) + 1 /\ DOMAIN new = 1..(Len(ord) + 1)
      /\ new[Len(ord) + 1] = i
      /\ \A k \in 1..Len(ord) : new[k] = ord[k]
  BY AppendProperties, LenProperties
<1> HIDE DEF new
<1>a. /\ Len(applied[b]) \in Nat /\ DOMAIN applied[b] = 1..Len(applied[b])
      /\ UNCHANGED <<applied[b], chan[b]>>
  BY FoundingBackup, BackupFacts, LenProperties
<1>b. \A r \in DOMAIN ord : Done(b, ord[r]) => Done(b, ord[r])'
  BY ElementOfSeq, LenProperties DEF StaysDone
\* Before a place of the old order, both orders are one.
<1>c. ASSUME NEW s \in DOMAIN ord, NEW r \in DOMAIN new, r < s
      PROVE  r \in DOMAIN ord /\ new[r] = ord[r]
  BY <1>1, <1>c
<1>d. \A s \in DOMAIN ord : s \in DOMAIN new /\ new[s] = ord[s]
  BY <1>1
<1>2. ASSUME NEW k \in DOMAIN applied[b]
      PROVE  \E s \in DOMAIN new : /\ applied[b][k] = new[s]
                                   /\ \A r \in DOMAIN new : r < s => Done(b, new[r])'
  <2>1. PICK s \in DOMAIN ord :
           applied[b][k] = ord[s] /\ \A r \in DOMAIN ord : r < s => Done(b, ord[r])
    BY <1>2 DEF Follows, AppliesInTurn
  <2>2. \A r \in DOMAIN new : r < s => Done(b, new[r])'
    BY <1>b, <1>c, <2>1
  <2> QED BY <1>d, <2>1, <2>2
<1>3. ASSUME NEW j \in DOMAIN applied[b], NEW k \in DOMAIN applied[b],
             NEW r \in DOMAIN new, NEW s \in DOMAIN new,
             applied[b][j] = new[r], applied[b][k] = new[s], j < k
      PROVE  r < s
  <2>1. applied[b][j] # i /\ applied[b][k] # i
    BY DEF Follows, AppliesInTurn
  <2>2. \A t \in DOMAIN new : new[t] # i => t \in DOMAIN ord /\ new[t] = ord[t]
    BY <1>1
  <2> QED BY <1>3, <2>1, <2>2 DEF Follows, AppliesInTurn
<1>4. AppliesInTurn(new, b)'
  BY <1>a, <1>2, <1>3 DEF AppliesInTurn
<1>5. OneEpoch => AppliesPrefix(new, b)'
  BY <1>1, <1>a DEF Follows, AppliesPrefix
<1>6. ASSUME ComesInTurn(ord, b), NEW m \in DOMAIN chan[b]
      PROVE  \E s \in DOMAIN new :
                /\ chan[b][m].id = new[s]
                /\ \A r \in DOMAIN new : r < s =>
                     \/ Done(b, new[r])'
                     \/ \E q \in DOMAIN chan[b] : q < m /\ chan[b][q].id = new[r]
  <2>1. PICK s \in DOMAIN ord :
           /\ chan[b][m].id = ord[s]
           /\ \A r \in DOMAIN ord : r < s =>
                \/ Done(b, ord[r])
                \/ \E q \in DOMAIN chan[b] : q < m /\ chan[b][q].id = ord[r]
    BY <1>6 DEF ComesInTurn
  <2>2. \A r \in DOMAIN new : r < s =>
           \/ Done(b, new[r])'
           \/ \E q \in DOMAIN chan[b] : q < m /\ chan[b][q].id = new[r]
    BY <1>b, <1>c, <2>1
  <2> QED BY <1>d, <2>1, <2>2
<1>7. ComesInTurn(ord, b) => ComesInTurn(new, b)'
  BY <1>a, <1>6 DEF ComesInTurn
<1>8. ASSUME GetsAll(ord, b), NEW r \in DOMAIN new
      PROVE  \/ Done(b, new[r])' \/ InFlight(b, new[r])'
             \/ r = Len(new) /\ cursor' <= b /\ sending' = new[r]
  <2>1. CASE r = Len(ord) + 1
    BY <1>1, <2>1
  <2>2. CASE r \in 1..Len(ord)
    <3>1. (Done(b, ord[r]) \/ InFlight(b, ord[r])) /\ new[r] = ord[r] /\ r \in DOMAIN ord
      BY <1>1, <1>8, <2>2 DEF GetsAll
    <3>2. InFlight(b, ord[r]) => InFlight(b, ord[r])'
      BY DEF InFlight
    <3> QED BY <1>b, <3>1, <3>2
  <2> QED BY <1>1, <2>1, <2>2
<1>9. GetsAll(ord, b) => GetsAll(new, b)'
  BY <1>8 DEF GetsAll
<1> QED BY <1>4, <1>5, <1>7, <1>9 DEF Follows, new

LEMMA SendFollows ==
    ASSUME TypeInv, NEW ord, Ordered(ord), NEW b \in Founding, Follows(ord, b),
           StaysDone(b), LeaderSend(b)
    PROVE  Follows(ord, b)'
<1> DEFINE p == [id |-> sending, seqn |-> messages[Leader][sending].seqn]
<1>0. /\ b \in Backups /\ b \in Nat /\ cursor = b /\ cursor # N + 1 /\ cursor' = b + 1
      /\ UNCHANGED <<applied, alive, bconn, sending>>
      /\ conn \in [Backups -> {"never", "open", "broken", "closed"}]
      /\ chan \in [Backups -> Seq(Packet)]
  BY FoundingBackup, BackupFacts DEF LeaderSend, TypeInv, TypeOK
<1>1. PICK s \in DOMAIN ord : ord[s] = sending
  BY <1>0 DEF Ordered
<1>2. /\ Len(ord) \in Nat /\ DOMAIN ord = 1..Len(ord) /\ s \in Nat /\ sending \in Ids
      /\ Len(chan[b]) \in Nat /\ DOMAIN chan[b] = 1..Len(chan[b])
  BY <1>0, <1>1, BackupFacts, LenProperties DEF Ordered, TypeInv
<1>a. AppliesInTurn(ord, b)' /\ (OneEpoch => AppliesPrefix(ord, b)')
  <2>1. ord \in Seq(Ids) /\ applied'[b] = applied[b]
    BY <1>0 DEF Ordered
  <2> QED BY <1>0, <2>1, AppliesKept DEF Follows
<1>b. \A r \in DOMAIN ord : Done(b, ord[r]) => Done(b, ord[r])'
  BY ElementOfSeq, LenProperties DEF StaysDone, Ordered
<1>3. CASE conn[b] = "open" /\ ~BackupGone(b) /\ chan' = [chan EXCEPT ![b] = Append(@, p)]
           /\ UNCHANGED conn
  <2>1. b \in alive
    BY <1>3 DEF BackupGone
  <2>2. p \in Packet /\ p.id = sending
    <3>1. messages \in [Servers -> [Ids -> Entry]] /\ Leader \in Servers
      BY <1>0, BackupFacts DEF TypeInv, TypeOK
    <3>2. messages[Leader][sending] \in Entry
      BY <1>2, <3>1
    <3> QED BY <1>2, <3>2 DEF Packet, Entry
  <2> HIDE DEF p
  <2>3. /\ chan'[b] = Append(chan[b], p)
        /\ DOMAIN chan'[b] = 1..(Len(chan[b]) + 1)
        /\ chan'[b][Len(chan[b]) + 1] = p
        /\ \A k \in 1..Len(chan[b]) : chan'[b][k] = chan[b][k]
    BY <1>0, <1>3, <2>2, AppendProperties, LenProperties
  <2>4. \A q \in DOMAIN chan[b] :
           q \in DOMAIN chan'[b] /\ chan'[b][q] = chan[b][q] /\ q < Len(chan[b]) + 1
    BY <1>2, <2>3
  <2>5. ASSUME bconn[b] = "open", NEW m \in DOMAIN chan'[b]
        PROVE  \E t \in DOMAIN ord :
                  /\ chan'[b][m].id = ord[t]
                  /\ \A r \in DOMAIN ord : r < t =>
                       \/ Done(b, ord[r])'
                       \/ \E q \in DOMAIN chan'[b] : q < m /\ chan'[b][q].id = ord[r]
    <3>0. ComesInTurn(ord, b) /\ GetsAll(ord, b)
      BY <1>3, <2>1, <2>5 DEF Follows
    <3>1. CASE m \in 1..Len(chan[b])
      <4>1. PICK t \in DOMAIN ord :
               /\ chan[b][m].id = ord[t]
               /\ \A r \in DOMAIN ord : r < t =>
                    \/ Done(b, ord[r])
                    \/ \E q \in DOMAIN chan[b] : q < m /\ chan[b][q].id = ord[r]
        BY <1>2, <3>0, <3>1 DEF ComesInTurn
      <4>2. chan'[b][m] = chan[b][m]
        BY <2>3, <3>1
      <4> QED BY <1>b, <2>4, <4>1, <4>2
    <3>2. CASE m = Len(chan[b]) + 1
      <4>1. chan'[b][m].id = ord[s]
        BY <1>1, <2>2, <2>3, <3>2
      <4>2. ASSUME NEW r \in DOMAIN ord, r < s
            PROVE  \/ Done(b, ord[r])'
                   \/ \E q \in DOMAIN chan'[b] : q < m /\ chan'[b][q].id = ord[r]
        <5>1. r # Len(ord)
          BY <1>2, <4>2
        <5>2. Done(b, ord[r]) \/ InFlight(b, ord[r])
          BY <3>0, <5>1 DEF GetsAll
        <5> QED BY <1>b, <2>4, <3>2, <5>2 DEF InFlight
      <4> QED BY <4>1, <4>2
    <3>3. m \in 1..Len(chan[b]) \/ m = Len(chan[b]) + 1
      BY <1>2, <2>3, <2>5
    <3> QED BY <3>1, <3>2, <3>3
  <2>6. bconn'[b] = "open" => ComesInTurn(ord, b)'
    BY <1>0, <2>5 DEF ComesInTurn
  <2>7. ASSUME bconn[b] = "open", NEW r \in DOMAIN ord
        PROVE  Done(b, ord[r])' \/ InFlight(b, ord[r])'
    <3>1. Done(b, ord[r]) \/ InFlight(b, ord[r]) \/ ord[r] = sending
      BY <1>3, <2>1, <2>7 DEF Follows, GetsAll
    <3>2. InFlight(b, ord[r]) => InFlight(b, ord[r])'
      BY <2>4 DEF InFlight
    <3>3. ord[r] = sending => InFlight(b, ord[r])'
      <4>1. Len(chan[b]) + 1 \in DOMAIN chan'[b] /\ chan'[b][Len(chan[b]) + 1].id = sending
        BY <1>2, <2>2, <2>3
      <4> QED BY <4>1 DEF InFlight
    <3> QED BY <1>b, <3>1, <3>2, <3>3
  <2>8. bconn'[b] = "open" => GetsAll(ord, b)'
    BY <1>0, <2>7 DEF GetsAll
  <2> QED BY <1>3, <1>a, <2>6, <2>8 DEF Follows
<1>4. CASE UNCHANGED chan /\ ~(bconn[b] = "open" /\ conn'[b] = "open" /\ b \in alive)
           /\ conn'[b] # "never"
  <2>1. ASSUME ComesInTurn(ord, b), NEW m \in DOMAIN chan[b]
        PROVE  \E t \in DOMAIN ord :
                  /\ chan[b][m].id = ord[t]
                  /\ \A r \in DOMAIN ord : r < t =>
                       \/ Done(b, ord[r])'
                       \/ \E q \in DOMAIN chan[b] : q < m /\ chan[b][q].id = ord[r]
    <3>1. PICK t \in DOMAIN ord :
             /\ chan[b][m].id = ord[t]
             /\ \A r \in DOMAIN ord : r < t =>
                  \/ Done(b, ord[r])
                  \/ \E q \in DOMAIN chan[b] : q < m /\ chan[b][q].id = ord[r]
      BY <2>1 DEF ComesInTurn
    <3> QED BY <1>b, <3>1
  <2>2. ComesInTurn(ord, b) => ComesInTurn(ord, b)'
    BY <1>4, <2>1 DEF ComesInTurn
  <2> QED BY <1>0, <1>4, <1>a, <2>2 DEF Follows
<1>5. \/ conn[b] = "open" /\ ~BackupGone(b) /\ chan' = [chan EXCEPT ![b] = Append(@, p)]
         /\ UNCHANGED conn
      \/ UNCHANGED chan /\ ~(bconn[b] = "open" /\ conn'[b] = "open" /\ b \in alive)
         /\ conn'[b] # "never"
  <2>1. \/ conn[b] = "open" /\ ~BackupGone(b) /\ chan' = [chan EXCEPT ![b] = Append(@, p)]
           /\ UNCHANGED conn
        \/ conn[b] = "open" /\ BackupGone(b) /\ UNCHANGED <<chan, conn>>
        \/ /\ conn[b] = "open" => BackupGone(b)
           /\ conn' = [conn EXCEPT ![b] = IF @ = "open" THEN "broken" ELSE @]
           /\ UNCHANGED chan
    BY DEF LeaderSend
  <2>2. BackupGone(b) => ~(bconn[b] = "open" /\ b \in alive)
    BY DEF BackupGone
  <2>3. conn[b] # "never"
    BY DEF Follows
  <2> QED BY <1>0, <2>1, <2>2, <2>3
<1> QED BY <1>3, <1>4, <1>5

LEMMA TurnFollows ==
    ASSUME TypeInv, StampInv, OneEpochPerStamp', [Next]_vars, NEW ord, Ordered(ord),
           NEW b \in Founding, Rests(b), AppliesOnce(b), Follows(ord, b), StaysDone(b),
           BackupTurn(b)
    PROVE  Follows(ord, b)'
<1>0. /\ b \in Backups /\ b \in Nat
      /\ chan[b] \in Seq(Packet) /\ applied[b] \in Seq(Ids)
  BY FoundingBackup, BackupFacts
<1>1. /\ Len(ord) \in Nat /\ DOMAIN ord = 1..Len(ord)
      /\ Len(applied[b]) \in Nat /\ DOMAIN applied[b] = 1..Len(applied[b])
      /\ Len(chan[b]) \in Nat /\ DOMAIN chan[b] = 1..Len(chan[b])
      /\ ord \in Seq(Ids)
  BY <1>0, LenProperties DEF Ordered
<1>2. /\ UNCHANGED <<alive, conn, cursor, sending>>
      /\ bconn[b] \in {"open", "broken"} /\ bconn'[b] \in {"open", "broken"}
      /\ bconn'[b] = "open" => bconn[b] = "open"
      /\ chan'[b] = IF chan[b] = <<>> THEN <<>> ELSE Tail(chan[b])
  <2>1. UNCHANGED <<alive, conn, cursor, sending>> /\ bconn[b] \in {"open", "broken"}
    BY DEF BackupTurn, leaderVars
  <2>2. /\ bconn'[b] \in {"open", "broken"}
        /\ bconn'[b] = "open" => bconn[b] = "open"
    BY <1>0, TurnIs
  <2>3. chan' = [chan EXCEPT ![b] = IF @ = <<>> THEN @ ELSE Tail(@)]
        /\ chan \in [Backups -> Seq(Packet)]
    BY DEF BackupTurn, TypeInv, TypeOK
  <2>4. chan'[b] = IF chan[b] = <<>> THEN <<>> ELSE Tail(chan[b])
    BY <1>0, <2>3
  <2> QED BY <2>1, <2>2, <2>4
<1>a. \A r \in DOMAIN ord : ord[r] \in Ids /\ (Done(b, ord[r]) => Done(b, ord[r])')
  BY <1>1, ElementOfSeq DEF StaysDone
\* b is done with what comes before the packet that is read.
<1>3. ASSUME bconn[b] = "open", NEW i \in Ids, ReadsOf(b, i)
      PROVE  \E s \in DOMAIN ord :
                i = ord[s] /\ \A r \in DOMAIN ord : r < s => Done(b, ord[r])
  <2>1. 1 \in DOMAIN chan[b] /\ chan[b][1].id = i
    BY <1>0, <1>1, <1>3, HeadTailProperties, EmptySeq DEF ReadsOf
  <2>2. PICK s \in DOMAIN ord :
           /\ chan[b][1].id = ord[s]
           /\ \A r \in DOMAIN ord : r < s =>
                \/ Done(b, ord[r])
                \/ \E q \in DOMAIN chan[b] : q < 1 /\ chan[b][q].id = ord[r]
    BY <1>3, <2>1 DEF Follows, ComesInTurn
  <2>3. \A q \in DOMAIN chan[b] : ~(q < 1)
    BY <1>1
  <2> QED BY <2>1, <2>2, <2>3
<1>4. AppliesInTurn(ord, b)' /\ (OneEpoch => AppliesPrefix(ord, b)')
  <2>1. CASE applied'[b] = applied[b]
    BY <1>0, <1>1, <2>1, AppliesKept DEF Follows
  <2>2. CASE applied'[b] # applied[b]
    <3>1. PICK i \in Ids : /\ bconn[b] = "open" /\ ReadsOf(b, i)
                           /\ messages[b][i].state = "ABSENT"
                           /\ Head(chan[b]).seqn >= rmEpoch[b]
                           /\ applied'[b] = Append(applied[b], i)
      BY <1>0, <2>2, TurnApplies
    <3>2. PICK s \in DOMAIN ord :
             i = ord[s] /\ \A r \in DOMAIN ord : r < s => Done(b, ord[r])
      BY <1>3, <3>1
    <3>3. ~Done(b, i)
      <4>1. ~Outdated(b, i)
        BY <1>0, <3>1, HeadOfLaterEpoch
      <4>2. ~SettledOn(b, i)
        <5>1. InFlight(b, i)
          BY <1>0, <3>1, HeadIsCopy
        <5> QED BY <5>1 DEF SettledOn, MoreCopies
      <4> QED BY <3>1, <4>1, <4>2 DEF AppliesOnce, Done
    <3>4. \A k \in DOMAIN applied[b] : applied[b][k] # i
      BY <3>3 DEF Done, AppliedOn
    <3>5. /\ Len(applied'[b]) = Len(applied[b]) + 1
          /\ DOMAIN applied'[b] = 1..(Len(applied[b]) + 1)
          /\ applied'[b][Len(applied[b]) + 1] = i
          /\ \A k \in 1..Len(applied[b]) : applied'[b][k] = applied[b][k]
      BY <1>0, <3>1, AppendProperties, LenProperties
    <3>6. \A k \in DOMAIN applied'[b] : \/ k \in DOMAIN applied[b] /\ applied'[b][k] = applied[b][k]
                                        \/ k = Len(applied[b]) + 1 /\ applied'[b][k] = i
      BY <1>1, <3>5
    <3>7. ASSUME NEW k \in DOMAIN applied'[b]
          PROVE  \E t \in DOMAIN ord :
                    applied'[b][k] = ord[t] /\ \A r \in DOMAIN ord : r < t => Done(b, ord[r])'
      <4>1. CASE k \in DOMAIN applied[b] /\ applied'[b][k] = applied[b][k]
        <5>1. PICK t \in DOMAIN ord :
                 applied[b][k] = ord[t] /\ \A r \in DOMAIN ord : r < t => Done(b, ord[r])
          BY <4>1 DEF Follows, AppliesInTurn
        <5> QED BY <1>a, <4>1, <5>1
      <4>2. CASE applied'[b][k] = i
        BY <1>a, <3>2, <4>2
      <4> QED BY <3>6, <4>1, <4>2
    \* What was applied comes before i, or b would be done with i.
    <3>8. ASSUME NEW j \in DOMAIN applied[b], NEW r \in DOMAIN ord, applied[b][j] = ord[r]
          PROVE  r < s
      <4>1. PICK t \in DOMAIN ord :
               applied[b][j] = ord[t] /\ \A q \in DOMAIN ord : q < t => Done(b, ord[q])
        BY DEF Follows, AppliesInTurn
      <4>2. t = r
        BY <3>8, <4>1 DEF Ordered
      <4>3. ~(s < r)
        BY <3>2, <3>3, <4>1, <4>2
      <4>4. r # s
        BY <3>2, <3>4, <3>8
      <4> QED BY <1>1, <4>3, <4>4
    <3>9. ASSUME NEW j \in DOMAIN applied'[b], NEW k \in DOMAIN applied'[b],
                 NEW r \in DOMAIN ord, NEW t \in DOMAIN ord,
                 applied'[b][j] = ord[r], applied'[b][k] = ord[t], j < k
          PROVE  r < t
      <4>0. j \in 1..(Len(applied[b]) + 1) /\ k \in 1..(Len(applied[b]) + 1)
        BY <3>5, <3>9
      <4>1. j \in DOMAIN applied[b] /\ applied'[b][j] = applied[b][j]
        <5>1. j \in 1..Len(applied[b])
          BY <1>1, <3>9, <4>0
        <5> QED BY <1>1, <3>5, <5>1
      <4>2. CASE k \in DOMAIN applied[b] /\ applied'[b][k] = applied[b][k]
        BY <3>9, <4>1, <4>2 DEF Follows, AppliesInTurn
      <4>3. CASE applied'[b][k] = i
        <5>1. t = s
          BY <3>2, <3>9, <4>3 DEF Ordered
        <5> QED BY <3>8, <3>9, <4>1, <5>1
      <4> QED BY <3>6, <4>2, <4>3
    <3>10. ASSUME OneEpoch PROVE AppliesPrefix(ord, b)'
      <4>1. AppliesPrefix(ord, b)
        BY <3>10 DEF Follows
      <4>2. s \notin DOMAIN applied[b]
        BY <3>2, <3>4, <4>1 DEF AppliesPrefix
      <4>3. ~(Len(applied[b]) + 1 < s)
        <5>1. SUFFICES ASSUME Len(applied[b]) + 1 < s PROVE FALSE
          OBVIOUS
        <5>2. Len(applied[b]) + 1 \in DOMAIN ord
          BY <1>1, <5>1
        <5>3. Done(b, ord[Len(applied[b]) + 1])
          BY <3>2, <5>1, <5>2
        <5>4. rmEpoch[b] = 0
          BY <1>0, <3>10, BackupFacts DEF OneEpoch, Epochs
        <5>5. PICK k \in DOMAIN applied[b] : applied[b][k] = ord[Len(applied[b]) + 1]
          BY <5>3, <5>4 DEF Done, Outdated, AppliedOn
        <5>6. k \in DOMAIN ord /\ ord[k] = ord[Len(applied[b]) + 1]
          BY <1>1, <4>1, <5>5 DEF AppliesPrefix
        <5>7. k = Len(applied[b]) + 1
          BY <5>2, <5>6 DEF Ordered
        <5> QED BY <1>1, <5>5, <5>7
      <4>4. s = Len(applied[b]) + 1
        BY <1>1, <4>2, <4>3
      <4>5. Len(applied'[b]) <= Len(ord)
        BY <1>1, <3>5, <4>4
      <4>6. \A k \in DOMAIN applied'[b] : applied'[b][k] = ord[k]
        BY <3>2, <3>6, <4>1, <4>4 DEF AppliesPrefix
      <4> QED BY <4>5, <4>6 DEF AppliesPrefix
    <3>11. AppliesInTurn(ord, b)'
      BY <3>7, <3>9 DEF AppliesInTurn
    <3> QED BY <3>10, <3>11
  <2> QED BY <2>1, <2>2
<1>5. ASSUME bconn'[b] = "open", NEW i \in Ids, ReadsOf(b, i)
      PROVE  Done(b, i)'
  BY <1>0, <1>5, ReadIsDone
<1>8. ASSUME chan[b] # <<>>
      PROVE  /\ DOMAIN chan'[b] = 1..(Len(chan[b]) - 1) /\ Len(chan[b]) >= 1
             /\ \A k \in DOMAIN chan'[b] : k + 1 \in DOMAIN chan[b] /\ chan'[b][k] = chan[b][k + 1]
             /\ \A k \in DOMAIN chan[b] : k # 1 => /\ k - 1 \in DOMAIN chan'[b]
                                                   /\ chan'[b][k - 1] = chan[b][k]
             /\ \A i : chan[b][1].id = i => ReadsOf(b, i)
  <2>1. /\ Len(Tail(chan[b])) = Len(chan[b]) - 1 /\ Tail(chan[b]) \in Seq(Packet)
        /\ \A k \in 1..Len(Tail(chan[b])) : Tail(chan[b])[k] = chan[b][k + 1]
        /\ Head(chan[b]) = chan[b][1]
    BY <1>0, <1>8, HeadTailProperties
  <2>2. Len(chan[b]) >= 1
    BY <1>0, <1>1, <1>8, EmptySeq
  <2>3. DOMAIN Tail(chan[b]) = 1..(Len(chan[b]) - 1)
    BY <2>1, LenProperties
  <2>4. \A i : chan[b][1].id = i => ReadsOf(b, i)
    BY <1>8, <2>1 DEF ReadsOf
  <2>5. \A k \in DOMAIN Tail(chan[b]) :
           k + 1 \in DOMAIN chan[b] /\ Tail(chan[b])[k] = chan[b][k + 1]
    BY <1>1, <2>1, <2>2, <2>3
  <2>6. \A k \in DOMAIN chan[b] : k # 1 =>
           k - 1 \in DOMAIN Tail(chan[b]) /\ Tail(chan[b])[k - 1] = chan[b][k]
    <3>1. \A k \in 1..Len(chan[b]) : k # 1 => k - 1 \in 1..(Len(chan[b]) - 1) /\ (k - 1) + 1 = k
      BY <1>1
    <3> QED BY <1>1, <2>1, <2>3, <3>1
  <2> QED BY <1>2, <1>8, <2>2, <2>3, <2>4, <2>5, <2>6
<1>9. ASSUME bconn'[b] = "open", NEW m \in DOMAIN chan'[b]
      PROVE  \E s \in DOMAIN ord :
                /\ chan'[b][m].id = ord[s]
                /\ \A r \in DOMAIN ord : r < s =>
                     \/ Done(b, ord[r])'
                     \/ \E q \in DOMAIN chan'[b] : q < m /\ chan'[b][q].id = ord[r]
  <2>1. chan[b] # <<>>
    BY <1>2, <1>9
  <2>2. m + 1 \in DOMAIN chan[b] /\ chan'[b][m] = chan[b][m + 1] /\ m \in Nat
    BY <1>1, <1>8, <1>9, <2>1
  <2>3. PICK s \in DOMAIN ord :
           /\ chan[b][m + 1].id = ord[s]
           /\ \A r \in DOMAIN ord : r < s =>
                \/ Done(b, ord[r])
                \/ \E q \in DOMAIN chan[b] : q < m + 1 /\ chan[b][q].id = ord[r]
    BY <1>2, <1>9, <2>2 DEF Follows, ComesInTurn
  <2>4. ASSUME NEW r \in DOMAIN ord, NEW q \in DOMAIN chan[b], q < m + 1, chan[b][q].id = ord[r]
        PROVE  Done(b, ord[r])' \/ \E t \in DOMAIN chan'[b] : t < m /\ chan'[b][t].id = ord[r]
    <3>1. CASE q = 1
      <4>1. ReadsOf(b, ord[r])
        BY <1>8, <2>1, <2>4, <3>1
      <4> QED BY <1>5, <1>9, <1>a, <4>1
    <3>2. CASE q # 1
      <4>1. q - 1 \in DOMAIN chan'[b] /\ chan'[b][q - 1].id = ord[r]
        BY <1>8, <2>1, <2>4, <3>2
      <4>2. q - 1 < m
        BY <1>1, <2>2, <2>4
      <4> QED BY <4>1, <4>2
    <3> QED BY <3>1, <3>2
  <2>5. \A r \in DOMAIN ord : r < s =>
           \/ Done(b, ord[r])'
           \/ \E q \in DOMAIN chan'[b] : q < m /\ chan'[b][q].id = ord[r]
    BY <1>a, <2>3, <2>4
  <2> QED BY <2>2, <2>3, <2>5
<1>10. bconn'[b] = "open" => ComesInTurn(ord, b)'
  BY <1>9 DEF ComesInTurn
<1>11. ASSUME bconn'[b] = "open", NEW r \in DOMAIN ord, InFlight(b, ord[r])
       PROVE  Done(b, ord[r])' \/ InFlight(b, ord[r])'
  <2>1. PICK k \in DOMAIN chan[b] : chan[b][k].id = ord[r]
    BY <1>11 DEF InFlight
  <2>2. chan[b] # <<>>
    BY <2>1
  <2>3. CASE k = 1
    <3>1. ReadsOf(b, ord[r])
      BY <1>8, <2>1, <2>2, <2>3
    <3> QED BY <1>5, <1>11, <1>a, <3>1
  <2>4. CASE k # 1
    <3>1. k - 1 \in DOMAIN chan'[b] /\ chan'[b][k - 1].id = ord[r]
      BY <1>8, <2>1, <2>2, <2>4
    <3> QED BY <3>1 DEF InFlight
  <2> QED BY <2>3, <2>4
<1>12. bconn'[b] = "open" /\ conn'[b] = "open" /\ b \in alive' => GetsAll(ord, b)'
  <2>1. SUFFICES ASSUME bconn'[b] = "open", conn'[b] = "open", b \in alive',
                        NEW r \in DOMAIN ord
                 PROVE  \/ Done(b, ord[r])' \/ InFlight(b, ord[r])'
                        \/ r = Len(ord) /\ cursor' <= b /\ sending' = ord[r]
    BY DEF GetsAll
  <2>2. \/ Done(b, ord[r]) \/ InFlight(b, ord[r])
        \/ r = Len(ord) /\ cursor <= b /\ sending = ord[r]
    BY <1>2, <2>1 DEF Follows, GetsAll
  <2> QED BY <1>2, <1>11, <1>a, <2>1, <2>2
<1>13. conn'[b] # "never"
  BY <1>2 DEF Follows
<1> QED BY <1>4, <1>10, <1>12, <1>13 DEF Follows

LEMMA OtherFollows ==
    ASSUME TypeInv, NEW ord \in Seq(Ids), NEW b \in Founding, Rests(b), Follows(ord, b),
           StaysDone(b), [Next]_vars, ~LeaderNextToSend, ~LeaderSend(b), ~BackupTurn(b)
    PROVE  Follows(ord, b)'
<1>0. /\ b \in Backups /\ b \in Nat /\ N \in Nat /\ b <= N /\ Quiet(b)
      /\ conn[b] # "never" /\ cursor \in Nat
      /\ conn \in [Backups -> {"never", "open", "broken", "closed"}]
  BY FoundingBackup, OthersAreQuiet, ConstantsAssumption DEF Follows, TypeInv, TypeOK
<1>1. applied'[b] = applied[b] /\ chan'[b] = chan[b]
  BY <1>0, ChanChanges DEF Quiet
<1>2. conn'[b] # "never" /\ (bconn'[b] = "open" => bconn[b] = "open")
  BY <1>0 DEF Quiet
<1>3. /\ conn'[b] = "open" => conn[b] = "open"
      /\ b \in alive' => b \in alive
      /\ cursor <= b => cursor' <= b /\ sending' = sending
  <2>1. CASE LeaderReceive
    BY <1>0, <2>1 DEF LeaderReceive, Joins
  <2>2. CASE LeaderManage \/ LeaderCheckSent
    BY <2>2 DEF LeaderManage, LeaderCheckSent, netVars
  <2>3. CASE LeaderCheckTimeouts
    BY <1>0, <2>3 DEF LeaderCheckTimeouts, netVars
  <2>4. ASSUME NEW c \in Backups, c # b, LeaderSend(c)
        PROVE  /\ conn'[b] = "open" => conn[b] = "open"
               /\ b \in alive' => b \in alive
               /\ cursor <= b => cursor' <= b /\ sending' = sending
    <3>1. cursor = c /\ cursor' = cursor + 1 /\ UNCHANGED <<alive, sending>>
      BY <2>4 DEF LeaderSend
    <3>2. conn'[b] = conn[b]
      BY <1>0, <2>4 DEF LeaderSend
    <3> QED BY <1>0, <2>4, <3>1, <3>2
  <2>5. CASE \E u \in Users : Request(u) \/ NewReplication(u) \/ Poll(u)
    BY <2>5 DEF Request, NewReplication, Poll, netVars, leaderVars
  <2>6. CASE \E c \in Backups : BackupTurn(c) \/ BackupLoses(c)
    BY <2>6 DEF BackupTurn, BackupLoses, leaderVars
  <2>7. CASE \E s \in Servers : Crash(s) \/ NewEpoch(s)
    BY <2>7 DEF Crash, NewEpoch, netVars, leaderVars
  <2>8. CASE (\E s \in Servers, i \in Ids : Age(s, i)) \/ UNCHANGED vars
    BY <2>8 DEF Age, vars, netVars, leaderVars
  <2> QED BY <2>1, <2>2, <2>3, <2>4, <2>5, <2>6, <2>7, <2>8 DEF Next, LeaderStep
<1> QED BY <1>1, <1>2, <1>3, FollowsKept

LEMMA OrderedKept ==
    ASSUME TypeInv, NEW ord, Ordered(ord), [Next]_vars, ~LeaderNextToSend
    PROVE  Ordered(ord)'
<1>1. \/ UNCHANGED <<cursor, sending>>
      \/ UNCHANGED sending /\ cursor # N + 1
      \/ cursor' = N + 1
  <2>1. CASE LeaderReceive \/ LeaderManage \/ LeaderCheckSent
    BY <2>1 DEF LeaderReceive, LeaderManage, LeaderCheckSent
  <2>2. CASE LeaderCheckTimeouts
    BY <2>2 DEF LeaderCheckTimeouts
  <2>3. ASSUME NEW c \in Backups, LeaderSend(c)
        PROVE  UNCHANGED sending /\ cursor # N + 1
    BY <2>3, ConstantsAssumption DEF LeaderSend, Backups
  <2>5. CASE \E u \in Users : Request(u) \/ NewReplication(u) \/ Poll(u)
    BY <2>5 DEF Request, NewReplication, Poll, leaderVars
  <2>6. CASE \E c \in Backups : BackupTurn(c) \/ BackupLoses(c)
    BY <2>6 DEF BackupTurn, BackupLoses, leaderVars
  <2>7. CASE \E s \in Servers : Crash(s) \/ NewEpoch(s)
    BY <2>7 DEF Crash, NewEpoch, leaderVars
  <2>8. CASE (\E s \in Servers, i \in Ids : Age(s, i)) \/ UNCHANGED vars
    BY <2>8 DEF Age, vars, leaderVars
  <2> QED BY <2>1, <2>2, <2>3, <2>5, <2>6, <2>7, <2>8 DEF Next, LeaderStep
<1> QED BY <1>1 DEF Ordered

LEMMA NextToSendOrder ==
    ASSUME TypeInv, NEW ord \in Seq(Ids), OrderOK(ord),
           \A b \in Founding : StaysDone(b), LeaderNextToSend
    PROVE  OrderInv'
<1>0. /\ cursor = N + 1 /\ cursor' = 1 /\ sending' \in Ids /\ sending' \in ToSend
      /\ UNCHANGED <<applied, chan, conn, bconn, alive>>
  BY DEF LeaderNextToSend, netVars, ToSend
<1>1. \A b \in Founding : b \in Nat /\ ~(cursor <= b) /\ cursor' <= b
  BY <1>0, FoundingBackup
<1>2. CASE \E r \in DOMAIN ord : ord[r] = sending'
  <2>1. Ordered(ord)'
    BY <1>2 DEF OrderOK, Ordered
  <2>2. ASSUME NEW b \in Founding PROVE Follows(ord, b)'
    BY <1>0, <1>1, FollowsKept DEF OrderOK, Follows
  <2>3. OrderOK(ord)'
    BY <2>1, <2>2 DEF OrderOK
  <2> QED BY <2>3 DEF OrderInv
<1>3. CASE \A r \in DOMAIN ord : ord[r] # sending'
  <2>0. PICK i \in Ids : i = sending'
    BY <1>0
  <2> DEFINE new == Append(ord, i)
  <2>1. /\ Len(ord) \in Nat /\ DOMAIN ord = 1..Len(ord)
        /\ DOMAIN new = 1..(Len(ord) + 1) /\ new \in Seq(Ids)
        /\ new[Len(ord) + 1] = i
        /\ \A k \in 1..Len(ord) : new[k] = ord[k]
    BY AppendProperties, LenProperties
  <2>2. ASSUME NEW b \in Founding PROVE Follows(new, b)'
    <3>1. Follows(ord, b) /\ ~(cursor <= b) /\ cursor' <= b
      BY <1>1 DEF OrderOK
    <3>2. \A r \in DOMAIN ord : ord[r] # i
      BY <1>3, <2>0
    <3> QED BY <1>0, <2>0, <3>1, <3>2, FollowsLonger
  <2> HIDE DEF new
  <2>3. \A j, k \in DOMAIN new : new[j] = new[k] => j = k
    <3>1. \A k \in DOMAIN new : k \in DOMAIN ord \/ k = Len(ord) + 1
      BY <2>1
    <3>2. \A j, k \in DOMAIN ord : ord[j] = ord[k] => j = k
      BY DEF OrderOK, Ordered
    <3> QED BY <1>3, <2>0, <2>1, <3>1, <3>2
  <2>4. Len(ord) + 1 \in DOMAIN new
    BY <2>1
  <2>5. Ordered(new)'
    BY <2>0, <2>1, <2>3, <2>4 DEF Ordered
  <2>6. OrderOK(new)'
    BY <2>2, <2>5 DEF OrderOK
  <2> QED BY <2>1, <2>6 DEF OrderInv
<1> QED BY <1>2, <1>3

LEMMA StepOrder ==
    TypeInv /\ RestInv /\ OnceInv /\ OrderInv /\ [Next]_vars /\ OneEpochPerStamp' => OrderInv'
<1> SUFFICES ASSUME TypeInv, RestInv, OnceInv, OrderInv, [Next]_vars, OneEpochPerStamp'
             PROVE  OrderInv'
  OBVIOUS
<1>1. PICK ord \in Seq(Ids) : OrderOK(ord)
  BY DEF OrderInv
<1>2. ASSUME NEW b \in Founding
      PROVE  StaysDone(b) /\ Rests(b) /\ AppliesOnce(b) /\ StampInv
  <2>1. b \in Backups /\ Rests(b) /\ AppliesOnce(b) /\ StampInv
    BY FoundingBackup DEF RestInv, OnceInv
  <2> QED BY <2>1, StepDone
<1>3. CASE LeaderNextToSend
  BY <1>1, <1>2, <1>3, NextToSendOrder
<1>4. CASE ~LeaderNextToSend
  <2>1. Ordered(ord)'
    BY <1>1, <1>4, OrderedKept DEF OrderOK
  <2>2. ASSUME NEW b \in Founding PROVE Follows(ord, b)'
    <3>1. Ordered(ord) /\ Follows(ord, b)
      BY <1>1 DEF OrderOK
    <3>2. CASE LeaderSend(b)
      BY <1>2, <3>1, <3>2, SendFollows
    <3>3. CASE BackupTurn(b)
      BY <1>2, <3>1, <3>3, TurnFollows
    <3> QED BY <1>1, <1>2, <1>4, <3>1, <3>2, <3>3, OtherFollows
  <2>3. OrderOK(ord)'
    BY <2>1, <2>2 DEF OrderOK
  <2> QED BY <2>3 DEF OrderInv
<1> QED BY <1>3, <1>4

LEMMA SpecOrder ==
    ASSUME Timely
    PROVE  Spec /\ [][EpochsRise]_vars /\ []OneEpochPerStamp => []OrderInv
BY InitOrder, StepOrder, SpecTypeInv, SpecRest, SpecOnce, PTL DEF Spec

\* Two founding backups agree on the order of the commands that both apply,
\* and what one of them skips, it refuses for good: every copy of it is of an
\* epoch that it has left.
SameOrderAcrossEpochs ==
    \A b, c \in Founding :
        \A j, k \in DOMAIN applied[c], n \in DOMAIN applied[b] :
            j < k /\ applied[b][n] = applied[c][k] =>
               /\ applied[c][j] \in AppliedOn(b) \/ Outdated(b, applied[c][j])
               /\ \A m \in DOMAIN applied[b] : applied[b][m] = applied[c][j] => m < n

\* The founding backups go the same way, whatever fails, however often a
\* command is sent again and whenever each of them hears of a later epoch: a
\* connection brings the commands in the order in which the leader took them
\* first, a copy that is read again is a duplicate, and a backup that has
\* refused a command refuses it ever after.
THEOREM OneOrderAcrossEpochs ==
    ASSUME Timely
    PROVE  Spec /\ [][EpochsRise]_vars /\ []OneEpochPerStamp => []SameOrderAcrossEpochs
<1>1. ASSUME TypeInv, OrderInv, NEW b \in Founding, NEW c \in Founding,
             NEW j \in DOMAIN applied[c], NEW k \in DOMAIN applied[c],
             NEW n \in DOMAIN applied[b], j < k, applied[b][n] = applied[c][k]
      PROVE  /\ Done(b, applied[c][j])
             /\ \A m \in DOMAIN applied[b] : applied[b][m] = applied[c][j] => m < n
  <2>1. PICK ord \in Seq(Ids) : OrderOK(ord)
    BY <1>1 DEF OrderInv
  <2>2. AppliesInTurn(ord, b) /\ AppliesInTurn(ord, c)
    BY <2>1 DEF OrderOK, Follows
  <2>3. PICK r \in DOMAIN ord : applied[c][j] = ord[r]
    BY <2>2 DEF AppliesInTurn
  <2>4. PICK s \in DOMAIN ord :
           applied[b][n] = ord[s] /\ \A q \in DOMAIN ord : q < s => Done(b, ord[q])
    BY <2>2 DEF AppliesInTurn
  <2>5. r < s
    BY <1>1, <2>2, <2>3, <2>4 DEF AppliesInTurn
  <2>6. ASSUME NEW m \in DOMAIN applied[b], applied[b][m] = applied[c][j]
        PROVE  m < n
    <3>1. /\ m \in Nat /\ n \in Nat /\ r \in Nat /\ s \in Nat
      <4>1. DOMAIN applied[b] = 1..Len(applied[b]) /\ Len(applied[b]) \in Nat
        BY <1>1, FoundingBackup, BackupFacts, LenProperties
      <4>2. DOMAIN ord = 1..Len(ord) /\ Len(ord) \in Nat
        BY LenProperties
      <4> QED BY <4>1, <4>2
    <3>2. ~(n < m)
      <4>1. n < m => s < r
        BY <2>2, <2>3, <2>4, <2>6 DEF AppliesInTurn
      <4> QED BY <2>5, <3>1, <4>1
    <3>3. m # n
      <4>1. m = n => ord[r] = ord[s]
        BY <2>3, <2>4, <2>6
      <4>2. ord[r] # ord[s]
        BY <2>1, <2>5, <3>1 DEF OrderOK, Ordered
      <4> QED BY <4>1, <4>2
    <3> QED BY <3>1, <3>2, <3>3
  <2> QED BY <2>3, <2>4, <2>5, <2>6
<1>2. TypeInv /\ OrderInv => SameOrderAcrossEpochs
  BY <1>1 DEF SameOrderAcrossEpochs, Done
<1> QED BY <1>2, SpecTypeInv, SpecOrder, PTL

\* As long as no other leader is elected they skip nothing: one of them may
\* be behind.
THEOREM OneOrder ==
    ASSUME OneEpoch, Timely
    PROVE  Spec => []SameOrder
<1>1. OrderInv => SameOrder
  BY DEF OrderInv, OrderOK, Follows, AppliesPrefix, Founding, SameOrder
<1> QED BY <1>1, SpecOrder, OneEpochRises, PTL

-----------------------------------------------------------------------------
(***************************************************************************)
(* No command that waitCommit reported as committed is lost, for any       *)
(* number of backups, user threads and commands, whatever the time to live *)
(* (Timely or not) and whoever crashes: a backup does without it only when *)
(* its epoch has run ahead of the command's, and it drops every copy.      *)
(*                                                                         *)
(* The invariant follows the command backwards from the report: the leader *)
(* reports what is COMMITTED, which was SENT, which had the mark of every  *)
(* connected backup, and a mark is set by a packet put on the connection.  *)
(* The packet stays there until the backup's turn, and as long as the      *)
(* connection holds, a turn applies all it reads and does not refuse.      *)
(***************************************************************************)

\* The leader counts on b to have the command of the entry.
Marked(e, b) ==
    \/ e.state \in {"SENT", "COMMITTED"}
    \/ e.state = "SEND" /\ b \in e.sentTo

\* The leader gives up no founding backup whose connection holds.
NotGivenUp(b) ==
    /\ conn[b] # "never"
    /\ b \in dead => conn[b] = "closed"

CountedOn(b, i) ==
    Marked(messages[Leader][i], b) \/ i \in told => Done(b, i) \/ InFlight(b, i)

Safe(b) ==
    /\ NotGivenUp(b)
    /\ Healthy(b) => \A i \in Ids : CountedOn(b, i)

DeliveryInv == \A b \in Founding : Safe(b)

-----------------------------------------------------------------------------
(* The helpers set no mark that was not there, except for UpdateSend.      *)

LEMMA HelpersMark ==
    ASSUME NEW e \in Entry, NEW marks, NEW b
    PROVE  /\ Marked(ReceivedConfirms(e, marks), b) => Marked(e, b)
           /\ Marked(CheckSent(e), b) => Marked(e, b)
           /\ Marked(CheckTimeouts(e), b) => Marked(e, b)
           /\ Marked([e EXCEPT !.old = TRUE], b) => Marked(e, b)
           /\ \A epoch : Marked(Clear(e, epoch), b) => Marked(e, b)
<1>1. Marked(ReceivedConfirms(e, marks), b) => Marked(e, b)
  BY DEF Marked, ReceivedConfirms, Entry
<1>2. Marked(CheckSent(e), b) => Marked(e, b)
  BY DEF Marked, CheckSent, Entry
<1>3. Marked(CheckTimeouts(e), b) => Marked(e, b)
  BY DEF Marked, CheckTimeouts, Entry, Absent, NewEntry
<1>4. Marked([e EXCEPT !.old = TRUE], b) => Marked(e, b)
  BY DEF Marked, Entry
<1>5. \A epoch : Marked(Clear(e, epoch), b) => Marked(e, b)
  BY DEF Marked, Clear, Absent, NewEntry
<1> QED BY <1>1, <1>2, <1>3, <1>4, <1>5

LEMMA SendMarks ==
    ASSUME NEW e \in Entry, e.state \in {"SEND", "SENT"},
           NEW b \in Backups, b \notin dead, NEW to \in Servers, NEW ok \in BOOLEAN,
           Marked(UpdateSend(e, to, ok), b)
    PROVE  Marked(e, b) \/ (ok /\ to = b)
<1>1. b \in Servers /\ b # Leader
  BY ConstantsAssumption DEF Backups, Servers, Leader
<1> DEFINE m == IF ok THEN e.sentTo \cup {to} ELSE e.sentTo \ {to}
<1>2. CASE AllMarked(m)
  <2>1. b \in m
    BY <1>1, <1>2 DEF AllMarked
  <2> QED BY <2>1 DEF Marked
<1>3. CASE ~AllMarked(m)
  <2>1. UpdateSend(e, to, ok) = [e EXCEPT !.sentTo = m]
    BY <1>3 DEF UpdateSend
  <2> QED BY <2>1 DEF Marked, Entry
<1> QED BY <1>2, <1>3

-----------------------------------------------------------------------------
(* One lemma for each kind of step.  A step that leaves the connections of *)
(* b alone, or the command's entry, is dispatched by the first two.        *)

LEMMA InitDelivery == Init => DeliveryInv
<1> SUFFICES ASSUME Init, NEW b \in Founding
             PROVE  /\ NotGivenUp(b)
                    /\ \A i \in Ids : CountedOn(b, i)
  BY DEF DeliveryInv, Safe
<1>1. b \in Backups /\ b \in Servers /\ Leader \in Servers
  BY ConstantsAssumption DEF Founding, Backups, Servers, Leader
<1>2. NotGivenUp(b)
  BY <1>1 DEF Init, NotGivenUp, Founding
<1>3. ASSUME NEW i \in Ids
      PROVE  CountedOn(b, i)
  BY <1>1, <1>3 DEF Init, CountedOn, Marked, Absent, NewEntry
<1> QED BY <1>2, <1>3

\* A step that neither moves packets to b nor makes the leader count on it.
LEMMA DeliveryKept ==
    ASSUME DeliveryInv, NEW b \in Founding, StaysDone(b), chan'[b] = chan[b],
           conn'[b] # "never",
           b \in dead' => conn'[b] = "closed",
           Healthy(b)' => Healthy(b),
           \A i \in Ids : /\ Marked(messages'[Leader][i], b) =>
                               Marked(messages[Leader][i], b)
                          /\ i \in told' =>
                               i \in told \/ Marked(messages[Leader][i], b)
    PROVE  Safe(b)'
<1>1. NotGivenUp(b)'
  BY DEF NotGivenUp
<1>2. ASSUME Healthy(b)', NEW i \in Ids
      PROVE  CountedOn(b, i)'
  <2>1. CountedOn(b, i)
    BY <1>2 DEF DeliveryInv, Safe
  <2>2. Done(b, i) \/ InFlight(b, i) => Done(b, i)' \/ InFlight(b, i)'
    BY DEF StaysDone, InFlight
  <2> QED BY <2>1, <2>2 DEF CountedOn
<1> QED BY <1>1, <1>2 DEF Safe

LEMMA FoundingFacts ==
    ASSUME TypeInv, DeliveryInv, NEW b \in Founding
    PROVE  /\ b \in Backups /\ b \in Servers /\ b # Leader
           /\ Leader \in Servers
           /\ conn[b] # "never"
           /\ b \in dead => conn[b] = "closed"
           /\ \A i \in Ids : messages[b][i] \in Entry /\ messages[Leader][i] \in Entry
<1>1. b \in Backups /\ b \in Servers /\ b # Leader /\ Leader \in Servers
  BY ConstantsAssumption DEF Founding, Backups, Servers, Leader
<1>2. conn[b] # "never" /\ (b \in dead => conn[b] = "closed")
  BY DEF DeliveryInv, Safe, NotGivenUp
<1> QED BY <1>1, <1>2 DEF TypeInv, TypeOK

LEMMA UserDelivery ==
    ASSUME TypeInv, DeliveryInv, NEW b \in Founding, StaysDone(b), NEW u \in Users,
           Request(u) \/ NewReplication(u) \/ Poll(u)
    PROVE  Safe(b)'
<1>1. Healthy(b)' => Healthy(b)
  BY DEF Request, NewReplication, Poll, netVars, Healthy
<1>2. UNCHANGED <<applied, chan, conn, dead>>
  BY DEF Request, NewReplication, Poll, netVars, leaderVars
<1>3. CASE Request(u)
  BY <1>1, <1>2, <1>3, FoundingFacts, DeliveryKept DEF Request
<1>4. CASE NewReplication(u)
  <2> DEFINE new == NewEntry("SEND", user[u].seqn, {Leader})
  <2>1. user[u].id \in Ids
    BY <1>4 DEF NewReplication, TypeInv
  <2>2. ~Marked(new, b)
    BY FoundingFacts DEF Marked, NewEntry
  <2>3. \A i \in Ids :
          \/ messages'[Leader][i] = messages[Leader][i]
          \/ messages'[Leader][i] = new
    BY <1>4, <2>1, FoundingFacts DEF NewReplication, TypeInv, TypeOK
  <2>4. told' = told
    BY <1>4 DEF NewReplication
  <2> HIDE DEF new
  <2> QED BY <1>1, <1>2, <2>2, <2>3, <2>4, FoundingFacts, DeliveryKept
<1>5. CASE Poll(u)
  <2>1. \A i \in Ids : i \in told' => i \in told \/ Marked(messages[Leader][i], b)
    BY <1>5 DEF Poll, GetMessageState, Marked
  <2>2. UNCHANGED messages
    BY <1>5 DEF Poll
  <2> QED BY <1>1, <1>2, <2>1, <2>2, FoundingFacts, DeliveryKept
<1> QED BY <1>3, <1>4, <1>5

LEMMA LeaderDelivery ==
    ASSUME TypeInv, DeliveryInv, NEW b \in Founding, StaysDone(b),
           \/ LeaderReceive \/ LeaderManage \/ LeaderCheckSent
           \/ LeaderNextToSend \/ LeaderCheckTimeouts
    PROVE  Safe(b)'
<1>1. CASE LeaderReceive
  <2> DEFINE from(i) == {c \in Backups : Reads(c) /\ Head(back[c]) = i}
  <2>1. \A i \in Ids :
          messages'[Leader][i] = ReceivedConfirms(messages[Leader][i], from(i))
    BY <1>1, FoundingFacts DEF LeaderReceive, TypeInv, TypeOK
  <2>3. \A i \in Ids : Marked(messages'[Leader][i], b) => Marked(messages[Leader][i], b)
    <3> HIDE DEF from
    <3>1. ASSUME NEW i \in Ids
          PROVE  Marked(ReceivedConfirms(messages[Leader][i], from(i)), b) =>
                   Marked(messages[Leader][i], b)
      <4>1. messages[Leader][i] \in Entry
        BY FoundingFacts
      <4> QED BY <4>1, HelpersMark
    <3> QED BY <2>1, <3>1
  <2>4. /\ conn'[b] = "closed" \/ conn'[b] = conn[b]
        /\ bconn'[b] = bconn[b]
    BY <1>1, FoundingFacts DEF LeaderReceive, Joins
  <2>5. UNCHANGED <<applied, chan, dead, told, alive>>
    BY <1>1 DEF LeaderReceive, userVars
  <2>6. Healthy(b)' => Healthy(b)
    BY <2>4, <2>5 DEF Healthy
  <2>7. conn'[b] # "never" /\ (b \in dead' => conn'[b] = "closed")
    BY <2>4, <2>5, FoundingFacts
  <2> HIDE DEF from
  <2> QED BY <2>3, <2>5, <2>6, <2>7, DeliveryKept
<1>2. CASE LeaderManage
  <2>1. \A i \in Ids :
          messages'[Leader][i] = Clear(messages[Leader][i], emEpoch[Leader])
    BY <1>2, FoundingFacts DEF LeaderManage, ForAll, TypeInv, TypeOK
  <2>2. \A i \in Ids : Marked(messages'[Leader][i], b) => Marked(messages[Leader][i], b)
    <3>1. ASSUME NEW i \in Ids
          PROVE  Marked(Clear(messages[Leader][i], emEpoch[Leader]), b) =>
                    Marked(messages[Leader][i], b)
      BY FoundingFacts, HelpersMark
    <3> QED BY <2>1, <3>1
  <2>3. UNCHANGED <<applied, netVars, told>>
    BY <1>2 DEF LeaderManage, userVars
  <2>4. b \in dead' => conn'[b] = "closed"
    BY <1>2, FoundingFacts DEF LeaderManage, netVars
  <2>5. UNCHANGED <<alive, chan, conn, bconn>>
    BY <2>3 DEF netVars
  <2>6. Healthy(b)' => Healthy(b)
    BY <2>5 DEF Healthy
  <2> QED BY <2>2, <2>3, <2>4, <2>5, <2>6, FoundingFacts, DeliveryKept
<1>3. CASE LeaderCheckSent \/ LeaderNextToSend \/ LeaderCheckTimeouts
  <2>1. UNCHANGED <<applied, alive, chan, conn, bconn, dead, told>>
    BY <1>3 DEF LeaderCheckSent, LeaderNextToSend, LeaderCheckTimeouts,
                netVars, userVars
  <2>3. \A i \in Ids :
          \/ messages'[Leader][i] = CheckSent(messages[Leader][i])
          \/ messages'[Leader][i] = CheckTimeouts(messages[Leader][i])
          \/ messages'[Leader][i] = messages[Leader][i]
    BY <1>3, FoundingFacts
       DEF LeaderCheckSent, LeaderNextToSend, LeaderCheckTimeouts, ForAll,
           TypeInv, TypeOK
  <2>4. \A i \in Ids : Marked(messages'[Leader][i], b) => Marked(messages[Leader][i], b)
    BY <2>3, FoundingFacts, HelpersMark
  <2>5. Healthy(b)' => Healthy(b)
    BY <2>1 DEF Healthy
  <2> QED BY <2>1, <2>4, <2>5, FoundingFacts, DeliveryKept
<1> QED BY <1>1, <1>2, <1>3

\* A mark is set with a packet put on the connection.
LEMMA SendDelivery ==
    ASSUME TypeInv, DeliveryInv, NEW b \in Founding, StaysDone(b),
           NEW c \in Backups, LeaderSend(c)
    PROVE  Safe(b)'
<1> DEFINE e      == messages[Leader][sending]
           packet == [id |-> sending, seqn |-> e.seqn]
<1>1. /\ c \in Servers /\ c # N + 1 /\ sending \in Ids /\ e \in Entry
      /\ e.state \in {"SEND", "SENT"}
      /\ lpc = "send" /\ cursor = c
  BY FoundingFacts, ConstantsAssumption DEF LeaderSend, TypeInv, Backups, Servers
<1>2. UNCHANGED <<applied, alive, bconn, dead, told>>
  BY DEF LeaderSend, userVars
<1>3. /\ conn'[b] = conn[b] \/ conn'[b] = "broken"
      /\ Healthy(b)' => Healthy(b)
  <2>1. conn'[b] = conn[b] \/ (conn[b] = "open" /\ conn'[b] = "broken")
    BY FoundingFacts DEF LeaderSend, TypeInv, TypeOK
  <2> QED BY <1>2, <2>1 DEF Healthy
<1>4. NotGivenUp(b)'
  <2>1. conn'[b] = conn[b] \/ (conn[b] = "open" /\ conn'[b] = "broken")
    BY FoundingFacts DEF LeaderSend, TypeInv, TypeOK
  <2> QED BY <1>2, <2>1, FoundingFacts DEF NotGivenUp
<1>6. \A i \in Ids : InFlight(b, i) => InFlight(b, i)'
  <2>1. chan' = chan \/ chan' = [chan EXCEPT ![c] = Append(@, packet)]
    BY DEF LeaderSend
  <2>2. packet \in Packet /\ chan[c] \in Seq(Packet) /\ chan \in [Backups -> Seq(Packet)]
    BY <1>1 DEF Packet, TypeInv, TypeOK, Entry
  <2>3. \A k \in DOMAIN chan[c] : /\ k \in DOMAIN Append(chan[c], packet)
                                  /\ Append(chan[c], packet)[k] = chan[c][k]
    BY <2>2, AppendProperties
  <2>4. \A k \in DOMAIN chan[b] : k \in DOMAIN chan'[b] /\ chan'[b][k] = chan[b][k]
    <3> HIDE DEF packet
    <3> QED BY <2>1, <2>2, <2>3, FoundingFacts
  <2> QED BY <2>4 DEF InFlight
<1>7. PICK ok \in BOOLEAN :
        /\ messages' = [messages EXCEPT ![Leader][sending] = UpdateSend(e, c, ok)]
        /\ Healthy(c)' /\ ok => chan' = [chan EXCEPT ![c] = Append(@, packet)]
  <2>1. \/ /\ messages' = [messages EXCEPT ![Leader][sending] = UpdateSend(e, c, TRUE)]
           /\ chan' = [chan EXCEPT ![c] = Append(@, packet)]
        \/ /\ messages' = [messages EXCEPT ![Leader][sending] = UpdateSend(e, c, TRUE)]
           /\ BackupGone(c)
        \/ messages' = [messages EXCEPT ![Leader][sending] = UpdateSend(e, c, FALSE)]
    BY DEF LeaderSend
  <2>2. BackupGone(c) => ~Healthy(c)'
    BY <1>2 DEF BackupGone, Healthy
  <2> QED BY <2>1, <2>2
<1>8. ASSUME Healthy(b)', NEW i \in Ids
      PROVE  CountedOn(b, i)'
  <2>1. CountedOn(b, i) /\ b \notin dead
    BY <1>3, <1>8, FoundingFacts DEF DeliveryInv, Safe, Healthy
  <2>4. Done(b, i) \/ InFlight(b, i) => Done(b, i)' \/ InFlight(b, i)'
    BY <1>6 DEF StaysDone
  <2>5. CASE i = sending /\ Marked(messages'[Leader][i], b) /\ ~Marked(e, b)
    <3>1. messages'[Leader][i] = UpdateSend(e, c, ok)
      BY <1>1, <1>7, <2>5, FoundingFacts DEF TypeInv, TypeOK
    <3>2. ok /\ c = b
      BY <1>1, <2>1, <2>5, <3>1, SendMarks, FoundingFacts
    <3>3. chan'[b] = Append(chan[b], packet)
      BY <1>7, <1>8, <3>2, FoundingFacts DEF TypeInv, TypeOK
    <3>4. packet \in Packet /\ chan[b] \in Seq(Packet)
      BY <1>1, FoundingFacts DEF Packet, TypeInv, TypeOK, Entry
    <3>5. /\ Len(chan[b]) + 1 \in DOMAIN Append(chan[b], packet)
          /\ Append(chan[b], packet)[Len(chan[b]) + 1] = packet
      BY <3>4, AppendProperties
    <3>6. packet.id = i
      BY <2>5
    <3>7. InFlight(b, i)'
      <4> HIDE DEF packet
      <4> QED BY <3>3, <3>5, <3>6 DEF InFlight
    <3> QED BY <3>7 DEF CountedOn
  <2>6. CASE ~(i = sending /\ Marked(messages'[Leader][i], b) /\ ~Marked(e, b))
    <3>1. i # sending => messages'[Leader][i] = messages[Leader][i]
      BY <1>1, <1>7, FoundingFacts DEF TypeInv, TypeOK
    <3>2. Marked(messages'[Leader][i], b) => Marked(messages[Leader][i], b)
      BY <2>6, <3>1
    <3> QED BY <1>2, <2>1, <2>4, <3>2 DEF CountedOn
  <2> QED BY <2>5, <2>6
<1> QED BY <1>4, <1>8 DEF Safe

\* The turn of a backup whose connection holds applies what it does not refuse.
LEMMA TurnDelivery ==
    ASSUME TypeInv, StampInv, OneEpochPerStamp', [Next]_vars, DeliveryInv,
           NEW b \in Founding, Rests(b), StaysDone(b), BackupTurn(b)
    PROVE  Safe(b)'
<1>1. UNCHANGED <<alive, conn, dead, messages[Leader], told>>
  <2>1. UNCHANGED <<alive, conn, dead, told>>
    BY DEF BackupTurn, leaderVars, userVars
  <2>2. UNCHANGED messages[Leader]
    BY FoundingFacts DEF BackupTurn, TypeInv, TypeOK
  <2> QED BY <2>1, <2>2
<1>2. NotGivenUp(b)'
  BY <1>1, FoundingFacts DEF NotGivenUp
<1> SUFFICES ASSUME Healthy(b)', NEW i \in Ids
             PROVE  CountedOn(b, i)'
  BY <1>2 DEF Safe
<1>3. Healthy(b) /\ bconn'[b] = "open"
  BY <1>1, FoundingFacts, TurnIs DEF Healthy
<1>4. InFlight(b, i) => Done(b, i)' \/ InFlight(b, i)'
  <2>1. SUFFICES ASSUME NEW k \in DOMAIN chan[b], chan[b][k].id = i
                 PROVE  Done(b, i)' \/ InFlight(b, i)'
    BY DEF InFlight
  <2>2. chan[b] \in Seq(Packet) /\ chan[b] # <<>> /\ chan'[b] = Tail(chan[b])
    BY <2>1, FoundingFacts DEF BackupTurn, TypeInv, TypeOK
  <2>3. CASE k = 1
    <3>1. ReadsOf(b, i)
      BY <2>1, <2>2, <2>3, HeadTailProperties DEF ReadsOf
    <3> QED BY <1>3, <3>1, FoundingFacts, ReadIsDone
  <2>4. CASE k # 1
    <3>1. /\ k - 1 \in 1..Len(Tail(chan[b]))
          /\ Tail(chan[b])[k - 1] = chan[b][k]
      BY <2>1, <2>2, <2>4, HeadTailProperties
    <3>2. k - 1 \in DOMAIN chan'[b] /\ chan'[b][k - 1].id = i
      BY <2>1, <2>2, <3>1, HeadTailProperties
    <3> QED BY <3>2 DEF InFlight
  <2> QED BY <2>3, <2>4
<1>5. CountedOn(b, i)
  BY <1>3 DEF DeliveryInv, Safe
<1> QED BY <1>1, <1>4, <1>5 DEF CountedOn, StaysDone

\* What other backups and the environment do.
LEMMA OtherDelivery ==
    ASSUME TypeInv, DeliveryInv, NEW b \in Founding, StaysDone(b),
           \/ \E c \in Backups : (c # b /\ BackupTurn(c)) \/ BackupLoses(c)
           \/ \E s \in Servers : Crash(s) \/ NewEpoch(s)
           \/ \E s \in Servers, i \in Ids : Age(s, i)
    PROVE  Safe(b)'
<1>1. CASE \E c \in Backups : c # b /\ BackupTurn(c)
  <2>1. PICK c \in Backups : c # b /\ BackupTurn(c)
    BY <1>1
  <2>2. UNCHANGED <<alive, conn, dead, told>>
    BY <2>1 DEF BackupTurn, leaderVars, userVars
  <2>3. UNCHANGED <<applied[b], chan[b], bconn[b]>>
    BY <2>1, FoundingFacts DEF BackupTurn, TypeInv, TypeOK
  <2>4. UNCHANGED <<messages[b], messages[Leader]>>
    <3>1. c # Leader
      BY ConstantsAssumption DEF Backups, Leader
    <3> QED BY <2>1, <3>1, FoundingFacts DEF BackupTurn, TypeInv, TypeOK
  <2> QED BY <2>2, <2>3, <2>4, FoundingFacts, DeliveryKept DEF Healthy
<1>2. CASE \E c \in Backups : BackupLoses(c)
  <2>1. PICK c \in Backups : BackupLoses(c)
    BY <1>2
  <2>2. UNCHANGED <<messages, applied, alive, conn, chan, dead, told>>
    BY <2>1 DEF BackupLoses, leaderVars, userVars
  <2>3. bconn'[b] = "closed" \/ bconn'[b] = bconn[b]
    BY <2>1, FoundingFacts DEF BackupLoses, TypeInv, TypeOK
  <2>4. Healthy(b)' => Healthy(b)
    BY <2>2, <2>3 DEF Healthy
  <2> QED BY <2>2, <2>4, FoundingFacts, DeliveryKept
<1>3. CASE \E s \in Servers : Crash(s)
  <2>1. /\ UNCHANGED <<messages, applied, conn, bconn, chan, dead, told>>
        /\ alive' \subseteq alive
    BY <1>3 DEF Crash, leaderVars, userVars
  <2>2. Healthy(b)' => Healthy(b)
    BY <2>1 DEF Healthy
  <2> QED BY <2>1, <2>2, FoundingFacts, DeliveryKept
<1>4. CASE \E s \in Servers : NewEpoch(s)
  <2>1. UNCHANGED <<messages, applied, alive, conn, bconn, chan, dead, told>>
    BY <1>4 DEF NewEpoch, netVars, leaderVars, userVars
  <2> QED BY <2>1, FoundingFacts, DeliveryKept DEF Healthy
<1>5. CASE \E s \in Servers, i \in Ids : Age(s, i)
  <2>1. PICK s \in Servers, j \in Ids : Age(s, j)
    BY <1>5
  <2>2. UNCHANGED <<applied, alive, conn, bconn, chan, dead, told>>
    BY <2>1 DEF Age, netVars, leaderVars, userVars
  <2>3. \A i \in Ids :
          \/ messages'[Leader][i] = messages[Leader][i]
          \/ messages'[Leader][i] = [messages[Leader][i] EXCEPT !.old = TRUE]
    <3> DEFINE aged(e) == [e EXCEPT !.old = TRUE]
    <3>1. messages' = [messages EXCEPT ![s][j] = aged(@)]
      BY <2>1 DEF Age
    <3>3. messages \in [Servers -> [Ids -> Entry]]
      BY DEF TypeInv, TypeOK
    <3> HIDE DEF aged
    <3>4. \A r \in Servers, i \in Ids :
            messages'[r][i] = messages[r][i] \/ messages'[r][i] = aged(messages[r][i])
      BY <3>1, <3>3
    <3>6. \A i \in Ids : \/ messages'[Leader][i] = messages[Leader][i]
                         \/ messages'[Leader][i] = aged(messages[Leader][i])
      BY <3>4, FoundingFacts
    <3> QED BY <3>6 DEF aged
  <2>4. \A i \in Ids : Marked(messages'[Leader][i], b) => Marked(messages[Leader][i], b)
    BY <2>3, FoundingFacts, HelpersMark
  <2> QED BY <2>2, <2>3, <2>4, FoundingFacts, DeliveryKept DEF Healthy
<1> QED BY <1>1, <1>2, <1>3, <1>4, <1>5

LEMMA StepDelivery ==
    TypeInv /\ RestInv /\ StampInv /\ DeliveryInv /\ [Next]_vars /\ OneEpochPerStamp'
        => DeliveryInv'
<1> SUFFICES ASSUME TypeInv, RestInv, StampInv, DeliveryInv, [Next]_vars,
                    OneEpochPerStamp', NEW b \in Founding
             PROVE  Safe(b)'
  BY DEF DeliveryInv
<1>0. Rests(b) /\ StaysDone(b)
  BY FoundingFacts, StepDone DEF RestInv
<1>1. CASE LeaderStep
  BY <1>0, <1>1, LeaderDelivery, SendDelivery DEF LeaderStep
<1>2. CASE \E u \in Users : Request(u) \/ NewReplication(u) \/ Poll(u)
  BY <1>0, <1>2, UserDelivery
<1>3. CASE \E c \in Backups : BackupTurn(c) \/ BackupLoses(c)
  BY <1>0, <1>3, TurnDelivery, OtherDelivery
<1>4. CASE \E s \in Servers : Crash(s) \/ NewEpoch(s)
  BY <1>0, <1>4, OtherDelivery
<1>5. CASE \E s \in Servers, i \in Ids : Age(s, i)
  BY <1>0, <1>5, OtherDelivery
<1>6. CASE UNCHANGED vars
  BY <1>0, <1>6, FoundingFacts, DeliveryKept
     DEF vars, netVars, leaderVars, userVars, Healthy
<1> QED BY <1>1, <1>2, <1>3, <1>4, <1>5, <1>6 DEF Next

\* A command that waitCommit reported as committed is not lost: every backup
\* that was there from the start and whose connection has held has applied it,
\* has it on the way, or has left the epochs of all copies of it, which it
\* refuses.
NothingLostButRefused ==
    \A i \in told, b \in Founding :
        Healthy(b) => i \in AppliedOn(b) \/ InFlight(b, i) \/ Outdated(b, i)

\* What waitCommit reports stays safe over any number of epochs, any crashes
\* and any servers, user threads and commands, and although checkTimeouts may
\* drop an entry at any moment: only a backup whose epoch has run ahead of the
\* command's does without it, since receivedToReplicate drops its packets.
THEOREM ReportedIsNotLostAcrossEpochs ==
    Spec /\ [][EpochsRise]_vars /\ []OneEpochPerStamp => []NothingLostButRefused
<1>1. TypeInv => (\A i \in told : i \in Ids)
  BY DEF TypeInv, TypeOK
<1>2. TypeInv /\ DeliveryInv => NothingLostButRefused
  BY <1>1 DEF DeliveryInv, Safe, CountedOn, Done, NothingLostButRefused
<1> QED BY <1>2, InitDelivery, StepDelivery, SpecTypeInv, SpecRest, SpecStamp, PTL DEF Spec

\* As long as no other leader is elected, there is no such refusal.
COROLLARY ReportedIsNotLost ==
    ASSUME OneEpoch
    PROVE  Spec => []NothingLost
<1>1. TypeInv => \A b \in Backups, i \in Ids : ~Outdated(b, i)
  BY BackupFacts DEF OneEpoch, Epochs, Outdated
<1>2. TypeInv => (\A i \in told : i \in Ids)
  BY DEF TypeInv, TypeOK
<1>3. TypeInv /\ NothingLostButRefused => NothingLost
  BY <1>1, <1>2 DEF Founding, NothingLost, NothingLostButRefused
<1> QED BY <1>3, ReportedIsNotLostAcrossEpochs, OneEpochRises, SpecTypeInv, PTL

-----------------------------------------------------------------------------
(* The log *)

AheadOfAll ==
    Ahead \in Early /\ \A c \in Early : Len(applied[c]) <= Len(applied[Ahead])

\* Some founding backup is ahead of all others.
LEMMA AheadIs ==
    ASSUME TypeInv, Early # {}, NEW ord \in Seq(Ids),
           \A b \in Early : AppliesPrefix(ord, b)
    PROVE  AheadOfAll
<1>1. \A b \in Early : Len(applied[b]) \in Nat /\ Len(applied[b]) <= Len(ord)
  BY BackupFacts, LenProperties DEF Early, AppliesPrefix
<1>2. Len(ord) \in Nat
  BY LenProperties
<1> DEFINE T == {Len(ord) - Len(applied[b]) : b \in Early}
<1>3. T \subseteq Nat /\ T # {}
  BY <1>1, <1>2
<1>4. PICK x \in T : \A y \in T : ~(<<y, x>> \in OpToRel(<, Nat))
  <2> HIDE DEF T
  <2> QED BY <1>3, NatLessThanWellFounded, WFMin
<1>5. PICK b \in Early : x = Len(ord) - Len(applied[b])
  BY <1>4
<1>6. ASSUME NEW c \in Early PROVE Len(applied[c]) <= Len(applied[b])
  <2>1. Len(ord) - Len(applied[c]) \in T
    OBVIOUS
  <2>2. ~(Len(ord) - Len(applied[c]) < x)
    BY <1>3, <1>4, <2>1 DEF OpToRel
  <2> QED BY <1>1, <1>2, <1>5, <2>2
<1> QED BY <1>6 DEF Ahead, AheadOfAll

LEMMA PrefixIs ==
    ASSUME NEW s \in Seq(Ids), NEW t \in Seq(Ids), Len(s) <= Len(t),
           \A k \in DOMAIN s : s[k] = t[k]
    PROVE  /\ Log!IsPrefix(s, t)
           /\ Len(s) = Len(t) => s = t
<1>1. /\ Len(s) \in Nat /\ Len(t) \in Nat
      /\ DOMAIN s = 1..Len(s) /\ DOMAIN t = 1..Len(t)
  BY LenProperties
<1>2. SubSeq(s, 1, Len(s)) = [k \in 1..Len(s) |-> s[k]]
  BY <1>1, SubSeqProperties
<1>3. SubSeq(t, 1, Len(s)) = [k \in 1..Len(s) |-> t[k]]
  BY <1>1, SubSeqProperties
<1>4. SubSeq(s, 1, Len(s)) = SubSeq(t, 1, Len(s))
  BY <1>1, <1>2, <1>3
<1>5. Len(s) = Len(t) => s = t
  BY <1>1
<1> QED BY <1>4, <1>5 DEF Log!IsPrefix

LEMMA SpecAhead ==
    ASSUME OneEpoch, Timely, Early # {}
    PROVE  Spec => []AheadOfAll
<1>1. TypeInv /\ OrderInv => AheadOfAll
  BY AheadIs DEF OrderInv, OrderOK, Follows, Founding, Early
<1> QED BY <1>1, SpecTypeInv, SpecOrder, OneEpochRises, PTL

\* The backup that applies is the only one that changes, and goes on by one.
LEMMA AppliesOne ==
    ASSUME TypeInv, RestInv, [Next]_vars, NEW b \in Backups, applied'[b] # applied[b]
    PROVE  /\ applied' = [applied EXCEPT ![b] = applied'[b]]
           /\ \E i \in Ids : applied'[b] = Append(applied[b], i)
<1>1. BackupTurn(b)
  BY OthersAreQuiet DEF Quiet, RestInv
<1>2. applied \in [Backups -> Seq(Ids)]
  BY DEF TypeInv, TypeOK
<1>3. applied' = [applied EXCEPT ![b] = applied'[b]]
  BY <1>1, <1>2 DEF BackupTurn
<1>4. \E i \in Ids : applied'[b] = Append(applied[b], i)
  BY <1>1, TurnApplies DEF RestInv
<1> QED BY <1>3, <1>4

LEMMA LogStep ==
    ASSUME OneEpoch, TypeInv, TypeInv', RestInv, OrderInv', AheadOfAll, AheadOfAll',
           [Next]_vars
    PROVE  [Log!Next]_(Log!vars)
<1> DEFINE old == applied[Ahead]
           new == applied'[Ahead']
<1>1. PICK ord \in Seq(Ids) :
         /\ \A j, k \in DOMAIN ord : ord[j] = ord[k] => j = k
         /\ \A b \in Early : AppliesPrefix(ord, b)'
  BY DEF OrderInv, OrderOK, Ordered, Follows, Early, Founding
<1>2. ASSUME NEW b \in Early
      PROVE  /\ b \in Backups /\ applied[b] \in Seq(Ids) /\ applied'[b] \in Seq(Ids)
             /\ Len(applied[b]) \in Nat /\ Len(applied'[b]) \in Nat
             /\ DOMAIN applied[b] = 1..Len(applied[b])
             /\ DOMAIN applied'[b] = 1..Len(applied'[b])
  <2>1. b \in Backups
    BY DEF Early
  <2>2. applied[b] \in Seq(Ids) /\ applied'[b] \in Seq(Ids)
    BY <2>1 DEF TypeInv, TypeOK
  <2> QED BY <2>1, <2>2, LenProperties
<1>3. ASSUME NEW b \in Early, applied'[b] # applied[b]
      PROVE  /\ Len(applied'[b]) = Len(applied[b]) + 1
             /\ \A k \in DOMAIN applied[b] : applied'[b][k] = applied[b][k]
  <2>1. PICK i \in Ids : applied'[b] = Append(applied[b], i)
    BY <1>2, <1>3, AppliesOne
  <2> QED BY <1>2, <2>1, AppendProperties
<1>4. ASSUME NEW b \in Early
      PROVE  /\ Len(applied'[b]) <= Len(ord)
             /\ \A k \in DOMAIN applied'[b] : applied'[b][k] = ord[k]
             /\ Len(applied[b]) <= Len(applied'[b])
             /\ \A k \in DOMAIN applied[b] : applied[b][k] = ord[k]
  <2>1. /\ Len(applied'[b]) <= Len(ord)
        /\ \A k \in DOMAIN applied'[b] : applied'[b][k] = ord[k]
    BY <1>1 DEF AppliesPrefix
  <2>2. CASE applied'[b] = applied[b]
    BY <1>2, <2>1, <2>2
  <2>3. CASE applied'[b] # applied[b]
    BY <1>2, <1>3, <2>1, <2>3
  <2> QED BY <2>2, <2>3
<1>5. Len(ord) \in Nat /\ DOMAIN ord = 1..Len(ord)
  BY LenProperties
<1>6. /\ Ahead \in Early /\ \A c \in Early : Len(applied[c]) <= Len(old)
      /\ Ahead' \in Early /\ \A c \in Early : Len(applied'[c]) <= Len(new)
  BY DEF AheadOfAll
\* Any two of these sequences agree; of equal length, they are one.
<1>7. ASSUME NEW s \in Seq(Ids), NEW t \in Seq(Ids), Len(s) <= Len(t), Len(t) <= Len(ord),
             \A k \in DOMAIN s : s[k] = ord[k], \A k \in DOMAIN t : t[k] = ord[k]
      PROVE  Log!IsPrefix(s, t) /\ (Len(s) = Len(t) => s = t)
  <2>1. DOMAIN s \subseteq DOMAIN t
    BY <1>7, LenProperties
  <2> QED BY <1>7, <2>1, PrefixIs
<1>8. CASE \A b \in Early : applied'[b] = applied[b]
  <2>1. Len(old) = Len(new)
    BY <1>2, <1>6, <1>8
  <2>2. old = new
    BY <1>2, <1>4, <1>6, <1>7, <1>8, <2>1
  <2>3. [b \in Early |-> applied[b]]' = [b \in Early |-> applied[b]]
    BY <1>8
  <2> QED BY <2>2, <2>3 DEF Log!vars
<1>9. ASSUME NEW b \in Early, applied'[b] # applied[b]
      PROVE  Log!CarryOut(b)
  <2>1. \A c \in Early : c # b => applied'[c] = applied[c]
    <3>1. applied' = [applied EXCEPT ![b] = applied'[b]]
      BY <1>2, <1>9, AppliesOne
    <3>2. applied \in [Backups -> Seq(Ids)] /\ Early \subseteq Backups
      BY DEF TypeInv, TypeOK, Early
    <3> HIDE DEF old, new
    <3> QED BY ONLY <3>1, <3>2
  <2>2. Log!IsStrictPrefix(applied[b], applied'[b])
    BY <1>2, <1>3, <1>4, <1>7, <1>9 DEF Log!IsStrictPrefix
  <2>3. [c \in Early |-> applied'[c]] = [[c \in Early |-> applied[c]] EXCEPT ![b] = applied'[b]]
    BY <2>1
  <2>4. CASE Len(applied'[b]) <= Len(old)
    <3>1. applied'[Ahead] = old
      <4>1. Ahead # b
        BY <1>2, <1>3, <1>9, <2>4
      <4> QED BY <1>6, <2>1, <4>1
    <3>2. Len(new) = Len(old)
      <4>1. Len(new) <= Len(old)
        BY <1>2, <1>6, <2>1, <2>4
      <4>2. Len(old) <= Len(new)
        BY <1>6, <3>1
      <4> QED BY <1>2, <1>6, <4>1, <4>2
    <3>3. new = old
      BY <1>2, <1>4, <1>6, <1>7, <3>2
    <3>4. Log!IsPrefix(applied'[b], old)
      <4>1. /\ applied'[b] \in Seq(Ids) /\ old \in Seq(Ids) /\ Len(old) <= Len(ord)
            /\ \A k \in DOMAIN applied'[b] : applied'[b][k] = ord[k]
            /\ \A k \in DOMAIN old : old[k] = ord[k]
        BY <1>2, <1>4, <1>6, <3>1
      <4> HIDE DEF old
      <4> QED BY <1>7, <2>4, <4>1
    <3> QED BY <1>9, <2>2, <2>3, <3>3, <3>4 DEF Log!CarryOut, Log!Follows
  <2>5. CASE ~(Len(applied'[b]) <= Len(old))
    <3>1. Len(new) = Len(applied'[b])
      <4>1. \A c \in Early : Len(applied'[c]) <= Len(applied'[b])
        <5>1. ASSUME NEW c \in Early PROVE Len(applied'[c]) <= Len(applied'[b])
          <6>1. CASE c = b
            BY <1>2, <6>1
          <6>2. CASE c # b
            <7>1. Len(applied'[c]) <= Len(old)
              BY <1>6, <2>1, <6>2
            <7> QED BY <1>2, <1>6, <2>5, <7>1
          <6> QED BY <6>1, <6>2
        <5> QED BY <5>1
      <4> QED BY <1>2, <1>6, <4>1
    <3>2. new = applied'[b]
      BY <1>2, <1>4, <1>6, <1>7, <3>1
    <3>3. Log!IsPrefix(old, applied'[b]) /\ old # applied'[b]
      <4>1. Len(old) <= Len(applied'[b]) /\ Len(old) # Len(applied'[b])
        BY <1>2, <1>6, <2>5
      <4> QED BY <1>2, <1>4, <1>6, <1>7, <4>1
    <3>4. \A j, k \in DOMAIN applied'[b] : applied'[b][j] = applied'[b][k] => j = k
      BY <1>1, <1>2, <1>4, <1>5
    <3>5. Log!IsInjective(new)
      BY <3>2, <3>4 DEF Log!IsInjective
    <3>6. Log!IsStrictPrefix(old, applied'[b])
      BY <3>3 DEF Log!IsStrictPrefix
    <3> QED BY <1>9, <2>2, <2>3, <3>2, <3>5, <3>6 DEF Log!CarryOut, Log!Leads
  <2> QED BY <2>4, <2>5
<1> QED BY <1>8, <1>9 DEF Log!Next

\* Replication implements the log: every step of it is a step of the backup
\* that applies the packet it has read, along what the one ahead has applied
\* or one further.
THEOREM LogImplemented ==
    ASSUME OneEpoch, Timely, Early # {}
    PROVE  Spec => ImplementsLog
<1>1. Init /\ AheadOfAll => Log!Init
  <2> SUFFICES ASSUME Init, AheadOfAll PROVE Log!Init
    OBVIOUS
  <2>1. \A b \in Early : b \in Backups
    BY DEF Early
  <2> QED BY <2>1 DEF Init, AheadOfAll, Log!Init
<1>2. TypeInv /\ TypeInv' /\ RestInv /\ OrderInv' /\ AheadOfAll /\ AheadOfAll' /\ [Next]_vars
         => [Log!Next]_(Log!vars)
  BY LogStep
<1> QED BY <1>1, <1>2, SpecTypeInv, SpecRest, SpecOrder, SpecAhead, OneEpochRises, PTL
       DEF Spec, ImplementsLog, Log!Spec
=============================================================================

---------------------------- MODULE BufferProofs ----------------------------
(***************************************************************************)
(* Two results about the ring, for any number of producers, any size and   *)
(* any number of messages.                                                 *)
(*                                                                         *)
(* BufferInvariant: the counters keep account of every unit of capacity,   *)
(* in every interleaving.  Only four sections move a unit: Admit takes one *)
(* for the producer it lets in, Produce turns it into a counted message,   *)
(* Dequeue hands it to the delivering thread and Release frees it.  The    *)
(* ranges of the counters follow from the account.                         *)
(*                                                                         *)
(* MailboxImplemented: as long as enqueues do not overlap, the ring is a   *)
(* first-in first-out mailbox.  RingInv says where everything is: the      *)
(* counted messages follow each other from the read index in the order of  *)
(* their numbers, only the first can be delivered, the message of the one  *)
(* producer inside comes after them, and the delivering thread is about    *)
(* the first.  That a producer and the delivering thread are never in one  *)
(* slot follows from the account.                                          *)
(***************************************************************************)
EXTENDS ProducerConsumerBuffer, FiniteSetTheorems, SequenceTheorems, TLAPS

ProducerPlaces == {"out", "capacity", "index", "write", "produced"}
ConsumerPlaces == {"peek", "commit", "mark", "send", "dequeue", "read", "release"}

LEMMA InsertingFinite ==
    /\ IsFiniteSet(Inserting)
    /\ Cardinality(Inserting) \in Nat
  BY BufferAssumption, FS_Subset, FS_CardinalityType DEF Inserting

\* The fields no step checks against the account.
Shape ==
    /\ buffer \in [Indexes -> Slots]
    /\ writeIndex \in Indexes /\ readIndex \in Indexes
    /\ modifying \in BOOLEAN
    /\ prod \in [Producers -> [pc : ProducerPlaces, id : Ids, index : Indexes]]
    /\ cons \in [pc : ConsumerPlaces, id : Ids]
    /\ nextId \in 1 .. MaxMessages+1
    /\ accepted \subseteq Messages
    /\ sent \in Seq(Ids)
    /\ overlapped \in BOOLEAN

\* A producer that has its message has a real one.
HasMessage == \A p \in Producers : ~At(p, "out") => prod[p].id \in Messages

LEMMA AfterIsIndex == ASSUME NEW i \in Indexes PROVE After(i) \in Indexes
  BY BufferAssumption, SMT DEF After, Indexes

LEMMA Initially == Init => IInv /\ HasMessage
<1> SUFFICES ASSUME Init PROVE IInv /\ HasMessage
  OBVIOUS
<1> USE BufferAssumption
<1>1. Inserting = {}
  BY DEF Init, Inserting
<1>2. Cardinality(Inserting) = 0
  BY <1>1, FS_EmptySet
<1>3. TypeOK
  <2>1. PICK junk \in BOOLEAN :
          buffer = [i \in Indexes |-> [id |-> 0, delivered |-> TRUE, nothing |-> junk]]
    BY DEF Init
  <2>2. buffer \in [Indexes -> Slots]
    BY <2>1 DEF Slots, Ids
  <2>3. 0 \in Indexes /\ 0 \in Ids
    BY DEF Indexes, Ids
  <2>4. prod \in [Producers -> [pc : ProducerPlaces, id : Ids, index : Indexes]]
    BY <2>3 DEF Init, ProducerPlaces
  <2>5. cons \in [pc : ConsumerPlaces, id : Ids]
    BY <2>3 DEF Init, ConsumerPlaces
  <2>6. sent \in Seq(Ids)
    BY DEF Init
  <2>7. /\ capacity \in 0..Size /\ numProduced \in 0..Size
        /\ nextId \in 1 .. MaxMessages+1
    BY DEF Init
  <2> QED
    BY <2>2, <2>3, <2>4, <2>5, <2>6, <2>7
    DEF Init, TypeOK, Messages, ProducerPlaces, ConsumerPlaces
<1>4. ConsumerState /\ Accounting
  BY <1>2 DEF Init, ConsumerState, Accounting, Leaving
<1>5. HasMessage
  BY DEF Init, HasMessage, At
<1> QED BY <1>3, <1>4, <1>5 DEF IInv

\* What each step does to the fields, the account apart.
LEMMA ShapeKept ==
    ASSUME IInv, HasMessage, [Next]_vars
    PROVE  Shape' /\ HasMessage'
<1> USE BufferAssumption
<1>0. Shape
  BY DEF IInv, TypeOK, Shape, ProducerPlaces, ConsumerPlaces
<1> USE DEF Shape, ProducerPlaces, ConsumerPlaces, HasMessage, At, Move, ConsumerTo
<1>1. ASSUME NEW p \in Producers, Enqueue(p) PROVE Shape' /\ HasMessage'
  <2>1. nextId \in Messages /\ nextId \in Ids /\ nextId + 1 \in 1 .. MaxMessages+1
    BY <1>0, <1>1 DEF Enqueue, Ids, Messages
  <2>2. /\ prod' = [prod EXCEPT ![p] =
                       [pc |-> "capacity", id |-> nextId, index |-> 0]]
        /\ 0 \in Indexes
    BY <1>1 DEF Enqueue, Indexes
  <2>3. prod' \in [Producers -> [pc : ProducerPlaces, id : Ids, index : Indexes]]
    BY <1>0, <2>1, <2>2
  <2>4. HasMessage'
    BY <1>0, <2>1, <2>2
  <2>5. overlapped' \in BOOLEAN
    BY <1>1 DEF Enqueue
  <2> QED
    BY <2>1, <2>3, <2>4, <2>5, <1>0, <1>1 DEF Enqueue
<1>2. ASSUME NEW p \in Producers, Admit(p) PROVE Shape' /\ HasMessage'
  <2>1. PICK l \in {"index", "out"} : prod' = [prod EXCEPT ![p].pc = l]
    BY <1>2 DEF Admit
  <2>4. prod' \in [Producers -> [pc : ProducerPlaces, id : Ids, index : Indexes]]
    BY <1>0, <2>1
  <2>5. HasMessage'
    <3> SUFFICES ASSUME NEW q \in Producers, prod'[q].pc # "out"
                 PROVE  prod'[q].id \in Messages
      OBVIOUS
    <3>1. prod[q].pc # "out"
      BY <1>0, <1>2, <2>1 DEF Admit
    <3>2. prod'[q].id = prod[q].id
      BY <1>0, <2>1
    <3> QED
      BY <3>1, <3>2
  <2>2. prod[p].id \in Messages
    BY <1>2 DEF Admit
  <2>3. accepted' \subseteq Messages
    BY <1>0, <1>2, <2>2 DEF Admit
  <2> QED
    BY <2>3, <2>4, <2>5, <1>0, <1>2 DEF Admit
<1>3. ASSUME NEW p \in Producers, Reserve(p) PROVE Shape' /\ HasMessage'
  <2>1. prod' = [prod EXCEPT ![p] =
                   [pc |-> "write", id |-> prod[p].id, index |-> writeIndex]]
    BY <1>0, <1>3 DEF Reserve
  <2>2. /\ prod' \in [Producers -> [pc : ProducerPlaces, id : Ids, index : Indexes]]
        /\ HasMessage'
    BY <1>0, <1>3, <2>1 DEF Reserve
  <2> QED
    BY <2>2, <1>0, <1>3, AfterIsIndex DEF Reserve
<1>4. ASSUME NEW p \in Producers, Write(p) PROVE Shape' /\ HasMessage'
  <2>1. Occupied(prod[p].id) \in Slots
    BY <1>0 DEF Occupied, Slots
  <2> QED BY <2>1, <1>0, <1>4, SMT DEF Write
<1>5. ASSUME NEW p \in Producers, Produce(p) PROVE Shape' /\ HasMessage'
  BY <1>0, <1>5, SMT DEF Produce
<1>6. CASE Peek
  <2>1. PICK m \in Copies(readIndex) : cons' = [pc |-> IF m.nothing THEN "peek"
                          ELSE IF m.delivered THEN "dequeue" ELSE "commit",
                   id |-> m.id]
    BY <1>6 DEF Peek
  <2>2. \A p \in Producers : Occupied(prod[p].id) \in Slots
    BY <1>0 DEF Occupied, Slots
  <2>3. m \in Slots
    BY <1>0, <2>2 DEF Copies, Slots
  <2>4. cons' \in [pc : ConsumerPlaces, id : Ids]
    BY <2>1, <2>3 DEF Slots
  <2> QED BY <2>4, <1>0, <1>6 DEF Peek
<1>7. CASE Committed
  BY <1>0, <1>7 DEF Committed
<1>8. CASE NotCommitted
  BY <1>0, <1>8 DEF NotCommitted
<1>9. CASE Mark
  <2>1. \A i \in Indexes : [buffer[i] EXCEPT !.delivered = TRUE] \in Slots
    BY <1>0 DEF Slots
  <2>2. buffer' \in [Indexes -> Slots]
    BY <1>0, <1>9, <2>1 DEF Mark
  <2> QED BY <2>2, <1>0, <1>9 DEF Mark
<1>10. CASE Send
  <2>1. sent' = sent \/ sent' = Append(sent, cons.id)
    BY <1>10 DEF Send
  <2>2. sent' \in Seq(Ids)
    BY <1>0, <2>1
  <2> QED BY <2>2, <1>0, <1>10 DEF Send
<1>11. CASE Dequeue
  BY <1>0, <1>11 DEF Dequeue
<1>12. CASE Read
  <2>1. buffer' \in [Indexes -> Slots]
    BY <1>0, <1>12 DEF Read, Slots
  <2> QED BY <2>1, <1>0, <1>12, AfterIsIndex DEF Read
<1>13. CASE Release
  BY <1>0, <1>13 DEF Release
<1>14. CASE Quiet \/ UNCHANGED vars
  BY <1>0, <1>14 DEF Quiet, vars
<1> HIDE DEF Shape, HasMessage, At, Move, ConsumerTo
<1>15. ASSUME NEW p \in Producers, Insert(p) PROVE Shape' /\ HasMessage'
  BY <1>1, <1>2, <1>3, <1>4, <1>5, <1>15 DEF Insert
<1>16. CASE Deliver
  BY <1>6, <1>7, <1>8, <1>9, <1>10, <1>11, <1>12, <1>13, <1>16 DEF Deliver
<1> QED
  BY <1>14, <1>15, <1>16 DEF Next

-----------------------------------------------------------------------------

LEMMA InsertingGrows ==
    ASSUME NEW p \in Producers, p \notin Inserting, Inserting' = Inserting \cup {p}
    PROVE  Cardinality(Inserting') = Cardinality(Inserting) + 1
  BY InsertingFinite, FS_AddElement

LEMMA InsertingShrinks ==
    ASSUME NEW p \in Inserting, Inserting' = Inserting \ {p}
    PROVE  Cardinality(Inserting') = Cardinality(Inserting) - 1
  BY InsertingFinite, FS_RemoveElement

\* Accounting and the consumer's state, step by step.
LEMMA AccountKept ==
    ASSUME IInv, HasMessage, [Next]_vars
    PROVE  /\ Accounting' /\ ConsumerState'
           /\ capacity' \in Nat /\ numProduced' \in Nat
<1> USE BufferAssumption
<1> DEFINE Goal == /\ Accounting' /\ ConsumerState'
                   /\ capacity' \in Nat /\ numProduced' \in Nat
<1>0. /\ prod \in [Producers -> [pc : ProducerPlaces, id : Ids, index : Indexes]]
      /\ cons \in [pc : ConsumerPlaces, id : Ids]
      /\ capacity \in Nat /\ numProduced \in Nat /\ Size \in Nat
      /\ Cardinality(Inserting) \in Nat
      /\ Accounting /\ ConsumerState
  BY InsertingFinite DEF IInv, TypeOK, ProducerPlaces, ConsumerPlaces
<1>1. ASSUME UNCHANGED prod PROVE Inserting' = Inserting
  BY <1>1 DEF Inserting
<1>2. ASSUME NEW p \in Producers, NEW l \in ProducerPlaces, prod'[p].pc = l,
             \A q \in Producers \ {p} : prod'[q] = prod[q]
      PROVE  Inserting' = IF l \in {"index", "write", "produced"}
                          THEN Inserting \cup {p} ELSE Inserting \ {p}
  BY <1>2 DEF Inserting
<1>3. ASSUME NEW p \in Producers, Enqueue(p) PROVE Goal
  <2>1. /\ prod'[p].pc = "capacity" /\ p \notin Inserting
        /\ \A q \in Producers \ {p} : prod'[q] = prod[q]
    BY <1>0, <1>3 DEF Enqueue, At, Inserting
  <2>2. Inserting' = Inserting
    BY <1>2, <2>1 DEF ProducerPlaces
  <2> QED
    BY <2>2, <1>0, <1>3 DEF Enqueue, Accounting, ConsumerState, Leaving
<1>4. ASSUME NEW p \in Producers, Admit(p) PROVE Goal
  <2>1. p \notin Inserting /\ \A q \in Producers \ {p} : prod'[q] = prod[q]
    BY <1>0, <1>4 DEF Admit, At, Move, Inserting
  <2>2. CASE capacity > 0
    <3>1. prod'[p].pc = "index"
      BY <1>0, <1>4, <2>2 DEF Admit, Move
    <3>2. Cardinality(Inserting') = Cardinality(Inserting) + 1
      BY <1>2, <2>1, <3>1, InsertingGrows DEF ProducerPlaces
    <3> QED
      BY <2>2, <3>2, <1>0, <1>4 DEF Admit, Accounting, ConsumerState, Leaving
  <2>3. CASE ~(capacity > 0)
    <3>1. prod'[p].pc = "out"
      BY <1>0, <1>4, <2>3 DEF Admit, Move
    <3>2. Inserting' = Inserting
      BY <1>2, <2>1, <3>1 DEF ProducerPlaces
    <3> QED
      BY <2>3, <3>2, <1>0, <1>4 DEF Admit, Accounting, ConsumerState, Leaving
  <2> QED
    BY <2>2, <2>3
<1>5. ASSUME NEW p \in Producers, Reserve(p) \/ Write(p) PROVE Goal
  <2>1. /\ prod'[p].pc \in {"write", "produced"} /\ p \in Inserting
        /\ \A q \in Producers \ {p} : prod'[q] = prod[q]
    BY <1>0, <1>5 DEF Reserve, Write, At, Move, Inserting
  <2>2. Inserting' = Inserting
    BY <1>2, <2>1 DEF ProducerPlaces
  <2> QED
    BY <2>2, <1>0, <1>5 DEF Reserve, Write, Accounting, ConsumerState, Leaving
<1>6. ASSUME NEW p \in Producers, Produce(p) PROVE Goal
  <2>1. /\ prod'[p].pc = "out" /\ p \in Inserting
        /\ \A q \in Producers \ {p} : prod'[q] = prod[q]
    BY <1>0, <1>6 DEF Produce, At, Move, Inserting
  <2>2. Cardinality(Inserting') = Cardinality(Inserting) - 1
    BY <1>2, <2>1, InsertingShrinks DEF ProducerPlaces
  <2> QED
    BY <2>2, <1>0, <1>6 DEF Produce, Accounting, ConsumerState, Leaving
<1>7. CASE Deliver \/ Quiet \/ UNCHANGED vars
  <2>1. Inserting' = Inserting
    BY <1>1, <1>7
    DEF Deliver, Peek, Committed, NotCommitted, Mark, Send, Dequeue, Read, Release,
        Quiet, vars
  <2> USE <2>1, <1>0 DEF Accounting, ConsumerState, Leaving, ConsumerTo
  <2>2. CASE Peek
    <3>1. cons'.pc \in {"peek", "dequeue", "commit"}
      BY <2>2 DEF Peek
    <3> QED
      BY <2>2, <3>1 DEF Peek
  <2>3. CASE Committed
    BY <2>3 DEF Committed
  <2>4. CASE NotCommitted
    BY <2>4 DEF NotCommitted
  <2>5. CASE Mark
    BY <2>5 DEF Mark
  <2>6. CASE Send
    BY <2>6 DEF Send
  <2>7. CASE Dequeue
    BY <2>7 DEF Dequeue
  <2>8. CASE Read
    BY <2>8 DEF Read
  <2>9. CASE Release
    BY <2>9 DEF Release
  <2>10. CASE Quiet \/ UNCHANGED vars
    BY <2>10 DEF Quiet, vars
  <2> QED
    BY <1>7, <2>2, <2>3, <2>4, <2>5, <2>6, <2>7, <2>8, <2>9, <2>10 DEF Deliver
<1> QED
  BY <1>3, <1>4, <1>5, <1>6, <1>7 DEF Next, Insert

LEMMA StepIInv ==
    IInv /\ HasMessage /\ [Next]_vars => (IInv /\ HasMessage)'
<1> SUFFICES ASSUME IInv, HasMessage, [Next]_vars PROVE (IInv /\ HasMessage)'
  OBVIOUS
<1>1. Shape' /\ HasMessage'
  BY ShapeKept
<1>2. /\ Accounting' /\ ConsumerState'
      /\ capacity' \in Nat /\ numProduced' \in Nat
  BY AccountKept
<1>3. Cardinality(Inserting') \in Nat
  <2>1. Inserting' \in SUBSET Producers
    BY DEF Inserting
  <2> QED
    BY <2>1, BufferAssumption, FS_Subset, FS_CardinalityType
<1>4. capacity' \in 0..Size /\ numProduced' \in 0..Size
  BY <1>2, <1>3, BufferAssumption DEF Accounting, Leaving
<1>5. TypeOK'
  BY <1>1, <1>4 DEF Shape, TypeOK, ProducerPlaces, ConsumerPlaces
<1> QED
  BY <1>1, <1>2, <1>5 DEF IInv

\* However the sections of enqueue and dequeue interleave, the counters of the
\* ring account for every unit of capacity and stay in their ranges.
THEOREM BufferInvariant == Spec => []IInv
<1>1. Init => IInv /\ HasMessage
  BY Initially
<1>2. IInv /\ HasMessage /\ [Next]_vars => (IInv /\ HasMessage)'
  BY StepIInv
<1> QED
  BY <1>1, <1>2, PTL DEF Spec

-----------------------------------------------------------------------------
(* Places of the ring: the k-th from s on, and s itself is the first. *)

Turn(s, k) == (s + k - 1) % Size

LEMMA TurnIs ==
    ASSUME NEW s \in Indexes, NEW k \in 1..Size+1
    PROVE  Turn(s, k) = IF s + k - 1 < Size THEN s + k - 1 ELSE s + k - 1 - Size
<1> DEFINE x == s + k - 1
<1>1. x \in 0 .. 2*Size - 1 /\ Size \in Nat \ {0}
  BY BufferAssumption DEF Indexes
<1>2. Turn(s, k) = x % Size
  BY DEF Turn
<1>3. ASSUME NEW y \in 0 .. 2*Size - 1, Size \in Nat \ {0}
      PROVE  y % Size = IF y < Size THEN y ELSE y - Size
  BY <1>3, SMT
<1>4. x = s + k - 1
  OBVIOUS
<1> HIDE DEF x
<1>5. Turn(s, k) = IF x < Size THEN x ELSE x - Size
  BY <1>1, <1>2, <1>3
<1> QED BY <1>1, <1>4, <1>5 DEF Indexes

LEMMA TurnPlaces ==
    /\ \A s \in Indexes, k \in 1..Size+1 : Turn(s, k) \in Indexes
    /\ \A s \in Indexes : Turn(s, 1) = s
    /\ \A s \in Indexes, j, k \in 1..Size : Turn(s, j) = Turn(s, k) => j = k
    /\ \A s \in Indexes : After(s) \in Indexes
    /\ \A s \in Indexes, k \in 1..Size : Turn(After(s), k) = Turn(s, k + 1)
    /\ \A s \in Indexes, k \in 1..Size : After(Turn(s, k)) = Turn(s, k + 1)
    /\ \A s \in Indexes : Turn(After(s), Size) = s
<1>0. Size \in Nat \ {0}
  BY BufferAssumption
<1>1. \A s \in Indexes, k \in 1..Size+1 :
         Turn(s, k) = IF s + k - 1 < Size THEN s + k - 1 ELSE s + k - 1 - Size
  BY TurnIs
<1>2. \A s \in Indexes : After(s) = IF s + 1 < Size THEN s + 1 ELSE s + 1 - Size
  <2> SUFFICES ASSUME NEW s \in Indexes
               PROVE  After(s) = IF s + 1 < Size THEN s + 1 ELSE s + 1 - Size
    OBVIOUS
  <2>1. Turn(s, 2) = IF s + 1 < Size THEN s + 1 ELSE s + 1 - Size
    BY <1>0, <1>1 DEF Indexes
  <2>2. s + 2 - 1 = s + 1
    BY <1>0 DEF Indexes
  <2>3. Turn(s, 2) = After(s)
    BY <2>2 DEF Turn, After
  <2> QED BY <2>1, <2>3
<1>3. \A s \in Indexes, k \in 1..Size+1 : Turn(s, k) \in Indexes
  BY <1>0, <1>1 DEF Indexes
<1>4. \A s \in Indexes : Turn(s, 1) = s
  BY <1>0, <1>1 DEF Indexes
<1>5. ASSUME NEW s \in Indexes, NEW j \in 1..Size, NEW k \in 1..Size, Turn(s, j) = Turn(s, k)
      PROVE  j = k
  <2>1. /\ Turn(s, j) = IF s + j - 1 < Size THEN s + j - 1 ELSE s + j - 1 - Size
        /\ Turn(s, k) = IF s + k - 1 < Size THEN s + k - 1 ELSE s + k - 1 - Size
    BY <1>0, <1>1
  <2>2. s \in 0 .. Size-1 /\ j \in 1..Size /\ k \in 1..Size
    BY DEF Indexes
  <2> DEFINE x == Turn(s, j)
             y == Turn(s, k)
  <2>3. /\ x = IF s + j - 1 < Size THEN s + j - 1 ELSE s + j - 1 - Size
        /\ y = IF s + k - 1 < Size THEN s + k - 1 ELSE s + k - 1 - Size
        /\ x = y
    BY <1>5, <2>1
  <2> HIDE DEF x, y
  <2> QED BY <1>0, <2>2, <2>3
<1>6. \A s \in Indexes : After(s) \in Indexes
  BY <1>0, <1>2 DEF Indexes
<1>7. ASSUME NEW s \in Indexes, NEW k \in 1..Size
      PROVE  Turn(After(s), k) = Turn(s, k + 1) /\ After(Turn(s, k)) = Turn(s, k + 1)
  <2>1. Turn(s, k + 1) = IF s + k < Size THEN s + k ELSE s + k - Size
    <3>1. k + 1 \in 1..Size+1 /\ s + (k + 1) - 1 = s + k
      BY <1>0 DEF Indexes
    <3> QED BY <1>1, <3>1
  <2>2. Turn(s, k) \in Indexes /\ After(s) \in Indexes
    BY <1>0, <1>3, <1>6
  <2>3. Turn(s, k) = IF s + k - 1 < Size THEN s + k - 1 ELSE s + k - 1 - Size
    BY <1>0, <1>1
  <2>4. After(Turn(s, k)) = IF Turn(s, k) + 1 < Size THEN Turn(s, k) + 1
                            ELSE Turn(s, k) + 1 - Size
    BY <1>2, <2>2
  <2>5. Turn(After(s), k) = IF After(s) + k - 1 < Size THEN After(s) + k - 1
                            ELSE After(s) + k - 1 - Size
    BY <1>0, <1>1, <2>2
  <2>6. After(Turn(s, k)) = Turn(s, k + 1)
    BY <1>0, <2>1, <2>3, <2>4 DEF Indexes
  <2>7. Turn(After(s), k) = Turn(s, k + 1)
    BY <1>0, <1>2, <2>1, <2>5 DEF Indexes
  <2> QED BY <2>6, <2>7
<1>8. ASSUME NEW s \in Indexes PROVE Turn(After(s), Size) = s
  <2>1. After(s) \in Indexes
    BY <1>6
  <2>2. Turn(After(s), Size) = IF After(s) + Size - 1 < Size THEN After(s) + Size - 1
                               ELSE After(s) + Size - 1 - Size
    BY <1>0, <1>1, <2>1
  <2> QED BY <1>0, <1>2, <2>2 DEF Indexes
<1> QED BY <1>3, <1>4, <1>5, <1>6, <1>7, <1>8

-----------------------------------------------------------------------------
(* What the ring holds as long as enqueues do not overlap *)

Start == IF cons.pc = "read" THEN After(readIndex) ELSE readIndex
Place(k) == Turn(Start, k)
Busy(p) == ~At(p, "out")
Writes(p) == prod[p].pc \in {"write", "produced"}

Alone == \A p, q \in Producers : Busy(p) /\ Busy(q) => p = q

\* What is counted are messages in the order of their numbers, and only the first
\* can be delivered.
CountedOK ==
    /\ \A k \in 1..numProduced :
          /\ Counted(k).id \in Messages /\ Counted(k).id < nextId /\ ~Counted(k).nothing
          /\ k > 1 => ~Counted(k).delivered
    /\ \A j, k \in 1..numProduced : j < k => Counted(j).id < Counted(k).id

\* The message of a producer comes after them, in its number and in its place.
ComingOK ==
    /\ \A p \in Producers : Busy(p) =>
          /\ prod[p].id < nextId
          /\ \A k \in 1..numProduced : Counted(k).id < prod[p].id
    /\ \A p \in Producers : Writes(p) =>
          prod[p].index = Place(numProduced + 1) /\ writeIndex = After(prod[p].index)
    /\ \A p \in Producers : prod[p].pc = "produced" =>
          buffer[prod[p].index] = Occupied(prod[p].id)
    /\ (\A p \in Producers : ~Writes(p)) => writeIndex = Place(numProduced + 1)

\* The delivering thread is about the first message that is counted.
FirstOK ==
    /\ cons.pc \in {"commit", "mark", "send", "dequeue"} => numProduced > 0
    /\ cons.pc \in {"commit", "mark", "send"} => cons.id = Counted(1).id
    /\ cons.pc \in {"commit", "mark"} => ~Counted(1).delivered
    /\ cons.pc \in {"send", "dequeue"} => Counted(1).delivered
    /\ cons.pc \in {"read", "release"} /\ numProduced > 0 => ~Counted(1).delivered

RingOK == Alone /\ CountedOK /\ ComingOK /\ FirstOK
RingInv == overlapped \/ RingOK

LEMMA RingTypes ==
    ASSUME IInv
    PROVE  /\ Size \in Nat \ {0} /\ numProduced \in 0..Size /\ nextId \in 1 .. MaxMessages+1
           /\ buffer \in [Indexes -> Slots] /\ writeIndex \in Indexes
           /\ readIndex \in Indexes /\ Start \in Indexes
           /\ prod \in [Producers -> [pc : ProducerPlaces, id : Ids, index : Indexes]]
           /\ cons \in [pc : ConsumerPlaces, id : Ids]
           /\ overlapped \in BOOLEAN
BY BufferAssumption, TurnPlaces DEF IInv, TypeOK, Start, ProducerPlaces, ConsumerPlaces

LEMMA CountedIs ==
    /\ \A k : Counted(k) = buffer[Place(k)]
    /\ \A k : Counted(k)' = buffer'[Place(k)']
BY DEF Counted, Place, Turn, Start

\* There is a place for whoever has a unit of capacity.
LEMMA Room ==
    ASSUME IInv
    PROVE  /\ numProduced + Leaving <= Size
           /\ \A p \in Inserting : numProduced + Leaving + 1 <= Size
           /\ Leaving = IF cons.pc \in {"read", "release"} THEN 1 ELSE 0
<1>1. capacity \in 0..Size /\ numProduced \in 0..Size /\ Accounting /\ Size \in Nat
  BY RingTypes DEF IInv, TypeOK
<1>2. Cardinality(Inserting) \in Nat
  BY InsertingFinite
<1>3. Leaving \in {0, 1}
  BY DEF Leaving
<1>4. ASSUME NEW p \in Inserting PROVE Cardinality(Inserting) >= 1
  <2>1. Cardinality(Inserting) # 0
    BY <1>4, InsertingFinite, FS_EmptySet
  <2> QED BY <1>2, <2>1
<1> QED BY <1>1, <1>2, <1>3, <1>4 DEF Accounting, Leaving

LEMMA PlacesApart ==
    ASSUME IInv
    PROVE  /\ \A k \in 1..Size+1 : Place(k) \in Indexes
           /\ \A j, k \in 1..Size : Place(j) = Place(k) => j = k
           /\ \A k \in 1..Size : After(Place(k)) = Place(k + 1)
           /\ Place(1) = Start
           /\ cons.pc = "read" => Place(Size) = readIndex
<1>1. Start \in Indexes /\ readIndex \in Indexes
  BY RingTypes
<1>2. cons.pc = "read" => Start = After(readIndex)
  BY DEF Start
<1> QED BY <1>1, <1>2, TurnPlaces DEF Place

\* Steps that leave the counted messages where they are.
LEMMA CountedSame ==
    ASSUME readIndex' = readIndex, cons'.pc = "read" <=> cons.pc = "read"
    PROVE  /\ Start' = Start /\ \A k : Place(k)' = Place(k)
           /\ buffer' = buffer => \A k : Counted(k)' = Counted(k)
<1>1. Start' = Start
  BY DEF Start
<1>2. \A k : Place(k)' = Place(k)
  BY <1>1 DEF Place
<1> QED BY <1>1, <1>2, CountedIs

\* Steps of a producer that touch no slot.
LEMMA CountedKept ==
    ASSUME IInv, RingOK, UNCHANGED <<buffer, numProduced, readIndex, cons>>,
           nextId' \in Nat, nextId' >= nextId
    PROVE  /\ CountedOK' /\ FirstOK'
           /\ \A k : Counted(k)' = Counted(k) /\ Place(k)' = Place(k)
<1>1. \A k : Counted(k)' = Counted(k) /\ Place(k)' = Place(k)
  BY CountedSame
<1>2. FirstOK'
  BY <1>1 DEF RingOK, FirstOK
<1>3. \A k \in 1..numProduced : Counted(k).id < nextId'
  BY RingTypes DEF RingOK, CountedOK, Messages
<1>4. CountedOK'
  BY <1>1, <1>3 DEF RingOK, CountedOK
<1> QED BY <1>1, <1>2, <1>4

LEMMA RingEnqueue ==
    ASSUME IInv, RingOK, NEW p \in Producers, Enqueue(p), ~overlapped'
    PROVE  RingOK'
<1>1. /\ nextId \in 1 .. MaxMessages+1 /\ MaxMessages \in Nat /\ numProduced \in Nat
      /\ prod \in [Producers -> [pc : ProducerPlaces, id : Ids, index : Indexes]]
  BY RingTypes, BufferAssumption
<1>2. /\ UNCHANGED <<buffer, numProduced, readIndex, cons, writeIndex>>
      /\ nextId' = nextId + 1 /\ ~Busy(p)
      /\ prod'[p] = [pc |-> "capacity", id |-> nextId, index |-> 0]
      /\ \A q \in Producers \ {p} : prod'[q] = prod[q] /\ ~Busy(q)
  BY <1>1 DEF Enqueue, Busy
<1>3. /\ CountedOK' /\ FirstOK'
      /\ \A k : Counted(k)' = Counted(k) /\ Place(k)' = Place(k)
  BY <1>1, <1>2, CountedKept
<1>4. /\ prod'[p].pc = "capacity" /\ prod'[p].id = nextId
      /\ \A q \in Producers \ {p} : ~(Busy(q)')
  BY <1>2 DEF Busy, At
<1>5. Alone'
  BY <1>4 DEF Alone
<1>6. \A q \in Producers : ~(Writes(q)') /\ ~Writes(q)
  BY <1>2, <1>4 DEF Busy, At, Writes
<1>7. \A k \in 1..numProduced : Counted(k).id < nextId
  BY DEF RingOK, CountedOK
<1>8. ComingOK'
  <2>1. writeIndex = Place(numProduced + 1)
    BY <1>6 DEF RingOK, ComingOK
  <2>2. \A q \in Producers : prod'[q].pc # "produced"
    BY <1>6 DEF Writes
  <2>3. ASSUME NEW q \in Producers, Busy(q)'
        PROVE  /\ prod'[q].id < nextId'
               /\ \A k \in 1..numProduced' : Counted(k)'.id < prod'[q].id
    <3>1. q = p
      BY <1>4, <2>3
    <3> QED BY <1>1, <1>2, <1>3, <1>4, <1>7, <3>1
  <2> QED BY <1>2, <1>3, <1>6, <2>1, <2>2, <2>3 DEF ComingOK
<1> QED BY <1>3, <1>5, <1>8 DEF RingOK

LEMMA RingAdmit ==
    ASSUME IInv, RingOK, NEW p \in Producers, Admit(p)
    PROVE  RingOK'
<1>1. /\ nextId \in Nat /\ numProduced \in Nat
      /\ prod \in [Producers -> [pc : ProducerPlaces, id : Ids, index : Indexes]]
  BY RingTypes, BufferAssumption
<1>2. UNCHANGED <<buffer, numProduced, readIndex, cons, writeIndex, nextId>>
  BY DEF Admit
<1>3. /\ CountedOK' /\ FirstOK'
      /\ \A k : Counted(k)' = Counted(k) /\ Place(k)' = Place(k)
  BY <1>1, <1>2, CountedKept
<1>4. PICK l \in {"index", "out"} : prod' = [prod EXCEPT ![p].pc = l]
  BY DEF Admit, Move
<1>5. /\ prod[p].pc = "capacity" /\ prod'[p].pc = l /\ prod'[p].id = prod[p].id
      /\ \A q \in Producers \ {p} : prod'[q] = prod[q]
  BY <1>1, <1>4 DEF Admit, At
<1>6. ASSUME NEW q \in Producers
      PROVE  /\ Busy(q)' => Busy(q)
             /\ Writes(q)' <=> Writes(q)
             /\ prod'[q].id = prod[q].id
             /\ Writes(q) => prod'[q] = prod[q]
             /\ prod'[q].pc = "produced" => prod'[q] = prod[q]
  BY <1>5 DEF Busy, At, Writes
<1>7. Alone'
  BY <1>6 DEF RingOK, Alone
<1>8. ComingOK'
  <2>1. ASSUME NEW q \in Producers, Busy(q)'
        PROVE  /\ prod'[q].id < nextId'
               /\ \A k \in 1..numProduced' : Counted(k)'.id < prod'[q].id
    <3>1. Busy(q) /\ prod'[q].id = prod[q].id
      BY <1>6, <2>1
    <3> QED BY <1>2, <1>3, <3>1 DEF RingOK, ComingOK
  <2>2. ASSUME NEW q \in Producers, Writes(q)'
        PROVE  prod'[q].index = Place(numProduced + 1)' /\ writeIndex' = After(prod'[q].index)
    <3>1. Writes(q) /\ prod'[q] = prod[q]
      BY <1>6, <2>2
    <3> QED BY <1>2, <1>3, <3>1 DEF RingOK, ComingOK
  <2>3. ASSUME NEW q \in Producers, prod'[q].pc = "produced"
        PROVE  buffer'[prod'[q].index] = Occupied(prod'[q].id)
    <3>1. prod'[q] = prod[q]
      BY <1>6, <2>3
    <3> QED BY <1>2, <2>3, <3>1 DEF RingOK, ComingOK
  <2>4. (\A q \in Producers : ~(Writes(q)')) => writeIndex' = Place(numProduced + 1)'
    BY <1>2, <1>3, <1>6 DEF RingOK, ComingOK
  <2> QED BY <1>2, <2>1, <2>2, <2>3, <2>4 DEF ComingOK
<1> QED BY <1>3, <1>7, <1>8 DEF RingOK

LEMMA RingReserve ==
    ASSUME IInv, RingOK, NEW p \in Producers, Reserve(p)
    PROVE  RingOK'
<1>1. /\ nextId \in Nat /\ numProduced \in Nat
      /\ prod \in [Producers -> [pc : ProducerPlaces, id : Ids, index : Indexes]]
  BY RingTypes, BufferAssumption
<1>2. UNCHANGED <<buffer, numProduced, readIndex, cons, nextId>>
  BY DEF Reserve
<1>3. /\ CountedOK' /\ FirstOK'
      /\ \A k : Counted(k)' = Counted(k) /\ Place(k)' = Place(k)
  BY <1>1, <1>2, CountedKept
<1>4. /\ prod[p].pc = "index" /\ writeIndex' = After(writeIndex)
      /\ prod'[p].pc = "write" /\ prod'[p].id = prod[p].id /\ prod'[p].index = writeIndex
      /\ \A q \in Producers \ {p} : prod'[q] = prod[q]
  BY <1>1 DEF Reserve, At
<1>5. \A q \in Producers \ {p} : ~Busy(q) /\ ~(Busy(q)')
  BY <1>4 DEF RingOK, Alone, Busy, At
<1>6. Alone'
  BY <1>5 DEF Alone
<1>7. /\ \A q \in Producers : ~Writes(q)
      /\ \A q \in Producers : Writes(q)' => q = p
      /\ \A q \in Producers : prod'[q].pc # "produced"
      /\ Writes(p)' /\ Busy(p)
  BY <1>4, <1>5 DEF Writes, Busy, At
<1>8. writeIndex = Place(numProduced + 1)
  BY <1>7 DEF RingOK, ComingOK
<1>9. ComingOK'
  <2>1. ASSUME NEW q \in Producers, Busy(q)'
        PROVE  /\ prod'[q].id < nextId'
               /\ \A k \in 1..numProduced' : Counted(k)'.id < prod'[q].id
    <3>1. q = p
      BY <1>5, <2>1
    <3> QED BY <1>2, <1>3, <1>4, <1>7, <3>1 DEF RingOK, ComingOK
  <2>2. prod'[p].index = Place(numProduced + 1)' /\ writeIndex' = After(prod'[p].index)
    BY <1>2, <1>3, <1>4, <1>8
  <2> QED BY <1>7, <2>1, <2>2 DEF ComingOK
<1> QED BY <1>3, <1>6, <1>9 DEF RingOK

LEMMA RingWrite ==
    ASSUME IInv, RingOK, NEW p \in Producers, Write(p)
    PROVE  RingOK' /\ \A k \in 1..numProduced : Counted(k)' = Counted(k)
<1>1. /\ nextId \in Nat /\ numProduced \in Nat /\ Size \in Nat /\ buffer \in [Indexes -> Slots]
      /\ prod \in [Producers -> [pc : ProducerPlaces, id : Ids, index : Indexes]]
  BY RingTypes, BufferAssumption
<1>2. /\ UNCHANGED <<numProduced, readIndex, cons, nextId, writeIndex>>
      /\ prod[p].pc = "write"
      /\ buffer' = [buffer EXCEPT ![prod[p].index] = Occupied(prod[p].id)]
      /\ prod'[p].pc = "produced" /\ prod'[p].id = prod[p].id
      /\ prod'[p].index = prod[p].index
      /\ \A q \in Producers \ {p} : prod'[q] = prod[q]
  BY <1>1 DEF Write, At, Move
<1>3. \A k : Place(k)' = Place(k)
  BY <1>2, CountedSame
<1>4. Writes(p) /\ Busy(p) /\ p \in Inserting
  BY <1>2 DEF Writes, Busy, At, Inserting
<1>5. numProduced + 1 <= Size
  BY <1>1, <1>4, Room
<1>6. prod[p].index = Place(numProduced + 1) /\ prod[p].index \in Indexes
  BY <1>1, <1>4 DEF RingOK, ComingOK
<1>7. ASSUME NEW k \in 1..numProduced PROVE Counted(k)' = Counted(k)
  <2>1. Place(k) # prod[p].index
    BY <1>1, <1>5, <1>6, PlacesApart
  <2>2. Place(k) \in Indexes
    BY <1>1, <1>5, PlacesApart
  <2> QED BY <1>1, <1>2, <1>3, <2>1, <2>2, CountedIs
<1>8. \A q \in Producers \ {p} : ~Busy(q) /\ ~(Busy(q)')
  BY <1>2, <1>4 DEF RingOK, Alone, Busy, At
<1>9. Alone'
  BY <1>8 DEF Alone
<1>10. CountedOK'
  BY <1>2, <1>7 DEF RingOK, CountedOK
<1>11. FirstOK'
  <2>1. numProduced > 0 => Counted(1)' = Counted(1)
    BY <1>1, <1>7
  <2> QED BY <1>2, <2>1 DEF RingOK, FirstOK
<1>12. ComingOK'
  <2>1. ASSUME NEW q \in Producers, Busy(q)'
        PROVE  /\ prod'[q].id < nextId'
               /\ \A k \in 1..numProduced' : Counted(k)'.id < prod'[q].id
    <3>1. q = p
      BY <1>8, <2>1
    <3>2. prod[p].id < nextId /\ \A k \in 1..numProduced : Counted(k).id < prod[p].id
      BY <1>4 DEF RingOK, ComingOK
    <3> QED BY <1>2, <1>7, <3>1, <3>2
  <2>2. /\ prod'[p].index = Place(numProduced + 1)' /\ writeIndex' = After(prod'[p].index)
        /\ buffer'[prod'[p].index] = Occupied(prod'[p].id)
    <3>1. writeIndex = After(prod[p].index)
      BY <1>4 DEF RingOK, ComingOK
    <3> QED BY <1>1, <1>2, <1>3, <1>6, <3>1
  <2>3. /\ \A q \in Producers : Writes(q)' => q = p
        /\ \A q \in Producers : prod'[q].pc = "produced" => q = p
        /\ Writes(p)'
    BY <1>2, <1>8 DEF Writes, Busy, At
  <2> QED BY <2>1, <2>2, <2>3 DEF ComingOK
<1> QED BY <1>7, <1>9, <1>10, <1>11, <1>12 DEF RingOK

LEMMA RingProduce ==
    ASSUME IInv, HasMessage, RingOK, NEW p \in Producers, Produce(p)
    PROVE  /\ RingOK' /\ numProduced' = numProduced + 1 /\ numProduced < Size
           /\ \A k \in 1..numProduced : Counted(k)' = Counted(k)
           /\ Counted(numProduced + 1) = Occupied(prod[p].id)
           /\ prod[p].id \in Messages
<1>1. /\ nextId \in Nat /\ numProduced \in Nat /\ Size \in Nat /\ buffer \in [Indexes -> Slots]
      /\ prod \in [Producers -> [pc : ProducerPlaces, id : Ids, index : Indexes]]
  BY RingTypes, BufferAssumption
<1>2. /\ UNCHANGED <<buffer, readIndex, cons, nextId, writeIndex>>
      /\ prod[p].pc = "produced" /\ numProduced' = numProduced + 1
      /\ prod'[p].pc = "out"
      /\ \A q \in Producers \ {p} : prod'[q] = prod[q]
  BY <1>1 DEF Produce, At, Move
<1>3. \A k : Counted(k)' = Counted(k) /\ Place(k)' = Place(k)
  BY <1>2, CountedSame
<1>4. Writes(p) /\ Busy(p) /\ p \in Inserting
  BY <1>2 DEF Writes, Busy, At, Inserting
<1>5. numProduced + 1 <= Size
  BY <1>1, <1>4, Room
<1>6. /\ prod[p].index = Place(numProduced + 1) /\ writeIndex = After(prod[p].index)
      /\ buffer[prod[p].index] = Occupied(prod[p].id)
      /\ prod[p].id < nextId /\ \A k \in 1..numProduced : Counted(k).id < prod[p].id
  BY <1>2, <1>4 DEF RingOK, ComingOK
<1>7. Counted(numProduced + 1) = Occupied(prod[p].id)
  BY <1>6, CountedIs
<1>8. prod[p].id \in Messages
  BY <1>2 DEF HasMessage, At
<1>9. \A q \in Producers : ~(Busy(q)')
  BY <1>2, <1>4 DEF RingOK, Alone, Busy, At
<1>10. \A q \in Producers : ~(Writes(q)') /\ prod'[q].pc # "produced"
  BY <1>9 DEF Writes, Busy, At
<1>11. Alone'
  BY <1>9 DEF Alone
<1>12. /\ Counted(numProduced + 1).id = prod[p].id
       /\ Counted(numProduced + 1).delivered = FALSE
       /\ Counted(numProduced + 1).nothing = FALSE
  BY <1>7 DEF Occupied
<1>13. CountedOK'
  <2>1. ASSUME NEW k \in 1..numProduced'
        PROVE  /\ Counted(k)'.id \in Messages /\ Counted(k)'.id < nextId'
               /\ ~Counted(k)'.nothing
               /\ k > 1 => ~Counted(k)'.delivered
    <3>1. CASE k \in 1..numProduced
      BY <1>2, <1>3, <3>1 DEF RingOK, CountedOK
    <3>2. CASE k = numProduced + 1
      BY <1>2, <1>3, <1>6, <1>8, <1>12, <3>2
    <3> QED BY <1>1, <1>2, <3>1, <3>2
  <2>2. ASSUME NEW j \in 1..numProduced', NEW k \in 1..numProduced', j < k
        PROVE  Counted(j)'.id < Counted(k)'.id
    <3>1. CASE k \in 1..numProduced
      <4>1. j \in 1..numProduced
        BY <1>1, <1>2, <2>2, <3>1
      <4> QED BY <1>3, <2>2, <3>1, <4>1 DEF RingOK, CountedOK
    <3>2. CASE k = numProduced + 1
      <4>1. j \in 1..numProduced
        BY <1>1, <1>2, <2>2, <3>2
      <4> QED BY <1>3, <1>6, <1>12, <3>2, <4>1
    <3> QED BY <1>1, <1>2, <3>1, <3>2
  <2> QED BY <2>1, <2>2 DEF CountedOK
<1>14. FirstOK'
  <2>1. numProduced' > 0
    BY <1>1, <1>2
  <2>2. numProduced = 0 => Counted(1) = Counted(numProduced + 1)
    BY <1>1
  <2>3. numProduced > 0 \/ numProduced = 0
    BY <1>1
  <2> QED BY <1>2, <1>3, <1>12, <2>1, <2>2, <2>3 DEF RingOK, FirstOK
<1>15. ComingOK'
  <2>1. numProduced + 1 \in 1..Size /\ writeIndex = After(Place(numProduced + 1))
    BY <1>1, <1>5, <1>6
  <2>2. writeIndex = Place((numProduced + 1) + 1)
    BY <2>1, PlacesApart
  <2>3. writeIndex' = Place(numProduced + 1)'
    BY <1>2, <1>3, <2>2
  <2> QED BY <1>9, <1>10, <2>3 DEF ComingOK
<1>16. numProduced < Size
  BY <1>1, <1>5
<1> QED BY <1>2, <1>3, <1>7, <1>8, <1>11, <1>13, <1>14, <1>15, <1>16 DEF RingOK

\* Steps of the delivering thread that move nothing.
LEMMA RingCalm ==
    ASSUME RingOK, UNCHANGED <<buffer, numProduced, readIndex, writeIndex, prod, nextId>>,
           cons'.pc = "read" <=> cons.pc = "read"
    PROVE  /\ Alone' /\ CountedOK' /\ ComingOK'
           /\ \A k : Counted(k)' = Counted(k)
<1>1. \A k : Counted(k)' = Counted(k) /\ Place(k)' = Place(k)
  BY CountedSame
<1>2. \A q \in Producers : (Busy(q)' <=> Busy(q)) /\ (Writes(q)' <=> Writes(q))
  BY DEF Busy, At, Writes
<1>3. Alone'
  BY <1>2 DEF RingOK, Alone
<1>4. CountedOK'
  BY <1>1 DEF RingOK, CountedOK
<1>5. ComingOK'
  BY <1>1, <1>2 DEF RingOK, ComingOK
<1> QED BY <1>1, <1>3, <1>4, <1>5

\* No producer writes what the delivering thread reads.
LEMMA FirstRead ==
    ASSUME IInv, RingOK, cons.pc # "read", numProduced > 0, NEW m \in Copies(readIndex)
    PROVE  m.id = Counted(1).id /\ m.delivered = Counted(1).delivered /\ ~m.nothing
<1>1. numProduced \in 1..Size /\ Size \in Nat /\ Start = readIndex
  BY RingTypes DEF Start
<1>2. Counted(1) = buffer[readIndex]
  BY <1>1, PlacesApart, CountedIs
<1>3. ASSUME NEW q \in Producers, At(q, "write") PROVE prod[q].index # readIndex
  <2>1. Writes(q) /\ q \in Inserting
    BY <1>3 DEF At, Writes, Inserting
  <2>2. numProduced + 1 <= Size
    BY <1>1, <2>1, Room
  <2>3. prod[q].index = Place(numProduced + 1)
    BY <2>1 DEF RingOK, ComingOK
  <2>4. Place(1) = readIndex /\ Place(1) # Place(numProduced + 1)
    BY <1>1, <2>2, PlacesApart
  <2> QED BY <2>3, <2>4
<1>4. {q \in Producers : At(q, "write") /\ prod[q].index = readIndex} = {}
  BY <1>3
<1>5. m = [id |-> buffer[readIndex].id, delivered |-> buffer[readIndex].delivered,
           nothing |-> buffer[readIndex].nothing]
  BY <1>4 DEF Copies
<1>6. ~Counted(1).nothing
  BY <1>1 DEF RingOK, CountedOK
<1> QED BY <1>2, <1>5, <1>6

LEMMA RingPeek ==
    ASSUME IInv, RingOK, Peek
    PROVE  RingOK' /\ \A k : Counted(k)' = Counted(k)
<1>1. /\ cons.pc = "peek" /\ numProduced > 0
      /\ UNCHANGED <<buffer, numProduced, readIndex, writeIndex, prod, nextId>>
  BY DEF Peek
<1>2. PICK m \in Copies(readIndex) :
         cons' = [pc |-> IF m.nothing THEN "peek"
                         ELSE IF m.delivered THEN "dequeue" ELSE "commit", id |-> m.id]
  BY DEF Peek
<1>3. m.id = Counted(1).id /\ m.delivered = Counted(1).delivered /\ ~m.nothing
  BY <1>1, FirstRead
<1>4. /\ cons'.id = Counted(1).id
      /\ cons'.pc = IF Counted(1).delivered THEN "dequeue" ELSE "commit"
  BY <1>2, <1>3
<1>5. Alone' /\ CountedOK' /\ ComingOK' /\ \A k : Counted(k)' = Counted(k)
  BY <1>1, <1>4, RingCalm
<1>6. FirstOK'
  BY <1>1, <1>4, <1>5 DEF FirstOK
<1> QED BY <1>5, <1>6 DEF RingOK

LEMMA RingWaits ==
    ASSUME IInv, RingOK, Committed \/ NotCommitted \/ Send \/ Release
    PROVE  RingOK' /\ \A k : Counted(k)' = Counted(k)
<1>0. cons \in [pc : ConsumerPlaces, id : Ids]
  BY RingTypes
<1>1. UNCHANGED <<buffer, numProduced, readIndex, writeIndex, prod, nextId>>
  BY DEF Committed, NotCommitted, Send, Release
<1>2. /\ cons'.id = cons.id
      /\ \/ cons.pc = "commit" /\ cons'.pc = "mark"
         \/ cons.pc \in {"commit", "send", "release"} /\ cons'.pc = "peek"
  BY <1>0 DEF Committed, NotCommitted, Send, Release, ConsumerTo
<1>3. Alone' /\ CountedOK' /\ ComingOK' /\ \A k : Counted(k)' = Counted(k)
  BY <1>1, <1>2, RingCalm
<1>4. FirstOK'
  BY <1>1, <1>2, <1>3 DEF RingOK, FirstOK
<1> QED BY <1>3, <1>4 DEF RingOK

LEMMA RingMark ==
    ASSUME IInv, RingOK, Mark
    PROVE  /\ RingOK'
           /\ \A k \in 1..numProduced : Counted(k)'.id = Counted(k).id
<1>1. /\ nextId \in Nat /\ numProduced \in 1..Size /\ Size \in Nat
      /\ buffer \in [Indexes -> Slots] /\ cons \in [pc : ConsumerPlaces, id : Ids]
      /\ cons.id = Counted(1).id /\ ~Counted(1).delivered
      /\ prod \in [Producers -> [pc : ProducerPlaces, id : Ids, index : Indexes]]
  BY RingTypes DEF Mark, RingOK, FirstOK
<1>2. /\ UNCHANGED <<numProduced, readIndex, writeIndex, prod, nextId>>
      /\ cons.pc = "mark" /\ cons'.pc = "send" /\ cons'.id = cons.id
      /\ \A i \in Indexes : buffer'[i] = IF buffer[i].id = cons.id
                                         THEN [buffer[i] EXCEPT !.delivered = TRUE]
                                         ELSE buffer[i]
  BY <1>1 DEF Mark, ConsumerTo
<1>3. \A k : Place(k)' = Place(k)
  BY <1>2, CountedSame
<1>4. \A k \in 1..numProduced : Place(k) \in Indexes
  BY <1>1, PlacesApart
<1>5. ASSUME NEW k \in 1..numProduced
      PROVE  /\ Counted(k)'.id = Counted(k).id /\ Counted(k)'.nothing = Counted(k).nothing
             /\ k = 1 => Counted(k)'.delivered
             /\ k > 1 => ~Counted(k)'.delivered
  <2>1. Place(k) \in Indexes /\ Counted(k) = buffer[Place(k)] /\ Counted(k)' = buffer'[Place(k)]
    BY <1>3, <1>4, CountedIs
  <2>2. Counted(k) \in Slots
    BY <1>1, <2>1
  <2>3. Counted(k)' = IF Counted(k).id = cons.id
                      THEN [Counted(k) EXCEPT !.delivered = TRUE] ELSE Counted(k)
    BY <1>2, <2>1
  <2>4. k > 1 => Counted(1).id < Counted(k).id /\ ~Counted(k).delivered
    BY <1>1 DEF RingOK, CountedOK
  <2>5. k > 1 => Counted(k).id # cons.id
    <3>1. Counted(1).id \in Int
      BY <1>1 DEF Ids, RingOK, CountedOK, Messages
    <3> QED BY <1>1, <2>4, <3>1
  <2> DEFINE c == Counted(k)
             d == Counted(k)'
  <2>6. c \in Slots /\ d = IF c.id = cons.id THEN [c EXCEPT !.delivered = TRUE] ELSE c
    BY <2>2, <2>3
  <2> HIDE DEF c, d
  <2>7. d.id = c.id /\ d.nothing = c.nothing /\ (c.id = cons.id => d.delivered)
        /\ (c.id # cons.id => d.delivered = c.delivered)
    BY <2>6 DEF Slots
  <2> QED BY <1>1, <2>4, <2>5, <2>7 DEF c, d
<1>6. CountedOK'
  BY <1>2, <1>5 DEF RingOK, CountedOK
<1>7. FirstOK'
  BY <1>1, <1>2, <1>5 DEF FirstOK
<1>8. \A q \in Producers : (Busy(q)' <=> Busy(q)) /\ (Writes(q)' <=> Writes(q))
  BY <1>2 DEF Busy, At, Writes
<1>9. Alone'
  BY <1>8 DEF RingOK, Alone
<1>10. ASSUME NEW q \in Producers, prod[q].pc = "produced"
       PROVE  buffer'[prod[q].index] = Occupied(prod[q].id)
  <2>1. Busy(q) /\ prod[q].index \in Indexes
    BY <1>1, <1>10 DEF Busy, At
  <2>2. buffer[prod[q].index] = Occupied(prod[q].id) /\ Counted(1).id < prod[q].id
    BY <1>1, <1>10, <2>1 DEF RingOK, ComingOK
  <2>3. Occupied(prod[q].id).id # cons.id
    <3>1. Counted(1).id \in Int /\ prod[q].id \in Int
      BY <1>1 DEF Ids, RingOK, CountedOK, Messages
    <3> QED BY <1>1, <2>2, <3>1 DEF Occupied
  <2> QED BY <1>2, <2>1, <2>2, <2>3
<1>11. ComingOK'
  BY <1>2, <1>3, <1>5, <1>8, <1>10 DEF RingOK, ComingOK
<1> QED BY <1>5, <1>6, <1>7, <1>9, <1>11 DEF RingOK

LEMMA RingDequeue ==
    ASSUME IInv, RingOK, Dequeue
    PROVE  /\ RingOK' /\ numProduced > 0 /\ numProduced' = numProduced - 1
           /\ Counted(1).delivered /\ cons.pc = "dequeue" /\ cons'.pc = "read"
           /\ \A k \in 1..numProduced' : Counted(k)' = Counted(k + 1)
<1>1. /\ nextId \in Nat /\ numProduced \in 1..Size /\ Size \in Nat
      /\ cons \in [pc : ConsumerPlaces, id : Ids] /\ cons.pc = "dequeue"
      /\ Counted(1).delivered /\ Start = readIndex /\ readIndex \in Indexes
  BY RingTypes DEF Dequeue, RingOK, FirstOK, Start
<1>2. /\ UNCHANGED <<buffer, readIndex, writeIndex, prod, nextId>>
      /\ numProduced' = numProduced - 1 /\ cons'.pc = "read"
  BY <1>1 DEF Dequeue, ConsumerTo
<1>3. Start' = After(Start)
  BY <1>1, <1>2 DEF Start
<1>4. ASSUME NEW k \in 1..Size PROVE Place(k)' = Place(k + 1)
  BY <1>1, <1>2, <1>3, TurnPlaces DEF Place
<1>5. ASSUME NEW k \in 1..Size PROVE Counted(k)' = Counted(k + 1)
  BY <1>2, <1>4, CountedIs
<1>6. \A k \in 1..numProduced' : k \in 1..Size /\ k + 1 \in 1..numProduced
  BY <1>1, <1>2
<1>7. CountedOK'
  <2>1. ASSUME NEW k \in 1..numProduced'
        PROVE  /\ Counted(k)'.id \in Messages /\ Counted(k)'.id < nextId'
               /\ ~Counted(k)'.nothing /\ ~Counted(k)'.delivered
    <3>1. k + 1 \in 1..numProduced /\ k + 1 > 1 /\ Counted(k)' = Counted(k + 1)
      BY <1>1, <1>5, <1>6
    <3> QED BY <1>2, <3>1 DEF RingOK, CountedOK
  <2>2. ASSUME NEW j \in 1..numProduced', NEW k \in 1..numProduced', j < k
        PROVE  Counted(j)'.id < Counted(k)'.id
    <3>1. /\ j + 1 \in 1..numProduced /\ k + 1 \in 1..numProduced /\ j + 1 < k + 1
          /\ Counted(j)' = Counted(j + 1) /\ Counted(k)' = Counted(k + 1)
      BY <1>1, <1>5, <1>6, <2>2
    <3> QED BY <3>1 DEF RingOK, CountedOK
  <2> QED BY <2>1, <2>2 DEF CountedOK
<1>8. FirstOK'
  <2>1. ASSUME numProduced' > 0 PROVE ~Counted(1)'.delivered
    <3>1. 1 \in 1..numProduced' /\ 2 \in 1..numProduced
      BY <1>1, <1>2, <2>1
    <3>2. Counted(1)' = Counted(2)
      BY <1>5, <1>6, <3>1
    <3> QED BY <3>1, <3>2 DEF RingOK, CountedOK
  <2> QED BY <1>2, <2>1 DEF FirstOK
<1>9. \A q \in Producers : (Busy(q)' <=> Busy(q)) /\ (Writes(q)' <=> Writes(q))
  BY <1>2 DEF Busy, At, Writes
<1>10. Alone'
  BY <1>9 DEF RingOK, Alone
<1>11. ComingOK'
  <2>1. Place(numProduced + 1)' = Place(numProduced + 1)
    <3>1. (numProduced - 1) + 1 = numProduced /\ numProduced \in 1..Size
      BY <1>1
    <3>2. Place(numProduced + 1)' = Turn(Start', numProduced)
      BY <1>2, <3>1 DEF Place
    <3>3. Turn(Start', numProduced) = Turn(Start, numProduced + 1)
      BY <1>1, <1>3, <3>1, TurnPlaces
    <3> QED BY <3>2, <3>3 DEF Place
  <2>2. ASSUME NEW q \in Producers, Busy(q), NEW k \in 1..numProduced'
        PROVE  Counted(k)'.id < prod[q].id
    <3>1. k + 1 \in 1..numProduced /\ Counted(k)' = Counted(k + 1)
      BY <1>5, <1>6
    <3> QED BY <2>2, <3>1 DEF RingOK, ComingOK
  <2> QED BY <1>2, <1>9, <2>1, <2>2 DEF RingOK, ComingOK
<1>12. \A k \in 1..numProduced' : Counted(k)' = Counted(k + 1)
  BY <1>5, <1>6
<1> QED BY <1>1, <1>2, <1>7, <1>8, <1>10, <1>11, <1>12 DEF RingOK

LEMMA RingRead ==
    ASSUME IInv, RingOK, Read
    PROVE  RingOK' /\ \A k \in 1..numProduced : Counted(k)' = Counted(k)
<1>1. /\ numProduced \in 0..Size /\ Size \in Nat /\ readIndex \in Indexes
      /\ buffer \in [Indexes -> Slots] /\ cons \in [pc : ConsumerPlaces, id : Ids]
      /\ prod \in [Producers -> [pc : ProducerPlaces, id : Ids, index : Indexes]]
      /\ cons.pc = "read" /\ Start = After(readIndex)
  BY RingTypes DEF Read, Start
<1>2. /\ UNCHANGED <<numProduced, writeIndex, prod, nextId>>
      /\ readIndex' = After(readIndex) /\ cons'.pc = "release"
      /\ \A i \in Indexes : i # readIndex => buffer'[i] = buffer[i]
  BY <1>1 DEF Read, ConsumerTo
<1>3. Start' = Start
  BY <1>1, <1>2 DEF Start
<1>4. \A k : Place(k)' = Place(k)
  BY <1>3 DEF Place
<1>5. numProduced + 1 <= Size /\ \A q \in Inserting : numProduced + 2 <= Size
  BY <1>1, Room
<1>6. \A k \in 1..Size : Place(k) \in Indexes /\ (Place(k) = readIndex => k = Size)
  BY <1>1, PlacesApart
<1>7. ASSUME NEW k \in 1..numProduced PROVE Counted(k)' = Counted(k)
  <2>1. k \in 1..Size /\ k # Size
    BY <1>1, <1>5
  <2>2. Place(k) \in Indexes /\ Place(k) # readIndex
    BY <1>6, <2>1
  <2> QED BY <1>2, <1>4, <2>2, CountedIs
<1>8. ASSUME NEW q \in Producers, prod[q].pc = "produced"
      PROVE  buffer'[prod[q].index] = buffer[prod[q].index]
  <2>1. Writes(q) /\ q \in Inserting
    BY <1>8 DEF Writes, Inserting
  <2>2. numProduced + 1 \in 1..Size /\ numProduced + 1 # Size
    BY <1>1, <1>5, <2>1
  <2>3. prod[q].index = Place(numProduced + 1)
    BY <2>1 DEF RingOK, ComingOK
  <2>4. prod[q].index \in Indexes /\ prod[q].index # readIndex
    BY <1>6, <2>2, <2>3
  <2> QED BY <1>2, <2>4
<1>9. \A q \in Producers : (Busy(q)' <=> Busy(q)) /\ (Writes(q)' <=> Writes(q))
  BY <1>2 DEF Busy, At, Writes
<1>10. Alone'
  BY <1>9 DEF RingOK, Alone
<1>11. CountedOK'
  BY <1>2, <1>7 DEF RingOK, CountedOK
<1>12. FirstOK'
  <2>1. numProduced > 0 => 1 \in 1..numProduced
    BY <1>1
  <2> QED BY <1>1, <1>2, <1>7, <2>1 DEF RingOK, FirstOK
<1>13. ComingOK'
  BY <1>2, <1>4, <1>7, <1>8, <1>9 DEF RingOK, ComingOK
<1> QED BY <1>7, <1>10, <1>11, <1>12, <1>13 DEF RingOK

\* Once enqueues have overlapped, they have for ever.
LEMMA OverlapStays ==
    ASSUME IInv, [Next]_vars, ~overlapped'
    PROVE  ~overlapped
BY DEF Next, Insert, Deliver, Enqueue, Admit, Reserve, Write, Produce, Peek, Committed,
       NotCommitted, Mark, Send, Dequeue, Read, Release, Quiet, vars

LEMMA RingKept ==
    ASSUME IInv, HasMessage, RingInv, [Next]_vars
    PROVE  RingInv'
<1> SUFFICES ASSUME ~overlapped' PROVE RingOK'
  BY DEF RingInv
<1>1. RingOK
  BY OverlapStays DEF RingInv
<1>2. ASSUME NEW p \in Producers, Insert(p) PROVE RingOK'
  BY <1>1, <1>2, RingEnqueue, RingAdmit, RingReserve, RingWrite, RingProduce DEF Insert
<1>3. CASE Deliver
  BY <1>1, <1>3, RingPeek, RingWaits, RingMark, RingDequeue, RingRead DEF Deliver
<1>4. CASE UNCHANGED vars
  <2>1. UNCHANGED <<buffer, numProduced, readIndex, writeIndex, prod, nextId, cons>>
    BY <1>4 DEF vars
  <2>2. Alone' /\ CountedOK' /\ ComingOK' /\ \A k : Counted(k)' = Counted(k)
    BY <1>1, <2>1, RingCalm
  <2>3. FirstOK'
    BY <1>1, <2>1, <2>2 DEF RingOK, FirstOK
  <2> QED BY <2>2, <2>3 DEF RingOK
<1> QED BY <1>2, <1>3, <1>4 DEF Next, Quiet

LEMMA RingBegins == Init => RingInv
<1> SUFFICES ASSUME Init PROVE RingOK
  BY DEF RingInv
<1>1. \A p \in Producers : ~Busy(p) /\ ~Writes(p) /\ prod[p].pc # "produced"
  BY DEF Init, Busy, At, Writes
<1>2. numProduced = 0 /\ cons.pc = "peek" /\ writeIndex = 0 /\ Start = 0
  BY DEF Init, Start
<1>3. 0 \in Indexes
  BY BufferAssumption DEF Indexes
<1>4. Place(numProduced + 1) = 0
  BY <1>2, <1>3, TurnPlaces DEF Place
<1>5. Alone /\ CountedOK /\ FirstOK
  BY <1>1, <1>2 DEF Alone, CountedOK, FirstOK
<1>6. ComingOK
  BY <1>1, <1>2, <1>4 DEF ComingOK
<1> QED BY <1>5, <1>6 DEF RingOK

-----------------------------------------------------------------------------
(* The ring as a mailbox *)

\* The messages that are counted, those after the first, and which of the two
\* are still to be sent: the first waits to be dequeued once it has been sent.
All  == [k \in 1..numProduced |-> Counted(k).id]
Rest == [k \in 1..numProduced - 1 |-> Counted(k + 1).id]
Sent == numProduced > 0 /\ Counted(1).delivered /\ cons.pc # "send"
Waiting == IF Sent THEN Rest ELSE All

LEMMA FunctionIsSeq ==
    ASSUME NEW S, NEW n \in Nat, NEW f \in [1..n -> S]
    PROVE  f \in Seq(S) /\ Len(f) = n
<1>1. f \in Seq(S)
  BY SeqDef
<1>2. Len(f) \in Nat /\ DOMAIN f = 1..Len(f)
  BY <1>1, LenProperties
<1>3. 1..n = 1..Len(f)
  BY <1>2
<1>4. ASSUME NEW m \in Nat, NEW k \in Nat, 1..m = 1..k PROVE m = k
  BY <1>4
<1> QED BY <1>1, <1>2, <1>3, <1>4

LEMMA WaitingTypes ==
    ASSUME IInv, RingOK
    PROVE  /\ All \in Seq(Messages) /\ Len(All) = numProduced
           /\ numProduced > 0 => /\ Rest \in Seq(Messages) /\ Len(Rest) = numProduced - 1
                                 /\ All # <<>> /\ Head(All) = Counted(1).id
                                 /\ Rest = Tail(All)
           /\ Waiting \in Seq(Messages) /\ Len(Waiting) <= numProduced
<1>1. numProduced \in Nat
  BY RingTypes
<1>2. \A k \in 1..numProduced : Counted(k).id \in Messages
  BY DEF RingOK, CountedOK
<1>3. All \in [1..numProduced -> Messages]
  BY <1>2 DEF All
<1>4. All \in Seq(Messages) /\ Len(All) = numProduced
  BY <1>1, <1>3, FunctionIsSeq
<1>5. ASSUME numProduced > 0
      PROVE  /\ Rest \in Seq(Messages) /\ Len(Rest) = numProduced - 1
             /\ All # <<>> /\ Head(All) = Counted(1).id
             /\ Rest = Tail(All)
  <2>1. numProduced - 1 \in Nat /\ 1 \in 1..numProduced
        /\ \A k \in 1..numProduced - 1 : k + 1 \in 1..numProduced
    BY <1>1, <1>5
  <2>2. Rest \in [1..numProduced - 1 -> Messages]
    BY <1>2, <2>1 DEF Rest
  <2>3. Rest \in Seq(Messages) /\ Len(Rest) = numProduced - 1
    BY <2>1, <2>2, FunctionIsSeq
  <2>4. All # <<>>
    BY <1>4, <1>5, EmptySeq
  <2>5. Head(All) = All[1] /\ All[1] = Counted(1).id
    BY <1>4, <2>1, <2>4 DEF All
  <2>6. /\ Tail(All) \in Seq(Messages) /\ Len(Tail(All)) = numProduced - 1
        /\ \A k \in 1..Len(Tail(All)) : Tail(All)[k] = All[k + 1]
    BY <1>4, <2>4, HeadTailProperties
  <2>7. \A k \in 1..numProduced - 1 : Rest[k] = Tail(All)[k]
    BY <2>1, <2>6 DEF All, Rest
  <2>8. Rest = Tail(All)
    BY <2>3, <2>6, <2>7, SeqEqual
  <2> QED BY <2>3, <2>4, <2>5, <2>8
<1>6. Waiting \in Seq(Messages) /\ Len(Waiting) <= numProduced
  BY <1>1, <1>4, <1>5 DEF Waiting, Sent
<1> QED BY <1>4, <1>5, <1>6

LEMMA PendingIs == IInv /\ RingOK => Pending = Waiting
<1> SUFFICES ASSUME IInv, RingOK PROVE Pending = Waiting
  OBVIOUS
<1>1. /\ numProduced \in Nat /\ Waiting \in Seq(Messages)
      /\ All \in Seq(Messages) /\ Len(All) = numProduced
  BY RingTypes, WaitingTypes
<1>2. CASE cons.pc = "send"
  <2>1. /\ numProduced > 0 /\ cons.id = Counted(1).id /\ Counted(1).delivered
        /\ Waiting = All
    BY <1>2 DEF RingOK, FirstOK, Waiting, Sent
  <2>2. Pending = <<cons.id>> \o Rest
    BY <1>2, <2>1 DEF Pending, Rest
  <2>3. /\ Rest \in Seq(Messages) /\ Len(Rest) = numProduced - 1
        /\ Rest = Tail(All) /\ All # <<>> /\ cons.id = Head(All)
    BY <2>1, WaitingTypes
  <2>4. cons.id \in Messages /\ cons.id = All[1]
    BY <1>1, <2>3, HeadTailProperties
  <2>5. <<cons.id>> \in Seq(Messages) /\ Len(<<cons.id>>) = 1
    BY <2>4
  <2> DEFINE both == <<cons.id>> \o Rest
  <2>6. /\ both \in Seq(Messages) /\ Len(both) = 1 + (numProduced - 1)
        /\ \A i \in 1 .. 1 + (numProduced - 1) :
              both[i] = IF i <= 1 THEN <<cons.id>>[i] ELSE Rest[i - 1]
    BY <2>3, <2>5, ConcatProperties
  <2>7. \A i \in 1..Len(Rest) : Rest[i] = All[i + 1]
    BY <1>1, <2>3, HeadTailProperties
  <2>8. \A i \in 1..numProduced : both[i] = All[i]
    <3> SUFFICES ASSUME NEW i \in 1..numProduced PROVE both[i] = All[i]
      OBVIOUS
    <3>1. CASE i = 1
      BY <1>1, <2>4, <2>6, <3>1
    <3>2. CASE i > 1
      <4>1. i - 1 \in 1..Len(Rest) /\ (i - 1) + 1 = i
        BY <1>1, <2>3, <3>2
      <4>2. Rest[i - 1] = All[(i - 1) + 1]
        BY <2>7, <4>1
      <4>3. i \in 1 .. 1 + (numProduced - 1) /\ ~(i <= 1)
        BY <1>1, <3>2
      <4>4. both[i] = Rest[i - 1]
        BY <2>6, <4>3
      <4> QED BY <4>1, <4>2, <4>4
    <3>3. i = 1 \/ i > 1
      BY <1>1
    <3> QED BY <3>1, <3>2, <3>3
  <2>9. Len(both) = numProduced
    BY <1>1, <2>1, <2>6
  <2>10. both = All
    BY <1>1, <2>6, <2>8, <2>9, SeqEqual
  <2> QED BY <2>1, <2>2, <2>10
<1>3. CASE cons.pc # "send"
  <2>1. Pending = <<>> \o Waiting
    <3>1. CASE Sent
      BY <1>3, <3>1 DEF Pending, Waiting, Rest, Sent
    <3>2. CASE ~Sent
      <4>1. numProduced - 0 = numProduced /\ \A k \in 1..numProduced : k + 0 = k
        BY <1>1
      <4>2. Pending = <<>> \o [k \in 1..numProduced - 0 |-> Counted(k + 0).id]
        BY <1>3, <3>2 DEF Pending, Sent
      <4>3. [k \in 1..numProduced - 0 |-> Counted(k + 0).id] = All
        BY <4>1 DEF All
      <4> QED BY <3>2, <4>2, <4>3 DEF Waiting
    <3> QED BY <3>1, <3>2
  <2> QED BY <1>1, <2>1, ConcatEmptySeq
<1> QED BY <1>2, <1>3

LEMMA PendingWillBe == (IInv /\ RingOK)' => (Pending = Waiting)'
BY PendingIs, PTL

LEMMA RestWillBe == (IInv /\ RingOK)' => (numProduced > 0 => Rest = Tail(All))'
<1>1. IInv /\ RingOK => (numProduced > 0 => Rest = Tail(All))
  BY WaitingTypes
<1> QED BY <1>1, PTL

\* Steps that leave the identities where they are, and what is sent.
LEMMA WaitingKept ==
    ASSUME numProduced \in Nat, numProduced' = numProduced,
           \A k \in 1..numProduced : Counted(k)'.id = Counted(k).id,
           Sent' <=> Sent
    PROVE  Waiting' = Waiting
<1>1. All' = All
  BY DEF All
<1>2. \A k \in 1..numProduced - 1 : k + 1 \in 1..numProduced
  OBVIOUS
<1>3. \A k \in 1..numProduced - 1 : Counted(k + 1)'.id = Counted(k + 1).id
  BY <1>2
<1>4. Rest' = Rest
  BY <1>3 DEF Rest
<1> QED BY <1>1, <1>4 DEF Waiting

LEMMA QueueRests ==
    ASSUME IInv, HasMessage, RingOK,
           \/ Peek \/ Committed \/ NotCommitted \/ Mark \/ Read \/ Release \/ UNCHANGED vars
           \/ \E p \in Producers : Enqueue(p) \/ Admit(p) \/ Reserve(p) \/ Write(p)
    PROVE  Waiting' = Waiting /\ sent' = sent
<1>1. /\ numProduced \in Nat /\ cons \in [pc : ConsumerPlaces, id : Ids]
      /\ nextId \in Nat
  BY RingTypes
<1>2. numProduced' = numProduced /\ sent' = sent
  BY DEF Peek, Committed, NotCommitted, Mark, Read, Release, Enqueue, Admit, Reserve,
         Write, vars
<1>3. CASE Peek
  <2>1. \A k : Counted(k)' = Counted(k)
    BY <1>3, RingPeek
  <2>2. cons.pc = "peek" /\ cons'.pc # "send"
    BY <1>3 DEF Peek
  <2>3. Sent' <=> Sent
    BY <1>2, <2>1, <2>2 DEF Sent
  <2> QED BY <1>1, <1>2, <2>1, <2>3, WaitingKept
<1>4. CASE Committed \/ NotCommitted \/ Release
  <2>1. \A k : Counted(k)' = Counted(k)
    BY <1>4, RingWaits
  <2>2. cons.pc # "send" /\ cons'.pc # "send"
    BY <1>1, <1>4 DEF Committed, NotCommitted, Release, ConsumerTo
  <2>3. Sent' <=> Sent
    BY <1>2, <2>1, <2>2 DEF Sent
  <2> QED BY <1>1, <1>2, <2>1, <2>3, WaitingKept
<1>5. CASE Mark
  <2>1. \A k \in 1..numProduced : Counted(k)'.id = Counted(k).id
    BY <1>5, RingMark
  <2>2. ~Counted(1).delivered /\ cons'.pc = "send"
    BY <1>1, <1>5 DEF Mark, ConsumerTo, RingOK, FirstOK
  <2>3. Sent' <=> Sent
    BY <2>2 DEF Sent
  <2> QED BY <1>1, <1>2, <2>1, <2>3, WaitingKept
<1>6. CASE Read
  <2>1. \A k \in 1..numProduced : Counted(k)' = Counted(k)
    BY <1>6, RingRead
  <2>2. cons.pc # "send" /\ cons'.pc # "send"
    BY <1>1, <1>6 DEF Read, ConsumerTo
  <2>3. numProduced > 0 => Counted(1)' = Counted(1)
    BY <1>1, <2>1
  <2>4. Sent' <=> Sent
    BY <1>2, <2>2, <2>3 DEF Sent
  <2> QED BY <1>1, <1>2, <2>1, <2>4, WaitingKept
<1>7. CASE UNCHANGED vars
  <2>1. UNCHANGED <<buffer, numProduced, readIndex, cons>>
    BY <1>7 DEF vars
  <2>2. \A k : Counted(k)' = Counted(k)
    BY <2>1, CountedSame
  <2>3. Sent' <=> Sent
    BY <2>1, <2>2 DEF Sent
  <2> QED BY <1>1, <1>2, <2>2, <2>3, WaitingKept
<1>8. ASSUME NEW p \in Producers, Enqueue(p) \/ Admit(p) \/ Reserve(p) \/ Write(p)
      PROVE  Waiting' = Waiting
  <2>1. cons' = cons
    BY <1>8 DEF Enqueue, Admit, Reserve, Write
  <2>2. \A k \in 1..numProduced : Counted(k)' = Counted(k)
    <3>1. CASE Write(p)
      BY <3>1, RingWrite
    <3>2. CASE Enqueue(p) \/ Admit(p) \/ Reserve(p)
      <4>1. UNCHANGED <<buffer, readIndex, cons>>
        BY <3>2 DEF Enqueue, Admit, Reserve
      <4> QED BY <4>1, CountedSame
    <3> QED BY <1>8, <3>1, <3>2
  <2>3. numProduced > 0 => Counted(1)' = Counted(1)
    BY <1>1, <2>2
  <2>4. Sent' <=> Sent
    BY <1>2, <2>1, <2>3 DEF Sent
  <2> QED BY <1>1, <1>2, <2>2, <2>4, WaitingKept
<1> QED BY <1>2, <1>3, <1>4, <1>5, <1>6, <1>7, <1>8

LEMMA QueueDequeue ==
    ASSUME IInv, RingOK, Dequeue
    PROVE  Waiting' = Waiting /\ sent' = sent
<1>1. /\ RingOK' /\ numProduced > 0 /\ numProduced' = numProduced - 1
      /\ Counted(1).delivered /\ cons.pc = "dequeue" /\ cons'.pc = "read"
      /\ \A k \in 1..numProduced' : Counted(k)' = Counted(k + 1)
  BY RingDequeue
<1>2. Waiting = Rest
  BY <1>1 DEF Waiting, Sent
<1>3. Waiting' = All'
  BY <1>1 DEF Waiting, Sent, RingOK, FirstOK
<1>4. All' = [k \in 1..numProduced' |-> Counted(k)'.id]
  BY DEF All
<1>5. All' = Rest
  BY <1>1, <1>4 DEF Rest
<1>6. sent' = sent
  BY DEF Dequeue
<1> QED BY <1>2, <1>3, <1>5, <1>6

LEMMA QueueSend ==
    ASSUME IInv, RingOK, Send, ~overlapped
    PROVE  /\ Waiting # <<>> /\ Waiting' = Tail(Waiting)
           /\ sent' = Append(sent, Head(Waiting))
<1>1. /\ cons.pc = "send" /\ numProduced > 0 /\ cons.id = Counted(1).id
      /\ Counted(1).delivered /\ cons \in [pc : ConsumerPlaces, id : Ids]
  BY RingTypes DEF Send, RingOK, FirstOK
<1>2. /\ numProduced' = numProduced /\ cons'.pc = "peek"
      /\ sent' = Append(sent, cons.id)
  BY <1>1 DEF Send, ConsumerTo
<1>3. \A k : Counted(k)' = Counted(k)
  BY RingWaits
<1>4. Waiting = All /\ Waiting' = Rest'
  BY <1>1, <1>2, <1>3 DEF Waiting, Sent
<1>5. Rest' = Rest
  BY <1>2, <1>3 DEF Rest
<1>6. All # <<>> /\ Head(All) = Counted(1).id /\ Rest = Tail(All)
  BY <1>1, WaitingTypes
<1> QED BY <1>1, <1>2, <1>4, <1>5, <1>6

LEMMA QueueProduce ==
    ASSUME IInv, HasMessage, RingOK, NEW p \in Producers, Produce(p)
    PROVE  /\ prod[p].id \in Messages /\ Len(Waiting) < Size
           /\ Waiting' = Append(Waiting, prod[p].id) /\ sent' = sent
<1>1. /\ RingOK' /\ numProduced' = numProduced + 1 /\ numProduced < Size
      /\ \A k \in 1..numProduced : Counted(k)' = Counted(k)
      /\ Counted(numProduced + 1) = Occupied(prod[p].id)
      /\ prod[p].id \in Messages
  BY RingProduce
<1>2. /\ numProduced \in Nat /\ Size \in Nat /\ Waiting \in Seq(Messages)
      /\ Len(Waiting) <= numProduced /\ Len(Waiting) \in Nat
  BY RingTypes, WaitingTypes, LenProperties
<1>3. /\ UNCHANGED <<buffer, readIndex, cons, sent>>
      /\ \A k : Counted(k)' = Counted(k)
  <2>1. UNCHANGED <<buffer, readIndex, cons, sent>>
    BY DEF Produce
  <2> QED BY <2>1, CountedSame
<1> DEFINE m == prod[p].id
           n == numProduced
<1>4. Counted(n + 1).id = m /\ ~Counted(n + 1).delivered
  BY <1>1 DEF Occupied
<1>5. Sent' <=> Sent
  <2>1. CASE n > 0
    BY <1>1, <1>2, <1>3, <2>1 DEF Sent
  <2>2. CASE n = 0
    <3>1. ~Counted(1).delivered
      BY <1>4, <2>2
    <3> QED BY <1>3, <2>2, <3>1 DEF Sent
  <2> QED BY <1>2, <2>1, <2>2
<1>6. All \in Seq(Messages) /\ Len(All) = n
  BY WaitingTypes
<1>7. All' = Append(All, m)
  <2>1. /\ Append(All, m) \in Seq(Messages) /\ Len(Append(All, m)) = n + 1
        /\ \A k \in 1..n : Append(All, m)[k] = All[k]
        /\ Append(All, m)[n + 1] = m
    BY <1>1, <1>6, AppendProperties
  <2>2. All' = [k \in 1..n + 1 |-> Counted(k).id]
    BY <1>1, <1>3 DEF All
  <2>3. \A k \in 1..n + 1 : Counted(k).id = Append(All, m)[k]
    <3> SUFFICES ASSUME NEW k \in 1..n + 1 PROVE Counted(k).id = Append(All, m)[k]
      OBVIOUS
    <3>1. CASE k \in 1..n
      BY <2>1, <3>1 DEF All
    <3>2. CASE k = n + 1
      BY <1>4, <2>1, <3>2
    <3>3. k \in 1..n \/ k = n + 1
      BY <1>2
    <3> QED BY <3>1, <3>2, <3>3
  <2>4. Append(All, m) = [k \in 1..n + 1 |-> Append(All, m)[k]]
    BY <1>2, <2>1, LenProperties
  <2> QED BY <2>2, <2>3, <2>4
<1>8. CASE ~Sent
  BY <1>1, <1>2, <1>3, <1>5, <1>7, <1>8 DEF Waiting
<1>9. CASE Sent
  <2>1. n > 0 /\ Rest = Tail(All) /\ All # <<>>
    BY <1>9, WaitingTypes DEF Sent
  <2>2. Append(All, m) # <<>> /\ Tail(Append(All, m)) = Append(Rest, m)
    BY <1>1, <1>6, <2>1, HeadTailAppend, AppendProperties
  <2>3. IInv'
    BY StepIInv DEF Next, Insert
  <2>4. numProduced' > 0 => Rest' = Tail(All')
    BY <1>1, <2>3, RestWillBe
  <2>5. numProduced' > 0
    BY <1>1, <1>2
  <2>6. Rest' = Tail(All')
    BY <2>4, <2>5
  <2>7. Tail(All') = Tail(Append(All, m))
    BY <1>7
  <2>8. Rest' = Append(Rest, m)
    BY <2>2, <2>6, <2>7
  <2> QED BY <1>1, <1>2, <1>3, <1>5, <1>9, <2>8 DEF Waiting
<1> QED BY <1>8, <1>9

LEMMA BoxBegins == Init => Box!Init
<1> SUFFICES ASSUME Init PROVE Pending = <<>> /\ sent = <<>>
  BY DEF Box!Init
<1>1. IInv /\ RingOK
  <2>1. ~overlapped
    BY DEF Init
  <2> QED BY <2>1, Initially, RingBegins DEF RingInv
<1>2. numProduced = 0 /\ sent = <<>>
  BY DEF Init
<1>3. Waiting \in Seq(Messages) /\ Len(Waiting) <= 0
  BY <1>1, <1>2, WaitingTypes
<1>4. Waiting = <<>>
  BY <1>3, LenProperties, EmptySeq
<1> QED BY <1>1, <1>2, <1>4, PendingIs

LEMMA BoxSteps ==
    IInv /\ HasMessage /\ RingInv /\ [Next]_vars /\ IInv' /\ RingInv'
      => [Box!Next \/ overlapped']_<<Pending, sent>>
<1> SUFFICES ASSUME IInv, HasMessage, RingInv, [Next]_vars, IInv', RingInv', ~overlapped'
             PROVE  Box!Next \/ UNCHANGED <<Pending, sent>>
  OBVIOUS
<1>1. ~overlapped /\ RingOK /\ RingOK'
  BY OverlapStays DEF RingInv
<1>2. Pending = Waiting /\ Pending' = Waiting'
  BY <1>1, PendingIs, PendingWillBe
<1>3. ASSUME Waiting' = Waiting, sent' = sent
      PROVE  Box!Next \/ UNCHANGED <<Pending, sent>>
  BY <1>2, <1>3
<1>4. ASSUME NEW p \in Producers, Produce(p) PROVE Box!Next
  <2>1. /\ prod[p].id \in Messages /\ Len(Waiting) < Size
        /\ Waiting' = Append(Waiting, prod[p].id) /\ sent' = sent
    BY <1>1, <1>4, QueueProduce
  <2>2. Box!Accept(prod[p].id)
    BY <1>2, <2>1 DEF Box!Accept
  <2> QED BY <2>1, <2>2 DEF Box!Next
<1>5. CASE Send
  <2>1. /\ Waiting # <<>> /\ Waiting' = Tail(Waiting)
        /\ sent' = Append(sent, Head(Waiting))
    BY <1>1, <1>5, QueueSend
  <2>2. Box!HandOut
    BY <1>2, <2>1 DEF Box!HandOut
  <2> QED BY <2>2 DEF Box!Next
<1>6. CASE Dequeue
  BY <1>1, <1>3, <1>6, QueueDequeue
<1>7. CASE \/ Peek \/ Committed \/ NotCommitted \/ Mark \/ Read \/ Release \/ UNCHANGED vars
           \/ \E p \in Producers : Enqueue(p) \/ Admit(p) \/ Reserve(p) \/ Write(p)
  BY <1>1, <1>3, <1>7, QueueRests
<1> QED BY <1>4, <1>5, <1>6, <1>7 DEF Next, Deliver, Insert, Quiet

\* For every number of producers, size and number of messages: as long as enqueues do
\* not overlap, the ring is a first-in first-out mailbox.  A message that is counted
\* in joins the end, what is sent on is the head, and marking, peeking and the
\* dequeue that comes later are steps nobody sees.
THEOREM MailboxImplemented == Spec => FirstInFirstOut
<1>1. Init => IInv /\ HasMessage /\ RingInv /\ Box!Init
  BY Initially, RingBegins, BoxBegins
<1>2. IInv /\ HasMessage /\ RingInv /\ [Next]_vars
        => (IInv /\ HasMessage /\ RingInv)' /\ [Box!Next \/ overlapped']_<<Pending, sent>>
  BY StepIInv, RingKept, BoxSteps
<1> QED
  BY <1>1, <1>2, PTL DEF Spec, FirstInFirstOut

=============================================================================

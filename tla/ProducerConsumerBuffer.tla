----------------------- MODULE ProducerConsumerBuffer -----------------------
(***************************************************************************)
(* The messages that wait for one user: a ProducerConsumerBuffer, the      *)
(* threads that MessageManager::processIncomingMessage starts to enqueue   *)
(* in it, and the one thread that delivers, SessionController::            *)
(* deliverMessages with getPacket and markDelivered of MessageManager      *)
(* (the session's _sem keeps a second session of the user out).            *)
(*                                                                         *)
(* Producers of different senders run concurrently on the leader.  Every   *)
(* counter has a semaphore of its own, held for the two lines that use it, *)
(* so each of these sections is a step; nothing guards the slots.          *)
(* waitCommit is a choice: the DELIVERED command is committed or not.      *)
(***************************************************************************)
EXTENDS Integers, Sequences, FiniteSets

CONSTANTS
    Producers,      \* threads that may call enqueue
    Size,           \* _maxBufferSize
    MaxMessages     \* bound: messages 1..MaxMessages are sent

ASSUME BufferAssumption ==
    /\ IsFiniteSet(Producers)
    /\ Size \in Nat \ {0}
    /\ MaxMessages \in Nat

VARIABLES
    buffer,         \* _buffer
    capacity,       \* _capacity
    numProduced,    \* _numProduced
    writeIndex,     \* _writeIndex
    readIndex,      \* _readIndex
    modifying,      \* _modifyingFlag
    prod,           \* every producer: where it is, its message, its slot
    cons,           \* the delivering thread: where it is, the message it saw
    nextId,         \* the next message's timestamp
    accepted,       \* history: messages that found capacity
    sent,           \* history: messages sent to the user's sockets, in order,
                    \* as long as nothing has overlapped
    overlapped      \* history: two producers have been inside enqueue at once

vars == <<buffer, capacity, numProduced, writeIndex, readIndex, modifying,
          prod, cons, nextId, accepted, sent, overlapped>>

Indexes  == 0 .. Size-1
Ids      == 0 .. MaxMessages
Messages == 1 .. MaxMessages

\* A message_t.  Before the first use of a slot it is the one of the
\* constructor, delivered but with a type nobody has set: id 0, and nothing is
\* the accident of that type being NOTHING.
Slots == [id : Ids, delivered : BOOLEAN, nothing : BOOLEAN]

Occupied(i) == [id |-> i, delivered |-> FALSE, nothing |-> FALSE]

After(index) == (index + 1) % Size

Init ==
    /\ \E junk \in BOOLEAN :
          buffer = [i \in Indexes |-> [id |-> 0, delivered |-> TRUE, nothing |-> junk]]
    /\ capacity = Size
    /\ numProduced = 0
    /\ writeIndex = 0
    /\ readIndex = 0
    /\ modifying = FALSE
    /\ prod = [p \in Producers |-> [pc |-> "out", id |-> 0, index |-> 0]]
    /\ cons = [pc |-> "peek", id |-> 0]
    /\ nextId = 1
    /\ accepted = {}
    /\ sent = <<>>
    /\ overlapped = FALSE

At(p, l) == prod[p].pc = l
Move(p, l) == prod' = [prod EXCEPT ![p].pc = l]
ConsumerTo(l) == cons' = [cons EXCEPT !.pc = l]

-----------------------------------------------------------------------------
(* enqueue *)

Enqueue(p) ==
    /\ At(p, "out")
    /\ ~modifying
    /\ nextId <= MaxMessages
    /\ prod' = [prod EXCEPT ![p] = [pc |-> "capacity", id |-> nextId, index |-> 0]]
    /\ nextId' = nextId + 1
    /\ overlapped' = (overlapped \/ \E q \in Producers \ {p} : ~At(q, "out"))
    /\ UNCHANGED <<buffer, capacity, numProduced, writeIndex, readIndex,
                   modifying, cons, accepted, sent>>

AdmitWhenFull(p) ==                       \* mutant: >= 0 for > 0
    /\ At(p, "capacity")
    /\ capacity' = capacity - 1
    /\ accepted' = accepted \cup {prod[p].id}
    /\ Move(p, "index")
    /\ UNCHANGED <<buffer, numProduced, writeIndex, readIndex, modifying,
                   cons, nextId, sent, overlapped>>

AdmitTakesFirst(p) ==                     \* mutant: the unit is taken before the test
    /\ At(p, "capacity")
    /\ capacity' = capacity - 1
    /\ IF capacity > 0
       THEN /\ accepted' = accepted \cup {prod[p].id}
            /\ Move(p, "index")
       ELSE /\ Move(p, "out")
            /\ UNCHANGED accepted
    /\ UNCHANGED <<buffer, numProduced, writeIndex, readIndex, modifying,
                   cons, nextId, sent, overlapped>>

\* A message that finds no capacity is dropped and nobody is told.
Admit(p) ==
    /\ At(p, "capacity")
    /\ IF capacity > 0
       THEN /\ capacity' = capacity - 1
            /\ accepted' = accepted \cup {prod[p].id}
            /\ Move(p, "index")
       ELSE /\ Move(p, "out")
            /\ UNCHANGED <<capacity, accepted>>
    /\ UNCHANGED <<buffer, numProduced, writeIndex, readIndex, modifying,
                   cons, nextId, sent, overlapped>>

Reserve(p) ==
    /\ At(p, "index")
    /\ prod' = [prod EXCEPT ![p] =
                    [pc |-> "write", id |-> prod[p].id, index |-> writeIndex]]
    /\ writeIndex' = After(writeIndex)
    /\ UNCHANGED <<buffer, capacity, numProduced, readIndex, modifying, cons,
                   nextId, accepted, sent, overlapped>>

Write(p) ==
    /\ At(p, "write")
    /\ buffer' = [buffer EXCEPT ![prod[p].index] = Occupied(prod[p].id)]
    /\ Move(p, "produced")
    /\ UNCHANGED <<capacity, numProduced, writeIndex, readIndex, modifying,
                   cons, nextId, accepted, sent, overlapped>>

Produce(p) ==
    /\ At(p, "produced")
    /\ numProduced' = numProduced + 1
    /\ Move(p, "out")
    /\ UNCHANGED <<buffer, capacity, writeIndex, readIndex, modifying, cons,
                   nextId, accepted, sent, overlapped>>

-----------------------------------------------------------------------------
(* deliverMessages: peek until a message that is not delivered is first *)

\* The copy of a slot that a producer is writing can mix the old and the new.
Copies(i) ==
    LET values == {buffer[i]} \cup
            {Occupied(prod[p].id) :
                p \in {q \in Producers : At(q, "write") /\ prod[q].index = i}}
    IN  {[id |-> a.id, delivered |-> b.delivered, nothing |-> c.nothing] :
            a \in values, b \in values, c \in values}

Peek ==
    /\ cons.pc = "peek"
    /\ ~modifying
    /\ numProduced > 0
    /\ \E m \in Copies(readIndex) :
          cons' = [pc |-> IF m.nothing THEN "peek"
                          ELSE IF m.delivered THEN "dequeue" ELSE "commit",
                   id |-> m.id]
    /\ UNCHANGED <<buffer, capacity, numProduced, writeIndex, readIndex,
                   modifying, prod, nextId, accepted, sent, overlapped>>

\* waitCommit of the DELIVERED command; markDelivered raises the flag.
Committed ==
    /\ cons.pc = "commit"
    /\ modifying' = TRUE
    /\ ConsumerTo("mark")
    /\ UNCHANGED <<buffer, capacity, numProduced, writeIndex, readIndex, prod,
                   nextId, accepted, sent, overlapped>>

NotCommitted ==
    /\ cons.pc = "commit"
    /\ ConsumerTo("peek")
    /\ UNCHANGED <<buffer, capacity, numProduced, writeIndex, readIndex,
                   modifying, prod, nextId, accepted, sent, overlapped>>

MarkEverySlot ==                          \* mutant: no test of the timestamp
    /\ cons.pc = "mark"
    /\ buffer' = [i \in Indexes |-> [buffer[i] EXCEPT !.delivered = TRUE]]
    /\ ConsumerTo("send")
    /\ UNCHANGED <<capacity, numProduced, writeIndex, readIndex, modifying,
                   prod, nextId, accepted, sent, overlapped>>

Mark ==
    /\ cons.pc = "mark"
    /\ buffer' = [i \in Indexes |->
                    IF buffer[i].id = cons.id
                    THEN [buffer[i] EXCEPT !.delivered = TRUE]
                    ELSE buffer[i]]
    /\ ConsumerTo("send")
    /\ UNCHANGED <<capacity, numProduced, writeIndex, readIndex, modifying,
                   prod, nextId, accepted, sent, overlapped>>

Send ==
    /\ cons.pc = "send"
    /\ modifying' = FALSE
    /\ sent' = IF overlapped THEN sent ELSE Append(sent, cons.id)
    /\ ConsumerTo("peek")
    /\ UNCHANGED <<buffer, capacity, numProduced, writeIndex, readIndex, prod,
                   nextId, accepted, overlapped>>

-----------------------------------------------------------------------------
(* dequeue, of a message that is delivered *)

Dequeue ==
    /\ cons.pc = "dequeue"
    /\ ~modifying
    /\ IF numProduced > 0
       THEN /\ numProduced' = numProduced - 1
            /\ ConsumerTo("read")
       ELSE /\ ConsumerTo("peek")
            /\ UNCHANGED numProduced
    /\ UNCHANGED <<buffer, capacity, writeIndex, readIndex, modifying, prod,
                   nextId, accepted, sent, overlapped>>

Read ==
    /\ cons.pc = "read"
    /\ readIndex' = After(readIndex)
    /\ buffer' = [buffer EXCEPT ![readIndex].delivered = TRUE]
    /\ ConsumerTo("release")
    /\ UNCHANGED <<capacity, numProduced, writeIndex, modifying, prod, nextId,
                   accepted, sent, overlapped>>

Release ==
    /\ cons.pc = "release"
    /\ capacity' = capacity + 1
    /\ ConsumerTo("peek")
    /\ UNCHANGED <<buffer, numProduced, writeIndex, readIndex, modifying,
                   prod, nextId, accepted, sent, overlapped>>

Deliver ==
    \/ Peek \/ Committed \/ NotCommitted \/ Mark \/ Send
    \/ Dequeue \/ Read \/ Release

Insert(p) == Enqueue(p) \/ Admit(p) \/ Reserve(p) \/ Write(p) \/ Produce(p)

\* The user is up to date and no more messages come.
Quiet ==
    /\ nextId > MaxMessages
    /\ numProduced = 0
    /\ cons.pc = "peek"
    /\ \A p \in Producers : At(p, "out")
    /\ UNCHANGED vars

Next == Deliver \/ Quiet \/ \E p \in Producers : Insert(p)

Spec == Init /\ [][Next]_vars

\* Threads are scheduled; nobody has to send; a DELIVERED command that is tried
\* again and again is committed once (waitCommit fails only when a command has
\* been in the table for eight seconds).
FairSpec ==
    /\ Spec
    /\ WF_vars(Peek \/ Mark \/ Send \/ Dequeue \/ Read \/ Release)
    /\ SF_vars(Committed)
    /\ \A p \in Producers : WF_vars(Admit(p) \/ Reserve(p) \/ Write(p) \/ Produce(p))

-----------------------------------------------------------------------------

\* Type correctness of the buffer's fields and of the threads.
TypeOK ==
    /\ buffer \in [Indexes -> Slots]
    /\ capacity \in 0..Size
    /\ numProduced \in 0..Size
    /\ writeIndex \in Indexes
    /\ readIndex \in Indexes
    /\ modifying \in BOOLEAN
    /\ prod \in [Producers -> [pc : {"out", "capacity", "index", "write", "produced"},
                              id : Ids, index : Indexes]]
    /\ cons \in [pc : {"peek", "commit", "mark", "send", "dequeue", "read", "release"},
                 id : Ids]
    /\ nextId \in 1 .. MaxMessages+1
    /\ accepted \subseteq Messages
    /\ sent \in Seq(Ids)
    /\ overlapped \in BOOLEAN

\* Producers that hold a unit of capacity and have not counted their message.
Inserting == {p \in Producers : prod[p].pc \in {"index", "write", "produced"}}

\* Whether the delivering thread has uncounted a message and still has its unit.
Leaving == IF cons.pc \in {"read", "release"} THEN 1 ELSE 0

\* The flag is up exactly while the delivering thread marks, and it uncounts
\* only what it has seen counted.
ConsumerState ==
    /\ modifying <=> cons.pc \in {"mark", "send"}
    /\ cons.pc = "dequeue" => numProduced > 0

\* Every unit of capacity is free, counted as a message, or held by one thread
\* on its way through enqueue or dequeue: none is lost or made in any
\* interleaving of the sections that move them, so the unsigned counters never
\* wrap and the ring never holds more than Size messages.
Accounting == capacity + numProduced + Cardinality(Inserting) + Leaving = Size

IInv == TypeOK /\ ConsumerState /\ Accounting

-----------------------------------------------------------------------------
(* The mailbox that the ring implements *)

\* The k-th message that is counted: one that is being dequeued is not any more.
Counted(k) ==
    LET from == IF cons.pc = "read" THEN After(readIndex) ELSE readIndex
    IN  buffer[(from + k - 1) % Size]

\* Counted and not delivered, from the one that is being sent on: only the first
\* that is counted can be delivered, and waits to be dequeued.
Pending ==
    LET first == IF cons.pc = "send" THEN <<cons.id>> ELSE <<>>
        done  == IF numProduced > 0 /\ Counted(1).delivered THEN 1 ELSE 0
    IN  first \o [k \in 1 .. numProduced - done |-> Counted(k + done).id]

Box == INSTANCE Mailbox
        WITH Capacity <- Size, pending <- Pending, sent <- sent

\* As long as enqueues do not overlap, the ring is a first-in first-out mailbox:
\* every message counted in is handed out once, in order, also while it is being
\* marked, dequeued lazily, or when its DELIVERED command fails and is retried.
FirstInFirstOut ==
    Box!Init /\ [][Box!Next \/ overlapped']_<<Pending, sent>>

\* As long as enqueues do not overlap, a message that found capacity is sent to
\* the user in the end.
AcceptedIsSent ==
    \A m \in Messages :
        m \in accepted ~> (overlapped \/ \E k \in DOMAIN sent : sent[k] = m)

\* ProducerConsumerBuffer.cpp:31 tests and reports it as an error: no message
\* is written over one that is not delivered.
NothingOverwritten ==
    \A p \in Producers : At(p, "write") => buffer[prod[p].index].delivered

=============================================================================

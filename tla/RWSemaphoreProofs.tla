------------------------- MODULE RWSemaphoreProofs --------------------------
(***************************************************************************)
(* Safety of the readers/writer semaphore for any finite set of readers.   *)
(* The inductive invariant is IInv of RWSemaphore.                         *)
(***************************************************************************)
EXTENDS RWSemaphore, FiniteSetTheorems, TLAPS

\* The count a reader section keeps: entering adds one, leaving takes one.
LEMMA InsideCount ==
    ASSUME NEW S, IsFiniteSet(S), NEW r
    PROVE  /\ Cardinality(S) \in Nat
           /\ r \notin S => Cardinality(S \cup {r}) = Cardinality(S) + 1
           /\ r \in S => Cardinality(S \ {r}) = Cardinality(S) - 1
           /\ Cardinality(S) = 0 <=> S = {}
BY FS_CardinalityType, FS_AddElement, FS_RemoveElement, FS_EmptySet

\* The readers inside are a finite set, at most all readers.
LEMMA InsideBound ==
    /\ IsFiniteSet(Inside)
    /\ Cardinality(Inside) \in Nat
    /\ Cardinality(Inside) <= Cardinality(Readers)
    /\ Cardinality(Readers) \in Nat
<1>1. Inside \in SUBSET Readers
  BY DEF Inside
<1>2. QED
  BY <1>1, ThreadsAssumption, FS_Subset, FS_CardinalityType

LEMMA InitIInv == Init => IInv
<1> SUFFICES ASSUME Init PROVE IInv
  OBVIOUS
<1>1. Inside = {}
  BY DEF Init, Inside, Threads
<1>2. nReaders = Cardinality(Inside)
  BY <1>1, FS_EmptySet DEF Init
<1>3. TypeOK
  <2>1. nReaders \in 0..Cardinality(Readers)
    <3>1. Cardinality(Readers) \in Nat
      BY InsideBound
    <3>2. QED
      BY <3>1 DEF Init
  <2>2. pc \in [Threads -> {"out", "blocked", "woken", "in"}]
    BY DEF Init
  <2>3. QED
    BY <2>1, <2>2 DEF Init, TypeOK
<1>4. \A t \in Threads : pc[t] = "out"
  BY DEF Init
<1>5. FlagFollowsWriter /\ NoLostWakeup
  BY <1>4 DEF Init, FlagFollowsWriter, NoLostWakeup, Threads
<1>6. QED
  BY <1>2, <1>3, <1>5 DEF Init, IInv

\* One step of any thread keeps IInv.
LEMMA StepIInv == IInv /\ [Next]_vars => IInv'
<1> SUFFICES ASSUME IInv, [Next]_vars PROVE IInv'
  OBVIOUS
<1> USE DEF Threads
<1>0. /\ pc \in [Threads -> {"out", "blocked", "woken", "in"}]
      /\ nReaders \in Nat
      /\ Writer \notin Readers
      /\ IsFiniteSet(Inside)
      /\ IsFiniteSet(Inside')
  <2>1. Inside' \in SUBSET Readers
    BY DEF Inside
  <2>2. QED
    BY <2>1, InsideBound, ThreadsAssumption, FS_Subset DEF IInv, TypeOK
<1>1. ASSUME NEW r \in Readers, BeginRead(r)
      PROVE  IInv'
  <2>1. CASE writerActive
    <3>1. Inside' = Inside
      BY <1>1, <2>1, <1>0 DEF BeginRead, Inside
    <3>2. QED
      BY <1>1, <2>1, <1>0, <3>1, InsideBound
         DEF BeginRead, IInv, TypeOK, FlagFollowsWriter, NoLostWakeup
  <2>2. CASE ~writerActive
    <3>1. r \notin Inside /\ Inside' = Inside \cup {r}
      BY <1>1, <2>2, <1>0 DEF BeginRead, Inside
    <3>2. nReaders' = Cardinality(Inside')
      BY <1>1, <2>2, <1>0, <3>1, InsideCount DEF BeginRead, IInv
    <3>3. Cardinality(Inside') <= Cardinality(Readers)
      <4>1. Inside' \in SUBSET Readers
        BY DEF Inside
      <4>2. QED
        BY <4>1, FS_Subset, ThreadsAssumption
    <3>4. QED
      BY <1>1, <2>2, <1>0, <3>2, <3>3, InsideBound
         DEF BeginRead, IInv, TypeOK, FlagFollowsWriter, NoLostWakeup
  <2>3. QED
    BY <2>1, <2>2
<1>2. ASSUME NEW r \in Readers, EndRead(r)
      PROVE  IInv'
  <2>1. r \in Inside /\ Inside' = Inside \ {r}
    BY <1>2, <1>0 DEF EndRead, NotifyAll, Inside
  <2>2. nReaders' = Cardinality(Inside') /\ nReaders' \in Nat
    BY <1>2, <1>0, <2>1, InsideCount DEF EndRead, IInv
  <2>3. pc' \in [Threads -> {"out", "blocked", "woken", "in"}]
    BY <1>2, <1>0 DEF EndRead, NotifyAll
  <2>4. \A t \in Threads \ {r} :
           pc'[t] = IF nReaders' = 0 /\ pc[t] = "blocked" THEN "woken" ELSE pc[t]
    BY <1>2, <1>0 DEF EndRead, NotifyAll
  <2>5. pc'[r] = "out"
    BY <1>2, <1>0 DEF EndRead, NotifyAll
  <2>6. QED
    BY <1>2, <1>0, <2>2, <2>3, <2>4, <2>5, InsideBound
       DEF EndRead, IInv, TypeOK, FlagFollowsWriter, NoLostWakeup
<1>3. ASSUME BeginWrite
      PROVE  IInv'
  <2>1. Inside' = Inside
    BY <1>3, <1>0 DEF BeginWrite, Inside
  <2>2. QED
    BY <1>3, <1>0, <2>1, InsideBound
       DEF BeginWrite, IInv, TypeOK, FlagFollowsWriter, NoLostWakeup
<1>4. ASSUME EndWrite
      PROVE  IInv'
  <2>1. Inside' = Inside
    BY <1>4, <1>0 DEF EndWrite, NotifyAll, Inside
  <2>2. QED
    BY <1>4, <1>0, <2>1, InsideBound
       DEF EndWrite, NotifyAll, IInv, TypeOK, FlagFollowsWriter, NoLostWakeup
<1>5. ASSUME NEW t \in Threads, SpuriousWakeup(t)
      PROVE  IInv'
  <2>1. Inside' = Inside
    BY <1>5, <1>0 DEF SpuriousWakeup, Inside
  <2>2. QED
    BY <1>5, <1>0, <2>1, InsideBound
       DEF SpuriousWakeup, IInv, TypeOK, FlagFollowsWriter, NoLostWakeup
<1>6. CASE UNCHANGED vars
  BY <1>6 DEF vars, IInv, TypeOK, Inside, FlagFollowsWriter, NoLostWakeup
<1>7. QED
  BY <1>1, <1>2, <1>3, <1>4, <1>5, <1>6 DEF Next

\* The inductive invariant holds in every reachable state.
THEOREM SemaphoreInvariant == Spec => []IInv
BY InitIInv, StepIInv, PTL DEF Spec

\* No reader is inside while the writer is: with the count exact and zero,
\* the set of readers inside is empty.
LEMMA IInvExcludes == IInv => MutualExclusion
<1> SUFFICES ASSUME IInv, pc[Writer] = "in", NEW r \in Readers, pc[r] = "in"
             PROVE  FALSE
  BY DEF MutualExclusion
<1>1. r \in Inside
  BY DEF Inside
<1>2. QED
  BY <1>1, InsideBound, InsideCount DEF IInv

\* beginRead/endRead and beginWrite/endWrite exclude each other.
THEOREM SemaphoreExcludes == Spec => []MutualExclusion
BY SemaphoreInvariant, IInvExcludes, PTL

\* No thread sleeps in condition.wait once the condition it waits for holds.
THEOREM SemaphoreWakes == Spec => []NoLostWakeup
<1>1. IInv => NoLostWakeup
  BY DEF IInv
<1>2. QED
  BY <1>1, SemaphoreInvariant, PTL

\* The fields and the thread states keep their types; the count never goes
\* below zero or above the number of readers.
THEOREM SemaphoreTypes == Spec => []TypeOK
<1>1. IInv => TypeOK
  BY DEF IInv
<1>2. QED
  BY <1>1, SemaphoreInvariant, PTL

-----------------------------------------------------------------------------

\* Every step of the class is a step of the abstract lock or a stutter.
LEMMA StepImplements == IInv /\ [Next]_vars => [Lock!LockNext]_(Lock!lockVars)
<1> SUFFICES ASSUME IInv, [Next]_vars PROVE [Lock!LockNext]_(Lock!lockVars)
  OBVIOUS
<1> USE DEF Threads
<1>0. /\ pc \in [Threads -> {"out", "blocked", "woken", "in"}]
      /\ Writer \notin Readers
      /\ FlagFollowsWriter
      /\ IsFiniteSet(Inside)
      /\ nReaders = Cardinality(Inside)
      /\ nReaders \in Nat
  BY InsideBound, ThreadsAssumption DEF IInv, TypeOK
<1>1. ASSUME NEW r \in Readers, BeginRead(r)
      PROVE  [Lock!LockNext]_(Lock!lockVars)
  <2>1. CASE writerActive
    <3>1. Inside' = Inside /\ pc'[Writer] = pc[Writer]
      BY <1>1, <2>1, <1>0 DEF BeginRead, Inside
    <3>2. UNCHANGED Lock!lockVars
      BY <1>1, <3>1 DEF BeginRead, Lock!lockVars
    <3>3. QED
      BY <3>2
  <2>2. CASE ~writerActive
    <3>1. /\ r \notin Inside /\ Inside' = Inside \cup {r}
          /\ pc[Writer] = "out" /\ pc'[Writer] = pc[Writer]
      BY <1>1, <2>2, <1>0 DEF BeginRead, Inside, FlagFollowsWriter
    <3>2. Lock!EnterRead(r)
      BY <1>1, <2>2, <3>1 DEF BeginRead, Lock!EnterRead
    <3>3. QED
      BY <3>2 DEF Lock!LockNext
  <2>3. QED
    BY <2>1, <2>2
<1>2. ASSUME NEW r \in Readers, EndRead(r)
      PROVE  [Lock!LockNext]_(Lock!lockVars)
  <2>1. r \in Inside /\ Inside' = Inside \ {r}
    BY <1>2, <1>0 DEF EndRead, NotifyAll, Inside
  <2>2. /\ pc[Writer] = "in" <=> pc'[Writer] = "in"
        /\ writerActive' = writerActive
    BY <1>2, <1>0 DEF EndRead, NotifyAll
  <2>3. Lock!LeaveRead(r)
    BY <2>1, <2>2 DEF Lock!LeaveRead
  <2>4. QED
    BY <2>3 DEF Lock!LockNext
<1>3. ASSUME BeginWrite
      PROVE  [Lock!LockNext]_(Lock!lockVars)
  <2>1. Inside' = Inside
    BY <1>3, <1>0 DEF BeginWrite, Inside
  <2>2. CASE nReaders > 0
    <3>1. pc'[Writer] = "blocked" /\ writerActive' = TRUE
      BY <1>3, <2>2, <1>0 DEF BeginWrite
    <3>2. CASE pc[Writer] = "out"
      BY <1>0, <2>1, <3>1, <3>2
         DEF Lock!LockNext, Lock!AskWrite, FlagFollowsWriter
    <3>3. CASE pc[Writer] = "woken"
      BY <1>0, <2>1, <3>1, <3>3 DEF Lock!lockVars, FlagFollowsWriter
    <3>4. QED
      BY <1>3, <3>2, <3>3 DEF BeginWrite
  <2>3. CASE ~(nReaders > 0)
    <3>1. pc'[Writer] = "in" /\ Inside = {} /\ pc[Writer] # "in"
      <4>1. Inside = {}
        BY <2>3, <1>0, FS_EmptySet
      <4>2. QED
        BY <1>3, <2>3, <1>0, <4>1 DEF BeginWrite
    <3>2. Lock!EnterWrite
      BY <2>1, <3>1 DEF Lock!EnterWrite
    <3>3. QED
      BY <3>2 DEF Lock!LockNext
  <2>4. QED
    BY <2>2, <2>3
<1>4. ASSUME EndWrite
      PROVE  [Lock!LockNext]_(Lock!lockVars)
  <2>1. Inside' = Inside /\ pc'[Writer] = "out" /\ writerActive' = FALSE
    BY <1>4, <1>0 DEF EndWrite, NotifyAll, Inside
  <2>2. Lock!LeaveWrite
    BY <1>4, <2>1 DEF EndWrite, Lock!LeaveWrite
  <2>3. QED
    BY <2>2 DEF Lock!LockNext
<1>5. ASSUME NEW t \in Threads, SpuriousWakeup(t)
      PROVE  [Lock!LockNext]_(Lock!lockVars)
  <2>1. /\ Inside' = Inside
        /\ pc[Writer] = "in" <=> pc'[Writer] = "in"
    BY <1>5, <1>0 DEF SpuriousWakeup, Inside
  <2>2. UNCHANGED Lock!lockVars
    BY <1>5, <2>1 DEF SpuriousWakeup, Lock!lockVars
  <2>3. QED
    BY <2>2
<1>6. CASE UNCHANGED vars
  BY <1>6 DEF vars, Lock!lockVars, Inside
<1>7. QED
  BY <1>1, <1>2, <1>3, <1>4, <1>5, <1>6 DEF Next

\* The class implements the abstract lock its users rely on.
THEOREM SemaphoreImplementsLock == Spec => ImplementsLock
<1>1. Init => Lock!LockInit
  BY DEF Init, Lock!LockInit, Inside, Threads
<1>2. QED
  BY <1>1, SemaphoreInvariant, StepImplements, PTL DEF Spec, ImplementsLock, Lock!LockSpec

=============================================================================

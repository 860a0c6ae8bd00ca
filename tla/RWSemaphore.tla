---------------------------- MODULE RWSemaphore -----------------------------
(***************************************************************************)
(* The readers/writer semaphore of common/CriticalSessionControl: one      *)
(* mutex, one condition variable shared by readers and writer, a reader    *)
(* count and a writer flag.                                                *)
(*                                                                         *)
(* Every method holds the mutex from its first to its last line, so a      *)
(* method is one step; a method that waits is cut at condition.wait: the   *)
(* thread is "blocked" until it is notified (or wakes spuriously, which    *)
(* the C++ condition variable allows), then "woken" until it gets the      *)
(* mutex back and tests its condition again.                               *)
(*                                                                         *)
(* There is one writer, the thread in ReplicaManager::start.  beginWrite   *)
(* does not test for another writer: the class excludes readers from a     *)
(* writer, not writers from each other.                                    *)
(***************************************************************************)
EXTENDS Integers, FiniteSets

CONSTANTS
    Readers,            \* threads inside ReplicaManager::waitCommit
    Writer              \* the thread that runs ReplicaManager::start

ASSUME ThreadsAssumption == IsFiniteSet(Readers) /\ Writer \notin Readers

VARIABLES
    nReaders,           \* _nReaders
    writerActive,       \* _writerActive
    pc                  \* where each thread is

vars == <<nReaders, writerActive, pc>>

Threads == Readers \cup {Writer}

Init ==
    /\ nReaders = 0
    /\ writerActive = FALSE
    /\ pc = [t \in Threads |-> "out"]

Inside == {r \in Readers : pc[r] = "in"}

\* notify_all; the named threads are the ones asleep in condition.wait.
NotifyAll == [t \in Threads |-> IF pc[t] = "blocked" THEN "woken" ELSE pc[t]]

BeginReadCountsEveryTest(r) ==            \* mutant: ++ before the loop's test
    /\ pc[r] \in {"out", "woken"}
    /\ pc' = [pc EXCEPT ![r] = IF writerActive THEN "blocked" ELSE "in"]
    /\ nReaders' = nReaders + 1
    /\ UNCHANGED writerActive

BeginReadPassesPendingWriter(r) ==        \* mutant: waits for a writer inside only
    /\ pc[r] \in {"out", "woken"}
    /\ IF writerActive /\ pc[Writer] = "in"
       THEN /\ pc' = [pc EXCEPT ![r] = "blocked"]
            /\ UNCHANGED nReaders
       ELSE /\ pc' = [pc EXCEPT ![r] = "in"]
            /\ nReaders' = nReaders + 1
    /\ UNCHANGED writerActive

\* The first test of the loop, or the test after condition.wait returned.
BeginRead(r) ==
    /\ pc[r] \in {"out", "woken"}
    /\ IF writerActive
       THEN /\ pc' = [pc EXCEPT ![r] = "blocked"]
            /\ UNCHANGED nReaders
       ELSE /\ pc' = [pc EXCEPT ![r] = "in"]
            /\ nReaders' = nReaders + 1
    /\ UNCHANGED writerActive

EndRead(r) ==
    /\ pc[r] = "in"
    /\ nReaders' = nReaders - 1
    /\ pc' = [(IF nReaders' = 0 THEN NotifyAll ELSE pc) EXCEPT ![r] = "out"]
    /\ UNCHANGED writerActive

BeginWriteIfForWhile ==                   \* mutant: no second test after a wakeup
    /\ pc[Writer] \in {"out", "woken"}
    /\ writerActive' = TRUE
    /\ pc' = [pc EXCEPT ![Writer] =
                 IF nReaders > 0 /\ pc[Writer] = "out" THEN "blocked" ELSE "in"]
    /\ UNCHANGED nReaders

BeginWriteLateFlag ==                     \* mutant: the flag goes up after the wait
    /\ pc[Writer] \in {"out", "woken"}
    /\ writerActive' = (nReaders = 0)
    /\ pc' = [pc EXCEPT ![Writer] = IF nReaders > 0 THEN "blocked" ELSE "in"]
    /\ UNCHANGED nReaders

\* The flag goes up before the writer waits for the readers to leave.
BeginWrite ==
    /\ pc[Writer] \in {"out", "woken"}
    /\ writerActive' = TRUE
    /\ pc' = [pc EXCEPT ![Writer] = IF nReaders > 0 THEN "blocked" ELSE "in"]
    /\ UNCHANGED nReaders

EndWriteNotifyOne ==                      \* mutant: notify_one for notify_all
    /\ pc[Writer] = "in"
    /\ writerActive' = FALSE
    /\ LET asleep == {r \in Readers : pc[r] = "blocked"}
       IN  IF asleep = {}
           THEN pc' = [pc EXCEPT ![Writer] = "out"]
           ELSE \E r \in asleep :
                  pc' = [pc EXCEPT ![Writer] = "out", ![r] = "woken"]
    /\ UNCHANGED nReaders

EndWriteKeepsFlag ==                      \* mutant: the flag is not lowered
    /\ pc[Writer] = "in"
    /\ pc' = [NotifyAll EXCEPT ![Writer] = "out"]
    /\ UNCHANGED <<nReaders, writerActive>>

EndWrite ==
    /\ pc[Writer] = "in"
    /\ writerActive' = FALSE
    /\ pc' = [NotifyAll EXCEPT ![Writer] = "out"]
    /\ UNCHANGED nReaders

SpuriousWakeup(t) ==
    /\ pc[t] = "blocked"
    /\ pc' = [pc EXCEPT ![t] = "woken"]
    /\ UNCHANGED <<nReaders, writerActive>>

Next ==
    \/ \E r \in Readers : BeginRead(r) \/ EndRead(r)
    \/ BeginWrite
    \/ EndWrite
    \/ \E t \in Threads : SpuriousWakeup(t)

Spec == Init /\ [][Next]_vars

(***************************************************************************)
(* Fairness.  A section ends: neither side waits for anything inside it    *)
(* but socket buffers.  A woken thread gets the mutex.  A reader does even *)
(* if its test can fail meanwhile (SF): the writer sleeps 25 ms outside    *)
(* the lock on every turn of ReplicaManager::start, far longer than a      *)
(* woken thread needs to be scheduled.  Nobody has to enter, and spurious  *)
(* wakeups need not happen.                                                *)
(***************************************************************************)
Retest(r) == pc[r] = "woken" /\ BeginRead(r)

Fairness ==
    /\ \A r \in Readers :
          /\ WF_vars(EndRead(r))
          /\ SF_vars(Retest(r) /\ ~writerActive)
    /\ WF_vars(pc[Writer] = "woken" /\ BeginWrite)
    /\ WF_vars(EndWrite)

FairSpec == Spec /\ Fairness

-----------------------------------------------------------------------------

\* Type correctness of the class's two fields and of the thread states.
TypeOK ==
    /\ nReaders \in 0..Cardinality(Readers)
    /\ writerActive \in BOOLEAN
    /\ pc \in [Threads -> {"out", "blocked", "woken", "in"}]

\* While the writer is between beginWrite and endWrite, no reader is between
\* beginRead and endRead: waitCommit never looks at the table while the
\* replication thread walks it with a raw iterator.
MutualExclusion ==
    pc[Writer] = "in" => \A r \in Readers : pc[r] # "in"

\* No wakeup is lost: a thread is asleep in condition.wait only while the
\* condition it waits for is false, so the notify that makes it true again
\* is still to come.  endRead notifies only when the count reaches zero and
\* both kinds of waiters share one condition variable, which is what makes
\* this worth checking.
NoLostWakeup ==
    /\ pc[Writer] = "blocked" => nReaders > 0
    /\ \A r \in Readers : pc[r] = "blocked" => writerActive

\* A writer that asks is served, however many readers come and go: they
\* cannot starve it, because the flag is raised before it waits.
WriterIsServed == (pc[Writer] = "blocked") ~> (pc[Writer] = "in")

\* A reader that had to wait is served too, under the sleep of the writer's
\* loop.
ReaderIsServed == \A r \in Readers : (pc[r] = "blocked") ~> (pc[r] = "in")

\* The strengthening under which the safety properties are inductive: the
\* count is the number of readers inside, and the flag is up from the moment
\* the writer asks until it leaves.
FlagFollowsWriter == writerActive <=> pc[Writer] # "out"

IInv ==
    /\ TypeOK
    /\ nReaders = Cardinality(Inside)
    /\ FlagFollowsWriter
    /\ pc[Writer] = "in" => nReaders = 0
    /\ NoLostWakeup

-----------------------------------------------------------------------------

\* The abstract lock this class implements.
Lock == INSTANCE RWLock WITH
    inside <- Inside,
    writer <- IF pc[Writer] = "in" THEN "in"
              ELSE IF writerActive THEN "pending" ELSE "out"

\* Every behaviour of the class is a behaviour of the abstract lock.
ImplementsLock == Lock!LockSpec

=============================================================================

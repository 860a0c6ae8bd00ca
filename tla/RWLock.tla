------------------------------- MODULE RWLock -------------------------------
(***************************************************************************)
(* What the lock around the replication table promises its users: any      *)
(* number of readers or one writer, and a writer that has asked keeps new  *)
(* readers out until it has been served.                                   *)
(*                                                                         *)
(* This is the specification the users of the lock rely on (ReplicaManager *)
(* ::waitCommit reads, ReplicaManager::start writes); RWSemaphore          *)
(* implements it.                                                          *)
(***************************************************************************)
CONSTANT Readers        \* the user threads, inside waitCommit

VARIABLES
    inside,             \* the readers that are in their read section
    writer              \* "out", "pending" (has asked) or "in"

lockVars == <<inside, writer>>

LockTypeOK ==
    /\ inside \subseteq Readers
    /\ writer \in {"out", "pending", "in"}

LockInit ==
    /\ inside = {}
    /\ writer = "out"

EnterRead(r) ==
    /\ r \notin inside
    /\ writer = "out"
    /\ inside' = inside \cup {r}
    /\ UNCHANGED writer

LeaveRead(r) ==
    /\ r \in inside
    /\ inside' = inside \ {r}
    /\ UNCHANGED writer

AskWrite ==
    /\ writer = "out"
    /\ writer' = "pending"
    /\ UNCHANGED inside

\* With no reader inside, asking and being served is one step.
EnterWrite ==
    /\ writer \in {"out", "pending"}
    /\ inside = {}
    /\ writer' = "in"
    /\ UNCHANGED inside

LeaveWrite ==
    /\ writer = "in"
    /\ writer' = "out"
    /\ UNCHANGED inside

LockNext ==
    \/ \E r \in Readers : EnterRead(r) \/ LeaveRead(r)
    \/ AskWrite
    \/ EnterWrite
    \/ LeaveWrite

LockSpec == LockInit /\ [][LockNext]_lockVars

=============================================================================

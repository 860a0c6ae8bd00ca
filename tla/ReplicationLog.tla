--------------------------- MODULE ReplicationLog ---------------------------
(***************************************************************************)
(* Replication seen as a CommitLog: the log is what the backup that is     *)
(* ahead has applied.  Backups that start late begin in the middle of it   *)
(* and are left out.                                                       *)
(***************************************************************************)
EXTENDS Replication

Early == Backups \ Late

Ahead == CHOOSE b \in Early : \A c \in Early : Len(applied[c]) <= Len(applied[b])

Log == INSTANCE CommitLog WITH
           Backups <- Early,
           log     <- applied[Ahead],
           applied <- [b \in Early |-> applied[b]]

\* Replication implements the log, although a command is sent to one backup
\* after the other, sent again, read at different times and confirmed in turns
\* of several: no backup skips a command, applies it twice or goes another way.
ImplementsLog == Log!Spec

=============================================================================

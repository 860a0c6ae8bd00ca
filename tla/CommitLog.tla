----------------------------- MODULE CommitLog ------------------------------
(***************************************************************************)
(* What replication promises to those who use waitCommit: there is one     *)
(* sequence of commands, in which no command comes twice.  A backup has    *)
(* carried out a prefix of it, and goes on along it, however many commands *)
(* at a time; the backup that is ahead of all others decides what is next. *)
(***************************************************************************)
EXTENDS Sequences, SequencesExt, Naturals

CONSTANT Backups

VARIABLES
    log,            \* the commands, in order
    applied         \* what each backup has carried out

vars == <<log, applied>>

Init ==
    /\ log = <<>>
    /\ applied = [b \in Backups |-> <<>>]

Follows(b) == IsPrefix(applied'[b], log) /\ UNCHANGED log

Leads(b) ==
    /\ IsStrictPrefix(log, applied'[b])
    /\ log' = applied'[b]
    /\ IsInjective(log')

CarryOut(b) ==
    /\ IsStrictPrefix(applied[b], applied'[b])
    /\ applied' = [applied EXCEPT ![b] = applied'[b]]
    /\ Follows(b) \/ Leads(b)

Next == \E b \in Backups : CarryOut(b)

Spec == Init /\ [][Next]_vars

=============================================================================

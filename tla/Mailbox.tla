------------------------------ MODULE Mailbox -------------------------------
(***************************************************************************)
(* What MessageManager promises for one user: a first-in first-out box of  *)
(* bounded capacity.  A message that is accepted waits behind the ones     *)
(* accepted before it, is handed out once, and a message that finds the    *)
(* box full is never seen again.                                           *)
(***************************************************************************)
EXTENDS Naturals, Sequences

CONSTANTS
    Messages,       \* ids of messages
    Capacity        \* messages the box holds

VARIABLES
    pending,        \* accepted, in order
    sent            \* handed to the user's sockets, in order

vars == <<pending, sent>>

Init == pending = <<>> /\ sent = <<>>

Accept(m) ==
    /\ Len(pending) < Capacity
    /\ pending' = Append(pending, m)
    /\ UNCHANGED sent

HandOut ==
    /\ pending # <<>>
    /\ pending' = Tail(pending)
    /\ sent' = Append(sent, Head(pending))

Next == HandOut \/ \E m \in Messages : Accept(m)

Spec == Init /\ [][Next]_vars

=============================================================================

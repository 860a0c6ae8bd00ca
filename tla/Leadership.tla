----------------------------- MODULE Leadership -----------------------------
(***************************************************************************)
(* What the election promises at any time, whatever the timers and the     *)
(* network do: a server that follows another one follows a leader, a       *)
(* leader leads for life, and it follows nobody else.  It does not promise *)
(* that there is one leader only.                                          *)
(***************************************************************************)
CONSTANTS Servers, None

VARIABLES
    leads,          \* the servers that lead, or led until they crashed
    view            \* whom every server takes for its leader, if anyone

vars == <<leads, view>>

Init ==
    /\ leads = {}
    /\ view = [s \in Servers |-> None]

Lead(s) ==
    /\ view[s] = None
    /\ leads' = leads \cup {s}
    /\ view' = [view EXCEPT ![s] = s]

Follow(s, t) ==
    /\ s \notin leads
    /\ t \in leads
    /\ view' = [view EXCEPT ![s] = t]
    /\ UNCHANGED leads

Drop(s) ==
    /\ s \notin leads
    /\ view' = [view EXCEPT ![s] = None]
    /\ UNCHANGED leads

Next == \E s \in Servers : Lead(s) \/ Drop(s) \/ \E t \in Servers : Follow(s, t)

Spec == Init /\ [][Next]_vars

=============================================================================

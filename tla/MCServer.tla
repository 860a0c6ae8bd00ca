------------------------------ MODULE MCServer ------------------------------
(***************************************************************************)
(* Instances of Server: two connections of one user and one of another,    *)
(* and names of which none ends with another.                              *)
(***************************************************************************)
EXTENDS Server, TLC

CONSTANTS a, b, t1, t2, t3

MCNames == {a, b}
MCThreads == {t1, t2, t3}
MCUserOf == (t1 :> a) @@ (t2 :> a) @@ (t3 :> b)
\* The connections of one user are interchangeable.
MCSymmetry == Permutations({t1, t2})
MCFollowees == {b}
MCEndsWith == {<<a, a>>, <<b, b>>}

=============================================================================

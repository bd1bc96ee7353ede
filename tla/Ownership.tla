------------------------------- MODULE Ownership -------------------------------
(***************************************************************************)
(* What the service lock promises: the index has at most one owner, and a   *)
(* process becomes its owner only when it has none.                         *)
(***************************************************************************)
CONSTANTS Procs, Nobody

VARIABLE owner

Init == owner = Nobody

Acquire(p) == owner = Nobody /\ owner' = p
Release == owner # Nobody /\ owner' = Nobody

Next == Release \/ \E p \in Procs : Acquire(p)

Spec == Init /\ [][Next]_owner
=============================================================================

------------------------------ MODULE MCHostMove ------------------------------
(***************************************************************************)
(* HostMove on small instances.                                            *)
(***************************************************************************)
EXTENDS HostMove, TLC

Sym == Permutations(Insts) \cup Permutations(Disks) \cup Permutations(Texts)
=============================================================================

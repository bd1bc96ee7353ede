-------------------------- MODULE MCCollabRegistry --------------------------
(***************************************************************************)
(* CollabRegistry on small instances.                                      *)
(***************************************************************************)
EXTENDS CollabRegistry, TLC

Sym == Permutations(Rooms) \cup Permutations(Conns) \cup Permutations(Moves)
=============================================================================

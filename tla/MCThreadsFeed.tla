---------------------------- MODULE MCThreadsFeed ----------------------------
(***************************************************************************)
(* ThreadsFeed on small instances.                                         *)
(***************************************************************************)
EXTENDS ThreadsFeed, TLC

CONSTANTS s1, s2, s3, s4, p1, p2

Symmetry == Permutations({s1, s2, s3, s4}) \cup Permutations({p1, p2})
=============================================================================

---------------------------- MODULE MCCollabRoom ----------------------------
(***************************************************************************)
(* CollabRoom on small instances: sets of model values come from the cfg.  *)
(***************************************************************************)
EXTENDS CollabRoom, TLC

CONSTANTS c1, c2, l1, l2, v1, v2, alias, broken, canonical

\* Sockets and lines are interchangeable, and so are the values of a text with
\* neither a spelling to normalise nor anything the engine refuses.
Symmetry ==
    Permutations({c1, c2}) \cup Permutations({l1, l2}) \cup Permutations({v1, v2})
=============================================================================

---------------------------- MODULE MCInstanceLock ----------------------------
(***************************************************************************)
(* InstanceLock on small instances.                                        *)
(***************************************************************************)
EXTENDS InstanceLock, TLC

\* Daemons, clients and inodes are alike.
Sym == Permutations(Daemons) \cup Permutations(Clients) \cup Permutations(Files)
=============================================================================

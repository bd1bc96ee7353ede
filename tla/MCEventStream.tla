---------------------------- MODULE MCEventStream ----------------------------
(***************************************************************************)
(* EventStream on small instances: the clients come from the cfg.          *)
(***************************************************************************)
EXTENDS EventStream

CONSTANT a

MCEvents == SUBSET Clients
=============================================================================

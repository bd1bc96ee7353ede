-------------------------- MODULE MCAutomationLease --------------------------
(***************************************************************************)
(* AutomationLease on small instances.                                     *)
(***************************************************************************)
EXTENDS AutomationLease

CONSTANTS r1, r2, a1, a2

\* An agent, and the machine's owner.
AgentAndOwner == [r \in Runners |-> IF r = r1 THEN a1 ELSE Owner]
=============================================================================

-------------------------- MODULE MCAgentOperations --------------------------
(* Small instances of AgentOperations for TLC. *)
EXTENDS AgentOperations, TLC

CONSTANTS reboot, pause, picture

Kinds == reboot :> "deferred" @@ pause :> "direct" @@ picture :> "capture"

\* The reboot and the picture expire within the bound, the pause does not.
Late == reboot :> 1 @@ pause :> 9 @@ picture :> 1

\* The controller sends two of the three.
TwoSent == \E r \in Requests : ctl[r] = "unsent"
=============================================================================

-------------------------- MODULE MCAgentTurnLedger --------------------------
(* Small instances of AgentTurnLedger. *)
EXTENDS AgentTurnLedger, TLC

\* Requests and conversations are interchangeable.
Symmetry == Permutations(Req) \cup Permutations(Conv)
=============================================================================

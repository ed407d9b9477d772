-------------------------- MODULE MCAnalysisQueue --------------------------
(* Small instances of AnalysisQueue: one site, and what the rest of the
   account and the other accounts may have pending beside it. *)
EXTENDS AnalysisQueue, TLC

Others(account, overflow, elsewhere) ==
    [account |-> account, overflow |-> overflow, global |-> account + elsewhere]

\* Idle; the account full; its overflow slot taken too; the process full.
Loads == {Others(0, 0, 0), Others(1, 0, 0), Others(2, 1, 0), Others(0, 0, 3)}
Light == {Others(0, 0, 0)}

Fresh == {"new"}
Later == {"new", "absent"}
=============================================================================

----------------------------- MODULE BackfillPlan -----------------------------
(***************************************************************************)
(* What a metadata backfill promises the account: a plan of targets that   *)
(* is frozen once, every target of which ends once, with one outcome, and  *)
(* a run that is over in the very step that ends its last target.          *)
(***************************************************************************)
CONSTANTS Item

VARIABLES
  phase,    \* of the run: "none", "active", "completed", "completed_with_errors"
  outcome,  \* of each target: "none", "open", or how it ended
  fused     \* whether the run was told to stop early

plan == <<phase, outcome, fused>>

Ended == {"complete", "failed", "skipped"}

Over(o) == IF \E i \in Item : o[i] = "open" THEN "active"
           ELSE IF \E i \in Item : o[i] = "failed" THEN "completed_with_errors"
           ELSE "completed"

PlanInit == /\ phase = "none"
            /\ outcome = [i \in Item |-> "none"]
            /\ fused = FALSE

Freeze(T) == /\ phase = "none"
             /\ outcome' = [i \in Item |-> IF i \in T THEN "open" ELSE "none"]
             /\ phase' = Over(outcome')
             /\ UNCHANGED fused

\* Targets end, the run may be told to stop, and it is over with its last target.
Settle == /\ phase = "active"
          /\ \A i \in Item : \/ outcome'[i] = outcome[i]
                             \/ outcome[i] = "open" /\ outcome'[i] \in Ended
          /\ outcome' \in [Item -> {"none", "open"} \cup Ended]
          /\ phase' = Over(outcome')
          /\ fused' \in BOOLEAN /\ (fused => fused')

PlanNext == (\E T \in SUBSET Item : Freeze(T)) \/ Settle
PlanSpec == PlanInit /\ [][PlanNext]_plan
=============================================================================

----------------------------- MODULE TurnReceipt -----------------------------
(***************************************************************************)
(* What the turn ledger promises to the account: a turn is accepted once,  *)
(* published once, executed once and settled once; the receipt and the     *)
(* transcript settle in one step; only the owner's deletion takes a        *)
(* transcript away, and it takes no receipt with it.                       *)
(***************************************************************************)
EXTENDS Naturals

CONSTANTS Turn

VARIABLES
  outcome,     \* what the receipt says of a turn
  transcript,  \* what the conversation shows of it
  executed     \* whether the provider was called for it

vars == <<outcome, transcript, executed>>

Settled == {"complete", "error", "aborted"}

TypeOK ==
  /\ outcome \in [Turn -> {"none", "running"} \cup Settled]
  /\ transcript \in [Turn -> {"none", "streaming", "deleted"} \cup Settled]
  /\ executed \in [Turn -> BOOLEAN]

Init ==
  /\ outcome = [t \in Turn |-> "none"]
  /\ transcript = [t \in Turn |-> "none"]
  /\ executed = [t \in Turn |-> FALSE]

\* A turn id is seen for the first time.
Accept(t) ==
  /\ outcome[t] = "none"
  /\ outcome' = [outcome EXCEPT ![t] = "running"]
  /\ UNCHANGED <<transcript, executed>>

\* Its message pair appears in the conversation.
Publish(t) ==
  /\ outcome[t] = "running" /\ transcript[t] = "none"
  /\ transcript' = [transcript EXCEPT ![t] = "streaming"]
  /\ UNCHANGED <<outcome, executed>>

\* The provider is called for a published turn, and never again. The call may
\* come after the turn was closed as expired: its caller can be that late.
Execute(t) ==
  /\ transcript[t] # "none"
  /\ ~executed[t]
  /\ executed' = [executed EXCEPT ![t] = TRUE]
  /\ UNCHANGED <<outcome, transcript>>

\* Receipt and transcript reach the outcome together.
Settle(t, s) ==
  /\ outcome[t] = "running"
  /\ outcome' = [outcome EXCEPT ![t] = s]
  /\ transcript' = [transcript EXCEPT ![t] = IF @ = "streaming" THEN s ELSE @]
  /\ UNCHANGED executed

\* The account deletes a conversation with the transcripts of some turns.
Forget(S) ==
  /\ \A t \in S : transcript[t] \notin {"none", "deleted"}
  /\ transcript' = [t \in Turn |-> IF t \in S THEN "deleted" ELSE transcript[t]]
  /\ UNCHANGED <<outcome, executed>>

Next ==
  \/ \E t \in Turn : Accept(t) \/ Publish(t) \/ Execute(t) \/ \E s \in Settled : Settle(t, s)
  \/ \E S \in SUBSET Turn : Forget(S)

Spec == Init /\ [][Next]_vars
=============================================================================

------------------------------- MODULE Decision -------------------------------
(***************************************************************************)
(* What a request for approval is to those who deal with it, without files *)
(* and locks: it is asked for once and decided once, and at most one of    *)
(* the calls that tried to decide it is told that it did.                  *)
(***************************************************************************)
EXTENDS Sequences

VARIABLES
    outcome,  \* "none" before the request, "pending", or the decision
    told      \* the decisions that calls were told are theirs

Decisions == {"approved", "rejected", "expired", "archived"}

DecisionInit == outcome = "none" /\ told = <<>>

Ask == outcome = "none" /\ outcome' = "pending" /\ told' = told

Decide == /\ outcome = "pending"
          /\ outcome' \in Decisions
          /\ told' = told

Tell == /\ outcome \in Decisions
        /\ told = <<>> /\ told' = <<outcome>>
        /\ outcome' = outcome

DecisionNext == Ask \/ Decide \/ Tell

DecisionSpec == DecisionInit /\ [][DecisionNext]_<<outcome, told>>
=============================================================================

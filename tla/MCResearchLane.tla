--------------------------- MODULE MCResearchLane ---------------------------
(* Instances of ResearchLane for TLC. *)
EXTENDS ResearchLane, TLC

CONSTANTS anId, aKind

OneId == [w \in Workers |-> anId]
OneKind == [j \in JobIds |-> aKind]
=============================================================================

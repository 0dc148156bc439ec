------------------------ MODULE MCOwnerNotification ------------------------
(* Instances of OwnerNotification for TLC. *)
EXTENDS OwnerNotification, TLC

CONSTANTS anId, aKind

OneId == [w \in Workers |-> anId]
OneKind == [j \in JobIds |-> aKind]
=============================================================================

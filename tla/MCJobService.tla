---------------------------- MODULE MCJobService ----------------------------
(* Instances of JobService for TLC. *)
EXTENDS JobService, TLC

CONSTANTS anId, aKind

\* Every thread claims with one worker_id, as the coordinator threads do.
OneId == [w \in Workers |-> anId]
OneKind == [j \in JobIds |-> aKind]
SymmetricLegacy ==
    Permutations(Workers) \cup Permutations(Callers) \cup Permutations(JobIds)
=============================================================================

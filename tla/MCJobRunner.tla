---------------------------- MODULE MCJobRunner ----------------------------
(* Instances of JobRunner for TLC. *)
EXTENDS JobRunner, TLC

CONSTANTS anId, aKind

OneId == [w \in Workers |-> anId]
OneKind == [j \in JobIds |-> aKind]

\* Every restart comes with the flag of the first start, whichever it is.
SteadySpec ==
    RunnerInit /\ [][RunnerNext /\ formal' = formal]_allVars /\ RunnerFairness
=============================================================================

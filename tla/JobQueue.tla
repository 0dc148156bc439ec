------------------------------ MODULE JobQueue ------------------------------
(***************************************************************************)
(* What the job registry promises under formal leases, without leases,     *)
(* clocks, credentials or retries: a queue of jobs, each held by at most   *)
(* one claim, the newest; a job completes at most once, and what it        *)
(* records is the work of that newest claim.                               *)
(***************************************************************************)
EXTENDS Naturals

CONSTANTS JobIds

VARIABLES
    state,   \* job id -> where the job is
    epoch,   \* job id -> how many claims it has had
    author   \* job id -> the claim whose result it recorded, 0 for none

queueVars == <<state, epoch, author>>

Waiting == {"ready", "parked"}
Settled == {"completed", "failed", "cancelled"}
States == {"absent", "running", "gone"} \cup Waiting \cup Settled

QueueTypeOK == /\ state \in [JobIds -> States]
               /\ epoch \in [JobIds -> Nat]
               /\ author \in [JobIds -> Nat]

QueueInit == /\ state = [j \in JobIds |-> "absent"]
             /\ epoch = [j \in JobIds |-> 0]
             /\ author = [j \in JobIds |-> 0]

Move(j, from, to) == /\ state[j] \in from
                     /\ state' = [state EXCEPT ![j] = to]

Add(j) == /\ Move(j, {"absent"}, "ready")
          /\ epoch' = [epoch EXCEPT ![j] = 0]
          /\ author' = [author EXCEPT ![j] = 0]

\* A new claim supersedes every earlier one.
Grant(j) == /\ Move(j, {"ready"}, "running")
            /\ epoch' = [epoch EXCEPT ![j] = @ + 1]
            /\ UNCHANGED author

\* Only the newest claim completes the job.
Finish(j) == /\ Move(j, {"running"}, "completed")
             /\ author' = [author EXCEPT ![j] = epoch[j]]
             /\ UNCHANGED epoch

Return(j) == Move(j, {"running"}, "ready") /\ UNCHANGED <<epoch, author>>
Park(j) == Move(j, {"running"}, "parked") /\ UNCHANGED <<epoch, author>>
GiveUp(j) == Move(j, {"running"}, "failed") /\ UNCHANGED <<epoch, author>>
Withdraw(j) == /\ Move(j, Waiting \cup {"running"}, "cancelled")
               /\ UNCHANGED <<epoch, author>>

Forget(j) == /\ Move(j, Settled, "gone")
             /\ epoch' = [epoch EXCEPT ![j] = 0]
             /\ author' = [author EXCEPT ![j] = 0]

QueueNext == \E j \in JobIds :
    \/ Add(j) \/ Grant(j) \/ Finish(j) \/ Return(j)
    \/ Park(j) \/ GiveUp(j) \/ Withdraw(j) \/ Forget(j)

QueueSpec == QueueInit /\ [][QueueNext]_queueVars
=============================================================================

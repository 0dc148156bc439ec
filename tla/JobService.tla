----------------------------- MODULE JobService -----------------------------
(***************************************************************************)
(* The durable job registry of claw_v2/jobs.py: the rows of the            *)
(* agent_jobs table, the claims that the threads of the daemon hold in     *)
(* memory, and the two regimes the registry runs under: formal leases      *)
(* (lease_generation is a fencing token) and legacy (no lease at all).     *)
(*                                                                         *)
(* Time is relative.  A row keeps the time LEFT to a deadline and the time *)
(* PASSED since an event; Tick moves them all.  Every method reads its     *)
(* `now` before it waits for the lock, so it may be up to MaxLag ticks     *)
(* old when the transaction runs: the parameter `lag` of an action.        *)
(***************************************************************************)
EXTENDS Integers, FiniteSets

CONSTANTS
    JobIds,       \* job ids, fresh for each INSERT, never used again
    Keys,         \* resume keys
    NoKey,        \* resume_key IS NULL
    Kinds,        \* job kinds
    KindOf,       \* the kind each job id is enqueued with
    Workers,      \* threads that execute jobs
    Ids,          \* worker_id strings
    IdOf,         \* the worker_id a thread claims with (threads may share one)
    NoOne,        \* lease_owner IS NULL
    NoLease,      \* lease_expires_at IS NULL
    NoClaim,      \* a thread that executes no job
    Callers,      \* threads that enqueue
    Modes,        \* values formal_leases_enabled may have at a start
    MaxAttempts,  \* max_attempts of every job
    TTL,          \* lease_seconds
    RetryDelay,   \* retry_delay_seconds of fail() and reschedule()
    StaleAfter,   \* stale_after_seconds of the legacy recovery lanes
    Retention,    \* retention_days of prune_terminal
    MaxLag,       \* how old a sampled `now` may be
    AdminAllowed, \* an admin_cancel_authority_validator is wired and approves
    ClaimCap      \* bound of the model: claims of one job

ASSUME FiniteJobs == IsFiniteSet(JobIds)

ASSUME ConstantsAssumption ==
    /\ KindOf \in [JobIds -> Kinds]
    /\ IdOf \in [Workers -> Ids]
    /\ NoOne \notin Ids
    /\ NoKey \notin Keys
    /\ NoLease \notin Int
    /\ Modes \subseteq BOOLEAN /\ Modes # {}
    /\ MaxAttempts \in Nat \ {0}
    /\ TTL \in Nat \ {0}
    /\ RetryDelay \in Nat /\ StaleAfter \in Nat \ {0} /\ Retention \in Nat
    /\ MaxLag \in Nat
    /\ AdminAllowed \in BOOLEAN
    /\ ClaimCap \in Nat

VARIABLES
    jobs,     \* the table: job id -> row
    formal,   \* JobService.formal_leases_enabled of the running process
    blocked,  \* _safe_mode_reason or an environment gate blocks claims
    passed,   \* threads that read the claim gate open and wait for the lock
    held,     \* thread -> the JobRecord its claim returned
    callers   \* enqueue() calls between the key lookup and the INSERT

vars == <<jobs, formal, blocked, passed, held, callers>>

-----------------------------------------------------------------------------
Claimable == {"queued", "retrying"}
ActiveStatuses == Claimable \cup {"running", "waiting_approval"}
TerminalStatuses == {"completed", "failed", "cancelled"}
\* "unborn" and "deleted" stand for an id with no row (before and after).
Statuses == ActiveStatuses \cup TerminalStatuses \cup {"unborn", "deleted"}

Row == [status : Statuses, key : Keys \cup {NoKey}, attempts : Nat,
        owner : Ids \cup {NoOne}, gen : Nat, lease : Int \cup {NoLease},
        wait : Int, age : Nat, created : Nat, cancelRequested : BOOLEAN,
        result : Nat, checkpoint : Nat]
\* lease = lease_expires_at - now; wait = next_run_at - now; age = now -
\* updated_at (completed_at once terminal); created = rank of created_at;
\* result: the attempt whose complete() closed the row (the result that
\* reschedule() leaves for the next attempt goes with its checkpoint);
\* checkpoint: the attempt that wrote checkpoint_json.  0 for none.

Claim == [job : JobIds, att : Nat, owner : Ids \cup {NoOne}, gen : Nat]
ASSUME NoClaimAssumption == NoClaim \notin Claim

Pending == [key : Keys \cup {NoKey}]

EmptyRow == [status |-> "unborn", key |-> NoKey, attempts |-> 0,
             owner |-> NoOne, gen |-> 0, lease |-> NoLease, wait |-> 0,
             age |-> 0, created |-> 0, cancelRequested |-> FALSE,
             result |-> 0, checkpoint |-> 0]

Init == /\ jobs = [j \in JobIds |-> EmptyRow]
        /\ formal \in Modes
        /\ blocked = FALSE
        /\ passed = {}
        /\ held = [w \in Workers |-> NoClaim]
        /\ callers = [c \in Callers |-> NoClaim]

Lags == 0..MaxLag

ActiveWithKey(k) == {j \in JobIds : jobs[j].key = k /\ k # NoKey
                                    /\ jobs[j].status \in ActiveStatuses}

\* Mutant: worker_id alone proves ownership.
CurrentLeaseMatches_OwnerOnly(row, c, lag) ==
    /\ c.owner # NoOne
    /\ row.status = "running"
    /\ row.owner = c.owner
    /\ row.lease # NoLease
    /\ row.lease + lag > 0

\* The caller of a method presents the credentials of claim c at a `now`
\* sampled lag ticks ago: JobService._current_lease_matches.
CurrentLeaseMatches(row, c, lag) ==
    /\ c.owner # NoOne
    /\ row.status = "running"
    /\ row.owner = c.owner
    /\ row.gen = c.gen
    /\ row.lease # NoLease
    /\ row.lease + lag > 0

\* Mutant: lease_expires_at survives the close.
Unleased_KeepsExpiry(row, status, lag) ==
    [row EXCEPT !.status = status, !.owner = NoOne, !.age = lag]

\* Every way out of "running", and every update to another status, clears
\* the three lease columns; it never clears lease_generation.
Unleased(row, status, lag) == [row EXCEPT !.status = status, !.owner = NoOne,
                                          !.lease = NoLease, !.age = lag]

Requeued(row, delay, lag) ==
    [Unleased(row, "retrying", lag) EXCEPT !.wait = delay - lag]

\* Mutant: one retry too many.
RetriedOrFailed_OffByOne(row, retry, delay, lag) ==
    IF retry /\ row.attempts <= MaxAttempts
    THEN Requeued(row, delay, lag)
    ELSE Unleased(row, "failed", lag)

\* fail(), the lease reaper and the stale reaper retry while attempts remain.
RetriedOrFailed(row, retry, delay, lag) ==
    IF retry /\ row.attempts < MaxAttempts
    THEN Requeued(row, delay, lag)
    ELSE Unleased(row, "failed", lag)

-----------------------------------------------------------------------------
\* enqueue() and reserve().  get_active_by_resume_key runs under a lock of its
\* own: an existing active job is returned, otherwise the INSERT follows later.
LookupKey(c, k) ==
    /\ callers[c] = NoClaim
    /\ ActiveWithKey(k) = {}
    /\ callers' = [callers EXCEPT ![c] = [key |-> k]]
    /\ UNCHANGED <<jobs, formal, blocked, passed, held>>

\* Mutant: the partial unique index is missing.
UniqueIndexAdmits_NoIndex(k) == TRUE

\* idx_agent_jobs_active_resume_key: UNIQUE(resume_key) over active rows.
UniqueIndexAdmits(k) == ActiveWithKey(k) = {}

\* The INSERT, or the IntegrityError and the rollback that returns the winner.
Insert(c, j) ==
    /\ callers[c] # NoClaim
    /\ jobs[j].status = "unborn"
    /\ callers' = [callers EXCEPT ![c] = NoClaim]
    /\ jobs' = IF UniqueIndexAdmits(callers[c].key)
               THEN [jobs EXCEPT ![j] =
                      [EmptyRow EXCEPT !.status = "queued",
                         !.key = callers[c].key,
                         !.created = Cardinality({i \in JobIds :
                                            jobs[i].status # "unborn"})]]
               ELSE jobs
    /\ UNCHANGED <<formal, blocked, passed, held>>

-----------------------------------------------------------------------------
\* Every claim reads the latch and the environment before it takes the lock.
ReadGate(w) ==
    /\ held[w] = NoClaim
    /\ w \notin passed
    /\ ~blocked
    /\ passed' = passed \cup {w}
    /\ UNCHANGED <<jobs, formal, blocked, held, callers>>

Due(j, lag) == jobs[j].status \in Claimable /\ jobs[j].wait + lag <= 0

\* Mutant: the generation is not advanced.
Claimed_SameGeneration(row, w, lag) ==
    [row EXCEPT !.status = "running", !.attempts = @ + 1, !.age = lag,
                !.owner = IdOf[w], !.lease = TTL - lag]

\* attempts + 1; under formal leases also a lease and the next generation.
Claimed(row, w, lag) ==
    IF formal
    THEN [row EXCEPT !.status = "running", !.attempts = @ + 1, !.age = lag,
                     !.owner = IdOf[w], !.lease = TTL - lag, !.gen = @ + 1]
    ELSE [row EXCEPT !.status = "running", !.attempts = @ + 1, !.age = lag]

Take(w, j, lag) ==
    /\ jobs[j].attempts < ClaimCap
    /\ jobs' = [jobs EXCEPT ![j] = Claimed(@, w, lag)]
    /\ held' = [held EXCEPT ![w] =
                 [job |-> j, att |-> jobs'[j].attempts,
                  owner |-> jobs'[j].owner, gen |-> jobs'[j].gen]]
    /\ passed' = passed \ {w}
    /\ UNCHANGED <<formal, blocked, callers>>

\* claim_next: the oldest due row of the kinds asked for.
ClaimNext(w, kinds, lag) ==
    /\ w \in passed
    /\ \E j \in JobIds :
         /\ Due(j, lag) /\ KindOf[j] \in kinds
         /\ \A i \in JobIds : Due(i, lag) /\ KindOf[i] \in kinds
                                => jobs[j].created <= jobs[i].created
         /\ Take(w, j, lag)

\* claim: a given row, whether or not its next_run_at has come.
ClaimById(w, j, lag) ==
    /\ w \in passed
    /\ jobs[j].status \in Claimable
    /\ Take(w, j, lag)

\* Either call finds no row that it may take and returns None.
ClaimNothing(w) ==
    /\ w \in passed
    /\ \/ \E j \in JobIds : jobs[j].status \notin Claimable
       \/ \E lag \in Lags, ks \in (SUBSET Kinds) \ {{}} :
            \A j \in JobIds : KindOf[j] \in ks => ~Due(j, lag)
    /\ passed' = passed \ {w}
    /\ UNCHANGED <<jobs, formal, blocked, held, callers>>

-----------------------------------------------------------------------------
\* Mutants: no lease is asked for; a terminal row is written again.
Accepts_IgnoresLease(j, c, lag) == jobs[j].status \in ActiveStatuses

Accepts_Resurrects(j, c, lag) ==
    /\ jobs[j].status \notin {"unborn", "deleted"}
    /\ formal => CurrentLeaseMatches(jobs[j], c, lag)

\* The guard shared by complete, fail, reschedule, wait_for_approval: under
\* formal leases the credentials must be current; legacy takes any row that is
\* not terminal.
Accepts(j, c, lag) ==
    /\ jobs[j].status \in ActiveStatuses
    /\ formal => CurrentLeaseMatches(jobs[j], c, lag)

\* A closing call of the thread that holds a claim.  A rejected call changes
\* no row, and either way the thread is done with the job.
Close(w, lag, newRow) ==
    LET c == held[w] IN
    /\ jobs' = IF Accepts(c.job, c, lag) THEN [jobs EXCEPT ![c.job] = newRow]
               ELSE jobs
    /\ held' = [held EXCEPT ![w] = NoClaim]
    /\ UNCHANGED <<formal, blocked, passed, callers>>

\* A closing call that presents no credentials, from a runner that took none
\* from its claim: refused under formal leases.
BareClose(w, newRow) ==
    LET j == held[w].job IN
    /\ jobs' = IF ~formal /\ jobs[j].status \in ActiveStatuses
               THEN [jobs EXCEPT ![j] = newRow]
               ELSE jobs
    /\ held' = [held EXCEPT ![w] = NoClaim]
    /\ UNCHANGED <<formal, blocked, passed, callers>>

Complete(w, lag) ==
    /\ held[w] # NoClaim
    /\ Close(w, lag, [Unleased(jobs[held[w].job], "completed", lag)
                        EXCEPT !.result = held[w].att])

Fail(w, retry, lag) ==
    /\ held[w] # NoClaim
    /\ Close(w, lag, RetriedOrFailed(jobs[held[w].job], retry, RetryDelay, lag))

Reschedule(w, lag) ==
    /\ held[w] # NoClaim
    /\ Close(w, lag, [Requeued(jobs[held[w].job], RetryDelay, lag)
                        EXCEPT !.checkpoint = held[w].att])

WaitForApproval(w, lag) ==
    /\ held[w] # NoClaim
    /\ Close(w, lag, [Unleased(jobs[held[w].job], "waiting_approval", lag)
                        EXCEPT !.checkpoint = held[w].att])

\* worker_cancel checks the lease in both regimes.
WorkerCancel(w, lag) ==
    /\ held[w] # NoClaim
    /\ LET c == held[w] IN
       jobs' = IF CurrentLeaseMatches(jobs[c.job], c, lag)
               THEN [jobs EXCEPT ![c.job] = Unleased(@, "cancelled", lag)]
               ELSE jobs
    /\ held' = [held EXCEPT ![w] = NoClaim]
    /\ UNCHANGED <<formal, blocked, passed, callers>>

\* Mutant: the generation is not compared.
ReleaseLease_AnyGeneration(w, lag) ==
    /\ held[w] # NoClaim
    /\ LET c == held[w] IN
       jobs' = IF jobs[c.job].status = "running" /\ jobs[c.job].owner = c.owner
               THEN [jobs EXCEPT ![c.job] = Requeued(@, 0, lag)]
               ELSE jobs
    /\ held' = [held EXCEPT ![w] = NoClaim]
    /\ UNCHANGED <<formal, blocked, passed, callers>>

\* release_lease compares owner and generation, but not the expiry.
ReleaseLease(w, lag) ==
    /\ held[w] # NoClaim
    /\ LET c == held[w] IN
       jobs' = IF /\ jobs[c.job].status = "running"
                  /\ jobs[c.job].owner = c.owner /\ c.owner # NoOne
                  /\ jobs[c.job].gen = c.gen
               THEN [jobs EXCEPT ![c.job] = Requeued(@, 0, lag)]
               ELSE jobs
    /\ held' = [held EXCEPT ![w] = NoClaim]
    /\ UNCHANGED <<formal, blocked, passed, callers>>

\* heartbeat_lease: the thread keeps its claim whatever the answer is.
HeartbeatLease(w, lag) ==
    /\ held[w] # NoClaim
    /\ CurrentLeaseMatches(jobs[held[w].job], held[w], lag)
    /\ jobs' = [jobs EXCEPT ![held[w].job].lease = TTL - lag,
                            ![held[w].job].age = lag]
    /\ UNCHANGED <<formal, blocked, passed, held, callers>>

\* checkpoint: legacy writes any row, a terminal one too (whose completed_at,
\* the age that prune_terminal reads, stays).
Checkpoint(w, lag) ==
    /\ held[w] # NoClaim
    /\ LET c == held[w]  row == jobs[c.job] IN
       /\ row.status # "deleted"
       /\ formal => CurrentLeaseMatches(row, c, lag)
       /\ jobs' = [jobs EXCEPT ![c.job] =
                    [row EXCEPT !.checkpoint = c.att,
                       !.age = IF row.status \in TerminalStatuses THEN @
                               ELSE lag]]
    /\ UNCHANGED <<formal, blocked, passed, held, callers>>

\* The thread dies, or its handler is abandoned, with the row untouched.
WorkerDies(w) ==
    /\ held[w] # NoClaim
    /\ held' = [held EXCEPT ![w] = NoClaim]
    /\ UNCHANGED <<jobs, formal, blocked, passed, callers>>

-----------------------------------------------------------------------------
\* fail() without credentials, from a thread that never claimed the row (the
\* resume path of TaskHandler, the age reapers of the runners).  Formal leases
\* answer None before they read the row.
FailUnowned(j, retry, lag) ==
    /\ ~formal
    /\ jobs[j].status \in ActiveStatuses
    /\ jobs' = [jobs EXCEPT ![j] = RetriedOrFailed(@, retry, 0, lag)]
    /\ UNCHANGED <<formal, blocked, passed, held, callers>>

\* cancel: FormalLeaseRequiredError under formal leases.
Cancel(j, lag) ==
    /\ ~formal
    /\ jobs[j].status \in ActiveStatuses
    /\ jobs' = [jobs EXCEPT ![j] = Unleased(@, "cancelled", lag)]
    /\ UNCHANGED <<formal, blocked, passed, held, callers>>

\* request_cancel records the intent and refreshes updated_at; its one caller,
\* TaskHandler._cancel_autonomous_job, calls it under formal leases only.
RequestCancel(j, lag) ==
    /\ formal
    /\ jobs[j].status \in ActiveStatuses
    /\ jobs' = [jobs EXCEPT ![j].cancelRequested = TRUE, ![j].age = lag]
    /\ UNCHANGED <<formal, blocked, passed, held, callers>>

AdminForceCancel(j, lag) ==
    /\ AdminAllowed
    /\ jobs[j].status \in ActiveStatuses
    /\ jobs' = [jobs EXCEPT ![j] = Unleased(@, "cancelled", lag)]
    /\ UNCHANGED <<formal, blocked, passed, held, callers>>

\* Mutants: live leases are reclaimed; a job out of attempts is skipped.
ReclaimExpiredLease_Eager(j, noRetry, lag) ==
    /\ formal
    /\ jobs[j].status = "running"
    /\ jobs' = [jobs EXCEPT ![j] = RetriedOrFailed(@, ~noRetry, 0, lag)]
    /\ UNCHANGED <<formal, blocked, passed, held, callers>>

ReclaimExpiredLease_AttemptsLeft(j, noRetry, lag) ==
    /\ formal
    /\ jobs[j].status = "running"
    /\ jobs[j].lease # NoLease
    /\ jobs[j].lease + lag <= 0
    /\ jobs[j].attempts < MaxAttempts
    /\ jobs' = [jobs EXCEPT ![j] = RetriedOrFailed(@, ~noRetry, 0, lag)]
    /\ UNCHANGED <<formal, blocked, passed, held, callers>>

\* reclaim_expired_leases: each candidate is read again under the lock.
ReclaimExpiredLease(j, noRetry, lag) ==
    /\ formal
    /\ jobs[j].status = "running"
    /\ jobs[j].lease # NoLease
    /\ jobs[j].lease + lag <= 0
    /\ jobs' = [jobs EXCEPT ![j] = RetriedOrFailed(@, ~noRetry, 0, lag)]
    /\ UNCHANGED <<formal, blocked, passed, held, callers>>

\* recover_stale_running delegates to the lease reaper under formal leases.
RecoverStaleRunning(j, noRetry, lag) ==
    /\ ~formal
    /\ jobs[j].status = "running"
    /\ jobs[j].age - lag >= StaleAfter
    /\ jobs' = [jobs EXCEPT ![j] = RetriedOrFailed(@, ~noRetry, 0, lag)]
    /\ UNCHANGED <<formal, blocked, passed, held, callers>>

PruneTerminal(j) ==
    /\ jobs[j].status \in TerminalStatuses
    /\ jobs[j].age >= Retention
    /\ jobs' = [jobs EXCEPT ![j] = [EmptyRow EXCEPT !.status = "deleted"]]
    /\ UNCHANGED <<formal, blocked, passed, held, callers>>

-----------------------------------------------------------------------------
SetSafeModeReason ==
    /\ blocked' = ~blocked
    /\ UNCHANGED <<jobs, formal, passed, held, callers>>

\* The daemon process dies and starts again, perhaps with the other flag:
\* the table survives, everything in memory is gone.
Restart ==
    /\ formal' \in Modes
    /\ blocked' = FALSE
    /\ passed' = {}
    /\ held' = [w \in Workers |-> NoClaim]
    /\ callers' = [c \in Callers |-> NoClaim]
    /\ UNCHANGED jobs

\* Deadlines saturate at the largest sampling lag, ages at the largest limit.
Elapsed(n) == IF n > -MaxLag THEN n - 1 ELSE n
AgeCap == StaleAfter + Retention + MaxLag
Older(row) ==
    IF row.status \in {"unborn", "deleted"} THEN row
    ELSE [row EXCEPT !.wait = Elapsed(@),
                     !.age = IF @ < AgeCap THEN @ + 1 ELSE @,
                     !.lease = IF @ = NoLease THEN @ ELSE Elapsed(@)]
Tick ==
    /\ jobs' = [j \in JobIds |-> Older(jobs[j])]
    /\ UNCHANGED <<formal, blocked, passed, held, callers>>

-----------------------------------------------------------------------------
Enqueuing == \E c \in Callers :
    \/ \E k \in Keys \cup {NoKey} : LookupKey(c, k)
    \/ \E j \in JobIds : Insert(c, j)

Claiming == \E w \in Workers :
    \/ ReadGate(w)
    \/ ClaimNothing(w)
    \/ \E lag \in Lags, ks \in (SUBSET Kinds) \ {{}} : ClaimNext(w, ks, lag)
    \/ \E lag \in Lags, j \in JobIds : ClaimById(w, j, lag)

Executing == \E w \in Workers :
    \/ WorkerDies(w)
    \/ \E lag \in Lags :
         \/ Complete(w, lag)
         \/ \E retry \in BOOLEAN : Fail(w, retry, lag)
         \/ Reschedule(w, lag)
         \/ WaitForApproval(w, lag)
         \/ WorkerCancel(w, lag)
         \/ ReleaseLease(w, lag)
         \/ HeartbeatLease(w, lag)
         \/ Checkpoint(w, lag)

Recovering(j, noRetry, lag) ==
    \/ ReclaimExpiredLease(j, noRetry, lag)
    \/ RecoverStaleRunning(j, noRetry, lag)

Administering == \E j \in JobIds :
    \/ PruneTerminal(j)
    \/ \E lag \in Lags :
         \/ Cancel(j, lag)
         \/ AdminForceCancel(j, lag)
         \/ RequestCancel(j, lag)
         \/ \E b \in BOOLEAN : FailUnowned(j, b, lag) \/ Recovering(j, b, lag)

Environment == SetSafeModeReason \/ Restart \/ Tick

Next == Enqueuing \/ Claiming \/ Executing \/ Administering \/ Environment

Spec == Init /\ [][Next]_vars

-----------------------------------------------------------------------------
(* Properties *)

TypeOK ==
    /\ jobs \in [JobIds -> Row]
    /\ formal \in Modes
    /\ blocked \in BOOLEAN
    /\ passed \subseteq Workers
    /\ held \in [Workers -> Claim \cup {NoClaim}]
    /\ callers \in [Callers -> Pending \cup {NoClaim}]

\* The lease columns are set and cleared together, only a running row has
\* them, and no formally claimed row runs without (a running row with no lease
\* is out of reach of reclaim_expired_leases for ever).
LeaseColumns == \A j \in JobIds :
    /\ jobs[j].owner # NoOne <=> jobs[j].lease # NoLease
    /\ jobs[j].owner # NoOne => jobs[j].status = "running"
    /\ Modes = {TRUE} /\ jobs[j].status = "running" => jobs[j].owner # NoOne

\* lease_generation tells any two claims of a job apart, whichever threads made
\* them and even when both use one worker_id, across restarts, reclaims and
\* releases; no claim in memory is ahead of the table.
FencingTokens == \A v, w \in Workers :
    held[v] # NoClaim =>
        /\ held[v].gen <= jobs[held[v].job].gen
              \/ jobs[held[v].job].status = "deleted"
        /\ held[w] # NoClaim /\ held[w].job = held[v].job
              /\ held[w].gen = held[v].gen => v = w

\* UNIQUE(resume_key) over the active rows, through racing enqueue() calls and
\* every way a row goes back to "retrying".
OneActivePerKey == \A i, j \in JobIds :
    i \in ActiveWithKey(jobs[j].key) /\ j \in ActiveWithKey(jobs[j].key)
        => i = j

\* A terminal row is never resurrected, completed or failed a second time, nor
\* does its result change: it can only be deleted.
TerminalAbsorbing == [][\A j \in JobIds :
    jobs[j].status \in TerminalStatuses =>
        \/ /\ jobs'[j].status = jobs[j].status
           /\ jobs'[j].result = jobs[j].result
        \/ jobs'[j].status = "deleted"]_vars

\* Under formal leases a thread whose claim is not the newest one of its job
\* cannot write the result or the checkpoint, however late its call lands.
NoLateWrite == [][\A j \in JobIds :
    /\ jobs'[j].result \notin {0, jobs[j].result} =>
          jobs'[j].result = jobs[j].attempts /\ jobs[j].status = "running"
    /\ jobs'[j].checkpoint \notin {0, jobs[j].checkpoint} =>
          jobs'[j].checkpoint = jobs[j].attempts /\ jobs[j].status = "running"
    ]_vars

\* Under formal leases a late thread cannot close, release, requeue, park or
\* cancel the job either.
LateCloseIsNoOp == [][\A w \in Workers :
    held[w] # NoClaim /\ held'[w] = NoClaim
        /\ held[w].att # jobs[held[w].job].attempts => UNCHANGED jobs]_vars

\* Under formal leases only the thread that owns the lease ends the run of a
\* job before the lease expires (administrators apart): a crashed worker frees
\* its job after expiry and not before.
FreedOnlyAfterExpiry == [][\A j \in JobIds :
    jobs[j].status = "running" /\ jobs'[j].status # "running" =>
        \/ \E w \in Workers : /\ held[w] # NoClaim /\ held'[w] = NoClaim
                              /\ held[w].job = j
                              /\ held[w].att = jobs[j].attempts
        \/ jobs[j].lease # NoLease /\ jobs[j].lease <= 0
        \/ AdminAllowed /\ jobs'[j].status = "cancelled"]_vars

Stranded(j) ==
    /\ jobs[j].status = "running"
    /\ \A w \in Workers : held[w] # NoClaim /\ held[w].job = j
                            => held[w].att # jobs[j].attempts

\* The daemon's recovery lanes run again and again, and time passes.
FairRecovery ==
    /\ WF_vars(Tick)
    /\ \A j \in JobIds :
         WF_vars(\E noRetry \in BOOLEAN, lag \in Lags :
                     Recovering(j, noRetry, lag))

FairSpec == Spec /\ FairRecovery

\* A job whose thread disappeared does not stay "running" for ever
\* (recover_stale_running: the lanes reclaim such jobs).
StrandedRecovered == \A j \in JobIds : Stranded(j) ~> ~Stranded(j)

-----------------------------------------------------------------------------
\* Under formal leases the registry implements the queue of module JobQueue.
QueueState(status) ==
    CASE status \in Claimable -> "ready"
      [] status = "waiting_approval" -> "parked"
      [] status = "unborn" -> "absent"
      [] status = "deleted" -> "gone"
      [] OTHER -> status

Queue == INSTANCE JobQueue WITH
    state <- [j \in JobIds |-> QueueState(jobs[j].status)],
    epoch <- [j \in JobIds |-> jobs[j].attempts],
    author <- [j \in JobIds |-> jobs[j].result]

\* Every step of the registry is a step of the abstract queue or leaves it
\* alone: at most one claim counts, and only it can finish the job.
ImplementsQueue == Queue!QueueSpec
=============================================================================

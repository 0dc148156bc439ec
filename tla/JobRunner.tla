------------------------------ MODULE JobRunner ------------------------------
(***************************************************************************)
(* The threads that execute the jobs of JobService.  A runner              *)
(* (ScheduledBackgroundJobRunner, the reconciliation runner of the daemon, *)
(* the coordinator and NotebookLM threads) claims one job, runs its        *)
(* handler, closes the job with the credentials of its claim, and reports  *)
(* the outcome only when close_landed says the close was its own.  The     *)
(* recovery lanes of the daemon run in threads of their own.               *)
(***************************************************************************)
EXTENDS JobService

CONSTANTS
    Timed,        \* threads whose runner has timeout_seconds
    NoRetryKinds, \* kinds the lanes retire instead of requeue (notebooklm.*)
    PolledKinds,  \* kinds whose runner reschedules a job until something outside
                  \* has finished (notebooklm.orchestrate)
    PollCap       \* bound of the model: pending polls of one job

ASSUME RunnerAssumption == /\ Timed \subseteq Workers
                           /\ NoRetryKinds \subseteq Kinds
                           /\ PolledKinds \subseteq Kinds
                           /\ PollCap \in Nat

VARIABLES
    executing,  \* threads that wait for the handler of their claim
    straggler,  \* runners whose timed-out handler still runs
    reported,   \* job -> attempts that emitted the *_completed event
    listed,     \* jobs the age reaper of a runner has listed and not yet failed
    polls       \* job -> its runs that ended with a pending poll (history)

runnerVars == <<executing, straggler, reported, listed, polls>>
allVars == <<vars, runnerVars>>

RunnerInit == /\ Init
              /\ executing = {}
              /\ straggler = {}
              /\ reported = [j \in JobIds |-> {}]
              /\ listed = {}
              /\ polls = [j \in JobIds |-> 0]

-----------------------------------------------------------------------------
\* claim_next found nothing of the runner's kinds, or claim(job_id) nothing to
\* take: the runner sleeps.
FindsNothing(w) == /\ \E lag \in Lags : \A j \in JobIds : ~Due(j, lag)
                   /\ ClaimNothing(w)

RunnerClaims(w) ==
    /\ \/ ReadGate(w)
       \/ FindsNothing(w)
       \/ \E lag \in Lags : \/ ClaimNext(w, Kinds, lag)
                            \/ \E j \in JobIds : ClaimById(w, j, lag)
    /\ UNCHANGED runnerVars

\* Mutant: _timed_handler_future is not looked at.
MaySubmit_Always(w) == TRUE

\* A runner submits no handler while one that timed out before still runs.
MaySubmit(w) == w \notin straggler

\* _execute_handler submits the handler of the job.
StartHandler(w) ==
    /\ held[w] # NoClaim /\ w \notin executing
    /\ MaySubmit(w)
    /\ executing' = executing \cup {w}
    /\ UNCHANGED <<vars, straggler, reported, listed, polls>>

\* complete(), fail() and reschedule() return the row they wrote, or a row that
\* was already terminal, or None.
Returned(c, lag) == \/ Accepts(c.job, c, lag)
                    \/ jobs[c.job].status \in TerminalStatuses

\* Mutant: any returned row counts as the caller's own close.
CloseLanded_AnyGeneration(c, lag) == Returned(c, lag)

CloseLanded(c, lag) == Returned(c, lag) /\ jobs[c.job].gen = c.gen

\* The handler returns; complete(), then the *_completed event or, when the
\* close did not land, the *_lease_lost event.
HandlerReturns(w, lag) ==
    /\ w \in executing
    /\ Complete(w, lag)
    /\ executing' = executing \ {w}
    /\ reported' = LET c == held[w] IN
                   IF CloseLanded(c, lag)
                   THEN [reported EXCEPT ![c.job] = @ \cup {c.att}]
                   ELSE reported
    /\ UNCHANGED <<straggler, listed, polls>>

\* The handler raises; fail(), to be retried or, by the coordinator, for good.
HandlerRaises(w, retry, lag) ==
    /\ w \in executing
    /\ Fail(w, retry, lag)
    /\ executing' = executing \ {w}
    /\ UNCHANGED <<straggler, reported, listed, polls>>

\* future.result(timeout) gives up: the job fails, the handler runs on.
HandlerTimesOut(w, lag) ==
    /\ w \in executing \cap Timed
    /\ Fail(w, TRUE, lag)
    /\ executing' = executing \ {w}
    /\ straggler' = straggler \cup {w}
    /\ UNCHANGED <<reported, listed, polls>>

\* "job still running after a prior timeout": the claim fails at once.
RefusesToRun(w, lag) ==
    /\ held[w] # NoClaim /\ w \notin executing
    /\ ~MaySubmit(w)
    /\ Fail(w, TRUE, lag)
    /\ UNCHANGED runnerVars

\* The orchestration step answers neither "completed" nor "failed": reschedule()
\* puts the row back, whatever its attempts are.  This runner has no timeout.
HandlerPolls(w, lag) ==
    /\ w \in executing \ Timed
    /\ KindOf[held[w].job] \in PolledKinds /\ polls[held[w].job] < PollCap
    /\ Reschedule(w, lag)
    /\ executing' = executing \ {w}
    /\ polls' = LET c == held[w] IN
                IF Accepts(c.job, c, lag) THEN [polls EXCEPT ![c.job] = @ + 1]
                                          ELSE polls
    /\ UNCHANGED <<straggler, reported, listed>>

StragglerEnds(w) ==
    /\ w \in straggler
    /\ straggler' = straggler \ {w}
    /\ UNCHANGED <<vars, executing, reported, listed, polls>>

-----------------------------------------------------------------------------
\* A lane retires jobs of some kinds; every other recovery retries them.
LaneRecovers(j, lag) ==
    /\ Recovering(j, KindOf[j] \in NoRetryKinds, lag)
    /\ UNCHANGED runnerVars

\* reclaim_stale_running, without leases: the runner lists the rows that are
\* running for too long and fails one after the other, each in a transaction of
\* its own; a row may have moved on since it was listed.
ReaperLists(j) ==
    /\ ~formal
    /\ jobs[j].status = "running" /\ jobs[j].age >= StaleAfter
    /\ listed' = listed \cup {j}
    /\ UNCHANGED <<vars, executing, straggler, reported, polls>>

ReaperFails(j, lag) ==
    /\ j \in listed
    /\ IF jobs[j].status \in ActiveStatuses THEN FailUnowned(j, TRUE, lag)
                                          ELSE UNCHANGED vars
    /\ listed' = listed \ {j}
    /\ UNCHANGED <<executing, straggler, reported, polls>>

\* Cancel from the daemon or the task handler; the retention pass.
OthersClose(j, lag) ==
    /\ Cancel(j, lag) \/ PruneTerminal(j)
    /\ UNCHANGED runnerVars

RunnersEnqueue == Enqueuing /\ UNCHANGED runnerVars

RunnersRestart == /\ Restart
                  /\ executing' = {}
                  /\ straggler' = {}
                  /\ listed' = {}
                  /\ UNCHANGED <<reported, polls>>

RunnerWorld == /\ Tick \/ SetSafeModeReason
               /\ UNCHANGED runnerVars

-----------------------------------------------------------------------------
\* Everything a runner thread does on its own account.
RunnerThread(w) ==
    \/ RunnerClaims(w)
    \/ StartHandler(w)
    \/ \E lag \in Lags :
         \/ HandlerReturns(w, lag)
         \/ \E retry \in BOOLEAN : HandlerRaises(w, retry, lag)
         \/ HandlerTimesOut(w, lag)
         \/ HandlerPolls(w, lag)
         \/ RefusesToRun(w, lag)

RunnerNext ==
    \/ RunnersEnqueue
    \/ \E w \in Workers : RunnerThread(w) \/ StragglerEnds(w)
    \/ \E j \in JobIds : ReaperLists(j)
    \/ \E j \in JobIds, lag \in Lags :
         LaneRecovers(j, lag) \/ ReaperFails(j, lag) \/ OthersClose(j, lag)
    \/ RunnersRestart
    \/ RunnerWorld

RunnerSpec == RunnerInit /\ [][RunnerNext]_allVars

\* The loops of the daemon call every runner and lane again and again, every
\* handler returns, raises or is given up, and time passes.  A straggler may
\* run for ever.
RunnerFairness ==
    /\ \A w \in Workers : WF_allVars(RunnerThread(w))
    /\ \A j \in JobIds : WF_allVars(\E lag \in Lags : LaneRecovers(j, lag))
    /\ WF_allVars(Tick /\ UNCHANGED runnerVars)

FairRunnerSpec == RunnerSpec /\ RunnerFairness

-----------------------------------------------------------------------------
(* Properties *)

RunnerTypeOK == /\ executing \subseteq Workers
                /\ straggler \subseteq Timed
                /\ reported \in [JobIds -> SUBSET (1..ClaimCap)]
                /\ listed \subseteq JobIds
                /\ formal => listed = {}
                /\ polls \in [JobIds -> 0..PollCap]

\* max_attempts bounds the executions of a job, through crashes, reclaims,
\* races and runs refused because an old handler is still busy; the runs that
\* ended with a pending poll, which reschedule() lets go on for ever, come on
\* top of it, and nothing else does.
WithinBudget == \A j \in JobIds : jobs[j].attempts <= MaxAttempts + polls[j]

\* A runner never runs two handlers at a time, although it retries a job whose
\* handler it gave up on (and a daemon restart is the only thing that stops one).
NoOverlap == \A w \in Timed : ~(w \in executing /\ w \in straggler)

\* Under formal leases at most one run of a job is announced as completed, and
\* if the row says "completed" it is the run whose result the row keeps.
OneReportPerJob == formal => \A j \in JobIds :
    /\ Cardinality(reported[j]) <= 1
    /\ jobs[j].status = "completed" => reported[j] \subseteq {jobs[j].result}

\* Once the daemon stays up and out of safe mode, and what a job polls for is
\* finished or fails, every job is settled.
EverythingSettles ==
    (<>[]~blocked /\ <>[][~Restart]_allVars /\ <>[][polls' = polls]_allVars) =>
        \A j \in JobIds : jobs[j].status \in ActiveStatuses
                            ~> jobs[j].status \notin ActiveStatuses

\* close_landed: "True when a complete()/fail()/reschedule() outcome was the
\* caller's own close": what is announced as completed is completed.
TruthfulReport == \A j \in JobIds :
    reported[j] # {} => jobs[j].status \in {"completed", "deleted"}
=============================================================================

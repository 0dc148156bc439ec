--------------------------- MODULE AutonomousTask ---------------------------
(***************************************************************************)
(* The life of one autonomous task (claw_v2/task_handler.py): its row in   *)
(* the ledger, its job in JobService, its counters in the session state,   *)
(* and everything that writes them: the worker threads that run the        *)
(* coordinator, the watchdog and the owner that resume the task, the owner *)
(* that cancels it, the delegation runner that materialises it, and the    *)
(* passes of the daemon.  Each of these makes its calls one by one.  Of    *)
(* the job only its newest row is kept (resume_key is unique among the     *)
(* active rows); an older one is terminal.  Time is left out: a lease may  *)
(* lapse, and a row may grow old, at any moment.                           *)
(***************************************************************************)
EXTENDS TaskLedger, Naturals, FiniteSets

CONSTANTS
    Threads,      \* worker threads
    MaxAttempts,  \* max_attempts of the job
    MaxDeferrals, \* _MAX_VERIFICATION_DEFERRALS
    NoRun,        \* a thread that runs nothing
    NoErrand,     \* an actor that does nothing
    FaultCap      \* bound of the model: crashes, interrupted streams,
                  \* takeovers of the session and times without a free slot

ASSUME TaskAssumption ==
    /\ IsFiniteSet(Threads)
    /\ MaxAttempts \in Nat \ {0}
    /\ MaxDeferrals \in Nat \ {0}
    /\ FaultCap \in Nat

VARIABLES
    formal,    \* JobService.formal_leases_enabled
    job,       \* the newest job of the task
    session,   \* active_task of the session, as far as it is about this task
    cancelled, \* the task is in _cancelled_tasks
    run,       \* thread -> where its _run_autonomous_task is
    errand,    \* actor -> what it has read and done so far
    orphan,    \* the daemon's orphan pass is about to cancel the job
    faults     \* faults so far

vars == <<row, formal, job, session, cancelled, run, errand, orphan,
          faults>>

Actors == {"watchdog", "caller"}

Claimable == {"queued", "retrying"}
Active == Claimable \cup {"running"}
Closed == {"completed", "failed", "cancelled"}

\* The handle of a job that was superseded says how that job ended.
Handles == {"newest", "cancelled", "over"}

Phases == {"begin", "working", "looked", "closing", "recording", "blocked",
           "cancelling", "withdrawing", "ending"}
Outcomes == {"succeeded", "failed", "pending"}
Session == [mine : BOOLEAN, deferrals : 0..MaxDeferrals]
Run == [phase : Phases, job : Handles, outcome : Outcomes, seen : Session]
Steps == {"listed", "reopened", "stamping", "stamped", "cancelled", "found",
          "booted"}
Errand == [step : Steps, read : RowStatuses, live : BOOLEAN, job : Handles]

ASSUME NothingAssumption == NoRun \notin Run /\ NoErrand \notin Errand

TaskTypeOK ==
    /\ row \in TaskRow /\ formal \in BOOLEAN
    /\ job \in [status : Active \cup Closed \cup {"absent"},
                attempts : 0..MaxAttempts]
    /\ session \in Session /\ cancelled \in BOOLEAN
    /\ run \in [Threads -> Run \cup {NoRun}]
    /\ errand \in [Actors -> Errand \cup {NoErrand}]
    /\ orphan \in BOOLEAN
    /\ faults \in 0..FaultCap

Untouched == [mine |-> FALSE, deferrals |-> 0]

Init == /\ row = NoRow /\ formal \in BOOLEAN
        /\ job = [status |-> "absent", attempts |-> 0]
        /\ session = Untouched /\ cancelled = FALSE
        /\ run = [w \in Threads |-> NoRun]
        /\ errand = [a \in Actors |-> NoErrand]
        /\ orphan = FALSE /\ faults = 0

Live == {w \in Threads : run[w] # NoRun}

-----------------------------------------------------------------------------
(* The job, as the calls of this handler see it. *)

StatusOf(h) == IF h = "newest" THEN job.status ELSE h

Rests(status) == job' = [job EXCEPT !.status = status]

\* fail(): back to retrying while attempts remain and a retry was asked for.
FailJob(retry) ==
    Rests(IF retry /\ job.attempts < MaxAttempts THEN "retrying" ELSE "failed")

\* complete() and fail() with the credentials of the worker's own claim: under
\* formal leases the row must be running and the lease not lapsed.
Lands(h, lapsed) == /\ h = "newest"
                    /\ IF formal THEN job.status = "running" /\ ~lapsed
                                 ELSE job.status \in Active

\* cancel(), or request_cancel() under formal leases, which records the wish.
CancelJob == IF ~formal /\ job.status \in Active THEN Rests("cancelled")
                                                 ELSE job' = job

\* Whoever remembers the job that a new row replaces remembers an ended job.
Outdated(h) == IF h # "newest" THEN h
               ELSE IF job.status = "cancelled" THEN "cancelled" ELSE "over"

JobKnown == {"stamping", "stamped"}

\* enqueue() or reserve(), by actor a, who does e next: the active job of the
\* task, or a new row when there is none.
FindsActive(a, e) == /\ job.status \in Active
                     /\ errand' = [errand EXCEPT ![a] = e]
                     /\ UNCHANGED <<run, orphan>>

Inserts(a, e) ==
    /\ job.status \notin Active
    /\ job' = [status |-> "queued", attempts |-> 0]
    /\ run' = [w \in Threads |-> IF run[w] = NoRun THEN NoRun
                                 ELSE [run[w] EXCEPT !.job = Outdated(@)]]
    /\ errand' = [c \in Actors |->
                     IF c = a THEN e
                     ELSE IF errand[c] # NoErrand /\ errand[c].step \in JobKnown
                     THEN [errand[c] EXCEPT !.job = Outdated(@)]
                     ELSE errand[c]]
    /\ orphan' = FALSE

-----------------------------------------------------------------------------
(* _run_autonomous_task, in a worker thread. *)

In(w, phase) == run[w] # NoRun /\ run[w].phase = phase

Enters(w, phase) == run' = [run EXCEPT ![w].phase = phase]

\* What the thread still remembers in finally does not matter any more.
Finishes(w) == run' = [run EXCEPT ![w] = [@ EXCEPT !.phase = "ending",
                                            !.job = "newest",
                                            !.outcome = "pending"]]

\* The task was cancelled before it started.
FindsItCancelled(w) ==
    /\ In(w, "begin") /\ cancelled
    /\ Enters(w, "cancelling")
    /\ UNCHANGED <<row, formal, job, session, cancelled, errand,
                   orphan, faults>>

\* _claim_autonomous_job: claim(job_id), whatever its next_run_at.
Claims(w) ==
    /\ In(w, "begin") /\ ~cancelled
    /\ run[w].job = "newest" /\ job.status \in Claimable
    /\ job' = [status |-> "running", attempts |-> job.attempts + 1]
    /\ Enters(w, "working")
    /\ UNCHANGED <<row, formal, session, cancelled, errand, orphan,
                   faults>>

\* The claim returned None; the row of the job, read again, says why.  blocked:
\* a safe mode forbids claims.
ClaimFails(w, blocked) ==
    /\ In(w, "begin") /\ ~cancelled
    /\ LET status == StatusOf(run[w].job) IN
       /\ blocked \/ status \notin Claimable
       /\ CASE status = "cancelled" -> Enters(w, "cancelling")
            [] status \in Active /\ blocked -> Enters(w, "blocked")
            [] OTHER -> Finishes(w)
    /\ UNCHANGED <<row, formal, job, session, cancelled, errand,
                   orphan, faults>>

\* _terminalize_unclaimed_job: legacy fails the job; formal leases claim it
\* first, or leave it to the lanes when that is still impossible.
TerminalizesUnclaimed(w) ==
    /\ In(w, "blocked")
    /\ \/ /\ ~formal /\ Lands(run[w].job, FALSE)
          /\ FailJob(FALSE)
       \/ /\ formal /\ StatusOf(run[w].job) \in Claimable
          /\ run[w].job = "newest"
          /\ job' = [status |-> "failed", attempts |-> job.attempts + 1]
       \/ /\ formal \/ ~Lands(run[w].job, FALSE)
          /\ job' = job
    /\ run' = [run EXCEPT ![w].phase = "recording", ![w].job = "newest",
                          ![w].outcome = "failed"]
    /\ UNCHANGED <<row, formal, session, cancelled, errand, orphan,
                   faults>>

\* The coordinator returns; the flag is looked at for the last time, and the
\* session's active_task is read.
Returns(w) ==
    /\ In(w, "working")
    /\ run' = IF cancelled
              THEN [run EXCEPT ![w].phase = "cancelling"]
              ELSE [run EXCEPT ![w].phase = "looked", ![w].seen = session]
    /\ UNCHANGED <<row, formal, job, session, cancelled, errand,
                   orphan, faults>>

\* It raises: the task fails.
Raises(w) ==
    /\ In(w, "working")
    /\ run' = [run EXCEPT ![w].phase = "closing", ![w].outcome = "failed"]
    /\ UNCHANGED <<row, formal, job, session, cancelled, errand,
                   orphan, faults>>

\* _handle_stream_interrupted: a checkpoint that no cap counts.
Interrupted(w) ==
    /\ In(w, "working") /\ faults < FaultCap
    /\ faults' = faults + 1
    /\ run' = [run EXCEPT ![w].phase = "closing", ![w].outcome = "pending"]
    /\ UNCHANGED <<row, formal, job, session, cancelled, errand,
                   orphan>>

\* _maybe_start_redrive; veto: the redrives are used up, the blocker was seen
\* before, the budget is frozen, or the redrive is not feasible.
MayRedrive(seen, veto) == /\ seen.mine /\ ~veto
                          /\ seen.deferrals < MaxDeferrals

\* verification_stalled: the cap of the deferrals, counted in the session as
\* long as its active_task is about this task.
Stalled(seen) == seen.mine /\ seen.deferrals + 1 > MaxDeferrals

\* The verdict on the run: what the verifier said and which kind of blocker it
\* named.
Outcome(verdict, blocker, redriven, seen) ==
    IF verdict = "passed" THEN "succeeded"
    ELSE IF ~redriven /\ (verdict = "failed" \/ blocker # "none") THEN "failed"
    ELSE IF Stalled(seen) THEN "failed"
    ELSE "pending"

\* The counters go back into active_task as they were read, one deferral later.
Judges(w, verdict, blocker, veto) ==
    LET seen == run[w].seen
        redriven == /\ verdict # "passed" /\ blocker = "rework"
                    /\ MayRedrive(seen, veto)
        outcome == Outcome(verdict, blocker, redriven, seen)
    IN
    /\ In(w, "looked")
    /\ run' = [run EXCEPT ![w].phase = "closing", ![w].seen = Untouched,
                          ![w].outcome = outcome]
    /\ session' = IF ~seen.mine THEN session
                  ELSE IF outcome # "pending" THEN seen
                  ELSE [seen EXCEPT !.deferrals = @ + 1]
    /\ UNCHANGED <<row, formal, job, cancelled, errand, orphan,
                   faults>>

\* _complete_, _fail_ or _defer_autonomous_job.
ClosesJob(w, lapsed) ==
    /\ In(w, "closing")
    /\ IF Lands(run[w].job, lapsed)
       THEN IF run[w].outcome = "succeeded" THEN Rests("completed")
            ELSE FailJob(run[w].outcome = "pending")
       ELSE job' = job
    /\ run' = [run EXCEPT ![w].phase = "recording", ![w].job = "newest"]
    /\ UNCHANGED <<row, formal, session, cancelled, errand, orphan,
                   faults>>

\* The ledger comes last.  The artifacts of a run are never empty, so that they
\* count as evidence: a verdict of success is a success there.
Records(w) ==
    /\ In(w, "recording")
    /\ IF run[w].outcome = "pending" THEN Checkpoint
       ELSE MarkTerminal(run[w].outcome, TRUE)
    /\ Finishes(w)
    /\ UNCHANGED <<formal, job, session, cancelled, errand, orphan,
                   faults>>

\* _mark_cancelled_task_state: the ledger, then the job.
WorkerCancels(w) ==
    /\ \/ /\ In(w, "cancelling") /\ MarkTerminal("cancelled", FALSE)
          /\ job' = job /\ Enters(w, "withdrawing")
       \/ /\ In(w, "withdrawing") /\ CancelJob
          /\ row' = row /\ Finishes(w)
    /\ UNCHANGED <<formal, session, cancelled, errand, orphan, faults>>

\* finally: the thread leaves _task_threads, the flag and the slot are freed.
Ends(w) ==
    /\ In(w, "ending")
    /\ run' = [run EXCEPT ![w] = NoRun]
    /\ cancelled' = FALSE
    /\ UNCHANGED <<row, formal, job, session, errand, orphan, faults>>

Works(w) ==
    \/ FindsItCancelled(w) \/ Claims(w) \/ TerminalizesUnclaimed(w)
    \/ \E b \in BOOLEAN : ClaimFails(w, b)
    \/ Returns(w) \/ Raises(w) \/ Interrupted(w)
    \/ \E verdict \in {"passed", "failed", "pending"},
          blocker \in {"none", "rework", "decision"}, veto \in BOOLEAN :
          Judges(w, verdict, blocker, veto)
    \/ \E lapsed \in BOOLEAN : ClosesJob(w, lapsed)
    \/ Records(w) \/ WorkerCancels(w) \/ Ends(w)

-----------------------------------------------------------------------------
(* Everybody who starts or resumes the task, and the owner who cancels it. *)

At(a, step) == errand[a] # NoErrand /\ errand[a].step = step

Does(a, step) == [errand EXCEPT ![a].step = step]

Doing(step) == [step |-> step, read |-> "absent", live |-> FALSE,
                job |-> "newest"]

Begins(a, e) == errand[a] = NoErrand /\ errand' = [errand EXCEPT ![a] = e]

Leaves(a) == errand' = [errand EXCEPT ![a] = NoErrand]

\* start_autonomous_task: the session and the row of a fresh task.
StartsTask ==
    /\ row.status = "absent"
    /\ Begins("caller", Doing("reopened"))
    /\ Create("running")
    /\ session' = [Untouched EXCEPT !.mine = TRUE]
    /\ UNCHANGED <<formal, job, cancelled, run, orphan, faults>>

\* The watchdog, at boot and every five minutes, lists the running rows; the
\* owner may also resume a task that failed, was cancelled or lost, or whose
\* success was never verified.
MayResume(a) ==
    \/ row.status = "running"
    \/ /\ a = "caller"
       /\ \/ row.status \in {"failed", "cancelled", "lost"}
          \/ row.status = "succeeded" /\ ~row.passed

Lists(a) ==
    /\ MayResume(a)
    /\ Begins(a, Doing("listed"))
    /\ UNCHANGED <<row, formal, job, session, cancelled, run, orphan,
                   faults>>

\* Mutant: the counters start again with every resume.
Kept_Nothing == [Untouched EXCEPT !.mine = TRUE]

\* The counters survive when active_task was about this task.
Kept == IF session.mine THEN session ELSE [Untouched EXCEPT !.mine = TRUE]

\* _resume_autonomous_record, with the record that was listed: nothing when a
\* thread of the task lives, else the flag is dropped, the row upserted and
\* active_task rebuilt.
Reopens(a) ==
    /\ At(a, "listed")
    /\ IF Live # {}
       THEN Leaves(a) /\ UNCHANGED <<row, session, cancelled>>
       ELSE /\ cancelled' = FALSE
            /\ Create("running")
            /\ session' = Kept
            /\ errand' = Does(a, "reopened")
    /\ UNCHANGED <<formal, job, run, orphan, faults>>

\* _enqueue_autonomous_job; without leases a resume takes a running job back.
\* Then _update_task_job_metadata reads the row (the three calls are one step),
Enqueues(a) ==
    /\ At(a, "reopened")
    /\ LET next == [errand[a] EXCEPT !.step = "stamping", !.read = row.status] IN
       \/ Inserts(a, next)
       \/ /\ FindsActive(a, next)
          /\ IF ~formal /\ job.status = "running" THEN FailJob(TRUE)
                                                  ELSE job' = job
    /\ UNCHANGED <<row, formal, session, cancelled, faults>>

\* and upserts it as it was read.
Stamps(a) ==
    /\ At(a, "stamping")
    /\ Create(errand[a].read)
    /\ errand' = [errand EXCEPT ![a].step = "stamped", ![a].read = "absent"]
    /\ UNCHANGED <<formal, job, session, cancelled, run, orphan, faults>>

\* Mutant: a living thread of the task is not looked for.
Running_Unknown == FALSE

Running == Live # {}

\* _start_autonomous_thread, under _task_lock.
StartsThread(a) ==
    /\ At(a, "stamped")
    /\ ~Running
    /\ LET free == {w \in Threads : run[w] = NoRun} IN
       /\ free # {}
       /\ run' = [run EXCEPT ![CHOOSE w \in free : TRUE] =
                   [phase |-> "begin", job |-> errand[a].job,
                    outcome |-> "pending", seen |-> Untouched]]
    /\ Leaves(a)
    /\ UNCHANGED <<row, formal, job, session, cancelled, orphan, faults>>

\* It runs already; or the tasks of other sessions hold every slot
\* (_max_autonomous_workers), and it waits as a running row for the watchdog.
StartsNothing(a) ==
    /\ At(a, "stamped")
    /\ \/ Running /\ UNCHANGED <<row, faults>>
       \/ /\ ~Running /\ faults < FaultCap
          /\ faults' = faults + 1 /\ Checkpoint
    /\ Leaves(a)
    /\ UNCHANGED <<formal, job, session, cancelled, run, orphan>>

\* cancel_task_response: when the row is running or a thread lives, it raises
\* the flag and ends the row,
AsksToCancel ==
    /\ row.status \notin {"absent", "cancelled"}
    /\ row.status = "running" \/ Live # {}
    /\ Begins("caller", [Doing("cancelled") EXCEPT !.live = Live # {}])
    /\ cancelled' = TRUE
    /\ MarkTerminal("cancelled", FALSE)
    /\ UNCHANGED <<formal, job, session, run, orphan, faults>>

\* cancels the job, and drops the flag when it had seen no thread.
CancelsJob ==
    /\ At("caller", "cancelled")
    /\ CancelJob
    /\ cancelled' = (cancelled /\ errand["caller"].live)
    /\ Leaves("caller")
    /\ UNCHANGED <<row, formal, session, run, orphan, faults>>

\* ensure_autonomous_task_enqueued: nothing for a task that ended; the row only
\* when there was none; the job when none is active.
LooksForTask ==
    /\ row.status \notin Ended
    /\ Begins("caller", Doing(IF row.status = "absent" THEN "found" ELSE "booted"))
    /\ UNCHANGED <<row, formal, job, session, cancelled, run, orphan, faults>>

Materialises ==
    /\ At("caller", "found")
    /\ Create("running")
    /\ errand' = Does("caller", "booted")
    /\ UNCHANGED <<formal, job, session, cancelled, run, orphan, faults>>

Reserves ==
    /\ At("caller", "booted")
    /\ \/ Inserts("caller", NoErrand)
       \/ FindsActive("caller", NoErrand) /\ job' = job
    /\ UNCHANGED <<row, formal, session, cancelled, faults>>

Resumes(a) == \/ Lists(a) \/ Reopens(a) \/ Enqueues(a) \/ Stamps(a) \/ StartsThread(a)
              \/ StartsNothing(a)

OwnerOrDelegate == \/ StartsTask \/ Resumes("caller")
                   \/ AsksToCancel \/ CancelsJob
                   \/ LooksForTask \/ Materialises \/ Reserves

-----------------------------------------------------------------------------
(* The daemon. *)

Daemon(action) == /\ action
                  /\ UNCHANGED <<formal, session, cancelled, run>>

LedgerPass == \/ ReconcileFalseSuccess /\ faults' = faults
              \/ MarkStaleRunningLost /\ faults < FaultCap /\ faults' = faults + 1

\* Mutant: a lost task is not looked for.
Ending_NotLost == Ended \ {"lost"}

\* The ends of a task that make its job an orphan.
Ending == Ended

\* _reconcile_orphaned_jobs lists a job and reads the row of its task,
SeesOrphan == /\ ~orphan /\ ~formal
              /\ job.status \in Active /\ row.status \in Ending
              /\ orphan' = TRUE
              /\ UNCHANGED <<row, job, errand, faults>>

\* then cancels that job.  Under formal leases cancel() raises and ends the tick.
CancelsOrphan == /\ orphan
                 /\ CancelJob
                 /\ orphan' = FALSE
                 /\ UNCHANGED <<row, errand, faults>>

\* The recovery lanes: the lease expired, or the row is running for too long.
LaneRequeues == /\ job.status = "running" /\ FailJob(TRUE)
                /\ UNCHANGED <<row, orphan, errand, faults>>

DaemonStep == Daemon(\/ LedgerPass /\ UNCHANGED <<job, orphan, errand>>
                     \/ SeesOrphan \/ CancelsOrphan \/ LaneRequeues)

\* The process dies and starts again.
Restarts ==
    /\ faults < FaultCap /\ faults' = faults + 1
    /\ run' = [w \in Threads |-> NoRun]
    /\ errand' = [a \in Actors |-> NoErrand]
    /\ cancelled' = FALSE /\ orphan' = FALSE
    /\ UNCHANGED <<row, formal, job, session>>

\* Another task of the session becomes its active_task.
SessionTaken ==
    /\ faults < FaultCap /\ faults' = faults + 1
    /\ session.mine /\ session' = Untouched
    /\ UNCHANGED <<row, formal, job, cancelled, run, errand, orphan>>

Next == \/ \E w \in Threads : Works(w)
        \/ Resumes("watchdog") \/ OwnerOrDelegate
        \/ DaemonStep \/ Restarts \/ SessionTaken

Spec == Init /\ [][Next]_vars

\* Threads run, the coordinator returns, the watchdog comes round, and so do the
\* passes of the daemon.
FairSpec ==
    /\ Spec
    /\ WF_vars(\E w \in Threads : Works(w))
    /\ WF_vars(Resumes("watchdog"))
    /\ WF_vars(Daemon(SeesOrphan \/ CancelsOrphan))
    /\ WF_vars(Daemon(LaneRequeues))

-----------------------------------------------------------------------------
(* Properties *)

\* A task never runs in two threads, however many resume it at once.
OneRun == Cardinality(Live) <= 1

\* The calls that upsert or checkpoint a row, made on what was read earlier.
ActsOnOldNews ==
    \/ \E a \in Actors : /\ \/ At(a, "listed") \/ At(a, "stamping") \/ At(a, "stamped")
                       /\ errand'[a] # errand[a]
    \/ \E w \in Threads : /\ In(w, "recording") /\ ~In(w, "recording")'
                          /\ run[w].outcome = "pending"

\* A row that has ended is never ended another way by a late worker, a late
\* cancel or the stale pass, and it becomes running again only when the owner
\* resumes it, when its success turns out to be unverified, or when a call
\* goes by what it read while the task still ran.
EndedRows == [][row.status \in Ended /\ row'.status # row.status =>
    \/ /\ row'.status = "running"
       /\ ActsOnOldNews \/ (row.status = "succeeded" /\ ~row.passed)
    \/ \E a \in Actors : /\ At(a, "stamping") /\ At(a, "stamped")'
                         /\ errand[a].read = row'.status]_vars

\* Without leases the job of a task that ended does not stay active.
OrphansEnd ==
    ~formal /\ row.status \in Ended /\ job.status \in Active
        ~> row.status \notin Ended \/ job.status \notin Active

\* A running task ends, however often its verification stays pending or its
\* job is requeued, as long as other tasks do not hold every slot for ever.
TaskSettles == row.status = "running" ~> row.status \in Ended
=============================================================================

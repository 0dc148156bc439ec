------------------------------ MODULE Coordinator ------------------------------
(***************************************************************************)
(* One task of the coordinator.  CoordinatorService.run takes it through   *)
(* research, synthesis, implementation and verification; what a phase      *)
(* yields goes into a scratch directory, file by file, and, when the F2    *)
(* store is configured, its beginning and end go into checkpoints.  A run  *)
(* may end at any point; a later one starts at the phase that the scratch  *)
(* directory suggests and that the F2 recovery plan must agree with.       *)
(*                                                                         *)
(* The scratch directory and the checkpoints are two stores written one    *)
(* after the other: implementation, the phase with effects outside, must   *)
(* not be done twice whatever falls between them.                          *)
(***************************************************************************)
EXTENDS Naturals, Sequences

CONSTANTS
    Workers,    \* number of research workers
    Evidence,   \* whether browser evidence joins the findings
    F2Modes,    \* values f2_durability_enabled may have at a start
    RedriveCap, \* CLAW_MAX_TASK_REDRIVES
    RunCap      \* bound of the model: runs of the task

ASSUME CoordinatorAssumption ==
    /\ Workers \in Nat \ {0}
    /\ Evidence \in BOOLEAN
    /\ F2Modes \subseteq BOOLEAN
    /\ RedriveCap \in Nat
    /\ RunCap \in Nat

VARIABLES
    coding,    \* whether the task has an implementation phase
    f2,        \* whether this process has the F2 store
    scratch,   \* the scratch directory of the task
    ledger,    \* phase -> its newest checkpoint (no code reads the task's own)
    redrive,   \* a re-drive is armed; how many were
    run,       \* the run in progress
    past       \* ghost: what happened to the task so far

vars == <<coding, f2, scratch, ledger, redrive, run, past>>

\* PHASE_ORDER.
PhaseNames == {"research", "synthesis", "implementation", "verification"}
Starts == PhaseNames \cup {"fresh"}   \* fresh: start_phase is None

\* start_rank > PHASE_ORDER.index(phase): the run may load what the phase left.
Rank == [s \in Starts |-> CASE s = "synthesis" -> 2 [] s = "implementation" -> 3
                            [] s = "verification" -> 4 [] OTHER -> 1]
Resumable(phase) == Rank[run.start] > Rank[phase]

\* One file per result, in the order of the tasks; browser evidence is last.
Files == 1 .. (Workers + IF Evidence THEN 1 ELSE 0)
\* The marker of a critical error stands in the content of a "critical" result,
\* and in the error of a "fatal" one, which is an error like the others too.
Criticals == {"critical", "fatal"}
Qualities == {"none", "ok", "error"} \cup Criticals
Findings == [Files -> Qualities]
NoFindings == [i \in Files |-> "none"]

Present(r) == \E i \in Files : r[i] # "none"
Critical(r) == \E i \in Files : r[i] \in Criticals
AllFailed(r) == Present(r) /\ \A i \in Files : r[i] \in {"none", "error", "fatal"}

\* _load_scratch_results: a file that cannot be read or parsed is skipped, and
\* the others are loaded.
Loads(r) == {s \in Findings : \A i \in Files : s[i] \in {r[i], "none"}}

Scratch == [research : Findings,
            synthesis : {"none", "empty", "text"},
            implementation : Qualities,
            marker : BOOLEAN]
EmptyScratch == [research |-> NoFindings, synthesis |-> "none",
                 implementation |-> "none", marker |-> FALSE]

\* The newest checkpoint of a phase; torn: a write is newer than it.
Checkpoint == [status : {"none", "started", "succeeded", "failed", "blocked"},
               torn : BOOLEAN]

Stages == {"off", "research", "researching", "saving", "researched",
           "synthesis", "synthesizing", "synthesized", "marking", "dispatching",
           "implementing", "implemented", "verifying", "healing",
           "closing", "refused", "finishing", "ending"}

\* due: checkpoint events to record before the stage goes on; saved: files
\* written; active: f2_active_phase; opened: f2_task_started; culprit: the phase
\* a self-healing synthesis is about; succeeded: the last run ended so; unread
\* (ghost): the files that were skipped when the run loaded the others.
Idle == [at |-> "off", start |-> "fresh", findings |-> NoFindings, due |-> <<>>,
         saved |-> 0, active |-> "none", opened |-> FALSE, culprit |-> "none",
         succeeded |-> FALSE, unread |-> {}]

Init ==
    /\ coding \in BOOLEAN
    /\ f2 \in F2Modes
    /\ scratch = EmptyScratch
    /\ ledger = [p \in PhaseNames |-> [status |-> "none", torn |-> FALSE]]
    /\ redrive = [armed |-> FALSE, attempts |-> 0]
    /\ run = Idle
    /\ past = [runs |-> 0, dispatches |-> 0, verdict |-> NoFindings,
               pruned |-> FALSE, blind |-> FALSE, unlogged |-> FALSE,
               missed |-> FALSE]

-----------------------------------------------------------------------------
\* Steps of a run.
At(stage) == run.at = stage /\ run.due = <<>>
Keeping == UNCHANGED <<coding, f2, scratch, ledger, redrive, past>>
Goto(stage, due) ==
    run' = [run EXCEPT !.at = stage, !.due = IF f2 THEN due ELSE <<>>,
                       !.saved = 0,
                       !.findings = IF stage \in {"researched", "synthesis",
                                                  "synthesizing"}
                                    THEN @ ELSE NoFindings]

\* The except clause of run(): close the phase and the task, whatever fails.
Closing(r) ==
    IF ~r.opened THEN <<>>
    ELSE (IF r.active = "none" THEN <<>> ELSE <<<<r.active, "failed">>>>)
         \o (IF r.at \in {"finishing", "refused"} /\ r.due = <<>> THEN <<>>
             ELSE <<<<"task", "failed">>>>)
Raised(r) == [Idle EXCEPT !.at = "ending", !.due = Closing(r)]

\* What a recorded event does to the memory of the run.  The self-healing path
\* records the start of its synthesis without making it the active phase.
Noted(r, phase, status) ==
    [r EXCEPT !.due = Tail(@),
              !.opened = @ \/ phase = "task",
              !.active = IF \/ phase = "task"
                            \/ r.at \in {"healing", "closing", "refused", "ending"}
                         THEN @
                         ELSE IF status = "started" THEN phase
                         ELSE IF status = "succeeded" /\ @ = phase THEN "none"
                         ELSE @]

Written(phase, checkpoint) ==
    [p \in PhaseNames |-> IF p = phase THEN checkpoint ELSE ledger[p]]

\* _f2_record_checkpoint_event: a write, then its checkpoint, in two
\* transactions.  Either may fail, which ends the run, except within the close.
Records ==
    /\ run.due # <<>>
    /\ LET phase == Head(run.due)[1]
           status == Head(run.due)[2]
           failed == IF run.at = "ending"
                     THEN [run EXCEPT !.due = Tail(@)]
                     ELSE Raised(run)
       IN  \/ /\ ledger' = Written(phase, [status |-> status, torn |-> FALSE])
              /\ run' = Noted(run, phase, status)
           \/ /\ phase \in PhaseNames
              /\ ledger' = Written(phase, [ledger[phase] EXCEPT !.torn = TRUE])
              /\ run' = failed
           \/ UNCHANGED ledger /\ run' = failed
    /\ UNCHANGED <<coding, f2, scratch, redrive, past>>

\* A call of the stage raises: the disk is full, the orchestration store fails.
Raises ==
    /\ run.at \notin {"off", "ending"} /\ run.due = <<>>
    /\ run' = Raised(run)
    /\ Keeping

\* _complete_worker_phase_failed_run, _complete_cancelled_run
FailsAt(phase) == Goto("closing", <<<<phase, "failed">>, <<"task", "failed">>>>)
StopsBefore(phase) ==
    Goto("closing", <<<<phase, "blocked">>, <<"task", "failed">>>>)

\* should_abort() is asked at the boundary before a phase.
Aborts ==
    /\ \/ At("researched") /\ ~Critical(run.findings) /\ StopsBefore("synthesis")
       \/ At("synthesized") /\ coding /\ StopsBefore("implementation")
       \/ At("synthesized") /\ ~coding /\ StopsBefore("verification")
       \/ At("implemented") /\ scratch.implementation # "critical"
          /\ StopsBefore("verification")
    /\ Keeping

-----------------------------------------------------------------------------
\* Research.
LoadsResearch ==
    /\ At("research") /\ Resumable("research")
    /\ \E r \in Loads(scratch.research) :
         /\ Present(r)
         /\ run' = [run EXCEPT
                      !.findings = r,
                      !.unread = {i \in Files : r[i] # scratch.research[i]},
                      !.at = IF AllFailed(r) THEN "closing" ELSE "researched",
                      !.due = IF AllFailed(r) /\ f2
                              THEN <<<<"research", "failed">>, <<"task", "failed">>>>
                              ELSE <<>>]
    /\ Keeping

\* Research is also begun when there are files and none of them can be read.
BeginsResearch ==
    /\ At("research")
    /\ Goto("researching", <<<<"research", "started">>>>)
    /\ past' = [past EXCEPT !.missed = @ \/ Present(scratch.research)]
    /\ UNCHANGED <<coding, f2, scratch, ledger, redrive>>

\* Mutant: a critical result leaves those of its siblings as they are.
Answers_Uncancelled ==
    {r \in Findings : /\ \A i \in Files \ (1 .. Workers) : r[i] \notin Criticals
                      /\ \A i \in 1 .. Workers : r[i] # "none"}

\* _dispatch_parallel: it returns at the first critical result, the results
\* before it are cancelled, those still at work are dropped; browser evidence is
\* appended to what there is.
Answers ==
    {r \in Findings :
       /\ \A i \in Files \ (1 .. Workers) : r[i] \in {"none", "ok", "error"}
       /\ \/ \A i \in 1 .. Workers : r[i] \in {"ok", "error"}
          \/ \E k \in 1 .. Workers :
               /\ r[k] \in Criticals
               /\ \A i \in (1 .. Workers) \ {k} : r[i] \in {"none", "error"}}

Researches ==
    /\ At("researching")
    /\ \E r \in Answers :
         /\ run' = [run EXCEPT !.at = "saving", !.findings = r, !.saved = 0]
         /\ past' = [past EXCEPT !.verdict = r]
    /\ UNCHANGED <<coding, f2, scratch, ledger, redrive>>

\* _write_scratch: one file after the other.
Saves ==
    /\ At("saving") /\ run.saved + 1 \in Files
    /\ LET i == run.saved + 1 IN
         scratch' = IF run.findings[i] = "none" THEN scratch
                    ELSE [scratch EXCEPT !.research[i] = run.findings[i]]
    /\ run' = [run EXCEPT !.saved = @ + 1]
    /\ UNCHANGED <<coding, f2, ledger, redrive, past>>

\* Mutant: the success is recorded with the answers, before the files.
Saved_AtOnce == TRUE

Saved == run.saved + 1 \notin Files

EndsResearch ==
    /\ At("saving") /\ Saved
    /\ IF AllFailed(run.findings) THEN FailsAt("research")
       ELSE Goto("researched", <<<<"research", "succeeded">>>>)
    /\ Keeping

-----------------------------------------------------------------------------
\* Synthesis, and the self-healing one that ends a run with a critical result.
EntersSynthesis ==
    /\ At("researched") /\ ~Critical(run.findings)
    /\ Goto("synthesis", <<>>)
    /\ Keeping

\* _load_scratch_text answers "" for a text that cannot be read.
LoadsSynthesis ==
    /\ At("synthesis") /\ Resumable("synthesis") /\ scratch.synthesis = "text"
    /\ Goto("synthesized", <<>>)
    /\ Keeping

BeginsSynthesis ==
    /\ At("synthesis")
    /\ Goto("synthesizing", <<<<"synthesis", "started">>>>)
    /\ Keeping

\* _synthesize answers "" when the model call fails.
Synthesizes ==
    /\ At("synthesizing")
    /\ \E text \in {"empty", "text"} :
         scratch' = [scratch EXCEPT !.synthesis = text]
    /\ Goto("synthesized", <<<<"synthesis", "succeeded">>>>)
    /\ UNCHANGED <<coding, f2, ledger, redrive, past>>

\* _complete_critical_worker_run
BeginsHealing ==
    /\ \E phase \in {"research", "implementation"} :
         /\ \/ phase = "research" /\ At("researched") /\ Critical(run.findings)
            \/ phase = "implementation" /\ At("implemented")
               /\ scratch.implementation = "critical"
         /\ run' = [run EXCEPT !.at = "healing", !.culprit = phase,
                               !.due = IF f2 THEN <<<<"synthesis", "started">>>>
                                       ELSE <<>>]
    /\ Keeping

Heals ==
    /\ At("healing")
    /\ \E text \in {"empty", "text"} :
         scratch' = [scratch EXCEPT !.synthesis = text]
    /\ Goto("closing", <<<<"synthesis", "succeeded">>, <<run.culprit, "failed">>,
                         <<"task", "failed">>>>)
    /\ UNCHANGED <<coding, f2, ledger, redrive, past>>

-----------------------------------------------------------------------------
\* Implementation: one worker, one file.
LoadsImplementation ==
    /\ At("synthesized") /\ coding
    /\ Resumable("implementation") /\ scratch.implementation # "none"
    /\ IF scratch.implementation \in {"error", "fatal"} THEN FailsAt("implementation")
       ELSE Goto("implemented", <<>>)
    /\ Keeping

\* Mutant: only the results count.
Forbidden_NoMarker == FALSE

\* The gate: a resumed run does not start an implementation that was started,
\* though it finds no results of it, or none that it can read.  (No caller passes
\* allow_implementation_rerun.)
Forbidden == run.start # "fresh" /\ scratch.marker

Refuses ==
    /\ At("synthesized") /\ coding /\ Forbidden
    /\ Goto("refused", <<<<"implementation", "blocked">>, <<"task", "failed">>>>)
    /\ Keeping

BeginsImplementation ==
    /\ At("synthesized") /\ coding /\ ~Forbidden
    /\ Goto("marking", <<<<"implementation", "started">>>>)
    /\ Keeping

Marks ==
    /\ At("marking")
    /\ scratch' = [scratch EXCEPT !.marker = TRUE]
    /\ Goto("dispatching", <<>>)
    /\ UNCHANGED <<coding, f2, ledger, redrive, past>>

\* The worker is at work from here on; the count stops at two.
Dispatches ==
    /\ At("dispatching")
    /\ Goto("implementing", <<>>)
    /\ past' = [past EXCEPT !.dispatches = IF @ = 2 THEN 2 ELSE @ + 1]
    /\ UNCHANGED <<coding, f2, scratch, ledger, redrive>>

Implements ==
    /\ At("implementing")
    /\ \E q \in Qualities \ {"none"} :
         /\ scratch' = [scratch EXCEPT !.implementation = q]
         /\ IF q \in {"error", "fatal"} THEN FailsAt("implementation")
            ELSE Goto("implemented", <<<<"implementation", "succeeded">>>>)
    /\ UNCHANGED <<coding, f2, ledger, redrive, past>>

-----------------------------------------------------------------------------
\* Verification and the end of a run.
BeginsVerification ==
    /\ \/ At("synthesized") /\ ~coding
       \/ At("implemented") /\ scratch.implementation # "critical"
    /\ Goto("verifying", <<<<"verification", "started">>>>)
    /\ Keeping

Verifies ==
    /\ At("verifying")
    /\ \/ FailsAt("verification")
       \/ Goto("finishing", <<<<"verification", "succeeded">>, <<"task", "succeeded">>>>)
    /\ Keeping

Returns ==
    /\ At("closing") \/ At("refused") \/ At("finishing") \/ At("ending")
    /\ run' = [Idle EXCEPT !.succeeded = run.at = "finishing"]
    /\ Keeping

-----------------------------------------------------------------------------
\* detect_resume_phase: the first phase without a file that can be read.
Detected ==
    {"research"}
      \cup (IF ~Present(scratch.research) THEN {}
            ELSE {"synthesis"}
              \cup (IF scratch.synthesis # "text" THEN {}
                    ELSE {"implementation"}
                      \cup (IF scratch.implementation = "none" THEN {}
                            ELSE {"verification"})))

\* _classify_phase, without external effects: none belongs to these phases.
Classified(phase) ==
    LET c == ledger[phase] IN
    CASE c.torn /\ c.status # "started" -> "blocked"
      [] ~c.torn /\ c.status = "succeeded" -> "complete"
      [] c.status = "started" \/ (~c.torn /\ c.status = "none") -> "retryable"
      [] OTHER -> "blocked"

\* plan_f2_recovery: the status is RETRYABLE and this is the next phase.
Planned(phase) ==
    /\ \A p \in PhaseNames : Classified(p) # "blocked"
    /\ Classified(phase) # "complete"
    /\ \A p \in PhaseNames : Rank[p] < Rank[phase] => Classified(p) = "complete"

\* Mutant: the plan need not agree with the scratch directory.
Chosen_Unplanned == Detected

\* The phases a resumed run may start at.  Detection may fail (the directory
\* cannot be listed); then a run without the F2 store starts from nothing.
Chosen ==
    IF f2 THEN {p \in Detected : Planned(p)} ELSE Detected \cup {"fresh"}

BeginsRun(start, misread) ==
    /\ run.at = "off" /\ past.runs < RunCap
    /\ run' = [Idle EXCEPT !.at = "research", !.start = start,
                           !.due = IF f2 THEN <<<<"task", "started">>>> ELSE <<>>]
    /\ redrive' = [redrive EXCEPT !.armed = FALSE]
    /\ past' = [past EXCEPT
                  !.runs = @ + 1,
                  !.blind = @ \/ (past.runs > 0 /\ (past.pruned \/ start = "fresh")),
                  !.unlogged = @ \/ ~f2,
                  !.missed = @ \/ misread]
    /\ UNCHANGED <<coding, f2, scratch, ledger>>

FirstRun ==
    /\ past.runs = 0
    /\ BeginsRun("fresh", FALSE)

\* _run_coordinated_task(resumed=True).  An armed re-drive is consumed only once
\* a run is allowed, and starts at synthesis.
Resumes ==
    \E phase \in Chosen :
        BeginsRun(IF redrive.armed THEN "synthesis" ELSE phase,
                  phase = "research" /\ Present(scratch.research))

\* The evidence pre-step of a consumed re-drive fails: no run.
LosesRedrive ==
    /\ run.at = "off" /\ redrive.armed /\ Chosen # {}
    /\ redrive' = [redrive EXCEPT !.armed = FALSE]
    /\ run' = [run EXCEPT !.succeeded = FALSE]
    /\ UNCHANGED <<coding, f2, scratch, ledger, past>>

\* _maybe_start_redrive: the verdict of a finished run names a blocker that may
\* be worked on again, and no implementation was ever started.
ArmsRedrive ==
    /\ run.at = "off" /\ run.succeeded
    /\ ~scratch.marker /\ redrive.attempts < RedriveCap
    /\ redrive' = [armed |-> TRUE, attempts |-> redrive.attempts + 1]
    /\ run' = [run EXCEPT !.succeeded = FALSE]
    /\ UNCHANGED <<coding, f2, scratch, ledger, past>>

\* _prune_stale_scratch_dirs of another task's run, after a long rest.
IsPruned ==
    /\ run.at = "off" /\ scratch # EmptyScratch
    /\ scratch' = EmptyScratch
    /\ past' = [past EXCEPT !.pruned = TRUE]
    /\ UNCHANGED <<coding, f2, ledger, redrive, run>>

\* The process dies; the next one may have another configuration.
Restarts ==
    /\ run' = Idle
    /\ f2' \in F2Modes
    /\ UNCHANGED <<coding, scratch, ledger, redrive, past>>

RunStep ==
    \/ Records \/ Raises \/ Aborts
    \/ LoadsResearch \/ BeginsResearch \/ Researches \/ Saves \/ EndsResearch
    \/ EntersSynthesis \/ LoadsSynthesis \/ BeginsSynthesis \/ Synthesizes
    \/ BeginsHealing \/ Heals
    \/ LoadsImplementation \/ Refuses \/ BeginsImplementation \/ Marks
    \/ Dispatches \/ Implements
    \/ BeginsVerification \/ Verifies \/ Returns

Next ==
    \/ RunStep
    \/ FirstRun \/ Resumes \/ LosesRedrive \/ ArmsRedrive
    \/ IsPruned \/ Restarts

Spec == Init /\ [][Next]_vars

-----------------------------------------------------------------------------
\* Every variable has its type.
CoordinatorTypeOK ==
    /\ coding \in BOOLEAN
    /\ f2 \in BOOLEAN
    /\ scratch \in Scratch
    /\ ledger \in [PhaseNames -> Checkpoint]
    /\ redrive \in [armed : BOOLEAN, attempts : 0 .. RedriveCap]
    /\ run \in [at : Stages, start : Starts, findings : Findings,
                due : Seq((PhaseNames \cup {"task"})
                            \X {"started", "succeeded", "failed", "blocked"}),
                saved : Nat, active : PhaseNames \cup {"none"},
                opened : BOOLEAN, culprit : {"none", "research", "implementation"},
                succeeded : BOOLEAN, unread : SUBSET Files]
    /\ past \in [runs : 0 .. RunCap, dispatches : 0 .. 2, verdict : Findings,
                 pruned : BOOLEAN, blind : BOOLEAN, unlogged : BOOLEAN,
                 missed : BOOLEAN]

\* Both safeguards of implementation failed.  The marker: a run began after the
\* scratch directory was lost or not looked at.  The recovery plan: a run had no
\* F2 store, or could read none of the files of research.
Unguarded == past.blind /\ (past.unlogged \/ past.missed)

\* Implementation is dispatched once per task, whatever crashes and failing
\* stores cut off and whichever files cannot be read, unless both the marker
\* and the recovery plan failed.
ImplementedOnce == past.dispatches > 1 => Unguarded

\* With the F2 store, a synthesis is made from all the answers of the research
\* workers but those whose files are there and could not be read: a directory
\* that a crash left half written is not taken for whole.
SynthesisSeesAll ==
    f2 /\ run.at = "synthesizing" /\ ~past.blind /\ ~past.missed =>
        \A i \in Files :
            IF i \in run.unread THEN scratch.research[i] = past.verdict[i]
                                ELSE run.findings[i] = past.verdict[i]

\* No phase goes on from research whose workers all failed, in this run or a
\* later one that loads what files it can; and none from research that found a
\* critical error, unless it is the file with that error that cannot be read.
NothingPastFailure ==
    \/ past.blind \/ past.missed
    \/ run.at \notin {"synthesis", "synthesizing", "marking", "dispatching",
                      "implementing", "verifying"}
    \/ /\ ~AllFailed(past.verdict)
       /\ \A i \in Files : past.verdict[i] \in Criticals => i \in run.unread

\* A checkpoint vouches for the files: what a phase that is recorded as
\* succeeded has left is in the scratch directory.
CheckpointsVouch ==
    \/ past.pruned
    \/ past.blind
    \/ /\ ledger["research"].status = "succeeded"
            => past.missed \/ scratch.research = past.verdict
       /\ ledger["synthesis"].status = "succeeded"
            => scratch.synthesis # "none"
       /\ ledger["implementation"].status = "succeeded"
            => scratch.implementation # "none"

\* What is recorded as succeeded is not begun again: a synthesis is, by a
\* re-drive, a self-healing or a run that cannot read it, and a verification;
\* research is by a run that can read none of its files, implementation is not,
\* with the same exception.
NeverRedone ==
    [][\A phase \in {"research", "implementation"} :
         ledger[phase].status = "succeeded" /\ ledger'[phase].status = "started"
           => Unguarded \/ (phase = "research" /\ past.missed)]_vars
=============================================================================

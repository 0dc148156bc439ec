----------------------------- MODULE ResearchLane -----------------------------
(***************************************************************************)
(* The durable NotebookLM research lane.  NotebookLMResearchRunner claims  *)
(* a notebooklm.research job, F2ExternalEffectExecutor drives the external *)
(* effect (the import of sources into a notebook) through the row of       *)
(* external_effect_records that the job owns, and the runner maps the      *)
(* outcome to the job, without the credentials of its claim.  After an     *)
(* interrupted attempt the verifier compares the notebook with the source  *)
(* count the first attempt recorded.                                       *)
(***************************************************************************)
EXTENDS JobService

CONSTANTS
    None,       \* no row, no count
    Backends,   \* research backends the configuration may name
    OthersCap   \* bound of the model: changes other people make to a notebook

ASSUME ResearchAssumption ==
    /\ \E w \in Workers : Workers = {w}  \* the lane is one loop of the daemon
    /\ Backends \subseteq {"cdp", "external"}
    /\ OthersCap \in Nat
    /\ None \notin Int

VARIABLES
    effect,    \* job -> its row in external_effect_records
    notebook,  \* job -> the notebook it imports into
    stage,     \* thread -> how far it is with the job it holds
    count      \* thread -> the source count it read last

laneVars == <<effect, notebook, stage, count>>
allVars == <<vars, laneVars>>

Open == {"intent_recorded", "apply_in_progress", "verified_absent"}
Applied == {"applied", "verified_applied"}
Effect == [status : Open \cup Applied \cup {"blocked_manual_review"},
           applies : Nat, base : Int, imported : BOOLEAN]
\* applies = attempt_count, base = pre_intent_source_count, imported = a
\* result_json with a positive count.
ASSUME NoneAssumption == None \notin Effect

Stages == {"claimed", "intent", "route", "apply", "calling", "running",
           "landed", "empty", "imported", "nothing", "raised", "recover",
           "verdict", "applied", "blocked"}

\* imports: landed imports of the job; pending: an import that NotebookLM
\* accepted and that has not landed; others: sources other people added, less
\* those they removed; edits: how many such changes; disturbed: an import landed
\* after its caller gave up, or sources were removed.
Notebook == [imports : Nat, pending : BOOLEAN, others : Int, edits : Nat,
             disturbed : BOOLEAN]

LaneInit ==
    /\ Init
    /\ effect = [j \in JobIds |-> None]
    /\ \E n \in [JobIds -> 0..1] :
         notebook = [j \in JobIds |-> [imports |-> 0, pending |-> FALSE,
                                       others |-> n[j], edits |-> 0,
                                       disturbed |-> FALSE]]
    /\ stage = [w \in Workers |-> "claimed"]
    /\ count = [w \in Workers |-> None]

SourceCount(j) == notebook[j].imports + notebook[j].others

At(w, s) == held[w] # NoClaim /\ stage[w] = s
Goto(w, s) == stage' = [stage EXCEPT ![w] = s]

-----------------------------------------------------------------------------
\* The runner.
LaneClaims(w) ==
    /\ \/ ReadGate(w)
       \/ \E lag \in Lags : ClaimNext(w, Kinds, lag)
       \/ ClaimNothing(w) /\ \E lag \in Lags : \A j \in JobIds : ~Due(j, lag)
    /\ UNCHANGED laneVars

\* status_fn before any intent.
ReadBaseline(w) ==
    /\ At(w, "claimed")
    /\ count' = [count EXCEPT ![w] = SourceCount(held[w].job)]
    /\ Goto(w, "intent")
    /\ UNCHANGED <<vars, effect, notebook>>

\* The end of a run: the runner closes the job, or is refused.
LaneCloses(w, newRow) ==
    /\ BareClose(w, newRow)
    /\ Goto(w, "claimed")
    /\ count' = [count EXCEPT ![w] = None]
    /\ UNCHANGED <<effect, notebook>>

\* The baseline could not be read, or the adapter raised.
RetryLater(w, lag) ==
    /\ At(w, "claimed") \/ At(w, "raised")
    /\ LaneCloses(w, RetriedOrFailed(jobs[held[w].job], TRUE, RetryDelay, lag))

CompleteResearch(w, lag) ==
    /\ At(w, "applied")
    /\ LaneCloses(w, [Unleased(jobs[held[w].job], "completed", lag)
                        EXCEPT !.result = held[w].att])

FailBlocked(w, lag) ==
    /\ At(w, "blocked")
    /\ LaneCloses(w, [Unleased(jobs[held[w].job], "failed", lag)
                        EXCEPT !.checkpoint = held[w].att])

-----------------------------------------------------------------------------
\* The executor.
ToStage(w, s) == Goto(w, s) /\ UNCHANGED <<vars, notebook, count>>

\* Mutant: every attempt records its own baseline.
Intent_OwnBaseline(w) ==
    LET e == effect[held[w].job] IN
    IF e = None
    THEN [status |-> "intent_recorded", applies |-> 0, base |-> count[w],
          imported |-> FALSE]
    ELSE [e EXCEPT !.base = count[w]]

\* record_external_effect: ON CONFLICT(idempotency_key) DO NOTHING, so a later
\* attempt of the job finds the row, and the baseline, of the first.
Intent(w) ==
    LET e == effect[held[w].job] IN
    IF e = None
    THEN [status |-> "intent_recorded", applies |-> 0, base |-> count[w],
          imported |-> FALSE]
    ELSE e

RecordIntent(w) ==
    /\ At(w, "intent")
    /\ effect' = [effect EXCEPT ![held[w].job] = Intent(w)]
    /\ ToStage(w, "route")

\* Rows the executor never drives again.
Settled(e) == e.status \in Applied \cup {"blocked_manual_review"}

\* _drive.
Drive(w) ==
    LET e == effect[held[w].job] IN
    /\ At(w, "route")
    /\ ToStage(w,
         IF Settled(e) THEN IF e.status \in Applied THEN "applied" ELSE "blocked"
         ELSE IF \/ e.status = "verified_absent"
                 \/ e.status = "intent_recorded" /\ e.applies = 0
         THEN "apply" ELSE "recover")
    /\ UNCHANGED effect

\* Mutant: the adapter is called before the attempt is committed.
BeginApply_CallFirst(w) ==
    /\ At(w, "apply")
    /\ ToStage(w, "calling")
    /\ UNCHANGED effect

\* _apply commits apply_in_progress before it calls the adapter.
BeginApply(w) ==
    LET j == held[w].job
        more == effect[j].applies < MaxAttempts IN
    /\ At(w, "apply")
    /\ effect' = [effect EXCEPT
         ![j] = IF more
                THEN [@ EXCEPT !.status = "apply_in_progress",
                               !.applies = effect[j].applies + 1]
                ELSE [@ EXCEPT !.status = "blocked_manual_review"]]
    /\ ToStage(w, IF more THEN "calling" ELSE "blocked")

\* deep_research reads the source count first.  The browser backend takes any
\* source for the outcome of this research and returns their number.
CallAdapter(w, backend) ==
    LET n == SourceCount(held[w].job) IN
    /\ At(w, "calling")
    /\ count' = [count EXCEPT ![w] = n]
    /\ Goto(w, IF backend = "cdp" /\ n > 0 THEN "imported" ELSE "running")
    /\ UNCHANGED <<vars, effect, notebook>>

\* The research imports its sources, finds none, or the call raises: before the
\* import, or after "Importar" was clicked and the sources did not show in time.
ResearchRuns(w) ==
    LET j == held[w].job IN
    /\ At(w, "running")
    /\ \/ Goto(w, "landed") /\ notebook' = [notebook EXCEPT ![j].imports = @ + 1]
       \/ Goto(w, "empty") /\ UNCHANGED notebook
       \/ Goto(w, "raised") /\ UNCHANGED notebook
       \/ Goto(w, "raised") /\ notebook' = [notebook EXCEPT ![j].pending = TRUE]
    /\ UNCHANGED <<vars, effect, count>>

\* The answer is the growth of the source count, whoever caused it; or the call
\* raises although the sources landed.
AdapterReturns(w) ==
    /\ \/ At(w, "landed") /\ (Goto(w, "imported") \/ Goto(w, "raised"))
       \/ /\ At(w, "empty")
          /\ IF SourceCount(held[w].job) > count[w] THEN Goto(w, "imported")
             ELSE Goto(w, "nothing") \/ Goto(w, "raised")
    /\ UNCHANGED <<vars, effect, notebook, count>>

RecordResult(w) ==
    LET j == held[w].job IN
    \/ /\ At(w, "imported")
       /\ effect' = [effect EXCEPT ![j].status = "applied", ![j].imported = TRUE]
       /\ ToStage(w, "applied")
    \/ /\ At(w, "nothing")
       /\ effect' = [effect EXCEPT ![j].status = "blocked_manual_review"]
       /\ ToStage(w, "blocked")

\* _recover: the verifier reads the notebook, or finds it unavailable.
VerifierReads(w) ==
    /\ At(w, "recover")
    /\ \E c \in {SourceCount(held[w].job), None} :
         count' = [count EXCEPT ![w] = c]
    /\ Goto(w, "verdict")
    /\ UNCHANGED <<vars, effect, notebook>>

Verdict(e, c) ==
    IF e.imported THEN "verified_applied"
    ELSE IF c = e.base THEN "verified_absent" ELSE "blocked_manual_review"

CommitVerdict(w) ==
    LET j == held[w].job
        v == Verdict(effect[j], count[w]) IN
    /\ At(w, "verdict")
    /\ effect' = [effect EXCEPT ![j].status = v]
    /\ ToStage(w, CASE v = "verified_applied" -> "applied"
                    [] v = "verified_absent" -> "apply"
                    [] OTHER -> "blocked")

-----------------------------------------------------------------------------
\* The notebook, outside the program.
ImportLands(j) ==
    /\ notebook[j].pending
    /\ notebook' = [notebook EXCEPT ![j].imports = @ + 1, ![j].pending = FALSE,
                                    ![j].disturbed = TRUE]
    /\ UNCHANGED <<vars, effect, stage, count>>

OthersEdit(j) ==
    /\ notebook[j].edits < OthersCap
    /\ \E d \in {1, -1} :
         /\ SourceCount(j) + d >= 0
         /\ notebook' = [notebook EXCEPT ![j].others = @ + d, ![j].edits = @ + 1,
                                         ![j].disturbed = @ \/ d < 0]
    /\ UNCHANGED <<vars, effect, stage, count>>

\* Mutant: no lane covers notebooklm.* rows.
LaneRetires_NotCovered(j) == FALSE

\* The reconcile lane of the daemon retires notebooklm.* rows, it never retries.
LaneRetires(j) == /\ \E lag \in Lags : Recovering(j, TRUE, lag)
                  /\ UNCHANGED laneVars

\* effect and notebook survive a crash.
LaneRestarts == /\ Restart
                /\ stage' = [w \in Workers |-> "claimed"]
                /\ count' = [w \in Workers |-> None]
                /\ UNCHANGED <<effect, notebook>>

LaneWorld == /\ Enqueuing \/ Tick \/ SetSafeModeReason
                \/ \E j \in JobIds : PruneTerminal(j)
             /\ UNCHANGED laneVars

Executor(w) ==
    \/ RecordIntent(w) \/ Drive(w) \/ BeginApply(w)
    \/ \E b \in Backends : CallAdapter(w, b)
    \/ ResearchRuns(w) \/ AdapterReturns(w) \/ RecordResult(w)
    \/ VerifierReads(w) \/ CommitVerdict(w)

Runner(w) ==
    \/ LaneClaims(w)
    \/ ReadBaseline(w)
    \/ \E lag \in Lags : \/ RetryLater(w, lag)
                         \/ CompleteResearch(w, lag)
                         \/ FailBlocked(w, lag)

LaneNext ==
    \/ \E w \in Workers : Runner(w) \/ Executor(w)
    \/ \E j \in JobIds : ImportLands(j) \/ OthersEdit(j) \/ LaneRetires(j)
    \/ LaneRestarts
    \/ LaneWorld

\* The loops of the daemon run the lane and the reconcile lane for ever; calls
\* to a notebook return; time passes.
LaneFairness ==
    /\ \A w \in Workers : WF_allVars(Runner(w) \/ Executor(w))
    /\ \A j \in JobIds : WF_allVars(LaneRetires(j))
    /\ WF_allVars(Tick /\ UNCHANGED laneVars)

LaneSpec == LaneInit /\ [][LaneNext]_allVars /\ LaneFairness

-----------------------------------------------------------------------------
(* Properties *)

\* The statuses "failed" and "verification_required" of the table are never
\* stored.
LaneTypeOK == /\ effect \in [JobIds -> Effect \cup {None}]
              /\ notebook \in [JobIds -> Notebook]
              /\ stage \in [Workers -> Stages]
              /\ count \in [Workers -> Int \cup {None}]

\* "Never duplicate": whatever crashes, retries and raises between intent and
\* result, a job imports its sources once, as long as an import lands before
\* its caller gives up and nobody removes sources (all a source count can tell).
NeverDuplicate == \A j \in JobIds :
    notebook[j].imports > 1 => notebook[j].disturbed

\* The record is written ahead: no crash leaves an import, landed or still on
\* its way, that the row of the job does not count as an attempt.
WriteAhead == \A j \in JobIds :
    LET n == notebook[j]  due == n.imports + (IF n.pending THEN 1 ELSE 0) IN
    due > 0 => effect[j] # None /\ due <= effect[j].applies

\* Once the daemon stays up and out of safe mode, every research ends, whichever
\* of its calls raise.
ResearchSettles ==
    (<>[]~blocked /\ <>[][~LaneRestarts]_allVars) =>
        \A j \in JobIds : jobs[j].status \in ActiveStatuses
                            ~> jobs[j].status \notin ActiveStatuses

\* "We do not silently complete a research that imported nothing."
CompletedIsImported == \A j \in JobIds :
    jobs[j].status = "completed" => notebook[j].imports > 0
=============================================================================

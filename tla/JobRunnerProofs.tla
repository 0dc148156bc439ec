--------------------------- MODULE JobRunnerProofs ---------------------------
(***************************************************************************)
(* Theorems about JobRunner for every set of jobs, runners and lanes.      *)
(* Every step of the runners is a step of the registry or leaves it alone, *)
(* so what is proved of JobService carries over; on top of its invariant   *)
(* IInv come the budget of a row, the handlers of a runner and, under      *)
(* formal leases, what was announced about a job.                          *)
(***************************************************************************)
EXTENDS JobRunner, JobServiceProofs

LEMMA RunnerStep ==
    ASSUME [RunnerNext]_allVars
    PROVE  [Next]_vars
  <1>1. CASE UNCHANGED allVars
    BY <1>1 DEF allVars
  <1>2. CASE RunnersEnqueue
    BY <1>2 DEF RunnersEnqueue, Next
  <1>3. ASSUME NEW w \in Workers, RunnerClaims(w)
        PROVE  [Next]_vars
    <2>1. CASE ReadGate(w)
      BY <2>1 DEF Next, Claiming
    <2>2. CASE FindsNothing(w)
      BY <2>2 DEF FindsNothing, Next, Claiming
    <2>3. ASSUME NEW lag \in Lags, ClaimNext(w, Kinds, lag)
          PROVE  Claiming
      <3>1. PICK j \in JobIds : KindOf[j] \in Kinds
        BY <2>3 DEF ClaimNext
      <3>2. Kinds # {}
        BY <3>1
      <3>3. Kinds \in (SUBSET Kinds) \ {{}}
        BY <3>2
      <3> QED
        BY <2>3, <3>3, Zenon DEF Claiming
    <2>4. ASSUME NEW lag \in Lags, NEW j \in JobIds, ClaimById(w, j, lag)
          PROVE  Claiming
      BY <2>4 DEF Claiming
    <2> QED
      BY <1>3, <2>1, <2>2, <2>3, <2>4 DEF RunnerClaims, Next
  <1>4. ASSUME NEW w \in Workers, StartHandler(w) \/ StragglerEnds(w)
        PROVE  [Next]_vars
    BY <1>4 DEF StartHandler, StragglerEnds
  <1>5. ASSUME NEW w \in Workers, NEW lag \in Lags, HandlerReturns(w, lag)
        PROVE  [Next]_vars
    BY <1>5 DEF HandlerReturns, Next, Executing
  <1>6. ASSUME NEW w \in Workers, NEW lag \in Lags, NEW retry \in BOOLEAN,
               Fail(w, retry, lag) \/ HandlerPolls(w, lag)
        PROVE  [Next]_vars
    BY <1>6 DEF HandlerPolls, Next, Executing
  <1>7. ASSUME NEW w \in Workers, RunnerThread(w)
        PROVE  [Next]_vars
    BY <1>3, <1>4, <1>5, <1>6, <1>7
       DEF RunnerThread, HandlerRaises, HandlerTimesOut, RefusesToRun
  <1>8. ASSUME NEW j \in JobIds, ReaperLists(j)
        PROVE  [Next]_vars
    BY <1>8 DEF ReaperLists
  <1>9. ASSUME NEW j \in JobIds, NEW lag \in Lags, NEW b \in BOOLEAN,
               \/ Recovering(j, b, lag) \/ FailUnowned(j, b, lag)
               \/ Cancel(j, lag) \/ PruneTerminal(j)
        PROVE  [Next]_vars
    BY <1>9 DEF Next, Administering
  <1>10. ASSUME NEW j \in JobIds, NEW lag \in Lags,
                LaneRecovers(j, lag) \/ ReaperFails(j, lag) \/ OthersClose(j, lag)
         PROVE  [Next]_vars
    <2>1. ASSUME LaneRecovers(j, lag)
          PROVE  [Next]_vars
      <3> DEFINE b == KindOf[j] \in NoRetryKinds
      <3>1. b \in BOOLEAN
        OBVIOUS
      <3>2. Recovering(j, b, lag)
        BY <2>1 DEF LaneRecovers
      <3> HIDE DEF b
      <3> QED
        BY <1>9, <3>1, <3>2, Zenon
    <2>2. ASSUME ReaperFails(j, lag)
          PROVE  [Next]_vars
      <3>1. FailUnowned(j, TRUE, lag) \/ UNCHANGED vars
        BY <2>2 DEF ReaperFails
      <3> QED
        BY <1>9, <3>1
    <2>3. ASSUME OthersClose(j, lag)
          PROVE  [Next]_vars
      BY <1>9, <2>3 DEF OthersClose
    <2> QED
      BY <1>10, <2>1, <2>2, <2>3
  <1>11. CASE RunnersRestart \/ RunnerWorld
    BY <1>11 DEF RunnersRestart, RunnerWorld, Next, Environment
  <1> QED
    BY <1>1, <1>2, <1>4, <1>7, <1>8, <1>10, <1>11 DEF RunnerNext

\* The runners, the lanes and the retention pass use the registry as it allows:
\* every theorem about JobService holds of them.
THEOREM RunnersUseTheRegistry == RunnerSpec => Spec
  <1>1. RunnerInit => Init
    BY DEF RunnerInit
  <1>2. [RunnerNext]_allVars => [Next]_vars
    BY RunnerStep
  <1> QED
    BY <1>1, <1>2, PTL DEF RunnerSpec, Spec

-----------------------------------------------------------------------------
(* The budget. *)

\* A job that may be claimed again has an attempt left, or a poll that paid for
\* one.
Affordable(row, extra) ==
    row.status \in Claimable => row.attempts < MaxAttempts + extra

AllAffordable(rows) == \A j \in JobIds : Affordable(rows[j], polls[j])

\* An outstanding claim is one of the counted ones.
Numbered == \A w \in Workers : held[w] # NoClaim => held[w].att \in 1..ClaimCap

RInv == /\ IInv /\ RunnerTypeOK /\ NoOverlap /\ WithinBudget /\ Numbered
        /\ AllAffordable(jobs)

LEMMA PollsCounted ==
    ASSUME RInv, NEW j \in JobIds
    PROVE  polls[j] \in Nat
  BY RunnerAssumption DEF RInv, RunnerTypeOK

LEMMA RetriedAffordable ==
    ASSUME NEW row \in Row, NEW retry, NEW delay, NEW lag, NEW extra \in Nat
    PROVE  Affordable(RetriedOrFailed(row, retry, delay, lag), extra)
  <1>1. CASE retry /\ row.attempts < MaxAttempts
    <2> DEFINE r == [Unleased(row, "retrying", lag) EXCEPT !.wait = delay - lag]
    <2>1. r.attempts = row.attempts
      BY DEF Unleased, Row
    <2>2. row.attempts \in Nat /\ MaxAttempts \in Nat
      BY ConstantsAssumption DEF Row
    <2> QED
      BY <1>1, <2>1, <2>2 DEF RetriedOrFailed, Requeued, Affordable
  <1>2. CASE ~(retry /\ row.attempts < MaxAttempts)
    <2>1. Unleased(row, "failed", lag).status = "failed"
      BY DEF Unleased, Row
    <2> QED
      BY <1>2, <2>1 DEF RetriedOrFailed, Affordable, Claimable
  <1> QED
    BY <1>1, <1>2

LEMMA OneRowAffordable ==
    ASSUME RInv, NEW i \in JobIds, NEW r, Affordable(r, polls[i]),
           jobs' = jobs \/ jobs' = [jobs EXCEPT ![i] = r]
    PROVE  AllAffordable(jobs')
  BY DEF RInv, IInv, RowsOK, AllAffordable

LEMMA CallAffordable ==
    ASSUME RInv, NEW w \in Workers, NEW lag \in Lags,
           Complete(w, lag) \/ \E retry \in BOOLEAN : Fail(w, retry, lag)
    PROVE  AllAffordable(jobs')
  <1> DEFINE i == held[w].job
             done == [Unleased(jobs[i], "completed", lag) EXCEPT !.result = held[w].att]
  <1>1. i \in JobIds /\ jobs[i] \in Row
    <2>1. held[w] # NoClaim
      BY DEF Complete, Fail
    <2> QED
      BY <2>1 DEF RInv, IInv, MemoryOK, RowsOK, Claim
  <1>2. CASE Complete(w, lag)
    <2>1. done.status = "completed"
      BY <1>1 DEF Unleased, Row
    <2>2. Affordable(done, polls[i])
      BY <2>1 DEF Affordable, Claimable
    <2>3. jobs' = jobs \/ jobs' = [jobs EXCEPT ![i] = done]
      BY <1>2 DEF Complete, Close
    <2> HIDE DEF done
    <2> QED
      BY <1>1, <2>2, <2>3, OneRowAffordable
  <1>3. ASSUME NEW retry \in BOOLEAN, Fail(w, retry, lag)
        PROVE  AllAffordable(jobs')
    <2>1. PICK d : \/ jobs' = jobs
                   \/ jobs' = [jobs EXCEPT ![i] = RetriedOrFailed(jobs[i], retry, d, lag)]
      BY <1>3 DEF Fail, Close
    <2>2. Affordable(RetriedOrFailed(jobs[i], retry, d, lag), polls[i])
      BY <1>1, RetriedAffordable, PollsCounted
    <2> QED
      BY <1>1, <2>1, <2>2, OneRowAffordable
  <1> QED
    BY <1>2, <1>3

LEMMA OthersAffordable ==
    ASSUME RInv, NEW j \in JobIds, NEW lag \in Lags, NEW b \in BOOLEAN,
           \/ Recovering(j, b, lag) \/ FailUnowned(j, b, lag)
           \/ Cancel(j, lag) \/ PruneTerminal(j)
    PROVE  AllAffordable(jobs')
  <1>1. jobs[j] \in Row
    BY DEF RInv, IInv, RowsOK
  <1>2. CASE Recovering(j, b, lag) \/ FailUnowned(j, b, lag)
    <2>1. PICK retry : jobs' = [jobs EXCEPT ![j] = RetriedOrFailed(jobs[j], retry, 0, lag)]
      BY <1>2 DEF Recovering, ReclaimExpiredLease, RecoverStaleRunning, FailUnowned
    <2>2. Affordable(RetriedOrFailed(jobs[j], retry, 0, lag), polls[j])
      BY <1>1, RetriedAffordable, PollsCounted
    <2> QED
      BY <2>1, <2>2, OneRowAffordable
  <1>3. CASE Cancel(j, lag)
    <2>1. Unleased(jobs[j], "cancelled", lag).status = "cancelled"
      BY <1>1 DEF Unleased, Row
    <2>2. Affordable(Unleased(jobs[j], "cancelled", lag), polls[j])
      BY <2>1 DEF Affordable, Claimable
    <2> QED
      BY <1>3, <2>2, OneRowAffordable DEF Cancel
  <1>4. CASE PruneTerminal(j)
    <2>1. Affordable([EmptyRow EXCEPT !.status = "deleted"], polls[j])
      BY DEF EmptyRow, Affordable, Claimable
    <2> QED
      BY <1>4, <2>1, OneRowAffordable DEF PruneTerminal
  <1> QED
    BY <1>2, <1>3, <1>4

LEMMA ClosingAffordable ==
    ASSUME RInv, [RunnerNext]_allVars,
           \A w \in Workers, lag \in Lags : ~HandlerPolls(w, lag)
    PROVE  AllAffordable(jobs')
  <1>1. ASSUME jobs' = jobs
        PROVE  AllAffordable(jobs')
    BY <1>1 DEF RInv
  <1>2. CASE UNCHANGED allVars
    BY <1>1, <1>2 DEF allVars, vars
  <1>3. CASE RunnersEnqueue
    <2>1. \A k, n : \A extra \in Nat :
            Affordable([EmptyRow EXCEPT !.status = "queued", !.key = k,
                                        !.created = n], extra)
      BY ConstantsAssumption DEF EmptyRow, Affordable
    <2>2. ASSUME NEW c \in Callers, NEW j \in JobIds, Insert(c, j)
          PROVE  AllAffordable(jobs')
      <3>1. PICK k, n :
              \/ jobs' = jobs
              \/ jobs' = [jobs EXCEPT ![j] = [EmptyRow EXCEPT !.status = "queued",
                                                 !.key = k, !.created = n]]
        BY <2>2 DEF Insert
      <3> QED
        BY <2>1, <3>1, OneRowAffordable, PollsCounted
    <2> QED
      BY <1>1, <1>3, <2>2 DEF RunnersEnqueue, Enqueuing, LookupKey
  <1>4. ASSUME NEW w \in Workers, RunnerClaims(w)
        PROVE  AllAffordable(jobs')
    <2>1. ASSUME NEW j \in JobIds, NEW lag \in Lags, Take(w, j, lag)
          PROVE  AllAffordable(jobs')
      <3>1. jobs[j] \in Row
        BY DEF RInv, IInv, RowsOK
      <3>2. Claimed(jobs[j], w, lag).status = "running"
        BY <3>1 DEF Claimed, Row
      <3>3. Affordable(Claimed(jobs[j], w, lag), polls[j])
        BY <3>2 DEF Affordable, Claimable
      <3> QED
        BY <2>1, <3>3, OneRowAffordable DEF Take
    <2> QED
      BY <1>1, <1>4, <2>1
         DEF RunnerClaims, ReadGate, FindsNothing, ClaimNothing, ClaimNext, ClaimById
  <1>5. ASSUME NEW w \in Workers, RunnerThread(w) \/ StragglerEnds(w)
        PROVE  AllAffordable(jobs')
    <2>1. CASE StartHandler(w) \/ StragglerEnds(w)
      BY <1>1, <2>1 DEF StartHandler, StragglerEnds, vars
    <2>2. ASSUME NEW lag \in Lags,
                 \/ HandlerReturns(w, lag)
                 \/ \E retry \in BOOLEAN : HandlerRaises(w, retry, lag)
                 \/ HandlerTimesOut(w, lag)
                 \/ RefusesToRun(w, lag)
          PROVE  AllAffordable(jobs')
      BY <2>2, CallAffordable
         DEF HandlerReturns, HandlerRaises, HandlerTimesOut, RefusesToRun
    <2> QED
      BY <1>4, <1>5, <2>1, <2>2 DEF RunnerThread
  <1>6. ASSUME NEW j \in JobIds, NEW lag \in Lags,
               LaneRecovers(j, lag) \/ ReaperFails(j, lag) \/ OthersClose(j, lag)
        PROVE  AllAffordable(jobs')
    <2>1. CASE LaneRecovers(j, lag)
      <3> DEFINE b == KindOf[j] \in NoRetryKinds
      <3>1. b \in BOOLEAN
        OBVIOUS
      <3>2. Recovering(j, b, lag)
        BY <2>1 DEF LaneRecovers
      <3> HIDE DEF b
      <3> QED
        BY <3>1, <3>2, OthersAffordable
    <2>2. CASE ReaperFails(j, lag)
      <3>1. FailUnowned(j, TRUE, lag) \/ UNCHANGED vars
        BY <2>2 DEF ReaperFails
      <3> QED
        BY <1>1, <3>1, OthersAffordable DEF vars
    <2>3. CASE OthersClose(j, lag)
      BY <2>3, OthersAffordable DEF OthersClose
    <2> QED
      BY <1>6, <2>1, <2>2, <2>3
  <1>7. CASE RunnersRestart \/ RunnerWorld \/ \E j \in JobIds : ReaperLists(j)
    <2>1. CASE Tick
      <3>1. \A j \in JobIds : Kept(jobs[j], jobs'[j])
        BY <2>1, OlderKept DEF Tick, RInv, IInv, RowsOK
      <3> QED
        BY <3>1 DEF Kept, Affordable, AllAffordable, RInv
    <2> QED
      BY <1>1, <1>7, <2>1
         DEF RunnersRestart, RunnerWorld, ReaperLists, Restart, SetSafeModeReason, vars
  <1> QED
    BY <1>2, <1>3, <1>5, <1>6, <1>7 DEF RunnerNext

\* A poll puts its row back and pays for the next claim of it.
LEMMA PollAffordable ==
    ASSUME RInv, NEW w \in Workers, NEW lag \in Lags, HandlerPolls(w, lag)
    PROVE  AllAffordable(jobs)'
  <1> DEFINE c == held[w]
             i == c.job
             row == [Requeued(jobs[i], RetryDelay, lag) EXCEPT !.checkpoint = c.att]
  <1>1. i \in JobIds /\ jobs[i] \in Row
    <2>1. held[w] # NoClaim
      BY DEF HandlerPolls, Reschedule
    <2> QED
      BY <2>1 DEF RInv, IInv, MemoryOK, RowsOK, Claim
  <1>2. CASE Accepts(i, c, lag)
    <2>1. jobs' = [jobs EXCEPT ![i] = row] /\ polls' = [polls EXCEPT ![i] = @ + 1]
      BY <1>2 DEF HandlerPolls, Reschedule, Close
    <2>2. row.attempts = jobs[i].attempts
      BY <1>1 DEF Requeued, Unleased, Row
    <2>3. jobs[i].attempts \in Nat /\ MaxAttempts \in Nat /\ polls[i] \in Nat
          /\ jobs[i].attempts <= MaxAttempts + polls[i]
      BY <1>1, PollsCounted, ConstantsAssumption DEF RInv, WithinBudget, Row
    <2>4. polls'[i] = polls[i] + 1 /\ jobs'[i] = row
          /\ \A j \in JobIds \ {i} : polls'[j] = polls[j] /\ jobs'[j] = jobs[j]
      BY <1>1, <2>1 DEF RInv, IInv, RowsOK, RunnerTypeOK
    <2> HIDE DEF row
    <2>5. Affordable(jobs'[i], polls'[i])
      BY <2>2, <2>3, <2>4 DEF Affordable
    <2> QED
      BY <2>4, <2>5 DEF RInv, AllAffordable
  <1>3. CASE ~Accepts(i, c, lag)
    <2>1. jobs' = jobs /\ polls' = polls
      BY <1>3 DEF HandlerPolls, Reschedule, Close
    <2> QED
      BY <2>1 DEF RInv, AllAffordable
  <1> QED
    BY <1>2, <1>3

\* Only a poll changes the count, and only upwards.
LEMMA PollsStep ==
    ASSUME RInv, [RunnerNext]_allVars
    PROVE  /\ polls' \in [JobIds -> 0..PollCap]
           /\ \A j \in JobIds : polls'[j] >= polls[j]
           /\ \/ polls' = polls
              \/ \E w \in Workers, lag \in Lags : HandlerPolls(w, lag)
  <1>1. polls \in [JobIds -> 0..PollCap] /\ PollCap \in Nat
    BY RunnerAssumption DEF RInv, RunnerTypeOK
  <1>2. ASSUME NEW w \in Workers, NEW lag \in Lags, HandlerPolls(w, lag)
        PROVE  /\ polls' \in [JobIds -> 0..PollCap]
               /\ \A j \in JobIds : polls'[j] >= polls[j]
    <2> DEFINE i == held[w].job
    <2>1. polls' = polls \/ polls' = [polls EXCEPT ![i] = polls[i] + 1]
      BY <1>2 DEF HandlerPolls
    <2>2. polls[i] < PollCap
      BY <1>2 DEF HandlerPolls
    <2> HIDE DEF i
    <2> QED
      BY <1>1, <2>1, <2>2
  <1>3. \/ polls' = polls
        \/ \E w \in Workers, lag \in Lags : HandlerPolls(w, lag)
    BY DEF RunnerNext, allVars, RunnersEnqueue, RunnerThread, RunnerClaims,
       StartHandler, HandlerReturns, HandlerRaises, HandlerTimesOut, RefusesToRun,
       StragglerEnds, ReaperLists, LaneRecovers, ReaperFails, OthersClose,
       RunnersRestart, RunnerWorld, runnerVars
  <1> QED
    BY <1>1, <1>2, <1>3

LEMMA AffordableStep ==
    ASSUME RInv, [RunnerNext]_allVars
    PROVE  AllAffordable(jobs)'
  <1>1. CASE \E w \in Workers, lag \in Lags : HandlerPolls(w, lag)
    BY <1>1, PollAffordable
  <1>2. CASE \A w \in Workers, lag \in Lags : ~HandlerPolls(w, lag)
    <2>1. polls' = polls
      BY <1>2, PollsStep
    <2> QED
      BY <1>2, <2>1, ClosingAffordable DEF AllAffordable
  <1> QED
    BY <1>1, <1>2

\* Claims are paid for: only a claim spends an attempt.
LEMMA BudgetStep ==
    ASSUME RInv, [RunnerNext]_allVars
    PROVE  WithinBudget'
  <1> SUFFICES ASSUME NEW j \in JobIds
               PROVE  jobs'[j].attempts <= MaxAttempts + polls'[j]
    BY DEF WithinBudget
  <1>1. /\ jobs[j] \in Row /\ jobs[j].attempts <= MaxAttempts + polls[j]
        /\ Affordable(jobs[j], polls[j]) /\ MaxAttempts \in Nat
        /\ jobs[j].attempts \in Nat
        /\ polls[j] \in Nat /\ polls'[j] \in Nat /\ polls'[j] >= polls[j]
    BY ConstantsAssumption, RunnerAssumption, PollsCounted, PollsStep
       DEF RInv, IInv, RowsOK, WithinBudget, AllAffordable, Row
  <1>2. Kept(jobs[j], jobs'[j]) \/ Change(jobs[j], jobs'[j])
    <2>1. Kept(jobs[j], jobs[j])
      BY DEF Kept
    <2>2. AllKept \/ OneChange
      BY RunnerStep, StepLemma DEF RInv
    <2> QED
      BY <2>1, <2>2 DEF AllKept, OneChange
  <1> QED
    BY <1>1, <1>2 DEF Kept, Change, Granted, Left, Done, Gone, Born, Affordable

LEMMA NumberedStep ==
    ASSUME RInv, [RunnerNext]_allVars
    PROVE  Numbered'
  <1>1. Forgets \/ Takes
    BY RunnerStep, HeldStep DEF RInv
  <1>2. CASE Forgets
    BY <1>2 DEF Forgets, Numbered, RInv
  <1>3. CASE Takes
    <2>1. PICK w \in Workers, j \in JobIds, lag \in Lags :
            jobs[j].status \in Claimable /\ Take(w, j, lag)
      BY <1>3 DEF Takes
    <2>2. /\ jobs[j] \in Row /\ jobs'[j] = Claimed(jobs[j], w, lag)
          /\ GoodRow(jobs[j]) /\ formal \in Modes
      BY <2>1 DEF Take, RInv, IInv, RowsOK, MemoryOK
    <2>3. jobs'[j].attempts = jobs[j].attempts + 1 /\ jobs[j].attempts < ClaimCap
          /\ jobs[j].attempts \in Nat
      BY <2>1, <2>2, ClaimedGranted DEF Granted, Take, Row
    <2>4. jobs'[j].attempts \in 1..ClaimCap
      BY <2>3, ConstantsAssumption
    <2>5. \A v \in Workers : held'[v] = held[v] \/ held'[v].att = jobs'[j].attempts
      BY <2>1 DEF Take, RInv, IInv, MemoryOK
    <2> QED
      BY <2>4, <2>5 DEF Numbered, RInv
  <1> QED
    BY <1>1, <1>2, <1>3

\* What the runners remember, step by step.
LEMMA RunnerStateStep ==
    ASSUME RInv, [RunnerNext]_allVars
    PROVE  RunnerTypeOK' /\ NoOverlap'
  <1>1. /\ executing \subseteq Workers /\ straggler \subseteq Timed
        /\ reported \in [JobIds -> SUBSET (1..ClaimCap)] /\ listed \subseteq JobIds
        /\ formal => listed = {}
        /\ \A w \in Timed : ~(w \in executing /\ w \in straggler)
        /\ polls' \in [JobIds -> 0..PollCap]
    BY PollsStep DEF RInv, RunnerTypeOK, NoOverlap
  <1>2. ASSUME UNCHANGED runnerVars, formal' = formal
        PROVE  RunnerTypeOK' /\ NoOverlap'
    BY <1>1, <1>2 DEF RunnerTypeOK, NoOverlap, runnerVars
  <1>3. CASE UNCHANGED allVars
    BY <1>2, <1>3 DEF allVars, vars
  <1>4. CASE RunnersEnqueue \/ RunnerWorld
    BY <1>2, <1>4 DEF RunnersEnqueue, RunnerWorld, Enqueuing, LookupKey, Insert,
                      Tick, SetSafeModeReason
  <1>5. CASE RunnersRestart
    BY <1>1, <1>5 DEF RunnersRestart, RunnerTypeOK, NoOverlap
  <1>6. ASSUME NEW w \in Workers, RunnerClaims(w)
        PROVE  RunnerTypeOK' /\ NoOverlap'
    BY <1>2, <1>6 DEF RunnerClaims, ReadGate, FindsNothing, ClaimNothing,
                      ClaimNext, ClaimById, Take
  <1>7. ASSUME NEW w \in Workers, StartHandler(w) \/ StragglerEnds(w)
        PROVE  RunnerTypeOK' /\ NoOverlap'
    BY <1>1, <1>7 DEF StartHandler, StragglerEnds, MaySubmit, vars, RunnerTypeOK,
                      NoOverlap
  <1>8. ASSUME NEW w \in Workers, NEW lag \in Lags, HandlerReturns(w, lag)
        PROVE  RunnerTypeOK' /\ NoOverlap'
    <2>1. /\ held[w] # NoClaim /\ formal' = formal
          /\ executing' = executing \ {w} /\ straggler' = straggler
          /\ listed' = listed
      BY <1>8 DEF HandlerReturns, Complete, Close
    <2>2. held[w].job \in JobIds /\ held[w].att \in 1..ClaimCap
      BY <2>1 DEF RInv, IInv, MemoryOK, Claim, Numbered
    <2>3. reported' \in [JobIds -> SUBSET (1..ClaimCap)]
      <3>1. CASE reported' = reported
        BY <1>1, <3>1
      <3>2. CASE reported' = [reported EXCEPT ![held[w].job] =
                                reported[held[w].job] \cup {held[w].att}]
        <4>1. reported[held[w].job] \cup {held[w].att} \in SUBSET (1..ClaimCap)
          BY <1>1, <2>2
        <4> QED
          BY <1>1, <3>2, <4>1
      <3> QED
        BY <1>8, <3>1, <3>2 DEF HandlerReturns
    <2> QED
      BY <1>1, <2>1, <2>3 DEF RunnerTypeOK, NoOverlap
  <1>9. ASSUME NEW w \in Workers, NEW lag \in Lags,
               \/ \E retry \in BOOLEAN : HandlerRaises(w, retry, lag)
               \/ HandlerTimesOut(w, lag)
               \/ RefusesToRun(w, lag)
        PROVE  RunnerTypeOK' /\ NoOverlap'
    <2>1. formal' = formal
      BY <1>9 DEF HandlerRaises, HandlerTimesOut, RefusesToRun, Fail, Close
    <2> QED
      BY <1>1, <1>9, <2>1 DEF HandlerRaises, HandlerTimesOut, RefusesToRun,
         runnerVars, RunnerTypeOK, NoOverlap
  <1>10. ASSUME NEW j \in JobIds, ReaperLists(j)
         PROVE  RunnerTypeOK' /\ NoOverlap'
    BY <1>1, <1>10 DEF ReaperLists, vars, RunnerTypeOK, NoOverlap
  <1>11. ASSUME NEW j \in JobIds, NEW lag \in Lags,
                LaneRecovers(j, lag) \/ OthersClose(j, lag)
         PROVE  RunnerTypeOK' /\ NoOverlap'
    BY <1>2, <1>11 DEF LaneRecovers, OthersClose, Recovering, ReclaimExpiredLease,
                       RecoverStaleRunning, Cancel, PruneTerminal
  <1>12. ASSUME NEW j \in JobIds, NEW lag \in Lags, ReaperFails(j, lag)
         PROVE  RunnerTypeOK' /\ NoOverlap'
    <2>1. formal' = formal
      BY <1>12 DEF ReaperFails, FailUnowned, vars
    <2> QED
      BY <1>1, <1>12, <2>1 DEF ReaperFails, RunnerTypeOK, NoOverlap
  <1>13. ASSUME NEW w \in Workers, NEW lag \in Lags, HandlerPolls(w, lag)
         PROVE  RunnerTypeOK' /\ NoOverlap'
    <2>1. formal' = formal
      BY <1>13 DEF HandlerPolls, Reschedule, Close
    <2> QED
      BY <1>1, <1>13, <2>1 DEF HandlerPolls, RunnerTypeOK, NoOverlap
  <1> QED
    BY <1>3, <1>4, <1>5, <1>6, <1>7, <1>8, <1>9, <1>10, <1>11, <1>12, <1>13
       DEF RunnerNext, RunnerThread

LEMMA RunnersInductive == RunnerSpec => []RInv
  <1>1. RunnerInit => RInv
    <2> SUFFICES ASSUME RunnerInit
                 PROVE  RInv
      OBVIOUS
    <2>1. IInv
      BY EmptyGood DEF RunnerInit, Init, IInv, MemoryOK, RowsOK, GoodRow
    <2>2. RunnerTypeOK /\ NoOverlap
      BY RunnerAssumption DEF RunnerInit, RunnerTypeOK, NoOverlap
    <2>3. /\ WithinBudget /\ Numbered
          /\ AllAffordable(jobs)
      BY ConstantsAssumption
         DEF RunnerInit, Init, EmptyRow, WithinBudget, Numbered, Affordable,
             AllAffordable
    <2> QED
      BY <2>1, <2>2, <2>3 DEF RInv
  <1>2. RInv /\ [RunnerNext]_allVars => RInv'
    <2> SUFFICES ASSUME RInv, [RunnerNext]_allVars
                 PROVE  RInv'
      OBVIOUS
    <2>1. IInv'
      BY RunnerStep, StepLemma DEF RInv
    <2> QED
      BY <2>1, RunnerStateStep, BudgetStep, NumberedStep, AffordableStep DEF RInv
  <1> QED
    BY <1>1, <1>2, PTL DEF RunnerSpec

\* Types are kept; above all an attempt that was announced is one of the counted
\* ones, and no reaper works without leases while formal leases are on.
THEOREM RunnerTypeCorrect == RunnerSpec => []RunnerTypeOK
  <1>1. RInv => RunnerTypeOK
    BY DEF RInv
  <1> QED
    BY <1>1, RunnersInductive, PTL

\* In both regimes, and across a change of regime, crashes, refusals, reaps and
\* retries never execute a job more often than max_attempts; only a run that
\* ended with a pending poll (notebooklm.orchestrate) is not charged to them.
THEOREM BudgetKept == RunnerSpec => []WithinBudget
  <1>1. RInv => WithinBudget
    BY DEF RInv
  <1> QED
    BY <1>1, RunnersInductive, PTL

\* With any number of runners and jobs, no runner with a timeout runs a handler
\* while another that it gave up on still runs.
THEOREM HandlersDoNotOverlap == RunnerSpec => []NoOverlap
  <1>1. RInv => NoOverlap
    BY DEF RInv
  <1> QED
    BY <1>1, RunnersInductive, PTL

-----------------------------------------------------------------------------
(* What is announced, under formal leases. *)

\* Only a job that ended was announced, for the claim it ended with; a completed
\* row keeps the result of its last claim.
Announced(row, said) ==
    /\ said # {} => row.status \in TerminalStatuses \cup {"deleted"}
    /\ said # {} /\ row.status \in TerminalStatuses => said = {row.attempts}
    /\ \E a \in Nat : said \subseteq {a}
    /\ row.status = "completed" => row.result = row.attempts

AInv == \A j \in JobIds : Announced(jobs[j], reported[j])

\* A step that announces nothing leaves everything announced as it was.
LEMMA SilentStep ==
    ASSUME Modes = {TRUE}, IInv, FInv, AInv, [Next]_vars, NEW j \in JobIds,
           reported'[j] = reported[j]
    PROVE  Announced(jobs'[j], reported'[j])
  <1>1. Kept(jobs[j], jobs'[j]) \/ Change(jobs[j], jobs'[j])
    <2>1. Kept(jobs[j], jobs[j])
      BY DEF Kept
    <2> QED
      BY <2>1, StepLemma DEF AllKept, OneChange
  <1>2. Announced(jobs[j], reported[j]) /\ MovesWell(j)
    BY StepMovesWell DEF AInv
  <1>3. CASE Kept(jobs[j], jobs'[j])
    BY <1>2, <1>3 DEF Kept, Announced
  <1>4. CASE Change(jobs[j], jobs'[j])
    <2>1. reported[j] # {} => Gone(jobs[j], jobs'[j])
      BY <1>2, <1>4 DEF Change, Granted, Left, Done, Born, Announced,
         TerminalStatuses, ActiveStatuses, Claimable
    <2>2. jobs'[j].status = "completed" => Done(jobs[j], jobs'[j])
      BY <1>4 DEF Change, Granted, Left, Gone, Born
    <2>3. jobs'[j].status = "completed" => jobs'[j].result = jobs'[j].attempts
      BY <1>2, <2>2 DEF Done, MovesWell, ActiveStatuses, Claimable
    <2>4. Gone(jobs[j], jobs'[j]) => jobs'[j].status = "deleted"
      BY DEF Gone
    <2> QED
      BY <1>2, <2>1, <2>3, <2>4 DEF Announced, TerminalStatuses
  <1> QED
    BY <1>1, <1>3, <1>4

\* The announcement itself: the close landed with the generation that the row
\* has, so the claim is the last one the row had.
LEMMA AnnouncingStep ==
    ASSUME Modes = {TRUE}, IInv, FInv, AInv, NEW w \in Workers, NEW lag \in Lags,
           reported \in [JobIds -> SUBSET (1..ClaimCap)],
           HandlerReturns(w, lag), CloseLanded(held[w], lag)
    PROVE  Announced(jobs'[held[w].job], reported'[held[w].job])
  <1> DEFINE c == held[w]
             j == c.job
             row == [Unleased(jobs[j], "completed", lag) EXCEPT !.result = c.att]
  <1>1. /\ c # NoClaim /\ c \in Claim /\ j \in JobIds /\ c.att \in Nat
        /\ jobs[j] \in Row /\ formal
    BY FormalMode DEF HandlerReturns, Complete, IInv, MemoryOK, RowsOK, Claim
  <1>2. jobs[j].attempts = c.att
    <2>1. c.gen = c.att
      BY <1>1 DEF FInv, HeldOK
    <2>2. jobs[j].gen = jobs[j].attempts
      BY <1>1 DEF IInv, RowsOK, GoodRow, FormalOK
    <2> QED
      BY <2>1, <2>2 DEF CloseLanded
  <1>3. Announced(jobs[j], reported[j])
    BY <1>1 DEF AInv
  <1>4. reported'[j] = reported[j] \cup {c.att}
    BY <1>1 DEF HandlerReturns
  <1>5. CASE Accepts(j, c, lag)
    <2>1. jobs[j].status = "running"
      BY <1>1, <1>5 DEF Accepts, CurrentLeaseMatches
    <2>2. reported[j] = {}
      BY <1>3, <2>1 DEF Announced, TerminalStatuses
    <2>3. row.status = "completed" /\ row.attempts = c.att /\ row.result = c.att
      BY <1>1, <1>2 DEF Unleased, Row
    <2>4. jobs'[j] = row
      BY <1>1, <1>5 DEF HandlerReturns, Complete, Close, IInv, RowsOK
    <2> HIDE DEF row
    <2> QED
      BY <1>1, <1>4, <2>2, <2>3, <2>4 DEF Announced, TerminalStatuses
  <1>6. CASE ~Accepts(j, c, lag)
    <2>1. jobs' = jobs
      BY <1>6 DEF HandlerReturns, Complete, Close
    <2>2. jobs[j].status \in TerminalStatuses
      BY <1>6 DEF CloseLanded, Returned
    <2>3. reported'[j] = {c.att}
      BY <1>2, <1>3, <1>4, <2>2 DEF Announced
    <2> QED
      BY <1>1, <1>2, <1>3, <2>1, <2>2, <2>3 DEF Announced
  <1> QED
    BY <1>5, <1>6

LEMMA AnnouncedStep ==
    ASSUME Modes = {TRUE}, RInv, FInv, AInv, [RunnerNext]_allVars
    PROVE  AInv'
  <1> SUFFICES ASSUME NEW j \in JobIds
               PROVE  Announced(jobs'[j], reported'[j])
    BY DEF AInv
  <1>1. [Next]_vars /\ IInv /\ reported \in [JobIds -> SUBSET (1..ClaimCap)]
    BY RunnerStep DEF RInv, RunnerTypeOK
  <1>2. CASE reported'[j] = reported[j]
    BY <1>1, <1>2, SilentStep
  <1>3. ASSUME NEW w \in Workers, NEW lag \in Lags, HandlerReturns(w, lag),
               reported'[j] # reported[j]
        PROVE  Announced(jobs'[j], reported'[j])
    <2>1. CloseLanded(held[w], lag) /\ j = held[w].job
      BY <1>1, <1>3 DEF HandlerReturns
    <2> QED
      BY <1>1, <1>3, <2>1, AnnouncingStep
  <1>4. ASSUME reported' # reported
        PROVE  \E w \in Workers, lag \in Lags : HandlerReturns(w, lag)
    BY <1>4 DEF RunnerNext, allVars, RunnersEnqueue, RunnerThread, RunnerClaims,
       StartHandler, HandlerRaises, HandlerTimesOut, HandlerPolls, RefusesToRun,
       StragglerEnds, ReaperLists, LaneRecovers, ReaperFails, OthersClose, RunnersRestart,
       RunnerWorld, runnerVars
  <1> QED
    BY <1>2, <1>3, <1>4

\* Under formal leases at most one run of a job is announced as completed,
\* through reclaims, late closes and restarts, and if the row says "completed"
\* it is the run whose result the row keeps.
THEOREM AnnouncedOnce ==
    ASSUME Modes = {TRUE}
    PROVE  RunnerSpec => []OneReportPerJob
  <1>1. RunnerInit => AInv
    BY DEF RunnerInit, Init, EmptyRow, AInv, Announced
  <1>2. RInv /\ FInv /\ AInv /\ [RunnerNext]_allVars => AInv'
    BY AnnouncedStep
  <1>3. ASSUME AInv
        PROVE  OneReportPerJob
    <2> SUFFICES ASSUME NEW j \in JobIds
                 PROVE  /\ Cardinality(reported[j]) <= 1
                        /\ jobs[j].status = "completed" =>
                             reported[j] \subseteq {jobs[j].result}
      BY DEF OneReportPerJob
    <2>1. PICK a \in Nat : reported[j] \subseteq {a}
      BY <1>3 DEF AInv, Announced
    <2>2. reported[j] = {} \/ reported[j] = {a}
      BY <2>1
    <2>3. Cardinality({}) = 0 /\ Cardinality({a}) = 1
      BY FS_EmptySet, FS_Singleton
    <2>4. jobs[j].status = "completed" => reported[j] \subseteq {jobs[j].result}
      BY <1>3 DEF AInv, Announced, TerminalStatuses
    <2> QED
      BY <2>2, <2>3, <2>4
  <1>4. RunnerSpec => []FInv
    BY RunnersUseTheRegistry, FencingInvariant, PTL
  <1> QED
    BY <1>1, <1>2, <1>3, <1>4, RunnersInductive, PTL DEF RunnerSpec
=============================================================================

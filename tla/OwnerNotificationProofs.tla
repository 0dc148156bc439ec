----------------------- MODULE OwnerNotificationProofs -----------------------
(***************************************************************************)
(* A theorem about OwnerNotification for any number of notices, drains and *)
(* attempts.  The drain closes its jobs without credentials, which is no   *)
(* step of JobService, so the invariant of the registry is shown to        *)
(* survive that close as well.                                             *)
(***************************************************************************)
EXTENDS OwnerNotification, JobServiceProofs

\* A thread that is about to mark a notice as delivered has delivered it; a
\* thread without a notice is at the beginning.
Delivered == \A w \in Workers :
    /\ held[w] = NoClaim => stage[w] = "claimed"
    /\ w \in passed => held[w] = NoClaim
    /\ held[w] # NoClaim /\ stage[w] = "sent" => sent[held[w].job] > 0

NInv == /\ IInv
        /\ sent \in [JobIds -> Nat]
        /\ stage \in [Workers -> {"claimed", "sending", "sent"}]
        /\ Delivered

\* No owed notice is ended in this step but for a reason.
KeepsOwed == \A j \in JobIds :
    Owed(j) /\ jobs'[j].status \notin ActiveStatuses =>
        Expired(j) \/ jobs[j].attempts >= MaxAttempts

LEMMA BareCloseStep ==
    ASSUME IInv, NEW w \in Workers, held[w] # NoClaim, NEW row, BareClose(w, row),
           jobs[held[w].job].status \in ActiveStatuses =>
              GoodRow(row) /\ Change(jobs[held[w].job], row)
    PROVE  IInv'
  <1>1. held[w].job \in JobIds
    BY DEF IInv, MemoryOK, Claim
  <1>2. MemoryOK'
    BY DEF BareClose, IInv, MemoryOK
  <1>3. RowsOK'
    <2>1. CASE jobs' = jobs
      BY <2>1 DEF IInv, RowsOK
    <2>2. CASE jobs' # jobs
      BY <1>1, <2>2, ReplaceRow DEF BareClose, IInv, RowsStep
    <2> QED
      BY <2>1, <2>2
  <1> QED
    BY <1>2, <1>3 DEF IInv

\* The three closes of the drain.
LEMMA DrainClosesWell ==
    ASSUME NInv, NEW w \in Workers, NEW lag \in Lags,
           DropStale(w, lag) \/ SendFails(w, lag) \/ MarkDelivered(w, lag)
    PROVE  IInv' /\ KeepsOwed
  <1> DEFINE j == held[w].job
             row == jobs[j]
             done == [Unleased(row, "completed", lag) EXCEPT !.result = held[w].att]
  <1>1. held[w] # NoClaim /\ held[w] \in Claim
    BY DEF DropStale, SendFails, MarkDelivered, At, NInv, IInv, MemoryOK
  <1>2. j \in JobIds /\ row \in Row /\ GoodRow(row) /\ held[w].att \in Nat
    BY <1>1 DEF NInv, IInv, RowsOK, Claim
  <1>3. ASSUME NEW r, BareClose(w, r), row.status \in ActiveStatuses =>
                 /\ GoodRow(r) /\ Change(row, r)
                 /\ Owed(j) /\ r.status \notin ActiveStatuses =>
                      Expired(j) \/ row.attempts >= MaxAttempts
        PROVE  IInv' /\ KeepsOwed
    <2>1. IInv'
      BY <1>1, <1>3, BareCloseStep DEF NInv
    <2>2. KeepsOwed
      BY <1>2, <1>3 DEF BareClose, KeepsOwed, Owed, NInv, IInv, RowsOK
    <2> QED
      BY <2>1, <2>2
  <1>4. CASE DropStale(w, lag)
    <2>1. /\ Expired(j) /\ BareClose(w, Unleased(row, "failed", lag))
      BY <1>4 DEF DropStale, DrainCloses
    <2>2. "failed" \in (ActiveStatuses \cup TerminalStatuses) \ {"running", "completed"}
          /\ "failed" \in Statuses \ {"running"}
      BY DEF ActiveStatuses, Claimable, TerminalStatuses, Statuses
    <2> QED
      BY <1>2, <1>3, <2>1, <2>2, UnleasedGood, UnleasedLeft DEF Change
  <1>5. CASE SendFails(w, lag)
    <2> DEFINE r == RetriedOrFailed(row, TRUE, RetryDelay, lag)
    <2>1. BareClose(w, r)
      BY <1>5 DEF SendFails, DrainCloses
    <2>2. RetryDelay \in Nat
      BY ConstantsAssumption
    <2>3. GoodRow(r) /\ (row.status \in ActiveStatuses => Left(row, r))
      BY <1>2, <2>2, RetriedOrFailedGood, RetriedOrFailedLeft
    <2>4. row.attempts < MaxAttempts => r.status \in ActiveStatuses
      BY <1>2 DEF RetriedOrFailed, Requeued, Unleased, Row, ActiveStatuses, Claimable
    <2>5. row.attempts \in Nat /\ MaxAttempts \in Nat
      BY <1>2, ConstantsAssumption DEF Row
    <2> HIDE DEF r
    <2> QED
      BY <1>3, <2>1, <2>3, <2>4, <2>5 DEF Change
  <1>6. CASE MarkDelivered(w, lag)
    <2>1. stage[w] = "sent" /\ BareClose(w, done)
      BY <1>6 DEF MarkDelivered, DrainCloses, At
    <2>2. ~Owed(j)
      <3>1. sent[j] > 0 /\ sent[j] \in Nat
        BY <1>1, <1>2, <2>1 DEF NInv, Delivered
      <3> QED
        BY <3>1 DEF Owed
    <2>3. GoodRow(Unleased(row, "completed", lag))
      BY <1>2, UnleasedGood DEF Statuses, TerminalStatuses
    <2>4. /\ done.status = "completed" /\ done.key = row.key /\ done.gen = row.gen
          /\ done.attempts = row.attempts /\ done \in Row
          /\ done.owner = NoOne /\ done.lease = NoLease
      BY <1>2, <2>3 DEF Unleased, GoodRow, Row
    <2>5. GoodRow(done)
      BY <1>2, <2>4 DEF GoodRow, LeaseOK, FormalOK
    <2>6. row.status \in ActiveStatuses => Done(row, done)
      BY <2>4 DEF Done
    <2> HIDE DEF done
    <2> QED
      BY <1>3, <2>1, <2>2, <2>5, <2>6 DEF Change
  <1> QED
    BY <1>4, <1>5, <1>6

-----------------------------------------------------------------------------
\* No row is ended.
EndsNothing == \A j \in JobIds :
    jobs[j].status \in ActiveStatuses => jobs'[j].status \in ActiveStatuses

LEMMA SameJobs ==
    ASSUME jobs' = jobs
    PROVE  EndsNothing
  BY DEF EndsNothing

LEMMA OneRow ==
    ASSUME IInv, NEW i \in JobIds, NEW r, jobs' = [jobs EXCEPT ![i] = r],
           jobs[i].status \in ActiveStatuses => r.status \in ActiveStatuses
    PROVE  EndsNothing
  BY DEF EndsNothing, IInv, RowsOK

LEMMA EnqueueEndsNothing ==
    ASSUME IInv, Enqueuing
    PROVE  IInv' /\ EndsNothing
  <1>1. IInv'
    BY EnqueuingStep DEF IInv, RowsStep
  <1>2. ASSUME NEW c \in Callers, NEW k \in Keys \cup {NoKey}, LookupKey(c, k)
        PROVE  EndsNothing
    BY <1>2, SameJobs DEF LookupKey
  <1>3. ASSUME NEW c \in Callers, NEW j \in JobIds, Insert(c, j)
        PROVE  EndsNothing
    <2>1. jobs[j].status \notin ActiveStatuses
      BY <1>3 DEF Insert, ActiveStatuses, Claimable
    <2>2. jobs' = jobs \/ \E r : jobs' = [jobs EXCEPT ![j] = r]
      BY <1>3 DEF Insert
    <2> QED
      BY <2>1, <2>2, SameJobs, OneRow
  <1> QED
    BY <1>1, <1>2, <1>3 DEF Enqueuing

LEMMA ClaimEndsNothing ==
    ASSUME IInv, NEW w \in Workers, NEW lag \in Lags, ClaimNext(w, Kinds, lag)
    PROVE  IInv' /\ EndsNothing
  <1>1. PICK j \in JobIds : jobs[j].status \in Claimable /\ Take(w, j, lag)
    BY DEF ClaimNext, Due
  <1>2. IInv'
    BY <1>1, TakeStep DEF IInv, RowsStep
  <1>3. GoodRow(jobs[j]) /\ formal \in Modes
    BY DEF IInv, RowsOK, MemoryOK
  <1>4. Claimed(jobs[j], w, lag).status = "running"
    BY <1>1, <1>3, ClaimedGranted DEF Granted
  <1>5. jobs' = [jobs EXCEPT ![j] = Claimed(jobs[j], w, lag)]
    BY <1>1 DEF Take
  <1> QED
    BY <1>2, <1>4, <1>5, OneRow DEF ActiveStatuses

LEMMA PruneEndsNothing ==
    ASSUME IInv, NEW j \in JobIds, PruneTerminal(j)
    PROVE  IInv' /\ EndsNothing
  <1>1. IInv'
    <2>1. Administering
      BY DEF Administering
    <2> QED
      BY <2>1, AdministeringStep DEF IInv, RowsStep
  <1>2. jobs[j].status \notin ActiveStatuses
    BY DEF PruneTerminal, TerminalStatuses, ActiveStatuses, Claimable
  <1> QED
    BY <1>1, <1>2, OneRow DEF PruneTerminal

LEMMA EnvironmentEndsNothing ==
    ASSUME IInv, Tick \/ Restart \/ SetSafeModeReason
    PROVE  IInv' /\ EndsNothing
  <1>1. IInv'
    BY EnvironmentStep DEF Environment, IInv, RowsStep
  <1>2. CASE Tick
    <2>1. \A j \in JobIds : jobs'[j] = Older(jobs[j])
      BY <1>2 DEF Tick
    <2>2. \A j \in JobIds : Kept(jobs[j], jobs'[j])
      BY <2>1, OlderKept DEF IInv, RowsOK
    <2> QED
      BY <1>1, <2>2 DEF Kept, EndsNothing
  <1>3. CASE Restart \/ SetSafeModeReason
    <2>1. jobs' = jobs
      BY <1>3 DEF Restart, SetSafeModeReason
    <2> QED
      BY <1>1, <2>1, SameJobs
  <1> QED
    BY <1>1, <1>2, <1>3

\* Every step of the outbox keeps the notices that are owed.
LEMMA OutboxKeepsOwed ==
    ASSUME NInv, NoticeNext
    PROVE  IInv' /\ KeepsOwed
  <1>1. ASSUME EndsNothing
        PROVE  KeepsOwed
    BY <1>1 DEF EndsNothing, KeepsOwed, Owed
  <1>2. ASSUME jobs' = jobs, MemoryOK'
        PROVE  IInv' /\ KeepsOwed
    BY <1>1, <1>2, SameJobs DEF NInv, IInv, RowsOK
  <1>3. CASE NoticesEnqueue
    BY <1>1, <1>3, EnqueueEndsNothing DEF NoticesEnqueue, NInv
  <1>4. ASSUME NEW w \in Workers, DrainThread(w)
        PROVE  IInv' /\ KeepsOwed
    <2>1. CASE DrainClaims(w)
      <3>1. CASE ReadGate(w) \/ ClaimNothing(w)
        <4>1. jobs' = jobs /\ MemoryOK'
          BY <3>1 DEF ReadGate, ClaimNothing, NInv, IInv, MemoryOK
        <4> QED
          BY <1>2, <4>1
      <3>2. ASSUME NEW lag \in Lags, ClaimNext(w, Kinds, lag)
            PROVE  IInv' /\ KeepsOwed
        BY <1>1, <3>2, ClaimEndsNothing DEF NInv
      <3> QED
        BY <2>1, <3>1, <3>2 DEF DrainClaims
    <2>2. CASE FindFresh(w) \/ Send(w)
      <3>1. jobs' = jobs /\ MemoryOK'
        BY <2>2 DEF FindFresh, Send, vars, NInv, IInv, MemoryOK
      <3> QED
        BY <1>2, <3>1
    <2>3. ASSUME NEW lag \in Lags,
                 DropStale(w, lag) \/ SendFails(w, lag) \/ MarkDelivered(w, lag)
          PROVE  IInv' /\ KeepsOwed
      BY <2>3, DrainClosesWell
    <2> QED
      BY <1>4, <2>1, <2>2, <2>3 DEF DrainThread
  <1>5. CASE NoticesPruned
    BY <1>1, <1>5, PruneEndsNothing DEF NoticesPruned, NInv
  <1>6. CASE TimePasses \/ DaemonRestarts \/ (SetSafeModeReason /\ UNCHANGED noticeVars)
    BY <1>1, <1>6, EnvironmentEndsNothing DEF TimePasses, DaemonRestarts, NInv
  <1> QED
    BY <1>3, <1>4, <1>5, <1>6 DEF NoticeNext

-----------------------------------------------------------------------------
\* What the threads know of their notices.
StagesOK == /\ sent \in [JobIds -> Nat]
            /\ stage \in [Workers -> {"claimed", "sending", "sent"}]
            /\ Delivered

LEMMA StagesStep ==
    ASSUME NInv, NoticeNext
    PROVE  StagesOK'
  <1> USE DEF NInv, StagesOK, Delivered
  <1>0. passed \subseteq Workers /\ held \in [Workers -> Claim \cup {NoClaim}]
    BY DEF IInv, MemoryOK
  <1>1. ASSUME UNCHANGED <<sent, stage, held>>, passed' = passed
        PROVE  StagesOK'
    BY <1>1
  <1>2. CASE NoticesEnqueue
    BY <1>1, <1>2 DEF NoticesEnqueue, noticeVars, Enqueuing, LookupKey, Insert
  <1>3. ASSUME NEW w \in Workers, DrainThread(w)
        PROVE  StagesOK'
    <2>1. CASE DrainClaims(w)
      <3>1. UNCHANGED <<sent, stage>>
        BY <2>1 DEF DrainClaims, noticeVars
      <3>2. CASE ReadGate(w)
        BY <3>1, <3>2 DEF ReadGate
      <3>3. CASE ClaimNothing(w)
        BY <3>1, <3>3 DEF ClaimNothing
      <3>4. ASSUME NEW lag \in Lags, ClaimNext(w, Kinds, lag)
            PROVE  StagesOK'
        <4>1. PICK c : held' = [held EXCEPT ![w] = c]
          BY <3>4 DEF ClaimNext, Take
        <4>2. w \in passed /\ passed' = passed \ {w}
          BY <3>4 DEF ClaimNext, Take
        <4>3. stage[w] = "claimed" /\ stage'[w] = "claimed"
          BY <3>1, <4>2
        <4>4. \A v \in Workers \ {w} : held'[v] = held[v]
          BY <1>0, <4>1
        <4> QED
          BY <3>1, <4>2, <4>3, <4>4
      <3> QED
        BY <2>1, <3>2, <3>3, <3>4 DEF DrainClaims
    <2>2. CASE FindFresh(w)
      <3>1. /\ stage' = [stage EXCEPT ![w] = "sending"]
            /\ held' = held /\ passed' = passed /\ sent' = sent /\ held[w] # NoClaim
        BY <2>2 DEF FindFresh, vars, At
      <3> QED
        BY <3>1
    <2>3. CASE Send(w)
      <3>1. /\ stage' = [stage EXCEPT ![w] = "sent"] /\ held[w] # NoClaim
            /\ held' = held /\ passed' = passed
            /\ sent' = [sent EXCEPT ![held[w].job] = sent[held[w].job] + 1]
        BY <2>3 DEF Send, vars, At
      <3>2. \A v \in Workers : held[v] # NoClaim => held[v].job \in JobIds
        BY <1>0 DEF Claim
      <3>3. sent' \in [JobIds -> Nat] /\ sent'[held[w].job] > 0
        BY <3>1, <3>2
      <3>4. \A j \in JobIds : sent[j] > 0 => sent'[j] > 0
        BY <3>1, <3>2
      <3>5. \A v \in Workers \ {w} : stage'[v] = stage[v]
        BY <3>1
      <3>6. stage'[w] = "sent" /\ stage' \in [Workers -> {"claimed", "sending", "sent"}]
        BY <3>1
      <3>7. Delivered'
        BY <3>1, <3>2, <3>3, <3>4, <3>5, <3>6
      <3> QED
        BY <3>3, <3>6, <3>7
    <2>4. ASSUME NEW lag \in Lags,
                 DropStale(w, lag) \/ SendFails(w, lag) \/ MarkDelivered(w, lag)
          PROVE  StagesOK'
      <3>1. /\ stage' = [stage EXCEPT ![w] = "claimed"] /\ sent' = sent
            /\ held' = [held EXCEPT ![w] = NoClaim] /\ passed' = passed
        BY <2>4 DEF DropStale, SendFails, MarkDelivered, DrainCloses, BareClose
      <3>2. \A v \in Workers \ {w} : held'[v] = held[v] /\ stage'[v] = stage[v]
        BY <1>0, <3>1
      <3>3. held'[w] = NoClaim /\ stage'[w] = "claimed"
        BY <1>0, <3>1
      <3>4. stage' \in [Workers -> {"claimed", "sending", "sent"}]
        BY <3>1
      <3> HIDE DEF NInv
      <3>5. \A v \in Workers : /\ held[v] = NoClaim => stage[v] = "claimed"
                               /\ v \in passed => held[v] = NoClaim
                               /\ held[v] # NoClaim /\ stage[v] = "sent"
                                    => sent[held[v].job] > 0
        BY DEF NInv
      <3> QED
        BY <3>1, <3>2, <3>3, <3>4, <3>5 DEF NInv
    <2> QED
      BY <1>3, <2>1, <2>2, <2>3, <2>4 DEF DrainThread
  <1>4. CASE NoticesPruned
    BY <1>1, <1>4 DEF NoticesPruned, noticeVars, PruneTerminal
  <1>5. CASE TimePasses
    BY <1>1, <1>5 DEF TimePasses, Tick
  <1>6. CASE DaemonRestarts
    BY <1>6 DEF DaemonRestarts, Restart
  <1>7. CASE SetSafeModeReason /\ UNCHANGED noticeVars
    BY <1>1, <1>7 DEF SetSafeModeReason, noticeVars
  <1> QED
    BY <1>2, <1>3, <1>4, <1>5, <1>6, <1>7 DEF NoticeNext

LEMMA NoticeStep ==
    ASSUME NInv, [NoticeNext]_allVars
    PROVE  NInv' /\ KeepsOwed
  <1>1. CASE NoticeNext
    BY <1>1, OutboxKeepsOwed, StagesStep DEF NInv, StagesOK
  <1>2. CASE UNCHANGED allVars
    <2>1. IInv'
      BY <1>2, StepLemma DEF allVars, NInv
    <2>2. KeepsOwed
      BY <1>2 DEF allVars, vars, KeepsOwed, Owed
    <2>3. StagesOK'
      BY <1>2 DEF allVars, vars, noticeVars, NInv, StagesOK, Delivered
    <2> QED
      BY <2>1, <2>2, <2>3 DEF NInv, StagesOK
  <1> QED
    BY <1>1, <1>2

\* OwnerNotificationDrainRunner and the retention pass: a notice nobody has
\* received is failed only when it is stale or its attempts are used up, and
\* completed never, so prune_terminal cannot delete it before; with any number
\* of drains, notices and restarts, under either regime of the registry.
THEOREM OwedNoticesKept == NoticeSpec => OwedIsKept
  <1>1. NoticeInit => NInv
    <2>1. Init => IInv
      BY EmptyGood DEF Init, IInv, MemoryOK, RowsOK, GoodRow
    <2>2. NoticeInit => sent \in [JobIds -> Nat]
      BY DEF NoticeInit
    <2>3. NoticeInit => /\ stage \in [Workers -> {"claimed", "sending", "sent"}]
                        /\ Delivered
      BY DEF NoticeInit, Init, Delivered
    <2> QED
      BY <2>1, <2>2, <2>3 DEF NoticeInit, NInv
  <1>2. NInv /\ [NoticeNext]_allVars => NInv'
    BY NoticeStep
  <1>3. NInv /\ [NoticeNext]_allVars =>
           [\A j \in JobIds :
              Owed(j) /\ jobs'[j].status \notin ActiveStatuses =>
                Expired(j) \/ jobs[j].attempts >= MaxAttempts]_allVars
    BY NoticeStep DEF KeepsOwed
  <1> QED
    BY <1>1, <1>2, <1>3, PTL DEF NoticeSpec, OwedIsKept
=============================================================================

-------------------------- MODULE JobServiceProofs --------------------------
(***************************************************************************)
(* Theorems about JobService for every set of jobs, threads, keys and      *)
(* every value of the limits.                                              *)
(*                                                                         *)
(* The inductive invariant has two parts.  GoodRow speaks of one row: its  *)
(* type, its lease columns and, when every start runs formal leases, that  *)
(* lease_generation counts the claims.  HeldOK relates a claim in memory   *)
(* to the row it was made on.                                              *)
(***************************************************************************)
EXTENDS JobService, FiniteSetTheorems, TLAPS

LeaseOK(row) ==
    /\ row.owner # NoOne <=> row.lease # NoLease
    /\ row.owner # NoOne => row.status = "running"

FormalOK(row) ==
    Modes = {TRUE} =>
        /\ row.status = "running" => row.owner # NoOne
        /\ row.gen = row.attempts

GoodRow(row) == row \in Row /\ LeaseOK(row) /\ FormalOK(row)

MemoryOK ==
    /\ formal \in Modes
    /\ blocked \in BOOLEAN
    /\ passed \subseteq Workers
    /\ held \in [Workers -> Claim \cup {NoClaim}]
    /\ callers \in [Callers -> Pending \cup {NoClaim}]

RowsOK == jobs \in [JobIds -> Row] /\ \A j \in JobIds : GoodRow(jobs[j])

IInv == MemoryOK /\ RowsOK

-----------------------------------------------------------------------------
(* The record builders of the registry keep a row good. *)

LEMMA UnleasedGood ==
    ASSUME NEW row, GoodRow(row), NEW status \in Statuses \ {"running"},
           NEW lag \in Lags
    PROVE  GoodRow(Unleased(row, status, lag))
  <1>1. lag \in Nat
    BY ConstantsAssumption DEF Lags
  <1>2. Unleased(row, status, lag) \in Row
    BY <1>1 DEF Unleased, Row, GoodRow
  <1> QED
    BY <1>1, <1>2 DEF Unleased, Row, GoodRow, LeaseOK, FormalOK

LEMMA RequeuedGood ==
    ASSUME NEW row, GoodRow(row), NEW delay \in Nat, NEW lag \in Lags
    PROVE  GoodRow(Requeued(row, delay, lag))
  <1>1. lag \in Nat /\ "retrying" \in Statuses \ {"running"}
    BY ConstantsAssumption DEF Lags, Statuses, ActiveStatuses, Claimable
  <1> DEFINE r == Unleased(row, "retrying", lag)
  <1>2. GoodRow(r)
    BY <1>1, UnleasedGood
  <1>3. Requeued(row, delay, lag) = [r EXCEPT !.wait = delay - lag]
    BY DEF Requeued
  <1>4. r.owner = NoOne /\ r.lease = NoLease /\ r.status = "retrying"
    <2>1. row \in Row
      BY DEF GoodRow
    <2> QED
      BY <2>1 DEF Unleased, Row
  <1>5. r \in Row /\ (Modes = {TRUE} => r.gen = r.attempts)
    BY <1>2 DEF GoodRow, FormalOK
  <1> HIDE DEF r
  <1>6. [r EXCEPT !.wait = delay - lag] \in Row
    BY <1>1, <1>5 DEF Row
  <1>7. LeaseOK([r EXCEPT !.wait = delay - lag])
    BY <1>4, <1>5 DEF LeaseOK, Row
  <1>8. FormalOK([r EXCEPT !.wait = delay - lag])
    BY <1>4, <1>5 DEF FormalOK, Row
  <1> QED
    BY <1>3, <1>6, <1>7, <1>8 DEF GoodRow

LEMMA RetriedOrFailedGood ==
    ASSUME NEW row, GoodRow(row), NEW retry, NEW delay \in Nat, NEW lag \in Lags
    PROVE  GoodRow(RetriedOrFailed(row, retry, delay, lag))
  <1>1. "failed" \in Statuses \ {"running"}
    BY DEF Statuses, TerminalStatuses
  <1> QED
    BY <1>1, UnleasedGood, RequeuedGood DEF RetriedOrFailed

\* Where every start runs formal leases, the running process does.
LEMMA FormalMode ==
    ASSUME formal \in Modes, Modes = {TRUE}
    PROVE  formal
  <1>1. formal \in {TRUE}
    OBVIOUS
  <1> QED
    BY <1>1, Zenon

LEMMA ClaimedGood ==
    ASSUME NEW row, GoodRow(row), row.status \in Claimable, formal \in Modes,
           NEW w \in Workers, NEW lag \in Lags
    PROVE  GoodRow(Claimed(row, w, lag))
  <1>1. /\ lag \in Nat /\ TTL - lag \in Int /\ TTL - lag # NoLease
        /\ IdOf[w] \in Ids /\ IdOf[w] # NoOne
    BY ConstantsAssumption DEF Lags
  <1>2. "running" \in Statuses
    BY DEF Statuses, ActiveStatuses
  <1>3. /\ row \in Row /\ row.attempts + 1 \in Nat /\ row.gen + 1 \in Nat
        /\ Modes = {TRUE} => row.gen = row.attempts
    <2>1. row \in Row /\ (Modes = {TRUE} => row.gen = row.attempts)
      BY DEF GoodRow, FormalOK
    <2>2. row.attempts + 1 \in Nat /\ row.gen + 1 \in Nat
      BY <2>1 DEF Row
    <2> QED
      BY <2>1, <2>2
  <1>4. row.owner = NoOne /\ row.lease = NoLease
    BY DEF GoodRow, LeaseOK, Claimable
  <1>5. CASE formal
    <2> DEFINE r == [row EXCEPT !.status = "running", !.attempts = @ + 1,
                        !.age = lag, !.owner = IdOf[w], !.lease = TTL - lag,
                        !.gen = @ + 1]
    <2>1. Claimed(row, w, lag) = r
      BY <1>5 DEF Claimed
    <2>2. r \in Row
      BY <1>1, <1>2, <1>3 DEF Row
    <2>3. /\ r.status = "running" /\ r.owner = IdOf[w]
          /\ r.lease = TTL - lag /\ r.attempts = row.attempts + 1
          /\ r.gen = row.gen + 1
      BY <1>3 DEF Row
    <2> QED
      BY <1>1, <1>3, <2>1, <2>2, <2>3 DEF GoodRow, LeaseOK, FormalOK
  <1>6. CASE ~formal
    <2> DEFINE r == [row EXCEPT !.status = "running", !.attempts = @ + 1,
                        !.age = lag]
    <2>1. Claimed(row, w, lag) = r
      BY <1>6 DEF Claimed
    <2>2. Modes # {TRUE}
      BY <1>6, FormalMode
    <2>3. r \in Row
      BY <1>1, <1>2, <1>3 DEF Row
    <2>4. r.status = "running" /\ r.owner = NoOne /\ r.lease = NoLease
      BY <1>3, <1>4 DEF Row
    <2> QED
      BY <2>1, <2>2, <2>3, <2>4 DEF GoodRow, LeaseOK, FormalOK
  <1> QED
    BY <1>5, <1>6

LEMMA OlderGood ==
    ASSUME NEW row, GoodRow(row)
    PROVE  GoodRow(Older(row))
  <1>1. MaxLag \in Nat /\ AgeCap \in Nat /\ NoLease \notin Int
    BY ConstantsAssumption DEF AgeCap
  <1>2. \A n \in Int : Elapsed(n) \in Int
    BY <1>1 DEF Elapsed
  <1>3. row.wait \in Int /\ row.age \in Nat /\ row.lease \in Int \cup {NoLease}
    BY DEF Row, GoodRow
  <1> DEFINE lease == IF row.lease = NoLease THEN row.lease
                      ELSE Elapsed(row.lease)
             age == IF row.age < AgeCap THEN row.age + 1 ELSE row.age
             wait == Elapsed(row.wait)
  <1>4. /\ wait \in Int /\ age \in Nat /\ lease \in Int \cup {NoLease}
        /\ lease = NoLease <=> row.lease = NoLease
    BY <1>1, <1>2, <1>3
  <1>5. Older(row) = row
          \/ Older(row) = [row EXCEPT !.wait = wait, !.age = age, !.lease = lease]
    BY DEF Older
  <1> HIDE DEF lease, age, wait
  <1> QED
    BY <1>4, <1>5 DEF Row, GoodRow, LeaseOK, FormalOK

LEMMA EmptyGood ==
    /\ GoodRow(EmptyRow)
    /\ GoodRow([EmptyRow EXCEPT !.status = "deleted"])
  <1> DEFINE d == [EmptyRow EXCEPT !.status = "deleted"]
  <1>1. EmptyRow \in Row
    BY DEF EmptyRow, Row, Statuses
  <1>2. d \in Row
    BY <1>1 DEF Row, Statuses
  <1>3. GoodRow(EmptyRow)
    <2>1. /\ EmptyRow.owner = NoOne /\ EmptyRow.lease = NoLease
          /\ EmptyRow.status = "unborn" /\ EmptyRow.gen = EmptyRow.attempts
      BY DEF EmptyRow
    <2> QED
      BY <1>1, <2>1 DEF GoodRow, LeaseOK, FormalOK
  <1>4. GoodRow(d)
    <2>1. /\ d.owner = NoOne /\ d.lease = NoLease
          /\ d.status = "deleted" /\ d.gen = d.attempts
      BY DEF EmptyRow
    <2> HIDE DEF d
    <2> QED
      BY <1>2, <2>1 DEF GoodRow, LeaseOK, FormalOK
  <1> QED
    BY <1>3, <1>4

-----------------------------------------------------------------------------
(* What one step does to one row, r before and q after it. *)

Kept(r, q) == /\ q.status = r.status /\ q.key = r.key /\ q.attempts = r.attempts
              /\ q.gen = r.gen /\ q.result = r.result

Granted(r, q) == /\ r.status \in Claimable /\ q.status = "running"
                 /\ q.key = r.key /\ q.result = r.result
                 /\ q.attempts = r.attempts + 1
                 /\ formal => q.gen = r.gen + 1
                 /\ ~formal => q.gen = r.gen

Left(r, q) == /\ r.status \in ActiveStatuses
              /\ q.status \in (ActiveStatuses \cup TerminalStatuses)
                                 \ {"running", "completed"}
              /\ q.key = r.key /\ q.attempts = r.attempts
              /\ q.gen = r.gen /\ q.result = r.result

Done(r, q) == /\ r.status \in ActiveStatuses /\ q.status = "completed"
              /\ q.key = r.key /\ q.attempts = r.attempts /\ q.gen = r.gen

Gone(r, q) == /\ r.status \in TerminalStatuses /\ q.status = "deleted"
              /\ q.attempts = 0 /\ q.result = 0

Born(r, q) == /\ r.status = "unborn" /\ q.status = "queued"
              /\ q.attempts = 0 /\ q.gen = 0 /\ q.result = 0
              /\ UniqueIndexAdmits(q.key)

Change(r, q) == Granted(r, q) \/ Left(r, q) \/ Done(r, q) \/ Gone(r, q)
                  \/ Born(r, q)

LEMMA UnleasedLeft ==
    ASSUME NEW row, GoodRow(row), row.status \in ActiveStatuses, NEW lag \in Lags,
           NEW status \in (ActiveStatuses \cup TerminalStatuses)
                            \ {"running", "completed"}
    PROVE  Left(row, Unleased(row, status, lag))
  BY DEF Unleased, Row, GoodRow, Left

LEMMA RequeuedLeft ==
    ASSUME NEW row, GoodRow(row), row.status \in ActiveStatuses, NEW lag \in Lags,
           NEW delay
    PROVE  Left(row, Requeued(row, delay, lag))
  <1> DEFINE u == Unleased(row, "retrying", lag)
  <1>1. "retrying" \in (ActiveStatuses \cup TerminalStatuses)
                           \ {"running", "completed"}
    BY DEF ActiveStatuses, Claimable
  <1>2. Left(row, u)
    BY <1>1, UnleasedLeft
  <1>3. u \in Row
    BY <1>1, UnleasedGood DEF GoodRow, Statuses
  <1>4. Requeued(row, delay, lag) = [u EXCEPT !.wait = delay - lag]
    BY DEF Requeued
  <1> HIDE DEF u
  <1> QED
    BY <1>2, <1>3, <1>4 DEF Left, Row

LEMMA RetriedOrFailedLeft ==
    ASSUME NEW row, GoodRow(row), row.status \in ActiveStatuses, NEW lag \in Lags,
           NEW retry, NEW delay
    PROVE  Left(row, RetriedOrFailed(row, retry, delay, lag))
  <1>1. "failed" \in (ActiveStatuses \cup TerminalStatuses)
                        \ {"running", "completed"}
    BY DEF ActiveStatuses, TerminalStatuses, Claimable
  <1> QED
    BY <1>1, UnleasedLeft, RequeuedLeft DEF RetriedOrFailed

LEMMA ClaimedGranted ==
    ASSUME NEW row, GoodRow(row), row.status \in Claimable, formal \in Modes,
           NEW w \in Workers, NEW lag \in Lags
    PROVE  Granted(row, Claimed(row, w, lag))
  <1>1. row \in Row
    BY DEF GoodRow
  <1>2. CASE formal
    <2> DEFINE r == [row EXCEPT !.status = "running", !.attempts = @ + 1,
                        !.age = lag, !.owner = IdOf[w], !.lease = TTL - lag,
                        !.gen = @ + 1]
    <2>1. Claimed(row, w, lag) = r
      BY <1>2 DEF Claimed
    <2>2. /\ r.status = "running" /\ r.key = row.key /\ r.result = row.result
          /\ r.attempts = row.attempts + 1 /\ r.gen = row.gen + 1
      BY <1>1 DEF Row
    <2> HIDE DEF r
    <2> QED
      BY <1>2, <2>1, <2>2 DEF Granted
  <1>3. CASE ~formal
    <2> DEFINE r == [row EXCEPT !.status = "running", !.attempts = @ + 1,
                        !.age = lag]
    <2>1. Claimed(row, w, lag) = r
      BY <1>3 DEF Claimed
    <2>2. /\ r.status = "running" /\ r.key = row.key /\ r.result = row.result
          /\ r.attempts = row.attempts + 1 /\ r.gen = row.gen
      BY <1>1 DEF Row
    <2> HIDE DEF r
    <2> QED
      BY <1>3, <2>1, <2>2 DEF Granted
  <1> QED
    BY <1>2, <1>3

LEMMA OlderKept ==
    ASSUME NEW row, GoodRow(row)
    PROVE  Kept(row, Older(row))
  <1>1. row \in Row
    BY DEF GoodRow
  <1> DEFINE lease == IF row.lease = NoLease THEN row.lease
                      ELSE Elapsed(row.lease)
             age == IF row.age < AgeCap THEN row.age + 1 ELSE row.age
             wait == Elapsed(row.wait)
  <1>2. Older(row) = row
          \/ Older(row) = [row EXCEPT !.wait = wait, !.age = age, !.lease = lease]
    BY DEF Older
  <1> HIDE DEF lease, age, wait
  <1> QED
    BY <1>1, <1>2 DEF Row, Kept

-----------------------------------------------------------------------------
(* What one step does to the whole state. *)

AllKept == \A j \in JobIds : Kept(jobs[j], jobs'[j])

OneChange == \E i \in JobIds :
    /\ Change(jobs[i], jobs'[i])
    /\ \A j \in JobIds \ {i} : jobs'[j] = jobs[j]

RowsStep == RowsOK' /\ (AllKept \/ OneChange)

LEMMA SameRows ==
    ASSUME RowsOK, jobs' = jobs
    PROVE  RowsStep
  BY DEF RowsOK, RowsStep, AllKept, Kept

LEMMA ReplaceRow ==
    ASSUME RowsOK, NEW i \in JobIds, NEW r, GoodRow(r),
           Change(jobs[i], r) \/ Kept(jobs[i], r),
           jobs' = [jobs EXCEPT ![i] = r]
    PROVE  RowsStep
  <1>1. jobs' \in [JobIds -> Row] /\ jobs'[i] = r
    BY DEF RowsOK, GoodRow
  <1>2. \A j \in JobIds \ {i} : jobs'[j] = jobs[j]
    BY DEF RowsOK
  <1>3. RowsOK'
    BY <1>1, <1>2 DEF RowsOK
  <1>4. CASE Change(jobs[i], r)
    BY <1>1, <1>2, <1>3, <1>4 DEF RowsStep, OneChange
  <1>5. CASE Kept(jobs[i], r)
    BY <1>1, <1>2, <1>3, <1>5 DEF RowsStep, AllKept, Kept
  <1> QED
    BY <1>4, <1>5

\* fail, reschedule, wait_for_approval and complete, whichever row they write.
LEMMA CloseStep ==
    ASSUME IInv, NEW w \in Workers, held[w] # NoClaim, NEW lag \in Lags,
           NEW row, Close(w, lag, row),
           jobs[held[w].job].status \in ActiveStatuses =>
              GoodRow(row) /\ Change(jobs[held[w].job], row)
    PROVE  MemoryOK' /\ RowsStep
  <1>1. held[w] \in Claim /\ held[w].job \in JobIds
    BY DEF IInv, MemoryOK, Claim
  <1>2. MemoryOK'
    BY DEF IInv, MemoryOK, Close
  <1>3. CASE Accepts(held[w].job, held[w], lag)
    <2>1. jobs' = [jobs EXCEPT ![held[w].job] = row]
      BY <1>3 DEF Close
    <2>2. jobs[held[w].job].status \in ActiveStatuses
      BY <1>3 DEF Accepts
    <2> QED
      BY <1>1, <1>2, <2>1, <2>2, ReplaceRow DEF IInv
  <1>4. CASE ~Accepts(held[w].job, held[w], lag)
    BY <1>2, <1>4, SameRows DEF Close, IInv
  <1> QED
    BY <1>3, <1>4

LEMMA EnqueuingStep ==
    ASSUME IInv, Enqueuing
    PROVE  MemoryOK' /\ RowsStep
  <1>1. ASSUME NEW c \in Callers, NEW k \in Keys \cup {NoKey}, LookupKey(c, k)
        PROVE  MemoryOK' /\ RowsStep
    <2>1. jobs' = jobs /\ MemoryOK'
      BY <1>1 DEF LookupKey, IInv, MemoryOK, Pending
    <2> QED
      BY <2>1, SameRows DEF IInv
  <1>2. ASSUME NEW c \in Callers, NEW j \in JobIds, Insert(c, j)
        PROVE  MemoryOK' /\ RowsStep
    <2> DEFINE n == Cardinality({i \in JobIds : jobs[i].status # "unborn"})
               r == [EmptyRow EXCEPT !.status = "queued",
                       !.key = callers[c].key, !.created = n]
    <2>1. MemoryOK'
      BY <1>2 DEF Insert, IInv, MemoryOK
    <2>2. CASE ~UniqueIndexAdmits(callers[c].key)
      <3>1. jobs' = jobs
        BY <1>2, <2>2 DEF Insert
      <3> QED
        BY <2>1, <3>1, SameRows DEF IInv
    <2>3. CASE UniqueIndexAdmits(callers[c].key)
      <3>1. jobs' = [jobs EXCEPT ![j] = r]
        BY <1>2, <2>3 DEF Insert
      <3>2. callers[c] \in Pending
        BY <1>2 DEF Insert, IInv, MemoryOK
      <3>3. n \in Nat
        <4>1. IsFiniteSet({i \in JobIds : jobs[i].status # "unborn"})
          BY FiniteJobs, FS_Subset
        <4> QED
          BY <4>1, FS_CardinalityType
      <3>4. /\ r.status = "queued" /\ r.key = callers[c].key
            /\ r.attempts = 0 /\ r.gen = 0 /\ r.result = 0
            /\ r.owner = NoOne /\ r.lease = NoLease
        BY DEF EmptyRow
      <3>5. r \in Row
        <4>1. callers[c].key \in Keys \cup {NoKey}
          BY <3>2 DEF Pending
        <4>2. EmptyRow \in Row /\ "queued" \in Statuses
          BY EmptyGood DEF GoodRow, Statuses, ActiveStatuses, Claimable
        <4> HIDE DEF n
        <4> QED
          BY <3>3, <4>1, <4>2 DEF Row
      <3> HIDE DEF r
      <3>6. GoodRow(r)
        BY <3>4, <3>5 DEF GoodRow, LeaseOK, FormalOK
      <3>7. Change(jobs[j], r)
        BY <1>2, <2>3, <3>4 DEF Change, Born, Insert
      <3> QED
        BY <2>1, <3>1, <3>6, <3>7, ReplaceRow DEF IInv
    <2> QED
      BY <2>2, <2>3
  <1> QED
    BY <1>1, <1>2 DEF Enqueuing

LEMMA TakeStep ==
    ASSUME IInv, NEW w \in Workers, NEW j \in JobIds, NEW lag \in Lags,
           jobs[j].status \in Claimable, Take(w, j, lag)
    PROVE  MemoryOK' /\ RowsStep
  <1> DEFINE r == Claimed(jobs[j], w, lag)
  <1>1. GoodRow(jobs[j]) /\ formal \in Modes
    BY DEF IInv, RowsOK, MemoryOK
  <1>2. GoodRow(r) /\ Granted(jobs[j], r)
    BY <1>1, ClaimedGood, ClaimedGranted
  <1>3. jobs' = [jobs EXCEPT ![j] = r]
    BY DEF Take
  <1> HIDE DEF r
  <1>4. RowsStep
    BY <1>2, <1>3, ReplaceRow DEF IInv, Change
  <1>5. [job |-> j, att |-> jobs'[j].attempts,
         owner |-> jobs'[j].owner, gen |-> jobs'[j].gen] \in Claim
    <2>1. jobs'[j] \in Row
      BY <1>4 DEF RowsStep, RowsOK
    <2> QED
      BY <2>1 DEF Claim, Row
  <1>6. MemoryOK'
    BY <1>5 DEF Take, IInv, MemoryOK
  <1> QED
    BY <1>4, <1>6

LEMMA ClaimingStep ==
    ASSUME IInv, Claiming
    PROVE  MemoryOK' /\ RowsStep
  <1>1. ASSUME NEW w \in Workers, ReadGate(w) \/ ClaimNothing(w)
        PROVE  MemoryOK' /\ RowsStep
    <2>1. jobs' = jobs /\ MemoryOK'
      BY <1>1 DEF ReadGate, ClaimNothing, IInv, MemoryOK
    <2> QED
      BY <2>1, SameRows DEF IInv
  <1>2. ASSUME NEW w \in Workers, NEW lag \in Lags, NEW ks, ClaimNext(w, ks, lag)
        PROVE  MemoryOK' /\ RowsStep
    BY <1>2, TakeStep DEF ClaimNext, Due
  <1>3. ASSUME NEW w \in Workers, NEW lag \in Lags, NEW j \in JobIds,
               ClaimById(w, j, lag)
        PROVE  MemoryOK' /\ RowsStep
    BY <1>3, TakeStep DEF ClaimById
  <1> QED
    BY <1>1, <1>2, <1>3 DEF Claiming

\* Writing checkpoint_json disturbs nothing else.
LEMMA CheckpointedRow ==
    ASSUME NEW row, NEW u, GoodRow(u), NEW n \in Nat
    PROVE  /\ GoodRow([u EXCEPT !.checkpoint = n])
           /\ Left(row, u) => Left(row, [u EXCEPT !.checkpoint = n])
  <1> DEFINE r == [u EXCEPT !.checkpoint = n]
  <1>1. u \in Row
    BY DEF GoodRow
  <1>2. /\ r \in Row /\ r.status = u.status /\ r.owner = u.owner
        /\ r.lease = u.lease /\ r.key = u.key /\ r.attempts = u.attempts
        /\ r.gen = u.gen /\ r.result = u.result
    BY <1>1 DEF Row
  <1> HIDE DEF r
  <1>3. GoodRow(r)
    BY <1>2 DEF GoodRow, LeaseOK, FormalOK
  <1>4. Left(row, u) => Left(row, r)
    BY <1>2 DEF Left
  <1> QED
    BY <1>3, <1>4 DEF r

LEMMA ExecutingStep ==
    ASSUME IInv, Executing
    PROVE  MemoryOK' /\ RowsStep
  <1> SUFFICES ASSUME NEW w \in Workers, NEW lag \in Lags, held[w] # NoClaim,
                      \/ WorkerDies(w)
                      \/ Complete(w, lag)
                      \/ \E retry \in BOOLEAN : Fail(w, retry, lag)
                      \/ Reschedule(w, lag)
                      \/ WaitForApproval(w, lag)
                      \/ WorkerCancel(w, lag)
                      \/ ReleaseLease(w, lag)
                      \/ HeartbeatLease(w, lag)
                      \/ Checkpoint(w, lag)
               PROVE  MemoryOK' /\ RowsStep
    <2>1. 0 \in Lags
      BY ConstantsAssumption DEF Lags
    <2>2. ASSUME NEW w \in Workers, NEW lag \in Lags
          PROVE  /\ WorkerDies(w) => held[w] # NoClaim
                 /\ Complete(w, lag) => held[w] # NoClaim
                 /\ \A retry \in BOOLEAN : Fail(w, retry, lag) => held[w] # NoClaim
                 /\ Reschedule(w, lag) => held[w] # NoClaim
                 /\ WaitForApproval(w, lag) => held[w] # NoClaim
                 /\ WorkerCancel(w, lag) => held[w] # NoClaim
                 /\ ReleaseLease(w, lag) => held[w] # NoClaim
                 /\ HeartbeatLease(w, lag) => held[w] # NoClaim
                 /\ Checkpoint(w, lag) => held[w] # NoClaim
      <3>1. WorkerDies(w) => held[w] # NoClaim
        BY DEF WorkerDies
      <3>2. Complete(w, lag) => held[w] # NoClaim
        BY DEF Complete
      <3>3. \A retry \in BOOLEAN : Fail(w, retry, lag) => held[w] # NoClaim
        BY DEF Fail
      <3>4. /\ Reschedule(w, lag) => held[w] # NoClaim
            /\ WaitForApproval(w, lag) => held[w] # NoClaim
        BY DEF Reschedule, WaitForApproval
      <3>5. /\ WorkerCancel(w, lag) => held[w] # NoClaim
            /\ ReleaseLease(w, lag) => held[w] # NoClaim
        BY Zenon DEF WorkerCancel, ReleaseLease
      <3>6. /\ HeartbeatLease(w, lag) => held[w] # NoClaim
            /\ Checkpoint(w, lag) => held[w] # NoClaim
        BY Zenon DEF HeartbeatLease, Checkpoint
      <3> QED
        BY <3>1, <3>2, <3>3, <3>4, <3>5, <3>6
    <2> QED
      BY <2>1, <2>2, Zenon DEF Executing
  <1> DEFINE c == held[w]
             row == jobs[c.job]
  <1>1. /\ c \in Claim /\ c.job \in JobIds /\ c.att \in Nat
        /\ GoodRow(row) /\ row \in Row /\ lag \in Nat
    BY ConstantsAssumption DEF IInv, MemoryOK, RowsOK, Claim, Lags, GoodRow
  <1>2. CASE WorkerDies(w)
    <2>1. jobs' = jobs /\ MemoryOK'
      BY <1>2 DEF WorkerDies, IInv, MemoryOK
    <2> QED
      BY <2>1, SameRows DEF IInv
  <1>3. CASE Complete(w, lag)
    <2> DEFINE u == Unleased(row, "completed", lag)
               r == [u EXCEPT !.result = c.att]
    <2>1. Close(w, lag, r)
      BY <1>3 DEF Complete
    <2>2. GoodRow(u)
      BY <1>1, UnleasedGood DEF Statuses, TerminalStatuses
    <2>3. /\ u.status = "completed" /\ u.owner = NoOne /\ u.lease = NoLease
          /\ u.key = row.key /\ u.attempts = row.attempts /\ u.gen = row.gen
      BY <1>1 DEF Unleased, Row
    <2>4. u \in Row /\ (Modes = {TRUE} => u.gen = u.attempts)
      BY <2>2 DEF GoodRow, FormalOK
    <2> HIDE DEF u
    <2>5. /\ r \in Row /\ r.status = "completed" /\ r.owner = NoOne
          /\ r.lease = NoLease /\ r.key = row.key
          /\ r.attempts = u.attempts /\ r.gen = u.gen
      BY <1>1, <2>3, <2>4 DEF Row
    <2> HIDE DEF r
    <2>6. GoodRow(r)
      BY <2>4, <2>5 DEF GoodRow, LeaseOK, FormalOK
    <2>7. row.status \in ActiveStatuses => Change(row, r)
      BY <2>3, <2>5 DEF Change, Done
    <2> QED
      BY <2>1, <2>6, <2>7, CloseStep
  <1>4. ASSUME NEW retry \in BOOLEAN, Fail(w, retry, lag)
        PROVE  MemoryOK' /\ RowsStep
    <2> DEFINE r == RetriedOrFailed(row, retry, RetryDelay, lag)
    <2>1. Close(w, lag, r)
      BY <1>4 DEF Fail
    <2>2. RetryDelay \in Nat
      BY ConstantsAssumption
    <2>3. GoodRow(r)
      BY <1>1, <2>2, RetriedOrFailedGood
    <2>4. row.status \in ActiveStatuses => Change(row, r)
      BY <1>1, RetriedOrFailedLeft DEF Change
    <2> HIDE DEF r
    <2> QED
      BY <2>1, <2>3, <2>4, CloseStep
  <1>5. CASE Reschedule(w, lag)
    <2> DEFINE u == Requeued(row, RetryDelay, lag)
               r == [u EXCEPT !.checkpoint = c.att]
    <2>1. Close(w, lag, r)
      BY <1>5 DEF Reschedule
    <2>2. GoodRow(u)
      BY <1>1, ConstantsAssumption, RequeuedGood
    <2>3. row.status \in ActiveStatuses => Left(row, u)
      BY <1>1, RequeuedLeft
    <2> HIDE DEF u
    <2>4. GoodRow(r) /\ (row.status \in ActiveStatuses => Left(row, r))
      BY <1>1, <2>2, <2>3, CheckpointedRow
    <2> HIDE DEF r
    <2> QED
      BY <2>1, <2>4, CloseStep DEF Change
  <1>6. CASE WaitForApproval(w, lag)
    <2> DEFINE u == Unleased(row, "waiting_approval", lag)
               r == [u EXCEPT !.checkpoint = c.att]
    <2>1. Close(w, lag, r)
      BY <1>6 DEF WaitForApproval
    <2>2. GoodRow(u)
      BY <1>1, UnleasedGood DEF Statuses, ActiveStatuses
    <2>3. row.status \in ActiveStatuses => Left(row, u)
      BY <1>1, UnleasedLeft DEF ActiveStatuses
    <2> HIDE DEF u
    <2>4. GoodRow(r) /\ (row.status \in ActiveStatuses => Left(row, r))
      BY <1>1, <2>2, <2>3, CheckpointedRow
    <2> HIDE DEF r
    <2> QED
      BY <2>1, <2>4, CloseStep DEF Change
  <1>7. CASE WorkerCancel(w, lag)
    <2>1. MemoryOK'
      BY <1>7 DEF WorkerCancel, IInv, MemoryOK
    <2>2. CASE ~CurrentLeaseMatches(row, c, lag)
      BY <1>7, <2>1, <2>2, SameRows DEF WorkerCancel, IInv
    <2>3. CASE CurrentLeaseMatches(row, c, lag)
      <3> DEFINE r == Unleased(row, "cancelled", lag)
      <3>1. jobs' = [jobs EXCEPT ![c.job] = r]
        BY <1>7, <2>3 DEF WorkerCancel
      <3>2. row.status \in ActiveStatuses
        BY <2>3 DEF CurrentLeaseMatches, ActiveStatuses
      <3>3. GoodRow(r) /\ Left(row, r)
        BY <1>1, <3>2, UnleasedGood, UnleasedLeft
           DEF Statuses, TerminalStatuses
      <3> HIDE DEF r
      <3> QED
        BY <1>1, <2>1, <3>1, <3>3, ReplaceRow DEF IInv, Change
    <2> QED
      BY <2>2, <2>3
  <1>8. CASE ReleaseLease(w, lag)
    <2> DEFINE r == Requeued(row, 0, lag)
    <2>1. MemoryOK'
      BY <1>8 DEF ReleaseLease, IInv, MemoryOK
    <2>2. CASE jobs' = jobs
      BY <2>1, <2>2, SameRows DEF IInv
    <2>3. CASE jobs' = [jobs EXCEPT ![c.job] = r] /\ row.status = "running"
      <3>1. GoodRow(r) /\ Left(row, r)
        BY <1>1, <2>3, RequeuedGood, RequeuedLeft DEF ActiveStatuses
      <3> HIDE DEF r
      <3> QED
        BY <1>1, <2>1, <2>3, <3>1, ReplaceRow DEF IInv, Change
    <2> QED
      BY <1>8, <2>2, <2>3 DEF ReleaseLease
  <1>9. CASE HeartbeatLease(w, lag)
    <2> DEFINE r == [row EXCEPT !.lease = TTL - lag, !.age = lag]
    <2>1. jobs' = [jobs EXCEPT ![c.job] = r] /\ MemoryOK'
      BY <1>1, <1>9 DEF HeartbeatLease, IInv, MemoryOK
    <2>2. /\ row.owner # NoOne /\ row.status = "running"
      BY <1>9 DEF HeartbeatLease, CurrentLeaseMatches
    <2>3. TTL - lag \in Int /\ TTL - lag # NoLease
      BY <1>1, ConstantsAssumption
    <2>4. /\ r \in Row /\ r.status = row.status /\ r.owner = row.owner
          /\ r.lease = TTL - lag /\ Kept(row, r)
      BY <1>1, <2>3 DEF Row, Kept
    <2>5. Modes = {TRUE} => row.gen = row.attempts
      BY <1>1 DEF GoodRow, FormalOK
    <2> HIDE DEF r
    <2>6. GoodRow(r)
      BY <2>2, <2>3, <2>4, <2>5 DEF GoodRow, LeaseOK, FormalOK, Kept
    <2> QED
      BY <1>1, <2>1, <2>4, <2>6, ReplaceRow DEF IInv
  <1>10. CASE Checkpoint(w, lag)
    <2> DEFINE age == IF row.status \in TerminalStatuses THEN row.age ELSE lag
               u == [row EXCEPT !.age = age]
               r == [row EXCEPT !.checkpoint = c.att, !.age = age]
    <2>1. jobs' = [jobs EXCEPT ![c.job] = r] /\ MemoryOK'
      BY <1>1, <1>10 DEF Checkpoint, IInv, MemoryOK
    <2>2. age \in Nat
      BY <1>1 DEF Row
    <2> HIDE DEF age
    <2>3. /\ r \in Row /\ r.status = row.status /\ r.owner = row.owner
          /\ r.lease = row.lease /\ Kept(row, r)
      BY <1>1, <2>2 DEF Row, Kept
    <2> HIDE DEF r
    <2>4. GoodRow(r)
      BY <1>1, <2>3 DEF GoodRow, LeaseOK, FormalOK, Kept
    <2> QED
      BY <1>1, <2>1, <2>3, <2>4, ReplaceRow DEF IInv
  <1> QED
    BY <1>2, <1>3, <1>4, <1>5, <1>6, <1>7, <1>8, <1>9, <1>10

LEMMA AdministeringStep ==
    ASSUME IInv, Administering
    PROVE  MemoryOK' /\ RowsStep
  <1> PICK j \in JobIds :
        \/ PruneTerminal(j)
        \/ \E lag \in Lags :
             \/ Cancel(j, lag)
             \/ AdminForceCancel(j, lag)
             \/ RequestCancel(j, lag)
             \/ \E b \in BOOLEAN : \/ FailUnowned(j, b, lag)
                                   \/ Recovering(j, b, lag)
    BY Zenon DEF Administering
  <1> DEFINE row == jobs[j]
  <1>1. GoodRow(row) /\ row \in Row
    BY DEF IInv, RowsOK, GoodRow
  <1>2. CASE PruneTerminal(j)
    <2> DEFINE r == [EmptyRow EXCEPT !.status = "deleted"]
    <2>1. jobs' = [jobs EXCEPT ![j] = r] /\ MemoryOK'
      BY <1>2 DEF PruneTerminal, IInv, MemoryOK
    <2>2. GoodRow(r)
      BY EmptyGood
    <2>3. r.status = "deleted" /\ r.attempts = 0 /\ r.result = 0
      BY DEF EmptyRow
    <2> HIDE DEF r
    <2>4. Change(row, r)
      BY <1>2, <2>3 DEF PruneTerminal, Change, Gone
    <2> QED
      BY <2>1, <2>2, <2>4, ReplaceRow DEF IInv
  <1>3. ASSUME NEW lag \in Lags, Cancel(j, lag) \/ AdminForceCancel(j, lag)
        PROVE  MemoryOK' /\ RowsStep
    <2> DEFINE r == Unleased(row, "cancelled", lag)
    <2>1. /\ jobs' = [jobs EXCEPT ![j] = r] /\ MemoryOK'
          /\ row.status \in ActiveStatuses
      BY <1>3 DEF Cancel, AdminForceCancel, IInv, MemoryOK
    <2>2. GoodRow(r) /\ Left(row, r)
      BY <1>1, <2>1, UnleasedGood, UnleasedLeft DEF Statuses, TerminalStatuses
    <2> HIDE DEF r
    <2> QED
      BY <2>1, <2>2, ReplaceRow DEF IInv, Change
  <1>4. ASSUME NEW lag \in Lags, RequestCancel(j, lag)
        PROVE  MemoryOK' /\ RowsStep
    <2> DEFINE r == [row EXCEPT !.cancelRequested = TRUE, !.age = lag]
    <2>1. jobs' = [jobs EXCEPT ![j] = r] /\ MemoryOK'
      BY <1>1, <1>4 DEF RequestCancel, IInv, MemoryOK, RowsOK
    <2>2. lag \in Nat
      BY ConstantsAssumption DEF Lags
    <2>3. /\ r \in Row /\ r.status = row.status /\ r.owner = row.owner
          /\ r.lease = row.lease /\ Kept(row, r)
      BY <1>1, <2>2 DEF Row, Kept
    <2> HIDE DEF r
    <2>4. GoodRow(r)
      BY <1>1, <2>3 DEF GoodRow, LeaseOK, FormalOK, Kept
    <2> QED
      BY <2>1, <2>3, <2>4, ReplaceRow DEF IInv
  <1>5. ASSUME NEW lag \in Lags, NEW b \in BOOLEAN,
               FailUnowned(j, b, lag) \/ Recovering(j, b, lag)
        PROVE  MemoryOK' /\ RowsStep
    <2>1. /\ \E retry : jobs' = [jobs EXCEPT ![j] =
                                   RetriedOrFailed(row, retry, 0, lag)]
          /\ MemoryOK' /\ row.status \in ActiveStatuses
      BY <1>5 DEF FailUnowned, Recovering, ReclaimExpiredLease,
           RecoverStaleRunning, IInv, MemoryOK, ActiveStatuses
    <2>2. PICK retry : jobs' = [jobs EXCEPT ![j] =
                                  RetriedOrFailed(row, retry, 0, lag)]
      BY <2>1
    <2> DEFINE r == RetriedOrFailed(row, retry, 0, lag)
    <2>3. GoodRow(r) /\ Left(row, r)
      BY <1>1, <2>1, RetriedOrFailedGood, RetriedOrFailedLeft
    <2> HIDE DEF r
    <2> QED
      BY <2>1, <2>2, <2>3, ReplaceRow DEF IInv, Change, r
  <1> QED
    BY <1>2, <1>3, <1>4, <1>5

LEMMA EnvironmentStep ==
    ASSUME IInv, Environment
    PROVE  MemoryOK' /\ RowsStep
  <1>1. CASE SetSafeModeReason
    <2>1. jobs' = jobs /\ MemoryOK'
      BY <1>1 DEF SetSafeModeReason, IInv, MemoryOK
    <2> QED
      BY <2>1, SameRows DEF IInv
  <1>2. CASE Restart
    <2>1. jobs' = jobs /\ MemoryOK'
      BY <1>2 DEF Restart, IInv, MemoryOK
    <2> QED
      BY <2>1, SameRows DEF IInv
  <1>3. CASE Tick
    <2>1. \A j \in JobIds : jobs'[j] = Older(jobs[j])
      BY <1>3 DEF Tick
    <2>2. \A j \in JobIds : GoodRow(jobs'[j]) /\ Kept(jobs[j], jobs'[j])
      BY <2>1, OlderGood, OlderKept DEF IInv, RowsOK
    <2>3. jobs' \in [JobIds -> Row]
      BY <1>3, <2>1, <2>2 DEF Tick, GoodRow
    <2> QED
      BY <1>3, <2>2, <2>3
         DEF Tick, IInv, MemoryOK, RowsOK, RowsStep, AllKept
  <1> QED
    BY <1>1, <1>2, <1>3 DEF Environment

LEMMA StepLemma ==
    ASSUME IInv, [Next]_vars
    PROVE  IInv' /\ (AllKept \/ OneChange)
  <1>1. CASE UNCHANGED vars
    <2>1. jobs' = jobs /\ MemoryOK'
      BY <1>1 DEF vars, IInv, MemoryOK
    <2> QED
      BY <2>1, SameRows DEF IInv, RowsStep
  <1>2. CASE Next
    <2>1. MemoryOK' /\ RowsStep
      BY <1>2, EnqueuingStep, ClaimingStep, ExecutingStep, AdministeringStep,
         EnvironmentStep DEF Next
    <2> QED
      BY <2>1 DEF IInv, RowsStep
  <1> QED
    BY <1>1, <1>2

\* The inductive invariant: every row is good and memory is typed.
THEOREM Inductive == Spec => []IInv
  <1>1. Init => IInv
    BY EmptyGood DEF Init, IInv, MemoryOK, RowsOK, GoodRow
  <1>2. IInv /\ [Next]_vars => IInv'
    BY StepLemma
  <1> QED
    BY <1>1, <1>2, PTL DEF Spec

\* Type correctness, whichever regimes the process is started with.
THEOREM TypeCorrect == Spec => []TypeOK
  <1>1. IInv => TypeOK
    BY DEF IInv, MemoryOK, RowsOK, TypeOK
  <1> QED
    BY <1>1, Inductive, PTL

\* A row carries a whole lease or none, only while it runs; and no job runs
\* without a lease when formal leases are always on.
THEOREM LeasesSound == Spec => []LeaseColumns
  <1>1. IInv => LeaseColumns
    BY DEF IInv, RowsOK, GoodRow, LeaseOK, FormalOK, LeaseColumns
  <1> QED
    BY <1>1, Inductive, PTL

-----------------------------------------------------------------------------
\* No row leaves a terminal status except to be deleted.
THEOREM TerminalIsForever == Spec => TerminalAbsorbing
  <1>1. ASSUME IInv, [Next]_vars, NEW j \in JobIds,
               jobs[j].status \in TerminalStatuses
        PROVE  \/ /\ jobs'[j].status = jobs[j].status
                  /\ jobs'[j].result = jobs[j].result
               \/ jobs'[j].status = "deleted"
    <2>1. CASE AllKept
      BY <2>1 DEF AllKept, Kept
    <2>2. CASE OneChange
      <3>1. jobs'[j] = jobs[j] \/ Change(jobs[j], jobs'[j])
        BY <2>2 DEF OneChange
      <3>2. ~Granted(jobs[j], jobs'[j]) /\ ~Left(jobs[j], jobs'[j])
              /\ ~Done(jobs[j], jobs'[j]) /\ ~Born(jobs[j], jobs'[j])
        BY <1>1 DEF Granted, Left, Done, Born, TerminalStatuses, ActiveStatuses,
                    Claimable
      <3> QED
        BY <3>1, <3>2 DEF Change, Gone
    <2> QED
      BY <1>1, <2>1, <2>2, StepLemma
  <1>2. IInv /\ [Next]_vars => [\A j \in JobIds :
          jobs[j].status \in TerminalStatuses =>
            \/ /\ jobs'[j].status = jobs[j].status
               /\ jobs'[j].result = jobs[j].result
            \/ jobs'[j].status = "deleted"]_vars
    BY <1>1
  <1> QED
    BY <1>2, Inductive, PTL DEF Spec, TerminalAbsorbing

\* At most one active job per resume key, although enqueue looks the key up
\* under one lock and inserts under another.
THEOREM UniqueActiveKeys == Spec => []OneActivePerKey
  <1> DEFINE Live(row) == row.status \in ActiveStatuses /\ row.key # NoKey
             Unique == \A i, j \in JobIds :
                         Live(jobs[i]) /\ Live(jobs[j])
                           /\ jobs[i].key = jobs[j].key => i = j
  <1>1. Unique <=> OneActivePerKey
    BY DEF OneActivePerKey, ActiveWithKey
  <1>2. Init => Unique
    BY DEF Init, EmptyRow, ActiveStatuses, Claimable
  <1>3. ASSUME IInv, Unique, [Next]_vars
        PROVE  Unique'
    <2>1. CASE AllKept
      BY <1>3, <2>1 DEF AllKept, Kept
    <2>2. CASE OneChange
      <3>1. PICK i \in JobIds : /\ Change(jobs[i], jobs'[i])
                                /\ \A j \in JobIds \ {i} : jobs'[j] = jobs[j]
        BY <2>2 DEF OneChange
      <3>2. CASE Born(jobs[i], jobs'[i])
        <4>1. \A j \in JobIds : Live(jobs[j]) => jobs[j].key # jobs'[i].key
          BY <3>2 DEF Born, UniqueIndexAdmits, ActiveWithKey
        <4> QED
          BY <1>3, <3>1, <4>1
      <3>3. CASE ~Born(jobs[i], jobs'[i])
        <4>1. Live(jobs'[i]) => Live(jobs[i]) /\ jobs'[i].key = jobs[i].key
          BY <3>1, <3>3 DEF Change, Granted, Left, Done, Gone, ActiveStatuses,
                            Claimable
        <4> QED
          BY <1>3, <3>1, <4>1
      <3> QED
        BY <3>2, <3>3
    <2> QED
      BY <1>3, <2>1, <2>2, StepLemma
  <1> HIDE DEF Unique
  <1>4. IInv /\ Unique /\ [Next]_vars => Unique'
    BY <1>3
  <1> QED
    BY <1>1, <1>2, <1>4, Inductive, PTL DEF Spec

-----------------------------------------------------------------------------
(* Fencing: what a claim in memory knows of its row under formal leases. *)

HeldOK(w) == held[w] # NoClaim =>
    /\ held[w].gen = held[w].att
    /\ jobs[held[w].job].status # "unborn"
    /\ \/ jobs[held[w].job].status = "deleted"
       \/ held[w].gen <= jobs[held[w].job].gen

Distinct == \A v, w \in Workers :
    held[v] # NoClaim /\ held[w] # NoClaim /\ held[w].job = held[v].job
        /\ held[w].gen = held[v].gen => v = w

FInv == (\A w \in Workers : HeldOK(w)) /\ Distinct

\* Memory keeps its claims or loses some; or one thread takes a job.
Forgets == \A w \in Workers : held'[w] \in {held[w], NoClaim}

Takes == \E w \in Workers, j \in JobIds, lag \in Lags :
    jobs[j].status \in Claimable /\ Take(w, j, lag)

LEMMA HeldStep ==
    ASSUME IInv, [Next]_vars
    PROVE  Forgets \/ Takes
  <1>1. CASE UNCHANGED vars
    BY <1>1 DEF vars, Forgets
  <1>2. CASE Enqueuing
    BY <1>2 DEF Enqueuing, LookupKey, Insert, Forgets
  <1>3. CASE Claiming
    <2>1. ASSUME NEW w \in Workers, ReadGate(w) \/ ClaimNothing(w)
          PROVE  Forgets
      BY <2>1 DEF ReadGate, ClaimNothing, Forgets
    <2>2. ASSUME NEW w \in Workers, NEW lag \in Lags, NEW ks,
                 ClaimNext(w, ks, lag)
          PROVE  Takes
      BY <2>2 DEF ClaimNext, Due, Takes
    <2>3. ASSUME NEW w \in Workers, NEW lag \in Lags, NEW j \in JobIds,
                 ClaimById(w, j, lag)
          PROVE  Takes
      BY <2>3 DEF ClaimById, Takes
    <2> QED
      BY <1>3, <2>1, <2>2, <2>3 DEF Claiming
  <1>4. CASE Executing
    <2>1. ASSUME NEW w \in Workers, held' = [held EXCEPT ![w] = NoClaim]
          PROVE  Forgets
      BY <2>1 DEF Forgets, IInv, MemoryOK
    <2>2. ASSUME UNCHANGED held
          PROVE  Forgets
      BY <2>2 DEF Forgets
    <2>3. ASSUME NEW w \in Workers, NEW lag \in Lags, NEW row,
                 Close(w, lag, row)
          PROVE  Forgets
      BY <2>1, <2>3 DEF Close
    <2>4. ASSUME NEW w \in Workers, WorkerDies(w)
          PROVE  Forgets
      BY <2>1, <2>4 DEF WorkerDies
    <2>5. ASSUME NEW w \in Workers, NEW lag \in Lags,
                 \/ Complete(w, lag)
                 \/ \E retry \in BOOLEAN : Fail(w, retry, lag)
                 \/ Reschedule(w, lag)
                 \/ WaitForApproval(w, lag)
          PROVE  Forgets
      BY <2>3, <2>5 DEF Complete, Fail, Reschedule, WaitForApproval
    <2>6. ASSUME NEW w \in Workers, NEW lag \in Lags,
                 WorkerCancel(w, lag) \/ ReleaseLease(w, lag)
          PROVE  Forgets
      BY <2>1, <2>6 DEF WorkerCancel, ReleaseLease
    <2>7. ASSUME NEW w \in Workers, NEW lag \in Lags,
                 HeartbeatLease(w, lag) \/ Checkpoint(w, lag)
          PROVE  Forgets
      BY <2>2, <2>7 DEF HeartbeatLease, Checkpoint
    <2> QED
      BY <1>4, <2>4, <2>5, <2>6, <2>7, Zenon DEF Executing
  <1>5. CASE Administering
    BY <1>5 DEF Administering, Cancel, AdminForceCancel, RequestCancel,
         PruneTerminal, FailUnowned, Recovering, ReclaimExpiredLease,
         RecoverStaleRunning, Forgets
  <1>6. CASE Environment
    BY <1>6 DEF Environment, SetSafeModeReason, Restart, Tick, Forgets
  <1> QED
    BY <1>1, <1>2, <1>3, <1>4, <1>5, <1>6 DEF Next

\* A row that a claim knows of neither becomes unborn nor loses generations.
LEMMA GenerationsGrow ==
    ASSUME IInv, [Next]_vars, NEW j \in JobIds, jobs[j].status # "unborn"
    PROVE  /\ jobs'[j].status # "unborn"
           /\ \/ jobs'[j].status = "deleted"
              \/ jobs[j].status # "deleted" /\ jobs[j].gen <= jobs'[j].gen
  <1>1. jobs[j] \in Row /\ jobs[j].gen \in Nat
    BY DEF IInv, RowsOK, Row
  <1>2. CASE Kept(jobs[j], jobs'[j])
    BY <1>1, <1>2 DEF Kept
  <1>3. CASE Change(jobs[j], jobs'[j])
    BY <1>1, <1>3 DEF Change, Granted, Left, Done, Gone, Born, ActiveStatuses,
                      Claimable, TerminalStatuses
  <1>4. Kept(jobs[j], jobs'[j]) \/ Change(jobs[j], jobs'[j])
    <2>1. Kept(jobs[j], jobs[j])
      BY DEF Kept
    <2> QED
      BY <2>1, StepLemma DEF AllKept, OneChange, Kept
  <1> QED
    BY <1>2, <1>3, <1>4

LEMMA FencingStep ==
    ASSUME Modes = {TRUE}, IInv, FInv, [Next]_vars
    PROVE  FInv'
  <1>1. IInv'
    BY StepLemma
  <1>2. CASE Forgets
    <2>1. ASSUME NEW w \in Workers
          PROVE  HeldOK(w)'
      <3> SUFFICES ASSUME held'[w] # NoClaim
                   PROVE  /\ held'[w].gen = held'[w].att
                          /\ jobs'[held'[w].job].status # "unborn"
                          /\ \/ jobs'[held'[w].job].status = "deleted"
                             \/ held'[w].gen <= jobs'[held'[w].job].gen
        BY DEF HeldOK
      <3>1. held'[w] = held[w] /\ held[w] \in Claim /\ held[w].job \in JobIds
        BY <1>2 DEF Forgets, IInv, MemoryOK, Claim
      <3>2. HeldOK(w)
        BY DEF FInv
      <3>3. /\ held[w].gen \in Nat /\ jobs[held[w].job].gen \in Nat
            /\ jobs'[held[w].job].gen \in Nat
        BY <1>1, <3>1 DEF Claim, IInv, RowsOK, Row
      <3> QED
        BY <3>1, <3>2, <3>3, GenerationsGrow DEF HeldOK
    <2>2. Distinct'
      BY <1>2 DEF Forgets, FInv, Distinct
    <2> QED
      BY <2>1, <2>2 DEF FInv
  <1>3. CASE Takes
    <2>1. PICK w \in Workers, j \in JobIds, lag \in Lags :
            jobs[j].status \in Claimable /\ Take(w, j, lag)
      BY <1>3 DEF Takes
    <2> DEFINE c == [job |-> j, att |-> jobs'[j].attempts,
                     owner |-> jobs'[j].owner, gen |-> jobs'[j].gen]
    <2>2. held'[w] = c /\ \A v \in Workers \ {w} : held'[v] = held[v]
      BY <2>1 DEF Take, IInv, MemoryOK
    <2>3. /\ jobs'[j].status = "running" /\ jobs'[j].gen = jobs[j].gen + 1
          /\ jobs'[j].gen = jobs'[j].attempts
      <3>1. jobs'[j] = Claimed(jobs[j], w, lag) /\ GoodRow(jobs[j])
        BY <2>1 DEF Take, IInv, RowsOK
      <3>2. formal
        BY FormalMode DEF IInv, MemoryOK
      <3>3. jobs'[j].status = "running" /\ jobs'[j].gen = jobs[j].gen + 1
        BY <2>1, <3>1, <3>2, ClaimedGranted DEF Granted, IInv, MemoryOK
      <3>4. jobs'[j].gen = jobs'[j].attempts
        BY <1>1 DEF IInv, RowsOK, GoodRow, FormalOK
      <3> QED
        BY <3>3, <3>4
    <2>4. HeldOK(w)'
      <3>1. jobs'[j].gen \in Nat
        BY <1>1 DEF IInv, RowsOK, Row
      <3> QED
        BY <2>2, <2>3, <3>1 DEF HeldOK
    <2>5. ASSUME NEW v \in Workers \ {w}
          PROVE  /\ HeldOK(v)'
                 /\ held'[v] # NoClaim /\ held'[v].job = j
                      => held'[v].gen < jobs'[j].gen
      <3> SUFFICES ASSUME held'[v] # NoClaim
                   PROVE  /\ held'[v].gen = held'[v].att
                          /\ jobs'[held'[v].job].status # "unborn"
                          /\ \/ jobs'[held'[v].job].status = "deleted"
                             \/ held'[v].gen <= jobs'[held'[v].job].gen
                          /\ held'[v].job = j => held'[v].gen < jobs'[j].gen
        BY DEF HeldOK
      <3>1. held'[v] = held[v] /\ held[v] \in Claim /\ held[v].job \in JobIds
        BY <2>2 DEF IInv, MemoryOK, Claim
      <3>2. HeldOK(v)
        BY DEF FInv
      <3>3. /\ held[v].gen \in Nat /\ jobs[held[v].job].gen \in Nat
            /\ jobs'[held[v].job].gen \in Nat /\ jobs[j].gen \in Nat
        BY <1>1, <3>1 DEF Claim, IInv, RowsOK, Row
      <3>4. jobs[j].status # "deleted"
        BY <2>1 DEF Claimable
      <3> QED
        BY <2>3, <3>1, <3>2, <3>3, <3>4, GenerationsGrow DEF HeldOK
    <2>6. Distinct'
      <3> SUFFICES ASSUME NEW u \in Workers, NEW v \in Workers,
                          held'[u] # NoClaim, held'[v] # NoClaim,
                          held'[v].job = held'[u].job,
                          held'[v].gen = held'[u].gen
                   PROVE  u = v
        BY DEF Distinct
      <3>1. CASE u # w /\ v # w
        BY <2>2, <3>1 DEF FInv, Distinct
      <3>2. CASE u = w /\ v # w
        <4>1. held'[v].job = j /\ held'[v].gen = jobs'[j].gen
          BY <2>2, <3>2
        <4>2. held'[v].gen < jobs'[j].gen /\ jobs'[j].gen \in Nat
          BY <1>1, <2>5, <3>2, <4>1 DEF IInv, RowsOK, Row
        <4> QED
          BY <4>1, <4>2
      <3>3. CASE u # w /\ v = w
        <4>1. held'[u].job = j /\ held'[u].gen = jobs'[j].gen
          BY <2>2, <3>3
        <4>2. held'[u].gen < jobs'[j].gen /\ jobs'[j].gen \in Nat
          BY <1>1, <2>5, <3>3, <4>1 DEF IInv, RowsOK, Row
        <4> QED
          BY <4>1, <4>2
      <3> QED
        BY <3>1, <3>2, <3>3
    <2> QED
      BY <2>4, <2>5, <2>6 DEF FInv
  <1> QED
    BY <1>2, <1>3, HeldStep

LEMMA FencingInvariant ==
    ASSUME Modes = {TRUE}
    PROVE  Spec => []FInv
  <1>1. Init => FInv
    BY DEF Init, FInv, HeldOK, Distinct
  <1>2. IInv /\ FInv /\ [Next]_vars => FInv'
    BY FencingStep
  <1> QED
    BY <1>1, <1>2, Inductive, PTL DEF Spec

\* Under formal leases lease_generation tells any two claims of a job apart.
THEOREM Fencing ==
    ASSUME Modes = {TRUE}
    PROVE  Spec => []FencingTokens
  <1>1. IInv /\ FInv => FencingTokens
    BY DEF FInv, HeldOK, Distinct, FencingTokens
  <1> QED
    BY <1>1, FencingInvariant, Inductive, PTL

-----------------------------------------------------------------------------
(* What a call may do under formal leases. *)

\* Current credentials are those of the newest claim, and the job runs.
LEMMA CurrentIsNewest ==
    ASSUME Modes = {TRUE}, IInv, FInv, NEW w \in Workers, held[w] # NoClaim,
           jobs[held[w].job].status = "running",
           jobs[held[w].job].gen = held[w].gen
    PROVE  jobs[held[w].job].attempts = held[w].att
  <1>1. held[w].job \in JobIds
    BY DEF IInv, MemoryOK, Claim
  <1>2. jobs[held[w].job].gen = jobs[held[w].job].attempts
    BY <1>1 DEF IInv, RowsOK, GoodRow, FormalOK
  <1> QED
    BY <1>2 DEF FInv, HeldOK

\* One call of a thread that closes its claim, under formal leases: either the
\* row stays as it was, or it ran, this claim was the newest, and a completion
\* records this claim.
Settles(w) ==
    LET i == held[w].job IN
    \/ jobs' = jobs
    \/ /\ \A j \in JobIds \ {i} : jobs'[j] = jobs[j]
       /\ jobs[i].status = "running"
       /\ jobs[i].attempts = held[w].att
       /\ jobs'[i].status = "completed" => jobs'[i].result = jobs[i].attempts

LEMMA CloseSettles ==
    ASSUME Modes = {TRUE}, IInv, FInv, NEW w \in Workers, held[w] # NoClaim,
           NEW lag \in Lags, NEW row, Close(w, lag, row),
           row.status = "completed" => row.result = held[w].att
    PROVE  Settles(w)
  <1> DEFINE i == held[w].job
  <1>1. formal /\ i \in JobIds
    BY FormalMode DEF IInv, MemoryOK, Claim
  <1>2. CASE ~Accepts(i, held[w], lag)
    BY <1>2 DEF Close, Settles
  <1>3. CASE Accepts(i, held[w], lag)
    <2>1. jobs' = [jobs EXCEPT ![i] = row]
      BY <1>3 DEF Close
    <2>2. jobs[i].status = "running" /\ jobs[i].gen = held[w].gen
      BY <1>1, <1>3 DEF Accepts, CurrentLeaseMatches
    <2>3. jobs[i].attempts = held[w].att
      BY <2>2, CurrentIsNewest
    <2>4. jobs'[i] = row /\ \A j \in JobIds \ {i} : jobs'[j] = jobs[j]
      BY <1>1, <2>1 DEF IInv, RowsOK
    <2> QED
      BY <2>2, <2>3, <2>4 DEF Settles
  <1> QED
    BY <1>2, <1>3

LEMMA CallSettles ==
    ASSUME Modes = {TRUE}, IInv, FInv, NEW w \in Workers, NEW lag \in Lags,
           \/ Complete(w, lag)
           \/ \E retry \in BOOLEAN : Fail(w, retry, lag)
           \/ Reschedule(w, lag)
           \/ WaitForApproval(w, lag)
           \/ WorkerCancel(w, lag)
           \/ ReleaseLease(w, lag)
    PROVE  Settles(w)
  <1> DEFINE c == held[w]
             row == jobs[c.job]
  <1>1. ASSUME held[w] # NoClaim
        PROVE  c.job \in JobIds /\ row \in Row /\ GoodRow(row) /\ c.att \in Nat
    BY <1>1 DEF IInv, MemoryOK, Claim, RowsOK, GoodRow
  <1>2. lag \in Nat /\ RetryDelay \in Nat
    BY ConstantsAssumption DEF Lags
  <1>3. CASE Complete(w, lag)
    <2> DEFINE u == Unleased(row, "completed", lag)
    <2>1. held[w] # NoClaim /\ Close(w, lag, [u EXCEPT !.result = c.att])
      BY <1>3 DEF Complete
    <2>2. [u EXCEPT !.result = c.att].result = c.att
      BY <1>1, <2>1 DEF Unleased, Row
    <2> HIDE DEF u
    <2> QED
      BY <2>1, <2>2, CloseSettles
  <1>4. ASSUME NEW retry \in BOOLEAN, Fail(w, retry, lag)
        PROVE  Settles(w)
    <2> DEFINE r == RetriedOrFailed(row, retry, RetryDelay, lag)
    <2>1. held[w] # NoClaim /\ Close(w, lag, r)
      BY <1>4 DEF Fail
    <2>2. r.status # "completed"
      BY <1>1, <1>2, <2>1 DEF RetriedOrFailed, Requeued, Unleased, Row
    <2> HIDE DEF r
    <2> QED
      BY <2>1, <2>2, CloseSettles
  <1>5. CASE Reschedule(w, lag)
    <2> DEFINE r == [Requeued(row, RetryDelay, lag) EXCEPT !.checkpoint = c.att]
    <2>1. held[w] # NoClaim /\ Close(w, lag, r)
      BY <1>5 DEF Reschedule
    <2>2. r.status # "completed"
      BY <1>1, <1>2, <2>1 DEF Requeued, Unleased, Row
    <2> HIDE DEF r
    <2> QED
      BY <2>1, <2>2, CloseSettles
  <1>6. CASE WaitForApproval(w, lag)
    <2> DEFINE r == [Unleased(row, "waiting_approval", lag)
                       EXCEPT !.checkpoint = c.att]
    <2>1. held[w] # NoClaim /\ Close(w, lag, r)
      BY <1>6 DEF WaitForApproval
    <2>2. r.status # "completed"
      BY <1>1, <1>2, <2>1 DEF Unleased, Row
    <2> HIDE DEF r
    <2> QED
      BY <2>1, <2>2, CloseSettles
  <1>7. ASSUME NEW r, r.status # "completed",
               held[w] # NoClaim,
               row.status = "running" /\ row.gen = c.gen,
               jobs' = [jobs EXCEPT ![c.job] = r]
        PROVE  Settles(w)
    <2>1. row.attempts = c.att
      BY <1>7, CurrentIsNewest
    <2>2. jobs'[c.job] = r /\ \A j \in JobIds \ {c.job} : jobs'[j] = jobs[j]
      BY <1>1, <1>7 DEF IInv, RowsOK
    <2> QED
      BY <1>7, <2>1, <2>2 DEF Settles
  <1>8. CASE WorkerCancel(w, lag)
    <2> DEFINE r == Unleased(row, "cancelled", lag)
    <2>1. held[w] # NoClaim
      BY <1>8 DEF WorkerCancel
    <2>2. \/ jobs' = jobs
          \/ /\ CurrentLeaseMatches(row, c, lag)
             /\ jobs' = [jobs EXCEPT ![c.job] = r]
      BY <1>8 DEF WorkerCancel
    <2>3. r.status # "completed"
      BY <1>1, <2>1 DEF Unleased, Row
    <2> HIDE DEF r
    <2> QED
      BY <1>7, <2>1, <2>2, <2>3 DEF CurrentLeaseMatches, Settles
  <1>9. CASE ReleaseLease(w, lag)
    <2> DEFINE r == Requeued(row, 0, lag)
    <2>1. held[w] # NoClaim
      BY <1>9 DEF ReleaseLease
    <2>2. \/ jobs' = jobs
          \/ /\ row.status = "running" /\ row.gen = c.gen
             /\ jobs' = [jobs EXCEPT ![c.job] = r]
      BY <1>9 DEF ReleaseLease
    <2>3. r.status # "completed"
      BY <1>1, <1>2, <2>1 DEF Requeued, Unleased, Row
    <2> HIDE DEF r
    <2> QED
      BY <1>7, <2>1, <2>2, <2>3 DEF Settles
  <1> QED
    BY <1>3, <1>4, <1>5, <1>6, <1>8, <1>9

\* A thread loses its claim only in a call of its own that settles the job, or
\* in a crash.
LEMMA LosesBySettling ==
    ASSUME Modes = {TRUE}, IInv, FInv, [Next]_vars,
           NEW w \in Workers, held[w] # NoClaim, held'[w] = NoClaim
    PROVE  Settles(w)
  <1>1. held' # held
    OBVIOUS
  <1>2. held \in [Workers -> Claim \cup {NoClaim}]
    BY DEF IInv, MemoryOK
  <1>3. ASSUME NEW v \in Workers, held' = [held EXCEPT ![v] = NoClaim]
        PROVE  v = w
    BY <1>2, <1>3
  <1>4. ASSUME NEW v \in Workers, NEW j \in JobIds, NEW lag \in Lags,
               jobs[j].status \in Claimable, Take(v, j, lag)
        PROVE  FALSE
    <2> DEFINE c == [job |-> j, att |-> jobs'[j].attempts,
                     owner |-> jobs'[j].owner, gen |-> jobs'[j].gen]
    <2>1. jobs'[j] \in Row
      BY <1>4, TakeStep DEF RowsStep, RowsOK
    <2>2. c \in Claim
      BY <2>1 DEF Claim, Row
    <2>3. c # NoClaim
      BY <2>2, NoClaimAssumption
    <2>4. held' = [held EXCEPT ![v] = c]
      BY <1>4 DEF Take
    <2> HIDE DEF c
    <2> QED
      BY <1>2, <2>3, <2>4
  <1>5. CASE Enqueuing \/ UNCHANGED vars \/ Administering
    BY <1>1, <1>5 DEF Enqueuing, LookupKey, Insert, vars, Administering, Cancel,
         AdminForceCancel, RequestCancel, PruneTerminal, FailUnowned, Recovering,
         ReclaimExpiredLease, RecoverStaleRunning
  <1>6. CASE Claiming
    <2>1. PICK v \in Workers :
            \/ ReadGate(v)
            \/ ClaimNothing(v)
            \/ \E lag \in Lags, ks \in (SUBSET Kinds) \ {{}} : ClaimNext(v, ks, lag)
            \/ \E lag \in Lags, j \in JobIds : ClaimById(v, j, lag)
      BY <1>6, Zenon DEF Claiming
    <2> QED
      BY <1>1, <1>4, <2>1 DEF ReadGate, ClaimNothing, ClaimNext, ClaimById, Due
  <1>7. CASE Executing
    <2>1. PICK v \in Workers :
            \/ WorkerDies(v)
            \/ \E lag \in Lags :
                 \/ Complete(v, lag)
                 \/ \E retry \in BOOLEAN : Fail(v, retry, lag)
                 \/ Reschedule(v, lag)
                 \/ WaitForApproval(v, lag)
                 \/ WorkerCancel(v, lag)
                 \/ ReleaseLease(v, lag)
                 \/ HeartbeatLease(v, lag)
                 \/ Checkpoint(v, lag)
      BY <1>7, Zenon DEF Executing
    <2>2. v = w
      BY <1>1, <1>3, <2>1 DEF WorkerDies, Complete, Fail, Reschedule,
           WaitForApproval, Close, WorkerCancel, ReleaseLease, HeartbeatLease,
           Checkpoint
    <2>3. CASE WorkerDies(v)
      BY <2>2, <2>3 DEF WorkerDies, Settles
    <2>4. ASSUME NEW lag \in Lags, HeartbeatLease(v, lag) \/ Checkpoint(v, lag)
          PROVE  FALSE
      BY <1>1, <2>4 DEF HeartbeatLease, Checkpoint
    <2> QED
      BY <2>1, <2>2, <2>3, <2>4, CallSettles
  <1>8. CASE Environment
    BY <1>1, <1>8 DEF Environment, SetSafeModeReason, Tick, Restart, Settles
  <1> QED
    BY <1>5, <1>6, <1>7, <1>8 DEF Next

\* A thread whose job was claimed again changes no row when it ends its claim.
THEOREM LateCallsDoNothing ==
    ASSUME Modes = {TRUE}
    PROVE  Spec => LateCloseIsNoOp
  <1>1. IInv /\ FInv /\ [Next]_vars =>
          [\A w \in Workers :
             held[w] # NoClaim /\ held'[w] = NoClaim
               /\ held[w].att # jobs[held[w].job].attempts => UNCHANGED jobs]_vars
    BY LosesBySettling DEF Settles
  <1> QED
    BY <1>1, FencingInvariant, Inductive, PTL DEF Spec, LateCloseIsNoOp

-----------------------------------------------------------------------------
(* Who writes a result or a checkpoint, and who ends a run. *)

\* What may become of a row's result and checkpoint: kept, cleared, or written
\* by the newest claim of a running job.
WritesWell(r, q) ==
    /\ q.result \notin {0, r.result} =>
          q.result = r.attempts /\ r.status = "running"
    /\ q.checkpoint \notin {0, r.checkpoint} =>
          q.checkpoint = r.attempts /\ r.status = "running"

Keeps(r, q) == q.result = r.result /\ q.checkpoint = r.checkpoint

LEMMA UnleasedKeeps ==
    ASSUME NEW row \in Row, NEW s, NEW lag
    PROVE  Keeps(row, Unleased(row, s, lag))
  BY DEF Keeps, Unleased, Row

LEMMA RequeuedKeeps ==
    ASSUME NEW row \in Row, NEW delay, NEW lag
    PROVE  Keeps(row, Requeued(row, delay, lag))
  BY DEF Keeps, Requeued, Unleased, Row

LEMMA RetriedOrFailedKeeps ==
    ASSUME NEW row \in Row, NEW retry, NEW delay, NEW lag
    PROVE  Keeps(row, RetriedOrFailed(row, retry, delay, lag))
  BY UnleasedKeeps, RequeuedKeeps DEF RetriedOrFailed

LEMMA ReplacedWritesWell ==
    ASSUME RowsOK, NEW j \in JobIds, NEW q, jobs' = [jobs EXCEPT ![j] = q],
           Keeps(jobs[j], q) \/ WritesWell(jobs[j], q)
    PROVE  \A i \in JobIds : WritesWell(jobs[i], jobs'[i])
  BY DEF RowsOK, WritesWell, Keeps

LEMMA CloseWritesWell ==
    ASSUME Modes = {TRUE}, IInv, FInv, NEW w \in Workers, held[w] # NoClaim,
           NEW lag \in Lags, NEW row, Close(w, lag, row),
           row.result \in {held[w].att, jobs[held[w].job].result},
           row.checkpoint \in {held[w].att, jobs[held[w].job].checkpoint}
    PROVE  \A i \in JobIds : WritesWell(jobs[i], jobs'[i])
  <1> DEFINE j == held[w].job
  <1>1. formal /\ j \in JobIds /\ RowsOK
    BY FormalMode DEF IInv, MemoryOK, Claim
  <1>2. CASE ~Accepts(j, held[w], lag)
    BY <1>2 DEF Close, WritesWell
  <1>3. CASE Accepts(j, held[w], lag)
    <2>1. jobs' = [jobs EXCEPT ![j] = row]
      BY <1>3 DEF Close
    <2>2. jobs[j].status = "running" /\ jobs[j].gen = held[w].gen
      BY <1>1, <1>3 DEF Accepts, CurrentLeaseMatches
    <2>3. jobs[j].attempts = held[w].att
      BY <2>2, CurrentIsNewest
    <2>4. WritesWell(jobs[j], row)
      BY <2>2, <2>3 DEF WritesWell
    <2> QED
      BY <1>1, <2>1, <2>4, ReplacedWritesWell
  <1> QED
    BY <1>2, <1>3

LEMMA CallWritesWell ==
    ASSUME Modes = {TRUE}, IInv, FInv, NEW w \in Workers, NEW lag \in Lags,
           \/ Complete(w, lag)
           \/ \E retry \in BOOLEAN : Fail(w, retry, lag)
           \/ Reschedule(w, lag)
           \/ WaitForApproval(w, lag)
           \/ WorkerCancel(w, lag)
           \/ ReleaseLease(w, lag)
           \/ HeartbeatLease(w, lag)
           \/ Checkpoint(w, lag)
    PROVE  \A i \in JobIds : WritesWell(jobs[i], jobs'[i])
  <1> DEFINE c == held[w]
             row == jobs[c.job]
  <1>1. /\ held[w] # NoClaim
        /\ c.job \in JobIds /\ row \in Row /\ c.att \in Nat
        /\ RowsOK /\ formal
    <2>1. held[w] # NoClaim
      BY DEF Complete, Fail, Reschedule, WaitForApproval, WorkerCancel,
           ReleaseLease, HeartbeatLease, Checkpoint
    <2> QED
      BY <2>1, FormalMode DEF IInv, MemoryOK, Claim, RowsOK, GoodRow
  <1>2. CASE Complete(w, lag)
    <2> DEFINE u == Unleased(row, "completed", lag)
               r == [u EXCEPT !.result = c.att]
    <2>1. Close(w, lag, r)
      BY <1>2 DEF Complete
    <2>2. r.result = c.att /\ r.checkpoint = row.checkpoint
      BY <1>1 DEF Unleased, Row
    <2> HIDE DEF r, u
    <2> QED
      BY <1>1, <2>1, <2>2, CloseWritesWell
  <1>3. ASSUME NEW retry \in BOOLEAN, Fail(w, retry, lag)
        PROVE  \A i \in JobIds : WritesWell(jobs[i], jobs'[i])
    <2> DEFINE r == RetriedOrFailed(row, retry, RetryDelay, lag)
    <2>1. Close(w, lag, r)
      BY <1>3 DEF Fail
    <2>2. Keeps(row, r)
      BY <1>1, RetriedOrFailedKeeps
    <2> HIDE DEF r
    <2> QED
      BY <1>1, <2>1, <2>2, CloseWritesWell DEF Keeps
  <1>4. CASE Reschedule(w, lag)
    <2> DEFINE u == Requeued(row, RetryDelay, lag)
               r == [u EXCEPT !.checkpoint = c.att]
    <2>1. Close(w, lag, r)
      BY <1>4 DEF Reschedule
    <2>2. r.result = row.result /\ r.checkpoint = c.att
      BY <1>1 DEF Requeued, Unleased, Row
    <2> HIDE DEF r, u
    <2> QED
      BY <1>1, <2>1, <2>2, CloseWritesWell
  <1>5. CASE WaitForApproval(w, lag)
    <2> DEFINE u == Unleased(row, "waiting_approval", lag)
               r == [u EXCEPT !.checkpoint = c.att]
    <2>1. Close(w, lag, r)
      BY <1>5 DEF WaitForApproval
    <2>2. r.result = row.result /\ r.checkpoint = c.att
      BY <1>1 DEF Unleased, Row
    <2> HIDE DEF r, u
    <2> QED
      BY <1>1, <2>1, <2>2, CloseWritesWell
  <1>6. ASSUME NEW q, Keeps(row, q),
               jobs' = jobs \/ jobs' = [jobs EXCEPT ![c.job] = q]
        PROVE  \A i \in JobIds : WritesWell(jobs[i], jobs'[i])
    <2>1. CASE jobs' = jobs
      BY <2>1 DEF WritesWell
    <2>2. CASE jobs' = [jobs EXCEPT ![c.job] = q]
      BY <1>1, <1>6, <2>2, ReplacedWritesWell
    <2> QED
      BY <1>6, <2>1, <2>2
  <1>7. CASE WorkerCancel(w, lag)
    <2> DEFINE q == Unleased(row, "cancelled", lag)
    <2>1. Keeps(row, q)
      BY <1>1, UnleasedKeeps
    <2>2. jobs' = jobs \/ jobs' = [jobs EXCEPT ![c.job] = q]
      BY <1>7 DEF WorkerCancel
    <2> HIDE DEF q
    <2> QED
      BY <1>6, <2>1, <2>2
  <1>8. CASE ReleaseLease(w, lag)
    <2> DEFINE q == Requeued(row, 0, lag)
    <2>1. Keeps(row, q)
      BY <1>1, RequeuedKeeps
    <2>2. jobs' = jobs \/ jobs' = [jobs EXCEPT ![c.job] = q]
      BY <1>8 DEF ReleaseLease
    <2> HIDE DEF q
    <2> QED
      BY <1>6, <2>1, <2>2
  <1>9. CASE HeartbeatLease(w, lag)
    <2> DEFINE q == [row EXCEPT !.lease = TTL - lag, !.age = lag]
    <2>1. Keeps(row, q)
      BY <1>1 DEF Keeps, Row
    <2>2. jobs' = [jobs EXCEPT ![c.job] = q]
      BY <1>1, <1>9 DEF HeartbeatLease, RowsOK
    <2> HIDE DEF q
    <2> QED
      BY <1>6, <2>1, <2>2
  <1>10. CASE Checkpoint(w, lag)
    <2> DEFINE q == [row EXCEPT !.checkpoint = c.att,
                       !.age = IF row.status \in TerminalStatuses THEN @
                               ELSE lag]
    <2>1. CurrentLeaseMatches(row, c, lag) /\ jobs' = [jobs EXCEPT ![c.job] = q]
      BY <1>1, <1>10 DEF Checkpoint
    <2>2. row.status = "running" /\ row.attempts = c.att
      BY <1>1, <2>1, CurrentIsNewest DEF CurrentLeaseMatches
    <2>3. q.result = row.result /\ q.checkpoint = c.att
      BY <1>1 DEF Row
    <2> HIDE DEF q
    <2>4. WritesWell(row, q)
      BY <2>2, <2>3 DEF WritesWell
    <2> QED
      BY <1>1, <2>1, <2>4, ReplacedWritesWell
  <1> QED
    BY <1>2, <1>3, <1>4, <1>5, <1>7, <1>8, <1>9, <1>10

LEMMA StepWritesWell ==
    ASSUME Modes = {TRUE}, IInv, FInv, [Next]_vars
    PROVE  \A i \in JobIds : WritesWell(jobs[i], jobs'[i])
  <1>1. formal /\ RowsOK /\ jobs \in [JobIds -> Row]
    BY FormalMode DEF IInv, MemoryOK, RowsOK
  <1>2. ASSUME jobs' = jobs
        PROVE  \A i \in JobIds : WritesWell(jobs[i], jobs'[i])
    BY <1>2 DEF WritesWell
  <1>3. CASE UNCHANGED vars
    BY <1>2, <1>3 DEF vars
  <1>4. CASE Enqueuing
    <2>1. ASSUME NEW c \in Callers, NEW j \in JobIds, Insert(c, j)
          PROVE  \A i \in JobIds : WritesWell(jobs[i], jobs'[i])
      <3> DEFINE q == [EmptyRow EXCEPT !.status = "queued",
                         !.key = callers[c].key,
                         !.created = Cardinality({i \in JobIds :
                                            jobs[i].status # "unborn"})]
      <3>1. jobs' = jobs \/ jobs' = [jobs EXCEPT ![j] = q]
        BY <2>1 DEF Insert
      <3>2. q.result = 0 /\ q.checkpoint = 0
        BY DEF EmptyRow
      <3> HIDE DEF q
      <3> QED
        BY <1>1, <1>2, <3>1, <3>2, ReplacedWritesWell DEF WritesWell
    <2> QED
      BY <1>2, <1>4, <2>1 DEF Enqueuing, LookupKey
  <1>5. CASE Claiming
    <2>1. ASSUME NEW w \in Workers, NEW j \in JobIds, NEW lag \in Lags,
                 jobs[j].status \in Claimable, Take(w, j, lag)
          PROVE  \A i \in JobIds : WritesWell(jobs[i], jobs'[i])
      <3>1. Keeps(jobs[j], Claimed(jobs[j], w, lag))
        BY <1>1 DEF Keeps, Claimed, Row
      <3>2. jobs' = [jobs EXCEPT ![j] = Claimed(jobs[j], w, lag)]
        BY <2>1 DEF Take
      <3> QED
        BY <1>1, <3>1, <3>2, ReplacedWritesWell
    <2>2. PICK w \in Workers :
            \/ ReadGate(w)
            \/ ClaimNothing(w)
            \/ \E lag \in Lags, ks \in (SUBSET Kinds) \ {{}} : ClaimNext(w, ks, lag)
            \/ \E lag \in Lags, j \in JobIds : ClaimById(w, j, lag)
      BY <1>5, Zenon DEF Claiming
    <2> QED
      BY <1>2, <2>1, <2>2 DEF ReadGate, ClaimNothing, ClaimNext, ClaimById, Due
  <1>6. CASE Executing
    <2>1. ASSUME NEW w \in Workers, WorkerDies(w)
          PROVE  \A i \in JobIds : WritesWell(jobs[i], jobs'[i])
      BY <1>2, <2>1 DEF WorkerDies
    <2> QED
      BY <1>6, <2>1, CallWritesWell, Zenon DEF Executing
  <1>7. CASE Administering
    <2>1. PICK j \in JobIds :
            \/ PruneTerminal(j)
            \/ \E lag \in Lags :
                 \/ Cancel(j, lag)
                 \/ AdminForceCancel(j, lag)
                 \/ RequestCancel(j, lag)
                 \/ \E b \in BOOLEAN : \/ FailUnowned(j, b, lag)
                                       \/ Recovering(j, b, lag)
      BY <1>7, Zenon DEF Administering
    <2>2. jobs[j] \in Row
      BY <1>1
    <2>3. CASE PruneTerminal(j)
      <3> DEFINE q == [EmptyRow EXCEPT !.status = "deleted"]
      <3>1. q.result = 0 /\ q.checkpoint = 0
        BY DEF EmptyRow
      <3>2. jobs' = [jobs EXCEPT ![j] = q]
        BY <2>3 DEF PruneTerminal
      <3> HIDE DEF q
      <3> QED
        BY <1>1, <3>1, <3>2, ReplacedWritesWell DEF WritesWell
    <2>4. ASSUME NEW q, Keeps(jobs[j], q), jobs' = [jobs EXCEPT ![j] = q]
          PROVE  \A i \in JobIds : WritesWell(jobs[i], jobs'[i])
      BY <1>1, <2>4, ReplacedWritesWell
    <2>5. ASSUME NEW lag \in Lags, Cancel(j, lag) \/ AdminForceCancel(j, lag)
          PROVE  \A i \in JobIds : WritesWell(jobs[i], jobs'[i])
      BY <2>2, <2>4, <2>5, UnleasedKeeps DEF Cancel, AdminForceCancel
    <2>6. ASSUME NEW lag \in Lags, RequestCancel(j, lag)
          PROVE  \A i \in JobIds : WritesWell(jobs[i], jobs'[i])
      <3> DEFINE q == [jobs[j] EXCEPT !.cancelRequested = TRUE, !.age = lag]
      <3>1. Keeps(jobs[j], q)
        BY <2>2 DEF Keeps, Row
      <3>2. jobs' = [jobs EXCEPT ![j] = q]
        BY <1>1, <2>6 DEF RequestCancel
      <3> HIDE DEF q
      <3> QED
        BY <2>4, <3>1, <3>2
    <2>7. ASSUME NEW lag \in Lags, NEW b \in BOOLEAN,
                 \/ FailUnowned(j, b, lag)
                 \/ ReclaimExpiredLease(j, b, lag)
                 \/ RecoverStaleRunning(j, b, lag)
          PROVE  \A i \in JobIds : WritesWell(jobs[i], jobs'[i])
      BY <2>2, <2>4, <2>7, RetriedOrFailedKeeps
         DEF FailUnowned, ReclaimExpiredLease, RecoverStaleRunning
    <2> QED
      BY <2>1, <2>3, <2>5, <2>6, <2>7 DEF Recovering
  <1>8. CASE Environment
    <2>1. CASE Tick
      BY <1>1, <2>1 DEF Tick, Older, Row, WritesWell
    <2> QED
      BY <1>2, <1>8, <2>1 DEF Environment, SetSafeModeReason, Restart
  <1> QED
    BY <1>3, <1>4, <1>5, <1>6, <1>7, <1>8 DEF Next

\* Under formal leases a result or a checkpoint is written by the newest claim
\* of a running job and by nobody else, however late the call lands.
THEOREM LateWritesNothing ==
    ASSUME Modes = {TRUE}
    PROVE  Spec => NoLateWrite
  <1>1. IInv /\ FInv /\ [Next]_vars =>
          [\A j \in JobIds :
             /\ jobs'[j].result \notin {0, jobs[j].result} =>
                   jobs'[j].result = jobs[j].attempts
                     /\ jobs[j].status = "running"
             /\ jobs'[j].checkpoint \notin {0, jobs[j].checkpoint} =>
                   jobs'[j].checkpoint = jobs[j].attempts
                     /\ jobs[j].status = "running"]_vars
    BY StepWritesWell DEF WritesWell
  <1> QED
    BY <1>1, FencingInvariant, Inductive, PTL DEF Spec, NoLateWrite

\* Who may end a run: the newest claim, giving itself up; the lease reaper, once
\* the lease is over; an administrator.
EndsWell(i) ==
    jobs[i].status = "running" /\ jobs'[i].status # "running" =>
        \/ \E w \in Workers : /\ held[w] # NoClaim /\ held'[w] = NoClaim
                              /\ held[w].job = i
                              /\ held[w].att = jobs[i].attempts
        \/ jobs[i].lease # NoLease /\ jobs[i].lease <= 0
        \/ AdminAllowed /\ jobs'[i].status = "cancelled"

LEMMA StepEndsWell ==
    ASSUME Modes = {TRUE}, IInv, FInv, [Next]_vars, NEW i \in JobIds
    PROVE  EndsWell(i)
  <1>1. formal /\ jobs \in [JobIds -> Row] /\ GoodRow(jobs[i])
    BY FormalMode DEF IInv, MemoryOK, RowsOK
  <1>2. ASSUME NEW j \in JobIds, NEW r, jobs' = [jobs EXCEPT ![j] = r],
               jobs[j].status # "running" \/ r.status = "running"
        PROVE  EndsWell(i)
    BY <1>1, <1>2 DEF EndsWell
  <1>3. ASSUME jobs' = jobs
        PROVE  EndsWell(i)
    BY <1>3 DEF EndsWell
  <1>4. CASE UNCHANGED vars
    BY <1>3, <1>4 DEF vars
  <1>5. CASE Enqueuing
    BY <1>2, <1>3, <1>5 DEF Enqueuing, LookupKey, Insert
  <1>6. CASE Claiming
    <2>1. ASSUME NEW w \in Workers, NEW j \in JobIds, NEW lag \in Lags,
                 jobs[j].status \in Claimable, Take(w, j, lag)
          PROVE  EndsWell(i)
      BY <1>2, <2>1 DEF Take, Claimable
    <2>2. PICK w \in Workers :
            \/ ReadGate(w)
            \/ ClaimNothing(w)
            \/ \E lag \in Lags, ks \in (SUBSET Kinds) \ {{}} : ClaimNext(w, ks, lag)
            \/ \E lag \in Lags, j \in JobIds : ClaimById(w, j, lag)
      BY <1>6, Zenon DEF Claiming
    <2> QED
      BY <1>3, <2>1, <2>2 DEF ReadGate, ClaimNothing, ClaimNext, ClaimById, Due
  <1>7. CASE Executing
    <2>1. ASSUME NEW w \in Workers, NEW lag \in Lags,
                 \/ Complete(w, lag)
                 \/ \E retry \in BOOLEAN : Fail(w, retry, lag)
                 \/ Reschedule(w, lag)
                 \/ WaitForApproval(w, lag)
                 \/ WorkerCancel(w, lag)
                 \/ ReleaseLease(w, lag)
          PROVE  EndsWell(i)
      <3>1. Settles(w)
        BY <2>1, CallSettles
      <3>2. /\ held[w] # NoClaim
            /\ held' = [held EXCEPT ![w] = NoClaim]
        BY <2>1 DEF Complete, Fail, Reschedule, WaitForApproval, WorkerCancel,
             ReleaseLease, Close
      <3>3. held'[w] = NoClaim
        BY <3>2 DEF IInv, MemoryOK
      <3> QED
        BY <1>3, <3>1, <3>2, <3>3 DEF Settles, EndsWell
    <2>2. ASSUME NEW w \in Workers, NEW lag \in Lags,
                 HeartbeatLease(w, lag) \/ Checkpoint(w, lag)
          PROVE  EndsWell(i)
      <3>1. held[w].job \in JobIds
        BY <2>2 DEF HeartbeatLease, Checkpoint, IInv, MemoryOK, Claim
      <3>2. CASE HeartbeatLease(w, lag)
        BY <1>1, <3>1, <3>2 DEF HeartbeatLease, Row, EndsWell
      <3>3. CASE Checkpoint(w, lag)
        <4> DEFINE j == held[w].job
                   r == [jobs[j] EXCEPT !.checkpoint = held[w].att,
                           !.age = IF jobs[j].status \in TerminalStatuses THEN @
                                   ELSE lag]
        <4>1. jobs' = [jobs EXCEPT ![j] = r]
          BY <3>3 DEF Checkpoint
        <4>2. r.status = jobs[j].status
          BY <1>1, <3>1 DEF Row
        <4> HIDE DEF r
        <4> QED
          BY <1>2, <3>1, <4>1, <4>2
      <3> QED
        BY <2>2, <3>2, <3>3
    <2>3. ASSUME NEW w \in Workers, WorkerDies(w)
          PROVE  EndsWell(i)
      BY <1>3, <2>3 DEF WorkerDies
    <2> QED
      BY <1>7, <2>1, <2>2, <2>3, Zenon DEF Executing
  <1>8. CASE Administering
    <2>1. PICK j \in JobIds :
            \/ PruneTerminal(j)
            \/ \E lag \in Lags :
                 \/ Cancel(j, lag)
                 \/ AdminForceCancel(j, lag)
                 \/ RequestCancel(j, lag)
                 \/ \E b \in BOOLEAN : \/ FailUnowned(j, b, lag)
                                       \/ Recovering(j, b, lag)
      BY <1>8, Zenon DEF Administering
    <2>2. CASE PruneTerminal(j)
      BY <1>2, <2>2 DEF PruneTerminal, TerminalStatuses
    <2>3. ASSUME NEW lag \in Lags, AdminForceCancel(j, lag)
          PROVE  EndsWell(i)
      <3>1. Unleased(jobs[j], "cancelled", lag).status = "cancelled"
        BY <1>1 DEF Unleased, Row
      <3> QED
        BY <1>1, <2>3, <3>1 DEF AdminForceCancel, EndsWell
    <2>4. ASSUME NEW lag \in Lags, RequestCancel(j, lag)
          PROVE  EndsWell(i)
      BY <1>1, <2>4 DEF RequestCancel, Row, EndsWell
    <2>5. ASSUME NEW lag \in Lags, NEW b \in BOOLEAN,
                 ReclaimExpiredLease(j, b, lag)
          PROVE  EndsWell(i)
      <3>1. lag \in Nat
        BY ConstantsAssumption DEF Lags
      <3>2. jobs[j].lease \in Int /\ jobs[j].lease <= 0
        BY <1>1, <2>5, <3>1 DEF ReclaimExpiredLease, Row
      <3> QED
        BY <1>1, <2>5, <3>2 DEF ReclaimExpiredLease, EndsWell
    <2>6. ASSUME NEW lag \in Lags, NEW b \in BOOLEAN,
                 Cancel(j, lag) \/ FailUnowned(j, b, lag)
                   \/ RecoverStaleRunning(j, b, lag)
          PROVE  FALSE
      BY <1>1, <2>6 DEF Cancel, FailUnowned, RecoverStaleRunning
    <2> QED
      BY <2>1, <2>2, <2>3, <2>4, <2>5, <2>6 DEF Recovering
  <1>9. CASE Environment
    <2>1. CASE Tick
      <3>1. jobs'[i] = Older(jobs[i])
        BY <2>1 DEF Tick
      <3> QED
        BY <1>1, <3>1, OlderKept DEF Kept, EndsWell
    <2> QED
      BY <1>3, <1>9, <2>1 DEF Environment, SetSafeModeReason, Restart
  <1> QED
    BY <1>4, <1>5, <1>6, <1>7, <1>8, <1>9 DEF Next

\* A run is ended by its own claim, by the lease reaper after the lease is over,
\* or by an administrator.
THEOREM RunsEndInTime ==
    ASSUME Modes = {TRUE}
    PROVE  Spec => FreedOnlyAfterExpiry
  <1>1. IInv /\ FInv /\ [Next]_vars =>
          [\A j \in JobIds :
             jobs[j].status = "running" /\ jobs'[j].status # "running" =>
                 \/ \E w \in Workers : /\ held[w] # NoClaim /\ held'[w] = NoClaim
                                       /\ held[w].job = j
                                       /\ held[w].att = jobs[j].attempts
                 \/ jobs[j].lease # NoLease /\ jobs[j].lease <= 0
                 \/ AdminAllowed /\ jobs'[j].status = "cancelled"]_vars
    BY StepEndsWell DEF EndsWell
  <1> QED
    BY <1>1, FencingInvariant, Inductive, PTL DEF Spec, FreedOnlyAfterExpiry

-----------------------------------------------------------------------------
(* The registry implements the queue of module JobQueue. *)

\* What may happen to the status of a row under formal leases: only the end of
\* a run completes, requeues, parks or fails a job.
MovesWell(i) ==
    \/ jobs'[i].status = jobs[i].status
    \/ jobs'[i].status \in {"running", "cancelled", "deleted"}
    \/ jobs[i].status = "unborn"
    \/ /\ jobs[i].status = "running"
       /\ jobs'[i].status = "completed" => jobs'[i].result = jobs[i].attempts

LEMMA CallMovesWell ==
    ASSUME Modes = {TRUE}, IInv, FInv, NEW w \in Workers, NEW lag \in Lags,
           NEW i \in JobIds,
           \/ Complete(w, lag)
           \/ \E retry \in BOOLEAN : Fail(w, retry, lag)
           \/ Reschedule(w, lag)
           \/ WaitForApproval(w, lag)
           \/ WorkerCancel(w, lag)
           \/ ReleaseLease(w, lag)
    PROVE  MovesWell(i)
  <1>1. Settles(w)
    BY CallSettles
  <1> QED
    BY <1>1 DEF Settles, MovesWell

LEMMA StepMovesWell ==
    ASSUME Modes = {TRUE}, IInv, FInv, [Next]_vars, NEW i \in JobIds
    PROVE  MovesWell(i)
  <1>1. formal /\ jobs \in [JobIds -> Row] /\ GoodRow(jobs[i])
    BY FormalMode DEF IInv, MemoryOK, RowsOK
  <1>2. ASSUME NEW j \in JobIds, NEW r, jobs' = [jobs EXCEPT ![j] = r],
               \/ r.status = jobs[j].status
               \/ r.status \in {"running", "cancelled", "deleted"}
               \/ jobs[j].status = "unborn"
               \/ jobs[j].status = "running" /\ r.status # "completed"
        PROVE  MovesWell(i)
    BY <1>1, <1>2 DEF MovesWell
  <1>3. ASSUME jobs' = jobs
        PROVE  MovesWell(i)
    BY <1>3 DEF MovesWell
  <1>4. CASE UNCHANGED vars
    BY <1>3, <1>4 DEF vars
  <1>5. CASE Enqueuing
    BY <1>2, <1>3, <1>5 DEF Enqueuing, LookupKey, Insert
  <1>6. CASE Claiming
    <2>1. ASSUME NEW w \in Workers, NEW j \in JobIds, NEW lag \in Lags,
                 jobs[j].status \in Claimable, Take(w, j, lag)
          PROVE  MovesWell(i)
      <3>1. Claimed(jobs[j], w, lag).status = "running"
        BY <2>1, ClaimedGranted DEF Granted, IInv, MemoryOK, RowsOK
      <3>2. jobs' = [jobs EXCEPT ![j] = Claimed(jobs[j], w, lag)]
        BY <2>1 DEF Take
      <3> QED
        BY <1>2, <3>1, <3>2
    <2>2. PICK w \in Workers :
            \/ ReadGate(w)
            \/ ClaimNothing(w)
            \/ \E lag \in Lags, ks \in (SUBSET Kinds) \ {{}} : ClaimNext(w, ks, lag)
            \/ \E lag \in Lags, j \in JobIds : ClaimById(w, j, lag)
      BY <1>6, Zenon DEF Claiming
    <2> QED
      BY <1>3, <2>1, <2>2 DEF ReadGate, ClaimNothing, ClaimNext, ClaimById, Due
  <1>7. CASE Executing
    <2>1. ASSUME NEW w \in Workers, NEW lag \in Lags, HeartbeatLease(w, lag)
          PROVE  MovesWell(i)
      <3>1. held[w].job \in JobIds
        BY <2>1 DEF HeartbeatLease, IInv, MemoryOK, Claim
      <3>2. jobs'[i].status = jobs[i].status
        BY <1>1, <2>1, <3>1 DEF HeartbeatLease, Row
      <3> QED
        BY <3>2 DEF MovesWell
    <2>2. ASSUME NEW w \in Workers, NEW lag \in Lags, Checkpoint(w, lag)
          PROVE  MovesWell(i)
      <3> DEFINE j == held[w].job
                 r == [jobs[j] EXCEPT !.checkpoint = held[w].att,
                         !.age = IF jobs[j].status \in TerminalStatuses THEN @
                                 ELSE lag]
      <3>1. j \in JobIds
        BY <2>2 DEF Checkpoint, IInv, MemoryOK, Claim
      <3>2. jobs' = [jobs EXCEPT ![j] = r]
        BY <2>2 DEF Checkpoint
      <3>3. r.status = jobs[j].status
        BY <1>1, <3>1 DEF Row
      <3> HIDE DEF j, r
      <3> QED
        BY <1>2, <3>1, <3>2, <3>3
    <2>3. ASSUME NEW w \in Workers, WorkerDies(w)
          PROVE  MovesWell(i)
      BY <1>3, <2>3 DEF WorkerDies
    <2> QED
      BY <1>7, <2>1, <2>2, <2>3, CallMovesWell, Zenon DEF Executing
  <1>8. CASE Administering
    <2>1. PICK j \in JobIds :
            \/ PruneTerminal(j)
            \/ \E lag \in Lags :
                 \/ Cancel(j, lag)
                 \/ AdminForceCancel(j, lag)
                 \/ RequestCancel(j, lag)
                 \/ \E b \in BOOLEAN : \/ FailUnowned(j, b, lag)
                                       \/ Recovering(j, b, lag)
      BY <1>8, Zenon DEF Administering
    <2>2. jobs[j] \in Row /\ GoodRow(jobs[j])
      BY DEF IInv, RowsOK
    <2>3. CASE PruneTerminal(j)
      <3>1. [EmptyRow EXCEPT !.status = "deleted"].status = "deleted"
        BY DEF EmptyRow
      <3> QED
        BY <1>2, <2>3, <3>1 DEF PruneTerminal
    <2>4. ASSUME NEW lag \in Lags, AdminForceCancel(j, lag)
          PROVE  MovesWell(i)
      <3>1. Unleased(jobs[j], "cancelled", lag).status = "cancelled"
        BY <2>2 DEF Unleased, Row
      <3> QED
        BY <1>2, <2>4, <3>1 DEF AdminForceCancel
    <2>5. ASSUME NEW lag \in Lags, RequestCancel(j, lag)
          PROVE  MovesWell(i)
      <3>1. jobs'[i].status = jobs[i].status
        BY <1>1, <2>5 DEF RequestCancel, Row
      <3> QED
        BY <3>1 DEF MovesWell
    <2>6. ASSUME NEW lag \in Lags, NEW b \in BOOLEAN,
                 ReclaimExpiredLease(j, b, lag)
          PROVE  MovesWell(i)
      <3> DEFINE r == RetriedOrFailed(jobs[j], ~b, 0, lag)
      <3>1. r.status # "completed"
        BY <2>2 DEF RetriedOrFailed, Requeued, Unleased, Row
      <3>2. jobs' = [jobs EXCEPT ![j] = r] /\ jobs[j].status = "running"
        BY <2>6 DEF ReclaimExpiredLease
      <3> HIDE DEF r
      <3> QED
        BY <1>2, <3>1, <3>2
    <2>7. ASSUME NEW lag \in Lags, NEW b \in BOOLEAN,
                 Cancel(j, lag) \/ FailUnowned(j, b, lag)
                   \/ RecoverStaleRunning(j, b, lag)
          PROVE  FALSE
      BY <1>1, <2>7 DEF Cancel, FailUnowned, RecoverStaleRunning
    <2> QED
      BY <2>1, <2>3, <2>4, <2>5, <2>6, <2>7 DEF Recovering
  <1>9. CASE Environment
    <2>1. CASE Tick
      <3>1. jobs'[i] = Older(jobs[i])
        BY <2>1 DEF Tick
      <3> QED
        BY <1>1, <3>1, OlderKept DEF Kept, MovesWell
    <2> QED
      BY <1>3, <1>9, <2>1 DEF Environment, SetSafeModeReason, Restart
  <1> QED
    BY <1>4, <1>5, <1>6, <1>7, <1>8, <1>9 DEF Next

LEMMA QueueStates ==
    /\ \A s \in Claimable : QueueState(s) = "ready"
    /\ \A s \in TerminalStatuses \cup {"running"} : QueueState(s) = s
    /\ QueueState("waiting_approval") = "parked"
    /\ QueueState("unborn") = "absent"
    /\ QueueState("deleted") = "gone"
  BY DEF QueueState, Claimable, TerminalStatuses

QState == [j \in JobIds |-> QueueState(jobs[j].status)]
QEpoch == [j \in JobIds |-> jobs[j].attempts]
QAuthor == [j \in JobIds |-> jobs[j].result]

LEMMA MappedChange ==
    ASSUME NEW i \in JobIds, \A j \in JobIds \ {i} : jobs'[j] = jobs[j]
    PROVE  /\ QState' = [QState EXCEPT ![i] = QueueState(jobs'[i].status)]
           /\ QEpoch' = [QEpoch EXCEPT ![i] = jobs'[i].attempts]
           /\ QAuthor' = [QAuthor EXCEPT ![i] = jobs'[i].result]
           /\ QState[i] = QueueState(jobs[i].status)
           /\ QEpoch[i] = jobs[i].attempts
           /\ QAuthor[i] = jobs[i].result
  BY DEF QState, QEpoch, QAuthor

LEMMA StepRefines ==
    ASSUME Modes = {TRUE}, IInv, FInv, [Next]_vars
    PROVE  [Queue!QueueNext]_(Queue!queueVars)
  <1>1. CASE AllKept
    BY <1>1 DEF AllKept, Kept, Queue!queueVars
  <1>2. CASE OneChange
    <2>1. PICK i : /\ Change(jobs[i], jobs'[i])
                   /\ \A j \in JobIds \ {i} : jobs'[j] = jobs[j]
      BY <1>2 DEF OneChange
    <2>2. CASE i \notin JobIds
      <3>1. AllKept
        BY <2>1, <2>2 DEF AllKept, Kept
      <3> QED
        BY <1>1, <3>1
    <2>3. CASE i \in JobIds
      <3> DEFINE r == jobs[i]
                 q == jobs'[i]
                 S == QState
                 E == QEpoch
                 A == QAuthor
      <3>0. /\ Queue!Add(i) <=>
                 /\ S[i] \in {"absent"} /\ S' = [S EXCEPT ![i] = "ready"]
                 /\ E' = [E EXCEPT ![i] = 0] /\ A' = [A EXCEPT ![i] = 0]
            /\ Queue!Grant(i) <=>
                 /\ S[i] \in {"ready"} /\ S' = [S EXCEPT ![i] = "running"]
                 /\ E' = [E EXCEPT ![i] = @ + 1] /\ A' = A
            /\ Queue!Finish(i) <=>
                 /\ S[i] \in {"running"} /\ S' = [S EXCEPT ![i] = "completed"]
                 /\ A' = [A EXCEPT ![i] = E[i]] /\ E' = E
            /\ Queue!Return(i) <=>
                 /\ S[i] \in {"running"} /\ S' = [S EXCEPT ![i] = "ready"]
                 /\ E' = E /\ A' = A
            /\ Queue!Park(i) <=>
                 /\ S[i] \in {"running"} /\ S' = [S EXCEPT ![i] = "parked"]
                 /\ E' = E /\ A' = A
            /\ Queue!GiveUp(i) <=>
                 /\ S[i] \in {"running"} /\ S' = [S EXCEPT ![i] = "failed"]
                 /\ E' = E /\ A' = A
            /\ Queue!Withdraw(i) <=>
                 /\ S[i] \in {"ready", "parked"} \cup {"running"}
                 /\ S' = [S EXCEPT ![i] = "cancelled"]
                 /\ E' = E /\ A' = A
            /\ Queue!Forget(i) <=>
                 /\ S[i] \in {"completed", "failed", "cancelled"}
                 /\ S' = [S EXCEPT ![i] = "gone"]
                 /\ E' = [E EXCEPT ![i] = 0] /\ A' = [A EXCEPT ![i] = 0]
        BY DEF QState, QEpoch, QAuthor, Queue!Add, Queue!Grant, Queue!Finish,
               Queue!Return, Queue!Park, Queue!GiveUp, Queue!Withdraw,
               Queue!Forget, Queue!Move, Queue!Waiting, Queue!Settled
      <3>1. /\ S' = [S EXCEPT ![i] = QueueState(q.status)]
            /\ E' = [E EXCEPT ![i] = q.attempts]
            /\ A' = [A EXCEPT ![i] = q.result]
            /\ S[i] = QueueState(r.status) /\ E[i] = r.attempts
            /\ A[i] = r.result
        BY <2>1, <2>3, MappedChange
      <3>2. /\ QueueState(q.status) = S[i] => S' = S
            /\ q.attempts = E[i] => E' = E
            /\ q.result = A[i] => A' = A
        BY <3>1 DEF QState, QEpoch, QAuthor
      <3>3. S' = S /\ E' = E /\ A' = A => UNCHANGED Queue!queueVars
        BY DEF Queue!queueVars, QState, QEpoch, QAuthor
      <3> HIDE DEF S, E, A
      <3>4. MovesWell(i)
        BY <2>3, StepMovesWell
      <3>5. CASE Granted(r, q)
        <4>1. Queue!Grant(i)
          BY <3>0, <3>1, <3>2, <3>5, QueueStates DEF Granted
        <4> QED
          BY <2>3, <4>1 DEF Queue!QueueNext
      <3>6. CASE Left(r, q)
        <4>1. E' = E /\ A' = A
          BY <3>1, <3>2, <3>6 DEF Left
        <4>2. CASE q.status = r.status
          BY <3>1, <3>2, <3>3, <4>1, <4>2
        <4>3. CASE q.status = "cancelled"
          <5>1. S[i] \in {"ready", "parked"} \cup {"running"}
            BY <3>1, <3>6, QueueStates DEF Left, ActiveStatuses
          <5>2. Queue!Withdraw(i)
            BY <3>0, <3>1, <4>1, <4>3, <5>1, QueueStates DEF TerminalStatuses
          <5> QED
            BY <2>3, <5>2 DEF Queue!QueueNext
        <4>4. CASE r.status = "running" /\ q.status # "cancelled"
          <5>1. S[i] = "running"
            BY <3>1, <4>4, QueueStates
          <5>2. CASE q.status \in Claimable
            <6>1. Queue!Return(i)
              BY <3>0, <3>1, <4>1, <5>1, <5>2, QueueStates
            <6> QED
              BY <2>3, <6>1 DEF Queue!QueueNext
          <5>3. CASE q.status = "waiting_approval"
            <6>1. Queue!Park(i)
              BY <3>0, <3>1, <4>1, <5>1, <5>3, QueueStates
            <6> QED
              BY <2>3, <6>1 DEF Queue!QueueNext
          <5>4. CASE q.status = "failed"
            <6>1. Queue!GiveUp(i)
              BY <3>0, <3>1, <4>1, <5>1, <5>4, QueueStates DEF TerminalStatuses
            <6> QED
              BY <2>3, <6>1 DEF Queue!QueueNext
          <5> QED
            BY <3>6, <4>4, <5>2, <5>3, <5>4 DEF Left, ActiveStatuses,
                                                TerminalStatuses
        <4> QED
          BY <3>4, <3>6, <4>2, <4>3, <4>4 DEF MovesWell, Left, ActiveStatuses,
               TerminalStatuses, Claimable
      <3>7. CASE Done(r, q)
        <4>1. r.status = "running" /\ q.result = r.attempts
          BY <3>4, <3>7 DEF MovesWell, Done, ActiveStatuses, Claimable
        <4>2. Queue!Finish(i)
          BY <3>0, <3>1, <3>2, <3>7, <4>1, QueueStates DEF Done, TerminalStatuses
        <4> QED
          BY <2>3, <4>2 DEF Queue!QueueNext
      <3>8. CASE Gone(r, q)
        <4>1. Queue!Forget(i)
          BY <3>0, <3>1, <3>8, QueueStates DEF Gone, TerminalStatuses
        <4> QED
          BY <2>3, <4>1 DEF Queue!QueueNext
      <3>9. CASE Born(r, q)
        <4>1. Queue!Add(i)
          BY <3>0, <3>1, <3>9, QueueStates DEF Born, Claimable
        <4> QED
          BY <2>3, <4>1 DEF Queue!QueueNext
      <3> QED
        BY <2>1, <3>5, <3>6, <3>7, <3>8, <3>9 DEF Change
    <2> QED
      BY <2>2, <2>3
  <1> QED
    BY <1>1, <1>2, StepLemma

\* Under formal leases every behaviour of the registry, whatever its threads,
\* crashes, clocks and retries do, is a behaviour of the abstract queue.
THEOREM Refinement ==
    ASSUME Modes = {TRUE}
    PROVE  Spec => ImplementsQueue
  <1>1. Init => Queue!QueueInit
    <2>1. QueueState("unborn") = "absent"
      BY QueueStates
    <2> QED
      BY <2>1 DEF Init, EmptyRow, Queue!QueueInit
  <1>2. IInv /\ FInv /\ [Next]_vars => [Queue!QueueNext]_(Queue!queueVars)
    BY StepRefines
  <1> QED
    BY <1>1, <1>2, FencingInvariant, Inductive, PTL
       DEF Spec, ImplementsQueue, Queue!QueueSpec

=============================================================================

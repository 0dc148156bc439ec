-------------------------- MODULE EventStreamProofs --------------------------
(***************************************************************************)
(* Theorems about EventStream, for any number of threads, events and       *)
(* replaced logs and both kinds of sink: what a replaced log costs is      *)
(* bounded, a drain marker vouches for its row, an event is stored at most *)
(* once, and the stream implements the log of EventLog.                    *)
(***************************************************************************)
EXTENDS EventStream, FiniteSetTheorems, SequenceTheorems, TLAPS

-----------------------------------------------------------------------------
(* The database, whoever uses it. *)

DbTyped ==
    /\ conn \in Nat /\ disk \in Nat \ {0} /\ stamp \in Nat
    /\ pending \in BOOLEAN /\ blind \in BOOLEAN
    /\ depth \in Nat
    /\ swaps \in Nat /\ voids \in Nat /\ missed \in Nat
    /\ table \in [Writes -> Nat]

\* The stamp is that of the log which the connection writes to.
Joined == conn # Closed => stamp = conn

\* A reconnect runs between transactions, with the flag set until it ends.
Nested == depth > 0 => pending /\ txn = {}

\* Transactions that may still be lost when the running reconnect has ended,
\* which clears the flag although the log may have been replaced again.
Owed == IF conn \in {disk, Closed} THEN 0
        ELSE IF pending /\ depth = 0 THEN (IF InTransaction THEN 1 ELSE 0)
        ELSE IF Committing THEN 2 ELSE 1

DbInv == /\ DbTyped /\ Joined /\ Nested
         /\ voids + Owed <= 2 * swaps + missed

\* What the threads do to the database.  Only a statement leads to a commit, and
\* the commit ends it.
DbStep ==
    \/ \E t \in Threads :
         \/ \E w : Execute(t, w)
         \/ Commit(t) /\ Committing /\ ~Committing'
    \/ SwapLog \/ DbRestart
    \/ /\ Committing' => Committing
       /\ \/ UNCHANGED <<file, table, fate>> /\ txn' \in {txn, {}}
          \/ \E t \in Threads : \/ Query(t) \/ StatementFails(t)
                                \/ Healing(t) \/ HealPersistentLock(t)

LEMMA ExecuteKeeps ==
    ASSUME DbInv, NEW t, NEW w, Execute(t, w)
    PROVE  DbInv'
  <1>1. /\ conn # Closed /\ depth = 0 /\ ~MustReconnect
        /\ txn' = txn \cup {w} /\ blind' = FALSE
        /\ UNCHANGED <<conn, disk, depth, table, swaps, voids>>
    BY DEF Execute, Operational
  <1>2. \/ pending' = (pending \/ Orphaned) /\ stamp' = stamp /\ missed' = missed
        \/ /\ UNCHANGED <<pending, stamp>>
           /\ missed' = IF Orphaned /\ ~pending THEN missed + 1 ELSE missed
    BY DEF Execute, DriftCheck, LooksLikeRead
  <1>3. Joined' /\ Nested'
    BY <1>1, <1>2 DEF DbInv, DbTyped, Joined, Nested
  <1>5. pending' \in BOOLEAN
    BY <1>2 DEF DbInv, DbTyped
  <1>6. missed' \in Nat /\ stamp' = stamp
    BY <1>2 DEF DbInv, DbTyped
  <1>7. DbTyped'
    BY <1>1, <1>5, <1>6 DEF DbInv, DbTyped
  <1>4. voids' + Owed' <= 2 * swaps' + missed'
    <2>1. InTransaction'
      BY <1>1 DEF InTransaction
    <2>2. Orphaned <=> conn # disk
      BY <1>1 DEF DbInv, Joined, Orphaned
    <2>3. pending => InTransaction
      BY <1>1 DEF MustReconnect
    <2> QED
      <3>1. CASE conn = disk
        BY <1>1, <1>2, <1>6, <2>2, <3>1 DEF DbInv, DbTyped, Owed
      <3>2. CASE conn # disk /\ pending
        BY <1>1, <1>2, <2>1, <2>2, <2>3, <3>2 DEF DbInv, DbTyped, Owed
      <3>3. CASE conn # disk /\ ~pending
        <4>1. Owed = IF Committing THEN 2 ELSE 1
          BY <1>1, <3>3 DEF Owed
        <4>2. \/ pending' /\ missed' = missed
              \/ ~pending' /\ missed' = missed + 1
          BY <1>2, <2>2, <3>3
        <4>3. Owed' \in Nat /\ Owed' <= IF pending' THEN 1 ELSE 2
          BY <1>1, <2>1, <3>3 DEF Owed
        <4> QED
          BY <1>1, <4>1, <4>2, <4>3 DEF DbInv, DbTyped
      <3> QED
        BY <3>1, <3>2, <3>3
  <1> QED
    BY <1>3, <1>4, <1>7 DEF DbInv

LEMMA CommitKeeps ==
    ASSUME DbInv, NEW t, Commit(t), Committing, ~Committing'
    PROVE  DbInv'
  <1>1. /\ conn # Closed /\ depth = 0 /\ InTransaction /\ txn' = {}
        /\ UNCHANGED <<conn, disk, stamp, pending, blind, depth, swaps, missed>>
        /\ voids' = IF conn = disk THEN voids ELSE voids + 1
    BY DEF Commit, Operational, file
  <1>2. table' \in [Writes -> Nat]
    BY DEF DbInv, DbTyped, Commit
  <1>3. DbTyped' /\ Joined' /\ Nested'
    BY <1>1, <1>2 DEF DbInv, DbTyped, Joined, Nested
  <1>4. ~InTransaction'
    BY <1>1 DEF InTransaction
  <1>5. voids' + Owed' <= 2 * swaps' + missed'
    BY <1>1, <1>4 DEF DbInv, DbTyped, Owed
  <1> QED
    BY <1>3, <1>5 DEF DbInv

\* A rollback, or nothing at all; past the entry of an operation, a transaction
\* that is left open.
LEMMA RollbackKeeps ==
    ASSUME DbInv, UNCHANGED <<file, table, fate>>, Committing' => Committing,
           txn' \in {txn, {}} \/ (depth = 0 /\ ~MustReconnect)
    PROVE  DbInv'
  <1>1. DbTyped' /\ Joined' /\ Nested'
    BY DEF DbInv, DbTyped, Joined, Nested, file, fate
  <1>2. InTransaction' => InTransaction \/ ~pending
    BY DEF InTransaction, MustReconnect
  <1>3. voids' + Owed' <= 2 * swaps' + missed'
    BY <1>2 DEF DbInv, DbTyped, Owed, file, fate
  <1> QED
    BY <1>1, <1>3 DEF DbInv

\* A connection that is joined anew, or gone, owes nothing.
LEMMA JoinKeeps ==
    ASSUME DbInv, UNCHANGED <<disk, table, swaps, voids, missed>>,
           blind' \in BOOLEAN, pending' \in BOOLEAN,
           \/ conn' = disk /\ stamp' = disk
           \/ conn' = Closed /\ UNCHANGED stamp,
           depth' \in Nat, depth' > 0 => pending', txn' = {}
    PROVE  DbInv'
  <1>1. DbTyped' /\ Joined' /\ Nested'
    BY DEF DbInv, DbTyped, Joined, Nested, Closed
  <1>2. Owed' = 0
    BY DEF Owed
  <1>3. Owed \in Nat
    BY DEF Owed
  <1> QED
    BY <1>1, <1>2, <1>3 DEF DbInv, DbTyped

LEMMA HealingKeeps ==
    ASSUME DbInv, NEW t, Healing(t) \/ HealPersistentLock(t), Committing' => Committing
    PROVE  DbInv'
  <1>1. CASE ReconnectAfterSwap(t)
    <2>1. /\ UNCHANGED <<disk, table, pending, swaps, voids, missed>> /\ pending
          /\ conn' = disk /\ stamp' = disk /\ blind' = FALSE
          /\ depth' = depth + 1 /\ txn' = {}
      BY <1>1 DEF ReconnectAfterSwap, MustReconnect, fate
    <2>2. depth' \in Nat /\ pending' \in BOOLEAN /\ pending'
      BY <2>1 DEF DbInv, DbTyped
    <2> QED
      BY <2>1, <2>2, JoinKeeps
  <1>2. CASE ReconnectFails(t)
    <2>1. /\ UNCHANGED <<disk, stamp, pending, blind, depth, table, swaps, voids, missed>>
          /\ conn' = Closed /\ depth = 0 /\ txn' = {}
      BY <1>2 DEF ReconnectFails, fate
    <2>2. blind' \in BOOLEAN /\ pending' \in BOOLEAN /\ depth' = 0
      BY <2>1 DEF DbInv, DbTyped
    <2> QED
      BY <2>1, <2>2, JoinKeeps
  <1>3. CASE HealPersistentLock(t)
    <2>1. /\ UNCHANGED <<disk, pending, depth, table, swaps, voids, missed>>
          /\ conn' = disk /\ stamp' = disk /\ blind' \in BOOLEAN
          /\ depth = 0 /\ txn' = {}
      BY <1>3 DEF HealPersistentLock, Operational, fate
    <2>2. pending' \in BOOLEAN /\ depth' = 0
      BY <2>1 DEF DbInv, DbTyped
    <2> QED
      BY <2>1, <2>2, JoinKeeps
  <1>4. CASE SinkEnds(t)
    <2>1. /\ depth > 0 /\ pending' = FALSE /\ depth' = 0
          /\ UNCHANGED <<disk, stamp, blind, txn, table, swaps, voids, missed>>
          /\ conn' = conn \/ conn' = Closed
      BY <1>4 DEF SinkEnds, fate
    <2>2. txn = {}
      BY <2>1 DEF DbInv, Nested
    <2>3. CASE conn' = Closed
      <3>1. blind' \in BOOLEAN /\ pending' \in BOOLEAN /\ depth' \in Nat /\ txn' = {}
        BY <2>1, <2>2 DEF DbInv, DbTyped
      <3> QED
        BY <2>1, <2>3, <3>1, JoinKeeps
    <2>4. CASE conn' = conn
      <3>1. /\ DbTyped'
            /\ Joined'
            /\ Nested'
        <4>1. DbTyped'
          BY <2>1, <2>4 DEF DbInv, DbTyped
        <4>2. Joined'
          BY <2>1, <2>4 DEF DbInv, Joined
        <4>3. Nested'
          BY <2>1 DEF Nested
        <4> QED
          BY <4>1, <4>2, <4>3
      <3>2. Owed' <= Owed /\ Owed \in Nat /\ Owed' \in Nat
        BY <2>1, <2>2, <2>4 DEF Owed, InTransaction, DbInv, DbTyped
      <3> QED
        <4> DEFINE old == Owed
                   new == Owed'
        <4>1. /\ old \in Nat /\ new \in Nat /\ new <= old /\ voids + old <= 2 * swaps + missed
              /\ swaps \in Nat /\ voids \in Nat /\ missed \in Nat
          BY <3>2 DEF DbInv, DbTyped
        <4> HIDE DEF old, new
        <4>2. voids + new <= 2 * swaps + missed
          BY <4>1
        <4>3. voids' + Owed' <= 2 * swaps' + missed'
          BY <2>1, <4>2 DEF new
        <4> QED
          BY <3>1, <4>3 DEF DbInv
    <2> QED
      BY <2>1, <2>3, <2>4
  <1> QED
    BY <1>1, <1>2, <1>3, <1>4 DEF Healing

LEMMA SwapKeeps ==
    ASSUME DbInv, SwapLog
    PROVE  DbInv'
  <1>1. /\ disk' = disk + 1 /\ swaps' = swaps + 1
        /\ UNCHANGED <<conn, stamp, pending, blind, depth, txn, table, voids, missed>>
    BY DEF SwapLog
  <1>2. DbTyped' /\ Joined' /\ Nested'
    BY <1>1 DEF DbInv, DbTyped, Joined, Nested
  <1>3. Owed' <= Owed + 2
    BY <1>1 DEF Owed, InTransaction
  <1>4. Owed \in Nat
    BY DEF Owed
  <1>5. Owed' \in Nat
    BY DEF Owed
  <1>6. /\ swaps \in Nat /\ voids \in Nat /\ missed \in Nat
        /\ voids + Owed <= 2 * swaps + missed
    BY DEF DbInv, DbTyped
  <1>7. voids' + Owed' <= 2 * swaps' + missed'
    <2> DEFINE old == Owed
               new == Owed'
    <2>1. new <= old + 2 /\ old \in Nat /\ new \in Nat /\ voids + old <= 2 * swaps + missed
      BY <1>3, <1>4, <1>5, <1>6
    <2> HIDE DEF old, new
    <2>2. voids + new <= 2 * (swaps + 1) + missed
      BY <1>6, <2>1
    <2> QED
      BY <1>1, <2>2 DEF new
  <1> QED
    BY <1>2, <1>7 DEF DbInv

LEMMA DbStepKeeps ==
    ASSUME DbInv, DbStep
    PROVE  DbInv'
  <1>1. CASE /\ Committing' => Committing
             /\ UNCHANGED <<file, table, fate>> /\ txn' \in {txn, {}}
    BY <1>1, RollbackKeeps
  <1>2. CASE SwapLog
    BY <1>2, SwapKeeps
  <1>3. CASE DbRestart
    <2>1. /\ UNCHANGED <<disk, table, swaps, voids, missed>>
          /\ conn' = disk /\ stamp' = disk /\ blind' = FALSE /\ pending' = FALSE
          /\ depth' = 0 /\ txn' = {}
      BY <1>3 DEF DbRestart, fate
    <2>2. blind' \in BOOLEAN /\ pending' \in BOOLEAN
      BY <2>1, Zenon
    <2>3. depth' \in Nat /\ ~(depth' > 0)
      BY <2>1
    <2> QED
      BY <2>1, <2>2, <2>3, JoinKeeps
  <1>4. ASSUME NEW t, Query(t) \/ StatementFails(t), Committing' => Committing
        PROVE  DbInv'
    BY <1>4, RollbackKeeps DEF Query, StatementFails, Operational
  <1> QED
    BY <1>1, <1>2, <1>3, <1>4, ExecuteKeeps, CommitKeeps, HealingKeeps DEF DbStep

-----------------------------------------------------------------------------
(* The stream. *)

\* Between taking the lock and giving it back.
Inside == {"query", "insert", "mark", "commit"}

Locking == /\ pc \in [Threads -> Steps]
           /\ \A t \in Threads : pc[t] \in Inside => lock = t
           /\ \A t \in Threads : pc[t] = "mark" => t = Drainer

\* The row is written before its marker, in one transaction.
Whole == /\ pc[Drainer] = "mark" => Row(Subject(Drainer)) \in txn
         /\ \A e \in Events : Marker(e) \in txn => Row(e) \in txn

StreamInv == Locking /\ Whole /\ MarkedIsStored

IInv == DbInv /\ StreamInv

-----------------------------------------------------------------------------
(* What the steps of a thread have in common. *)

LEMMA ThreadsAre == Drainer \in Threads /\ NoThread \notin Threads
  BY EventAssumption, RuntimeDbAssumption

\* The line of the drain stays.
LineStays == UNCHANGED <<snapshot, line>>

\* An abandoned write sends its thread out of the database.
LEMMA AbandonsGoes ==
    ASSUME NEW t \in Threads, Abandons(t)
    PROVE  \E s \in Steps \ Inside : Goto(t, s) /\ (t = Drainer \/ LineStays)
  <1>1. CASE t = Drainer
    BY <1>1 DEF Abandons, NextLine, Steps, Inside
  <1>2. CASE t # Drainer
    BY <1>2 DEF Abandons, Steps, Inside, LineStays, drainVars
  <1> QED
    BY <1>1, <1>2

\* A thread that is not at the database, or whose step leaves it there.
LEMMA LockingKept ==
    ASSUME Locking, NEW t \in Threads, NEW s \in Steps, Goto(t, s),
           s = "mark" => t = Drainer,
           s \in Inside => lock' = t,
           lock' = lock \/ (lock = NoThread /\ lock' = t) \/ (lock = t /\ lock' = NoThread)
    PROVE  Locking'
  <1>1. pc' \in [Threads -> Steps]
    BY DEF Locking, Goto
  <1>2. ASSUME NEW u \in Threads, pc'[u] \in Inside
        PROVE  lock' = u
    <2>1. CASE u = t
      BY <1>2, <2>1 DEF Locking, Goto
    <2>2. CASE u # t
      BY <1>2, <2>2, RuntimeDbAssumption DEF Locking, Goto
    <2> QED
      BY <2>1, <2>2
  <1>3. ASSUME NEW u \in Threads, pc'[u] = "mark"
        PROVE  u = Drainer
    BY <1>3 DEF Locking, Goto
  <1> QED
    BY <1>1, <1>2, <1>3 DEF Locking

\* The writes that are followed.
Followed(writes) == writes \ {Other}

\* The writes of the events are.
LEMMA FollowedAre ==
    ASSUME NEW e \in Events
    PROVE  Row(e) \in Writes /\ Marker(e) \in Writes /\ Row(e) # Other /\ Marker(e) # Other
  BY EventAssumption, RuntimeDbAssumption

\* A step that writes no row and no marker keeps what the drain relies on.
LEMMA WholeKept ==
    ASSUME Whole, MarkedIsStored, UNCHANGED table,
           Followed(txn') \in {Followed(txn), {}},
           pc'[Drainer] = "mark" => /\ pc[Drainer] = "mark" /\ LineStays
                                    /\ txn' = txn
    PROVE  Whole' /\ MarkedIsStored'
  <1>1. MarkedIsStored'
    BY DEF MarkedIsStored, Row, Marker
  <1>2. pc'[Drainer] = "mark" => Row(Subject(Drainer))' \in txn'
    BY DEF Whole, LineStays, Subject, Row
  <1>3. ASSUME NEW e \in Events, Marker(e) \in txn'
        PROVE  Row(e) \in txn'
    BY <1>3, FollowedAre DEF Whole, Followed
  <1> QED
    BY <1>1, <1>2, <1>3 DEF Whole, Row, Marker

\* A thread that goes where it needs no lock.
LEMMA AwayKeeps ==
    ASSUME StreamInv, NEW t \in Threads, NEW s \in Steps \ Inside, Goto(t, s),
           UNCHANGED <<lock, txn, table>>, t = Drainer \/ LineStays
    PROVE  StreamInv'
  <1>1. Locking'
    BY LockingKept DEF StreamInv, Inside
  <1>2. pc'[Drainer] = "mark" => pc[Drainer] = "mark" /\ LineStays
    BY ThreadsAre DEF StreamInv, Locking, Goto, Inside
  <1> QED
    BY <1>1, <1>2, WholeKept DEF StreamInv

\* A thread in possession of the lock which writes nothing.
LEMMA HoldingKeeps ==
    ASSUME StreamInv, NEW t \in Threads, NEW s \in Steps \ {"mark"}, Goto(t, s),
           lock \in {t, NoThread}, s \in Inside => lock' = t,
           lock' \in {lock, t, NoThread},
           UNCHANGED table, Followed(txn') \in {Followed(txn), {}}
    PROVE  StreamInv'
  <1>1. Locking'
    BY LockingKept DEF StreamInv
  <1>2. pc'[Drainer] # "mark"
    BY ThreadsAre DEF StreamInv, Locking, Goto, Inside
  <1> QED
    BY <1>1, <1>2, WholeKept DEF StreamInv

\* A step of the database in which no thread goes on.
LEMMA StandingKeeps ==
    ASSUME StreamInv, UNCHANGED <<pc, lock, table>>, LineStays,
           txn' \in {txn, {}}, pc[Drainer] = "mark" => txn' = txn
    PROVE  StreamInv'
  <1>1. Locking'
    BY DEF StreamInv, Locking
  <1> QED
    BY <1>1, WholeKept DEF StreamInv, Followed

LEMMA TakesLockKeeps ==
    ASSUME StreamInv, NEW t \in Threads, TakesLock(t)
    PROVE  StreamInv'
  <1>1. /\ lock = NoThread /\ lock' = t /\ UNCHANGED <<txn, table>>
        /\ \E s \in {"query", "insert"} : Goto(t, s)
    BY DEF TakesLock, Acquires
  <1> QED
    BY <1>1, HoldingKeeps DEF Steps

LEMMA BusyKeeps ==
    ASSUME StreamInv, NEW t \in Threads, Busy(t)
    PROVE  StreamInv'
  <1>1. UNCHANGED <<lock, txn, table>>
    BY DEF Busy, dbVars
  <1>2. CASE Abandons(t)
    BY <1>1, <1>2, AbandonsGoes, AwayKeeps
  <1>3. CASE UNCHANGED <<pc, drainVars>>
    BY <1>1, <1>3, StandingKeeps DEF LineStays, drainVars
  <1> QED
    BY <1>2, <1>3 DEF Busy

LEMMA FailsKeeps ==
    ASSUME StreamInv, NEW t \in Threads, Fails(t) \/ FindsItDegraded(t)
    PROVE  StreamInv'
  <1>1. /\ lock = t /\ lock' = NoThread /\ UNCHANGED table
        /\ Abandons(t)
    BY DEF Fails, FindsItDegraded, StatementFails, Releases
  <1>2. Followed(txn') \in {Followed(txn), {}}
    BY DEF Fails, FindsItDegraded, GivesUp, Rollback, Followed
  <1> QED
    BY <1>1, <1>2, AbandonsGoes, HoldingKeeps DEF Inside

\* A reconnect never meets the transaction of the drain.
LEMMA HealsKeeps ==
    ASSUME StreamInv, NEW t \in Threads, Heals(t)
    PROVE  StreamInv'
  <1>1. UNCHANGED <<pc, lock, table>> /\ LineStays
    BY DEF Heals, Healing, ReconnectAfterSwap, SinkEnds, ReconnectFails,
           HealPersistentLock, streamVars, drainVars, LineStays
  <1>2. txn' = txn \/ (txn = {} /\ txn' = {})
    BY DEF Heals, Healing, ReconnectAfterSwap, SinkEnds, ReconnectFails,
           HealPersistentLock, MustReconnect, MayHeal, InTransaction
  <1> QED
    BY <1>1, <1>2, StandingKeeps

LEMMA LooksKeeps ==
    ASSUME StreamInv, Looks
    PROVE  StreamInv'
  <1>1. /\ lock = Drainer /\ UNCHANGED <<txn, table>>
        /\ lock' = NoThread \/ lock' = lock
    BY DEF Looks, Query, Operational, Releases
  <1>2. CASE NextLine(WhenPresent)
    BY <1>1, <1>2, ThreadsAre, HoldingKeeps DEF NextLine, Steps, Inside
  <1>3. CASE Goto(Drainer, "insert") /\ UNCHANGED lock
    BY <1>1, <1>3, ThreadsAre, HoldingKeeps DEF Steps
  <1> QED
    BY <1>2, <1>3 DEF Looks

\* What a thread writes in its insert is no marker.
LEMMA InsertsRow ==
    ASSUME NEW t, pc[t] = "insert", NEW e \in Events
    PROVE  WriteOf(t) # Marker(e)
  BY EventAssumption, RuntimeDbAssumption DEF WriteOf, Row, Marker

LEMMA InsertsKeeps ==
    ASSUME StreamInv, NEW t \in Threads, Inserts(t)
    PROVE  StreamInv'
  <1>1. /\ lock = t /\ UNCHANGED <<lock, table, drainVars>>
        /\ txn' = txn \cup {WriteOf(t)}
        /\ pc[t] = "insert" /\ Goto(t, AfterInsert(t))
    BY DEF Inserts, Execute, Operational
  <1>2. AfterInsert(t) \in Steps /\ (AfterInsert(t) = "mark" => t = Drainer)
    BY DEF AfterInsert, Steps
  <1>3. Locking'
    BY <1>1, <1>2, LockingKept DEF StreamInv
  <1>4. ASSUME pc'[Drainer] = "mark"
        PROVE  Row(Subject(Drainer))' \in txn'
    <2>1. t = Drainer
      BY <1>1, <1>4, ThreadsAre DEF StreamInv, Locking, Goto, Inside
    <2>2. WriteOf(t) = Row(Subject(Drainer))
      BY <1>1, <2>1, EventAssumption DEF WriteOf
    <2> QED
      BY <1>1, <2>2 DEF Row, Subject, drainVars
  <1>5. ASSUME NEW e \in Events, Marker(e) \in txn'
        PROVE  Row(e) \in txn'
    BY <1>1, <1>5, InsertsRow DEF StreamInv, Whole
  <1>6. Whole'
    BY <1>4, <1>5 DEF Whole, Row, Marker
  <1> QED
    BY <1>1, <1>3, <1>6 DEF StreamInv, MarkedIsStored, Row, Marker

LEMMA MarksKeeps ==
    ASSUME StreamInv, Marks
    PROVE  StreamInv'
  <1>1. /\ lock = Drainer /\ UNCHANGED <<lock, table>>
        /\ txn' = txn \cup {WriteOf(Drainer)}
        /\ pc[Drainer] = "mark" /\ Goto(Drainer, "commit")
    BY DEF Marks, Execute, Operational
  <1>2. Locking'
    BY <1>1, ThreadsAre, LockingKept DEF StreamInv, Steps
  <1>3. pc'[Drainer] # "mark"
    BY <1>1, ThreadsAre DEF StreamInv, Locking, Goto
  <1>4. WriteOf(Drainer) = Marker(Subject(Drainer))
    BY <1>1, EventAssumption DEF WriteOf
  <1>5. ASSUME NEW e \in Events, Marker(e) \in txn'
        PROVE  Row(e) \in txn'
    BY <1>1, <1>4, <1>5 DEF StreamInv, Whole, Row, Marker
  <1>6. Whole'
    BY <1>3, <1>5 DEF Whole, Row, Marker
  <1> QED
    BY <1>1, <1>2, <1>6 DEF StreamInv, MarkedIsStored, Row, Marker

LEMMA CommitsKeeps ==
    ASSUME StreamInv, DbTyped, NEW t \in Threads, Commits(t)
    PROVE  StreamInv'
  <1>1. /\ lock = t /\ lock' = NoThread /\ txn' = {}
        /\ \/ UNCHANGED table
           \/ table' = [w \in Writes |-> IF w \in txn THEN table[w] + 1 ELSE table[w]]
    BY DEF Commits, Commit, Releases, Operational
  <1>2. \E s \in Steps \ Inside : Goto(t, s)
    BY DEF Commits, NextLine, EmitReturned, Steps, Inside
  <1>3. Locking'
    BY <1>1, <1>2, LockingKept DEF StreamInv, Inside
  <1>4. Whole'
    BY <1>1, <1>2, ThreadsAre DEF Whole, StreamInv, Locking, Goto, Inside
  <1>5. ASSUME NEW e \in Events, table'[Marker(e)] > 0
        PROVE  table'[Row(e)] > 0
    <2>1. /\ Row(e) \in Writes /\ Marker(e) \in Writes
          /\ table[Row(e)] \in Nat /\ table[Marker(e)] \in Nat
      BY EventAssumption DEF DbTyped
    <2>2. table[Marker(e)] > 0 => table[Row(e)] > 0
      BY DEF StreamInv, MarkedIsStored
    <2>3. Marker(e) \in txn => Row(e) \in txn
      BY DEF StreamInv, Whole
    <2> QED
      BY <1>1, <1>5, <2>1, <2>2, <2>3
  <1>6. MarkedIsStored'
    BY <1>5 DEF MarkedIsStored, Row, Marker
  <1> QED
    BY <1>3, <1>4, <1>6 DEF StreamInv

LEMMA OutsideKeeps ==
    ASSUME StreamInv, Outside
    PROVE  StreamInv'
  <1>1. UNCHANGED <<pc, lock, txn, table>> /\ LineStays
    BY DEF Outside, SwapLog, streamVars, drainVars, LineStays
  <1> QED
    BY <1>1, StandingKeeps

LEMMA RestartsKeeps ==
    ASSUME StreamInv, Restarts
    PROVE  StreamInv'
  <1>1. pc' = [t \in Threads |-> "idle"] /\ txn' = {} /\ UNCHANGED table
    BY DEF Restarts, DbRestart
  <1>2. Locking'
    BY <1>1 DEF Locking, Steps, Inside
  <1>3. pc'[Drainer] # "mark"
    BY <1>1, ThreadsAre
  <1> QED
    BY <1>1, <1>2, <1>3, WholeKept DEF StreamInv, Followed

\* emit() begins or spills, a store begins, the drain reads or compacts the file.
LEMMA FileKeeps ==
    ASSUME StreamInv, NEW t \in Threads,
           \/ (\E e \in Events : Emit(t, e)) \/ StoreBegins(t) \/ Spills(t) \/ SpillFails(t)
           \/ t = Drainer /\ (DrainReads \/ Compacts)
    PROVE  StreamInv'
  <1>1. UNCHANGED <<lock, txn, table>>
    BY DEF Emit, StoreBegins, Spills, SpillFails, DrainReads, Compacts, dbVars
  <1>2. t = Drainer \/ LineStays
    BY DEF Emit, StoreBegins, Spills, SpillFails, drainVars, LineStays
  <1>3. \E s \in {"idle", "acquire"} : Goto(t, s)
    BY DEF Emit, StoreBegins, Spills, SpillFails, DrainReads, Compacts, EmitReturned
  <1> QED
    BY <1>1, <1>2, <1>3, AwayKeeps DEF Steps, Inside

-----------------------------------------------------------------------------
(* Every step *)

\* What a thread does, whoever it is.
LEMMA ThreadStep ==
    ASSUME Next, ~Outside, ~Restarts
    PROVE  \E t \in Threads :
             \/ TakesLock(t) \/ Busy(t) \/ Inserts(t) \/ Commits(t)
             \/ Fails(t) \/ FindsItDegraded(t) \/ Heals(t)
             \/ (\E e \in Events : Emit(t, e)) \/ StoreBegins(t)
             \/ t \in Emitters /\ (Spills(t) \/ SpillFails(t))
             \/ t = Drainer /\ (DrainReads \/ Compacts \/ Looks \/ Marks)
  BY EventAssumption DEF Next, EmitterStep, StoreStep, DrainStep, AtDatabase

LEMMA StreamKept ==
    ASSUME IInv, [Next]_vars
    PROVE  StreamInv'
  <1>1. StreamInv /\ DbTyped
    BY DEF IInv, DbInv
  <1>2. CASE Outside \/ Restarts
    BY <1>1, <1>2, OutsideKeeps, RestartsKeeps
  <1>3. CASE UNCHANGED vars
    <2>1. UNCHANGED <<pc, lock, txn, table>> /\ LineStays
      BY <1>3 DEF vars, dbVars, streamVars, drainVars, LineStays
    <2> QED
      BY <1>1, <2>1, StandingKeeps
  <1>4. CASE Next /\ ~Outside /\ ~Restarts
    BY <1>1, <1>4, ThreadStep, TakesLockKeeps, BusyKeeps, InsertsKeeps, CommitsKeeps,
       FailsKeeps, HealsKeeps, FileKeeps, LooksKeeps, MarksKeeps
  <1> QED
    BY <1>2, <1>3, <1>4

\* A thread that goes elsewhere than to its commit.
LEMMA NotCommitting ==
    ASSUME NEW t, NEW s, Goto(t, s), s \notin {"mark", "commit"}
    PROVE  Committing' => Committing
  BY DEF Goto, Committing

\* The committing thread was the only one.
LEMMA CommitEnds ==
    ASSUME Locking, NEW t \in Threads, Commits(t)
    PROVE  Committing /\ ~Committing'
  <1>1. pc[t] = "commit" /\ \E s \in Steps \ Inside : Goto(t, s)
    BY DEF Commits, NextLine, EmitReturned, Steps, Inside
  <1>2. lock = t
    BY <1>1 DEF Locking, Inside
  <1>3. \A u \in Threads : pc'[u] \notin {"mark", "commit"}
    BY <1>1, <1>2 DEF Locking, Goto, Inside
  <1> QED
    BY <1>1, <1>3 DEF Committing

LEMMA StepIsDbStep ==
    ASSUME IInv, [Next]_vars
    PROVE  DbStep
  <1>1. CASE Outside \/ Restarts
    BY <1>1 DEF Outside, Restarts, DbStep
  <1>2. CASE UNCHANGED vars
    BY <1>2 DEF vars, dbVars, streamVars, DbStep, Committing
  <1>3. CASE Next /\ ~Outside /\ ~Restarts
    <2>1. PICK t \in Threads :
             \/ TakesLock(t) \/ Busy(t) \/ Inserts(t) \/ Commits(t)
             \/ Fails(t) \/ FindsItDegraded(t) \/ Heals(t)
             \/ (\E e \in Events : Emit(t, e)) \/ StoreBegins(t)
             \/ t \in Emitters /\ (Spills(t) \/ SpillFails(t))
             \/ t = Drainer /\ (DrainReads \/ Compacts \/ Looks \/ Marks)
      BY <1>3, ThreadStep
    <2>2. CASE Inserts(t) \/ (t = Drainer /\ Marks)
      BY <2>2 DEF DbStep, Inserts, Marks
    <2>3. CASE Commits(t)
      BY <2>3, CommitEnds DEF DbStep, Commits, IInv, StreamInv
    <2>4. CASE Fails(t) \/ FindsItDegraded(t)
      <3>1. \E s \in Steps \ Inside : Goto(t, s)
        BY <2>4, AbandonsGoes DEF Fails, FindsItDegraded
      <3>2. Committing' => Committing
        BY <3>1, NotCommitting DEF Inside
      <3>3. \/ StatementFails(t)
            \/ UNCHANGED <<file, table, fate>> /\ txn' \in {txn, {}}
        BY <2>4 DEF Fails, FindsItDegraded, GivesUp, Rollback
      <3> QED
        BY <3>2, <3>3 DEF DbStep
    <2>5. CASE Heals(t)
      BY <2>5 DEF DbStep, Heals, streamVars, Committing
    <2>6. CASE t = Drainer /\ Looks
      <3>1. \E s \in Steps \ {"mark", "commit"} : Goto(t, s)
        BY <2>6 DEF Looks, NextLine, Steps
      <3> QED
        BY <2>6, <3>1, NotCommitting DEF DbStep, Looks
    <2>7. CASE TakesLock(t)
      <3>1. \E s \in Steps \ {"mark", "commit"} : Goto(t, s)
        BY <2>7 DEF TakesLock, Steps
      <3> QED
        BY <2>7, <3>1, NotCommitting DEF DbStep, TakesLock
    <2>8. CASE \/ Busy(t) \/ (\E e \in Events : Emit(t, e)) \/ StoreBegins(t)
               \/ Spills(t) \/ SpillFails(t)
               \/ t = Drainer /\ (DrainReads \/ Compacts)
      <3>1. UNCHANGED <<file, txn, table, fate>>
        BY <2>8 DEF Busy, Emit, StoreBegins, Spills, SpillFails, DrainReads, Compacts, dbVars
      <3>2. UNCHANGED pc \/ \E s \in Steps \ Inside : Goto(t, s)
        BY <2>8, AbandonsGoes DEF Busy, Emit, StoreBegins, Spills, SpillFails, DrainReads,
           Compacts, EmitReturned, Steps, Inside
      <3>3. Committing' => Committing
        BY <3>2, NotCommitting DEF Committing, Inside
      <3> QED
        BY <3>1, <3>3 DEF DbStep
    <2> QED
      BY <2>1, <2>2, <2>3, <2>4, <2>5, <2>6, <2>7, <2>8
  <1> QED
    BY <1>1, <1>2, <1>3

LEMMA InitHolds == Init => IInv
  <1> SUFFICES ASSUME Init PROVE IInv
    OBVIOUS
  <1>1. DbInv
    <2>1. DbTyped
      <3>1. table \in [Writes -> Nat]
        BY DEF Init, DbInit
      <3>2. conn = 1 /\ disk = 1 /\ stamp = 1 /\ depth = 0 /\ swaps = 0 /\ voids = 0 /\ missed = 0
        BY DEF Init, DbInit
      <3>3. pending \in BOOLEAN /\ blind \in BOOLEAN
        BY DEF Init, DbInit
      <3> QED
        BY <3>1, <3>2, <3>3 DEF DbTyped
    <2>2. Joined /\ Nested
      BY DEF Init, DbInit, Joined, Nested
    <2>3. Owed = 0
      BY DEF Init, DbInit, Owed
    <2> QED
      BY <2>1, <2>2, <2>3 DEF Init, DbInit, DbInv
  <1>2. Locking
    BY DEF Init, Locking, Steps, Inside
  <1>3. Whole
    BY ThreadsAre DEF Init, DbInit, Whole
  <1>4. MarkedIsStored
    BY EventAssumption DEF Init, DbInit, MarkedIsStored
  <1> QED
    BY <1>1, <1>2, <1>3, <1>4 DEF IInv, StreamInv

LEMMA Invariance == Spec => []IInv
  <1>1. IInv /\ [Next]_vars => IInv'
    BY StreamKept, StepIsDbStep, DbStepKeeps DEF IInv
  <1> QED
    BY InitHolds, <1>1, PTL DEF Spec

-----------------------------------------------------------------------------
(* The file, the threads and the table. *)

\* What a thread has written of an event and not committed.
Draft(t) == IF pc[t] \in {"query", "insert"} \/ t \in Stores THEN {}
            ELSE IF t \in Emitters THEN {Row(item[t])}
            ELSE IF pc[t] = "mark" THEN {Row(Subject(t))}
            ELSE {Row(Subject(t)), Marker(Subject(t))}

\* The open transaction has no write of an event but those of the thread which
\* has the lock; a failed store may have left others in it.
Drafts == /\ lock = NoThread => Followed(txn) = {}
          /\ lock # NoThread => lock \in Threads /\ pc[lock] \in Inside
          /\ \A t \in Threads : pc[t] \in Inside => Followed(txn) = Draft(t)

\* An event is in the hands of one emitter, or in one line of the file.
Hands == /\ item \in [Emitters -> emitted \cup {NoEvent}]
         /\ emitted \subseteq Events
         /\ \A t \in Emitters : /\ pc[t] \in {"idle", "acquire", "insert", "commit", "spill"}
                                /\ item[t] = NoEvent <=> pc[t] = "idle"
         /\ \A t, u \in Emitters : item[t] = item[u] => t = u \/ item[t] = NoEvent

Singly == /\ spill \in Seq(emitted)
          /\ \A i, j \in 1..Len(spill) : spill[i] = spill[j] => i = j
          /\ \A i \in 1..Len(spill), t \in Emitters : spill[i] # item[t]

\* The pass of the drain over the beginning of the file.
Pass == /\ snapshot \in Seq(Events) /\ Len(snapshot) <= Len(spill)
        /\ \A i \in 1..Len(snapshot) : snapshot[i] = spill[i]
        /\ removable \subseteq 1..Len(snapshot)
        /\ line \in Nat \ {0}
        /\ pc[Drainer] # "spill"
        /\ pc[Drainer] # "idle" => line <= Len(snapshot)

\* Nothing was ever written for the event.
Untouched(e) == table[Row(e)] = 0 /\ table[Marker(e)] = 0 /\ ~IsVoid(Row(e))

\* The row was committed, be it into a log that is gone.
Settled(e) == table[Row(e)] > 0 \/ IsVoid(Row(e))

\* The drain has looked for the marker of its line and found none.
Replaying == {"insert", "mark", "commit"}

\* What the database knows of the events, the threads and the file.
Ledger ==
    /\ AtMostOnce
    /\ \A e \in Events \ emitted : Untouched(e)
    /\ \A t \in Emitters : item[t] # NoEvent => Untouched(item[t])
    /\ \A e \in Lines : table[Row(e)] = table[Marker(e)]
    /\ pc[Drainer] \in Replaying => table[Marker(Subject(Drainer))] = 0
    /\ \A i \in removable : Settled(snapshot[i])
    /\ voidWrites \subseteq Writes \X Nat
    /\ \A e \in Events, log \in Nat :
         <<Marker(e), log>> \in voidWrites => <<Row(e), log>> \in voidWrites

-----------------------------------------------------------------------------
(* Drafts *)

\* The thread t goes where it needs no lock; the others stay.
Others(t) == /\ \A u \in Emitters \ {t} : item'[u] = item[u]
             /\ t = Drainer \/ LineStays

LEMMA DraftStays ==
    ASSUME NEW t, NEW u \in Threads \ {t}, Others(t), pc'[u] = pc[u]
    PROVE  Draft(u)' = Draft(u)
  <1>1. CASE u \in Emitters
    BY <1>1, EventAssumption DEF Draft, Others, Row
  <1>2. CASE u \notin Emitters
    <2>1. u \notin Stores => u = Drainer /\ LineStays
      BY <1>2, EventAssumption DEF Others
    <2> QED
      BY <1>2, <2>1 DEF Draft, LineStays, Subject, Row, Marker
  <1> QED
    BY <1>1, <1>2

LEMMA AwayDrafts ==
    ASSUME Locking, Drafts, NEW t \in Threads, pc[t] \notin Inside,
           NEW s \in Steps \ Inside, Goto(t, s), UNCHANGED <<lock, txn>>, Others(t)
    PROVE  Drafts'
  <1>1. ASSUME NEW u \in Threads, pc'[u] \in Inside
        PROVE  u # t /\ pc'[u] = pc[u]
    BY <1>1 DEF Locking, Goto
  <1>2. \A u \in Threads : pc'[u] \in Inside => Followed(txn') = Draft(u)'
    BY <1>1, DraftStays DEF Drafts
  <1>3. lock # NoThread => lock # t /\ pc'[lock] = pc[lock]
    BY DEF Drafts, Locking, Goto
  <1> QED
    BY <1>2, <1>3 DEF Drafts, Followed

LEMMA ReleaseDrafts ==
    ASSUME Locking, NEW t \in Threads, lock = t, lock' = NoThread, Followed(txn') = {},
           NEW s \in Steps \ Inside, Goto(t, s)
    PROVE  Drafts'
  <1>1. \A u \in Threads : pc'[u] \notin Inside
    BY DEF Locking, Goto
  <1> QED
    BY <1>1 DEF Drafts, Followed

LEMMA HoldDrafts ==
    ASSUME Locking, NEW t \in Threads, lock \in {t, NoThread}, lock' = t,
           NEW s \in Inside, Goto(t, s), Followed(txn') = Draft(t)'
    PROVE  Drafts'
  <1>1. \A u \in Threads : pc'[u] \in Inside => u = t
    BY ThreadsAre DEF Locking, Goto
  <1>2. pc'[t] = s
    BY DEF Locking, Goto
  <1>3. lock' # NoThread /\ lock' \in Threads /\ pc'[lock'] \in Inside
    BY <1>2, ThreadsAre
  <1> QED
    BY <1>1, <1>3 DEF Drafts, Followed

LEMMA StandDrafts ==
    ASSUME Drafts, UNCHANGED <<pc, lock, txn, item, snapshot, line>>
    PROVE  Drafts'
  <1>1. ASSUME NEW u \in Threads
        PROVE  Draft(u)' = Draft(u)
    BY DEF Draft, Subject, Row, Marker
  <1> QED
    BY <1>1 DEF Drafts, Followed

\* A thread at the database is about an event.
LEMMA SubjectAtWrite ==
    ASSUME Hands, Pass, NEW t \in Threads \ Stores, pc[t] \in Inside
    PROVE  Subject(t) \in Events
  <1>1. CASE t = Drainer
    <2>1. line \in 1..Len(snapshot)
      BY <1>1, LenProperties DEF Pass, Inside
    <2> QED
      BY <1>1, <2>1, ElementOfSeq DEF Pass, Subject
  <1>2. CASE t \in Emitters
    BY <1>2, EventAssumption DEF Hands, Subject, Inside
  <1> QED
    BY <1>1, <1>2, EventAssumption

LEMMA InsertsDrafts ==
    ASSUME StreamInv, Hands, Pass, Drafts, NEW t \in Threads, Inserts(t)
    PROVE  Drafts'
  <1>1. /\ lock = t /\ lock' = t /\ txn' = txn \cup {WriteOf(t)}
        /\ pc[t] = "insert" /\ Goto(t, AfterInsert(t))
        /\ UNCHANGED <<item, snapshot, line>>
    BY DEF Inserts, Execute, Operational, drainVars
  <1>2. Followed(txn) = {}
    BY <1>1 DEF Drafts, Draft, Inside
  <1>3. pc'[t] = AfterInsert(t)
    BY <1>1 DEF StreamInv, Locking, Goto
  <1>4. CASE t \in Stores
    <2>1. Draft(t)' = {} /\ WriteOf(t) = Other
      BY <1>4 DEF Draft, WriteOf
    <2>2. Followed(txn') = {}
      BY <1>1, <1>2, <2>1 DEF Followed
    <2> QED
      BY <1>1, <2>1, <2>2, HoldDrafts DEF StreamInv, AfterInsert, Inside
  <1>5. CASE t \notin Stores
    <2>1. WriteOf(t) = Row(Subject(t)) /\ Subject(t) \in Events
      BY <1>1, <1>5, SubjectAtWrite DEF WriteOf, Inside
    <2>2. Draft(t)' = {WriteOf(t)}
      BY <1>1, <1>3, <1>5, EventAssumption DEF Draft, WriteOf, AfterInsert, Subject, Row, Marker
    <2>3. WriteOf(t) # Other
      BY <2>1, FollowedAre
    <2>4. Followed(txn') = {WriteOf(t)}
      BY <1>1, <1>2, <2>3 DEF Followed
    <2> QED
      BY <1>1, <2>2, <2>4, HoldDrafts DEF StreamInv, AfterInsert, Inside
  <1> QED
    BY <1>4, <1>5

LEMMA MarksDrafts ==
    ASSUME StreamInv, Hands, Pass, Drafts, Marks
    PROVE  Drafts'
  <1>1. /\ lock = Drainer /\ lock' = Drainer /\ txn' = txn \cup {WriteOf(Drainer)}
        /\ pc[Drainer] = "mark" /\ Goto(Drainer, "commit")
        /\ UNCHANGED <<item, snapshot, line>>
    BY DEF Marks, Execute, Operational, drainVars
  <1>2. Followed(txn) = {Row(Subject(Drainer))}
    BY <1>1, ThreadsAre, EventAssumption DEF Drafts, Draft, Inside
  <1>3. pc'[Drainer] = "commit"
    BY <1>1, ThreadsAre DEF StreamInv, Locking, Goto
  <1>4. Draft(Drainer)' = {Row(Subject(Drainer)), Marker(Subject(Drainer))}
    BY <1>1, <1>3, EventAssumption DEF Draft, Subject, Row, Marker
  <1>5. WriteOf(Drainer) = Marker(Subject(Drainer))
    BY <1>1, EventAssumption DEF WriteOf
  <1>6. Subject(Drainer) \in Events
    BY <1>1, ThreadsAre, EventAssumption, SubjectAtWrite DEF Inside
  <1>7. Followed(txn') = Draft(Drainer)'
    BY <1>1, <1>2, <1>4, <1>5, <1>6, FollowedAre DEF Followed
  <1> QED
    BY <1>1, <1>7, ThreadsAre, HoldDrafts DEF StreamInv, Inside

LEMMA LooksDrafts ==
    ASSUME StreamInv, Drafts, Looks
    PROVE  Drafts'
  <1>1. lock = Drainer /\ Followed(txn') = {}
    BY ThreadsAre DEF Looks, Query, Operational, Drafts, Draft, Inside
  <1>2. CASE NextLine(WhenPresent) /\ Releases(Drainer)
    BY <1>1, <1>2, ThreadsAre, ReleaseDrafts DEF StreamInv, NextLine, Steps, Inside, Releases
  <1>3. CASE Goto(Drainer, "insert") /\ UNCHANGED lock
    <2>1. Draft(Drainer)' = {}
      BY <1>3, ThreadsAre DEF Draft, StreamInv, Locking, Goto
    <2> QED
      BY <1>1, <1>3, <2>1, ThreadsAre, HoldDrafts DEF StreamInv, Inside
  <1> QED
    BY <1>2, <1>3 DEF Looks

LEMMA BusyDrafts ==
    ASSUME StreamInv, Drafts, NEW t \in Threads, Busy(t)
    PROVE  Drafts'
  <1>1. UNCHANGED <<lock, txn>> /\ pc[t] = "acquire"
    BY DEF Busy, dbVars
  <1>2. CASE Abandons(t)
    <2>1. UNCHANGED item
      BY <1>2 DEF Abandons, NextLine
    <2>2. PICK s \in Steps \ Inside : Goto(t, s) /\ (t = Drainer \/ LineStays)
      BY <1>2, AbandonsGoes
    <2>3. Others(t)
      BY <2>1, <2>2 DEF Others
    <2> QED
      BY <1>1, <2>2, <2>3, AwayDrafts DEF StreamInv, Inside
  <1>3. CASE UNCHANGED <<pc, item, emitted, spill, drainVars>>
    BY <1>1, <1>3, StandDrafts DEF drainVars
  <1> QED
    BY <1>2, <1>3 DEF Busy

LEMMA LeavingDrafts ==
    ASSUME StreamInv, Drafts, NEW t \in Threads, Fails(t) \/ FindsItDegraded(t) \/ Commits(t)
    PROVE  Drafts'
  <1>1. lock = t /\ lock' = NoThread
    BY DEF Fails, FindsItDegraded, Commits, Releases
  <1>3. Followed(txn') = {}
    <2>1. CASE txn' = {}
      BY <2>1 DEF Followed
    <2>2. CASE t \in Stores /\ txn' \in {txn, txn \cup {Other}}
      <3>1. pc[t] \in Inside
        BY <1>1 DEF Fails, FindsItDegraded, Commits, Inside
      <3>2. Followed(txn) = {}
        BY <2>2, <3>1 DEF Drafts, Draft
      <3> QED
        BY <2>2, <3>2 DEF Followed
    <2> QED
      BY <2>1, <2>2 DEF Fails, FindsItDegraded, Commits, Commit, GivesUp, Rollback
  <1>2. \E s \in Steps \ Inside : Goto(t, s)
    <2>1. CASE Abandons(t)
      BY <2>1, AbandonsGoes
    <2>2. CASE Commits(t)
      BY <2>2 DEF Commits, NextLine, EmitReturned, Steps, Inside
    <2> QED
      BY <2>1, <2>2 DEF Fails, FindsItDegraded
  <1> QED
    BY <1>1, <1>2, <1>3, ReleaseDrafts DEF StreamInv

\* What no transaction depends on.
LEMMA FileDrafts ==
    ASSUME StreamInv, Hands, Drafts, NEW t \in Threads,
           \/ (\E e \in Events : Emit(t, e)) \/ StoreBegins(t)
           \/ t \in Emitters /\ (Spills(t) \/ SpillFails(t))
           \/ t = Drainer /\ (DrainReads \/ Compacts)
    PROVE  Drafts'
  <1>1. UNCHANGED <<lock, txn>>
    BY DEF Emit, StoreBegins, Spills, SpillFails, DrainReads, Compacts, dbVars
  <1>2. Others(t)
    BY DEF Emit, StoreBegins, Spills, SpillFails, DrainReads, Compacts, EmitReturned,
           drainVars, LineStays, Others, Hands
  <1>3. \E s \in {"idle", "acquire"} : Goto(t, s)
    BY DEF Emit, StoreBegins, Spills, SpillFails, DrainReads, Compacts, EmitReturned
  <1>4. pc[t] \notin Inside
    BY DEF Emit, StoreBegins, Spills, SpillFails, DrainReads, Compacts, Inside
  <1> QED
    BY <1>1, <1>2, <1>3, <1>4, AwayDrafts DEF StreamInv, Steps, Inside

LEMMA HealsLeaves ==
    ASSUME NEW t, Heals(t)
    PROVE  UNCHANGED <<streamVars, lock, txn, table, fate>>
  <1>1. UNCHANGED <<streamVars, lock, table, fate>>
    BY DEF Heals, Healing, ReconnectAfterSwap, SinkEnds, ReconnectFails, HealPersistentLock
  <1>2. UNCHANGED txn
    BY DEF Heals, Healing, ReconnectAfterSwap, SinkEnds, ReconnectFails,
           HealPersistentLock, MustReconnect, MayHeal, InTransaction
  <1> QED
    BY <1>1, <1>2

LEMMA DraftsKept ==
    ASSUME StreamInv, Hands, Pass, Drafts, [Next]_vars
    PROVE  Drafts'
  <1>1. CASE Outside
    <2>1. UNCHANGED <<pc, lock, txn, item, snapshot, line>>
      BY <1>1 DEF Outside, SwapLog, streamVars, drainVars
    <2> QED
      BY <2>1, StandDrafts
  <1>2. CASE Restarts
    BY <1>2 DEF Restarts, DbRestart, Drafts, Inside, Followed
  <1>3. CASE UNCHANGED vars
    <2>1. UNCHANGED <<pc, lock, txn, item, snapshot, line>>
      BY <1>3 DEF vars, dbVars, streamVars, drainVars
    <2> QED
      BY <2>1, StandDrafts
  <1>4. CASE Next /\ ~Outside /\ ~Restarts
    <2>1. PICK t \in Threads :
             \/ TakesLock(t) \/ Busy(t) \/ Inserts(t) \/ Commits(t)
             \/ Fails(t) \/ FindsItDegraded(t) \/ Heals(t)
             \/ (\E e \in Events : Emit(t, e)) \/ StoreBegins(t)
             \/ t \in Emitters /\ (Spills(t) \/ SpillFails(t))
             \/ t = Drainer /\ (DrainReads \/ Compacts \/ Looks \/ Marks)
      BY <1>4, ThreadStep
    <2>2. CASE TakesLock(t)
      <3>1. PICK s \in {"query", "insert"} : Goto(t, s)
        BY <2>2 DEF TakesLock
      <3>2. lock = NoThread /\ lock' = t /\ Followed(txn') = {}
        BY <2>2 DEF TakesLock, Acquires, Drafts
      <3>3. Draft(t)' = {}
        BY <3>1 DEF Draft, StreamInv, Locking, Goto
      <3> QED
        BY <3>1, <3>2, <3>3, HoldDrafts DEF StreamInv, Inside
    <2>3. CASE Heals(t)
      BY <2>3, HealsLeaves, StandDrafts DEF streamVars, drainVars
    <2> QED
      BY <2>1, <2>2, <2>3, BusyDrafts, InsertsDrafts, LeavingDrafts, FileDrafts,
         LooksDrafts, MarksDrafts
  <1> QED
    BY <1>1, <1>2, <1>3, <1>4

-----------------------------------------------------------------------------
(* Hands *)

LEMMA DrainerEmitsNot == Drainer \notin Emitters /\ NoEvent \notin Events
  BY EventAssumption

\* Whoever moves, an emitter keeps its event until it returns.
LEMMA MovesHands ==
    ASSUME Locking, Hands, NEW t \in Threads, NEW s, Goto(t, s), UNCHANGED <<item, emitted>>,
           t \in Emitters => pc[t] # "idle" /\ s \in {"acquire", "insert", "commit", "spill"}
    PROVE  Hands'
  <1>1. ASSUME NEW u \in Emitters
        PROVE  /\ pc'[u] \in {"idle", "acquire", "insert", "commit", "spill"}
               /\ pc'[u] = "idle" <=> pc[u] = "idle"
    BY DEF Locking, Hands, Goto
  <1> QED
    BY <1>1 DEF Hands

LEMMA ReturnHands ==
    ASSUME Locking, Hands, NEW t \in Emitters, EmitReturned(t), UNCHANGED emitted
    PROVE  Hands'
  <1>1. t \in Threads /\ Emitters \subseteq Threads
    BY EventAssumption
  <1>2. /\ item' \in [Emitters -> emitted \cup {NoEvent}]
        /\ \A u \in Emitters : item'[u] = IF u = t THEN NoEvent ELSE item[u]
    BY DEF Hands, EmitReturned
  <1>3. \A u \in Emitters : pc'[u] = IF u = t THEN "idle" ELSE pc[u]
    BY <1>1 DEF Locking, EmitReturned, Goto
  <1> QED
    BY <1>2, <1>3 DEF Hands

LEMMA EmitHands ==
    ASSUME Locking, Hands, NEW t \in Threads, NEW e \in Events, Emit(t, e)
    PROVE  Hands'
  <1>1. t \in Emitters /\ e \notin emitted /\ emitted' = emitted \cup {e} /\ e # NoEvent
    BY DrainerEmitsNot DEF Emit
  <1>2. /\ item' \in [Emitters -> emitted' \cup {NoEvent}]
        /\ \A u \in Emitters : item'[u] = IF u = t THEN e ELSE item[u]
    BY <1>1 DEF Hands, Emit
  <1>3. \A u \in Emitters : pc'[u] = IF u = t THEN "acquire" ELSE pc[u]
    BY <1>1, EventAssumption DEF Locking, Emit, Goto
  <1>4. \A u \in Emitters : item[u] # e
    BY <1>1 DEF Hands
  <1> QED
    BY <1>1, <1>2, <1>3, <1>4 DEF Hands

LEMMA AbandonsHands ==
    ASSUME Locking, Hands, NEW t \in Threads, t \in Emitters => pc[t] # "idle", Abandons(t)
    PROVE  Hands'
  <1>1. UNCHANGED <<item, emitted>>
    BY DEF Abandons, NextLine
  <1>2. \E s : Goto(t, s) /\ (t \in Emitters => s = "spill")
    BY DrainerEmitsNot DEF Abandons, NextLine
  <1> QED
    BY <1>1, <1>2, MovesHands

LEMMA HandsKept ==
    ASSUME StreamInv, Hands, [Next]_vars
    PROVE  Hands'
  <1> USE DEF StreamInv
  <1>1. CASE UNCHANGED <<pc, item, emitted>>
    BY <1>1 DEF Hands
  <1>2. CASE Outside \/ UNCHANGED vars
    BY <1>1, <1>2 DEF Outside, streamVars, vars
  <1>3. CASE Restarts
    BY <1>3, DrainerEmitsNot, EventAssumption DEF Restarts, Hands
  <1>4. CASE Next /\ ~Outside /\ ~Restarts
    <2>1. PICK t \in Threads :
             \/ TakesLock(t) \/ Busy(t) \/ Inserts(t) \/ Commits(t)
             \/ Fails(t) \/ FindsItDegraded(t) \/ Heals(t)
             \/ (\E e \in Events : Emit(t, e)) \/ StoreBegins(t)
             \/ t \in Emitters /\ (Spills(t) \/ SpillFails(t))
             \/ t = Drainer /\ (DrainReads \/ Compacts \/ Looks \/ Marks)
      BY <1>4, ThreadStep
    <2>2. CASE TakesLock(t) \/ Inserts(t)
      <3>1. UNCHANGED <<item, emitted>> /\ pc[t] # "idle"
        BY <2>2 DEF TakesLock, Inserts
      <3>2. \E s : Goto(t, s) /\ (t \in Emitters => s \in {"insert", "commit"})
        BY <2>2, DrainerEmitsNot DEF TakesLock, Inserts, AfterInsert
      <3> QED
        BY <3>1, <3>2, MovesHands
    <2>3. CASE Busy(t) \/ Fails(t) \/ FindsItDegraded(t)
      <3>1. pc[t] # "idle"
        BY <2>3 DEF Busy, Fails, FindsItDegraded
      <3>2. Abandons(t) \/ UNCHANGED <<pc, item, emitted>>
        BY <2>3 DEF Busy, Fails, FindsItDegraded
      <3> QED
        BY <1>1, <3>1, <3>2, AbandonsHands
    <2>4. CASE Commits(t)
      <3>1. CASE t \in Emitters
        BY <2>4, <3>1, DrainerEmitsNot, ReturnHands DEF Commits
      <3>2. CASE t \notin Emitters
        <4>1. UNCHANGED <<item, emitted>> /\ \E s : Goto(t, s)
          BY <2>4, <3>2 DEF Commits, NextLine
        <4> QED
          BY <3>2, <4>1, MovesHands
      <3> QED
        BY <3>1, <3>2
    <2>5. CASE Heals(t)
      BY <1>1, <2>5, HealsLeaves DEF streamVars
    <2>6. CASE (\E e \in Events : Emit(t, e)) \/ (t \in Emitters /\ (Spills(t) \/ SpillFails(t)))
      BY <2>6, EmitHands, ReturnHands DEF Spills, SpillFails
    <2>7. CASE StoreBegins(t) \/ (t = Drainer /\ (DrainReads \/ Compacts \/ Looks \/ Marks))
      <3>1. t \notin Emitters /\ UNCHANGED <<item, emitted>> /\ \E s : Goto(t, s)
        BY <2>7, EventAssumption
           DEF StoreBegins, DrainReads, Compacts, Looks, Marks, NextLine
      <3> QED
        BY <3>1, MovesHands
    <2> QED
      BY <2>1, <2>2, <2>3, <2>4, <2>5, <2>6, <2>7
  <1> QED
    BY <1>2, <1>3, <1>4

-----------------------------------------------------------------------------
(* Singly *)

\* What the compaction leaves: the kept lines, each once.
LEMMA Compacting ==
    ASSUME NEW S, NEW s \in Seq(S), NEW kept \in SUBSET (1..Len(s)), NEW at \in InOrder(kept),
           NEW c, c = [n \in DOMAIN at |-> s[at[n]]]
    PROVE  /\ c \in Seq(S)
           /\ \A n \in 1..Len(c) : at[n] \in kept /\ c[n] = s[at[n]]
           /\ \A n, k \in 1..Len(c) : at[n] = at[k] => n = k
  <1>1. IsFiniteSet(1..Len(s))
    BY FS_Interval
  <1>2. Cardinality(kept) \in Nat
    BY <1>1, FS_Subset, FS_CardinalityType
  <1>3. at \in [1..Cardinality(kept) -> kept]
    BY DEF InOrder
  <1>4. ASSUME NEW n \in 1..Cardinality(kept)
        PROVE  at[n] \in kept /\ at[n] \in 1..Len(s) /\ at[n] \in Nat /\ s[at[n]] \in S
    <2>1. at[n] \in kept
      BY <1>3
    <2>2. at[n] \in 1..Len(s)
      BY <2>1
    <2>3. s[at[n]] \in S
      BY <2>2
    <2> QED
      BY <2>1, <2>2, <2>3
  <1>5. c \in [1..Cardinality(kept) -> S]
    BY <1>3, <1>4
  <1>6. c \in Seq(S) /\ Len(c) = Cardinality(kept)
    BY <1>2, <1>5
  <1>7. \A n, k \in 1..Len(c) : at[n] = at[k] => n = k
    <2> SUFFICES ASSUME NEW n \in 1..Len(c), NEW k \in 1..Len(c), at[n] = at[k], n # k
                 PROVE  FALSE
      OBVIOUS
    <2>1. at[n] \in Nat /\ at[k] \in Nat
      BY <1>4, <1>6
    <2>2. n < k \/ k < n
      BY <1>2, <1>6
    <2>3. at[n] < at[k] \/ at[k] < at[n]
      BY <1>3, <1>6, <2>2 DEF InOrder
    <2> QED
      BY <2>1, <2>3
  <1> QED
    BY <1>3, <1>6, <1>7

\* Nothing is appended and no emitter gets an event.
LEMMA QuietSingly ==
    ASSUME Hands, Singly, UNCHANGED <<spill, emitted>>,
           \A t \in Emitters : item'[t] \in {item[t], NoEvent}
    PROVE  Singly'
  <1>1. \A i \in 1..Len(spill) : spill[i] # NoEvent
    BY DrainerEmitsNot DEF Hands, Singly
  <1> QED
    BY <1>1 DEF Singly

LEMMA SpillsSingly ==
    ASSUME Hands, Singly, NEW t \in Emitters, Spills(t)
    PROVE  Singly'
  <1>1. spill \in Seq(emitted) /\ item[t] \in emitted /\ emitted' = emitted /\ item[t] # NoEvent
    BY DEF Hands, Singly, Spills
  <1>2. /\ spill' \in Seq(emitted) /\ Len(spill') = Len(spill) + 1
        /\ \A i \in 1..Len(spill) : spill'[i] = spill[i]
        /\ spill'[Len(spill) + 1] = item[t]
    BY <1>1 DEF Spills
  <1>3. \A u \in Emitters : item'[u] = IF u = t THEN NoEvent ELSE item[u]
    BY DEF Hands, Spills, EmitReturned
  <1>4. Len(spill) \in Nat
    BY <1>1
  <1>5. \A i \in 1..Len(spill') : i \in 1..Len(spill) \/ i = Len(spill) + 1
    BY <1>2, <1>4
  <1>6. \A i, j \in 1..Len(spill') : spill'[i] = spill'[j] => i = j
    BY <1>2, <1>5 DEF Singly
  <1>7. ASSUME NEW i \in 1..Len(spill'), NEW u \in Emitters
        PROVE  spill'[i] # item'[u]
    <2>1. CASE u = t
      BY <1>1, <1>2, <1>3, <2>1, DrainerEmitsNot DEF Hands
    <2>2. CASE u # t /\ i = Len(spill) + 1
      BY <1>1, <1>2, <1>3, <2>2 DEF Hands
    <2>3. CASE u # t /\ i \in 1..Len(spill)
      BY <1>2, <1>3, <2>3 DEF Singly
    <2> QED
      BY <1>5, <2>1, <2>2, <2>3
  <1> QED
    BY <1>1, <1>2, <1>6, <1>7 DEF Singly

LEMMA EmitSingly ==
    ASSUME Hands, Singly, NEW t, NEW e \in Events, Emit(t, e)
    PROVE  Singly'
  <1>1. /\ t \in Emitters /\ e \notin emitted /\ emitted' = emitted \cup {e} /\ spill' = spill
        /\ \A u \in Emitters : item'[u] = IF u = t THEN e ELSE item[u]
    BY DEF Emit, Hands
  <1>2. spill \in Seq(emitted) /\ \A i \in 1..Len(spill) : spill[i] \in emitted
    BY DEF Singly
  <1>3. spill' \in Seq(emitted')
    BY <1>1, <1>2
  <1>4. \A i \in 1..Len(spill'), u \in Emitters : spill'[i] # item'[u]
    BY <1>1, <1>2 DEF Singly
  <1> QED
    BY <1>1, <1>3, <1>4 DEF Singly

LEMMA CompactsSingly ==
    ASSUME Hands, Singly, Compacts
    PROVE  Singly'
  <1>1. UNCHANGED <<item, emitted>>
    BY DEF Compacts
  <1>2. CASE UNCHANGED spill
    BY <1>1, <1>2, QuietSingly
  <1>3. CASE \E at \in InOrder({i \in 1..Len(spill) : Keeps(i)}) :
               spill' = [n \in DOMAIN at |-> spill[at[n]]]
    <2> DEFINE kept == {i \in 1..Len(spill) : Keeps(i)}
    <2>1. PICK at \in InOrder(kept) : spill' = [n \in DOMAIN at |-> spill[at[n]]]
      BY <1>3
    <2>2. kept \in SUBSET (1..Len(spill)) /\ spill \in Seq(emitted)
      BY DEF Singly
    <2> HIDE DEF kept
    <2>3. /\ spill' \in Seq(emitted)
          /\ \A n \in 1..Len(spill') : at[n] \in kept /\ spill'[n] = spill[at[n]]
          /\ \A n, k \in 1..Len(spill') : at[n] = at[k] => n = k
      BY <2>1, <2>2, Compacting
    <2>4. \A n \in 1..Len(spill') : at[n] \in 1..Len(spill)
      BY <2>2, <2>3
    <2>5. \A n, k \in 1..Len(spill') : spill'[n] = spill'[k] => n = k
      BY <2>3, <2>4 DEF Singly
    <2>6. \A n \in 1..Len(spill'), t \in Emitters : spill'[n] # item[t]
      BY <2>3, <2>4 DEF Singly
    <2> QED
      BY <1>1, <2>3, <2>5, <2>6 DEF Singly
  <1> QED
    BY <1>2, <1>3 DEF Compacts

LEMMA SinglyKept ==
    ASSUME Hands, Singly, [Next]_vars
    PROVE  Singly'
  <1>1. CASE UNCHANGED <<item, emitted, spill>>
    BY <1>1, QuietSingly
  <1>2. CASE Outside \/ UNCHANGED vars
    BY <1>1, <1>2 DEF Outside, streamVars, vars
  <1>3. CASE Restarts
    BY <1>3, QuietSingly DEF Restarts
  <1>4. CASE Next /\ ~Outside /\ ~Restarts
    <2>1. PICK t \in Threads :
             \/ TakesLock(t) \/ Busy(t) \/ Inserts(t) \/ Commits(t)
             \/ Fails(t) \/ FindsItDegraded(t) \/ Heals(t)
             \/ (\E e \in Events : Emit(t, e)) \/ StoreBegins(t)
             \/ t \in Emitters /\ (Spills(t) \/ SpillFails(t))
             \/ t = Drainer /\ (DrainReads \/ Compacts \/ Looks \/ Marks)
      BY <1>4, ThreadStep
    <2>2. CASE \/ TakesLock(t) \/ Busy(t) \/ Inserts(t) \/ Fails(t) \/ FindsItDegraded(t)
               \/ StoreBegins(t) \/ DrainReads \/ Looks \/ Marks
      BY <1>1, <2>2 DEF TakesLock, Busy, Inserts, Fails, FindsItDegraded, StoreBegins,
                        DrainReads, Looks, Marks, Abandons, NextLine
    <2>3. CASE Heals(t)
      BY <1>1, <2>3, HealsLeaves DEF streamVars
    <2>4. CASE Commits(t) \/ SpillFails(t)
      <3>1. UNCHANGED <<spill, emitted>> /\ \A u \in Emitters : item'[u] \in {item[u], NoEvent}
        BY <2>4 DEF Commits, SpillFails, EmitReturned, NextLine, Hands
      <3> QED
        BY <3>1, QuietSingly
    <2>5. CASE (\E e \in Events : Emit(t, e)) \/ (t \in Emitters /\ Spills(t)) \/ Compacts
      BY <2>5, EmitSingly, SpillsSingly, CompactsSingly
    <2> QED
      BY <2>1, <2>2, <2>3, <2>4, <2>5
  <1> QED
    BY <1>2, <1>3, <1>4

-----------------------------------------------------------------------------
(* Pass *)

LEMMA StandPass ==
    ASSUME Pass, UNCHANGED <<spill, snapshot, line, removable>>,
           pc'[Drainer] = pc[Drainer] \/ (pc[Drainer] # "idle" /\ pc'[Drainer] # "spill")
    PROVE  Pass'
  BY DEF Pass

\* A pass that has ended, or not begun.
LEMMA NoPass ==
    ASSUME spill' \in Seq(Events), PassReturns, pc'[Drainer] = "idle"
    PROVE  Pass'
  <1>1. snapshot' = <<>> /\ line' = 1 /\ removable' = {}
    BY DEF PassReturns
  <1>2. snapshot' \in Seq(Events) /\ Len(snapshot') = 0 /\ Len(spill') \in Nat
    BY <1>1
  <1>3. \A i \in 1..Len(snapshot') : snapshot'[i] = spill'[i]
    BY <1>2
  <1> QED
    BY <1>1, <1>2, <1>3 DEF Pass

LEMMA NextLinePass ==
    ASSUME Locking, Hands, Singly, Pass, pc[Drainer] # "idle",
           NEW r \in SUBSET {line}, NextLine(r)
    PROVE  Pass'
  <1>1. UNCHANGED spill /\ spill \in Seq(Events)
    <2>1. emitted \subseteq Events /\ spill \in Seq(emitted)
      BY DEF Hands, Singly
    <2> QED
      BY <2>1, SeqMonotonic DEF NextLine
  <1>2. line \in 1..Len(snapshot) /\ removable \cup r \subseteq 1..Len(snapshot)
    BY LenProperties DEF Pass
  <1>3. CASE line < PassEnd
    <2>1. line + 1 <= Len(snapshot) /\ line + 1 \in Nat \ {0}
      BY <1>2, <1>3, LenProperties, EventAssumption DEF PassEnd, Pass
    <2>2. /\ line' = line + 1 /\ removable' = removable \cup r /\ UNCHANGED snapshot
          /\ pc'[Drainer] = "acquire"
      BY <1>3, ThreadsAre DEF NextLine, Locking, Goto
    <2> QED
      BY <1>1, <1>2, <2>1, <2>2 DEF Pass
  <1>4. CASE ~(line < PassEnd) /\ removable \cup r # {}
    <2>1. /\ UNCHANGED <<line, snapshot>> /\ removable' = removable \cup r
          /\ pc'[Drainer] = "compact"
      BY <1>4, ThreadsAre DEF NextLine, Locking, Goto
    <2> QED
      BY <1>1, <1>2, <2>1 DEF Pass
  <1>5. CASE ~(line < PassEnd) /\ ~(removable \cup r # {})
    <2>1. PassReturns /\ pc'[Drainer] = "idle"
      BY <1>5, ThreadsAre DEF NextLine, Locking, Goto
    <2> QED
      BY <1>1, <2>1, NoPass
  <1> QED
    BY <1>3, <1>4, <1>5

LEMMA DrainReadsPass ==
    ASSUME Locking, Hands, Singly, DrainReads
    PROVE  Pass'
  <1>1. /\ snapshot' = spill /\ spill' = spill /\ line' = 1 /\ removable' = {}
        /\ spill # <<>> /\ pc'[Drainer] = "acquire"
    BY ThreadsAre DEF DrainReads, Locking, Goto
  <1>2. spill \in Seq(Events)
    BY SeqMonotonic DEF Hands, Singly
  <1>3. Len(spill) \in Nat \ {0}
    BY <1>1, <1>2, EmptySeq
  <1> QED
    BY <1>1, <1>2, <1>3 DEF Pass

LEMMA SpillsPass ==
    ASSUME Locking, Hands, Singly, Pass, NEW t \in Emitters, Spills(t)
    PROVE  Pass'
  <1>1. /\ spill \in Seq(emitted) /\ item[t] \in emitted \cup {NoEvent}
        /\ spill' = Append(spill, item[t]) /\ UNCHANGED <<snapshot, line, removable>>
    BY DEF Spills, Hands, Singly, drainVars
  <1>2. spill \in Seq(emitted \cup {NoEvent})
    BY <1>1, SeqMonotonic
  <1>3. /\ Len(spill') = Len(spill) + 1 /\ Len(spill) \in Nat
        /\ \A i \in 1..Len(spill) : spill'[i] = spill[i]
    BY <1>1, <1>2, AppendProperties, LenProperties
  <1>4. pc'[Drainer] = pc[Drainer]
    BY ThreadsAre, DrainerEmitsNot DEF Spills, EmitReturned, Goto, Locking
  <1>5. Len(snapshot) \in Nat
    BY LenProperties DEF Pass
  <1>6. \A i \in 1..Len(snapshot) : i \in 1..Len(spill)
    BY <1>3, <1>5 DEF Pass
  <1> QED
    BY <1>1, <1>3, <1>4, <1>5, <1>6 DEF Pass

\* A thread that is not the drain.
LEMMA OthersPass ==
    ASSUME Locking, Pass, UNCHANGED <<spill, snapshot, line, removable>>,
           NEW t \in Threads \ {Drainer}, NEW s, Goto(t, s)
    PROVE  Pass'
  <1>1. pc'[Drainer] = pc[Drainer]
    BY ThreadsAre DEF Locking, Goto
  <1> QED
    BY <1>1, StandPass

LEMMA AbandonsPass ==
    ASSUME Locking, Hands, Singly, Pass, NEW t \in Threads, pc[t] # "idle", Abandons(t)
    PROVE  Pass'
  <1>1. CASE t = Drainer
    BY <1>1, NextLinePass DEF Abandons
  <1>2. CASE t # Drainer
    <2>1. UNCHANGED <<spill, snapshot, line, removable>> /\ \E s : Goto(t, s)
      BY <1>2 DEF Abandons, drainVars
    <2> QED
      BY <1>2, <2>1, OthersPass
  <1> QED
    BY <1>1, <1>2

LEMMA PassKept ==
    ASSUME StreamInv, Hands, Singly, Hands', Singly', Pass, [Next]_vars
    PROVE  Pass'
  <1> USE DEF StreamInv
  <1>1. CASE UNCHANGED <<pc, spill, drainVars>>
    BY <1>1, StandPass DEF drainVars
  <1>2. CASE Outside \/ UNCHANGED vars
    BY <1>1, <1>2 DEF Outside, streamVars, vars
  <1>3. spill' \in Seq(Events)
    BY SeqMonotonic DEF Hands, Singly
  <1>4. CASE Restarts
    BY <1>3, <1>4, NoPass, ThreadsAre DEF Restarts
  <1>5. CASE Next /\ ~Outside /\ ~Restarts
    <2>1. PICK t \in Threads :
             \/ TakesLock(t) \/ Busy(t) \/ Inserts(t) \/ Commits(t)
             \/ Fails(t) \/ FindsItDegraded(t) \/ Heals(t)
             \/ (\E e \in Events : Emit(t, e)) \/ StoreBegins(t)
             \/ t \in Emitters /\ (Spills(t) \/ SpillFails(t))
             \/ t = Drainer /\ (DrainReads \/ Compacts \/ Looks \/ Marks)
      BY <1>5, ThreadStep
    <2>2. ASSUME UNCHANGED <<spill, drainVars>>, pc[t] # "idle",
                 \E s \in {"query", "insert", "mark", "commit"} : Goto(t, s)
          PROVE  Pass'
      <3>1. pc'[Drainer] = pc[Drainer] \/ (pc[Drainer] # "idle" /\ pc'[Drainer] # "spill")
        BY <2>2, ThreadsAre DEF Locking, Goto
      <3> QED
        BY <2>2, <3>1, StandPass DEF drainVars
    <2>3. CASE TakesLock(t) \/ Inserts(t) \/ (t = Drainer /\ Marks)
      BY <2>2, <2>3 DEF TakesLock, Inserts, AfterInsert, Marks
    <2>4. CASE Busy(t) \/ Fails(t) \/ FindsItDegraded(t)
      <3>1. pc[t] # "idle" /\ (Abandons(t) \/ UNCHANGED <<pc, spill, drainVars>>)
        BY <2>4 DEF Busy, Fails, FindsItDegraded
      <3> QED
        BY <1>1, <3>1, AbandonsPass
    <2>5. CASE Commits(t)
      <3>1. CASE t = Drainer
        BY <2>5, <3>1, NextLinePass DEF Commits
      <3>2. CASE t # Drainer
        <4>1. UNCHANGED <<spill, snapshot, line, removable>> /\ \E s : Goto(t, s)
          BY <2>5, <3>2 DEF Commits, EmitReturned, drainVars
        <4> QED
          BY <3>2, <4>1, OthersPass
      <3> QED
        BY <3>1, <3>2
    <2>6. CASE Heals(t)
      BY <1>1, <2>6, HealsLeaves DEF streamVars
    <2>7. CASE (\E e \in Events : Emit(t, e)) \/ StoreBegins(t) \/ (t \in Emitters /\ SpillFails(t))
      <3>1. /\ t # Drainer /\ UNCHANGED <<spill, snapshot, line, removable>>
            /\ \E s : Goto(t, s)
        BY <2>7, EventAssumption DEF Emit, StoreBegins, SpillFails, EmitReturned, drainVars
      <3> QED
        BY <3>1, OthersPass
    <2>8. CASE t \in Emitters /\ Spills(t)
      BY <2>8, SpillsPass
    <2>9. CASE t = Drainer /\ DrainReads
      BY <2>9, DrainReadsPass
    <2>10. CASE t = Drainer /\ Compacts
      <3>1. PassReturns /\ pc'[Drainer] = "idle"
        BY <2>10, ThreadsAre DEF Compacts, Locking, Goto
      <3> QED
        BY <1>3, <3>1, NoPass
    <2>11. CASE t = Drainer /\ Looks
      <3>1. pc[Drainer] = "query"
        BY <2>11 DEF Looks
      <3>2. CASE NextLine(WhenPresent)
        BY <3>1, <3>2, NextLinePass DEF WhenPresent
      <3>3. CASE Goto(Drainer, "insert") /\ UNCHANGED <<spill, drainVars>>
        BY <2>2, <2>11, <3>1, <3>3
      <3> QED
        BY <2>11, <3>2, <3>3 DEF Looks
    <2> QED
      BY <2>1, <2>3, <2>4, <2>5, <2>6, <2>7, <2>8, <2>9, <2>10, <2>11
  <1> QED
    BY <1>2, <1>4, <1>5

-----------------------------------------------------------------------------
(* Ledger *)

LEMMA WritesAre ==
    \A e \in Events : /\ Row(e) \in Writes /\ Marker(e) \in Writes
                      /\ \A d \in Events : Row(e) # Marker(d)
                      /\ \A d \in Events : Row(e) = Row(d) => e = d
                      /\ \A d \in Events : Marker(e) = Marker(d) => e = d
  BY EventAssumption DEF Row, Marker

\* Steps that leave the database as it is.
LEMMA QuietLedger ==
    ASSUME Ledger, Hands, UNCHANGED <<table, voidWrites>>, emitted \subseteq emitted',
           \A t \in Emitters : item'[t] \in {item[t], NoEvent} \cup (Events \ emitted),
           \A e \in Lines' : e \in Lines \/ \E t \in Emitters : item[t] # NoEvent /\ e = item[t],
           pc'[Drainer] \in Replaying =>
               \/ pc[Drainer] \in Replaying /\ LineStays
               \/ table[Marker(Subject(Drainer)')] = 0,
           \A i \in removable' :
               \/ i \in removable /\ snapshot'[i] = snapshot[i]
               \/ Settled(snapshot'[i])
    PROVE  Ledger'
  <1>1. \A e : (Untouched(e)' <=> Untouched(e)) /\ (Settled(e)' <=> Settled(e))
    BY DEF Untouched, Settled, IsVoid, Row, Marker
  <1>2. AtMostOnce'
    BY DEF Ledger, AtMostOnce, Row
  <1>3. \A e \in Events \ emitted' : Untouched(e)'
    BY <1>1 DEF Ledger
  <1>4. ASSUME NEW t \in Emitters, item'[t] # NoEvent
        PROVE  Untouched(item[t])'
    <2>1. CASE item'[t] = item[t]
      BY <1>1, <1>4, <2>1 DEF Ledger
    <2>2. CASE item'[t] \in Events \ emitted
      BY <1>1, <2>2 DEF Ledger
    <2> QED
      BY <1>4, <2>1, <2>2
  <1>5. ASSUME NEW e \in Lines'
        PROVE  table'[Row(e)] = table'[Marker(e)]
    <2>1. CASE e \in Lines
      BY <2>1 DEF Ledger
    <2>2. CASE \E t \in Emitters : item[t] # NoEvent /\ e = item[t]
      BY <2>2 DEF Ledger, Untouched
    <2> QED
      BY <1>5, <2>1, <2>2
  <1>6. ASSUME pc'[Drainer] \in Replaying
        PROVE  table'[Marker(Subject(Drainer))'] = 0
    BY <1>6 DEF Ledger, Subject, LineStays, Marker
  <1>7. \A i \in removable' : Settled(snapshot[i])'
    BY <1>1 DEF Ledger
  <1>8. /\ voidWrites' \subseteq Writes \X Nat
        /\ \A e \in Events, log \in Nat :
             <<Marker(e), log>> \in voidWrites' => <<Row(e), log>> \in voidWrites'
    BY DEF Ledger
  <1> QED
    BY <1>2, <1>3, <1>4, <1>5, <1>6, <1>7, <1>8 DEF Ledger, Row, Marker, Replaying

\* What a commit about the event e leaves of another.
Same(d) == /\ table'[Row(d)] = table[Row(d)] /\ table'[Marker(d)] = table[Marker(d)]
           /\ IsVoid(Row(d))' <=> IsVoid(Row(d))

LEMMA CommitLedger ==
    ASSUME Ledger, Hands, Singly, UNCHANGED <<spill, emitted>>, NEW e \in emitted,
           \A d \in Events \ {e} : Same(d),
           table'[Row(e)] <= 1, Settled(e)',
           e \in Lines => table'[Row(e)] = table'[Marker(e)],
           \A t \in Emitters : /\ item'[t] \in {item[t], NoEvent}
                               /\ item[t] = e => item'[t] = NoEvent,
           pc'[Drainer] \notin Replaying,
           \A i \in removable' : \/ i \in removable /\ snapshot'[i] = snapshot[i]
                                 \/ snapshot'[i] = e,
           \A i \in removable : snapshot[i] \in Events,
           voidWrites' \subseteq Writes \X Nat,
           \A d \in Events, log \in Nat :
             <<Marker(d), log>> \in voidWrites' => <<Row(d), log>> \in voidWrites'
    PROVE  Ledger'
  <1>1. \A d \in Events \ {e} : (Untouched(d)' <=> Untouched(d)) /\ (Settled(d)' <=> Settled(d))
    BY DEF Same, Untouched, Settled, Row, Marker
  <1>2. \A d \in Events : table'[Row(d)] <= 1
    BY DEF Ledger, AtMostOnce, Same
  <1>3. \A d \in Events \ emitted' : Untouched(d)'
    BY <1>1 DEF Ledger
  <1>4. ASSUME NEW t \in Emitters, item'[t] # NoEvent
        PROVE  Untouched(item[t])'
    <2>1. item'[t] = item[t] /\ item[t] # e /\ item[t] \in Events
      BY <1>4 DEF Hands
    <2>2. Untouched(item[t])
      BY <1>4, <2>1 DEF Ledger
    <2> QED
      BY <1>1, <2>1, <2>2
  <1>5. Lines' = Lines /\ Lines \subseteq Events
    <2>1. \A i \in 1..Len(spill) : spill[i] \in emitted
      BY DEF Singly
    <2> QED
      BY <2>1 DEF Lines, Hands
  <1>6. \A d \in Lines : table'[Row(d)] = table'[Marker(d)]
    BY <1>5 DEF Ledger, Same
  <1>7. ASSUME NEW i \in removable'
        PROVE  Settled(snapshot[i])'
    <2>1. CASE snapshot'[i] = e
      BY <2>1
    <2>2. CASE i \in removable /\ snapshot'[i] = snapshot[i] /\ snapshot[i] # e
      BY <1>1, <2>2 DEF Ledger
    <2> QED
      BY <2>1, <2>2
  <1> QED
    BY <1>2, <1>3, <1>4, <1>5, <1>6, <1>7 DEF Ledger, AtMostOnce, Row, Marker, Replaying

\* The drain has what it read in front of it.
LEMMA SubjectIs ==
    ASSUME Hands, Singly, Pass, pc[Drainer] # "idle"
    PROVE  /\ line \in 1..Len(snapshot) /\ line \in 1..Len(spill)
           /\ Subject(Drainer) = snapshot[line] /\ Subject(Drainer) = spill[line]
           /\ Subject(Drainer) \in Lines /\ Subject(Drainer) \in emitted
           /\ Subject(Drainer) \in Events
  <1>1. Len(snapshot) \in Nat /\ Len(spill) \in Nat
    BY LenProperties DEF Singly, Pass
  <1>2. line \in 1..Len(snapshot) /\ line \in 1..Len(spill)
    BY <1>1 DEF Pass
  <1>3. spill[line] \in emitted
    BY <1>2, ElementOfSeq DEF Singly
  <1> QED
    BY <1>2, <1>3 DEF Subject, Lines, Pass, Hands

\* What NextLine does to the indexes.
LEMMA NextLineMarks ==
    ASSUME Locking, NEW r, NextLine(r)
    PROVE  /\ UNCHANGED <<item, emitted, spill>> /\ Lines' = Lines
           /\ pc'[Drainer] \notin Replaying
           /\ \A i \in removable' : i \in removable \cup r /\ snapshot'[i] = snapshot[i]
  <1>1. UNCHANGED <<item, emitted, spill>>
    BY DEF NextLine
  <1>2. pc'[Drainer] \notin Replaying
    BY ThreadsAre DEF NextLine, Goto, Locking, Replaying
  <1>3. \A i \in removable' : i \in removable \cup r /\ snapshot'[i] = snapshot[i]
    BY DEF NextLine, PassReturns
  <1> QED
    BY <1>1, <1>2, <1>3 DEF Lines

LEMMA AbandonsLedger ==
    ASSUME Locking, Hands, Ledger, UNCHANGED <<table, voidWrites>>,
           NEW t \in Threads, Abandons(t)
    PROVE  Ledger'
  <1>1. CASE t = Drainer
    BY <1>1, NextLineMarks, QuietLedger DEF Abandons
  <1>2. CASE t # Drainer
    <2>1. UNCHANGED <<item, emitted, spill, drainVars>> /\ pc'[Drainer] = pc[Drainer]
      BY <1>2, ThreadsAre DEF Abandons, Goto, Locking
    <2>2. Lines' = Lines
      BY <2>1 DEF Lines
    <2> QED
      BY <2>1, <2>2, QuietLedger DEF drainVars, LineStays
  <1> QED
    BY <1>1, <1>2

\* A thread goes on, and nothing that counts is changed.
LEMMA MovesLedger ==
    ASSUME Locking, Hands, Ledger, UNCHANGED <<table, voidWrites, item, emitted, spill, drainVars>>,
           pc'[Drainer] \in Replaying => pc[Drainer] \in Replaying
    PROVE  Ledger'
  <1>1. Lines' = Lines
    BY DEF Lines
  <1> QED
    BY <1>1, QuietLedger DEF drainVars, LineStays

LEMMA LooksLedger ==
    ASSUME DbInv, StreamInv, Hands, Singly, Pass, Ledger, Looks
    PROVE  Ledger'
  <1>1. /\ pc[Drainer] = "query" /\ UNCHANGED <<table, voidWrites>>
        /\ Subject(Drainer) \in Events /\ Subject(Drainer) = snapshot[line]
    BY SubjectIs DEF Looks, Query, fate
  <1>2. CASE Sees(Marker(Subject(Drainer))) /\ NextLine(WhenPresent)
    <2>1. Settled(Subject(Drainer))
      <3>1. CASE table[Marker(Subject(Drainer))] > 0
        BY <1>1, <3>1 DEF Settled, StreamInv, MarkedIsStored
      <3>2. CASE <<Marker(Subject(Drainer)), conn>> \in voidWrites
        <4>1. <<Row(Subject(Drainer)), conn>> \in voidWrites
          BY <1>1, <3>2 DEF Ledger, DbInv, DbTyped
        <4> QED
          BY <4>1 DEF Settled, IsVoid
      <3> QED
        BY <1>2, <3>1, <3>2 DEF Sees
    <2> QED
      BY <1>1, <1>2, <2>1, NextLineMarks, QuietLedger DEF StreamInv, WhenPresent
  <1>3. CASE /\ ~Sees(Marker(Subject(Drainer))) /\ Goto(Drainer, "insert")
             /\ UNCHANGED <<item, emitted, spill, drainVars>>
    <2>1. table[Marker(Subject(Drainer))] = 0
      BY <1>1, <1>3, WritesAre DEF Sees, DbInv, DbTyped
    <2>2. Subject(Drainer)' = Subject(Drainer) /\ Lines' = Lines
      BY <1>3 DEF Subject, Lines, drainVars
    <2> QED
      BY <1>1, <1>3, <2>1, <2>2, QuietLedger DEF drainVars
  <1> QED
    BY <1>2, <1>3 DEF Looks

\* What a commit does, write by write.
LEMMA CommitWrites ==
    ASSUME DbInv, NEW t, Commit(t)
    PROVE  \/ /\ \A w \in Writes : table'[w] = IF w \in txn THEN table[w] + 1 ELSE table[w]
              /\ voidWrites' = voidWrites
           \/ /\ table' = table
              /\ voidWrites' = voidWrites \cup ((txn \cap Writes) \X {conn})
  BY DEF Commit, DbInv, DbTyped

LEMMA CommitVoids ==
    ASSUME DbTyped, Ledger, NEW t, Commit(t), \A e \in Events : Marker(e) \in txn => Row(e) \in txn
    PROVE  /\ voidWrites' \subseteq Writes \X Nat
           /\ \A e \in Events, log \in Nat :
                <<Marker(e), log>> \in voidWrites' => <<Row(e), log>> \in voidWrites'
  <1>1. voidWrites' = voidWrites \/ voidWrites' = voidWrites \cup ((txn \cap Writes) \X {conn})
    BY DEF Commit
  <1>2. conn \in Nat
    BY DEF DbTyped
  <1> QED
    BY <1>1, <1>2, WritesAre DEF Ledger

\* An event of which the transaction knows nothing.
LEMMA CommitSame ==
    ASSUME DbInv, NEW t, Commit(t), NEW d \in Events, Row(d) \notin txn, Marker(d) \notin txn
    PROVE  Same(d)
  <1>1. Row(d) \in Writes /\ Marker(d) \in Writes
    BY WritesAre
  <1>2. table'[Row(d)] = table[Row(d)] /\ table'[Marker(d)] = table[Marker(d)]
    BY <1>1, CommitWrites
  <1>3. \A x : x[1] = Row(d) => (x \in voidWrites' <=> x \in voidWrites)
    BY CommitWrites
  <1>4. IsVoid(Row(d))' <=> IsVoid(Row(d))
    BY <1>3 DEF IsVoid, Row
  <1> QED
    BY <1>2, <1>4 DEF Same

\* An emitter commits the row of its event, which was nowhere.
LEMMA EmitterWrites ==
    ASSUME DbInv, Drafts, Hands, Singly, Ledger, NEW t \in Emitters, Commits(t)
    PROVE  \E e \in emitted : /\ e = item[t] /\ e # NoEvent /\ e \notin Lines /\ Untouched(e)
                              /\ \A d \in Events \ {e} : Same(d)
                              /\ table'[Row(e)] <= 1 /\ Settled(e)'
  <1>1. /\ t \in Threads /\ t # Drainer /\ t \notin Stores
        /\ pc[t] = "commit" /\ lock = t /\ Commit(t) /\ EmitReturned(t)
    BY EventAssumption DEF Commits, Commit, Operational
  <1>2. PICK e \in Events : e = item[t] /\ e \in emitted /\ e # NoEvent
    BY <1>1 DEF Hands
  <1>3. \A w \in Writes : w \in txn <=> w = Row(e)
    BY <1>1, <1>2, RuntimeDbAssumption, FollowedAre DEF Drafts, Draft, Inside, Followed
  <1>4. Untouched(e) /\ Row(e) \in Writes
    BY <1>2, WritesAre DEF Ledger
  <1>5. \A d \in Events \ {e} : Same(d)
    BY <1>1, <1>2, <1>3, WritesAre, CommitSame
  <1>6. table'[Row(e)] <= 1 /\ Settled(e)'
    <2>1. CASE \A w \in Writes : table'[w] = IF w \in txn THEN table[w] + 1 ELSE table[w]
      <3>1. table'[Row(e)] = 1
        BY <1>3, <1>4, <2>1 DEF Untouched
      <3> QED
        BY <3>1 DEF Settled, Row
    <2>2. CASE /\ table' = table
               /\ voidWrites' = voidWrites \cup ((txn \cap Writes) \X {conn})
      <3>1. <<Row(e), conn>> \in voidWrites'
        BY <1>3, <1>4, <2>2
      <3>2. IsVoid(Row(e))'
        BY <3>1 DEF IsVoid, Row
      <3> QED
        BY <1>4, <2>2, <3>2 DEF Settled, Untouched
    <2> QED
      BY <1>1, <2>1, <2>2, CommitWrites
  <1>7. e \notin Lines
    BY <1>2 DEF Singly, Lines
  <1> QED
    BY <1>2, <1>4, <1>5, <1>6, <1>7

LEMMA EmitterCommits ==
    ASSUME DbInv, StreamInv, Drafts, Hands, Singly, Pass, Ledger,
           NEW t \in Emitters, Commits(t)
    PROVE  Ledger'
  <1>1. /\ t \in Threads /\ t # Drainer /\ t \notin Stores
        /\ pc[t] = "commit" /\ lock = t /\ Commit(t) /\ EmitReturned(t)
        /\ UNCHANGED <<emitted, spill, snapshot, line, removable>>
    BY EventAssumption DEF Commits, Commit, Operational, drainVars
  <1>2. PICK e \in emitted : /\ e = item[t] /\ e # NoEvent /\ e \notin Lines
                             /\ \A d \in Events \ {e} : Same(d)
                             /\ table'[Row(e)] <= 1 /\ Settled(e)'
    BY EmitterWrites
  <1>3. \A u \in Emitters : item'[u] = IF u = t THEN NoEvent ELSE item[u]
    BY <1>1 DEF Hands, EmitReturned
  <1>4. \A u \in Emitters : item[u] = e => u = t
    BY <1>2 DEF Hands
  <1>5. pc'[Drainer] \notin Replaying
    BY <1>1, ThreadsAre DEF StreamInv, Locking, EmitReturned, Goto, Inside, Replaying
  <1>6. \A i \in removable : snapshot[i] \in Events
    BY ElementOfSeq DEF Pass
  <1>7. \A d \in Events : Marker(d) \in txn => Row(d) \in txn
    BY DEF StreamInv, Whole
  <1> QED
    BY <1>1, <1>2, <1>3, <1>4, <1>5, <1>6, <1>7, CommitLedger, CommitVoids DEF DbInv

\* The drain commits the row and the marker of its line, which had neither.
LEMMA DrainWrites ==
    ASSUME DbInv, Drafts, Hands, Singly, Pass, Ledger, Commits(Drainer)
    PROVE  \E e \in emitted : /\ e \in Lines /\ e = snapshot[line]
                              /\ e = spill[line] /\ line \in 1..Len(spill)
                              /\ table[Row(e)] = 0
                              /\ \A d \in Events \ {e} : Same(d)
                              /\ table'[Row(e)] <= 1 /\ table'[Row(e)] = table'[Marker(e)]
                              /\ Settled(e)'
  <1>1. /\ pc[Drainer] = "commit" /\ lock = Drainer /\ Commit(Drainer)
        /\ Drainer \notin Emitters /\ Drainer \notin Stores
    BY EventAssumption DEF Commits, Commit, Operational
  <1>2. PICK e \in Events : /\ e = Subject(Drainer) /\ e \in emitted /\ e \in Lines
                             /\ e = snapshot[line] /\ e = spill[line] /\ line \in 1..Len(spill)
    BY <1>1, SubjectIs
  <1>3. \A w \in Writes : w \in txn <=> w \in {Row(e), Marker(e)}
    BY <1>1, <1>2, ThreadsAre, RuntimeDbAssumption, FollowedAre
       DEF Drafts, Draft, Inside, Followed
  <1>4. /\ table[Marker(e)] = 0 /\ table[Row(e)] = 0
        /\ Row(e) \in Writes /\ Marker(e) \in Writes
    BY <1>1, <1>2, WritesAre DEF Ledger, Replaying
  <1>5. \A d \in Events \ {e} : Same(d)
    BY <1>1, <1>2, <1>3, WritesAre, CommitSame
  <1>6. /\ table'[Row(e)] <= 1 /\ table'[Row(e)] = table'[Marker(e)]
        /\ Settled(e)'
    <2>1. CASE \A w \in Writes : table'[w] = IF w \in txn THEN table[w] + 1 ELSE table[w]
      <3>1. table'[Row(e)] = 1 /\ table'[Marker(e)] = 1
        BY <1>3, <1>4, <2>1
      <3> QED
        BY <3>1 DEF Settled, Row
    <2>2. CASE /\ table' = table
               /\ voidWrites' = voidWrites \cup ((txn \cap Writes) \X {conn})
      <3>1. <<Row(e), conn>> \in voidWrites'
        BY <1>3, <1>4, <2>2
      <3>2. IsVoid(Row(e))'
        BY <3>1 DEF IsVoid, Row
      <3> QED
        BY <1>4, <2>2, <3>2 DEF Settled
    <2> QED
      BY <1>1, <2>1, <2>2, CommitWrites
  <1> QED
    BY <1>2, <1>4, <1>5, <1>6

LEMMA DrainCommits ==
    ASSUME DbInv, StreamInv, Drafts, Hands, Singly, Pass, Ledger, Commits(Drainer)
    PROVE  Ledger'
  <1>1. Commit(Drainer) /\ NextLine({line})
    BY DEF Commits
  <1>2. PICK e \in emitted : /\ e = snapshot[line]
                             /\ e = spill[line] /\ line \in 1..Len(spill)
                             /\ \A d \in Events \ {e} : Same(d)
                             /\ table'[Row(e)] <= 1 /\ table'[Row(e)] = table'[Marker(e)]
                             /\ Settled(e)'
    BY DrainWrites
  <1>3. /\ UNCHANGED <<item, emitted, spill>> /\ pc'[Drainer] \notin Replaying
        /\ \A i \in removable' : i \in removable \cup {line} /\ snapshot'[i] = snapshot[i]
    BY <1>1, NextLineMarks DEF StreamInv
  <1>4. \A u \in Emitters : item[u] # e
    BY <1>2 DEF Singly
  <1>5. \A i \in removable : snapshot[i] \in Events
    BY ElementOfSeq DEF Pass
  <1>6. \A d \in Events : Marker(d) \in txn => Row(d) \in txn
    BY DEF StreamInv, Whole
  <1>7. \A i \in removable' : (i \in removable /\ snapshot'[i] = snapshot[i]) \/ snapshot'[i] = e
    BY <1>2, <1>3
  <1> QED
    BY <1>1, <1>2, <1>3, <1>4, <1>5, <1>6, <1>7, CommitLedger, CommitVoids DEF DbInv

\* Another store has nothing in its transaction that counts.
LEMMA StoreWrites ==
    ASSUME DbInv, Drafts, NEW t \in Stores, Commits(t)
    PROVE  UNCHANGED <<table, voidWrites, item, emitted, spill, drainVars>>
  <1>1. /\ t \in Threads /\ t # Drainer /\ t \notin Emitters
        /\ pc[t] = "commit" /\ lock = t /\ Commit(t)
        /\ UNCHANGED <<item, emitted, spill, drainVars>>
    BY EventAssumption DEF Commits, Commit, Operational
  <1>2. Followed(txn) = {}
    BY <1>1 DEF Drafts, Draft, Inside
  <1>3. \A w \in Writes : w \notin txn
    BY <1>2, RuntimeDbAssumption DEF Followed
  <1>4. table' = table
    BY <1>1, <1>3 DEF Commit, DbInv, DbTyped
  <1>5. voidWrites' = voidWrites
    BY <1>1, <1>3 DEF Commit
  <1> QED
    BY <1>1, <1>4, <1>5

LEMMA StoreCommits ==
    ASSUME DbInv, StreamInv, Drafts, Hands, Ledger, NEW t \in Stores, Commits(t)
    PROVE  Ledger'
  <1>1. t \in Threads /\ t # Drainer /\ t \notin Emitters /\ Goto(t, "idle")
    BY EventAssumption DEF Commits
  <1>2. pc'[Drainer] = pc[Drainer]
    BY <1>1, ThreadsAre DEF StreamInv, Locking, Goto
  <1> QED
    BY <1>2, StoreWrites, MovesLedger DEF StreamInv

\* The compaction takes lines and adds none; those it keeps are there.
LEMMA CompactsLines ==
    ASSUME Singly, Compacts
    PROVE  /\ Lines' \subseteq Lines
           /\ \A i \in 1..Len(spill) : Keeps(i) => spill[i] \in Lines'
  <1>1. CASE UNCHANGED spill
    BY <1>1 DEF Lines
  <1>2. CASE \E at \in InOrder({i \in 1..Len(spill) : Keeps(i)}) :
               spill' = [n \in DOMAIN at |-> spill[at[n]]]
    <2> DEFINE kept == {i \in 1..Len(spill) : Keeps(i)}
    <2>1. PICK at \in InOrder(kept) : spill' = [n \in DOMAIN at |-> spill[at[n]]]
      BY <1>2
    <2>2. kept \in SUBSET (1..Len(spill)) /\ spill \in Seq(emitted)
      BY DEF Singly
    <2>3. \A i \in 1..Len(spill) : Keeps(i) => i \in kept
      OBVIOUS
    <2> HIDE DEF kept
    <2>4. /\ spill' \in Seq(emitted)
          /\ \A n \in 1..Len(spill') : at[n] \in kept /\ spill'[n] = spill[at[n]]
      BY <2>1, <2>2, Compacting
    <2>5. ASSUME NEW d \in Lines'
          PROVE  d \in Lines
      <3>1. PICK n \in 1..Len(spill') : d = spill'[n]
        BY DEF Lines
      <3>2. at[n] \in 1..Len(spill) /\ d = spill[at[n]]
        BY <2>2, <2>4, <3>1
      <3> QED
        BY <3>2 DEF Lines
    <2>6. DOMAIN at = 1..Len(spill')
      <3>1. DOMAIN spill' = DOMAIN at
        BY <2>1
      <3> QED
        BY <2>4, <3>1, LenProperties
    <2>7. ASSUME NEW i \in 1..Len(spill), Keeps(i)
          PROVE  spill[i] \in Lines'
      <3>1. PICK n \in DOMAIN at : at[n] = i
        BY <2>1, <2>3, <2>7 DEF InOrder
      <3>2. n \in 1..Len(spill') /\ spill'[n] = spill[i]
        BY <2>4, <2>6, <3>1
      <3> QED
        BY <3>2 DEF Lines
    <2> QED
      BY <2>5, <2>7
  <1> QED
    BY <1>1, <1>2 DEF Compacts

LEMMA CompactsLedger ==
    ASSUME Locking, Hands, Singly, Ledger, Compacts
    PROVE  Ledger'
  <1>1. /\ UNCHANGED <<table, voidWrites, item, emitted>> /\ removable' = {}
        /\ Goto(Drainer, "idle")
    BY DEF Compacts, dbVars, fate, PassReturns
  <1>2. pc'[Drainer] \notin Replaying
    BY <1>1, ThreadsAre DEF Locking, Goto, Replaying
  <1> QED
    BY <1>1, <1>2, CompactsLines, QuietLedger

LEMMA SpillsLedger ==
    ASSUME Locking, Hands, Singly, Ledger, NEW t \in Emitters, Spills(t)
    PROVE  Ledger'
  <1>1. /\ UNCHANGED <<table, voidWrites, emitted, drainVars>> /\ item[t] # NoEvent
        /\ item[t] \in emitted /\ spill' = Append(spill, item[t])
        /\ \A u \in Emitters : item'[u] \in {item[u], NoEvent}
    BY DEF Spills, EmitReturned, Hands, dbVars, fate
  <1>2. pc'[Drainer] = pc[Drainer]
    BY ThreadsAre, DrainerEmitsNot DEF Locking, Spills, EmitReturned, Goto
  <1>3. \A d \in Lines' : d \in Lines \/ d = item[t]
    <2>1. /\ Len(spill') = Len(spill) + 1 /\ Len(spill) \in Nat
          /\ \A i \in 1..Len(spill) : spill'[i] = spill[i]
          /\ spill'[Len(spill) + 1] = item[t]
      BY <1>1, AppendProperties, LenProperties DEF Singly
    <2>2. \A i \in 1..Len(spill') : i \in 1..Len(spill) \/ i = Len(spill) + 1
      BY <2>1
    <2> QED
      BY <2>1, <2>2 DEF Lines
  <1> QED
    BY <1>1, <1>2, <1>3, QuietLedger DEF drainVars, LineStays

LEMMA LedgerKept ==
    ASSUME DbInv, StreamInv, Drafts, Hands, Singly, Pass, Ledger, [Next]_vars
    PROVE  Ledger'
  <1> USE DEF StreamInv
  <1>1. CASE UNCHANGED <<table, voidWrites, streamVars>>
    BY <1>1, MovesLedger DEF streamVars
  <1>2. CASE Outside \/ UNCHANGED vars
    BY <1>1, <1>2 DEF Outside, SwapLog, vars, dbVars, fate
  <1>3. CASE Restarts
    <2>1. /\ UNCHANGED <<table, voidWrites, emitted, spill>> /\ removable' = {}
          /\ \A t \in Emitters : item'[t] = NoEvent
          /\ pc'[Drainer] \notin Replaying
      BY <1>3, ThreadsAre DEF Restarts, DbRestart, PassReturns, fate, Replaying
    <2>2. Lines' = Lines
      BY <2>1 DEF Lines
    <2> QED
      BY <2>1, <2>2, QuietLedger
  <1>4. CASE Next /\ ~Outside /\ ~Restarts
    <2>1. PICK t \in Threads :
             \/ TakesLock(t) \/ Busy(t) \/ Inserts(t) \/ Commits(t)
             \/ Fails(t) \/ FindsItDegraded(t) \/ Heals(t)
             \/ (\E e \in Events : Emit(t, e)) \/ StoreBegins(t)
             \/ t \in Emitters /\ (Spills(t) \/ SpillFails(t))
             \/ t = Drainer /\ (DrainReads \/ Compacts \/ Looks \/ Marks)
      BY <1>4, ThreadStep
    <2>2. CASE TakesLock(t) \/ Inserts(t) \/ (t = Drainer /\ Marks) \/ StoreBegins(t)
      <3>1. UNCHANGED <<table, voidWrites, item, emitted, spill, drainVars>>
        BY <2>2 DEF TakesLock, Inserts, Marks, StoreBegins, Execute, dbVars, fate
      <3>2. pc'[Drainer] \in Replaying => pc[Drainer] \in Replaying
        BY <2>2, ThreadsAre, EventAssumption
           DEF TakesLock, Inserts, Marks, StoreBegins, Goto, Locking, AfterInsert, Replaying
      <3> QED
        BY <3>1, <3>2, MovesLedger
    <2>3. CASE Busy(t) \/ Fails(t) \/ FindsItDegraded(t)
      <3>1. UNCHANGED <<table, voidWrites>>
        BY <2>3 DEF Busy, Fails, FindsItDegraded, StatementFails, dbVars, fate
      <3>2. CASE Abandons(t)
        BY <3>1, <3>2, AbandonsLedger
      <3>3. CASE Busy(t) /\ UNCHANGED <<pc, item, emitted, spill, drainVars>>
        BY <3>1, <3>3, MovesLedger
      <3> QED
        BY <2>3, <3>2, <3>3 DEF Busy, Fails, FindsItDegraded
    <2>4. CASE Commits(t)
      BY <2>4, EmitterCommits, DrainCommits, StoreCommits, EventAssumption
    <2>5. CASE Heals(t)
      BY <1>1, <2>5, HealsLeaves DEF fate
    <2>6. CASE \E e \in Events : Emit(t, e)
      <3>1. /\ UNCHANGED <<table, voidWrites, spill, drainVars>> /\ emitted \subseteq emitted'
            /\ \A u \in Emitters : item'[u] \in {item[u]} \cup (Events \ emitted)
        BY <2>6 DEF Emit, Hands, dbVars, fate
      <3>2. pc'[Drainer] = pc[Drainer]
        BY <2>6, ThreadsAre, DrainerEmitsNot DEF Emit, Goto, Locking
      <3>3. Lines' = Lines
        BY <3>1 DEF Lines
      <3> QED
        BY <3>1, <3>2, <3>3, QuietLedger DEF drainVars, LineStays
    <2>7. CASE t \in Emitters /\ SpillFails(t)
      <3>1. /\ UNCHANGED <<table, voidWrites, emitted, spill, drainVars>>
            /\ \A u \in Emitters : item'[u] \in {item[u], NoEvent}
        BY <2>7 DEF SpillFails, EmitReturned, Hands, dbVars, fate
      <3>2. pc'[Drainer] = pc[Drainer]
        BY <2>7, ThreadsAre, DrainerEmitsNot DEF SpillFails, EmitReturned, Goto, Locking
      <3>3. Lines' = Lines
        BY <3>1 DEF Lines
      <3> QED
        BY <3>1, <3>2, <3>3, QuietLedger DEF drainVars, LineStays
    <2>8. CASE t = Drainer /\ DrainReads
      <3>1. /\ UNCHANGED <<table, voidWrites, item, emitted, spill>> /\ removable' = {}
            /\ pc'[Drainer] \notin Replaying
        BY <2>8, ThreadsAre DEF DrainReads, Goto, Locking, dbVars, fate, Replaying
      <3>2. Lines' = Lines
        BY <3>1 DEF Lines
      <3> QED
        BY <3>1, <3>2, QuietLedger
    <2>9. CASE (t \in Emitters /\ Spills(t)) \/ (t = Drainer /\ (Compacts \/ Looks))
      BY <2>9, SpillsLedger, CompactsLedger, LooksLedger
    <2> QED
      BY <2>1, <2>2, <2>3, <2>4, <2>5, <2>6, <2>7, <2>8, <2>9
  <1> QED
    BY <1>2, <1>3, <1>4

-----------------------------------------------------------------------------
(* Ranges *)

\* What is left of the types of the database.
DbRanges == /\ lock \in Threads \cup {NoThread}
            /\ latch \in Reasons /\ errors \in Nat /\ healed \in BOOLEAN
            /\ depth <= RecursionLimit
            /\ conn = Closed => latch # "none"

LEMMA HealsRanges ==
    ASSUME DbInv, DbRanges, NEW t, Healing(t) \/ HealPersistentLock(t)
    PROVE  DbRanges'
  <1>1. lock' = lock /\ latch' \in Reasons
    BY DEF Healing, ReconnectAfterSwap, SinkEnds, ReconnectFails, HealPersistentLock, health,
           DbRanges, Reasons
  <1>2. errors' \in Nat
    BY DEF Healing, ReconnectAfterSwap, SinkEnds, ReconnectFails, HealPersistentLock, health,
           Succeeds, DbRanges
  <1>3. healed' \in BOOLEAN
    BY DEF Healing, ReconnectAfterSwap, SinkEnds, ReconnectFails, HealPersistentLock, health,
           Succeeds, DbRanges
  <1>4. depth' <= RecursionLimit
    BY RuntimeDbAssumption DEF Healing, ReconnectAfterSwap, SinkEnds, ReconnectFails,
       HealPersistentLock, DbRanges, DbInv, DbTyped
  <1>5. conn' = Closed => latch' # "none"
    BY DEF Healing, ReconnectAfterSwap, SinkEnds, ReconnectFails, HealPersistentLock, health,
           DbRanges, DbInv, DbTyped, Closed
  <1> QED
    BY <1>1, <1>2, <1>3, <1>4, <1>5 DEF DbRanges

LEMMA StatementRanges ==
    ASSUME DbRanges, NEW t, NEW w, lock' \in Threads \cup {NoThread},
           Execute(t, w) \/ Query(t) \/ Commit(t) \/ StatementFails(t)
    PROVE  DbRanges'
  <1>1. /\ UNCHANGED <<conn, depth>> /\ conn # Closed
        /\ latch' = latch \/ latch' \in {"persistent_lock", "sqlite_ioerr"}
    BY DEF Execute, Query, Commit, StatementFails, Operational, file
  <1>2. errors' \in Nat
    BY DEF Execute, Query, Commit, StatementFails, Succeeds, DbRanges
  <1>3. healed' \in BOOLEAN
    BY DEF Execute, Query, Commit, StatementFails, Succeeds, DbRanges
  <1> QED
    BY <1>1, <1>2, <1>3 DEF DbRanges, Reasons

LEMMA DbRangesKept ==
    ASSUME IInv, DbRanges, [Next]_vars
    PROVE  DbRanges'
  <1>1. CASE UNCHANGED <<lock, health, conn, depth>>
    BY <1>1 DEF DbRanges, health
  <1>2. CASE Outside \/ UNCHANGED vars
    BY <1>1, <1>2 DEF Outside, SwapLog, vars, dbVars, file
  <1>3. CASE Restarts
    <2>1. /\ lock' = NoThread /\ conn' = disk /\ latch' = "none" /\ errors' = 0 /\ depth' = 0
          /\ healed' = FALSE
      BY <1>3 DEF Restarts, DbRestart
    <2>2. healed' \in BOOLEAN
      BY <2>1, Zenon
    <2>3. conn' # Closed
      BY <2>1 DEF IInv, DbInv, DbTyped, Closed
    <2>4. depth' <= RecursionLimit
      BY <2>1, RuntimeDbAssumption
    <2> QED
      BY <2>1, <2>2, <2>3, <2>4 DEF DbRanges, Reasons
  <1>4. CASE Next /\ ~Outside /\ ~Restarts
    <2>1. PICK t \in Threads :
             \/ TakesLock(t) \/ Busy(t) \/ Inserts(t) \/ Commits(t)
             \/ Fails(t) \/ FindsItDegraded(t) \/ Heals(t)
             \/ (\E e \in Events : Emit(t, e)) \/ StoreBegins(t)
             \/ t \in Emitters /\ (Spills(t) \/ SpillFails(t))
             \/ t = Drainer /\ (DrainReads \/ Compacts \/ Looks \/ Marks)
      BY <1>4, ThreadStep
    <2>2. CASE TakesLock(t) \/ FindsItDegraded(t)
      BY <2>2 DEF TakesLock, FindsItDegraded, Acquires, Releases, DbRanges, health, file
    <2>3. CASE Inserts(t) \/ (t = Drainer /\ (Marks \/ Looks)) \/ Commits(t) \/ Fails(t)
      <3>1. lock' \in Threads \cup {NoThread}
        BY <2>3 DEF Inserts, Marks, Looks, Commits, Fails, Releases, Execute, DbRanges
      <3>2. (\E w : Execute(t, w)) \/ Query(t) \/ Commit(t) \/ StatementFails(t)
        BY <2>3 DEF Inserts, Marks, Looks, Commits, Fails
      <3> QED
        BY <3>1, <3>2, StatementRanges
    <2>4. CASE Heals(t)
      BY <2>4, HealsRanges DEF Heals, IInv
    <2>5. CASE \/ Busy(t) \/ (\E e \in Events : Emit(t, e)) \/ StoreBegins(t)
               \/ Spills(t) \/ SpillFails(t) \/ DrainReads \/ Compacts
      BY <1>1, <2>5 DEF Busy, Emit, StoreBegins, Spills, SpillFails, DrainReads, Compacts,
                        dbVars, file
    <2> QED
      BY <2>1, <2>2, <2>3, <2>4, <2>5
  <1> QED
    BY <1>2, <1>3, <1>4

Tries == tries \in [Threads -> 0..MaxTries - 1]

LEMMA TriesKept ==
    ASSUME Tries, [Next]_vars
    PROVE  Tries'
  <1>1. CASE UNCHANGED tries
    BY <1>1 DEF Tries
  <1>2. ASSUME NEW t \in Threads, tries' = [tries EXCEPT ![t] = 0]
        PROVE  Tries'
    BY <1>2, EventAssumption DEF Tries
  <1>3. ASSUME NEW t \in Threads, Busy(t)
        PROVE  Tries'
    <2>1. CASE tries[t] + 1 < MaxTries /\ tries' = [tries EXCEPT ![t] = @ + 1]
      <3>1. tries[t] \in Nat /\ tries[t] + 1 \in 0..MaxTries - 1
        BY <2>1, EventAssumption DEF Tries
      <3> QED
        BY <2>1, <3>1 DEF Tries
    <2> QED
      BY <1>2, <1>3, <2>1 DEF Busy
  <1>4. CASE Outside \/ UNCHANGED vars
    BY <1>1, <1>4 DEF Outside, streamVars, vars
  <1>5. CASE Restarts
    BY <1>5, EventAssumption DEF Restarts, Tries
  <1>6. CASE Next /\ ~Outside /\ ~Restarts
    <2>1. PICK t \in Threads :
             \/ TakesLock(t) \/ Busy(t) \/ Inserts(t) \/ Commits(t)
             \/ Fails(t) \/ FindsItDegraded(t) \/ Heals(t)
             \/ (\E e \in Events : Emit(t, e)) \/ StoreBegins(t)
             \/ t \in Emitters /\ (Spills(t) \/ SpillFails(t))
             \/ t = Drainer /\ (DrainReads \/ Compacts \/ Looks \/ Marks)
      BY <1>6, ThreadStep
    <2>2. \/ UNCHANGED tries \/ Busy(t) \/ tries' = [tries EXCEPT ![t] = 0]
      BY <2>1 DEF TakesLock, Inserts, Commits, Fails, FindsItDegraded, Heals, streamVars,
                  Emit, StoreBegins, Spills, SpillFails, DrainReads, Compacts, Looks, Marks
    <2> QED
      BY <1>1, <1>2, <1>3, <2>2
  <1> QED
    BY <1>4, <1>5, <1>6

-----------------------------------------------------------------------------
(* The invariant of the file, the threads and the table *)

FileInv == Drafts /\ Hands /\ Singly /\ Pass /\ Ledger /\ DbRanges /\ Tries

LEMMA FileInitially == Init => FileInv
  <1> SUFFICES ASSUME Init PROVE FileInv
    OBVIOUS
  <1>1. /\ lock = NoThread /\ txn = {} /\ conn = 1 /\ depth = 0 /\ latch = "none"
        /\ errors = 0 /\ healed = FALSE /\ voidWrites = {}
        /\ table = [w \in Writes |-> 0]
        /\ pc = [t \in Threads |-> "idle"] /\ item = [t \in Emitters |-> NoEvent]
        /\ tries = [t \in Threads |-> 0] /\ emitted = {}
        /\ spill = <<>> /\ snapshot = <<>> /\ line = 1 /\ removable = {}
    BY DEF Init, DbInit
  <1>2. Drafts
    BY <1>1 DEF Drafts, Inside, Followed
  <1>3. Hands
    BY <1>1, EventAssumption DEF Hands
  <1>4. Singly
    BY <1>1 DEF Singly
  <1>5. Pass
    BY <1>1, ThreadsAre DEF Pass
  <1>6. Ledger
    <2>1. \A e \in Events : table[Row(e)] = 0 /\ table[Marker(e)] = 0 /\ ~IsVoid(Row(e))
      BY <1>1, WritesAre DEF IsVoid
    <2>2. Lines = {}
      BY <1>1 DEF Lines
    <2>3. pc[Drainer] \notin Replaying
      BY <1>1, ThreadsAre DEF Replaying
    <2> QED
      BY <1>1, <2>1, <2>2, <2>3 DEF Ledger, AtMostOnce, Untouched
  <1>7. healed \in BOOLEAN
    BY <1>1, Zenon
  <1>8. DbRanges
    BY <1>1, <1>7, RuntimeDbAssumption DEF DbRanges, Reasons, Closed
  <1>9. Tries
    BY <1>1, EventAssumption DEF Tries
  <1> QED
    BY <1>2, <1>3, <1>4, <1>5, <1>6, <1>8, <1>9 DEF FileInv

LEMMA FileKept ==
    ASSUME IInv, FileInv, [Next]_vars
    PROVE  FileInv'
  <1>1. DbInv /\ StreamInv
    BY DEF IInv
  <1>2. Hands' /\ Singly'
    BY <1>1, HandsKept, SinglyKept DEF FileInv
  <1>3. Drafts'
    BY <1>1, DraftsKept DEF FileInv
  <1>4. Pass'
    BY <1>1, <1>2, PassKept DEF FileInv
  <1>5. Ledger'
    BY <1>1, LedgerKept DEF FileInv
  <1>6. DbRanges' /\ Tries'
    BY DbRangesKept, TriesKept DEF FileInv
  <1> QED
    BY <1>2, <1>3, <1>4, <1>5, <1>6 DEF FileInv

LEMMA FileInvariance == Spec => []FileInv
  <1>1. IInv /\ FileInv /\ [Next]_vars => FileInv'
    BY FileKept
  <1> QED
    BY FileInitially, <1>1, Invariance, PTL DEF Spec

-----------------------------------------------------------------------------
(* The log *)

\* What the abstract log makes of a step.
Moves == [Log!LogNext]_([e \in Events |-> Place(e)])

LEMMA PlaceIs ==
    \A e \in Events : /\ table[Row(e)] > 0 => Place(e) = "stored"
                      /\ ~(table[Row(e)] > 0) /\ e \in Lines => Place(e) = "waiting"
                      /\ ~Settled(e) /\ e \notin Lines => Place(e) = "nowhere"
  BY DEF Place, Settled

LEMMA PlaceStays ==
    ASSUME NEW d \in Events, table'[Row(d)] = table[Row(d)],
           IsVoid(Row(d))' <=> IsVoid(Row(d)), d \in Lines' <=> d \in Lines
    PROVE  Place(d)' = Place(d)
  BY DEF Place, Row

LEMMA NoneMoves ==
    ASSUME \A d \in Events : Place(d)' = Place(d)
    PROVE  Moves
  BY DEF Moves

LEMMA OneMoves ==
    ASSUME NEW e \in Events, \A d \in Events \ {e} : Place(d)' = Place(d),
           \/ Place(e)' = Place(e)
           \/ Place(e) = "nowhere" /\ Place(e)' \in {"stored", "waiting", "lost"}
           \/ Place(e) = "waiting" /\ Place(e)' = "stored"
    PROVE  Moves
  <1>1. CASE Place(e)' = Place(e)
    BY <1>1, NoneMoves
  <1>2. CASE \/ Place(e) = "nowhere" /\ Place(e)' = "stored"
             \/ Place(e) = "nowhere" /\ Place(e)' = "waiting"
             \/ Place(e) = "waiting" /\ Place(e)' = "stored"
    <2>1. [d \in Events |-> Place(d)]' = [[d \in Events |-> Place(d)] EXCEPT ![e] = Place(e)']
      OBVIOUS
    <2>2. Log!Record(e) \/ Log!SetAside(e) \/ Log!Replay(e)
      BY <1>2, <2>1 DEF Log!Record, Log!SetAside, Log!Replay, Log!Goes
    <2> QED
      BY <2>2 DEF Moves, Log!LogNext
  <1>3. CASE Place(e) = "nowhere" /\ Place(e)' = "lost"
    <2>1. Log!Lose({e})
      BY <1>3 DEF Log!Lose
    <2> QED
      BY <2>1 DEF Moves, Log!LogNext
  <1> QED
    BY <1>1, <1>2, <1>3

LEMMA SomeLost ==
    ASSUME NEW gone \in SUBSET Events, \A d \in Events \ gone : Place(d)' = Place(d),
           \A d \in gone : Place(d) = "waiting" /\ Place(d)' = "lost"
    PROVE  Moves
  <1>1. Log!Lose(gone)
    BY DEF Log!Lose
  <1> QED
    BY <1>1 DEF Moves, Log!LogNext

\* Neither the database nor the file changes.
LEMMA QuietMoves ==
    ASSUME UNCHANGED <<table, voidWrites, spill>>
    PROVE  Moves
  <1>1. Lines' = Lines
    BY DEF Lines
  <1>2. \A d \in Events : IsVoid(Row(d))' <=> IsVoid(Row(d))
    BY DEF IsVoid, Row
  <1> QED
    BY <1>1, <1>2, PlaceStays, NoneMoves

LEMMA EmitterMoves ==
    ASSUME IInv, FileInv, NEW t \in Emitters, Commits(t)
    PROVE  Moves
  <1>1. PICK e \in emitted : /\ e = item[t] /\ e # NoEvent /\ e \notin Lines /\ Untouched(e)
                             /\ \A d \in Events \ {e} : Same(d)
                             /\ table'[Row(e)] <= 1 /\ Settled(e)'
    BY EmitterWrites DEF IInv, FileInv
  <1>2. e \in Events
    BY DEF FileInv, Hands
  <1>3. spill' = spill
    BY <1>1, EventAssumption DEF Commits
  <1>4. Lines' = Lines
    BY <1>3 DEF Lines
  <1>5. \A d \in Events \ {e} : Place(d)' = Place(d)
    BY <1>1, <1>4, PlaceStays DEF Same
  <1>6. Place(e) = "nowhere"
    BY <1>1, <1>2, PlaceIs DEF Untouched, Settled
  <1>7. Place(e)' \in {"stored", "lost"}
    BY <1>1, <1>4 DEF Place, Settled, Row
  <1> QED
    BY <1>2, <1>5, <1>6, <1>7, OneMoves

LEMMA DrainMoves ==
    ASSUME IInv, FileInv, Commits(Drainer)
    PROVE  Moves
  <1>1. PICK e \in emitted : /\ e \in Lines /\ table[Row(e)] = 0
                             /\ \A d \in Events \ {e} : Same(d)
    BY DrainWrites DEF IInv, FileInv
  <1>2. e \in Events
    BY DEF FileInv, Hands
  <1>3. spill' = spill
    BY DEF Commits, NextLine
  <1>4. Lines' = Lines
    BY <1>3 DEF Lines
  <1>5. \A d \in Events \ {e} : Place(d)' = Place(d)
    BY <1>1, <1>4, PlaceStays DEF Same
  <1>6. Place(e) = "waiting"
    BY <1>1, <1>2, PlaceIs
  <1>7. Place(e)' \in {"stored", "waiting"}
    BY <1>1, <1>4 DEF Place
  <1> QED
    BY <1>2, <1>5, <1>6, <1>7, OneMoves

LEMMA SpillsMoves ==
    ASSUME IInv, FileInv, NEW t \in Emitters, Spills(t)
    PROVE  Moves
  <1>1. PICK e \in Events : e = item[t] /\ e # NoEvent /\ e \in emitted
    BY DEF FileInv, Hands, Spills
  <1>2. UNCHANGED <<table, voidWrites>> /\ spill' = Append(spill, e) /\ spill \in Seq(emitted)
    BY <1>1 DEF Spills, dbVars, fate, FileInv, Singly
  <1>3. Lines' = Lines \cup {e}
    <2>1. /\ Len(spill') = Len(spill) + 1 /\ Len(spill) \in Nat
          /\ \A i \in 1..Len(spill) : spill'[i] = spill[i]
          /\ spill'[Len(spill) + 1] = e
      BY <1>1, <1>2, AppendProperties, LenProperties
    <2>2. 1..Len(spill') = (1..Len(spill)) \cup {Len(spill) + 1}
      BY <2>1
    <2> QED
      BY <2>1, <2>2 DEF Lines
  <1>4. \A d \in Events : IsVoid(Row(d))' <=> IsVoid(Row(d))
    BY <1>2 DEF IsVoid, Row
  <1>5. \A d \in Events \ {e} : Place(d)' = Place(d)
    BY <1>2, <1>3, <1>4, PlaceStays
  <1>6. Untouched(e) /\ e \notin Lines
    BY <1>1 DEF FileInv, Ledger, Singly, Lines
  <1>7. Place(e) = "nowhere"
    BY <1>6, PlaceIs DEF Untouched, Settled
  <1>8. Place(e)' = "waiting"
    BY <1>2, <1>3, <1>6 DEF Place, Untouched, Row
  <1> QED
    BY <1>5, <1>7, <1>8, OneMoves

\* The lines that the compaction takes are stored, or were stored in a log that is gone.
LEMMA CompactsMoves ==
    ASSUME IInv, FileInv, Compacts
    PROVE  Moves
  <1>1. UNCHANGED <<table, voidWrites>> /\ spill \in Seq(emitted) /\ emitted \subseteq Events
    BY DEF Compacts, dbVars, fate, FileInv, Singly, Hands
  <1>2. /\ Lines' \subseteq Lines
        /\ \A i \in 1..Len(spill) : Keeps(i) => spill[i] \in Lines'
    BY CompactsLines DEF FileInv
  <1>3. \A i \in removable : spill[i] = snapshot[i] /\ Settled(spill[i])
    BY DEF FileInv, Pass, Ledger
  <1>4. \A d \in Lines : d \in Lines' \/ Settled(d)
    BY <1>2, <1>3 DEF Lines, Keeps
  <1>5. Lines \subseteq Events
    BY <1>1, ElementOfSeq DEF Lines
  <1>6. \A d \in Events : IsVoid(Row(d))' <=> IsVoid(Row(d))
    BY <1>1 DEF IsVoid, Row
  <1>7. PICK gone \in SUBSET Events :
          gone = {d \in Lines : d \notin Lines' /\ ~(table[Row(d)] > 0)}
    BY <1>5
  <1>8. ASSUME NEW d \in Events \ gone
        PROVE  Place(d)' = Place(d)
    <2>1. CASE d \in Lines' <=> d \in Lines
      BY <1>1, <1>6, <2>1, PlaceStays
    <2>2. CASE table[Row(d)] > 0
      BY <1>1, <2>2 DEF Place, Row
    <2> QED
      BY <1>2, <1>7, <2>1, <2>2
  <1>9. ASSUME NEW d \in gone
        PROVE  Place(d) = "waiting" /\ Place(d)' = "lost"
    <2>1. d \in Lines /\ d \notin Lines' /\ ~(table[Row(d)] > 0)
      BY <1>7
    <2>2. IsVoid(Row(d))'
      BY <1>4, <1>5, <1>6, <2>1 DEF Settled
    <2> QED
      BY <1>1, <2>1, <2>2 DEF Place, Row
  <1> QED
    BY <1>8, <1>9, SomeLost

LEMMA StepMoves ==
    ASSUME IInv, FileInv, [Next]_vars
    PROVE  Moves
  <1>1. CASE Outside \/ Restarts \/ UNCHANGED vars
    BY <1>1, QuietMoves DEF Outside, SwapLog, Restarts, DbRestart, vars, dbVars, streamVars, fate
  <1>2. CASE Next /\ ~Outside /\ ~Restarts
    <2>1. PICK t \in Threads :
             \/ TakesLock(t) \/ Busy(t) \/ Inserts(t) \/ Commits(t)
             \/ Fails(t) \/ FindsItDegraded(t) \/ Heals(t)
             \/ (\E e \in Events : Emit(t, e)) \/ StoreBegins(t)
             \/ t \in Emitters /\ (Spills(t) \/ SpillFails(t))
             \/ t = Drainer /\ (DrainReads \/ Compacts \/ Looks \/ Marks)
      BY <1>2, ThreadStep
    <2>2. CASE \/ TakesLock(t) \/ Busy(t) \/ Inserts(t) \/ Fails(t) \/ FindsItDegraded(t)
               \/ (\E e \in Events : Emit(t, e)) \/ StoreBegins(t) \/ SpillFails(t)
               \/ DrainReads \/ Looks \/ Marks
      <3>1. UNCHANGED <<table, voidWrites>>
        BY <2>2 DEF TakesLock, Busy, Inserts, Fails, FindsItDegraded, Emit, StoreBegins,
           SpillFails, DrainReads, Looks, Marks, Execute, Query, StatementFails, dbVars, fate
      <3>2. spill' = spill
        BY <2>2 DEF TakesLock, Busy, Inserts, Fails, FindsItDegraded, Emit, StoreBegins,
           SpillFails, DrainReads, Looks, Marks, Abandons, NextLine
      <3> QED
        BY <3>1, <3>2, QuietMoves
    <2>3. CASE Heals(t)
      BY <2>3, HealsLeaves, QuietMoves DEF streamVars, fate
    <2>4. CASE Commits(t)
      <3>1. CASE t \in Stores
        BY <2>4, <3>1, StoreWrites, QuietMoves DEF IInv, FileInv
      <3> QED
        BY <2>4, <3>1, EmitterMoves, DrainMoves, EventAssumption
    <2> QED
      BY <2>1, <2>2, <2>3, <2>4, SpillsMoves, CompactsMoves
  <1> QED
    BY <1>1, <1>2

-----------------------------------------------------------------------------
(* The theorems *)

\* The drift check bounds what a replaced log costs: two transactions at most
\* for each replacement, and one more for each check that took a write for a
\* read (_record_sqlite_success, _ensure_operational).
THEOREM LossIsBounded == Spec => []VoidsBounded
  <1>1. IInv => VoidsBounded
    <2> SUFFICES ASSUME IInv PROVE VoidsBounded
      OBVIOUS
    <2>1. Debt \in Nat /\ Owed \in Nat /\ Debt <= Owed
      BY DEF Debt, Owed, IInv, DbInv, DbTyped, Nested, InTransaction
    <2>2. /\ voids \in Nat /\ swaps \in Nat /\ missed \in Nat
          /\ voids + Owed <= 2 * swaps + missed
      BY DEF IInv, DbInv, DbTyped
    <2> QED
      BY <2>1, <2>2 DEF VoidsBounded
  <1> QED
    BY <1>1, Invariance, PTL

\* A marker vouches for its row: the drain may remove the line of every marker
\* it finds (drain_spill), whatever reconnects, failures and crashes there were.
THEOREM MarkersVouch == Spec => []MarkedIsStored
  <1>1. IInv => MarkedIsStored
    BY DEF IInv, StreamInv
  <1> QED
    BY <1>1, Invariance, PTL

\* Every variable stays in its range; an operational database has a connection
\* (RuntimeDb.__init__, _reconnect_after_wal_generation_swap).  A transaction may be
\* left open by a store that does not roll back (task_ledger), but a row or a
\* marker of the stream is uncommitted only while the thread that wrote it has
\* the lock: emit and the drain commit or roll back before they give it back.
THEOREM TypeCorrect == Spec => []StreamTypeOK
  <1>1. IInv /\ FileInv => StreamTypeOK
    <2> SUFFICES ASSUME IInv, FileInv PROVE StreamTypeOK
      OBVIOUS
    <2>1. item \in [Emitters -> Events \cup {NoEvent}] /\ emitted \subseteq Events
      BY DEF FileInv, Hands
    <2>2. spill \in Seq(Events)
      BY SeqMonotonic DEF FileInv, Hands, Singly
    <2>3. txn \subseteq Writes \cup {Other}
      <3>1. CASE lock = NoThread
        BY <3>1 DEF FileInv, Drafts, Followed
      <3>2. CASE lock # NoThread
        <4>1. lock \in Threads /\ pc[lock] \in Inside /\ Followed(txn) = Draft(lock)
          BY <3>2 DEF FileInv, Drafts
        <4>2. Draft(lock) \subseteq Writes
          <5>1. CASE lock \in Stores
            BY <5>1 DEF Draft
          <5>2. CASE lock \notin Stores
            <6>1. Subject(lock) \in Events
              BY <4>1, <5>2, SubjectAtWrite DEF FileInv
            <6>2. Draft(lock) \subseteq {Row(Subject(lock)), Marker(Subject(lock))}
              BY EventAssumption DEF Draft, Subject
            <6> QED
              BY <6>1, <6>2, FollowedAre
          <5> QED
            BY <5>1, <5>2
        <4> QED
          BY <4>1, <4>2 DEF Followed
      <3> QED
        BY <3>1, <3>2
    <2>4. DbTypeOK
      <3>1. depth \in 0..RecursionLimit
        BY RuntimeDbAssumption DEF IInv, DbInv, DbTyped, FileInv, DbRanges
      <3> QED
        BY <2>3, <3>1 DEF DbTypeOK, IInv, DbInv, DbTyped, FileInv, DbRanges, Ledger
    <2>5. /\ snapshot \in Seq(Events) /\ line \in Nat \ {0}
          /\ removable \subseteq Nat \ {0}
      <3>1. Len(snapshot) \in Nat
        BY LenProperties DEF FileInv, Pass
      <3> QED
        BY <3>1 DEF FileInv, Pass
    <2> QED
      BY <2>1, <2>2, <2>4, <2>5
         DEF StreamTypeOK, IInv, StreamInv, Locking, FileInv, Drafts, DbRanges, Tries, Followed
  <1> QED
    BY <1>1, Invariance, FileInvariance, PTL

\* One event is in the stream at most once (emit, drain_spill, _compact_spill):
\* its marker is read and written in the transaction of its row, and the file
\* has it in one line.
THEOREM StoredOnce == Spec => []AtMostOnce
  <1>1. FileInv => AtMostOnce
    BY DEF FileInv, Ledger
  <1> QED
    BY <1>1, FileInvariance, PTL

\* The stream implements the log of EventLog: whatever the threads, reconnects
\* and crashes do, an event goes into the stream once, at once (emit) or out of
\* the file (drain_spill, _compact_spill), and stays there.
THEOREM LogRefinement == Spec => ImplementsLog
  <1>1. Init => Log!LogInit
    <2> SUFFICES ASSUME Init PROVE Log!LogInit
      OBVIOUS
    <2>1. \A e \in Events : ~Settled(e)
      BY WritesAre DEF Init, DbInit, Settled, IsVoid
    <2>2. Lines = {}
      BY DEF Init, Lines
    <2> QED
      BY <2>1, <2>2, PlaceIs DEF Log!LogInit
  <1>2. IInv /\ FileInv /\ [Next]_vars => [Log!LogNext]_([e \in Events |-> Place(e)])
    BY StepMoves DEF Moves
  <1> QED
    BY <1>1, <1>2, Invariance, FileInvariance, PTL DEF Spec, ImplementsLog, Log!LogSpec
=============================================================================

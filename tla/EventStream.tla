----------------------------- MODULE EventStream -----------------------------
(***************************************************************************)
(* The event stream of the daemon (observe.py) over the shared database.   *)
(* emit() never waits for the database: when its lock is busy or a write   *)
(* fails, the event is appended to a spill file.  A maintenance thread     *)
(* replays the spill file; a marker row for each line tells it, after a    *)
(* crash, which lines are in the stream already.                           *)
(***************************************************************************)
EXTENDS RuntimeDb, Sequences

CONSTANTS
    Events, NoEvent,
    Emitters, Stores,  \* threads that emit; threads of other stores
    Drainer,           \* the thread of the observe_maintenance runner
    MaxTries,          \* OBSERVE_LOCKED_RETRY_ATTEMPTS
    MaxLines           \* OBSERVE_SPILL_DRAIN_MAX_LINES

Row(e) == <<"observe_stream", e>>
Marker(e) == <<"observe_spill_drain", e>>

ASSUME EventAssumption ==
    /\ Writes = {Row(e) : e \in Events} \cup {Marker(e) : e \in Events}
    /\ Threads = Emitters \cup Stores \cup {Drainer}
    /\ Emitters \cap Stores = {} /\ Drainer \notin Emitters \cup Stores
    /\ NoEvent \notin Events
    /\ MaxTries \in Nat \ {0} /\ MaxLines \in Nat \ {0}

VARIABLES
    pc,        \* thread -> what it does next
    item,      \* emitter -> the event it emits
    tries,     \* thread -> refused attempts at the lock
    emitted,   \* events handed to emit()
    spill,     \* lines of the spill file: the event of each, its spill_id
    snapshot,  \* the lines the drain has read
    line,      \* index of the line it replays
    removable  \* indexes it has found or put in the stream

drainVars == <<snapshot, line, removable>>
streamVars == <<pc, item, tries, emitted, spill, drainVars>>
vars == <<dbVars, streamVars>>

Steps == {"idle", "acquire", "query", "insert", "mark", "commit", "spill", "compact"}

Init == /\ DbInit
        /\ pc = [t \in Threads |-> "idle"]
        /\ item = [t \in Emitters |-> NoEvent]
        /\ tries = [t \in Threads |-> 0]
        /\ emitted = {}
        /\ spill = <<>> /\ snapshot = <<>> /\ line = 1 /\ removable = {}

Goto(t, step) == pc' = [pc EXCEPT ![t] = step]

\* The event a thread is about; other stores write something else.
Subject(t) == IF t = Drainer THEN snapshot[line] ELSE item[t]

WriteOf(t) == IF t \in Stores THEN Other
              ELSE IF pc[t] = "mark" THEN Marker(Subject(t)) ELSE Row(Subject(t))

-----------------------------------------------------------------------------
(* The drain goes from line to line *)

\* The lines of one pass end at max_lines.
PassEnd == IF Len(snapshot) < MaxLines THEN Len(snapshot) ELSE MaxLines

\* drain_spill returns.
PassReturns == snapshot' = <<>> /\ line' = 1 /\ removable' = {}

\* The next line, or the end of the pass: the file is compacted when there is
\* something to remove.
NextLine(removes) ==
    LET gone == removable \cup removes
    IN  /\ IF line < PassEnd
           THEN /\ Goto(Drainer, "acquire")
                /\ line' = line + 1 /\ removable' = gone /\ UNCHANGED snapshot
           ELSE IF gone # {}
           THEN /\ Goto(Drainer, "compact")
                /\ removable' = gone /\ UNCHANGED <<line, snapshot>>
           ELSE /\ Goto(Drainer, "idle")
                /\ PassReturns
        /\ UNCHANGED <<item, emitted, spill>>

\* emit() returns.
EmitReturned(t) == /\ Goto(t, "idle")
                   /\ item' = [item EXCEPT ![t] = NoEvent]

\* A thread whose write did not happen: the emitter spills the event, the drain
\* leaves the line in place, another store reports its error.
Abandons(t) ==
    IF t = Drainer THEN NextLine({})
    ELSE /\ Goto(t, IF t \in Emitters THEN "spill" ELSE "idle")
         /\ UNCHANGED <<item, emitted, spill, drainVars>>

DrainReads ==
    /\ pc[Drainer] = "idle" /\ spill # <<>>
    /\ snapshot' = spill /\ line' = 1 /\ removable' = {}
    /\ Goto(Drainer, "acquire")
    /\ UNCHANGED <<dbVars, item, tries, emitted, spill>>

-----------------------------------------------------------------------------
(* Threads at the database *)

Emit(t, e) == /\ t \in Emitters /\ pc[t] = "idle" /\ e \notin emitted
              /\ emitted' = emitted \cup {e}
              /\ item' = [item EXCEPT ![t] = e]
              /\ Goto(t, "acquire")
              /\ UNCHANGED <<dbVars, tries, spill, drainVars>>

StoreBegins(t) == /\ t \in Stores /\ pc[t] = "idle"
                  /\ Goto(t, "acquire")
                  /\ UNCHANGED <<dbVars, item, tries, emitted, spill, drainVars>>

TakesLock(t) ==
    /\ pc[t] = "acquire" /\ Acquires(t)
    /\ Goto(t, IF t = Drainer THEN "query" ELSE "insert")
    /\ tries' = [tries EXCEPT ![t] = 0]
    /\ UNCHANGED <<health, file, txn, table, fate>>
    /\ UNCHANGED <<item, emitted, spill, drainVars>>

\* Mutant: emit waits for the lock, like every other store.
FindsItBusy_Blocks(t) == t \in Threads \ (Stores \cup Emitters)

\* try_acquire: only emit and the drain give up.
FindsItBusy(t) == t \in Threads \ Stores

Busy(t) ==
    /\ FindsItBusy(t)
    /\ pc[t] = "acquire" /\ lock \notin {NoThread, t}
    /\ UNCHANGED dbVars
    /\ IF tries[t] + 1 < MaxTries
       THEN /\ tries' = [tries EXCEPT ![t] = @ + 1]
            /\ UNCHANGED <<pc, item, emitted, spill, drainVars>>
       ELSE tries' = [tries EXCEPT ![t] = 0] /\ Abandons(t)

\* Mutant: only a line that was inserted now is removed.
WhenPresent_Kept == {}

\* The line's marker is there: it was replayed before a crash.
WhenPresent == {line}

Looks ==
    /\ pc[Drainer] = "query"
    /\ Query(Drainer)
    /\ IF Sees(Marker(Subject(Drainer)))
       THEN NextLine(WhenPresent) /\ Releases(Drainer)
       ELSE /\ Goto(Drainer, "insert")
            /\ UNCHANGED <<lock, item, emitted, spill, drainVars>>
    /\ UNCHANGED tries

\* Mutant: a replayed line gets no marker.
AfterInsert_NoMarker(t) == "commit"

AfterInsert(t) == IF t = Drainer THEN "mark" ELSE "commit"

Inserts(t) ==
    /\ pc[t] = "insert"
    /\ Execute(t, WriteOf(t))
    /\ Goto(t, AfterInsert(t))
    /\ UNCHANGED <<item, tries, emitted, spill, drainVars>>

Marks == /\ pc[Drainer] = "mark"
         /\ Execute(Drainer, WriteOf(Drainer))
         /\ Goto(Drainer, "commit")
         /\ UNCHANGED <<item, tries, emitted, spill, drainVars>>

Commits(t) ==
    /\ pc[t] = "commit"
    /\ Commit(t) /\ Releases(t)
    /\ IF t = Drainer THEN NextLine({line})
       ELSE /\ IF t \in Emitters THEN EmitReturned(t) ELSE Goto(t, "idle") /\ UNCHANGED item
            /\ UNCHANGED <<emitted, spill, drainVars>>
    /\ UNCHANGED tries

\* Mutant: emit and the drain leave their transaction open, too.
GivesUp_LeftOpen(t, written) == txn' \in {{}, txn \cup written}

\* emit and the drain roll back what they began, and so do the stores that write
\* within RuntimeDb.transaction().  Others, as the task ledger, execute and
\* commit with no handler: what a failed call had written so far stays in the
\* open transaction of the shared connection, whoever uses that next.
GivesUp(t, written) ==
    IF t \in Stores THEN txn' \in {{}, txn \cup written} ELSE Rollback

\* The first write of a transaction has begun it even when it fails.
Fails(t) ==
    /\ pc[t] \in {"query", "insert", "mark", "commit"}
    /\ StatementFails(t) /\ Releases(t)
    /\ \E written \in {{}, {Other}} : GivesUp(t, written)
    /\ Abandons(t) /\ UNCHANGED tries

\* The latch of another thread's failure, or of its own reconnect.
FindsItDegraded(t) ==
    /\ pc[t] \in {"query", "insert", "mark", "commit"}
    /\ Refused(t) /\ GivesUp(t, {}) /\ Releases(t)
    /\ Abandons(t)
    /\ UNCHANGED <<health, file, table, fate, tries>>

Heals(t) == /\ Healing(t) \/ HealPersistentLock(t)
            /\ UNCHANGED streamVars

-----------------------------------------------------------------------------
(* The spill file *)

Spills(t) == /\ pc[t] = "spill"
             /\ spill' = Append(spill, item[t])
             /\ EmitReturned(t)
             /\ UNCHANGED <<dbVars, tries, emitted, drainVars>>

\* Spilling is best effort: an error while appending is logged.
SpillFails(t) == /\ pc[t] = "spill"
                 /\ EmitReturned(t)
                 /\ UNCHANGED <<dbVars, tries, emitted, spill, drainVars>>

\* Mutant: the whole pass is removed.
Keeps_NothingRead(i) == i > PassEnd

Keeps(i) == i \notin removable

\* The numbering of a set of indexes in their order, without gaps.
InOrder(indexes) ==
    {at \in [1..Cardinality(indexes) -> indexes] :
        /\ \A n, k \in DOMAIN at : n < k => at[n] < at[k]
        /\ \A i \in indexes : \E n \in DOMAIN at : at[n] = i}

\* The file is written anew without the lines that are in the stream, if what
\* the drain has read is still its beginning; what was appended since stays.
Compacts ==
    /\ pc[Drainer] = "compact"
    /\ IF SubSeq(spill, 1, Len(snapshot)) = snapshot
       THEN \E at \in InOrder({i \in 1..Len(spill) : Keeps(i)}) :
              spill' = [n \in DOMAIN at |-> spill[at[n]]]
       ELSE UNCHANGED spill
    /\ Goto(Drainer, "idle")
    /\ PassReturns
    /\ UNCHANGED <<dbVars, item, tries, emitted>>

-----------------------------------------------------------------------------
Outside == SwapLog /\ UNCHANGED streamVars

Restarts == /\ DbRestart
            /\ pc' = [t \in Threads |-> "idle"]
            /\ item' = [t \in Emitters |-> NoEvent]
            /\ tries' = [t \in Threads |-> 0]
            /\ PassReturns
            /\ UNCHANGED <<emitted, spill>>

AtDatabase(t) == \/ TakesLock(t) \/ Busy(t) \/ Inserts(t) \/ Commits(t)
                 \/ FindsItDegraded(t) \/ Heals(t)

EmitterStep(t) == t \in Emitters /\ (AtDatabase(t) \/ Fails(t) \/ Spills(t) \/ SpillFails(t))

DrainStep == \/ DrainReads \/ AtDatabase(Drainer) \/ Fails(Drainer)
             \/ Looks \/ Marks \/ Compacts

StoreStep(t) == t \in Stores /\ (StoreBegins(t) \/ AtDatabase(t) \/ Fails(t))

Next == \/ \E t \in Emitters : EmitterStep(t) \/ \E e \in Events : Emit(t, e)
        \/ \E t \in Stores : StoreStep(t)
        \/ DrainStep
        \/ Outside
        \/ Restarts

Spec == Init /\ [][Next]_vars

\* A thread in emit() runs on, and so does the drain, which its loop calls
\* again and again.  Nothing is assumed of the other stores: one may keep the
\* lock for ever.
Fairness == /\ \A t \in Emitters : WF_vars(EmitterStep(t))
            /\ WF_vars(DrainStep)

FairSpec == Spec /\ Fairness

-----------------------------------------------------------------------------
(* Properties *)

Lines == {spill[i] : i \in 1..Len(spill)}

\* Types; a latched database may have no connection, an operational one has
\* one.  A transaction left open by a failed store may outlive the lock, but a
\* row or a marker is uncommitted only while the lock is held: the next thread
\* to commit never commits half of another's event.
StreamTypeOK ==
    /\ DbTypeOK
    /\ pc \in [Threads -> Steps]
    /\ item \in [Emitters -> Events \cup {NoEvent}]
    /\ tries \in [Threads -> 0..MaxTries - 1]
    /\ emitted \subseteq Events
    /\ spill \in Seq(Events) /\ snapshot \in Seq(Events)
    /\ line \in Nat \ {0} /\ removable \subseteq Nat \ {0}
    /\ conn = Closed => latch # "none"
    /\ lock = NoThread => txn \subseteq {Other}

\* Two emitters, the drain, crashes between its commit and its compaction and
\* reconnects in between never put one event into the stream twice.
AtMostOnce == \A e \in Events : table[Row(e)] <= 1

\* A marker in the database vouches for its row: no reconnect, rollback or
\* crash lets the marker of a line survive without the row, which would let
\* the drain remove the line of an event that is nowhere.
MarkedIsStored == \A e \in Events : table[Marker(e)] > 0 => table[Row(e)] > 0

\* A thread is between a write and its commit.
Committing == \E t \in Threads : pc[t] \in {"mark", "commit"}

\* Transactions that may still commit into a replaced log before the reconnect.
Debt == IF conn \in {disk, Closed} THEN 0
        ELSE IF pending THEN (IF InTransaction THEN 1 ELSE 0)
        ELSE IF Committing THEN 2 ELSE 1

\* A replacement of the log costs two transactions at most, the one it caught
\* between statement and commit and the one whose statement notices it, and one
\* more for each check that took a write for a read: the drift check of the
\* write path is what bounds the loss.
VoidsBounded == voids + Debt <= 2 * swaps + missed

\* emit() returns although another store keeps the lock for ever.
EmitReturns == \A t \in Emitters : pc[t] # "idle" ~> pc[t] = "idle"

\* The database stays usable and the outside quiet from some time on.
Calm == /\ <>[](latch = "none" /\ conn = disk /\ lock \in {NoThread, Drainer})
        /\ <>[][~Fails(Drainer) /\ ~Restarts]_vars

\* Then every line leaves the spill file, whatever was cut off before.
SpillConverges == Calm => \A e \in Events : e \in Lines ~> e \notin Lines

\* Where an event is, for the abstract log.
Place(e) == IF table[Row(e)] > 0 THEN "stored"
            ELSE IF e \in Lines THEN "waiting"
            ELSE IF IsVoid(Row(e)) THEN "lost" ELSE "nowhere"

Log == INSTANCE EventLog WITH place <- [e \in Events |-> Place(e)]

\* The stream, its spill file and the healing connection implement the log of
\* EventLog: what waits is stored or, if the database lost its log, lost.
ImplementsLog == Log!LogSpec
=============================================================================

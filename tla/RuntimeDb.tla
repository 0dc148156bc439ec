------------------------------ MODULE RuntimeDb ------------------------------
(***************************************************************************)
(* The one SQLite connection that every store of the daemon shares, and    *)
(* the lock around it (sqlite_runtime.py).  RuntimeDb heals itself: it     *)
(* reconnects after a run of "database is locked" errors, and it           *)
(* reconnects when it sees that the write-ahead log on disk is no longer   *)
(* the file it writes to (an outsider replaced it).  What it cannot heal   *)
(* it latches as degraded, until the process restarts.                     *)
(***************************************************************************)
EXTENDS Naturals, FiniteSets

CONSTANTS
    Threads, NoThread,
    Writes,          \* the writes whose fate is followed: a row, a marker
    Other,           \* any other write of a store
    LockThreshold,   \* SQLITE_PERSISTENT_LOCK_THRESHOLD
    SinkBound,       \* the degraded_event_sink emits through this database
    RecursionLimit,  \* nested calls of the interpreter, in reconnects
    SwapCap          \* bound of the model: replacements of the log file

ASSUME RuntimeDbAssumption ==
    /\ NoThread \notin Threads /\ Other \notin Writes
    /\ LockThreshold \in Nat \ {0} /\ RecursionLimit \in Nat \ {0}
    /\ SinkBound \in BOOLEAN /\ SwapCap \in Nat

VARIABLES
    lock,     \* the thread in RuntimeDb._lock
    conn,     \* generation of the log _conn writes to, Closed if there is none
    disk,     \* generation of the log on disk
    stamp,    \* _WAL_GENERATION_INODES: the generation last joined
    pending,  \* _wal_swap_reconnect_pending
    latch,    \* reason_code of the degraded latch, "none" if not degraded
    errors,   \* _consecutive_locked_errors
    healed,   \* _persistent_lock_self_heal_used
    blind,    \* _last_total_changes is that of a connection gone
    depth,    \* reconnects of the running call, each inside the one before
    txn,      \* writes of the open transaction
    table,    \* write -> how often it is in the database on disk
    swaps, voids, voidWrites, missed  \* ghosts: replacements, commits into a
              \* replaced log, their writes and logs, checks passed over blindly

health == <<latch, errors, healed>>
file == <<conn, disk, stamp, pending, blind, depth>>
fate == <<swaps, voids, voidWrites, missed>>
dbVars == <<lock, health, file, txn, table, fate>>

Closed == 0
Reasons == {"none", "sqlite_ioerr", "persistent_lock",
            "wal_generation_swap_reconnect_failed", "connection_closed"}

DbTypeOK ==
    /\ lock \in Threads \cup {NoThread}
    /\ conn \in Nat /\ disk \in Nat \ {0} /\ stamp \in Nat
    /\ pending \in BOOLEAN /\ blind \in BOOLEAN /\ healed \in BOOLEAN
    /\ latch \in Reasons
    /\ errors \in Nat
    /\ depth \in 0..RecursionLimit
    /\ txn \subseteq Writes \cup {Other}
    /\ table \in [Writes -> Nat]
    /\ swaps \in Nat /\ voids \in Nat /\ missed \in Nat
    /\ voidWrites \subseteq Writes \X Nat

DbInit ==
    /\ lock = NoThread
    /\ conn = 1 /\ disk = 1 /\ stamp = 1
    /\ pending = FALSE /\ blind = FALSE /\ depth = 0
    /\ latch = "none" /\ errors = 0 /\ healed = FALSE
    /\ txn = {} /\ table = [w \in Writes |-> 0]
    /\ swaps = 0 /\ voids = 0 /\ voidWrites = {} /\ missed = 0

-----------------------------------------------------------------------------
(* Entering an operation *)

InTransaction == txn # {}

\* Mutant: the reconnect does not ask whether a transaction is open.
MustReconnect_AnyTime == pending

\* _ensure_operational reconnects at the entry of an operation and never in a
\* transaction.
MustReconnect == pending /\ ~InTransaction

\* What an operation of the lock's holder finds once it is past its entry.
Operational(t) == /\ lock = t /\ latch = "none" /\ conn # Closed
                  /\ ~MustReconnect /\ depth = 0

\* _record_sqlite_success: the budget of the persistent lock starts anew.
Succeeds == errors' = 0 /\ healed' = FALSE

\* _ensure_operational raises.
Refused(t) == lock = t /\ latch # "none"

\* The old connection is closed, a new one joins the log on disk, and the sink
\* is told: pending is still set when the sink runs.
ReconnectAfterSwap(t) ==
    /\ lock = t /\ latch = "none" /\ MustReconnect
    /\ depth < RecursionLimit
    /\ depth = 0 \/ SinkBound
    /\ conn' = disk /\ stamp' = disk /\ blind' = FALSE
    /\ depth' = depth + 1
    /\ txn' = {}
    /\ UNCHANGED <<lock, health, disk, pending, table, fate>>

\* The sink ends and the flag is cleared.  A sink that emits through this
\* database enters an operation, and so reconnects again before it ends: until
\* RecursionError.  Raised while a sink runs, it is swallowed, and the calls
\* return one after the other, each writing its event; raised between close and
\* connect, it leaves no connection, which the callers latch.
SinkEnds(t) ==
    /\ lock = t /\ depth > 0
    /\ SinkBound => depth = RecursionLimit
    /\ \/ /\ IF SinkBound THEN Succeeds ELSE UNCHANGED <<errors, healed>>
          /\ UNCHANGED <<conn, latch>>
       \/ /\ SinkBound
          /\ conn' = Closed
          /\ latch' \in {"wal_generation_swap_reconnect_failed", "connection_closed"}
          /\ UNCHANGED <<errors, healed>>
    /\ pending' = FALSE /\ depth' = 0
    /\ UNCHANGED <<lock, disk, stamp, blind, txn, table, fate>>

\* connect_runtime_sqlite raises: the old connection is gone already.
ReconnectFails(t) ==
    /\ lock = t /\ latch = "none" /\ MustReconnect /\ depth = 0
    /\ conn' = Closed
    /\ latch' = "wal_generation_swap_reconnect_failed"
    /\ txn' = {}
    /\ UNCHANGED <<lock, errors, healed, disk, stamp, pending, blind, depth,
                   table, fate>>

Healing(t) == ReconnectAfterSwap(t) \/ SinkEnds(t) \/ ReconnectFails(t)

-----------------------------------------------------------------------------
(* Statements *)

\* wal_sidecars_orphaned: the log on disk is not the one joined last.
Orphaned == disk # stamp

\* Mutant: a blind stamp after every write.
DriftCheck_Restamps == /\ pending' = pending
                       /\ stamp' = disk

\* _record_sqlite_success after a write: stamp a missing generation (connecting
\* has stamped it already), or arm the reconnect.
DriftCheck == /\ pending' = (pending \/ Orphaned)
              /\ stamp' = stamp

\* The counter of changes equals the remembered one: taken for a read.
LooksLikeRead == /\ blind
                 /\ UNCHANGED <<pending, stamp>>
                 /\ missed' = IF Orphaned /\ ~pending THEN missed + 1 ELSE missed

Execute(t, w) ==
    /\ Operational(t)
    /\ txn' = txn \cup {w}
    /\ Succeeds /\ blind' = FALSE
    /\ \/ DriftCheck /\ missed' = missed
       \/ LooksLikeRead
    /\ UNCHANGED <<lock, latch, conn, disk, depth, table, swaps, voids, voidWrites>>

\* A SELECT changes no row and is not followed by a drift check.
Query(t) == /\ Operational(t)
            /\ Succeeds
            /\ UNCHANGED <<latch, file, txn, table, fate>>

\* COMMIT into a log that was replaced is lost, and reports success; no row
\* has changed since the last statement, so there is no drift check either.
Commit(t) ==
    /\ Operational(t) /\ InTransaction
    /\ Succeeds
    /\ IF conn = disk
       THEN /\ table' = [w \in Writes |-> IF w \in txn THEN table[w] + 1 ELSE table[w]]
            /\ UNCHANGED <<voids, voidWrites>>
       ELSE /\ voids' = voids + 1
            /\ voidWrites' = voidWrites \cup ((txn \cap Writes) \X {conn})
            /\ UNCHANGED table
    /\ txn' = {}
    /\ UNCHANGED <<latch, file, swaps, missed>>

\* A connection reads what it wrote to its own log, and what is on disk.
Sees(w) == table[w] > 0 \/ <<w, conn>> \in voidWrites

\* Committed, and gone with a replaced log.
IsVoid(w) == \E x \in voidWrites : x[1] = w

Rollback == txn' = {}

\* One reconnect per run of locked errors, never in a transaction.
MayHeal == ~healed /\ ~InTransaction

AtThreshold == errors + 1 >= LockThreshold

\* "database is locked" for the last time: reconnect and tell the sink; execute()
\* tries again.  The event of a bound sink, once written, is a success.
HealPersistentLock(t) ==
    /\ Operational(t) /\ AtThreshold /\ MayHeal
    /\ conn' = disk /\ stamp' = disk
    /\ \/ SinkBound /\ Succeeds /\ blind' = FALSE
       \/ errors' = errors + 1 /\ healed' = TRUE /\ blind' = TRUE
    /\ txn' = {}
    /\ UNCHANGED <<lock, latch, disk, pending, depth, table, fate>>

\* The statement raises "database is locked" - at the threshold nothing may heal
\* it, or the reconnect fails too - or a critical error.  What becomes of the
\* transaction is up to the caller.
StatementFails(t) ==
    /\ Operational(t)
    /\ \/ /\ ~AtThreshold
          /\ errors' = errors + 1 /\ UNCHANGED latch
       \/ /\ AtThreshold
          /\ errors' = errors + 1 /\ latch' = "persistent_lock"
       \/ latch' = "sqlite_ioerr" /\ UNCHANGED errors
    /\ UNCHANGED <<healed, file, table, fate>>

-----------------------------------------------------------------------------
(* The lock, the outside world *)

Acquires(t) == lock = NoThread /\ lock' = t
Releases(t) == lock = t /\ lock' = NoThread

\* An outsider takes itself for the last to close the database: it checkpoints
\* the log, deletes it and leaves one of its own.
SwapLog == /\ swaps < SwapCap
           /\ disk' = disk + 1 /\ swaps' = swaps + 1
           /\ UNCHANGED <<lock, health, conn, stamp, pending, blind, depth, txn,
                          table, voids, voidWrites, missed>>

\* The process dies and starts again: RuntimeDb.__init__ connects afresh.
DbRestart == /\ lock' = NoThread
             /\ conn' = disk /\ stamp' = disk
             /\ pending' = FALSE /\ blind' = FALSE /\ depth' = 0
             /\ latch' = "none" /\ errors' = 0 /\ healed' = FALSE
             /\ txn' = {}
             /\ UNCHANGED <<disk, table, fate>>
=============================================================================

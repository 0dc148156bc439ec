--------------------------- MODULE ApprovalManager ---------------------------
(***************************************************************************)
(* One request for approval (approval.py): a JSON file that every update   *)
(* replaces by a new file, under a lock on the file it has opened.  The    *)
(* lock is on an inode, and the name may have moved on to another inode:   *)
(* an update that finds itself on an orphan opens the name again.  A       *)
(* reaper moves files away without any lock, and list_pending answers from *)
(* a cache that the updates clear.                                         *)
(***************************************************************************)
EXTENDS Naturals, FiniteSets, Sequences

CONSTANTS
    Threads,
    Duties,    \* thread -> operations it performs
    Sweeper,   \* the thread of the approval_sweep job
    Inodes,    \* inode numbers; a number is free again when nothing uses it
    NoInode,
    TTL,       \* ttl_seconds
    CacheTTL,  \* _LIST_PENDING_CACHE_TTL_SECONDS
    TokenCap,  \* bound of the model: tokens
    Horizon    \* bound of the model: time

Deciding == {"approve", "confirm", "internal", "reject", "archive", "expire"}
Updates == Deciding \cup {"reissue"}
Readers == {"list", "reap", "confirm"}  \* approve_confirmation reads first
Operations == Updates \cup Readers \cup {"create"}

ASSUME ApprovalAssumption ==
    /\ Sweeper \in Threads /\ NoInode \notin Inodes
    /\ Duties \in [Threads -> SUBSET Operations]
    /\ TTL \in Nat /\ CacheTTL \in Nat /\ TokenCap \in Nat \ {0} /\ Horizon \in Nat

VARIABLES
    now,      \* time.time()
    root,     \* root/<approval_id>.json
    archive,  \* the record in root/resolved/<approval_id>.json
    cache,    \* _pending_cache
    pc, op,   \* thread -> where it is, in which operation
    start,    \* thread -> `now` as its operation sampled it
    token,    \* thread -> the token it was given, or has generated
    fd,       \* thread -> inode of the file it has open
    draft,    \* thread -> the record it is about to write
    result,   \* thread -> _result
    seen,     \* thread -> the request it has read is pending
    issued, handed, used, told, changed  \* ghosts: tokens generated; token of
              \* the last reissue; token that approved; decisions that callers
              \* were told are theirs; when the request was last made or decided

files == <<root, archive>>
threads == <<pc, op, start, token, fd, draft, result, seen>>
ghosts == <<issued, handed, used, told, changed>>
vars == <<now, files, cache, threads, ghosts>>

TerminalStates == {"approved", "rejected", "expired", "archived"}
States == {"none", "pending"} \cup TerminalStates  \* "none": no such record

Record == [status : States, token : Nat, created : Nat]
NoRecord == [status |-> "none", token |-> 0, created |-> 0]

File == [ino : Inodes \cup {NoInode}, rec : Record]
NoFile == [ino |-> NoInode, rec |-> NoRecord]

Listing == [at : Nat, shows : BOOLEAN, valid : BOOLEAN]  \* at: its scan began
NoListing == [at |-> 0, shows |-> FALSE, valid |-> FALSE]

\* _locked_update: open, wait for the lock, replace the file, return; read:
\* look the name up, wait for the lock; then store the listing or move the file.
Places == {"idle", "open", "lock", "replace", "return", "look", "read", "store", "rename"}

Init ==
    /\ now = 0
    /\ root = NoFile /\ archive = NoRecord /\ cache = NoListing
    /\ pc = [t \in Threads |-> "idle"] /\ op = [t \in Threads |-> "list"]
    /\ start = [t \in Threads |-> 0] /\ token = [t \in Threads |-> 0]
    /\ fd = [t \in Threads |-> NoInode]
    /\ draft = [t \in Threads |-> NoRecord]
    /\ result = [t \in Threads |-> FALSE]
    /\ seen = [t \in Threads |-> FALSE]
    /\ issued = 0 /\ handed = 0 /\ used = 0 /\ told = <<>> /\ changed = 0

Exists == root.ino # NoInode

\* The record as an auditor finds it.
Standing == IF Exists THEN root.rec ELSE archive

Goto(t, place) == pc' = [pc EXCEPT ![t] = place]

Closes(t) == fd' = [fd EXCEPT ![t] = NoInode]

\* The operation of a thread ends; its locals are gone.
Ends(t) == /\ Goto(t, "idle")
           /\ op' = [op EXCEPT ![t] = "list"]
           /\ start' = [start EXCEPT ![t] = 0]
           /\ token' = [token EXCEPT ![t] = 0]
           /\ Closes(t)
           /\ draft' = [draft EXCEPT ![t] = NoRecord]
           /\ result' = [result EXCEPT ![t] = FALSE]
           /\ seen' = [seen EXCEPT ![t] = FALSE]

-----------------------------------------------------------------------------
(* Beginning an operation *)

\* Inodes that the name or an open file keeps from being given out again (a
\* file that was moved away is not met again).
InUse == {root.ino} \cup {fd[t] : t \in Threads}
Free == Inodes \ InUse
Fresh == CHOOSE i \in Free : TRUE

\* Bound of the model: no request is made or renewed that the clock would not
\* outlive.
InTime == now + TTL < Horizon

\* create writes a file of a new, random name.
Create(t) ==
    /\ pc[t] = "idle" /\ "create" \in Duties[t]
    /\ Standing.status = "none" /\ InTime /\ Free # {}
    /\ root' = [ino |-> Fresh, rec |-> [status |-> "pending", token |-> 1, created |-> now]]
    /\ Goto(t, "return") /\ op' = [op EXCEPT ![t] = "create"]
    /\ issued' = 1 /\ handed' = 1 /\ changed' = now
    /\ UNCHANGED <<now, archive, cache, start, token, fd, draft, result, seen, used, told>>

Begin(t, o, place, tok) ==
    /\ pc[t] = "idle" /\ o \in Duties[t]
    /\ Goto(t, place)
    /\ op' = [op EXCEPT ![t] = o]
    /\ start' = [start EXCEPT ![t] = IF o \in {"confirm", "reap", "reject", "archive"}
                                     THEN 0 ELSE now]
    /\ token' = [token EXCEPT ![t] = tok]
    /\ UNCHANGED <<now, files, cache, fd, draft, result, seen, handed, used, told, changed>>

\* Token 0 is any that was never issued.
BeginApprove(t) == /\ \E k \in 0..issued : Begin(t, "approve", "open", k)
                   /\ UNCHANGED issued

BeginUpdate(t) == /\ \E o \in {"internal", "reject", "archive"} : Begin(t, o, "open", 0)
                  /\ UNCHANGED issued

BeginConfirm(t) == /\ Begin(t, "confirm", "look", 0)
                   /\ UNCHANGED issued

\* reissue generates its token before it waits for the lock.
BeginReissue(t) == /\ InTime /\ issued \in 1..TokenCap - 1
                   /\ Begin(t, "reissue", "open", issued + 1)
                   /\ issued' = issued + 1

CacheHit == cache.valid

BeginList(t) == /\ ~CacheHit
                /\ Begin(t, "list", "look", 0)
                /\ UNCHANGED issued

\* expire_due and reap_resolved, over the files there are.
BeginExpire(t) == /\ Exists
                  /\ Begin(t, "expire", "open", 0)
                  /\ UNCHANGED issued

BeginReap(t) == /\ Exists
                /\ Begin(t, "reap", "look", 0)
                /\ UNCHANGED issued

-----------------------------------------------------------------------------
(* _locked_update *)

\* Mutant: the lock is released once the record is read.
Locked_WhileReading(i) == \E u \in Threads : pc[u] = "return" /\ fd[u] = i

\* flock: exclusive until the update returns.
Locked(i) == \E u \in Threads : pc[u] \in {"replace", "return"} /\ fd[u] = i

\* FileNotFoundError ends the operation.
Open(t) ==
    /\ pc[t] = "open"
    /\ IF Exists
       THEN /\ Goto(t, "lock")
            /\ fd' = [fd EXCEPT ![t] = root.ino]
            /\ UNCHANGED <<op, start, token, draft, result, seen>>
       ELSE Ends(t)
    /\ UNCHANGED <<now, files, cache, ghosts>>

\* Mutants: the inode is not compared; a sweep leaves a renewed request alone.
SameFile_Unchecked(t) == Exists
Overdue_FirstTokenOnly(t) == root.rec.token = 1 /\ start[t] > root.rec.created + TTL

\* fstat(fd).st_ino = stat(path).st_ino
SameFile(t) == fd[t] = root.ino

Overdue(t) == start[t] > root.rec.created + TTL

\* Mutant: only an approval is final.
Undecided_UnlessApproved(t) == root.rec.status # "approved"

Undecided(t) == root.rec.status = "pending"

\* Mutant: the new token is sent, the old one stays valid.
Renewed_OldToken(t) == [root.rec EXCEPT !.created = start[t]]

Renewed(t) == [root.rec EXCEPT !.token = token[t], !.created = start[t]]

Becomes(status) == [root.rec EXCEPT !.status = status]

\* What each modifier makes of an undecided record, and its _result.
Verdict(t) ==
    CASE op[t] = "reject"  -> <<Becomes("rejected"), TRUE>>
      [] op[t] = "archive" -> <<Becomes("archived"), TRUE>>
      [] op[t] = "expire"  -> IF Overdue(t) THEN <<Becomes("expired"), TRUE>>
                                            ELSE <<root.rec, FALSE>>
      [] OTHER -> IF Overdue(t) THEN <<Becomes("expired"), FALSE>>
                  ELSE IF op[t] = "reissue" THEN <<Renewed(t), TRUE>>
                  ELSE IF op[t] = "approve" /\ token[t] # root.rec.token
                  THEN <<Becomes("rejected"), FALSE>>
                  ELSE <<Becomes("approved"), TRUE>>

\* The lock is granted, the inodes are compared, the record is read and
\* modified in memory; on an orphan the lock is released and the name opened
\* again.
Lock(t) ==
    /\ pc[t] = "lock" /\ ~Locked(fd[t])
    /\ IF SameFile(t)
       THEN /\ Goto(t, "replace")
            /\ IF Undecided(t)
               THEN /\ draft' = [draft EXCEPT ![t] = Verdict(t)[1]]
                    /\ result' = [result EXCEPT ![t] = Verdict(t)[2]]
               ELSE /\ draft' = [draft EXCEPT ![t] = root.rec]
                    /\ UNCHANGED result
            /\ start' = [start EXCEPT ![t] = 0]
            /\ UNCHANGED fd
       ELSE /\ Goto(t, "open")
            /\ Closes(t)
            /\ UNCHANGED <<draft, result, start>>
    /\ UNCHANGED <<now, files, cache, op, token, seen, ghosts>>

\* _atomic_write_json: also when nothing has changed.
Replace(t) ==
    /\ pc[t] = "replace" /\ Free # {}
    /\ root' = [ino |-> Fresh, rec |-> draft[t]]
    /\ Goto(t, "return")
    /\ handed' = IF op[t] = "reissue" /\ result[t] THEN token[t] ELSE handed
    /\ used' = IF op[t] = "approve" /\ result[t] THEN token[t] ELSE used
    /\ changed' = IF draft[t].status # Standing.status THEN now ELSE changed
    /\ UNCHANGED <<now, archive, cache, op, start, token, fd, draft, result, seen,
                   issued, told>>

\* The cache is cleared, the lock released, the caller gets _result.
Return(t) ==
    /\ pc[t] = "return"
    /\ cache' = NoListing
    /\ told' = IF op[t] \in Deciding /\ result[t] THEN Append(told, draft[t].status)
                                                  ELSE told
    /\ Ends(t)
    /\ UNCHANGED <<now, files, issued, handed, used, changed>>

-----------------------------------------------------------------------------
(* read, list_pending, reap_resolved *)

Look(t) ==
    /\ pc[t] = "look"
    /\ IF Exists
       THEN /\ Goto(t, "read")
            /\ fd' = [fd EXCEPT ![t] = root.ino]
            /\ UNCHANGED <<op, start, token, draft, result, seen>>
       ELSE IF op[t] = "list"
       THEN /\ Goto(t, "store")
            /\ UNCHANGED <<op, start, token, fd, draft, result, seen>>
       ELSE Ends(t)
    /\ UNCHANGED <<now, files, cache, ghosts>>

AfterRead == [list |-> "store", confirm |-> "open", reap |-> "rename"]

\* The shared lock is granted; an orphan is not read.  A confirmation that is
\* refused and a record that is not decided yet end the operation.
Read(t) ==
    /\ pc[t] = "read" /\ ~Locked(fd[t])
    /\ \/ /\ SameFile(t)
          /\ op[t] = "reap" => root.rec.status \in TerminalStates
          /\ Goto(t, AfterRead[op[t]])
          /\ Closes(t)
          /\ seen' = [seen EXCEPT ![t] = op[t] = "list" /\ root.rec.status = "pending"]
          /\ IF op[t] = "confirm"  \* _approve_human_without_token
             THEN /\ op' = [op EXCEPT ![t] = "internal"]
                  /\ start' = [start EXCEPT ![t] = now]
             ELSE UNCHANGED <<op, start>>
          /\ UNCHANGED <<token, draft, result>>
       \/ /\ SameFile(t) /\ op[t] # "list"
          /\ op[t] = "reap" => root.rec.status \notin TerminalStates
          /\ Ends(t)
       \/ /\ ~SameFile(t)
          /\ Goto(t, "look")
          /\ Closes(t)
          /\ UNCHANGED <<op, start, token, draft, result, seen>>
    /\ UNCHANGED <<now, files, cache, ghosts>>

\* A listing past its time is never looked at again, and is dropped here.
Live(listing, time) == IF time <= listing.at + CacheTTL THEN listing ELSE NoListing

\* Mutant: the listing is dated when it is stored.
ScannedAt_End(t) == now

ScannedAt(t) == start[t]

Store(t) ==
    /\ pc[t] = "store"
    /\ cache' = Live([at |-> ScannedAt(t), shows |-> seen[t], valid |-> TRUE], now)
    /\ Ends(t)
    /\ UNCHANGED <<now, files, ghosts>>

\* The name is moved, whatever file it is by now; OSError if there is none.
\* How long ago the decision was made is left open.
Rename(t) ==
    /\ pc[t] = "rename"
    /\ IF Exists
       THEN archive' = root.rec /\ root' = NoFile /\ cache' = NoListing
       ELSE UNCHANGED <<files, cache>>
    /\ Ends(t)
    /\ UNCHANGED <<now, ghosts>>

-----------------------------------------------------------------------------
\* The process dies and starts again: the files stay.
Crash == /\ pc' = [t \in Threads |-> "idle"]
         /\ op' = [t \in Threads |-> "list"]
         /\ start' = [t \in Threads |-> 0] /\ token' = [t \in Threads |-> 0]
         /\ fd' = [t \in Threads |-> NoInode]
         /\ draft' = [t \in Threads |-> NoRecord]
         /\ result' = [t \in Threads |-> FALSE]
         /\ seen' = [t \in Threads |-> FALSE]
         /\ cache' = NoListing
         /\ UNCHANGED <<now, files, ghosts>>

Tick == /\ now < Horizon
        /\ now' = now + 1
        /\ cache' = Live(cache, now')
        /\ UNCHANGED <<files, threads, ghosts>>

Continues(t) == \/ Open(t) \/ Lock(t) \/ Replace(t) \/ Return(t)
                \/ Look(t) \/ Read(t) \/ Store(t) \/ Rename(t)

Calls(t) == \/ Create(t) \/ BeginApprove(t) \/ BeginConfirm(t) \/ BeginReissue(t)
            \/ BeginUpdate(t) \/ BeginList(t) \/ BeginExpire(t) \/ BeginReap(t)

Next == \/ \E t \in Threads : Calls(t) \/ Continues(t)
        \/ Crash
        \/ Tick

Spec == Init /\ [][Next]_vars

\* Operations run to their end, the daemon sweeps again and again, time passes.
Fairness == /\ \A t \in Threads : WF_vars(Continues(t))
            /\ SF_vars(BeginExpire(Sweeper))
            /\ WF_vars(Tick)

FairSpec == Spec /\ Fairness

-----------------------------------------------------------------------------
(* Properties *)

\* Types; a thread has a file open exactly where the code has one.
ApprovalTypeOK ==
    /\ now \in Nat /\ root \in File /\ archive \in Record /\ cache \in Listing
    /\ pc \in [Threads -> Places] /\ op \in [Threads -> Operations]
    /\ start \in [Threads -> Nat] /\ token \in [Threads -> Nat]
    /\ fd \in [Threads -> Inodes \cup {NoInode}]
    /\ draft \in [Threads -> Record] /\ result \in [Threads -> BOOLEAN]
    /\ seen \in [Threads -> BOOLEAN]
    /\ issued \in Nat /\ handed \in Nat /\ used \in Nat /\ changed \in Nat
    /\ told \in Seq(TerminalStates)
    /\ \A t \in Threads : pc[t] \in {"lock", "replace", "read"} => fd[t] # NoInode
    /\ \A t \in Threads : pc[t] \in {"idle", "open", "look", "store", "rename"}
                            => fd[t] = NoInode

\* Two threads are never both between the comparison of the inodes and the
\* replacement of the file, although each may hold a lock: of two updates that
\* read the same record, neither is lost.
OneWriter == \A t, u \in Threads : pc[t] = "replace" /\ pc[u] = "replace" => t = u

\* However approvals, rejections, sweeps and moves of the file race, one caller
\* at most is told that the decision is its own, and the record agrees.
OneVerdict == /\ Len(told) <= 1
              /\ \A i \in 1..Len(told) : told[i] = Standing.status

\* The token that approved a request is the one handed out last: a reissue
\* invalidates its predecessors at once, in whatever order calls overtake each
\* other.
NewestToken == used # 0 => used = handed

\* A cached listing that is wrong was right when its scan began or later: what
\* list_pending shows is out of date by CacheTTL at most, and nothing else.
StaleSinceScan ==
    cache.valid /\ cache.shows # (Standing.status = "pending") => changed >= cache.at

\* Every request is decided, if only by the sweep.
PendingSettles ==
    <>[][~Crash]_vars => (Standing.status = "pending" ~> Standing.status # "pending")

\* The record behaves as a decision that is made once: no update, move, crash or
\* race ever takes a decision back, changes it, or loses the record.
Register == INSTANCE Decision WITH outcome <- Standing.status, told <- told
ImplementsDecision == Register!DecisionSpec
=============================================================================

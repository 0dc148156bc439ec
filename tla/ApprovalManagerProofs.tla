------------------------ MODULE ApprovalManagerProofs ------------------------
(***************************************************************************)
(* Theorems about ApprovalManager for every set of threads and inodes and  *)
(* every time to live.                                                     *)
(*                                                                         *)
(* The record stands still except for Create and Replace, and of two       *)
(* threads never both are about to replace it: that is the heart of IInv.  *)
(* What such a thread has drafted then still fits the record that stands.  *)
(***************************************************************************)
EXTENDS ApprovalManager, TLAPS

\* Which operation is where, and which threads can have seen a request or have
\* a result.
Placed == \A t \in Threads :
    /\ pc[t] \in {"look", "read"} => op[t] \in Readers
    /\ pc[t] \in {"open", "lock", "replace"} => op[t] \in Updates
    /\ pc[t] \in {"idle", "look", "read"} => ~seen[t]
    /\ pc[t] \notin {"replace", "return"} => ~result[t]

\* A record that left the root is decided, and nobody has a file without one.
Recorded ==
    /\ Exists => root.rec.status # "none"
    /\ archive.status # "pending"
    /\ \A t \in Threads : fd[t] # NoInode => Standing.status # "none"
    /\ \A t \in Threads : pc[t] = "rename" => Standing.status \in TerminalStates

\* A draft made from the pending record that stands.
Rewrites(t) ==
    /\ draft[t].status \in TerminalStates \cup {"pending"}
    /\ result[t] /\ op[t] \in Deciding => draft[t].status \in TerminalStates
    /\ draft[t].token = IF op[t] = "reissue" /\ result[t] THEN token[t] ELSE Standing.token
    /\ op[t] = "approve" /\ result[t] => token[t] = Standing.token

\* A writer holds the lock on the file of the name, unless the reaper moved
\* it, and its draft is a rewriting of the record or the record itself.
Writing == \A t \in Threads : pc[t] = "replace" =>
    /\ Exists => fd[t] = root.ino
    /\ IF Standing.status = "pending" THEN Rewrites(t)
                                      ELSE draft[t] = Standing /\ ~result[t]

\* A caller that is about to be told that the decision is its own.
Owed(t) == pc[t] = "return" /\ op[t] \in Deciding /\ result[t]

Verdicts ==
    /\ told # <<>> => Standing.status \in TerminalStates /\ told = <<Standing.status>>
    /\ \A t \in Threads : Owed(t) =>
        /\ told = <<>>
        /\ Standing.status \in TerminalStates /\ draft[t].status = Standing.status
        /\ \A u \in Threads : Owed(u) => t = u

Tokens ==
    /\ Standing.status # "none" => Standing.token = handed
    /\ used # 0 => Standing.status \in TerminalStates /\ used = handed

\* What was seen at some time is still so, or has changed since.
Since(time, pending) == pending # (Standing.status = "pending") => changed >= time

Listings ==
    /\ changed <= now /\ cache.at <= now
    /\ cache.valid => Since(cache.at, cache.shows)
    /\ \A t \in Threads : start[t] <= now
    /\ \A t \in Threads : pc[t] = "store" => Since(start[t], seen[t])

IInv == ApprovalTypeOK /\ Placed /\ Recorded /\ OneWriter /\ Writing /\ Verdicts
        /\ Tokens /\ Listings

-----------------------------------------------------------------------------
(* What the operators yield. *)

LEMMA FreshIsFree ==
    ASSUME Free # {}
    PROVE  /\ Fresh \in Inodes \ {NoInode} /\ Fresh # root.ino
           /\ \A t \in Threads : fd[t] # Fresh
  <1>1. Fresh \in Free
    BY DEF Fresh
  <1> QED
    BY <1>1, ApprovalAssumption DEF Free, InUse

\* The modifiers of an undecided record.
LEMMA VerdictRewrites ==
    ASSUME ApprovalTypeOK, NEW t \in Threads, op[t] \in Updates, Undecided(t),
           NEW d, NEW r, d = Verdict(t)[1], r = Verdict(t)[2]
    PROVE  /\ d \in Record /\ r \in BOOLEAN
           /\ d.status \in TerminalStates \cup {"pending"}
           /\ r /\ op[t] \in Deciding => d.status \in TerminalStates
           /\ d.token = IF op[t] = "reissue" /\ r THEN token[t] ELSE root.rec.token
           /\ op[t] = "approve" /\ r => token[t] = root.rec.token
  <1> DEFINE rec == root.rec
  <1>1. rec \in Record /\ rec.status = "pending" /\ token[t] \in Nat /\ start[t] \in Nat
    BY DEF ApprovalTypeOK, Undecided, File
  <1>2. \A s \in TerminalStates : /\ Becomes(s) \in Record /\ Becomes(s).status = s
                                  /\ Becomes(s).token = rec.token
    BY <1>1 DEF Becomes, Record, States
  <1>3. /\ Renewed(t) \in Record /\ Renewed(t).status = "pending"
        /\ Renewed(t).token = token[t]
    BY <1>1 DEF Renewed, Record
  <1>4. {"approved", "rejected", "expired", "archived"} = TerminalStates
    BY DEF TerminalStates
  <1> HIDE DEF rec
  <1>5. CASE op[t] = "reject"
    BY <1>5, <1>2, <1>4 DEF Verdict, rec
  <1>6. CASE op[t] = "archive"
    BY <1>6, <1>2, <1>4 DEF Verdict, rec
  <1>7. CASE op[t] = "expire"
    BY <1>7, <1>1, <1>2, <1>4 DEF Verdict, rec, Deciding
  <1>8. CASE op[t] = "reissue"
    BY <1>8, <1>1, <1>2, <1>3, <1>4 DEF Verdict, rec, Deciding
  <1>9. CASE op[t] \in {"approve", "confirm", "internal"}
    BY <1>9, <1>1, <1>2, <1>4 DEF Verdict, rec, Deciding
  <1> QED
    BY <1>5, <1>6, <1>7, <1>8, <1>9 DEF Updates, Deciding

-----------------------------------------------------------------------------
(* Steps *)

\* The part of the type invariant that is about the threads.
ThreadTypes ==
    /\ pc \in [Threads -> Places] /\ op \in [Threads -> Operations]
    /\ start \in [Threads -> Nat] /\ token \in [Threads -> Nat]
    /\ fd \in [Threads -> Inodes \cup {NoInode}]
    /\ draft \in [Threads -> Record] /\ result \in [Threads -> BOOLEAN]
    /\ seen \in [Threads -> BOOLEAN]
    /\ \A t \in Threads : pc[t] \in {"lock", "replace", "read"} => fd[t] # NoInode
    /\ \A t \in Threads : pc[t] \in {"idle", "open", "look", "store", "rename"}
                            => fd[t] = NoInode

LEMMA Nothings ==
    /\ NoRecord \in Record /\ NoFile \in File /\ NoListing \in Listing
    /\ {"list", "internal"} \subseteq Operations
  <1>1. NoRecord \in Record
    BY DEF NoRecord, Record, States
  <1> QED
    BY <1>1 DEF NoFile, NoListing, File, Listing, Operations, Updates, Deciding, Readers

LEMMA EndsTyped ==
    ASSUME ApprovalTypeOK, NEW t \in Threads, Ends(t)
    PROVE  ThreadTypes'
  <1>1. NoRecord \in Record /\ "list" \in Operations
    BY Nothings
  <1> QED
    BY <1>1 DEF ApprovalTypeOK, ThreadTypes, Ends, Goto, Closes, Places

LEMMA BeginTyped ==
    ASSUME ApprovalTypeOK, NEW t \in Threads, NEW o \in Operations,
           NEW place \in {"open", "look"}, NEW k \in Nat, issued' \in Nat,
           Begin(t, o, place, k)
    PROVE  ApprovalTypeOK'
  BY DEF ApprovalTypeOK, Begin, Goto, Places, files

LEMMA TypesBegin ==
    ASSUME ApprovalTypeOK, NEW t \in Threads, Calls(t)
    PROVE  ApprovalTypeOK'
  <1>1. CASE Create(t)
    <2>1. Fresh \in Inodes \cup {NoInode}
      BY <1>1, FreshIsFree DEF Create
    <2>2. [status |-> "pending", token |-> 1, created |-> now] \in Record
      BY DEF Record, States, ApprovalTypeOK
    <2> QED
      BY <1>1, <2>1, <2>2 DEF Create, Goto, File, Places, Operations, ApprovalTypeOK
  <1>2. /\ issued \in Nat /\ issued + 1 \in Nat
        /\ \A k \in 0..issued : k \in Nat
    BY DEF ApprovalTypeOK
  <1>3. {"approve", "internal", "reject", "archive", "confirm", "reissue",
         "list", "expire", "reap"} \subseteq Operations
    BY DEF Operations, Updates, Deciding, Readers
  <1>4. CASE BeginApprove(t)
    <2>1. PICK k \in 0..issued : Begin(t, "approve", "open", k)
      BY <1>4 DEF BeginApprove
    <2> QED
      BY <1>2, <1>3, <1>4, <2>1, BeginTyped DEF BeginApprove
  <1>5. CASE BeginConfirm(t)
    BY <1>2, <1>3, <1>5, BeginTyped DEF BeginConfirm
  <1>6. CASE BeginReissue(t)
    BY <1>2, <1>3, <1>6, BeginTyped DEF BeginReissue
  <1>7. CASE BeginUpdate(t)
    BY <1>2, <1>3, <1>7, BeginTyped DEF BeginUpdate
  <1>8. CASE BeginList(t)
    BY <1>2, <1>3, <1>8, BeginTyped DEF BeginList
  <1>9. CASE BeginExpire(t) \/ BeginReap(t)
    BY <1>2, <1>3, <1>9, BeginTyped DEF BeginExpire, BeginReap
  <1> QED
    BY <1>1, <1>4, <1>5, <1>6, <1>7, <1>8, <1>9 DEF Calls

LEMMA TypesContinue ==
    ASSUME IInv, NEW t \in Threads, Continues(t)
    PROVE  ApprovalTypeOK'
  <1>1. ApprovalTypeOK
    BY DEF IInv
  <1>2. ASSUME ThreadTypes', UNCHANGED <<now, files, cache, ghosts>>
        PROVE  ApprovalTypeOK'
    BY <1>1, <1>2 DEF ApprovalTypeOK, ThreadTypes, files, ghosts
  <1>3. CASE Open(t)
    <2>1. CASE Exists
      <3>1. root.ino \in Inodes /\ root.ino # NoInode
        BY <1>1, <2>1 DEF ApprovalTypeOK, File, Exists
      <3>2. ThreadTypes'
        BY <1>1, <1>3, <2>1, <3>1 DEF ApprovalTypeOK, ThreadTypes, Open, Goto, Places
      <3> QED
        BY <1>2, <1>3, <3>2 DEF Open
    <2>2. CASE ~Exists
      BY <1>1, <1>2, <1>3, <2>2, EndsTyped DEF Open
    <2> QED
      BY <2>1, <2>2
  <1>4. CASE Lock(t)
    <2>1. fd[t] # NoInode /\ op[t] \in Updates
      BY <1>1, <1>4 DEF Lock, ApprovalTypeOK, IInv, Placed
    <2>2. CASE SameFile(t)
      <3>1. PICK d, r : d \in Record /\ r \in BOOLEAN /\ draft' = [draft EXCEPT ![t] = d]
                        /\ result' = [result EXCEPT ![t] = r]
        <4>1. CASE Undecided(t)
          <5>1. Verdict(t)[1] \in Record /\ Verdict(t)[2] \in BOOLEAN
            BY <1>1, <2>1, <4>1, VerdictRewrites
          <5> QED
            BY <1>4, <2>2, <4>1, <5>1 DEF Lock
        <4>2. CASE ~Undecided(t)
          <5>1. root.rec \in Record /\ result[t] \in BOOLEAN
                /\ result = [result EXCEPT ![t] = result[t]]
            BY <1>1 DEF ApprovalTypeOK, File
          <5> QED
            BY <1>4, <2>2, <4>2, <5>1 DEF Lock
        <4> QED
          BY <4>1, <4>2
      <3>2. /\ pc' = [pc EXCEPT ![t] = "replace"]
            /\ start' = [start EXCEPT ![t] = 0]
            /\ UNCHANGED <<fd, op, token, seen>>
        BY <1>4, <2>2 DEF Lock, Goto
      <3>3. ThreadTypes'
        BY <1>1, <2>1, <3>1, <3>2 DEF ApprovalTypeOK, ThreadTypes, Places
      <3> QED
        BY <1>2, <1>4, <3>3 DEF Lock
    <2>3. CASE ~SameFile(t)
      <3>1. ThreadTypes'
        BY <1>1, <1>4, <2>3 DEF ApprovalTypeOK, ThreadTypes, Lock, Goto, Closes, Places
      <3> QED
        BY <1>2, <1>4, <3>1 DEF Lock
    <2> QED
      BY <2>2, <2>3
  <1>5. CASE Replace(t)
    <2>1. Fresh \in Inodes \cup {NoInode}
      BY <1>5, FreshIsFree DEF Replace
    <2> QED
      BY <1>1, <1>5, <2>1 DEF Replace, Goto, Places, File, ApprovalTypeOK
  <1>6. CASE Return(t)
    <2>1. told' \in Seq(TerminalStates)
      BY <1>1, <1>6 DEF Return, Verdicts, Owed, IInv, ApprovalTypeOK
    <2>2. ThreadTypes'
      BY <1>1, <1>6, EndsTyped DEF Return
    <2> QED
      BY <1>1, <1>6, <2>1, <2>2, Nothings DEF Return, ApprovalTypeOK, ThreadTypes, files
  <1>7. CASE Look(t)
    <2>1. CASE Exists
      <3>1. root.ino \in Inodes /\ root.ino # NoInode
        BY <1>1, <2>1 DEF ApprovalTypeOK, File, Exists
      <3>2. ThreadTypes'
        BY <1>1, <1>7, <2>1, <3>1 DEF ApprovalTypeOK, ThreadTypes, Look, Goto, Places
      <3> QED
        BY <1>2, <1>7, <3>2 DEF Look
    <2>2. CASE ~Exists /\ op[t] = "list"
      <3>1. ThreadTypes'
        BY <1>1, <1>7, <2>2 DEF ApprovalTypeOK, ThreadTypes, Look, Goto, Places
      <3> QED
        BY <1>2, <1>7, <3>1 DEF Look
    <2>3. CASE ~Exists /\ op[t] # "list"
      BY <1>1, <1>2, <1>7, <2>3, EndsTyped DEF Look
    <2> QED
      BY <2>1, <2>2, <2>3
  <1>8. CASE Read(t)
    <2>1. AfterRead[op[t]] \in {"store", "open", "rename"}
      BY <1>8 DEF Read, AfterRead, IInv, Placed, Readers
    <2>2. CASE Ends(t)
      BY <1>1, <1>2, <1>8, <2>2, EndsTyped DEF Read
    <2>3. ASSUME NEW place \in {"store", "open", "rename", "look"},
                 Goto(t, place), Closes(t), UNCHANGED <<token, draft, result>>,
                 NEW b \in BOOLEAN, seen' = [seen EXCEPT ![t] = b],
                 op' \in [Threads -> Operations], start' \in [Threads -> Nat]
          PROVE  ThreadTypes'
      BY <1>1, <2>3 DEF ApprovalTypeOK, ThreadTypes, Goto, Closes, Places
    <2>4. CASE SameFile(t) /\ ~Ends(t)
      <3>0. /\ op \in [Threads -> Operations] /\ start \in [Threads -> Nat]
            /\ now \in Nat /\ "internal" \in Operations
        BY <1>1 DEF ApprovalTypeOK, Operations, Deciding, Updates
      <3>1. op' \in [Threads -> Operations] /\ start' \in [Threads -> Nat]
        <4>1. \/ /\ op' = [op EXCEPT ![t] = "internal"]
                 /\ start' = [start EXCEPT ![t] = now]
              \/ UNCHANGED <<op, start>>
          BY <1>8, <2>4 DEF Read
        <4> QED
          BY <3>0, <4>1
      <3>2. ThreadTypes'
        BY <1>8, <2>1, <2>3, <2>4, <3>1 DEF Read
      <3> QED
        BY <1>2, <1>8, <3>2 DEF Read
    <2>5. CASE ~SameFile(t) /\ ~Ends(t)
      <3>1. /\ op' \in [Threads -> Operations] /\ start' \in [Threads -> Nat]
            /\ seen[t] \in BOOLEAN /\ seen' = [seen EXCEPT ![t] = seen[t]]
        BY <1>1, <1>8, <2>5 DEF Read, ApprovalTypeOK
      <3>2. ThreadTypes'
        BY <1>8, <2>3, <2>5, <3>1 DEF Read
      <3> QED
        BY <1>2, <1>8, <3>2 DEF Read
    <2> QED
      BY <2>2, <2>4, <2>5
  <1>9. CASE Store(t)
    <2>1. cache' \in Listing
      BY <1>1, <1>9, Nothings DEF Store, Live, ScannedAt, Listing, ApprovalTypeOK
    <2>2. ThreadTypes'
      BY <1>1, <1>9, EndsTyped DEF Store
    <2> QED
      BY <1>1, <1>9, <2>1, <2>2 DEF Store, ApprovalTypeOK, ThreadTypes, files, ghosts
  <1>10. CASE Rename(t)
    <2>1. ThreadTypes'
      BY <1>1, <1>10, EndsTyped DEF Rename
    <2> QED
      BY <1>1, <1>10, <2>1, Nothings DEF Rename, ApprovalTypeOK, ThreadTypes, File, files,
                                         ghosts
  <1> QED
    BY <1>3, <1>4, <1>5, <1>6, <1>7, <1>8, <1>9, <1>10 DEF Continues

LEMMA TypesKept ==
    ASSUME IInv, [Next]_vars
    PROVE  ApprovalTypeOK'
  <1> USE Nothings DEF IInv, ApprovalTypeOK, files, threads, ghosts
  <1>2. CASE Crash
    BY <1>2 DEF Crash, Places
  <1>3. CASE Tick
    BY <1>3 DEF Tick, Live
  <1>4. CASE UNCHANGED vars
    BY <1>4 DEF vars
  <1> QED
    BY <1>2, <1>3, <1>4, TypesBegin, TypesContinue DEF Next

\* A step of a thread leaves the locals of every other thread alone.
LEMMA OthersStay ==
    ASSUME ApprovalTypeOK, NEW t \in Threads, Calls(t) \/ Continues(t),
           NEW u \in Threads \ {t}
    PROVE  /\ pc'[u] = pc[u] /\ op'[u] = op[u] /\ start'[u] = start[u]
           /\ token'[u] = token[u] /\ fd'[u] = fd[u] /\ draft'[u] = draft[u]
           /\ result'[u] = result[u] /\ seen'[u] = seen[u]
  <1> DEFINE Stay == /\ pc'[u] = pc[u] /\ op'[u] = op[u] /\ start'[u] = start[u]
                     /\ token'[u] = token[u] /\ fd'[u] = fd[u] /\ draft'[u] = draft[u]
                     /\ result'[u] = result[u] /\ seen'[u] = seen[u]
  <1> USE DEF ApprovalTypeOK, Goto, Closes
  <1>1. ASSUME Ends(t)
        PROVE  Stay
    BY <1>1 DEF Ends
  <1>2. ASSUME NEW o, NEW place, NEW k, Begin(t, o, place, k)
        PROVE  Stay
    BY <1>2 DEF Begin
  <1>3. CASE Calls(t)
    <2>1. CASE Create(t)
      BY <2>1 DEF Create
    <2> QED
      BY <1>2, <1>3, <2>1 DEF Calls, BeginApprove, BeginConfirm, BeginReissue,
                              BeginUpdate, BeginList, BeginExpire, BeginReap
  <1>4. CASE Continues(t)
    <2>1. CASE Open(t) \/ Look(t)
      BY <1>1, <2>1 DEF Open, Look
    <2>2. CASE Lock(t) \/ Replace(t)
      BY <2>2 DEF Lock, Replace
    <2>3. CASE Return(t) \/ Store(t) \/ Rename(t)
      BY <1>1, <2>3 DEF Return, Store, Rename
    <2>4. CASE Read(t)
      BY <1>1, <2>4 DEF Read
    <2> QED
      BY <1>4, <2>1, <2>2, <2>3, <2>4 DEF Continues
  <1> QED
    BY <1>3, <1>4

\* A thread at the end of its operation.
Idle(t) == /\ pc[t] = "idle" /\ op[t] = "list" /\ start[t] = 0 /\ fd[t] = NoInode
           /\ ~result[t] /\ ~seen[t]

LEMMA EndsIdle ==
    ASSUME ApprovalTypeOK, NEW t \in Threads, Ends(t)
    PROVE  Idle(t)'
  BY DEF ApprovalTypeOK, Ends, Goto, Closes, Idle

LEMMA CrashIdle ==
    ASSUME Crash, NEW t \in Threads
    PROVE  Idle(t)'
  BY DEF Crash, Idle

LEMMA PlacedKept ==
    ASSUME IInv, [Next]_vars
    PROVE  Placed'
  <1> DEFINE At(t) == /\ pc[t] \in {"look", "read"} => op[t] \in Readers
                      /\ pc[t] \in {"open", "lock", "replace"} => op[t] \in Updates
                      /\ pc[t] \in {"idle", "look", "read"} => ~seen[t]
                      /\ pc[t] \notin {"replace", "return"} => ~result[t]
  <1>1. ApprovalTypeOK /\ \A t \in Threads : At(t)
    BY DEF IInv, Placed
  <1>2. ASSUME NEW t \in Threads, Idle(t)'
        PROVE  At(t)'
    BY <1>2 DEF Idle
  <1>3. ASSUME NEW t \in Threads, Calls(t)
        PROVE  At(t)'
    <2>1. CASE Create(t)
      BY <1>1, <2>1 DEF Create, Goto, ApprovalTypeOK
    <2>2. ASSUME NEW o \in Updates, NEW k, Begin(t, o, "open", k)
          PROVE  At(t)'
      BY <1>1, <2>2 DEF Begin, Goto, ApprovalTypeOK
    <2>8. ASSUME NEW o \in Readers, NEW k, Begin(t, o, "look", k)
          PROVE  At(t)'
      BY <1>1, <2>8 DEF Begin, Goto, ApprovalTypeOK
    <2>3. CASE BeginApprove(t) \/ BeginReissue(t)
      BY <2>2, <2>3 DEF BeginApprove, BeginReissue, Updates, Deciding
    <2>4. CASE BeginUpdate(t) \/ BeginExpire(t)
      BY <2>2, <2>4 DEF BeginUpdate, BeginExpire, Updates, Deciding
    <2>5. {"confirm", "list", "reap"} \subseteq Readers
      BY DEF Readers
    <2>6. CASE BeginConfirm(t)
      BY <2>5, <2>6, <2>8 DEF BeginConfirm
    <2>7. CASE BeginList(t) \/ BeginReap(t)
      BY <2>5, <2>7, <2>8 DEF BeginList, BeginReap
    <2> QED
      BY <1>3, <2>1, <2>3, <2>4, <2>6, <2>7 DEF Calls
  <1>4. ASSUME NEW t \in Threads, Continues(t)
        PROVE  At(t)'
    <2>1. CASE Ends(t)
      BY <1>1, <1>2, <2>1, EndsIdle
    <2>2. CASE (Open(t) \/ Lock(t) \/ Replace(t)) /\ ~Ends(t)
      BY <1>1, <2>2 DEF Open, Lock, Replace, Goto, ApprovalTypeOK
    <2>3. CASE Look(t) /\ ~Ends(t)
      BY <1>1, <2>3 DEF Look, Goto, ApprovalTypeOK
    <2>4. CASE Read(t) /\ ~Ends(t)
      <3>1. CASE SameFile(t)
        <4>1. /\ pc[t] = "read" /\ op[t] \in Readers /\ ~result[t]
              /\ pc'[t] = AfterRead[op[t]] /\ result' = result
              /\ IF op[t] = "confirm" THEN op'[t] = "internal" ELSE op'[t] = op[t]
          BY <1>1, <2>4, <3>1 DEF Read, Goto, ApprovalTypeOK
        <4>2. CASE op[t] = "confirm"
          BY <4>1, <4>2 DEF AfterRead, Updates, Deciding
        <4>3. CASE op[t] = "list"
          BY <4>1, <4>3 DEF AfterRead
        <4>4. CASE op[t] = "reap"
          BY <4>1, <4>4 DEF AfterRead
        <4> QED
          BY <4>1, <4>2, <4>3, <4>4 DEF Readers
      <3>2. CASE ~SameFile(t)
        BY <1>1, <2>4, <3>2 DEF Read, Goto, ApprovalTypeOK
      <3> QED
        BY <3>1, <3>2
    <2>5. CASE Return(t) \/ Store(t) \/ Rename(t)
      BY <1>1, <1>2, <2>5, EndsIdle DEF Return, Store, Rename
    <2> QED
      BY <1>4, <2>1, <2>2, <2>3, <2>4, <2>5 DEF Continues
  <1>5. ASSUME NEW t \in Threads, Calls(t) \/ Continues(t)
        PROVE  Placed'
    BY <1>1, <1>3, <1>4, <1>5, OthersStay DEF Placed
  <1>6. CASE Crash
    BY <1>2, <1>6, CrashIdle DEF Placed
  <1>7. CASE Tick \/ UNCHANGED vars
    BY <1>1, <1>7 DEF Tick, vars, threads, Placed
  <1> QED
    BY <1>5, <1>6, <1>7 DEF Next

\* What stands changes when a request is made and when a file is replaced.
LEMMA StandingStays ==
    ASSUME IInv, [Next]_vars,
           \A t \in Threads : ~Create(t) /\ ~Replace(t)
    PROVE  /\ Standing' = Standing /\ (Exists' => Exists)
           /\ root' = root \/ ~Exists'
           /\ UNCHANGED <<handed, used, changed>>
           /\ told' = told \/ \E t \in Threads : Return(t)
           /\ \/ archive' = archive
              \/ archive' = root.rec /\ Exists /\ \E t \in Threads : Rename(t)
  <1> DEFINE Still == UNCHANGED <<root, archive, handed, used, told, changed>>
  <1>1. CASE Still
    <2>1. Standing' = Standing /\ (Exists' <=> Exists)
      BY <1>1 DEF Standing, Exists
    <2> QED
      BY <1>1, <2>1
  <1>2. ASSUME NEW t \in Threads, Return(t)
        PROVE  UNCHANGED <<root, archive, handed, used, changed>>
    BY <1>2 DEF Return, files
  <1>3. ASSUME NEW t \in Threads, Calls(t), ~Create(t)
        PROVE  Still
    BY <1>3 DEF Calls, BeginApprove, BeginConfirm, BeginReissue, BeginUpdate, BeginList,
                BeginExpire, BeginReap, Begin, files
  <1>4. ASSUME NEW t \in Threads, Open(t) \/ Lock(t) \/ Look(t) \/ Read(t) \/ Store(t)
        PROVE  Still
    BY <1>4 DEF Open, Lock, Look, Read, Store, files, ghosts
  <1>5. ASSUME NEW t \in Threads, Rename(t), Exists
        PROVE  /\ archive' = root.rec /\ UNCHANGED <<handed, used, told, changed>>
               /\ ~Exists' /\ Standing' = Standing
    BY <1>5 DEF Rename, Standing, Exists, NoFile, ghosts
  <1>6. ASSUME NEW t \in Threads, Rename(t), ~Exists
        PROVE  Still
    BY <1>6 DEF Rename, files, ghosts
  <1>7. CASE Crash \/ Tick \/ UNCHANGED vars
    BY <1>1, <1>7 DEF Crash, Tick, vars, files, ghosts
  <1>8. CASE \E t \in Threads : Return(t)
    <2>1. Standing' = Standing /\ (Exists' <=> Exists)
      BY <1>2, <1>8 DEF Standing, Exists
    <2> QED
      BY <1>2, <1>8, <2>1
  <1>9. CASE \E t \in Threads : Rename(t)
    BY <1>1, <1>5, <1>6, <1>9
  <1> QED
    BY <1>1, <1>3, <1>4, <1>7, <1>8, <1>9 DEF Next, Continues

\* By which action a thread comes to a place.
LEMMA Arrivals ==
    ASSUME IInv, NEW t \in Threads, Calls(t) \/ Continues(t)
    PROVE  /\ fd'[t] # NoInode => fd[t] # NoInode \/ Exists
           /\ pc'[t] = "rename" => Exists /\ root.rec.status \in TerminalStates
           /\ pc'[t] = "replace" => Lock(t) /\ SameFile(t)
           /\ pc'[t] = "return" => Create(t) \/ Replace(t)
           /\ pc'[t] = "store" => \/ Read(t) /\ SameFile(t) /\ op[t] = "list"
                                  \/ Look(t) /\ ~Exists
  <1> DEFINE Fine == /\ fd'[t] # NoInode => fd[t] # NoInode \/ Exists
                     /\ pc'[t] \notin {"rename", "replace", "return", "store"}
  <1>1. ApprovalTypeOK
    BY DEF IInv
  <1>2. ASSUME Ends(t)
        PROVE  Fine
    BY <1>1, <1>2, EndsIdle DEF Idle
  <1>3. CASE Calls(t)
    <2>1. CASE Create(t)
      BY <1>1, <2>1 DEF Create, Goto, ApprovalTypeOK
    <2>2. ASSUME NEW o, NEW place \in {"open", "look"}, NEW k, Begin(t, o, place, k)
          PROVE  Fine
      BY <1>1, <2>2 DEF Begin, Goto, ApprovalTypeOK
    <2> QED
      BY <1>3, <2>1, <2>2 DEF Calls, BeginApprove, BeginConfirm, BeginReissue,
                              BeginUpdate, BeginList, BeginExpire, BeginReap
  <1>4. CASE Ends(t) /\ Continues(t)
    BY <1>2, <1>4
  <1>5. CASE Open(t) /\ ~Ends(t)
    BY <1>1, <1>5 DEF Open, Goto, ApprovalTypeOK
  <1>6. CASE Look(t) /\ ~Ends(t)
    BY <1>1, <1>6 DEF Look, Goto, ApprovalTypeOK
  <1>7. CASE Lock(t)
    BY <1>1, <1>7 DEF Lock, Goto, Closes, ApprovalTypeOK
  <1>8. CASE Replace(t)
    BY <1>1, <1>8 DEF Replace, Goto, ApprovalTypeOK
  <1>9. CASE Read(t) /\ ~Ends(t)
    <2>1. fd[t] # NoInode /\ op[t] \in Readers
      BY <1>1, <1>9 DEF Read, ApprovalTypeOK, IInv, Placed
    <2>2. CASE SameFile(t)
      BY <1>1, <1>9, <2>1, <2>2 DEF Read, Goto, Closes, ApprovalTypeOK, AfterRead, Readers,
                                    Exists, SameFile
    <2>3. CASE ~SameFile(t)
      BY <1>1, <1>9, <2>1, <2>3 DEF Read, Goto, Closes, ApprovalTypeOK
    <2> QED
      BY <2>2, <2>3
  <1>10. CASE Return(t) \/ Store(t) \/ Rename(t)
    BY <1>2, <1>10 DEF Return, Store, Rename
  <1> QED
    BY <1>3, <1>4, <1>5, <1>6, <1>7, <1>8, <1>9, <1>10 DEF Continues

\* A request is made when there is none, and then nobody deals with it yet.
LEMMA CreateMoves ==
    ASSUME IInv, NEW t \in Threads, Create(t)
    PROVE  /\ Standing.status = "none" /\ Exists' /\ archive' = archive
           /\ Standing'.status = "pending" /\ Standing'.token = 1
           /\ root'.rec = Standing'
           /\ used = 0 /\ told = <<>>
           /\ \A u \in Threads : /\ fd[u] = NoInode /\ ~Owed(u)
                                 /\ pc[u] \notin {"lock", "read", "replace", "rename"}
  <1>1. Standing.status = "none" /\ "none" \notin TerminalStates
    BY DEF Create, TerminalStates
  <1>2. Exists' /\ Standing' = root'.rec
    BY FreshIsFree DEF Create, Exists, Standing
  <1>3. Standing'.status = "pending" /\ Standing'.token = 1
    BY <1>2 DEF Create
  <1>4. used = 0 /\ told = <<>>
    BY <1>1 DEF IInv, Tokens, Verdicts
  <1>5. ASSUME NEW u \in Threads
        PROVE  fd[u] = NoInode /\ ~Owed(u) /\ pc[u] # "rename"
    BY <1>1, <1>5 DEF IInv, Recorded, Verdicts
  <1>6. ASSUME NEW u \in Threads
        PROVE  pc[u] \notin {"lock", "read", "replace"}
    BY <1>5, <1>6 DEF IInv, ApprovalTypeOK
  <1> QED
    BY <1>1, <1>2, <1>3, <1>4, <1>5, <1>6 DEF Create

\* What stands is rewritten while it is pending, else it is written as it was.
LEMMA ReplaceMoves ==
    ASSUME IInv, NEW t \in Threads, Replace(t)
    PROVE  /\ Exists' /\ Standing' = draft[t] /\ root'.rec = Standing'
           /\ archive' = archive
           /\ Standing.status \in TerminalStates \cup {"pending"}
           /\ IF Standing.status = "pending" THEN Rewrites(t)
                                             ELSE Standing' = Standing /\ ~result[t]
           /\ Standing'.status \in TerminalStates \cup {"pending"}
           /\ \A u \in Threads : fd[u] # root'.ino
           /\ \A u \in Threads \ {t} : pc[u] # "replace"
  <1>1. /\ root' = [ino |-> Fresh, rec |-> draft[t]] /\ archive' = archive
        /\ pc[t] = "replace" /\ Free # {}
    BY DEF Replace
  <1>2. Fresh # NoInode /\ \A u \in Threads : fd[u] # Fresh
    BY <1>1, FreshIsFree
  <1>3. Exists' /\ Standing' = draft[t] /\ root'.rec = Standing'
    BY <1>1, <1>2 DEF Exists, Standing
  <1>4. Standing.status \in TerminalStates \cup {"pending"}
    <2>1. fd[t] # NoInode
      BY <1>1 DEF IInv, ApprovalTypeOK
    <2>2. Standing.status # "none" /\ Standing \in Record
      BY <2>1 DEF IInv, Recorded, ApprovalTypeOK, Standing, File
    <2> QED
      BY <2>2 DEF Record, States
  <1>5. IF Standing.status = "pending" THEN Rewrites(t)
                                       ELSE draft[t] = Standing /\ ~result[t]
    BY <1>1 DEF IInv, Writing
  <1>6. Standing'.status \in TerminalStates \cup {"pending"}
    BY <1>3, <1>4, <1>5 DEF Rewrites
  <1>7. \A u \in Threads \ {t} : pc[u] # "replace"
    BY <1>1 DEF IInv, OneWriter
  <1> QED
    BY <1>1, <1>2, <1>3, <1>4, <1>5, <1>6, <1>7

LEMMA RecordedKept ==
    ASSUME IInv, [Next]_vars
    PROVE  Recorded'
  <1>1. CASE \E t \in Threads : Create(t)
    <2>1. PICK t \in Threads : Create(t)
      BY <1>1
    <2>2. \A u \in Threads : fd'[u] = NoInode /\ pc'[u] # "rename"
      BY <2>1, CreateMoves DEF Create, Goto, IInv, ApprovalTypeOK
    <2> QED
      BY <2>1, <2>2, CreateMoves DEF Recorded, IInv
  <1>2. CASE \E t \in Threads : Replace(t)
    <2>1. PICK t \in Threads : Replace(t)
      BY <1>2
    <2>2. \A u \in Threads : pc'[u] = "rename" => pc[u] = "rename"
      BY <2>1 DEF Replace, Goto, IInv, ApprovalTypeOK
    <2>3. "none" \notin TerminalStates /\ "pending" \notin TerminalStates
      BY DEF TerminalStates
    <2> QED
      BY <2>1, <2>2, <2>3, ReplaceMoves DEF Recorded, IInv
  <1>3. CASE \A t \in Threads : ~Create(t) /\ ~Replace(t)
    <2>1. /\ Standing' = Standing /\ (Exists' => Exists)
          /\ root' = root \/ ~Exists'
          /\ UNCHANGED <<handed, used, changed>>
          /\ told' = told \/ \E t \in Threads : Return(t)
          /\ \/ archive' = archive
             \/ archive' = root.rec /\ Exists /\ \E t \in Threads : Rename(t)
      BY <1>3, StandingStays
    <2>2. (Exists => root.rec = Standing) /\ "pending" \notin TerminalStates
      BY DEF Standing, TerminalStates
    <2>3. archive'.status # "pending"
      BY <2>1, <2>2 DEF IInv, Recorded, Rename
    <2>4. Exists' => root'.rec.status # "none"
      BY <2>1 DEF IInv, Recorded, Exists
    <2>5. ASSUME NEW u \in Threads
          PROVE  /\ fd'[u] # NoInode => Standing.status # "none"
                 /\ pc'[u] = "rename" => Standing.status \in TerminalStates
      <3>1. CASE \E t \in Threads : Calls(t) \/ Continues(t)
        <4>1. PICK t \in Threads : Calls(t) \/ Continues(t)
          BY <3>1
        <4>2. CASE u = t
          BY <2>2, <4>1, <4>2, Arrivals DEF IInv, Recorded
        <4>3. CASE u # t
          BY <4>1, <4>3, OthersStay DEF IInv, Recorded
        <4> QED
          BY <4>2, <4>3
      <3>2. CASE Crash
        BY <3>2, CrashIdle DEF Idle
      <3>3. CASE Tick \/ UNCHANGED vars
        BY <3>3 DEF Tick, vars, threads, IInv, Recorded
      <3> QED
        BY <3>1, <3>2, <3>3 DEF Next
    <2> QED
      BY <2>1, <2>3, <2>4, <2>5 DEF Recorded
  <1> QED
    BY <1>1, <1>2, <1>3

\* A thread gets the lock only when no other is about to write.
LEMMA LockIsExclusive ==
    ASSUME IInv, NEW t \in Threads, Lock(t), SameFile(t)
    PROVE  /\ Exists /\ fd'[t] = root.ino /\ op'[t] = op[t] /\ token'[t] = token[t]
           /\ \A u \in Threads \ {t} : pc[u] # "replace"
           /\ IF Standing.status = "pending" THEN Rewrites(t)'
                                             ELSE draft'[t] = Standing /\ ~result'[t]
  <1>1. ApprovalTypeOK /\ Placed /\ Writing
    BY DEF IInv
  <1>2. pc[t] = "lock" /\ fd[t] = root.ino /\ fd[t] # NoInode /\ op[t] \in Updates
    BY <1>1 DEF Lock, SameFile, ApprovalTypeOK, Placed
  <1>3. Exists /\ Standing = root.rec
    BY <1>2 DEF Exists, Standing
  <1>4. UNCHANGED <<root, archive, op, token, fd>>
    BY DEF Lock, files
  <1>5. ASSUME NEW u \in Threads, pc[u] = "replace"
        PROVE  FALSE
    BY <1>1, <1>2, <1>3, <1>5 DEF Lock, Locked, Writing
  <1>6. CASE Undecided(t)
    <2>1. draft'[t] = Verdict(t)[1] /\ result'[t] = Verdict(t)[2]
      BY <1>1, <1>6 DEF Lock, ApprovalTypeOK
    <2>2. Standing' = root.rec
      BY <1>3, <1>4 DEF Standing, Exists
    <2>3. Rewrites(t)'
      BY <1>1, <1>2, <1>4, <1>6, <2>1, <2>2, VerdictRewrites DEF Rewrites
    <2> QED
      BY <1>2, <1>3, <1>4, <1>5, <1>6, <2>3 DEF Undecided
  <1>7. CASE ~Undecided(t)
    <2>1. draft'[t] = root.rec /\ result'[t] = result[t] /\ ~result[t]
      BY <1>1, <1>2, <1>7 DEF Lock, ApprovalTypeOK, Placed
    <2> QED
      BY <1>2, <1>3, <1>4, <1>5, <1>7, <2>1 DEF Undecided
  <1> QED
    BY <1>6, <1>7

LEMMA WritingKept ==
    ASSUME IInv, [Next]_vars
    PROVE  OneWriter' /\ Writing'
  <1> DEFINE Drafted(t) == /\ Exists => fd[t] = root.ino
                           /\ IF Standing.status = "pending" THEN Rewrites(t)
                              ELSE draft[t] = Standing /\ ~result[t]
  <1>1. \A t \in Threads : pc[t] = "replace" => Drafted(t)
    BY DEF IInv, Writing
  <1>2. CASE \E t \in Threads : Create(t) \/ Replace(t)
    <2>1. PICK t \in Threads : Create(t) \/ Replace(t)
      BY <1>2
    <2>2. \A u \in Threads : pc'[u] # "replace"
      BY <2>1, CreateMoves, ReplaceMoves
         DEF Create, Replace, Goto, IInv, ApprovalTypeOK
    <2> QED
      BY <2>2 DEF OneWriter, Writing
  <1>3. CASE \A t \in Threads : ~Create(t) /\ ~Replace(t)
    <2>1. Standing' = Standing /\ (Exists' => Exists) /\ (root' = root \/ ~Exists')
      BY <1>3, StandingStays
    <2>2. ASSUME NEW u \in Threads, pc[u] = "replace",
                 fd'[u] = fd[u], op'[u] = op[u], token'[u] = token[u],
                 draft'[u] = draft[u], result'[u] = result[u]
          PROVE  Drafted(u)'
      BY <1>1, <2>1, <2>2 DEF Rewrites
    <2>3. CASE \E t \in Threads : Calls(t) \/ Continues(t)
      <3>1. PICK t \in Threads : Calls(t) \/ Continues(t)
        BY <2>3
      <3>2. \A u \in Threads \ {t} : pc'[u] = "replace" => pc[u] = "replace" /\ Drafted(u)'
        BY <2>2, <3>1, OthersStay DEF IInv
      <3>3. CASE pc'[t] = "replace"
        <4>1. Lock(t) /\ SameFile(t)
          BY <3>1, <3>3, Arrivals
        <4>2. /\ Exists /\ fd'[t] = root.ino
              /\ \A u \in Threads \ {t} : pc[u] # "replace"
              /\ IF Standing.status = "pending" THEN Rewrites(t)'
                                                ELSE draft'[t] = Standing /\ ~result'[t]
          BY <4>1, LockIsExclusive
        <4>3. Drafted(t)'
          BY <2>1, <4>2
        <4> QED
          BY <3>2, <4>2, <4>3 DEF OneWriter, Writing
      <3>4. CASE pc'[t] # "replace"
        BY <3>2, <3>4 DEF IInv, OneWriter, Writing
      <3> QED
        BY <3>3, <3>4
    <2>4. CASE Crash
      BY <2>4, CrashIdle DEF Idle, OneWriter, Writing
    <2>5. CASE Tick \/ UNCHANGED vars
      BY <1>1, <2>2, <2>5 DEF Tick, vars, threads, IInv, OneWriter, Writing
    <2> QED
      BY <2>3, <2>4, <2>5 DEF Next
  <1> QED
    BY <1>2, <1>3

LEMMA TokensKept ==
    ASSUME IInv, [Next]_vars
    PROVE  Tokens'
  <1>1. Tokens /\ "none" \notin TerminalStates /\ "pending" \notin TerminalStates
    BY DEF IInv, TerminalStates
  <1>2. CASE \E t \in Threads : Create(t)
    BY <1>1, <1>2, CreateMoves DEF Create, Tokens
  <1>3. CASE \E t \in Threads : Replace(t)
    <2>1. PICK t \in Threads : Replace(t)
      BY <1>3
    <2>2. /\ handed' = IF op[t] = "reissue" /\ result[t] THEN token[t] ELSE handed
          /\ used' = IF op[t] = "approve" /\ result[t] THEN token[t] ELSE used
      BY <2>1 DEF Replace
    <2>3. Standing.token = handed
      BY <1>1, <2>1, ReplaceMoves DEF Tokens
    <2>4. CASE Standing.status = "pending"
      <3>1. Rewrites(t) /\ Standing' = draft[t] /\ used = 0
        BY <1>1, <2>1, <2>4, ReplaceMoves DEF Tokens
      <3>2. Standing'.token = handed'
        BY <2>2, <2>3, <3>1 DEF Rewrites
      <3>3. CASE used' # 0
        <4>1. op[t] = "approve" /\ result[t] /\ used' = token[t]
          BY <2>2, <3>1, <3>3
        <4>2. Standing'.status \in TerminalStates
          BY <3>1, <4>1 DEF Rewrites, Deciding
        <4>3. used' = handed'
          BY <2>2, <2>3, <3>1, <4>1 DEF Rewrites
        <4> QED
          BY <3>2, <4>2, <4>3 DEF Tokens
      <3> QED
        BY <3>2, <3>3 DEF Tokens
    <2>5. CASE Standing.status # "pending"
      BY <1>1, <2>1, <2>2, <2>5, ReplaceMoves DEF Tokens
    <2> QED
      BY <2>4, <2>5
  <1>4. CASE \A t \in Threads : ~Create(t) /\ ~Replace(t)
    <2>1. Standing' = Standing /\ UNCHANGED <<handed, used>>
      BY <1>4, StandingStays
    <2> QED
      BY <1>1, <2>1 DEF Tokens
  <1> QED
    BY <1>2, <1>3, <1>4

LEMMA VerdictsKept ==
    ASSUME IInv, [Next]_vars
    PROVE  Verdicts'
  <1>1. ApprovalTypeOK /\ Verdicts /\ "none" \notin TerminalStates
        /\ "pending" \notin TerminalStates
    BY DEF IInv, TerminalStates
  <1>2. CASE \E t \in Threads : Create(t)
    <2>1. PICK t \in Threads : Create(t)
      BY <1>2
    <2>2. told' = <<>> /\ \A u \in Threads : ~Owed(u)
      BY <2>1, CreateMoves DEF Create
    <2>3. ASSUME NEW u \in Threads
          PROVE  ~Owed(u)'
      BY <1>1, <2>1, <2>2 DEF Create, Goto, Owed, ApprovalTypeOK, Deciding
    <2> QED
      BY <2>2, <2>3 DEF Verdicts
  <1>3. CASE \E t \in Threads : Replace(t)
    <2>1. PICK t \in Threads : Replace(t)
      BY <1>3
    <2>2. /\ told' = told /\ UNCHANGED <<op, result, draft>>
          /\ \A u \in Threads \ {t} : pc'[u] = pc[u]
      BY <1>1, <2>1 DEF Replace, Goto, ApprovalTypeOK
    <2>3. \A u \in Threads \ {t} : Owed(u)' <=> Owed(u)
      BY <2>2 DEF Owed
    <2>4. Standing' = draft[t]
      BY <2>1, ReplaceMoves
    <2>5. CASE Standing.status = "pending"
      <3>1. told = <<>> /\ (\A u \in Threads : ~Owed(u)) /\ Rewrites(t)
        BY <1>1, <2>1, <2>5, ReplaceMoves DEF Verdicts
      <3>2. Owed(t)' => draft[t].status \in TerminalStates
        BY <2>2, <3>1 DEF Owed, Rewrites
      <3> QED
        BY <2>2, <2>3, <2>4, <3>1, <3>2 DEF Verdicts
    <2>6. CASE Standing.status # "pending"
      <3>1. ~result[t] /\ Standing' = Standing
        BY <2>1, <2>6, ReplaceMoves
      <3>2. ~Owed(t)'
        BY <2>2, <3>1 DEF Owed
      <3> QED
        BY <1>1, <2>2, <2>3, <3>1, <3>2 DEF Verdicts
    <2> QED
      BY <2>5, <2>6
  <1>4. CASE \A t \in Threads : ~Create(t) /\ ~Replace(t)
    <2>1. Standing' = Standing /\ (told' = told \/ \E t \in Threads : Return(t))
      BY <1>4, StandingStays
    <2>2. CASE \E t \in Threads : Calls(t) \/ Continues(t)
      <3>1. PICK t \in Threads : Calls(t) \/ Continues(t)
        BY <2>2
      <3>2. ~Owed(t)'
        BY <1>4, <3>1, Arrivals DEF Owed
      <3>3. \A u \in Threads \ {t} : (Owed(u)' <=> Owed(u)) /\ draft'[u] = draft[u]
        BY <1>1, <3>1, OthersStay DEF Owed
      <3>4. CASE told' = told
        BY <1>1, <2>1, <3>2, <3>3, <3>4 DEF Verdicts
      <3>5. CASE told' # told
        <4>1. PICK w \in Threads : Return(w)
          BY <2>1, <3>5
        <4>2. told' = Append(told, draft[w].status) /\ Owed(w)
          BY <3>5, <4>1 DEF Return, Owed
        <4>3. told = <<>> /\ draft[w].status = Standing.status
              /\ Standing.status \in TerminalStates /\ \A u \in Threads : Owed(u) => w = u
          BY <1>1, <4>2 DEF Verdicts
        <4>4. ~Owed(w)'
          BY <1>1, <4>1, EndsIdle DEF Return, Idle, Owed
        <4>5. \A u \in Threads : ~Owed(u)'
          BY <3>2, <3>3, <4>3, <4>4
        <4> QED
          BY <2>1, <4>2, <4>3, <4>5 DEF Verdicts
      <3> QED
        BY <3>4, <3>5
    <2>3. CASE Crash
      BY <1>1, <2>1, <2>3, CrashIdle DEF Crash, ghosts, Idle, Owed, Verdicts
    <2>4. CASE Tick \/ UNCHANGED vars
      <3>1. told' = told /\ UNCHANGED <<pc, op, result, draft>>
        BY <2>4 DEF Tick, vars, threads, ghosts
      <3> QED
        BY <1>1, <2>1, <3>1 DEF Verdicts, Owed
    <2> QED
      BY <2>2, <2>3, <2>4 DEF Next
  <1> QED
    BY <1>2, <1>3, <1>4

\* A thread that comes to store a listing has just seen what stands.
LEMMA StoreSees ==
    ASSUME IInv, NEW t \in Threads, Calls(t) \/ Continues(t), pc'[t] = "store"
    PROVE  seen'[t] = (Standing.status = "pending")
  <1>1. ApprovalTypeOK /\ Placed /\ archive.status # "pending"
    BY DEF IInv, Recorded
  <1>2. CASE Read(t) /\ SameFile(t) /\ op[t] = "list"
    <2>1. fd[t] = root.ino /\ fd[t] # NoInode
      BY <1>1, <1>2 DEF Read, SameFile, ApprovalTypeOK
    <2>2. Standing = root.rec
      BY <2>1 DEF Standing, Exists
    <2> QED
      BY <1>1, <1>2, <2>2 DEF Read, ApprovalTypeOK
  <1>3. CASE Look(t) /\ ~Exists
    <2>1. pc[t] = "look" /\ ~seen[t]
      BY <1>1, <1>3 DEF Look, Placed
    <2>2. seen'[t] = FALSE
      BY <1>1, <1>3, <2>1 DEF Look, Ends, ApprovalTypeOK
    <2>3. Standing = archive
      BY <1>3 DEF Standing
    <2> QED
      BY <1>1, <2>2, <2>3
  <1> QED
    BY <1>2, <1>3, Arrivals

\* No operation dates its sample later than it took it.
LEMMA SampledInTime ==
    ASSUME IInv, [Next]_vars, NEW u \in Threads
    PROVE  start'[u] <= now'
  <1>1. ApprovalTypeOK /\ start[u] <= now /\ 0 <= now
    BY DEF IInv, Listings, ApprovalTypeOK
  <1>2. ASSUME NEW t \in Threads, Calls(t) \/ Continues(t)
        PROVE  now' = now
    BY <1>2 DEF Calls, Continues, Create, BeginApprove, BeginConfirm, BeginReissue,
                BeginUpdate, BeginList, BeginExpire, BeginReap, Begin, Open, Lock, Replace,
                Return, Look, Read, Store, Rename
  <1>3. ASSUME Calls(u)
        PROVE  start'[u] <= now
    <2>1. CASE Create(u)
      BY <1>1, <2>1 DEF Create
    <2>2. ASSUME NEW o, NEW place, NEW k, Begin(u, o, place, k)
          PROVE  start'[u] <= now
      BY <1>1, <2>2 DEF Begin, ApprovalTypeOK
    <2> QED
      BY <1>3, <2>1, <2>2 DEF Calls, BeginApprove, BeginConfirm, BeginReissue, BeginUpdate,
                              BeginList, BeginExpire, BeginReap
  <1>4. ASSUME Ends(u)
        PROVE  start'[u] <= now
    BY <1>1, <1>4, EndsIdle DEF Idle
  <1>5. ASSUME Continues(u)
        PROVE  start'[u] <= now
    <2>1. CASE Open(u) \/ Look(u) \/ Return(u) \/ Store(u) \/ Rename(u)
      BY <1>1, <1>4, <2>1 DEF Open, Look, Return, Store, Rename
    <2>2. CASE Lock(u) \/ Replace(u)
      BY <1>1, <2>2 DEF Lock, Replace, ApprovalTypeOK
    <2>3. CASE Read(u)
      BY <1>1, <1>4, <2>3 DEF Read, ApprovalTypeOK
    <2> QED
      BY <1>5, <2>1, <2>2, <2>3 DEF Continues
  <1>6. CASE \E t \in Threads : Calls(t) \/ Continues(t)
    <2>1. PICK t \in Threads : Calls(t) \/ Continues(t)
      BY <1>6
    <2>2. CASE u = t
      BY <1>2, <1>3, <1>5, <2>1, <2>2
    <2>3. CASE u # t
      BY <1>1, <1>2, <2>1, <2>3, OthersStay
    <2> QED
      BY <2>2, <2>3
  <1>7. CASE Crash
    <2>1. start'[u] = 0 /\ now' = now
      BY <1>7 DEF Crash
    <2> QED
      BY <1>1, <2>1
  <1>8. CASE Tick \/ UNCHANGED vars
    <2>1. start' = start /\ (now' = now \/ now' = now + 1)
      BY <1>8 DEF Tick, vars, threads
    <2>2. now \in Nat /\ start[u] \in Nat
      BY <1>1 DEF ApprovalTypeOK
    <2> QED
      BY <1>1, <2>1, <2>2
  <1> QED
    BY <1>6, <1>7, <1>8 DEF Next

\* The clock never goes back, and the ghost `changed` is set to it.
LEMMA ChangeIsDated ==
    ASSUME IInv, [Next]_vars
    PROVE  /\ now' \in Nat /\ now \in Nat /\ now <= now' /\ changed' \in Nat
           /\ changed' <= now'
           /\ \/ changed' = now /\ now' = now
              \/ changed' = changed /\ (Standing'.status = "pending"
                                          <=> Standing.status = "pending")
  <1>1. ApprovalTypeOK /\ changed <= now /\ now \in Nat /\ changed \in Nat
    BY DEF IInv, Listings, ApprovalTypeOK
  <1>2. CASE \E t \in Threads : Create(t)
    BY <1>1, <1>2 DEF Create
  <1>3. CASE \E t \in Threads : Replace(t)
    <2>1. PICK t \in Threads : Replace(t)
      BY <1>3
    <2>2. Standing' = draft[t]
      BY <2>1, ReplaceMoves
    <2> QED
      BY <1>1, <2>1, <2>2 DEF Replace
  <1>4. CASE \A t \in Threads : ~Create(t) /\ ~Replace(t)
    <2>1. Standing' = Standing /\ changed' = changed
      BY <1>4, StandingStays
    <2>2. now' = now \/ now' = now + 1
      BY DEF Next, vars, Tick, Crash, Calls, Continues, Create, BeginApprove,
             BeginConfirm, BeginReissue, BeginUpdate, BeginList, BeginExpire, BeginReap,
             Begin, Open, Lock, Replace, Return, Look, Read, Store, Rename
    <2> QED
      BY <1>1, <2>1, <2>2
  <1> QED
    BY <1>2, <1>3, <1>4

\* The cache keeps what it has, is cleared, or gets what a thread has seen.
LEMMA CacheMoves ==
    ASSUME [Next]_vars
    PROVE  \/ cache' = cache \/ cache' = NoListing
           \/ \E t \in Threads : /\ Store(t)
                                 /\ cache'.at = start[t] /\ cache'.shows = seen[t]
  <1>1. ASSUME NEW t \in Threads, Store(t)
        PROVE  \/ cache' = NoListing
               \/ cache'.at = start[t] /\ cache'.shows = seen[t]
    <2>1. cache' = Live([at |-> start[t], shows |-> seen[t], valid |-> TRUE], now)
      BY <1>1 DEF Store, ScannedAt
    <2> QED
      BY <2>1 DEF Live
  <1>2. CASE Tick
    BY <1>2 DEF Tick, Live
  <1>3. CASE \E t \in Threads : Calls(t)
    BY <1>3 DEF Calls, Create, BeginApprove, BeginConfirm, BeginReissue, BeginUpdate,
                BeginList, BeginExpire, BeginReap, Begin
  <1> QED
    BY <1>1, <1>2, <1>3 DEF Next, vars, Crash, Continues, Open, Lock, Replace, Return, Look,
                            Read, Rename

LEMMA ListingsKept ==
    ASSUME IInv, [Next]_vars
    PROVE  Listings'
  <1> DEFINE Later(time, b) == b # (Standing'.status = "pending") => changed' >= time
  <1>1. ApprovalTypeOK /\ Listings
    BY DEF IInv
  <1>2. /\ now' \in Nat /\ now \in Nat /\ now <= now' /\ changed' \in Nat
        /\ changed' <= now'
        /\ \/ changed' = now /\ now' = now
           \/ changed' = changed /\ (Standing'.status = "pending"
                                       <=> Standing.status = "pending")
    BY ChangeIsDated
  <1>3. \A u \in Threads : start'[u] <= now'
    BY SampledInTime
  <1>4. \A time \in Nat, b \in BOOLEAN :
            time <= now /\ Since(time, b) => Later(time, b)
    BY <1>2 DEF Since
  <1>5. cache'.at <= now' /\ (cache'.valid => Later(cache'.at, cache'.shows))
    <2>1. CASE cache' = cache
      <3>1. cache.at \in Nat /\ cache.shows \in BOOLEAN /\ cache.at <= now
            /\ (cache.valid => Since(cache.at, cache.shows))
        BY <1>1 DEF ApprovalTypeOK, Listing, Listings
      <3>2. cache.at <= now'
        BY <1>2, <3>1
      <3>3. cache.valid => Later(cache.at, cache.shows)
        BY <1>4, <3>1
      <3> QED
        BY <2>1, <3>2, <3>3
    <2>2. CASE cache' = NoListing
      BY <1>2, <2>2 DEF NoListing
    <2>3. ASSUME NEW t \in Threads, Store(t), cache'.at = start[t],
                 cache'.shows = seen[t]
          PROVE  cache'.at <= now' /\ Later(cache'.at, cache'.shows)
      <3>1. /\ start[t] \in Nat /\ seen[t] \in BOOLEAN /\ start[t] <= now
            /\ Since(start[t], seen[t])
        BY <1>1, <2>3 DEF ApprovalTypeOK, Listings, Store
      <3>2. start[t] <= now' /\ Later(start[t], seen[t])
        BY <1>2, <1>4, <3>1
      <3> QED
        BY <2>3, <3>2
    <2> QED
      BY <2>1, <2>2, <2>3, CacheMoves
  <1>6. ASSUME NEW u \in Threads, pc'[u] = "store"
        PROVE  Later(start'[u], seen'[u])
    <2>1. ASSUME pc[u] = "store", start'[u] = start[u], seen'[u] = seen[u]
          PROVE  Later(start'[u], seen'[u])
      <3>1. /\ start[u] \in Nat /\ seen[u] \in BOOLEAN /\ start[u] <= now
            /\ Since(start[u], seen[u])
        BY <1>1, <2>1 DEF ApprovalTypeOK, Listings
      <3>2. Later(start[u], seen[u])
        BY <1>4, <3>1
      <3> QED
        BY <2>1, <3>2
    <2>2. CASE \E t \in Threads : Calls(t) \/ Continues(t)
      <3>1. PICK t \in Threads : Calls(t) \/ Continues(t)
        BY <2>2
      <3>2. CASE u = t
        <4>1. Read(t) \/ Look(t)
          BY <1>6, <3>1, <3>2, Arrivals
        <4>2. UNCHANGED <<root, archive>>
          BY <4>1 DEF Read, Look, files
        <4>3. Standing' = Standing
          BY <4>2 DEF Standing, Exists
        <4>4. seen'[u] = (Standing.status = "pending")
          BY <1>6, <3>1, <3>2, StoreSees
        <4> QED
          BY <4>3, <4>4
      <3>3. CASE u # t
        BY <1>6, <2>1, <3>1, <3>3, <1>1, OthersStay
      <3> QED
        BY <3>2, <3>3
    <2>3. CASE Crash
      BY <1>6, <2>3, CrashIdle DEF Idle
    <2>4. CASE Tick \/ UNCHANGED vars
      <3>1. UNCHANGED <<pc, start, seen>>
        BY <2>4 DEF Tick, vars, threads
      <3> QED
        BY <1>6, <2>1, <3>1
    <2> QED
      BY <2>2, <2>3, <2>4 DEF Next
  <1> QED
    BY <1>2, <1>3, <1>5, <1>6 DEF Listings, Since

-----------------------------------------------------------------------------
(* Theorems *)

LEMMA InitIInv == Init => IInv
  <1> SUFFICES ASSUME Init
               PROVE  IInv
    OBVIOUS
  <1>1. ApprovalTypeOK
    BY Nothings DEF Init, ApprovalTypeOK, Places
  <1>2. ~Exists /\ Standing = NoRecord /\ NoRecord.status = "none"
    BY DEF Init, Exists, Standing, NoFile, NoRecord
  <1>3. Placed /\ Recorded /\ OneWriter /\ Writing
    BY <1>2 DEF Init, Placed, Recorded, OneWriter, Writing
  <1>4. Verdicts /\ Tokens
    BY <1>2 DEF Init, Verdicts, Tokens, Owed
  <1>5. Listings
    BY DEF Init, Listings, NoListing
  <1> QED
    BY <1>1, <1>3, <1>4, <1>5 DEF IInv

LEMMA Inductive == Spec => []IInv
  <1>1. IInv /\ [Next]_vars => IInv'
    BY TypesKept, PlacedKept, RecordedKept, WritingKept, VerdictsKept, TokensKept,
       ListingsKept DEF IInv
  <1> QED
    BY InitIInv, <1>1, PTL DEF Spec

\* Types are kept, and a file is open in a thread exactly where the code has it
\* open: no path through _locked_update, read and the sweeps leaks a descriptor.
THEOREM TypeCorrect == Spec => []ApprovalTypeOK
  <1>1. IInv => ApprovalTypeOK
    BY DEF IInv
  <1> QED
    BY Inductive, <1>1, PTL

\* However many threads update a request, and whatever file the reaper moves
\* under them, two are never both about to replace its record.
THEOREM OneWriterAlways == Spec => []OneWriter
  <1>1. IInv => OneWriter
    BY DEF IInv
  <1> QED
    BY Inductive, <1>1, PTL

\* At most one call is ever told that it decided a request, and what it was
\* told is what the record says from then on.
THEOREM OneVerdictAlways == Spec => []OneVerdict
  <1>1. ASSUME IInv
        PROVE  OneVerdict
    <2>1. CASE told = <<>>
      BY <2>1 DEF OneVerdict
    <2>2. CASE told = <<Standing.status>>
      BY <2>2 DEF OneVerdict
    <2> QED
      BY <1>1, <2>1, <2>2 DEF IInv, Verdicts
  <1> QED
    BY Inductive, <1>1, PTL

\* Of all tokens that were ever sent for a request, only the last approves it.
THEOREM NewestTokenAlways == Spec => []NewestToken
  <1>1. IInv => NewestToken
    BY DEF IInv, Tokens, NewestToken
  <1> QED
    BY Inductive, <1>1, PTL

\* What list_pending has cached was so when its scan began, or has become so
\* since.
THEOREM ListingsAge == Spec => []StaleSinceScan
  <1>1. IInv => StaleSinceScan
    BY DEF IInv, Listings, Since, StaleSinceScan, ApprovalTypeOK
  <1> QED
    BY Inductive, <1>1, PTL

\* The files, the locks and the races of approval.py implement a decision that
\* is asked for once, made once and told once.
THEOREM DecidesOnce == Spec => ImplementsDecision
  <1>1. Init => Register!DecisionInit
    BY DEF Init, Register!DecisionInit, Standing, Exists, NoFile, NoRecord
  <1>2. ASSUME IInv, [Next]_vars
        PROVE  [Register!DecisionNext]_<<Standing.status, told>>
    <2> DEFINE Moves == [Register!DecisionNext]_<<Standing.status, told>>
    <2>1. CASE \E t \in Threads : Create(t)
      <3>1. /\ Standing.status = "none" /\ Standing'.status = "pending"
            /\ told' = told
        BY <1>2, <2>1, CreateMoves DEF Create
      <3> QED
        BY <3>1 DEF Register!DecisionNext, Register!Ask
    <2>2. CASE \E t \in Threads : Replace(t)
      <3>1. PICK t \in Threads : Replace(t)
        BY <2>2
      <3>2. /\ told' = told /\ Standing'.status \in TerminalStates \cup {"pending"}
            /\ Standing.status # "pending" => Standing' = Standing
        BY <1>2, <3>1, ReplaceMoves DEF Replace
      <3>3. Register!Decisions = TerminalStates
        BY DEF Register!Decisions, TerminalStates
      <3> QED
        BY <3>2, <3>3 DEF Register!DecisionNext, Register!Decide
    <2>3. CASE \A t \in Threads : ~Create(t) /\ ~Replace(t)
      <3>1. /\ Standing' = Standing
            /\ told' = told \/ \E t \in Threads : Return(t)
        BY <1>2, <2>3, StandingStays
      <3>2. CASE told' = told
        BY <3>1, <3>2
      <3>3. CASE told' # told
        <4>1. PICK t \in Threads : Return(t)
          BY <3>1, <3>3
        <4>2. told' = Append(told, draft[t].status) /\ Owed(t)
          BY <3>3, <4>1 DEF Return, Owed
        <4>3. /\ told = <<>> /\ Standing.status \in TerminalStates
              /\ draft[t].status = Standing.status
          BY <1>2, <4>2 DEF IInv, Verdicts
        <4>4. told' = <<Standing.status>>
          BY <4>2, <4>3
        <4>5. Register!Decisions = TerminalStates
          BY DEF Register!Decisions, TerminalStates
        <4> QED
          BY <3>1, <4>3, <4>4, <4>5 DEF Register!DecisionNext, Register!Tell
      <3> QED
        BY <3>2, <3>3
    <2> QED
      BY <2>1, <2>2, <2>3
  <1> QED
    BY <1>1, <1>2, Inductive, PTL DEF Spec, ImplementsDecision, Register!DecisionSpec
=============================================================================

------------------------- MODULE ResearchLaneProofs -------------------------
(***************************************************************************)
(* Theorems about ResearchLane for any number of jobs, attempts and        *)
(* changes by others, and any set of backends.  The lane is one loop       *)
(* (ResearchAssumption), so the row of a job moves only while that loop    *)
(* holds the job; what has to be known of a notebook at each stage of the  *)
(* loop, and of the row when nobody holds the job, is the invariant.       *)
(***************************************************************************)
EXTENDS ResearchLane, TLAPS

\* Imports of a notebook that landed or are still on their way.
Sent(n) == n.imports + (IF n.pending THEN 1 ELSE 0)

\* What the row of a job knows about its notebook, whoever holds the job: every
\* import was counted first, the count before the first one is the baseline, and
\* a verdict of absence is right.
Recorded(e, n) ==
    /\ Sent(n) > 0 => e # None /\ Sent(n) <= e.applies
    /\ ~n.disturbed =>
         /\ n.imports <= 1
         /\ e # None => e.base <= n.others
         /\ e # None /\ e.status = "verified_absent" => n.imports = 0

\* The adapter was called for the attempt that the row counted last.
Attempting == {"calling", "running", "landed", "empty", "imported", "nothing",
               "raised"}

\* What the loop knows at stage s about the row e and the notebook n of the job
\* it holds, when c is the source count it read last.
Knows(s, c, e, n) ==
    /\ s = "intent" => /\ c \in Int
                       /\ e = None /\ ~n.disturbed => c <= n.others
    /\ s \notin {"claimed", "intent"} => e # None
    /\ s \in Attempting => e.status = "apply_in_progress"
    /\ s \in {"calling", "running"} => Sent(n) + 1 <= e.applies
    /\ s \in {"apply", "calling", "running"} /\ ~n.disturbed => n.imports = 0
    /\ s = "verdict" /\ c # None /\ ~n.disturbed => e.base + n.imports <= c

\* A thread without a job is at the beginning, and waits for a claim only then.
Idle(w) == /\ held[w] = NoClaim => stage[w] = "claimed"
           /\ w \in passed => held[w] = NoClaim

Informed(w) ==
    held[w] # NoClaim =>
        /\ held[w].job \in JobIds
        /\ Knows(stage[w], count[w], effect[held[w].job], notebook[held[w].job])

IInv == /\ LaneTypeOK
        /\ held = [w \in Workers |-> held[w]]
        /\ \A j \in JobIds : Recorded(effect[j], notebook[j])
        /\ \A w \in Workers : Idle(w) /\ Informed(w)

-----------------------------------------------------------------------------
(* Steps by whom they move. *)

LEMMA OneLoop == \A v, w \in Workers : v = w
  BY ResearchAssumption

LEMMA Counted == \A n \in Notebook : Sent(n) \in Nat /\ n.imports <= Sent(n)
  BY DEF Notebook, Sent

\* The loop moves itself, the row and the notebook of the job it holds.
LEMMA LoopMoves ==
    ASSUME IInv, NEW w \in Workers, held[w] # NoClaim,
           held' = held, passed' = passed,
           NEW s \in Stages, stage' = [stage EXCEPT ![w] = s],
           NEW c \in Int \cup {None}, count' = [count EXCEPT ![w] = c],
           NEW e \in Effect \cup {None},
           effect' = [effect EXCEPT ![held[w].job] = e],
           NEW n \in Notebook, notebook' = [notebook EXCEPT ![held[w].job] = n],
           Recorded(e, n), Knows(s, c, e, n)
    PROVE  IInv'
  <1>1. held[w].job \in JobIds
    BY DEF IInv, Informed
  <1>2. LaneTypeOK'
    BY <1>1 DEF IInv, LaneTypeOK
  <1>3. \A j \in JobIds : Recorded(effect'[j], notebook'[j])
    BY <1>1 DEF IInv, LaneTypeOK
  <1>4. /\ stage'[w] = s /\ count'[w] = c /\ effect'[held[w].job] = e
        /\ notebook'[held[w].job] = n
    BY <1>1 DEF IInv, LaneTypeOK
  <1>5. Idle(w)' /\ Informed(w)'
    BY <1>1, <1>4 DEF IInv, Idle, Informed
  <1> QED
    BY <1>2, <1>3, <1>5, OneLoop DEF IInv

\* Somebody else changes the notebook of job j.
LEMMA NotebookMoves ==
    ASSUME IInv, NEW j \in JobIds, NEW n \in Notebook,
           notebook' = [notebook EXCEPT ![j] = n],
           UNCHANGED <<vars, effect, stage, count>>,
           Recorded(effect[j], n),
           \A w \in Workers : held[w] # NoClaim /\ held[w].job = j =>
               Knows(stage[w], count[w], effect[j], n)
    PROVE  IInv'
  <1>1. held' = held /\ passed' = passed
    BY DEF vars
  <1>2. LaneTypeOK'
    BY DEF IInv, LaneTypeOK
  <1>3. notebook'[j] = n /\ \A i \in JobIds \ {j} : notebook'[i] = notebook[i]
    BY DEF IInv, LaneTypeOK
  <1>4. \A i \in JobIds : Recorded(effect'[i], notebook'[i])
    BY <1>3 DEF IInv
  <1>5. ASSUME NEW w \in Workers
        PROVE  Idle(w)' /\ Informed(w)'
    <2>1. Idle(w)'
      BY <1>1 DEF IInv, Idle
    <2>2. CASE held[w].job = j
      BY <1>1, <1>3, <2>1, <2>2 DEF IInv, Informed
    <2>3. CASE held[w].job # j
      BY <1>1, <1>3, <2>1, <2>3 DEF IInv, Informed
    <2> QED
      BY <2>2, <2>3, <2>1
  <1> QED
    BY <1>1, <1>2, <1>4, <1>5 DEF IInv

\* Steps that only touch the table, or give up a claim of the gate.
LEMMA TableMoves ==
    ASSUME IInv, held' = held, passed' \subseteq passed, UNCHANGED laneVars
    PROVE  IInv'
  <1>1. \A w \in Workers : Idle(w)' /\ Informed(w)'
    BY DEF IInv, Idle, Informed, laneVars
  <1> QED
    BY <1>1 DEF IInv, LaneTypeOK, laneVars

\* The loop gives up its job.
LEMMA LoopCloses ==
    ASSUME IInv, NEW w \in Workers, NEW row, LaneCloses(w, row)
    PROVE  IInv'
  <1>1. /\ held' = [held EXCEPT ![w] = NoClaim] /\ passed' = passed
        /\ stage' = [stage EXCEPT ![w] = "claimed"]
        /\ count' = [count EXCEPT ![w] = None]
        /\ UNCHANGED <<effect, notebook>>
    BY DEF LaneCloses, BareClose, Goto
  <1>2. held'[w] = NoClaim /\ stage'[w] = "claimed"
    BY <1>1 DEF IInv, LaneTypeOK
  <1>3. LaneTypeOK'
    BY <1>1 DEF IInv, LaneTypeOK, Stages
  <1>4. Idle(w)' /\ Informed(w)'
    BY <1>2 DEF Idle, Informed
  <1> QED
    BY <1>1, <1>3, <1>4, OneLoop DEF IInv

LEMMA ClaimsKeep ==
    ASSUME IInv, NEW w \in Workers, LaneClaims(w)
    PROVE  IInv'
  <1>1. CASE ReadGate(w)
    <2>1. /\ held[w] = NoClaim /\ held' = held /\ passed' = passed \cup {w}
          /\ UNCHANGED laneVars
      BY <1>1 DEF LaneClaims, ReadGate
    <2>2. Idle(w)' /\ Informed(w)'
      BY <2>1 DEF IInv, Idle, Informed, laneVars
    <2> QED
      BY <2>1, <2>2, OneLoop DEF IInv, LaneTypeOK, laneVars
  <1>2. ASSUME NEW lag \in Lags, ClaimNext(w, Kinds, lag)
        PROVE  IInv'
    <2>1. PICK j \in JobIds : Take(w, j, lag)
      BY <1>2 DEF ClaimNext
    <2>2. w \in passed /\ UNCHANGED laneVars
      BY <1>2 DEF ClaimNext, LaneClaims
    <2>3. PICK c : /\ c.job = j /\ held' = [held EXCEPT ![w] = c]
                   /\ passed' = passed \ {w}
      BY <2>1 DEF Take
    <2>4. stage[w] = "claimed" /\ held'[w] = c
      BY <2>2, <2>3 DEF IInv, Idle
    <2>5. Idle(w)' /\ Informed(w)'
      BY <2>2, <2>3, <2>4 DEF IInv, Idle, Informed, Knows, Attempting, laneVars
    <2>6. held' = [v \in Workers |-> held'[v]]
      BY <2>3 DEF IInv
    <2> QED
      BY <2>2, <2>5, <2>6, OneLoop DEF IInv, LaneTypeOK, laneVars
  <1>3. CASE ClaimNothing(w)
    BY <1>3, TableMoves DEF ClaimNothing, LaneClaims
  <1> QED
    BY <1>1, <1>2, <1>3 DEF LaneClaims

-----------------------------------------------------------------------------
(* The steps of the executor. *)

LEMMA BaselineKeeps ==
    ASSUME IInv, NEW w \in Workers, ReadBaseline(w)
    PROVE  IInv'
  <1> DEFINE j == held[w].job
             c == SourceCount(j)
  <1>1. held[w] # NoClaim /\ j \in JobIds
    BY DEF ReadBaseline, At, IInv, Informed
  <1>2. /\ notebook[j] \in Notebook /\ effect[j] \in Effect \cup {None}
        /\ Recorded(effect[j], notebook[j])
    BY <1>1 DEF IInv, LaneTypeOK
  <1>3. c \in Int
    BY <1>2 DEF SourceCount, Notebook
  <1>4. effect[j] = None => notebook[j].imports = 0
    BY <1>2, Counted DEF Recorded, Notebook
  <1>5. Knows("intent", c, effect[j], notebook[j])
    BY <1>2, <1>3, <1>4 DEF Knows, Attempting, SourceCount, Notebook
  <1>6. /\ effect' = [effect EXCEPT ![j] = effect[j]]
        /\ notebook' = [notebook EXCEPT ![j] = notebook[j]]
    BY DEF ReadBaseline, IInv, LaneTypeOK
  <1> QED
    BY <1>1, <1>2, <1>3, <1>5, <1>6, LoopMoves
       DEF ReadBaseline, Goto, vars, Stages

LEMMA IntentKeeps ==
    ASSUME IInv, NEW w \in Workers, RecordIntent(w)
    PROVE  IInv'
  <1> DEFINE j == held[w].job
             n == notebook[j]
             e == Intent(w)
  <1>1. /\ held[w] # NoClaim /\ stage[w] = "intent" /\ j \in JobIds
        /\ Knows("intent", count[w], effect[j], n)
    BY DEF RecordIntent, At, IInv, Informed
  <1>2. n \in Notebook /\ effect[j] \in Effect \cup {None} /\ Recorded(effect[j], n)
    BY <1>1 DEF IInv, LaneTypeOK
  <1>3. count[w] \in Int
    BY <1>1 DEF Knows
  <1>4. e \in Effect /\ e # None /\ Recorded(e, n)
    <2>1. CASE effect[j] = None
      <3>1. e = [status |-> "intent_recorded", applies |-> 0, base |-> count[w],
                 imported |-> FALSE]
        BY <2>1 DEF Intent
      <3>2. e \in Effect
        BY <3>1, <1>3 DEF Effect, Open
      <3>3. Sent(n) = 0
        BY <1>2, <2>1, Counted DEF Recorded
      <3>4. ~n.disturbed => e.base <= n.others
        BY <1>1, <2>1, <3>1 DEF Knows
      <3>5. n.imports \in Nat /\ n.imports <= 0
        BY <1>2, <3>3, Counted DEF Notebook
      <3>6. e # None
        BY <3>2, NoneAssumption
      <3>7. e.applies = 0 /\ e.status # "verified_absent" /\ n.imports <= 1
        BY <3>1, <3>5
      <3> QED
        BY <3>2, <3>3, <3>4, <3>6, <3>7 DEF Recorded
    <2>2. CASE effect[j] # None
      BY <2>2, <1>2 DEF Intent
    <2> QED
      BY <2>1, <2>2
  <1>5. Knows("route", count[w], e, n)
    BY <1>4 DEF Knows, Attempting
  <1>6. /\ notebook' = [notebook EXCEPT ![j] = n]
        /\ count' = [count EXCEPT ![w] = count[w]]
    BY DEF RecordIntent, ToStage, IInv, LaneTypeOK
  <1> QED
    BY <1>1, <1>2, <1>3, <1>4, <1>5, <1>6, LoopMoves
       DEF RecordIntent, ToStage, Goto, vars, Stages

\* What every later step of the loop starts from.
LEMMA AtWork ==
    ASSUME IInv, NEW w \in Workers, NEW s, At(w, s)
    PROVE  /\ held[w] # NoClaim /\ stage[w] = s /\ held[w].job \in JobIds
           /\ Knows(s, count[w], effect[held[w].job], notebook[held[w].job])
           /\ notebook[held[w].job] \in Notebook
           /\ Recorded(effect[held[w].job], notebook[held[w].job])
           /\ effect[held[w].job] \in Effect \cup {None}
           /\ s \notin {"claimed", "intent"} =>
                effect[held[w].job] \in Effect /\ effect[held[w].job] # None
           /\ count[w] \in Int \cup {None}
  <1>1. /\ held[w] # NoClaim /\ stage[w] = s /\ held[w].job \in JobIds
        /\ Knows(s, count[w], effect[held[w].job], notebook[held[w].job])
    BY DEF At, IInv, Informed
  <1>2. s \notin {"claimed", "intent"} => effect[held[w].job] # None
    BY <1>1 DEF Knows
  <1> QED
    BY <1>1, <1>2 DEF IInv, LaneTypeOK

\* A variable that stays is set to what it was.
LEMMA Stays ==
    ASSUME IInv, NEW w \in Workers, NEW j \in JobIds
    PROVE  /\ count = [count EXCEPT ![w] = count[w]]
           /\ effect = [effect EXCEPT ![j] = effect[j]]
           /\ notebook = [notebook EXCEPT ![j] = notebook[j]]
  BY DEF IInv, LaneTypeOK

LEMMA DriveKeeps ==
    ASSUME IInv, NEW w \in Workers, Drive(w)
    PROVE  IInv'
  <1> DEFINE j == held[w].job
             n == notebook[j]
             e == effect[j]
  <1>1. At(w, "route")
    BY DEF Drive
  <1>2. /\ n \in Notebook /\ e \in Effect /\ e # None /\ Recorded(e, n)
        /\ count[w] \in Int \cup {None} /\ j \in JobIds /\ held[w] # NoClaim
    BY <1>1, AtWork
  <1>3. PICK s \in {"applied", "blocked", "apply", "recover"} :
          /\ stage' = [stage EXCEPT ![w] = s]
          /\ s = "apply" => \/ e.status = "verified_absent"
                            \/ e.status = "intent_recorded" /\ e.applies = 0
    BY DEF Drive, ToStage, Goto
  <1>4. s = "apply" /\ ~n.disturbed => n.imports = 0
    BY <1>2, <1>3, Counted DEF Recorded, Notebook
  <1>5. Knows(s, count[w], e, n)
    BY <1>2, <1>4 DEF Knows, Attempting
  <1>6. effect' = effect /\ notebook' = notebook /\ count' = count /\ UNCHANGED vars
    BY DEF Drive, ToStage
  <1>7. s \in Stages
    BY DEF Stages
  <1>8. /\ effect' = [effect EXCEPT ![j] = e] /\ count' = [count EXCEPT ![w] = count[w]]
        /\ notebook' = [notebook EXCEPT ![j] = n] /\ held' = held /\ passed' = passed
    BY <1>2, <1>6, Stays DEF vars
  <1> QED
    BY <1>2, <1>3, <1>5, <1>7, <1>8, LoopMoves

LEMMA BeginApplyKeeps ==
    ASSUME IInv, NEW w \in Workers, BeginApply(w)
    PROVE  IInv'
  <1> DEFINE j == held[w].job
             n == notebook[j]
             e == effect[j]
             f == [e EXCEPT !.status = "apply_in_progress", !.applies = e.applies + 1]
             g == [e EXCEPT !.status = "blocked_manual_review"]
  <1>1. At(w, "apply")
    BY DEF BeginApply
  <1>2. /\ n \in Notebook /\ e \in Effect /\ e # None /\ Recorded(e, n)
        /\ count[w] \in Int \cup {None} /\ Knows("apply", count[w], e, n)
        /\ j \in JobIds /\ held[w] # NoClaim
    BY <1>1, AtWork
  <1>3. /\ notebook' = [notebook EXCEPT ![j] = n]
        /\ count' = [count EXCEPT ![w] = count[w]]
        /\ held' = held /\ passed' = passed
    BY <1>2, Stays DEF BeginApply, ToStage, vars
  <1>4. effect' = [effect EXCEPT ![j] = IF e.applies < MaxAttempts THEN f ELSE g]
    BY <1>2 DEF BeginApply, IInv, LaneTypeOK
  <1>5. CASE e.applies < MaxAttempts
    <2>1. /\ f \in Effect /\ f.status = "apply_in_progress"
          /\ f.applies = e.applies + 1 /\ f.base = e.base
      <3>1. e.applies + 1 \in Nat /\ "apply_in_progress" \in Open
        BY <1>2 DEF Effect, Open
      <3> QED
        BY <1>2, <3>1 DEF Effect
    <2>2. f # None
      BY <2>1, NoneAssumption
    <2>3. Sent(n) \in Nat /\ e.applies \in Nat /\ Sent(n) + 1 <= f.applies
      BY <1>2, <2>1, Counted DEF Recorded, Effect
    <2>4. Recorded(f, n)
      BY <1>2, <2>1, <2>2, <2>3 DEF Recorded
    <2>5. Knows("calling", count[w], f, n)
      BY <1>2, <2>1, <2>2, <2>3 DEF Knows
    <2>6. effect' = [effect EXCEPT ![j] = f] /\ stage' = [stage EXCEPT ![w] = "calling"]
      BY <1>4, <1>5 DEF BeginApply, ToStage, Goto
    <2> QED
      BY <1>2, <1>3, <2>1, <2>4, <2>5, <2>6, LoopMoves DEF Stages
  <1>6. CASE ~(e.applies < MaxAttempts)
    <2>1. /\ g \in Effect /\ g.status = "blocked_manual_review"
          /\ g.applies = e.applies /\ g.base = e.base
      BY <1>2 DEF Effect
    <2>2. g # None
      BY <2>1, NoneAssumption
    <2>3. Recorded(g, n) /\ Knows("blocked", count[w], g, n)
      BY <1>2, <2>1, <2>2 DEF Recorded, Knows, Attempting
    <2>4. effect' = [effect EXCEPT ![j] = g] /\ stage' = [stage EXCEPT ![w] = "blocked"]
      BY <1>4, <1>6 DEF BeginApply, ToStage, Goto
    <2> QED
      BY <1>2, <1>3, <2>1, <2>3, <2>4, LoopMoves DEF Stages
  <1> QED
    BY <1>5, <1>6

LEMMA CallKeeps ==
    ASSUME IInv, NEW w \in Workers, NEW b \in Backends, CallAdapter(w, b)
    PROVE  IInv'
  <1> DEFINE j == held[w].job
             n == notebook[j]
             e == effect[j]
             c == SourceCount(j)
  <1>1. At(w, "calling")
    BY DEF CallAdapter
  <1>2. /\ n \in Notebook /\ e \in Effect /\ e # None /\ Recorded(e, n)
        /\ Knows("calling", count[w], e, n) /\ j \in JobIds /\ held[w] # NoClaim
    BY <1>1, AtWork
  <1>3. c \in Int
    BY <1>2 DEF SourceCount, Notebook
  <1>4. PICK s \in {"imported", "running"} : stage' = [stage EXCEPT ![w] = s]
    BY DEF CallAdapter, Goto
  <1>5. Knows(s, c, e, n)
    BY <1>2 DEF Knows, Attempting
  <1>6. /\ effect' = [effect EXCEPT ![j] = e] /\ notebook' = [notebook EXCEPT ![j] = n]
        /\ count' = [count EXCEPT ![w] = c] /\ held' = held /\ passed' = passed
    BY <1>2, Stays DEF CallAdapter, vars
  <1>7. s \in Stages
    BY DEF Stages
  <1> QED
    BY <1>2, <1>3, <1>4, <1>5, <1>6, <1>7, LoopMoves

\* The one step that imports: nothing was imported before, and the row counts
\* the import already.
LEMMA RunsKeeps ==
    ASSUME IInv, NEW w \in Workers, ResearchRuns(w)
    PROVE  IInv'
  <1> DEFINE j == held[w].job
             n == notebook[j]
             e == effect[j]
             landed == [n EXCEPT !.imports = @ + 1]
             late == [n EXCEPT !.pending = TRUE]
  <1>1. At(w, "running")
    BY DEF ResearchRuns
  <1>2. /\ n \in Notebook /\ e \in Effect /\ e # None /\ Recorded(e, n)
        /\ Knows("running", count[w], e, n) /\ j \in JobIds /\ held[w] # NoClaim
        /\ count[w] \in Int \cup {None}
    BY <1>1, AtWork
  <1>3. /\ effect' = [effect EXCEPT ![j] = e]
        /\ count' = [count EXCEPT ![w] = count[w]]
        /\ held' = held /\ passed' = passed
    BY <1>2, Stays DEF ResearchRuns, vars
  <1>4. /\ Sent(n) + 1 <= e.applies
        /\ ~n.disturbed => n.imports = 0
        /\ e.status = "apply_in_progress"
    BY <1>2 DEF Knows, Attempting
  <1>5. /\ n.imports \in Nat /\ n.pending \in BOOLEAN /\ n.disturbed \in BOOLEAN
        /\ n.others \in Int /\ e.applies \in Nat /\ e.base \in Int
    BY <1>2 DEF Notebook, Effect
  <1>6. PICK s \in {"landed", "empty", "raised"}, m \in {n, landed, late} :
          /\ stage' = [stage EXCEPT ![w] = s]
          /\ notebook' = [notebook EXCEPT ![j] = m]
    <2>1. notebook' = notebook => notebook' = [notebook EXCEPT ![j] = n]
      BY <1>2, Stays
    <2> QED
      BY <2>1, <1>2 DEF ResearchRuns, Goto, IInv, LaneTypeOK
  <1>7. /\ landed \in Notebook /\ landed.imports = n.imports + 1
        /\ landed.pending = n.pending /\ landed.disturbed = n.disturbed
        /\ landed.others = n.others
    BY <1>2, <1>5 DEF Notebook
  <1>8. /\ late \in Notebook /\ late.imports = n.imports
        /\ late.pending = TRUE /\ late.disturbed = n.disturbed
        /\ late.others = n.others
    BY <1>2, <1>5 DEF Notebook
  <1>9. m \in Notebook /\ Recorded(e, m)
    <2>1. CASE m = n
      BY <2>1, <1>2
    <2>2. CASE m = landed
      <3>1. Sent(m) = Sent(n) + 1 /\ m.disturbed = n.disturbed
        BY <2>2, <1>5, <1>7 DEF Sent
      <3>2. ~m.disturbed => m.imports = 1
        BY <2>2, <1>4, <1>7
      <3> QED
        BY <2>2, <1>2, <1>4, <1>7, <3>1, <3>2 DEF Recorded
    <2>3. CASE m = late
      <3>1. Sent(m) <= Sent(n) + 1 /\ Sent(m) \in Nat /\ Sent(n) \in Nat
        BY <2>3, <1>5, <1>8 DEF Sent
      <3>2. Sent(m) <= e.applies
        BY <3>1, <1>4, <1>5
      <3>3. ~m.disturbed => m.imports = 0
        BY <2>3, <1>4, <1>8
      <3> QED
        BY <2>3, <1>2, <1>4, <1>8, <3>2, <3>3 DEF Recorded
    <2> QED
      BY <2>1, <2>2, <2>3
  <1>10. Knows(s, count[w], e, m)
    BY <1>2, <1>4 DEF Knows, Attempting
  <1>11. s \in Stages
    BY DEF Stages
  <1> QED
    BY <1>2, <1>3, <1>6, <1>9, <1>10, <1>11, LoopMoves

LEMMA ReturnKeeps ==
    ASSUME IInv, NEW w \in Workers, AdapterReturns(w)
    PROVE  IInv'
  <1> DEFINE j == held[w].job
             n == notebook[j]
             e == effect[j]
  <1>1. PICK t \in {"landed", "empty"} : At(w, t)
    BY DEF AdapterReturns
  <1>2. /\ n \in Notebook /\ e \in Effect /\ e # None /\ Recorded(e, n)
        /\ Knows(t, count[w], e, n) /\ j \in JobIds /\ held[w] # NoClaim
        /\ count[w] \in Int \cup {None}
    BY <1>1, AtWork
  <1>3. PICK s \in {"imported", "raised", "nothing"} : stage' = [stage EXCEPT ![w] = s]
    BY DEF AdapterReturns, Goto
  <1>4. Knows(s, count[w], e, n)
    BY <1>2 DEF Knows, Attempting
  <1>5. /\ effect' = [effect EXCEPT ![j] = e] /\ notebook' = [notebook EXCEPT ![j] = n]
        /\ count' = [count EXCEPT ![w] = count[w]] /\ held' = held /\ passed' = passed
    BY <1>2, Stays DEF AdapterReturns, vars
  <1>6. s \in Stages
    BY DEF Stages
  <1> QED
    BY <1>2, <1>3, <1>4, <1>5, <1>6, LoopMoves

\* The row of the job at a stage reached by the executor changes its status.
LEMMA StatusKeeps ==
    ASSUME IInv, NEW w \in Workers, NEW t \in Stages \ {"claimed", "intent"},
           At(w, t), NEW f \in Effect,
           f.applies = effect[held[w].job].applies,
           f.base = effect[held[w].job].base,
           f.status = "verified_absent" =>
               \/ notebook[held[w].job].disturbed
               \/ notebook[held[w].job].imports = 0,
           NEW s \in {"applied", "blocked", "apply"},
           s = "apply" => f.status = "verified_absent",
           effect' = [effect EXCEPT ![held[w].job] = f], ToStage(w, s)
    PROVE  IInv'
  <1> DEFINE j == held[w].job
             n == notebook[j]
             e == effect[j]
  <1>1. /\ n \in Notebook /\ e \in Effect /\ e # None /\ Recorded(e, n)
        /\ j \in JobIds /\ held[w] # NoClaim /\ count[w] \in Int \cup {None}
    BY AtWork
  <1>2. f # None
    BY NoneAssumption
  <1>3. Recorded(f, n)
    BY <1>1, <1>2 DEF Recorded
  <1>4. Knows(s, count[w], f, n)
    BY <1>2 DEF Knows, Attempting
  <1>5. /\ notebook' = [notebook EXCEPT ![j] = n]
        /\ count' = [count EXCEPT ![w] = count[w]] /\ held' = held /\ passed' = passed
        /\ stage' = [stage EXCEPT ![w] = s]
    BY <1>1, Stays DEF ToStage, Goto, vars
  <1>6. s \in Stages
    BY DEF Stages
  <1> QED
    BY <1>1, <1>3, <1>4, <1>5, <1>6, LoopMoves

LEMMA ResultKeeps ==
    ASSUME IInv, NEW w \in Workers, RecordResult(w)
    PROVE  IInv'
  <1> DEFINE j == held[w].job
             e == effect[j]
             f == [e EXCEPT !.status = "applied", !.imported = TRUE]
             g == [e EXCEPT !.status = "blocked_manual_review"]
  <1>1. CASE At(w, "imported")
    <2>1. e \in Effect /\ j \in JobIds
      BY <1>1, AtWork
    <2>2. /\ f \in Effect /\ f.status = "applied" /\ f.applies = e.applies
          /\ f.base = e.base
      BY <2>1 DEF Effect, Applied
    <2>3. effect' = [effect EXCEPT ![j] = f] /\ ToStage(w, "applied")
      BY <1>1, <2>1 DEF RecordResult, At, IInv, LaneTypeOK
    <2> QED
      BY <1>1, <2>2, <2>3, StatusKeeps DEF Stages
  <1>2. CASE At(w, "nothing")
    <2>1. e \in Effect /\ j \in JobIds
      BY <1>2, AtWork
    <2>2. /\ g \in Effect /\ g.status = "blocked_manual_review"
          /\ g.applies = e.applies /\ g.base = e.base
      BY <2>1 DEF Effect
    <2>3. effect' = [effect EXCEPT ![j] = g] /\ ToStage(w, "blocked")
      BY <1>2, <2>1 DEF RecordResult, At, IInv, LaneTypeOK
    <2> QED
      BY <1>2, <2>2, <2>3, StatusKeeps DEF Stages
  <1> QED
    BY <1>1, <1>2 DEF RecordResult

LEMMA VerifierKeeps ==
    ASSUME IInv, NEW w \in Workers, VerifierReads(w)
    PROVE  IInv'
  <1> DEFINE j == held[w].job
             n == notebook[j]
             e == effect[j]
  <1>1. At(w, "recover")
    BY DEF VerifierReads
  <1>2. /\ n \in Notebook /\ e \in Effect /\ e # None /\ Recorded(e, n)
        /\ j \in JobIds /\ held[w] # NoClaim
    BY <1>1, AtWork
  <1>3. PICK c \in {SourceCount(j), None} : count' = [count EXCEPT ![w] = c]
    BY DEF VerifierReads
  <1>4. SourceCount(j) = n.imports + n.others /\ n.imports \in Nat /\ n.others \in Int
        /\ e.base \in Int
    BY <1>2 DEF SourceCount, Notebook, Effect
  <1>5. c \in Int \cup {None}
    BY <1>4
  <1>6. Knows("verdict", c, e, n)
    BY <1>2, <1>3, <1>4 DEF Knows, Recorded, Attempting
  <1>7. /\ effect' = [effect EXCEPT ![j] = e] /\ notebook' = [notebook EXCEPT ![j] = n]
        /\ stage' = [stage EXCEPT ![w] = "verdict"] /\ held' = held /\ passed' = passed
    BY <1>2, Stays DEF VerifierReads, Goto, vars
  <1> QED
    BY <1>2, <1>3, <1>5, <1>6, <1>7, LoopMoves DEF Stages

LEMMA CommitKeeps ==
    ASSUME IInv, NEW w \in Workers, CommitVerdict(w)
    PROVE  IInv'
  <1> DEFINE j == held[w].job
             n == notebook[j]
             e == effect[j]
             v == Verdict(e, count[w])
             f == [e EXCEPT !.status = v]
             s == CASE v = "verified_applied" -> "applied"
                    [] v = "verified_absent" -> "apply"
                    [] OTHER -> "blocked"
  <1>1. At(w, "verdict")
    BY DEF CommitVerdict
  <1>2. /\ n \in Notebook /\ e \in Effect /\ Knows("verdict", count[w], e, n)
        /\ j \in JobIds /\ count[w] \in Int \cup {None}
    BY <1>1, AtWork
  <1>3. /\ v \in {"verified_applied", "verified_absent", "blocked_manual_review"}
        /\ v = "verified_absent" => count[w] = e.base
    BY DEF Verdict
  <1>4. f \in Effect /\ f.status = v /\ f.applies = e.applies /\ f.base = e.base
    BY <1>2, <1>3 DEF Effect, Open, Applied
  <1>5. v = "verified_absent" => n.disturbed \/ n.imports = 0
    <2>1. n.imports \in Nat /\ n.disturbed \in BOOLEAN /\ e.base \in Int
      BY <1>2 DEF Notebook, Effect
    <2>2. e.base # None
      BY <2>1, ResearchAssumption
    <2> QED
      BY <1>2, <1>3, <2>1, <2>2 DEF Knows
  <1>6. effect' = [effect EXCEPT ![j] = f] /\ ToStage(w, s)
    BY <1>2 DEF CommitVerdict, IInv, LaneTypeOK
  <1>7. s \in {"applied", "blocked", "apply"} /\ (s = "apply" => v = "verified_absent")
    BY <1>3
  <1> QED
    BY <1>1, <1>4, <1>5, <1>6, <1>7, StatusKeeps DEF Stages

-----------------------------------------------------------------------------
(* The notebook and the rest of the daemon. *)

LEMMA LandsKeeps ==
    ASSUME IInv, NEW j \in JobIds, ImportLands(j)
    PROVE  IInv'
  <1> DEFINE n == notebook[j]
             m == [n EXCEPT !.imports = @ + 1, !.pending = FALSE, !.disturbed = TRUE]
  <1>1. n \in Notebook /\ n.pending /\ Recorded(effect[j], n)
    BY DEF ImportLands, IInv, LaneTypeOK
  <1>2. m \in Notebook /\ m.disturbed /\ Sent(m) = Sent(n) /\ Sent(m) \in Nat
    <2>1. n.imports \in Nat /\ n.imports + 1 \in Nat /\ n.pending = TRUE
      BY <1>1 DEF Notebook
    <2>2. /\ m \in Notebook /\ m.disturbed = TRUE /\ m.pending = FALSE
          /\ m.imports = n.imports + 1
      BY <1>1, <2>1 DEF Notebook
    <2> QED
      BY <2>1, <2>2 DEF Sent
  <1>3. notebook' = [notebook EXCEPT ![j] = m] /\ UNCHANGED <<vars, effect, stage, count>>
    BY DEF ImportLands
  <1>4. Recorded(effect[j], m)
    BY <1>1, <1>2 DEF Recorded
  <1>5. ASSUME NEW w \in Workers, held[w] # NoClaim, held[w].job = j
        PROVE  Knows(stage[w], count[w], effect[j], m)
    <2>1. Knows(stage[w], count[w], effect[j], n)
      BY <1>5 DEF IInv, Informed
    <2> QED
      BY <2>1, <1>2 DEF Knows
  <1> QED
    BY <1>2, <1>3, <1>4, <1>5, NotebookMoves

LEMMA EditKeeps ==
    ASSUME IInv, NEW j \in JobIds, OthersEdit(j)
    PROVE  IInv'
  <1> DEFINE n == notebook[j]
             m(d) == [n EXCEPT !.others = @ + d, !.edits = @ + 1,
                               !.disturbed = @ \/ d < 0]
  <1>1. n \in Notebook /\ Recorded(effect[j], n) /\ effect[j] \in Effect \cup {None}
    BY DEF IInv, LaneTypeOK
  <1>2. PICK d \in {1, -1} : notebook' = [notebook EXCEPT ![j] = m(d)]
    BY DEF OthersEdit
  <1>3. /\ m(d) \in Notebook /\ m(d).imports = n.imports
        /\ Sent(m(d)) = Sent(n) /\ m(d).others = n.others + d
        /\ ~m(d).disturbed => ~n.disturbed /\ d = 1
    <2>1. /\ n.imports \in Nat /\ n.pending \in BOOLEAN /\ n.disturbed \in BOOLEAN
          /\ n.others + d \in Int /\ n.edits + 1 \in Nat
          /\ (n.disturbed \/ d < 0) \in BOOLEAN
      BY <1>1, <1>2 DEF Notebook
    <2>2. /\ m(d) \in Notebook /\ m(d).imports = n.imports
          /\ m(d).pending = n.pending /\ m(d).others = n.others + d
          /\ m(d).disturbed = (n.disturbed \/ d < 0)
      BY <1>1, <2>1 DEF Notebook
    <2>3. ~(d < 0) => d = 1
      BY <1>2
    <2> QED
      BY <2>2, <2>3 DEF Sent
  <1>4. n.others \in Int
    BY <1>1 DEF Notebook
  <1>5. Recorded(effect[j], m(d))
    BY <1>1, <1>3, <1>4 DEF Recorded, Effect
  <1>6. ASSUME NEW w \in Workers, held[w] # NoClaim, held[w].job = j
        PROVE  Knows(stage[w], count[w], effect[j], m(d))
    <2>1. Knows(stage[w], count[w], effect[j], n)
      BY <1>6 DEF IInv, Informed
    <2> QED
      BY <2>1, <1>3, <1>4 DEF Knows
  <1>7. UNCHANGED <<vars, effect, stage, count>>
    BY DEF OthersEdit
  <1> QED
    BY <1>2, <1>3, <1>5, <1>6, <1>7, NotebookMoves

LEMMA WorldKeeps ==
    ASSUME IInv, LaneWorld \/ \E j \in JobIds : LaneRetires(j)
    PROVE  IInv'
  <1>1. held' = held /\ passed' = passed /\ UNCHANGED laneVars
    <2>1. CASE LaneWorld
      BY <2>1 DEF LaneWorld, Enqueuing, LookupKey, Insert, Tick,
                  SetSafeModeReason, PruneTerminal
    <2>2. CASE \E j \in JobIds : LaneRetires(j)
      BY <2>2 DEF LaneRetires, Recovering, ReclaimExpiredLease, RecoverStaleRunning
    <2> QED
      BY <2>1, <2>2
  <1> QED
    BY <1>1, TableMoves

LEMMA RestartKeeps ==
    ASSUME IInv, LaneRestarts
    PROVE  IInv'
  <1>1. /\ held' = [w \in Workers |-> NoClaim] /\ passed' = {}
        /\ stage' = [w \in Workers |-> "claimed"]
        /\ count' = [w \in Workers |-> None]
        /\ effect' = effect /\ notebook' = notebook
    BY DEF LaneRestarts, Restart
  <1>2. \A w \in Workers : Idle(w)' /\ Informed(w)'
    BY <1>1 DEF Idle, Informed
  <1> QED
    BY <1>1, <1>2 DEF IInv, LaneTypeOK, Stages

-----------------------------------------------------------------------------
LEMMA InitIInv == LaneInit => IInv
  <1> SUFFICES ASSUME LaneInit
               PROVE  IInv
    OBVIOUS
  <1>1. LaneTypeOK
    BY DEF LaneInit, LaneTypeOK, Notebook, Stages
  <1>2. \A j \in JobIds : /\ notebook[j].imports = 0 /\ notebook[j].pending = FALSE
                          /\ effect[j] = None
    BY DEF LaneInit
  <1>3. \A j \in JobIds : Recorded(effect[j], notebook[j])
    BY <1>2 DEF Recorded, Sent
  <1>4. held = [w \in Workers |-> held[w]] /\ \A w \in Workers : Idle(w) /\ Informed(w)
    BY DEF LaneInit, Init, Idle, Informed
  <1> QED
    BY <1>1, <1>3, <1>4 DEF IInv

LEMMA StepKeeps ==
    ASSUME IInv, [LaneNext]_allVars
    PROVE  IInv'
  <1>1. CASE UNCHANGED allVars
    BY <1>1, TableMoves DEF allVars, vars
  <1>2. ASSUME NEW w \in Workers, Runner(w)
        PROVE  IInv'
    BY <1>2, ClaimsKeep, BaselineKeeps, LoopCloses
       DEF Runner, RetryLater, CompleteResearch, FailBlocked
  <1>3. ASSUME NEW w \in Workers, Executor(w)
        PROVE  IInv'
    BY <1>3, IntentKeeps, DriveKeeps, BeginApplyKeeps, CallKeeps, RunsKeeps,
       ReturnKeeps, ResultKeeps, VerifierKeeps, CommitKeeps DEF Executor
  <1> QED
    BY <1>1, <1>2, <1>3, LandsKeeps, EditKeeps, WorldKeeps, RestartKeeps
       DEF LaneNext

LEMMA Inductive == LaneSpec => []IInv
  <1>1. IInv /\ [LaneNext]_allVars => IInv'
    BY StepKeeps
  <1> QED
    BY InitIInv, <1>1, PTL DEF LaneSpec

\* Types are kept; above all the two statuses that the table knows and the code
\* never means to store stay out of it.
THEOREM TypeCorrect == LaneSpec => []LaneTypeOK
  <1>1. IInv => LaneTypeOK
    BY DEF IInv
  <1> QED
    BY Inductive, <1>1, PTL

\* However the daemon crashes between intent, call and result, every import that
\* landed or may still land was counted in the row of its job first.
THEOREM AttemptsAreCounted == LaneSpec => []WriteAhead
  <1>1. IInv => WriteAhead
    BY DEF IInv, Recorded, Sent, WriteAhead
  <1> QED
    BY Inductive, <1>1, PTL

\* For any number of attempts, crashes and sources added by others, a job never
\* imports twice unless its notebook was disturbed: somebody has removed sources,
\* or an import of the job itself has landed after its caller gave up
\* (notebooklm_research_verifier compares source counts and nothing else).
THEOREM ImportsOnce == LaneSpec => []NeverDuplicate
  <1>1. ASSUME IInv
        PROVE  NeverDuplicate
    <2> SUFFICES ASSUME NEW j \in JobIds, notebook[j].imports > 1
                 PROVE  notebook[j].disturbed
      BY DEF NeverDuplicate
    <2>1. notebook[j].imports \in Nat /\ Recorded(effect[j], notebook[j])
      BY <1>1 DEF IInv, LaneTypeOK, Notebook
    <2> QED
      BY <2>1 DEF Recorded
  <1> QED
    BY Inductive, <1>1, PTL
=============================================================================

--------------------------- MODULE CoordinatorProofs ---------------------------
(***************************************************************************)
(* Theorems about Coordinator, for any number of research workers, runs    *)
(* and re-drives, whichever files cannot be read: implementation happens   *)
(* once, a half-written phase is not taken for whole, nothing goes on past *)
(* a failure that it could read, and what a checkpoint calls succeeded is  *)
(* there and is not begun again.                                           *)
(***************************************************************************)
EXTENDS Coordinator, TLAPS

-----------------------------------------------------------------------------
(* The inductive invariant. *)

Event == (PhaseNames \cup {"task"}) \X {"started", "succeeded", "failed", "blocked"}
Failures == (PhaseNames \cup {"task"}) \X {"failed", "blocked"}

\* The checkpoint events that may be pending in a stage.
Events ==
    [at \in Stages |->
       CASE at = "research" -> {<<"task", "started">>}
         [] at = "researching" -> {<<"research", "started">>}
         [] at = "researched" -> {<<"research", "succeeded">>}
         [] at \in {"synthesizing", "healing"} -> {<<"synthesis", "started">>}
         [] at = "synthesized" -> {<<"synthesis", "succeeded">>}
         [] at = "marking" -> {<<"implementation", "started">>}
         [] at = "implemented" -> {<<"implementation", "succeeded">>}
         [] at = "verifying" -> {<<"verification", "started">>}
         [] at = "closing" -> Failures \cup {<<"synthesis", "succeeded">>}
         [] at \in {"refused", "ending"} -> Failures
         [] at = "finishing" -> {<<"verification", "succeeded">>,
                                 <<"task", "succeeded">>}
         [] OTHER -> {}]

\* The files of research need not be those of the newest answers: a run began
\* without the scratch directory, or could read none of them.
Astray == past.blind \/ past.missed

\* A pending success is true of the files already.
Pending ==
    /\ run.due \in Seq(Events[run.at])
    /\ run.at = "healing" => run.culprit # "none"
    /\ run.due # <<>> =>
         /\ run.at = "researching" => f2
         /\ run.at = "researched" =>
              Astray \/ (scratch.research = past.verdict /\ Present(past.verdict))
         /\ run.at = "synthesized" => scratch.synthesis # "none"
         /\ run.at = "implemented" => scratch.implementation # "none"
         /\ run.at = "closing" =>
              scratch.synthesis # "none" \/ run.due \in Seq(Failures)

\* What the recovery plan reads from a checkpoint.
Complete(c) == c.status = "succeeded" /\ ~c.torn
Retryable(c) == c.status = "started" \/ (c.status = "none" /\ ~c.torn)

\* Nothing happened before the first run.
Untouched ==
    past.runs = 0 =>
        /\ run.at = "off" /\ scratch = EmptyScratch
        /\ \A p \in PhaseNames : ledger[p] = [status |-> "none", torn |-> FALSE]
        /\ past.dispatches = 0 /\ past.verdict = NoFindings
        /\ ~past.pruned /\ ~past.blind /\ ~past.unlogged /\ ~past.missed

BeforeImplementation ==
    {"research", "researching", "saving", "researched", "synthesis",
     "synthesizing", "synthesized"}

\* What the ghosts say of the run in progress.
Ghosts ==
    /\ past.pruned /\ ~past.blind => run.at = "off"
    /\ run.at # "off" /\ ~f2 => past.unlogged
    /\ run.at \in BeforeImplementation /\ past.blind /\ ~past.unlogged =>
         run.start # "fresh"
    /\ past.verdict \in Answers \cup {NoFindings}

\* The first n answers, in the order in which they are written.
First(n, r) == [i \in Files |-> IF i <= n THEN r[i] ELSE "none"]
Part(r, whole) == \E n \in Nat : r = First(n, whole)

Loadable(start, r) == Rank[start] > Rank["research"] /\ Present(r)

Later == {"synthesis", "synthesizing", "synthesized", "marking", "dispatching",
          "implementing", "implemented", "verifying"}

\* The first n answers but those that could not be read.
Read(n, unread, whole) ==
    [i \in Files |-> IF i <= n /\ i \notin unread THEN whole[i] ELSE "none"]

\* The files of research are the first answers of the newest ones, and a run
\* goes on from answers that allow it, so far as it could read them.
Answered ==
    Astray \/
    /\ Part(scratch.research, past.verdict)
    /\ run.at \in {"research", "researching", "saving"} => run.unread = {}
    /\ run.at = "researching" => ~Present(scratch.research)
    /\ run.at = "saving" =>
         /\ run.findings = past.verdict
         /\ scratch.research = First(run.saved, past.verdict)
         /\ ledger["research"].status # "succeeded"
         /\ Present(past.verdict)
    /\ run.at \in {"researched", "synthesis", "synthesizing"} =>
         /\ \E n \in Nat : run.findings = Read(n, run.unread, past.verdict)
         /\ Present(run.findings) /\ ~AllFailed(run.findings)
         /\ f2 => /\ scratch.research = past.verdict
                  /\ \A i \in Files \ run.unread : run.findings[i] = past.verdict[i]
    /\ run.at \in {"synthesis", "synthesizing"} => ~Critical(run.findings)
    /\ run.at \in Later =>
         /\ ~AllFailed(past.verdict)
         /\ \A i \in Files : past.verdict[i] \in Criticals => i \in run.unread

\* What a checkpoint calls succeeded is in the scratch directory.
Vouched ==
    /\ scratch.implementation # "none" => scratch.marker
    /\ run.at \in {"dispatching", "implementing", "implemented"} => scratch.marker
    /\ \/ past.pruned
       \/ past.blind
       \/ /\ ledger["research"].status = "succeeded"
               => past.missed \/ (/\ scratch.research = past.verdict
                                  /\ Present(past.verdict))
          /\ ledger["synthesis"].status = "succeeded" => scratch.synthesis # "none"
          /\ ledger["implementation"].status = "succeeded"
               => scratch.implementation # "none"

\* With the F2 store a run begins and goes on where the recovery plan says, until
\* one can read none of the files of research.
Recorded ==
    f2 /\ ~past.missed =>
    /\ run.at = "research" => IF Loadable(run.start, scratch.research)
                              THEN Complete(ledger["research"])
                              ELSE Retryable(ledger["research"])
    /\ run.at \in {"researching", "saving"} => Retryable(ledger["research"])
    /\ run.at = "researched" /\ run.due = <<>> => Complete(ledger["research"])
    /\ run.at \in Later => Complete(ledger["research"])

\* An implementation that was begun leaves its marker; and if every run had
\* the F2 store and could read research, a plan that does not begin with
\* research again.
Once ==
    /\ past.dispatches > 0 => past.blind \/ past.pruned \/ scratch.marker
    /\ /\ ~past.unlogged /\ ~past.missed
       /\ past.dispatches > 0 \/ ledger["implementation"].status = "succeeded"
       => /\ ~Retryable(ledger["research"])
          /\ scratch.marker \/ (scratch = EmptyScratch /\ run.at = "off")
    /\ ~past.blind /\ run.start = "fresh" /\ run.at \in BeforeImplementation =>
         past.dispatches = 0 /\ ledger["implementation"].status # "succeeded"
    /\ run.at \in {"marking", "dispatching"} => Unguarded \/ past.dispatches = 0
    /\ run.at = "marking" /\ run.due # <<>> =>
         Unguarded \/ ledger["implementation"].status # "succeeded"
    /\ past.dispatches > 1 => Unguarded

Rest == Pending /\ Untouched /\ Ghosts /\ Answered /\ Vouched /\ Recorded /\ Once
IInv == CoordinatorTypeOK /\ Rest

-----------------------------------------------------------------------------
(* Facts about the data. *)

LEMMA FilesAreNumbers == Files \subseteq Nat /\ 1 \in Files
  BY CoordinatorAssumption DEF Files

RunType == [at : Stages, start : Starts, findings : Findings, due : Seq(Event),
            saved : Nat, active : PhaseNames \cup {"none"}, opened : BOOLEAN,
            culprit : {"none", "research", "implementation"}, succeeded : BOOLEAN,
            unread : SUBSET Files]
PastType == [runs : 0 .. RunCap, dispatches : 0 .. 2, verdict : Findings,
             pruned : BOOLEAN, blind : BOOLEAN, unlogged : BOOLEAN,
             missed : BOOLEAN]

LEMMA Types ==
    CoordinatorTypeOK <=>
        /\ coding \in BOOLEAN
        /\ f2 \in BOOLEAN
        /\ scratch \in Scratch
        /\ ledger \in [PhaseNames -> Checkpoint]
        /\ redrive \in [armed : BOOLEAN, attempts : 0 .. RedriveCap]
        /\ run \in RunType
        /\ past \in PastType
  BY DEF CoordinatorTypeOK, RunType, PastType, Event

LEMMA IdleTyped == /\ NoFindings \in Findings
                   /\ Idle \in RunType
                   /\ EmptyScratch \in Scratch
  BY DEF NoFindings, Findings, Qualities, Idle, RunType, Stages, Starts, EmptyScratch,
     Scratch, PhaseNames, Event

LEMMA EventsAreEvents ==
    ASSUME NEW at \in Stages
    PROVE  Events[at] \subseteq Event
  BY DEF Events, Event, Failures, PhaseNames

LEMMA RunTyped ==
    CoordinatorTypeOK =>
        /\ run.at \in Stages /\ run.start \in Starts /\ run.findings \in Findings
        /\ run.due \in Seq(Event) /\ run.saved \in Nat
        /\ run.active \in PhaseNames \cup {"none"} /\ run.opened \in BOOLEAN
        /\ run.culprit \in {"none", "research", "implementation"}
        /\ run.succeeded \in BOOLEAN /\ run.unread \in SUBSET Files
  BY Types DEF RunType

LEMMA RunIs ==
    CoordinatorTypeOK =>
      run = [at |-> run.at, start |-> run.start, findings |-> run.findings,
             due |-> run.due, saved |-> run.saved, active |-> run.active,
             opened |-> run.opened, culprit |-> run.culprit,
             succeeded |-> run.succeeded, unread |-> run.unread]
  BY Types DEF RunType

\* What a run becomes when it goes to another stage.
LEMMA GoesTo ==
    ASSUME CoordinatorTypeOK, NEW stage \in Stages, NEW due \in Seq(Event),
           Goto(stage, due)
    PROVE  /\ run' \in RunType
           /\ run'.at = stage /\ run'.start = run.start /\ run'.saved = 0
           /\ run'.unread = run.unread
           /\ f2 => run'.due = due
           /\ ~f2 => run'.due = <<>>
           /\ stage \in {"researched", "synthesis", "synthesizing"} =>
                run'.findings = run.findings
  <1> DEFINE d == IF f2 THEN due ELSE <<>>
             g == IF stage \in {"researched", "synthesis", "synthesizing"}
                  THEN run.findings ELSE NoFindings
  <1>1. run' = [run EXCEPT !.at = stage, !.due = d, !.saved = 0, !.findings = g]
    BY RunIs DEF Goto
  <1>2. d \in Seq(Event) /\ g \in Findings
    BY RunTyped, IdleTyped
  <1>3. run \in RunType
    BY Types
  <1> HIDE DEF d, g
  <1>4. /\ run' \in RunType
        /\ run'.at = stage /\ run'.start = run.start /\ run'.saved = 0
        /\ run'.due = d /\ run'.findings = g /\ run'.unread = run.unread
    BY <1>1, <1>2, <1>3 DEF RunType
  <1> QED
    BY <1>4 DEF d, g

\* What the except clause makes of it.
LEMMA Excepts ==
    ASSUME CoordinatorTypeOK
    PROVE  /\ Raised(run) \in RunType
           /\ Raised(run).at = "ending" /\ Raised(run).start = "fresh"
           /\ Raised(run).due \in Seq(Failures)
  <1>1. Closing(run) \in Seq(Failures)
    <2>1. run.active \in PhaseNames \cup {"none"}
      BY Types DEF RunType
    <2> DEFINE a == IF run.active = "none" THEN <<>> ELSE <<<<run.active, "failed">>>>
               b == IF run.at \in {"finishing", "refused"} /\ run.due = <<>> THEN <<>>
                    ELSE <<<<"task", "failed">>>>
    <2>2. a \in Seq(Failures) /\ b \in Seq(Failures)
      BY <2>1 DEF Failures
    <2>3. Closing(run) = IF ~run.opened THEN <<>> ELSE a \o b
      BY DEF Closing
    <2> HIDE DEF a, b
    <2> QED
      BY <2>2, <2>3
  <1>2. Seq(Failures) \subseteq Seq(Event)
    BY DEF Failures, Event
  <1>3. "ending" \in Stages
    BY DEF Stages
  <1> HIDE DEF Closing
  <1> QED
    BY <1>1, <1>2, <1>3, IdleTyped DEF Raised, Idle, RunType

\* What is read of answers that allow no run to go on allows none either, as long
\* as a critical one can be read.
LEMMA PartsFail ==
    ASSUME Ghosts, CoordinatorTypeOK, NEW n \in Nat, NEW unread,
           NEW r, r = Read(n, unread, past.verdict), Present(r),
           ~AllFailed(r), ~Critical(r)
    PROVE  /\ ~AllFailed(past.verdict)
           /\ \A i \in Files : past.verdict[i] \in Criticals => i \in unread
  <1>1. ~AllFailed(past.verdict)
    BY DEF AllFailed, Present, Read
  <1>2. ASSUME NEW k \in Files, past.verdict[k] \in Criticals, k \notin unread
        PROVE  FALSE
    <2>1. ~(k <= n)
      BY <1>2 DEF Critical, Read
    <2>2. past.verdict \in Answers
      BY <1>2 DEF Ghosts, NoFindings, Criticals
    <2>3. /\ k \in 1 .. Workers
          /\ \A i \in (1 .. Workers) \ {k} : past.verdict[i] \in {"none", "error"}
      BY <1>2, <2>2 DEF Answers, Criticals
    <2>4. \A i \in Files : i <= n => i \in (1 .. Workers) \ {k}
      BY <2>1, <2>3, FilesAreNumbers, CoordinatorAssumption DEF Files
    <2>5. \A i \in Files : r[i] \in {"none", "error", "fatal"}
      BY <2>3, <2>4 DEF Read
    <2> QED
      BY <2>5 DEF AllFailed
  <1> QED
    BY <1>1, <1>2

LEMMA AnswersArePresent ==
    ASSUME NEW r \in Answers
    PROVE  Present(r)
  <1>1. 1 \in 1 .. Workers /\ 1 .. Workers \subseteq Files
    BY CoordinatorAssumption DEF Files
  <1>2. CASE \A i \in 1 .. Workers : r[i] \in {"ok", "error"}
    BY <1>1, <1>2 DEF Present
  <1>3. CASE \E k \in 1 .. Workers : r[k] \in Criticals
    BY <1>1, <1>3 DEF Present, Criticals
  <1> QED
    BY <1>2, <1>3 DEF Answers

\* The recovery plan and the phases it names.
LEMMA Plans ==
    ASSUME CoordinatorTypeOK, NEW p \in PhaseNames, Planned(p)
    PROVE  /\ p = "research" => Retryable(ledger["research"])
           /\ p # "research" => Complete(ledger["research"])
  <1>1. ledger["research"] \in Checkpoint /\ ledger[p] \in Checkpoint
    BY Types DEF PhaseNames
  <1>2. p # "research" => Rank["research"] < Rank[p]
    BY DEF Rank, PhaseNames, Starts
  <1>3. p # "research" => Classified("research") = "complete"
    BY <1>2 DEF Planned, PhaseNames
  <1>4. p = "research" => Classified("research") \notin {"blocked", "complete"}
    BY DEF Planned, PhaseNames
  <1> QED
    BY <1>1, <1>3, <1>4 DEF Classified, Complete, Retryable, Checkpoint

LEMMA SeqFacts ==
    ASSUME NEW S
    PROVE  /\ <<>> \in Seq(S)
           /\ \A s \in Seq(S) : s # <<>> => Head(s) \in S /\ Tail(s) \in Seq(S)
  OBVIOUS

LEMMA SeqGrows ==
    ASSUME NEW S, NEW T, S \subseteq T
    PROVE  Seq(S) \subseteq Seq(T)
  OBVIOUS

LEMMA EventsOf ==
    /\ Events["off"] = {} /\ Events["saving"] = {} /\ Events["synthesis"] = {}
    /\ Events["dispatching"] = {} /\ Events["implementing"] = {}
    /\ Events["research"] = {<<"task", "started">>}
    /\ Events["researching"] = {<<"research", "started">>}
    /\ Events["researched"] = {<<"research", "succeeded">>}
    /\ Events["synthesizing"] = {<<"synthesis", "started">>}
    /\ Events["healing"] = {<<"synthesis", "started">>}
    /\ Events["synthesized"] = {<<"synthesis", "succeeded">>}
    /\ Events["marking"] = {<<"implementation", "started">>}
    /\ Events["implemented"] = {<<"implementation", "succeeded">>}
    /\ Events["verifying"] = {<<"verification", "started">>}
    /\ Events["closing"] = Failures \cup {<<"synthesis", "succeeded">>}
    /\ Events["refused"] = Failures
    /\ Events["ending"] = Failures
    /\ Events["finishing"] = {<<"verification", "succeeded">>, <<"task", "succeeded">>}
  BY DEF Events, Stages

\* In these stages nothing depends on what the run has read.
Quiet == {"off", "healing", "closing", "refused", "finishing", "ending"}

LEMMA QuietStep ==
    ASSUME Rest, UNCHANGED <<f2, scratch, ledger, past>>,
           run'.at \in Quiet, run.at = "off" => run'.at = "off", Pending'
    PROVE  Rest'
  <1>1. Untouched'
    BY DEF Rest, Untouched
  <1>2. Ghosts'
    BY DEF Rest, Ghosts, Quiet, BeforeImplementation
  <1>3. Answered'
    BY DEF Rest, Answered, Astray, Quiet, Later
  <1>4. Vouched'
    BY DEF Rest, Vouched, Quiet
  <1>5. Recorded'
    BY DEF Rest, Recorded, Quiet, Later
  <1>6. Once'
    BY DEF Rest, Once, Unguarded, Quiet, BeforeImplementation
  <1> QED
    BY <1>1, <1>2, <1>3, <1>4, <1>5, <1>6 DEF Rest

\* A run that closes has failures to record.
LEMMA ClosingStep ==
    ASSUME IInv, UNCHANGED <<f2, scratch, ledger, past>>, run.at # "off",
           NEW stage \in {"closing", "refused"}, NEW due \in Seq(Failures),
           Goto(stage, due)
    PROVE  run' \in RunType /\ Rest'
  <1>1. due \in Seq(Event) /\ stage \in Stages
    BY DEF Failures, Event, Stages
  <1>2. /\ run' \in RunType /\ run'.at = stage
        /\ run'.due = due \/ run'.due = <<>>
    BY <1>1, GoesTo DEF IInv
  <1>3. Pending'
    <2>1. run'.due \in Seq(Failures)
      BY <1>2, SeqFacts
    <2>2. Failures \subseteq Events[stage]
      BY EventsOf
    <2>3. run'.due \in Seq(Events[stage])
      BY <2>1, <2>2
    <2> QED
      BY <1>2, <2>1, <2>3 DEF Pending
  <1> QED
    BY <1>2, <1>3, QuietStep DEF IInv, Quiet

LEMMA Failing ==
    ASSUME NEW phase \in PhaseNames
    PROVE  /\ <<<<phase, "failed">>, <<"task", "failed">>>> \in Seq(Failures)
           /\ <<<<phase, "blocked">>, <<"task", "failed">>>> \in Seq(Failures)
  <1>1. /\ <<phase, "failed">> \in Failures /\ <<phase, "blocked">> \in Failures
        /\ <<"task", "failed">> \in Failures
    BY DEF Failures
  <1> QED
    BY <1>1

LEMMA RaisedStep ==
    ASSUME IInv, UNCHANGED <<f2, scratch, ledger, past>>, run.at # "off",
           run' = Raised(run)
    PROVE  run' \in RunType /\ Rest'
  <1>1. run' \in RunType /\ run'.at = "ending" /\ run'.due \in Seq(Failures)
    BY Excepts DEF IInv
  <1>2. Pending'
    BY <1>1, EventsOf DEF Pending
  <1> QED
    BY <1>1, <1>2, QuietStep DEF IInv, Quiet

-----------------------------------------------------------------------------
(* Steps of a run. *)

\* Checkpoints: a write, with or without its checkpoint.
LEMMA NoWriteKeeps ==
    ASSUME IInv, run.due # <<>>, UNCHANGED <<f2, scratch, ledger, past>>,
           run' = IF run.at = "ending" THEN [run EXCEPT !.due = Tail(@)] ELSE Raised(run)
    PROVE  run' \in RunType /\ Rest'
  <1>1. run.at # "off"
    BY EventsOf DEF IInv, Rest, Pending
  <1>2. CASE run.at # "ending"
    BY <1>1, <1>2, RaisedStep
  <1>3. CASE run.at = "ending"
    <2>1. run'.at = "ending" /\ run'.due = Tail(run.due)
      BY <1>3, Types DEF IInv, RunType
    <2>2. run.due \in Seq(Failures)
      BY <1>3, EventsOf DEF IInv, Rest, Pending
    <2>3. run'.due \in Seq(Failures)
      BY <2>1, <2>2, SeqFacts
    <2>4. Pending'
      BY <2>1, <2>3, EventsOf DEF Pending
    <2>5. run.due \in Seq(Event) /\ Tail(run.due) \in Seq(Event)
      BY RunTyped DEF IInv
    <2>6. run' \in RunType
      BY <1>3, <2>5, Types DEF IInv, RunType
    <2> QED
      BY <1>1, <2>1, <2>4, <2>6, QuietStep DEF IInv, Quiet
  <1> QED
    BY <1>2, <1>3

LEMMA TornKeeps ==
    ASSUME IInv, run.due # <<>>, UNCHANGED <<f2, scratch, past>>,
           NEW phase \in PhaseNames,
           ledger' = Written(phase, [ledger[phase] EXCEPT !.torn = TRUE]),
           run' = IF run.at = "ending" THEN [run EXCEPT !.due = Tail(@)] ELSE Raised(run)
    PROVE  Rest'
  <1>1. /\ run.at # "off"
        /\ run'.at = "ending" /\ run'.due \in Seq(Failures)
    <2>1. run.at # "off"
      BY EventsOf DEF IInv, Rest, Pending
    <2>2. CASE run.at = "ending"
      <3>1. run.due \in Seq(Failures)
        BY <2>2, EventsOf DEF IInv, Rest, Pending
      <3>2. run'.at = "ending" /\ run'.due = Tail(run.due)
        BY <2>2, Types DEF IInv, RunType
      <3> QED
        BY <2>1, <3>1, <3>2, SeqFacts
    <2>3. CASE run.at # "ending"
      BY <2>1, <2>3, Excepts DEF IInv
    <2> QED
      BY <2>2, <2>3
  <1>2. \A p \in PhaseNames : /\ ledger'[p].status = ledger[p].status
                              /\ Retryable(ledger'[p]) => Retryable(ledger[p])
    <2>1. \A p \in PhaseNames : ledger[p] \in Checkpoint
      BY Types DEF IInv
    <2> QED
      BY <2>1 DEF Written, Retryable, Checkpoint
  <1>3. Pending'
    BY <1>1, EventsOf DEF Pending
  <1>4. Untouched'
    BY <1>1 DEF IInv, Rest, Untouched
  <1>5. Ghosts'
    BY <1>1 DEF IInv, Rest, Ghosts, BeforeImplementation
  <1>6. Answered'
    BY <1>1 DEF IInv, Rest, Answered, Astray, Later
  <1>7. Vouched'
    BY <1>1, <1>2 DEF IInv, Rest, Vouched, PhaseNames
  <1>8. Recorded'
    BY <1>1 DEF IInv, Rest, Recorded, Later
  <1>9. Once'
    BY <1>1, <1>2 DEF IInv, Rest, Once, Unguarded, BeforeImplementation, PhaseNames
  <1> QED
    BY <1>3, <1>4, <1>5, <1>6, <1>7, <1>8, <1>9 DEF Rest

LEMMA RecordKeeps ==
    ASSUME IInv, run.due # <<>>, UNCHANGED <<f2, scratch, past>>,
           NEW phase, NEW status, Head(run.due) = <<phase, status>>,
           ledger' = Written(phase, [status |-> status, torn |-> FALSE]),
           run' = Noted(run, phase, status)
    PROVE  run' \in RunType /\ Rest'
  <1>1. /\ run.at \in Stages
        /\ <<phase, status>> \in Events[run.at] /\ Tail(run.due) \in Seq(Events[run.at])
        /\ run.at # "off"
    <2>1. run.due \in Seq(Events[run.at])
      BY DEF IInv, Rest, Pending
    <2>2. Head(run.due) \in Events[run.at] /\ Tail(run.due) \in Seq(Events[run.at])
      BY <2>1, SeqFacts
    <2> QED
      BY <2>2, EventsOf, RunTyped DEF IInv
  <1>2. <<phase, status>> \in Event /\ Tail(run.due) \in Seq(Event)
    BY <1>1, EventsAreEvents, RunTyped, SeqFacts DEF IInv
  <1>3. /\ run' \in RunType
        /\ run'.at = run.at /\ run'.start = run.start
        /\ run'.findings = run.findings /\ run'.saved = run.saved
        /\ run'.due = Tail(run.due) /\ run'.culprit = run.culprit
        /\ run'.unread = run.unread
    <2> DEFINE o == run.opened \/ phase = "task"
               a == IF \/ phase = "task"
                       \/ run.at \in {"healing", "closing", "refused", "ending"}
                    THEN run.active
                    ELSE IF status = "started" THEN phase
                    ELSE IF status = "succeeded" /\ run.active = phase THEN "none"
                    ELSE run.active
    <2>1. run' = [run EXCEPT !.due = Tail(run.due), !.opened = o, !.active = a]
      BY RunIs DEF Noted, IInv
    <2>2. phase = "task" \/ phase \in PhaseNames
      BY <1>2 DEF Event
    <2>3. a \in PhaseNames \cup {"none"}
      BY <2>2, RunTyped DEF IInv
    <2>4. o \in BOOLEAN
      BY RunTyped DEF IInv
    <2>5. run \in RunType
      BY Types DEF IInv
    <2> HIDE DEF o, a
    <2> QED
      BY <1>2, <2>1, <2>3, <2>4, <2>5 DEF RunType
  <1>4. \A p \in PhaseNames :
          ledger'[p] = IF p = phase THEN [status |-> status, torn |-> FALSE]
                                    ELSE ledger[p]
    BY DEF Written
  \* Which event each stage has.
  <1>5. /\ phase = "research" =>
             \/ run.at = "researching" /\ status = "started"
             \/ run.at = "researched" /\ status = "succeeded"
             \/ run.at \in Quiet /\ status \in {"failed", "blocked"}
        /\ phase = "implementation" =>
             \/ run.at = "marking" /\ status = "started"
             \/ run.at = "implemented" /\ status = "succeeded"
             \/ run.at \in Quiet /\ status \in {"failed", "blocked"}
        /\ phase = "synthesis" /\ status = "succeeded" =>
             run.at \in {"synthesized", "closing"}
        /\ run.at = "researching" => phase = "research" /\ status = "started"
        /\ run.at = "researched" => phase = "research" /\ status = "succeeded"
        /\ run.at = "marking" => phase = "implementation" /\ status = "started"
        /\ run.at = "research" => phase = "task"
        /\ run.at \notin {"saving"}
    BY <1>1, EventsOf DEF Stages, Failures, PhaseNames, Quiet
  <1>6. phase = "synthesis" /\ status = "succeeded" => scratch.synthesis # "none"
    <2>1. CASE run.at = "closing" /\ run.due \in Seq(Failures)
      <3>1. Head(run.due) \in Failures
        BY <2>1, SeqFacts
      <3> QED
        BY <3>1 DEF Failures
    <2> QED
      BY <1>5, <2>1 DEF IInv, Rest, Pending
  <1>7. Pending'
    <2>1. run.at = "closing" /\ run.due \in Seq(Failures) => Tail(run.due) \in Seq(Failures)
      BY SeqFacts
    <2> QED
      BY <1>1, <1>3, <2>1 DEF IInv, Rest, Pending, Astray
  <1>8. Untouched'
    BY <1>1 DEF IInv, Rest, Untouched
  <1>9. Ghosts'
    BY <1>3 DEF IInv, Rest, Ghosts
  <1>10. Answered'
    BY <1>3, <1>4, <1>5 DEF IInv, Rest, Answered, Astray, PhaseNames
  <1>11. Vouched'
    BY <1>3, <1>4, <1>5, <1>6 DEF IInv, Rest, Pending, Astray, Vouched,
       PhaseNames, Quiet
  <1>12. Recorded'
    <2>1. run.at = "research" => ledger'["research"] = ledger["research"]
      BY <1>4, <1>5 DEF PhaseNames
    <2>2. run.at = "researching" => Retryable(ledger'["research"])
      BY <1>4, <1>5 DEF PhaseNames, Retryable
    <2>3. run.at = "researched" => Complete(ledger'["research"])
      BY <1>4, <1>5 DEF PhaseNames, Complete
    <2>4. run.at \in Later => ledger'["research"] = ledger["research"]
      BY <1>4, <1>5 DEF PhaseNames, Later, Quiet
    <2> QED
      BY <1>3, <1>5, <2>1, <2>2, <2>3, <2>4 DEF IInv, Rest, Recorded
  <1>13. Once'
    <2>1. Retryable(ledger'["research"]) =>
            Retryable(ledger["research"]) \/ (run.at = "researching" /\ f2)
      BY <1>4, <1>5 DEF PhaseNames, Retryable, IInv, Rest, Pending
    <2>2. Retryable(ledger'["research"]) /\ ~past.missed => Retryable(ledger["research"])
      BY <2>1 DEF IInv, Rest, Recorded
    <2>3. ledger'["implementation"].status = "succeeded" =>
            \/ ledger["implementation"].status = "succeeded"
            \/ run.at = "implemented" /\ scratch.marker
      BY <1>4, <1>5 DEF PhaseNames, IInv, Rest, Vouched
    <2>4. run.at = "implemented" /\ ~past.unlogged /\ ~past.missed =>
            ~Retryable(ledger["research"])
      <3>1. ledger["research"] \in Checkpoint
        BY Types DEF IInv, PhaseNames
      <3> QED
        BY <3>1 DEF IInv, Rest, Ghosts, Recorded, Later, Complete, Retryable
    <2>5. run.at = "marking" => ledger'["implementation"].status # "succeeded"
      BY <1>4, <1>5 DEF PhaseNames
    <2>6. ledger'["implementation"].status = "succeeded" /\ run.at \in BeforeImplementation
            => ledger["implementation"].status = "succeeded"
      BY <2>3 DEF BeforeImplementation
    <2> QED
      BY <1>1, <1>3, <2>2, <2>3, <2>4, <2>5, <2>6 DEF IInv, Rest, Once, Unguarded
  <1> QED
    BY <1>3, <1>7, <1>8, <1>9, <1>10, <1>11, <1>12, <1>13 DEF Rest

LEMMA RecordsKeeps ==
    ASSUME IInv, Records
    PROVE  CoordinatorTypeOK' /\ Rest'
  <1> DEFINE e == Head(run.due)
             failed == IF run.at = "ending" THEN [run EXCEPT !.due = Tail(@)]
                       ELSE Raised(run)
             recorded == [status |-> e[2], torn |-> FALSE]
  <1>1. /\ run.due # <<>>
        /\ UNCHANGED <<coding, f2, scratch, redrive, past>>
        /\ \/ ledger' = Written(e[1], recorded) /\ run' = Noted(run, e[1], e[2])
           \/ /\ e[1] \in PhaseNames
              /\ ledger' = Written(e[1], [ledger[e[1]] EXCEPT !.torn = TRUE])
              /\ run' = failed
           \/ UNCHANGED ledger /\ run' = failed
    BY DEF Records
  <1>2. e \in Event
    BY <1>1, RunTyped, SeqFacts DEF IInv
  <1>3. e = <<e[1], e[2]>> /\ e[2] \in {"started", "succeeded", "failed", "blocked"}
    BY <1>2 DEF Event
  <1>4. ledger \in [PhaseNames -> Checkpoint]
    BY Types DEF IInv
  <1>5. ledger' \in [PhaseNames -> Checkpoint]
    <2>1. recorded \in Checkpoint
      BY <1>3 DEF Checkpoint
    <2>2. e[1] \in PhaseNames => [ledger[e[1]] EXCEPT !.torn = TRUE] \in Checkpoint
      BY <1>4 DEF Checkpoint
    <2> HIDE DEF recorded, e, failed
    <2> QED
      BY <1>1, <1>4, <2>1, <2>2 DEF Written
  <1>6. run' \in RunType /\ Rest'
    <2>1. CASE ledger' = Written(e[1], recorded) /\ run' = Noted(run, e[1], e[2])
      <3> HIDE DEF e
      <3>1. Head(run.due) = <<e[1], e[2]>>
        BY <1>3 DEF e
      <3> QED
        BY <1>1, <2>1, <3>1, RecordKeeps
    <2>2. CASE /\ e[1] \in PhaseNames
               /\ ledger' = Written(e[1], [ledger[e[1]] EXCEPT !.torn = TRUE])
               /\ run' = failed
      <3>1. Rest'
        BY <1>1, <2>2, TornKeeps
      <3>2. run' \in RunType
        <4>1. Raised(run) \in RunType /\ run \in RunType
          BY Excepts, Types DEF IInv
        <4>2. Tail(run.due) \in Seq(Event)
          BY <1>1, RunTyped, SeqFacts DEF IInv
        <4> QED
          BY <2>2, <4>1, <4>2 DEF RunType
      <3> QED
        BY <3>1, <3>2
    <2>3. CASE UNCHANGED ledger /\ run' = failed
      BY <1>1, <2>3, NoWriteKeeps
    <2> QED
      BY <1>1, <2>1, <2>2, <2>3
  <1>7. CoordinatorTypeOK'
    BY <1>1, <1>5, <1>6, Types DEF CoordinatorTypeOK, RunType, PastType, Event, IInv
  <1> QED
    BY <1>6, <1>7

\* Research.
LEMMA LoadsResearchKeeps ==
    ASSUME IInv, LoadsResearch
    PROVE  run' \in RunType /\ Rest'
  <1>1. PICK r \in Loads(scratch.research) :
          /\ Present(r)
          /\ run' = [run EXCEPT
                       !.findings = r,
                       !.unread = {i \in Files : r[i] # scratch.research[i]},
                       !.at = IF AllFailed(r) THEN "closing" ELSE "researched",
                       !.due = IF AllFailed(r) /\ f2
                               THEN <<<<"research", "failed">>, <<"task", "failed">>>>
                               ELSE <<>>]
    BY DEF LoadsResearch
  <1> DEFINE d == IF AllFailed(r) /\ f2
                  THEN <<<<"research", "failed">>, <<"task", "failed">>>> ELSE <<>>
             u == {i \in Files : r[i] # scratch.research[i]}
             a == IF AllFailed(r) THEN "closing" ELSE "researched"
  <1>2. /\ run.at = "research" /\ UNCHANGED <<f2, scratch, ledger, past>>
        /\ Rank[run.start] > Rank["research"]
        /\ r \in Findings /\ \A i \in Files : r[i] \in {scratch.research[i], "none"}
    BY DEF LoadsResearch, At, Resumable, Keeping, Loads
  <1>3. Loadable(run.start, scratch.research)
    BY <1>1, <1>2 DEF Loadable, Present
  <1>4. d \in Seq(Failures)
    BY Failing, SeqFacts DEF PhaseNames
  <1>5. d \in Seq(Event) /\ run \in RunType /\ u \in SUBSET Files
    BY <1>4, Types DEF Failures, Event, IInv
  <1>6. /\ run' \in RunType /\ run'.at = a
        /\ run'.start = run.start /\ run'.findings = r /\ run'.due = d
        /\ run'.unread = u
    <2>1. run' = [run EXCEPT !.findings = r, !.unread = u, !.at = a, !.due = d]
      BY <1>1
    <2>2. a \in Stages
      BY DEF Stages
    <2> HIDE DEF d, u, a
    <2> QED
      BY <1>2, <1>5, <2>1, <2>2 DEF RunType
  <1>7. CASE AllFailed(r)
    <2>1. Pending'
      <3>1. Failures \subseteq Events["closing"]
        BY EventsOf
      <3>2. d \in Seq(Events["closing"])
        BY <1>4, <3>1, SeqGrows
      <3> QED
        BY <1>4, <1>6, <1>7, <3>2 DEF Pending
    <2> QED
      BY <1>2, <1>6, <1>7, <2>1, QuietStep DEF IInv, Quiet
  <1>8. CASE ~AllFailed(r)
    <2>1. run'.at = "researched" /\ run'.due = <<>>
      BY <1>6, <1>8
    <2> HIDE DEF d, a
    <2>2. Pending'
      BY <2>1, SeqFacts DEF Pending
    <2>3. Untouched'
      BY <1>2 DEF IInv, Rest, Untouched
    <2>4. Ghosts'
      BY <1>2, <1>6, <2>1 DEF IInv, Rest, Ghosts, BeforeImplementation
    <2>5. f2 /\ ~past.missed => Complete(ledger["research"])
      BY <1>2, <1>3 DEF IInv, Rest, Recorded
    <2>6. Answered'
      <3>1. f2 /\ ~Astray => scratch.research = past.verdict
        BY <1>2, <2>5 DEF IInv, Rest, Ghosts, Vouched, Complete, Astray
      <3>2. ~Astray => \E n \in Nat : r = Read(n, u, past.verdict)
        <4>1. SUFFICES ASSUME ~Astray
                       PROVE  \E n \in Nat : r = Read(n, u, past.verdict)
          OBVIOUS
        <4>2. PICK n \in Nat : scratch.research = First(n, past.verdict)
          BY <4>1 DEF IInv, Rest, Answered, Part
        <4>3. \A i \in Files : r[i] = IF i <= n /\ i \notin u THEN past.verdict[i]
                                                         ELSE "none"
          BY <1>2, <4>2 DEF First
        <4>4. r = [i \in Files |-> r[i]]
          BY <1>2 DEF Findings
        <4>5. r = Read(n, u, past.verdict)
          BY <4>3, <4>4, Zenon DEF Read
        <4> QED
          BY <4>5
      <3>3. \A i \in Files \ u : r[i] = scratch.research[i]
        OBVIOUS
      <3> HIDE DEF u
      <3> QED
        BY <1>1, <1>2, <1>6, <1>8, <2>1, <3>1, <3>2, <3>3
           DEF IInv, Rest, Answered, Astray, Later
    <2>7. Vouched'
      BY <1>2, <2>1 DEF IInv, Rest, Vouched
    <2>8. Recorded'
      BY <1>2, <2>1, <2>5 DEF Recorded, Later
    <2>9. Once'
      BY <1>2, <1>6, <2>1 DEF IInv, Rest, Once, Unguarded, BeforeImplementation
    <2> QED
      BY <1>6, <2>2, <2>3, <2>4, <2>6, <2>7, <2>8, <2>9 DEF Rest
  <1> QED
    BY <1>7, <1>8

LEMMA BeginsResearchKeeps ==
    ASSUME IInv, BeginsResearch
    PROVE  CoordinatorTypeOK' /\ Rest'
  <1> DEFINE missed == past.missed \/ Present(scratch.research)
  <1>1. /\ run.at = "research"
        /\ UNCHANGED <<coding, f2, scratch, ledger, redrive>>
    BY DEF BeginsResearch, At
  <1>2. <<<<"research", "started">>>> \in Seq(Event) /\ "researching" \in Stages
    BY DEF Event, PhaseNames, Stages
  <1>3. /\ run' \in RunType /\ run'.at = "researching" /\ run'.start = run.start
        /\ run'.due = (IF f2 THEN <<<<"research", "started">>>> ELSE <<>>)
        /\ run'.unread = run.unread
    BY <1>2, GoesTo DEF BeginsResearch, IInv
  <1>4. /\ past' \in PastType /\ past'.missed = missed
        /\ past'.runs = past.runs /\ past'.dispatches = past.dispatches
        /\ past'.verdict = past.verdict /\ past'.pruned = past.pruned
        /\ past'.blind = past.blind /\ past'.unlogged = past.unlogged
    <2>1. past \in PastType
      BY Types DEF IInv
    <2>2. missed \in BOOLEAN
      BY <2>1 DEF PastType, Present
    <2>3. past' = [past EXCEPT !.missed = missed]
      BY <2>1 DEF BeginsResearch, PastType
    <2> HIDE DEF missed
    <2> QED
      BY <2>1, <2>2, <2>3 DEF PastType
  <1>5. Pending'
    BY <1>1, <1>3, EventsOf DEF Pending
  <1>6. Untouched'
    BY <1>1, <1>4 DEF IInv, Rest, Untouched
  <1>7. Ghosts'
    BY <1>1, <1>3, <1>4 DEF IInv, Rest, Ghosts, BeforeImplementation
  <1>8. Answered'
    BY <1>1, <1>3, <1>4 DEF IInv, Rest, Answered, Astray, Later
  <1>9. Vouched'
    BY <1>1, <1>3, <1>4 DEF IInv, Rest, Vouched
  <1>10. Recorded'
    BY <1>1, <1>3, <1>4 DEF IInv, Rest, Recorded, Loadable, Later
  <1>11. Once'
    BY <1>1, <1>3, <1>4 DEF IInv, Rest, Once, Unguarded, BeforeImplementation
  <1>12. CoordinatorTypeOK'
    BY <1>1, <1>3, <1>4, Types DEF IInv, CoordinatorTypeOK, RunType, PastType, Event
  <1> QED
    BY <1>5, <1>6, <1>7, <1>8, <1>9, <1>10, <1>11, <1>12 DEF Rest

LEMMA ResearchesKeeps ==
    ASSUME IInv, Researches
    PROVE  CoordinatorTypeOK' /\ Rest'
  <1>1. PICK r \in Answers :
          /\ run' = [run EXCEPT !.at = "saving", !.findings = r, !.saved = 0]
          /\ past' = [past EXCEPT !.verdict = r]
    BY DEF Researches
  <1>2. /\ run.at = "researching" /\ run.due = <<>>
        /\ UNCHANGED <<coding, f2, scratch, ledger, redrive>>
    BY DEF Researches, At
  <1>3. r \in Findings /\ Present(r)
    BY AnswersArePresent DEF Answers
  <1>4. /\ run' \in RunType /\ run'.at = "saving" /\ run'.start = run.start
        /\ run'.findings = r /\ run'.saved = 0 /\ run'.due = <<>>
        /\ run'.unread = run.unread
    <2>1. run \in RunType /\ "saving" \in Stages
      BY Types DEF IInv, Stages
    <2> QED
      BY <1>1, <1>2, <1>3, <2>1 DEF RunType
  <1>5. /\ past' \in PastType /\ past'.verdict = r
        /\ past'.runs = past.runs /\ past'.dispatches = past.dispatches
        /\ past'.pruned = past.pruned /\ past'.blind = past.blind
        /\ past'.unlogged = past.unlogged /\ past'.missed = past.missed
    <2>1. past \in PastType
      BY Types DEF IInv
    <2> QED
      BY <1>1, <1>3, <2>1 DEF PastType
  <1>6. Astray \/ ledger["research"].status # "succeeded"
    BY <1>2 DEF IInv, Rest, Ghosts, Answered, Astray, Vouched
  <1>7. Pending'
    BY <1>4, SeqFacts DEF Pending
  <1>8. Untouched'
    BY <1>2, <1>5 DEF IInv, Rest, Untouched
  <1>9. Ghosts'
    BY <1>2, <1>4, <1>5 DEF IInv, Rest, Ghosts, BeforeImplementation
  <1>10. Answered'
    <2>1. Astray \/ scratch.research = First(0, r)
      <3>1. Astray \/ ~Present(scratch.research)
        BY <1>2 DEF IInv, Rest, Answered
      <3>2. scratch.research \in Findings
        BY Types DEF IInv, Scratch
      <3>3. ~Present(scratch.research) => scratch.research = NoFindings
        BY <3>2 DEF Present, Findings, NoFindings
      <3>4. NoFindings = First(0, r)
        BY FilesAreNumbers DEF NoFindings, First, Files
      <3> QED
        BY <3>1, <3>3, <3>4
    <2>2. Astray \/ Part(scratch.research, r)
      BY <2>1 DEF Part
    <2> QED
      BY <1>2, <1>3, <1>4, <1>5, <1>6, <2>1, <2>2 DEF IInv, Rest, Answered, Astray, Later
  <1>11. Vouched'
    BY <1>2, <1>4, <1>5, <1>6 DEF IInv, Rest, Vouched, Astray
  <1>12. Recorded'
    BY <1>2, <1>4, <1>5 DEF IInv, Rest, Recorded, Later
  <1>13. Once'
    BY <1>2, <1>4, <1>5 DEF IInv, Rest, Once, Unguarded, BeforeImplementation
  <1>14. CoordinatorTypeOK'
    BY <1>2, <1>4, <1>5, Types DEF IInv, CoordinatorTypeOK, RunType, PastType, Event
  <1> QED
    BY <1>7, <1>8, <1>9, <1>10, <1>11, <1>12, <1>13, <1>14 DEF Rest

LEMMA SavesKeeps ==
    ASSUME IInv, Saves
    PROVE  CoordinatorTypeOK' /\ Rest'
  <1> DEFINE i == run.saved + 1
  <1>1. /\ run.at = "saving" /\ run.due = <<>> /\ i \in Files
        /\ UNCHANGED <<coding, f2, ledger, redrive, past>>
        /\ run' = [run EXCEPT !.saved = i]
        /\ scratch' = IF run.findings[i] = "none" THEN scratch
                      ELSE [scratch EXCEPT !.research[i] = run.findings[i]]
    BY DEF Saves, At
  <1>2. run.findings \in Findings /\ scratch \in Scratch /\ run \in RunType
        /\ run.saved \in Nat
    BY Types, RunTyped DEF IInv
  <1>3. /\ run' \in RunType /\ run'.at = "saving" /\ run'.start = run.start
        /\ run'.findings = run.findings /\ run'.saved = i /\ run'.due = <<>>
        /\ run'.unread = run.unread
    BY <1>1, <1>2 DEF RunType
  <1>4. /\ scratch' \in Scratch /\ scratch'.synthesis = scratch.synthesis
        /\ scratch'.implementation = scratch.implementation
        /\ scratch'.marker = scratch.marker
        /\ scratch'.research = [k \in Files |-> IF k = i /\ run.findings[i] # "none"
                                                THEN run.findings[i]
                                                ELSE scratch.research[k]]
    <2>1. scratch.research \in Findings /\ run.findings[i] \in Qualities
      BY <1>1, <1>2 DEF Scratch, Findings
    <2> HIDE DEF i
    <2> QED
      BY <1>1, <1>2, <2>1 DEF Scratch, Findings
  <1>5. Pending'
    BY <1>3, SeqFacts DEF Pending
  <1>6. Untouched'
    BY <1>1 DEF IInv, Rest, Untouched
  <1>7. Ghosts'
    BY <1>1, <1>3 DEF IInv, Rest, Ghosts, BeforeImplementation
  <1>8. Answered'
    <2>1. Astray \/ scratch'.research = First(i, past.verdict)
      <3>1. Astray \/ (/\ run.findings = past.verdict
                       /\ scratch.research = First(run.saved, past.verdict))
        BY <1>1 DEF IInv, Rest, Answered
      <3>2. \A k \in Files : k <= i <=> k <= run.saved \/ k = i
        BY <1>1, <1>2, FilesAreNumbers
      <3>3. ~(i <= run.saved)
        BY <1>2
      <3> HIDE DEF i
      <3> QED
        BY <1>1, <1>4, <3>1, <3>2, <3>3 DEF First
    <2>2. i \in Nat
      BY <1>2
    <2> HIDE DEF i
    <2>3. Astray \/ Part(scratch'.research, past.verdict)
      BY <2>1, <2>2 DEF Part
    <2> QED
      BY <1>1, <1>3, <2>1, <2>3 DEF IInv, Rest, Answered, Astray, Later
  <1>9. Vouched'
    <2>1. Astray \/ ledger["research"].status # "succeeded"
      BY <1>1 DEF IInv, Rest, Answered
    <2> QED
      BY <1>1, <1>3, <1>4, <2>1 DEF IInv, Rest, Vouched, Astray
  <1>10. Recorded'
    BY <1>1, <1>3 DEF IInv, Rest, Recorded, Later
  <1>11. Once'
    BY <1>1, <1>3, <1>4 DEF IInv, Rest, Once, Unguarded, BeforeImplementation
  <1>12. CoordinatorTypeOK'
    BY <1>1, <1>3, <1>4, Types DEF IInv, CoordinatorTypeOK, RunType, PastType, Event
  <1> QED
    BY <1>5, <1>6, <1>7, <1>8, <1>9, <1>10, <1>11, <1>12 DEF Rest

LEMMA EndsResearchKeeps ==
    ASSUME IInv, EndsResearch
    PROVE  run' \in RunType /\ Rest'
  <1>1. /\ run.at = "saving" /\ run.due = <<>> /\ Saved
        /\ UNCHANGED <<f2, scratch, ledger, past>>
    BY DEF EndsResearch, At, Keeping
  <1>2. CASE AllFailed(run.findings)
    <2>1. FailsAt("research")
      BY <1>2 DEF EndsResearch
    <2> QED
      BY <1>1, <2>1, Failing, ClosingStep DEF FailsAt, PhaseNames
  <1>3. CASE ~AllFailed(run.findings)
    <2>1. <<<<"research", "succeeded">>>> \in Seq(Event) /\ "researched" \in Stages
      BY DEF Event, PhaseNames, Stages
    <2>2. /\ run' \in RunType /\ run'.at = "researched" /\ run'.start = run.start
          /\ run'.due = IF f2 THEN <<<<"research", "succeeded">>>> ELSE <<>>
          /\ run'.findings = run.findings /\ run'.unread = run.unread
      BY <1>3, <2>1, GoesTo DEF EndsResearch, IInv
    <2>3. \A k \in Files : k <= run.saved
      <3>1. run.saved \in Nat
        BY RunTyped DEF IInv
      <3> QED
        BY <1>1, <3>1, CoordinatorAssumption DEF Saved, Files
    <2>4. First(run.saved, past.verdict) = past.verdict
      <3>1. past.verdict \in Findings
        BY Types DEF IInv, PastType
      <3> QED
        BY <2>3, <3>1 DEF First, Findings
    <2>5. \/ Astray
          \/ /\ run.findings = past.verdict /\ scratch.research = past.verdict
             /\ Present(past.verdict) /\ Part(past.verdict, past.verdict)
             /\ \E n \in Nat : past.verdict = Read(n, {}, past.verdict)
             /\ run.unread = {}
      <3>1. Read(run.saved, {}, past.verdict) = First(run.saved, past.verdict)
        BY DEF Read, First
      <3>2. run.saved \in Nat
        BY RunTyped DEF IInv
      <3> QED
        BY <1>1, <2>4, <3>1, <3>2 DEF IInv, Rest, Answered
    <2>6. Pending'
      BY <1>1, <2>2, <2>5, EventsOf DEF Pending, Astray
    <2>7. Untouched'
      BY <1>1 DEF IInv, Rest, Untouched
    <2>8. Ghosts'
      BY <1>1, <2>2 DEF IInv, Rest, Ghosts, BeforeImplementation
    <2>9. Answered'
      BY <1>1, <1>3, <2>2, <2>5 DEF Answered, Astray, Later
    <2>10. Vouched'
      BY <1>1, <2>2 DEF IInv, Rest, Vouched
    <2>11. Recorded'
      BY <1>1, <2>2 DEF Recorded, Later
    <2>12. Once'
      BY <1>1, <2>2 DEF IInv, Rest, Once, Unguarded, BeforeImplementation
    <2> QED
      BY <2>2, <2>6, <2>7, <2>8, <2>9, <2>10, <2>11, <2>12 DEF Rest
  <1> QED
    BY <1>2, <1>3

\* Synthesis.
LEMMA EntersSynthesisKeeps ==
    ASSUME IInv, EntersSynthesis
    PROVE  run' \in RunType /\ Rest'
  <1>1. /\ run.at = "researched" /\ run.due = <<>> /\ ~Critical(run.findings)
        /\ UNCHANGED <<f2, scratch, ledger, past>>
    BY DEF EntersSynthesis, At, Keeping
  <1>2. <<>> \in Seq(Event) /\ "synthesis" \in Stages
    BY SeqFacts DEF Stages
  <1>3. /\ run' \in RunType /\ run'.at = "synthesis" /\ run'.start = run.start
        /\ run'.due = <<>> /\ run'.findings = run.findings
        /\ run'.unread = run.unread
    BY <1>2, GoesTo DEF EntersSynthesis, IInv
  <1>4. Pending'
    BY <1>3, SeqFacts DEF Pending
  <1>5. Untouched'
    BY <1>1 DEF IInv, Rest, Untouched
  <1>6. Ghosts'
    BY <1>1, <1>3 DEF IInv, Rest, Ghosts, BeforeImplementation
  <1>7. Answered'
    <2>1. \/ Astray
          \/ /\ ~AllFailed(past.verdict)
             /\ \A i \in Files : past.verdict[i] \in Criticals => i \in run.unread
      <3>1. SUFFICES ASSUME ~Astray
                     PROVE  /\ ~AllFailed(past.verdict)
                            /\ \A i \in Files :
                                 past.verdict[i] \in Criticals => i \in run.unread
        OBVIOUS
      <3>2. PICK n \in Nat : run.findings = Read(n, run.unread, past.verdict)
        BY <1>1, <3>1 DEF IInv, Rest, Answered
      <3>3. Present(run.findings) /\ ~AllFailed(run.findings)
        BY <1>1, <3>1 DEF IInv, Rest, Answered
      <3> QED
        BY <1>1, <3>2, <3>3, PartsFail DEF IInv, Rest
    <2> QED
      BY <1>1, <1>3, <2>1 DEF IInv, Rest, Answered, Astray
  <1>8. Vouched'
    BY <1>1, <1>3 DEF IInv, Rest, Vouched
  <1>9. Recorded'
    BY <1>1, <1>3 DEF IInv, Rest, Recorded
  <1>10. Once'
    BY <1>1, <1>3 DEF IInv, Rest, Once, Unguarded, BeforeImplementation
  <1> QED
    BY <1>3, <1>4, <1>5, <1>6, <1>7, <1>8, <1>9, <1>10 DEF Rest

\* Stages that come after research, and are reached with nothing else changed.
LEMMA LaterStep ==
    ASSUME IInv, UNCHANGED <<f2, scratch, ledger, past>>, run.at \in Later,
           NEW stage \in Later, NEW due \in Seq(Event),
           due \in Seq(Events[stage]), Goto(stage, due),
           stage = "synthesized" => due = <<>>,
           stage = "implemented" => due = <<>> /\ scratch.marker,
           stage \in {"dispatching", "implementing"} => scratch.marker,
           stage \in {"synthesis", "synthesizing"} =>
             run.at \in {"synthesis", "synthesizing"},
           stage \in {"synthesis", "synthesizing", "synthesized"} =>
             run.at \in {"synthesis", "synthesizing", "synthesized"},
           stage \in {"marking", "dispatching"} =>
             \/ Unguarded
             \/ past.dispatches = 0 /\ ledger["implementation"].status # "succeeded"
    PROVE  run' \in RunType /\ Rest'
  <1>1. stage \in Stages
    BY DEF Later, Stages
  <1>2. /\ run' \in RunType /\ run'.at = stage /\ run'.start = run.start
        /\ run'.due = due \/ run'.due = <<>>
        /\ stage \in {"synthesis", "synthesizing"} => run'.findings = run.findings
        /\ run'.unread = run.unread
    BY <1>1, GoesTo DEF IInv
  <1>3. run'.at \notin {"off", "research", "researching", "saving", "researched",
                       "healing", "closing"}
    BY <1>2 DEF Later
  <1>4. Pending'
    <2>1. run'.due \in Seq(Events[stage])
      BY <1>2, SeqFacts
    <2> QED
      BY <1>2, <1>3, <2>1 DEF Pending
  <1>5. Untouched'
    BY DEF IInv, Rest, Untouched, Later
  <1>6. Ghosts'
    BY <1>2, <1>3 DEF IInv, Rest, Ghosts, Later, BeforeImplementation
  <1>7. Answered'
    BY <1>2, <1>3 DEF IInv, Rest, Answered, Astray
  <1>8. Vouched'
    BY <1>2 DEF IInv, Rest, Vouched
  <1>9. Recorded'
    BY <1>2, <1>3 DEF IInv, Rest, Recorded
  <1>10. Once'
    BY <1>2, <1>3 DEF IInv, Rest, Once, Unguarded, BeforeImplementation, Later
  <1> QED
    BY <1>2, <1>4, <1>5, <1>6, <1>7, <1>8, <1>9, <1>10 DEF Rest

LEMMA SynthesisKeeps ==
    ASSUME IInv, LoadsSynthesis \/ BeginsSynthesis
    PROVE  run' \in RunType /\ Rest'
  <1>1. /\ run.at = "synthesis" /\ run.at \in Later
        /\ UNCHANGED <<f2, scratch, ledger, past>>
    BY DEF LoadsSynthesis, BeginsSynthesis, At, Keeping, Later
  <1>2. CASE LoadsSynthesis
    <2>1. Goto("synthesized", <<>>) /\ "synthesized" \in Later
      BY <1>2 DEF LoadsSynthesis, Later
    <2> QED
      BY <1>1, <2>1, SeqFacts, LaterStep
  <1>3. CASE BeginsSynthesis
    <2>1. Goto("synthesizing", <<<<"synthesis", "started">>>>) /\ "synthesizing" \in Later
      BY <1>3 DEF BeginsSynthesis, Later
    <2>2. /\ <<<<"synthesis", "started">>>> \in Seq(Event)
          /\ <<<<"synthesis", "started">>>> \in Seq(Events["synthesizing"])
      BY EventsOf DEF Event, PhaseNames
    <2> QED
      BY <1>1, <2>1, <2>2, LaterStep
  <1> QED
    BY <1>2, <1>3

\* The two stages that write the text of a synthesis.
LEMMA TextKeeps ==
    ASSUME IInv, Synthesizes \/ Heals
    PROVE  CoordinatorTypeOK' /\ Rest'
  <1>1. PICK text \in {"empty", "text"} :
          scratch' = [scratch EXCEPT !.synthesis = text]
    BY DEF Synthesizes, Heals
  <1>2. UNCHANGED <<coding, f2, ledger, redrive, past>>
    BY DEF Synthesizes, Heals
  <1>3. /\ scratch' \in Scratch /\ scratch'.synthesis # "none"
        /\ scratch'.research = scratch.research
        /\ scratch'.implementation = scratch.implementation
        /\ scratch'.marker = scratch.marker
    BY <1>1, Types DEF IInv, Scratch
  <1>4. /\ run' \in RunType /\ run'.start = run.start /\ run'.unread = run.unread
        /\ \/ run.at = "synthesizing" /\ run'.at = "synthesized"
              /\ run'.due \in Seq({<<"synthesis", "succeeded">>})
           \/ run.at = "healing" /\ run'.at = "closing"
              /\ run'.due \in Seq(Failures \cup {<<"synthesis", "succeeded">>})
    <2>1. CASE Synthesizes
      <3>1. <<<<"synthesis", "succeeded">>>> \in Seq(Event) /\ "synthesized" \in Stages
        BY DEF Event, PhaseNames, Stages
      <3>2. run'.due = <<<<"synthesis", "succeeded">>>> \/ run'.due = <<>>
        BY <2>1, <3>1, GoesTo DEF Synthesizes, IInv
      <3>3. run'.due \in Seq({<<"synthesis", "succeeded">>})
        <4>1. /\ <<<<"synthesis", "succeeded">>>> \in Seq({<<"synthesis", "succeeded">>})
              /\ <<>> \in Seq({<<"synthesis", "succeeded">>})
          OBVIOUS
        <4> QED
          BY <3>2, <4>1
      <3>4. run.at = "synthesizing" /\ Goto("synthesized", <<<<"synthesis", "succeeded">>>>)
        BY <2>1 DEF Synthesizes, At
      <3> QED
        BY <3>1, <3>3, <3>4, GoesTo DEF IInv
    <2>2. CASE Heals
      <3> DEFINE d == <<<<"synthesis", "succeeded">>, <<run.culprit, "failed">>,
                        <<"task", "failed">>>>
      <3>1. Goto("closing", d) /\ run.at = "healing"
        BY <2>2 DEF Heals, At
      <3>2. run.culprit \in {"none", "research", "implementation"}
        BY RunTyped DEF IInv
      <3>3. run.culprit # "none"
        BY <3>1 DEF IInv, Rest, Pending
      <3>4. d \in Seq(Failures \cup {<<"synthesis", "succeeded">>}) /\ d \in Seq(Event)
        BY <3>2, <3>3 DEF Failures, Event, PhaseNames
      <3>5. "closing" \in Stages
        BY DEF Stages
      <3> HIDE DEF d
      <3>6. run' \in RunType /\ run'.start = run.start /\ run'.at = "closing"
            /\ run'.unread = run.unread /\ (run'.due = d \/ run'.due = <<>>)
        BY <3>1, <3>4, <3>5, GoesTo DEF IInv
      <3> QED
        BY <3>1, <3>4, <3>6, SeqFacts
    <2> QED
      BY <2>1, <2>2
  <1>5. Pending'
    BY <1>3, <1>4, EventsOf DEF Pending
  <1>6. Untouched'
    BY <1>2, <1>4 DEF IInv, Rest, Untouched
  <1>7. Ghosts'
    BY <1>2, <1>4 DEF IInv, Rest, Ghosts, BeforeImplementation
  <1>8. Answered'
    BY <1>2, <1>3, <1>4 DEF IInv, Rest, Answered, Astray, Later
  <1>9. Vouched'
    BY <1>2, <1>3, <1>4 DEF IInv, Rest, Vouched
  <1>10. Recorded'
    BY <1>2, <1>4 DEF IInv, Rest, Recorded, Later
  <1>11. Once'
    BY <1>2, <1>3, <1>4 DEF IInv, Rest, Once, Unguarded, BeforeImplementation
  <1>12. CoordinatorTypeOK'
    BY <1>2, <1>3, <1>4, Types DEF IInv, CoordinatorTypeOK, RunType, PastType, Event
  <1> QED
    BY <1>5, <1>6, <1>7, <1>8, <1>9, <1>10, <1>11, <1>12 DEF Rest

LEMMA BeginsHealingKeeps ==
    ASSUME IInv, BeginsHealing
    PROVE  run' \in RunType /\ Rest'
  <1>1. PICK phase \in {"research", "implementation"} :
          run' = [run EXCEPT !.at = "healing", !.culprit = phase,
                             !.due = IF f2 THEN <<<<"synthesis", "started">>>>
                                     ELSE <<>>]
    BY DEF BeginsHealing
  <1> DEFINE d == IF f2 THEN <<<<"synthesis", "started">>>> ELSE <<>>
  <1>2. run.at # "off" /\ UNCHANGED <<f2, scratch, ledger, past>>
    BY DEF BeginsHealing, At, Keeping
  <1>3. d \in Seq(Event) /\ d \in Seq(Events["healing"])
    BY EventsOf DEF Event, PhaseNames
  <1>4. run' = [run EXCEPT !.at = "healing", !.culprit = phase, !.due = d]
    BY <1>1, RunIs DEF IInv
  <1>5. run \in RunType /\ "healing" \in Stages
    BY Types DEF IInv, Stages
  <1> HIDE DEF d
  <1>6. /\ run' \in RunType /\ run'.at = "healing" /\ run'.due = d
        /\ run'.culprit = phase
    BY <1>3, <1>4, <1>5 DEF RunType
  <1>7. Pending'
    BY <1>3, <1>6 DEF Pending
  <1> QED
    BY <1>2, <1>6, <1>7, QuietStep DEF IInv, Quiet

\* Implementation.
LEMMA LoadsImplementationKeeps ==
    ASSUME IInv, LoadsImplementation
    PROVE  run' \in RunType /\ Rest'
  <1>1. /\ run.at = "synthesized" /\ scratch.implementation # "none"
        /\ UNCHANGED <<f2, scratch, ledger, past>>
    BY DEF LoadsImplementation, At, Keeping
  <1>2. CASE scratch.implementation \in {"error", "fatal"}
    <2>1. FailsAt("implementation")
      BY <1>2 DEF LoadsImplementation
    <2> QED
      BY <1>1, <2>1, Failing, ClosingStep DEF FailsAt, PhaseNames
  <1>3. CASE scratch.implementation \notin {"error", "fatal"}
    <2>1. Goto("implemented", <<>>) /\ "implemented" \in Later /\ run.at \in Later
      BY <1>1, <1>3 DEF LoadsImplementation, Later
    <2>2. scratch.marker
      BY <1>1 DEF IInv, Rest, Vouched
    <2> QED
      BY <1>1, <2>1, <2>2, SeqFacts, LaterStep
  <1> QED
    BY <1>2, <1>3

LEMMA RefusesKeeps ==
    ASSUME IInv, Refuses
    PROVE  run' \in RunType /\ Rest'
  <1>1. /\ run.at = "synthesized" /\ UNCHANGED <<f2, scratch, ledger, past>>
        /\ Goto("refused", <<<<"implementation", "blocked">>, <<"task", "failed">>>>)
    BY DEF Refuses, At, Keeping
  <1> QED
    BY <1>1, Failing, ClosingStep DEF PhaseNames

LEMMA BeginsImplementationKeeps ==
    ASSUME IInv, BeginsImplementation
    PROVE  run' \in RunType /\ Rest'
  <1>1. /\ run.at = "synthesized" /\ run.at \in Later
        /\ run.start = "fresh" \/ ~scratch.marker
        /\ UNCHANGED <<f2, scratch, ledger, past>>
        /\ Goto("marking", <<<<"implementation", "started">>>>)
    BY DEF BeginsImplementation, At, Keeping, Forbidden, Later
  <1>2. /\ <<<<"implementation", "started">>>> \in Seq(Event)
        /\ <<<<"implementation", "started">>>> \in Seq(Events["marking"])
    BY EventsOf DEF Event, PhaseNames
  <1>3. \/ Unguarded
        \/ past.dispatches = 0 /\ ledger["implementation"].status # "succeeded"
    <2>0. past.dispatches \in 0 .. 2
      BY Types DEF IInv, PastType
    <2>1. run.at \in BeforeImplementation /\ run.at # "off"
      BY <1>1 DEF BeforeImplementation
    <2>2. past.blind /\ ~past.unlogged => run.start # "fresh"
      BY <2>1 DEF IInv, Rest, Ghosts
    <2>3. past.pruned => past.blind
      BY <2>1 DEF IInv, Rest, Ghosts
    <2>4. CASE ~past.unlogged /\ ~past.missed /\ ~scratch.marker
      BY <2>1, <2>0, <2>4 DEF IInv, Rest, Once
    <2>5. CASE ~past.blind /\ ~scratch.marker
      BY <2>0, <2>3, <2>5 DEF IInv, Rest, Once, Vouched
    <2>6. CASE ~past.blind /\ run.start = "fresh"
      BY <2>1, <2>6 DEF IInv, Rest, Once
    <2>7. past.blind \in BOOLEAN /\ past.unlogged \in BOOLEAN /\ past.missed \in BOOLEAN
      BY Types DEF IInv, PastType
    <2> QED
      BY <1>1, <2>2, <2>4, <2>5, <2>6, <2>7 DEF Unguarded
  <1>4. "marking" \in Later
    BY DEF Later
  <1> QED
    BY <1>1, <1>2, <1>3, <1>4, LaterStep

LEMMA MarksKeeps ==
    ASSUME IInv, Marks
    PROVE  CoordinatorTypeOK' /\ Rest'
  <1>1. /\ run.at = "marking" /\ run.due = <<>>
        /\ scratch' = [scratch EXCEPT !.marker = TRUE]
        /\ UNCHANGED <<coding, f2, ledger, redrive, past>>
    BY DEF Marks, At
  <1>2. /\ run' \in RunType /\ run'.at = "dispatching" /\ run'.start = run.start
        /\ run'.due = <<>> /\ run'.unread = run.unread
    <2>1. "dispatching" \in Stages /\ <<>> \in Seq(Event)
      BY SeqFacts DEF Stages
    <2> QED
      BY <2>1, GoesTo DEF Marks, IInv
  <1>3. /\ scratch' \in Scratch /\ scratch'.marker
        /\ scratch'.research = scratch.research
        /\ scratch'.synthesis = scratch.synthesis
        /\ scratch'.implementation = scratch.implementation
    BY <1>1, Types DEF IInv, Scratch
  <1>4. Pending'
    BY <1>2, SeqFacts DEF Pending
  <1>5. Untouched'
    BY <1>1 DEF IInv, Rest, Untouched
  <1>6. Ghosts'
    BY <1>1, <1>2 DEF IInv, Rest, Ghosts, BeforeImplementation
  <1>7. Answered'
    BY <1>1, <1>2, <1>3 DEF IInv, Rest, Answered, Astray, Later
  <1>8. Vouched'
    BY <1>1, <1>2, <1>3 DEF IInv, Rest, Vouched
  <1>9. Recorded'
    BY <1>1, <1>2 DEF IInv, Rest, Recorded, Later
  <1>10. Once'
    BY <1>1, <1>2, <1>3 DEF IInv, Rest, Once, Unguarded, BeforeImplementation
  <1>11. CoordinatorTypeOK'
    BY <1>1, <1>2, <1>3, Types DEF IInv, CoordinatorTypeOK, RunType, PastType, Event
  <1> QED
    BY <1>4, <1>5, <1>6, <1>7, <1>8, <1>9, <1>10, <1>11 DEF Rest

LEMMA DispatchesKeeps ==
    ASSUME IInv, Dispatches
    PROVE  CoordinatorTypeOK' /\ Rest'
  <1>1. /\ run.at = "dispatching" /\ run.due = <<>>
        /\ UNCHANGED <<coding, f2, scratch, ledger, redrive>>
    BY DEF Dispatches, At
  <1>2. /\ run' \in RunType /\ run'.at = "implementing" /\ run'.start = run.start
        /\ run'.due = <<>> /\ run'.unread = run.unread
    <2>1. "implementing" \in Stages /\ <<>> \in Seq(Event)
      BY SeqFacts DEF Stages
    <2> QED
      BY <2>1, GoesTo DEF Dispatches, IInv
  <1>3. past \in PastType /\ past.dispatches \in 0 .. 2
    BY Types DEF IInv, PastType
  <1>4. /\ past' \in PastType
        /\ past'.dispatches = IF past.dispatches = 2 THEN 2 ELSE past.dispatches + 1
        /\ past'.runs = past.runs /\ past'.verdict = past.verdict
        /\ past'.pruned = past.pruned /\ past'.blind = past.blind
        /\ past'.unlogged = past.unlogged /\ past'.missed = past.missed
    <2> DEFINE n == IF past.dispatches = 2 THEN 2 ELSE past.dispatches + 1
    <2>1. past' = [past EXCEPT !.dispatches = n]
      BY <1>3 DEF Dispatches, PastType
    <2>2. n \in 0 .. 2
      BY <1>3
    <2> HIDE DEF n
    <2>3. /\ past' \in PastType /\ past'.dispatches = n
          /\ past'.runs = past.runs /\ past'.verdict = past.verdict
          /\ past'.pruned = past.pruned /\ past'.blind = past.blind
          /\ past'.unlogged = past.unlogged /\ past'.missed = past.missed
      BY <1>3, <2>1, <2>2 DEF PastType
    <2> QED
      BY <2>3 DEF n
  <1>5. scratch.marker
    BY <1>1 DEF IInv, Rest, Vouched
  <1>6. Pending'
    BY <1>2, SeqFacts DEF Pending
  <1>7. Untouched'
    BY <1>1, <1>4 DEF IInv, Rest, Untouched
  <1>8. Ghosts'
    BY <1>1, <1>2, <1>4 DEF IInv, Rest, Ghosts, BeforeImplementation
  <1>9. Answered'
    BY <1>1, <1>2, <1>4 DEF IInv, Rest, Answered, Astray, Later
  <1>10. Vouched'
    BY <1>1, <1>2, <1>4, <1>5 DEF IInv, Rest, Vouched
  <1>11. Recorded'
    BY <1>1, <1>2, <1>4 DEF IInv, Rest, Recorded, Later
  <1>12. Once'
    <2>1. ~past.unlogged /\ ~past.missed => ~Retryable(ledger["research"])
      <3>1. ledger["research"] \in Checkpoint
        BY Types DEF IInv, PhaseNames
      <3> QED
        BY <1>1, <3>1 DEF IInv, Rest, Ghosts, Recorded, Later, Complete, Retryable
    <2>2. past'.dispatches > 1 => past.dispatches > 0
      BY <1>3, <1>4
    <2>3. past'.dispatches > 1 => Unguarded
      BY <1>1, <1>3, <2>2 DEF IInv, Rest, Once
    <2> QED
      BY <1>1, <1>2, <1>4, <1>5, <2>1, <2>3 DEF Once, Unguarded, BeforeImplementation
  <1>13. CoordinatorTypeOK'
    BY <1>1, <1>2, <1>4, Types DEF IInv, CoordinatorTypeOK, RunType, PastType, Event
  <1> QED
    BY <1>6, <1>7, <1>8, <1>9, <1>10, <1>11, <1>12, <1>13 DEF Rest

LEMMA ImplementsKeeps ==
    ASSUME IInv, Implements
    PROVE  CoordinatorTypeOK' /\ Rest'
  <1>1. /\ run.at = "implementing" /\ run.due = <<>>
        /\ UNCHANGED <<coding, f2, ledger, redrive, past>>
    BY DEF Implements, At
  <1>2. PICK q \in Qualities \ {"none"} :
          /\ scratch' = [scratch EXCEPT !.implementation = q]
          /\ IF q \in {"error", "fatal"} THEN FailsAt("implementation")
             ELSE Goto("implemented", <<<<"implementation", "succeeded">>>>)
    BY DEF Implements
  <1>3. /\ scratch' \in Scratch /\ scratch'.implementation # "none"
        /\ scratch'.research = scratch.research
        /\ scratch'.synthesis = scratch.synthesis
        /\ scratch'.marker = scratch.marker /\ scratch.marker
    <2>1. scratch.marker
      BY <1>1 DEF IInv, Rest, Vouched
    <2> QED
      BY <1>2, <2>1, Types DEF IInv, Scratch
  <1>4. /\ run' \in RunType /\ run'.start = run.start /\ run'.unread = run.unread
        /\ \/ run'.at = "implemented"
              /\ run'.due \in Seq({<<"implementation", "succeeded">>})
           \/ run'.at = "closing" /\ run'.due \in Seq(Failures)
    <2>1. CASE q \in {"error", "fatal"}
      <3> DEFINE d == <<<<"implementation", "failed">>, <<"task", "failed">>>>
      <3>1. Goto("closing", d)
        BY <1>2, <2>1 DEF FailsAt
      <3>2. d \in Seq(Failures) /\ "closing" \in Stages
        BY Failing DEF Stages, PhaseNames
      <3>3. d \in Seq(Event)
        BY <3>2 DEF Failures, Event
      <3> HIDE DEF d
      <3>4. run' \in RunType /\ run'.start = run.start /\ run'.at = "closing"
            /\ run'.unread = run.unread /\ (run'.due = d \/ run'.due = <<>>)
        BY <3>1, <3>2, <3>3, GoesTo DEF IInv
      <3> QED
        BY <3>2, <3>4, SeqFacts
    <2>2. CASE q \notin {"error", "fatal"}
      <3> DEFINE d == <<<<"implementation", "succeeded">>>>
      <3>1. Goto("implemented", d)
        BY <1>2, <2>2
      <3>2. /\ d \in Seq(Event) /\ d \in Seq({<<"implementation", "succeeded">>})
            /\ "implemented" \in Stages
        BY DEF Event, PhaseNames, Stages
      <3> HIDE DEF d
      <3>3. run' \in RunType /\ run'.start = run.start /\ run'.at = "implemented"
            /\ run'.unread = run.unread /\ (run'.due = d \/ run'.due = <<>>)
        BY <3>1, <3>2, GoesTo DEF IInv
      <3> QED
        BY <3>2, <3>3, SeqFacts
    <2> QED
      BY <2>1, <2>2
  <1>5. Pending'
    <2>1. Seq(Failures) \subseteq Seq(Events["closing"])
      BY EventsOf, SeqGrows
    <2> QED
      BY <1>3, <1>4, <2>1, EventsOf DEF Pending
  <1>6. Untouched'
    BY <1>1 DEF IInv, Rest, Untouched
  <1>7. Ghosts'
    BY <1>1, <1>4 DEF IInv, Rest, Ghosts, BeforeImplementation
  <1>8. Answered'
    BY <1>1, <1>3, <1>4 DEF IInv, Rest, Answered, Astray, Later
  <1>9. Vouched'
    BY <1>1, <1>3, <1>4 DEF IInv, Rest, Vouched
  <1>10. Recorded'
    BY <1>1, <1>4 DEF IInv, Rest, Recorded, Later
  <1>11. Once'
    BY <1>1, <1>3, <1>4 DEF IInv, Rest, Once, Unguarded, BeforeImplementation
  <1>12. CoordinatorTypeOK'
    BY <1>1, <1>3, <1>4, Types DEF IInv, CoordinatorTypeOK, RunType, PastType, Event
  <1> QED
    BY <1>5, <1>6, <1>7, <1>8, <1>9, <1>10, <1>11, <1>12 DEF Rest

\* Verification and the end of a run.
LEMMA BeginsVerificationKeeps ==
    ASSUME IInv, BeginsVerification
    PROVE  run' \in RunType /\ Rest'
  <1>1. /\ run.at \in Later /\ UNCHANGED <<f2, scratch, ledger, past>>
        /\ Goto("verifying", <<<<"verification", "started">>>>)
        /\ "verifying" \in Later
    BY DEF BeginsVerification, At, Keeping, Later
  <1>2. /\ <<<<"verification", "started">>>> \in Seq(Event)
        /\ <<<<"verification", "started">>>> \in Seq(Events["verifying"])
    BY EventsOf DEF Event, PhaseNames
  <1> QED
    BY <1>1, <1>2, LaterStep

LEMMA VerifiesKeeps ==
    ASSUME IInv, Verifies
    PROVE  run' \in RunType /\ Rest'
  <1>1. run.at = "verifying" /\ UNCHANGED <<f2, scratch, ledger, past>>
    BY DEF Verifies, At, Keeping
  <1>2. CASE FailsAt("verification")
    BY <1>1, <1>2, Failing, ClosingStep DEF FailsAt, PhaseNames
  <1>3. CASE Goto("finishing", <<<<"verification", "succeeded">>,
                                 <<"task", "succeeded">>>>)
    <2> DEFINE d == <<<<"verification", "succeeded">>, <<"task", "succeeded">>>>
    <2>1. d \in Seq(Event) /\ d \in Seq(Events["finishing"]) /\ "finishing" \in Stages
      BY EventsOf DEF Event, PhaseNames, Stages
    <2>2. Goto("finishing", d)
      BY <1>3
    <2> HIDE DEF d
    <2>3. run' \in RunType /\ run'.at = "finishing" /\ (run'.due = d \/ run'.due = <<>>)
      BY <2>1, <2>2, GoesTo DEF IInv
    <2>4. Pending'
      BY <2>1, <2>3, SeqFacts DEF Pending
    <2> QED
      BY <1>1, <2>3, <2>4, QuietStep DEF IInv, Quiet
  <1> QED
    BY <1>2, <1>3 DEF Verifies

\* The end of a run in memory, by itself or with the process.
LEMMA RestsTyped ==
    ASSUME NEW b \in BOOLEAN, run' = [Idle EXCEPT !.succeeded = b]
    PROVE  run' \in RunType /\ run'.at = "off" /\ Pending'
  <1>1. run' \in RunType /\ run'.at = "off" /\ run'.due = <<>>
    BY IdleTyped DEF RunType, Idle
  <1> QED
    BY <1>1, SeqFacts DEF Pending

LEMMA EndingKeeps ==
    ASSUME IInv, Raises \/ Aborts \/ Returns
    PROVE  run' \in RunType /\ Rest'
  <1>1. UNCHANGED <<f2, scratch, ledger, past>> /\ run.at # "off"
    BY DEF Raises, Aborts, Returns, At, Keeping
  <1>2. CASE Raises
    BY <1>1, <1>2, RaisedStep DEF Raises
  <1>3. CASE Aborts
    <2>1. PICK phase \in PhaseNames : StopsBefore(phase)
      BY <1>3 DEF Aborts, PhaseNames
    <2> QED
      BY <1>1, <2>1, Failing, ClosingStep DEF StopsBefore
  <1>4. CASE Returns
    <2>1. run' = [Idle EXCEPT !.succeeded = (run.at = "finishing")]
      BY <1>4 DEF Returns
    <2>2. (run.at = "finishing") \in BOOLEAN
      OBVIOUS
    <2>3. run' \in RunType /\ run'.at = "off" /\ Pending'
      BY <2>1, <2>2, RestsTyped
    <2> QED
      BY <1>1, <2>3, QuietStep DEF IInv, Quiet
  <1> QED
    BY <1>2, <1>3, <1>4

LEMMA RunStepKeeps ==
    ASSUME IInv, RunStep
    PROVE  CoordinatorTypeOK' /\ Rest'
  <1>1. CASE Records
    BY <1>1, RecordsKeeps
  <1>2. CASE Researches
    BY <1>2, ResearchesKeeps
  <1>3. CASE Saves
    BY <1>3, SavesKeeps
  <1>4. CASE Synthesizes \/ Heals
    BY <1>4, TextKeeps
  <1>5. CASE Marks
    BY <1>5, MarksKeeps
  <1>6. CASE Dispatches
    BY <1>6, DispatchesKeeps
  <1>7. CASE Implements
    BY <1>7, ImplementsKeeps
  <1>8. ASSUME Keeping, run' \in RunType, Rest'
        PROVE  CoordinatorTypeOK' /\ Rest'
    BY <1>8, Types DEF IInv, CoordinatorTypeOK, RunType, PastType, Event, Keeping
  <1>9. CASE Raises \/ Aborts \/ Returns
    BY <1>8, <1>9, EndingKeeps DEF Raises, Aborts, Returns
  <1>10. CASE LoadsResearch
    BY <1>8, <1>10, LoadsResearchKeeps DEF LoadsResearch
  <1>11. CASE BeginsResearch
    BY <1>11, BeginsResearchKeeps
  <1>12. CASE EndsResearch
    BY <1>8, <1>12, EndsResearchKeeps DEF EndsResearch
  <1>13. CASE EntersSynthesis
    BY <1>8, <1>13, EntersSynthesisKeeps DEF EntersSynthesis
  <1>14. CASE LoadsSynthesis \/ BeginsSynthesis
    BY <1>8, <1>14, SynthesisKeeps DEF LoadsSynthesis, BeginsSynthesis
  <1>15. CASE BeginsHealing
    BY <1>8, <1>15, BeginsHealingKeeps DEF BeginsHealing
  <1>16. CASE LoadsImplementation
    BY <1>8, <1>16, LoadsImplementationKeeps DEF LoadsImplementation
  <1>17. CASE Refuses
    BY <1>8, <1>17, RefusesKeeps DEF Refuses
  <1>18. CASE BeginsImplementation
    BY <1>8, <1>18, BeginsImplementationKeeps DEF BeginsImplementation
  <1>19. CASE BeginsVerification
    BY <1>8, <1>19, BeginsVerificationKeeps DEF BeginsVerification
  <1>20. CASE Verifies
    BY <1>8, <1>20, VerifiesKeeps DEF Verifies
  <1> QED
    BY <1>1, <1>2, <1>3, <1>4, <1>5, <1>6, <1>7, <1>9, <1>10, <1>11, <1>12, <1>13,
       <1>14, <1>15, <1>16, <1>17, <1>18, <1>19, <1>20 DEF RunStep

-----------------------------------------------------------------------------
(* Between the runs. *)

\* A run begins where the recovery plan lets it.
LEMMA BeginsRunKeeps ==
    ASSUME IInv, NEW s \in Starts, NEW misread \in BOOLEAN, BeginsRun(s, misread),
           s = "fresh" => ~f2 \/ past.runs = 0,
           past.runs = 0 => ~misread,
           f2 /\ ~misread =>
             IF Loadable(s, scratch.research) THEN Complete(ledger["research"])
             ELSE Retryable(ledger["research"])
    PROVE  CoordinatorTypeOK' /\ Rest'
  <1> DEFINE d == IF f2 THEN <<<<"task", "started">>>> ELSE <<>>
             blind == past.blind \/ (past.runs > 0 /\ (past.pruned \/ s = "fresh"))
             unlogged == past.unlogged \/ ~f2
             missed == past.missed \/ misread
  <1>1. /\ run.at = "off" /\ past.runs < RunCap
        /\ UNCHANGED <<coding, f2, scratch, ledger>>
    BY DEF BeginsRun
  <1>2. /\ run' \in RunType /\ run'.at = "research" /\ run'.start = s /\ run'.due = d
        /\ run'.unread = {}
    <2>1. run' = [Idle EXCEPT !.at = "research", !.start = s, !.due = d]
      BY DEF BeginsRun, Idle
    <2>2. d \in Seq(Event) /\ "research" \in Stages
      BY DEF Event, Stages
    <2> HIDE DEF d
    <2> QED
      BY <2>1, <2>2, IdleTyped DEF RunType, Idle
  <1>3. past \in PastType /\ past.runs \in Nat /\ past.blind \in BOOLEAN
        /\ past.unlogged \in BOOLEAN /\ past.pruned \in BOOLEAN
        /\ past.missed \in BOOLEAN
        /\ past.dispatches \in 0 .. 2
    BY Types DEF IInv, PastType
  <1>4. /\ past' \in PastType
        /\ past'.dispatches = past.dispatches /\ past'.verdict = past.verdict
        /\ past'.pruned = past.pruned /\ past'.runs = past.runs + 1
        /\ past'.blind = blind /\ past'.unlogged = unlogged /\ past'.missed = missed
    <2>1. past' = [past EXCEPT !.runs = past.runs + 1, !.blind = blind,
                               !.unlogged = unlogged, !.missed = missed]
      BY <1>3 DEF BeginsRun, PastType
    <2>2. past.runs + 1 \in 0 .. RunCap
      BY <1>1, <1>3, CoordinatorAssumption DEF PastType
    <2>3. blind \in BOOLEAN /\ unlogged \in BOOLEAN /\ missed \in BOOLEAN
      BY <1>3
    <2> HIDE DEF blind, unlogged, missed
    <2> QED
      BY <1>3, <2>1, <2>2, <2>3 DEF PastType
  <1>5. /\ ~blind => ~past.blind /\ ~past.pruned /\ (s = "fresh" => past.runs = 0)
        /\ ~unlogged => f2 /\ ~past.unlogged
        /\ ~missed => ~past.missed /\ ~misread
    BY <1>3 DEF IInv, Rest, Untouched
  <1>6. past.runs + 1 # 0
    BY <1>3
  <1> HIDE DEF blind, unlogged, missed
  <1>7. Pending'
    <2>1. d \in Seq(Events["research"])
      BY EventsOf
    <2> QED
      BY <1>2, <2>1 DEF Pending
  <1>8. Untouched'
    BY <1>4, <1>6 DEF Untouched
  <1>9. Ghosts'
    <2>1. past.pruned /\ ~blind => FALSE
      BY <1>5
    <2>2. blind /\ ~unlogged => s # "fresh"
      BY <1>5 DEF IInv, Rest, Untouched, blind
    <2>3. past.verdict \in Answers \cup {NoFindings}
      BY DEF IInv, Rest, Ghosts
    <2>4. ~f2 => unlogged
      BY DEF unlogged
    <2> QED
      BY <1>1, <1>2, <1>4, <2>1, <2>2, <2>3, <2>4 DEF Ghosts
  <1>10. Answered'
    BY <1>1, <1>2, <1>4, <1>5 DEF IInv, Rest, Answered, Astray, Later
  <1>11. Vouched'
    BY <1>1, <1>2, <1>4, <1>5 DEF IInv, Rest, Vouched
  <1>12. Recorded'
    BY <1>1, <1>2, <1>4, <1>5 DEF Recorded, Later
  <1>13. Once'
    <2>1. ~unlogged /\ ~missed /\ scratch = EmptyScratch =>
            Retryable(ledger["research"])
      BY <1>5, FilesAreNumbers DEF EmptyScratch, NoFindings, Present, Loadable
    <2>2. past.dispatches > 0 => blind \/ past.pruned \/ scratch.marker
      BY DEF IInv, Rest, Once, blind
    <2>3. /\ ~unlogged /\ ~missed
          /\ past.dispatches > 0 \/ ledger["implementation"].status = "succeeded"
          => ~Retryable(ledger["research"]) /\ scratch.marker
      BY <1>5, <2>1 DEF IInv, Rest, Once
    <2>4. ~blind /\ s = "fresh" =>
             past.dispatches = 0 /\ ledger["implementation"].status # "succeeded"
      BY <1>5 DEF IInv, Rest, Untouched, PhaseNames
    <2>5. past.dispatches > 1 => blind /\ (unlogged \/ missed)
      BY DEF IInv, Rest, Once, Unguarded, blind, unlogged, missed
    <2> QED
      BY <1>1, <1>2, <1>4, <2>2, <2>3, <2>4, <2>5 DEF Once, Unguarded
  <1>14. CoordinatorTypeOK'
    <2>1. redrive' \in [armed : BOOLEAN, attempts : 0 .. RedriveCap]
      BY Types DEF IInv, BeginsRun
    <2> QED
      BY <1>1, <1>2, <1>4, <2>1, Types
         DEF IInv, CoordinatorTypeOK, RunType, PastType, Event
  <1> QED
    BY <1>7, <1>8, <1>9, <1>10, <1>11, <1>12, <1>13, <1>14 DEF Rest

LEMMA FirstRunKeeps ==
    ASSUME IInv, FirstRun
    PROVE  CoordinatorTypeOK' /\ Rest'
  <1>1. past.runs = 0 /\ BeginsRun("fresh", FALSE) /\ "fresh" \in Starts
    BY DEF FirstRun, Starts
  <1>2. /\ scratch.research = NoFindings
        /\ ledger["research"] = [status |-> "none", torn |-> FALSE]
    BY <1>1 DEF IInv, Rest, Untouched, EmptyScratch, PhaseNames
  <1>3. ~Present(scratch.research) /\ Retryable(ledger["research"])
    BY <1>2 DEF Present, NoFindings, Retryable
  <1> QED
    BY <1>1, <1>3, BeginsRunKeeps DEF Loadable

LEMMA ResumesKeeps ==
    ASSUME IInv, Resumes
    PROVE  CoordinatorTypeOK' /\ Rest'
  <1>1. PICK phase \in Chosen :
          BeginsRun(IF redrive.armed THEN "synthesis" ELSE phase,
                    phase = "research" /\ Present(scratch.research))
    BY DEF Resumes
  <1> DEFINE s == IF redrive.armed THEN "synthesis" ELSE phase
             misread == phase = "research" /\ Present(scratch.research)
  <1>2. Detected \subseteq PhaseNames
    BY DEF Detected, PhaseNames
  <1>3. phase \in Detected \cup {"fresh"} /\ (f2 => phase \in Detected /\ Planned(phase))
    BY <1>1 DEF Chosen
  <1>4. phase \in Detected => phase = "research" \/ Present(scratch.research)
    BY DEF Detected
  <1>5. s \in Starts /\ (s = "fresh" => ~f2) /\ misread \in BOOLEAN
    BY <1>2, <1>3 DEF Starts, PhaseNames
  <1>6. /\ Rank["research"] = 1 /\ Rank["synthesis"] = 2 /\ Rank["implementation"] = 3
        /\ Rank["verification"] = 4
    BY DEF Rank, Starts, PhaseNames
  <1>7. f2 /\ ~misread =>
          IF Loadable(s, scratch.research) THEN Complete(ledger["research"])
          ELSE Retryable(ledger["research"])
    <2>1. SUFFICES ASSUME f2, ~misread
                   PROVE  IF Loadable(s, scratch.research)
                          THEN Complete(ledger["research"])
                          ELSE Retryable(ledger["research"])
      OBVIOUS
    <2>2. phase \in PhaseNames /\ Planned(phase)
      BY <1>2, <1>3, <2>1
    <2>3. CASE phase = "research"
      BY <2>1, <2>2, <2>3, Plans DEF Loadable, IInv
    <2>4. CASE phase # "research"
      <3>1. Loadable(s, scratch.research)
        BY <1>3, <1>4, <1>6, <2>1, <2>2, <2>4 DEF Loadable, PhaseNames
      <3> QED
        BY <2>2, <2>4, <3>1, Plans DEF IInv
    <2> QED
      BY <2>3, <2>4
  <1>8. past.runs = 0 => ~misread
    BY DEF IInv, Rest, Untouched, EmptyScratch, NoFindings, Present
  <1> HIDE DEF s, misread
  <1>9. BeginsRun(s, misread)
    BY <1>1 DEF s, misread
  <1> QED
    BY <1>5, <1>7, <1>8, <1>9, BeginsRunKeeps

LEMMA RedriveKeeps ==
    ASSUME IInv, LosesRedrive \/ ArmsRedrive
    PROVE  CoordinatorTypeOK' /\ Rest'
  <1>1. /\ run.at = "off" /\ UNCHANGED <<coding, f2, scratch, ledger, past>>
        /\ run' = [run EXCEPT !.succeeded = FALSE]
    BY DEF LosesRedrive, ArmsRedrive
  <1>2. /\ run' \in RunType /\ run'.at = "off" /\ run'.due = run.due
    BY <1>1, Types DEF IInv, RunType
  <1>3. redrive' \in [armed : BOOLEAN, attempts : 0 .. RedriveCap]
    <2>1. redrive \in [armed : BOOLEAN, attempts : 0 .. RedriveCap]
      BY Types DEF IInv
    <2>2. CASE LosesRedrive
      BY <2>1, <2>2 DEF LosesRedrive
    <2>3. CASE ArmsRedrive
      BY <2>1, <2>3, CoordinatorAssumption DEF ArmsRedrive
    <2> QED
      BY <2>2, <2>3
  <1>4. Pending'
    BY <1>1, <1>2 DEF IInv, Rest, Pending
  <1>5. Rest'
    BY <1>1, <1>2, <1>4, QuietStep DEF IInv, Quiet
  <1>6. CoordinatorTypeOK'
    BY <1>1, <1>2, <1>3, Types DEF IInv, CoordinatorTypeOK, RunType, PastType, Event
  <1> QED
    BY <1>5, <1>6

LEMMA IsPrunedKeeps ==
    ASSUME IInv, IsPruned
    PROVE  CoordinatorTypeOK' /\ Rest'
  <1>1. /\ run.at = "off" /\ scratch # EmptyScratch
        /\ UNCHANGED <<coding, f2, ledger, redrive, run>>
    BY DEF IsPruned
  <1>2. /\ scratch' = EmptyScratch /\ scratch' \in Scratch
        /\ scratch'.research = NoFindings /\ scratch'.implementation = "none"
    BY IdleTyped DEF IsPruned, EmptyScratch
  <1>3. /\ past' \in PastType /\ past'.pruned
        /\ past'.runs = past.runs /\ past'.verdict = past.verdict
        /\ past'.dispatches = past.dispatches /\ past'.blind = past.blind
        /\ past'.unlogged = past.unlogged /\ past'.missed = past.missed
    <2>1. past \in PastType
      BY Types DEF IInv
    <2> QED
      BY <2>1 DEF IsPruned, PastType
  <1>4. Pending'
    BY <1>1 DEF IInv, Rest, Pending
  <1>5. Untouched'
    BY <1>1, <1>3 DEF IInv, Rest, Untouched
  <1>6. Ghosts'
    BY <1>1, <1>3 DEF IInv, Rest, Ghosts, BeforeImplementation
  <1>7. Answered'
    <2>1. NoFindings = First(0, past.verdict)
      BY FilesAreNumbers DEF NoFindings, First, Files
    <2>2. Part(NoFindings, past.verdict)
      BY <2>1 DEF Part
    <2> QED
      BY <1>1, <1>2, <1>3, <2>2 DEF IInv, Rest, Answered, Later
  <1>8. Vouched'
    BY <1>1, <1>2, <1>3 DEF IInv, Rest, Vouched
  <1>9. Recorded'
    BY <1>1 DEF Recorded, Later
  <1>10. Once'
    BY <1>1, <1>2, <1>3 DEF IInv, Rest, Once, Unguarded, BeforeImplementation
  <1>11. CoordinatorTypeOK'
    BY <1>1, <1>2, <1>3, Types DEF IInv, CoordinatorTypeOK, RunType, PastType, Event
  <1> QED
    BY <1>4, <1>5, <1>6, <1>7, <1>8, <1>9, <1>10, <1>11 DEF Rest

LEMMA RestartsKeeps ==
    ASSUME IInv, Restarts
    PROVE  CoordinatorTypeOK' /\ Rest'
  <1>1. /\ UNCHANGED <<coding, scratch, ledger, redrive, past>>
        /\ f2' \in BOOLEAN
    BY CoordinatorAssumption DEF Restarts
  <1>2. /\ run' \in RunType /\ run'.at = "off" /\ run'.due = <<>>
    BY IdleTyped DEF Restarts, Idle
  <1>3. Pending'
    BY <1>2, SeqFacts DEF Pending
  <1>4. Untouched'
    BY <1>1, <1>2 DEF IInv, Rest, Untouched
  <1>5. Ghosts'
    BY <1>1, <1>2 DEF IInv, Rest, Ghosts, BeforeImplementation
  <1>6. Answered'
    BY <1>1, <1>2 DEF IInv, Rest, Answered, Astray, Later
  <1>7. Vouched'
    BY <1>1, <1>2 DEF IInv, Rest, Vouched
  <1>8. Recorded'
    BY <1>2 DEF Recorded, Later
  <1>9. Once'
    BY <1>1, <1>2 DEF IInv, Rest, Once, Unguarded, BeforeImplementation
  <1>10. CoordinatorTypeOK'
    BY <1>1, <1>2, Types DEF IInv, CoordinatorTypeOK, RunType, PastType, Event
  <1> QED
    BY <1>3, <1>4, <1>5, <1>6, <1>7, <1>8, <1>9, <1>10 DEF Rest

LEMMA InitInv ==
    ASSUME Init
    PROVE  IInv
  <1>1. /\ run = Idle /\ scratch = EmptyScratch
        /\ ledger = [p \in PhaseNames |-> [status |-> "none", torn |-> FALSE]]
        /\ past = [runs |-> 0, dispatches |-> 0, verdict |-> NoFindings,
                   pruned |-> FALSE, blind |-> FALSE, unlogged |-> FALSE,
                   missed |-> FALSE]
        /\ redrive = [armed |-> FALSE, attempts |-> 0]
    BY DEF Init
  <1>2. CoordinatorTypeOK
    <2>1. ledger \in [PhaseNames -> Checkpoint]
      BY <1>1 DEF Checkpoint
    <2>2. past \in PastType
      BY <1>1, IdleTyped, CoordinatorAssumption DEF PastType
    <2>3. redrive \in [armed : BOOLEAN, attempts : 0 .. RedriveCap]
      BY <1>1, CoordinatorAssumption
    <2>4. coding \in BOOLEAN /\ f2 \in BOOLEAN
      BY CoordinatorAssumption DEF Init
    <2> QED
      BY <1>1, <2>1, <2>2, <2>3, <2>4, IdleTyped, Types
  <1>3. run.at = "off" /\ run.due = <<>>
    BY <1>1 DEF Idle
  <1>4. Pending
    BY <1>3, SeqFacts DEF Pending
  <1>5. Untouched
    BY <1>1, <1>3 DEF Untouched
  <1>6. Ghosts
    BY <1>1, <1>3 DEF Ghosts, BeforeImplementation
  <1>7. Answered
    <2>1. NoFindings = First(0, past.verdict)
      BY FilesAreNumbers DEF NoFindings, First, Files
    <2>2. Part(NoFindings, past.verdict)
      BY <2>1 DEF Part
    <2> QED
      BY <1>1, <1>3, <2>2 DEF Answered, Later, EmptyScratch, AllFailed, Critical,
         Present, NoFindings
  <1>8. Vouched
    BY <1>1, <1>3 DEF Vouched, EmptyScratch, PhaseNames
  <1>9. Recorded
    BY <1>3 DEF Recorded, Later
  <1>10. Once
    BY <1>1, <1>3 DEF Once, BeforeImplementation, PhaseNames
  <1> QED
    BY <1>2, <1>4, <1>5, <1>6, <1>7, <1>8, <1>9, <1>10 DEF IInv, Rest

LEMMA NextInv ==
    ASSUME IInv, [Next]_vars
    PROVE  IInv'
  <1>1. CASE RunStep
    BY <1>1, RunStepKeeps DEF IInv
  <1>2. CASE FirstRun
    BY <1>2, FirstRunKeeps DEF IInv
  <1>3. CASE Resumes
    BY <1>3, ResumesKeeps DEF IInv
  <1>4. CASE LosesRedrive \/ ArmsRedrive
    BY <1>4, RedriveKeeps DEF IInv
  <1>5. CASE IsPruned
    BY <1>5, IsPrunedKeeps DEF IInv
  <1>6. CASE Restarts
    BY <1>6, RestartsKeeps DEF IInv
  <1>7. CASE UNCHANGED vars
    BY <1>7 DEF vars, IInv, Rest, CoordinatorTypeOK, Pending, Untouched, Ghosts,
       Answered, Astray, Vouched, Recorded, Once, Unguarded
  <1> QED
    BY <1>1, <1>2, <1>3, <1>4, <1>5, <1>6, <1>7 DEF Next

-----------------------------------------------------------------------------
(* The theorems. *)

LEMMA Invariance ==
    Spec => []IInv
  <1>1. Init => IInv
    BY InitInv
  <1>2. IInv /\ [Next]_vars => IInv'
    BY NextInv
  <1> QED
    BY <1>1, <1>2, PTL DEF Spec

\* Every variable has its type.
THEOREM TypeCorrect ==
    Spec => []CoordinatorTypeOK
  <1>1. IInv => CoordinatorTypeOK
    BY DEF IInv
  <1> QED
    BY <1>1, Invariance, PTL

\* Implementation is dispatched once, unless a run began without the scratch
\* directory and one had no F2 store or could read none of the files of research.
THEOREM DispatchedOnce ==
    Spec => []ImplementedOnce
  <1>1. IInv => ImplementedOnce
    BY DEF IInv, Rest, Once, ImplementedOnce
  <1> QED
    BY <1>1, Invariance, PTL

\* With the F2 store a synthesis is made from all the newest answers but those
\* whose files are there and were not readable, however the runs before it ended.
THEOREM NothingHalfWritten ==
    Spec => []SynthesisSeesAll
  <1>1. IInv => SynthesisSeesAll
    BY DEF IInv, Rest, Answered, Astray, SynthesisSeesAll
  <1> QED
    BY <1>1, Invariance, PTL

\* No run, and none that loads what it can read of what an earlier one left, goes
\* on from research that failed, or past a critical error that it could read.
THEOREM FailureStops ==
    Spec => []NothingPastFailure
  <1>1. IInv => NothingPastFailure
    BY DEF IInv, Rest, Answered, Astray, Later, NothingPastFailure
  <1> QED
    BY <1>1, Invariance, PTL

\* What a phase that is recorded as succeeded has left is in the scratch
\* directory, as long as nobody removed it and no run that could read none of the
\* files of research began that again (_load_scratch_results, _write_scratch).
THEOREM SuccessIsThere ==
    Spec => []CheckpointsVouch
  <1>1. IInv => CheckpointsVouch
    BY DEF IInv, Rest, Vouched, CheckpointsVouch
  <1> QED
    BY <1>1, Invariance, PTL

\* Research and implementation that are recorded as succeeded are not begun
\* again, with the same exception as for the dispatch, and but for a run that
\* can read none of the files of research.
THEOREM SuccessIsFinal ==
    Spec => NeverRedone
  <1> DEFINE Kept == \A phase \in {"research", "implementation"} :
                       ledger[phase].status = "succeeded"
                         /\ ledger'[phase].status = "started"
                         => Unguarded \/ (phase = "research" /\ past.missed)
  <1>1. ASSUME IInv, [Next]_vars
        PROVE  Kept
    <2>1. CASE UNCHANGED ledger
      BY <2>1 DEF PhaseNames
    <2>2. CASE Records
      <3> DEFINE e == Head(run.due)
      <3>1. run.due # <<>> /\ run.due \in Seq(Events[run.at])
        BY <1>1, <2>2 DEF Records, IInv, Rest, Pending
      <3>2. e \in Events[run.at] /\ run.at \in Stages
        BY <1>1, <3>1, SeqFacts, RunTyped DEF IInv
      <3>3. \A p \in PhaseNames :
              \/ ledger'[p].status = ledger[p].status
              \/ p = e[1] /\ ledger'[p].status = e[2]
        <4>1. ledger \in [PhaseNames -> Checkpoint]
          BY <1>1, Types DEF IInv
        <4> QED
          BY <2>2, <4>1 DEF Records, Written, Checkpoint
      <3>4. /\ e[1] = "research" /\ e[2] = "started" => run.at = "researching"
            /\ e[1] = "implementation" /\ e[2] = "started" => run.at = "marking"
        BY <3>2, EventsOf DEF Stages, Failures
      <3>5. run.at = "researching" => past.missed
                                        \/ ledger["research"].status # "succeeded"
        <4>1. run.at = "researching" => f2
          BY <1>1, <3>1 DEF IInv, Rest, Pending
        <4> QED
          BY <1>1, <4>1 DEF IInv, Rest, Recorded, Retryable
      <3>6. run.at = "marking" => \/ Unguarded
                                  \/ ledger["implementation"].status # "succeeded"
        BY <1>1, <3>1 DEF IInv, Rest, Once
      <3> QED
        BY <3>3, <3>4, <3>5, <3>6 DEF PhaseNames
    <2>3. Records \/ UNCHANGED ledger
      BY <1>1 DEF Next, vars, RunStep, Raises, Aborts, LoadsResearch, BeginsResearch,
         Researches, Saves, EndsResearch, EntersSynthesis, LoadsSynthesis,
         BeginsSynthesis, Synthesizes, BeginsHealing, Heals, LoadsImplementation,
         Refuses, BeginsImplementation, Marks, Dispatches, Implements,
         BeginsVerification, Verifies, Returns, FirstRun, Resumes, BeginsRun,
         LosesRedrive, ArmsRedrive, IsPruned, Restarts, Keeping
    <2> QED
      BY <2>1, <2>2, <2>3
  <1>2. IInv /\ [Next]_vars => [Kept]_vars
    BY <1>1
  <1> QED
    BY <1>2, Invariance, PTL DEF Spec, NeverRedone
=============================================================================

------------------------ MODULE AutonomousTaskProofs ------------------------
(***************************************************************************)
(* Theorems about AutonomousTask for every set of worker threads and every *)
(* cap.  What an action does to the row of an ended task depends on where  *)
(* its actor is, so the proof needs to know that a delegation runner that  *)
(* found no row is alone with the task until it has written one.           *)
(***************************************************************************)
EXTENDS AutonomousTask, FiniteSetTheorems, TLAPS

\* Two threads never run the task.
OneThread == \A w, v \in Threads : run[w] # NoRun /\ run[v] # NoRun => w = v

\* A job that can be claimed has an attempt left.
Affordable == job.status \in Claimable => job.attempts < MaxAttempts

\* While there is no row, only the caller may be about to write one.
Unwritten == IF row.status = "absent"
             THEN /\ Live = {} /\ errand["watchdog"] = NoErrand
                  /\ errand["caller"] = NoErrand \/ At("caller", "found")
             ELSE ~At("caller", "found")

\* What a resume writes back is a row that it has read.
ReadsARow == \A a \in Actors : At(a, "stamping") => errand[a].read # "absent"

IInv == TaskTypeOK /\ OneThread /\ Affordable /\ Unwritten /\ ReadsARow

Jobs == [status : Active \cup Closed \cup {"absent"}, attempts : 0..MaxAttempts]

-----------------------------------------------------------------------------
(* What the operators yield. *)

LEMMA DoingTyped ==
    \A s \in Steps : Doing(s) \in Errand /\ Doing(s).step = s /\ Doing(s) # NoErrand
  <1>1. "absent" \in RowStatuses /\ "newest" \in Handles
    BY DEF RowStatuses, Handles
  <1>2. \A s \in Steps : Doing(s) \in Errand /\ Doing(s).step = s
    BY <1>1 DEF Doing, Errand
  <1> QED
    BY <1>2, NothingAssumption

LEMMA SessionsTyped ==
    Untouched \in Session /\ [Untouched EXCEPT !.mine = TRUE] \in Session
  <1>1. Untouched \in Session
    BY TaskAssumption DEF Untouched, Session
  <1>2. \A u \in Session : [u EXCEPT !.mine = TRUE] \in Session
    BY DEF Session
  <1> QED
    BY <1>1, <1>2

LEMMA RowsWritten ==
    \A s \in RowStatuses, b \in BOOLEAN :
        Written(s, b) \in TaskRow /\ Written(s, b).status = s
  BY DEF Written, TaskRow

\* Each call that writes the row.
LEMMA RowCalls ==
    ASSUME TaskTypeOK
    PROVE  /\ \A s \in RowStatuses : Create(s) => row' \in TaskRow /\ row'.status = s
           /\ Checkpoint => row' \in TaskRow /\ row'.status = "running"
           /\ \A s \in {"succeeded", "failed", "cancelled"} : MarkTerminal(s, s = "succeeded")
                => row' \in TaskRow /\ row'.status \in Ended
                   /\ (row.status \in Ended => row' = row)
  <1>1. row \in TaskRow
    BY DEF TaskTypeOK
  <1>2. {"running"} \cup Ended \subseteq RowStatuses
    BY DEF RowStatuses
  <1>3. ASSUME NEW s \in {"succeeded", "failed", "cancelled"}, MarkTerminal(s, s = "succeeded")
        PROVE  row' \in TaskRow /\ row'.status \in Ended /\ (row.status \in Ended => row' = row)
    <2>1. row' = IF row.status \notin Ended THEN Written(s, s = "succeeded") ELSE row
      BY <1>3 DEF MarkTerminal, MayEnd
    <2>2. s \in Ended /\ s \in RowStatuses /\ (s = "succeeded") \in BOOLEAN
      BY DEF Ended, RowStatuses
    <2> QED
      BY <1>1, <2>1, <2>2, RowsWritten
  <1> QED
    BY <1>1, <1>2, <1>3, RowsWritten DEF Create, Checkpoint

LEMMA JobCalls ==
    ASSUME TaskTypeOK, Affordable
    PROVE  /\ \A s \in Closed : Rests(s) => job' \in Jobs /\ Affordable'
           /\ \A retry \in BOOLEAN : FailJob(retry) => job' \in Jobs /\ Affordable'
           /\ CancelJob => job' \in Jobs /\ Affordable'
           /\ job' = job => job' \in Jobs /\ Affordable'
  <1>1. job \in Jobs /\ job.attempts \in 0..MaxAttempts /\ MaxAttempts \in Nat
    BY TaskAssumption DEF TaskTypeOK, Jobs
  <1>2. \A s \in Closed : s \notin Claimable /\ s \in Active \cup Closed \cup {"absent"}
    BY DEF Closed, Claimable
  <1>3. \A s \in Closed : Rests(s) => job' \in Jobs /\ Affordable'
    BY <1>1, <1>2 DEF Rests, Affordable, Jobs
  <1>4. Rests("retrying") /\ job.attempts < MaxAttempts => job' \in Jobs /\ Affordable'
    BY <1>1 DEF Rests, Affordable, Jobs, Active, Claimable
  <1>5. job' = job => job' \in Jobs /\ Affordable'
    BY <1>1 DEF Affordable
  <1>6. "failed" \in Closed /\ "cancelled" \in Closed
    BY DEF Closed
  <1> QED
    BY <1>3, <1>4, <1>5, <1>6 DEF FailJob, CancelJob

\* Enqueueing changes the handles that others remember, and nobody's place.
LEMMA EnqueueMoves ==
    ASSUME TaskTypeOK, Affordable, NEW a \in Actors, NEW e \in Errand \cup {NoErrand},
           \/ Inserts(a, e)
           \/ /\ FindsActive(a, e)
              /\ (\E retry \in BOOLEAN : FailJob(retry)) \/ job' = job
    PROVE  /\ job' \in Jobs /\ Affordable'
           /\ run' \in [Threads -> Run \cup {NoRun}]
           /\ \A w \in Threads : run'[w] # NoRun => run[w] # NoRun
           /\ errand' \in [Actors -> Errand \cup {NoErrand}]
           /\ orphan' \in BOOLEAN
           /\ errand'[a] = e
           /\ \A c \in Actors \ {a} :
                /\ errand[c] = NoErrand => errand'[c] = NoErrand
                /\ errand[c] # NoErrand => /\ errand'[c] # NoErrand
                                           /\ errand'[c].step = errand[c].step
                                           /\ errand'[c].read = errand[c].read
  <1>1. \A h \in Handles : Outdated(h) \in Handles
    BY DEF Outdated, Handles
  <1>2. CASE FindsActive(a, e) /\ ((\E retry \in BOOLEAN : FailJob(retry)) \/ job' = job)
    <2>1. job' \in Jobs /\ Affordable'
      BY <1>2, JobCalls
    <2> QED
      BY <1>2, <2>1 DEF FindsActive, TaskTypeOK
  <1>3. CASE Inserts(a, e)
    <2>1. job' \in Jobs /\ Affordable'
      BY <1>3, TaskAssumption DEF Inserts, Jobs, Affordable, Active, Claimable
    <2>2. ASSUME NEW w \in Threads
          PROVE  /\ run'[w] \in Run \cup {NoRun}
                 /\ run'[w] # NoRun => run[w] # NoRun
      <3>1. run[w] \in Run \cup {NoRun}
        BY DEF TaskTypeOK
      <3>2. run'[w] = IF run[w] = NoRun THEN NoRun ELSE [run[w] EXCEPT !.job = Outdated(@)]
        BY <1>3 DEF Inserts
      <3> QED
        BY <1>1, <3>1, <3>2 DEF Run
    <2>3. ASSUME NEW c \in Actors \ {a}
          PROVE  /\ errand'[c] \in Errand \cup {NoErrand}
                 /\ errand[c] = NoErrand => errand'[c] = NoErrand
                 /\ errand[c] # NoErrand => /\ errand'[c] # NoErrand
                                            /\ errand'[c].step = errand[c].step
                                            /\ errand'[c].read = errand[c].read
      <3>1. errand[c] \in Errand \cup {NoErrand}
        BY DEF TaskTypeOK
      <3>2. errand'[c] = IF errand[c] # NoErrand /\ errand[c].step \in JobKnown
                         THEN [errand[c] EXCEPT !.job = Outdated(@)] ELSE errand[c]
        BY <1>3 DEF Inserts
      <3>3. ASSUME errand[c] \in Errand
            PROVE  LET n == [errand[c] EXCEPT !.job = Outdated(@)]
                   IN  n \in Errand /\ n.step = errand[c].step /\ n.read = errand[c].read
        BY <1>1, <3>3 DEF Errand
      <3> QED
        BY <3>1, <3>2, <3>3, NothingAssumption
    <2>4. errand'[a] = e /\ run' = [w \in Threads |-> run'[w]]
          /\ errand' = [c \in Actors |-> errand'[c]] /\ orphan' = FALSE
      BY <1>3 DEF Inserts
    <2> QED
      BY <2>1, <2>2, <2>3, <2>4
  <1> QED
    BY <1>2, <1>3

-----------------------------------------------------------------------------
(* The worker threads *)

\* What a thread does to itself.
LEMMA RunMoves ==
    ASSUME TaskTypeOK, NEW w \in Threads, run[w] # NoRun
    PROVE  /\ run[w] \in Run
           /\ \A phase \in Phases : Enters(w, phase) =>
                /\ run' \in [Threads -> Run \cup {NoRun}]
                /\ \A v \in Threads : run'[v] # NoRun => run[v] # NoRun
           /\ \A r \in Run \cup {NoRun} : run' = [run EXCEPT ![w] = r] =>
                /\ run' \in [Threads -> Run \cup {NoRun}]
                /\ \A v \in Threads : run'[v] # NoRun => run[v] # NoRun
           /\ Finishes(w) =>
                /\ run' \in [Threads -> Run \cup {NoRun}]
                /\ \A v \in Threads : run'[v] # NoRun => run[v] # NoRun
                /\ run'[w].phase = "ending"
  <1>1. run \in [Threads -> Run \cup {NoRun}] /\ run[w] \in Run
    BY DEF TaskTypeOK
  <1>2. ASSUME NEW r \in Run \cup {NoRun}, run' = [run EXCEPT ![w] = r]
        PROVE  /\ run' \in [Threads -> Run \cup {NoRun}]
               /\ \A v \in Threads : run'[v] # NoRun => run[v] # NoRun
               /\ run'[w] = r
    BY <1>1, <1>2
  <1>3. ASSUME NEW phase \in Phases, Enters(w, phase)
        PROVE  run' = [run EXCEPT ![w] = [run[w] EXCEPT !.phase = phase]]
               /\ [run[w] EXCEPT !.phase = phase] \in Run
    BY <1>1, <1>3 DEF Enters, Run
  <1>4. ASSUME Finishes(w)
        PROVE  \E r \in Run : run' = [run EXCEPT ![w] = r] /\ r.phase = "ending"
    <2> DEFINE r == [run[w] EXCEPT !.phase = "ending", !.job = "newest",
                                   !.outcome = "pending"]
    <2>1. r \in Run /\ r.phase = "ending"
      BY <1>1 DEF Run, Phases, Handles, Outcomes
    <2>2. run' = [run EXCEPT ![w] = r]
      BY <1>4 DEF Finishes
    <2> QED
      BY <2>1, <2>2
  <1> QED
    BY <1>1, <1>2, <1>3, <1>4

\* The deferrals in the session never pass the cap.
LEMMA JudgesCounts ==
    ASSUME TaskTypeOK, NEW w \in Threads, NEW verdict, NEW blocker, NEW veto,
           Judges(w, verdict, blocker, veto)
    PROVE  /\ session' \in Session
           /\ run' \in [Threads -> Run \cup {NoRun}]
           /\ \A v \in Threads : run'[v] # NoRun => run[v] # NoRun
  <1> DEFINE seen == run[w].seen
             redriven == /\ verdict # "passed" /\ blocker = "rework"
                         /\ MayRedrive(seen, veto)
             outcome == Outcome(verdict, blocker, redriven, seen)
             r == [run[w] EXCEPT !.phase = "closing", !.seen = Untouched, !.outcome = outcome]
  <1>1. run[w] \in Run /\ seen \in Session /\ session \in Session /\ run[w] # NoRun
    BY DEF TaskTypeOK, Judges, In, Run
  <1>2. /\ run' = [run EXCEPT ![w] = r]
        /\ session' = IF ~seen.mine THEN session
                      ELSE IF outcome # "pending" THEN seen
                      ELSE [seen EXCEPT !.deferrals = @ + 1]
    BY DEF Judges
  <1>3. outcome \in Outcomes /\ (outcome = "pending" => ~Stalled(seen))
    BY DEF Outcome, Outcomes
  <1>4. Untouched \in Session
    BY TaskAssumption DEF Untouched, Session
  <1>5. r \in Run
    BY <1>1, <1>3, <1>4 DEF Run, Phases
  <1> HIDE DEF outcome, redriven
  <1>6. session' \in Session
    BY <1>1, <1>2, <1>3, TaskAssumption DEF Stalled, Session
  <1> HIDE DEF r
  <1> QED
    BY <1>1, <1>2, <1>5, <1>6, RunMoves

\* A worker leaves the errands alone, starts no other, and writes a row where
\* there is one.
LEMMA WorksMoves ==
    ASSUME IInv, NEW w \in Threads, Works(w)
    PROVE  /\ TaskTypeOK' /\ Affordable' /\ errand' = errand
           /\ \A v \in Threads : run'[v] # NoRun => run[v] # NoRun
           /\ row.status # "absent" /\ row'.status # "absent"
           /\ \/ row' = row
              \/ row'.status \in Ended /\ row.status \notin Ended
              \/ /\ row'.status = "running"
                 /\ In(w, "recording") /\ ~In(w, "recording")' /\ run[w].outcome = "pending"
  <1> DEFINE Runs == /\ run' \in [Threads -> Run \cup {NoRun}]
                     /\ \A v \in Threads : run'[v] # NoRun => run[v] # NoRun
             Fine == /\ TaskTypeOK' /\ Affordable' /\ errand' = errand /\ Runs
                     /\ row' = row /\ row'.status # "absent"
  <1>1. TaskTypeOK /\ Affordable /\ Unwritten
    BY DEF IInv
  <1>2. run[w] # NoRun
    BY DEF Works, FindsItCancelled, Claims, TerminalizesUnclaimed, ClaimFails, Returns,
           Raises, Interrupted, Judges, ClosesJob, Records, WorkerCancels, Ends, In
  <1>3. row.status # "absent" /\ row \in TaskRow /\ job \in Jobs
    BY <1>1, <1>2 DEF Unwritten, Live, TaskTypeOK, Jobs
  <1>4. ASSUME Runs, job' \in Jobs, Affordable', session' \in Session,
               cancelled' \in BOOLEAN, faults' \in 0..FaultCap,
               UNCHANGED <<row, formal, errand, orphan>>
        PROVE  Fine
    BY <1>1, <1>3, <1>4 DEF TaskTypeOK, Jobs
  <1>5. /\ job' = job => job' \in Jobs /\ Affordable'
        /\ session' = session => session' \in Session
        /\ cancelled' \in {cancelled, FALSE} => cancelled' \in BOOLEAN
        /\ faults' = faults => faults' \in 0..FaultCap
    BY <1>1, JobCalls DEF TaskTypeOK
  <1>6. /\ \A phase \in Phases : Enters(w, phase) => Runs
        /\ \A r \in Run \cup {NoRun} : run' = [run EXCEPT ![w] = r] => Runs
        /\ Finishes(w) => Runs /\ run'[w].phase = "ending"
        /\ run[w] \in Run
    BY <1>1, <1>2, RunMoves
  <1> HIDE DEF Runs, Fine
  <1>7. {"cancelling", "working", "blocked", "looked", "closing", "recording",
         "withdrawing", "ending"} = Phases \ {"begin"}
    BY DEF Phases
  <1>8. ASSUME FindsItCancelled(w)
        PROVE  Fine
    BY <1>3, <1>4, <1>5, <1>6, <1>7, <1>8 DEF FindsItCancelled
  <1>9. ASSUME Claims(w)
        PROVE  Fine
    <2>1. job' \in Jobs /\ Affordable'
      BY <1>1, <1>3, <1>9, TaskAssumption DEF Claims, Affordable, Jobs, Active, Claimable
    <2> QED
      BY <1>3, <1>4, <1>5, <1>6, <1>7, <1>9, <2>1 DEF Claims
  <1>10. ASSUME \E b \in BOOLEAN : ClaimFails(w, b)
        PROVE  Fine
    <2>1. Runs
      BY <1>6, <1>7, <1>10 DEF ClaimFails
    <2> QED
      BY <1>3, <1>4, <1>5, <1>10, <2>1 DEF ClaimFails
  <1>11. ASSUME TerminalizesUnclaimed(w)
        PROVE  Fine
    <2>1. job' \in Jobs /\ Affordable'
      <3>1. CASE \E retry \in BOOLEAN : FailJob(retry)
        BY <1>1, <3>1, JobCalls
      <3>2. CASE job' = job
        BY <1>5, <3>2
      <3>3. CASE /\ run[w].job = "newest" /\ StatusOf(run[w].job) \in Claimable
                 /\ job' = [status |-> "failed", attempts |-> job.attempts + 1]
        BY <1>1, <1>3, <3>3, TaskAssumption
           DEF StatusOf, Affordable, Jobs, Closed, Claimable
      <3> QED
        BY <1>11, <3>1, <3>2, <3>3 DEF TerminalizesUnclaimed
    <2>2. run' = [run EXCEPT ![w] = [run[w] EXCEPT !.phase = "recording", !.job = "newest",
                                                   !.outcome = "failed"]]
      BY <1>1, <1>11 DEF TerminalizesUnclaimed, TaskTypeOK
    <2>3. [run[w] EXCEPT !.phase = "recording", !.job = "newest", !.outcome = "failed"] \in Run
      BY <1>6 DEF Run, Phases, Handles, Outcomes
    <2>4. Runs
      BY <1>6, <2>2, <2>3
    <2> QED
      BY <1>3, <1>4, <1>5, <1>11, <2>1, <2>4 DEF TerminalizesUnclaimed
  <1>12. ASSUME Returns(w)
        PROVE  Fine
    <2>1. CASE cancelled
      BY <1>3, <1>4, <1>5, <1>6, <1>7, <1>12, <2>1 DEF Returns, Enters
    <2>2. CASE ~cancelled
      <3>1. run' = [run EXCEPT ![w] = [run[w] EXCEPT !.phase = "looked", !.seen = session]]
        BY <1>1, <1>12, <2>2 DEF Returns, TaskTypeOK
      <3>2. [run[w] EXCEPT !.phase = "looked", !.seen = session] \in Run
        BY <1>1, <1>6 DEF Run, Phases, TaskTypeOK
      <3>3. Runs
        BY <1>6, <3>1, <3>2
      <3> QED
        BY <1>3, <1>4, <1>5, <1>12, <3>3 DEF Returns
    <2> QED
      BY <2>1, <2>2
  <1>13. ASSUME NEW o \in Outcomes,
                run' = [run EXCEPT ![w].phase = "closing", ![w].outcome = o]
         PROVE  Runs
    <2>1. run' = [run EXCEPT ![w] = [run[w] EXCEPT !.phase = "closing", !.outcome = o]]
      BY <1>1, <1>13 DEF TaskTypeOK
    <2>2. [run[w] EXCEPT !.phase = "closing", !.outcome = o] \in Run
      BY <1>6 DEF Run, Phases
    <2> QED
      BY <1>6, <2>1, <2>2
  <1>14. ASSUME Raises(w) \/ Interrupted(w)
        PROVE  Fine
    <2>1. Runs
      BY <1>13, <1>14 DEF Raises, Interrupted, Outcomes
    <2>2. faults' \in 0..FaultCap
      BY <1>1, <1>14, TaskAssumption DEF Raises, Interrupted, TaskTypeOK
    <2> QED
      BY <1>3, <1>4, <1>5, <1>14, <2>1, <2>2 DEF Raises, Interrupted
  <1>15. ASSUME NEW verdict, NEW blocker, NEW veto, Judges(w, verdict, blocker, veto)
         PROVE  Fine
    <2>1. Runs /\ session' \in Session
      BY <1>1, <1>15, JudgesCounts DEF Runs
    <2> QED
      BY <1>4, <1>5, <1>15, <2>1 DEF Judges
  <1>16. ASSUME \E lapsed \in BOOLEAN : ClosesJob(w, lapsed)
        PROVE  Fine
    <2>1. job' \in Jobs /\ Affordable'
      BY <1>1, <1>5, <1>16, JobCalls DEF ClosesJob, Closed
    <2>2. run' = [run EXCEPT ![w] = [run[w] EXCEPT !.phase = "recording", !.job = "newest"]]
      BY <1>1, <1>16 DEF ClosesJob, TaskTypeOK
    <2>3. [run[w] EXCEPT !.phase = "recording", !.job = "newest"] \in Run
      BY <1>6 DEF Run, Phases, Handles
    <2>4. Runs
      BY <1>6, <2>2, <2>3
    <2> QED
      BY <1>3, <1>4, <1>5, <1>16, <2>1, <2>4 DEF ClosesJob
  <1>17. CASE Records(w)
    <2>1. Runs /\ run'[w].phase = "ending" /\ run[w].outcome \in Outcomes
      BY <1>6, <1>17 DEF Records, Run
    <2>2. /\ row' \in TaskRow /\ row'.status # "absent"
          /\ \/ row' = row
             \/ row'.status \in Ended /\ row.status \notin Ended
             \/ row'.status = "running" /\ run[w].outcome = "pending"
      <3>1. CASE run[w].outcome = "pending"
        BY <1>1, <1>17, <3>1, RowCalls DEF Records
      <3>2. CASE run[w].outcome \in {"succeeded", "failed"}
        <4>1. MarkTerminal(run[w].outcome, TRUE)
          BY <1>17, <3>2 DEF Records
        <4>2. row' = IF MayEnd THEN Written(run[w].outcome, run[w].outcome = "succeeded")
                               ELSE row
          BY <4>1 DEF MarkTerminal
        <4>3. MarkTerminal(run[w].outcome, run[w].outcome = "succeeded")
          BY <4>2 DEF MarkTerminal
        <4> QED
          BY <1>1, <3>2, <4>2, <4>3, RowCalls DEF MayEnd, Ended
      <3> QED
        BY <2>1, <3>1, <3>2 DEF Outcomes
    <2>3. TaskTypeOK' /\ Affordable' /\ errand' = errand
      BY <1>1, <1>5, <1>17, <2>1, <2>2 DEF Records, TaskTypeOK, Jobs, Runs
    <2>4. In(w, "recording") /\ ~In(w, "recording")'
      BY <1>17, <2>1 DEF Records, In
    <2> QED
      BY <1>3, <2>1, <2>2, <2>3, <2>4 DEF Runs
  <1>18. CASE WorkerCancels(w)
    <2>1. Runs /\ UNCHANGED <<formal, session, cancelled, errand, orphan, faults>>
      BY <1>6, <1>7, <1>18 DEF WorkerCancels
    <2>2. job' \in Jobs /\ Affordable'
      BY <1>1, <1>5, <1>18, JobCalls DEF WorkerCancels
    <2>3. /\ row' \in TaskRow /\ row'.status # "absent"
          /\ row' = row \/ (row'.status \in Ended /\ row.status \notin Ended)
      BY <1>1, <1>3, <1>18, RowCalls DEF WorkerCancels, Ended
    <2> QED
      BY <1>1, <1>3, <2>1, <2>2, <2>3 DEF TaskTypeOK, Jobs, Runs
  <1>19. ASSUME Ends(w)
         PROVE  Fine
    BY <1>4, <1>5, <1>6, <1>19 DEF Ends
  <1>20. CASE \E verdict \in {"passed", "failed", "pending"},
                 blocker \in {"none", "rework", "decision"}, veto \in BOOLEAN :
                 Judges(w, verdict, blocker, veto)
    BY <1>3, <1>15, <1>20 DEF Fine, Runs
  <1>21. CASE Fine
    BY <1>3, <1>21 DEF Fine, Runs
  <1> QED
    BY <1>8, <1>9, <1>10, <1>11, <1>12, <1>14, <1>16, <1>17, <1>18, <1>19, <1>20, <1>21
       DEF Works

\* An ended row moves only as EndedRows allows.
RowRule == row.status \in Ended /\ row'.status # row.status =>
    \/ /\ row'.status = "running"
       /\ ActsOnOldNews \/ (row.status = "succeeded" /\ ~row.passed)
    \/ \E a \in Actors : /\ At(a, "stamping") /\ At(a, "stamped")'
                         /\ errand[a].read = row'.status

LEMMA WorksKeeps ==
    ASSUME IInv, NEW w \in Threads, Works(w)
    PROVE  IInv' /\ RowRule
  <1>1. /\ TaskTypeOK' /\ Affordable' /\ errand' = errand
        /\ \A v \in Threads : run'[v] # NoRun => run[v] # NoRun
        /\ row.status # "absent" /\ row'.status # "absent"
        /\ \/ row' = row
           \/ row'.status \in Ended /\ row.status \notin Ended
           \/ /\ row'.status = "running"
              /\ In(w, "recording") /\ ~In(w, "recording")' /\ run[w].outcome = "pending"
    BY WorksMoves
  <1>2. OneThread'
    BY <1>1 DEF IInv, OneThread
  <1>3. Unwritten' /\ ReadsARow'
    BY <1>1 DEF IInv, Unwritten, ReadsARow, At
  <1>4. RowRule
    BY <1>1 DEF RowRule, ActsOnOldNews
  <1> QED
    BY <1>1, <1>2, <1>3, <1>4 DEF IInv

-----------------------------------------------------------------------------
(* The watchdog, the owner and the delegation runner *)

\* Whoever has an errand, but for the delegation runner that found no row, has
\* seen one.
LEMMA HasRow ==
    ASSUME IInv, NEW a \in Actors, errand[a] # NoErrand, errand[a].step # "found"
    PROVE  row.status # "absent"
  BY DEF IInv, Unwritten, At, Actors

LEMMA ErrandMoves ==
    ASSUME TaskTypeOK, NEW a \in Actors
    PROVE  /\ \A e \in Errand \cup {NoErrand} : errand' = [errand EXCEPT ![a] = e] =>
                /\ errand' \in [Actors -> Errand \cup {NoErrand}] /\ errand'[a] = e
                /\ \A c \in Actors \ {a} : errand'[c] = errand[c]
           /\ \A s \in Steps : errand' = Does(a, s) /\ errand[a] # NoErrand =>
                /\ errand' \in [Actors -> Errand \cup {NoErrand}]
                /\ errand'[a] # NoErrand /\ errand'[a].step = s
                /\ errand'[a].read = errand[a].read
                /\ \A c \in Actors \ {a} : errand'[c] = errand[c]
  <1>1. errand \in [Actors -> Errand \cup {NoErrand}]
    BY DEF TaskTypeOK
  <1>2. ASSUME NEW s \in Steps, errand' = Does(a, s), errand[a] # NoErrand
        PROVE  /\ errand' \in [Actors -> Errand \cup {NoErrand}]
               /\ errand'[a] # NoErrand /\ errand'[a].step = s
               /\ errand'[a].read = errand[a].read
               /\ \A c \in Actors \ {a} : errand'[c] = errand[c]
    <2> DEFINE e == [errand[a] EXCEPT !.step = s]
    <2>1. errand[a] \in Errand
      BY <1>1, <1>2
    <2>2. e \in Errand /\ e.step = s /\ e.read = errand[a].read
      BY <2>1 DEF Errand
    <2>3. errand' = [errand EXCEPT ![a] = e]
      BY <1>2 DEF Does
    <2> HIDE DEF e
    <2> QED
      BY <1>1, <2>2, <2>3, NothingAssumption
  <1> QED
    BY <1>1, <1>2

\* What an actor must leave behind for the next.
LEMMA ActorKeeps ==
    ASSUME IInv, NEW a \in Actors, row.status # "absent", row'.status # "absent",
           \/ errand'[a] = NoErrand
           \/ /\ errand'[a].step # "found"
              /\ errand'[a].step = "stamping" => errand'[a].read # "absent",
           \A c \in Actors \ {a} : errand'[c] # NoErrand =>
              /\ errand[c] # NoErrand
              /\ errand'[c].step = errand[c].step /\ errand'[c].read = errand[c].read
    PROVE  Unwritten' /\ ReadsARow'
  <1>1. ~At("caller", "found") /\ ReadsARow
    BY DEF IInv, Unwritten
  <1>2. ASSUME NEW c \in Actors
        PROVE  /\ c = "caller" => ~At(c, "found")'
               /\ At(c, "stamping")' => errand'[c].read # "absent"
    <2>1. CASE c = a
      BY <2>1 DEF At
    <2>2. CASE c # a
      BY <1>1, <2>2 DEF At, ReadsARow
    <2> QED
      BY <2>1, <2>2
  <1>3. ReadsARow'
    BY <1>2 DEF ReadsARow, At
  <1>4. ~At("caller", "found")'
    BY <1>2 DEF Actors
  <1> QED
    BY <1>3, <1>4 DEF Unwritten

LEMMA ResumesKeeps ==
    ASSUME IInv, NEW a \in Actors, Resumes(a)
    PROVE  IInv' /\ RowRule
  <1>1. TaskTypeOK /\ OneThread /\ Affordable /\ Unwritten /\ ReadsARow
    BY DEF IInv
  <1>2. row \in TaskRow /\ (job' = job => job' \in Jobs /\ Affordable')
    BY <1>1, JobCalls DEF TaskTypeOK
  <1>3. {"listed", "reopened", "stamping", "stamped"} \subseteq Steps
    BY DEF Steps
  <1>4. CASE Lists(a)
    <2>1. row.status # "absent" /\ row' = row
      BY <1>4, <1>1 DEF Lists, MayResume
    <2>2. /\ errand' = [errand EXCEPT ![a] = Doing("listed")]
          /\ Doing("listed") \in Errand /\ Doing("listed").step = "listed"
      BY <1>3, <1>4, DoingTyped DEF Lists, Begins
    <2>3. /\ errand' \in [Actors -> Errand \cup {NoErrand}]
          /\ errand'[a].step = "listed"
          /\ \A c \in Actors \ {a} : errand'[c] = errand[c]
      BY <1>1, <2>2, ErrandMoves
    <2>4. Unwritten' /\ ReadsARow'
      BY <2>1, <2>3, ActorKeeps
    <2>5. TaskTypeOK' /\ OneThread' /\ Affordable'
      BY <1>1, <1>4, <2>3 DEF Lists, TaskTypeOK, OneThread, Affordable
    <2> QED
      BY <2>1, <2>4, <2>5 DEF IInv, RowRule
  <1>5. CASE Reopens(a)
    <2>1. row.status # "absent" /\ errand[a] # NoErrand /\ errand[a].step = "listed"
      BY <1>5, HasRow DEF Reopens, At
    <2>2. CASE Live # {}
      <3>1. errand' = [errand EXCEPT ![a] = NoErrand] /\ row' = row
        BY <1>5, <2>2 DEF Reopens, Leaves
      <3>2. /\ errand' \in [Actors -> Errand \cup {NoErrand}] /\ errand'[a] = NoErrand
            /\ \A c \in Actors \ {a} : errand'[c] = errand[c]
        BY <1>1, <3>1, ErrandMoves
      <3>3. Unwritten' /\ ReadsARow'
        BY <2>1, <3>1, <3>2, ActorKeeps
      <3>4. TaskTypeOK' /\ OneThread' /\ Affordable'
        BY <1>1, <1>5, <2>2, <3>2 DEF Reopens, TaskTypeOK, OneThread, Affordable
      <3> QED
        BY <3>1, <3>3, <3>4 DEF IInv, RowRule
    <2>3. CASE Live = {}
      <3>1. errand' = Does(a, "reopened") /\ Create("running") /\ session' = Kept
            /\ cancelled' = FALSE /\ UNCHANGED <<formal, job, run, orphan, faults>>
        BY <1>5, <2>3 DEF Reopens
      <3>2. /\ errand' \in [Actors -> Errand \cup {NoErrand}]
            /\ errand'[a] # NoErrand /\ errand'[a].step = "reopened"
            /\ \A c \in Actors \ {a} : errand'[c] = errand[c]
        BY <1>1, <1>3, <2>1, <3>1, ErrandMoves
      <3>3. row' \in TaskRow /\ row'.status = "running"
        BY <1>1, <3>1, RowCalls DEF RowStatuses
      <3>4. session' \in Session
        BY <1>1, <3>1, SessionsTyped DEF Kept, TaskTypeOK
      <3>5. Unwritten' /\ ReadsARow'
        BY <2>1, <3>2, <3>3, ActorKeeps
      <3>6. TaskTypeOK' /\ OneThread' /\ Affordable'
        BY <1>1, <3>1, <3>2, <3>3, <3>4 DEF TaskTypeOK, OneThread, Affordable
      <3>7. RowRule
        BY <2>1, <3>2, <3>3 DEF RowRule, ActsOnOldNews, At
      <3> QED
        BY <3>5, <3>6, <3>7 DEF IInv
    <2> QED
      BY <2>2, <2>3
  <1>6. CASE Enqueues(a)
    <2> DEFINE next == [errand[a] EXCEPT !.step = "stamping", !.read = row.status]
    <2>1. row.status # "absent" /\ errand[a] # NoErrand /\ errand[a] \in Errand
      BY <1>1, <1>6, HasRow DEF Enqueues, At, TaskTypeOK
    <2>2. next \in Errand /\ next.step = "stamping" /\ next.read = row.status
      BY <1>2, <1>3, <2>1 DEF Errand, TaskRow
    <2>3. /\ \/ Inserts(a, next)
             \/ /\ FindsActive(a, next)
                /\ (\E retry \in BOOLEAN : FailJob(retry)) \/ job' = job
          /\ UNCHANGED <<row, formal, session, cancelled, faults>>
      BY <1>6 DEF Enqueues
    <2> HIDE DEF next
    <2>4. /\ job' \in Jobs /\ Affordable'
          /\ run' \in [Threads -> Run \cup {NoRun}]
          /\ \A w \in Threads : run'[w] # NoRun => run[w] # NoRun
          /\ errand' \in [Actors -> Errand \cup {NoErrand}]
          /\ orphan' \in BOOLEAN
          /\ errand'[a] = next
          /\ \A c \in Actors \ {a} :
               /\ errand[c] = NoErrand => errand'[c] = NoErrand
               /\ errand[c] # NoErrand => /\ errand'[c] # NoErrand
                                          /\ errand'[c].step = errand[c].step
                                          /\ errand'[c].read = errand[c].read
      BY <1>1, <2>2, <2>3, EnqueueMoves
    <2>5. Unwritten' /\ ReadsARow'
      BY <2>1, <2>2, <2>3, <2>4, ActorKeeps
    <2>6. TaskTypeOK' /\ OneThread'
      BY <1>1, <2>3, <2>4 DEF TaskTypeOK, OneThread, Jobs
    <2> QED
      BY <2>3, <2>4, <2>5, <2>6 DEF IInv, RowRule
  <1>7. CASE Stamps(a)
    <2>1. /\ row.status # "absent" /\ errand[a] # NoErrand /\ errand[a] \in Errand
          /\ errand[a].step = "stamping"
          /\ errand[a].read # "absent" /\ errand[a].read \in RowStatuses
      BY <1>1, <1>7, HasRow DEF Stamps, At, TaskTypeOK, ReadsARow, Errand
    <2> DEFINE next == [errand[a] EXCEPT !.step = "stamped", !.read = "absent"]
    <2>2. next \in Errand /\ next.step = "stamped"
      BY <1>3, <2>1 DEF Errand, RowStatuses
    <2>3. errand' = [errand EXCEPT ![a] = next] /\ Create(errand[a].read)
          /\ UNCHANGED <<formal, job, session, cancelled, run, orphan, faults>>
      BY <1>1, <1>7 DEF Stamps, TaskTypeOK
    <2> HIDE DEF next
    <2>4. /\ errand' \in [Actors -> Errand \cup {NoErrand}] /\ errand'[a] = next
          /\ \A c \in Actors \ {a} : errand'[c] = errand[c]
      BY <1>1, <2>2, <2>3, ErrandMoves
    <2>5. row' \in TaskRow /\ row'.status = errand[a].read
      BY <1>1, <2>1, <2>3, RowCalls
    <2>6. Unwritten' /\ ReadsARow'
      BY <2>1, <2>2, <2>4, <2>5, ActorKeeps
    <2>7. TaskTypeOK' /\ OneThread' /\ Affordable'
      BY <1>1, <2>3, <2>4, <2>5 DEF TaskTypeOK, OneThread, Affordable
    <2>8. RowRule
      BY <2>1, <2>2, <2>4, <2>5, NothingAssumption DEF RowRule, At
    <2> QED
      BY <2>6, <2>7, <2>8 DEF IInv
  <1>8. CASE StartsThread(a)
    <2>1. /\ row.status # "absent" /\ errand[a] # NoErrand /\ errand[a] \in Errand
          /\ Live = {} /\ row' = row
          /\ UNCHANGED <<formal, job, session, cancelled, orphan, faults>>
      BY <1>1, <1>8, HasRow DEF StartsThread, At, TaskTypeOK, Running
    <2>2. errand' = [errand EXCEPT ![a] = NoErrand]
      BY <1>8 DEF StartsThread, Leaves
    <2>3. /\ errand' \in [Actors -> Errand \cup {NoErrand}] /\ errand'[a] = NoErrand
          /\ \A c \in Actors \ {a} : errand'[c] = errand[c]
      BY <1>1, <2>2, ErrandMoves
    <2>4. PICK w \in Threads :
            run' = [run EXCEPT ![w] = [phase |-> "begin", job |-> errand[a].job,
                                       outcome |-> "pending", seen |-> Untouched]]
      BY <1>8 DEF StartsThread
    <2>5. Untouched \in Session /\ errand[a].job \in Handles
      BY <2>1, TaskAssumption DEF Untouched, Session, Errand
    <2>6. [phase |-> "begin", job |-> errand[a].job, outcome |-> "pending",
           seen |-> Untouched] \in Run
      BY <2>5 DEF Run, Phases, Outcomes
    <2>7. run' \in [Threads -> Run \cup {NoRun}] /\ \A v \in Threads : run'[v] # NoRun => v = w
      BY <1>1, <2>1, <2>4, <2>6 DEF TaskTypeOK, Live
    <2>8. Unwritten' /\ ReadsARow'
      BY <2>1, <2>3, ActorKeeps
    <2>9. TaskTypeOK' /\ OneThread' /\ Affordable'
      BY <1>1, <2>1, <2>3, <2>7 DEF TaskTypeOK, OneThread, Affordable
    <2> QED
      BY <2>1, <2>8, <2>9 DEF IInv, RowRule
  <1>9. CASE StartsNothing(a)
    <2>1. row.status # "absent" /\ errand[a] # NoErrand /\ errand[a].step = "stamped"
      BY <1>9, HasRow DEF StartsNothing, At
    <2>2. errand' = [errand EXCEPT ![a] = NoErrand]
      BY <1>9 DEF StartsNothing, Leaves
    <2>3. /\ errand' \in [Actors -> Errand \cup {NoErrand}] /\ errand'[a] = NoErrand
          /\ \A c \in Actors \ {a} : errand'[c] = errand[c]
      BY <1>1, <2>2, ErrandMoves
    <2>4. /\ row' \in TaskRow /\ faults' \in 0..FaultCap
          /\ row' = row \/ row'.status = "running"
      BY <1>1, <1>2, <1>9, RowCalls, TaskAssumption DEF StartsNothing, TaskTypeOK
    <2>5. Unwritten' /\ ReadsARow'
      BY <2>1, <2>3, <2>4, ActorKeeps
    <2>6. TaskTypeOK' /\ OneThread' /\ Affordable'
      BY <1>1, <1>9, <2>3, <2>4 DEF StartsNothing, TaskTypeOK, OneThread, Affordable
    <2>7. RowRule
      BY <2>1, <2>3, <2>4 DEF RowRule, ActsOnOldNews, At
    <2> QED
      BY <2>5, <2>6, <2>7 DEF IInv
  <1> QED
    BY <1>4, <1>5, <1>6, <1>7, <1>8, <1>9 DEF Resumes

\* The owner and the delegation runner are one actor, the caller.
LEMMA OwnerKeeps ==
    ASSUME IInv, OwnerOrDelegate
    PROVE  IInv' /\ RowRule
  <1>1. TaskTypeOK /\ OneThread /\ Affordable /\ Unwritten /\ ReadsARow
        /\ "caller" \in Actors /\ "watchdog" \in Actors
    BY DEF IInv, Actors
  <1>2. row \in TaskRow /\ (job' = job => job' \in Jobs /\ Affordable')
    BY <1>1, JobCalls DEF TaskTypeOK
  <1>3. {"reopened", "cancelled", "found", "booted"} \subseteq Steps
    BY DEF Steps
  <1>4. ASSUME NEW e \in Errand \cup {NoErrand}, errand' = [errand EXCEPT !["caller"] = e]
        PROVE  /\ errand' \in [Actors -> Errand \cup {NoErrand}] /\ errand'["caller"] = e
               /\ \A c \in Actors \ {"caller"} : errand'[c] = errand[c]
               /\ errand'["watchdog"] = errand["watchdog"]
    BY <1>1, <1>4, ErrandMoves
  <1>5. CASE StartsTask
    <2>1. /\ errand' = [errand EXCEPT !["caller"] = Doing("reopened")]
          /\ row.status = "absent" /\ Create("running")
          /\ session' = [Untouched EXCEPT !.mine = TRUE]
          /\ UNCHANGED <<formal, job, cancelled, run, orphan, faults>>
      BY <1>5 DEF StartsTask, Begins
    <2>2. Doing("reopened") \in Errand /\ Doing("reopened").step = "reopened"
      BY <1>3, DoingTyped
    <2>3. /\ errand' \in [Actors -> Errand \cup {NoErrand}]
          /\ errand'["caller"].step = "reopened" /\ errand'["watchdog"] = errand["watchdog"]
      BY <1>4, <2>1, <2>2
    <2>4. row' \in TaskRow /\ row'.status = "running"
      BY <1>1, <2>1, RowCalls DEF RowStatuses
    <2>5. session' \in Session
      BY <2>1, SessionsTyped
    <2>6. TaskTypeOK' /\ OneThread' /\ Affordable'
      BY <1>1, <2>1, <2>3, <2>4, <2>5 DEF TaskTypeOK, OneThread, Affordable
    <2>7. errand["watchdog"] = NoErrand
      BY <1>1, <2>1 DEF Unwritten
    <2>8. Unwritten' /\ ReadsARow'
      BY <2>3, <2>4, <2>7 DEF Unwritten, ReadsARow, At, Actors
    <2>9. RowRule
      BY <2>1 DEF RowRule, Ended
    <2> QED
      BY <2>6, <2>8, <2>9 DEF IInv
  <1>6. CASE AsksToCancel
    <2> DEFINE e == [Doing("cancelled") EXCEPT !.live = Live # {}]
    <2>1. e \in Errand /\ e.step = "cancelled"
      <3>1. \A d \in Errand, b \in BOOLEAN : [d EXCEPT !.live = b] \in Errand
                                             /\ [d EXCEPT !.live = b].step = d.step
        BY DEF Errand
      <3> QED
        BY <1>3, <3>1, DoingTyped
    <2>2. /\ errand' = [errand EXCEPT !["caller"] = e]
          /\ row.status # "absent" /\ cancelled' = TRUE /\ MarkTerminal("cancelled", FALSE)
          /\ UNCHANGED <<formal, job, session, run, orphan, faults>>
      BY <1>6 DEF AsksToCancel, Begins
    <2> HIDE DEF e
    <2>3. /\ errand' \in [Actors -> Errand \cup {NoErrand}] /\ errand'["caller"] = e
          /\ \A c \in Actors \ {"caller"} : errand'[c] = errand[c]
      BY <1>4, <2>1, <2>2
    <2>4. row' \in TaskRow /\ row'.status \in Ended /\ (row.status \in Ended => row' = row)
      BY <1>1, <2>2, RowCalls
    <2>5. row'.status # "absent"
      BY <2>4 DEF Ended
    <2>6. Unwritten' /\ ReadsARow'
      BY <1>1, <2>1, <2>2, <2>3, <2>5, ActorKeeps
    <2>7. TaskTypeOK' /\ OneThread' /\ Affordable'
      BY <1>1, <2>2, <2>3, <2>4 DEF TaskTypeOK, OneThread, Affordable
    <2> QED
      BY <2>4, <2>6, <2>7 DEF IInv, RowRule
  <1>7. CASE CancelsJob
    <2>1. /\ errand' = [errand EXCEPT !["caller"] = NoErrand] /\ row' = row
          /\ UNCHANGED <<formal, session, run, orphan, faults>>
          /\ cancelled' \in BOOLEAN
      BY <1>7 DEF CancelsJob, Leaves
    <2>2. row.status # "absent"
      BY <1>1, <1>7, HasRow DEF CancelsJob, At
    <2>3. /\ errand' \in [Actors -> Errand \cup {NoErrand}] /\ errand'["caller"] = NoErrand
          /\ \A c \in Actors \ {"caller"} : errand'[c] = errand[c]
      BY <1>4, <2>1
    <2>4. Unwritten' /\ ReadsARow'
      BY <1>1, <2>1, <2>2, <2>3, ActorKeeps
    <2>5. job' \in Jobs /\ Affordable'
      BY <1>1, <1>7, JobCalls DEF CancelsJob
    <2>6. TaskTypeOK' /\ OneThread'
      BY <1>1, <2>1, <2>3, <2>5 DEF TaskTypeOK, OneThread, Jobs
    <2> QED
      BY <2>1, <2>4, <2>5, <2>6 DEF IInv, RowRule
  <1>8. CASE LooksForTask
    <2> DEFINE step == IF row.status = "absent" THEN "found" ELSE "booted"
    <2>1. /\ errand' = [errand EXCEPT !["caller"] = Doing(step)] /\ row' = row
          /\ UNCHANGED <<formal, job, session, cancelled, run, orphan, faults>>
      BY <1>8 DEF LooksForTask, Begins
    <2>2. Doing(step) \in Errand /\ Doing(step).step = step /\ Doing(step) # NoErrand
      BY <1>3, DoingTyped
    <2>3. /\ errand' \in [Actors -> Errand \cup {NoErrand}]
          /\ errand'["caller"] # NoErrand /\ errand'["caller"].step = step
          /\ \A c \in Actors \ {"caller"} : errand'[c] = errand[c]
          /\ errand'["watchdog"] = errand["watchdog"]
      BY <1>4, <2>1, <2>2
    <2>4. Unwritten' /\ ReadsARow'
      <3>1. CASE row.status = "absent"
        BY <1>1, <2>1, <2>3, <3>1 DEF Unwritten, ReadsARow, At, Actors, Live
      <3>2. CASE row.status # "absent"
        BY <1>1, <2>1, <2>3, <3>2, ActorKeeps
      <3> QED
        BY <3>1, <3>2
    <2>5. TaskTypeOK' /\ OneThread' /\ Affordable'
      BY <1>1, <2>1, <2>3 DEF TaskTypeOK, OneThread, Affordable
    <2> QED
      BY <2>1, <2>4, <2>5 DEF IInv, RowRule
  <1>9. CASE Materialises
    <2>1. /\ errand' = Does("caller", "booted") /\ Create("running")
          /\ errand["caller"] # NoErrand /\ At("caller", "found")
          /\ UNCHANGED <<formal, job, session, cancelled, run, orphan, faults>>
      BY <1>9 DEF Materialises, At
    <2>2. row.status = "absent" /\ errand["watchdog"] = NoErrand
      BY <1>1, <2>1 DEF Unwritten
    <2>3. /\ errand' \in [Actors -> Errand \cup {NoErrand}]
          /\ errand'["caller"].step = "booted"
          /\ errand'["watchdog"] = NoErrand
      BY <1>1, <1>3, <2>1, <2>2, ErrandMoves
    <2>4. row' \in TaskRow /\ row'.status = "running"
      BY <1>1, <2>1, RowCalls DEF RowStatuses
    <2>5. Unwritten' /\ ReadsARow'
      BY <2>3, <2>4 DEF Unwritten, ReadsARow, At, Actors
    <2>6. TaskTypeOK' /\ OneThread' /\ Affordable'
      BY <1>1, <2>1, <2>3, <2>4 DEF TaskTypeOK, OneThread, Affordable
    <2> QED
      BY <2>2, <2>5, <2>6 DEF IInv, RowRule, Ended
  <1>10. CASE Reserves
    <2>1. /\ \/ Inserts("caller", NoErrand)
             \/ FindsActive("caller", NoErrand) /\ job' = job
          /\ UNCHANGED <<row, formal, session, cancelled, faults>>
      BY <1>10 DEF Reserves
    <2>2. row.status # "absent"
      BY <1>1, <1>10, HasRow DEF Reserves, At
    <2>3. /\ job' \in Jobs /\ Affordable'
          /\ run' \in [Threads -> Run \cup {NoRun}]
          /\ \A w \in Threads : run'[w] # NoRun => run[w] # NoRun
          /\ errand' \in [Actors -> Errand \cup {NoErrand}]
          /\ orphan' \in BOOLEAN
          /\ errand'["caller"] = NoErrand
          /\ \A c \in Actors \ {"caller"} :
               /\ errand[c] = NoErrand => errand'[c] = NoErrand
               /\ errand[c] # NoErrand => /\ errand'[c] # NoErrand
                                          /\ errand'[c].step = errand[c].step
                                          /\ errand'[c].read = errand[c].read
      BY <1>1, <2>1, EnqueueMoves
    <2>4. Unwritten' /\ ReadsARow'
      BY <1>1, <2>1, <2>2, <2>3, ActorKeeps
    <2>5. TaskTypeOK' /\ OneThread'
      BY <1>1, <2>1, <2>3 DEF TaskTypeOK, OneThread, Jobs
    <2> QED
      BY <2>1, <2>3, <2>4, <2>5 DEF IInv, RowRule
  <1> QED
    BY <1>1, <1>5, <1>6, <1>7, <1>8, <1>9, <1>10, ResumesKeeps DEF OwnerOrDelegate

-----------------------------------------------------------------------------
(* The daemon, restarts, other tasks *)

LEMMA RestKeeps ==
    ASSUME IInv, DaemonStep \/ Restarts \/ SessionTaken \/ UNCHANGED vars
    PROVE  IInv' /\ RowRule
  <1>1. TaskTypeOK /\ OneThread /\ Affordable /\ Unwritten /\ ReadsARow
    BY DEF IInv
  <1>2. /\ row \in TaskRow /\ (job' = job => job' \in Jobs /\ Affordable')
        /\ \A retry \in BOOLEAN : FailJob(retry) => job' \in Jobs /\ Affordable'
        /\ CancelJob => job' \in Jobs /\ Affordable'
    BY <1>1, JobCalls DEF TaskTypeOK
  <1>3. ASSUME UNCHANGED <<run, errand>>, row.status # "absent" <=> row'.status # "absent"
        PROVE  OneThread' /\ Unwritten' /\ ReadsARow'
    BY <1>1, <1>3 DEF OneThread, Unwritten, ReadsARow, At, Live
  <1>4. CASE DaemonStep
    <2>1. UNCHANGED <<formal, session, cancelled, run, errand>>
      BY <1>4 DEF DaemonStep, Daemon, SeesOrphan, CancelsOrphan, LaneRequeues
    <2>2. job' \in Jobs /\ Affordable' /\ orphan' \in BOOLEAN
      BY <1>1, <1>2, <1>4 DEF DaemonStep, Daemon, SeesOrphan, CancelsOrphan, LaneRequeues,
                              TaskTypeOK
    <2>3. CASE row' = row /\ faults' = faults
      BY <1>1, <1>3, <2>1, <2>2, <2>3 DEF IInv, RowRule, TaskTypeOK, Jobs
    <2>4. CASE LedgerPass
      <3>1. faults' \in 0..FaultCap
        BY <1>1, <2>4, TaskAssumption DEF LedgerPass, TaskTypeOK
      <3>2. /\ row' \in TaskRow /\ row.status # "absent" /\ row'.status # "absent"
            /\ \/ row.status = "succeeded" /\ ~row.passed /\ row'.status = "running"
               \/ row.status = "running"
        BY <2>4, RowsWritten
           DEF LedgerPass, ReconcileFalseSuccess, MarkStaleRunningLost, RowStatuses, Ended
      <3>3. RowRule
        BY <3>2 DEF RowRule, Ended
      <3> QED
        BY <1>1, <1>3, <2>1, <2>2, <3>1, <3>2, <3>3 DEF IInv, TaskTypeOK, Jobs
    <2> QED
      BY <1>4, <2>3, <2>4 DEF DaemonStep, Daemon, SeesOrphan, CancelsOrphan, LaneRequeues
  <1>5. CASE Restarts
    <2>1. /\ \A w \in Threads : run'[w] = NoRun
          /\ \A a \in Actors : errand'[a] = NoErrand
          /\ run' \in [Threads -> Run \cup {NoRun}]
          /\ errand' \in [Actors -> Errand \cup {NoErrand}]
          /\ cancelled' = FALSE /\ orphan' = FALSE
          /\ UNCHANGED <<row, formal, job, session>>
      BY <1>5 DEF Restarts
    <2>2. faults' \in 0..FaultCap
      BY <1>1, <1>5, TaskAssumption DEF Restarts, TaskTypeOK
    <2>3. Unwritten' /\ ReadsARow' /\ OneThread'
      BY <2>1 DEF Unwritten, ReadsARow, OneThread, At, Actors, Live
    <2>4. TaskTypeOK' /\ Affordable'
      BY <1>1, <1>2, <2>1, <2>2 DEF TaskTypeOK
    <2> QED
      BY <2>1, <2>3, <2>4 DEF IInv, RowRule
  <1>6. CASE SessionTaken
    <2>1. session' \in Session /\ faults' \in 0..FaultCap
      BY <1>1, <1>6, TaskAssumption DEF SessionTaken, Untouched, Session, TaskTypeOK
    <2>2. UNCHANGED <<row, formal, job, cancelled, run, errand, orphan>>
      BY <1>6 DEF SessionTaken
    <2> QED
      BY <1>1, <1>2, <1>3, <2>1, <2>2 DEF IInv, RowRule, TaskTypeOK
  <1>7. CASE UNCHANGED vars
    BY <1>1, <1>2, <1>3, <1>7 DEF vars, IInv, RowRule, TaskTypeOK
  <1> QED
    BY <1>4, <1>5, <1>6, <1>7

-----------------------------------------------------------------------------
(* Theorems *)

LEMMA InitIInv == Init => IInv
  <1> SUFFICES ASSUME Init
               PROVE  IInv
    OBVIOUS
  <1>1. TaskTypeOK
    <2>1. row \in TaskRow
      BY RowsWritten DEF Init, NoRow, RowStatuses
    <2>2. job \in Jobs
      BY TaskAssumption DEF Init, Jobs
    <2>3. faults \in 0..FaultCap
      BY TaskAssumption DEF Init
    <2> QED
      BY <2>1, <2>2, <2>3, SessionsTyped DEF Init, TaskTypeOK, Jobs
  <1>2. row.status = "absent" /\ job.status \notin Claimable
    BY DEF Init, NoRow, Written, Claimable
  <1>3. OneThread /\ Affordable /\ Unwritten /\ ReadsARow
    BY <1>2 DEF Init, OneThread, Affordable, Unwritten, ReadsARow, At, Live, Actors
  <1> QED
    BY <1>1, <1>3 DEF IInv

LEMMA StepKeeps ==
    ASSUME IInv, [Next]_vars
    PROVE  IInv' /\ RowRule
  <1>1. "watchdog" \in Actors
    BY DEF Actors
  <1> QED
    BY <1>1, WorksKeeps, ResumesKeeps, OwnerKeeps, RestKeeps DEF Next

LEMMA Inductive == Spec => []IInv
  <1>1. IInv /\ [Next]_vars => IInv'
    BY StepKeeps
  <1> QED
    BY InitIInv, <1>1, PTL DEF Spec

\* Types are kept: the deferrals in the session stay within their cap although
\* they are read, judged and written back in three steps, and a job is not
\* claimed more often than it has attempts.
THEOREM TypeCorrect == Spec => []TaskTypeOK
  <1>1. IInv => TaskTypeOK
    BY DEF IInv
  <1> QED
    BY Inductive, <1>1, PTL

\* With any number of worker threads, resumes and restarts, a task runs in one
\* thread at most.
THEOREM OneRunAlways == Spec => []OneRun
  <1>1. ASSUME IInv
        PROVE  OneRun
    <2>1. CASE Live = {}
      BY <2>1, FS_EmptySet DEF OneRun
    <2>2. CASE Live # {}
      <3>1. PICK w : w \in Live
        BY <2>2
      <3>2. Live = {w}
        BY <1>1, <3>1 DEF IInv, OneThread, Live
      <3>3. Cardinality({w}) = 1
        BY FS_Singleton
      <3> QED
        BY <3>2, <3>3 DEF OneRun
    <2> QED
      BY <2>1, <2>2
  <1> QED
    BY Inductive, <1>1, PTL

\* An ended row is moved by nobody but the owner, the pass over unverified
\* successes, and the calls that go by what they had read.
THEOREM EndedRowsStay == Spec => EndedRows
  <1>1. IInv /\ [Next]_vars => [RowRule]_vars
    BY StepKeeps
  <1> QED
    BY Inductive, <1>1, PTL DEF Spec, EndedRows, RowRule
=============================================================================

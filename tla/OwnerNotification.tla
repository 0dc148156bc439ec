-------------------------- MODULE OwnerNotification --------------------------
(***************************************************************************)
(* The outbox of terminal-task notices.  enqueue_owner_notification        *)
(* (lifecycle.py) puts a notice whose Telegram send failed into the job    *)
(* registry, and OwnerNotificationDrainRunner (daemon.py) claims, sends    *)
(* and closes it.  The drain closes with complete(job_id) and fail(job_id) *)
(* without the credentials of its claim, and no recovery lane covers the   *)
(* kind "owner_notification".                                              *)
(***************************************************************************)
EXTENDS JobService

CONSTANTS
    StaleNotice,  \* OWNER_NOTIFICATION_STALE_SECONDS in ticks
    SendCap       \* bound of the model: successful sends of one notice

ASSUME NoticeAssumption == StaleNotice \in Nat /\ SendCap \in Nat \ {0}

VARIABLES
    sent,   \* notice -> how many times Telegram accepted it
    since,  \* notice -> time since it was enqueued
    stage   \* drain thread -> how far it is with the notice it holds

noticeVars == <<sent, since, stage>>
allVars == <<vars, noticeVars>>

NoticeInit == /\ Init
              /\ sent = [j \in JobIds |-> 0]
              /\ since = [j \in JobIds |-> 0]
              /\ stage = [w \in Workers |-> "claimed"]

-----------------------------------------------------------------------------
\* complete() and fail() present no credentials.  Refused or not, the drain
\* goes on to the next notice.
DrainCloses(w, newRow) ==
    /\ BareClose(w, newRow)
    /\ stage' = [stage EXCEPT ![w] = "claimed"]
    /\ UNCHANGED <<sent, since>>

At(w, s) == held[w] # NoClaim /\ stage[w] = s

Expired(j) == since[j] > StaleNotice

DrainClaims(w) ==
    /\ \/ ReadGate(w)
       \/ \E lag \in Lags : ClaimNext(w, Kinds, lag)
       \/ ClaimNothing(w) /\ \E lag \in Lags : \A j \in JobIds : ~Due(j, lag)
    /\ UNCHANGED noticeVars

\* Mutant: a stale notice is put back.
DropStale_Requeues(w, lag) ==
    /\ At(w, "claimed") /\ Expired(held[w].job)
    /\ DrainCloses(w, Requeued(jobs[held[w].job], RetryDelay, lag))

\* A notice that is too old is failed for good, unsent.
DropStale(w, lag) ==
    /\ At(w, "claimed") /\ Expired(held[w].job)
    /\ DrainCloses(w, Unleased(jobs[held[w].job], "failed", lag))

FindFresh(w) ==
    /\ At(w, "claimed") /\ ~Expired(held[w].job)
    /\ stage' = [stage EXCEPT ![w] = "sending"]
    /\ UNCHANGED <<vars, sent, since>>

Send(w) ==
    /\ At(w, "sending") /\ sent[held[w].job] < SendCap
    /\ sent' = [sent EXCEPT ![held[w].job] = @ + 1]
    /\ stage' = [stage EXCEPT ![w] = "sent"]
    /\ UNCHANGED <<vars, since>>

\* Mutant: a refused send is not retried.
SendFails_NoRetry(w, lag) ==
    /\ At(w, "sending")
    /\ DrainCloses(w, RetriedOrFailed(jobs[held[w].job], FALSE, RetryDelay, lag))

SendFails(w, lag) ==
    /\ At(w, "sending")
    /\ DrainCloses(w, RetriedOrFailed(jobs[held[w].job], TRUE, RetryDelay, lag))

MarkDelivered(w, lag) ==
    /\ At(w, "sent")
    /\ DrainCloses(w, [Unleased(jobs[held[w].job], "completed", lag)
                       EXCEPT !.result = held[w].att])

DrainThread(w) ==
    \/ DrainClaims(w)
    \/ FindFresh(w)
    \/ Send(w)
    \/ \E lag \in Lags : DropStale(w, lag) \/ SendFails(w, lag)
                           \/ MarkDelivered(w, lag)

-----------------------------------------------------------------------------
NoticesEnqueue == Enqueuing /\ UNCHANGED noticeVars

NoticesPruned == /\ \E j \in JobIds : PruneTerminal(j)
                 /\ UNCHANGED noticeVars

TimePasses ==
    /\ Tick
    /\ since' = [j \in JobIds |->
                   IF jobs[j].status \in {"unborn", "deleted"} \/ Expired(j)
                   THEN since[j] ELSE since[j] + 1]
    /\ UNCHANGED <<sent, stage>>

DaemonRestarts == /\ Restart
                  /\ stage' = [w \in Workers |-> "claimed"]
                  /\ UNCHANGED <<sent, since>>

NoticeNext == \/ NoticesEnqueue
              \/ \E w \in Workers : DrainThread(w)
              \/ NoticesPruned
              \/ TimePasses
              \/ DaemonRestarts
              \/ SetSafeModeReason /\ UNCHANGED noticeVars

\* The daemon calls the drain every 300 s, and time passes.
NoticeFairness == /\ \A w \in Workers : WF_allVars(DrainThread(w))
                  /\ WF_allVars(TimePasses)

NoticeSpec == NoticeInit /\ [][NoticeNext]_allVars /\ NoticeFairness

-----------------------------------------------------------------------------
(* Properties *)

Owed(j) == jobs[j].status \in ActiveStatuses /\ sent[j] = 0

\* No step ends an owed notice, and so lets the retention pass delete it,
\* unless it is stale or out of attempts: an owed notification is prune-safe.
OwedIsKept == [][\A j \in JobIds :
    Owed(j) /\ jobs'[j].status \notin ActiveStatuses =>
        Expired(j) \/ jobs[j].attempts >= MaxAttempts]_allVars

\* A daemon that stays up and leaves safe mode delivers a notice or gives it
\* up, whatever Telegram refuses: only a crash can leave the row without thread.
NoticesSettle ==
    (<>[][~Restart]_allVars /\ <>[]~blocked) =>
        \A j \in JobIds : Owed(j) ~> (~Owed(j) \/ Stranded(j))

\* OwnerNotificationDrainRunner: "Delivery is at-least-once by decision (...
\* rather double-notify on a lost ack than lose the notice)": a crash delays a
\* notice, it does not lose it.
AtLeastOnce ==
    (<>[][~Restart]_allVars /\ <>[]~blocked) =>
        \A j \in JobIds : Owed(j) ~> ~Owed(j)
=============================================================================

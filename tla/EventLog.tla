------------------------------- MODULE EventLog -------------------------------
(***************************************************************************)
(* What the event stream promises, without locks, transactions, files or   *)
(* retries: an event goes into the stream once, at once or after a wait,   *)
(* and leaves neither; only a loss of the database's own log can take it.  *)
(* An event that can be neither stored nor set aside stays nowhere.        *)
(***************************************************************************)
CONSTANTS Events

VARIABLES place   \* event -> where it is

Places == {"nowhere", "waiting", "stored", "lost"}

LogTypeOK == place \in [Events -> Places]

LogInit == place = [e \in Events |-> "nowhere"]

Goes(e, from, to) == /\ place[e] \in from
                     /\ place' = [place EXCEPT ![e] = to]

Record(e) == Goes(e, {"nowhere"}, "stored")
SetAside(e) == Goes(e, {"nowhere"}, "waiting")
Replay(e) == Goes(e, {"waiting"}, "stored")

\* One loss of the database's log may take several events.
Lose(gone) == /\ \A e \in gone : place[e] \in {"nowhere", "waiting"}
              /\ place' = [e \in Events |-> IF e \in gone THEN "lost" ELSE place[e]]

LogNext == \/ \E e \in Events : Record(e) \/ SetAside(e) \/ Replay(e)
           \/ \E gone \in SUBSET Events : Lose(gone)

LogSpec == LogInit /\ [][LogNext]_place
=============================================================================

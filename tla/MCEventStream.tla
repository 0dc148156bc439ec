---------------------------- MODULE MCEventStream ----------------------------
(* Instances of EventStream for TLC. *)
EXTENDS EventStream, TLC

AllThreads == Emitters \cup Stores \cup {Drainer}
AllWrites == {Row(e) : e \in Events} \cup {Marker(e) : e \in Events}
=============================================================================

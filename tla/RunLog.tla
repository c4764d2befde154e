------------------------------- MODULE RunLog -------------------------------
(***************************************************************************)
(* What the collector run log (collector_runs, #239) promises its readers, *)
(* the connections page and the run detail page: a run is opened once, as  *)
(* `running`; it is closed once, and a closed run is never reopened nor    *)
(* rewritten; a row leaves the log only with the connection it belongs to, *)
(* and never comes back.                                                   *)
(*                                                                         *)
(* This is an abstract specification: ConnectionScheduling implements it.  *)
(***************************************************************************)

CONSTANT Run        \* run ids: uuid4 in the code, so never used twice

VARIABLE log        \* log[r]: what the log says of run r

Closed == {"success", "warning", "failed", "skipped"}
Stored == Closed \cup {"running"}
Status == Stored \cup {"none", "deleted"}

Init == log = [r \in Run |-> "none"]

Open(r) ==
  /\ log[r] = "none"
  /\ log' = [log EXCEPT ![r] = "running"]

Close(r, s) ==
  /\ log[r] = "running"
  /\ log' = [log EXCEPT ![r] = s]

\* Several runs left open by a process that stopped are closed together.
Sweep(S) ==
  /\ \A r \in S : log[r] = "running"
  /\ log' = [r \in Run |-> IF r \in S THEN "failed" ELSE log[r]]

\* The rows of a deleted connection go with it.
Drop(S) ==
  /\ \A r \in S : log[r] \in Stored
  /\ log' = [r \in Run |-> IF r \in S THEN "deleted" ELSE log[r]]

Next ==
  \/ \E r \in Run : Open(r) \/ \E s \in Closed : Close(r, s)
  \/ \E S \in SUBSET Run : Sweep(S) \/ Drop(S)

Spec == Init /\ [][Next]_log
=============================================================================

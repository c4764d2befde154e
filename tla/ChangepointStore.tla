-------------------------- MODULE ChangepointStore --------------------------
(***************************************************************************)
(* Change-points of one metric of one table: what a detection emits after  *)
(* its own deduplication (ml/changepoint.py), and what of it is stored and *)
(* announced (save_changepoints in app/metrics_storage.py).  Detections    *)
(* run again and again over a sliding window of a series that goes on, so  *)
(* each sees other candidates; one detection is stored in one transaction. *)
(*                                                                         *)
(* Abstracted: which indices PELT or CUSUM propose; a candidate is any     *)
(* point with a direction, a score and a shift.                            *)
(***************************************************************************)
EXTENDS Integers, Sequences, FiniteSets, FiniteSetsExt, SequencesExt

CONSTANTS
  Time,             \* the instants of the series, in days
  Window,           \* DEDUPE_WINDOW_HOURS and _CLUSTER_WINDOW_HOURS: 72 hours
  Score, MinScore,
  Shift, MinShift,  \* relative shifts
  MaxCandidates     \* bound: candidates of a detection

ASSUME ChangepointAssumption ==
  /\ Time \subseteq Nat /\ IsFiniteSet(Time) /\ Score \subseteq Nat /\ Shift \subseteq Nat
  /\ {Window, MinScore, MinShift, MaxCandidates} \subseteq Nat

Point == [ts: Time, up: BOOLEAN, score: Score]

VARIABLES
  stored,           \* the rows of changepoints
  detected,         \* the events of the detection to be stored
  announced         \* what the last transaction told its caller it wrote

changepointVars == <<stored, detected, announced>>

ChangepointInit == stored = {} /\ detected = <<>> /\ announced = {}

Apart(a, b) == IF a.ts > b.ts THEN a.ts - b.ts ELSE b.ts - a.ts

------------------------------------------------------------------------------
\* ml/changepoint.py

Row(e) == [ts |-> e.ts, up |-> e.up, score |-> e.score]

Significant(e) == e.score >= MinScore /\ e.shift >= MinShift

\* Of neighbours in the same direction the one with the larger shift is kept.
Collapse(kept, e) ==
  IF kept = <<>> THEN <<e>>
  ELSE LET l == Last(kept) IN
       IF e.up = l.up /\ Apart(e, l) <= Window
       THEN IF e.shift > l.shift THEN Append(Front(kept), e) ELSE kept
       ELSE Append(kept, e)

Emitted(events) ==
  LET kept[n \in 0 .. Len(events)] ==
        IF n = 0 THEN <<>> ELSE Collapse(kept[n - 1], events[n])
  IN kept[Len(events)]

Dedupe(events) == [i \in DOMAIN Emitted(events) |-> Row(Emitted(events)[i])]

\* A detection proposes at most one candidate for an instant.
Events(proposed) ==
  {e \in {[ts |-> t, up |-> proposed[t].up, score |-> proposed[t].score,
           shift |-> proposed[t].shift] : t \in DOMAIN proposed} : Significant(e)}

InOrder(es) ==
  CHOOSE s \in [1 .. Cardinality(es) -> es] :
    \A i, j \in 1 .. Cardinality(es) : i < j => s[i].ts < s[j].ts

Proposals ==
  UNION {[ts -> [up: BOOLEAN, score: Score, shift: Shift]] :
           ts \in {x \in SUBSET Time : Cardinality(x) <= MaxCandidates}}

------------------------------------------------------------------------------
\* save_changepoints

Cluster(rows, e) == {r \in rows : r.up = e.up /\ Apart(r, e) <= Window}

\* The primary key has the instant, and not the direction.
Upsert(rows, e) == {r \in rows : r.ts # e.ts} \cup {e}

\* Mutant: a new point need only beat one of those it replaces.
BeatsOne(e, cluster) == \E r \in cluster : e.score > r.score

Beats(e, cluster) == e.score > Max({r.score : r \in cluster})

\* Mutant: only one of the old points is deleted.
RetireOne(rows, cluster) == rows \ {CHOOSE r \in cluster : TRUE}

Retire(rows, cluster) == rows \ cluster

SaveOne(result, e) ==
  LET cluster == Cluster(result.rows, e) IN
  IF cluster = {} THEN [rows |-> Upsert(result.rows, e), saved |-> result.saved \cup {e}]
  ELSE IF Beats(e, cluster)
  THEN [rows |-> Upsert(Retire(result.rows, cluster), e), saved |-> result.saved \cup {e}]
  ELSE result

SaveChangepoints(events) ==
  LET after[n \in 0 .. Len(events)] ==
        IF n = 0 THEN [rows |-> stored, saved |-> {}] ELSE SaveOne(after[n - 1], events[n])
  IN after[Len(events)]

------------------------------------------------------------------------------

DetectChangepoints(proposed) ==
  /\ detected = <<>>
  /\ detected' = Dedupe(InOrder(Events(proposed)))
  /\ UNCHANGED <<stored, announced>>

StoreChangepoints ==
  /\ detected # <<>>
  /\ stored' = SaveChangepoints(detected).rows
  /\ announced' = SaveChangepoints(detected).saved
  /\ detected' = <<>>

\* The transaction fails, or the process dies before it.
LoseDetection ==
  /\ detected # <<>>
  /\ detected' = <<>>
  /\ UNCHANGED <<stored, announced>>

ChangepointNext ==
  \/ \E proposed \in Proposals : DetectChangepoints(proposed)
  \/ StoreChangepoints \/ LoseDetection

ChangepointSpec == ChangepointInit /\ [][ChangepointNext]_changepointVars

------------------------------------------------------------------------------
\* Properties

ChangepointTypeOK ==
  /\ stored \subseteq Point
  /\ announced \subseteq Point
  /\ ToSet(detected) \subseteq Point

\* "Within a +-72 h window, at most one record is kept per (table, metric,
\* direction)", after any sequence of detections.
OnePerShift ==
  \A a, b \in stored : a # b /\ a.up = b.up => Apart(a, b) > Window

\* A stored point goes away only for one of the same shift with a higher
\* score, or for one at the very same instant.
StrongerWins ==
  [][\A old \in stored \ stored' :
       \E new \in announced' :
         \/ new.up = old.up /\ Apart(new, old) <= Window /\ new.score > old.score
         \/ new.ts = old.ts]_changepointVars

\* The stored change-points are change-points, one for each shift.
ShiftsAreSound == ChangepointTypeOK /\ OnePerShift
=============================================================================

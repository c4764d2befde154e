------------------------- MODULE PublishedInference -------------------------
(***************************************************************************)
(* Scoring of one source by a published model (app/inference_adapter.py):  *)
(* score_source, which a collector tick or the nightly job runs, and       *)
(* predict, which an editor calls for the newest observation.  Both claim  *)
(* a result by inserting it and may then notify (_alert_new_event, with    *)
(* the throttle of app/notifications/telegram.py).  Workers share only the *)
(* metrics store, so they interleave at its queries and at the two calls   *)
(* over the network.                                                       *)
(*                                                                         *)
(* Abstracted: features and scores (a verdict is chosen); an observation   *)
(* is its time; the 30-day windows; other sources, which have other keys.  *)
(* Malformed history and a refusal tied to one observation are the same    *)
(* skip.  The Telegram settings are there.                                 *)
(***************************************************************************)
EXTENDS Integers, Sequences, FiniteSets, FiniteSetsExt

CONSTANTS
  Worker,       \* threads that score: ticks, the nightly job, HTTP workers
  ModelVersion,      \* model versions the registry serves
  MaxTime,      \* bound on the clock; one observation at most per instant
  MaxAge,       \* MAX_EVENT_AGE
  Freshness,    \* max(MIN_FRESHNESS, FRESH_COLLECTIONS * interval)
  Window,       \* throttle_minutes
  MaxCalls      \* bound on the number of calls

ASSUME ConstantsAssumption ==
  /\ ModelVersion # {}
  /\ MaxTime \in Nat \ {0} /\ MaxAge \in Nat /\ Freshness \in Nat /\ Window \in Nat
  /\ MaxCalls \in Nat

Time == 1..MaxTime
Never == 0      \* before every observation

VARIABLES
  now,          \* the clock
  observed,     \* times with a row_count and a null_rate in table metrics
  bound,        \* the version the configuration binds the source to
  scores,       \* table anomaly_scores: the verdict of each version
  throttle,     \* last_sent_at of the source's key in telegram_throttle
  worker,       \* the local state of each call
  alerts,       \* the alerts that were sent, or throttled (history)
  sentAt,       \* when the last message went out (history)
  owed,         \* the newest anomaly claimed as news, until its alert, as
                \* long as calls neither overlap nor die (history)
  overlapped,   \* two calls have been at work at once (history)
  died,         \* a call has been cut short (history)
  calls         \* calls so far

store == <<scores, throttle>>
history == <<alerts, sentAt, owed, overlapped, died, calls>>
vars == <<now, observed, bound, store, worker, history>>

Verdict == {"normal", "anomaly"}
Alert == [time: Time, version: ModelVersion]

Idle == [pc |-> "idle", interactive |-> FALSE, version |-> "none",
         todo |-> {}, verdict |-> "normal", candidate |-> Never,
         floor |-> Never,     \* times[-2], until the floor is computed
         horizon |-> Never]   \* what was old when the call began (history)

Init ==
  /\ now = 1
  /\ observed = {1}
  /\ bound \in ModelVersion
  /\ scores = [v \in ModelVersion |-> [t \in Time |-> "none"]]
  /\ throttle = Never
  /\ worker = [w \in Worker |-> Idle]
  /\ alerts = <<>>
  /\ sentAt = Never
  /\ owed = Never
  /\ overlapped = FALSE
  /\ died = FALSE
  /\ calls = 0

CallAt(w, pc) == worker[w].pc = pc
Set(w, call) == worker' = [worker EXCEPT ![w] = call]
Goto(w, pc) == Set(w, [worker[w] EXCEPT !.pc = pc])
Return(w) == Set(w, Idle)

Latest(S) == IF S = {} THEN Never ELSE Max(S)
ScoredBy(v) == {t \in Time : scores[v][t] # "none"}
Scored == UNION {ScoredBy(v) : v \in ModelVersion}

(***************************************************************************)
(* The environment: time, collector ticks, the operator's configuration.   *)
(***************************************************************************)
\* An instant passes; a tick collects the source at the new one, or not.
Advance(collected) ==
  /\ now < MaxTime
  /\ now' = now + 1
  /\ observed' = IF collected THEN observed \cup {now'} ELSE observed
  /\ UNCHANGED <<bound, store, worker, history>>

Bind(v) ==
  /\ v # bound
  /\ bound' = v
  /\ UNCHANGED <<now, observed, store, worker, history>>

SecondLast(S) == Latest(S \ {Max(S)})

(***************************************************************************)
(* A call starts: the periodic one takes the bound version, the            *)
(* interactive one any.  The source is checked (a refusal changes nothing) *)
(* and its history read.  A score needs a pair of observations, so the     *)
(* first has none; the interactive call asks the service about the newest  *)
(* pair at once.                                                           *)
(***************************************************************************)
\* Mutant: the first observation counts, with no delta to compute.
EveryObservation == observed

Scorable == {t \in observed : \E s \in observed : s < t}

Start(w, v, interactive) ==
  /\ CallAt(w, "idle") /\ calls < MaxCalls
  /\ interactive \/ v = bound
  /\ Scorable # {}
  /\ calls' = calls + 1
  /\ Set(w, [Idle EXCEPT
        !.pc = IF interactive THEN "predicting" ELSE "comparing",
        !.interactive = interactive, !.version = v,
        !.todo = IF interactive THEN {Max(observed)} ELSE Scorable,
        !.floor = SecondLast(observed),
        !.horizon = Max({Latest(Scored), now - Max({MaxAge, Freshness})})])
  /\ overlapped' = (overlapped \/ \E u \in Worker : ~CallAt(u, "idle"))
  /\ UNCHANGED <<now, observed, bound, store, alerts, sentAt, owed, died>>

ReadScores(w) ==
  LET missing == worker[w].todo \ ScoredBy(worker[w].version)
  IN /\ CallAt(w, "comparing")
     /\ IF missing = {} THEN Return(w)
                        ELSE Set(w, [worker[w] EXCEPT !.pc = "flooring", !.todo = missing])
     /\ UNCHANGED <<now, observed, bound, store, history>>

\* _new_event_floor: what is not after it is not news.
\* Mutant: the high-water mark is kept per version.
ProcessedBy(v) == Latest(ScoredBy(v))

\* latest_scored_at, across every version
Processed(v) == Latest(Scored)

NewEventFloor(v, previous) ==
  IF Processed(v) # Never
  THEN Max({Processed(v), now - MaxAge})
  ELSE Max({previous, now - Freshness})

\* Mutant: no limit on the age of an event.
FloorOfAnyAge(w) ==
  LET m == worker[w]
  IN /\ CallAt(w, "flooring")
     /\ Set(w, [m EXCEPT !.pc = IF m.interactive THEN "claiming" ELSE "predicting",
                         !.floor = IF Scored # {} THEN Max(Scored) ELSE @])
     /\ UNCHANGED <<now, observed, bound, store, history>>

ReadFloor(w) ==
  LET m == worker[w]
  IN /\ CallAt(w, "flooring")
     /\ Set(w, [m EXCEPT !.pc = IF m.interactive THEN "claiming" ELSE "predicting",
                         !.floor = NewEventFloor(m.version, @)])
     /\ UNCHANGED <<now, observed, bound, store, history>>

(***************************************************************************)
(* One observation after another: the service answers, refuses this        *)
(* observation, or fails, which ends the pass, as does a failing insert.   *)
(***************************************************************************)
Current(w) == Min(worker[w].todo)

Answer(w, verdict) ==
  /\ CallAt(w, "predicting")
  /\ Set(w, [worker[w] EXCEPT
        !.pc = IF worker[w].interactive THEN "flooring" ELSE "claiming",
        !.verdict = verdict])
  /\ UNCHANGED <<now, observed, bound, store, history>>

\* What a pass goes on to when t is dealt with.
Onward(w, t) == IF worker[w].todo = {t} THEN "alerting" ELSE "predicting"

Skip(w) ==
  LET t == Current(w)
  IN /\ CallAt(w, "predicting")
     /\ IF worker[w].interactive
        THEN Return(w)
        ELSE Set(w, [worker[w] EXCEPT !.pc = Onward(w, t), !.todo = @ \ {t}])
     /\ UNCHANGED <<now, observed, bound, store, history>>

\* Mutant: without the `finally`, a failing service ends the pass at once.
FailAtOnce(w) ==
  /\ CallAt(w, "predicting") \/ CallAt(w, "claiming")
  /\ Return(w)
  /\ UNCHANGED <<now, observed, bound, store, history>>

\* The service fails, or insert_prediction does; the pass still ends with the
\* alert of what it claimed before.
Fail(w) ==
  /\ CallAt(w, "predicting") \/ CallAt(w, "claiming")
  /\ IF worker[w].interactive THEN Return(w) ELSE Goto(w, "alerting")
  /\ UNCHANGED <<now, observed, bound, store, history>>

\* Mutant: an upsert, which changes a row whoever was first.
Upserts(v, t) == TRUE

\* INSERT ... ON CONFLICT DO NOTHING, rowcount = 1
Inserts(v, t) == scores[v][t] = "none"

\* insert_prediction.  The interactive call alerts only for the version that
\* is bound by then; the pass remembers the last anomaly it claimed.
Claim(w) ==
  LET m == worker[w]
      t == Current(w)
      claimed == Inserts(m.version, t)
      found == /\ claimed /\ m.verdict = "anomaly"
               /\ m.interactive => m.version = bound
  IN /\ CallAt(w, "claiming")
     /\ scores' = IF claimed
                  THEN [scores EXCEPT ![m.version][t] = m.verdict] ELSE scores
     /\ owed' = IF found /\ t > m.floor /\ ~overlapped /\ ~died
                THEN t ELSE owed
     /\ Set(w, [m EXCEPT !.pc = Onward(w, t), !.todo = @ \ {t}, !.verdict = "normal",
                         !.candidate = IF found THEN t ELSE @])
     /\ UNCHANGED <<now, observed, bound, throttle, alerts, sentAt,
                    overlapped, died, calls>>

(***************************************************************************)
(* _alert_new_event and notify_anomaly.                                    *)
(***************************************************************************)
LatestAnomaly(v) == Latest({t \in Time : scores[v][t] = "anomaly"})

IsNews(m) == m.candidate > m.floor

CheckNewest(w) ==
  LET m == worker[w]
  IN /\ CallAt(w, "alerting")
     /\ IF /\ m.candidate # Never /\ IsNews(m)
           /\ m.candidate = LatestAnomaly(m.version)
        THEN Goto(w, "throttling") ELSE Return(w)
     /\ UNCHANGED <<now, observed, bound, store, history>>

\* The alert of this call's candidate is over.
Ends(w) ==
  /\ alerts' = Append(alerts, [time |-> worker[w].candidate,
                               version |-> worker[w].version])
  /\ owed' = IF owed = worker[w].candidate THEN Never ELSE owed

\* Mutant: nothing is ever throttled.
NeverThrottled == FALSE

IsThrottled == throttle # Never /\ now - throttle < Window

CheckThrottle(w) ==
  /\ CallAt(w, "throttling")
  /\ IF IsThrottled THEN Return(w) /\ Ends(w)
                    ELSE Goto(w, "sending") /\ UNCHANGED <<alerts, owed>>
  /\ UNCHANGED <<now, observed, bound, store, sentAt, overlapped, died, calls>>

\* Only a message that was delivered is stamped.
Send(w, delivered) ==
  /\ CallAt(w, "sending")
  /\ Ends(w)
  /\ IF delivered THEN Goto(w, "stamping") /\ sentAt' = now
                  ELSE Return(w) /\ UNCHANGED sentAt
  /\ UNCHANGED <<now, observed, bound, store, overlapped, died, calls>>

UpdateThrottle(w) ==
  /\ CallAt(w, "stamping")
  /\ throttle' = now
  /\ Return(w)
  /\ UNCHANGED <<now, observed, bound, scores, history>>

\* The thread dies with its process, or another query on the store fails.
Die(w) ==
  /\ ~CallAt(w, "idle")
  /\ Return(w)
  /\ died' = TRUE
  /\ owed' = Never
  /\ UNCHANGED <<now, observed, bound, store, alerts, sentAt, overlapped,
                 calls>>

Next ==
  \/ \E collected \in BOOLEAN : Advance(collected)
  \/ \E v \in ModelVersion : Bind(v)
  \/ \E w \in Worker, v \in ModelVersion, interactive \in BOOLEAN :
       Start(w, v, interactive)
  \/ \E w \in Worker, verdict \in Verdict : Answer(w, verdict)
  \/ \E w \in Worker, delivered \in BOOLEAN : Send(w, delivered)
  \/ \E w \in Worker :
       \/ ReadScores(w) \/ ReadFloor(w)
       \/ Skip(w) \/ Fail(w) \/ Claim(w)
       \/ CheckNewest(w) \/ CheckThrottle(w) \/ UpdateThrottle(w)
       \/ Die(w)

Spec == Init /\ [][Next]_vars

(***************************************************************************)
(* Properties.                                                             *)
(***************************************************************************)
PC == {"idle", "comparing", "flooring", "predicting", "claiming",
       "alerting", "throttling", "sending", "stamping"}
Call == [pc: PC, interactive: BOOLEAN, version: ModelVersion \cup {"none"},
         todo: SUBSET Time, verdict: Verdict, candidate: Time \cup {Never},
         floor: Int, horizon: Int]

\* Types; and only observations with a predecessor have a score.
TypeOK ==
  /\ now \in Time /\ observed \subseteq 1..now
  /\ bound \in ModelVersion
  /\ scores \in [ModelVersion -> [Time -> Verdict \cup {"none"}]]
  /\ \A t \in Scored : t \in observed /\ \E s \in observed : s < t
  /\ throttle \in Time \cup {Never}
  /\ worker \in [Worker -> Call]
  /\ alerts \in Seq(Alert)
  /\ sentAt \in Time \cup {Never}
  /\ owed \in Time \cup {Never}
  /\ calls \in 0..MaxCalls

\* However calls interleave, retry and die, one result has one alert:
\* "retries/concurrent collectors never notify twice" (insert_prediction).
ResultAlertedOnce ==
  \A i, j \in DOMAIN alerts : alerts[i] = alerts[j] => i = j

\* A message is news, however calls interleave: no version had scored its
\* observation, or a later one, when its call began, nor was it older than
\* MAX_EVENT_AGE.  So a backfill, a switch of the version and a rollback
\* never notify about what was processed before (_new_event_floor).
MessagesAreNews ==
  \A w \in Worker :
    CallAt(w, "sending") => worker[w].candidate > worker[w].horizon

\* When calls neither overlap nor die, the newest anomaly that one claimed as
\* news has had its alert by the end of the call, even if the service failed
\* later in the pass: "a later source failure must not cost the event already
\* claimed here" (score_source).
NewestNewsIsAlerted ==
  (\A w \in Worker : CallAt(w, "idle")) /\ ~overlapped /\ ~died => owed = Never

\* When calls neither overlap nor die, a message waits until the window of the
\* last one is over, although the throttle is read before the sending and
\* stamped after it (notify_anomaly).
MessagesAreApart ==
  ~overlapped /\ ~died => \A w \in Worker :
    CallAt(w, "sending") => sentAt = Never \/ now - sentAt >= Window

\* Whatever interleaves or dies, alerts are about news, once.
AlertsAreNews == TypeOK /\ ResultAlertedOnce /\ MessagesAreNews

\* Calls that neither overlap nor die alert all they should, no oftener.
LoneCallsAlert == NewestNewsIsAlerted /\ MessagesAreApart
=============================================================================

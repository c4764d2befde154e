---------------------- MODULE PublishedInference_proofs ----------------------
(***************************************************************************)
(* Alerts are about news, once each, for every number of workers, model    *)
(* versions, instants and calls.                                           *)
(***************************************************************************)
EXTENDS PublishedInference, WellFoundedInduction, TLAPS

(***************************************************************************)
(* Least and greatest elements.                                            *)
(***************************************************************************)
LEMMA LeastExists ==
  ASSUME NEW T \in SUBSET Nat, T # {}
  PROVE  \E x \in T : \A y \in T : x <= y
<1> DEFINE R == {ss \in Nat \X Nat : ss[1] < ss[2]}
<1>1. IsWellFoundedOn(R, Nat)
  BY NatLessThanWellFounded DEF OpToRel
<1>2. PICK x \in T : \A y \in T : ~ (<<y, x>> \in R)
  <2> HIDE DEF R
  <2> QED BY <1>1, WFMin
<1>3. \A y \in T : ~(y < x)
  <2> SUFFICES ASSUME NEW y \in T, y < x PROVE FALSE
    OBVIOUS
  <2>1. <<y, x>> \in R
    OBVIOUS
  <2> QED BY <1>2, <2>1
<1> QED BY <1>3

LEMMA MinOf ==
  ASSUME NEW T \in SUBSET Time, T # {}
  PROVE  Min(T) \in T /\ \A t \in T : Min(T) <= t
<1>1. \E x \in T : \A y \in T : x <= y
  BY LeastExists, ConstantsAssumption DEF Time
<1> QED BY <1>1 DEF Min

LEMMA MaxOf ==
  ASSUME NEW T \in SUBSET Time, T # {}
  PROVE  Max(T) \in T /\ \A t \in T : t <= Max(T)
<1> DEFINE U == {MaxTime - t : t \in T}
<1>1. \A t \in T : t \in Nat /\ MaxTime - t \in Nat
  BY ConstantsAssumption DEF Time
<1>2. PICK x \in U : \A y \in U : x <= y
  <2>1. U \in SUBSET Nat /\ U # {}
    BY <1>1
  <2> HIDE DEF U
  <2> QED BY <2>1, LeastExists
<1>3. PICK m \in T : x = MaxTime - m
  BY <1>2
<1>4. \A t \in T : m >= t
  <2> SUFFICES ASSUME NEW t \in T PROVE m >= t
    OBVIOUS
  <2>1. MaxTime - m <= MaxTime - t
    BY <1>2, <1>3
  <2> QED BY <1>1, <2>1, ConstantsAssumption
<1>5. Max(T) \in T /\ \A t \in T : Max(T) >= t
  BY <1>4 DEF Max
<1> QED BY <1>1, <1>5

\* The greater of two numbers.
LEMMA MaxOfTwo ==
  ASSUME NEW a \in Int, NEW b \in Int
  PROVE  Max({a, b}) \in {a, b} /\ Max({a, b}) >= a /\ Max({a, b}) >= b
<1>1. \E x \in {a, b} : \A y \in {a, b} : x >= y
  OBVIOUS
<1> QED BY <1>1 DEF Max

LEMMA LatestOf ==
  ASSUME NEW T \in SUBSET Time
  PROVE  /\ Latest(T) \in Time \cup {Never} /\ \A t \in T : t <= Latest(T)
         /\ Latest(T) # Never => Latest(T) \in T
<1>1. CASE T = {}
  BY <1>1 DEF Latest
<1>2. CASE T # {}
  BY <1>2, MaxOf DEF Latest
<1> QED BY <1>1, <1>2

LEMMA LatestGrows ==
  ASSUME NEW S, NEW T \in SUBSET Time, S \subseteq T
  PROVE  Latest(S) <= Latest(T)
<1>1. S \in SUBSET Time
  OBVIOUS
<1>2. /\ Latest(S) \in Time \cup {Never} /\ Latest(T) \in Time \cup {Never}
      /\ \A t \in T : t <= Latest(T)
      /\ Latest(S) # Never => Latest(S) \in S
  BY <1>1, LatestOf
<1> QED BY <1>2, ConstantsAssumption DEF Time, Never

(***************************************************************************)
(* The inductive invariant.  A call whose floor has been computed will not *)
(* take anything for news that was old when it began; whatever it has      *)
(* claimed is an anomaly that no other call has claimed, and that has had  *)
(* no alert until this call gives it one.                                  *)
(***************************************************************************)
Floored(m) ==
  \/ m.pc \in {"claiming", "alerting", "throttling", "sending", "stamping"}
  \/ m.pc = "predicting" /\ ~m.interactive

CallIsSound(m, rows, latest, n, scorable) ==
  /\ m.pc # "idle" => m.version \in ModelVersion /\ m.todo \subseteq scorable
  /\ m.pc \in {"comparing", "flooring", "predicting", "claiming"} => m.todo # {}
  /\ m.interactive /\ m.pc \in {"flooring", "predicting", "claiming"} =>
       \E t \in Time : m.todo = {t}
  /\ m.pc = "comparing" => ~m.interactive
  /\ m.pc # "idle" /\ ~Floored(m) =>
       /\ m.floor >= Never
       /\ m.horizon <= latest \/ (m.horizon <= n - MaxAge /\ m.horizon <= n - Freshness)
  /\ Floored(m) => m.horizon <= m.floor
  /\ m.candidate # Never => Floored(m) /\ rows[m.version][m.candidate] = "anomaly"
  /\ m.pc \in {"throttling", "sending", "stamping"} =>
       m.candidate # Never /\ m.candidate > m.floor

Sound(w) == CallIsSound(worker[w], scores, Latest(Scored), now, Scorable)

ClaimsDiffer ==
  \A w, u \in Worker :
    /\ worker[w].candidate # Never
    /\ worker[w].candidate = worker[u].candidate
    /\ worker[w].version = worker[u].version
    => w = u

AlertsAreClaimed ==
  \A i \in DOMAIN alerts :
    /\ scores[alerts[i].version][alerts[i].time] # "none"
    /\ \A w \in Worker :
         alerts[i] = [time |-> worker[w].candidate, version |-> worker[w].version] =>
           worker[w].pc = "stamping"

AlertInv ==
  /\ TypeOK
  /\ \A w \in Worker : Sound(w)
  /\ ClaimsDiffer
  /\ AlertsAreClaimed
  /\ ResultAlertedOnce

------------------------------------------------------------------------------

LEMMA IdleIsSound ==
  ASSUME NEW rows, NEW latest, NEW n, NEW scorable
  PROVE  Idle \in Call /\ CallIsSound(Idle, rows, latest, n, scorable)
BY DEF Idle, Call, PC, CallIsSound, Floored, Verdict, Never

LEMMA InitAlertInv == Init => AlertInv
<1> SUFFICES ASSUME Init PROVE AlertInv
  OBVIOUS
<1>1. Scored = {}
  BY DEF Init, Scored, ScoredBy, Time
<1>2. TypeOK
  BY <1>1, IdleIsSound, ConstantsAssumption DEF Init, TypeOK, Time, Never
<1>3. ClaimsDiffer /\ AlertsAreClaimed /\ ResultAlertedOnce
  BY DEF Init, Idle, ClaimsDiffer, AlertsAreClaimed, ResultAlertedOnce
<1> QED
  BY <1>2, <1>3, IdleIsSound DEF Init, AlertInv, Sound

LEMMA ScoredType ==
  ASSUME TypeOK
  PROVE  /\ Scored \in SUBSET Time /\ Latest(Scored) \in Time \cup {Never}
         /\ Latest(Scored) # Never => Latest(Scored) \in Scored
         /\ \A t \in Scored : t <= Latest(Scored)
         /\ Scorable \in SUBSET Time /\ observed \in SUBSET Time
<1>1. Scored \in SUBSET Time
  BY DEF Scored, ScoredBy
<1>2. observed \in SUBSET Time
  BY ConstantsAssumption DEF TypeOK, Time
<1> QED BY <1>1, <1>2, LatestOf DEF Scorable

\* What a call relies on lasts while time passes and rows are added.
LEMMA SoundLasts ==
  ASSUME NEW m \in Call, NEW rows, NEW later,
         NEW l \in Int, NEW ll \in Int, l <= ll, NEW n \in Int, NEW nn \in Int, n <= nn,
         NEW S, NEW SS, S \subseteq SS,
         \A v \in ModelVersion, t \in Time :
           rows[v][t] = "anomaly" => later[v][t] = "anomaly",
         CallIsSound(m, rows, l, n, S)
  PROVE  CallIsSound(m, later, ll, nn, SS)
<1>1. MaxAge \in Nat /\ Freshness \in Nat
  BY ConstantsAssumption
<1>2. m.horizon \in Int /\ m.floor \in Int /\ m.candidate \in Time \cup {Never}
  BY DEF Call
<1>3. m.candidate # Never => m.version \in ModelVersion
  BY DEF CallIsSound, Floored
<1> QED BY <1>1, <1>2, <1>3 DEF CallIsSound

\* The tables rest.
LEMMA SoundRests ==
  ASSUME UNCHANGED <<now, observed, scores>>
  PROVE  Scored' = Scored /\ Scorable' = Scorable /\ Latest(Scored)' = Latest(Scored)
BY DEF Scored, ScoredBy, Scorable, Latest

\* One call moves on, with what it has claimed or without.
LEMMA OneCall ==
  ASSUME AlertInv, UNCHANGED <<now, observed, scores, alerts>>,
         NEW w \in Worker, NEW m \in Call, Set(w, m),
         CallIsSound(m, scores, Latest(Scored), now, Scorable),
         \/ m.candidate = Never
         \/ /\ m.candidate = worker[w].candidate /\ m.version = worker[w].version
            /\ worker[w].pc # "stamping",
         bound' \in ModelVersion, throttle' \in Time \cup {Never},
         sentAt' \in Time \cup {Never}, owed' \in Time \cup {Never},
         calls' \in 0..MaxCalls
  PROVE  AlertInv'
<1>1. Scored' = Scored /\ Scorable' = Scorable /\ Latest(Scored)' = Latest(Scored)
  BY SoundRests
<1>2. worker' = [worker EXCEPT ![w] = m] /\ worker \in [Worker -> Call]
  BY DEF Set, AlertInv, TypeOK
<1>3. TypeOK'
  BY <1>1, <1>2 DEF AlertInv, TypeOK
<1>4. ASSUME NEW u \in Worker
      PROVE  Sound(u)'
  BY <1>1, <1>2 DEF AlertInv, Sound
<1>5. ClaimsDiffer'
  BY <1>2 DEF AlertInv, ClaimsDiffer
<1>6. AlertsAreClaimed'
  <2> SUFFICES ASSUME NEW i \in DOMAIN alerts, NEW u \in Worker,
                      alerts[i] = [time |-> worker'[u].candidate,
                                   version |-> worker'[u].version]
               PROVE  worker'[u].pc = "stamping"
    BY DEF AlertInv, AlertsAreClaimed
  <2>1. alerts[i].time \in Time
    BY DEF AlertInv, TypeOK, Alert
  <2>2. CASE u # w
    BY <1>2, <2>2 DEF AlertInv, AlertsAreClaimed
  <2>3. CASE u = w
    <3>1. m.candidate # Never
      BY <1>2, <2>1, <2>3 DEF Time, Never
    <3> QED BY <1>2, <2>3, <3>1 DEF AlertInv, AlertsAreClaimed
  <2> QED BY <2>2, <2>3
<1>7. ResultAlertedOnce'
  BY DEF AlertInv, ResultAlertedOnce
<1> QED BY <1>3, <1>4, <1>5, <1>6, <1>7 DEF AlertInv

------------------------------------------------------------------------------
\* The steps of one call

\* The newest observation is scorable if any is.
LEMMA NewestIsScorable ==
  ASSUME TypeOK, Scorable # {}
  PROVE  Max(observed) \in Scorable /\ \A t \in observed : t <= Max(observed)
<1>1. PICK t \in observed : \E s \in observed : s < t
  BY DEF Scorable
<1>2. Max(observed) \in observed /\ \A o \in observed : o <= Max(observed)
  BY <1>1, MaxOf, ScoredType
<1>3. PICK s \in observed : s < t
  BY <1>1
<1>4. s < Max(observed)
  BY <1>1, <1>2, <1>3, ScoredType, ConstantsAssumption DEF Time
<1> QED BY <1>2, <1>4 DEF Scorable

LEMMA StartKeeps ==
  ASSUME AlertInv, NEW w \in Worker, NEW v \in ModelVersion,
         NEW interactive \in BOOLEAN, Start(w, v, interactive)
  PROVE  AlertInv'
<1> DEFINE reach == Max({MaxAge, Freshness})
           h == Max({Latest(Scored), now - reach})
           todo == IF interactive THEN {Max(observed)} ELSE Scorable
           m == [Idle EXCEPT
                   !.pc = IF interactive THEN "predicting" ELSE "comparing",
                   !.interactive = interactive, !.version = v, !.todo = todo,
                   !.floor = SecondLast(observed), !.horizon = h]
<1>1. /\ Scorable # {} /\ Set(w, m) /\ calls < MaxCalls /\ calls' = calls + 1
      /\ UNCHANGED <<now, observed, bound, store, alerts, sentAt, owed, died>>
  BY DEF Start
<1>2. TypeOK /\ MaxAge \in Nat /\ Freshness \in Nat /\ now \in Int
  BY ConstantsAssumption DEF AlertInv, TypeOK, Time
<1>3. reach \in Int /\ reach >= MaxAge /\ reach >= Freshness
  <2>1. MaxAge \in Int /\ Freshness \in Int
    BY <1>2
  <2>2. reach \in {MaxAge, Freshness} /\ reach >= MaxAge /\ reach >= Freshness
    BY <2>1, MaxOfTwo
  <2> QED BY <2>1, <2>2
<1>4. h \in Int /\ (h = Latest(Scored) \/ h = now - reach)
  <2>1. Latest(Scored) \in Int /\ now - reach \in Int
    BY <1>2, <1>3, ScoredType, ConstantsAssumption DEF Time, Never
  <2> QED BY <2>1, MaxOfTwo
<1>5. SecondLast(observed) \in Time \cup {Never}
  BY <1>2, ScoredType, LatestOf DEF SecondLast
<1>6. Max(observed) \in Scorable /\ Scorable \in SUBSET Time
  BY <1>1, <1>2, NewestIsScorable, ScoredType
<1>7. todo \subseteq Scorable /\ todo # {}
  BY <1>1, <1>6
<1>8. m \in Call
  <2>1. SecondLast(observed) \in Int
    BY <1>5, ConstantsAssumption DEF Time, Never
  <2> HIDE DEF h, todo
  <2> QED BY <1>4, <1>6, <1>7, <2>1 DEF Call, PC, Idle, Verdict
<1>9. CallIsSound(m, scores, Latest(Scored), now, Scorable)
  <2>1. SecondLast(observed) >= Never
    BY <1>5, ConstantsAssumption DEF Time, Never
  <2>2. h <= Latest(Scored) \/ (h <= now - MaxAge /\ h <= now - Freshness)
    BY <1>2, <1>3, <1>4
  <2>3. interactive => \E t \in Time : todo = {t}
    BY <1>6
  <2> HIDE DEF h, todo
  <2> QED BY <1>7, <2>1, <2>2, <2>3 DEF CallIsSound, Floored, Idle
<1>10. m.candidate = Never
  BY DEF Idle
<1>11. calls' \in 0..MaxCalls
  BY <1>1, <1>2, ConstantsAssumption DEF TypeOK
<1> HIDE DEF m
<1> QED
  BY <1>1, <1>2, <1>8, <1>9, <1>10, <1>11, OneCall DEF store, TypeOK

\* A call ends without an alert.
LEMMA ReturnKeeps ==
  ASSUME AlertInv, UNCHANGED <<now, observed, bound, scores, alerts, sentAt, calls>>,
         NEW w \in Worker, Return(w),
         throttle' \in Time \cup {Never}, owed' \in Time \cup {Never}
  PROVE  AlertInv'
<1>1. /\ Idle \in Call /\ Idle.candidate = Never
      /\ CallIsSound(Idle, scores, Latest(Scored), now, Scorable)
  BY IdleIsSound DEF Idle
<1> QED BY <1>1, OneCall DEF Return, AlertInv, TypeOK

\* The state of a call at work.
LEMMA CallState ==
  ASSUME AlertInv, NEW w \in Worker
  PROVE  /\ worker[w] \in Call
         /\ CallIsSound(worker[w], scores, Latest(Scored), now, Scorable)
         /\ Scorable \in SUBSET Time /\ TypeOK
BY ScoredType DEF AlertInv, Sound, TypeOK

LEMMA ReadScoresKeeps ==
  ASSUME AlertInv, NEW w \in Worker, ReadScores(w)
  PROVE  AlertInv'
<1> DEFINE missing == worker[w].todo \ ScoredBy(worker[w].version)
           m == [worker[w] EXCEPT !.pc = "flooring", !.todo = missing]
<1>1. UNCHANGED <<now, observed, bound, store, history>> /\ worker[w].pc = "comparing"
  BY DEF ReadScores, CallAt
<1>2. CASE missing = {}
  BY <1>1, <1>2, ReturnKeeps DEF ReadScores, store, history, AlertInv, TypeOK
<1>3. CASE missing # {}
  <2>1. Set(w, m)
    BY <1>3 DEF ReadScores
  <2>2. m \in Call
    BY CallState DEF Call, PC
  <2>3. CallIsSound(m, scores, Latest(Scored), now, Scorable)
    BY <1>1, <1>3, CallState DEF Call, CallIsSound, Floored
  <2>4. m.candidate = worker[w].candidate /\ m.version = worker[w].version
    BY CallState DEF Call
  <2> HIDE DEF m
  <2> QED BY <1>1, <2>1, <2>2, <2>3, <2>4, OneCall DEF store, history, AlertInv, TypeOK
<1> QED BY <1>2, <1>3

\* The floor is not below what was old when the call began.
LEMMA FloorIsHigh ==
  ASSUME AlertInv, NEW w \in Worker, CallAt(w, "flooring"), NEW v
  PROVE  LET f == NewEventFloor(v, worker[w].floor) IN
         f \in Int /\ worker[w].horizon <= f
<1> DEFINE f == NewEventFloor(v, worker[w].floor)
<1>1. /\ worker[w].floor \in Int /\ worker[w].horizon \in Int /\ worker[w].floor >= Never
      /\ \/ worker[w].horizon <= Latest(Scored)
         \/ worker[w].horizon <= now - MaxAge /\ worker[w].horizon <= now - Freshness
  BY CallState DEF CallAt, Call, CallIsSound, Floored
<1>2. now \in Int /\ MaxAge \in Nat /\ Freshness \in Nat /\ Latest(Scored) \in Int
  BY CallState, ScoredType, ConstantsAssumption DEF TypeOK, Time, Never
<1>3. ASSUME Latest(Scored) # Never
      PROVE  f \in Int /\ worker[w].horizon <= f
  <2>1. f = Max({Latest(Scored), now - MaxAge})
    BY <1>3 DEF NewEventFloor, Processed
  <2>2. now - MaxAge \in Int
    BY <1>2
  <2>3. f \in {Latest(Scored), now - MaxAge} /\ f >= Latest(Scored) /\ f >= now - MaxAge
    BY <1>2, <2>1, <2>2, MaxOfTwo
  <2> HIDE DEF f
  <2>4. f \in Int
    BY <1>2, <2>2, <2>3
  <2> QED BY <1>1, <1>2, <2>3, <2>4
<1>4. ASSUME Latest(Scored) = Never
      PROVE  f \in Int /\ worker[w].horizon <= f
  <2>1. f = Max({worker[w].floor, now - Freshness})
    BY <1>4 DEF NewEventFloor, Processed
  <2>2. now - Freshness \in Int
    BY <1>2
  <2>3. /\ f \in {worker[w].floor, now - Freshness}
        /\ f >= worker[w].floor /\ f >= now - Freshness
    BY <1>1, <2>1, <2>2, MaxOfTwo
  <2> HIDE DEF f
  <2>4. f \in Int
    BY <1>1, <2>2, <2>3
  <2> QED BY <1>1, <1>2, <1>4, <2>3, <2>4 DEF Never
<1> QED BY <1>3, <1>4

LEMMA ReadFloorKeeps ==
  ASSUME AlertInv, NEW w \in Worker, ReadFloor(w)
  PROVE  AlertInv'
<1> DEFINE f == NewEventFloor(worker[w].version, worker[w].floor)
           m == [worker[w] EXCEPT
                   !.pc = IF worker[w].interactive THEN "claiming" ELSE "predicting",
                   !.floor = f]
<1>1. /\ UNCHANGED <<now, observed, bound, store, history>>
      /\ worker[w].pc = "flooring" /\ CallAt(w, "flooring")
  BY DEF ReadFloor, CallAt
<1>2. f \in Int /\ worker[w].horizon <= f
  BY <1>1, FloorIsHigh
<1>3. Set(w, m)
  BY CallState DEF ReadFloor, Call
<1> HIDE DEF f
<1>4. m \in Call
  BY <1>2, CallState DEF Call, PC
<1>5. CallIsSound(m, scores, Latest(Scored), now, Scorable)
  BY <1>1, <1>2, CallState DEF Call, CallIsSound, Floored
<1>6. m.candidate = worker[w].candidate /\ m.version = worker[w].version
  BY CallState DEF Call
<1> HIDE DEF m
<1> QED
  BY <1>1, <1>3, <1>4, <1>5, <1>6, OneCall DEF store, history, AlertInv, TypeOK

LEMMA AnswerKeeps ==
  ASSUME AlertInv, NEW w \in Worker, NEW verdict \in Verdict, Answer(w, verdict)
  PROVE  AlertInv'
<1> DEFINE m == [worker[w] EXCEPT
                   !.pc = IF worker[w].interactive THEN "flooring" ELSE "claiming",
                   !.verdict = verdict]
<1>1. /\ UNCHANGED <<now, observed, bound, store, history>>
      /\ worker[w].pc = "predicting" /\ Set(w, m)
  BY DEF Answer, CallAt
<1>2. m \in Call
  BY CallState DEF Call, PC
<1>3. CallIsSound(m, scores, Latest(Scored), now, Scorable)
  BY <1>1, CallState DEF Call, CallIsSound, Floored
<1>4. m.candidate = worker[w].candidate /\ m.version = worker[w].version
  BY CallState DEF Call
<1> HIDE DEF m
<1> QED
  BY <1>1, <1>2, <1>3, <1>4, OneCall DEF store, history, AlertInv, TypeOK

LEMMA CurrentIsTodo ==
  ASSUME AlertInv, NEW w \in Worker, worker[w].pc \in {"predicting", "claiming"}
  PROVE  /\ Current(w) \in worker[w].todo /\ Current(w) \in Time
         /\ \A t \in worker[w].todo : Current(w) <= t
<1>1. worker[w].todo \in SUBSET Time /\ worker[w].todo # {}
  BY CallState DEF CallIsSound, Call
<1> QED BY <1>1, MinOf DEF Current

LEMMA SkipKeeps ==
  ASSUME AlertInv, NEW w \in Worker, Skip(w)
  PROVE  AlertInv'
<1> DEFINE t == Current(w)
           m == [worker[w] EXCEPT !.pc = Onward(w, t), !.todo = @ \ {t}]
<1>1. /\ UNCHANGED <<now, observed, bound, store, history>>
      /\ worker[w].pc = "predicting"
  BY DEF Skip, CallAt
<1>2. t \in worker[w].todo
  BY <1>1, CurrentIsTodo
<1>3. CASE worker[w].interactive
  BY <1>1, <1>3, ReturnKeeps DEF Skip, store, history, AlertInv, TypeOK
<1>4. CASE ~worker[w].interactive
  <2>1. Set(w, m)
    BY <1>4 DEF Skip
  <2> HIDE DEF t
  <2>2. m \in Call
    BY CallState DEF Call, PC, Onward
  <2>3. CallIsSound(m, scores, Latest(Scored), now, Scorable)
    BY <1>1, <1>2, <1>4, CallState DEF Call, CallIsSound, Floored, Onward
  <2>4. m.candidate = worker[w].candidate /\ m.version = worker[w].version
    BY CallState DEF Call
  <2> HIDE DEF m
  <2> QED
    BY <1>1, <2>1, <2>2, <2>3, <2>4, OneCall DEF store, history, AlertInv, TypeOK
<1> QED BY <1>3, <1>4

\* A call goes on with what it has.
LEMMA GotoKeeps ==
  ASSUME AlertInv, UNCHANGED <<now, observed, bound, store, history>>,
         NEW w \in Worker, NEW pc \in PC, Goto(w, pc),
         worker[w].pc # "stamping",
         CallIsSound([worker[w] EXCEPT !.pc = pc], scores, Latest(Scored), now, Scorable)
  PROVE  AlertInv'
<1> DEFINE m == [worker[w] EXCEPT !.pc = pc]
<1>1. /\ m \in Call
      /\ m.candidate = worker[w].candidate /\ m.version = worker[w].version
  BY CallState DEF Call
<1>2. Set(w, m)
  BY DEF Goto
<1> HIDE DEF m
<1> QED BY <1>1, <1>2, OneCall DEF m, store, history, AlertInv, TypeOK

LEMMA FailKeeps ==
  ASSUME AlertInv, NEW w \in Worker, Fail(w)
  PROVE  AlertInv'
<1>1. /\ UNCHANGED <<now, observed, bound, store, history>>
      /\ worker[w].pc \in {"predicting", "claiming"}
  BY DEF Fail, CallAt
<1>2. CASE worker[w].interactive
  BY <1>1, <1>2, ReturnKeeps DEF Fail, store, history, AlertInv, TypeOK
<1>3. CASE ~worker[w].interactive
  <2>1. CallIsSound([worker[w] EXCEPT !.pc = "alerting"], scores, Latest(Scored), now, Scorable)
    BY <1>1, <1>3, CallState DEF Call, CallIsSound, Floored
  <2> QED BY <1>1, <1>3, <2>1, GotoKeeps DEF Fail, PC
<1> QED BY <1>2, <1>3

LEMMA CheckNewestKeeps ==
  ASSUME AlertInv, NEW w \in Worker, CheckNewest(w)
  PROVE  AlertInv'
<1>1. /\ UNCHANGED <<now, observed, bound, store, history>>
      /\ worker[w].pc = "alerting"
  BY DEF CheckNewest, CallAt
<1>2. CASE Return(w)
  BY <1>1, <1>2, ReturnKeeps DEF store, history, AlertInv, TypeOK
<1>3. CASE worker[w].candidate # Never /\ IsNews(worker[w]) /\ Goto(w, "throttling")
  <2>1. CallIsSound([worker[w] EXCEPT !.pc = "throttling"], scores, Latest(Scored), now, Scorable)
    BY <1>1, <1>3, CallState DEF Call, CallIsSound, Floored, IsNews
  <2> QED BY <1>1, <1>3, <2>1, GotoKeeps DEF PC
<1> QED BY <1>2, <1>3 DEF CheckNewest

LEMMA UpdateThrottleKeeps ==
  ASSUME AlertInv, NEW w \in Worker, UpdateThrottle(w)
  PROVE  AlertInv'
BY ReturnKeeps DEF UpdateThrottle, history, AlertInv, TypeOK

LEMMA DieKeeps ==
  ASSUME AlertInv, NEW w \in Worker, Die(w)
  PROVE  AlertInv'
BY ReturnKeeps DEF Die, store, AlertInv, TypeOK

\* An alert is given for a candidate that had none, and ends its call's right
\* to give one.
LEMMA EndsKeeps ==
  ASSUME AlertInv, UNCHANGED <<now, observed, bound, store, calls>>,
         NEW w \in Worker, worker[w].pc \in {"throttling", "sending"}, Ends(w),
         NEW m \in Call, Set(w, m),
         m = Idle \/ m = [worker[w] EXCEPT !.pc = "stamping"],
         sentAt' \in Time \cup {Never}
  PROVE  AlertInv'
<1> DEFINE c == worker[w].candidate
           v == worker[w].version
           a == [time |-> c, version |-> v]
<1>1. /\ c \in Time /\ v \in ModelVersion /\ scores[v][c] = "anomaly"
      /\ c # Never /\ worker[w] \in Call
  BY CallState DEF CallIsSound, Call, Never
<1>2. /\ alerts' = Append(alerts, a) /\ alerts \in Seq(Alert)
      /\ worker' = [worker EXCEPT ![w] = m] /\ worker \in [Worker -> Call]
  BY DEF Ends, Set, AlertInv, TypeOK
<1>3. /\ alerts' \in Seq(Alert) /\ DOMAIN alerts = 1..Len(alerts)
      /\ DOMAIN alerts' = 1..(Len(alerts) + 1) /\ alerts'[Len(alerts) + 1] = a
      /\ \A i \in 1..Len(alerts) : alerts'[i] = alerts[i]
  BY <1>1, <1>2 DEF Alert
<1>4. Scored' = Scored /\ Scorable' = Scorable /\ Latest(Scored)' = Latest(Scored)
  BY SoundRests DEF store
<1>5. TypeOK'
  <2>1. owed' \in Time \cup {Never}
    BY DEF Ends, AlertInv, TypeOK
  <2> QED BY <1>2, <1>3, <1>4, <2>1 DEF AlertInv, TypeOK, store
<1>6. CallIsSound(m, scores, Latest(Scored), now, Scorable)
  <2>1. CASE m = Idle
    BY <2>1, IdleIsSound
  <2>2. CASE m = [worker[w] EXCEPT !.pc = "stamping"]
    BY <1>1, <2>2, CallState DEF CallIsSound, Floored, Call
  <2> QED BY <2>1, <2>2
<1>7. ASSUME NEW u \in Worker
      PROVE  Sound(u)'
  BY <1>2, <1>4, <1>6 DEF AlertInv, Sound, store
<1>8. m.candidate = Never \/ (m.candidate = c /\ m.version = v /\ m.pc = "stamping")
  BY <1>1 DEF Idle, Call
<1>9. ClaimsDiffer'
  BY <1>2, <1>8 DEF AlertInv, ClaimsDiffer
<1>10. \A i \in DOMAIN alerts : alerts[i] # a
  BY DEF AlertInv, AlertsAreClaimed
<1>11. ResultAlertedOnce'
  BY <1>3, <1>10 DEF AlertInv, ResultAlertedOnce
<1>12. AlertsAreClaimed'
  <2> SUFFICES ASSUME NEW i \in DOMAIN alerts'
               PROVE  /\ scores[alerts'[i].version][alerts'[i].time] # "none"
                      /\ \A u \in Worker :
                           alerts'[i] = [time |-> worker'[u].candidate,
                                         version |-> worker'[u].version] =>
                             worker'[u].pc = "stamping"
    BY DEF AlertsAreClaimed, store
  <2>1. CASE i \in DOMAIN alerts
    <3>1. alerts'[i] = alerts[i] /\ alerts[i].time \in Time
      <4>1. alerts'[i] = alerts[i]
        BY <1>3, <2>1
      <4>2. alerts[i] \in Alert
        BY <1>2, <1>3, <2>1
      <4> QED BY <4>1, <4>2 DEF Alert
    <3>2. scores[alerts[i].version][alerts[i].time] # "none"
      BY <2>1 DEF AlertInv, AlertsAreClaimed
    <3>3. ASSUME NEW u \in Worker,
                 alerts[i] = [time |-> worker'[u].candidate, version |-> worker'[u].version]
          PROVE  worker'[u].pc = "stamping"
      <4>1. CASE u # w
        BY <1>2, <2>1, <3>3, <4>1 DEF AlertInv, AlertsAreClaimed
      <4>2. CASE u = w
        <5>1. worker'[u].candidate # Never
          BY <3>1, <3>3 DEF Time, Never
        <5> QED BY <1>2, <1>8, <4>2, <5>1
      <4> QED BY <4>1, <4>2
    <3> QED BY <3>1, <3>2, <3>3
  <2>2. CASE i = Len(alerts) + 1
    <3>1. alerts'[i] = a
      BY <1>3, <2>2
    <3>2. ASSUME NEW u \in Worker,
                 a = [time |-> worker'[u].candidate, version |-> worker'[u].version]
          PROVE  worker'[u].pc = "stamping"
      <4>1. worker'[u].candidate = c /\ worker'[u].version = v
        BY <3>2
      <4>2. u = w
        BY <1>1, <1>2, <4>1 DEF AlertInv, ClaimsDiffer
      <4> QED BY <1>1, <1>2, <1>8, <4>1, <4>2
    <3> QED BY <1>1, <3>1, <3>2
  <2> QED BY <1>3, <2>1, <2>2
<1> QED BY <1>5, <1>7, <1>9, <1>11, <1>12 DEF AlertInv

LEMMA CheckThrottleKeeps ==
  ASSUME AlertInv, NEW w \in Worker, CheckThrottle(w)
  PROVE  AlertInv'
<1>1. /\ UNCHANGED <<now, observed, bound, store, sentAt, overlapped, died, calls>>
      /\ worker[w].pc = "throttling"
  BY DEF CheckThrottle, CallAt
<1>2. CASE IsThrottled
  BY <1>1, <1>2, IdleIsSound, EndsKeeps DEF CheckThrottle, Return, AlertInv, TypeOK
<1>3. CASE ~IsThrottled
  <2>1. CallIsSound([worker[w] EXCEPT !.pc = "sending"], scores, Latest(Scored), now, Scorable)
    BY <1>1, CallState DEF Call, CallIsSound, Floored
  <2> QED BY <1>1, <1>3, <2>1, GotoKeeps DEF CheckThrottle, PC, history
<1> QED BY <1>2, <1>3

LEMMA SendKeeps ==
  ASSUME AlertInv, NEW w \in Worker, NEW delivered \in BOOLEAN, Send(w, delivered)
  PROVE  AlertInv'
<1>1. /\ UNCHANGED <<now, observed, bound, store, overlapped, died, calls>>
      /\ worker[w].pc = "sending" /\ Ends(w)
  BY DEF Send, CallAt
<1>2. CASE delivered
  <2> DEFINE m == [worker[w] EXCEPT !.pc = "stamping"]
  <2>1. m \in Call
    BY CallState DEF Call, PC
  <2>2. Set(w, m) /\ sentAt' = now
    BY <1>2 DEF Send, Goto
  <2>3. now \in Time \cup {Never}
    BY DEF AlertInv, TypeOK
  <2> QED BY <1>1, <2>1, <2>2, <2>3, EndsKeeps
<1>3. CASE ~delivered
  BY <1>1, <1>3, IdleIsSound, EndsKeeps DEF Send, Return, AlertInv, TypeOK
<1> QED BY <1>2, <1>3

------------------------------------------------------------------------------
\* A result is claimed by the call that stores it: it was nobody's before.

LEMMA ClaimKeeps ==
  ASSUME AlertInv, NEW w \in Worker, Claim(w)
  PROVE  AlertInv'
<1> DEFINE t == Current(w)
           v == worker[w].version
           claimed == Inserts(v, t)
           found == /\ claimed /\ worker[w].verdict = "anomaly"
                    /\ worker[w].interactive => v = bound
           m == [worker[w] EXCEPT !.pc = Onward(w, t), !.todo = @ \ {t},
                                  !.verdict = "normal",
                                  !.candidate = IF found THEN t ELSE @]
<1>1. /\ worker[w].pc = "claiming"
      /\ scores' = IF claimed THEN [scores EXCEPT ![v][t] = worker[w].verdict] ELSE scores
      /\ owed' = IF found /\ t > worker[w].floor /\ ~overlapped /\ ~died THEN t ELSE owed
      /\ UNCHANGED <<now, observed, bound, throttle, alerts, sentAt, overlapped, died, calls>>
  BY DEF Claim, CallAt
<1>2. worker' = [worker EXCEPT ![w] = m] /\ worker \in [Worker -> Call]
  BY CallState DEF Claim, Set, Call, AlertInv, TypeOK
<1>3. /\ t \in worker[w].todo /\ t \in Time /\ v \in ModelVersion /\ t \in Scorable
      /\ worker[w].verdict \in Verdict /\ worker[w] \in Call
  BY <1>1, CurrentIsTodo, CallState DEF CallIsSound, Call
<1>4. scores \in [ModelVersion -> [Time -> Verdict \cup {"none"}]]
  BY DEF AlertInv, TypeOK
<1> HIDE DEF t
<1>5. /\ scores' \in [ModelVersion -> [Time -> Verdict \cup {"none"}]]
      /\ \A x \in ModelVersion, s \in Time :
           /\ scores[x][s] # "none" => scores'[x][s] = scores[x][s]
           /\ scores'[x][s] # scores[x][s] => x = v /\ s = t
      /\ claimed => scores[v][t] = "none" /\ scores'[v][t] = worker[w].verdict
  BY <1>1, <1>3, <1>4 DEF Inserts, Verdict
<1>6. Scored \subseteq Scored' /\ Scored' \subseteq Scored \cup {t}
  BY <1>5 DEF Scored, ScoredBy
<1>7. Scorable' = Scorable
  BY <1>1 DEF Scorable
<1>8. m \in Call
  BY <1>3 DEF Call, PC, Onward, Verdict
<1>9. TypeOK'
  <2>1. \A s \in Scored' : s \in observed' /\ \E o \in observed' : o < s
    BY <1>1, <1>3, <1>6 DEF AlertInv, TypeOK, Scorable
  <2>2. owed' \in Time \cup {Never}
    BY <1>1, <1>3 DEF AlertInv, TypeOK
  <2> HIDE DEF m, claimed, found
  <2> QED BY <1>1, <1>2, <1>5, <1>8, <2>1, <2>2 DEF AlertInv, TypeOK
<1>10. /\ Latest(Scored) \in Int /\ Latest(Scored)' \in Int /\ now \in Int
       /\ Latest(Scored) <= Latest(Scored)'
  <2>1. Latest(Scored) \in Time \cup {Never} /\ Latest(Scored)' \in Time \cup {Never}
    BY <1>9, ScoredType, LatestOf DEF AlertInv, Scored, ScoredBy
  <2>2. Scored' \in SUBSET Time
    BY DEF Scored, ScoredBy
  <2>3. Latest(Scored) <= Latest(Scored')
    BY <1>6, <2>2, LatestGrows
  <2>4. Latest(Scored') = Latest(Scored)'
    BY DEF Latest
  <2>5. now \in Time
    BY DEF AlertInv, TypeOK
  <2> QED BY <2>1, <2>3, <2>4, <2>5, ConstantsAssumption DEF Time, Never
<1>11. CallIsSound(m, scores', Latest(Scored), now, Scorable)
  <2>1. /\ m.pc = Onward(w, t) /\ m.version = v /\ m.todo = worker[w].todo \ {t}
        /\ m.interactive = worker[w].interactive /\ m.floor = worker[w].floor
        /\ m.horizon = worker[w].horizon
        /\ m.candidate = IF found THEN t ELSE worker[w].candidate
    BY <1>3 DEF Call
  <2>2. m.candidate # Never => scores'[v][m.candidate] = "anomaly"
    BY <1>3, <1>5, <2>1, CallState DEF CallIsSound, Call, Never
  <2>3. worker[w].interactive => m.pc = "alerting"
    BY <1>1, <1>3, <2>1, CallState DEF CallIsSound, Onward
  <2> HIDE DEF m, found
  <2> QED
    BY <1>1, <1>3, <2>1, <2>2, <2>3, CallState DEF CallIsSound, Floored, Onward, Call
<1>12. ASSUME NEW u \in Worker
       PROVE  Sound(u)'
  <2>1. \A x \in ModelVersion, s \in Time :
          scores[x][s] = "anomaly" => scores'[x][s] = "anomaly"
    BY <1>5
  <2>4. now <= now
    BY <1>10
  <2>2. CASE u = w
    <3> HIDE DEF m
    <3>1. CallIsSound(m, scores', Latest(Scored)', now, Scorable)
      BY <1>8, <1>10, <1>11, <2>4, SoundLasts
    <3> QED BY <1>1, <1>2, <1>7, <2>2, <3>1 DEF Sound
  <2>3. CASE u # w
    <3> DEFINE k == worker[u]
    <3>1. CallIsSound(k, scores', Latest(Scored)', now, Scorable)
      <4>1. k \in Call /\ CallIsSound(k, scores, Latest(Scored), now, Scorable)
        BY CallState
      <4> HIDE DEF k
      <4> QED BY <1>10, <2>1, <2>4, <4>1, SoundLasts
    <3> QED BY <1>1, <1>2, <1>7, <2>3, <3>1 DEF Sound
  <2> QED BY <2>2, <2>3
<1>13. /\ m.version = v
       /\ \/ m.candidate = worker[w].candidate
          \/ m.candidate = t /\ scores[v][t] = "none"
  BY <1>3, <1>5 DEF Call
<1>14. \A u \in Worker :
         worker[u].candidate # Never => scores[worker[u].version][worker[u].candidate] = "anomaly"
  BY CallState DEF CallIsSound
<1>15. ClaimsDiffer'
  <2> HIDE DEF m
  <2> QED BY <1>2, <1>3, <1>13, <1>14 DEF AlertInv, ClaimsDiffer
<1>16. AlertsAreClaimed'
  <2> SUFFICES ASSUME NEW i \in DOMAIN alerts
               PROVE  /\ scores'[alerts[i].version][alerts[i].time] # "none"
                      /\ \A u \in Worker :
                           alerts[i] = [time |-> worker'[u].candidate,
                                        version |-> worker'[u].version] =>
                             worker'[u].pc = "stamping"
    BY <1>1 DEF AlertsAreClaimed
  <2>1. alerts[i] \in Alert
    BY DEF AlertInv, TypeOK
  <2>2. scores[alerts[i].version][alerts[i].time] # "none"
    BY DEF AlertInv, AlertsAreClaimed
  <2>3. scores'[alerts[i].version][alerts[i].time] # "none"
    BY <1>5, <2>1, <2>2 DEF Alert
  <2> HIDE DEF m
  <2>4. ASSUME NEW u \in Worker,
               alerts[i] = [time |-> worker'[u].candidate, version |-> worker'[u].version]
        PROVE  worker'[u].pc = "stamping"
    <3>1. CASE u # w
      BY <1>2, <2>4, <3>1 DEF AlertInv, AlertsAreClaimed
    <3>2. CASE u = w
      <4>1. alerts[i].time = m.candidate /\ alerts[i].version = v
        BY <1>2, <1>13, <2>4, <3>2
      <4>2. alerts[i] = [time |-> worker[w].candidate, version |-> v]
        BY <1>13, <2>1, <2>2, <4>1 DEF Alert
      <4> QED BY <1>1, <4>2 DEF AlertInv, AlertsAreClaimed
    <3> QED BY <3>1, <3>2
  <2> QED BY <2>3, <2>4
<1>17. ResultAlertedOnce'
  BY <1>1 DEF AlertInv, ResultAlertedOnce
<1> QED BY <1>9, <1>12, <1>15, <1>16, <1>17 DEF AlertInv

------------------------------------------------------------------------------
\* Time passes, and the configuration changes.

LEMMA AdvanceKeeps ==
  ASSUME AlertInv, NEW collected \in BOOLEAN, Advance(collected)
  PROVE  AlertInv'
<1>1. /\ now < MaxTime /\ now' = now + 1 /\ observed \subseteq observed'
      /\ observed' \subseteq observed \cup {now'}
      /\ UNCHANGED <<bound, store, worker, history>>
  BY DEF Advance
<1>2. TypeOK /\ now \in Time /\ observed \subseteq 1..now
  BY DEF AlertInv, TypeOK
<1>3. /\ now \in Int /\ now' \in Time /\ now <= now'
      /\ observed' \subseteq 1..now'
  BY <1>1, <1>2, ConstantsAssumption DEF Time
<1>4. Scored' = Scored /\ Latest(Scored)' = Latest(Scored) /\ Latest(Scored) \in Int
  BY <1>1, <1>2, ScoredType, ConstantsAssumption
     DEF Scored, ScoredBy, Latest, store, Time, Never
<1>5. Scorable \subseteq Scorable'
  BY <1>1 DEF Scorable
<1>6. TypeOK'
  <2>1. \A t \in Scored' : t \in observed' /\ \E s \in observed' : s < t
    BY <1>1, <1>4 DEF AlertInv, TypeOK
  <2> QED BY <1>1, <1>3, <2>1 DEF AlertInv, TypeOK, store, history
<1>7. ASSUME NEW u \in Worker
      PROVE  Sound(u)'
  <2> DEFINE k == worker[u]
             l == Latest(Scored)
  <2>1. k \in Call /\ CallIsSound(k, scores, l, now, Scorable)
    BY CallState
  <2>2. l <= l
    BY <1>4
  <2>3. now' \in Int
    BY <1>1, <1>3
  <2> HIDE DEF k, l
  <2>4. CallIsSound(k, scores, l, now', Scorable')
    BY <1>3, <1>4, <1>5, <2>1, <2>2, <2>3, SoundLasts DEF l
  <2> QED BY <1>1, <1>4, <2>4 DEF Sound, k, l, store
<1>8. ClaimsDiffer' /\ AlertsAreClaimed' /\ ResultAlertedOnce'
  BY <1>1 DEF AlertInv, ClaimsDiffer, AlertsAreClaimed, ResultAlertedOnce, store, history
<1> QED BY <1>6, <1>7, <1>8 DEF AlertInv

\* No call moves.
LEMMA RestKeeps ==
  ASSUME AlertInv, UNCHANGED <<now, observed, store, worker, history>>,
         bound' \in ModelVersion
  PROVE  AlertInv'
<1>1. Scored' = Scored /\ Scorable' = Scorable /\ Latest(Scored)' = Latest(Scored)
  BY SoundRests DEF store
<1>2. TypeOK'
  BY <1>1 DEF AlertInv, TypeOK, store, history
<1>3. \A w \in Worker : Sound(w)'
  BY <1>1 DEF AlertInv, Sound, store
<1>4. ClaimsDiffer' /\ AlertsAreClaimed' /\ ResultAlertedOnce'
  BY DEF AlertInv, ClaimsDiffer, AlertsAreClaimed, ResultAlertedOnce, store, history
<1> QED BY <1>2, <1>3, <1>4 DEF AlertInv

LEMMA NextAlertInv == AlertInv /\ [Next]_vars => AlertInv'
<1> SUFFICES ASSUME AlertInv, [Next]_vars PROVE AlertInv'
  OBVIOUS
<1>1. ASSUME NEW collected \in BOOLEAN, Advance(collected) PROVE AlertInv'
  BY <1>1, AdvanceKeeps
<1>2. ASSUME NEW v \in ModelVersion, Bind(v) PROVE AlertInv'
  BY <1>2, RestKeeps DEF Bind
<1>3. ASSUME NEW w \in Worker, NEW v \in ModelVersion, NEW interactive \in BOOLEAN,
             Start(w, v, interactive)
      PROVE  AlertInv'
  BY <1>3, StartKeeps
<1>4. ASSUME NEW w \in Worker, NEW verdict \in Verdict, Answer(w, verdict)
      PROVE  AlertInv'
  BY <1>4, AnswerKeeps
<1>5. ASSUME NEW w \in Worker, NEW delivered \in BOOLEAN, Send(w, delivered)
      PROVE  AlertInv'
  BY <1>5, SendKeeps
<1>6. ASSUME NEW w \in Worker, ReadScores(w) PROVE AlertInv'
  BY <1>6, ReadScoresKeeps
<1>7. ASSUME NEW w \in Worker, ReadFloor(w) PROVE AlertInv'
  BY <1>7, ReadFloorKeeps
<1>8. ASSUME NEW w \in Worker, Skip(w) PROVE AlertInv'
  BY <1>8, SkipKeeps
<1>9. ASSUME NEW w \in Worker, Fail(w) PROVE AlertInv'
  BY <1>9, FailKeeps
<1>10. ASSUME NEW w \in Worker, Claim(w) PROVE AlertInv'
  BY <1>10, ClaimKeeps
<1>11. ASSUME NEW w \in Worker, CheckNewest(w) PROVE AlertInv'
  BY <1>11, CheckNewestKeeps
<1>12. ASSUME NEW w \in Worker, CheckThrottle(w) PROVE AlertInv'
  BY <1>12, CheckThrottleKeeps
<1>13. ASSUME NEW w \in Worker, UpdateThrottle(w) PROVE AlertInv'
  BY <1>13, UpdateThrottleKeeps
<1>14. ASSUME NEW w \in Worker, Die(w) PROVE AlertInv'
  BY <1>14, DieKeeps
<1>15. CASE UNCHANGED vars
  BY <1>15, RestKeeps DEF vars, AlertInv, TypeOK
<1> QED
  BY <1>1, <1>2, <1>3, <1>4, <1>5, <1>6, <1>7, <1>8, <1>9, <1>10, <1>11, <1>12,
     <1>13, <1>14, <1>15 DEF Next

\* What is about to be sent is news, and nothing has been sent twice.
LEMMA AlertInvMeans == AlertInv => AlertsAreNews
<1> SUFFICES ASSUME AlertInv PROVE AlertsAreNews
  OBVIOUS
<1>1. ASSUME NEW w \in Worker, CallAt(w, "sending")
      PROVE  worker[w].candidate > worker[w].horizon
  <2>1. /\ worker[w].candidate > worker[w].floor /\ worker[w].horizon <= worker[w].floor
        /\ worker[w] \in Call /\ worker[w].candidate \in Time \cup {Never}
    BY <1>1, CallState DEF CallAt, CallIsSound, Floored, Call
  <2> QED BY <2>1, ConstantsAssumption DEF Call, Time, Never
<1> QED BY <1>1 DEF AlertInv, AlertsAreNews, MessagesAreNews

\* However many calls interleave, retry and die, over any number of versions
\* and instants: no result is alerted twice, and no message is about what was
\* processed, or too old, when its call began (_new_event_floor).
THEOREM AlertsAreAlwaysNews == Spec => []AlertsAreNews
<1>1. Init => AlertInv
  BY InitAlertInv
<1>2. AlertInv /\ [Next]_vars => AlertInv'
  BY NextAlertInv
<1>3. AlertInv => AlertsAreNews
  BY AlertInvMeans
<1> QED BY <1>1, <1>2, <1>3, PTL DEF Spec

------------------------------------------------------------------------------
(***************************************************************************)
(* Calls that neither overlap nor die.  The one call at work finds the     *)
(* observations it has left without a score, and every score its version   *)
(* has is old or precedes them; so an anomaly that it claims as news is    *)
(* the newest of its version, and stays its candidate until the alert.     *)
(***************************************************************************)
Careful(m, rows) ==
  /\ m.pc \in {"flooring", "predicting", "claiming"} /\ ~m.interactive =>
       \A t \in m.todo : rows[m.version][t] = "none"
  /\ m.pc = "claiming" \/ (m.pc = "predicting" /\ ~m.interactive) =>
       \A s \in Time : rows[m.version][s] # "none" =>
         s <= m.floor \/ \A t \in m.todo : s < t

Owes(m, rows, o) ==
  /\ m.pc \in {"predicting", "claiming", "alerting", "throttling", "sending"}
  /\ m.candidate = o /\ o > m.floor
  /\ \A s \in Time : rows[m.version][s] = "anomaly" => s <= o
  /\ m.pc \in {"predicting", "claiming"} => ~m.interactive /\ \A t \in m.todo : o < t

Lone ==
  /\ \A w, u \in Worker : worker[w].pc # "idle" /\ worker[u].pc # "idle" => w = u
  /\ \A w \in Worker : Careful(worker[w], scores)
  /\ \A w \in Worker :
       worker[w].pc = "sending" => sentAt = Never \/ now - sentAt >= Window
  /\ sentAt <= now
  /\ sentAt <= throttle \/ \E w \in Worker : worker[w].pc = "stamping"
  /\ owed # Never => \E w \in Worker : Owes(worker[w], scores, owed)

LoneInv == ~overlapped /\ ~died => Lone

\* What there is to show of a step of the one call at work.
LEMMA LoneMoves ==
  ASSUME TypeOK, NEW w \in Worker, NEW m \in Call, Set(w, m),
         \A u \in Worker : u # w => worker[u].pc = "idle",
         Careful(m, scores'),
         m.pc = "sending" => sentAt' = Never \/ now' - sentAt' >= Window,
         sentAt' <= now', sentAt' <= throttle' \/ m.pc = "stamping",
         owed' # Never => Owes(m, scores', owed')
  PROVE  Lone'
<1>1. worker' = [worker EXCEPT ![w] = m] /\ worker \in [Worker -> Call]
  BY DEF Set, TypeOK
<1>2. worker'[w] = m /\ \A u \in Worker : u # w => worker'[u] = worker[u]
  BY <1>1
<1>3. \A u \in Worker : u # w => worker'[u].pc = "idle"
  BY <1>2
<1>4. \A u \in Worker : Careful(worker'[u], scores')
  BY <1>2, <1>3 DEF Careful
<1>5. \A x, u \in Worker : worker'[x].pc # "idle" /\ worker'[u].pc # "idle" => x = u
  BY <1>3
<1>6. \A u \in Worker :
        worker'[u].pc = "sending" => sentAt' = Never \/ now' - sentAt' >= Window
  BY <1>2, <1>3
<1>7. sentAt' <= throttle' \/ \E u \in Worker : worker'[u].pc = "stamping"
  BY <1>2
<1>8. owed' # Never => \E u \in Worker : Owes(worker'[u], scores', owed')
  BY <1>2
<1> QED BY <1>4, <1>5, <1>6, <1>7, <1>8 DEF Lone

\* What a lone call at work may rely on.
LEMMA LoneState ==
  ASSUME AlertInv, Lone, NEW w \in Worker, worker[w].pc # "idle"
  PROVE  /\ \A u \in Worker : u # w => worker[u].pc = "idle"
         /\ Careful(worker[w], scores)
         /\ worker[w].pc = "sending" => sentAt = Never \/ now - sentAt >= Window
         /\ worker[w].pc # "stamping" => sentAt <= throttle
         /\ owed # Never => Owes(worker[w], scores, owed)
         /\ sentAt \in Int /\ throttle \in Int /\ now \in Int /\ sentAt <= now
<1>1. \A u \in Worker : u # w => worker[u].pc = "idle"
  BY DEF Lone
<1>2. owed # Never => Owes(worker[w], scores, owed)
  BY <1>1 DEF Lone, Owes
<1>3. sentAt \in Int /\ throttle \in Int /\ now \in Int
  BY ConstantsAssumption DEF AlertInv, TypeOK, Time, Never
<1> QED BY <1>1, <1>2, <1>3 DEF Lone

\* A call moves on and owes what it owed, or ends and owes nothing.
LEMMA LoneGoesOn ==
  ASSUME AlertInv, Lone, UNCHANGED <<now, scores, throttle, sentAt>>,
         NEW w \in Worker, worker[w].pc \notin {"idle", "stamping"},
         NEW m \in Call, Set(w, m), Careful(m, scores),
         m.pc = "sending" => sentAt = Never \/ now - sentAt >= Window,
         owed' # Never => owed' = owed /\ (Owes(worker[w], scores, owed) => Owes(m, scores, owed))
  PROVE  Lone'
<1>1. owed' # Never => Owes(m, scores, owed')
  BY LoneState
<1> QED BY <1>1, LoneState, LoneMoves DEF AlertInv

LEMMA LoneEnds ==
  ASSUME AlertInv, Lone, UNCHANGED <<now, scores, throttle, sentAt>>,
         NEW w \in Worker, worker[w].pc \notin {"idle", "stamping"}, Return(w),
         owed' = Never \/ (owed' = owed /\ ~Owes(worker[w], scores, owed))
  PROVE  Lone'
<1>1. Idle \in Call /\ Idle.pc = "idle"
  BY IdleIsSound DEF Idle
<1>2. Careful(Idle, scores)
  BY <1>1 DEF Careful
<1> QED BY <1>1, <1>2, LoneGoesOn DEF Return

LEMMA LoneStart ==
  ASSUME AlertInv, Lone, NEW w \in Worker, NEW v \in ModelVersion,
         NEW interactive \in BOOLEAN, Start(w, v, interactive), ~overlapped'
  PROVE  Lone'
<1>1. /\ \A u \in Worker : worker[u].pc = "idle"
      /\ UNCHANGED <<now, scores, throttle, sentAt, owed>>
  BY DEF Start, CallAt, store
<1>2. owed = Never /\ sentAt <= throttle /\ sentAt <= now
  BY <1>1 DEF Lone, Owes
<1> DEFINE m == [Idle EXCEPT
        !.pc = IF interactive THEN "predicting" ELSE "comparing",
        !.interactive = interactive, !.version = v,
        !.todo = IF interactive THEN {Max(observed)} ELSE Scorable,
        !.floor = SecondLast(observed),
        !.horizon = Max({Latest(Scored), now - Max({MaxAge, Freshness})})]
<1>3. Set(w, m)
  BY DEF Start
<1>4. m \in Call
  <2>1. worker'[w] = m
    BY <1>3 DEF Set, AlertInv, TypeOK
  <2>2. worker'[w] \in Call
    <3>1. AlertInv'
      BY StartKeeps
    <3> QED BY <3>1 DEF AlertInv, TypeOK
  <2> QED BY <2>1, <2>2
<1>5. m.pc = IF interactive THEN "predicting" ELSE "comparing"
  BY DEF Idle
<1>6. m.interactive = interactive
  BY DEF Idle
<1> HIDE DEF m
<1>7. Careful(m, scores') /\ m.pc # "sending"
  <2>1. CASE interactive
    BY <1>5, <1>6, <2>1 DEF Careful
  <2>2. CASE ~interactive
    BY <1>5, <2>2 DEF Careful
  <2> QED BY <2>1, <2>2
<1> QED BY <1>1, <1>2, <1>3, <1>4, <1>7, LoneMoves DEF AlertInv

LEMMA LoneReadScores ==
  ASSUME AlertInv, Lone, NEW w \in Worker, ReadScores(w)
  PROVE  Lone'
<1> DEFINE missing == worker[w].todo \ ScoredBy(worker[w].version)
           m == [worker[w] EXCEPT !.pc = "flooring", !.todo = missing]
<1>1. UNCHANGED <<now, scores, throttle, sentAt, owed>> /\ worker[w].pc = "comparing"
  BY DEF ReadScores, CallAt, store, history
<1>2. ~Owes(worker[w], scores, owed)
  BY <1>1 DEF Owes
<1>3. CASE missing = {}
  BY <1>1, <1>2, <1>3, LoneEnds DEF ReadScores
<1>4. CASE missing # {}
  <2>1. Set(w, m)
    BY <1>4 DEF ReadScores
  <2>2. m \in Call /\ m.pc = "flooring" /\ m.version = worker[w].version
        /\ m.todo = missing /\ worker[w].todo \subseteq Time
    BY CallState DEF Call, PC
  <2>3. Careful(m, scores)
    BY <2>2 DEF Careful, ScoredBy
  <2> HIDE DEF m
  <2> QED BY <1>1, <1>2, <2>1, <2>2, <2>3, LoneGoesOn
<1> QED BY <1>3, <1>4

\* The floor is not below a score of any version.
LEMMA FloorIsAbove ==
  ASSUME AlertInv, NEW w \in Worker, CallAt(w, "flooring"), NEW v, NEW s \in Scored
  PROVE  s <= NewEventFloor(v, worker[w].floor)
<1> DEFINE f == NewEventFloor(v, worker[w].floor)
<1>1. /\ now \in Int /\ MaxAge \in Nat /\ Latest(Scored) \in Int
      /\ s \in Int /\ s <= Latest(Scored) /\ s # Never /\ s > Never
  BY CallState, ScoredType, ConstantsAssumption DEF TypeOK, Time, Never
<1>2. Latest(Scored) # Never /\ now - MaxAge \in Int
  BY <1>1 DEF Never
<1>3. f = Max({Latest(Scored), now - MaxAge})
  BY <1>2 DEF NewEventFloor, Processed
<1>4. f \in {Latest(Scored), now - MaxAge} /\ f >= Latest(Scored)
  BY <1>1, <1>2, <1>3, MaxOfTwo
<1> HIDE DEF f
<1>5. f \in Int
  BY <1>1, <1>2, <1>4
<1>6. s <= f
  BY <1>1, <1>4, <1>5
<1> QED BY <1>6 DEF f

LEMMA LoneReadFloor ==
  ASSUME AlertInv, Lone, NEW w \in Worker, ReadFloor(w)
  PROVE  Lone'
<1> DEFINE f == NewEventFloor(worker[w].version, worker[w].floor)
           m == [worker[w] EXCEPT
                   !.pc = IF worker[w].interactive THEN "claiming" ELSE "predicting",
                   !.floor = f]
<1>1. /\ UNCHANGED <<now, scores, throttle, sentAt, owed>> /\ worker[w].pc = "flooring"
      /\ worker[w] \in Call
  BY CallState DEF ReadFloor, CallAt, store, history
<1>2. Set(w, m)
  BY <1>1 DEF ReadFloor, Call
<1>3. \A s \in Time : scores[worker[w].version][s] # "none" => s <= f
  <2>1. worker[w].version \in ModelVersion
    BY <1>1, CallState DEF CallIsSound
  <2>2. \A s \in Time : scores[worker[w].version][s] # "none" => s \in Scored
    BY <2>1 DEF Scored, ScoredBy
  <2> QED BY <1>1, <2>2, FloorIsAbove DEF CallAt
<1>4. f \in Int
  BY <1>1, FloorIsHigh DEF CallAt
<1> HIDE DEF f
<1>5. m \in Call
  BY <1>1, <1>4 DEF Call, PC
<1>6. Careful(m, scores)
  BY <1>1, <1>3, <1>4, LoneState DEF Careful, Call
<1>7. ~Owes(worker[w], scores, owed) /\ m.pc # "sending"
  BY <1>1 DEF Owes, Call
<1> HIDE DEF m
<1> QED BY <1>1, <1>2, <1>5, <1>6, <1>7, LoneGoesOn

LEMMA LoneAnswer ==
  ASSUME AlertInv, Lone, NEW w \in Worker, NEW verdict \in Verdict, Answer(w, verdict)
  PROVE  Lone'
<1> DEFINE m == [worker[w] EXCEPT
                   !.pc = IF worker[w].interactive THEN "flooring" ELSE "claiming",
                   !.verdict = verdict]
<1>1. /\ UNCHANGED <<now, scores, throttle, sentAt, owed>> /\ worker[w].pc = "predicting"
      /\ worker[w] \in Call /\ Set(w, m)
  BY CallState DEF Answer, CallAt, store, history
<1>2. m \in Call
  BY <1>1 DEF Call, PC
<1>3. Careful(m, scores) /\ m.pc # "sending"
  BY <1>1, LoneState DEF Careful, Call
<1>4. Owes(worker[w], scores, owed) => Owes(m, scores, owed)
  BY <1>1 DEF Owes, Call
<1> HIDE DEF m
<1> QED BY <1>1, <1>2, <1>3, <1>4, LoneGoesOn

LEMMA LoneSkip ==
  ASSUME AlertInv, Lone, NEW w \in Worker, Skip(w)
  PROVE  Lone'
<1> DEFINE t == Current(w)
           m == [worker[w] EXCEPT !.pc = Onward(w, t), !.todo = @ \ {t}]
<1>1. /\ UNCHANGED <<now, scores, throttle, sentAt, owed>> /\ worker[w].pc = "predicting"
      /\ worker[w] \in Call
  BY CallState DEF Skip, CallAt, store, history
<1>2. CASE worker[w].interactive
  <2>1. ~Owes(worker[w], scores, owed)
    BY <1>1, <1>2 DEF Owes
  <2> QED BY <1>1, <1>2, <2>1, LoneEnds DEF Skip
<1>3. CASE ~worker[w].interactive
  <2>1. Set(w, m)
    BY <1>3 DEF Skip
  <2> HIDE DEF t
  <2>2. m \in Call
    BY <1>1 DEF Call, PC, Onward
  <2>3. Careful(m, scores) /\ m.pc # "sending"
    BY <1>1, <1>3, LoneState DEF Careful, Call, Onward
  <2>4. Owes(worker[w], scores, owed) => Owes(m, scores, owed)
    BY <1>1 DEF Owes, Call, Onward
  <2> HIDE DEF m
  <2> QED BY <1>1, <2>1, <2>2, <2>3, <2>4, LoneGoesOn
<1> QED BY <1>2, <1>3

\* A call goes on with what it has.
LEMMA LoneGoto ==
  ASSUME AlertInv, Lone, UNCHANGED <<now, scores, throttle, sentAt, owed>>,
         NEW w \in Worker, worker[w].pc \in {"predicting", "claiming", "alerting", "throttling"},
         NEW pc \in {"alerting", "throttling", "sending"}, Goto(w, pc),
         pc = "sending" => sentAt = Never \/ now - sentAt >= Window
  PROVE  Lone'
<1> DEFINE m == [worker[w] EXCEPT !.pc = pc]
<1>1. m \in Call /\ m.pc = pc
  BY CallState DEF Call, PC
<1>2. Careful(m, scores)
  BY <1>1 DEF Careful
<1>3. Owes(worker[w], scores, owed) => Owes(m, scores, owed)
  BY CallState DEF Owes, Call
<1>4. Set(w, m)
  BY DEF Goto
<1> HIDE DEF m
<1> QED BY <1>1, <1>2, <1>3, <1>4, LoneGoesOn

LEMMA LoneFail ==
  ASSUME AlertInv, Lone, NEW w \in Worker, Fail(w)
  PROVE  Lone'
<1>1. UNCHANGED <<now, scores, throttle, sentAt, owed>> /\ worker[w].pc \in {"predicting", "claiming"}
  BY DEF Fail, CallAt, store, history
<1>2. CASE worker[w].interactive
  <2>1. ~Owes(worker[w], scores, owed)
    BY <1>1, <1>2 DEF Owes
  <2> QED BY <1>1, <1>2, <2>1, LoneEnds DEF Fail
<1>3. CASE ~worker[w].interactive
  BY <1>1, <1>3, LoneGoto DEF Fail
<1> QED BY <1>2, <1>3

\* The newest anomaly of a version is what LatestAnomaly finds.
LEMMA NewestAnomaly ==
  ASSUME NEW v, NEW o \in Time, scores[v][o] = "anomaly",
         \A s \in Time : scores[v][s] = "anomaly" => s <= o
  PROVE  LatestAnomaly(v) = o
<1> DEFINE S == {t \in Time : scores[v][t] = "anomaly"}
<1>1. S \in SUBSET Time /\ o \in S /\ \A s \in S : s <= o
  OBVIOUS
<1> HIDE DEF S
<1>2. Max(S) \in S /\ o <= Max(S)
  BY <1>1, MaxOf
<1>3. Max(S) = o
  <2>1. Max(S) \in Time /\ Max(S) <= o
    BY <1>1, <1>2
  <2> QED BY <1>2, <2>1, ConstantsAssumption DEF Time
<1> QED BY <1>1, <1>3 DEF LatestAnomaly, Latest, S

\* A call that owes an alert goes on to give it.
LEMMA LoneCheckNewest ==
  ASSUME AlertInv, Lone, NEW w \in Worker, CheckNewest(w)
  PROVE  Lone'
<1>1. UNCHANGED <<now, scores, throttle, sentAt, owed>> /\ worker[w].pc = "alerting"
  BY DEF CheckNewest, CallAt, store, history
<1>2. CASE Owes(worker[w], scores, owed) /\ owed # Never
  <2>1. /\ worker[w].candidate # Never /\ worker[w].candidate \in Time
        /\ scores[worker[w].version][worker[w].candidate] = "anomaly"
    BY <1>2, CallState DEF Owes, CallIsSound, Call
  <2>2. worker[w].candidate = LatestAnomaly(worker[w].version)
    BY <1>2, <2>1, NewestAnomaly DEF Owes
  <2>3. Goto(w, "throttling")
    BY <1>2, <2>1, <2>2 DEF CheckNewest, IsNews, Owes
  <2> QED BY <1>1, <2>3, LoneGoto
<1>3. CASE ~Owes(worker[w], scores, owed) \/ owed = Never
  <2>1. CASE Return(w)
    BY <1>1, <1>3, <2>1, LoneEnds
  <2>2. CASE Goto(w, "throttling")
    BY <1>1, <2>2, LoneGoto
  <2> QED BY <2>1, <2>2 DEF CheckNewest
<1> QED BY <1>2, <1>3

LEMMA LoneCheckThrottle ==
  ASSUME AlertInv, Lone, NEW w \in Worker, CheckThrottle(w)
  PROVE  Lone'
<1>1. UNCHANGED <<now, scores, throttle, sentAt>> /\ worker[w].pc = "throttling"
  BY DEF CheckThrottle, CallAt, store
<1>2. CASE IsThrottled
  <2>1. owed' = Never \/ (owed' = owed /\ ~Owes(worker[w], scores, owed))
    BY <1>2 DEF CheckThrottle, Ends, Owes
  <2> QED BY <1>1, <1>2, <2>1, LoneEnds DEF CheckThrottle
<1>3. CASE ~IsThrottled
  <2>1. sentAt <= throttle /\ sentAt \in Int /\ throttle \in Int /\ now \in Int
    BY <1>1, LoneState
  <2>2. sentAt \in Time \cup {Never} /\ Window \in Nat
    BY ConstantsAssumption DEF AlertInv, TypeOK
  <2>3. sentAt = Never \/ now - sentAt >= Window
    BY <1>3, <2>1, <2>2, ConstantsAssumption DEF IsThrottled, Time, Never
  <2> QED BY <1>1, <1>3, <2>3, LoneGoto DEF CheckThrottle
<1> QED BY <1>2, <1>3

LEMMA LoneSend ==
  ASSUME AlertInv, Lone, NEW w \in Worker, NEW delivered \in BOOLEAN, Send(w, delivered)
  PROVE  Lone'
<1>1. UNCHANGED <<now, scores, throttle>> /\ worker[w].pc = "sending"
  BY DEF Send, CallAt, store
<1>2. owed' = Never
  <2>1. owed # Never => owed = worker[w].candidate
    BY <1>1, LoneState DEF Owes
  <2> QED BY <2>1 DEF Send, Ends
<1>3. CASE delivered
  <2> DEFINE m == [worker[w] EXCEPT !.pc = "stamping"]
  <2>1. Set(w, m) /\ m \in Call /\ m.pc = "stamping"
    BY <1>3, CallState DEF Send, Goto, Call, PC
  <2>2. sentAt' = now /\ now \in Int /\ now <= now
    BY <1>1, <1>3, LoneState DEF Send
  <2> HIDE DEF m
  <2>3. Careful(m, scores')
    BY <2>1 DEF Careful
  <2> QED BY <1>1, <1>2, <2>1, <2>2, <2>3, LoneState, LoneMoves DEF AlertInv
<1>4. CASE ~delivered
  BY <1>1, <1>2, <1>4, LoneEnds DEF Send
<1> QED BY <1>3, <1>4

LEMMA LoneUpdateThrottle ==
  ASSUME AlertInv, Lone, NEW w \in Worker, UpdateThrottle(w)
  PROVE  Lone'
<1>1. /\ UNCHANGED <<now, scores, sentAt, owed>> /\ throttle' = now
      /\ worker[w].pc = "stamping" /\ Set(w, Idle)
  BY DEF UpdateThrottle, CallAt, Return, history
<1>2. owed = Never /\ \A u \in Worker : u # w => worker[u].pc = "idle"
  BY <1>1, LoneState DEF Owes
<1>3. sentAt <= now /\ now <= now
  BY <1>1, LoneState
<1>4. Idle \in Call /\ Careful(Idle, scores') /\ Idle.pc = "idle"
  BY IdleIsSound DEF Careful, Idle
<1> QED BY <1>1, <1>2, <1>3, <1>4, LoneMoves DEF AlertInv

\* A lone pass claims what it has found no score for, in the order of time.
LEMMA LoneClaim ==
  ASSUME AlertInv, Lone, ~overlapped, ~died, NEW w \in Worker, Claim(w)
  PROVE  Lone'
<1> DEFINE t == Current(w)
           v == worker[w].version
           claimed == Inserts(v, t)
           found == /\ claimed /\ worker[w].verdict = "anomaly"
                    /\ worker[w].interactive => v = bound
           m == [worker[w] EXCEPT !.pc = Onward(w, t), !.todo = @ \ {t},
                                  !.verdict = "normal",
                                  !.candidate = IF found THEN t ELSE @]
<1>1. /\ worker[w].pc = "claiming"
      /\ scores' = IF claimed THEN [scores EXCEPT ![v][t] = worker[w].verdict] ELSE scores
      /\ owed' = IF found /\ t > worker[w].floor THEN t ELSE owed
      /\ UNCHANGED <<now, throttle, sentAt>> /\ worker[w] \in Call
  BY CallState DEF Claim, CallAt
<1>2. Set(w, m)
  BY <1>1 DEF Claim, Call
<1>3. /\ t \in worker[w].todo /\ t \in Time /\ \A s \in worker[w].todo : t <= s
      /\ v \in ModelVersion /\ worker[w].todo \in SUBSET Time
      /\ worker[w].verdict \in Verdict
  BY <1>1, CurrentIsTodo, CallState DEF CallIsSound, Call
<1>4. scores \in [ModelVersion -> [Time -> Verdict \cup {"none"}]]
  BY DEF AlertInv, TypeOK
<1> HIDE DEF t
<1>5. /\ \A s \in Time : s # t => scores'[v][s] = scores[v][s]
      /\ claimed => scores[v][t] = "none" /\ scores'[v][t] = worker[w].verdict
      /\ scores[v][t] = "none" => claimed
  BY <1>1, <1>3, <1>4 DEF Inserts
<1>6. \A s \in worker[w].todo \ {t} : t < s
  <2>1. \A s \in worker[w].todo : s \in Int
    BY <1>3, ConstantsAssumption DEF Time
  <2> QED BY <1>3, <2>1
<1>7. m \in Call
  BY <1>1, <1>3 DEF Call, PC, Onward, Verdict
<1>8. /\ m.pc = Onward(w, t) /\ m.version = v /\ m.todo = worker[w].todo \ {t}
      /\ m.interactive = worker[w].interactive /\ m.floor = worker[w].floor
      /\ m.candidate = IF found THEN t ELSE worker[w].candidate
  BY <1>1 DEF Call
<1>9. worker[w].interactive => m.pc = "alerting"
  BY <1>1, <1>3, <1>8, CallState DEF CallIsSound, Onward
<1>10. /\ Careful(worker[w], scores) /\ worker[w].floor \in Int
       /\ m.pc \in {"alerting", "predicting"}
  BY <1>1, <1>8, LoneState DEF Call, Onward
<1> HIDE DEF m, found, claimed, v
<1>11. Careful(m, scores')
  <2> SUFFICES ASSUME m.pc = "predicting", ~m.interactive
               PROVE  Careful(m, scores')
    BY <1>9, <1>10, <1>8 DEF Careful
  <2>1. \A s \in m.todo : scores'[v][s] = "none"
    BY <1>1, <1>3, <1>5, <1>8, <1>10 DEF Careful, v
  <2>2. ASSUME NEW s \in Time, scores'[v][s] # "none"
        PROVE  s <= m.floor \/ \A r \in m.todo : s < r
    BY <1>1, <1>5, <1>6, <1>8, <1>10, <2>2 DEF Careful, v
  <2> QED BY <1>8, <2>1, <2>2 DEF Careful
<1>12. ASSUME owed' # Never PROVE Owes(m, scores', owed')
  <2>1. CASE found /\ t > worker[w].floor
    <3>1. ASSUME NEW s \in Time, scores'[v][s] = "anomaly"
          PROVE  s <= t
      <4>1. CASE s = t
        BY <1>3, <4>1, ConstantsAssumption DEF Time
      <4>2. CASE s # t
        <5>1. s <= worker[w].floor \/ s < t
          BY <1>1, <1>3, <1>5, <1>10, <3>1, <4>2 DEF Careful, v
        <5> QED BY <1>3, <1>10, <2>1, <5>1, ConstantsAssumption DEF Time
      <4> QED BY <4>1, <4>2
    <3>2. owed' = t /\ m.candidate = t /\ t > m.floor
      BY <1>1, <1>8, <2>1
    <3>3. m.pc = "predicting" => ~m.interactive /\ \A r \in m.todo : t < r
      BY <1>6, <1>8, <1>9
    <3> QED BY <1>8, <1>10, <3>1, <3>2, <3>3 DEF Owes
  <2>2. CASE ~(found /\ t > worker[w].floor)
    <3>1. owed' = owed /\ Owes(worker[w], scores, owed)
      BY <1>1, <1>12, <2>2, LoneState
    <3>2. owed < t /\ owed > worker[w].floor /\ ~worker[w].interactive
      BY <1>1, <1>3, <3>1 DEF Owes
    <3>3. owed \in Int /\ t \in Int
      BY <1>3, ConstantsAssumption DEF AlertInv, TypeOK, Time, Never
    <3>4. t > worker[w].floor
      BY <1>10, <3>2, <3>3
    <3>5. claimed
      BY <1>1, <1>3, <1>5, <1>10, <3>2 DEF Careful, v
    <3>6. ~found /\ worker[w].verdict # "anomaly"
      BY <2>2, <3>2, <3>4, <3>5 DEF found
    <3>7. \A s \in Time : scores'[v][s] = "anomaly" => scores[v][s] = "anomaly"
      BY <1>5, <3>5, <3>6
    <3>8. \A s \in Time : scores'[v][s] = "anomaly" => s <= owed
      BY <3>1, <3>7 DEF Owes, v
    <3>9. m.candidate = owed /\ owed > m.floor /\ ~m.interactive
      BY <1>8, <3>1, <3>2, <3>6 DEF Owes
    <3>10. \A r \in m.todo : owed < r
      BY <1>1, <1>8, <3>1 DEF Owes
    <3> QED BY <1>8, <1>10, <3>1, <3>8, <3>9, <3>10 DEF Owes
  <2> QED BY <2>1, <2>2
<1> QED
  BY <1>1, <1>2, <1>7, <1>10, <1>11, <1>12, LoneState, LoneMoves DEF AlertInv

LEMMA LoneAdvance ==
  ASSUME AlertInv, Lone, NEW collected \in BOOLEAN, Advance(collected)
  PROVE  Lone'
<1>1. now' = now + 1 /\ UNCHANGED <<store, worker, sentAt, owed>>
  BY DEF Advance, history
<1>2. now \in Int /\ sentAt \in Int /\ Window \in Int
  BY ConstantsAssumption DEF AlertInv, TypeOK, Time, Never
<1>3. /\ sentAt <= now'
      /\ sentAt <= throttle \/ \E w \in Worker : worker[w].pc = "stamping"
      /\ \A w \in Worker :
           worker[w].pc = "sending" => sentAt = Never \/ now' - sentAt >= Window
  BY <1>1, <1>2 DEF Lone
<1> QED BY <1>1, <1>3 DEF Lone, store

LEMMA LoneRests ==
  ASSUME Lone, UNCHANGED <<now, store, worker, sentAt, owed>>
  PROVE  Lone'
BY DEF Lone, store

LEMMA NextLoneInv == AlertInv /\ LoneInv /\ [Next]_vars => LoneInv'
<1> SUFFICES ASSUME AlertInv, LoneInv, [Next]_vars, ~overlapped', ~died'
             PROVE  Lone'
  BY DEF LoneInv
<1>1. ASSUME NEW collected \in BOOLEAN, Advance(collected) PROVE Lone'
  BY <1>1, LoneAdvance DEF LoneInv, Advance, history
<1>2. ASSUME NEW v \in ModelVersion, Bind(v) PROVE Lone'
  BY <1>2, LoneRests DEF LoneInv, Bind, history
<1>3. ASSUME NEW w \in Worker, NEW v \in ModelVersion, NEW interactive \in BOOLEAN,
             Start(w, v, interactive)
      PROVE  Lone'
  BY <1>3, LoneStart DEF LoneInv, Start
<1>4. ASSUME NEW w \in Worker, NEW verdict \in Verdict, Answer(w, verdict)
      PROVE  Lone'
  BY <1>4, LoneAnswer DEF LoneInv, Answer, history
<1>5. ASSUME NEW w \in Worker, NEW delivered \in BOOLEAN, Send(w, delivered)
      PROVE  Lone'
  BY <1>5, LoneSend DEF LoneInv, Send
<1>6. ASSUME NEW w \in Worker, ReadScores(w) PROVE Lone'
  BY <1>6, LoneReadScores DEF LoneInv, ReadScores, history
<1>7. ASSUME NEW w \in Worker, ReadFloor(w) PROVE Lone'
  BY <1>7, LoneReadFloor DEF LoneInv, ReadFloor, history
<1>8. ASSUME NEW w \in Worker, Skip(w) PROVE Lone'
  BY <1>8, LoneSkip DEF LoneInv, Skip, history
<1>9. ASSUME NEW w \in Worker, Fail(w) PROVE Lone'
  BY <1>9, LoneFail DEF LoneInv, Fail, history
<1>10. ASSUME NEW w \in Worker, Claim(w) PROVE Lone'
  BY <1>10, LoneClaim DEF LoneInv, Claim
<1>11. ASSUME NEW w \in Worker, CheckNewest(w) PROVE Lone'
  BY <1>11, LoneCheckNewest DEF LoneInv, CheckNewest, history
<1>12. ASSUME NEW w \in Worker, CheckThrottle(w) PROVE Lone'
  BY <1>12, LoneCheckThrottle DEF LoneInv, CheckThrottle
<1>13. ASSUME NEW w \in Worker, UpdateThrottle(w) PROVE Lone'
  BY <1>13, LoneUpdateThrottle DEF LoneInv, UpdateThrottle, history
<1>14. ASSUME NEW w \in Worker, Die(w) PROVE Lone'
  BY <1>14 DEF Die
<1>15. CASE UNCHANGED vars
  BY <1>15, LoneRests DEF LoneInv, vars, history
<1> QED
  BY <1>1, <1>2, <1>3, <1>4, <1>5, <1>6, <1>7, <1>8, <1>9, <1>10, <1>11, <1>12,
     <1>13, <1>14, <1>15 DEF Next

LEMMA InitLoneInv == Init => LoneInv
BY IdleIsSound DEF Init, LoneInv, Lone, Careful, Idle, Never

LEMMA LoneInvMeans == LoneInv => LoneCallsAlert
BY DEF LoneInv, Lone, Owes, LoneCallsAlert, NewestNewsIsAlerted, MessagesAreApart, CallAt

\* As long as calls neither overlap nor die, over any number of versions and
\* instants: the newest anomaly that was claimed as news has its alert when its
\* call ends, even if the service failed later in the pass (score_source), and
\* no message is sent within the window of the last one (notify_anomaly).
THEOREM LoneCallsAlwaysAlert == Spec => []LoneCallsAlert
<1>1. Init => AlertInv /\ LoneInv
  BY InitAlertInv, InitLoneInv
<1>2. AlertInv /\ LoneInv /\ [Next]_vars => (AlertInv /\ LoneInv)'
  BY NextAlertInv, NextLoneInv
<1>3. LoneInv => LoneCallsAlert
  BY LoneInvMeans
<1> QED BY <1>1, <1>2, <1>3, PTL DEF Spec
=============================================================================

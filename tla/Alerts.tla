------------------------------- MODULE Alerts -------------------------------
(***************************************************************************)
(* Telegram alerts about schema drift and change-points                    *)
(* (app/notifications/telegram.py), the two jobs that send them            *)
(* (collect_all_tables and detect_changepoints of                          *)
(* collectors/scheduler.py) and the settings of a project they follow      *)
(* (app/settings.py).  The drift job first collects the global database,   *)
(* for as long as that takes, and then looks for recorded events in a      *)
(* window of time; the change-point job sends what it has just stored.     *)
(* Both read the throttle, send, keep an audit row and update the throttle *)
(* in separate steps, while owners change settings and processes die.      *)
(*                                                                         *)
(* Time is counted in units of five minutes.  Abstracted: a project is one *)
(* table.                                                                  *)
(***************************************************************************)
EXTENDS Absent, Integers, Sequences, FiniteSets

CONSTANTS
  Project, Legacy,      \* projects, and the one that is always visited
  Chat,
  Throttle,             \* the values of throttle_minutes in use
  Interval,             \* COLLECT_INTERVAL_MINUTES
  Slack,                \* the five minutes added to the window
  MaxNow, MaxDrifts, MaxPoints, MaxEdits, MaxFaults     \* bounds

Kind == {"schema_drift", "changepoint"}

ASSUME AlertsAssumption ==
  /\ Legacy \in Project
  /\ None \notin Project \cup Chat /\ None \notin Nat
  /\ Throttle \subseteq Nat \ {0}
  /\ Interval \in Nat \ {0} /\ Slack \in Nat
  /\ {MaxNow, MaxDrifts, MaxPoints, MaxEdits, MaxFaults} \subseteq Nat

VARIABLES
  now, due,             \* the clock, and when the drift job is next due
  measured,             \* the projects whose tables have metrics (constant)
  config,               \* project_notifications
  drifts,               \* schema_events: [project, at]
  points,               \* how many change-points each project has stored
  throttle,             \* telegram_throttle
  job,                  \* what each job is doing
  attempts,             \* every attempt to send, with its fate
  edits, faults,
  chats, settled,       \* history: a project's chats, and when it last changed its settings
  longest, shortest     \* history: of a turn of the drift job, and of its collection

turnVars == <<measured, longest, shortest>>
alertVars == <<now, due, config, drifts, points, throttle, job, attempts, edits, faults,
               chats, settled, turnVars>>

JobIdle == [pc |-> "idle", left |-> {}, project |-> None, config |-> None,
            todo |-> {}, batch |-> {}, since |-> 0]

AlertsInit ==
  /\ now = 0 /\ due = Interval
  /\ config = [p \in Project |-> None]
  /\ drifts = {}
  /\ points = [p \in Project |-> 0]
  /\ throttle = [p \in Project |-> [k \in Kind |-> None]]
  /\ job = [k \in Kind |-> JobIdle]
  /\ attempts = <<>>
  /\ edits = 0 /\ faults = 0
  /\ chats = [p \in Project |-> {}]
  /\ settled = [p \in Project |-> 0]
  /\ measured \in SUBSET Project
  /\ longest = 0 /\ shortest = Interval

JobAt(k, pc) == job[k].pc = pc

------------------------------------------------------------------------------
\* The world: time, DDL, and the settings form

\* What is due is handed to the pool or missed; a turn takes as long as it takes.
Advance ==
  LET taken == IF JobAt("schema_drift", "idle") THEN 0 ELSE now + 1 - job["schema_drift"].since
  IN
  /\ now < MaxNow
  /\ now < due
  /\ now' = now + 1
  /\ longest' = IF taken > longest THEN taken ELSE longest
  /\ UNCHANGED <<due, config, drifts, points, throttle, job, attempts, edits, faults, chats, settled,
                 measured, shortest>>

RecordDrift(p) ==
  /\ Cardinality(drifts) < MaxDrifts
  /\ drifts' = drifts \cup {[project |-> p, at |-> now]}
  /\ UNCHANGED <<now, due, config, points, throttle, job, attempts, edits, faults, chats, settled, turnVars>>

\* The form leaves the stored token alone when none was typed.
SaveConfig(p, typed, chat, minutes) ==
  /\ edits < MaxEdits
  /\ typed \/ config[p] # None
  /\ config' = [config EXCEPT ![p] = [chat |-> chat, throttle |-> minutes,
                  readable |-> typed \/ config[p].readable]]
  /\ chats' = [chats EXCEPT ![p] = @ \cup {chat}]
  /\ settled' = [settled EXCEPT ![p] = now]
  /\ edits' = edits + 1
  /\ UNCHANGED <<now, due, drifts, points, throttle, job, attempts, faults, turnVars>>

Disable(p) ==
  /\ edits < MaxEdits
  /\ config[p] # None
  /\ config' = [config EXCEPT ![p] = None]
  /\ settled' = [settled EXCEPT ![p] = now]
  /\ edits' = edits + 1
  /\ UNCHANGED <<now, due, drifts, points, throttle, job, attempts, faults, chats, turnVars>>

\* The Fernet key is replaced and nothing is encrypted anew.
RotateKey ==
  /\ faults < MaxFaults
  /\ \E p \in Project : config[p] # None /\ config[p].readable
  /\ config' = [p \in Project |->
                  IF config[p] = None THEN None ELSE [config[p] EXCEPT !.readable = FALSE]]
  /\ settled' = [p \in Project |-> now]
  /\ faults' = faults + 1
  /\ UNCHANGED <<now, due, drifts, points, throttle, job, attempts, edits, chats, turnVars>>

------------------------------------------------------------------------------
\* The jobs

Loaded(p) == IF config[p] # None /\ config[p].readable THEN config[p] ELSE None

Start(k) ==
  /\ JobAt(k, "idle")
  /\ k = "schema_drift" => now = due
  /\ due' = IF k = "schema_drift" THEN now + Interval ELSE due
  /\ job' = [job EXCEPT ![k] = [JobIdle EXCEPT !.pc = "preparing", !.since = now]]
  /\ UNCHANGED <<now, config, drifts, points, throttle, attempts, edits, faults, chats, settled, turnVars>>

\* No turn begins during another one (max_instances), or later than a second
\* after it was due (misfire_grace_time).
SkipTurn ==
  /\ now = due
  /\ JobAt("schema_drift", "idle") => faults < MaxFaults
  /\ faults' = IF JobAt("schema_drift", "idle") THEN faults + 1 ELSE faults
  /\ due' = now + Interval
  /\ UNCHANGED <<now, config, drifts, points, throttle, job, attempts, edits, chats, settled, turnVars>>

\* The drift job has collected the global database before it comes to this.
ListProjects(k) ==
  LET taken == now - job[k].since IN
  /\ JobAt(k, "preparing")
  /\ job' = [job EXCEPT ![k].pc = "visiting",
               ![k].left = {Legacy} \cup {p \in Project : config[p] # None}]
  /\ shortest' = IF k = "schema_drift" /\ taken < shortest THEN taken ELSE shortest
  /\ UNCHANGED <<now, due, config, drifts, points, throttle, attempts, edits, faults, chats, settled,
                 measured, longest>>

\* Without a global database the collection raises, and so does the visit of a
\* legacy project that has settings and no metrics: nobody else is visited.
FailTurn ==
  LET j == job["schema_drift"] IN
  /\ faults < MaxFaults
  /\ \/ j.pc = "preparing"
     \/ j.pc = "visiting" /\ Legacy \in j.left \ measured /\ Loaded(Legacy) # None
  /\ faults' = faults + 1
  /\ job' = [job EXCEPT !["schema_drift"] = JobIdle]
  /\ UNCHANGED <<now, due, config, drifts, points, throttle, attempts, edits, chats, settled, turnVars>>

\* Change-points are stored before the settings are read: without settings
\* nobody hears of them.
Detect(p) ==
  \/ points' = points
  \/ points[p] < MaxPoints /\ points' = [points EXCEPT ![p] = @ + 1]

Stored(p) == {{[project |-> p, at |-> n]} : n \in points[p] + 1 .. points'[p]}

\* Mutant: a project without settings gets those of the one before.
FoundOrKept(k, p) == IF Loaded(p) = None THEN job[k].config ELSE Loaded(p)

Found(k, p) == Loaded(p)

\* The drift job looks at tables that have metrics; the legacy project's are
\* otherwise those of the global database.
Looks(k, p) == k = "schema_drift" => p \in measured \cup {Legacy}

Visit(k, p) ==
  /\ JobAt(k, "visiting") /\ p \in job[k].left
  /\ IF k = "changepoint" THEN Detect(p) ELSE points' = points
  /\ job' = [job EXCEPT ![k] =
       IF Found(k, p) = None \/ ~Looks(k, p) THEN [@ EXCEPT !.left = job[k].left \ {p}]
       ELSE [@ EXCEPT !.left = job[k].left \ {p}, !.project = p, !.config = Found(k, p),
                      !.todo = IF k = "changepoint" THEN Stored(p) ELSE {},
                      !.pc = IF k = "changepoint" THEN "notifying" ELSE "reading"]]
  /\ UNCHANGED <<now, due, config, drifts, throttle, attempts, edits, faults, chats, settled, turnVars>>

\* Mutant: the window is as long as the interval.
InShortWindow(d) == d.at >= now - Interval

InWindow(d) == d.at >= now - (Interval + Slack)

ReadDrifts(k) ==
  LET seen == {d \in drifts : d.project = job[k].project /\ InWindow(d)} IN
  /\ JobAt(k, "reading")
  /\ job' = [job EXCEPT ![k].pc = "notifying", ![k].todo = IF seen = {} THEN {} ELSE {seen}]
  /\ UNCHANGED <<now, due, config, drifts, points, throttle, attempts, edits, faults, chats, settled, turnVars>>

\* Mutant: the throttle of the other kind of alert is read.
ThrottledByOther(k) ==
  \E last \in {throttle[job[k].project][o] : o \in Kind \ {k}} :
    last # None /\ now - last < job[k].config.throttle

Throttled(k) ==
  LET last == throttle[job[k].project][k] IN
  last # None /\ now - last < job[k].config.throttle

Choose(k, batch) ==
  /\ JobAt(k, "notifying")
  /\ batch \in job[k].todo
  /\ job' = [job EXCEPT ![k].todo = @ \ {batch}, ![k].batch = batch,
                        ![k].pc = IF Throttled(k) THEN "notifying" ELSE "sending"]
  /\ UNCHANGED <<now, due, config, drifts, points, throttle, attempts, edits, faults, chats, settled, turnVars>>

Outcome == {"sent", "refused", "limited", "timeout"}

\* A request that timed out may have been delivered all the same.
Send(k, outcome) ==
  /\ JobAt(k, "sending")
  /\ outcome # "sent" => faults < MaxFaults
  /\ faults' = IF outcome = "sent" THEN faults ELSE faults + 1
  /\ attempts' = Append(attempts,
       [project |-> job[k].project, kind |-> k, chat |-> job[k].config.chat, at |-> now,
        about |-> job[k].batch, outcome |-> outcome, throttle |-> job[k].config.throttle,
        audited |-> FALSE, counted |-> FALSE])
  /\ job' = [job EXCEPT ![k].pc = "sent"]
  /\ UNCHANGED <<now, due, config, drifts, points, throttle, edits, chats, settled, turnVars>>

\* The latest attempt of a job: its jobs send one at a time.
Latest(k) ==
  CHOOSE i \in DOMAIN attempts :
    attempts[i].kind = k /\ \A j \in i + 1 .. Len(attempts) : attempts[j].kind # k

\* Mutant: a message that was not sent counts as well.
CountsAlways(outcome) == TRUE

Counts(outcome) == outcome = "sent"

\* The audit never stops an alert, whether or not its row can be stored.
Record(k, stored) ==
  /\ JobAt(k, "sent")
  /\ ~stored => faults < MaxFaults
  /\ faults' = IF stored THEN faults ELSE faults + 1
  /\ attempts' = [attempts EXCEPT ![Latest(k)].audited = stored]
  /\ job' = [job EXCEPT ![k].pc =
               IF Counts(attempts[Latest(k)].outcome) THEN "recorded" ELSE "notifying"]
  /\ UNCHANGED <<now, due, config, drifts, points, throttle, edits, chats, settled, turnVars>>

UpdateThrottle(k) ==
  /\ JobAt(k, "recorded")
  /\ throttle' = [throttle EXCEPT ![job[k].project][k] = now]
  /\ attempts' = [attempts EXCEPT ![Latest(k)].counted = TRUE]
  /\ job' = [job EXCEPT ![k].pc = "notifying"]
  /\ UNCHANGED <<now, due, config, drifts, points, edits, faults, chats, settled, turnVars>>

\* The caller logs the failure and goes on with the next alert.
FailToUpdate(k) ==
  /\ JobAt(k, "recorded")
  /\ faults < MaxFaults
  /\ faults' = faults + 1
  /\ job' = [job EXCEPT ![k].pc = "notifying"]
  /\ UNCHANGED <<now, due, config, drifts, points, throttle, attempts, edits, chats, settled, turnVars>>

Proceed(k) ==
  /\ \/ JobAt(k, "notifying") /\ job[k].todo = {}
     \/ JobAt(k, "visiting") /\ job[k].left = {}
  /\ job' = [job EXCEPT ![k] = IF @.pc = "visiting" THEN JobIdle
               ELSE [@ EXCEPT !.pc = "visiting", !.batch = {}]]
  /\ UNCHANGED <<now, due, config, drifts, points, throttle, attempts, edits, faults, chats, settled, turnVars>>

\* The interval of a restarted process counts from its start.
Crash ==
  /\ faults < MaxFaults
  /\ \E k \in Kind : ~JobAt(k, "idle")
  /\ faults' = faults + 1
  /\ job' = [k \in Kind |-> JobIdle]
  /\ due' = now + Interval
  /\ UNCHANGED <<now, config, drifts, points, throttle, attempts, edits, chats, settled, turnVars>>

JobStep(k) ==
  \/ ListProjects(k)
  \/ \E p \in Project : Visit(k, p)
  \/ ReadDrifts(k)
  \/ \E batch \in job[k].todo : Choose(k, batch)
  \/ \E outcome \in Outcome : Send(k, outcome)
  \/ \E stored \in BOOLEAN : Record(k, stored)
  \/ UpdateThrottle(k) \/ FailToUpdate(k)
  \/ Proceed(k)

AlertsNext ==
  \/ Advance \/ RotateKey \/ Crash \/ SkipTurn \/ FailTurn
  \/ \E p \in Project : RecordDrift(p) \/ Disable(p)
  \/ \E p \in Project, typed \in BOOLEAN, chat \in Chat, minutes \in Throttle :
       SaveConfig(p, typed, chat, minutes)
  \/ \E k \in Kind : Start(k) \/ JobStep(k)

AlertsSpec == AlertsInit /\ [][AlertsNext]_alertVars

------------------------------------------------------------------------------
\* Properties

AlertsTypeOK ==
  /\ now \in 0 .. MaxNow /\ due >= now
  /\ \A p \in Project : config[p] # None =>
       config[p] \in [chat: Chat, throttle: Throttle, readable: BOOLEAN]
  /\ \A p \in Project, k \in Kind : throttle[p][k] \in {None} \cup 0 .. now
  /\ \A k \in Kind : job[k].config # None <=> job[k].project # None
  /\ edits \in 0 .. MaxEdits /\ faults \in 0 .. MaxFaults

\* "If a tenant has not configured Telegram, notifications for that tenant are
\* silently dropped, never routed to the admin's chat": an alert about a
\* project goes to a chat of its own settings, however they change while a
\* job is under way.
ChatsArePrivate == \A i \in DOMAIN attempts : attempts[i].chat \in chats[attempts[i].project]

\* Silence is earned: a throttle that keeps alerts back was started by an alert
\* of its kind and project that Telegram accepted (notify_*: "if ok").
ThrottleIsEarned ==
  \A p \in Project, k \in Kind :
    throttle[p][k] # None =>
      \E i \in DOMAIN attempts :
        /\ attempts[i].project = p /\ attempts[i].kind = k
        /\ attempts[i].outcome = "sent" /\ attempts[i].at <= throttle[p][k]

\* Alerts of one kind about one project keep the distance that the project
\* asks for, unless the earlier one could not be counted (is_throttled,
\* update_throttle).
AlertsAreSpaced ==
  \A i, j \in DOMAIN attempts :
    /\ i < j
    /\ attempts[i].project = attempts[j].project /\ attempts[i].kind = attempts[j].kind
    /\ attempts[i].counted
    => attempts[j].at - attempts[i].at >= attempts[j].throttle

\* Turns of the drift job do not meet, and what it collects first takes, give or
\* take Slack, always the same time.
TurnsAreRegular == longest < Interval /\ longest - shortest <= Slack

\* The window of the drift job overlaps its interval enough: as long as its
\* turns are regular and nothing fails, every drift recorded in a table with
\* metrics, of a project whose settings have a throttle short enough not to
\* swallow it, is announced (collect_all_tables, _notify_schema_drift_events).
\* The first window after a start does not reach back to it if a turn takes
\* longer than Slack.
DriftIsAnnounced ==
  \A d \in drifts :
    LET p == d.project IN
    /\ faults = 0 /\ TurnsAreRegular
    /\ p \in measured
    /\ config[p] # None /\ settled[p] < d.at
    /\ config[p].throttle <= Interval - Slack
    /\ d.at >= longest - Slack
    /\ now > d.at + Interval + Slack
    => \E i \in DOMAIN attempts : d \in attempts[i].about

\* Alerts go where they belong, as often as they should.
AlertsAreSound ==
  AlertsTypeOK /\ ChatsArePrivate /\ ThrottleIsEarned /\ AlertsAreSpaced
=============================================================================

---------------------------- MODULE Explanations ----------------------------
(***************************************************************************)
(* Explanations of one observation of one table (app/api.py: explain), the *)
(* resolution of the connection it belongs to (app/source_storage.py), the *)
(* call to the language model with its fallback (app/llm.py) and the cache *)
(* (app/metrics_storage.py).  Connections with a table of this name may    *)
(* have observed the same instant, and so may rows without an owner.  They *)
(* are switched on and off while requests are under way, each of whose     *)
(* look-ups is a transaction of its own.                                   *)
(*                                                                         *)
(* An explanation is abstracted to the owners of the data it rests on.     *)
(***************************************************************************)
EXTENDS Absent, Integers, FiniteSets

CONSTANTS
  Source,           \* connections with a table of this name
  Unknown,          \* the owner of rows that nobody owns
  Request,
  MaxSwitches, MaxOutages      \* bounds

Owner == Source \cup {Unknown}

ASSUME ExplanationsAssumption ==
  /\ Unknown \notin Source /\ None \notin Owner \cup {"explained", "error"}
  /\ MaxSwitches \in Nat /\ MaxOutages \in Nat

VARIABLES
  live,             \* the active connections
  observers,        \* those with an observation of the metric at the instant
  fed,              \* those that fed the table name in the sixty days before
  spoilt,           \* those whose history has an invalid row
  scored,           \* a score of the table at that instant is stored, without an owner
  apiKey,           \* NIM_API_KEY is set
  cache,            \* llm_explanations
  request,
  switches, outages

explainVars == <<live, observers, fed, spoilt, scored, apiKey, cache, request, switches, outages>>

NoRequest == [pc |-> "idle", source |-> None, context |-> None, tries |-> 0, about |-> {},
              outcome |-> None, seenLive |-> {}, faulty |-> FALSE]

ExplainInit ==
  /\ live \in SUBSET Source
  /\ fed \in SUBSET Owner
  /\ observers \in SUBSET fed
  /\ spoilt \in SUBSET (fed \ {Unknown})
  /\ scored \in BOOLEAN /\ apiKey \in BOOLEAN
  /\ cache = [o \in Owner |-> None]
  /\ request = [r \in Request |-> NoRequest]
  /\ switches = 0 /\ outages = 0

At(r, pc) == request[r].pc = pc

Answer(r, outcome, about) ==
  request' = [request EXCEPT ![r] = [NoRequest EXCEPT !.source = request[r].source,
                !.seenLive = request[r].seenLive, !.faulty = request[r].faulty,
                !.outcome = outcome, !.about = about]]

------------------------------------------------------------------------------
\* Which connection an observation belongs to

Attributed == observers \ {Unknown}

Allowed == Attributed \cap live

\* context_source
Resolved ==
  CASE Cardinality(Allowed) > 1                -> "source_required"
    [] Cardinality(Allowed) = 1                -> CHOOSE s \in Allowed : TRUE
    [] Allowed = {} /\ Unknown \in observers   -> Unknown
    [] Allowed = {} /\ observers = {} /\ (scored \/ fed \subseteq {Unknown}) -> Unknown
    [] Allowed = {} /\ observers = {} /\ ~scored /\ ~(fed \subseteq {Unknown}) -> "not_found"
    [] OTHER                                   -> "source_forbidden"

\* Mutant: observers alone decide.
OwnsObservation(s) == observers = {s}

\* owns_project_results
OwnsProjectResults(s) == observers = {s} /\ fed \ {Unknown} = {s}

\* Results without an owner were computed from all that fed the name.
ProjectResults == fed

\* The rows of the context, its scores and change-points (_context_metrics,
\* _source_results).
Context(s) ==
  IF s = Unknown THEN {Unknown} \cup ProjectResults
  ELSE {s} \cup (IF OwnsProjectResults(s) THEN ProjectResults ELSE {})

\* The rule needs no more than the rows of metrics.
RuleContext(s) == {s}

------------------------------------------------------------------------------
\* A request

Switch(s) ==
  /\ switches < MaxSwitches
  /\ live' = IF s \in live THEN live \ {s} ELSE live \cup {s}
  /\ request' = [r \in Request |-> [request[r] EXCEPT !.seenLive = @ \cup live']]
  /\ switches' = switches + 1
  /\ UNCHANGED <<observers, fed, spoilt, scored, apiKey, cache, outages>>

\* The client names a source, or leaves it to be resolved.
AskWhy(r, chosen) ==
  LET s == IF chosen # None THEN chosen ELSE Resolved IN
  /\ At(r, "idle")
  /\ IF s \in Owner
     THEN request' = [request EXCEPT ![r] = [NoRequest EXCEPT !.seenLive = live, !.source = s,
                        !.pc = IF s = Unknown THEN "checking" ELSE "asked"]]
     ELSE request' = [request EXCEPT ![r] = [NoRequest EXCEPT !.outcome = s]]
  /\ UNCHANGED <<live, observers, fed, spoilt, scored, apiKey, cache, switches, outages>>

\* Mutant: who may see the project may see what its connections left behind.
MayReadAny(s) == TRUE

\* check_access
MayRead(s) == s \in live

Authorize(r) ==
  /\ At(r, "asked")
  /\ IF MayRead(request[r].source) THEN request' = [request EXCEPT ![r].pc = "checking"]
     ELSE Answer(r, "source_forbidden", {})
  /\ UNCHANGED <<live, observers, fed, spoilt, scored, apiKey, cache, switches, outages>>

\* The histories that enter an explanation are validated before the cache is read.
CheckHistory(r) ==
  LET s == request[r].source IN
  /\ At(r, "checking")
  /\ CASE s = Unknown /\ fed = {}            -> Answer(r, "not_found", {})
       [] s # Unknown /\ s \notin fed        -> Answer(r, "not_found", {})
       [] s # Unknown /\ s \in spoilt        -> Answer(r, "invalid_history", {})
       [] OTHER -> request' = [request EXCEPT ![r].pc = "checked"]
  /\ UNCHANGED <<live, observers, fed, spoilt, scored, apiKey, cache, switches, outages>>

\* Mutant: one explanation for all that observed the instant.
SharedKey(s) == Unknown

CacheKey(s) == s

ReadCache(r) ==
  LET hit == cache[CacheKey(request[r].source)] IN
  /\ At(r, "checked")
  /\ IF hit # None THEN Answer(r, "explained", hit)
     ELSE request' = [request EXCEPT ![r].pc =
                        IF request[r].source = Unknown THEN "resolving" ELSE "explaining",
                        ![r].context = request[r].source]
  /\ UNCHANGED <<live, observers, fed, spoilt, scored, apiKey, cache, switches, outages>>

\* explain_anomaly resolves a request without a source again.
ResolveAgain(r) ==
  /\ At(r, "resolving")
  /\ request' = [request EXCEPT ![r].context = IF Resolved \in Owner THEN Resolved ELSE None,
                                ![r].pc = IF Resolved \in Owner THEN "explaining" ELSE "written"]
  /\ UNCHANGED <<live, observers, fed, spoilt, scored, apiKey, cache, switches, outages>>

BuildPrompt(r) ==
  /\ At(r, "explaining")
  /\ request' = IF apiKey
                THEN [request EXCEPT ![r].pc = "prompted", ![r].about = Context(request[r].context)]
                ELSE [request EXCEPT ![r].pc = "falling back"]
  /\ UNCHANGED <<live, observers, fed, spoilt, scored, apiKey, cache, switches, outages>>

\* The model answers with what _parse_nim_response can read, or with what it cannot.
NimAnswers(r, readable) ==
  /\ At(r, "prompted")
  /\ request' = [request EXCEPT ![r].pc = IF readable THEN "written" ELSE "falling back"]
  /\ UNCHANGED <<live, observers, fed, spoilt, scored, apiKey, cache, switches, outages>>

MaxTries == 3

\* Mutant: it is tried until it answers.
NeverGiveUp(tries) == FALSE

GiveUp(tries) == tries + 1 = MaxTries

\* No answer: tried three times.
NimUnreachable(r) ==
  /\ At(r, "prompted")
  /\ request' = [request EXCEPT ![r].tries = (@ + 1) % MaxTries,
                   ![r].pc = IF GiveUp(request[r].tries) THEN "falling back" ELSE @]
  /\ UNCHANGED <<live, observers, fed, spoilt, scored, apiKey, cache, switches, outages>>

\* Mutant: only failures of the network are caught.
Uncaught(r) == Answer(r, "error", {})

Caught(r) == request' = [request EXCEPT ![r].pc = "falling back"]

\* A status of 4xx or 5xx, or a body of another form, is not tried again.
NimRefuses(r) ==
  /\ At(r, "prompted")
  /\ Caught(r)
  /\ UNCHANGED <<live, observers, fed, spoilt, scored, apiKey, cache, switches, outages>>

FallBack(r) ==
  /\ At(r, "falling back")
  /\ request' = [request EXCEPT ![r].pc = "written",
                                ![r].about = RuleContext(request[r].context)]
  /\ UNCHANGED <<live, observers, fed, spoilt, scored, apiKey, cache, switches, outages>>

Save(r) ==
  /\ At(r, "written")
  /\ cache' = [cache EXCEPT ![CacheKey(request[r].source)] = request[r].about]
  /\ Answer(r, "explained", request[r].about)
  /\ UNCHANGED <<live, observers, fed, spoilt, scored, apiKey, switches, outages>>

\* Reading or writing the store fails: within the prompt it is like any other
\* failure, elsewhere the request ends.
StoreFails(r) ==
  /\ ~At(r, "idle") /\ ~At(r, "prompted")
  /\ outages < MaxOutages
  /\ outages' = outages + 1
  /\ request' = IF At(r, "explaining") /\ apiKey
                THEN [request EXCEPT ![r].pc = "falling back", ![r].faulty = TRUE]
                ELSE [request EXCEPT ![r] = [NoRequest EXCEPT !.source = request[r].source,
                        !.seenLive = request[r].seenLive, !.faulty = TRUE, !.outcome = "error"]]
  /\ UNCHANGED <<live, observers, fed, spoilt, scored, apiKey, cache, switches>>

\* A day has passed.
Expire(o) ==
  /\ cache[o] # None
  /\ cache' = [cache EXCEPT ![o] = None]
  /\ UNCHANGED <<live, observers, fed, spoilt, scored, apiKey, request, switches, outages>>

Handle(r) ==
  \/ Authorize(r) \/ CheckHistory(r) \/ ReadCache(r) \/ ResolveAgain(r) \/ BuildPrompt(r)
  \/ \E readable \in BOOLEAN : NimAnswers(r, readable)
  \/ NimUnreachable(r) \/ NimRefuses(r) \/ FallBack(r) \/ Save(r) \/ StoreFails(r)

ExplainNext ==
  \/ \E s \in Source : Switch(s)
  \/ \E o \in Owner : Expire(o)
  \/ \E r \in Request : Handle(r) \/ \E chosen \in Source \cup {None} : AskWhy(r, chosen)

ExplainFairness == \A r \in Request : WF_explainVars(Handle(r))

ExplainSpec == ExplainInit /\ [][ExplainNext]_explainVars /\ ExplainFairness

------------------------------------------------------------------------------
\* Properties

ExplainTypeOK ==
  /\ live \subseteq Source /\ observers \subseteq fed /\ fed \subseteq Owner
  /\ \A o \in Owner : cache[o] = None \/ cache[o] \subseteq Owner
  /\ \A r \in Request :
       /\ request[r].source \in Owner \cup {None} /\ request[r].context \in Owner \cup {None}
       /\ request[r].tries \in 0 .. MaxTries - 1 /\ request[r].about \subseteq Owner

\* "History is never reassigned": what is said about a connection's
\* observation rests on its own data, at most with results that nobody else
\* can have contributed to (context_source, owns_project_results, the key of
\* the cache) ...
GroundedInItsSource ==
  \A r \in Request :
    request[r].outcome = "explained" /\ request[r].source \in Source
      => request[r].about \ {Unknown} \subseteq {request[r].source}

\* ... and is said only while it belongs to the project's live connections.
GoneSourcesAreSilent ==
  \A r \in Request :
    request[r].outcome = "explained" /\ request[r].source \in Source
      => request[r].source \in request[r].seenLive

\* "NIM failures fall back to rules; storage failures can still propagate":
\* a request fails only when the store did.
OnlyTheStoreFails == \A r \in Request : request[r].outcome = "error" => request[r].faulty

\* Every request is answered, however often the language model does not.
RequestsEnd == \A r \in Request : ~At(r, "idle") ~> At(r, "idle")

\* An explanation rests on what it is about, and one is given.
ExplanationsAreSound ==
  ExplainTypeOK /\ GroundedInItsSource /\ GoneSourcesAreSilent /\ OnlyTheStoreFails
=============================================================================

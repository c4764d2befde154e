-------------------------- MODULE InferenceService --------------------------
(***************************************************************************)
(* The inference service (inference/service.py): worker threads answer     *)
(* requests from versions of the registry, through a cache of loaded       *)
(* models with one lock per model.  The registry lives on: operators stage *)
(* versions, bytes go bad and libraries are replaced while requests are    *)
(* under way.                                                              *)
(*                                                                         *)
(* A request is what is wrong with it, if anything, and the version it     *)
(* asks for; status codes and the numbers of a prediction are left out.    *)
(***************************************************************************)
EXTENDS VersionStore, Sequences, SequencesExt

CONSTANTS
  Thread,         \* the threads of the pool
  Lock,           \* names for lock objects, enough for all that are in use
  CacheSize,      \* 16
  Demo            \* the configuration's `demo`

ASSUME ServiceAssumption ==
  /\ CacheSize \in Nat \ {0}
  /\ Demo \in BOOLEAN
  /\ IsFiniteSet(Thread) /\ IsFiniteSet(Lock)
  /\ Cardinality(Lock) >= Cardinality(Thread)
  /\ None \notin Lock

VARIABLES
  request,        \* what each thread is doing
  cache,          \* the loaded versions, the least recently used one first
  loadLocks       \* the lock of each version: a weak reference

serviceVars == <<request, cache, loadLocks>>

Endpoint == {"GET /v1/model", "POST /v1/model", "POST /v1/predict"}

NoRequest == [pc |-> "idle", version |-> None, lock |-> None, cached |-> FALSE,
              rotten |-> FALSE, answer |-> "none", owed |-> TRUE]

ServiceInit ==
  /\ request = [t \in Thread |-> NoRequest]
  /\ cache = <<>>
  /\ loadLocks = [v \in Version |-> None]

At(t, pc) == request[t].pc = pc
Go(t, pc) == request' = [request EXCEPT ![t].pc = pc]

\* The entry of a lock vanishes with the last thread that refers to it.
WeakEntries(threads) ==
  [v \in Version |-> IF \E t \in Thread : threads[t].lock = loadLocks[v]
                       THEN loadLocks[v] ELSE None]

\* Of a request that is answered, what the properties ask for.
Answered(t, answer) ==
  request' = [request EXCEPT ![t] = [NoRequest EXCEPT
    !.pc = "answered", !.answer = answer,
    !.version = IF answer = "served" THEN request[t].version ELSE None,
    !.rotten = answer = "served" /\ request[t].rotten,
    !.owed = request[t].owed]]

AnswerWith(t, answer) == Answered(t, answer) /\ loadLocks' = WeakEntries(request')

------------------------------------------------------------------------------
\* Requests

\* What may be wrong with a request before any model is looked at; the first
\* reason decides the status, and any is enough to refuse.
BodyFault == {"token", "media type", "size", "json"}
QueryFault == {"token", "selectors"}
PayloadFault == {"shape", "source", "features"}

Fault == [e \in Endpoint |->
  CASE e = "GET /v1/model"    -> QueryFault \cup PayloadFault
    [] e = "POST /v1/model"   -> BodyFault \cup PayloadFault
    [] e = "POST /v1/predict" -> BodyFault \cup PayloadFault \cup {"semantics"}]

Accepted(t, v, faults) ==
  request' = [request EXCEPT ![t] = [NoRequest EXCEPT
    !.pc = "inspecting", !.version = v, !.rotten = v \in damaged,
    !.owed = faults = {}]]

\* Mutant: the sources of the token are not looked at.
BeginForAny(t, v, faults) ==
  /\ At(t, "idle")
  /\ IF faults \subseteq {"source"} THEN Accepted(t, v, faults) ELSE Answered(t, "refused")
  /\ UNCHANGED <<cache, loadLocks, storeVars>>

Begin(t, v, faults) ==
  /\ At(t, "idle")
  /\ IF faults = {} THEN Accepted(t, v, faults) ELSE Answered(t, "refused")
  /\ UNCHANGED <<cache, loadLocks, storeVars>>

\* The first reading of the manifest.  A request names the features of this
\* code, a version of an earlier release has others.
Inspect(t) ==
  LET v == request[t].version IN
  /\ At(t, "inspecting")
  /\ IF ~Inspects(v, Bundle[v].source) THEN AnswerWith(t, "unavailable")
     ELSE IF ~Bundle[v].current THEN AnswerWith(t, "incompatible")
     ELSE Go(t, "choosing") /\ UNCHANGED loadLocks
  /\ UNCHANGED <<cache, storeVars>>

------------------------------------------------------------------------------
\* The lock of a version, which lives as long as a thread refers to it

NewLock == CHOOSE l \in Lock : \A u \in Thread : request[u].lock # l
Holds(u, l) == request[u].lock = l /\ request[u].pc \in {"peeking", "loading", "storing"}

\* Mutant: the entry of the dictionary goes with the cached model.
ChooseLockOfCached(t) ==
  LET v == request[t].version
      l == IF loadLocks[v] = None \/ v \notin Range(cache) THEN NewLock ELSE loadLocks[v] IN
  /\ At(t, "choosing")
  /\ loadLocks' = [loadLocks EXCEPT ![v] = l]
  /\ request' = [request EXCEPT ![t].lock = l, ![t].pc = "waiting"]
  /\ UNCHANGED <<cache, storeVars>>

ChooseLock(t) ==
  LET v == request[t].version
      l == IF loadLocks[v] = None THEN NewLock ELSE loadLocks[v] IN
  /\ At(t, "choosing")
  /\ loadLocks' = [loadLocks EXCEPT ![v] = l]
  /\ request' = [request EXCEPT ![t].lock = l, ![t].pc = "waiting"]
  /\ UNCHANGED <<cache, storeVars>>

Acquire(t) ==
  /\ At(t, "waiting")
  /\ ~\E u \in Thread : Holds(u, request[t].lock)
  /\ Go(t, "peeking")
  /\ UNCHANGED <<cache, loadLocks, storeVars>>

------------------------------------------------------------------------------
\* Under the lock

Peek(t) ==
  /\ At(t, "peeking")
  /\ request' = [request EXCEPT ![t].pc = "loading",
                                ![t].cached = request[t].version \in Range(cache)]
  /\ UNCHANGED <<cache, loadLocks, storeVars>>

\* Mutant: a cached model is served as it is.
LoadUncached(t) ==
  LET v == request[t].version IN
  /\ At(t, "loading")
  /\ IF request[t].cached \/ Loads(v, Bundle[v].source, Demo)
       THEN Go(t, "storing") /\ UNCHANGED loadLocks
       ELSE AnswerWith(t, "unavailable")
  /\ UNCHANGED <<cache, storeVars>>

\* load_version reads and verifies the files whether the model is cached or
\* not; what the cache saves is the deserialization, and with it the comparison
\* of libraries.  An error leaves the lock.
Load(t) ==
  LET v == request[t].version IN
  /\ At(t, "loading")
  /\ IF Verifies(v, Bundle[v].source, Demo) /\ (request[t].cached \/ LoadsPipeline(v, installed))
       THEN Go(t, "storing") /\ UNCHANGED loadLocks
       ELSE AnswerWith(t, "unavailable")
  /\ UNCHANGED <<cache, storeVars>>

Place(c, v) == CHOOSE i \in DOMAIN c : c[i] = v

\* cache[key] = loaded; cache.move_to_end(key)
Moved(c, v) == Append(IF v \in Range(c) THEN RemoveAt(c, Place(c, v)) ELSE c, v)

\* Mutant: nothing is evicted.
UsedForGood(c, v) == Moved(c, v)

\* The most recently used model is the last one.
Used(c, v) == LET d == Moved(c, v) IN IF Len(d) > CacheSize THEN Tail(d) ELSE d

\* The prediction reads no shared state; its score may not be finite.
Store(t) ==
  /\ At(t, "storing")
  /\ cache' = Used(cache, request[t].version)
  /\ \E answer \in {"served", "unavailable"} : AnswerWith(t, answer)
  /\ UNCHANGED storeVars

Respond(t) ==
  /\ At(t, "answered")
  /\ request' = [request EXCEPT ![t] = NoRequest]
  /\ UNCHANGED <<cache, loadLocks, storeVars>>

\* The service restarts: the pool, the cache and the locks are new.
Restart ==
  /\ request' = [t \in Thread |-> NoRequest]
  /\ cache' = <<>>
  /\ loadLocks' = [v \in Version |-> None]
  /\ UNCHANGED storeVars

Work(t) ==
  Inspect(t) \/ ChooseLock(t) \/ Acquire(t) \/ Peek(t) \/ Load(t) \/ Store(t) \/ Respond(t)

BeginAny(t) ==
  \E e \in Endpoint : \E v \in Version :
    \E faults \in {{}} \cup {{f} : f \in Fault[e]} : Begin(t, v, faults)

ServiceNext ==
  \/ \E t \in Thread : BeginAny(t) \/ Work(t)
  \/ Restart

ServiceAndStoreInit == StoreInit /\ ServiceInit
ServiceAndStoreNext == ServiceNext \/ (StoreNext /\ UNCHANGED serviceVars)
ServiceAndStoreSpec == ServiceAndStoreInit /\ [][ServiceAndStoreNext]_<<storeVars, serviceVars>>

------------------------------------------------------------------------------
\* Properties

\* The cache holds one entry of a version and at most its limit.
ServiceTypeOK ==
  /\ request \in [Thread ->
       [pc: {"idle", "inspecting", "choosing", "waiting", "peeking", "loading",
             "storing", "answered"},
        version: Version \cup {None}, lock: Lock \cup {None}, cached: BOOLEAN,
        rotten: BOOLEAN, owed: BOOLEAN,
        answer: {"none", "refused", "unavailable", "incompatible", "served"}]]
  /\ cache \in Seq(Version) /\ Len(cache) <= CacheSize /\ IsInjective(cache)
  /\ loadLocks \in [Version -> Lock \cup {None}]

\* A request for a version whose bytes had gone bad before it began is never
\* answered with a prediction, even when the model is in the cache: the cache
\* saves the deserialization, never the verification (resolve, load_version).
RotIsNeverServed ==
  \A t \in Thread : request[t].answer = "served" => ~request[t].rotten

\* A model is deserialized by one thread at a time, and not while it is in
\* the cache, whatever was evicted meanwhile (resolve, load_locks).
ModelsLoadOnce ==
  \A t, u \in Thread :
    At(t, "loading") /\ ~request[t].cached =>
      /\ request[t].version \notin Range(cache)
      /\ At(u, "loading") /\ request[u].version = request[t].version => u = t

\* Whether a model exists or works is told only to a request that passed
\* every check, and a prediction comes from a complete, compatible version
\* that was admitted unless the service is a demo (authorized_payload).
AnswersAreOwed ==
  \A t \in Thread :
    /\ request[t].answer \in {"unavailable", "incompatible", "served"} => request[t].owed
    /\ request[t].answer = "served" =>
         LET v == request[t].version IN
         /\ v \in published /\ Bundle[v].current
         /\ PassedStaging(v)
         /\ Demo \/ Admitted(v)

\* The service keeps its bounds and serves what it may, to whom it may.
ServiceIsSound == ServiceTypeOK /\ RotIsNeverServed /\ AnswersAreOwed
=============================================================================

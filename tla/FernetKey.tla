----------------------------- MODULE FernetKey -----------------------------
(***************************************************************************)
(* The key that encrypts the stored secrets (app/crypto.py): loaded by the *)
(* first thread of a process that needs it, under a lock, from the         *)
(* environment, .env or .env.local; generated and written to .env.local    *)
(* outside of production.  Processes of the web server and the command     *)
(* line's scripts come and go, and may load the key at the same time.      *)
(*                                                                         *)
(* Abstracted: a secret is the key that it was encrypted with.             *)
(***************************************************************************)
EXTENDS Absent, Sequences, SequencesExt

CONSTANTS
  Caller,       \* threads that encrypt and decrypt
  Program,      \* processes
  ProgramOf,    \* the process of each thread
  Key           \* the keys that may be generated, or come with the deployment

ASSUME KeyAssumption ==
  /\ ProgramOf \in [Caller -> Program]
  /\ None \notin Key

VARIABLES
  production,   \* FLASK_ENV is production
  writable,     \* the file system is
  dotEnv,       \* the key in .env
  dotEnvLocal,  \* the keys in .env.local, oldest first
  environ,      \* FERNET_KEY in the environment of each process
  fernet,       \* _fernet of each process
  caller,       \* where each thread is in _get_fernet
  secrets,      \* the stored secrets: by whom and with what key
  together      \* two processes have generated a key at once (history)

keyVars == <<production, writable, dotEnv, dotEnvLocal, environ, fernet, caller,
             secrets, together>>

deployment == <<production, writable>>

KeyGoto(t, pc) == caller' = [caller EXCEPT ![t] = pc]
InLock(t) == caller[t] \in {"holding", "loading", "writing"}

\* A deployment: compose hands the key of .env to the container's process as
\* a variable; scripts read the file.  .env.local may be left from before.
KeyInit ==
  /\ production \in BOOLEAN /\ writable \in BOOLEAN
  /\ dotEnv \in {None, CHOOSE k \in Key : TRUE}
  /\ dotEnvLocal \in {<<>>} \cup {<<k>> : k \in Key \ {dotEnv}}
  /\ environ \in [Program -> {None, dotEnv}]
  /\ fernet = [p \in Program |-> None]
  /\ caller = [t \in Caller |-> "idle"]
  /\ secrets = {} /\ together = FALSE

\* encrypt_dsn, encrypt_token, once there is a key
Encrypt(t) ==
  /\ caller[t] = "idle" /\ fernet[ProgramOf[t]] # None
  /\ secrets' = secrets \cup {[by |-> ProgramOf[t], key |-> fernet[ProgramOf[t]]]}
  /\ UNCHANGED <<deployment, dotEnv, dotEnvLocal, environ, fernet, caller, together>>

\* _get_fernet: the check without the lock
NeedKey(t) ==
  /\ caller[t] = "idle" /\ fernet[ProgramOf[t]] = None
  /\ KeyGoto(t, "waiting")
  /\ UNCHANGED <<deployment, dotEnv, dotEnvLocal, environ, fernet, secrets, together>>

LockKey(t) ==
  /\ caller[t] = "waiting"
  /\ \A s \in Caller : ProgramOf[s] = ProgramOf[t] => ~InLock(s)
  /\ KeyGoto(t, "holding")
  /\ UNCHANGED <<deployment, dotEnv, dotEnvLocal, environ, fernet, secrets, together>>

\* Mutant: whoever has the lock loads the key.
CheckedOnce(t) == KeyGoto(t, "loading")

\* The check with the lock: another thread may have loaded it.
CheckAgain(t) == KeyGoto(t, IF fernet[ProgramOf[t]] # None THEN "idle" ELSE "loading")

Recheck(t) ==
  /\ caller[t] = "holding"
  /\ CheckAgain(t)
  /\ UNCHANGED <<deployment, dotEnv, dotEnvLocal, environ, fernet, secrets, together>>

Loaded(t, key) ==
  /\ fernet' = [fernet EXCEPT ![ProgramOf[t]] = key]
  /\ KeyGoto(t, "idle")

LastOfFile == IF dotEnvLocal = <<>> THEN None ELSE Last(dotEnvLocal)

\* Mutant: the keys of old runs come before the deployment's.
LocalFirst == IF LastOfFile # None THEN LastOfFile ELSE dotEnv

\* .env before .env.local, and the last line of a file
InFiles == IF dotEnv # None THEN dotEnv ELSE LastOfFile

\* FernetKeyMissing, when there is none in production.
LoadKey(t) ==
  LET p == ProgramOf[t] IN
  /\ caller[t] = "loading"
  /\ CASE environ[p] # None ->
            Loaded(t, environ[p]) /\ UNCHANGED <<environ, together>>
       [] environ[p] = None /\ production ->
            KeyGoto(t, "idle") /\ UNCHANGED <<environ, fernet, together>>
       [] environ[p] = None /\ ~production /\ InFiles # None ->
            /\ Loaded(t, InFiles)
            /\ environ' = [environ EXCEPT ![p] = InFiles]
            /\ UNCHANGED together
       [] OTHER ->
            /\ KeyGoto(t, "writing")
            /\ together' = (together \/ \E s \in Caller : caller[s] = "writing")
            /\ UNCHANGED <<environ, fernet>>
  /\ UNCHANGED <<deployment, dotEnv, dotEnvLocal, secrets>>

Fresh == Key \ (Range(fernet) \cup {dotEnv} \cup Range(dotEnvLocal)
                  \cup {s.key : s \in secrets})

\* Mutant: the key is for this process only.
KeepInMemory(p, key) ==
  environ' = [environ EXCEPT ![p] = key] /\ UNCHANGED dotEnvLocal

\* Appended to .env.local, so that restarts find it; if that is not possible,
\* it is kept in memory.
PersistKey(p, key) ==
  IF writable
  THEN /\ dotEnvLocal' = Append(dotEnvLocal, key)
       /\ environ' = [environ EXCEPT ![p] = key]
  ELSE UNCHANGED <<dotEnvLocal, environ>>

GenerateKey(t) ==
  /\ caller[t] = "writing"
  /\ \E key \in Fresh : PersistKey(ProgramOf[t], key) /\ Loaded(t, key)
  /\ UNCHANGED <<deployment, dotEnv, secrets, together>>

\* A process ends, at any point, and is started again.  Variables that the
\* deployment set are set again.
RestartProgram(p) ==
  /\ fernet' = [fernet EXCEPT ![p] = None]
  /\ environ' = [environ EXCEPT ![p] = IF @ = dotEnv THEN @ ELSE None]
  /\ caller' = [t \in Caller |-> IF ProgramOf[t] = p THEN "idle" ELSE caller[t]]
  /\ secrets' = {IF s.by = p THEN [s EXCEPT !.by = None] ELSE s : s \in secrets}
  /\ UNCHANGED <<deployment, dotEnv, dotEnvLocal, together>>

\* The operator makes the generated key the deployment's, as the log advises.
SetExplicitly ==
  /\ dotEnv = None /\ LastOfFile # None
  /\ dotEnv' = LastOfFile
  /\ UNCHANGED <<deployment, dotEnvLocal, environ, fernet, caller, secrets, together>>

KeyNext ==
  \/ \E t \in Caller : \/ Encrypt(t) \/ NeedKey(t) \/ LockKey(t) \/ Recheck(t)
                       \/ LoadKey(t) \/ GenerateKey(t)
  \/ \E p \in Program : RestartProgram(p)
  \/ SetExplicitly

KeySpec == KeyInit /\ [][KeyNext]_keyVars

(***************************************************************************)
(* Properties.                                                             *)
(***************************************************************************)
\* What a process encrypted it can decrypt until it ends, whichever of its
\* threads did; and where the key can be written, and no two processes
\* generate one at the same moment, every process that has a key, started
\* before or after, decrypts every secret.
SecretsStayReadable ==
  \A s \in secrets :
    /\ s.by # None => fernet[s.by] = s.key
    /\ writable /\ ~together =>
         \A p \in Program : fernet[p] # None => fernet[p] = s.key
=============================================================================

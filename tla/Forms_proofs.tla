---------------------------- MODULE Forms_proofs ----------------------------
(***************************************************************************)
(* Theorems about what users do in forms, for every number of processes,   *)
(* threads, keys, users, addresses and tokens, every row of a connection,  *)
(* and every threshold and window: what they enter about a connection (its *)
(* editor, its readers, the key that encrypts its secrets), and how they   *)
(* log in and reset a password.                                            *)
(*                                                                         *)
(* Secrets stay readable by two facts.  Of the threads of a process one at *)
(* a time is past the lock, and it gets to load or to generate a key only  *)
(* while its process has none.  And while the key can be written and no    *)
(* two processes have generated one at once, there is one key: the one     *)
(* that is in the files, which a thread finds missing only if nobody has a *)
(* key.                                                                    *)
(*                                                                         *)
(* An edit that is alone finds the DSN that it expects, and a reader's     *)
(* answer that is remembered is the one that it would be given now.        *)
(***************************************************************************)
EXTENDS Forms, ConnectionProbe, FernetKey, FiniteSetTheorems, SequenceTheorems, TLAPS

AnyKey == Key \cup {CHOOSE k \in Key : TRUE, None}
CallerPC == {"idle", "waiting", "holding", "loading", "writing"}
KeptSecret == [by: Program \cup {None}, key: AnyKey \ {None}]

KeyTypes ==
  /\ dotEnv \in AnyKey
  /\ dotEnvLocal \in Seq(Key)
  /\ environ \in [Program -> AnyKey]
  /\ fernet \in [Program -> AnyKey]
  /\ caller \in [Caller -> CallerPC]
  /\ secrets \subseteq KeptSecret

\* The lock, and what the second check under it makes sure of.
OneLoads ==
  /\ \A s, t \in Caller :
       ProgramOf[s] = ProgramOf[t] /\ InLock(s) /\ InLock(t) => s = t
  /\ \A t \in Caller :
       caller[t] \in {"loading", "writing"} => fernet[ProgramOf[t]] = None

OwnSecrets == \A s \in secrets : s.by # None => fernet[s.by] = s.key

\* The key of the files is everybody's.
OneKey ==
  /\ \A p \in Program : environ[p] \in {None, InFiles} /\ fernet[p] \in {None, InFiles}
  /\ \A s \in secrets : s.key = InFiles /\ s.key # None
  /\ \A t \in Caller : caller[t] = "writing" => InFiles = None
  /\ \A s, t \in Caller : caller[s] = "writing" /\ caller[t] = "writing" => s = t

KeyInv ==
  /\ KeyTypes
  /\ OneLoads
  /\ OwnSecrets
  /\ writable /\ ~together => OneKey

------------------------------------------------------------------------------

LEMMA InitKeyInv == KeyInit => KeyInv
<1> SUFFICES ASSUME KeyInit PROVE KeyInv
  OBVIOUS
<1>1. KeyTypes
  <2>1. dotEnv \in AnyKey
    BY DEF KeyInit, AnyKey
  <2>2. dotEnvLocal \in Seq(Key)
    <3>1. <<>> \in Seq(Key) /\ \A k \in Key : <<k>> \in Seq(Key)
      OBVIOUS
    <3> QED BY <3>1 DEF KeyInit
  <2>3. environ \in [Program -> AnyKey]
    BY <2>1 DEF KeyInit, AnyKey
  <2>4. fernet \in [Program -> AnyKey]
    BY DEF KeyInit, AnyKey
  <2>5. caller \in [Caller -> CallerPC] /\ secrets \subseteq KeptSecret
    BY DEF KeyInit, CallerPC
  <2> QED BY <2>1, <2>2, <2>3, <2>4, <2>5 DEF KeyTypes
<1>2. OneLoads /\ OwnSecrets
  BY DEF KeyInit, OneLoads, OwnSecrets, InLock
<1>3. OneKey
  <2>1. dotEnv # None => InFiles = dotEnv
    BY DEF InFiles
  <2> QED BY <2>1 DEF KeyInit, OneKey
<1> QED BY <1>1, <1>2, <1>3 DEF KeyInv

\* InFiles is what it was unless the files change.
LEMMA FilesRest ==
  ASSUME dotEnv' = dotEnv, dotEnvLocal' = dotEnvLocal
  PROVE  InFiles' = InFiles
BY DEF InFiles, LastOfFile

LEMMA EncryptKeeps ==
  ASSUME KeyInv, NEW t \in Caller, Encrypt(t)
  PROVE  KeyInv'
<1> DEFINE p == ProgramOf[t]
<1>1. p \in Program /\ fernet[p] # None /\ fernet[p] \in AnyKey
  BY KeyAssumption DEF KeyInv, KeyTypes, Encrypt
<1>2. /\ secrets' = secrets \cup {[by |-> p, key |-> fernet[p]]}
      /\ UNCHANGED <<deployment, dotEnv, dotEnvLocal, environ, fernet, caller, together>>
  BY DEF Encrypt
<1>3. InFiles' = InFiles
  BY <1>2, FilesRest
<1> HIDE DEF p
<1>4. KeyTypes'
  BY <1>1, <1>2 DEF KeyInv, KeyTypes, KeptSecret
<1>5. OneLoads' /\ OwnSecrets'
  BY <1>2 DEF KeyInv, OneLoads, OwnSecrets, InLock
<1>6. OneKey => OneKey'
  BY <1>1, <1>2, <1>3 DEF OneKey
<1> QED BY <1>2, <1>4, <1>5, <1>6 DEF KeyInv, deployment

\* A thread that only moves on, to a place where it may be.
LEMMA MoveKeeps ==
  ASSUME KeyInv, NEW t \in Caller, NEW pc \in CallerPC \ {"writing"}, KeyGoto(t, pc),
         UNCHANGED <<deployment, dotEnv, dotEnvLocal, environ, fernet, secrets, together>>,
         pc # "idle" /\ pc # "waiting" =>
           \A s \in Caller : ProgramOf[s] = ProgramOf[t] /\ s # t => ~InLock(s),
         pc = "loading" => fernet[ProgramOf[t]] = None
  PROVE  KeyInv'
<1>1. InFiles' = InFiles
  BY FilesRest
<1>2. caller' = [caller EXCEPT ![t] = pc] /\ caller \in [Caller -> CallerPC]
  BY DEF KeyGoto, KeyInv, KeyTypes
<1>3. KeyTypes'
  BY <1>2 DEF KeyInv, KeyTypes
<1>4. OneLoads'
  BY <1>2 DEF KeyInv, OneLoads, InLock, CallerPC
<1>5. OwnSecrets' /\ (OneKey => OneKey')
  BY <1>1, <1>2 DEF KeyInv, OwnSecrets, OneKey
<1> QED BY <1>3, <1>4, <1>5 DEF KeyInv, deployment

LEMMA LoadKeeps ==
  ASSUME KeyInv, NEW t \in Caller, LoadKey(t)
  PROVE  KeyInv'
<1> DEFINE p == ProgramOf[t]
<1>1. /\ p \in Program /\ caller[t] = "loading" /\ fernet[p] = None
      /\ UNCHANGED <<deployment, dotEnv, dotEnvLocal, secrets>>
  BY KeyAssumption DEF KeyInv, OneLoads, LoadKey
<1>2. InFiles' = InFiles
  BY <1>1, FilesRest
<1>3. InFiles \in AnyKey
  <2>1. ASSUME dotEnvLocal # <<>>
        PROVE  Last(dotEnvLocal) \in Key
    BY <2>1 DEF Last, KeyInv, KeyTypes
  <2> QED BY <2>1 DEF InFiles, LastOfFile, AnyKey, KeyInv, KeyTypes
<1>4. ASSUME NEW key \in AnyKey, key # None, Loaded(t, key),
             environ' \in [Program -> AnyKey], together' = together,
             OneKey => /\ key = InFiles
                       /\ \A q \in Program : environ'[q] \in {None, InFiles}
      PROVE  KeyInv'
  <2>1. /\ fernet' = [fernet EXCEPT ![p] = key]
        /\ caller' = [caller EXCEPT ![t] = "idle"]
    BY <1>4 DEF Loaded, KeyGoto
  <2> HIDE DEF p
  <2>2. KeyTypes'
    BY <1>1, <1>4, <2>1 DEF KeyInv, KeyTypes, CallerPC
  <2>3. OneLoads'
    BY <1>1, <2>1 DEF KeyInv, KeyTypes, OneLoads, InLock, p
  <2>4. OwnSecrets'
    BY <1>1, <2>1 DEF KeyInv, KeyTypes, OwnSecrets, KeptSecret
  <2>5. OneKey => OneKey'
    BY <1>1, <1>2, <1>4, <2>1 DEF OneKey, KeyInv, KeyTypes
  <2> QED BY <1>1, <1>4, <2>2, <2>3, <2>4, <2>5 DEF KeyInv, deployment
<1>5. CASE environ[p] # None
  <2>1. environ[p] \in AnyKey /\ environ' = environ
    BY <1>1, <1>5 DEF LoadKey, KeyInv, KeyTypes
  <2> QED BY <1>1, <1>4, <1>5, <2>1 DEF LoadKey, OneKey, KeyInv, KeyTypes
<1>6. CASE environ[p] = None /\ production
  BY <1>1, <1>6, MoveKeeps DEF LoadKey, CallerPC
<1>7. CASE environ[p] = None /\ ~production /\ InFiles # None
  <2>1. Loaded(t, InFiles) /\ environ' = [environ EXCEPT ![p] = InFiles] /\ together' = together
    BY <1>7 DEF LoadKey
  <2> QED BY <1>1, <1>3, <1>4, <1>7, <2>1 DEF OneKey, KeyInv, KeyTypes
<1>8. CASE environ[p] = None /\ ~production /\ InFiles = None
  <2>1. /\ caller' = [caller EXCEPT ![t] = "writing"]
        /\ together' = (together \/ \E s \in Caller : caller[s] = "writing")
        /\ UNCHANGED <<environ, fernet>>
    BY <1>8 DEF LoadKey, KeyGoto
  <2>2. KeyTypes'
    BY <1>1, <2>1 DEF KeyInv, KeyTypes, CallerPC
  <2>3. OneLoads' /\ OwnSecrets'
    BY <1>1, <2>1 DEF KeyInv, KeyTypes, OneLoads, OwnSecrets, InLock
  <2>4. OneKey /\ ~together' => OneKey'
    BY <1>1, <1>2, <1>8, <2>1 DEF OneKey, KeyInv, KeyTypes
  <2> QED BY <1>1, <2>1, <2>2, <2>3, <2>4 DEF KeyInv, deployment
<1> QED BY <1>5, <1>6, <1>7, <1>8

LEMMA GenerateKeeps ==
  ASSUME KeyInv, NEW t \in Caller, GenerateKey(t)
  PROVE  KeyInv'
<1> DEFINE p == ProgramOf[t]
<1>1. /\ p \in Program /\ caller[t] = "writing" /\ fernet[p] = None
      /\ UNCHANGED <<deployment, dotEnv, secrets, together>>
  BY KeyAssumption DEF KeyInv, OneLoads, GenerateKey
<1>2. PICK key \in Fresh : PersistKey(p, key) /\ Loaded(t, key)
  BY DEF GenerateKey
<1>3. key \in Key /\ key # None
  BY KeyAssumption DEF Fresh
<1>4. /\ fernet' = [fernet EXCEPT ![p] = key]
      /\ caller' = [caller EXCEPT ![t] = "idle"]
  BY <1>2 DEF Loaded, KeyGoto
<1>5. KeyTypes'
  <2>1. environ' \in [Program -> AnyKey] /\ dotEnvLocal' \in Seq(Key)
    <3>1. /\ environ \in [Program -> AnyKey] /\ dotEnvLocal \in Seq(Key)
          /\ key \in AnyKey
      BY <1>3 DEF KeyInv, KeyTypes, AnyKey
    <3>2. CASE writable
      <4>1. /\ dotEnvLocal' = Append(dotEnvLocal, key)
            /\ environ' = [environ EXCEPT ![p] = key]
        BY <1>2, <3>2 DEF PersistKey
      <4> HIDE DEF p
      <4>2. dotEnvLocal' \in Seq(Key)
        BY <1>3, <3>1, <4>1
      <4>3. environ' \in [Program -> AnyKey]
        BY <3>1, <4>1
      <4> QED BY <4>2, <4>3
    <3>3. CASE ~writable
      <4>1. UNCHANGED <<dotEnvLocal, environ>>
        BY <1>2, <3>3 DEF PersistKey
      <4> QED BY <3>1, <4>1
    <3> QED BY <3>2, <3>3
  <2>2. fernet' \in [Program -> AnyKey] /\ caller' \in [Caller -> CallerPC]
    BY <1>3, <1>4 DEF KeyInv, KeyTypes, AnyKey, CallerPC
  <2> QED BY <1>1, <2>1, <2>2 DEF KeyInv, KeyTypes
<1>6. OneLoads'
  BY <1>1, <1>4 DEF KeyInv, KeyTypes, OneLoads, InLock
<1>7. OwnSecrets'
  BY <1>1, <1>4 DEF KeyInv, KeyTypes, OwnSecrets, KeptSecret
<1>8. ASSUME writable, OneKey
      PROVE  OneKey'
  <2>1. InFiles = None
    BY <1>1, <1>8 DEF OneKey
  <2>2. dotEnv = None /\ dotEnvLocal = <<>>
    <3>1. dotEnvLocal # <<>> => Last(dotEnvLocal) \in Key
      BY DEF Last, KeyInv, KeyTypes
    <3> QED BY <2>1, <3>1, KeyAssumption DEF InFiles, LastOfFile
  <2>3. /\ dotEnvLocal' = Append(<<>>, key)
        /\ environ' = [environ EXCEPT ![p] = key]
    BY <1>2, <1>8, <2>2 DEF PersistKey
  <2>4. InFiles' = key
    BY <1>1, <1>3, <2>2, <2>3 DEF InFiles, LastOfFile, Last
  <2>5. secrets = {}
    BY <1>8, <2>1 DEF OneKey
  <2> HIDE DEF p
  <2>6. \A q \in Program :
          environ'[q] \in {None, InFiles'} /\ fernet'[q] \in {None, InFiles'}
    BY <1>1, <1>4, <1>8, <2>1, <2>3, <2>4 DEF OneKey, KeyInv, KeyTypes
  <2>7. \A s \in Caller : caller'[s] # "writing"
    BY <1>1, <1>4, <1>8 DEF OneKey, KeyInv, KeyTypes
  <2> QED BY <1>1, <2>5, <2>6, <2>7 DEF OneKey
<1> QED BY <1>1, <1>5, <1>6, <1>7, <1>8 DEF KeyInv, deployment

LEMMA RestartKeeps ==
  ASSUME KeyInv, NEW p \in Program, RestartProgram(p)
  PROVE  KeyInv'
<1>1. /\ fernet' = [fernet EXCEPT ![p] = None]
      /\ environ' = [environ EXCEPT ![p] = IF @ = dotEnv THEN @ ELSE None]
      /\ caller' = [t \in Caller |-> IF ProgramOf[t] = p THEN "idle" ELSE caller[t]]
      /\ secrets' = {IF s.by = p THEN [s EXCEPT !.by = None] ELSE s : s \in secrets}
      /\ UNCHANGED <<deployment, dotEnv, dotEnvLocal, together>>
  BY DEF RestartProgram
<1>2. InFiles' = InFiles
  BY <1>1, FilesRest
<1>3. \A s \in secrets' :
        /\ s \in KeptSecret
        /\ \E old \in secrets : s.key = old.key /\ s.by \in {None, old.by}
        /\ s.by = p => p = None
  BY <1>1 DEF KeyInv, KeyTypes, KeptSecret
<1>4. KeyTypes'
  <2>1. environ' \in [Program -> AnyKey] /\ fernet' \in [Program -> AnyKey]
    BY <1>1 DEF KeyInv, KeyTypes, AnyKey
  <2>2. caller' \in [Caller -> CallerPC]
    BY <1>1 DEF KeyInv, KeyTypes, CallerPC
  <2> QED BY <1>1, <1>3, <2>1, <2>2 DEF KeyInv, KeyTypes
<1>5. OneLoads'
  BY <1>1, KeyAssumption DEF KeyInv, KeyTypes, OneLoads, InLock
<1>6. OwnSecrets'
  BY <1>1, <1>3 DEF KeyInv, KeyTypes, OwnSecrets, KeptSecret
<1>7. OneKey => OneKey'
  BY <1>1, <1>2, <1>3 DEF OneKey, KeyInv, KeyTypes
<1> QED BY <1>1, <1>4, <1>5, <1>6, <1>7 DEF KeyInv, deployment

LEMMA SetKeeps ==
  ASSUME KeyInv, SetExplicitly
  PROVE  KeyInv'
<1>1. dotEnvLocal # <<>> /\ Last(dotEnvLocal) \in Key
  BY DEF SetExplicitly, LastOfFile, Last, KeyInv, KeyTypes
<1>2. InFiles' = InFiles
  BY <1>1 DEF SetExplicitly, InFiles, LastOfFile
<1>3. KeyTypes'
  BY <1>1 DEF SetExplicitly, LastOfFile, KeyInv, KeyTypes, AnyKey
<1>4. OneLoads' /\ OwnSecrets' /\ (OneKey => OneKey')
  BY <1>2 DEF SetExplicitly, KeyInv, OneLoads, OwnSecrets, OneKey, InLock
<1> QED BY <1>3, <1>4 DEF KeyInv, SetExplicitly, deployment

LEMMA NextKeyInv == KeyInv /\ [KeyNext]_keyVars => KeyInv'
<1> SUFFICES ASSUME KeyInv, [KeyNext]_keyVars PROVE KeyInv'
  OBVIOUS
<1>1. ASSUME NEW t \in Caller, NeedKey(t) \/ LockKey(t) \/ Recheck(t)
      PROVE  KeyInv'
  <2>1. CASE NeedKey(t)
    BY <2>1, MoveKeeps DEF NeedKey, CallerPC
  <2>2. CASE LockKey(t)
    BY <2>2, MoveKeeps DEF LockKey, CallerPC
  <2>3. CASE Recheck(t)
    <3>1. \A s \in Caller : ProgramOf[s] = ProgramOf[t] /\ s # t => ~InLock(s)
      BY <2>3 DEF Recheck, KeyInv, OneLoads, InLock
    <3> QED BY <2>3, <3>1, MoveKeeps DEF Recheck, CheckAgain, CallerPC
  <2> QED BY <1>1, <2>1, <2>2, <2>3
<1>2. CASE UNCHANGED keyVars
  BY <1>2, FilesRest
     DEF keyVars, deployment, KeyInv, KeyTypes, OneLoads, OwnSecrets, OneKey, InLock
<1> QED
  BY <1>1, <1>2, EncryptKeeps, LoadKeeps, GenerateKeeps, RestartKeeps, SetKeeps
     DEF KeyNext

------------------------------------------------------------------------------
\* Theorems

\* Whichever threads load the key at once, however often processes restart
\* and wherever the key comes from, what a process encrypted it can decrypt,
\* and unless two processes generated a key at the same moment, or none can be
\* written, so can every other (_get_fernet).
THEOREM SecretsAlwaysStayReadable == KeySpec => []SecretsStayReadable
<1>1. KeyInv => SecretsStayReadable
  BY DEF KeyInv, OwnSecrets, OneKey, SecretsStayReadable
<1> QED
  BY <1>1, InitKeyInv, NextKeyInv, PTL DEF KeySpec

(***************************************************************************)
(* The editor of a connection.                                             *)
(***************************************************************************)
\* The DSN that the connection has, if nobody else interfered.
ExpectedDsn(h) ==
  IF edit[h].pc = "saving" /\ NewDsn(h) # NoDsn THEN NewDsn(h) ELSE edit[h].seen

OneEdits == \A g, h \in Editor : ~EditAt(g, "idle") /\ ~EditAt(h, "idle") => g = h

DsnIsAsExpected ==
  \A h \in Editor :
    row.state = "stored" /\ ~EditAt(h, "idle") => row.dsn = ExpectedDsn(h)

EditorInv ==
  /\ EditorTypeOK
  /\ ~contended => OneEdits /\ DsnIsAsExpected

LEMMA EmptyFormIsAForm == EmptyForm \in Form /\ NoEdit \in Edit
BY DEF EmptyForm, Form, Mode, NoEdit, Edit

LEMMA UnbornIsARow ==
  /\ Unborn \in ConnectionRow /\ Unborn.dsn = NoDsn /\ Unborn.probe = NoDsn
  /\ Unborn.state = "none" /\ Unborn.token = FALSE /\ Unborn.mode = "full"
BY DEF Unborn, ConnectionRow, Mode

LEMMA InitEditorInv == EditorInit => EditorInv
<1> SUFFICES ASSUME EditorInit PROVE EditorInv
  OBVIOUS
<1>1. EditorTypeOK
  BY UnbornIsARow, EmptyFormIsAForm DEF EditorInit, EditorTypeOK
<1>2. \A h \in Editor : edit[h].pc = "idle"
  BY DEF EditorInit, NoEdit
<1> QED BY <1>1, <1>2 DEF EditorInv, OneEdits, DsnIsAsExpected, EditAt

\* A request's thread, its form and what it read, while it is under way.
LEMMA EditTypes ==
  ASSUME EditorTypeOK, NEW h \in Editor
  PROVE  /\ edit[h] \in Edit /\ edit[h].form \in Form
         /\ NewDsn(h) \in Dsn \cup {NoDsn} /\ edit[h].seen \in Dsn \cup {NoDsn}
         /\ edit[h].form.limit \in {"empty", "set", "bad"}
         /\ edit[h].form.mode \in Mode /\ edit[h].form.metadataOnly \in BOOLEAN
BY DEF EditorTypeOK, Edit, Form, NewDsn

\* UPDATE keeps the type of the row, if what it writes has it.
LEMMA UpdateTypes ==
  ASSUME EditorTypeOK, NEW new \in ConnectionRow, Update(new),
         row.state = "stored" => new.state = "stored" /\ new.dsn \in Dsn
  PROVE  /\ row' \in ConnectionRow
         /\ row'.state = "stored" => row'.dsn \in Dsn
         /\ row'.state = "gone" => row' = [Unborn EXCEPT !.state = "gone"]
         /\ row'.state = row.state
BY DEF EditorTypeOK, Update

\* What each handler makes of the row.
LEMMA SaveBasicsRow ==
  ASSUME EditorTypeOK, NEW h \in Editor, SaveBasics(h)
  PROVE  /\ row' \in ConnectionRow
         /\ row'.state = "stored" => row'.dsn \in Dsn
         /\ row'.state = "gone" => row' = [Unborn EXCEPT !.state = "gone"]
         /\ row'.state = row.state
         /\ row.state # "stored" => row' = row
         /\ row.state = "stored" =>
              /\ row'.dsn = IF NewDsn(h) # NoDsn THEN NewDsn(h) ELSE row.dsn
              /\ row'.token = row.token /\ row'.mode = row.mode
<1>1. CASE NewDsn(h) = NoDsn
  BY <1>1 DEF SaveBasics, EditorTypeOK
<1>2. CASE NewDsn(h) # NoDsn
  <2> DEFINE new == [row EXCEPT !.dsn = NewDsn(h)]
  <2>1. new \in ConnectionRow /\ new.state = row.state /\ new.dsn = NewDsn(h)
        /\ new.token = row.token /\ new.mode = row.mode
    BY EditTypes DEF EditorTypeOK, ConnectionRow
  <2>2. Update(new) /\ NewDsn(h) \in Dsn
    BY <1>2, EditTypes DEF SaveBasics
  <2> HIDE DEF new
  <2> QED BY <1>2, <2>1, <2>2, UpdateTypes DEF Update
<1> QED BY <1>1, <1>2

LEMMA SaveSettingsRow ==
  ASSUME EditorTypeOK, NEW h \in Editor, SaveSettings(h)
  PROVE  /\ row' \in ConnectionRow
         /\ row'.state = "stored" => row'.dsn \in Dsn
         /\ row'.state = "gone" => row' = [Unborn EXCEPT !.state = "gone"]
         /\ row'.state = row.state
         /\ row.state # "stored" => row' = row
         /\ row.state = "stored" =>
              /\ row'.dsn = row.dsn
              /\ ~row.token /\ row'.token => EditDialect(h) = "iceberg"
              /\ row'.mode # "full" => EditDialect(h) = "postgres"
<1> DEFINE form == edit[h].form
           iceberg == EditDialect(h) = "iceberg"
           limit == form.limit = "set"
           only == IF iceberg THEN form.metadataOnly ELSE row.metadataOnly
           bearer == CASE iceberg /\ form.token = "new"   -> TRUE
                       [] iceberg /\ form.token = "clear" -> FALSE
                       [] OTHER -> row.token
           new == [row EXCEPT !.mode = form.mode, !.limit = limit,
                              !.metadataOnly = only, !.token = bearer]
<1>0. row \in ConnectionRow
  BY DEF EditorTypeOK
<1>1. /\ limit \in BOOLEAN /\ only \in BOOLEAN /\ form.mode \in Mode
      /\ bearer \in BOOLEAN /\ (bearer => row.token \/ iceberg)
  BY <1>0, EditTypes DEF ConnectionRow
<1>2. Update(new)
  BY DEF SaveSettings
<1>3. form.mode # "full" => EditDialect(h) = "postgres"
  BY DEF SaveSettings, Rejected
<1>4. /\ new \in ConnectionRow /\ new.state = row.state /\ new.dsn = row.dsn
      /\ new.mode = form.mode /\ new.token = bearer
  <2> HIDE DEF limit, only, bearer, form
  <2> QED BY <1>0, <1>1 DEF ConnectionRow
<1> HIDE DEF new, bearer
<1> QED BY <1>1, <1>2, <1>3, <1>4, UpdateTypes DEF Update, EditorTypeOK

LEMMA PersistProbeRow ==
  ASSUME EditorTypeOK, NEW h \in Editor, PersistProbe(h)
  PROVE  /\ row' \in ConnectionRow
         /\ row'.state = "stored" => row'.dsn \in Dsn
         /\ row'.state = "gone" => row' = [Unborn EXCEPT !.state = "gone"]
         /\ row'.state = row.state
         /\ row.state # "stored" => row' = row
         /\ row.state = "stored" =>
              /\ row'.dsn = row.dsn /\ row'.token = row.token /\ row'.mode = row.mode
              /\ row'.probe = edit[h].seen
<1> DEFINE new == [row EXCEPT !.probe = edit[h].seen]
<1>1. /\ new \in ConnectionRow /\ new.state = row.state /\ new.dsn = row.dsn
      /\ new.token = row.token /\ new.mode = row.mode /\ new.probe = edit[h].seen
  BY EditTypes DEF EditorTypeOK, ConnectionRow
<1>2. Update(new)
  BY DEF PersistProbe
<1> HIDE DEF new
<1> QED BY <1>1, <1>2, UpdateTypes DEF Update, EditorTypeOK

LEMMA CreateRow ==
  ASSUME NEW h \in Editor, NEW dsn \in Dsn, NEW bearer \in BOOLEAN,
         NEW isFirst \in BOOLEAN, Create(h, dsn, bearer, isFirst)
  PROVE  /\ row' \in ConnectionRow /\ row'.state = "stored" /\ row'.dsn = dsn
         /\ row'.token => Dialect[dsn] = "iceberg"
         /\ row'.mode = "full"
<1> DEFINE kept == bearer /\ Dialect[dsn] = "iceberg"
<1>1. kept \in BOOLEAN
  OBVIOUS
<1>2. row' = [Unborn EXCEPT !.state = "stored", !.dsn = dsn, !.token = kept]
  BY DEF Create
<1>3. /\ row' \in ConnectionRow /\ row'.state = "stored" /\ row'.dsn = dsn
      /\ row'.token = kept /\ row'.mode = "full"
  <2> HIDE DEF kept
  <2> QED BY <1>1, <1>2, UnbornIsARow DEF ConnectionRow
<1> QED BY <1>3

LEMMA DeleteRow ==
  ASSUME EditorTypeOK, NEW h \in Editor, Delete(h)
  PROVE  /\ row' \in ConnectionRow /\ row'.state # "stored"
         /\ row'.state = "gone" => row' = [Unborn EXCEPT !.state = "gone"]
         /\ row.state # "stored" => row' = row
         /\ row.state = "stored" =>
              ~row'.token /\ row'.mode = "full" /\ row'.probe = row'.dsn
BY UnbornIsARow DEF Delete, EditorTypeOK, ConnectionRow

LEMMA OperatorPatchRow ==
  ASSUME EditorTypeOK, NEW limit \in BOOLEAN, OperatorPatch(limit)
  PROVE  /\ row' \in ConnectionRow /\ row'.state = "stored" /\ row.state = "stored"
         /\ row'.dsn = row.dsn /\ row'.token = row.token /\ row'.mode = row.mode
BY DEF OperatorPatch, EditorTypeOK, ConnectionRow

\* The step of a request that was under way.  If it is alone, no other is.
LEMMA HandleKeeps ==
  ASSUME EditorInv, NEW h \in Editor, Handle(h)
  PROVE  EditorInv'
<1> USE DEF EditAt, EditGoto, EditDone
<1>0. EditorTypeOK /\ edit \in [Editor -> Edit] /\ ~EditAt(h, "idle")
  BY DEF EditorInv, EditorTypeOK, Handle, SaveBasics, Reject, SaveSettings,
         PersistProbe, Delete, BreakOff
<1>1. /\ contended' = contended
      /\ edit' \in [Editor -> Edit]
      /\ \A g \in Editor : g # h => edit'[g] = edit[g]
  BY <1>0, EmptyFormIsAForm, EditTypes
     DEF Handle, SaveBasics, Reject, SaveSettings, PersistProbe, Delete,
         BreakOff, ProbeIfChanged, Edit
<1>2. /\ row' \in ConnectionRow
      /\ row'.state = "stored" => row'.dsn \in Dsn
      /\ row'.state = "gone" => row' = [Unborn EXCEPT !.state = "gone"]
  BY <1>0, SaveBasicsRow, SaveSettingsRow, PersistProbeRow, DeleteRow
     DEF Handle, Reject, BreakOff, EditorTypeOK
<1>3. EditorTypeOK'
  BY <1>1, <1>2 DEF EditorTypeOK
<1>4. ASSUME ~contended PROVE OneEdits' /\ DsnIsAsExpected'
  <2>1. \A g \in Editor : g # h => edit[g].pc = "idle" /\ edit'[g].pc = "idle"
    BY <1>0, <1>1, <1>4 DEF EditorInv, OneEdits
  <2>2. OneEdits'
    BY <2>1 DEF OneEdits
  <2>3. row.state = "stored" => row.dsn = ExpectedDsn(h)
    BY <1>0, <1>4 DEF EditorInv, DsnIsAsExpected
  <2>4. ASSUME row'.state = "stored", edit'[h].pc # "idle"
        PROVE  row'.dsn = ExpectedDsn(h)'
    <3>1. CASE SaveBasics(h)
      <4>1. /\ edit'[h].pc = "saving" /\ edit'[h].seen = edit[h].seen
            /\ edit'[h].form = edit[h].form /\ edit[h].pc = "editing"
        BY <1>0, <3>1 DEF SaveBasics, Edit
      <4> QED
        BY <1>0, <2>3, <2>4, <3>1, <4>1, SaveBasicsRow DEF ExpectedDsn, NewDsn
    <3>2. CASE SaveSettings(h)
      <4>1. /\ edit'[h].pc = "probing" /\ edit'[h].seen = NewDsn(h)
            /\ NewDsn(h) # NoDsn /\ edit[h].pc = "saving"
        BY <1>0, <2>4, <3>2 DEF SaveSettings, ProbeIfChanged, Edit, NoEdit
      <4> QED
        BY <1>0, <2>3, <2>4, <3>2, <4>1, SaveSettingsRow DEF ExpectedDsn
    <3>3. CASE Reject(h) \/ PersistProbe(h) \/ Delete(h) \/ BreakOff(h)
      BY <1>0, <2>4, <3>3 DEF Reject, PersistProbe, Delete, BreakOff, NoEdit
    <3> QED BY <3>1, <3>2, <3>3 DEF Handle
  <2> QED BY <2>1, <2>2, <2>4 DEF DsnIsAsExpected
<1> QED BY <1>1, <1>3, <1>4 DEF EditorInv

LEMMA OpenKeeps ==
  ASSUME EditorInv, NEW h \in Editor, NEW pc \in {"editing", "probing", "deleting"},
         NEW form \in Form, Open(h, pc, form)
  PROVE  EditorInv'
<1> USE DEF EditAt, EditGoto, EditDone
<1>1. /\ edit' \in [Editor -> Edit] /\ row' = row
      /\ edit'[h].pc = pc /\ edit'[h].seen = row.dsn
      /\ \A g \in Editor : g # h => edit'[g] = edit[g]
  BY DEF Open, EditorInv, EditorTypeOK, Edit, ConnectionRow
<1>2. EditorTypeOK'
  BY <1>1 DEF EditorInv, EditorTypeOK
<1>3. ASSUME ~contended' PROVE OneEdits' /\ DsnIsAsExpected'
  <2>1. \A g \in Editor : edit[g].pc = "idle"
    BY <1>3 DEF Open, NobodyEdits
  <2> QED BY <1>1, <2>1 DEF OneEdits, DsnIsAsExpected, ExpectedDsn
<1> QED BY <1>2, <1>3 DEF EditorInv

LEMMA CreateKeeps ==
  ASSUME EditorInv, NEW h \in Editor, NEW dsn \in Dsn, NEW bearer \in BOOLEAN,
         NEW isFirst \in BOOLEAN, Create(h, dsn, bearer, isFirst)
  PROVE  EditorInv'
<1> USE DEF EditAt, EditGoto, EditDone
<1>1. /\ edit' \in [Editor -> Edit]
      /\ edit' # edit => edit'[h].pc = "probing" /\ edit'[h].seen = dsn
      /\ \A g \in Editor : g # h => edit'[g] = edit[g]
  BY DEF Create, EditorInv, EditorTypeOK, Edit
<1>2. EditorTypeOK'
  BY <1>1, CreateRow DEF EditorTypeOK
<1>3. ASSUME ~contended' PROVE OneEdits' /\ DsnIsAsExpected'
  <2>1. \A g \in Editor : edit[g].pc = "idle"
    BY <1>3 DEF Create, NobodyEdits
  <2> QED
    BY <1>1, <2>1, CreateRow DEF OneEdits, DsnIsAsExpected, ExpectedDsn
<1> QED BY <1>2, <1>3 DEF EditorInv

LEMMA NextEditorInv == EditorInv /\ [EditorNext]_editorVars => EditorInv'
<1> SUFFICES ASSUME EditorInv, [EditorNext]_editorVars PROVE EditorInv'
  OBVIOUS
<1>1. ASSUME NEW h \in Editor, NEW role \in {"owner", "editor"},
             NEW form \in Forms, OpenEditor(h, role, form)
      PROVE  EditorInv'
  <2> DEFINE kept == IF role = "owner" THEN form ELSE [form EXCEPT !.dsn = NoDsn]
  <2>1. kept \in Form
    BY EditorAssumption DEF Form
  <2>2. Open(h, "editing", kept)
    BY <1>1 DEF OpenEditor
  <2> HIDE DEF kept
  <2> QED BY <2>1, <2>2, OpenKeeps
<1>2. ASSUME NEW h \in Editor, NEW pc \in {"probing", "deleting"},
             Open(h, pc, EmptyForm)
      PROVE  EditorInv'
  BY <1>2, EmptyFormIsAForm, OpenKeeps
<1>3. ASSUME NEW limit \in BOOLEAN, OperatorPatch(limit)
      PROVE  EditorInv'
  <2>1. /\ row' \in ConnectionRow /\ row'.state = "stored" /\ row.state = "stored"
        /\ row'.dsn = row.dsn
        /\ edit' = edit /\ contended' = contended
    BY <1>3, OperatorPatchRow DEF EditorInv, OperatorPatch
  <2> QED
    BY <2>1 DEF EditorInv, EditorTypeOK, OneEdits, DsnIsAsExpected, ExpectedDsn,
                NewDsn, EditAt
<1>4. CASE UNCHANGED editorVars
  BY <1>4 DEF editorVars, EditorInv, EditorTypeOK, OneEdits, DsnIsAsExpected,
              ExpectedDsn, NewDsn, EditAt
<1> QED BY <1>1, <1>2, <1>3, <1>4, HandleKeeps, CreateKeeps DEF EditorNext

\* The row of a connection keeps its type, whatever edits race; a deleted one
\* keeps no secret and no result.
THEOREM EditorTypeCorrect == EditorSpec => []EditorTypeOK
<1>1. EditorInv => EditorTypeOK
  BY DEF EditorInv
<1> QED BY <1>1, InitEditorInv, NextEditorInv, PTL DEF EditorSpec

LEMMA StepStaysGone ==
  ASSUME EditorInv, [EditorNext]_editorVars, row.state = "gone"
  PROVE  row' = row
BY DEF EditorNext, editorVars, Handle, SaveBasics, Reject, SaveSettings,
       PersistProbe, Delete, BreakOff, Update, Create, Open, OpenEditor,
       OperatorPatch

LEMMA StepFitsDialect ==
  ASSUME EditorInv, EditorNext, ~contended
  PROVE  /\ ~row.token /\ row'.token => Dialect[row'.dsn] = "iceberg"
         /\ row.mode = "full" /\ row'.mode # "full" => Dialect[row'.dsn] = "postgres"
<1>0. EditorTypeOK
  BY DEF EditorInv
<1>1. ASSUME NEW h \in Editor, SaveSettings(h)
      PROVE  /\ ~row.token /\ row'.token => Dialect[row'.dsn] = "iceberg"
             /\ row.mode = "full" /\ row'.mode # "full" => Dialect[row'.dsn] = "postgres"
  <2>1. row.state = "stored" => EditDialect(h) = Dialect[row.dsn]
    BY <1>1 DEF EditorInv, DsnIsAsExpected, ExpectedDsn, EditDialect, SaveSettings,
                EditAt
  <2> QED BY <1>0, <1>1, <2>1, SaveSettingsRow
<1>2. ASSUME NEW h \in Editor,
             SaveBasics(h) \/ PersistProbe(h) \/ Delete(h) \/ Reject(h) \/ BreakOff(h)
      PROVE  (row'.token => row.token) /\ (row'.mode = row.mode \/ row'.mode = "full")
  BY <1>0, <1>2, SaveBasicsRow, PersistProbeRow, DeleteRow DEF Reject, BreakOff
<1>3. ASSUME NEW h \in Editor, NEW dsn \in Dsn, NEW bearer \in BOOLEAN,
             NEW isFirst \in BOOLEAN, Create(h, dsn, bearer, isFirst)
      PROVE  /\ row'.token => Dialect[row'.dsn] = "iceberg"
             /\ row'.mode = "full"
  BY <1>3, CreateRow
<1>4. ASSUME NEW limit \in BOOLEAN, OperatorPatch(limit)
      PROVE  row'.token = row.token /\ row'.mode = row.mode
  BY <1>0, <1>4, OperatorPatchRow
<1> QED BY <1>1, <1>2, <1>3, <1>4 DEF EditorNext, Handle, OpenEditor, Open

LEMMA StepProbes ==
  ASSUME EditorInv, EditorNext, ~contended, NEW h \in Editor,
         ~EditAt(h, "idle"), ~Rejected(h), NewDsn(h) # NoDsn,
         edit'[h].pc = "idle", row.state = "stored", ~brokenOff'
  PROVE  row'.probe = row'.dsn
<1>0. EditorTypeOK /\ edit \in [Editor -> Edit] /\ edit' # edit
  BY DEF EditorInv, EditorTypeOK, EditAt
<1>1. ASSUME NEW g \in Editor, Handle(g) PROVE g = h
  <2>1. \A f \in Editor : f # g => edit'[f] = edit[f]
    BY <1>0, <1>1 DEF Handle, SaveBasics, Reject, SaveSettings, PersistProbe,
                      Delete, BreakOff, EditGoto, EditDone, ProbeIfChanged
  <2> QED BY <2>1 DEF EditAt
<1>2. Handle(h)
  <2>1. ASSUME NEW g \in Editor, NEW dsn \in Dsn, NEW bearer \in BOOLEAN,
               NEW isFirst \in BOOLEAN, Create(g, dsn, bearer, isFirst)
        PROVE  FALSE
    BY <1>0, <2>1 DEF Create, EditAt, Edit
  <2>2. ASSUME NEW g \in Editor, NEW pc \in {"editing", "probing", "deleting"},
               NEW form, Open(g, pc, form)
        PROVE  FALSE
    BY <1>0, <2>2 DEF Open, EditAt
  <2>3. ASSUME NEW limit \in BOOLEAN, OperatorPatch(limit)
        PROVE  FALSE
    BY <1>0, <2>3 DEF OperatorPatch
  <2> QED BY <1>1, <2>1, <2>2, <2>3 DEF EditorNext, OpenEditor
<1>3. CASE PersistProbe(h)
  BY <1>0, <1>3, PersistProbeRow
     DEF EditorInv, DsnIsAsExpected, ExpectedDsn, EditAt, PersistProbe
<1>4. CASE Delete(h)
  BY <1>0, <1>4, DeleteRow
<1>5. CASE SaveBasics(h) \/ SaveSettings(h) \/ Reject(h)
  BY <1>0, <1>5 DEF SaveBasics, SaveSettings, Reject, EditGoto, ProbeIfChanged, Edit
<1> QED BY <1>2, <1>3, <1>4, <1>5 DEF Handle, BreakOff

\* A deleted connection stays deleted; while requests do not overlap, an edit
\* leaves settings that fit the dialect of the DSN, and, if none of them dies,
\* a probe of the new one (edit, connections.py).
THEOREM EditsAreAlwaysSound == EditorSpec => EditsAreSound
<1>1. EditorInv /\ [EditorNext]_editorVars
        => [row.state = "gone" => row' = row]_row
  BY StepStaysGone
<1>2. EditorInv /\ [EditorNext]_editorVars
        => [~contended =>
              /\ ~row.token /\ row'.token => Dialect[row'.dsn] = "iceberg"
              /\ row.mode = "full" /\ row'.mode # "full"
                   => Dialect[row'.dsn] = "postgres"]_row
  BY StepFitsDialect DEF editorVars
<1>3. EditorInv /\ [EditorNext]_editorVars
        => [\A h \in Editor :
              /\ ~EditAt(h, "idle") /\ ~Rejected(h) /\ NewDsn(h) # NoDsn
              /\ edit'[h].pc = "idle" /\ row.state = "stored"
              /\ ~contended /\ ~brokenOff'
              => row'.probe = row'.dsn]_editorVars
  BY StepProbes
<1> QED
  BY <1>1, <1>2, <1>3, InitEditorInv, NextEditorInv, PTL
     DEF EditorSpec, EditsAreSound, GoneStaysGone, SettingsFitDialect, SavedDsnIsProbed

(***************************************************************************)
(* The readers of a connection.                                            *)
(***************************************************************************)
\* What a reader is told that reads the row now and is answered at once.
Asked(r) == [places |-> PlacesOf(r), token |-> TokenOf(r), warehouse |-> WarehouseOf(r)]

ProbeToldNow ==
  LET q == Asked("test") IN
  CASE backend = "iceberg" ->
         IF Refused(q) THEN Answer("refused", NoTables)
         ELSE IF q.places = {} THEN Answer("reached", NoTables)
         ELSE IF \E p \in q.places : CatalogOf(q)[p] = None
         THEN Answer("namespace_not_found", TablesOf(q))
         ELSE Answer("listed", TablesOf(q))
    [] backend = "postgres" ->
         IF q.places \subseteq usage THEN Answer("listed", TablesOf(q))
         ELSE Answer("no_usage", NoTables)
    [] OTHER ->
         Answer(IF backend = "mysql" THEN "unsupported" ELSE "reached", NoTables)

ToldNow(r) ==
  IF Unreadable(r) THEN Answer("locked", NoTables)
  ELSE IF r = "test" THEN ProbeToldNow
  ELSE IF Refused(Asked(r)) THEN Answer("refused", NoTables)
  ELSE Answer("listed", TablesOf(Asked(r)))

\* A reader that nothing has overtaken asks for what the row says now.
AsksForTheRow(r) ==
  reader[r] = NotReading \/
  /\ reader[r].pc = "asking"
  /\ reader[r].stale \in BOOLEAN
  /\ ~reader[r].stale =>
       /\ ~Unreadable(r)
       /\ reader[r].places = PlacesOf(r) /\ reader[r].token = TokenOf(r)
       /\ reader[r].warehouse = WarehouseOf(r)

\* What is remembered of the answers is what the readers would be told now.
ProbeInv ==
  /\ reader = [r \in Reader |-> reader[r]]
  /\ answers = [r \in Reader |-> answers[r]]
  /\ backend \in {"postgres", "clickhouse", "iceberg", "mysql"}
  /\ \A r \in Reader : AsksForTheRow(r)
  /\ \A r \in Reader : answers[r] # None => answers[r] = ToldNow(r)

LEMMA InitProbeInv == ProbeInit => ProbeInv
BY ProbeAssumption DEF ProbeInit, ProbeInv, AsksForTheRow

\* The row, the source and the key are what they were.
LEMMA ConnectionRests ==
  ASSUME UNCHANGED connection
  PROVE  \A r \in Reader :
           /\ ToldNow(r)' = ToldNow(r)
           /\ Unreadable(r)' = Unreadable(r)
           /\ PlacesOf(r)' = PlacesOf(r) /\ TokenOf(r)' = TokenOf(r)
           /\ WarehouseOf(r)' = WarehouseOf(r)
BY DEF connection, ToldNow, ProbeToldNow, Asked, Unreadable, PlacesOf, TokenOf,
       WarehouseOf, OrElse, NamespacesToScan, Refused, CatalogOf, TablesOf

\* A reader is answered, by the connection as it is now if it is not stale.
LEMMA ToldKeeps ==
  ASSUME ProbeInv, NEW r \in Reader, NEW answer, Told(r, answer),
         answer = None \/ answer = ToldNow(r)
           \/ (reader[r] # NotReading /\ reader[r].stale)
  PROVE  ProbeInv'
<1>1. UNCHANGED connection
  BY DEF Told
<1>2. /\ reader'[r] = NotReading
      /\ answers'[r] = None \/ answers'[r] = ToldNow(r)
      /\ reader' = [s \in Reader |-> reader'[s]]
      /\ answers' = [s \in Reader |-> answers'[s]]
      /\ \A s \in Reader : s # r => reader'[s] = reader[s] /\ answers'[s] = answers[s]
  BY DEF Told, ProbeInv
<1>3. \A s \in Reader : AsksForTheRow(s)'
  BY <1>1, <1>2, ConnectionRests DEF AsksForTheRow, ProbeInv
<1>4. \A s \in Reader : answers'[s] # None => answers'[s] = ToldNow(s)'
  BY <1>1, <1>2, ConnectionRests DEF ProbeInv
<1> QED BY <1>1, <1>2, <1>3, <1>4 DEF ProbeInv, connection

\* A reader that is asking and not stale asks what is Asked.
LEMMA AsksNow ==
  ASSUME ProbeInv, NEW r \in Reader, reader[r] # NotReading, ~reader[r].stale
  PROVE  /\ ~Unreadable(r)
         /\ Refused(reader[r]) = Refused(Asked(r))
         /\ TablesOf(reader[r]) = TablesOf(Asked(r))
         /\ CatalogOf(reader[r]) = CatalogOf(Asked(r))
         /\ reader[r].places = Asked(r).places
         /\ reader[r].warehouse = Asked(r).warehouse
BY DEF ProbeInv, AsksForTheRow, Asked, Refused, CatalogOf, TablesOf

LEMMA ReadRowKeeps ==
  ASSUME ProbeInv, NEW r \in Reader, ReadRow(r)
  PROVE  ProbeInv'
<1>1. CASE Unreadable(r)
  BY <1>1, ToldKeeps DEF ReadRow, ToldNow
<1>2. CASE ~Unreadable(r)
  <2>1. /\ UNCHANGED connection /\ answers' = answers
        /\ reader' = [reader EXCEPT ![r] =
               [pc |-> "asking", places |-> PlacesOf(r), token |-> TokenOf(r),
                warehouse |-> WarehouseOf(r), stale |-> FALSE]]
    BY <1>2 DEF ReadRow
  <2>2. /\ reader' = [s \in Reader |-> reader'[s]]
        /\ \A s \in Reader : s # r => reader'[s] = reader[s]
        /\ reader'[r] = [pc |-> "asking", places |-> PlacesOf(r), token |-> TokenOf(r),
                         warehouse |-> WarehouseOf(r), stale |-> FALSE]
    BY <2>1 DEF ProbeInv
  <2>3. \A s \in Reader : AsksForTheRow(s)'
    BY <1>2, <2>1, <2>2, ConnectionRests DEF AsksForTheRow, ProbeInv
  <2>4. \A s \in Reader : answers'[s] # None => answers'[s] = ToldNow(s)'
    BY <2>1, ConnectionRests DEF ProbeInv
  <2> QED BY <2>1, <2>2, <2>3, <2>4 DEF ProbeInv, connection
<1> QED BY <1>1, <1>2

LEMMA TestKeeps ==
  ASSUME ProbeInv, TestIceberg \/ TestPostgres \/ TestOther
  PROVE  ProbeInv'
<1> DEFINE q == reader["test"]
<1>0. "test" \in Reader /\ q # NotReading
  BY DEF Reader, TestIceberg, TestPostgres, TestOther
<1>1. CASE q.stale
  <2>1. PICK answer : Told("test", answer)
    BY DEF TestIceberg, TestPostgres, TestOther
  <2> QED BY <1>0, <1>1, <2>1, ToldKeeps
<1>2. CASE ~q.stale
  <2>1. /\ ~Unreadable("test") /\ Refused(q) = Refused(Asked("test"))
        /\ TablesOf(q) = TablesOf(Asked("test"))
        /\ q.places = Asked("test").places /\ CatalogOf(q) = CatalogOf(Asked("test"))
    BY <1>0, <1>2, AsksNow
  <2>2. ToldNow("test") = ProbeToldNow
    BY <2>1 DEF ToldNow
  <2> HIDE DEF q
  <2>3. CASE TestIceberg
    <3>1. Told("test", ProbeToldNow)
      BY <2>1, <2>3 DEF TestIceberg, ProbeToldNow, q
    <3> QED BY <1>0, <2>2, <3>1, ToldKeeps
  <2>4. CASE TestPostgres
    <3>1. Told("test", ProbeToldNow)
      BY <2>1, <2>4 DEF TestPostgres, ProbeToldNow, q
    <3> QED BY <1>0, <2>2, <3>1, ToldKeeps
  <2>5. CASE TestOther
    <3>1. Told("test", ProbeToldNow)
      BY <2>1, <2>5 DEF TestOther, ProbeToldNow, q
    <3> QED BY <1>0, <2>2, <3>1, ToldKeeps
  <2> QED BY <2>3, <2>4, <2>5
<1> QED
  <2>1. q.stale \in BOOLEAN
    BY <1>0 DEF ProbeInv, AsksForTheRow
  <2> QED BY <1>1, <1>2, <2>1

LEMMA ListPlacesKeeps ==
  ASSUME ProbeInv, NEW r \in Reader, ListPlaces(r)
  PROVE  ProbeInv'
<1>0. r # "test" /\ reader[r] # NotReading /\ reader[r].stale \in BOOLEAN
  BY DEF ListPlaces, ProbeInv, AsksForTheRow
<1>1. PICK answer :
        /\ Told(r, answer)
        /\ answer = IF Refused(reader[r]) THEN Answer("refused", NoTables)
                    ELSE Answer("listed", TablesOf(reader[r]))
  BY DEF ListPlaces
<1>2. CASE reader[r].stale
  BY <1>0, <1>1, <1>2, ToldKeeps
<1>3. CASE ~reader[r].stale
  <2>1. answer = ToldNow(r)
    BY <1>0, <1>1, <1>3, AsksNow DEF ToldNow
  <2> QED BY <1>1, <2>1, ToldKeeps
<1> QED BY <1>0, <1>2, <1>3

\* A change of the row, the source or the key: no answer is remembered, and
\* who is asking is stale.
LEMMA EditedKeeps ==
  ASSUME ProbeInv, Edited
  PROVE  ProbeInv'
<1>1. /\ backend' = backend
      /\ reader' = [r \in Reader |-> reader'[r]]
      /\ answers' = [r \in Reader |-> answers'[r]]
      /\ \A r \in Reader : answers'[r] = None
  BY DEF Edited
<1>2. ASSUME NEW r \in Reader PROVE AsksForTheRow(r)'
  <2>1. CASE reader[r] = NotReading
    BY <2>1 DEF Edited, AsksForTheRow
  <2>2. CASE reader[r] # NotReading
    <3>1. reader'[r] = [reader[r] EXCEPT !.stale = TRUE]
      BY <2>2 DEF Edited
    <3>2. reader[r].pc = "asking" /\ reader[r].stale \in BOOLEAN
      BY <2>2 DEF ProbeInv, AsksForTheRow
    <3> QED BY <3>1, <3>2 DEF AsksForTheRow
  <2> QED BY <2>1, <2>2
<1> QED BY <1>1, <1>2 DEF ProbeInv

LEMMA NextProbeInv == ProbeInv /\ [ProbeNext]_probeVars => ProbeInv'
<1> SUFFICES ASSUME ProbeInv, [ProbeNext]_probeVars PROVE ProbeInv'
  OBVIOUS
<1>1. ASSUME NEW r \in Reader, FailsToAnswer(r)
      PROVE  ProbeInv'
  BY <1>1, ToldKeeps DEF FailsToAnswer
<1>2. CASE ChangeTables \/ ChangeAccess \/ LoseKey \/ \E new \in Rows : EditRow(new)
  BY <1>2, EditedKeeps DEF ChangeTables, ChangeAccess, LoseKey, EditRow
<1>3. CASE UNCHANGED probeVars
  <2>1. UNCHANGED connection /\ reader' = reader /\ answers' = answers
    BY <1>3 DEF probeVars
  <2> QED
    BY <2>1, ConnectionRests DEF ProbeInv, AsksForTheRow, connection
<1> QED
  BY <1>1, <1>2, <1>3, ReadRowKeeps, TestKeeps, ListPlacesKeeps DEF ProbeNext

\* The test of a connection foretells what the next tick makes of it, but for a
\* namespace that the row's allowlist leaves out, and a page lists what the tick
\* does where the row overrides nothing of the DSN, as long as nothing changes in
\* between (connections.py, per_project.py, dashboard.py).
THEOREM ReadersAlwaysAgree == ProbeSpec => []ReadersAgree
<1>1. ProbeInv => ProbeForetells
  <2> SUFFICES ASSUME ProbeInv, Comparable("test", "tick")
               PROVE  ProbeForetells
    BY DEF ProbeForetells
  <2>1. answers["test"] = ToldNow("test") /\ answers["tick"] = ToldNow("tick")
    BY DEF ProbeInv, Comparable, Reader
  <2>2. /\ Unreadable("test") = Unreadable("tick")
        /\ Asked("test").token = Asked("tick").token
        /\ Asked("test").warehouse = Asked("tick").warehouse
        /\ Refused(Asked("test")) = Refused(Asked("tick"))
    BY DEF Unreadable, Asked, TokenOf, WarehouseOf, Refused
  <2>3. DOMAIN NoTables = {}
    BY DEF NoTables
  <2>4. CASE Unreadable("test")
    BY <2>1, <2>2, <2>3, <2>4 DEF ToldNow, Answer, ProbeForetells
  <2>5. CASE ~Unreadable("test") /\ Refused(Asked("test"))
    BY <2>1, <2>2, <2>3, <2>5 DEF ToldNow, ProbeToldNow, Answer, ProbeForetells, Refused
  <2>6. CASE ~Unreadable("test") /\ ~Refused(Asked("test"))
    <3> DEFINE T == Asked("test")
               K == Asked("tick")
    <3>1. ToldNow("tick") = Answer("listed", TablesOf(K))
      BY <2>2, <2>6 DEF ToldNow
    <3>2. ToldNow("test") = ProbeToldNow
      BY <2>6 DEF ToldNow
    <3>3. /\ ProbeToldNow.outcome \notin {"refused", "locked"}
          /\ ToldNow("tick").outcome \notin {"refused", "locked"}
      BY <2>6, <3>1 DEF ProbeToldNow, Answer
    <3>4. ProbeToldNow.found \in {TablesOf(T), NoTables}
      BY <2>6 DEF ProbeToldNow, Answer
    <3>5. DOMAIN TablesOf(T) = T.places /\ DOMAIN TablesOf(K) = K.places
      BY DEF TablesOf
    <3>6. CatalogOf(T) = CatalogOf(K)
      BY <2>2 DEF CatalogOf
    <3>7. \A p \in T.places \cap K.places : TablesOf(T)[p] = TablesOf(K)[p]
      BY <3>6 DEF TablesOf
    <3>8. backend = "iceberg" /\ ~(T.places \subseteq K.places) =>
            stored.allowlist # {} /\ stored.namespace \notin stored.allowlist
      BY DEF Asked, PlacesOf, NamespacesToScan, OrElse
    <3> HIDE DEF T, K
    <3>9. answers["test"].found \in {TablesOf(T), NoTables}
          /\ answers["tick"].found = TablesOf(K)
      BY <2>1, <3>1, <3>2, <3>4 DEF Answer
    <3> QED
      BY <2>1, <2>3, <3>2, <3>3, <3>5, <3>7, <3>8, <3>9 DEF ProbeForetells
  <2> QED BY <2>4, <2>5, <2>6
<1>2. ProbeInv => PagesListTheSame
  <2> SUFFICES ASSUME ProbeInv, Comparable("page", "tick"), stored.namespace = None,
                      stored.warehouse = None, stored.token = None,
                      backend = "iceberg" => stored.allowlist = {}
               PROVE  answers["page"] = answers["tick"]
    BY DEF PagesListTheSame
  <2>1. answers["page"] = ToldNow("page") /\ answers["tick"] = ToldNow("tick")
    BY DEF ProbeInv, Comparable, Reader
  <2>2. Asked("page") = Asked("tick") /\ Unreadable("page") = Unreadable("tick")
    BY DEF Asked, PlacesOf, NamespacesToScan, TokenOf, WarehouseOf, OrElse, Unreadable
  <2> QED BY <2>1, <2>2 DEF ToldNow
<1> QED
  BY <1>1, <1>2, InitProbeInv, NextProbeInv, PTL DEF ProbeSpec, ReadersAgree

------------------------------------------------------------------------------
\* Accounts: password resets and logins

USE DEF At, Goto, Respond, flags, history, LoginAt, Reach, Leave

(***************************************************************************)
(* Type correctness.                                                       *)
(***************************************************************************)
LEMMA IdleType == Idle \in Request
  BY ConstantsAssumption DEF Idle, AnyToken, Request

LEMMA InitType == Init => TypeOK
  BY IdleType, ConstantsAssumption DEF Init, TypeOK, TokenRow, Idle

\* A request that accepts, goes on or responds keeps its type.
LEMMA RequestTypes ==
  ASSUME TypeOK, NEW h \in Handler
  PROVE  /\ [request EXCEPT ![h] = Idle] \in [Handler -> Request]
         /\ \A pc \in {"minting", "mailing", "resetting", "updating",
                       "invalidating"} :
              [request EXCEPT ![h].pc = pc] \in [Handler -> Request]
  BY IdleType DEF TypeOK, Request

\* Ending some active tokens keeps what TypeOK says of tokens.
LEMMA InvalidateType ==
  ASSUME TypeOK, NEW u \in User, Invalidate(u)
  PROVE  /\ token' \in [Token -> TokenRow]
         /\ \A t \in Token : /\ token'[t].user = token[t].user
                             /\ token'[t].state = "free"
                                  <=> token[t].state = "free"
                             /\ token[t].state = "used" =>
                                  token'[t] = token[t]
                             /\ token'[t].state = "active" =>
                                  token[t].state = "active"
                             /\ token'[t].state = "active" =>
                                  token[t].user # u
<1>1. \A t \in Token : token[t] \in TokenRow
  BY DEF TypeOK
<1>2. \A t \in Active(u) : /\ token[t].state = "active"
                           /\ token[t].user = u
  BY DEF Active
<1>3. \A t \in Token : /\ token[t].state = "active" /\ token[t].user = u
                       => t \in Active(u)
  BY <1>1 DEF Active, TokenRow
<1> QED
  BY <1>1, <1>2, <1>3 DEF Invalidate, TokenRow

\* The users whose tokens are ended, and whose password is set, are users.
LEMMA UserOfRequest ==
  ASSUME TypeOK, NEW h \in Handler, ~At(h, "idle"), ~At(h, "resetting")
  PROVE  request[h].user \in User
<1>1. request[h] \in Request /\ request[h].token \in Token
  BY DEF TypeOK, Request
<1>2. CASE request[h].pc \in {"forgetting", "minting", "mailing"}
  BY <1>2 DEF TypeOK
<1>3. CASE request[h].pc \in {"updating", "invalidating"}
  <2>1. token[request[h].token] = [state |-> "used", user |-> request[h].user]
    BY <1>3 DEF TypeOK
  <2>2. token[request[h].token].user # Nobody
    BY <1>1, <2>1 DEF TypeOK
  <2>3. token[request[h].token].user \in User
    BY <1>1, <2>2 DEF TypeOK, TokenRow
  <2> QED BY <2>1, <2>3
<1> QED BY <1>1, <1>2, <1>3 DEF Request

\* What an action must show of the requests and the tokens.
RequestsFit(tok, req) ==
  \A h \in Handler :
    /\ req[h].pc \in {"forgetting", "minting", "mailing"} => req[h].user \in User
    /\ req[h].pc \in {"updating", "invalidating"}
         => tok[req[h].token] = [state |-> "used", user |-> req[h].user]

LEMMA NextType == TypeOK /\ [Next]_vars => TypeOK'
<1> SUFFICES ASSUME TypeOK, [Next]_vars PROVE TypeOK'
  OBVIOUS
<1>0. RequestsFit(token, request)
  BY DEF TypeOK, RequestsFit
<1>a. \A h \in Handler : request[h] \in Request /\ request[h].token \in Token
  BY DEF TypeOK, Request
<1>1. ASSUME NEW h \in Handler, NEW pc \in {"forgetting", "resetting"},
             NEW u \in User \cup {Nobody}, NEW t \in Token,
             pc = "forgetting" => u \in User, Accept(h, pc, u, t)
      PROVE  TypeOK'
  <2>1. request' \in [Handler -> Request]
    BY <1>1 DEF Accept, TypeOK, Request
  <2>2. RequestsFit(token, request')
    BY <1>0, <1>1 DEF Accept, TypeOK, RequestsFit
  <2> QED BY <1>1, <2>1, <2>2 DEF Accept, TypeOK, RequestsFit
<1>2. ASSUME NEW h \in Handler, NEW u \in User, Forgot(h, u)
      PROVE  TypeOK'
  <2>1. AnyToken \in Token
    BY ConstantsAssumption DEF AnyToken
  <2> QED BY <1>1, <1>2, <2>1 DEF Forgot
<1>3. ASSUME NEW h \in Handler, NEW t \in Token, Submit(h, t)
      PROVE  TypeOK'
  BY <1>1, <1>3 DEF Submit
<1>4. ASSUME NEW h \in Handler, InvalidateEarlier(h) \/ InvalidateRest(h)
      PROVE  TypeOK'
  <2>1. request[h].user \in User /\ Invalidate(request[h].user)
    BY <1>4, UserOfRequest DEF InvalidateEarlier, InvalidateRest
  <2>2. request' \in [Handler -> Request]
    BY <1>4, RequestTypes DEF InvalidateEarlier, InvalidateRest
  <2>3. RequestsFit(token', request')
    <3>1. \A t \in Token : token[t].state = "used" => token'[t] = token[t]
      BY <2>1, InvalidateType
    <3>2. RequestsFit(token', request)
      BY <1>0, <1>a, <3>1 DEF RequestsFit
    <3>3. CASE InvalidateEarlier(h)
      BY <2>1, <3>2, <3>3 DEF InvalidateEarlier, RequestsFit, TypeOK
    <3>4. CASE InvalidateRest(h)
      BY <3>2, <3>4 DEF InvalidateRest, RequestsFit, TypeOK, Idle
    <3> QED BY <1>4, <3>3, <3>4
  <2>4. /\ token' \in [Token -> TokenRow]
        /\ \A t \in Token : token'[t].state = "free" <=> token'[t].user = Nobody
    BY <2>1, InvalidateType DEF TypeOK
  <2> QED BY <1>4, <2>2, <2>3, <2>4
          DEF InvalidateEarlier, InvalidateRest, TypeOK, RequestsFit
<1>5. ASSUME NEW h \in Handler, NEW t \in Token, Mint(h, t)
      PROVE  TypeOK'
  <2>1. request[h].user \in User
    BY <1>5, UserOfRequest DEF Mint
  <2>2. request' \in [Handler -> Request]
    BY <1>5 DEF Mint, TypeOK, Request
  <2>3. /\ token' \in [Token -> TokenRow]
        /\ \A s \in Token : token'[s].state = "free" <=> token'[s].user = Nobody
    BY <1>5, <2>1, ConstantsAssumption DEF Mint, TypeOK, TokenRow
  <2>4. RequestsFit(token', request')
    BY <1>0, <1>5, <1>a, <2>1 DEF Mint, TypeOK, RequestsFit
  <2> QED BY <1>5, <2>2, <2>3, <2>4 DEF Mint, TypeOK, RequestsFit
<1>6. ASSUME NEW h \in Handler, Consume(h)
      PROVE  TypeOK'
  <2> DEFINE t == request[h].token
  <2>1. t \in Token /\ token[t].user \in User
    BY <1>6, <1>a DEF Consume, TypeOK, TokenRow
  <2>a. [request[h] EXCEPT !.pc = "updating", !.user = token[t].user]
          \in Request
    BY <1>a, <2>1 DEF Request
  <2>2. request' \in [Handler -> Request]
    BY <1>6, <2>a DEF Consume, TypeOK
  <2>3. /\ token' \in [Token -> TokenRow]
        /\ \A s \in Token : token'[s].state = "free" <=> token'[s].user = Nobody
    BY <1>6, <2>1 DEF Consume, TypeOK, TokenRow
  <2>4. token'[t] = [state |-> "used", user |-> token[t].user]
    BY <1>6, <2>1 DEF Consume, TypeOK, TokenRow
  <2>5. RequestsFit(token', request')
    BY <1>0, <1>6, <1>a, <2>1, <2>4 DEF Consume, TypeOK, RequestsFit
  <2> QED BY <1>6, <2>2, <2>3, <2>5 DEF Consume, TypeOK, RequestsFit
<1>7. ASSUME NEW h \in Handler, NEW delivered \in BOOLEAN,
             Mail(h, delivered) \/ Refuse(h) \/ Die(h)
      PROVE  TypeOK'
  <2>1. request' \in [Handler -> Request]
    BY <1>7, RequestTypes DEF Mail, Refuse, Die
  <2>2. RequestsFit(token, request')
    BY <1>0, <1>7 DEF Mail, Refuse, Die, RequestsFit, TypeOK, Idle
  <2> QED BY <1>7, <2>1, <2>2 DEF Mail, Refuse, Die, TypeOK, RequestsFit
<1>8. ASSUME NEW h \in Handler, UpdatePassword(h)
      PROVE  TypeOK'
  <2>1. request[h].user \in User
    BY <1>8, UserOfRequest DEF UpdatePassword
  <2>2. password' \in [User -> Seq(Token)]
    BY <1>8, <1>a, <2>1 DEF UpdatePassword, TypeOK
  <2>3. request' \in [Handler -> Request]
    BY <1>8, RequestTypes DEF UpdatePassword
  <2>4. RequestsFit(token, request')
    BY <1>0, <1>8, <1>a DEF UpdatePassword, RequestsFit, TypeOK
  <2> QED BY <1>8, <2>2, <2>3, <2>4 DEF UpdatePassword, TypeOK, RequestsFit
<1>9. ASSUME NEW t \in Token, Expire(t)
      PROVE  TypeOK'
  <2>1. /\ token' \in [Token -> TokenRow]
        /\ \A s \in Token : token'[s].state = "free" <=> token'[s].user = Nobody
    BY <1>9 DEF Expire, TypeOK, TokenRow
  <2>2. RequestsFit(token', request)
    BY <1>0, <1>9, <1>a DEF Expire, TypeOK, RequestsFit
  <2> QED BY <1>9, <2>1, <2>2 DEF Expire, TypeOK, RequestsFit
<1>10. CASE UNCHANGED vars
  BY <1>10 DEF vars, TypeOK
<1> QED
  BY <1>2, <1>3, <1>4, <1>5, <1>6, <1>7, <1>8, <1>9, <1>10 DEF Next

\* The tables, the requests and the claims of PasswordReset keep their types:
\* a request that works on a reset has claimed its token (reset_password).
THEOREM TypeCorrect == Spec => []TypeOK
<1>1. Init => TypeOK
  BY InitType
<1>2. TypeOK /\ [Next]_vars => TypeOK'
  BY NextType
<1> QED
  BY <1>1, <1>2, PTL DEF Spec

(***************************************************************************)
(* A link sets a password once.  A request that is about to set one has    *)
(* claimed a token that no other request has claimed and that no password  *)
(* was set with yet; and a password was only ever set with used tokens,    *)
(* which are never active again.                                           *)
(***************************************************************************)
UsedTokens(u) == {password[u][i] : i \in DOMAIN password[u]}

ClaimsAreFresh ==
  \A h \in Handler : At(h, "updating") =>
    /\ \A u \in User : request[h].token \notin UsedTokens(u)
    /\ \A g \in Handler :
         At(g, "updating") /\ request[g].token = request[h].token => g = h

PasswordsAreUsed ==
  \A u \in User : \A t \in UsedTokens(u) : token[t].state = "used"

OnceInv == TypeOK /\ ClaimsAreFresh /\ PasswordsAreUsed /\ LinkResetsOnce

LEMMA OnceInit == Init => OnceInv
<1> SUFFICES ASSUME Init PROVE OnceInv
  OBVIOUS
<1>1. \A u \in User : password[u] = <<>> /\ UsedTokens(u) = {}
  BY DEF Init, UsedTokens
<1>2. \A h \in Handler : ~At(h, "updating")
  BY DEF Init, Idle
<1> QED
  BY <1>1, <1>2, InitType
  DEF OnceInv, ClaimsAreFresh, PasswordsAreUsed, LinkResetsOnce, IsInjective

\* Steps that set no password, claim no token and revive none.
LEMMA OnceQuiet ==
  ASSUME OnceInv, TypeOK', password' = password,
         \A t \in Token : token[t].state = "used" => token'[t].state = "used",
         \A h \in Handler : request'[h].pc = "updating" =>
           At(h, "updating") /\ request'[h].token = request[h].token
  PROVE  OnceInv'
<1>1. \A u \in User : UsedTokens(u)' = UsedTokens(u) /\ UsedTokens(u) \subseteq Token
  BY DEF UsedTokens, OnceInv, TypeOK
<1>2. ClaimsAreFresh'
  BY <1>1 DEF OnceInv, ClaimsAreFresh
<1>3. PasswordsAreUsed'
  BY <1>1 DEF OnceInv, PasswordsAreUsed
<1> QED
  BY <1>2, <1>3 DEF OnceInv, LinkResetsOnce

LEMMA OnceConsume ==
  ASSUME OnceInv, TypeOK', NEW h \in Handler, Consume(h)
  PROVE  OnceInv'
<1> DEFINE t == request[h].token
<1>1. t \in Token /\ token[t].state = "active"
  BY DEF OnceInv, TypeOK, Request, Consume
<1>2. \A u \in User : /\ UsedTokens(u)' = UsedTokens(u)
                      /\ UsedTokens(u) \subseteq Token
                      /\ t \notin UsedTokens(u)
  BY <1>1 DEF UsedTokens, OnceInv, TypeOK, Consume, PasswordsAreUsed
<1>3. \A g \in Handler : At(g, "updating") => request[g].token # t
  <2> SUFFICES ASSUME NEW g \in Handler, At(g, "updating")
               PROVE  token[request[g].token].state = "used"
    BY <1>1
  <2>1. token[request[g].token] = [state |-> "used", user |-> request[g].user]
    BY DEF OnceInv, TypeOK
  <2> QED BY <2>1
<1>4. \A g \in Handler : /\ request'[g].token = request[g].token
                         /\ g # h => request'[g] = request[g]
  BY DEF Consume, OnceInv, TypeOK, Request
<1>5. ClaimsAreFresh'
  BY <1>2, <1>3, <1>4 DEF ClaimsAreFresh, OnceInv
<1>6. PasswordsAreUsed'
  BY <1>2 DEF PasswordsAreUsed, OnceInv, TypeOK, TokenRow, Consume
<1> QED
  BY <1>5, <1>6 DEF OnceInv, LinkResetsOnce, Consume

LEMMA OnceUpdate ==
  ASSUME OnceInv, TypeOK', NEW h \in Handler, UpdatePassword(h)
  PROVE  OnceInv'
<1> DEFINE t == request[h].token
           u == request[h].user
<1>1. /\ t \in Token /\ u \in User
      /\ token[t].state = "used"
  BY UserOfRequest DEF OnceInv, TypeOK, Request, UpdatePassword
<1>2. /\ \A v \in User : t \notin UsedTokens(v)
      /\ \A g \in Handler : At(g, "updating") /\ request[g].token = t => g = h
  BY DEF OnceInv, ClaimsAreFresh, UpdatePassword
<1>3. /\ password'[u] = Append(password[u], t)
      /\ password[u] \in Seq(Token)
      /\ \A v \in User : v # u => password'[v] = password[v]
  BY <1>1 DEF UpdatePassword, OnceInv, TypeOK
<1>4. \A v \in User : UsedTokens(v)' =
        IF v = u THEN UsedTokens(v) \cup {t} ELSE UsedTokens(v)
  <2> SUFFICES ASSUME NEW v \in User
               PROVE  UsedTokens(v)' =
                        IF v = u THEN UsedTokens(v) \cup {t} ELSE UsedTokens(v)
    OBVIOUS
  <2>1. CASE v # u
    BY <1>3, <2>1 DEF UsedTokens
  <2>2. CASE v = u
    <3>1. /\ Len(password[v]) \in Nat
          /\ DOMAIN password[v] = 1..Len(password[v])
          /\ DOMAIN password'[v] = 1..(Len(password[v]) + 1)
          /\ \A i \in 1..Len(password[v]) : password'[v][i] = password[v][i]
          /\ password'[v][Len(password[v]) + 1] = t
      BY <1>1, <1>3, <2>2
    <3>2. \A s : s \in UsedTokens(v)' <=> s \in UsedTokens(v) \cup {t}
      BY <3>1 DEF UsedTokens
    <3> QED BY <2>2, <3>2
  <2> QED BY <2>1, <2>2
<1>5. \A g \in Handler : request'[g].pc = "updating" =>
        /\ At(g, "updating") /\ request'[g] = request[g]
        /\ request[g].token # t
  BY <1>2 DEF UpdatePassword, OnceInv, TypeOK, Request
<1>6. ClaimsAreFresh'
  <2>1. ASSUME NEW g \in Handler, request'[g].pc = "updating"
        PROVE  \A v \in User : request'[g].token \notin UsedTokens(v)'
    BY <1>4, <1>5, <2>1 DEF ClaimsAreFresh, OnceInv
  <2>2. ASSUME NEW g \in Handler, request'[g].pc = "updating",
               NEW k \in Handler, request'[k].pc = "updating",
               request'[k].token = request'[g].token
        PROVE  k = g
    BY <1>5, <2>2 DEF ClaimsAreFresh, OnceInv
  <2> QED BY <2>1, <2>2 DEF ClaimsAreFresh
<1>7. PasswordsAreUsed'
  BY <1>1, <1>4 DEF PasswordsAreUsed, OnceInv, UpdatePassword
<1>8. LinkResetsOnce'
  <2>1. \A i \in DOMAIN password[u] : password[u][i] # t
    BY <1>1, <1>2 DEF UsedTokens
  <2>2. IsInjective(password[u])
    BY <1>1 DEF OnceInv, LinkResetsOnce
  <2>3. IsInjective(password'[u])
    BY <1>1, <1>3, <2>1, <2>2 DEF IsInjective
  <2> QED BY <1>3, <2>3 DEF OnceInv, LinkResetsOnce
<1> QED
  BY <1>6, <1>7, <1>8 DEF OnceInv

LEMMA OnceNext == OnceInv /\ [Next]_vars => OnceInv'
<1> SUFFICES ASSUME OnceInv, [Next]_vars PROVE OnceInv'
  OBVIOUS
<1>0. TypeOK /\ TypeOK'
  BY NextType DEF OnceInv
<1>1. ASSUME NEW h \in Handler, NEW pc \in {"forgetting", "resetting"},
             NEW u, NEW t, Accept(h, pc, u, t)
      PROVE  OnceInv'
  BY <1>0, <1>1, OnceQuiet DEF Accept, TypeOK
<1>2. ASSUME NEW h \in Handler,
             \/ \E u \in User : Forgot(h, u)
             \/ \E t \in Token : Submit(h, t)
      PROVE  OnceInv'
  BY <1>1, <1>2 DEF Forgot, Submit
<1>3. ASSUME NEW h \in Handler, InvalidateEarlier(h) \/ InvalidateRest(h)
      PROVE  OnceInv'
  <2>1. request[h].user \in User /\ Invalidate(request[h].user)
    BY <1>0, <1>3, UserOfRequest DEF InvalidateEarlier, InvalidateRest
  <2>2. \A t \in Token : token[t].state = "used" => token'[t].state = "used"
    BY <1>0, <2>1, InvalidateType
  <2>3. \A g \in Handler : request'[g].pc = "updating" =>
          At(g, "updating") /\ request'[g].token = request[g].token
    <3>1. CASE InvalidateEarlier(h)
      BY <1>0, <3>1 DEF InvalidateEarlier, TypeOK, Request
    <3>2. CASE InvalidateRest(h)
      BY <1>0, <3>2 DEF InvalidateRest, TypeOK, Idle
    <3> QED BY <1>3, <3>1, <3>2
  <2> QED
    BY <1>0, <1>3, <2>2, <2>3, OnceQuiet DEF InvalidateEarlier, InvalidateRest
<1>4. ASSUME NEW h \in Handler, NEW t \in Token, Mint(h, t)
      PROVE  OnceInv'
  <2>1. \A s \in Token : token[s].state = "used" => token'[s].state = "used"
    BY <1>0, <1>4 DEF Mint, TypeOK
  <2>2. \A g \in Handler : request'[g].pc = "updating" =>
          At(g, "updating") /\ request'[g].token = request[g].token
    BY <1>0, <1>4 DEF Mint, TypeOK, Request
  <2> QED BY <1>0, <1>4, <2>1, <2>2, OnceQuiet DEF Mint
<1>5. ASSUME NEW h \in Handler, NEW delivered \in BOOLEAN,
             Mail(h, delivered) \/ Refuse(h) \/ Die(h)
      PROVE  OnceInv'
  <2>1. \A g \in Handler : request'[g].pc = "updating" =>
          At(g, "updating") /\ request'[g].token = request[g].token
    BY <1>0, <1>5 DEF Mail, Refuse, Die, TypeOK, Idle
  <2> QED BY <1>0, <1>5, <2>1, OnceQuiet DEF Mail, Refuse, Die
<1>6. ASSUME NEW t \in Token, Expire(t)
      PROVE  OnceInv'
  <2>1. \A s \in Token : token[s].state = "used" => token'[s].state = "used"
    BY <1>0, <1>6 DEF Expire, TypeOK
  <2> QED BY <1>0, <1>6, <2>1, OnceQuiet DEF Expire
<1>7. CASE UNCHANGED vars
  BY <1>0, <1>7, OnceQuiet DEF vars
<1> QED
  BY <1>2, <1>3, <1>4, <1>5, <1>6, <1>7, <1>0, OnceConsume, OnceUpdate DEF Next

\* A link sets a password at most once, whatever requests interleave, die, or
\* find their link expired: the conditional UPDATE of
\* consume_password_reset_token is all that protects it.
THEOREM LinksResetOnce == Spec => []LinkResetsOnce
<1>1. Init => OnceInv
  BY OnceInit
<1>2. OnceInv /\ [Next]_vars => OnceInv'
  BY OnceNext
<1>3. OnceInv => LinkResetsOnce
  BY DEF OnceInv
<1> QED
  BY <1>1, <1>2, <1>3, PTL DEF Spec

(***************************************************************************)
(* A change of password ends the older links.  No superseded token is free *)
(* to be minted again, and unless a request died, one that is still active *)
(* has a request at work that will end it.                                 *)
(***************************************************************************)
WillEnd(t) ==
  \E h \in Handler : At(h, "invalidating") /\ request[h].user = token[t].user

Superseded ==
  /\ superseded \subseteq Token
  /\ \A t \in superseded :
       /\ token[t].state # "free"
       /\ token[t].state = "active" /\ ~died => WillEnd(t)

DieInv == TypeOK /\ Superseded

\* Steps that set no password, end no request that is to end links, and
\* neither revive a token nor change its user.
LEMMA DieQuiet ==
  ASSUME DieInv, TypeOK', superseded' = superseded, died' = died,
         \A t \in Token : token[t].state # "free" =>
           /\ token'[t].state # "free" /\ token'[t].user = token[t].user
           /\ token'[t].state = "active" => token[t].state = "active",
         \A h \in Handler : At(h, "invalidating") =>
           request'[h].pc = "invalidating" /\ request'[h].user = request[h].user
  PROVE  DieInv'
<1> SUFFICES ASSUME NEW t \in superseded
             PROVE  /\ token'[t].state # "free"
                    /\ token'[t].state = "active" /\ ~died => WillEnd(t)'
  BY DEF DieInv, Superseded
<1>1. t \in Token /\ token[t].state # "free"
  BY DEF DieInv, Superseded
<1>2. token[t].state = "active" /\ ~died => WillEnd(t)
  BY DEF DieInv, Superseded
<1> QED
  BY <1>1, <1>2 DEF WillEnd

LEMMA DieInvalidateRest ==
  ASSUME DieInv, TypeOK', NEW h \in Handler, InvalidateRest(h)
  PROVE  DieInv'
<1>1. request[h].user \in User /\ Invalidate(request[h].user)
  BY UserOfRequest DEF DieInv, InvalidateRest
<1> SUFFICES ASSUME NEW t \in superseded
             PROVE  /\ token'[t].state # "free"
                    /\ token'[t].state = "active" /\ ~died => WillEnd(t)'
  BY DEF DieInv, Superseded, InvalidateRest
<1>2. /\ t \in Token /\ token[t].state # "free"
      /\ token[t].state = "active" /\ ~died => WillEnd(t)
  BY DEF DieInv, Superseded
<1>3. /\ token'[t].user = token[t].user
      /\ token'[t].state # "free"
      /\ token'[t].state = "active" => /\ token[t].state = "active"
                                       /\ token[t].user # request[h].user
  BY <1>1, <1>2, InvalidateType DEF DieInv
<1>4. \A g \in Handler : g # h => request'[g] = request[g]
  BY DEF InvalidateRest, DieInv, TypeOK
<1> QED
  BY <1>2, <1>3, <1>4 DEF WillEnd

LEMMA DieUpdate ==
  ASSUME DieInv, TypeOK', NEW h \in Handler, UpdatePassword(h)
  PROVE  DieInv'
<1>1. request[h].user \in User
  BY UserOfRequest DEF DieInv, UpdatePassword
<1>2. /\ request'[h].pc = "invalidating"
      /\ \A g \in Handler : /\ request'[g].user = request[g].user
                            /\ g # h => request'[g] = request[g]
  BY DEF UpdatePassword, DieInv, TypeOK, Request
<1>3. superseded' \subseteq Token
  BY DEF DieInv, Superseded, UpdatePassword
<1> SUFFICES ASSUME NEW t \in superseded'
             PROVE  /\ token[t].state # "free"
                    /\ token[t].state = "active" /\ ~died => WillEnd(t)'
  BY <1>3 DEF DieInv, Superseded, UpdatePassword
<1>4. CASE token[t].user = request[h].user
  BY <1>1, <1>2, <1>3, <1>4, ConstantsAssumption
  DEF WillEnd, DieInv, TypeOK, UpdatePassword
<1>5. CASE token[t].user # request[h].user
  <2>1. t \in superseded
    BY <1>5 DEF UpdatePassword
  <2>2. /\ token[t].state # "free"
        /\ token[t].state = "active" /\ ~died => WillEnd(t)
    BY <2>1 DEF DieInv, Superseded
  <2> QED BY <1>2, <2>2 DEF WillEnd, UpdatePassword
<1> QED
  BY <1>4, <1>5

LEMMA DieNext == DieInv /\ [Next]_vars => DieInv'
<1> SUFFICES ASSUME DieInv, [Next]_vars PROVE DieInv'
  OBVIOUS
<1>0. TypeOK /\ TypeOK'
  BY NextType DEF DieInv
<1>1. ASSUME NEW h \in Handler, NEW pc, NEW u, NEW t, Accept(h, pc, u, t)
      PROVE  DieInv'
  <2>1. \A g \in Handler : At(g, "invalidating") => request'[g] = request[g]
    BY <1>0, <1>1 DEF Accept, TypeOK
  <2> QED BY <1>0, <1>1, <2>1, DieQuiet DEF Accept
<1>2. ASSUME NEW h \in Handler, InvalidateEarlier(h)
      PROVE  DieInv'
  <2>1. request[h].user \in User /\ Invalidate(request[h].user)
    BY <1>0, <1>2, UserOfRequest DEF InvalidateEarlier
  <2>2. \A g \in Handler : At(g, "invalidating") => request'[g] = request[g]
    BY <1>0, <1>2 DEF InvalidateEarlier, TypeOK
  <2>3. \A t \in Token : token[t].state # "free" =>
          /\ token'[t].state # "free" /\ token'[t].user = token[t].user
          /\ token'[t].state = "active" => token[t].state = "active"
    BY <1>0, <2>1, InvalidateType
  <2> QED BY <1>0, <1>2, <2>2, <2>3, DieQuiet DEF InvalidateEarlier
<1>3. ASSUME NEW h \in Handler, NEW t \in Token, Mint(h, t)
      PROVE  DieInv'
  <2>1. \A g \in Handler : At(g, "invalidating") => request'[g] = request[g]
    BY <1>0, <1>3 DEF Mint, TypeOK
  <2>2. \A s \in Token : token[s].state # "free" => token'[s] = token[s]
    BY <1>0, <1>3 DEF Mint, TypeOK
  <2> QED BY <1>0, <1>3, <2>1, <2>2, DieQuiet DEF Mint
<1>4. ASSUME NEW h \in Handler, NEW delivered \in BOOLEAN,
             Mail(h, delivered) \/ Refuse(h)
      PROVE  DieInv'
  <2>1. \A g \in Handler : At(g, "invalidating") => request'[g] = request[g]
    BY <1>0, <1>4 DEF Mail, Refuse, TypeOK
  <2> QED BY <1>0, <1>4, <2>1, DieQuiet DEF Mail, Refuse
<1>5. ASSUME NEW h \in Handler, Consume(h)
      PROVE  DieInv'
  <2>1. \A g \in Handler : At(g, "invalidating") => request'[g] = request[g]
    BY <1>0, <1>5 DEF Consume, TypeOK
  <2>2. \A s \in Token : /\ token'[s].user = token[s].user
                         /\ \/ token'[s] = token[s]
                            \/ token'[s].state = "used"
    BY <1>0, <1>5 DEF Consume, TypeOK, TokenRow
  <2> QED BY <1>0, <1>5, <2>1, <2>2, DieQuiet DEF Consume
<1>6. ASSUME NEW h \in Handler, Die(h)
      PROVE  DieInv'
  BY <1>0, <1>6 DEF Die, DieInv, Superseded
<1>7. ASSUME NEW t \in Token, Expire(t)
      PROVE  DieInv'
  <2>1. \A s \in Token : /\ token'[s].user = token[s].user
                         /\ \/ token'[s] = token[s]
                            \/ token'[s].state = "expired"
    BY <1>0, <1>7 DEF Expire, TypeOK, TokenRow
  <2> QED BY <1>0, <1>7, <2>1, DieQuiet DEF Expire
<1>8. CASE UNCHANGED vars
  BY <1>0, <1>8, DieQuiet DEF vars
<1>9. ASSUME NEW h \in Handler,
             \/ \E u \in User : Forgot(h, u)
             \/ \E t \in Token : Submit(h, t)
      PROVE  DieInv'
  BY <1>1, <1>9 DEF Forgot, Submit
<1> QED
  BY <1>0, <1>2, <1>3, <1>4, <1>5, <1>6, <1>7, <1>8, <1>9,
     DieInvalidateRest, DieUpdate DEF Next

\* Between requests, and as long as none has died, no link minted before a
\* change of its user's password is alive: the last call of reset_password
\* ends them all.
THEOREM ChangesEndOlderLinks == Spec => []OlderLinksDie
<1>1. Init => DieInv
  BY InitType DEF Init, DieInv, Superseded
<1>2. DieInv /\ [Next]_vars => DieInv'
  BY DieNext
<1>3. DieInv => OlderLinksDie
  BY DEF DieInv, Superseded, WillEnd, OlderLinksDie, Settled
<1> QED
  BY <1>1, <1>2, <1>3, PTL DEF Spec

(***************************************************************************)
(* The latest link.  As long as requests do not overlap, an active token   *)
(* is its user's latest, a request that works on a reset has claimed that  *)
(* one, and none is active when the next is minted.  A latest token that   *)
(* is used has set the password, unless a request died, is about to set it *)
(* or is about to be followed by another.                                  *)
(***************************************************************************)
Latest(u) == Final(minted[u])

AtMostOne ==
  \A g, h \in Handler : ~At(g, "idle") /\ ~At(h, "idle") => g = h

ActiveIsLatest ==
  \A u \in User : \A t \in Active(u) : minted[u] # <<>> /\ t = Latest(u)

NoneWhenMinting ==
  \A h \in Handler : At(h, "minting") => Active(request[h].user) = {}

ClaimIsLatest ==
  \A h \in Handler : request[h].pc \in {"updating", "invalidating"} =>
    /\ minted[request[h].user] # <<>>
    /\ request[h].token = Latest(request[h].user)

HasSet(u) == password[u] # <<>> /\ Final(password[u]) = Latest(u)
UsedIsExplained ==
  \A u \in User : ~died /\ minted[u] # <<>> /\ token[Latest(u)].state = "used" =>
    \/ HasSet(u)
    \/ \E h \in Handler : At(h, "minting") /\ request[h].user = u
    \/ \E h \in Handler : At(h, "updating") /\ request[h].user = u

LatestIsTheirs == \A u \in User : minted[u] # <<>> => token[Latest(u)].user = u

LatestInv ==
  /\ TypeOK /\ LatestIsTheirs
  /\ minted \in [User -> Seq(Token)]
  /\ ~overlapped => /\ AtMostOne /\ ActiveIsLatest /\ NoneWhenMinting
                    /\ ClaimIsLatest /\ UsedIsExplained

LEMMA LatestType ==
  ASSUME minted \in [User -> Seq(Token)], NEW u \in User, minted[u] # <<>>
  PROVE  Latest(u) \in Token
  BY DEF Latest, Final

LEMMA InitLatest == Init => LatestInv
<1> SUFFICES ASSUME Init PROVE LatestInv
  OBVIOUS
<1>1. \A h \in Handler : request[h].pc = "idle"
  BY DEF Init, Idle
<1>2. \A u \in User : Active(u) = {}
  BY DEF Init, Active
<1>3. \A u \in User : minted[u] = <<>>
  BY DEF Init
<1>4. minted \in [User -> Seq(Token)]
  BY DEF Init
<1> QED
  BY <1>1, <1>2, <1>3, <1>4, InitType
  DEF LatestInv, LatestIsTheirs, AtMostOne, ActiveIsLatest, NoneWhenMinting,
      ClaimIsLatest, UsedIsExplained

\* Steps that mint nothing, set no password and use no token.
LEMMA LatestQuiet ==
  ASSUME LatestInv, TypeOK', minted' = minted, password' = password,
         overlapped => overlapped',
         ~overlapped' => AtMostOne',
         died => died',
         \A t \in Token : /\ token'[t].user = token[t].user
                          /\ token'[t] = token[t] \/ token'[t].state = "expired",
         \A h \in Handler :
           request'[h].pc \in {"minting", "updating", "invalidating"} =>
             request'[h] = request[h],
         \A h \in Handler : request[h].pc \in {"minting", "updating"} =>
             request'[h] = request[h] \/ died'
  PROVE  LatestInv'
<1> SUFFICES ASSUME ~overlapped'
             PROVE  /\ ActiveIsLatest' /\ NoneWhenMinting'
                    /\ ClaimIsLatest' /\ UsedIsExplained'
  BY LatestType DEF LatestInv, LatestIsTheirs, Latest
<1>0. /\ ~overlapped /\ ActiveIsLatest /\ NoneWhenMinting
      /\ ClaimIsLatest /\ UsedIsExplained
  BY DEF LatestInv
<1>1. \A u : Active(u)' \subseteq Active(u)
  BY DEF Active
<1>2. ActiveIsLatest'
  BY <1>0, <1>1 DEF ActiveIsLatest, Latest
<1>3. NoneWhenMinting'
  BY <1>0, <1>1 DEF NoneWhenMinting
<1>4. ClaimIsLatest'
  BY <1>0 DEF ClaimIsLatest, Latest
<1>5. UsedIsExplained'
  <2> SUFFICES ASSUME NEW u \in User, ~died', minted[u] # <<>>,
                      token'[Latest(u)].state = "used"
               PROVE  \/ HasSet(u)
                      \/ \E h \in Handler : At(h, "minting")' /\ request'[h].user = u
                      \/ \E h \in Handler : At(h, "updating")' /\ request'[h].user = u
    BY DEF UsedIsExplained, Latest, HasSet
  <2>1. Latest(u) \in Token
    BY LatestType DEF LatestInv
  <2>2. token[Latest(u)].state = "used"
    BY <2>1
  <2>3. CASE HasSet(u)
    BY <2>3
  <2>4. ASSUME NEW h \in Handler, request[h].pc \in {"minting", "updating"},
               request[h].user = u
        PROVE  request'[h] = request[h]
    BY <2>4
  <2> QED BY <1>0, <2>2, <2>3, <2>4 DEF UsedIsExplained
<1> QED BY <1>2, <1>3, <1>4, <1>5

\* A step of a request that was at work already: as before, no other one is.
LEMMA StillOne ==
  ASSUME LatestInv, ~overlapped, NEW h \in Handler, ~At(h, "idle"),
         \A g \in Handler : g # h => request'[g] = request[g]
  PROVE  /\ AtMostOne'
         /\ \A g \in Handler : g # h => At(g, "idle") /\ At(g, "idle")'
  BY DEF LatestInv, AtMostOne

LEMMA LatestInvalidateEarlier ==
  ASSUME LatestInv, TypeOK', NEW h \in Handler, InvalidateEarlier(h)
  PROVE  LatestInv'
<1> DEFINE u == request[h].user
<1>1. u \in User /\ Invalidate(u)
  BY UserOfRequest DEF LatestInv, InvalidateEarlier
<1>2. /\ request'[h].pc = "minting" /\ request'[h].user = u
      /\ \A g \in Handler : g # h => request'[g] = request[g]
  BY DEF InvalidateEarlier, LatestInv, TypeOK, Request
<1>4. /\ \A t \in Token : /\ token'[t].user = token[t].user
                          /\ token'[t].state = "active" =>
                               token'[t] = token[t] /\ token[t].user # u
                          /\ token[t].user # u => token'[t] = token[t]
  BY <1>1 DEF Invalidate, Active, LatestInv, TypeOK, TokenRow
<1> SUFFICES ASSUME ~overlapped
             PROVE  /\ AtMostOne' /\ ActiveIsLatest' /\ NoneWhenMinting'
                    /\ ClaimIsLatest' /\ UsedIsExplained'
  BY <1>4, LatestType DEF LatestInv, InvalidateEarlier, LatestIsTheirs, Latest
<1>3. AtMostOne' /\ \A g \in Handler : g # h => At(g, "idle") /\ At(g, "idle")'
  BY <1>2, StillOne DEF InvalidateEarlier
<1>5. \A v \in User : /\ Active(v)' \subseteq Active(v)
                      /\ v = u => Active(v)' = {}
  BY <1>1, <1>4 DEF Active
<1>6. ActiveIsLatest'
  BY <1>5 DEF ActiveIsLatest, LatestInv, Latest, InvalidateEarlier
<1>7. NoneWhenMinting'
  <2> SUFFICES ASSUME NEW g \in Handler, At(g, "minting")', NEW t \in Token,
                      token'[t] = [state |-> "active", user |-> request'[g].user]
               PROVE  FALSE
    BY DEF NoneWhenMinting, Active
  <2> QED BY <1>2, <1>3, <1>4
<1>8. ClaimIsLatest'
  BY <1>2, <1>3 DEF ClaimIsLatest
<1>9. UsedIsExplained'
  <2> SUFFICES ASSUME NEW v \in User, ~died, minted[v] # <<>>,
                      token'[Latest(v)].state = "used", v # u
               PROVE  HasSet(v)
    BY <1>2 DEF UsedIsExplained, Latest, HasSet, InvalidateEarlier
  <2>1. Latest(v) \in Token
    BY LatestType DEF LatestInv
  <2>2. token[Latest(v)].state = "used"
    BY <2>1, <1>4 DEF LatestInv, LatestIsTheirs
  <2>3. ASSUME NEW g \in Handler, request[g].pc \in {"minting", "updating"}
        PROVE  FALSE
    BY <1>3, <2>3 DEF InvalidateEarlier
  <2> QED BY <2>2, <2>3 DEF UsedIsExplained, LatestInv
<1> QED BY <1>3, <1>6, <1>7, <1>8, <1>9

LEMMA LatestMint ==
  ASSUME LatestInv, TypeOK', NEW h \in Handler, NEW t \in Token, Mint(h, t)
  PROVE  LatestInv'
<1> DEFINE u == request[h].user
<1>1. u \in User
  BY UserOfRequest DEF LatestInv, Mint
<1>2. /\ request'[h].pc = "mailing"
      /\ \A g \in Handler : g # h => request'[g] = request[g]
  BY DEF Mint, LatestInv, TypeOK, Request
<1>3. /\ token[t].state = "free" /\ token[t].user = Nobody
      /\ token'[t] = [state |-> "active", user |-> u]
      /\ \A s \in Token : s # t => token'[s] = token[s]
  BY DEF Mint, LatestInv, TypeOK
<1>4. /\ minted' \in [User -> Seq(Token)]
      /\ minted'[u] # <<>> /\ Final(minted'[u]) = t
      /\ \A v \in User : v # u => minted'[v] = minted[v]
  <2>1. minted[u] \in Seq(Token) /\ minted'[u] = Append(minted[u], t)
    BY <1>1 DEF Mint, LatestInv
  <2>2. Append(minted[u], t) # <<>> /\ Final(Append(minted[u], t)) = t
    BY <2>1 DEF Final
  <2> QED BY <1>1, <2>1, <2>2 DEF Mint, LatestInv
<1>5. \A v \in User : v # u /\ minted[v] # <<>> =>
        Latest(v) \in Token /\ token[Latest(v)].user = v /\ Latest(v) # t
  BY <1>3, LatestType, ConstantsAssumption DEF LatestInv, LatestIsTheirs
<1>6. LatestIsTheirs'
  BY <1>3, <1>4, <1>5 DEF LatestIsTheirs, Latest
<1> SUFFICES ASSUME ~overlapped
             PROVE  /\ AtMostOne' /\ ActiveIsLatest' /\ NoneWhenMinting'
                    /\ ClaimIsLatest' /\ UsedIsExplained'
  BY <1>4, <1>6 DEF LatestInv, Mint
<1>7. AtMostOne' /\ \A g \in Handler : g # h => At(g, "idle") /\ At(g, "idle")'
  BY <1>2, StillOne DEF Mint
<1>8. ActiveIsLatest'
  <2> SUFFICES ASSUME NEW v \in User, NEW s \in Token,
                      token'[s] = [state |-> "active", user |-> v]
               PROVE  minted'[v] # <<>> /\ s = Final(minted'[v])
    BY DEF ActiveIsLatest, Latest, Active
  <2>1. CASE s = t
    BY <1>3, <1>4, <2>1
  <2>2. CASE s # t
    <3>1. s \in Active(v)
      BY <1>3, <2>2 DEF Active
    <3>2. v # u
      BY <3>1 DEF LatestInv, NoneWhenMinting, Mint
    <3> QED BY <1>4, <3>1, <3>2 DEF LatestInv, ActiveIsLatest, Latest
  <2> QED BY <2>1, <2>2
<1>9. NoneWhenMinting' /\ ClaimIsLatest'
  BY <1>2, <1>7 DEF NoneWhenMinting, ClaimIsLatest
<1>10. UsedIsExplained'
  <2> SUFFICES ASSUME NEW v \in User, ~died, minted'[v] # <<>>,
                      token'[Final(minted'[v])].state = "used"
               PROVE  password[v] # <<>> /\ Final(password[v]) = Final(minted'[v])
    BY DEF UsedIsExplained, Latest, HasSet, Mint
  <2>1. v # u
    BY <1>3, <1>4
  <2>2. minted[v] # <<>> /\ token[Latest(v)].state = "used"
    BY <1>3, <1>4, <1>5, <2>1 DEF Latest
  <2>3. \A g \in Handler :
          request[g].pc \in {"minting", "updating"} => request[g].user # v
    BY <1>7, <2>1
  <2> QED BY <1>4, <2>1, <2>2, <2>3 DEF UsedIsExplained, LatestInv, HasSet, Latest
<1> QED BY <1>7, <1>8, <1>9, <1>10

LEMMA LatestConsume ==
  ASSUME LatestInv, TypeOK', NEW h \in Handler, Consume(h)
  PROVE  LatestInv'
<1> DEFINE t == request[h].token
           u == token[t].user
<1>1. /\ t \in Token /\ token[t].state = "active" /\ u \in User
      /\ token[t] = [state |-> "active", user |-> u]
  BY DEF LatestInv, TypeOK, TokenRow, Request, Consume
<1>2. /\ request'[h].pc = "updating" /\ request'[h].user = u
      /\ request'[h].token = t
      /\ \A g \in Handler : g # h => request'[g] = request[g]
  BY DEF Consume, LatestInv, TypeOK, Request
<1>3. /\ token'[t] = [state |-> "used", user |-> u]
      /\ \A s \in Token : s # t => token'[s] = token[s]
  BY <1>1 DEF Consume, LatestInv, TypeOK
<1>4. \A v \in User : minted[v] # <<>> =>
        Latest(v) \in Token /\ token[Latest(v)].user = v
  BY LatestType DEF LatestInv, LatestIsTheirs
<1>5. minted' = minted /\ password' = password
  BY DEF Consume
<1>6. LatestIsTheirs'
  BY <1>1, <1>3, <1>4, <1>5 DEF LatestIsTheirs, Latest
<1> SUFFICES ASSUME ~overlapped
             PROVE  /\ AtMostOne' /\ ActiveIsLatest' /\ NoneWhenMinting'
                    /\ ClaimIsLatest' /\ UsedIsExplained'
  BY <1>6 DEF LatestInv, Consume
<1>7. AtMostOne' /\ \A g \in Handler : g # h => At(g, "idle") /\ At(g, "idle")'
  BY <1>2, StillOne DEF Consume
<1>8. minted[u] # <<>> /\ t = Latest(u)
  BY <1>1 DEF LatestInv, ActiveIsLatest, Active
<1>9. ActiveIsLatest'
  BY <1>3, <1>5 DEF ActiveIsLatest, Active, Latest, LatestInv
<1>10. NoneWhenMinting' /\ ClaimIsLatest'
  BY <1>2, <1>5, <1>7, <1>8 DEF NoneWhenMinting, ClaimIsLatest, Latest
<1>11. UsedIsExplained'
  <2> SUFFICES ASSUME NEW v \in User, ~died, minted[v] # <<>>, v # u,
                      token'[Latest(v)].state = "used"
               PROVE  HasSet(v)
    BY <1>2, <1>5 DEF UsedIsExplained, Latest, HasSet, Consume
  <2>1. token[Latest(v)].state = "used"
    BY <1>3, <1>4
  <2>2. \A g \in Handler : request[g].pc \notin {"minting", "updating"}
    BY <1>7 DEF Consume
  <2> QED BY <2>1, <2>2 DEF UsedIsExplained, LatestInv
<1> QED BY <1>7, <1>9, <1>10, <1>11

LEMMA LatestUpdate ==
  ASSUME LatestInv, TypeOK', NEW h \in Handler, UpdatePassword(h)
  PROVE  LatestInv'
<1> DEFINE u == request[h].user
           t == request[h].token
<1>1. u \in User /\ t \in Token
  BY UserOfRequest DEF LatestInv, UpdatePassword, TypeOK, Request
<1>2. /\ request'[h].pc = "invalidating"
      /\ request'[h].user = u /\ request'[h].token = t
      /\ \A g \in Handler : g # h => request'[g] = request[g]
  BY DEF UpdatePassword, LatestInv, TypeOK, Request
<1>3. /\ password'[u] # <<>> /\ Final(password'[u]) = t
      /\ \A v \in User : v # u => password'[v] = password[v]
  <2>1. password[u] \in Seq(Token) /\ password'[u] = Append(password[u], t)
    BY <1>1 DEF UpdatePassword, LatestInv, TypeOK
  <2>2. Append(password[u], t) # <<>> /\ Final(Append(password[u], t)) = t
    BY <1>1, <2>1 DEF Final
  <2> QED BY <1>1, <2>1, <2>2 DEF UpdatePassword, LatestInv, TypeOK
<1>4. token' = token /\ minted' = minted /\ died' = died
  BY DEF UpdatePassword
<1> SUFFICES ASSUME ~overlapped
             PROVE  /\ AtMostOne' /\ ActiveIsLatest' /\ NoneWhenMinting'
                    /\ ClaimIsLatest' /\ UsedIsExplained'
  BY DEF LatestInv, UpdatePassword, LatestIsTheirs, Latest
<1>5. AtMostOne' /\ \A g \in Handler : g # h => At(g, "idle") /\ At(g, "idle")'
  BY <1>2, StillOne DEF UpdatePassword
<1>6. minted[u] # <<>> /\ t = Latest(u)
  BY DEF LatestInv, ClaimIsLatest, UpdatePassword
<1>7. ActiveIsLatest'
  BY <1>4 DEF ActiveIsLatest, Active, Latest, LatestInv
<1>8. NoneWhenMinting' /\ ClaimIsLatest'
  BY <1>2, <1>4, <1>5, <1>6 DEF NoneWhenMinting, ClaimIsLatest, Latest
<1>9. UsedIsExplained'
  <2> SUFFICES ASSUME NEW v \in User, ~died, minted[v] # <<>>,
                      token[Latest(v)].state = "used"
               PROVE  password'[v] # <<>> /\ Final(password'[v]) = Latest(v)
    BY <1>4 DEF UsedIsExplained, Latest, HasSet
  <2>1. CASE v = u
    BY <1>3, <1>6, <2>1
  <2>2. CASE v # u
    <3>1. \A g \in Handler :
            request[g].pc \in {"minting", "updating"} => request[g].user # v
      BY <1>5, <2>2
    <3> QED BY <1>3, <2>2, <3>1 DEF UsedIsExplained, LatestInv, HasSet
  <2> QED BY <2>1, <2>2
<1> QED BY <1>5, <1>7, <1>8, <1>9

LEMMA LatestInvalidateRest ==
  ASSUME LatestInv, TypeOK', NEW h \in Handler, InvalidateRest(h)
  PROVE  LatestInv'
<1> DEFINE u == request[h].user
<1>1. u \in User /\ Invalidate(u)
  BY UserOfRequest DEF LatestInv, InvalidateRest
<1>2. /\ request'[h] = Idle
      /\ \A g \in Handler : g # h => request'[g] = request[g]
  BY DEF InvalidateRest, LatestInv, TypeOK
<1>3. \A t \in Token : token'[t].user = token[t].user
  BY <1>1, InvalidateType DEF LatestInv
<1> SUFFICES ASSUME ~overlapped
             PROVE  LatestInv'
  BY <1>3, LatestType DEF LatestInv, InvalidateRest, LatestIsTheirs, Latest
<1>4. AtMostOne'
  BY <1>2, StillOne DEF InvalidateRest
<1>5. /\ minted[u] # <<>> /\ request[h].token = Latest(u)
      /\ token[request[h].token].state = "used"
  <2>1. request[h].pc = "invalidating"
    BY DEF InvalidateRest
  <2>2. token[request[h].token] = [state |-> "used", user |-> request[h].user]
    BY <2>1 DEF LatestInv, TypeOK
  <2>3. minted[u] # <<>> /\ request[h].token = Latest(u)
    BY <2>1 DEF LatestInv, ClaimIsLatest
  <2> QED BY <2>2, <2>3
<1>6. Active(u) = {}
  <2> SUFFICES ASSUME NEW t \in Active(u) PROVE FALSE
    OBVIOUS
  <2>1. t = Latest(u) /\ token[t].state = "active"
    BY <1>1 DEF LatestInv, ActiveIsLatest, Active
  <2> QED BY <1>5, <2>1
<1>7. token' = token
  BY <1>1, <1>6 DEF Invalidate, LatestInv, TypeOK
<1> QED
  BY <1>2, <1>4, <1>7, LatestQuiet DEF InvalidateRest, Idle

LEMMA LatestNext == LatestInv /\ [Next]_vars => LatestInv'
<1> SUFFICES ASSUME LatestInv, [Next]_vars PROVE LatestInv'
  OBVIOUS
<1>0. TypeOK /\ TypeOK'
  BY NextType DEF LatestInv
<1>1. ASSUME NEW h \in Handler, NEW pc \in {"forgetting", "resetting"},
             NEW u, NEW t, Accept(h, pc, u, t)
      PROVE  LatestInv'
  <2>1. \A g \in Handler : g # h => request'[g] = request[g]
    BY <1>0, <1>1 DEF Accept, TypeOK
  <2>2. request'[h].pc = pc /\ At(h, "idle")
    BY <1>0, <1>1 DEF Accept, TypeOK
  <2>3. ~overlapped' => AtMostOne'
    BY <1>1, <2>1 DEF Accept, AtMostOne
  <2> QED BY <1>0, <1>1, <2>1, <2>2, <2>3, LatestQuiet DEF Accept
<1>2. ASSUME NEW h \in Handler,
             \/ \E u \in User : Forgot(h, u)
             \/ \E t \in Token : Submit(h, t)
      PROVE  LatestInv'
  BY <1>1, <1>2 DEF Forgot, Submit
<1>3. ASSUME NEW h \in Handler, NEW delivered \in BOOLEAN,
             Mail(h, delivered) \/ Refuse(h) \/ Die(h)
      PROVE  LatestInv'
  <2>1. /\ \A g \in Handler : g # h => request'[g] = request[g]
        /\ request'[h].pc = "idle" /\ ~At(h, "idle")
        /\ request[h].pc \in {"minting", "updating"} => died'
    BY <1>0, <1>3 DEF Mail, Refuse, Die, TypeOK, Idle
  <2>2. /\ token' = token /\ minted' = minted /\ password' = password
        /\ overlapped' = overlapped
        /\ died => died'
    BY <1>3 DEF Mail, Refuse, Die
  <2>3. ~overlapped => AtMostOne'
    BY <2>1, StillOne
  <2>4. \A g \in Handler :
          request'[g].pc \in {"minting", "updating", "invalidating"} =>
            request'[g] = request[g]
    BY <2>1
  <2>5. \A g \in Handler : request[g].pc \in {"minting", "updating"} =>
          request'[g] = request[g] \/ died'
    BY <2>1
  <2>6. \A s \in Token : /\ token'[s].user = token[s].user
                         /\ token'[s] = token[s] \/ token'[s].state = "expired"
    BY <2>2
  <2>7. ~overlapped' => AtMostOne'
    BY <2>2, <2>3
  <2> QED BY <1>0, <2>2, <2>4, <2>5, <2>6, <2>7, LatestQuiet
<1>4. ASSUME NEW t \in Token, Expire(t)
      PROVE  LatestInv'
  <2>1. \A s \in Token : /\ token'[s].user = token[s].user
                         /\ token'[s] = token[s] \/ token'[s].state = "expired"
    BY <1>0, <1>4 DEF Expire, TypeOK, TokenRow
  <2>2. ~overlapped => AtMostOne'
    BY <1>4 DEF Expire, LatestInv, AtMostOne
  <2> QED BY <1>0, <1>4, <2>1, <2>2, LatestQuiet DEF Expire
<1>5. CASE UNCHANGED vars
  BY <1>0, <1>5, LatestQuiet DEF vars, LatestInv, AtMostOne
<1> QED
  BY <1>0, <1>2, <1>3, <1>4, <1>5, LatestInvalidateEarlier, LatestMint,
     LatestConsume, LatestUpdate, LatestInvalidateRest DEF Next

\* As long as requests do not overlap, the latest link of a user is the only
\* one that resolves, and only its own use, a failure of the request that used
\* it or its age ends it.
THEOREM LatestLinkAlwaysWorks == Spec => []LatestLinkWorks
<1>1. LatestInv => LatestLinkWorks
  <2> SUFFICES ASSUME LatestInv, Settled, ~overlapped, NEW u \in User
               PROVE  /\ Active(u) # {} => Active(u) = {Latest(u)}
                      /\ ~died /\ minted[u] # <<>> /\ token[Latest(u)].state = "used"
                           => HasSet(u)
    BY DEF LatestLinkWorks, Latest, HasSet
  <2>1. Active(u) # {} => Active(u) = {Latest(u)}
    BY DEF LatestInv, ActiveIsLatest
  <2> QED BY <2>1 DEF LatestInv, UsedIsExplained, Settled
<1> QED
  BY <1>1, InitLatest, LatestNext, PTL DEF Spec

\* All that is promised of a link: it sets a password once, ends the older
\* ones, and works as long as it is the latest.
THEOREM LinksAreAlwaysSound == Spec => []LinksAreSound
<1>1. LinkResetsOnce /\ OlderLinksDie /\ LatestLinkWorks => LinksAreSound
  BY DEF LinksAreSound
<1> QED
  BY <1>1, LinksResetOnce, ChangesEndOlderLinks, LatestLinkAlwaysWorks, PTL

(***************************************************************************)
(* Login: types.                                                           *)
(***************************************************************************)
\* The failures of an address, and those among them that still count.
LEMMA FailuresAreFinite ==
  ASSUME IsFiniteSet(failures), NEW e \in Email
  PROVE  /\ IsFiniteSet(FailuresOf(e)) /\ IsFiniteSet(RecentFailures(e))
         /\ Cardinality(FailuresOf(e)) \in Nat /\ Recent(e) \in Nat
         /\ Recent(e) <= Cardinality(FailuresOf(e))
<1>1. FailuresOf(e) \subseteq failures /\ RecentFailures(e) \subseteq FailuresOf(e)
  BY DEF FailuresOf, RecentFailures
<1>2. IsFiniteSet(FailuresOf(e)) /\ IsFiniteSet(RecentFailures(e))
  BY <1>1, FS_Subset
<1>3. Recent(e) <= Cardinality(FailuresOf(e))
  BY <1>1, <1>2, FS_Subset DEF Recent
<1> QED BY <1>2, <1>3, FS_CardinalityType DEF Recent

LEMMA LoginInitType == LoginInit => LoginTypeOK
  BY LoginAssumption
     DEF LoginInit, LoginTypeOK, Time, LoginRequest, LoggedOut

\* A request is idle or for an address; nobody can fail before an address exists.
LEMMA LoginNextType ==
  ASSUME LoginTypeOK, [LoginNext]_loginVars
  PROVE  LoginTypeOK'
<1> USE LoginAssumption DEF LoginTypeOK
<1>0. \A e \in Email : LoggedOut \in LoginRequest
  BY DEF LoggedOut, LoginRequest
<1>1. ASSUME NEW h \in Thread, NEW e \in Email, Register(h, e) \/ Admit(h, e)
      PROVE  LoginTypeOK'
  BY <1>1 DEF Register, Admit, LoginRequest
<1>2. ASSUME NEW h \in Thread,
             InsertUser(h) \/ Succeed(h) \/ Fail(h) \/ LoginDies(h)
      PROVE  LoginTypeOK'
  <2>1. login[h].email \in Email
    BY DEF LoginRequest
  <2>2. login' \in [Thread -> LoginRequest]
    BY <1>0, <1>2, <2>1 DEF InsertUser, Succeed, Fail, LoginDies
  <2>3. user' \in [Email -> 0..1]
    BY <1>2, <2>1 DEF InsertUser, Succeed, Fail, LoginDies
  <2>4. failures' \subseteq FailedAttempt
    <3>1. ASSUME Fail(h) PROVE failures' \subseteq FailedAttempt
      <4>1. PICK n \in 1..MaxAttempts : failures' =
              failures \cup {[email |-> login[h].email, at |-> now, number |-> n]}
        BY <3>1 DEF Fail
      <4> QED BY <2>1, <4>1 DEF FailedAttempt
    <3> QED BY <1>2, <3>1 DEF InsertUser, Succeed, LoginDies
  <2> QED BY <1>2, <2>2, <2>3, <2>4 DEF InsertUser, Succeed, Fail, LoginDies
<1>3. CASE Tick
  BY <1>3 DEF Tick, Time
<1>4. CASE Purge
  BY <1>4 DEF Purge
<1>5. CASE UNCHANGED loginVars
  BY <1>5 DEF loginVars
<1> QED BY <1>1, <1>2, <1>3, <1>4, <1>5 DEF LoginNext

(***************************************************************************)
(* Login: the lockout.                                                     *)
(***************************************************************************)
\* The requests for an address that are past the check.
Verifying(e) == {h \in Thread : login[h].pc = "verifying" /\ login[h].email = e}

\* Each of them may add one more failure to those that were counted.
RoomForThoseInFlight ==
  \A e \in Email :
    Recent(e) + Cardinality(Verifying(e)) < Threshold + Cardinality(Thread)

\* The table holds no failure from before the last login.
StreakCoversAll ==
  \A e \in Email : Cardinality(FailuresOf(e)) <= streak[e]

LockoutInv ==
  /\ LoginTypeOK
  /\ IsFiniteSet(failures)
  /\ streak \in [Email -> Nat]
  /\ RoomForThoseInFlight
  /\ StreakCoversAll

LEMMA VerifyingIsFinite ==
  ASSUME NEW e \in Email
  PROVE  /\ IsFiniteSet(Verifying(e))
         /\ Cardinality(Verifying(e)) \in Nat
         /\ Cardinality(Verifying(e)) <= Cardinality(Thread)
         /\ Cardinality(Thread) \in Nat
<1>1. Verifying(e) \subseteq Thread /\ IsFiniteSet(Thread)
  BY LoginAssumption DEF Verifying
<1> QED BY <1>1, FS_Subset, FS_CardinalityType

LEMMA LockoutInit == LoginInit => LockoutInv
<1> SUFFICES ASSUME LoginInit PROVE LockoutInv
  OBVIOUS
<1>1. IsFiniteSet(failures)
  BY FS_EmptySet DEF LoginInit
<1>2. ASSUME NEW e \in Email
      PROVE  Cardinality(FailuresOf(e)) = 0 /\ Recent(e) = 0 /\ Verifying(e) = {}
  BY FS_EmptySet
     DEF LoginInit, FailuresOf, Recent, RecentFailures, Verifying, LoggedOut
<1>3. StreakCoversAll
  BY <1>2 DEF StreakCoversAll, LoginInit
<1>4. RoomForThoseInFlight
  <2>1. Cardinality({}) = 0 /\ Cardinality(Thread) \in Nat
    BY FS_EmptySet, FS_CardinalityType, LoginAssumption
  <2> QED BY <1>2, <2>1, LoginAssumption DEF RoomForThoseInFlight
<1> QED BY <1>1, <1>3, <1>4, LoginInitType DEF LockoutInv, LoginInit

\* A step that adds neither a failure nor a request past the check.
LEMMA LockoutQuiet ==
  ASSUME LockoutInv, LoginTypeOK', now' \in Nat, now' >= now,
         failures' \subseteq failures,
         \A h \in Thread : login'[h] = login[h] \/ login'[h].pc # "verifying",
         streak' \in [Email -> Nat],
         \A e \in Email : streak'[e] = streak[e] \/ FailuresOf(e)' = {}
  PROVE  LockoutInv'
<1>1. IsFiniteSet(failures')
  BY FS_Subset DEF LockoutInv
<1>2. ASSUME NEW e \in Email
      PROVE  /\ Recent(e)' + Cardinality(Verifying(e)') < Threshold + Cardinality(Thread)
             /\ Cardinality(FailuresOf(e)') <= streak'[e]
  <2>1. /\ FailuresOf(e)' \subseteq FailuresOf(e)
        /\ Verifying(e)' \subseteq Verifying(e)
    BY DEF FailuresOf, Verifying
  <2>2. RecentFailures(e)' \subseteq RecentFailures(e)
    <3> SUFFICES ASSUME NEW f \in RecentFailures(e)' PROVE f \in RecentFailures(e)
      OBVIOUS
    <3>1. f \in FailuresOf(e) /\ f.at + Window >= now'
      BY <2>1 DEF RecentFailures
    <3>2. f.at \in Nat /\ now \in Nat
      BY <3>1 DEF FailuresOf, LockoutInv, LoginTypeOK, FailedAttempt, Time
    <3> QED BY <3>1, <3>2, LoginAssumption DEF RecentFailures
  <2>3. Recent(e)' <= Recent(e) /\ Recent(e)' \in Nat /\ Recent(e) \in Nat
    BY <2>2, FailuresAreFinite, FS_Subset, FS_CardinalityType DEF Recent, LockoutInv
  <2>4. /\ Cardinality(Verifying(e)') <= Cardinality(Verifying(e))
        /\ Cardinality(Verifying(e)') \in Nat
    BY <2>1, VerifyingIsFinite, FS_Subset, FS_CardinalityType
  <2>5. /\ Cardinality(FailuresOf(e)') <= Cardinality(FailuresOf(e))
        /\ Cardinality(FailuresOf(e)') \in Nat
    BY <2>1, FailuresAreFinite, FS_Subset, FS_CardinalityType DEF LockoutInv
  <2>6. Cardinality(FailuresOf(e)') <= streak'[e]
    <3>1. CASE streak'[e] = streak[e]
      BY <2>5, <3>1, FailuresAreFinite DEF LockoutInv, StreakCoversAll
    <3>2. CASE FailuresOf(e)' = {}
      BY <3>2, FS_EmptySet
    <3> QED BY <3>1, <3>2
  <2> QED
    BY <2>3, <2>4, <2>6, VerifyingIsFinite, LoginAssumption
       DEF LockoutInv, RoomForThoseInFlight
<1> QED BY <1>1, <1>2 DEF LockoutInv, RoomForThoseInFlight, StreakCoversAll

LEMMA LockoutAdmit ==
  ASSUME LockoutInv, LoginTypeOK', NEW h \in Thread, NEW e \in Email, Admit(h, e)
  PROVE  LockoutInv'
<1>1. /\ \A d \in Email : FailuresOf(d)' = FailuresOf(d) /\ Recent(d)' = Recent(d)
      /\ ~Locked(e)
  BY DEF Admit, FailuresOf, Recent, RecentFailures
<1>2. \A d \in Email : d # e => Verifying(d)' \subseteq Verifying(d)
  BY DEF Admit, Verifying, LockoutInv, LoginTypeOK
<1>3. Verifying(e)' \subseteq Thread
  BY DEF Verifying
<1>4. ASSUME NEW d \in Email
      PROVE  Recent(d)' + Cardinality(Verifying(d)') < Threshold + Cardinality(Thread)
  <2>1. CASE d = e
    <3>1. Cardinality(Verifying(e)') <= Cardinality(Thread)
      BY <1>3, LoginAssumption, FS_Subset
    <3>2. Cardinality(Verifying(e)') \in Nat
      BY <1>3, LoginAssumption, FS_Subset, FS_CardinalityType
    <3> QED
      BY <1>1, <2>1, <3>1, <3>2, FailuresAreFinite, VerifyingIsFinite,
         LoginAssumption DEF Locked, LockoutInv
  <2>2. CASE d # e
    <3>1. /\ Cardinality(Verifying(d)') <= Cardinality(Verifying(d))
          /\ Cardinality(Verifying(d)') \in Nat
      BY <1>2, <2>2, VerifyingIsFinite, FS_Subset, FS_CardinalityType
    <3> QED
      BY <1>1, <3>1, FailuresAreFinite, VerifyingIsFinite, LoginAssumption
         DEF LockoutInv, RoomForThoseInFlight
  <2> QED BY <2>1, <2>2
<1> QED
  BY <1>1, <1>4 DEF Admit, LockoutInv, RoomForThoseInFlight, StreakCoversAll

LEMMA AtMostOneMore ==
  ASSUME NEW S, NEW T, NEW x, IsFiniteSet(S), T \subseteq S \cup {x}
  PROVE  /\ IsFiniteSet(T) /\ Cardinality(T) \in Nat /\ Cardinality(S) \in Nat
         /\ Cardinality(T) <= Cardinality(S) + 1
<1>1. /\ IsFiniteSet(S \cup {x}) /\ Cardinality(S) \in Nat
      /\ Cardinality(S \cup {x}) \in {Cardinality(S), Cardinality(S) + 1}
  BY FS_AddElement, FS_CardinalityType
<1>2. /\ IsFiniteSet(T) /\ Cardinality(T) \in Nat
      /\ Cardinality(T) <= Cardinality(S \cup {x})
  BY <1>1, FS_Subset, FS_CardinalityType
<1> QED BY <1>1, <1>2

LEMMA LockoutFail ==
  ASSUME LockoutInv, LoginTypeOK', NEW h \in Thread, Fail(h)
  PROVE  LockoutInv'
<1>1. PICK e \in Email : e = login[h].email /\ h \in Verifying(e)
  BY DEF LockoutInv, LoginTypeOK, LoginRequest, Fail, Verifying
<1>0. PICK n \in 1..MaxAttempts :
        /\ [email |-> e, at |-> now, number |-> n] \notin failures
        /\ failures' = failures \cup {[email |-> e, at |-> now, number |-> n]}
  BY <1>1 DEF Fail
<1> DEFINE f == [email |-> e, at |-> now, number |-> n]
<1>2. f.email = e /\ f \notin failures /\ failures' = failures \cup {f}
  BY <1>0
<1> HIDE DEF f
<1>3. IsFiniteSet(failures')
  BY <1>2, FS_AddElement DEF LockoutInv
<1>4. /\ FailuresOf(e)' \subseteq FailuresOf(e) \cup {f} /\ f \notin FailuresOf(e)
      /\ RecentFailures(e)' \subseteq RecentFailures(e) \cup {f}
      /\ f \notin RecentFailures(e)
  BY <1>2 DEF FailuresOf, RecentFailures, Fail
<1>5. Cardinality(FailuresOf(e)') <= Cardinality(FailuresOf(e)) + 1
  BY <1>1, <1>4, FailuresAreFinite, AtMostOneMore DEF LockoutInv
<1>6. Recent(e)' <= Recent(e) + 1
  BY <1>1, <1>4, FailuresAreFinite, AtMostOneMore DEF LockoutInv, Recent
<1>7. /\ Verifying(e)' = Verifying(e) \ {h}
      /\ \A d \in Email : d # e => Verifying(d)' = Verifying(d)
  BY <1>1 DEF Fail, Verifying, LoggedOut, LockoutInv, LoginTypeOK
<1>8. Cardinality(Verifying(e)') = Cardinality(Verifying(e)) - 1
  BY <1>1, <1>7, VerifyingIsFinite, FS_RemoveElement
<1>9. /\ \A d \in Email : d # e => /\ FailuresOf(d)' = FailuresOf(d)
                                   /\ Recent(d)' = Recent(d)
  BY <1>2 DEF FailuresOf, RecentFailures, Recent, Fail
<1>10. /\ Recent(e)' \in Nat /\ Cardinality(FailuresOf(e)') \in Nat
  BY <1>1, <1>3, FailuresAreFinite, FS_Subset, FS_CardinalityType
     DEF Recent, RecentFailures, FailuresOf
<1>11. RoomForThoseInFlight'
  <2> SUFFICES ASSUME NEW d \in Email
               PROVE  Recent(d)' + Cardinality(Verifying(d)')
                        < Threshold + Cardinality(Thread)
    BY DEF RoomForThoseInFlight
  <2>1. /\ Recent(d) + Cardinality(Verifying(d)) < Threshold + Cardinality(Thread)
        /\ Recent(d) \in Nat /\ Cardinality(Verifying(d)) \in Nat
        /\ Threshold \in Nat /\ Cardinality(Thread) \in Nat
    BY FailuresAreFinite, VerifyingIsFinite, LoginAssumption
       DEF LockoutInv, RoomForThoseInFlight
  <2>2. CASE d = e
    BY <1>6, <1>8, <1>10, <2>1, <2>2
  <2>3. CASE d # e
    BY <1>7, <1>9, <2>1, <2>3
  <2> QED BY <2>2, <2>3
<1>12. streak' \in [Email -> Nat] /\ StreakCoversAll'
  BY <1>1, <1>5, <1>9, <1>10, FailuresAreFinite
     DEF LockoutInv, StreakCoversAll, Fail
<1> QED BY <1>3, <1>11, <1>12 DEF LockoutInv

LEMMA LockoutNext == LockoutInv /\ [LoginNext]_loginVars => LockoutInv'
<1> SUFFICES ASSUME LockoutInv, [LoginNext]_loginVars PROVE LockoutInv'
  OBVIOUS
<1>0. LoginTypeOK' /\ now \in Nat /\ now' \in Nat
  BY LoginNextType DEF LockoutInv, LoginTypeOK, Time
<1>1. ASSUME NEW h \in Thread, NEW e \in Email, Register(h, e)
      PROVE  LockoutInv'
  BY <1>0, <1>1, LockoutQuiet DEF Register, LockoutInv, LoginTypeOK
<1>2. ASSUME NEW h \in Thread, InsertUser(h) \/ LoginDies(h)
      PROVE  LockoutInv'
  BY <1>0, <1>2, LockoutQuiet
     DEF InsertUser, LoginDies, LockoutInv, LoginTypeOK, LoggedOut
<1>3. ASSUME NEW h \in Thread, Succeed(h)
      PROVE  LockoutInv'
  <2>1. /\ streak' \in [Email -> Nat]
        /\ \A e \in Email : streak'[e] = streak[e] \/ FailuresOf(e)' = {}
    BY <1>3 DEF Succeed, FailuresOf, LockoutInv
  <2> QED
    BY <1>0, <1>3, <2>1, LockoutQuiet DEF Succeed, LockoutInv, LoginTypeOK, LoggedOut
<1>4. CASE Tick
  BY <1>0, <1>4, LockoutQuiet DEF Tick, LockoutInv
<1>5. CASE Purge
  BY <1>0, <1>5, LockoutQuiet DEF Purge, LockoutInv
<1>6. CASE UNCHANGED loginVars
  BY <1>0, <1>6, LockoutQuiet DEF loginVars, LockoutInv
<1> QED
  BY <1>0, <1>1, <1>2, <1>3, <1>4, <1>5, <1>6, LockoutAdmit, LockoutFail DEF LoginNext

\* Requests that race past the check of the counter exceed the threshold by at
\* most one failure each, and nobody is locked out by failures from before his
\* last login (record_successful_login, count_recent_failed_logins).
THEOREM LockoutsAreAlwaysSound == LoginSpec => []LockoutsAreSound
<1>1. LockoutInv => LockoutsAreSound
  <2> SUFFICES ASSUME LockoutInv, NEW e \in Email
               PROVE  /\ Recent(e) < Threshold + Cardinality(Thread)
                      /\ Locked(e) => streak[e] >= Threshold
    BY DEF LockoutsAreSound, AttemptsAreBounded, LockoutIsEarned
  <2>1. /\ Recent(e) \in Nat /\ Cardinality(FailuresOf(e)) \in Nat
        /\ Recent(e) <= Cardinality(FailuresOf(e)) /\ streak[e] \in Nat
    BY FailuresAreFinite DEF LockoutInv
  <2> QED
    BY <2>1, VerifyingIsFinite, LoginAssumption
       DEF LockoutInv, RoomForThoseInFlight, StreakCoversAll, Locked
<1> QED BY <1>1, LockoutInit, LockoutNext, PTL DEF LoginSpec

\* The nightly purge takes away no failure that a lockout still counts: its
\* retention is no shorter than the window (purge_old_failed_logins).
THEOREM PurgesKeepLockouts == LoginSpec => PurgeKeepsLockouts
<1>1. LockoutInv /\ Purge => \A e \in Email : Locked(e) => Locked(e)'
  <2> SUFFICES ASSUME LockoutInv, Purge, NEW e \in Email
               PROVE  RecentFailures(e)' = RecentFailures(e)
    BY DEF Locked, Recent
  <2>1. ASSUME NEW f \in RecentFailures(e) PROVE f \in RecentFailures(e)'
    <3>1. f \in failures /\ f.at \in Nat /\ now \in Nat /\ f.at + Window >= now
      BY DEF RecentFailures, FailuresOf, LockoutInv, LoginTypeOK, FailedAttempt, Time
    <3>2. ~Old(f.at)
      BY <3>1, LoginAssumption DEF Old
    <3> QED BY <3>1, <3>2 DEF Purge, RecentFailures, FailuresOf
  <2> QED BY <2>1 DEF Purge, RecentFailures, FailuresOf
<1>2. LockoutInv /\ [LoginNext]_loginVars
        => [Purge => \A e \in Email : Locked(e) => Locked(e)']_loginVars
  BY <1>1
<1> QED BY <1>2, LockoutInit, LockoutNext, PTL DEF LoginSpec, PurgeKeepsLockouts

\* However the requests of the forms interleave and fail, each row of an account,
\* an address or a connection is one that its code can read back.
THEOREM FormsAreAlwaysTyped == Spec /\ LoginSpec /\ EditorSpec => []FormsTypeOK
<1>1. LockoutInv => LoginTypeOK
  BY DEF LockoutInv
<1>2. LoginSpec => []LoginTypeOK
  BY <1>1, LockoutInit, LockoutNext, PTL DEF LoginSpec
<1> QED BY <1>2, TypeCorrect, EditorTypeCorrect, PTL DEF FormsTypeOK
=============================================================================

--------------------------- MODULE Serving_proofs ---------------------------
(***************************************************************************)
(* ModelRegistry implements VersionStore, and what it points at is fit for *)
(* service, for every set of versions, sources and operators; and          *)
(* InferenceService serves from such a store what it may, for every number *)
(* of threads and every size of its cache.                                 *)
(*                                                                         *)
(* Of the registry, the inductive invariant adds to the properties what a  *)
(* command under way has established: a version that is being staged has   *)
(* passed its checks and its files are those written so far, and a version *)
(* that is about to be pointed at is published and admissible.  Of the     *)
(* service, it adds what a request under way may rely on: who waits for a  *)
(* lock waits for the one that the table names for its version, different  *)
(* versions have different locks, and one thread holds a lock.             *)
(***************************************************************************)
EXTENDS ModelRegistry, InferenceService, SequenceTheorems,
        FiniteSetTheorems, TLAPS

Staging == {"writing", "describing", "renaming", "verifying"}
Pointing == {"pointing", "replacing"}

Written(pc) == CASE pc = "writing" -> {}
                 [] pc = "describing" -> {"artifact"}
                 [] pc = "renaming" -> File
                 [] OTHER -> {}

\* The command names a version, which has passed what was checked so far.
CommandIsChecked(c, present) ==
  /\ c.pc # "idle" => c.version \in Version
  /\ c.pc \in Staging => PassedStaging(c.version) /\ Bundle[c.version].current
  /\ c.pc \in Staging \ {"verifying"} => c.pending = Written(c.pc)
  /\ c.pc \in Pointing =>
       /\ c.version \in present
       /\ Admissible(c.version, Bundle[c.version].source, c.mode)

PointersAreAdmissible ==
  \A s \in Source, m \in Mode :
    pointer[s][m] # None =>
      pointer[s][m] \in published /\ Admissible(pointer[s][m], s, m)

RegistryInv ==
  /\ RegistryTypeOK
  /\ VersionsAreWhole
  /\ \A o \in Operator : CommandIsChecked(command[o], published)
  /\ PointersAreAdmissible

------------------------------------------------------------------------------
\* The store

LEMMA StoreBegins == StoreInit => StoreTypeOK /\ VersionsAreWhole
BY DEF StoreInit, StoreTypeOK, VersionsAreWhole

LEMMA AppearKeeps ==
  ASSUME StoreTypeOK, VersionsAreWhole, NEW v \in Version, Appear(v)
  PROVE  StoreTypeOK' /\ VersionsAreWhole' /\ published \subseteq published'
BY DEF Appear, StoreTypeOK, VersionsAreWhole, Stageable, ValidSource,
       ValidTraining, LoadsPipeline, Trainable, Exportable, Passes, PassedStaging

LEMMA SpoilKeeps ==
  ASSUME StoreTypeOK, VersionsAreWhole, NEW v \in Version, NEW f \in File,
         Spoil(v, f)
  PROVE  StoreTypeOK' /\ VersionsAreWhole' /\ published' = published
BY DEF Spoil, StoreTypeOK, VersionsAreWhole, Stageable, ValidSource,
       ValidTraining, LoadsPipeline, Trainable, Exportable, Passes, PassedStaging

LEMMA UpgradeKeeps ==
  ASSUME StoreTypeOK, VersionsAreWhole, NEW library \in Library, Upgrade(library)
  PROVE  StoreTypeOK' /\ VersionsAreWhole' /\ published' = published
BY DEF Upgrade, StoreTypeOK, VersionsAreWhole, PassedStaging, Stageable, ValidSource,
       ValidTraining, LoadsPipeline, Trainable, Exportable, Passes

------------------------------------------------------------------------------
\* The commands

\* What was established for a command lasts while versions only appear.
LEMMA CheckedLasts ==
  ASSUME NEW c, NEW before, NEW after, before \subseteq after,
         CommandIsChecked(c, before)
  PROVE  CommandIsChecked(c, after)
BY DEF CommandIsChecked

LEMMA NoCommandIsChecked ==
  ASSUME NEW present
  PROVE  CommandIsChecked(NoCommand, present)
BY DEF CommandIsChecked, NoCommand, Staging, Pointing

\* A step of one command that leaves versions in place, and the pointers
\* alone, leaves to check what this command has established.
LEMMA OneCommand ==
  ASSUME RegistryInv, StoreTypeOK', VersionsAreWhole',
         published \subseteq published', pointer' = pointer,
         NEW o \in Operator, NEW c,
         c \in [pc: {"idle"} \cup Staging \cup Pointing,
                version: Version \cup {None}, mode: Mode, pending: SUBSET File],
         command' = [command EXCEPT ![o] = c],
         CommandIsChecked(c, published')
  PROVE  RegistryInv'
<1>1. RegistryTypeOK'
  BY DEF RegistryInv, RegistryTypeOK, Staging, Pointing
<1>2. ASSUME NEW p \in Operator
      PROVE  CommandIsChecked(command'[p], published')
  <2>1. CASE p = o
    BY <2>1 DEF RegistryInv, RegistryTypeOK
  <2>2. CASE p # o
    <3>1. command'[p] = command[p]
      BY <2>2 DEF RegistryInv, RegistryTypeOK
    <3> QED BY <3>1, CheckedLasts DEF RegistryInv
  <2> QED BY <2>1, <2>2
<1>3. PointersAreAdmissible'
  BY DEF RegistryInv, PointersAreAdmissible
<1> QED
  BY <1>1, <1>2, <1>3 DEF RegistryInv

LEMMA InitRegistryInv == RegistryInit => RegistryInv
<1> SUFFICES ASSUME RegistryInit PROVE RegistryInv
  OBVIOUS
<1>1. StoreTypeOK /\ VersionsAreWhole
  BY StoreBegins DEF RegistryInit
<1>2. RegistryTypeOK
  BY <1>1 DEF RegistryInit, RegistryTypeOK, StoreTypeOK, NoCommand, Mode
<1>3. PointersAreAdmissible
  BY DEF RegistryInit, PointersAreAdmissible
<1> QED
  BY <1>1, <1>2, <1>3, NoCommandIsChecked DEF RegistryInv, RegistryInit

\* A command that ends leaves nothing to check.
LEMMA FinishKeeps ==
  ASSUME RegistryInv, StoreTypeOK', VersionsAreWhole',
         published \subseteq published', pointer' = pointer,
         NEW o \in Operator, Finish(o)
  PROVE  RegistryInv'
<1>1. NoCommand \in [pc: {"idle"} \cup Staging \cup Pointing,
                     version: Version \cup {None}, mode: Mode, pending: SUBSET File]
  BY DEF NoCommand, Mode
<1> QED
  BY <1>1, NoCommandIsChecked, OneCommand DEF Finish

LEMMA StoreRests ==
  ASSUME RegistryInv, UNCHANGED storeVars
  PROVE  StoreTypeOK' /\ VersionsAreWhole' /\ published' = published
BY DEF RegistryInv, RegistryTypeOK, storeVars, StoreTypeOK, VersionsAreWhole,
       Stageable, ValidSource, ValidTraining, LoadsPipeline, Trainable,
       Exportable, Passes

LEMMA StageKeeps ==
  ASSUME RegistryInv, NEW o \in Operator, NEW v \in Version, Stage(o, v)
  PROVE  RegistryInv'
<1> DEFINE c == [NoCommand EXCEPT !.version = v,
                                  !.pc = IF v \in published THEN "verifying" ELSE "writing"]
<1>1. c \in [pc: {"idle"} \cup Staging \cup Pointing,
             version: Version \cup {None}, mode: Mode, pending: SUBSET File]
  BY DEF NoCommand, Mode, Staging
<1>2. CommandIsChecked(c, published)
  <2>1. PassedStaging(v) /\ Bundle[v].current
    BY DEF Stage, PassedStaging, RegistryInv, RegistryTypeOK, StoreTypeOK
  <2> QED BY <2>1 DEF Stage, CommandIsChecked, NoCommand, Staging, Pointing, Written
<1>3. command' = [command EXCEPT ![o] = c] /\ pointer' = pointer
  BY DEF Stage
<1>4. StoreTypeOK' /\ VersionsAreWhole' /\ published' = published
  BY StoreRests DEF Stage
<1> HIDE DEF c
<1> QED BY <1>1, <1>2, <1>3, <1>4, OneCommand

LEMMA WriteKeeps ==
  ASSUME RegistryInv, NEW o \in Operator, WriteArtifact(o) \/ WriteManifest(o)
  PROVE  RegistryInv'
<1> DEFINE f == IF Doing(o, "writing") THEN "artifact" ELSE "manifest"
           c == [command[o] EXCEPT !.pending = @ \cup {f},
                                   !.pc = IF f = "artifact" THEN "describing"
                                                            ELSE "renaming"]
<1>1. WriteFile(o, f) /\ command[o].pc = IF f = "artifact" THEN "writing" ELSE "describing"
  BY DEF WriteArtifact, WriteManifest, Doing
<1>2. command[o] \in [pc: {"idle"} \cup Staging \cup Pointing,
                      version: Version \cup {None}, mode: Mode, pending: SUBSET File]
  BY DEF RegistryInv, RegistryTypeOK, Staging, Pointing
<1>3. c \in [pc: {"idle"} \cup Staging \cup Pointing,
             version: Version \cup {None}, mode: Mode, pending: SUBSET File]
  BY <1>2 DEF Staging, File
<1>4. CommandIsChecked(c, published)
  <2>1. CommandIsChecked(command[o], published)
    BY DEF RegistryInv
  <2> QED
    BY <1>1, <1>2, <2>1 DEF CommandIsChecked, Staging, Pointing, Written, File
<1>5. command' = [command EXCEPT ![o] = c] /\ pointer' = pointer
  BY <1>1, <1>2 DEF WriteFile, RegistryInv, RegistryTypeOK
<1>6. StoreTypeOK' /\ VersionsAreWhole' /\ published' = published
  BY <1>1, StoreRests DEF WriteFile
<1> HIDE DEF c
<1> QED BY <1>3, <1>4, <1>5, <1>6, OneCommand

\* A rename publishes the version with both of its files, or finds it there.
LEMMA PublishAppears ==
  ASSUME RegistryInv, NEW o \in Operator, Publish(o)
  PROVE  \/ /\ command[o].version \notin published
            /\ Appear(command[o].version) /\ Finish(o)
         \/ /\ command[o].version \in published
            /\ UNCHANGED storeVars /\ Proceed(o, "verifying")
<1>1. CommandIsChecked(command[o], published)
  BY DEF RegistryInv
<1> QED
  BY <1>1 DEF Publish, Doing, CommandIsChecked, Staging, Written, Appear, storeVars

LEMMA PublishKeeps ==
  ASSUME RegistryInv, NEW o \in Operator, Publish(o)
  PROVE  RegistryInv'
<1> DEFINE v == command[o].version
           c == [command[o] EXCEPT !.pc = "verifying"]
<1>1. /\ command[o] \in [pc: {"idle"} \cup Staging \cup Pointing,
                         version: Version \cup {None}, mode: Mode, pending: SUBSET File]
      /\ CommandIsChecked(command[o], published)
      /\ command[o].pc = "renaming" /\ v \in Version
  BY DEF RegistryInv, RegistryTypeOK, Publish, Doing, CommandIsChecked, Staging, Pointing
<1>2. pointer' = pointer
  BY DEF Publish
<1>3. CASE Appear(v) /\ Finish(o)
  <2>1. StoreTypeOK' /\ VersionsAreWhole' /\ published \subseteq published'
    BY <1>1, <1>3, AppearKeeps DEF RegistryInv, RegistryTypeOK
  <2> QED BY <1>2, <1>3, <2>1, FinishKeeps
<1>4. CASE UNCHANGED storeVars /\ Proceed(o, "verifying")
  <2>1. c \in [pc: {"idle"} \cup Staging \cup Pointing,
               version: Version \cup {None}, mode: Mode, pending: SUBSET File]
    BY <1>1 DEF Staging
  <2>2. CommandIsChecked(c, published)
    BY <1>1 DEF CommandIsChecked, Staging, Pointing
  <2>3. command' = [command EXCEPT ![o] = c]
    BY <1>4 DEF Proceed, RegistryInv, RegistryTypeOK
  <2>4. StoreTypeOK' /\ VersionsAreWhole' /\ published' = published
    BY <1>4, StoreRests
  <2> HIDE DEF c
  <2> QED BY <1>2, <2>1, <2>2, <2>3, <2>4, OneCommand
<1> QED BY <1>3, <1>4, PublishAppears

LEMMA ActivateKeeps ==
  ASSUME RegistryInv, NEW o \in Operator, NEW v \in Version,
         NEW s \in Source, NEW m \in Mode, Activate(o, v, s, m)
  PROVE  RegistryInv'
<1> DEFINE c == [NoCommand EXCEPT !.version = v, !.mode = m, !.pc = "pointing"]
<1>1. c \in [pc: {"idle"} \cup Staging \cup Pointing,
             version: Version \cup {None}, mode: Mode, pending: SUBSET File]
  BY DEF NoCommand, Pointing
<1>2. /\ v \in published /\ Bundle[v].source = s
      /\ m = "active" => Admitted(v)
  BY DEF Activate, Loads, Verifies, Inspects, Mode
<1>3. CommandIsChecked(c, published)
  BY <1>2 DEF CommandIsChecked, NoCommand, Staging, Pointing, Admissible
<1>4. command' = [command EXCEPT ![o] = c] /\ pointer' = pointer
  BY DEF Activate
<1>5. StoreTypeOK' /\ VersionsAreWhole' /\ published' = published
  BY StoreRests DEF Activate
<1> HIDE DEF c
<1> QED BY <1>1, <1>3, <1>4, <1>5, OneCommand

LEMMA WritePointerKeeps ==
  ASSUME RegistryInv, NEW o \in Operator, WritePointer(o)
  PROVE  RegistryInv'
<1> DEFINE c == [command[o] EXCEPT !.pc = "replacing"]
<1>1. /\ command[o] \in [pc: {"idle"} \cup Staging \cup Pointing,
                         version: Version \cup {None}, mode: Mode, pending: SUBSET File]
      /\ CommandIsChecked(command[o], published)
      /\ command[o].pc = "pointing"
  BY DEF RegistryInv, RegistryTypeOK, WritePointer, Doing, Staging, Pointing
<1>2. c \in [pc: {"idle"} \cup Staging \cup Pointing,
             version: Version \cup {None}, mode: Mode, pending: SUBSET File]
  BY <1>1 DEF Pointing
<1>3. CommandIsChecked(c, published)
  BY <1>1 DEF CommandIsChecked, Staging, Pointing
<1>4. command' = [command EXCEPT ![o] = c] /\ pointer' = pointer
  BY DEF WritePointer, Proceed, RegistryInv, RegistryTypeOK
<1>5. StoreTypeOK' /\ VersionsAreWhole' /\ published' = published
  BY StoreRests DEF WritePointer
<1> HIDE DEF c
<1> QED BY <1>2, <1>3, <1>4, <1>5, OneCommand

LEMMA ReplacePointerKeeps ==
  ASSUME RegistryInv, NEW o \in Operator, ReplacePointer(o)
  PROVE  RegistryInv'
<1> DEFINE v == command[o].version
           s == Bundle[v].source
           m == command[o].mode
<1>1. /\ v \in Version /\ v \in published /\ m \in Mode /\ s \in Source
      /\ Admissible(v, s, m)
  BY BundleAssumption
     DEF RegistryInv, RegistryTypeOK, ReplacePointer, Doing, CommandIsChecked, Pointing
<1>2. /\ pointer' = [pointer EXCEPT ![s][m] = v]
      /\ command' = [command EXCEPT ![o] = NoCommand]
      /\ UNCHANGED storeVars
  BY DEF ReplacePointer, Finish, storeVars
<1>3. StoreTypeOK' /\ VersionsAreWhole' /\ published' = published
  BY <1>2, StoreRests
<1>4. pointer' \in [Source -> [Mode -> Version \cup {None}]]
  BY <1>1, <1>2 DEF RegistryInv, RegistryTypeOK
<1>5. command' \in [Operator ->
        [pc: {"idle", "writing", "describing", "renaming", "verifying",
              "pointing", "replacing"},
         version: Version \cup {None}, mode: Mode, pending: SUBSET File]]
  BY <1>2 DEF RegistryInv, RegistryTypeOK, NoCommand, Mode
<1>6. ASSUME NEW p \in Operator
      PROVE  CommandIsChecked(command'[p], published')
  BY <1>2, <1>3, NoCommandIsChecked DEF RegistryInv, RegistryTypeOK
<1>7. ASSUME NEW t \in Source, NEW n \in Mode, pointer'[t][n] # None
      PROVE  pointer'[t][n] \in published /\ Admissible(pointer'[t][n], t, n)
  <2>1. CASE t = s /\ n = m
    BY <1>1, <1>2, <2>1 DEF RegistryInv, RegistryTypeOK
  <2>2. CASE ~(t = s /\ n = m)
    <3>1. pointer'[t][n] = pointer[t][n]
      BY <1>1, <1>2, <2>2 DEF RegistryInv, RegistryTypeOK
    <3> QED BY <1>7, <3>1 DEF RegistryInv, PointersAreAdmissible
  <2> QED BY <2>1, <2>2
<1>8. PointersAreAdmissible'
  BY <1>3, <1>7 DEF PointersAreAdmissible
<1> QED BY <1>3, <1>4, <1>5, <1>6, <1>8 DEF RegistryInv, RegistryTypeOK

LEMMA SpoiledRegistry ==
  ASSUME RegistryInv, NEW v \in Version, NEW f \in File, Spoil(v, f),
         UNCHANGED <<pointer, command>>
  PROVE  RegistryInv'
<1>1. StoreTypeOK' /\ VersionsAreWhole' /\ published' = published
  BY SpoilKeeps DEF RegistryInv, RegistryTypeOK
<1> QED BY <1>1 DEF RegistryInv, RegistryTypeOK, PointersAreAdmissible

LEMMA UpgradedRegistry ==
  ASSUME RegistryInv, NEW library \in Library, Upgrade(library),
         UNCHANGED <<pointer, command>>
  PROVE  RegistryInv'
<1>1. StoreTypeOK' /\ VersionsAreWhole' /\ published' = published
  BY UpgradeKeeps DEF RegistryInv, RegistryTypeOK
<1> QED BY <1>1 DEF RegistryInv, RegistryTypeOK, PointersAreAdmissible

LEMMA RestingRegistry ==
  ASSUME RegistryInv, UNCHANGED registryVars
  PROVE  RegistryInv'
<1>1. StoreTypeOK' /\ VersionsAreWhole' /\ published' = published
  BY StoreRests DEF registryVars
<1> QED BY <1>1 DEF RegistryInv, RegistryTypeOK, PointersAreAdmissible, registryVars

LEMMA NextRegistryInv == RegistryInv /\ [RegistryNext]_registryVars => RegistryInv'
<1> SUFFICES ASSUME RegistryInv, [RegistryNext]_registryVars PROVE RegistryInv'
  OBVIOUS
<1>1. ASSUME NEW o \in Operator, Verify(o) \/ Abort(o)
      PROVE  RegistryInv'
  <2>1. Finish(o) /\ UNCHANGED <<storeVars, pointer>>
    BY <1>1 DEF Verify, Abort
  <2> QED BY <2>1, StoreRests, FinishKeeps
<1> QED
  BY <1>1, StageKeeps, WriteKeeps, PublishKeeps, ActivateKeeps,
     WritePointerKeeps, ReplacePointerKeeps, SpoiledRegistry, UpgradedRegistry,
     RestingRegistry
     DEF RegistryNext, OperatorStep

\* Every step of the registry is one of the store's, or none to its readers.
LEMMA RegistrySimulates ==
  ASSUME RegistryInv, [RegistryNext]_registryVars
  PROVE  [StoreNext]_storeVars
<1>1. ASSUME NEW o \in Operator, Publish(o)
      PROVE  [StoreNext]_storeVars
  <2>1. command[o].version \in Version
    BY <1>1 DEF RegistryInv, Publish, Doing, CommandIsChecked
  <2> QED BY <1>1, <2>1, PublishAppears DEF StoreNext
<1>2. ASSUME NEW o \in Operator, OperatorStep(o)
      PROVE  [StoreNext]_storeVars
  BY <1>1, <1>2
     DEF OperatorStep, Stage, Activate, WriteArtifact, WriteManifest, WriteFile,
         Verify, WritePointer, ReplacePointer, Abort, storeVars
<1> QED BY <1>2 DEF RegistryNext, StoreNext, registryVars

------------------------------------------------------------------------------
\* Theorems

\* Whatever commands race, fail or die between two file operations, and
\* whatever bytes go bad, the registry keeps its types, and a version appears
\* under its final name complete and checked (stage_bytes).
THEOREM RegistryInvariance == RegistrySpec => []RegistryInv
BY InitRegistryInv, NextRegistryInv, PTL DEF RegistrySpec

\* An active pointer always names a published version of its own source that
\* may be served; until its bytes go bad it loads wherever the scikit-learn that
\* it was trained with is installed (activate, load_active, load_version).
THEOREM RegistryIsAlwaysSound == RegistrySpec => []RegistryIsSound
<1>1. RegistryInv => RegistryIsSound
  <2> SUFFICES ASSUME RegistryInv, NEW s \in Source, NEW m \in Mode,
                      pointer[s][m] # None
               PROVE  LET v == pointer[s][m] IN
                        /\ v \in published /\ Admissible(v, s, m)
                        /\ Bundle[v].current /\ v \notin damaged
                             /\ Bundle[v].library = installed => ActiveLoads(s, m)
    BY DEF RegistryInv, RegistryIsSound, PointersAreServable
  <2> DEFINE v == pointer[s][m]
  <2>1. v \in published /\ Admissible(v, s, m)
    BY DEF RegistryInv, PointersAreAdmissible
  <2>2. ASSUME Bundle[v].current, v \notin damaged, Bundle[v].library = installed
        PROVE  ActiveLoads(s, m)
    <3>1. PassedStaging(v) /\ intact[v] = File
      BY <2>1, <2>2 DEF RegistryInv, VersionsAreWhole
    <3>2. ValidTraining(v) /\ LoadsPipeline(v, installed)
      BY <2>2, <3>1 DEF PassedStaging, Stageable, LoadsPipeline
    <3> QED
      BY <2>1, <2>2, <3>1, <3>2
         DEF ActiveLoads, Loads, Verifies, Inspects, Admissible, Mode, File
  <2> QED BY <2>1, <2>2
<1> QED BY <1>1, RegistryInvariance, PTL

\* The files and renames of the registry implement the store its readers see.
THEOREM RegistryImplementsStore == RegistrySpec => RegistryIsAStore
<1>1. RegistryInit => StoreInit
  BY DEF RegistryInit
<1> QED
  BY <1>1, RegistryInvariance, RegistrySimulates, PTL
     DEF RegistrySpec, RegistryIsAStore, StoreSpec

(***************************************************************************)
(* The cache.                                                              *)
(***************************************************************************)
LEMMA RemovedAt ==
  ASSUME NEW S, NEW c \in Seq(S), IsInjective(c), NEW i \in 1..Len(c)
  PROVE  LET d == RemoveAt(c, i)
         IN  /\ d \in Seq(S) /\ Len(d) = Len(c) - 1
             /\ \A j \in 1..Len(d) : d[j] = IF j < i THEN c[j] ELSE c[j + 1]
<1> DEFINE a == SubSeq(c, 1, i - 1)
           b == SubSeq(c, i + 1, Len(c))
<1>1. \A j \in 1..Len(c) : c[j] \in S
  BY ElementOfSeq
<1>2. Len(c) \in Nat /\ i \in Nat
  BY LenProperties
<1>3. /\ a \in Seq(S) /\ Len(a) = i - 1
      /\ \A j \in 1..(i - 1) : a[j] = c[j]
  <2>1. \A j \in 1..(i - 1) : c[j] \in S
    BY <1>1, <1>2
  <2>2. /\ a \in Seq(S) /\ Len(a) = IF 1 <= i - 1 THEN (i - 1) - 1 + 1 ELSE 0
        /\ \A j \in 1..((i - 1) - 1 + 1) : a[j] = c[1 + j - 1]
    BY <1>2, <2>1, SubSeqProperties
  <2> QED BY <1>2, <2>2
<1>4. /\ b \in Seq(S) /\ Len(b) = Len(c) - i
      /\ \A j \in 1..(Len(c) - i) : b[j] = c[i + j]
  <2>1. \A j \in (i + 1)..Len(c) : c[j] \in S
    BY <1>1, <1>2
  <2>2. /\ b \in Seq(S)
        /\ Len(b) = IF i + 1 <= Len(c) THEN Len(c) - (i + 1) + 1 ELSE 0
        /\ \A j \in 1..(Len(c) - (i + 1) + 1) : b[j] = c[(i + 1) + j - 1]
    BY <1>2, <2>1, SubSeqProperties
  <2> QED BY <1>2, <2>2
<1>5. /\ a \o b \in Seq(S) /\ Len(a \o b) = Len(a) + Len(b)
      /\ \A j \in 1..(Len(a) + Len(b)) :
           (a \o b)[j] = IF j <= Len(a) THEN a[j] ELSE b[j - Len(a)]
  BY <1>3, <1>4, ConcatProperties
<1> HIDE DEF a, b
<1>6. ASSUME NEW j \in 1..(Len(c) - 1)
      PROVE  (a \o b)[j] = IF j < i THEN c[j] ELSE c[j + 1]
  <2>1. CASE j < i
    <3>1. j \in 1..(Len(a) + Len(b)) /\ j <= Len(a) /\ j \in 1..(i - 1)
      BY <1>2, <1>3, <1>4, <2>1
    <3> QED BY <1>3, <1>5, <2>1, <3>1
  <2>2. CASE ~(j < i)
    <3>0. j \in 1..(Len(a) + Len(b)) /\ ~(j <= Len(a))
      BY <1>2, <1>3, <1>4, <2>2
    <3>1. (a \o b)[j] = b[j - (i - 1)] /\ j - (i - 1) \in 1..(Len(c) - i)
      BY <1>2, <1>3, <1>4, <1>5, <2>2, <3>0
    <3> QED BY <1>2, <1>4, <2>2, <3>1
  <2> QED BY <2>1, <2>2
<1>7. RemoveAt(c, i) = a \o b
  BY DEF RemoveAt, a, b
<1>8. Len(a \o b) = Len(c) - 1
  BY <1>2, <1>3, <1>4, <1>5
<1> QED BY <1>5, <1>6, <1>7, <1>8

\* The cache stays a sequence of different versions; the version that was used
\* is the only one that may be new; nothing but the bound removes another.
LEMMA UsedKeeps ==
  ASSUME NEW c \in Seq(Version), IsInjective(c), Len(c) <= CacheSize,
         NEW v \in Version
  PROVE  /\ Used(c, v) \in Seq(Version) /\ IsInjective(Used(c, v))
         /\ Len(Used(c, v)) <= CacheSize
         /\ Range(Used(c, v)) \subseteq Range(c) \cup {v}
<1> DEFINE r == IF v \in Range(c) THEN RemoveAt(c, Place(c, v)) ELSE c
           d == Append(r, v)
<1>0. /\ Len(c) \in Nat /\ DOMAIN c = 1..Len(c) /\ CacheSize \in Nat /\ CacheSize > 0
      /\ \A i \in 1..Len(c) : c[i] \in Version
  BY LenProperties, ServiceAssumption
<1>1. /\ r \in Seq(Version) /\ IsInjective(r) /\ v \notin Range(r)
      /\ Len(r) <= CacheSize /\ Range(r) \subseteq Range(c)
  <2>1. CASE v \notin Range(c)
    BY <2>1
  <2>2. CASE v \in Range(c)
    <3> DEFINE i == Place(c, v)
    <3>1. i \in 1..Len(c) /\ c[i] = v
      BY <1>0, <2>2 DEF Place, Range
    <3> HIDE DEF i
    <3>2. /\ RemoveAt(c, i) \in Seq(Version) /\ Len(RemoveAt(c, i)) = Len(c) - 1
          /\ \A j \in 1..Len(RemoveAt(c, i)) :
               RemoveAt(c, i)[j] = IF j < i THEN c[j] ELSE c[j + 1]
      BY <3>1, RemovedAt
    <3>3. r = RemoveAt(c, i)
      BY <2>2 DEF i
    <3> HIDE DEF r
    <3>4. /\ r \in Seq(Version) /\ Len(r) = Len(c) - 1 /\ DOMAIN r = 1..(Len(c) - 1)
          /\ \A j \in 1..(Len(c) - 1) : r[j] = IF j < i THEN c[j] ELSE c[j + 1]
      BY <3>2, <3>3, LenProperties
    <3>5. \A j, k \in 1..Len(c) : c[j] = c[k] => j = k
      BY <1>0 DEF IsInjective
    <3>6. \A j, k \in 1..(Len(c) - 1) : r[j] = r[k] => j = k
      BY <1>0, <3>1, <3>4, <3>5
    <3>7. \A j \in 1..(Len(c) - 1) : r[j] # v /\ r[j] \in Range(c)
      <4> TAKE j \in 1..(Len(c) - 1)
      <4> DEFINE k == IF j < i THEN j ELSE j + 1
      <4>1. /\ k \in 1..Len(c) /\ k # i
        BY <1>0, <3>1
      <4>2. r[j] = c[k]
        BY <3>4
      <4> HIDE DEF k
      <4>3. c[k] # v
        BY <3>1, <3>5, <4>1
      <4>4. c[k] \in Range(c)
        BY <1>0, <4>1 DEF Range
      <4> QED BY <4>2, <4>3, <4>4
    <3>8. IsInjective(r)
      BY <3>4, <3>6 DEF IsInjective
    <3>9. v \notin Range(r) /\ Range(r) \subseteq Range(c)
      <4>1. Range(r) = {r[j] : j \in 1..(Len(c) - 1)}
        BY <3>4 DEF Range
      <4> QED BY <3>7, <4>1
    <3>10. Len(r) <= CacheSize
      BY <1>0, <3>4
    <3> QED BY <3>4, <3>8, <3>9, <3>10
  <2> QED BY <2>1, <2>2
<1> HIDE DEF r
<1>2. /\ Len(r) \in Nat /\ DOMAIN r = 1..Len(r)
      /\ d \in Seq(Version) /\ Len(d) = Len(r) + 1 /\ d # <<>>
      /\ \A i \in 1..Len(r) : d[i] = r[i]
      /\ d[Len(r) + 1] = v
  BY <1>1, AppendProperties, LenProperties
<1> HIDE DEF d
<1>3. DOMAIN d = 1..(Len(r) + 1)
  BY <1>2, LenProperties
<1>4. \A i, j \in 1..(Len(r) + 1) : d[i] = d[j] => i = j
  <2>1. \A i, j \in 1..Len(r) : r[i] = r[j] => i = j
    BY <1>1, <1>2 DEF IsInjective
  <2>2. \A i \in 1..Len(r) : r[i] # v
    BY <1>1, <1>2 DEF Range
  <2> QED BY <1>2, <2>1, <2>2
<1>5. \A i \in 1..(Len(r) + 1) : d[i] \in Range(c) \cup {v}
  <2>1. \A i \in 1..Len(r) : d[i] \in Range(c)
    BY <1>1, <1>2 DEF Range
  <2> QED BY <1>2, <2>1
<1>6. Used(c, v) = IF Len(d) > CacheSize THEN Tail(d) ELSE d
  BY DEF Used, Moved, d, r
<1>7. CASE Len(d) > CacheSize
  <2> DEFINE e == Tail(d)
  <2>1. /\ e \in Seq(Version) /\ Len(e) = Len(r)
        /\ \A i \in 1..Len(r) : e[i] = d[i + 1]
    BY <1>2, HeadTailProperties
  <2> HIDE DEF e
  <2>2. DOMAIN e = 1..Len(r)
    BY <2>1, LenProperties
  <2>3. IsInjective(e)
    BY <1>2, <1>4, <2>1, <2>2 DEF IsInjective
  <2>4. Range(e) \subseteq Range(c) \cup {v}
    BY <1>2, <1>5, <2>1, <2>2 DEF Range
  <2>5. Used(c, v) = e
    BY <1>6, <1>7 DEF e
  <2> QED BY <1>1, <2>1, <2>3, <2>4, <2>5
<1>8. CASE ~(Len(d) > CacheSize)
  <2>1. Used(c, v) = d
    BY <1>6, <1>8
  <2>2. IsInjective(d)
    BY <1>3, <1>4 DEF IsInjective
  <2>3. Range(d) \subseteq Range(c) \cup {v}
    BY <1>3, <1>5 DEF Range
  <2> QED BY <1>0, <1>2, <1>8, <2>1, <2>2, <2>3
<1> QED BY <1>7, <1>8

(***************************************************************************)
(* The locks.                                                              *)
(***************************************************************************)
\* There is a name for one more lock: no more are in use than there are other
\* threads.
LEMMA NewLockIsFree ==
  ASSUME NEW t \in Thread, request[t].lock = None
  PROVE  NewLock \in Lock /\ \A u \in Thread : request[u].lock # NewLock
<1> SUFFICES ASSUME \A l \in Lock : \E u \in Thread : request[u].lock = l
             PROVE  FALSE
  BY DEF NewLock
<1> DEFINE holder == [l \in Lock |-> CHOOSE u \in Thread : request[u].lock = l]
           others == Thread \ {t}
<1>1. \A l \in Lock : holder[l] \in Thread /\ request[holder[l]].lock = l
  OBVIOUS
<1>2. holder \in [Lock -> others]
  BY <1>1, ServiceAssumption
<1>3. \A l, m \in Lock : holder[l] = holder[m] => l = m
  BY <1>1
<1> HIDE DEF holder
<1>4. /\ IsFiniteSet(others) /\ Cardinality(others) = Cardinality(Thread) - 1
      /\ IsFiniteSet(Lock) /\ Cardinality(Lock) \in Nat /\ Cardinality(Thread) \in Nat
  BY FS_RemoveElement, FS_CardinalityType, ServiceAssumption
<1>5. Cardinality(others) < Cardinality(Lock)
  BY <1>4, ServiceAssumption
<1>6. \E l, m \in Lock : l # m /\ holder[l] = holder[m]
  <2> HIDE DEF others
  <2> QED BY <1>2, <1>4, <1>5, FS_PigeonHole
<1> QED BY <1>3, <1>6

(***************************************************************************)
(* The requests.                                                           *)
(***************************************************************************)
Holding == {"peeking", "loading", "storing"}
Locking == Holding \cup {"waiting"}
UnderWay == Locking \cup {"inspecting", "choosing"}

\* A version that was found fit when it was loaded.
Servable(v) == v \in published /\ Bundle[v].current /\ (Demo \/ Admitted(v))

\* What a request has established.
RequestIsSound(t) ==
  LET r == request[t] IN
  /\ r.pc \in UnderWay =>
       /\ r.version \in Version /\ r.owed /\ r.answer = "none"
       /\ r.rotten => r.version \in damaged
  /\ r.pc \in Locking => r.lock \in Lock /\ r.lock = loadLocks[r.version]
  /\ r.pc \notin Locking => r.lock = None
  /\ r.pc = "idle" => r.answer = "none"
  /\ r.pc = "loading" /\ ~r.cached => r.version \notin Range(cache)
  /\ r.pc = "storing" => ~r.rotten /\ Servable(r.version)
  /\ r.answer \in {"unavailable", "incompatible", "served"} => r.owed
  /\ r.answer = "served" => ~r.rotten /\ r.version \in Version /\ Servable(r.version)

\* A name in the table is that of one version, and of a thread at least.
LocksAreApart ==
  \A v, w \in Version : loadLocks[v] # None =>
    /\ loadLocks[v] = loadLocks[w] => v = w
    /\ \E t \in Thread : request[t].lock = loadLocks[v]

\* A lock is held by one thread.
OneHolder ==
  \A t, u \in Thread :
    request[t].pc \in Holding /\ request[u].pc \in Holding
      /\ request[t].lock = request[u].lock => t = u

\* Bytes that went bad are missing.
DamageShows == \A v \in damaged : v \in published /\ intact[v] # File

ServiceInv ==
  /\ StoreTypeOK /\ VersionsAreWhole /\ DamageShows
  /\ ServiceTypeOK
  /\ \A t \in Thread : RequestIsSound(t)
  /\ LocksAreApart
  /\ OneHolder

Answer == {"none", "refused", "unavailable", "incompatible", "served"}
ServiceRequest ==
  [pc: UnderWay \cup {"idle", "answered"},
   version: Version \cup {None}, lock: Lock \cup {None}, cached: BOOLEAN,
   rotten: BOOLEAN, owed: BOOLEAN, answer: Answer]

LEMMA RequestTypes ==
  /\ ServiceTypeOK => request \in [Thread -> ServiceRequest]
  /\ ServiceTypeOK <=>
       /\ request \in [Thread -> ServiceRequest]
       /\ cache \in Seq(Version) /\ Len(cache) <= CacheSize /\ IsInjective(cache)
       /\ loadLocks \in [Version -> Lock \cup {None}]
<1>1. UnderWay \cup {"idle", "answered"} =
        {"idle", "inspecting", "choosing", "waiting", "peeking", "loading",
         "storing", "answered"}
  BY DEF UnderWay, Locking, Holding
<1>2. ServiceRequest =
       [pc: {"idle", "inspecting", "choosing", "waiting", "peeking", "loading",
             "storing", "answered"},
        version: Version \cup {None}, lock: Lock \cup {None}, cached: BOOLEAN,
        rotten: BOOLEAN, owed: BOOLEAN,
        answer: {"none", "refused", "unavailable", "incompatible", "served"}]
  BY <1>1 DEF ServiceRequest, Answer
<1> QED BY <1>2 DEF ServiceTypeOK

\* What another thread relies on lasts, as long as its lock and the version it
\* is about to load are left alone.
LEMMA OthersRely ==
  ASSUME NEW u \in Thread, RequestIsSound(u), request'[u] = request[u],
         request[u].pc \in Locking =>
           loadLocks'[request[u].version] = loadLocks[request[u].version],
         published \subseteq published', damaged \subseteq damaged',
         request[u].pc = "loading" /\ ~request[u].cached =>
           request[u].version \notin Range(cache')
  PROVE  RequestIsSound(u)'
BY DEF RequestIsSound, Servable

\* A step of one thread that keeps its lock, and leaves the table, the cache
\* and the store.
LEMMA KeepsItsLock ==
  ASSUME ServiceInv, NEW t \in Thread, NEW r \in ServiceRequest,
         request' = [request EXCEPT ![t] = r], r.lock = request[t].lock,
         RequestIsSound(t)',
         r.pc \in Holding => \/ request[t].pc \in Holding
                             \/ ~\E u \in Thread : Holds(u, request[t].lock),
         UNCHANGED <<cache, loadLocks, storeVars>>
  PROVE  ServiceInv'
<1>0. request \in [Thread -> ServiceRequest]
  BY RequestTypes DEF ServiceInv
<1>1. request'[t] = r /\ \A u \in Thread : u # t => request'[u] = request[u]
  BY <1>0
<1>2. request' \in [Thread -> ServiceRequest]
  BY <1>0
<1>3. ServiceTypeOK'
  BY <1>2, RequestTypes DEF ServiceInv, ServiceTypeOK, ServiceRequest, UnderWay,
                            Locking, Holding, Answer
<1>4. ASSUME NEW u \in Thread PROVE RequestIsSound(u)'
  <2>1. CASE u = t
    BY <2>1
  <2>2. CASE u # t
    <3>1. request[u].pc = "loading" /\ ~request[u].cached =>
            request[u].version \notin Range(cache')
      BY DEF ServiceInv, RequestIsSound
    <3> QED BY <1>1, <2>2, <3>1, OthersRely DEF ServiceInv, storeVars
  <2> QED BY <2>1, <2>2
<1>5. \A u \in Thread : request'[u].lock = request[u].lock
  BY <1>1
<1>6. LocksAreApart'
  BY <1>5 DEF ServiceInv, LocksAreApart
<1>7. OneHolder'
  <2>1. ASSUME NEW u \in Thread, u # t, r.pc \in Holding,
               request[u].pc \in Holding, r.lock = request[u].lock
        PROVE  FALSE
    BY <2>1 DEF ServiceInv, OneHolder, Holds, Holding
  <2> QED BY <1>1, <2>1 DEF ServiceInv, OneHolder
<1> QED
  BY <1>3, <1>4, <1>6, <1>7
     DEF ServiceInv, storeVars, StoreTypeOK, VersionsAreWhole, DamageShows

\* What is left of a request that was answered, and what one begins as.
AnswerOf(t, a) ==
  [NoRequest EXCEPT !.pc = "answered", !.answer = a,
                    !.version = IF a = "served" THEN request[t].version ELSE None,
                    !.rotten = a = "served" /\ request[t].rotten,
                    !.owed = request[t].owed]

LEMMA AnswerFields ==
  ASSUME NEW t \in Thread, request[t] \in ServiceRequest, NEW a \in Answer
  PROVE  LET r == AnswerOf(t, a)
         IN  /\ r \in ServiceRequest
             /\ r.pc = "answered" /\ r.answer = a /\ r.lock = None
             /\ a = "served" => r.version = request[t].version
             /\ a = "served" => r.rotten = request[t].rotten
             /\ r.owed = request[t].owed
<1>1. NoRequest \in ServiceRequest /\ NoRequest.lock = None
  BY DEF ServiceRequest, NoRequest, Answer
<1>2. NoRequest.pc = "idle"
  BY DEF NoRequest
<1> QED BY <1>1, <1>2 DEF AnswerOf, ServiceRequest

FirstOf(v, rotten, owed) ==
  [NoRequest EXCEPT !.pc = "inspecting", !.version = v, !.rotten = rotten,
                    !.owed = owed]

LEMMA FirstFields ==
  ASSUME NEW v \in Version, NEW rotten \in BOOLEAN
  PROVE  LET r == FirstOf(v, rotten, TRUE)
         IN  /\ r \in ServiceRequest
             /\ r.pc = "inspecting" /\ r.version = v /\ r.lock = None
             /\ r.answer = "none" /\ r.owed = TRUE /\ r.rotten = rotten
<1>1. /\ NoRequest \in ServiceRequest
      /\ NoRequest.lock = None /\ NoRequest.answer = "none"
  BY DEF ServiceRequest, NoRequest, Answer
<1> QED BY <1>1 DEF FirstOf, ServiceRequest, UnderWay

\* Requests that are refused, accepted, inspected, ready to be answered.
LEMMA BeginKeeps ==
  ASSUME ServiceInv, NEW t \in Thread, NEW v \in Version, NEW faults,
         Begin(t, v, faults)
  PROVE  ServiceInv'
<1>0. request \in [Thread -> ServiceRequest] /\ None \notin Version
  BY RequestTypes, BundleAssumption DEF ServiceInv
<1>1. request[t].lock = None /\ request[t].answer = "none" /\ request[t].pc = "idle"
  BY DEF ServiceInv, RequestIsSound, Begin, At, Locking, Holding
<1>2. CASE faults = {}
  <2> DEFINE rotten == v \in damaged
             r == FirstOf(v, rotten, TRUE)
  <2>0. (faults = {}) = TRUE /\ rotten \in BOOLEAN
    BY <1>2
  <2>r. rotten <=> v \in damaged
    OBVIOUS
  <2>1. request' = [request EXCEPT ![t] = r]
    BY <1>2, <2>0 DEF Begin, Accepted, FirstOf
  <2>2. /\ r.pc = "inspecting" /\ r.version = v /\ r.lock = None
        /\ r.answer = "none" /\ r.owed = TRUE /\ r.rotten = rotten
        /\ r \in ServiceRequest
    <3> HIDE DEF rotten
    <3> QED BY <2>0, FirstFields
  <2>3. r \in ServiceRequest
    BY <2>2
  <2> HIDE DEF r
  <2>4. request'[t] = r
    BY <1>0, <2>1
  <2>5. RequestIsSound(t)'
    BY <2>2, <2>4 DEF RequestIsSound, Locking, Holding, Begin, storeVars
  <2> QED BY <1>1, <2>1, <2>2, <2>3, <2>5, KeepsItsLock DEF Begin, Holding
<1>3. CASE faults # {}
  <2> DEFINE r == AnswerOf(t, "refused")
  <2>1. request' = [request EXCEPT ![t] = r]
    BY <1>3 DEF Begin, Answered, AnswerOf
  <2>2. r.pc = "answered" /\ r.answer = "refused" /\ r.lock = None
    BY <1>0, AnswerFields DEF Answer
  <2>3. r \in ServiceRequest
    BY <1>0, AnswerFields DEF Answer
  <2> HIDE DEF r
  <2>4. request'[t] = r
    BY <1>0, <2>1
  <2>5. RequestIsSound(t)'
    BY <2>2, <2>4 DEF RequestIsSound, UnderWay, Locking, Holding
  <2> QED BY <1>1, <2>1, <2>2, <2>3, <2>5, KeepsItsLock DEF Begin, Holding
<1> QED BY <1>2, <1>3

LEMMA RespondKeeps ==
  ASSUME ServiceInv, NEW t \in Thread, Respond(t)
  PROVE  ServiceInv'
<1>0. request \in [Thread -> ServiceRequest]
  BY RequestTypes DEF ServiceInv
<1>1. request[t].lock = None /\ NoRequest.lock = None /\ NoRequest.pc = "idle"
  BY DEF ServiceInv, RequestIsSound, Respond, At, Locking, Holding, NoRequest
<1>2. NoRequest \in ServiceRequest
  BY DEF ServiceRequest, NoRequest, UnderWay, Answer
<1>3. RequestIsSound(t)'
  BY <1>0 DEF RequestIsSound, Respond, NoRequest, UnderWay, Locking, Holding
<1> QED BY <1>1, <1>2, <1>3, KeepsItsLock DEF Respond, Holding

LEMMA AcquireKeeps ==
  ASSUME ServiceInv, NEW t \in Thread, Acquire(t)
  PROVE  ServiceInv'
<1> DEFINE r == [request[t] EXCEPT !.pc = "peeking"]
<1>0. request \in [Thread -> ServiceRequest]
  BY RequestTypes DEF ServiceInv
<1>1. request' = [request EXCEPT ![t] = r] /\ r.lock = request[t].lock
  BY <1>0 DEF Acquire, Go, ServiceRequest
<1>2. r \in ServiceRequest
  BY <1>0 DEF ServiceRequest, UnderWay, Locking, Holding
<1>3. RequestIsSound(t)'
  BY <1>0 DEF ServiceInv, RequestIsSound, Acquire, At, Go, ServiceRequest,
              UnderWay, Locking, Holding, storeVars
<1> QED BY <1>1, <1>2, <1>3, KeepsItsLock DEF Acquire

LEMMA PeekKeeps ==
  ASSUME ServiceInv, NEW t \in Thread, Peek(t)
  PROVE  ServiceInv'
<1> DEFINE here == request[t].version \in Range(cache)
           r == [request[t] EXCEPT !.pc = "loading", !.cached = here]
<1>0. request \in [Thread -> ServiceRequest]
  BY RequestTypes DEF ServiceInv
<1>1. request' = [request EXCEPT ![t] = r] /\ r.lock = request[t].lock
  BY <1>0 DEF Peek, ServiceRequest
<1>2. r \in ServiceRequest
  <2>1. here \in BOOLEAN
    OBVIOUS
  <2> HIDE DEF here
  <2> QED BY <1>0, <2>1 DEF ServiceRequest, UnderWay, Locking, Holding
<1>3. RequestIsSound(t)'
  BY <1>0 DEF ServiceInv, RequestIsSound, Peek, At, ServiceRequest,
              UnderWay, Locking, Holding, storeVars
<1> QED BY <1>1, <1>2, <1>3, KeepsItsLock DEF Peek, At, Holding

\* The thread that is answered lets go of its lock; the table keeps the names
\* that others refer to.
LEMMA AnswerKeeps ==
  ASSUME ServiceInv, NEW t \in Thread, NEW a \in Answer \ {"none"},
         AnswerWith(t, a), request[t].pc \in UnderWay,
         a = "served" => request[t].pc = "storing",
         UNCHANGED storeVars,
         cache' \in Seq(Version), Len(cache') <= CacheSize, IsInjective(cache'),
         \/ cache' = cache
         \/ /\ request[t].pc \in Holding
            /\ Range(cache') \subseteq Range(cache) \cup {request[t].version}
  PROVE  ServiceInv'
<1> DEFINE v == request[t].version
           r == AnswerOf(t, a)
<1>0. request \in [Thread -> ServiceRequest] /\ loadLocks \in [Version -> Lock \cup {None}]
  BY RequestTypes DEF ServiceInv
<1>1. request' = [request EXCEPT ![t] = r]
  BY DEF AnswerWith, Answered, AnswerOf
<1>2. /\ r \in ServiceRequest
      /\ r.pc = "answered" /\ r.answer = a /\ r.lock = None
      /\ a = "served" => r.version = v /\ r.rotten = request[t].rotten
      /\ r.owed = request[t].owed
  BY <1>0, AnswerFields
<1> HIDE DEF r
<1>3. request'[t] = r /\ \A u \in Thread : u # t => request'[u] = request[u]
  BY <1>0, <1>1
<1>4. request' \in [Thread -> ServiceRequest]
  BY <1>0, <1>1, <1>2
<1>5. loadLocks' = [w \in Version |->
         IF \E u \in Thread : request'[u].lock = loadLocks[w] THEN loadLocks[w] ELSE None]
  BY DEF AnswerWith, WeakEntries
<1>6. loadLocks' \in [Version -> Lock \cup {None}]
  BY <1>0, <1>5
<1>7. ServiceTypeOK'
  BY <1>4, <1>6
     DEF ServiceTypeOK, ServiceRequest, UnderWay, Locking, Holding, Answer
<1>8. RequestIsSound(t)'
  <2>1. request[t].owed /\ request[t].version \in Version
    BY DEF ServiceInv, RequestIsSound
  <2>2. a = "served" => ~request[t].rotten /\ Servable(v)
    BY DEF ServiceInv, RequestIsSound
  <2> QED
    BY <1>2, <1>3, <2>1, <2>2
       DEF RequestIsSound, UnderWay, Locking, Holding, Servable, storeVars
<1>9. ASSUME NEW u \in Thread, u # t PROVE RequestIsSound(u)'
  <2>1. RequestIsSound(u) /\ request'[u] = request[u]
    BY <1>3, <1>9 DEF ServiceInv
  <2>2. request[u].pc \in Locking =>
          loadLocks'[request[u].version] = loadLocks[request[u].version]
    BY <1>5, <2>1 DEF RequestIsSound, UnderWay
  <2>3. ASSUME request[u].pc = "loading", ~request[u].cached
        PROVE  request[u].version \notin Range(cache')
    <3>1. request[u].version \notin Range(cache)
      BY <2>1, <2>3 DEF RequestIsSound
    <3>2. CASE cache' = cache
      BY <3>1, <3>2
    <3>3. CASE request[t].pc \in Holding /\ request[u].version = v
      <4>1. request[u].lock = request[t].lock
        BY <2>1, <2>3, <3>3 DEF ServiceInv, RequestIsSound, Locking, Holding
      <4> QED BY <1>9, <2>3, <3>3, <4>1 DEF ServiceInv, OneHolder, Holding
    <3> QED BY <3>1, <3>2, <3>3
  <2> QED BY <2>1, <2>2, <2>3, OthersRely DEF storeVars
<1>10. LocksAreApart'
  <2> SUFFICES ASSUME NEW w \in Version, NEW x \in Version, loadLocks'[w] # None
               PROVE  /\ loadLocks'[w] = loadLocks'[x] => w = x
                      /\ \E u \in Thread : request'[u].lock = loadLocks'[w]
    BY DEF LocksAreApart
  <2> QED BY <1>5 DEF ServiceInv, LocksAreApart
<1>11. OneHolder'
  BY <1>2, <1>3 DEF ServiceInv, OneHolder, Holding
<1> QED
  BY <1>7, <1>8, <1>9, <1>10, <1>11
     DEF ServiceInv, storeVars, StoreTypeOK, VersionsAreWhole, DamageShows

LEMMA InspectKeeps ==
  ASSUME ServiceInv, NEW t \in Thread, Inspect(t)
  PROVE  ServiceInv'
<1> DEFINE r == [request[t] EXCEPT !.pc = "choosing"]
<1>0. request \in [Thread -> ServiceRequest] /\ request[t].pc = "inspecting"
  BY RequestTypes DEF ServiceInv, Inspect, At
<1>1. CASE Go(t, "choosing") /\ UNCHANGED loadLocks
  <2>1. request' = [request EXCEPT ![t] = r] /\ r.lock = request[t].lock
    BY <1>0, <1>1 DEF Go, ServiceRequest
  <2>2. r \in ServiceRequest /\ r.pc = "choosing"
    BY <1>0 DEF ServiceRequest, UnderWay
  <2>3. RequestIsSound(t)'
    BY <1>0, <1>1 DEF ServiceInv, RequestIsSound, Inspect, Go, ServiceRequest,
                UnderWay, Locking, Holding, storeVars
  <2> QED BY <2>1, <2>2, <2>3, <1>1, KeepsItsLock DEF Inspect, Holding
<1>2. ASSUME NEW a \in {"unavailable", "incompatible"}, AnswerWith(t, a)
      PROVE  ServiceInv'
  <2>1. a \in Answer \ {"none"} /\ a # "served" /\ request[t].pc \in UnderWay
    BY <1>0 DEF Answer, UnderWay
  <2> QED
    BY <1>2, <2>1, AnswerKeeps, RequestTypes DEF Inspect, ServiceInv
<1> QED BY <1>1, <1>2 DEF Inspect

LEMMA LoadKeeps ==
  ASSUME ServiceInv, NEW t \in Thread, Load(t)
  PROVE  ServiceInv'
<1> DEFINE r == [request[t] EXCEPT !.pc = "storing"]
           v == request[t].version
<1>0. request \in [Thread -> ServiceRequest] /\ request[t].pc = "loading"
  BY RequestTypes DEF ServiceInv, Load, At
<1>1. CASE Verifies(v, Bundle[v].source, Demo) /\ Go(t, "storing") /\ UNCHANGED loadLocks
  <2>1. request' = [request EXCEPT ![t] = r] /\ r.lock = request[t].lock
    BY <1>0, <1>1 DEF Go, ServiceRequest
  <2>2. r \in ServiceRequest /\ r.pc = "storing" /\ request[t].pc \in Holding
    BY <1>0 DEF ServiceRequest, UnderWay, Locking, Holding
  <2>3. v \in Version /\ Servable(v)
    BY <1>0, <1>1 DEF Verifies, Inspects, Servable, ServiceInv, RequestIsSound,
                      UnderWay, Locking, Holding
  <2>4. ~request[t].rotten
    <3>1. v \notin damaged
      BY <1>1, <2>3 DEF Verifies, Inspects, ServiceInv, DamageShows, StoreTypeOK, File
    <3> QED BY <1>0, <3>1 DEF ServiceInv, RequestIsSound, UnderWay, Locking, Holding
  <2>5. RequestIsSound(t)'
    BY <1>0, <1>1, <2>3, <2>4
       DEF ServiceInv, RequestIsSound, Load, Go, ServiceRequest, Servable,
           UnderWay, Locking, Holding, storeVars
  <2> QED BY <2>1, <2>2, <2>5, <1>1, KeepsItsLock DEF Load
<1>2. CASE AnswerWith(t, "unavailable")
  <2>1. "unavailable" \in Answer \ {"none"} /\ request[t].pc \in UnderWay
    BY <1>0 DEF Answer, UnderWay, Locking, Holding
  <2> QED
    BY <1>2, <2>1, AnswerKeeps, RequestTypes DEF Load, ServiceInv
<1> QED BY <1>1, <1>2 DEF Load

LEMMA StoreKeeps ==
  ASSUME ServiceInv, NEW t \in Thread, Store(t)
  PROVE  ServiceInv'
<1>0. request \in [Thread -> ServiceRequest] /\ request[t].pc = "storing"
  BY RequestTypes DEF ServiceInv, Store, At
<1>1. request[t].version \in Version /\ request[t].pc \in Holding /\ request[t].pc \in UnderWay
  BY <1>0 DEF ServiceInv, RequestIsSound, UnderWay, Locking, Holding
<1>2. /\ cache' \in Seq(Version) /\ IsInjective(cache') /\ Len(cache') <= CacheSize
      /\ Range(cache') \subseteq Range(cache) \cup {request[t].version}
  BY <1>1, UsedKeeps, RequestTypes DEF Store, ServiceInv
<1>3. PICK a \in {"served", "unavailable"} : AnswerWith(t, a)
  BY DEF Store
<1>4. a \in Answer \ {"none"}
  BY DEF Answer
<1>5. UNCHANGED storeVars
  BY DEF Store
<1> QED BY <1>0, <1>1, <1>2, <1>3, <1>4, <1>5, AnswerKeeps

\* A version without a lock gets one that nobody else has.
LEMMA ChooseLockKeeps ==
  ASSUME ServiceInv, NEW t \in Thread, ChooseLock(t)
  PROVE  ServiceInv'
<1>0. /\ request \in [Thread -> ServiceRequest] /\ request[t].pc = "choosing"
      /\ loadLocks \in [Version -> Lock \cup {None}] /\ None \notin Lock
  BY RequestTypes, ServiceAssumption DEF ServiceInv, ChooseLock, At
<1>1. request[t].lock = None
  BY <1>0 DEF ServiceInv, RequestIsSound, Locking, Holding
<1>2. PICK v \in Version : v = request[t].version
  BY <1>0 DEF ServiceInv, RequestIsSound, UnderWay
<1>3. PICK l \in Lock :
        /\ loadLocks' = [loadLocks EXCEPT ![v] = l]
        /\ request' = [request EXCEPT ![t].lock = l, ![t].pc = "waiting"]
        /\ \/ loadLocks[v] = None /\ \A u \in Thread : request[u].lock # l
           \/ loadLocks[v] = l
  <2>1. NewLock \in Lock /\ \A u \in Thread : request[u].lock # NewLock
    BY <1>1, NewLockIsFree
  <2> DEFINE l == IF loadLocks[v] = None THEN NewLock ELSE loadLocks[v]
  <2>2. l \in Lock
    BY <1>0, <2>1
  <2>3. /\ loadLocks' = [loadLocks EXCEPT ![v] = l]
        /\ request' = [request EXCEPT ![t].lock = l, ![t].pc = "waiting"]
    BY <1>2 DEF ChooseLock
  <2>4. \/ loadLocks[v] = None /\ \A u \in Thread : request[u].lock # l
        \/ loadLocks[v] = l
    BY <2>1
  <2> HIDE DEF l
  <2> QED BY <2>2, <2>3, <2>4
<1>4. /\ request'[t] \in ServiceRequest
      /\ request'[t].lock = l /\ request'[t].pc = "waiting"
      /\ request'[t].version = v /\ request'[t].owed = request[t].owed
      /\ request'[t].answer = request[t].answer
      /\ request'[t].rotten = request[t].rotten
      /\ \A u \in Thread : u # t => request'[u] = request[u]
  BY <1>0, <1>2, <1>3 DEF ServiceRequest, UnderWay, Locking
<1>5. /\ request' \in [Thread -> ServiceRequest]
      /\ loadLocks' \in [Version -> Lock \cup {None}]
      /\ loadLocks'[v] = l /\ \A w \in Version : w # v => loadLocks'[w] = loadLocks[w]
  BY <1>0, <1>3 DEF ServiceRequest, UnderWay, Locking
<1>6. ServiceTypeOK'
  BY <1>5 DEF ServiceInv, ServiceTypeOK, ServiceRequest, UnderWay, Locking,
              Holding, Answer, ChooseLock
<1>7. RequestIsSound(t)'
  BY <1>0, <1>2, <1>4, <1>5
     DEF ServiceInv, RequestIsSound, ChooseLock, UnderWay, Locking, Holding, storeVars
<1>8. ASSUME NEW u \in Thread, u # t PROVE RequestIsSound(u)'
  <2>1. RequestIsSound(u) /\ request'[u] = request[u]
    BY <1>4, <1>8 DEF ServiceInv
  <2>2. request[u].pc \in Locking =>
          loadLocks'[request[u].version] = loadLocks[request[u].version]
    BY <1>0, <1>3, <1>5, <2>1 DEF RequestIsSound, UnderWay
  <2> QED BY <2>1, <2>2, OthersRely DEF RequestIsSound, ChooseLock, storeVars
<1>9. LocksAreApart'
  <2> SUFFICES ASSUME NEW w \in Version, NEW x \in Version, loadLocks'[w] # None
               PROVE  /\ loadLocks'[w] = loadLocks'[x] => w = x
                      /\ \E u \in Thread : request'[u].lock = loadLocks'[w]
    BY DEF LocksAreApart
  <2>1. ASSUME NEW y \in Version, y # v PROVE loadLocks[y] # l
    BY <1>0, <1>3, <2>1 DEF ServiceInv, LocksAreApart
  <2>2. loadLocks'[w] = loadLocks'[x] => w = x
    BY <1>0, <1>5, <2>1 DEF ServiceInv, LocksAreApart
  <2>3. CASE w = v
    BY <1>4, <1>5, <2>2, <2>3
  <2>4. CASE w # v
    <3>1. PICK u \in Thread : request[u].lock = loadLocks[w]
      BY <1>5, <2>4 DEF ServiceInv, LocksAreApart
    <3>2. u # t
      BY <1>1, <1>5, <2>4, <3>1
    <3> QED BY <1>4, <1>5, <2>2, <2>4, <3>1, <3>2
  <2> QED BY <2>2, <2>3, <2>4
<1>10. OneHolder'
  BY <1>4 DEF ServiceInv, OneHolder, Holding
<1> QED
  BY <1>6, <1>7, <1>8, <1>9, <1>10
     DEF ServiceInv, ChooseLock, storeVars, StoreTypeOK, VersionsAreWhole, DamageShows

\* All threads are idle, and the cache and the table are empty.
Fresh == ServiceInit /\ StoreTypeOK /\ VersionsAreWhole /\ DamageShows

LEMMA FreshService == Fresh => ServiceInv
<1> SUFFICES ASSUME Fresh PROVE ServiceInv
  OBVIOUS
<1> USE DEF Fresh, ServiceInit
<1>1. NoRequest \in ServiceRequest
  BY DEF ServiceRequest, NoRequest, UnderWay, Answer
<1>2. \A t \in Thread : /\ request[t].pc = "idle" /\ request[t].answer = "none"
                        /\ request[t].lock = None
  BY DEF NoRequest
<1>3. cache \in Seq(Version) /\ Len(cache) <= CacheSize /\ IsInjective(cache)
  BY ServiceAssumption DEF IsInjective
<1>4. ServiceTypeOK
  BY <1>1, <1>3, RequestTypes
<1>5. \A t \in Thread : RequestIsSound(t)
  BY <1>2 DEF RequestIsSound, UnderWay, Locking, Holding
<1>6. LocksAreApart /\ OneHolder
  BY <1>2 DEF LocksAreApart, OneHolder, Holding
<1> QED BY <1>4, <1>5, <1>6 DEF ServiceInv

LEMMA RestartKeeps ==
  ASSUME ServiceInv, Restart
  PROVE  ServiceInv'
<1>1. StoreTypeOK' /\ VersionsAreWhole' /\ DamageShows'
  BY DEF Restart, ServiceInv, storeVars, StoreTypeOK, VersionsAreWhole, DamageShows
<1>2. Fresh'
  BY <1>1 DEF Restart, Fresh, ServiceInit
<1> QED BY <1>2, FreshService, PTL

\* The registry goes on while requests are under way.
LEMMA StoreStepKeeps ==
  ASSUME ServiceInv, [StoreNext]_storeVars, UNCHANGED serviceVars
  PROVE  ServiceInv'
<1>1. /\ StoreTypeOK' /\ VersionsAreWhole' /\ DamageShows'
      /\ published \subseteq published' /\ damaged \subseteq damaged'
  <2>1. ASSUME NEW v \in Version, Appear(v)
        PROVE  /\ StoreTypeOK' /\ VersionsAreWhole' /\ DamageShows'
               /\ published \subseteq published' /\ damaged \subseteq damaged'
    <3>1. DamageShows'
      BY <2>1 DEF Appear, ServiceInv, DamageShows, StoreTypeOK
    <3> QED BY <2>1, <3>1, AppearKeeps DEF ServiceInv, Appear
  <2>2. ASSUME NEW v \in Version, NEW f \in File, Spoil(v, f)
        PROVE  /\ StoreTypeOK' /\ VersionsAreWhole' /\ DamageShows'
               /\ published \subseteq published' /\ damaged \subseteq damaged'
    <3>1. DamageShows'
      BY <2>2 DEF Spoil, ServiceInv, DamageShows, StoreTypeOK
    <3> QED BY <2>2, <3>1, SpoilKeeps DEF ServiceInv, Spoil
  <2>3. ASSUME NEW library \in Library, Upgrade(library)
        PROVE  /\ StoreTypeOK' /\ VersionsAreWhole' /\ DamageShows'
               /\ published \subseteq published' /\ damaged \subseteq damaged'
    <3>1. DamageShows'
      BY <2>3 DEF Upgrade, ServiceInv, DamageShows
    <3> QED BY <2>3, <3>1, UpgradeKeeps DEF ServiceInv, Upgrade
  <2>4. CASE UNCHANGED storeVars
    BY <2>4 DEF ServiceInv, storeVars, StoreTypeOK, VersionsAreWhole, DamageShows
  <2> QED BY <2>1, <2>2, <2>3, <2>4 DEF StoreNext
<1>2. \A t \in Thread : RequestIsSound(t)'
  BY <1>1, OthersRely DEF ServiceInv, RequestIsSound, serviceVars
<1> QED
  BY <1>1, <1>2 DEF ServiceInv, serviceVars, ServiceTypeOK, LocksAreApart, OneHolder

LEMMA NextServiceInv ==
  ServiceInv /\ [ServiceAndStoreNext]_<<storeVars, serviceVars>> => ServiceInv'
<1> SUFFICES ASSUME ServiceInv, [ServiceAndStoreNext]_<<storeVars, serviceVars>>
             PROVE  ServiceInv'
  OBVIOUS
<1>1. ASSUME NEW t \in Thread, BeginAny(t) \/ Work(t)
      PROVE  ServiceInv'
  BY <1>1, BeginKeeps, InspectKeeps, ChooseLockKeeps, AcquireKeeps, PeekKeeps,
     LoadKeeps, StoreKeeps, RespondKeeps DEF BeginAny, Work
<1>2. CASE Restart
  BY <1>2, RestartKeeps
<1>3. CASE StoreNext /\ UNCHANGED serviceVars
  BY <1>3, StoreStepKeeps
<1>4. CASE UNCHANGED <<storeVars, serviceVars>>
  BY <1>4, StoreStepKeeps
<1> QED BY <1>1, <1>2, <1>3, <1>4 DEF ServiceAndStoreNext, ServiceNext

LEMMA InitServiceInv == ServiceAndStoreInit => ServiceInv
<1> SUFFICES ASSUME ServiceAndStoreInit PROVE ServiceInv
  OBVIOUS
<1>1. StoreTypeOK /\ VersionsAreWhole /\ DamageShows
  BY StoreBegins DEF ServiceAndStoreInit, StoreInit, DamageShows
<1> QED BY <1>1, FreshService DEF ServiceAndStoreInit, Fresh

------------------------------------------------------------------------------
\* Theorems

\* Whatever requests, restarts, commands of operators and bytes that go bad
\* interleave, a thread that is past the choice of its lock refers to the one
\* that the table names for its version, and one thread holds it.
THEOREM ServiceInvariance == ServiceAndStoreSpec => []ServiceInv
BY InitServiceInv, NextServiceInv, PTL DEF ServiceAndStoreSpec

\* The service keeps its bounds, never serves a version whose bytes had gone
\* bad before the request began, and tells only whom it may (resolve,
\* load_version, authorized_payload).
THEOREM ServiceIsAlwaysSound == ServiceAndStoreSpec => []ServiceIsSound
<1>1. ServiceInv => ServiceIsSound
  <2> SUFFICES ASSUME ServiceInv PROVE RotIsNeverServed /\ AnswersAreOwed
    BY DEF ServiceIsSound, ServiceInv
  <2>1. RotIsNeverServed
    BY DEF RotIsNeverServed, ServiceInv, RequestIsSound
  <2>2. AnswersAreOwed
    BY DEF AnswersAreOwed, ServiceInv, RequestIsSound, Servable, VersionsAreWhole
  <2> QED BY <2>1, <2>2
<1> QED BY <1>1, ServiceInvariance, PTL

\* A model is deserialized by one thread at a time and never while it is in the
\* cache, whatever was evicted meanwhile (resolve, load_locks).
THEOREM ModelsAlwaysLoadOnce == ServiceAndStoreSpec => []ModelsLoadOnce
<1>1. ServiceInv => ModelsLoadOnce
  <2> SUFFICES ASSUME ServiceInv, NEW t \in Thread, NEW u \in Thread,
                      At(t, "loading"), ~request[t].cached
               PROVE  /\ request[t].version \notin Range(cache)
                      /\ At(u, "loading") /\ request[u].version = request[t].version
                           => u = t
    BY DEF ModelsLoadOnce
  <2>1. request[t].version \notin Range(cache)
    BY DEF ServiceInv, RequestIsSound, At
  <2>2. ASSUME At(u, "loading"), request[u].version = request[t].version
        PROVE  u = t
    <3>1. request[u].lock = request[t].lock
      BY <2>2 DEF ServiceInv, RequestIsSound, At, Locking, Holding
    <3> QED BY <2>2, <3>1 DEF ServiceInv, OneHolder, At, Holding
  <2> QED BY <2>1, <2>2
<1> QED BY <1>1, ServiceInvariance, PTL
=============================================================================

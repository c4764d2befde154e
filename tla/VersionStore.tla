---------------------------- MODULE VersionStore ----------------------------
(***************************************************************************)
(* What the registry of model versions (ml/model_registry.py) promises to  *)
(* its readers: a version is a directory named by the checksum of its      *)
(* manifest, so what it is - its source, its provenance, its evaluation -  *)
(* is constant; it appears complete or not at all, never changes and never *)
(* goes away; but its bytes may go bad (a disk error, or a power failure,  *)
(* as staging does not fsync), and the library that it was made with may   *)
(* be replaced.  ModelRegistry implements this with files and renames, and *)
(* InferenceService reads it.                                              *)
(*                                                                         *)
(* Abstracted: checksums (a file is intact or not) and field formats.      *)
(***************************************************************************)
EXTENDS Integers, FiniteSets

CONSTANTS
  Version,      \* the versions that anybody may try to stage
  Source,       \* data sources: project, connection, schema, table
  Library,      \* the versions of scikit-learn that may be installed
  Bundle,       \* what each version is: its manifest, and its defects
  Spoilable,    \* bound: how many files go bad
  None

File == {"artifact", "manifest"}
Target == {"event_recall", "false_positive_rate", "abrupt_median_delay_ticks"}

\* The checks on the way from a candidate to a version, by function.
SourceCheck == {"source fields"}
TrainingCheck == {"digests", "seed or parameters", "training time", "environment"}
PipelineCheck == {"unapproved types", "not scaler and forest",
                  "unfitted", "feature count", "other seed", "other parameters"}

\* The nightly job (train_candidates) does not ask whether its tree is clean.
OriginCheck == [local    |-> {},
                trained  |-> {"dirty tree", "too few rows"},
                nightly  |-> {"too few rows"},
                exported |-> {"other archive", "not in benchmark"}]

Defect == SourceCheck \cup TrainingCheck \cup PipelineCheck
            \cup UNION {OriginCheck[o] : o \in DOMAIN OriginCheck}
\* The split "missing" is a candidate without an evaluation.
Evaluation == [split: {"train", "test", "missing"}, fresh: BOOLEAN,
               met: SUBSET Target, overall: {Target, Target \ {"event_recall"}}]

\* None is the version of a pointer that was never written.
ASSUME BundleAssumption ==
  /\ Spoilable \in Nat
  /\ None \notin Version
  /\ \A v \in Version :
       /\ Bundle[v].source \in Source
       /\ Bundle[v].origin \in DOMAIN OriginCheck
       /\ Bundle[v].defects \subseteq Defect
       /\ Bundle[v].library \in Library     \* the one of its training
       /\ Bundle[v].current \in BOOLEAN      \* the feature schema of this code
       /\ Bundle[v].evaluation \in Evaluation
       /\ Bundle[v].origin \in {"trained", "nightly"} =>
            Bundle[v].evaluation.split = "missing"
       /\ ~Bundle[v].current => Bundle[v].defects = {}

VARIABLES
  published,    \* the directories registry/versions/<version>
  intact,       \* the files of each that hold the bytes they were written with
  damaged,      \* the versions whose bytes have gone bad (history)
  installed     \* the version of scikit-learn

storeVars == <<published, intact, damaged, installed>>

\* Quality admission: on a test file that is not the training file, and by
\* the numbers, never by a flag.
Admitted(v) ==
  LET e == Bundle[v].evaluation IN
  /\ e.split = "test"
  /\ e.fresh
  /\ e.met = Target
  /\ e.overall = Target

\* An earlier release, with another feature schema, may have left versions.
StoreInit ==
  /\ published = {v \in Version : ~Bundle[v].current}
  /\ intact = [v \in Version |-> IF v \in published THEN File ELSE {}]
  /\ damaged = {}
  /\ installed \in Library

------------------------------------------------------------------------------
\* Checks

Passes(v, checks) == Bundle[v].defects \cap checks = {}

\* A candidate that staging accepts, by the command that produces it, where
\* this library is installed.
ValidSource(v) == Passes(v, SourceCheck)
ValidTraining(v) == Passes(v, TrainingCheck)
LoadsPipeline(v, library) == Bundle[v].library = library /\ Passes(v, PipelineCheck)
Trainable(v) ==
  Bundle[v].origin \in {"trained", "nightly"} => Passes(v, OriginCheck[Bundle[v].origin])
Exportable(v) == Bundle[v].origin = "exported" => Passes(v, OriginCheck.exported)
Stageable(v, library) ==
  /\ ValidSource(v) /\ ValidTraining(v) /\ LoadsPipeline(v, library)
  /\ Trainable(v) /\ Exportable(v)

\* Whatever was installed when it was staged.
PassedStaging(v) == \E library \in Library : Stageable(v, library)

\* What reading the directory of a version finds.
Inspects(v, s) ==
  /\ v \in published
  /\ "manifest" \in intact[v]
  /\ Bundle[v].source = s
  /\ ValidTraining(v)

\* Everything but the deserialization.
Verifies(v, s, demo) ==
  /\ Inspects(v, s)
  /\ Bundle[v].current
  /\ demo \/ Admitted(v)
  /\ "artifact" \in intact[v]

Loads(v, s, demo) == Verifies(v, s, demo) /\ LoadsPipeline(v, installed)

------------------------------------------------------------------------------
\* Steps

Appear(v) ==
  /\ v \notin published
  /\ PassedStaging(v) /\ Bundle[v].current
  /\ published' = published \cup {v}
  /\ intact' = [intact EXCEPT ![v] = File]
  /\ UNCHANGED <<damaged, installed>>

Lost == {vf \in published \X File : vf[2] \notin intact[vf[1]]}

Spoil(v, f) ==
  /\ v \in published
  /\ f \in intact[v]
  /\ Cardinality(Lost) < Spoilable
  /\ intact' = [intact EXCEPT ![v] = @ \ {f}]
  /\ damaged' = damaged \cup {v}
  /\ UNCHANGED <<published, installed>>

\* Another release of the library is installed, or restored, under commands and
\* processes that run: what is compared is what the package says of itself.
Upgrade(library) ==
  /\ installed' = library
  /\ UNCHANGED <<published, intact, damaged>>

StoreNext ==
  \/ \E v \in Version : Appear(v)
  \/ \E v \in Version, f \in File : Spoil(v, f)
  \/ \E library \in Library : Upgrade(library)

StoreSpec == StoreInit /\ [][StoreNext]_storeVars

------------------------------------------------------------------------------
\* Properties

StoreTypeOK ==
  /\ published \subseteq Version
  /\ intact \in [Version -> SUBSET File]
  /\ damaged \subseteq Version
  /\ installed \in Library

\* A version under its final name is complete, unless its bytes went bad
\* later, and has passed every check of staging (stage_bytes).
VersionsAreWhole ==
  \A v \in published :
    (Bundle[v].current => PassedStaging(v)) /\ (v \in damaged \/ intact[v] = File)
=============================================================================

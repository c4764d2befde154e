--------------------------- MODULE ModelRegistry ---------------------------
(***************************************************************************)
(* The registry of model versions on disk (ml/model_registry.py), and the  *)
(* operators of scripts/model_versions.py and the nightly job              *)
(* (app/inference_adapter.py) that stage and activate them.                *)
(* Staging writes the files in a temporary directory and renames it; an    *)
(* active version is a pointer file, replaced by a rename.  Each write and *)
(* each rename is a step; a command may fail or die between any two.       *)
(*                                                                         *)
(* Abstracted: the fitting of a pipeline, leftover temporary directories.  *)
(***************************************************************************)
EXTENDS VersionStore

CONSTANT Operator   \* commands of model_versions.py and jobs under way at once

VARIABLES
  pointer,      \* the files active/<source> and demo-active/<source>
  command       \* the local state of each command

registryVars == <<storeVars, pointer, command>>

Mode == {"active", "demo-active"}

Admissible(v, s, m) == Bundle[v].source = s /\ (m = "active" => Admitted(v))

NoCommand == [pc |-> "idle", version |-> None, mode |-> "active", pending |-> {}]

\* An earlier release may have left pointers too.
RegistryInit ==
  /\ StoreInit
  /\ pointer \in [Source -> [Mode -> published \cup {None}]]
  /\ \A s \in Source, m \in Mode : pointer[s][m] # None => Admissible(pointer[s][m], s, m)
  /\ command = [o \in Operator |-> NoCommand]

Doing(o, pc) == command[o].pc = pc
Proceed(o, pc) == command' = [command EXCEPT ![o].pc = pc]
Finish(o) == command' = [command EXCEPT ![o] = NoCommand]

------------------------------------------------------------------------------
\* stage_bytes, by stage-local, train, stage-export and the nightly job

Stage(o, v) ==
  /\ Doing(o, "idle")
  /\ Stageable(v, installed) /\ Bundle[v].current
  /\ command' = [command EXCEPT ![o] =
       [NoCommand EXCEPT !.version = v,
                         !.pc = IF v \in published THEN "verifying" ELSE "writing"]]
  /\ UNCHANGED <<storeVars, pointer>>

\* Mutant: the files are written under the final name.
WriteFileInPlace(o, f) ==
  LET v == command[o].version IN
  /\ published' = published \cup {v}
  /\ intact' = [intact EXCEPT ![v] = @ \cup {f}]
  /\ IF f = "artifact" THEN Proceed(o, "describing") ELSE Finish(o)
  /\ UNCHANGED <<pointer, damaged, installed>>

WriteFile(o, f) ==
  /\ command' = [command EXCEPT ![o].pending = @ \cup {f},
                                ![o].pc = IF f = "artifact" THEN "describing"
                                                            ELSE "renaming"]
  /\ UNCHANGED <<storeVars, pointer>>

WriteArtifact(o) == Doing(o, "writing") /\ WriteFile(o, "artifact")
WriteManifest(o) == Doing(o, "describing") /\ WriteFile(o, "manifest")

\* The rename fails when somebody else has published the version meanwhile.
Publish(o) ==
  LET v == command[o].version IN
  /\ Doing(o, "renaming")
  /\ IF v \in published
       THEN Proceed(o, "verifying") /\ UNCHANGED <<published, intact>>
       ELSE /\ published' = published \cup {v}
            /\ intact' = [intact EXCEPT ![v] = command[o].pending]
            /\ Finish(o)
  /\ UNCHANGED <<pointer, damaged, installed>>

\* Re-importing a version loads the one that is there, as a demo; it repairs
\* nothing, and whether it loads or not only tells the operator.
Verify(o) ==
  /\ Doing(o, "verifying")
  /\ Finish(o)
  /\ UNCHANGED <<storeVars, pointer>>

------------------------------------------------------------------------------
\* activate

\* Mutant: activation looks for the directory only.
ActivateUnloaded(o, v, s, m) ==
  /\ Doing(o, "idle")
  /\ v \in published
  /\ Bundle[v].source = s
  /\ command' = [command EXCEPT ![o] =
       [NoCommand EXCEPT !.version = v, !.mode = m, !.pc = "pointing"]]
  /\ UNCHANGED <<storeVars, pointer>>

Activate(o, v, s, m) ==
  /\ Doing(o, "idle")
  /\ Loads(v, s, m = "demo-active")
  /\ command' = [command EXCEPT ![o] =
       [NoCommand EXCEPT !.version = v, !.mode = m, !.pc = "pointing"]]
  /\ UNCHANGED <<storeVars, pointer>>

\* The new pointer is written aside, flushed, and takes the old one's place.
WritePointer(o) ==
  /\ Doing(o, "pointing")
  /\ Proceed(o, "replacing")
  /\ UNCHANGED <<storeVars, pointer>>

ReplacePointer(o) ==
  LET v == command[o].version IN
  /\ Doing(o, "replacing")
  /\ pointer' = [pointer EXCEPT ![Bundle[v].source][command[o].mode] = v]
  /\ Finish(o)
  /\ UNCHANGED storeVars

\* load_active, of `inspect` and `predict` without --version.
ActiveLoads(s, m) == pointer[s][m] # None /\ Loads(pointer[s][m], s, m = "demo-active")

------------------------------------------------------------------------------
\* A command fails (a full disk) or dies.
Abort(o) ==
  /\ ~Doing(o, "idle")
  /\ Finish(o)
  /\ UNCHANGED <<storeVars, pointer>>

OperatorStep(o) ==
  \/ \E v \in Version : Stage(o, v)
  \/ \E v \in Version, s \in Source, m \in Mode : Activate(o, v, s, m)
  \/ WriteArtifact(o) \/ WriteManifest(o) \/ Publish(o) \/ Verify(o)
  \/ WritePointer(o) \/ ReplacePointer(o)
  \/ Abort(o)

RegistryNext ==
  \/ \E o \in Operator : OperatorStep(o)
  \/ \E v \in Version, f \in File : Spoil(v, f) /\ UNCHANGED <<pointer, command>>
  \/ \E library \in Library : Upgrade(library) /\ UNCHANGED <<pointer, command>>

RegistrySpec == RegistryInit /\ [][RegistryNext]_registryVars

------------------------------------------------------------------------------
\* Properties

RegistryTypeOK ==
  /\ StoreTypeOK
  /\ pointer \in [Source -> [Mode -> Version \cup {None}]]
  /\ command \in [Operator ->
       [pc: {"idle", "writing", "describing", "renaming", "verifying",
             "pointing", "replacing"},
        version: Version \cup {None}, mode: Mode, pending: SUBSET File]]

\* However commands race, fail and die, what a reader of the registry sees is
\* versions that appear complete and checked, and stay as they are but for
\* bytes that go bad (stage_bytes).
RegistryIsAStore == StoreSpec

\* An active pointer always names a published version of its own source,
\* which has been admitted unless the pointer is a demo's; and it loads, unless
\* its bytes have gone bad, a release has changed the feature schema, or another
\* scikit-learn is installed than it was trained with (activate, load_active).
PointersAreServable ==
  \A s \in Source, m \in Mode :
    LET v == pointer[s][m] IN
    v # None =>
      /\ v \in published /\ Admissible(v, s, m)
      /\ Bundle[v].current /\ v \notin damaged /\ Bundle[v].library = installed
         => ActiveLoads(s, m)

\* The registry keeps its types, and what it points at is fit for service.
RegistryIsSound == RegistryTypeOK /\ VersionsAreWhole /\ PointersAreServable
=============================================================================

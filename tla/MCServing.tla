----------------------------- MODULE MCServing -----------------------------
(***************************************************************************)
(* The registry and the inference service that reads it.  The service is   *)
(* checked over the abstract VersionStore and the registry is checked to   *)
(* implement it; each behaviour exercises one of the two, so that their    *)
(* states add up instead of multiplying.                                   *)
(***************************************************************************)
EXTENDS ModelRegistry, InferenceService, TLC

CONSTANTS s1, s2, v1, v2, v3, t1, t2, t3, older, newer

VARIABLE focus

vars == <<focus, registryVars, serviceVars>>

Good == [split |-> "test", fresh |-> TRUE, met |-> Target, overall |-> Target]

\* v1 is admitted, v2 is a candidate of the nightly job, without an evaluation
\* and from a tree with uncommitted changes, v3 is of an earlier release.
MCBundle == [v \in {v1, v2, v3} |->
  [source |-> IF v = v2 THEN s2 ELSE s1,
   origin |-> IF v = v2 THEN "nightly" ELSE "exported",
   library |-> IF v = v2 THEN newer ELSE older,
   defects |-> IF v = v2 THEN {"dirty tree"} ELSE {}, current |-> v # v3,
   evaluation |-> IF v = v2 THEN [Good EXCEPT !.split = "missing"] ELSE Good]]

MCInit == RegistryInit /\ ServiceInit /\ focus \in {"registry", "service"}

MCNext ==
  /\ UNCHANGED focus
  /\ \/ focus = "registry" /\ RegistryNext /\ UNCHANGED serviceVars
     \/ focus = "service" /\ ServiceAndStoreNext /\ UNCHANGED <<pointer, command>>

MCSpec == MCInit /\ [][MCNext]_vars

MCSymmetry == Permutations({t1, t2, t3})
=============================================================================

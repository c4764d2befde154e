---------------------------- MODULE MetricsStore ----------------------------
(***************************************************************************)
(* The metrics store: it comes up from a database of an earlier release,   *)
(* and an operator copies one to PostgreSQL.  The two share no state.      *)
(***************************************************************************)
EXTENDS StoreBootstrap, StoreTransfer

\* Whatever is interrupted, a store that is up, or copied, is complete.
StoresAreComplete == SchemaIsComplete /\ TransferIsComplete
=============================================================================

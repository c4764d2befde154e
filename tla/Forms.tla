------------------------------- MODULE Forms -------------------------------
(***************************************************************************)
(* The forms that keep rows of their own: accounts and connections.  They  *)
(* share no state.                                                         *)
(***************************************************************************)
EXTENDS PasswordReset, Login, ConnectionEditor

\* Accounts, addresses and connections keep their types.
FormsTypeOK == TypeOK /\ LoginTypeOK /\ EditorTypeOK
=============================================================================

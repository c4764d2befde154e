-------------------------- MODULE ConnectionEditor --------------------------
(***************************************************************************)
(* The settings of one stored connection: its creation, the editor of      *)
(* #256, the live probe (#52, #55), the operator's script and its          *)
(* deletion.  An edit reads the row once, decides by what it read, and     *)
(* writes in up to three transactions; between any two of its steps other  *)
(* requests may run.                                                       *)
(*                                                                         *)
(* Abstracted: a DSN is a model value with a dialect; of the settings only *)
(* those that depend on the dialect are kept; a probe is the DSN that it   *)
(* tried (what it found out about it says nothing here).                   *)
(***************************************************************************)
CONSTANTS
  Dsn,          \* the DSNs users type in
  Dialect,      \* the dialect of each
  NoDsn,        \* an empty field; no probe yet
  Forms,        \* the forms users submit, see Form
  Editor        \* HTTP worker threads

Mode == {"full", "sample"}      \* sample stands for sample and approx

\* What a POST carries besides the name and the schema.
Form == [dsn: Dsn \cup {NoDsn}, mode: Mode, limit: {"empty", "set", "bad"},
         metadataOnly: BOOLEAN, token: {"keep", "new", "clear"}]

ASSUME EditorAssumption ==
  /\ Dialect \in [Dsn -> {"postgres", "iceberg", "clickhouse"}]
  /\ NoDsn \notin Dsn
  /\ Forms \subseteq Form

VARIABLES
  row,          \* the connection's row
  edit,         \* the local state of each worker thread
  contended,    \* two requests have been at work at once (history)
  brokenOff     \* a request has been broken off (history)

editorVars == <<row, edit, contended, brokenOff>>

(***************************************************************************)
(* The row and the forms.                                                  *)
(***************************************************************************)
ConnectionRow == [state: {"none", "stored", "gone"},
        dsn: Dsn \cup {NoDsn},
        mode: Mode,             \* collection_mode
        limit: BOOLEAN,         \* skip_tables_larger_than_gb, statement_timeout
        metadataOnly: BOOLEAN,
        token: BOOLEAN,         \* an Iceberg token is stored
        probe: Dsn \cup {NoDsn}]\* the DSN of the stored probe result

EmptyForm == [dsn |-> NoDsn, mode |-> "full", limit |-> "empty",
              metadataOnly |-> FALSE, token |-> "keep"]

Unborn == [state |-> "none", dsn |-> NoDsn, mode |-> "full", limit |-> FALSE,
           metadataOnly |-> FALSE, token |-> FALSE, probe |-> NoDsn]

Edit == [pc: {"idle", "editing", "saving", "probing", "deleting"},
            form: Form,
            seen: Dsn \cup {NoDsn}]   \* the DSN read, or to be probed
NoEdit == [pc |-> "idle", form |-> EmptyForm, seen |-> NoDsn]

EditorInit ==
  /\ row = Unborn
  /\ edit = [h \in Editor |-> NoEdit]
  /\ contended = FALSE
  /\ brokenOff = FALSE

EditGoto(h, pc) == edit' = [edit EXCEPT ![h].pc = pc]
EditDone(h)  == edit' = [edit EXCEPT ![h] = NoEdit]
EditAt(h, pc)   == edit[h].pc = pc
NobodyEdits     == \A h \in Editor : EditAt(h, "idle")

\* Mutant: the update inserts the row if it is missing.
UpsertRow(new) ==
  row' = [new EXCEPT !.state = "stored",
                     !.dsn = IF @ = NoDsn THEN CHOOSE d \in Dsn : TRUE ELSE @]

\* UPDATE connections ... WHERE id = :id: nothing, if the row is gone
Update(new) == row' = IF row.state = "stored" THEN new ELSE row

(***************************************************************************)
(* Creation.  Iceberg fields are dropped unless the DSN is an Iceberg one. *)
(* The first connection of a project is probed at once.                    *)
(***************************************************************************)
Create(h, dsn, token, isFirst) ==
  /\ EditAt(h, "idle")
  /\ row.state = "none"
  /\ row' = [Unborn EXCEPT !.state = "stored", !.dsn = dsn,
               !.token = token /\ Dialect[dsn] = "iceberg"]
  /\ edit' = IF isFirst
                THEN [edit EXCEPT ![h].pc = "probing", ![h].seen = dsn]
                ELSE edit
  /\ contended' = (contended \/ ~NobodyEdits)
  /\ UNCHANGED brokenOff

(***************************************************************************)
(* The editor.  A POST reads the row, writes name, schema and DSN, then    *)
(* validates what depends on the dialect, then writes the settings, and    *)
(* probes a DSN that was changed.                                          *)
(***************************************************************************)
\* (A row whose DSN cannot be decrypted is refused: nothing happens.)
Open(h, pc, form) ==
  /\ EditAt(h, "idle")
  /\ row.state = "stored"
  /\ edit' = [edit EXCEPT ![h] =
                   [pc |-> pc, form |-> form, seen |-> row.dsn]]
  /\ contended' = (contended \/ ~NobodyEdits)
  /\ UNCHANGED <<row, brokenOff>>

\* Only an owner may change the DSN: an editor's is ignored.
OpenEditor(h, role, form) ==
  Open(h, "editing", IF role = "owner" THEN form
                     ELSE [form EXCEPT !.dsn = NoDsn])

NewDsn(h) == edit[h].form.dsn

\* Mutant: the dialect is the stored one, whatever DSN was typed in.
StoredDialect(h) == Dialect[edit[h].seen]

\* is_iceberg and is_postgres: of the new DSN, or of the row as it was read
EditDialect(h) ==
  Dialect[IF NewDsn(h) # NoDsn THEN NewDsn(h) ELSE edit[h].seen]

SaveBasics(h) ==
  /\ EditAt(h, "editing")
  /\ IF NewDsn(h) # NoDsn THEN Update([row EXCEPT !.dsn = NewDsn(h)])
                          ELSE UNCHANGED row
  /\ EditGoto(h, "saving")
  /\ UNCHANGED <<contended, brokenOff>>

Rejected(h) ==
  \/ edit[h].form.limit = "bad"
  \/ edit[h].form.mode # "full" /\ EditDialect(h) # "postgres"

\* The form is shown again, with its error.  The DSN has been saved.
Reject(h) ==
  /\ EditAt(h, "saving")
  /\ Rejected(h)
  /\ EditDone(h)
  /\ UNCHANGED <<row, contended, brokenOff>>

\* Mutant: a changed DSN is not probed.
NeverProbe(h) == EditDone(h)

ProbeIfChanged(h) ==
  IF NewDsn(h) # NoDsn
  THEN edit' = [edit EXCEPT ![h].pc = "probing", ![h].seen = NewDsn(h)]
  ELSE EditDone(h)

SaveSettings(h) ==
  LET form    == edit[h].form
      iceberg == EditDialect(h) = "iceberg"
  IN /\ EditAt(h, "saving")
     /\ ~Rejected(h)
     /\ Update([row EXCEPT
          !.mode = form.mode,
          !.limit = form.limit = "set",
          !.metadataOnly = IF iceberg THEN form.metadataOnly ELSE @,
          !.token = CASE iceberg /\ form.token = "new"   -> TRUE
                      [] iceberg /\ form.token = "clear" -> FALSE
                      [] OTHER -> @])
     /\ ProbeIfChanged(h)
     /\ UNCHANGED <<contended, brokenOff>>

(***************************************************************************)
(* The probe has answered; its result is stored with the row.  (The button *)
(* "test" starts at "probing", with the DSN of the row that was read.)     *)
(***************************************************************************)
PersistProbe(h) ==
  /\ EditAt(h, "probing")
  /\ Update([row EXCEPT !.probe = edit[h].seen])
  /\ EditDone(h)
  /\ UNCHANGED <<contended, brokenOff>>

Delete(h) ==
  /\ EditAt(h, "deleting")
  /\ row' = IF row.state = "stored" THEN [Unborn EXCEPT !.state = "gone"]
                                   ELSE row
  /\ EditDone(h)
  /\ UNCHANGED <<contended, brokenOff>>

\* A statement or the probe raises, or the process dies, between two of the
\* transactions: those that were committed stay.
BreakOff(h) ==
  /\ ~EditAt(h, "idle")
  /\ EditDone(h)
  /\ brokenOff' = TRUE
  /\ UNCHANGED <<row, contended>>

\* scripts/set_connection_safety.py: the dialect is not looked at.
OperatorPatch(limit) ==
  /\ row.state = "stored"
  /\ row' = [row EXCEPT !.limit = limit]
  /\ UNCHANGED <<edit, contended, brokenOff>>

Handle(h) ==
  \/ SaveBasics(h) \/ Reject(h) \/ SaveSettings(h) \/ PersistProbe(h)
  \/ Delete(h) \/ BreakOff(h)

EditorNext ==
  \/ \E h \in Editor : Handle(h)
  \/ \E h \in Editor, dsn \in Dsn, token \in BOOLEAN, isFirst \in BOOLEAN :
       Create(h, dsn, token, isFirst)
  \/ \E h \in Editor, role \in {"owner", "editor"}, form \in Forms :
       OpenEditor(h, role, form)
  \/ \E h \in Editor, pc \in {"probing", "deleting"} :
       Open(h, pc, EmptyForm)
  \/ \E limit \in BOOLEAN : OperatorPatch(limit)

EditorSpec == EditorInit /\ [][EditorNext]_editorVars

(***************************************************************************)
(* Properties.                                                             *)
(***************************************************************************)
\* Types; and a deleted connection leaves no secret and no result behind.
EditorTypeOK ==
  /\ row \in ConnectionRow
  /\ row.state = "stored" => row.dsn \in Dsn
  /\ row.state = "gone" => row = [Unborn EXCEPT !.state = "gone"]
  /\ edit \in [Editor -> Edit]

\* A deleted connection stays deleted: no edit, probe or script that was
\* under way brings it, or any of its secrets, back.
GoneStaysGone ==
  [][row.state = "gone" => row' = row]_row

\* As long as requests do not overlap, an edit that sets a token sets it on
\* an Iceberg connection, and one that sets sample or approx on a Postgres one.
SettingsFitDialect ==
  [][~contended =>
       /\ ~row.token /\ row'.token => Dialect[row'.dsn] = "iceberg"
       /\ row.mode = "full" /\ row'.mode # "full"
            => Dialect[row'.dsn] = "postgres"]_row

\* As long as requests neither overlap nor die, an edit of the DSN that is
\* saved in full leaves the new DSN's probe behind.
SavedDsnIsProbed ==
  [][\A h \in Editor :
       /\ ~EditAt(h, "idle") /\ ~Rejected(h) /\ NewDsn(h) # NoDsn
       /\ edit'[h].pc = "idle" /\ row.state = "stored"
       /\ ~contended /\ ~brokenOff'
       => row'.probe = row'.dsn]_editorVars

\* An edit leaves a row that fits its dialect and whose DSN was probed, and
\* never brings a deleted one back.
EditsAreSound == GoneStaysGone /\ SettingsFitDialect /\ SavedDsnIsProbed
=============================================================================

------------------------------ MODULE MCForms ------------------------------
(***************************************************************************)
(* What users do in forms: register and log in, reset a password, edit a   *)
(* connection and test it; and the key that encrypts what they type in.    *)
(* Each behaviour exercises one of them, so that their states add up       *)
(* instead of multiplying.                                                 *)
(***************************************************************************)
EXTENDS Forms, ConnectionProbe, FernetKey, TLC

CONSTANTS u1, u2, nobody, pg, ice, none, c1, c2, c3, server, script

VARIABLE focus

formVars == <<focus, vars, loginVars, editorVars, probeVars, keyVars>>

SomeDialects == [d \in {pg, ice} |-> IF d = pg THEN "postgres" ELSE "iceberg"]

\* The fields beside the DSN are independent of each other: at most one of
\* them is filled in.
SomeForms ==
  {f \in Form :
     Cardinality({i \in 1 .. 4 : <<f.mode # "full", f.limit # "empty",
                                   f.token # "keep", f.metadataOnly>>[i]}) <= 1}

\* Two threads of the server, and a script.
MCProgramOf == [t \in {c1, c2, c3} |-> IF t = c3 THEN script ELSE server]

MCBackends == {"postgres", "clickhouse", "iceberg", "mysql"}

\* A row as it is created, and one with each of the Iceberg fields, or all; an
\* allowlist has the namespace or leaves it out.
Row1(schema, namespace, warehouse, bearer) ==
  [schema |-> schema, namespace |-> namespace, warehouse |-> warehouse,
   token |-> bearer, allowlist |-> {}]
Listing(r, namespaces) == [r EXCEPT !.allowlist = namespaces]
MCRows ==
  {Row1("public", None, None, None), Row1("lake", None, None, None),
   Row1("public", "lake", None, None), Row1("public", None, "w2", None),
   Row1("public", None, None, "k2"), Row1("public", "lake", "w2", "k2"),
   Listing(Row1("public", None, None, None), {"lake"}),
   Listing(Row1("public", "lake", None, None), {"public"}),
   Listing(Row1("public", "lake", "w2", "k2"), {"public", "lake"})}

\* The state of a component that the behaviour does not exercise is fixed.
ProbeRests ==
  /\ backend = "mysql" /\ stored = Row1("public", None, None, None)
KeyRests ==
  /\ ~production /\ writable /\ dotEnv = None /\ dotEnvLocal = <<>>

FormsInit ==
  /\ Init /\ LoginInit /\ EditorInit /\ ProbeInit /\ KeyInit
  /\ focus \in {"reset", "login", "editor", "probe", "key"}
  /\ focus # "probe" => ProbeRests
  /\ focus # "key" => KeyRests

Accounts == <<vars, loginVars>>
Connections == <<editorVars, probeVars>>

FormsNext ==
  /\ UNCHANGED focus
  /\ \/ /\ focus = "reset" /\ Next
        /\ UNCHANGED <<loginVars, Connections, keyVars>>
     \/ /\ focus = "login" /\ LoginNext
        /\ UNCHANGED <<vars, Connections, keyVars>>
     \/ /\ focus = "editor" /\ EditorNext
        /\ UNCHANGED <<Accounts, probeVars, keyVars>>
     \/ /\ focus = "probe" /\ ProbeNext
        /\ UNCHANGED <<Accounts, editorVars, keyVars>>
     \/ /\ focus = "key" /\ KeyNext
        /\ UNCHANGED <<Accounts, Connections>>

FormsSpec == FormsInit /\ [][FormsNext]_formVars

FormsSymmetry ==
  UNION {Permutations(Handler), Permutations(Email), Permutations(Thread), Permutations(Editor)}
=============================================================================

--------------------------- MODULE MCProjectAccess ---------------------------
(***************************************************************************)
(* Small instances of projects, members and invitations, and of a          *)
(* browser's current project.  A behaviour exercises either two handlers   *)
(* at once, or the browser's tabs and one handler at a time, without       *)
(* invitations.                                                            *)
(***************************************************************************)
EXTENDS Sessions, TLC, Naturals, FiniteSets

CONSTANTS u1, u2, u3, p1, p2

VARIABLE focus

\* Both projects are of one user, under one slug.
OneOwnerOf == [p \in Project |-> u1]
OneSlug == [p \in Project |-> "retail"]
ToFirst == [i \in Invite |-> p1]
Editor == [i \in Invite |-> "editor"]

\* The idle request names a user that the symmetry leaves alone.
ASSUME IdleIsFixed == Idle.user = u1

AccessInit == Init /\ SessionInit /\ focus \in {"access", "sessions"}

AccessNext ==
  /\ UNCHANGED focus
  /\ \/ focus = "access" /\ Next /\ UNCHANGED sessionVars
     \/ /\ focus = "sessions" /\ SessionNext
        /\ Cardinality({h \in Handler : request'[h].pc # "idle"}) <= 1
        /\ \A h \in Handler :
             /\ request'[h].op \in {"create", "add", "remove", "delete"}
             /\ request'[h].role = Idle.role

AccessSpec == AccessInit /\ [][AccessNext]_<<focus, vars, sessionVars>>

Symmetry == Permutations(Handler) \cup Permutations({u2, u3})
=============================================================================

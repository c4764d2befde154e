---------------------------- MODULE ProjectAccess ----------------------------
(***************************************************************************)
(* Projects, their members and their invitations (#50, #172, #221, #222):  *)
(* the handlers of app/projects.py, and scripts/add_project_member.py, over *)
(* the tables projects, project_members and project_invites.  A handler    *)
(* resolves a slug, checks a role, reads the role it is about to change    *)
(* and writes in separate transactions, between which others run.          *)
(*                                                                         *)
(* Abstracted: ids and tokens are random, so each is labelled with what it *)
(* will be created for; names, sessions and what the pages show.           *)
(***************************************************************************)
CONSTANTS
  User,         \* registered users
  Project,      \* project ids
  OwnerOf,      \* the user who creates each project
  SlugOf,       \* the slug each is created with; it never changes
  Invite,       \* invitation tokens
  InviteTo,     \* the project each is for
  InviteRole,   \* the role each gives
  Handler       \* HTTP worker threads

Granted == {"editor", "viewer"}
Role == Granted \cup {"owner", "none"}

ASSUME ConstantsAssumption ==
  /\ User # {} /\ Project # {} /\ Invite # {}
  /\ OwnerOf \in [Project -> User]
  /\ DOMAIN SlugOf = Project
  /\ InviteTo \in [Invite -> Project]
  /\ InviteRole \in [Invite -> Granted]

VARIABLES
  project,      \* table projects: the state of each row
  member,       \* table project_members: the role of each user
  invite,       \* table project_invites: the state of each row
  request,      \* the local state of each worker thread
  admitted,     \* whom each invitation has made a member (history)
  burnt         \* what a request had claimed when it died (history)

store == <<project, member, invite>>
history == <<admitted, burnt>>
vars == <<store, request, history>>

OwnerOp == {"add", "remove", "invite", "delete"}
PC == {"idle", "inserting", "checking", "reading", "upserting", "guarding",
       "removing", "minting", "deleting", "joining", "claiming"}
Request == [pc: PC, op: OwnerOp \cup {"create", "join", "script"},
            user: User, project: Project, target: User, role: Granted,
            invite: Invite]

Idle == [pc |-> "idle", op |-> "create", user |-> CHOOSE u \in User : TRUE,
         project |-> CHOOSE p \in Project : TRUE,
         target |-> CHOOSE u \in User : TRUE, role |-> "viewer",
         invite |-> CHOOSE i \in Invite : TRUE]

Init ==
  /\ project = [p \in Project |-> "unborn"]
  /\ member = [p \in Project |-> [u \in User |-> "none"]]
  /\ invite = [i \in Invite |-> "free"]
  /\ request = [h \in Handler |-> Idle]
  /\ admitted = {}
  /\ burnt = {}

At(h, pc)   == request[h].pc = pc
Goto(h, pc) == request' = [request EXCEPT ![h].pc = pc]
Respond(h)  == request' = [request EXCEPT ![h] = Idle]
Live(p)     == project[p] = "live"

\* The rows of h's request.
P(h) == request[h].project
V(h) == request[h].target

\* A thread without a request accepts one.
Begin(h, r) ==
  /\ At(h, "idle")
  /\ request' = [request EXCEPT ![h] = r]
  /\ UNCHANGED <<store, history>>

\* get_project_by_slug: the user's own project of that slug or, without one,
\* any that is shared with the user.
Found(u, slug) ==
  LET live   == {p \in Project : Live(p) /\ SlugOf[p] = slug}
      owned  == {p \in live : OwnerOf[p] = u}
      shared == {p \in live : member[p][u] # "none"}
  IN IF owned # {} THEN owned ELSE shared

(***************************************************************************)
(* new_project: a look-up, then the row and its owner in one transaction;  *)
(* UNIQUE (user_id, slug) refuses the loser of a race.                     *)
(***************************************************************************)
Create(h, p) ==
  /\ project[p] = "unborn"
  /\ \A g \in Handler : ~(At(g, "inserting") /\ P(g) = p)
  /\ Found(OwnerOf[p], SlugOf[p]) = {}
  /\ Begin(h, [Idle EXCEPT !.pc = "inserting", !.user = OwnerOf[p],
                           !.project = p])

\* Mutant: the look-up is trusted.
UniqueTrusted(p) == TRUE

Unique(p) ==
  ~\E q \in Project : /\ Live(q)
                      /\ OwnerOf[q] = OwnerOf[p]
                      /\ SlugOf[q] = SlugOf[p]

Insert(h) ==
  /\ At(h, "inserting")
  /\ IF Unique(P(h))
     THEN /\ project' = [project EXCEPT ![P(h)] = "live"]
          /\ member' = [member EXCEPT ![P(h)][OwnerOf[P(h)]] = "owner"]
     ELSE UNCHANGED <<project, member>>
  /\ Respond(h)
  /\ UNCHANGED <<invite, history>>

(***************************************************************************)
(* What an owner does: _require_role resolves the slug, then reads the     *)
(* role of the user in the project found.                                  *)
(***************************************************************************)
Resolve(h, op, u, p, v, role) ==
  /\ p \in Found(u, SlugOf[p])
  /\ op \in {"add", "remove"} <=> v # u   \* the others have no target
  /\ op = "add" \/ role = Idle.role
  /\ Begin(h, [Idle EXCEPT !.pc = "checking", !.op = op, !.user = u,
                           !.project = p, !.target = v, !.role = role])

\* Mutant: editors manage members, too.
MayManageEditors(role) == role \in {"owner", "editor"}

MayManage(role) == role = "owner"

CheckRole(h) ==
  /\ At(h, "checking")
  /\ IF MayManage(member[P(h)][request[h].user])
     THEN Goto(h, CASE request[h].op = "add"    -> "reading"
                    [] request[h].op = "remove" -> "guarding"
                    [] request[h].op = "invite" -> "minting"
                    [] request[h].op = "delete" -> "deleting")
     ELSE Respond(h)
  /\ UNCHANGED <<store, history>>

\* scripts/add_project_member.py: the operator names an owner and a slug.
Script(h, u, p, v, role) ==
  /\ p \in Found(u, SlugOf[p])
  /\ Begin(h, [Idle EXCEPT !.pc = "reading", !.op = "script",
                           !.project = p, !.target = v, !.role = role])

(***************************************************************************)
(* add_project_member: the present role is read, then the row is upserted; *)
(* its foreign key refuses a project that is gone.                         *)
(***************************************************************************)
\* Mutant: an owner can be made an editor.
NobodyProtected(p, v) == FALSE

Protected(p, v) == member[p][v] = "owner"

ReadRole(h) ==
  /\ At(h, "reading")
  /\ IF Protected(P(h), V(h)) THEN Respond(h) ELSE Goto(h, "upserting")
  /\ UNCHANGED <<store, history>>

\* Mutant: foreign keys are not enforced.
UpsertAnyway(h) ==
  /\ At(h, "upserting")
  /\ member' = [member EXCEPT ![P(h)][V(h)] = request[h].role]
  /\ admitted' = IF request[h].op = "join"
                 THEN admitted \cup {<<request[h].invite, V(h)>>}
                 ELSE admitted
  /\ Respond(h)
  /\ UNCHANGED <<project, invite, burnt>>

Upsert(h) ==
  /\ At(h, "upserting")
  /\ Live(P(h))
  /\ member' = [member EXCEPT ![P(h)][V(h)] = request[h].role]
  /\ admitted' = IF request[h].op = "join"
                 THEN admitted \cup {<<request[h].invite, V(h)>>}
                 ELSE admitted
  /\ Respond(h)
  /\ UNCHANGED <<project, invite, burnt>>

\* A row of a project that is gone is refused: a 500.
RefuseOrphan(h) ==
  /\ \/ At(h, "upserting")
     \/ At(h, "minting")
  /\ ~Live(P(h))
  /\ Respond(h)
  /\ UNCHANGED <<store, history>>

(***************************************************************************)
(* remove_project_member.                                                  *)
(***************************************************************************)
GuardOwner(h) ==
  /\ At(h, "guarding")
  /\ IF Protected(P(h), V(h)) THEN Respond(h) ELSE Goto(h, "removing")
  /\ UNCHANGED <<store, history>>

Remove(h) ==
  /\ At(h, "removing")
  /\ member' = [member EXCEPT ![P(h)][V(h)] = "none"]
  /\ Respond(h)
  /\ UNCHANGED <<project, invite, history>>

(***************************************************************************)
(* delete_project.  Members and invitations go with their project.         *)
(***************************************************************************)
Delete(h) ==
  LET p == P(h)
  IN /\ At(h, "deleting")
     /\ IF Live(p) /\ OwnerOf[p] = request[h].user
        THEN /\ project' = [project EXCEPT ![p] = "gone"]
             /\ member' = [member EXCEPT ![p] = [u \in User |-> "none"]]
             /\ invite' = [i \in Invite |->
                             IF InviteTo[i] = p /\ invite[i] # "free"
                             THEN "gone" ELSE invite[i]]
        ELSE UNCHANGED store
     /\ Respond(h)
     /\ UNCHANGED history

(***************************************************************************)
(* Invitations.                                                            *)
(***************************************************************************)
Mint(h, i) ==
  /\ At(h, "minting")
  /\ Live(P(h))
  /\ invite[i] = "free" /\ InviteTo[i] = P(h)
  /\ invite' = [invite EXCEPT ![i] = "open"]
  /\ Respond(h)
  /\ UNCHANGED <<project, member, history>>

Expire(i) ==
  /\ invite[i] = "open"
  /\ invite' = [invite EXCEPT ![i] = "expired"]
  /\ UNCHANGED <<project, member, request, history>>

\* accept_invite: a link that is unknown, used or expired changes nothing.
Click(h, u, i) ==
  /\ invite[i] = "open"
  /\ Begin(h, [Idle EXCEPT !.pc = "joining", !.op = "join", !.user = u,
                           !.project = InviteTo[i], !.target = u,
                           !.role = InviteRole[i], !.invite = i])

\* Mutant: members are not told from others.
CheckNobody(h) ==
  /\ At(h, "joining")
  /\ Goto(h, "claiming")
  /\ UNCHANGED <<store, history>>

\* "Already a member?  Don't burn the token."
CheckMember(h) ==
  /\ At(h, "joining")
  /\ IF member[P(h)][V(h)] # "none" THEN Respond(h) ELSE Goto(h, "claiming")
  /\ UNCHANGED <<store, history>>

\* Mutant: the UPDATE asks only whether the token is there.
ClaimAgain(h) ==
  LET i == request[h].invite
  IN /\ At(h, "claiming")
     /\ IF invite[i] \in {"open", "used"}
        THEN invite' = [invite EXCEPT ![i] = "used"] /\ Goto(h, "reading")
        ELSE Respond(h) /\ UNCHANGED invite
     /\ UNCHANGED <<project, member, history>>

\* consume_invite: the conditional UPDATE; add_project_member follows in
\* transactions of its own.
Claim(h) ==
  LET i == request[h].invite
  IN /\ At(h, "claiming")
     /\ IF invite[i] = "open"
        THEN invite' = [invite EXCEPT ![i] = "used"] /\ Goto(h, "reading")
        ELSE Respond(h) /\ UNCHANGED invite
     /\ UNCHANGED <<project, member, history>>

\* The store fails: the request ends with a 500, what it wrote stays.
Die(h) ==
  /\ ~At(h, "idle")
  /\ Respond(h)
  /\ burnt' = IF request[h].op = "join" /\ (At(h, "reading") \/ At(h, "upserting"))
              THEN burnt \cup {request[h].invite} ELSE burnt
  /\ UNCHANGED <<store, admitted>>

Handle(h) ==
  \/ Insert(h) \/ CheckRole(h) \/ ReadRole(h) \/ Upsert(h) \/ RefuseOrphan(h)
  \/ GuardOwner(h) \/ Remove(h) \/ Delete(h)
  \/ \E i \in Invite : Mint(h, i)
  \/ CheckMember(h) \/ Claim(h)
  \/ Die(h)

Next ==
  \/ \E h \in Handler : Handle(h)
  \/ \E h \in Handler, p \in Project : Create(h, p)
  \/ \E h \in Handler, u, v \in User, p \in Project, role \in Granted :
       \/ \E op \in OwnerOp : Resolve(h, op, u, p, v, role)
       \/ Script(h, u, p, v, role)
  \/ \E h \in Handler, u \in User, i \in Invite : Click(h, u, i)
  \/ \E i \in Invite : Expire(i)

Spec == Init /\ [][Next]_vars

(***************************************************************************)
(* Properties.                                                             *)
(***************************************************************************)
\* Types; and what a deleted project had is deleted, for good: no member or
\* invitation that was under way is stored after it (the foreign keys).
TypeOK ==
  /\ project \in [Project -> {"unborn", "live", "gone"}]
  /\ member \in [Project -> [User -> Role]]
  /\ invite \in [Invite -> {"free", "open", "used", "expired", "gone"}]
  /\ request \in [Handler -> Request]
  /\ admitted \subseteq Invite \X User
  /\ burnt \subseteq Invite
  /\ \A p \in Project : ~Live(p) =>
       /\ \A u \in User : member[p][u] = "none"
       /\ \A i \in Invite : InviteTo[i] = p => invite[i] \in {"free", "gone"}

Settled == \A h \in Handler : At(h, "idle")

\* A project has one owner, who created it, as long as it exists: no
\* addition, removal, invitation or script degrades the owner or makes
\* another (add_project_member, remove_project_member).
OneOwner ==
  \A p \in Project : Live(p) =>
    {u \in User : member[p][u] = "owner"} = {OwnerOf[p]}

\* The role is checked in one transaction and used in later ones, yet who
\* manages a project that still exists is its owner then, too.
AuthorityHolds ==
  \A h \in Handler :
    /\ request[h].op \in OwnerOp /\ ~At(h, "idle") /\ ~At(h, "checking")
    /\ Live(P(h))
    => member[P(h)][request[h].user] = "owner"

\* However creations race, an owner's slug leads to that project.
OwnersReachTheirs ==
  \A p \in Project : Live(p) => Found(OwnerOf[p], SlugOf[p]) = {p}

\* However many accept it at once, an invitation admits one user.
InviteAdmitsOne ==
  \A a, b \in admitted : a[1] = b[1] => a[2] = b[2]

\* Between requests, an invitation that was used has made somebody a member,
\* unless the request that claimed it died: no click of a member, no change
\* of roles and no deletion burns it.
UsedInviteAdmits ==
  Settled => \A i \in Invite :
    invite[i] = "used" => i \in burnt \/ \E u \in User : <<i, u>> \in admitted

\* Projects, their members and what may be done to them stay consistent.
ProjectsAreSound == TypeOK /\ OneOwner /\ AuthorityHolds /\ OwnersReachTheirs

\* An invitation admits exactly one user, by the time it is used.
InvitesAdmit == InviteAdmitsOne /\ UsedInviteAdmits
=============================================================================

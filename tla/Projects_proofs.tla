-------------------------- MODULE Projects_proofs --------------------------
(***************************************************************************)
(* Theorems about ProjectAccess and Sessions, for every set of users,      *)
(* projects, invitations, tabs and worker threads.                         *)
(***************************************************************************)
EXTENDS ProjectAccess, Sessions, TLAPS

USE DEF At, Goto, Respond, Live, P, V, store, history

(***************************************************************************)
(* The inductive invariant.  A request fits the project it is about: that  *)
(* project exists or has existed, an owner's request that has passed the   *)
(* check is its owner's, and nobody is about to overwrite or remove its    *)
(* owner.                                                                  *)
(***************************************************************************)
Acting(h) ==
  request[h].op \in OwnerOp /\ ~At(h, "idle") /\ ~At(h, "checking")

\* A request that has found out that its target is not the owner.
Aimed(h) ==
  \/ At(h, "upserting") \/ At(h, "removing") \/ At(h, "claiming")
  \/ At(h, "reading") /\ request[h].op = "join"

Fit(h) ==
  /\ At(h, "idle") => request[h].op = "create"
  /\ At(h, "checking") => request[h].op \in OwnerOp
  /\ At(h, "joining") \/ At(h, "claiming") => request[h].op = "join"
  /\ At(h, "inserting") => request[h].op = "create" /\ project[P(h)] = "unborn"
  /\ ~At(h, "idle") /\ ~At(h, "inserting") => project[P(h)] # "unborn"
  /\ request[h].op = "join" => P(h) = InviteTo[request[h].invite]
  /\ Acting(h) => request[h].user = OwnerOf[P(h)]
  /\ Aimed(h) /\ Live(P(h)) => V(h) # OwnerOf[P(h)]

InsertersDiffer ==
  \A g, h \in Handler :
    At(g, "inserting") /\ At(h, "inserting") /\ P(g) = P(h) => g = h

OwnerKnown ==
  \A p \in Project : Live(p) =>
    \A u \in User : member[p][u] = "owner" <=> u = OwnerOf[p]

AInv == TypeOK /\ OwnerKnown /\ InsertersDiffer /\ \A h \in Handler : Fit(h)

(***************************************************************************)
(* Types.                                                                  *)
(***************************************************************************)
LEMMA IdleType ==
  /\ Idle \in Request
  /\ Idle.pc = "idle" /\ Idle.op = "create" /\ Idle.role = "viewer"
  BY ConstantsAssumption DEF Idle, Request, PC, Granted

LEMMA InitInv == Init => AInv
<1> SUFFICES ASSUME Init PROVE AInv
  OBVIOUS
<1>1. request \in [Handler -> Request] /\ \A h \in Handler : request[h] = Idle
  BY IdleType DEF Init
<1>2. TypeOK
  BY <1>1, ConstantsAssumption DEF Init, TypeOK, Role
<1>3. \A h \in Handler : Fit(h)
  BY <1>1, IdleType DEF Fit, Acting, Aimed, OwnerOp
<1> QED
  BY <1>1, <1>2, <1>3, IdleType DEF Init, AInv, OwnerKnown, InsertersDiffer

LEMMA RequestType ==
  ASSUME TypeOK, NEW h \in Handler
  PROVE  /\ request[h] \in Request
         /\ P(h) \in Project /\ V(h) \in User
         /\ request[h].user \in User /\ request[h].role \in Granted
         /\ request[h].invite \in Invite
<1>1. request[h] \in Request
  BY DEF TypeOK
<1> QED
  BY <1>1 DEF Request

LEMMA RespondType ==
  ASSUME TypeOK, NEW h \in Handler, Respond(h)
  PROVE  /\ request' \in [Handler -> Request]
         /\ request'[h] = Idle
         /\ \A g \in Handler : g # h => request'[g] = request[g]
  BY IdleType DEF TypeOK

LEMMA GotoType ==
  ASSUME TypeOK, NEW h \in Handler, NEW pc \in PC, Goto(h, pc)
  PROVE  /\ request' \in [Handler -> Request]
         /\ request'[h] = [request[h] EXCEPT !.pc = pc]
         /\ \A g \in Handler : g # h => request'[g] = request[g]
<1>1. [request[h] EXCEPT !.pc = pc] \in Request
  BY RequestType DEF Request
<1> QED
  BY <1>1 DEF TypeOK

(***************************************************************************)
(* The other requests.                                                     *)
(***************************************************************************)
ProjectStep(h) ==
  \A p \in Project :
    \/ project'[p] = project[p]
    \/ project[p] = "live" /\ project'[p] = "gone"
    \/ /\ At(h, "inserting") /\ P(h) = p
       /\ project[p] = "unborn" /\ project'[p] = "live"

LEMMA FitFrame ==
  ASSUME AInv, NEW h \in Handler, NEW g \in Handler, g # h,
         request'[g] = request[g], ProjectStep(h)
  PROVE  Fit(g)'
<1>1. P(g) \in Project /\ Fit(g)
  BY RequestType DEF AInv
<1>2. At(g, "inserting") => ~(At(h, "inserting") /\ P(h) = P(g))
  BY DEF AInv, InsertersDiffer
<1>3. /\ Live(P(g))' => Live(P(g)) \/ project[P(g)] = "unborn"
      /\ project[P(g)] # "unborn" => project'[P(g)] # "unborn"
      /\ At(g, "inserting") => project'[P(g)] = project[P(g)]
      /\ project[P(g)] # "unborn" /\ project'[P(g)] = "live" => Live(P(g))
  BY <1>1, <1>2 DEF ProjectStep, Fit
<1> QED
  BY <1>1, <1>3 DEF Fit, Acting, Aimed

\* What a step of h must show.
LEMMA StepInv ==
  ASSUME AInv, NEW h \in Handler, TypeOK', OwnerKnown', Fit(h)',
         \A g \in Handler : g # h => request'[g] = request[g],
         ProjectStep(h), request'[h].pc # "inserting"
  PROVE  AInv'
<1>1. \A g \in Handler : Fit(g)'
  BY FitFrame
<1>2. InsertersDiffer'
  BY DEF AInv, InsertersDiffer
<1> QED
  BY <1>1, <1>2 DEF AInv

\* A step that responds, and changes no project and no member.
LEMMA QuietRespond ==
  ASSUME AInv, NEW h \in Handler, Respond(h), UNCHANGED <<project, member>>,
         invite' \in [Invite -> {"free", "open", "used", "expired", "gone"}],
         \A i \in Invite : ~Live(InviteTo[i]) => invite'[i] \in {"free", "gone"},
         admitted' \subseteq Invite \X User,
         burnt' \subseteq Invite
  PROVE  AInv'
<1>1. TypeOK /\ OwnerKnown
  BY DEF AInv
<1>2. /\ request' \in [Handler -> Request]
      /\ request'[h] = Idle
      /\ \A g \in Handler : g # h => request'[g] = request[g]
  BY <1>1, RespondType
<1>3. TypeOK'
  BY <1>1, <1>2 DEF TypeOK
<1>4. Fit(h)'
  BY <1>2, IdleType DEF Fit, Acting, Aimed, OwnerOp
<1>5. OwnerKnown' /\ ProjectStep(h)
  BY <1>1 DEF OwnerKnown, ProjectStep
<1> QED
  BY <1>2, <1>3, <1>4, <1>5, IdleType, StepInv

\* A step that goes on, and changes no project and no member.
LEMMA QuietGoto ==
  ASSUME AInv, NEW h \in Handler, NEW pc \in PC \ {"inserting", "idle"},
         Goto(h, pc), UNCHANGED <<project, member, history>>,
         invite' \in [Invite -> {"free", "open", "used", "expired", "gone"}],
         \A i \in Invite : ~Live(InviteTo[i]) => invite'[i] \in {"free", "gone"},
         Fit(h)'
  PROVE  AInv'
<1>1. TypeOK /\ OwnerKnown
  BY DEF AInv
<1>2. /\ request' \in [Handler -> Request]
      /\ request'[h].pc = pc
      /\ \A g \in Handler : g # h => request'[g] = request[g]
  <2>1. /\ request' \in [Handler -> Request]
        /\ request'[h] = [request[h] EXCEPT !.pc = pc]
        /\ \A g \in Handler : g # h => request'[g] = request[g]
    BY <1>1, GotoType
  <2> QED BY <1>1, <2>1, RequestType DEF Request
<1>3. TypeOK'
  BY <1>1, <1>2 DEF TypeOK
<1>4. OwnerKnown' /\ ProjectStep(h)
  BY <1>1 DEF OwnerKnown, ProjectStep
<1> QED
  BY <1>2, <1>3, <1>4, StepInv

(***************************************************************************)
(* A thread accepts a request.                                             *)
(***************************************************************************)
LEMMA BeginInv ==
  ASSUME AInv, NEW h \in Handler, NEW r \in Request, Begin(h, r), Fit(h)',
         r.pc = "inserting" =>
           \A g \in Handler : ~(At(g, "inserting") /\ P(g) = r.project)
  PROVE  AInv'
<1>1. TypeOK /\ OwnerKnown /\ InsertersDiffer
  BY DEF AInv
<1>2. /\ request' \in [Handler -> Request]
      /\ request'[h] = r
      /\ \A g \in Handler : g # h => request'[g] = request[g]
      /\ UNCHANGED <<project, member, invite, admitted, burnt>>
  BY <1>1 DEF Begin, TypeOK
<1>3. TypeOK'
  BY <1>1, <1>2 DEF TypeOK
<1>4. OwnerKnown' /\ ProjectStep(h)
  BY <1>1, <1>2 DEF OwnerKnown, ProjectStep
<1>5. \A g \in Handler : Fit(g)'
  BY <1>2, <1>4, FitFrame
<1>6. InsertersDiffer'
  BY <1>1, <1>2 DEF InsertersDiffer
<1> QED
  BY <1>3, <1>4, <1>5, <1>6 DEF AInv

LEMMA FoundLives ==
  ASSUME TypeOK, NEW u \in User, NEW slug, NEW p \in Found(u, slug)
  PROVE  p \in Project /\ Live(p)
  BY DEF Found

LEMMA CreateInv ==
  ASSUME AInv, NEW h \in Handler, NEW p \in Project, Create(h, p)
  PROVE  AInv'
<1> DEFINE r == [Idle EXCEPT !.pc = "inserting", !.user = OwnerOf[p],
                             !.project = p]
<1>1. /\ r \in Request
      /\ r.pc = "inserting" /\ r.op = "create" /\ r.project = p
  BY IdleType, ConstantsAssumption DEF Request, PC
<1>2. Begin(h, r) /\ project' = project /\ project[p] = "unborn"
  BY DEF Create, Begin
<1>3. request'[h] = r
  BY <1>2 DEF Begin, AInv, TypeOK
<1>4. Fit(h)'
  BY <1>1, <1>2, <1>3 DEF Fit, Acting, Aimed, OwnerOp
<1>5. \A g \in Handler : ~(At(g, "inserting") /\ P(g) = r.project)
  BY <1>1 DEF Create
<1> HIDE DEF r
<1> QED
  BY <1>1, <1>2, <1>4, <1>5, BeginInv

LEMMA ResolveInv ==
  ASSUME AInv, NEW h \in Handler, NEW op \in OwnerOp, NEW u \in User,
         NEW v \in User, NEW p \in Project, NEW role \in Granted,
         Resolve(h, op, u, p, v, role)
  PROVE  AInv'
<1> DEFINE r == [Idle EXCEPT !.pc = "checking", !.op = op, !.user = u,
                             !.project = p, !.target = v, !.role = role]
<1>1. /\ r \in Request
      /\ r.pc = "checking" /\ r.op = op /\ r.project = p
  BY IdleType DEF Request, PC
<1>2. Begin(h, r) /\ project' = project /\ Live(p)
  BY FoundLives DEF Resolve, Begin, AInv
<1>3. request'[h] = r
  BY <1>2 DEF Begin, AInv, TypeOK
<1>4. Fit(h)'
  BY <1>1, <1>2, <1>3 DEF Fit, Acting, Aimed, OwnerOp
<1> HIDE DEF r
<1> QED
  BY <1>1, <1>2, <1>4, BeginInv

LEMMA ScriptInv ==
  ASSUME AInv, NEW h \in Handler, NEW u \in User, NEW v \in User,
         NEW p \in Project, NEW role \in Granted, Script(h, u, p, v, role)
  PROVE  AInv'
<1> DEFINE r == [Idle EXCEPT !.pc = "reading", !.op = "script",
                             !.project = p, !.target = v, !.role = role]
<1>1. /\ r \in Request
      /\ r.pc = "reading" /\ r.op = "script" /\ r.project = p
  BY IdleType DEF Request, PC, OwnerOp
<1>2. Begin(h, r) /\ project' = project /\ Live(p)
  BY FoundLives DEF Script, Begin, AInv
<1>3. request'[h] = r
  BY <1>2 DEF Begin, AInv, TypeOK
<1>4. Fit(h)'
  BY <1>1, <1>2, <1>3 DEF Fit, Acting, Aimed, OwnerOp
<1> HIDE DEF r
<1> QED
  BY <1>1, <1>2, <1>4, BeginInv

LEMMA ClickInv ==
  ASSUME AInv, NEW h \in Handler, NEW u \in User, NEW i \in Invite,
         Click(h, u, i)
  PROVE  AInv'
<1> DEFINE r == [Idle EXCEPT !.pc = "joining", !.op = "join", !.user = u,
                             !.project = InviteTo[i], !.target = u,
                             !.role = InviteRole[i], !.invite = i]
<1>1. /\ r \in Request
      /\ r.pc = "joining" /\ r.op = "join"
      /\ r.project = InviteTo[i] /\ r.invite = i
  BY IdleType, ConstantsAssumption DEF Request, PC, OwnerOp
<1>2. Begin(h, r) /\ project' = project /\ Live(InviteTo[i])
  BY ConstantsAssumption DEF Click, Begin, AInv, TypeOK
<1>3. request'[h] = r
  BY <1>2 DEF Begin, AInv, TypeOK
<1>4. Fit(h)'
  BY <1>1, <1>2, <1>3 DEF Fit, Acting, Aimed, OwnerOp
<1> HIDE DEF r
<1> QED
  BY <1>1, <1>2, <1>4, BeginInv

(***************************************************************************)
(* The steps of a request.                                                 *)
(***************************************************************************)
LEMMA InvitesKept ==
  ASSUME AInv
  PROVE  /\ invite \in [Invite -> {"free", "open", "used", "expired", "gone"}]
         /\ \A i \in Invite : ~Live(InviteTo[i]) => invite[i] \in {"free", "gone"}
         /\ admitted \subseteq Invite \X User
         /\ burnt \subseteq Invite
  BY ConstantsAssumption DEF AInv, TypeOK

\* Nothing but the request changes.
LEMMA QuietStep ==
  ASSUME AInv, NEW h \in Handler, UNCHANGED <<store, admitted>>,
         burnt' \subseteq Invite, Respond(h)
  PROVE  AInv'
  BY InvitesKept, QuietRespond

LEMMA InsertInv ==
  ASSUME AInv, NEW h \in Handler, Insert(h)
  PROVE  AInv'
<1>1. CASE Unique(P(h))
  <2>1. /\ P(h) \in Project /\ OwnerOf[P(h)] \in User
        /\ project[P(h)] = "unborn" /\ At(h, "inserting") /\ TypeOK
    BY RequestType, ConstantsAssumption DEF AInv, Fit, Insert
  <2>2. /\ project' = [project EXCEPT ![P(h)] = "live"]
        /\ member' = [member EXCEPT ![P(h)][OwnerOf[P(h)]] = "owner"]
        /\ Respond(h) /\ UNCHANGED <<invite, history>>
    BY <1>1 DEF Insert
  <2>3. /\ request' \in [Handler -> Request] /\ request'[h] = Idle
        /\ \A g \in Handler : g # h => request'[g] = request[g]
    BY <2>1, <2>2, RespondType
  <2>4. TypeOK'
    BY <2>1, <2>2, <2>3 DEF TypeOK, Role
  <2>5. OwnerKnown'
    BY <2>1, <2>2 DEF AInv, OwnerKnown, TypeOK
  <2>6. ProjectStep(h)
    BY <2>1, <2>2 DEF ProjectStep, TypeOK
  <2>7. Fit(h)'
    BY <2>3, IdleType DEF Fit, Acting, Aimed, OwnerOp
  <2> QED
    BY <2>3, <2>4, <2>5, <2>6, <2>7, IdleType, StepInv
<1>2. CASE ~Unique(P(h))
  BY <1>2, QuietStep, InvitesKept DEF Insert
<1> QED
  BY <1>1, <1>2

LEMMA CheckRoleInv ==
  ASSUME AInv, NEW h \in Handler, CheckRole(h)
  PROVE  AInv'
<1>1. CASE MayManage(member[P(h)][request[h].user])
  <2> DEFINE pc == CASE request[h].op = "add"    -> "reading"
                     [] request[h].op = "remove" -> "guarding"
                     [] request[h].op = "invite" -> "minting"
                     [] request[h].op = "delete" -> "deleting"
  <2>1. /\ At(h, "checking") /\ Goto(h, pc)
        /\ UNCHANGED <<store, history>> /\ request[h].op \in OwnerOp
    BY <1>1 DEF CheckRole, AInv, Fit
  <2>2. /\ pc \in {"reading", "guarding", "minting", "deleting"}
        /\ pc \in PC \ {"inserting", "idle"}
    BY <2>1 DEF OwnerOp, PC
  <2> HIDE DEF pc
  <2>3. /\ P(h) \in Project /\ request[h].user \in User /\ Fit(h)
        /\ request[h] \in Request /\ OwnerOf[P(h)] \in User
    BY RequestType, ConstantsAssumption DEF AInv
  <2>4. request'[h] = [request[h] EXCEPT !.pc = pc]
    BY <2>1, <2>2, GotoType DEF AInv
  <2>5. Live(P(h)) /\ request[h].user = OwnerOf[P(h)]
    BY <1>1, <2>3 DEF MayManage, AInv, OwnerKnown, TypeOK
  <2>6. Fit(h)'
    BY <2>1, <2>2, <2>3, <2>4, <2>5 DEF Fit, Acting, Aimed, OwnerOp, Request
  <2> QED
    BY <2>1, <2>2, <2>6, QuietGoto, InvitesKept
<1>2. CASE ~MayManage(member[P(h)][request[h].user])
  BY <1>2, QuietStep, InvitesKept DEF CheckRole
<1> QED
  BY <1>1, <1>2

\* A request that goes on having found that its target is not the owner.
LEMMA AimInv ==
  ASSUME AInv, NEW h \in Handler, NEW pc \in {"upserting", "removing"},
         ~At(h, "idle"), ~At(h, "checking"), ~At(h, "joining"),
         ~At(h, "inserting"), ~Protected(P(h), V(h)), Goto(h, pc),
         UNCHANGED <<store, history>>
  PROVE  AInv'
<1>1. /\ P(h) \in Project /\ V(h) \in User /\ Fit(h)
      /\ request[h] \in Request /\ OwnerOf[P(h)] \in User
  BY RequestType, ConstantsAssumption DEF AInv
<1>2. pc \in PC \ {"inserting", "idle"}
  BY DEF PC
<1>3. request'[h] = [request[h] EXCEPT !.pc = pc]
  BY <1>2, GotoType DEF AInv
<1>4. Live(P(h)) => V(h) # OwnerOf[P(h)]
  BY <1>1 DEF Protected, AInv, OwnerKnown
<1>5. Fit(h)'
  BY <1>1, <1>3, <1>4 DEF Fit, Acting, Aimed, OwnerOp, Request
<1> QED
  BY <1>2, <1>5, QuietGoto, InvitesKept

LEMMA ReadRoleInv ==
  ASSUME AInv, NEW h \in Handler, ReadRole(h)
  PROVE  AInv'
<1>1. CASE Protected(P(h), V(h))
  BY <1>1, QuietStep, InvitesKept DEF ReadRole
<1>2. CASE ~Protected(P(h), V(h))
  BY <1>2, AimInv DEF ReadRole
<1> QED
  BY <1>1, <1>2

LEMMA GuardOwnerInv ==
  ASSUME AInv, NEW h \in Handler, GuardOwner(h)
  PROVE  AInv'
<1>1. CASE Protected(P(h), V(h))
  BY <1>1, QuietStep, InvitesKept DEF GuardOwner
<1>2. CASE ~Protected(P(h), V(h))
  BY <1>2, AimInv DEF GuardOwner
<1> QED
  BY <1>1, <1>2

\* The role of a member who is not the owner changes.
LEMMA MemberInv ==
  ASSUME AInv, NEW h \in Handler, NEW role \in Granted \cup {"none"},
         At(h, "upserting") \/ At(h, "removing"),
         role = "none" \/ Live(P(h)),
         member' = [member EXCEPT ![P(h)][V(h)] = role],
         admitted' \subseteq Invite \X User, Respond(h),
         UNCHANGED <<project, invite, burnt>>
  PROVE  AInv'
<1>1. TypeOK /\ OwnerKnown /\ Fit(h) /\ P(h) \in Project /\ V(h) \in User
  BY RequestType DEF AInv
<1>2. /\ request' \in [Handler -> Request] /\ request'[h] = Idle
      /\ \A g \in Handler : g # h => request'[g] = request[g]
  BY <1>1, RespondType
<1>3. member' \in [Project -> [User -> Role]]
  BY <1>1 DEF TypeOK, Role
<1>4. \A p \in Project : ~Live(p) => \A u \in User : member'[p][u] = "none"
  BY <1>1 DEF TypeOK
<1>5. TypeOK'
  BY <1>1, <1>2, <1>3, <1>4 DEF TypeOK
<1>6. OwnerKnown'
  BY <1>1 DEF OwnerKnown, TypeOK, Fit, Aimed, Granted
<1>7. Fit(h)' /\ ProjectStep(h)
  BY <1>2, IdleType DEF Fit, Acting, Aimed, OwnerOp, ProjectStep
<1> QED
  BY <1>2, <1>5, <1>6, <1>7, IdleType, StepInv

LEMMA UpsertInv ==
  ASSUME AInv, NEW h \in Handler, Upsert(h)
  PROVE  AInv'
<1>1. /\ request[h].role \in Granted /\ V(h) \in User
      /\ request[h].invite \in Invite
  BY RequestType DEF AInv
<1>2. admitted' \subseteq Invite \X User
  BY <1>1 DEF Upsert, AInv, TypeOK
<1> QED
  BY <1>1, <1>2, MemberInv DEF Upsert

LEMMA RemoveInv ==
  ASSUME AInv, NEW h \in Handler, Remove(h)
  PROVE  AInv'
  BY InvitesKept, MemberInv DEF Remove

LEMMA DeleteInv ==
  ASSUME AInv, NEW h \in Handler, Delete(h)
  PROVE  AInv'
<1>1. CASE Live(P(h)) /\ OwnerOf[P(h)] = request[h].user
  <2>1. TypeOK /\ P(h) \in Project
    BY RequestType DEF AInv
  <2>2. /\ project' = [project EXCEPT ![P(h)] = "gone"]
        /\ member' = [member EXCEPT ![P(h)] = [u \in User |-> "none"]]
        /\ invite' = [i \in Invite |->
                        IF InviteTo[i] = P(h) /\ invite[i] # "free"
                        THEN "gone" ELSE invite[i]]
        /\ Respond(h) /\ UNCHANGED history
    BY <1>1 DEF Delete
  <2>3. /\ request' \in [Handler -> Request] /\ request'[h] = Idle
        /\ \A g \in Handler : g # h => request'[g] = request[g]
    BY <2>1, <2>2, RespondType
  <2>4. /\ project' \in [Project -> {"unborn", "live", "gone"}]
        /\ member' \in [Project -> [User -> Role]]
        /\ invite' \in [Invite -> {"free", "open", "used", "expired", "gone"}]
    BY <2>1, <2>2 DEF TypeOK, Role
  <2>5. \A p \in Project : project'[p] # "live" =>
          /\ \A u \in User : member'[p][u] = "none"
          /\ \A i \in Invite : InviteTo[i] = p => invite'[i] \in {"free", "gone"}
    BY <2>1, <2>2 DEF TypeOK
  <2>6. TypeOK'
    BY <2>1, <2>2, <2>3, <2>4, <2>5 DEF TypeOK
  <2>7. OwnerKnown' /\ ProjectStep(h)
    BY <1>1, <2>1, <2>2 DEF AInv, OwnerKnown, ProjectStep, TypeOK
  <2>8. Fit(h)'
    BY <2>3, IdleType DEF Fit, Acting, Aimed, OwnerOp
  <2> QED
    BY <2>3, <2>6, <2>7, <2>8, IdleType, StepInv
<1>2. CASE ~(Live(P(h)) /\ OwnerOf[P(h)] = request[h].user)
  BY <1>2, QuietStep, InvitesKept DEF Delete
<1> QED
  BY <1>1, <1>2

LEMMA MintInv ==
  ASSUME AInv, NEW h \in Handler, NEW i \in Invite, Mint(h, i)
  PROVE  AInv'
<1>1. /\ invite' \in [Invite -> {"free", "open", "used", "expired", "gone"}]
      /\ \A j \in Invite : ~Live(InviteTo[j]) => invite'[j] \in {"free", "gone"}
  BY InvitesKept DEF Mint
<1> QED
  BY <1>1, InvitesKept, QuietRespond DEF Mint

LEMMA CheckMemberInv ==
  ASSUME AInv, NEW h \in Handler, CheckMember(h)
  PROVE  AInv'
<1>1. CASE member[P(h)][V(h)] # "none"
  BY <1>1, QuietStep, InvitesKept DEF CheckMember
<1>2. CASE member[P(h)][V(h)] = "none"
  <2>1. /\ At(h, "joining") /\ Goto(h, "claiming") /\ UNCHANGED <<store, history>>
    BY <1>2 DEF CheckMember
  <2>2. /\ P(h) \in Project /\ V(h) \in User /\ Fit(h)
        /\ request[h] \in Request /\ OwnerOf[P(h)] \in User
    BY RequestType, ConstantsAssumption DEF AInv
  <2>3. "claiming" \in PC \ {"inserting", "idle"}
    BY DEF PC
  <2>4. request'[h] = [request[h] EXCEPT !.pc = "claiming"]
    BY <2>1, <2>3, GotoType DEF AInv
  <2>5. Live(P(h)) => V(h) # OwnerOf[P(h)]
    BY <1>2, <2>2 DEF AInv, OwnerKnown
  <2>6. Fit(h)'
    BY <2>1, <2>2, <2>4, <2>5 DEF Fit, Acting, Aimed, OwnerOp, Request
  <2> QED
    BY <2>1, <2>3, <2>6, QuietGoto, InvitesKept
<1> QED
  BY <1>1, <1>2

LEMMA ClaimInv ==
  ASSUME AInv, NEW h \in Handler, Claim(h)
  PROVE  AInv'
<1> DEFINE i == request[h].invite
<1>1. CASE invite[i] = "open"
  <2>1. /\ At(h, "claiming") /\ Goto(h, "reading")
        /\ invite' = [invite EXCEPT ![i] = "used"]
        /\ UNCHANGED <<project, member, history>>
    BY <1>1 DEF Claim
  <2>2. /\ Fit(h) /\ request[h] \in Request /\ i \in Invite
    BY RequestType DEF AInv
  <2>3. "reading" \in PC \ {"inserting", "idle"}
    BY DEF PC
  <2>4. request'[h] = [request[h] EXCEPT !.pc = "reading"]
    BY <2>1, <2>3, GotoType DEF AInv
  <2>5. Fit(h)'
    BY <2>1, <2>2, <2>4 DEF Fit, Acting, Aimed, OwnerOp, Request
  <2>6. /\ invite' \in [Invite -> {"free", "open", "used", "expired", "gone"}]
        /\ \A j \in Invite : ~Live(InviteTo[j]) => invite'[j] \in {"free", "gone"}
    BY <1>1, <2>1, InvitesKept
  <2> QED
    BY <2>1, <2>3, <2>5, <2>6, QuietGoto
<1>2. CASE invite[i] # "open"
  BY <1>2, QuietStep, InvitesKept DEF Claim
<1> QED
  BY <1>1, <1>2

LEMMA ExpireInv ==
  ASSUME AInv, NEW i \in Invite, Expire(i)
  PROVE  AInv'
<1>1. TypeOK'
  BY InvitesKept DEF Expire, AInv, TypeOK
<1>2. OwnerKnown' /\ InsertersDiffer'
  BY DEF Expire, AInv, OwnerKnown, InsertersDiffer
<1>3. \A g \in Handler : Fit(g)'
  BY DEF Expire, AInv, Fit, Acting, Aimed
<1> QED
  BY <1>1, <1>2, <1>3 DEF AInv

LEMMA HandleInv ==
  ASSUME AInv, NEW h \in Handler, Handle(h)
  PROVE  AInv'
<1>1. CASE RefuseOrphan(h)
  BY <1>1, QuietStep, InvitesKept DEF RefuseOrphan
<1>2. CASE Die(h)
  <2>1. burnt' \subseteq Invite
    BY <1>2, InvitesKept, RequestType DEF Die, AInv
  <2> QED
    BY <1>2, <2>1, QuietStep DEF Die
<1> QED
  BY <1>1, <1>2, InsertInv, CheckRoleInv, ReadRoleInv, UpsertInv,
     GuardOwnerInv, RemoveInv, DeleteInv, MintInv, CheckMemberInv, ClaimInv
     DEF Handle

LEMMA StutterInv ==
  ASSUME AInv, UNCHANGED vars
  PROVE  AInv'
<1>1. TypeOK'
  BY DEF vars, AInv, TypeOK
<1>2. OwnerKnown' /\ InsertersDiffer'
  BY DEF vars, AInv, OwnerKnown, InsertersDiffer
<1>3. \A g \in Handler : Fit(g)'
  BY DEF vars, AInv, Fit, Acting, Aimed
<1> QED
  BY <1>1, <1>2, <1>3 DEF AInv

LEMMA NextInv == AInv /\ [Next]_vars => AInv'
<1> SUFFICES ASSUME AInv, [Next]_vars PROVE AInv'
  OBVIOUS
<1>1. CASE Next
  BY <1>1, HandleInv, CreateInv, ResolveInv, ScriptInv, ClickInv, ExpireInv
     DEF Next
<1> QED
  BY <1>1, StutterInv

\* The inductive invariant holds: a request fits its project from the role
\* check on (_require_role).
THEOREM Inductive == Spec => []AInv
  BY InitInv, NextInv, PTL DEF Spec

LEMMA InvOneOwner == AInv => OneOwner
  BY ConstantsAssumption DEF AInv, OwnerKnown, OneOwner

LEMMA InvAuthority == AInv => AuthorityHolds
  BY RequestType DEF AInv, OwnerKnown, AuthorityHolds, Fit, Acting

\* Types; and nothing of a project is stored after it was deleted.
THEOREM TypeCorrect == Spec => []TypeOK
<1>1. AInv => TypeOK
  BY DEF AInv
<1> QED
  BY <1>1, Inductive, PTL

\* Whatever runs at once, a project that exists has one owner, its creator.
THEOREM OneOwnerAlways == Spec => []OneOwner
  BY Inductive, InvOneOwner, PTL

\* A role that was checked still holds when it is used.
THEOREM AuthorityAlwaysHolds == Spec => []AuthorityHolds
  BY Inductive, InvAuthority, PTL

(***************************************************************************)
(* Invitations.  A claimed invitation is held by one request until it has  *)
(* made its user a member.                                                 *)
(***************************************************************************)
Holds(h, i) ==
  /\ At(h, "reading") \/ At(h, "upserting")
  /\ request[h].op = "join"
  /\ request[h].invite = i

Spent(i) == invite[i] \in {"used", "gone"}
Fresh(i) == \A u \in User : <<i, u>> \notin admitted

IInv ==
  /\ \A h \in Handler, i \in Invite : Holds(h, i) => Spent(i) /\ Fresh(i)
  /\ \A g, h \in Handler, i \in Invite : Holds(g, i) /\ Holds(h, i) => g = h
  /\ \A i \in Invite : Fresh(i) \/ Spent(i)
  /\ InviteAdmitsOne
  /\ \A i \in Invite : invite[i] = "used" =>
       i \in burnt \/ ~Fresh(i) \/ \E h \in Handler : Holds(h, i)

\* A step that neither claims nor uses up an invitation.
LEMMA CalmStep ==
  ASSUME IInv,
         \A i \in Invite : Spent(i) => Spent(i)',
         \A i \in Invite : invite'[i] = "used" => invite[i] = "used",
         admitted' = admitted,
         \A h \in Handler, i \in Invite : Holds(h, i)' => Holds(h, i),
         burnt \subseteq burnt',
         \A h \in Handler, i \in Invite :
           Holds(h, i) /\ invite'[i] = "used" => Holds(h, i)' \/ i \in burnt'
  PROVE  IInv'
<1>1. \A i \in Invite : Fresh(i)' <=> Fresh(i)
  BY DEF Fresh
<1> QED
  BY <1>1 DEF IInv, InviteAdmitsOne

Calm ==
  /\ \A i \in Invite : Spent(i) => Spent(i)'
  /\ \A i \in Invite : invite'[i] = "used" => invite[i] = "used"
  /\ admitted' = admitted

LEMMA CalmRespond ==
  ASSUME AInv, IInv, NEW h \in Handler, Respond(h), Calm,
         burnt \subseteq burnt',
         \A i \in Invite : Holds(h, i) /\ invite'[i] = "used" => i \in burnt'
  PROVE  IInv'
<1>1. /\ request'[h] = Idle
      /\ \A g \in Handler : g # h => request'[g] = request[g]
  BY RespondType DEF AInv
<1>2. \A i \in Invite : ~Holds(h, i)'
  BY <1>1, IdleType DEF Holds
<1>3. \A g \in Handler, i \in Invite : g # h => (Holds(g, i)' <=> Holds(g, i))
  BY <1>1 DEF Holds
<1> QED
  BY <1>2, <1>3, CalmStep DEF Calm

LEMMA CalmGoto ==
  ASSUME AInv, IInv, NEW h \in Handler, NEW pc \in PC, Goto(h, pc), Calm,
         UNCHANGED burnt, request[h].op = "join" =>
           (pc \in {"reading", "upserting"}
              <=> At(h, "reading") \/ At(h, "upserting"))
  PROVE  IInv'
<1>1. /\ request'[h] = [request[h] EXCEPT !.pc = pc]
      /\ \A g \in Handler : g # h => request'[g] = request[g]
      /\ request[h] \in Request
  BY GotoType, RequestType DEF AInv
<1>2. \A i \in Invite : Holds(h, i)' <=> Holds(h, i)
  BY <1>1 DEF Holds, Request
<1>3. \A g \in Handler, i \in Invite : g # h => (Holds(g, i)' <=> Holds(g, i))
  BY <1>1 DEF Holds
<1> QED
  BY <1>2, <1>3, CalmStep DEF Calm

LEMMA CalmBegin ==
  ASSUME AInv, IInv, NEW h \in Handler, NEW r \in Request, Begin(h, r),
         r.pc \notin {"reading", "upserting"} \/ r.op # "join"
  PROVE  IInv'
<1>1. /\ request'[h] = r /\ At(h, "idle")
      /\ \A g \in Handler : g # h => request'[g] = request[g]
      /\ UNCHANGED <<invite, admitted, burnt>>
  BY DEF AInv, TypeOK, Begin
<1>2. \A i \in Invite : ~Holds(h, i)' /\ ~Holds(h, i)
  BY <1>1 DEF Holds
<1>3. \A g \in Handler, i \in Invite : g # h => (Holds(g, i)' <=> Holds(g, i))
  BY <1>1 DEF Holds
<1>4. \A i \in Invite : Spent(i)' = Spent(i)
  BY <1>1 DEF Spent
<1> QED
  BY <1>1, <1>2, <1>3, <1>4, CalmStep

LEMMA AcceptingInv ==
  ASSUME AInv, IInv, NEW h \in Handler,
         NEW u \in User, NEW v \in User, NEW p \in Project,
         NEW i \in Invite, NEW role \in Granted, NEW op \in OwnerOp,
         \/ Create(h, p) \/ Resolve(h, op, u, p, v, role)
         \/ Script(h, u, p, v, role) \/ Click(h, u, i)
  PROVE  IInv'
<1> DEFINE create  == [Idle EXCEPT !.pc = "inserting", !.user = OwnerOf[p],
                                   !.project = p]
           resolve == [Idle EXCEPT !.pc = "checking", !.op = op, !.user = u,
                                   !.project = p, !.target = v, !.role = role]
           script  == [Idle EXCEPT !.pc = "reading", !.op = "script",
                                   !.project = p, !.target = v, !.role = role]
           click   == [Idle EXCEPT !.pc = "joining", !.op = "join", !.user = u,
                                   !.project = InviteTo[i], !.target = u,
                                   !.role = InviteRole[i], !.invite = i]
<1>1. /\ create \in Request /\ create.pc = "inserting"
      /\ resolve \in Request /\ resolve.pc = "checking"
  BY IdleType, ConstantsAssumption DEF Request, PC
<1>2. /\ script \in Request /\ script.op = "script"
      /\ click \in Request /\ click.pc = "joining"
  BY IdleType, ConstantsAssumption DEF Request, PC, OwnerOp
<1>3. Begin(h, create) \/ Begin(h, resolve) \/ Begin(h, script) \/ Begin(h, click)
  BY DEF Create, Resolve, Script, Click
<1> HIDE DEF create, resolve, script, click
<1> QED
  BY <1>1, <1>2, <1>3, CalmBegin

\* No request that holds an invitation which is still stored is refused.
LEMMA RefusedInv ==
  ASSUME AInv, IInv, NEW h \in Handler,
         \/ ReadRole(h) /\ Protected(P(h), V(h))
         \/ RefuseOrphan(h)
  PROVE  IInv'
<1>1. /\ Respond(h) /\ UNCHANGED <<invite, admitted, burnt>>
      /\ Fit(h)
      /\ P(h) \in Project /\ V(h) \in User /\ OwnerOf[P(h)] \in User
  BY RequestType, ConstantsAssumption DEF ReadRole, RefuseOrphan, AInv, TypeOK
<1>2. Calm
  BY <1>1 DEF Calm, Spent
<1>3. \A i \in Invite : Holds(h, i) => invite[i] # "used"
  <2>1. CASE ReadRole(h) /\ Protected(P(h), V(h))
    <3>1. Live(P(h)) /\ V(h) = OwnerOf[P(h)] /\ At(h, "reading")
      BY <1>1, <2>1 DEF AInv, OwnerKnown, TypeOK, Protected, ReadRole
    <3>2. request[h].op # "join"
      BY <1>1, <3>1 DEF Fit, Aimed
    <3> QED BY <3>2 DEF Holds
  <2>2. CASE RefuseOrphan(h)
    <3>1. ~Live(P(h))
      BY <2>2 DEF RefuseOrphan
    <3>2. \A i \in Invite : Holds(h, i) => InviteTo[i] = P(h)
      BY <1>1 DEF Fit, Holds
    <3> QED
      BY <1>1, <3>1, <3>2 DEF AInv, TypeOK
  <2> QED BY <2>1, <2>2
<1> QED
  BY <1>1, <1>2, <1>3, CalmRespond

\* The holder of an invitation makes its user a member.
LEMMA AdmitInv ==
  ASSUME AInv, IInv, NEW h \in Handler, Upsert(h)
  PROVE  IInv'
<1>1. /\ request[h].invite \in Invite /\ V(h) \in User
      /\ At(h, "upserting") /\ UNCHANGED <<invite, burnt>> /\ Respond(h)
  BY RequestType DEF AInv, TypeOK, Upsert
<1>2. CASE request[h].op = "join"
  <2> DEFINE i == request[h].invite
  <2>1. /\ Holds(h, i) /\ Spent(i) /\ Fresh(i)
        /\ admitted' = admitted \cup {<<i, V(h)>>}
    BY <1>1, <1>2 DEF Upsert, Holds, IInv
  <2>2. /\ request'[h] = Idle
        /\ \A g \in Handler : g # h => request'[g] = request[g]
    BY <1>1, RespondType DEF AInv
  <2>3. \A g \in Handler, j \in Invite : Holds(g, j)' <=> g # h /\ Holds(g, j)
    BY <2>2, IdleType DEF Holds
  <2>4. \A j \in Invite : /\ Spent(j)' <=> Spent(j)
                          /\ Fresh(j)' <=> j # i /\ Fresh(j)
    BY <1>1, <2>1 DEF Spent, Fresh
  <2>5. \A j \in Invite : Holds(h, j) => j = i
    BY DEF Holds
  <2>6. InviteAdmitsOne'
    <3>1. \A a \in admitted : a[1] # i
      BY <1>1, <2>1 DEF AInv, TypeOK, Fresh
    <3> QED
      BY <2>1, <3>1 DEF IInv, InviteAdmitsOne
  <2>7. \A g \in Handler : Holds(g, i) => g = h
    BY <1>1, <2>1 DEF IInv
  <2> HIDE DEF i
  <2> QED
    BY <1>1, <2>1, <2>3, <2>4, <2>5, <2>6, <2>7 DEF IInv
<1>3. CASE request[h].op # "join"
  <2>1. Calm /\ \A i \in Invite : ~Holds(h, i)
    BY <1>3 DEF Upsert, Calm, Spent, Holds
  <2> QED
    BY <1>1, <2>1, CalmRespond
<1> QED
  BY <1>2, <1>3

\* An open invitation is nobody's; the request that claims it holds it.
LEMMA ClaimIInv ==
  ASSUME AInv, IInv, NEW h \in Handler, Claim(h)
  PROVE  IInv'
<1> PICK i \in Invite : i = request[h].invite
  BY RequestType DEF AInv
<1>1. /\ At(h, "claiming") /\ request[h] \in Request
      /\ request[h].op = "join" /\ UNCHANGED <<admitted, burnt>>
  BY RequestType DEF Claim, AInv, Fit, TypeOK
<1>2. \A j \in Invite : ~Holds(h, j)
  BY <1>1 DEF Holds
<1>3. CASE invite[i] = "open"
  <2>1. Goto(h, "reading") /\ invite' = [invite EXCEPT ![i] = "used"]
    BY <1>3 DEF Claim
  <2>2. /\ request'[h] = [request[h] EXCEPT !.pc = "reading"]
        /\ \A g \in Handler : g # h => request'[g] = request[g]
    BY <2>1, GotoType DEF AInv, PC
  <2>3. /\ \A j \in Invite : Holds(h, j)' <=> j = i
        /\ \A g \in Handler, j \in Invite :
             g # h => (Holds(g, j)' <=> Holds(g, j))
    BY <1>1, <2>2 DEF Holds, Request
  <2>4. /\ ~Spent(i) /\ Spent(i)'
        /\ \A j \in Invite : j # i => invite'[j] = invite[j]
        /\ \A j \in Invite : Fresh(j)' <=> Fresh(j)
    BY <1>1, <1>3, <2>1, InvitesKept DEF Spent, Fresh
  <2>5. \A j \in Invite : j # i => (Spent(j)' <=> Spent(j))
    BY <2>4 DEF Spent
  <2>6. Fresh(i) /\ \A g \in Handler : ~Holds(g, i)
    BY <1>1, <2>4 DEF IInv
  <2>7. InviteAdmitsOne'
    BY <1>1 DEF IInv, InviteAdmitsOne
  <2>8. \A g \in Handler, j \in Invite : Holds(g, j)' => Spent(j)' /\ Fresh(j)'
    BY <1>1, <2>3, <2>4, <2>5, <2>6 DEF IInv
  <2>9. \A f, g \in Handler, j \in Invite :
          Holds(f, j)' /\ Holds(g, j)' => f = g
    BY <2>3, <2>6 DEF IInv
  <2>10. \A j \in Invite : Fresh(j)' \/ Spent(j)'
    BY <2>4, <2>5 DEF IInv
  <2>11. \A j \in Invite : invite'[j] = "used" =>
           j \in burnt \/ ~Fresh(j)' \/ \E g \in Handler : Holds(g, j)'
    BY <1>2, <2>3, <2>4 DEF IInv
  <2> QED
    BY <1>1, <2>7, <2>8, <2>9, <2>10, <2>11 DEF IInv
<1>4. CASE invite[i] # "open"
  <2>1. Respond(h) /\ Calm
    BY <1>4, <1>1 DEF Claim, Calm, Spent
  <2> QED
    BY <1>1, <1>2, <2>1, CalmRespond
<1> QED
  BY <1>3, <1>4

\* The steps of requests that hold no invitation.
LEMMA EmptyHandedInv ==
  ASSUME AInv, IInv, NEW h \in Handler,
         \/ Insert(h) \/ GuardOwner(h) \/ Remove(h) \/ Delete(h)
         \/ \E i \in Invite : Mint(h, i)
         \/ CheckMember(h) \/ CheckRole(h)
  PROVE  IInv'
<1>1. burnt' = burnt /\ Fit(h)
  BY DEF AInv, TypeOK, Insert, GuardOwner, Remove, Delete, Mint, CheckMember,
         CheckRole
<1>2. \A i \in Invite : ~Holds(h, i)
  BY DEF Holds, Insert, GuardOwner, Remove, Delete, Mint, CheckMember, CheckRole
<1>3. Calm
  <2>1. CASE Delete(h)
    BY <2>1, InvitesKept DEF Delete, Calm, Spent
  <2>2. CASE \E i \in Invite : Mint(h, i)
    BY <2>2, InvitesKept DEF Mint, Calm, Spent
  <2> QED
    BY <2>1, <2>2 DEF Calm, Spent, Insert, GuardOwner, Remove, CheckMember,
       CheckRole
<1>4. CASE Respond(h)
  BY <1>1, <1>2, <1>3, <1>4, CalmRespond
<1>5. CASE GuardOwner(h) /\ Goto(h, "removing")
  BY <1>1, <1>3, <1>5, CalmGoto DEF GuardOwner, PC
<1>6. CASE CheckMember(h) /\ Goto(h, "claiming")
  BY <1>1, <1>3, <1>6, CalmGoto DEF CheckMember, PC
<1>7. CASE CheckRole(h) /\ ~Respond(h)
  <2> DEFINE pc == CASE request[h].op = "add"    -> "reading"
                     [] request[h].op = "remove" -> "guarding"
                     [] request[h].op = "invite" -> "minting"
                     [] request[h].op = "delete" -> "deleting"
  <2>1. Goto(h, pc) /\ request[h].op \in OwnerOp
    BY <1>1, <1>7 DEF CheckRole, Fit
  <2>2. pc \in PC /\ request[h].op # "join"
    BY <2>1 DEF OwnerOp, PC
  <2> HIDE DEF pc
  <2> QED
    BY <1>1, <1>3, <2>1, <2>2, CalmGoto
<1> QED
  BY <1>4, <1>5, <1>6, <1>7 DEF Insert, GuardOwner, Remove, Delete, Mint,
     CheckMember

LEMMA ReadOnInv ==
  ASSUME AInv, IInv, NEW h \in Handler, ReadRole(h), ~Protected(P(h), V(h))
  PROVE  IInv'
<1>1. /\ Goto(h, "upserting") /\ At(h, "reading") /\ UNCHANGED burnt
      /\ "upserting" \in PC
  BY DEF ReadRole, PC
<1>2. Calm
  BY DEF ReadRole, Calm, Spent
<1> QED
  BY <1>1, <1>2, CalmGoto

LEMMA NextIInv == AInv /\ IInv /\ [Next]_vars => IInv'
<1> SUFFICES ASSUME AInv, IInv, [Next]_vars PROVE IInv'
  OBVIOUS
<1>1. ASSUME NEW h \in Handler, Handle(h) PROVE IInv'
  <2>1. CASE Die(h)
    <3>1. Respond(h) /\ Calm /\ burnt \subseteq burnt'
      BY <2>1 DEF Die, Calm, Spent
    <3>2. \A i \in Invite : Holds(h, i) => i \in burnt'
      BY <2>1 DEF Die, Holds
    <3> QED BY <3>1, <3>2, CalmRespond
  <2> QED
    BY <1>1, <2>1, EmptyHandedInv, ReadOnInv, RefusedInv, AdmitInv, ClaimIInv
       DEF Handle
<1>2. CASE \E i \in Invite : Expire(i)
  <2>1. /\ \A j \in Invite : Spent(j) => Spent(j)'
        /\ \A j \in Invite : invite'[j] = "used" => invite[j] = "used"
        /\ UNCHANGED <<admitted, request, burnt>>
    BY <1>2, InvitesKept DEF Expire, Spent
  <2>2. \A h \in Handler, j \in Invite : Holds(h, j)' <=> Holds(h, j)
    BY <2>1 DEF Holds
  <2> QED BY <2>1, <2>2, CalmStep
<1>3. CASE UNCHANGED vars
  <2>1. UNCHANGED <<invite, admitted, request, burnt>>
    BY <1>3, InvitesKept DEF vars
  <2>2. /\ \A h \in Handler, j \in Invite : Holds(h, j)' <=> Holds(h, j)
        /\ \A j \in Invite : Spent(j)' <=> Spent(j)
    BY <2>1 DEF Holds, Spent
  <2> QED BY <2>1, <2>2, CalmStep
<1>4. CASE Next
  <2>1. /\ "delete" \in OwnerOp /\ "viewer" \in Granted
        /\ Idle.user \in User /\ Idle.project \in Project
        /\ Idle.invite \in Invite
    BY IdleType DEF OwnerOp, Granted, Request
  <2> QED
    BY <1>1, <1>2, <1>4, <2>1, AcceptingInv DEF Next
<1> QED
  BY <1>3, <1>4

LEMMA InitIInv == Init => IInv
<1> SUFFICES ASSUME Init PROVE IInv
  OBVIOUS
<1>1. \A h \in Handler, i \in Invite : ~Holds(h, i)
  BY IdleType DEF Init, Holds
<1> QED
  BY <1>1 DEF Init, IInv, Fresh, Spent, InviteAdmitsOne

LEMMA InvUsed == AInv /\ IInv => UsedInviteAdmits
<1>1. ASSUME Settled PROVE \A h \in Handler, i \in Invite : ~Holds(h, i)
  BY <1>1 DEF Settled, Holds
<1> QED
  BY <1>1 DEF IInv, UsedInviteAdmits, Fresh

\* However many accept an invitation at once, one user becomes a member.
THEOREM InviteAdmitsOneAlways == Spec => []InviteAdmitsOne
<1>1. IInv => InviteAdmitsOne
  BY DEF IInv
<1> QED
  BY <1>1, InitIInv, NextIInv, Inductive, PTL DEF Spec

\* Unless the request that claimed it dies, no invitation is used up in vain.
THEOREM UsedInviteAlwaysAdmits == Spec => []UsedInviteAdmits
  BY InvUsed, InitIInv, NextIInv, Inductive, PTL DEF Spec

(***************************************************************************)
(* Slugs.                                                                  *)
(***************************************************************************)
SlugsUnique ==
  \A p, q \in Project :
    /\ Live(p) /\ Live(q)
    /\ OwnerOf[p] = OwnerOf[q] /\ SlugOf[p] = SlugOf[q]
    => p = q

LEMMA NextSlugs == AInv /\ SlugsUnique /\ [Next]_vars => SlugsUnique'
<1> SUFFICES ASSUME AInv, SlugsUnique, [Next]_vars PROVE SlugsUnique'
  OBVIOUS
<1>1. ASSUME NEW h \in Handler, Insert(h), Unique(P(h)) PROVE SlugsUnique'
  <2>1. /\ project' = [project EXCEPT ![P(h)] = "live"]
        /\ \A p \in Project : p # P(h) => (Live(p)' <=> Live(p))
    BY <1>1 DEF Insert, AInv, TypeOK
  <2> QED
    BY <1>1, <2>1 DEF SlugsUnique, Unique
<1>2. ASSUME NEW h \in Handler, Delete(h) PROVE SlugsUnique'
  <2>1. \A p \in Project : Live(p)' => Live(p)
    BY <1>2 DEF Delete, AInv, TypeOK
  <2> QED
    BY <2>1 DEF SlugsUnique
<1>3. CASE project' = project
  BY <1>3 DEF SlugsUnique
<1>4. ASSUME NEW h \in Handler, Handle(h) PROVE SlugsUnique'
  BY <1>1, <1>2, <1>3, <1>4
     DEF Handle, Insert, CheckRole, ReadRole, Upsert, RefuseOrphan, GuardOwner,
         Remove, Mint, CheckMember, Claim, Die
<1>5. ASSUME NEW h \in Handler, NEW r, Begin(h, r) PROVE SlugsUnique'
  BY <1>3, <1>5 DEF Begin
<1>6. ASSUME NEW h \in Handler, NEW p \in Project, Create(h, p)
      PROVE  SlugsUnique'
  BY <1>5, <1>6 DEF Create
<1>7. ASSUME NEW h \in Handler, NEW op \in OwnerOp, NEW u \in User,
             NEW v \in User, NEW p \in Project, NEW role \in Granted,
             Resolve(h, op, u, p, v, role)
      PROVE  SlugsUnique'
  BY <1>5, <1>7 DEF Resolve
<1>8. ASSUME NEW h \in Handler, NEW u \in User, NEW v \in User,
             NEW p \in Project, NEW role \in Granted,
             Script(h, u, p, v, role)
      PROVE  SlugsUnique'
  BY <1>5, <1>8 DEF Script
<1>9. ASSUME NEW h \in Handler, NEW u \in User, NEW i \in Invite,
             Click(h, u, i)
      PROVE  SlugsUnique'
  BY <1>5, <1>9 DEF Click
<1>10. ASSUME NEW i \in Invite, Expire(i) PROVE SlugsUnique'
  BY <1>3, <1>10 DEF Expire
<1>11. CASE UNCHANGED vars
  BY <1>3, <1>11 DEF vars
<1>12. CASE Next
  BY <1>4, <1>6, <1>7, <1>8, <1>9, <1>10, <1>12 DEF Next
<1> QED
  BY <1>11, <1>12

\* An owner's slug leads to one project, however creations race.
THEOREM OwnersAlwaysReachTheirs == Spec => []OwnersReachTheirs
<1>1. Init => SlugsUnique
  BY DEF Init, SlugsUnique
<1>2. AInv /\ SlugsUnique => OwnersReachTheirs
  <2> SUFFICES ASSUME AInv, SlugsUnique, NEW p \in Project, Live(p)
               PROVE  Found(OwnerOf[p], SlugOf[p]) = {p}
    BY DEF OwnersReachTheirs
  <2> DEFINE owned == {q \in {r \in Project : Live(r) /\ SlugOf[r] = SlugOf[p]} :
                         OwnerOf[q] = OwnerOf[p]}
  <2>1. owned = {p}
    BY DEF SlugsUnique
  <2> QED
    BY <2>1 DEF Found
<1> QED
  BY <1>1, <1>2, NextSlugs, Inductive, PTL DEF Spec

\* Projects have one owner, who can reach them and whose authority lasts, and
\* what was deleted stays so.
THEOREM ProjectsAreAlwaysSound == Spec => []ProjectsAreSound
<1>1. TypeOK /\ OneOwner /\ AuthorityHolds /\ OwnersReachTheirs => ProjectsAreSound
  BY DEF ProjectsAreSound
<1> QED
  BY <1>1, TypeCorrect, OneOwnerAlways, AuthorityAlwaysHolds,
     OwnersAlwaysReachTheirs, PTL

\* An invitation admits one user, and nobody only if its request died.
THEOREM InvitesAlwaysAdmit == Spec => []InvitesAdmit
<1>1. InviteAdmitsOne /\ UsedInviteAdmits => InvitesAdmit
  BY DEF InvitesAdmit
<1> QED
  BY <1>1, InviteAdmitsOneAlways, UsedInviteAlwaysAdmits, PTL

(***************************************************************************)
(* A page shows a project of its user and names it in its header, for      *)
(* every number of tabs, users, projects and handlers.                     *)
(*                                                                         *)
(* The inductive invariant says of a page that is being made that it has   *)
(* seen all of the projects its user has now; it rests on the invariant of *)
(* ProjectAccess, by which whoever owns a live project is a member of it.  *)
(***************************************************************************)

Making == {"before", "resolving", "reading", "responding"}

TabState == [pc: TabPC, page: Page, slug: {SlugOf[p] : p \in Project} \cup {None},
             session: Cookie, header: Project \cup {None},
             content: Project \cup {None}, mine: SUBSET Project]

\* The projects that each user has now.
Theirs == [u \in User |-> ProjectsOf(u)]

PageIsHonest(r, theirs) ==
  /\ r.pc \in Making \ {"responding"} => r.session.user \in User
  /\ r.pc \in Making /\ r.session.user # None => theirs[r.session.user] \subseteq r.mine
  /\ r.pc \in Making /\ r.header # None => r.header \in r.mine
  /\ r.pc = "before" => r.header = None
  /\ r.pc = "reading" => r.header # None /\ r.content = r.header
  /\ r.pc = "responding" /\ r.page \in {"overview", "detail"} /\ r.header # None =>
       r.content = r.header
  /\ r.pc = "shown" => r.content \in r.mine /\ r.header = r.content

SessionInv ==
  /\ AInv
  /\ cookie \in Cookie
  /\ tab \in [Tab -> TabState]
  /\ \A t \in Tab : PageIsHonest(tab[t], Theirs)

------------------------------------------------------------------------------

LEMMA ClosedIsHonest ==
  ASSUME NEW theirs
  PROVE  Closed \in TabState /\ PageIsHonest(Closed, theirs)
BY DEF Closed, TabState, TabPC, Page, Cookie, PageIsHonest, Making

LEMMA InitSessionInv == Init /\ SessionInit => SessionInv
BY InitInv, ClosedIsHonest DEF SessionInit, SessionInv, Cookie

\* A step of one tab that leaves the tables alone.
LEMMA OneTab ==
  ASSUME SessionInv, UNCHANGED vars, cookie' \in Cookie,
         NEW t \in Tab, NEW r \in TabState, PageIsHonest(r, Theirs),
         tab' = [tab EXCEPT ![t] = r]
  PROVE  SessionInv'
<1>1. AInv'
  BY NextInv DEF SessionInv
<1>2. Theirs' = Theirs
  BY DEF Theirs, ProjectsOf, Live, vars, store
<1>3. ASSUME NEW s \in Tab
      PROVE  PageIsHonest(tab'[s], Theirs)
  BY DEF SessionInv
<1> QED BY <1>1, <1>2, <1>3 DEF SessionInv

LEMMA LeaveKeeps ==
  ASSUME SessionInv, UNCHANGED vars, cookie' \in Cookie, NEW t \in Tab, Leave(t)
  PROVE  SessionInv'
BY OneTab, ClosedIsHonest DEF Leave

\* Whoever owns a live project is a member: a slug leads to a user's own.
LEMMA FoundIsTheirs ==
  ASSUME AInv, NEW u \in User, NEW slug, NEW p \in Found(u, slug)
  PROVE  p \in Project /\ p \in Theirs[u]
BY InvOneOwner DEF Found, Theirs, ProjectsOf, OneOwner

------------------------------------------------------------------------------
\* The steps of a page

LEMMA AskKeeps ==
  ASSUME SessionInv, UNCHANGED vars, NEW t \in Tab, NEW page \in Page,
         NEW slug \in {SlugOf[p] : p \in Project} \cup {None},
         AskForPage(t, page, slug)
  PROVE  SessionInv'
<1> DEFINE r == Request0(t, page, slug)
<1>1. cookie.user \in User
  BY DEF SessionInv, Cookie, AskForPage
<1>2. r \in TabState
  BY <1>1 DEF Request0, Closed, TabState, TabPC, SessionInv, ProjectsOf
<1>3. PageIsHonest(r, Theirs)
  BY <1>1 DEF Request0, Closed, PageIsHonest, Making, Theirs
<1> QED
  BY <1>2, <1>3, OneTab DEF AskForPage, SessionInv

LEMMA LoadKeeps ==
  ASSUME SessionInv, UNCHANGED vars, NEW t \in Tab, LoadCurrent(t)
  PROVE  SessionInv'
<1>1. /\ tab[t] \in TabState /\ PageIsHonest(tab[t], Theirs)
      /\ tab[t].pc = "before" /\ tab[t].session.user \in User
      /\ cookie' \in Cookie
  BY DEF SessionInv, LoadCurrent, TabAt, PageIsHonest, Making
<1>2. ASSUME NEW p \in Project, Chosen(t, p),
             tab' = [tab EXCEPT ![t].header = p, ![t].session.current = p,
                                ![t].pc = "resolving"]
      PROVE  SessionInv'
  <2> DEFINE r == [tab[t] EXCEPT !.header = p, !.session.current = p,
                                 !.pc = "resolving"]
  <2>1. p \in Theirs[tab[t].session.user]
    BY <1>1, <1>2 DEF Chosen, Theirs
  <2>2. r \in TabState
    BY <1>1 DEF TabState, TabPC, Cookie
  <2>3. PageIsHonest(r, Theirs)
    <3>1. /\ r.pc = "resolving" /\ r.header = p /\ r.mine = tab[t].mine
          /\ r.session.user = tab[t].session.user
      BY <1>1 DEF TabState, Cookie
    <3>2. Theirs[tab[t].session.user] \subseteq tab[t].mine
      BY <1>1, TabAssumption DEF PageIsHonest, Making
    <3> HIDE DEF r
    <3> QED BY <1>1, <2>1, <3>1, <3>2 DEF PageIsHonest, Making
  <2>4. tab' = [tab EXCEPT ![t] = r]
    BY <1>1, <1>2 DEF SessionInv, TabState, Cookie
  <2> HIDE DEF r
  <2> QED BY <1>1, <2>2, <2>3, <2>4, OneTab
<1>3. ASSUME tab' = [tab EXCEPT ![t].session.current = None, ![t].pc = "resolving"]
      PROVE  SessionInv'
  <2> DEFINE r == [tab[t] EXCEPT !.session.current = None, !.pc = "resolving"]
  <2>1. r \in TabState
    BY <1>1 DEF TabState, TabPC, Cookie
  <2>2. PageIsHonest(r, Theirs)
    BY <1>1 DEF PageIsHonest, Making, TabState, Cookie
  <2>3. tab' = [tab EXCEPT ![t] = r]
    BY <1>1, <1>3 DEF SessionInv, TabState, Cookie
  <2> HIDE DEF r
  <2> QED BY <1>1, <2>1, <2>2, <2>3, OneTab
<1> QED BY <1>2, <1>3 DEF LoadCurrent

LEMMA ResolveKeeps ==
  ASSUME SessionInv, UNCHANGED vars, NEW t \in Tab,
         ResolveGlobal(t) \/ ResolveSlug(t) \/ ResolveLogout(t)
  PROVE  SessionInv'
<1>1. /\ tab[t] \in TabState /\ PageIsHonest(tab[t], Theirs)
      /\ tab[t].pc = "resolving" /\ tab[t].session.user \in User
      /\ cookie' \in Cookie
  BY DEF SessionInv, ResolveGlobal, ResolveSlug, ResolveLogout, TabAt,
         PageIsHonest, Making
<1>2. CASE ResolveGlobal(t)
  <2> DEFINE r == [tab[t] EXCEPT !.pc = IF tab[t].header = None THEN "responding"
                                        ELSE "reading",
                                 !.content = tab[t].header]
  <2>1. r \in TabState
    BY <1>1 DEF TabState, TabPC
  <2>2. PageIsHonest(r, Theirs)
    BY <1>1 DEF PageIsHonest, Making, TabState
  <2>3. tab' = [tab EXCEPT ![t] = r]
    BY <1>1, <1>2 DEF ResolveGlobal, SessionInv, TabState
  <2> HIDE DEF r
  <2> QED BY <1>1, <2>1, <2>2, <2>3, OneTab
<1>3. CASE ResolveLogout(t)
  <2> DEFINE r == [tab[t] EXCEPT !.session.user = None, !.header = None,
                                 !.pc = "responding"]
  <2>1. r \in TabState
    BY <1>1 DEF TabState, TabPC, Cookie
  <2>2. PageIsHonest(r, Theirs)
    BY <1>1 DEF PageIsHonest, Making, TabState, Cookie
  <2>3. tab' = [tab EXCEPT ![t] = r]
    BY <1>1, <1>3 DEF ResolveLogout, SessionInv, TabState, Cookie
  <2> HIDE DEF r
  <2> QED BY <1>1, <2>1, <2>2, <2>3, OneTab
<1>4. ASSUME NEW p \in Found(tab[t].session.user, tab[t].slug),
             tab' = [tab EXCEPT ![t].session.current = p,
                       ![t].header = HeaderOf(t, p), ![t].content = p,
                       ![t].pc = IF tab[t].page = "detail" THEN "reading"
                                 ELSE "responding"]
      PROVE  SessionInv'
  <2> DEFINE r == [tab[t] EXCEPT !.session.current = p, !.header = p,
                     !.content = p,
                     !.pc = IF tab[t].page = "detail" THEN "reading"
                            ELSE "responding"]
  <2>1. p \in Project /\ p \in Theirs[tab[t].session.user]
    BY <1>1, FoundIsTheirs DEF SessionInv
  <2>2. p \in tab[t].mine /\ p # None
    BY <1>1, <2>1, TabAssumption DEF PageIsHonest, Making
  <2>3. r \in TabState
    BY <1>1, <2>1 DEF TabState, TabPC, Cookie
  <2>4. PageIsHonest(r, Theirs)
    BY <1>1, <2>2 DEF PageIsHonest, Making, TabState, Cookie
  <2>5. tab' = [tab EXCEPT ![t] = r]
    BY <1>1, <1>4 DEF HeaderOf, SessionInv, TabState, Cookie
  <2> HIDE DEF r
  <2> QED BY <1>1, <2>3, <2>4, <2>5, OneTab
<1>5. ASSUME tab' = [tab EXCEPT ![t].pc = "responding", ![t].header = None]
      PROVE  SessionInv'
  <2> DEFINE r == [tab[t] EXCEPT !.pc = "responding", !.header = None]
  <2>1. r \in TabState
    BY <1>1 DEF TabState, TabPC
  <2>2. PageIsHonest(r, Theirs)
    BY <1>1 DEF PageIsHonest, Making, TabState
  <2>3. tab' = [tab EXCEPT ![t] = r]
    BY <1>1, <1>5 DEF SessionInv, TabState
  <2> HIDE DEF r
  <2> QED BY <1>1, <2>1, <2>2, <2>3, OneTab
<1> QED BY <1>2, <1>3, <1>4, <1>5 DEF ResolveSlug

LEMMA ReadKeeps ==
  ASSUME SessionInv, UNCHANGED vars, NEW t \in Tab, ReadPage(t)
  PROVE  SessionInv'
<1>1. /\ tab[t] \in TabState /\ PageIsHonest(tab[t], Theirs)
      /\ tab[t].pc = "reading" /\ cookie' \in Cookie
  BY DEF SessionInv, ReadPage, TabAt
<1>2. ASSUME tab' = [tab EXCEPT ![t].pc = "responding"]
      PROVE  SessionInv'
  <2> DEFINE r == [tab[t] EXCEPT !.pc = "responding"]
  <2>1. r \in TabState
    BY <1>1 DEF TabState, TabPC
  <2>2. PageIsHonest(r, Theirs)
    BY <1>1 DEF PageIsHonest, Making, TabState
  <2>3. tab' = [tab EXCEPT ![t] = r]
    BY <1>1, <1>2 DEF SessionInv, TabState
  <2> HIDE DEF r
  <2> QED BY <1>1, <2>1, <2>2, <2>3, OneTab
<1> QED BY <1>1, <1>2, LeaveKeeps DEF ReadPage

LEMMA RespondKeeps ==
  ASSUME SessionInv, UNCHANGED vars, NEW t \in Tab, RespondToTab(t)
  PROVE  SessionInv'
<1> DEFINE r == [Closed EXCEPT !.pc = "shown", !.header = tab[t].header,
                   !.content = tab[t].content, !.mine = tab[t].mine]
<1>1. /\ tab[t] \in TabState /\ PageIsHonest(tab[t], Theirs)
      /\ tab[t].pc = "responding"
  BY DEF SessionInv, RespondToTab, TabAt
<1>2. cookie' \in Cookie
  BY <1>1 DEF RespondToTab, SessionInv, TabState
<1>3. CASE /\ tab[t].page \in {"overview", "detail"} /\ tab[t].header # None
           /\ tab' = [tab EXCEPT ![t] = r]
  <2>1. r \in TabState
    BY <1>1, ClosedIsHonest DEF TabState, TabPC, Closed
  <2>2. PageIsHonest(r, Theirs)
    BY <1>1, <1>3 DEF PageIsHonest, Making, Closed
  <2> HIDE DEF r
  <2> QED BY <1>2, <1>3, <2>1, <2>2, OneTab
<1> QED BY <1>2, <1>3, LeaveKeeps DEF RespondToTab

------------------------------------------------------------------------------
\* The steps of the others

LEMMA SignInKeeps ==
  ASSUME SessionInv, UNCHANGED vars, NEW u \in User, SignIn(u)
  PROVE  SessionInv'
<1>1. AInv' /\ Theirs' = Theirs
  BY NextInv DEF SessionInv, Theirs, ProjectsOf, Live, vars, store
<1>2. cookie' \in Cookie
  BY DEF SignIn, SessionInv, Cookie
<1> QED BY <1>1, <1>2 DEF SignIn, SessionInv

\* A page that is being made has seen what the others have just changed.
LEMMA SeenIsHonest ==
  ASSUME SessionInv, tab' = SeenByTabs, NEW t \in Tab
  PROVE  tab'[t] \in TabState /\ PageIsHonest(tab'[t], Theirs')
<1> DEFINE new == {p \in Project : project'[p] = "live"
                                   /\ member'[p][tab[t].session.user] # "none"}
           r == [tab[t] EXCEPT !.mine = @ \cup new]
<1>1. tab[t] \in TabState /\ PageIsHonest(tab[t], Theirs)
  BY DEF SessionInv
<1>2. CASE tab[t].pc \in {"idle", "shown"} \/ tab[t].session.user = None
  <2>1. tab'[t] = tab[t]
    BY <1>2 DEF SeenByTabs
  <2> QED BY <1>1, <1>2, <2>1 DEF PageIsHonest, Making
<1>3. CASE tab[t].pc \notin {"idle", "shown"} /\ tab[t].session.user # None
  <2>1. tab'[t] = r
    BY <1>3 DEF SeenByTabs
  <2>2. tab[t].session.user \in User
    BY <1>1, <1>3 DEF TabState, Cookie
  <2>3. new = Theirs'[tab[t].session.user]
    BY <2>2 DEF Theirs, ProjectsOf, Live
  <2>4. r \in TabState
    BY <1>1 DEF TabState
  <2>5. /\ r.pc = tab[t].pc /\ r.page = tab[t].page /\ r.session = tab[t].session
        /\ r.header = tab[t].header /\ r.content = tab[t].content
        /\ r.mine = tab[t].mine \cup new
    BY <1>1 DEF TabState
  <2> HIDE DEF r, new
  <2>6. PageIsHonest(r, Theirs')
    BY <1>1, <1>3, <2>3, <2>5 DEF PageIsHonest
  <2> QED BY <2>1, <2>4, <2>6
<1> QED BY <1>2, <1>3

LEMMA OthersKeep ==
  ASSUME SessionInv, OthersStep
  PROVE  SessionInv'
<1>1. AInv'
  BY NextInv DEF SessionInv, OthersStep
<1>2. ASSUME NEW h \in Handler
      PROVE  ChosenByHandler(h) \in Cookie
  <2>1. P(h) \in Project
    BY DEF SessionInv, AInv, TypeOK, Request, P
  <2> QED BY <2>1 DEF ChosenByHandler, SessionInv, Cookie
<1>3. cookie' \in Cookie
  BY <1>2 DEF OthersStep, SessionInv
<1>4. tab' \in [Tab -> TabState] /\ \A t \in Tab : PageIsHonest(tab'[t], Theirs')
  BY SeenIsHonest DEF OthersStep, SeenByTabs
<1> QED BY <1>1, <1>3, <1>4 DEF SessionInv

LEMMA NextSessionInv ==
  SessionInv /\ [SessionNext]_<<vars, sessionVars>> => SessionInv'
<1> SUFFICES ASSUME SessionInv, [SessionNext]_<<vars, sessionVars>>
             PROVE  SessionInv'
  OBVIOUS
<1>1. ASSUME NEW t \in Tab, SessionStep(t), UNCHANGED vars
      PROVE  SessionInv'
  <2>1. ASSUME NEW page \in {"overview", "logout"}, AskForPage(t, page, None)
        PROVE  SessionInv'
    BY <1>1, <2>1, AskKeeps DEF Page
  <2>2. ASSUME NEW page \in {"detail", "switch"}, NEW p \in Project,
               AskForPage(t, page, SlugOf[p])
        PROVE  SessionInv'
    BY <1>1, <2>2, AskKeeps DEF Page
  <2> QED
    BY <1>1, <2>1, <2>2, LoadKeeps, ResolveKeeps, ReadKeeps, RespondKeeps
       DEF SessionStep
<1>2. CASE UNCHANGED <<vars, sessionVars>>
  <2>1. AInv' /\ Theirs' = Theirs
    BY <1>2, NextInv DEF SessionInv, Theirs, ProjectsOf, Live, vars, store
  <2> QED BY <1>2, <2>1 DEF SessionInv, sessionVars
<1> QED
  BY <1>1, <1>2, SignInKeeps, OthersKeep DEF SessionNext

------------------------------------------------------------------------------
\* Theorems

\* However cookies, slugs, deletions and changes of members race, a page
\* shows a project that was its user's while the page was made, under its own
\* name (load_current_project_into_g, _require_owned_project).
THEOREM SessionsAreAlwaysSound == SessionSpec => []SessionsAreSound
<1>1. SessionInv => SessionsAreSound
  BY DEF SessionInv, SessionsAreSound, SessionTypeOK, PagesAgree, TabState,
         PageIsHonest, TabAt
<1> QED
  BY <1>1, InitSessionInv, NextSessionInv, PTL DEF SessionSpec
=============================================================================

------------------------------ MODULE Sessions ------------------------------
(***************************************************************************)
(* The current project of a browser (#50, #258): a cookie that the browser *)
(* sends with every request and replaces with the last response that sets  *)
(* it.  Before each request the user's projects are read and the cookie's  *)
(* choice is checked against them; a page with a slug in its address makes *)
(* that project the current one, in the header it renders too.  Meanwhile  *)
(* the handlers of ProjectAccess add, remove and delete.                   *)
(*                                                                         *)
(* Abstracted: of the cookie, the user and the choice; what flashes put    *)
(* into it is a cookie that may be set without a change.                   *)
(***************************************************************************)
EXTENDS ProjectAccess, Absent

CONSTANT Tab    \* the tabs of the browser: its concurrent requests

ASSUME TabAssumption == None \notin User \cup Project

VARIABLES
  cookie,       \* the browser's
  tab           \* the local state of each tab's request

sessionVars == <<cookie, tab>>

Cookie == [user: User \cup {None}, current: Project \cup {None}]
Page == {"overview", "detail", "switch", "logout"}
TabPC == {"idle", "before", "resolving", "reading", "responding", "shown"}

Closed == [pc |-> "idle", page |-> "overview", slug |-> None,
           session |-> [user |-> None, current |-> None],
           header |-> None,     \* g.current_project
           content |-> None,    \* whose data the page shows
           mine |-> {}]         \* the user's projects since it began (history)

SessionInit ==
  /\ cookie = [user |-> None, current |-> None]
  /\ tab = [t \in Tab |-> Closed]

TabAt(t, pc) == tab[t].pc = pc

\* list_projects_for_user
ProjectsOf(u) == {p \in Project : Live(p) /\ member[p][u] # "none"}

\* Whatever another request does, a page that is being made has seen it.
SeenByTabs ==
  [t \in Tab |->
     IF tab[t].pc \in {"idle", "shown"} \/ tab[t].session.user = None THEN tab[t]
     ELSE [tab[t] EXCEPT !.mine = @ \cup
             {p \in Project : project'[p] = "live" /\ member'[p][tab[t].session.user] # "none"}]]

\* One of the two pages: the address names no project, or a slug.
Request0(t, page, slug) ==
  [Closed EXCEPT !.pc = "before", !.page = page, !.slug = slug,
                 !.session = cookie, !.mine = ProjectsOf(cookie.user)]

\* A signed-in user asks for a page.
AskForPage(t, page, slug) ==
  /\ tab[t].pc \in {"idle", "shown"} /\ cookie.user # None
  /\ tab' = [tab EXCEPT ![t] = Request0(t, page, slug)]
  /\ UNCHANGED cookie

\* Mutant: the cookie's choice is taken as it is.
ChosenBefore(t, p) ==
  IF tab[t].session.current # None THEN p = tab[t].session.current
  ELSE p \in ProjectsOf(tab[t].session.user)

\* The cookie's choice, if it is the user's; else the first of the user's.
Chosen(t, p) ==
  LET user == tab[t].session.user
      kept == tab[t].session.current
  IN IF kept \in ProjectsOf(user) THEN p = kept ELSE p \in ProjectsOf(user)

\* load_current_project_into_g
LoadCurrent(t) ==
  /\ TabAt(t, "before")
  /\ \/ \E p \in Project :
          /\ Chosen(t, p)
          /\ tab' = [tab EXCEPT ![t].header = p, ![t].session.current = p,
                                ![t].pc = "resolving"]
     \/ /\ ProjectsOf(tab[t].session.user) = {}
        /\ tab' = [tab EXCEPT ![t].session.current = None, ![t].pc = "resolving"]
  /\ UNCHANGED cookie

Leave(t) == tab' = [tab EXCEPT ![t] = Closed]

\* A page without a slug: onboarding, for a user without a project (a redirect
\* that takes the session with it).
ResolveGlobal(t) ==
  /\ TabAt(t, "resolving") /\ tab[t].page = "overview"
  /\ tab' = [tab EXCEPT ![t].pc = IF tab[t].header = None THEN "responding"
                                  ELSE "reading",
                        ![t].content = tab[t].header]
  /\ UNCHANGED cookie

\* Mutant: the header keeps what was loaded before the request.
HeaderKept(t, p) == tab[t].header

\* The URL is the authoritative signal: g is overridden within the request.
HeaderOf(t, p) == p

\* _require_owned_project; 404 without it.
ResolveSlug(t) ==
  /\ TabAt(t, "resolving") /\ tab[t].page \in {"detail", "switch"}
  /\ LET found == Found(tab[t].session.user, tab[t].slug)
     IN \/ \E p \in found :
             tab' = [tab EXCEPT ![t].session.current = p,
                       ![t].header = HeaderOf(t, p), ![t].content = p,
                       ![t].pc = IF tab[t].page = "detail" THEN "reading"
                                 ELSE "responding"]
        \/ /\ found = {}
           /\ tab' = [tab EXCEPT ![t].pc = "responding", ![t].header = None]
  /\ UNCHANGED cookie

ResolveLogout(t) ==
  /\ TabAt(t, "resolving") /\ tab[t].page = "logout"
  /\ tab' = [tab EXCEPT ![t].session.user = None, ![t].header = None,
                        ![t].pc = "responding"]
  /\ UNCHANGED cookie

\* The page's queries, for content; the store may fail.
ReadPage(t) ==
  /\ TabAt(t, "reading")
  /\ \/ tab' = [tab EXCEPT ![t].pc = "responding"]
     \/ Leave(t)
  /\ UNCHANGED cookie

\* The response arrives; it may set the cookie, which replaces what the
\* browser has, or it is lost.
RespondToTab(t) ==
  /\ TabAt(t, "responding")
  /\ \/ /\ IF tab[t].page \in {"overview", "detail"} /\ tab[t].header # None
           THEN tab' = [tab EXCEPT ![t] =
                          [Closed EXCEPT !.pc = "shown", !.header = tab[t].header,
                             !.content = tab[t].content, !.mine = tab[t].mine]]
           ELSE Leave(t)
        /\ cookie' \in {tab[t].session, cookie}
        /\ tab[t].session.current # cookie.current => cookie' = tab[t].session
     \/ Leave(t) /\ UNCHANGED cookie

\* login and register: the choice of whoever was signed in stays.
SignIn(u) ==
  /\ cookie.user = None
  /\ cookie' = [cookie EXCEPT !.user = u]
  /\ UNCHANGED tab

\* new_project makes the new one the current one, delete forgets it.
ChosenByHandler(h) ==
  IF request[h].user # cookie.user THEN cookie
  ELSE IF At(h, "inserting") /\ project'[P(h)] = "live" /\ project[P(h)] # "live"
       THEN [cookie EXCEPT !.current = P(h)]
  ELSE IF At(h, "deleting") /\ request'[h].pc = "idle" /\ cookie.current = P(h)
       THEN [cookie EXCEPT !.current = None]
  ELSE cookie

\* A step of the handlers, by the same user in this browser, or by others.
OthersStep ==
  /\ Next
  /\ tab' = SeenByTabs
  /\ cookie' \in {cookie} \cup {ChosenByHandler(h) : h \in Handler}

SessionStep(t) ==
  \/ \E page \in {"overview", "logout"} : AskForPage(t, page, None)
  \/ \E page \in {"detail", "switch"}, p \in Project : AskForPage(t, page, SlugOf[p])
  \/ LoadCurrent(t) \/ ResolveGlobal(t) \/ ResolveSlug(t) \/ ResolveLogout(t)
  \/ ReadPage(t) \/ RespondToTab(t)

SessionNext ==
  \/ (\E t \in Tab : SessionStep(t)) /\ UNCHANGED vars
  \/ (\E u \in User : SignIn(u)) /\ UNCHANGED vars
  \/ OthersStep

SessionSpec == Init /\ SessionInit /\ [][SessionNext]_<<vars, sessionVars>>

(***************************************************************************)
(* Properties.                                                             *)
(***************************************************************************)
\* A page shows a project that was the user's while it was made, whatever the
\* cookie says that other users, other tabs and deletions have left behind,
\* and its header names the project that it shows.
PagesAgree ==
  \A t \in Tab : TabAt(t, "shown") =>
    /\ tab[t].content \in tab[t].mine
    /\ tab[t].header = tab[t].content

SessionTypeOK ==
  /\ cookie \in Cookie
  /\ \A t \in Tab : tab[t].pc \in TabPC /\ tab[t].page \in Page /\ tab[t].session \in Cookie

\* The browser's state has its types, and its pages agree.
SessionsAreSound == SessionTypeOK /\ PagesAgree
=============================================================================

\* An owner and two others, two projects under one slug, an invitation, two
\* requests at once that may die.
SPECIFICATION AccessSpec
CONSTANTS
  u1 = u1
  u2 = u2
  u3 = u3
  p1 = p1
  p2 = p2
  User = {u1, u2, u3}
  Project = {p1, p2}
  OwnerOf <- OneOwnerOf
  SlugOf <- OneSlug
  Invite = {i1}
  InviteTo <- ToFirst
  InviteRole <- Editor
  Handler = {h1, h2}
  Tab = {t1}
  None = None
SYMMETRY Symmetry
INVARIANTS
  ProjectsAreSound
  InvitesAdmit
  SessionsAreSound
CHECK_DEADLOCK FALSE

\* Account and administration pages: two tabs, three kinds of situations.
SPECIFICATION Spec
CONSTANTS
  t1 = t1
  t2 = t2
  bu = bu
  ba = ba
  bc = bc
  adm = adm
  usr = usr
  guest = guest
  p1 = p1
  p2 = p2
  mem = mem
  k1 = k1
  k2 = k2
  NoRow = NoRow
  Deleted = Deleted
  NoUser = NoUser
  NoTarget = NoTarget
  NoRequest = NoRequest
  Tabs = {t1, t2}
  Browsers = {bu, ba, bc}
  Users = {adm, usr, guest}
  Projects = {p1, p2}
  Members = {mem}
  Keys = {k1, k2}
  Texts = {1, 2}
  HomeProject <- MCHomeProject
  MemberUser <- MCMemberUser
  Person <- MCPerson
  Tours <- MCTours

SYMMETRY MCSymmetry
INVARIANTS
  TypeOK
  NavigationSettles
  ShownRevokedIsDead
  AuditTellsCommitted
  AuditMissesNothing
PROPERTIES
  RoleChangeNeverRevives
  TogglesFollowTheLabel
  RevealKept
  DialogClosesOnSuccess
CHECK_DEADLOCK FALSE

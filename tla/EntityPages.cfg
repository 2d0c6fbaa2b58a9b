\* The entity pages: review, list, details, edit form and bundle.
SPECIFICATION Spec
CONSTANTS
  t1 = t1
  t2 = t2
  adm = adm
  usr = usr
  e1 = e1
  e2 = e2
  n1 = n1
  n2 = n2
  x = x
  y = y
  a1 = a1
  a2 = a2
  c1 = c1
  w = w
  NoEntity = NoEntity
  NoRequest = NoRequest
  Tabs = {t1, t2}
  People = {adm, usr}
  Admins = {adm}
  Order <- MCOrder
  Shared = {e1}
  Tags = {x, y}
  Aliases = {a1, a2}
  Contexts = {c1}
  Texts = {w}
  PageSize = 1
  Tours <- MCTours

INVARIANTS
  TypeOK
  DismissedWasDecided
  DetailAgrees
  NoEmptyPage
PROPERTIES
  ClosedMeansTagged
  PendingEnds
CHECK_DEADLOCK FALSE

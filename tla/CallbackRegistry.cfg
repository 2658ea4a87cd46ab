CONSTANTS
  c1 = c1
  c2 = c2
  c3 = c3
  w1 = w1
  w2 = w2
  n1 = n1
  Clients = {c1, c2, c3}
  Workers = {w1, w2}
  Notifiers = {n1}
  None = None
  StrayIds <- StrayIdsDef
  MaxObservers = 1
  MaxMisses = 3
SPECIFICATION Spec
SYMMETRY Symmetric
INVARIANTS
  TypeOK
  NoLiveOverwrite
  CookieOwnsSlot
  NoStaleEntry
  MissesBounded
  DownNeedsRemoval
\* the service may die and every client may be gone
CHECK_DEADLOCK FALSE

SPECIFICATION Spec
CONSTANTS
  Tables = {t1, t2, t3}
  Sections = {"a", "b"}
  Waiters = {w1, w2}
  Hosts = {p1, p2}
  MaxServices = 2
  MaxChanges = 3
  Seatings = {s1, s2}
  Diners = {p1, p2}
  Clients = {r1}
  PartySizes = {2}
  JoinLimit = 1
  MaxItems = 1
  MaxOrders = 2
  MaxChecks = 2
  MaxEdits = 1
SYMMETRY Symmetry
CONSTRAINT CodesFirst
INVARIANTS FloorIsSound 
PROPERTIES ServedGroupStands VersionNamesContent
CHECK_DEADLOCK FALSE

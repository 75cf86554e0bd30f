SPECIFICATION Spec
CONSTANTS
  s1 = s1
  a1 = a1
  d1 = d1
  u1 = u1
  u2 = u2
  k1 = k1
  k2 = k2
  Users = {s1, a1, d1, u1, u2}
  Companies = {k1, k2}
  Vehicles = {v1, v2}
  Emails = {"n"}
  Names = {"N"}
  Plates = {"P"}
  Accounts <- MCAccounts
  Operators <- MCOperators
  Nobody = Nobody
  Nothing = Nothing
  Slots = {p1, p2}
  MaxRequests = 3
  Sockets = {b1}
SYMMETRY Symmetry
CHECK_DEADLOCK FALSE
INVARIANTS
  PagesKeepTheirPromises
  LateRequestsRefused
  SuspendedSocketsRaced


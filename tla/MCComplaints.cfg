SPECIFICATION FairSpec
CONSTANTS
  d1 = d1
  o1 = o1
  s1 = s1
  coA = coA
  Drivers = {d1}
  Operators = {o1}
  Admins = {}
  SuperAdmins = {s1}
  Companies = {coA}
  CompanyOf <- MCCompanyOf
  Readers = {d1}
  Complaints = {c1, c2}
  Slots = {p1, p2}
  Categories = {"payment_issue"}
  Priorities = {"high"}
  Texts = {"short", "long"}
  MaxRequests = 3
  Stored <- MCStored
  c1 = c1
CHECK_DEADLOCK FALSE
INVARIANTS
  StatusIsLastEntry
  ResolvedIsExplained
  OffersAccepted
  EveryMoveIsTold
  OncePerEvent
PROPERTIES
  HistoryIsAppendOnly
  ResolvedIsNotLimbo

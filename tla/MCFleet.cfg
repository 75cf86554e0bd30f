SPECIFICATION FairSpec
CONSTANTS
  coA = coA
  coB = coB
  Companies = {coA, coB}
  Platform = Platform
  Ids <- MCIds
  Values <- MCValues
  Stored <- MCStored
  Slots = {p1, p2}
  MaxRequests = 2
  MaxReports = 2
CHECK_DEADLOCK FALSE
INVARIANTS
  MarkersAgreeWithPlugs
  IdentitiesUnique
PROPERTIES
  ActivationNeverUnprices
  ReportsOutliveSaves
  MachineFaultEndsSessions

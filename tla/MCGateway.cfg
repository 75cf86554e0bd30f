SPECIFICATION FairSpec
CONSTANTS
  MaxSocket = 2
  Calls = {c1}
CHECK_DEADLOCK FALSE
INVARIANTS
  OpenIsRegistered
  RevokedTokenNotAdmitted
PROPERTIES
  SettledOnce
  CallsSettle
  MirrorHealsOnline
  DeadLinksLeave

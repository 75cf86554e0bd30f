SPECIFICATION Spec
CONSTANTS
  Pages = {"session", "monitor"}
  MaxWrites = 2
  MaxOpens = 2
  MaxDrops = 2
  MaxLogins = 2
  MaxFailures = 1
CHECK_DEADLOCK FALSE
INVARIANTS
  OneListener
  NothingMissed
PROPERTIES
  LoadsNeverGoBack

SPECIFICATION Spec
CONSTANTS
  d1 = d1
  s1 = s1
  s2 = s2
  r1 = r1
  r2 = r2
  Drivers = {d1}
  Sessions = {s1, s2}
  Recharges = {r1}
  NoSession = NoSession
  NoRecharge = NoRecharge
  WalletOf <- OneWallet
  Amount <- Prices
  Slots = {p1, p2}
  Sweeper = Sweeper
  Batch = 1
  MaxAborts = 1
  MaxCrashes = 1
SYMMETRY SlotSymmetry
INVARIANTS
  TypeOK
  SettledOnce
  CreditedOnce
  LedgerChained
  ProjectionAgreesUntilAbort
PROPERTY
  ImplementsAccounts
CHECK_DEADLOCK FALSE

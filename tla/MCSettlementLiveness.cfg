SPECIFICATION FairSpec
CONSTANTS
  d1 = d1
  s1 = s1
  s2 = s2
  r1 = r1
  r2 = r2
  Drivers = {d1}
  Sessions = {s1, s2}
  Recharges = {r1}
  NoSession = NoSession
  NoRecharge = NoRecharge
  WalletOf <- OneWallet
  Amount <- UnequalPrices
  Slots = {p1}
  Sweeper = Sweeper
  Batch = 1
  MaxAborts = 0
  MaxCrashes = 1
PROPERTIES
  OrphansAttempted
  DebtsCollected
CHECK_DEADLOCK FALSE

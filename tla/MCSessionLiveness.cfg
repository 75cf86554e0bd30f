SPECIFICATION FairSpec
CONSTANTS
  Sessions = {s1}
  Drivers = {d1}
  NoDriver = NoDriver
  Connectors = {c1}
  NoConnector = NoConnector
  ch1 = ch1
  ch2 = ch2
  Chargers = {ch1}
  NoCharger = NoCharger
  ChargerOf <- OneCharger
  NoSession = NoSession
  Slots = {p1}
  Sweeper = Sweeper
  PricePerKwh = 1500
  MaxMeter = 1
  MaxTxn = 2
  MaxFaults = 1
  MaxRestarts = 1
  ResendStart = TRUE
PROPERTIES
  UnconfirmedSessionsResolved
  HandlersFinish
CHECK_DEADLOCK FALSE

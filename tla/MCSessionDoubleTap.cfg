SPECIFICATION Spec
CONSTANTS
  Sessions = {s1, s2}
  Drivers = {d1}
  NoDriver = NoDriver
  Connectors = {c1, c2}
  NoConnector = NoConnector
  ch1 = ch1
  ch2 = ch2
  Chargers = {ch1}
  NoCharger = NoCharger
  ChargerOf <- OneCharger
  NoSession = NoSession
  Slots = {p1, p2}
  Sweeper = Sweeper
  PricePerKwh = 1500
  MaxMeter = 0
  MaxTxn = 0
  MaxFaults = 0
  MaxRestarts = 0
  ResendStart = FALSE
SYMMETRY Symmetry
INVARIANTS
  OneOpenSessionPerDriver
CHECK_DEADLOCK FALSE

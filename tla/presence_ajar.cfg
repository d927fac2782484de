CONSTANTS
  Timers = {t1}
  Clients = {c1}
  CardphoneWait = 1
  MovementWait = 2
  MaxOperations = 2
  MaxFaults = 0
SPECIFICATION Spec
INVARIANTS
  AjarAndUnlockedIsPresence

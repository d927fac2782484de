CONSTANTS
  Timers = {t1}
  Clients = {c1, c2}
  CardphoneWait = 1
  MovementWait = 2
  MaxOperations = 1
  MaxFaults = 1
SPECIFICATION Spec
INVARIANTS
  ClientsAreCurrent
  ScheduledIsPending
SYMMETRY Symmetry

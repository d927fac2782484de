CONSTANTS
  Timers = {t1}
  Clients = {c1}
  CardphoneWait = 1
  MovementWait = 1
  MaxOperations = 1
  MaxFaults = 1
SPECIFICATION FairSpec
PROPERTIES
  PresenceFollowsDoor

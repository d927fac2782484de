CONSTANTS
  Threads = {door, sensor, timer, main}
  Updaters = {door, sensor}
  FileMayVanish = TRUE
  MaxChanges = 2
SPECIFICATION FairSpec
INVARIANTS
  NoMissedWakeup
  ParsedAlone
PROPERTIES
  EveryoneGetsIn
CHECK_DEADLOCK FALSE

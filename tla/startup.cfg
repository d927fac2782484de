CONSTANTS
  BufSize = 6
  Words <- MCWords
  Dashed <- OptionWords
  PairOf <- MCPairOf
  ConfOf <- MCConfOf
  Worlds <- MCWorlds
  Nothing = Nothing
  Limits = {3, 7, 12}
  MaxFaults = 1
  Leftovers = {0, 1}
SPECIFICATION Spec
INVARIANTS
  KeysMatchValues
  FilesAreRead
  LinesReachTargets
  LogStaysOffTheWire
  ServesAsTold
  NothingLeaks

CONSTANTS
  DeviceNum = 2
  Delay <- MCDelay
  Exiting = {SIGTERM, SIGINT}
  Harmless = {SIGHUP}
  Term = SIGTERM
  PipeSize = 1
  MayVanish = TRUE
  MaxOrders = 3
  MaxSignals = 2
  SIGTERM = SIGTERM
  SIGINT = SIGINT
  SIGHUP = SIGHUP
  BufferSize = 4
  Interval = 1
  ServerLines <- MCServerLines
  MaxLines = 2
  MaxDrops = 1
  MaxOpened = 2
  MaxTyped = 2
  MaxSaid = 2
  MaxTrouble = 1
SPECIFICATION MCSpec
INVARIANTS
  TypesOK
  NoSignalLost
  SamplesWhatWasSaid
  RelayedInOrder
PROPERTIES
  SpacedSamples
  SignalEnds
  SamplesKeepComing
  ImplementsSource
  KeepsConnection

CONSTANTS
  Conns = {c1, c2}
  NoConn = NoConn
  ClientFds <- OneDescriptor
  Lines <- FaultLines
  SampleLines <- ChildLines
  Replies <- FaultAnswers
  Unsolicited <- Silence
  HasAutosample = TRUE
  Slow = TRUE
  ReadFailures <- EofOrError
  MaxLines = 2
  MaxNoise = 0
  MaxHangups = 1
  MaySignal = TRUE
  MayDie = TRUE
SPECIFICATION Spec
SYMMETRY Symmetry
INVARIANTS
  ChildInStep
PROPERTIES
  ValidCommandsAreWritten

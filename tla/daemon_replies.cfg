CONSTANTS
  Conns = {c1}
  NoConn = NoConn
  ClientFds <- OneDescriptor
  Lines <- LiveLines
  SampleLines <- NoLines
  Replies <- Answers
  Unsolicited <- Movement
  HasAutosample = FALSE
  Slow = TRUE
  ReadFailures <- EofOnly
  MaxLines = 2
  MaxNoise = 1
  MaxHangups = 0
  MaySignal = FALSE
  MayDie = FALSE
SPECIFICATION Spec
INVARIANTS
  PowerRepliesAreOkOrError

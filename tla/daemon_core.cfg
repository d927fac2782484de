CONSTANTS
  Conns = {c1, c2}
  NoConn = NoConn
  ClientFds <- TwoDescriptors
  Lines <- CoreLines
  SampleLines <- NoLines
  Replies <- Answers
  Unsolicited <- Movement
  HasAutosample = FALSE
  Slow = TRUE
  ReadFailures <- EofOnly
  MaxLines = 2
  MaxNoise = 1
  MaxHangups = 0
  MaySignal = FALSE
  MayDie = FALSE
SPECIFICATION Spec
SYMMETRY Symmetry
INVARIANTS
  TypeOK
  QueueDiscipline
  LiveIssuerGetsReply
  MarkedStayReadable
PROPERTIES
  EveryListenerOnce

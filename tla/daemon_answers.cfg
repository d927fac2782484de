CONSTANTS
  Conns = {c1, c2}
  NoConn = NoConn
  ClientFds <- TwoDescriptors
  Lines <- AnswerLines
  SampleLines <- NoLines
  Replies <- Answers
  Unsolicited <- Movement
  HasAutosample = FALSE
  Slow = TRUE
  ReadFailures <- EofOnly
  MaxLines = 2
  MaxNoise = 1
  MaxHangups = 1
  MaySignal = FALSE
  MayDie = FALSE
SPECIFICATION Spec
SYMMETRY Symmetry
INVARIANTS
  AnswersMatchCommands
PROPERTIES
  ImplementsService

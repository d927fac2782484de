CONSTANTS
  Conns = {c1, c2}
  NoConn = NoConn
  ClientFds <- TwoDescriptors
  Lines <- QuietLines
  SampleLines <- ChildLines
  Replies <- Answers
  Unsolicited <- Silence
  HasAutosample = TRUE
  Slow = TRUE
  ReadFailures <- EofOnly
  MaxLines = 2
  MaxNoise = 0
  MaxHangups = 1
  MaySignal = TRUE
  MayDie = FALSE
SPECIFICATION FairSpec
PROPERTIES
  QueueDrains
  
  SignalEndsDaemon
  SamplingFollowsListeners

CONSTANTS
  W = 8
  Timeouts = 1
  Applications <- Uses
  MaxSends = 3
  Requests <- Waits
  Characters = {"a", "b", "0"}
  NUL = "0"
  MaxStrLength = 4
  Overrun = 2
  Machine = {m1, m2, m3}
  Signal = {s1, s2, s3, reserved}
  Reserved = {reserved}
  Q_FSM_PS_SIGNALS_MAX = 2
  Q_FSM_PS_SUB_PER_SIGNAL_MAX = 2
  NONE = none
  LeavesAnyRow = FALSE
  Configs <- MCConfigs
  PinNumber <- MCNumber
  PinValues <- MCPinValues
  Settings <- MCSettings
  DigitalReader = TRUE
  AnalogReader = TRUE
  Clocks = 3
  Width = 8
  CountLimit = 4
  DebounceTime = 1
  Lines <- MCLines
  Blocks <- MCBlocks
  Offered <- MCOffered
  Lower <- MCLower
  Graph = {"a", "A", "t", "x", "y", "i", "d", "b", "c", "=", "?", ","}
  AT <- MCAT
  ATID <- MCATID
  MaxIndex = 6
  MaxNotif = 1
SPECIFICATION MCSpec
INVARIANTS ElapsedIsAge ExpiresOnTime AcceptedKept DeliveredInOrder SendTellsAllSubscribers MatchFollowsPeer
  ExecutesWhatWasSent SharedReadsFirst ArgumentsReadBack
PROPERTIES FiresOncePerInterval StoppedStaysSilent TimeoutReported TimedRequestEnds ReadyLineTaken EventsTruthful

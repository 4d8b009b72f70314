CONSTANTS
  Programs <- Sender
  InitialCount <- NoSemaphore
  Handled = {}
  FromHandlers = FALSE
  MaxTime = 2
SPECIFICATION CoSpec
PROPERTIES TimedWaitEnds

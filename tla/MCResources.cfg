CONSTANTS
  node1 = node1 node2 = node2 node3 = node3 t1 = t1 t2 = t2 null = null
  Item = {1, 2, 3, 4, 5}
  NoItem = null
  MaxCount = 3
  Threshold = 2
  MaxSends = 5
  Applications <- Receivers
  Task = {t1, t2}
  Data = {d1, d2}
  Size = 3
  NoEntry = null
  Uses <- Notifiers
  MaxDepth = 2
  BLOCK_ALLOCATED_BIT = 128
  Align = 4
  SizeofBlock = 8
  Bases = {1, 4}
  PoolSize = 92
  Requests = {1, 8, 17, 30, 240, 250}
  MaxLive = 4
  Node = {node1, node2, node3}
  Key <- Keys
  Lists = {"L", "M"}
  Nothing = null
  Programs <- Routines
  InitialCount <- Counts
  Handled = {"p", "j"}
  FromHandlers = FALSE
  MaxTime = 2
SPECIFICATION MCSpec
INVARIANTS ServedInOrder LiveCellsFilled ListsAreSequences WalkVisitsAll PoolSound
  SectionsProtect
PROPERTIES ImplementsDeque PeekedSlotKept AllServed ImplementsPriorityFifo WaitsHold
CHECK_DEADLOCK FALSE

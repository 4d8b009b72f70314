CONSTANTS
  Machine = {m1, m2}
  Signal = {s1, s2}
  Reserved = {}
  Q_FSM_PS_SIGNALS_MAX = 2
  Q_FSM_PS_SUB_PER_SIGNAL_MAX = 2
  NONE = none
  LeavesAnyRow = TRUE
SPECIFICATION PublisherSpec
INVARIANTS SendTellsAllSubscribers

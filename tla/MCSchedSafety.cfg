CONSTANTS
  t1 = t1 t2 = t2 t3 = t3 d1 = d1 d2 = d2
  Task = {t1, t2, t3}
  Data = {d1, d2}
  NoEntry = NoEntry Idle = Idle None = None
  MaxPriority = 1
  MaxNotif = 1
  MaxEntry = 3
  Size = 2
  Applications <- Safety
SPECIFICATION Spec
INVARIANTS OneListEach
PROPERTIES NoneLost DispatchByPrecedence QueuedDataIntact IterationsHonoured IdleOnlyWhenNothingReady

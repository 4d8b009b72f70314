CONSTANTS
  Task = {t1, t2}
  Data = {d1, d2}
  Size = 3
  NoEntry = null
  Uses <- TwoLevels
SPECIFICATION NotifySpec
PROPERTIES ServedByPriority

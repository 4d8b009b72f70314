CONSTANTS
  top = top a = a b = b c = c d = d e = e
  State = {top, a, b, c, d, e}
  Top = top
  Null = Null
  MaxNestDepth = 4
  Charts <- Defaults
SPECIFICATION Spec
PROPERTIES DefaultAtEveryLevel

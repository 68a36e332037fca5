CONSTANTS
  Readers = {r1, r2}
  Writers = {w1}
  Values = {a}
  Empty = Empty
  Torn = Torn
  NoThread = NoThread
SPECIFICATION FairSpec
PROPERTY GetReturns
CHECK_DEADLOCK FALSE

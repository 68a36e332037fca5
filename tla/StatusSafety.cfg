CONSTANTS
  Readers = {r1, r2}
  Writers = {w1, w2}
  Values = {a, b}
  Empty = Empty
  Torn = Torn
  NoThread = NoThread
SPECIFICATION FairSpec
INVARIANT Coherent
PROPERTIES Safe CallsReturnAlone
CHECK_DEADLOCK FALSE

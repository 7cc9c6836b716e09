CONSTANTS
  w1 = w1
  w2 = w2
  r1 = r1
  Words = {w1, w2}
  Values = {0, 1}
  Initial <- AllZero
  Readers = {r1}
  MaxVersion = 6
SPECIFICATION FairSpec
PROPERTIES
  ReadsAreAtomic
  SpinReadReturns
CHECK_DEADLOCK FALSE

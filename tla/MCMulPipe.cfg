SPECIFICATION MulFairSpec
CONSTANTS
  N = 3
  MaxSent = 13
  Muls = {2, 3, 5, 7, 8, 12}
INVARIANTS MulTypeOK EachInOneFifo OwnProduct
PROPERTIES InOrder AllWrittenBack

SPECIFICATION FairSpec
CONSTANTS
  Width = 3
  Numbers = {0, 1, 3, 4, 7}
INVARIANTS TypeOK DivisionRight
PROPERTY DivisionEnds

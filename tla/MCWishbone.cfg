CONSTANTS
  RamMax = 1
  LedBase = 2
  LedEnd = 3
  Data = {0, 1}
  Patient = TRUE
SPECIFICATION Spec
INVARIANTS TypeOK SlavesAgree
PROPERTIES OwnData BothServed

SPECIFICATION FairSpec
CONSTANTS
  Kinds = {"plain", "load", "ecall", "mret", "csr"}
  CsrWrites <- AllWrites
  CounterMax = 3
  CacheStall = {FALSE, TRUE}
INVARIANTS TypeOK DecodedInMode
PROPERTIES MppIsOldMode CauseNamesMode OneInterruptPerExpiry InterruptComes

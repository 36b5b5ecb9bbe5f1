SPECIFICATION FairSpec
CONSTANTS
  Regs = {0, 1}
  Mixes <- MCMixes
INVARIANTS TypeOK Rs1InOrder Rs2InOrder RegistersUpToDate
PROPERTY ExeMovesOn

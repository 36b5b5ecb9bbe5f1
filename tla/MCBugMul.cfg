SPECIFICATION Spec
CONSTANTS
  Regs = {0, 1}
  Mixes <- MCMulMix
INVARIANTS Rs1InOrder

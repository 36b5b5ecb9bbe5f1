SPECIFICATION Spec
CONSTANTS
  W = 4
  Adr = {0, 1, 2, 3, 4, 5, 6, 7}
  Narrow = {0, 1, 2, 3, 4}
INVARIANTS ResultsRight BranchesRight MiniResultsRight ProductsRight
PROPERTY AsBytes

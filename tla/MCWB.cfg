SPECIFICATION Spec
CONSTANTS
  Adr = {0, 1, 2}
  Data = {0}
PROPERTY AccessesInOrder

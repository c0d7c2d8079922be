SPECIFICATION Spec
CONSTANTS
  a = a
  b = b
  c = c
  Keys = {a, b, c}
  Sizes = {0, 1, 2, 3}
  Times = {1, 2, 3}
  maxBytes = 4
  MaxDrift = 4
SYMMETRY Symmetry
INVARIANTS NeverOvercounts CountWithinBudget

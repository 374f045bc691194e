SPECIFICATION Spec
CONSTANTS
  Aggs = {a1, a2}
  Changes = {c1, c2, c3}
  MaxFaults = 3
SYMMETRY Symmetry
INVARIANTS
  Consistent
  NoSilentLoss

SPECIFICATION Spec
CONSTANTS
  Names = {m, n}
  Labels = {k, l}
  Notes = {x}
  m = m
  n = n
  k = k
  l = l
  x = x
  Rows = 1
  MaxChanges = 3
SYMMETRY Symmetry
CONSTRAINT Distinct
INVARIANTS
  TypeOK
  RevertRestores
  BystandersKept
  ReplayReproduces

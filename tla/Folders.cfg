SPECIFICATION Spec
CONSTANTS
  h1 = h1
  h2 = h2
  d1 = d1
  d2 = d2
  x = x
  None = None
  Handles = {h1, h2}
  Dirs = {d1, d2}
  Names = {x}
  Targets <- Apart
  Inodes = {i1, i2, i3, i4, i5}
  QuotaFiles = 2
SYMMETRY Symmetry
INVARIANTS TypeOK CountsWhatStayed TempTraced
PROPERTIES CommitsOwnFile

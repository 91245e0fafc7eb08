SPECIFICATION Spec
CONSTANTS
  Parts = {"a", "data", ".", "..", ""}
  MaxParts = 5
  DataRoots <- MCDataRoots
  Subdirs <- MCSubdirs
  User = "user"
INVARIANTS RefusesExactly ResolvesInside RelNamesTheFile SameSecret
CHECK_DEADLOCK FALSE

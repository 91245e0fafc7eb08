SPECIFICATION Spec
CONSTANTS
  h1 = h1
  h2 = h2
  s1 = s1
  s2 = s2
  p1 = p1
  p2 = p2
  None = None
  SessionOf <- OneSession
  Targets <- OneHandleAnyPath
  CmdNames <- Finals
  Sessions = {s1}
  Handles = {h1}
  Paths = {p1, p2}
  Inodes = {i1, i2, i3, i4}
  MaxLen = 2
  QuotaBytes = 2
  QuotaFiles = 0
  Pipelined = TRUE
  DiskFaults = FALSE
  CanDie = {}
SYMMETRY InodeSymmetry
INVARIANTS UploadWithinQuota

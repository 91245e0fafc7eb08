SPECIFICATION Spec
CONSTANTS
  alice = alice
  bob = bob
  key = key
  other = other
  Users = {alice}
  BadName = BadName
  Blank = Blank
  Malformed = Malformed
  Keys = {key, other}
  BadRoot = BadRoot
  Empty = Empty
  OwnQuotas = OwnQuotas
  Unset = Unset
  Text = Text
  None = None
  Deleted = Deleted
  Reqs = {r1, r2}
  Bodies = {}
  Patches <- MCPatchesApart
  Filters = {}
  OperatorWrites <- MCSeed
  MaxTries = 1
  Overlap = TRUE
PROPERTIES PatchIsPartial

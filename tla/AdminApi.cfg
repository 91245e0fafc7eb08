SPECIFICATION Spec
CONSTANTS
  alice = alice
  bob = bob
  key = key
  other = other
  Users = {alice, bob}
  BadName = BadName
  Blank = Blank
  Malformed = Malformed
  Keys = {key, Blank}
  BadRoot = BadRoot
  Empty = Empty
  OwnQuotas = OwnQuotas
  Unset = Unset
  Text = Text
  None = None
  Deleted = Deleted
  Reqs = {r1, r2}
  Bodies <- MCBodies
  Patches <- MCPatches
  Filters <- MCFilters
  OperatorWrites <- MCOperatorWrites
  MaxTries = 2
  Overlap = FALSE
INVARIANTS TypeOK ServerAgrees ListingExact
PROPERTIES ImplementsDirectory PatchSparesTheRest
SYMMETRY Symmetry

SPECIFICATION SessionFairSpec
CONSTANTS
  c1 = c1
  k1 = k1
  key = key
  other = other
  Users = {u1}
  Records <- MCRecords
  Calls = {c1, k1}
  TTL = 2
  VaultTimeout = 1
  MaxTime = 2
  None = None
  Conns = {c1}
  Channels = {k1}
  ConnOf <- MCConnOf
  Keys = {key, other}
  MaxAuthTries = 2
  Buffer = 0
INVARIANTS TypeOK BoundedStaleness ExpiryBacked SessionTypeOK AdmittedRightly ServedRightly
PROPERTIES SessionsEnd ChannelsEnd ShutdownEnds

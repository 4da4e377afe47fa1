CONSTANTS
  c1 = c1
  c2 = c2
  k0 = k0
  k1 = k1
  k2 = k2
  kLong = kLong
  v1 = v1
  v4 = v4
  vLong = vLong
  NoValue = NoValue
  NoRequest = NoRequest
  Junk = Junk
  Client = {c1, c2}
  Key = {k0, k1, k2, kLong}
  Value = {v1, v4, vLong}
  UserKey = {k1, kLong}
  UserValue = {v1, v4, vLong}
  KeyLen <- MCKeyLen
  ValueLen <- MCValueLen
  MAX_STR_LEN = 4
  MaxCalls = 2
  MaxSignals = 0
  MaxQuits = 0
  MaxRefused = 0
SPECIFICATION Spec
CHECK_DEADLOCK FALSE
INVARIANTS TypeOK OneAtATime InStep
PROPERTIES CallsReturn ImplementsKeyValue

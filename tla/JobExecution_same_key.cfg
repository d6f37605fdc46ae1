CONSTANTS
  j1 = j1
  j2 = j2
  k1 = k1
  k2 = k2
  alice = alice
  bob = bob
  Jobs = {j1}
  Keys = {k1, k2}
  Users = {alice, bob}
  SecurityUsers = {bob}
  Requests = {r1, r2}
  Calls <- OneKeyCalls
  MaxAttempts = 1
  MaxFaults = 0
  Null = Null
SPECIFICATION Spec
INVARIANT
  SameKeySameResult
CHECK_DEADLOCK FALSE

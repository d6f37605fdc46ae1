CONSTANTS
  j1 = j1
  j2 = j2
  k1 = k1
  k2 = k2
  alice = alice
  bob = bob
  Jobs = {j1}
  Keys = {k1, k2}
  Users = {alice, bob}
  SecurityUsers = {bob}
  Requests = {r1, r2, r3}
  Calls <- RaceCalls
  MaxAttempts = 2
  MaxFaults = 2
  Null = Null
SYMMETRY RequestSymmetry
SPECIFICATION Spec
INVARIANTS
  CriticalNeverExecutes
  AcceptedIsBacked
  SequentialRerunSkips
  AcknowledgedCancelHolds
  RecordedKeyNeverReruns
  
  EveryRunLeavesATrace
CHECK_DEADLOCK FALSE

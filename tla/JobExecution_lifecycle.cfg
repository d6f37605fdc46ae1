CONSTANTS
  j1 = j1
  j2 = j2
  k1 = k1
  k2 = k2
  alice = alice
  bob = bob
  Jobs = {j1, j2}
  Keys = {k1, k2}
  Users = {alice, bob}
  SecurityUsers = {bob}
  Requests = {r1, r2}
  Calls <- TwoJobCalls
  MaxAttempts = 2
  MaxFaults = 1
  Null = Null
SPECIFICATION FairSpec
INVARIANTS
  AnswersNameRunsOfTheJob
PROPERTIES
  ImplementsLifecycle
  EveryRequestSettles
CHECK_DEADLOCK FALSE

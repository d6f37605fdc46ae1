CONSTANTS
  alice = alice
  bob = bob
  t1 = t1
  t2 = t2
  Users = {alice, bob}
  Tabs = {t1, t2}
  Calls = {1, 2, 3, 4}
  Plans <- BrowserPlans
  SameOrigin = FALSE
  None = None
SPECIFICATION FairSpec
INVARIANTS
  
  
  TheScreenTellsTheAccount
PROPERTIES
  CallsSettle
CHECK_DEADLOCK FALSE

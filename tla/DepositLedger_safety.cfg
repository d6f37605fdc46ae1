CONSTANTS
  alice = alice
  bob = bob
  stable = stable
  growth = growth
  p = p
  q = q
  Users = {alice, bob}
  Products = {stable, growth}
  Pools = {p, q}
  Requests = {r1, r2, r3, r4}
  Calls <- LedgerCalls
  Clock = {0, 1}
  MaxFaults = 1
SYMMETRY RequestSymmetry
SPECIFICATION Spec
INVARIANTS
  
  
  ErrorLeavesNoRow
PROPERTIES
  
  LastInFirstOut
  ShortfallMeansEmpty
  
  
CHECK_DEADLOCK FALSE

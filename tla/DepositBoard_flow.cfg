SPECIFICATION FairSpec
CONSTANTS
    Calls = {1, 2}
    MaxAttempts = 2
    MaxFaults = 1
    Setups <- MixedSetups
INVARIANTS
    
    
    WalletDepositsAreReported
    BookedOnce
PROPERTIES
    PressSettles
CHECK_DEADLOCK FALSE

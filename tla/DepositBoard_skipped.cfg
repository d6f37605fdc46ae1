SPECIFICATION Spec
CONSTANTS
    Calls = {1}
    MaxAttempts = 1
    MaxFaults = 0
    Setups <- SolanaOnly
INVARIANTS
    SkippedMeansNotSubmitted
CHECK_DEADLOCK FALSE

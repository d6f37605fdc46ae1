SPECIFICATION Spec
CONSTANTS
    Requests = {q1, q2, q3}
    Txs = {t1, t2}
    MaxAmount = 2
    Funds = 3
    MaxInterest = 1
    MaxFaults = 1
SYMMETRY Symmetry
INVARIANTS
    BookedOnce
    PositionsAreConfirmed
    AaveBooksBalance
CHECK_DEADLOCK FALSE

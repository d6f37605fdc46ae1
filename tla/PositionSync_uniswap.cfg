SPECIFICATION Spec
CONSTANTS
    Rows = {r1}
    EvmWallets = {w1}
    SolanaWallets = {s1}
    Requests = {q1}
    Pools = {p1}
    Amounts = {0, 100}
    MaxMoves = 0
INVARIANT UnreadMeansUnreachable
CHECK_DEADLOCK FALSE

SPECIFICATION Spec
CONSTANTS
    Rows = {r1, r2}
    EvmWallets = {w1, w2}
    SolanaWallets = {s1}
    Requests = {q1, q2}
    Pools = {p1}
    Amounts = {0, 100}
    MaxMoves = 1
SYMMETRY Symmetry
INVARIANTS
    ClosedOnlyOnEmptyRead
    AnswersAreCurrent
    NoPoolListedTwice
PROPERTIES
    ClosedRowsStayClosed
    PublicEmptyIsEmpty
CHECK_DEADLOCK FALSE
CONSTRAINT OneOfEach

--------------------------- MODULE MCPositionSync ---------------------------
(* The instances of PositionSync that TLC checks. *)
EXTENDS PositionSync, TLC

Symmetry ==
    Permutations(Rows) \cup Permutations(Requests) \cup Permutations(EvmWallets)

\* Bound: two requests, or two rows that were not closed before.  Rows meet in
\* the balances and scans of one request, requests in the columns of one row.
ClosedBefore(r) ==
    /\ row[r].status = "closed" /\ row[r].data = NoData
    /\ protocol[r] = "Other" /\ hold[home[r]][r] = Gone
OneOfEach ==
    \/ Cardinality({q \in Requests : req[q].stage # "idle"}) <= 1
    \/ Cardinality({r \in Rows : ~ClosedBefore(r)}) <= 1

=============================================================================

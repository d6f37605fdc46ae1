--------------------------- MODULE MCJobExecution ---------------------------
(***************************************************************************)
(* Instances of JobExecution for TLC.  A request touches the rows of its   *)
(* own job only, so one job shows the races; a second one shows that       *)
(* nothing leaks from one job to the other.                                *)
(***************************************************************************)
EXTENDS JobExecution, FiniteSets, TLC

CONSTANTS j1, j2, k1, k2, alice, bob

\* alice executes j1 under either key; bob may cancel it; bob also tries to
\* execute it.
RaceCalls ==
  {[op |-> "execute", job |-> j1, key |-> k, user |-> alice, positionId |-> FALSE] : k \in Keys}
  \cup {[op |-> "cancel", job |-> j1, key |-> k1, user |-> u, positionId |-> FALSE] : u \in Users}
  \cup {[op |-> "execute", job |-> j1, key |-> k1, user |-> bob, positionId |-> TRUE]}

\* The same, by alice alone.
OwnerCalls == {c \in RaceCalls : c.user = alice}

\* Two jobs: alice executes either under either key, bob cancels either.
TwoJobCalls ==
  {[op |-> "execute", job |-> j, key |-> k, user |-> alice, positionId |-> FALSE] : j \in Jobs, k \in Keys}
  \cup {[op |-> "cancel", job |-> j, key |-> k1, user |-> bob, positionId |-> FALSE] : j \in Jobs}

\* One job executed under one key by its owner, and nothing else.
OneKeyCalls == {c \in OwnerCalls : c.op = "execute" /\ c.key = k1}

RequestSymmetry == Permutations(Requests)
=============================================================================

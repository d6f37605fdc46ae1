--------------------------- MODULE MCDepositLedger ---------------------------
(***************************************************************************)
(* An instance of DepositLedger for TLC: two users, two products, two      *)
(* pools; amounts and weights that make partial, exact and excessive       *)
(* withdrawals meet, and weights that do not divide the amounts.           *)
(***************************************************************************)
EXTENDS BrowserLedger, TLC

CONSTANTS alice, bob, stable, growth, p, q

Half  == Lowest(1, 2)
Split == <<[pool |-> p, weight |-> Half], [pool |-> q, weight |-> Half]>>
Loose == <<[pool |-> p, weight |-> Lowest(1, 3)]>>

New(op, user, product, usd, mix, target) ==
  [op |-> op, user |-> user, product |-> product, usd |-> Whole(usd), mix |-> mix, target |-> target]

Deposits ==
  { New("create", alice, stable, 2, Split, {}),
    New("create", alice, growth, 3, Loose, {}),
    New("adjust", alice, stable, 1, Loose, {}) }

Takings ==
  { New("withdraw", alice, stable, 3, <<>>, {}),
    New("withdrawProduct", alice, stable, 1, <<>>, {}),
    New("withdrawProtocol", alice, stable, 1, <<>>, {p}),
    New("reset", alice, stable, 0, <<>>, {}) }

BobsCalls ==
  { New("create", bob, stable, 1, <<>>, {}) }

\* A mix of more than everything, and nothing to withdraw.
BadCalls ==
  { New("create", alice, stable, 1, Split \o Loose, {}), New("withdraw", alice, stable, 0, <<>>, {}) }

LedgerCalls == Deposits \cup Takings \cup BobsCalls \cup BadCalls

RequestSymmetry == Permutations(Requests)
==============================================================================

--------------------------- MODULE MCDepositBoard ---------------------------
(***************************************************************************)
(* Instances of DepositBoard for TLC.  200 USD make an Orca row of 40 USD, *)
(* above the minimum of 25 that the wallet's 8 USD stay below; of 1000 USD *)
(* both are above it.                                                      *)
(***************************************************************************)
EXTENDS DepositBoard

Job(product, mode, deposit, solana, evm, minimum, confirm, uniswap, solanaKey, lacks) ==
    [product |-> product, mode |-> mode, deposit |-> deposit, solana |-> solana, evm |-> evm,
     minimum |-> minimum, confirm |-> confirm, uniswap |-> uniswap, solanaKey |-> solanaKey, lacks |-> lacks]

MixedSetups ==
    { Job("multi-stable", "live", 100000, "linked", TRUE, TRUE, TRUE, TRUE, TRUE, FALSE),
      Job("multi-stable", "live", 20000, "linked", TRUE, TRUE, TRUE, TRUE, FALSE, FALSE),
      Job("multi-stable", "live", 100000, "none", TRUE, FALSE, TRUE, TRUE, TRUE, FALSE),
      Job("multi-stable", "live", 100000, "other", TRUE, FALSE, TRUE, TRUE, FALSE, FALSE),
      Job("multi-balanced", "live", 100000, "linked", FALSE, FALSE, TRUE, FALSE, TRUE, TRUE),
      Job("arb-stable", "live", 100000, "none", TRUE, TRUE, TRUE, TRUE, TRUE, FALSE),
      Job("arb-stable", "live", 100000, "linked", TRUE, TRUE, FALSE, TRUE, TRUE, FALSE),
      Job("sol-stable", "live", 100000, "linked", FALSE, TRUE, TRUE, FALSE, TRUE, TRUE),
      Job("base-stable", "dry-run", 100000, "linked", TRUE, TRUE, FALSE, FALSE, FALSE, FALSE),
      Job("eth-stable", "live", 100000, "linked", TRUE, TRUE, TRUE, TRUE, TRUE, FALSE),
      Job("eth-bluechip", "dry-run", 100000, "none", TRUE, TRUE, TRUE, TRUE, FALSE, FALSE) }

\* The browser has a Solana wallet only.
SolanaOnly == { Job("multi-stable", "live", 100000, "linked", FALSE, TRUE, TRUE, TRUE, TRUE, FALSE) }

=============================================================================

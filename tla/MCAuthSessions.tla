---------------------------- MODULE MCAuthSessions ----------------------------
(***************************************************************************)
(* An instance of AuthSessions for TLC: an Ethereum wallet in two          *)
(* spellings with one prefix, a Solana wallet, and a user with a password. *)
(***************************************************************************)
EXTENDS AuthSessions, TLC

CONSTANTS evm, sol, carol, good, wrong, checksummed, lower, plain, n1, n2, hex

NameOfWallet    == (evm :> "evm_user") @@ (sol :> "wallet_user")
WalletOfAddress == (checksummed :> evm) @@ (lower :> evm) @@ (plain :> sol)
Prefix          == (checksummed :> "0xabcd") @@ (lower :> "0xabcd") @@ (plain :> "Sol111")

ByWallet(spelling, nonce, genuine) ==
  [op |-> "wallet", user |-> NameOfWallet[WalletOfAddress[spelling]], password |-> wrong,
   spelling |-> spelling, nonce |-> nonce, genuine |-> genuine]

ByPassword(op, password) ==
  [op |-> op, user |-> carol, password |-> password, spelling |-> plain, nonce |-> n1, genuine |-> FALSE]

\* The Solana user links the Ethereum address, which its own user may link, too.
Linking ==
  [op |-> "link", user |-> "wallet_user", password |-> wrong,
   spelling |-> lower, nonce |-> n1, genuine |-> FALSE]

AuthCalls ==
  { ByWallet(checksummed, n1, TRUE), ByWallet(lower, n2, TRUE), ByWallet(checksummed, n2, FALSE),
    ByWallet(plain, n1, TRUE),
    ByPassword("register", good), ByPassword("login", good), Linking }

\* The account of the Solana wallet is there from earlier days.
SeededUsers == "wallet_user" :> hex

RequestSymmetry == Permutations(Requests)
==============================================================================

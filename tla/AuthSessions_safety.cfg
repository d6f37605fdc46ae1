CONSTANTS
  evm = evm
  sol = sol
  carol = carol
  good = good
  wrong = wrong
  checksummed = checksummed
  lower = lower
  plain = plain
  n1 = n1
  n2 = n2
  hex = hex
  Users = {"evm_user", "wallet_user", carol}
  Passwords = {good, wrong}
  Random = hex
  Seeded <- SeededUsers
  Wallets = {evm, sol}
  Ethereum = {evm}
  NameOf <- NameOfWallet
  Spellings = {checksummed, lower, plain}
  WalletOf <- WalletOfAddress
  PrefixOf <- Prefix
  Nonces = {n1, n2}
  Requests = {r1, r2, r3}
  Calls <- AuthCalls
  ChallengeTtl = 1
  SessionTtl = 1
  MaxTime = 2
SYMMETRY RequestSymmetry
SPECIFICATION Spec
INVARIANTS
  NonceLogsInOnce
  SessionsAreEarned
  LogoutIsFinal
  OneRegistration
  AnswersAreBacked
CHECK_DEADLOCK FALSE

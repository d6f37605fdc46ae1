----------------------------- MODULE AaveWallet -----------------------------
(***************************************************************************)
(* The unsigned Aave USDC transactions that server/aaveUsdc.ts builds and  *)
(* a wallet signs and sends: an approval when the allowance is too low,    *)
(* then the supply, or a withdrawal.  The builders read the account and    *)
(* answer in one step; until the wallet sends and the chain mines, other   *)
(* transactions may change what was read.                                  *)
(***************************************************************************)
EXTENDS Integers, Sequences

CONSTANTS
    Txs,        \* transaction hashes of supplies and withdrawals
    MaxAmount,  \* bound: the largest amount, in half cents
    Funds,      \* what the wallet has at first
    MaxInterest \* bound: what the pool pays

ASSUME AmountAssumption == MaxAmount \in Nat /\ MaxAmount > 0 /\ Funds \in Nat /\ MaxInterest \in Nat

VARIABLES
    account,    \* record: the wallet's USDC, its allowance and its aUSDC
    tx,         \* [Txs -> record]: what was built under this hash
    receipt,    \* [Txs -> "none" | "success" | "reverted" | "foreign"]: the chain
    mined,      \* history: the successful transactions, in their order
    interest    \* what the pool has paid (bounded)

wallet == <<account, tx, receipt, mined, interest>>

NoTx == [kind |-> "none", amount |-> 0, max |-> FALSE, approve |-> FALSE]

WalletInit ==
    /\ account = [usdc |-> Funds, allowance |-> 0, supplied |-> 0]
    /\ tx = [t \in Txs |-> NoTx]
    /\ receipt = [t \in Txs |-> "none"]
    /\ mined = <<>>
    /\ interest = 0

\* getAaveUsdcPosition; when a read fails the builders throw, and nothing changes.
AccountRead == account

Build(t, built) ==
    /\ tx[t] = NoTx /\ receipt[t] = "none"
    /\ tx' = [tx EXCEPT ![t] = built]
    /\ UNCHANGED <<account, receipt, mined, interest>>

\* buildAaveUsdcSupplyTransactions: refused when the wallet has less.
BuildSupply(t, amount) ==
    /\ AccountRead.usdc >= amount
    /\ Build(t, [NoTx EXCEPT !.kind = "supply", !.amount = amount,
                             !.approve = AccountRead.allowance < amount])

\* buildAaveUsdcWithdrawTransaction: an amount of 0, or all there is, is asked for
\* as the largest number.
BuildWithdraw(t, amount) ==
    Build(t, [NoTx EXCEPT !.kind = "withdraw", !.amount = amount,
                          !.max = amount = 0 \/ amount >= AccountRead.supplied])

\* The approval of a supply sets the allowance.
Approve(t) ==
    /\ tx[t].approve
    /\ tx' = [tx EXCEPT ![t].approve = FALSE]
    /\ account' = [account EXCEPT !.allowance = tx[t].amount]
    /\ UNCHANGED <<receipt, mined, interest>>

\* What the transaction moves, and whether the pool lets it.
Amount(t) == IF tx[t].max THEN account.supplied ELSE tx[t].amount
Succeeds(t) ==
    IF tx[t].kind = "supply"
    THEN Amount(t) <= account.usdc /\ Amount(t) <= account.allowance
    ELSE Amount(t) > 0 /\ Amount(t) <= account.supplied

After(t) ==
    LET a == Amount(t) IN
    IF tx[t].kind = "supply"
    THEN [usdc |-> account.usdc - a, allowance |-> account.allowance - a,
          supplied |-> account.supplied + a]
    ELSE [account EXCEPT !.usdc = @ + a, !.supplied = @ - a]

Mine(t) ==
    /\ tx[t].kind # "none" /\ ~tx[t].approve /\ receipt[t] = "none"
    /\ tx' = [tx EXCEPT ![t].amount = Amount(t)]
    /\ IF Succeeds(t)
       THEN /\ receipt' = [receipt EXCEPT ![t] = "success"]
            /\ account' = After(t)
            /\ mined' = Append(mined, t)
       ELSE receipt' = [receipt EXCEPT ![t] = "reverted"] /\ UNCHANGED <<account, mined>>
    /\ UNCHANGED interest

\* A transaction that was built elsewhere; "foreign" is one of another wallet, or to
\* another contract.
Elsewhere(t) ==
    /\ tx[t] = NoTx /\ receipt[t] = "none"
    /\ \E outcome \in {"success", "reverted", "foreign"} :
          receipt' = [receipt EXCEPT ![t] = outcome]
    /\ UNCHANGED <<account, tx, mined, interest>>

\* aUSDC grows.
Accrue ==
    /\ account.supplied > 0 /\ interest < MaxInterest
    /\ account' = [account EXCEPT !.supplied = @ + 1]
    /\ interest' = interest + 1
    /\ UNCHANGED <<tx, receipt, mined>>

WalletNext ==
    \/ \E t \in Txs :
          \/ \E a \in 1 .. MaxAmount : BuildSupply(t, a)
          \/ \E a \in 0 .. MaxAmount : BuildWithdraw(t, a)
          \/ Approve(t) \/ Mine(t)
    \/ Accrue

\* checkAaveUsdcTransaction: a transaction that failed reads as pending.
Checked(t) == IF receipt[t] \in {"success", "foreign"} THEN "confirmed" ELSE "pending"

=============================================================================

---------------------------- MODULE DepositBoard ----------------------------
(***************************************************************************)
(* A deposit from the browser to the chains: OrchestratorBoard.tsx, the    *)
(* wallet's Orca deposits of lib/orcaWalletExecution.ts, and the server's  *)
(* execution, AdapterRun.  One board, one job, several presses of its      *)
(* button "6. Execute".                                                    *)
(*                                                                         *)
(* A press is an asynchronous function that captured the state of the      *)
(* screen when it was called.  The plan and the password dialogs cover the *)
(* board; otherwise the button stays usable, also while a press is waiting *)
(* for the server and after the job is done.  Presses are the calls of     *)
(* AdapterRun: each sends one at most, under the one key of the job.       *)
(***************************************************************************)
EXTENDS AdapterRun

CONSTANT Setups   \* jobs and environments: see TypeOfSetup

VARIABLES
    board,    \* the state of the component, and its call that books the deposit
    press     \* [Calls -> record]: one run of onExecute and what follows it

vars == <<setup, exec, uni, orca, event, ledger, moved, faults, overlapped, board, press>>

\* solana: whether Phantom is connected, and with a wallet linked to the account;
\* evm: whether an EVM wallet is; minimum: the Orca minimum is applied; confirm,
\* uniswap and solanaKey: the server's LIVE_EXECUTION_CONFIRM, ENABLE_UNISWAP_LIVE
\* and Solana key; lacks: the wallet has only one of the two tokens of an Orca pool.
\* The deposit is in cents.
TypeOfSetup ==
    [product : {"multi-stable", "multi-balanced", "arb-stable", "base-stable", "sol-stable",
                "eth-stable", "eth-bluechip"},
     mode : {"dry-run", "live"}, deposit : Nat, solana : {"none", "other", "linked"}, evm : BOOLEAN,
     minimum : BOOLEAN, confirm : BOOLEAN, uniswap : BOOLEAN, solanaKey : BOOLEAN, lacks : BOOLEAN]

ASSUME SetupAssumption == Setups \subseteq TypeOfSetup

-----------------------------------------------------------------------------
(* What the screen shows.                                                  *)

\* buildExecutionPreviewRows.  It has no table for Ethereum.
PreviewTable(product) ==
    CASE product = "base-stable" ->
             AaveTable(product) \cup {Row("Uniswap", "Base", "ETH-USDC_LP", 30),
                                      Row("Uniswap", "Base", "USDC-USDT_LP_(0.01%)", 20)}
      [] product \in {"eth-stable", "eth-bluechip"} ->
             {Row("Aave", "Arbitrum", "USDC_Supply", 20), Row("Aave", "Base", "USDC_Supply", 15),
              Row("Uniswap", "Arbitrum", "USDC-USDT_LP", 25),
              Row("Uniswap", "Arbitrum", "ETH-USDC_LP_route", 15),
              Row("Orca", "Solana", "USDC-USDT", 20)}
      [] OTHER -> AaveTable(product) \cup UniswapTable(product) \cup OrcaRows(product)

\* quoteRows: the last result, else the preview.
QuoteRows == IF board.result # {} THEN board.result
             ELSE Results(PreviewTable(setup.product), "quoted")

\* protocolReadiness
IsReady(row) ==
    /\ row.protocol \notin {"Aerodrome", "Raydium", "Curve"}
    /\ IF row.chain = "Solana" THEN setup.solana # "none" ELSE setup.evm
    /\ Live /\ row.protocol = "Orca" /\ setup.minimum => row.usd >= OrcaMinimum

ReadyRows(rows) == {row \in rows : IsReady(row)}
Keys(rows) == {Key(row) : row \in rows}

-----------------------------------------------------------------------------
NoPress == [pc |-> "idle", quote |-> {}, rows |-> {}, paid |-> {}, landed |-> FALSE,
            pre |-> FALSE, restarts |-> 0, trouble |-> 0]

Init ==
    /\ setup \in Setups
    /\ board = [job |-> FALSE, reviewed |-> FALSE, modal |-> 0, booking |-> "no", result |-> {}]
    /\ press = [p \in Calls |-> NoPress]
    /\ ServerInit

At(p, pc) == press[p].pc = pc
Goto(p, pc) == press' = [press EXCEPT ![p].pc = pc]
Fault == faults < MaxFaults /\ faults' = faults + 1
Known == board.booking = "known"     \* preCreatedPositionId is set

-----------------------------------------------------------------------------
(* Creating and reviewing the job.                                         *)

\* Server jobs need a wallet that is connected (canUseServerJobs).
HasWallet == setup.solana # "none" \/ setup.evm

\* onCreateJob; the deposit position is asked for next.
CreateJob ==
    /\ ~board.job /\ HasWallet
    /\ board' = [board EXCEPT !.job = TRUE, !.booking = "sent"]
    /\ UNCHANGED <<setup, server, ledger, moved, faults, overlapped, press>>

\* createDepositPositionRemote: the server inserts the row and answers, unless
\* something fails, which the board ignores.
InsertPosition ==
    /\ board.booking = "sent"
    /\ board' = [board EXCEPT !.booking = "inserted"]
    /\ ledger' = ledger \cup {0}
    /\ UNCHANGED <<setup, server, moved, faults, overlapped, press>>

InsertFails ==
    /\ board.booking = "sent" /\ Fault
    /\ board' = [board EXCEPT !.booking = "failed"]
    /\ UNCHANGED <<setup, server, ledger, moved, overlapped, press>>

PositionAnswered ==
    /\ board.booking = "inserted"
    /\ \/ board' = [board EXCEPT !.booking = "known"] /\ UNCHANGED faults
       \/ board' = [board EXCEPT !.booking = "lost"] /\ Fault
    /\ UNCHANGED <<setup, server, ledger, moved, overlapped, press>>

\* onConfirmExecution
Review ==
    /\ board.job /\ ~board.reviewed
    /\ board' = [board EXCEPT !.reviewed = TRUE]
    /\ UNCHANGED <<setup, server, ledger, moved, faults, overlapped, press>>

-----------------------------------------------------------------------------
(* A press.                                                                *)

\* Captured when a function starts: the rows shown and the position known.
Capture(p, pc) ==
    press' = [press EXCEPT ![p].pc = pc, ![p].quote = QuoteRows, ![p].pre = Known]

CanExecute ==
    /\ board.job /\ board.reviewed /\ board.modal = 0 /\ HasWallet
    /\ Live => ReadyRows(QuoteRows) # {}

\* onExecute.  A wallet of the account approves a plan, or signs a message in
\* dry-run; otherwise the password is asked for.
Execute(p) ==
    /\ CanExecute /\ At(p, "idle")
    /\ \A q \in Calls : q < p => ~At(q, "idle")
    /\ LET pc == IF setup.solana # "linked" THEN "password" ELSE IF Live THEN "plan" ELSE "message"
       IN /\ Capture(p, pc)
          /\ board' = [board EXCEPT !.modal = IF pc = "message" THEN 0 ELSE p]
    /\ UNCHANGED <<setup, server, ledger, moved, faults, overlapped>>

\* Mutant of Position: the pre-created position is not named.
Position_Unnamed(p) == FALSE

\* effectivePositionId of runExecution
Position(p) == press[p].pre

\* runExecution sends the call.
Send(p, paid) ==
    /\ press' = [press EXCEPT ![p].pc = "waiting", ![p].rows = {}, ![p].paid = paid]
    /\ board' = [board EXCEPT !.modal = IF @ = p THEN 0 ELSE @]
    /\ LET quote == press[p].quote IN
       exec' = [exec EXCEPT ![p] = [NoExec EXCEPT !.pc = "lookup",
                    !.ready = Keys(ReadyRows(quote)), !.unready = Keys(quote) \ Keys(ReadyRows(quote)),
                    !.client = paid, !.positionId = Position(p)]]

SignMessage(p) ==
    /\ At(p, "message")
    /\ \/ Send(p, {}) /\ UNCHANGED faults
       \/ Fault /\ Goto(p, "failed") /\ UNCHANGED <<exec, board>>
    /\ UNCHANGED <<setup, uni, orca, event, ledger, moved, overlapped>>

\* onPasswordVerifiedExecute captures the screen again; a wrong password leaves
\* the dialog open.
Password(p) ==
    /\ At(p, "password") /\ Capture(p, "verified")
    /\ UNCHANGED <<setup, server, ledger, moved, faults, overlapped, board>>

PasswordVerified(p) ==
    /\ At(p, "verified") /\ Send(p, {})
    /\ UNCHANGED <<setup, uni, orca, event, ledger, moved, faults, overlapped>>

Cancel(p) ==
    /\ press[p].pc \in {"plan", "password"} /\ Goto(p, "cancelled")
    /\ board' = [board EXCEPT !.modal = 0]
    /\ UNCHANGED <<setup, server, ledger, moved, faults, overlapped>>

\* runPlannedApprovals starts, with the Orca rows that are ready.
StartPlan(p) ==
    /\ At(p, "plan") /\ press[p].restarts <= MaxFaults
    /\ press' = [press EXCEPT ![p].pc = "sign", ![p].quote = QuoteRows, ![p].pre = Known, ![p].paid = {},
                     ![p].rows = {row \in ReadyRows(QuoteRows) : row.protocol = "Orca"}]
    /\ UNCHANGED <<setup, server, ledger, moved, faults, overlapped, board>>

\* Anything thrown ends in the dialog, which stays open; the results are gone,
\* and the next start begins with the first row.
Throw(p, trouble) ==
    press' = [press EXCEPT ![p].pc = "plan", ![p].rows = {}, ![p].paid = {}, ![p].quote = {},
                           ![p].restarts = @ + 1, ![p].trouble = @ + trouble]

\* signMessage for the steps of the next row, or of the whole plan.
Sign(p) ==
    /\ At(p, "sign")
    /\ \/ press[p].rows # {} /\ Goto(p, "wallet") /\ UNCHANGED <<exec, board, faults>>
       \/ press[p].rows = {} /\ Send(p, press[p].paid) /\ UNCHANGED faults
       \/ Fault /\ Throw(p, 1) /\ UNCHANGED <<exec, board>>
    /\ UNCHANGED <<setup, uni, orca, event, ledger, moved, overlapped>>

-----------------------------------------------------------------------------
(* executeOrcaPlanWithWallet, for one row.                                 *)

\* orcaActionMatches: an action names one row of the wallet's own table.
WalletEntry(row) ==
    CHOOSE i \in DOMAIN OrcaTable(setup.product) : OrcaTable(setup.product)[i].action = row.action

\* The rows are taken in the order of that table.
NextRow(p) ==
    CHOOSE row \in press[p].rows : \A r \in press[p].rows : WalletEntry(row) <= WalletEntry(r)

\* The wallet is given the amount of the row as the deposit, and takes the row's
\* weight of it once more.
WalletRow(p, status) ==
    LET row == NextRow(p)
    IN [row EXCEPT !.usd = (@ * OrcaTable(setup.product)[WalletEntry(row)].weight) \div 100,
                   !.status = status]

\* The result of a row; after the last one the plan is over.
Done(p, status) ==
    LET paid == press[p].paid \cup {WalletRow(p, status)}
        rest == press[p].rows \ {NextRow(p)}
    IN IF rest # {}
       THEN /\ press' = [press EXCEPT ![p].pc = "sign", ![p].paid = paid, ![p].rows = rest]
            /\ UNCHANGED <<exec, board>>
       ELSE Send(p, paid)

BelowMinimum(p) == setup.minimum /\ WalletRow(p, "submitted").usd < OrcaMinimum

WalletSkips(p) ==
    /\ At(p, "wallet") /\ BelowMinimum(p)
    /\ Done(p, "unsupported")
    /\ UNCHANGED <<setup, uni, orca, event, ledger, moved, faults, overlapped>>

\* The wallet's own moves for a row's tokens; "late" is a swap that lands after the
\* balances were read again.
MovesOf(key, by) == {d \in moved : d.by = by /\ d.key = key}

\* The balances, read before each row: a token that was bought is there until a
\* position takes it.
Lacks(p) ==
    LET key == Key(NextRow(p)) IN
    setup.lacks /\ Cardinality(MovesOf(key, "swap")) <= Cardinality(MovesOf(key, "wallet"))

\* A request that the server's proxy passes on to Jupiter, made twice at most.
Jupiter(p, pc) == \/ Goto(p, pc) /\ UNCHANGED faults
                  \/ Fault /\ Throw(p, 1)

\* quoteJupiterExactInSwap: without an answer there is an estimate, which the swap
\* refuses.
Quote(p) ==
    /\ At(p, "wallet") /\ ~BelowMinimum(p) /\ Lacks(p)
    /\ Jupiter(p, "order")
    /\ UNCHANGED <<setup, server, ledger, moved, overlapped, board>>

Order(p) ==
    /\ At(p, "order") /\ Jupiter(p, "swap")
    /\ UNCHANGED <<setup, server, ledger, moved, overlapped, board>>

\* The swap is signed, sent and confirmed; or it is not sent, or fails; or its
\* confirmation throws and it lands all the same.
Swap(p) ==
    LET row == WalletRow(p, "submitted") IN
    /\ At(p, "swap")
    /\ \/ Goto(p, "wallet") /\ Moved("swap", p, row) /\ UNCHANGED faults
       \/ Fault /\ Throw(p, 1) /\ UNCHANGED moved
       \/ Fault /\ Throw(p, 1) /\ \E by \in {"swap", "late"} : Moved(by, p, row)
    /\ UNCHANGED <<setup, server, ledger, overlapped, board>>

\* The client, the pool, the price of the deposit or the balances: whatever throws
\* there, no position was opened.
PreparationFails(p) ==
    /\ At(p, "wallet") /\ ~BelowMinimum(p)
    /\ Fault /\ Throw(p, 1)
    /\ UNCHANGED <<setup, server, ledger, moved, overlapped, board>>

\* The position's transaction is sent and lands, or fails on chain, or its
\* sending throws after it has left.
WalletSends(p) ==
    /\ At(p, "wallet") /\ ~BelowMinimum(p) /\ ~Lacks(p)
    /\ \/ /\ press' = [press EXCEPT ![p].pc = "confirm", ![p].landed = TRUE]
          /\ Moved("wallet", p, WalletRow(p, "submitted")) /\ UNCHANGED faults
       \/ /\ Fault /\ press' = [press EXCEPT ![p].pc = "confirm", ![p].landed = FALSE]
          /\ UNCHANGED moved
       \/ Fault /\ Throw(p, 1) /\ Moved("wallet", p, WalletRow(p, "submitted"))
    /\ UNCHANGED <<setup, server, ledger, overlapped, board>>

\* Mutant of Monitor: running out of time is an error.
Monitor_TimeoutThrows(p) ==
    \/ press[p].landed /\ Done(p, "submitted")
    \/ ~press[p].landed /\ Throw(p, 1) /\ UNCHANGED <<exec, board>>
    \/ press[p].restarts < MaxFaults /\ Throw(p, 0) /\ UNCHANGED <<exec, board>>

\* waitForSolanaTxConfirmation: confirmed, failed, or out of time, which reads as
\* submitted.
Monitor(p) ==
    \/ Done(p, "submitted")
    \/ ~press[p].landed /\ Throw(p, 1) /\ UNCHANGED <<exec, board>>

\* Mutant of Confirm: the monitor has no deadline.
Confirm_NoDeadline(p) ==
    /\ At(p, "confirm") /\ press[p].landed /\ Monitor(p)
    /\ UNCHANGED <<setup, uni, orca, event, ledger, moved, faults, overlapped>>

Confirm(p) ==
    /\ At(p, "confirm") /\ Monitor(p)
    /\ UNCHANGED <<setup, uni, orca, event, ledger, moved, faults, overlapped>>

-----------------------------------------------------------------------------
(* The answer.                                                             *)

\* Its rows with an amount are what the screen shows from now on.
Answered(p) ==
    LET answer == exec[p].answer IN
    /\ At(p, "waiting") /\ exec[p].pc = "answered"
    /\ Goto(p, IF answer.ok THEN "done" ELSE "failed")
    /\ board' = IF answer.ok THEN [board EXCEPT !.result = answer.rows] ELSE board
    /\ UNCHANGED <<setup, server, ledger, moved, faults, overlapped>>

\* The connection breaks; the server goes on.
AnswerLost(p) ==
    /\ At(p, "waiting") /\ Fault /\ Goto(p, "failed")
    /\ UNCHANGED <<setup, server, ledger, moved, overlapped, board>>

WalletStep(p) ==
    \/ SignMessage(p) \/ PasswordVerified(p) \/ Sign(p)
    \/ WalletSkips(p) \/ Quote(p) \/ Order(p) \/ Swap(p) \/ PreparationFails(p) \/ WalletSends(p) \/ Confirm(p)

Next ==
    \/ CreateJob \/ InsertPosition \/ InsertFails \/ PositionAnswered \/ Review
    \/ \E p \in Calls :
          \/ Execute(p) \/ Password(p) \/ Cancel(p) \/ StartPlan(p)
          \/ WalletStep(p) \/ Answered(p) \/ AnswerLost(p)
          \/ ServerStep(p) /\ UNCHANGED <<board, press>>

Spec == Init /\ [][Next]_vars

\* Promises settle: the wallet's window is answered, the monitor has a deadline
\* of 90 s, the server's handlers go on.  What the user presses is up to him.
Fairness ==
    \A p \in Calls :
        /\ WF_vars(WalletStep(p))
        /\ WF_vars(Answered(p))
        /\ WF_vars(ServerStep(p) /\ UNCHANGED <<board, press>>)

FairSpec == Spec /\ Fairness

-----------------------------------------------------------------------------
(* Properties.                                                             *)

WalletMoves(p) == {d \in moved : d.by = "wallet" /\ d.call = p}

\* Starting a plan again begins with its first row, so a wallet can pay a row, or
\* buy a token for it, twice; but only after something really failed.  A deposit
\* that is slow to confirm is no failure.
OnePaymentPerApproval ==
    \A p \in Calls, k \in Keys(OrcaRows(setup.product)) :
        LET paid == {d \in MovesOf(k, "wallet") : d.call = p}
            bought == {d \in MovesOf(k, "swap") \cup MovesOf(k, "late") : d.call = p}
        IN Cardinality(paid) <= 1 + press[p].trouble /\ Cardinality(bought) <= 1 + press[p].trouble

\* In a network that has Orca, what a wallet deposited in a plan that went
\* through is in the answer of its own run, whatever the adapters beside it do:
\* the ledger row made from it names those deposits.
WalletDepositsAreReported ==
    \A p \in Calls : exec[p].answer.told = "own" /\ exec[p].answer.ok
                     /\ Network \in {"Solana", "Multi"} /\ press[p].trouble = 0 =>
        \A d \in WalletMoves(p) : \E row \in exec[p].answer.rows :
            Key(row) = d.key /\ row.usd = d.usd

\* The deposit of a job is booked once: the row made with the job and a row made
\* by an execution exclude each other, unless the answer with the row's id was
\* lost or execution was asked for before it was there; and two executions both
\* book it only when they overlap.
BookedOnce ==
    /\ 0 \in ledger /\ board.booking = "known" => \A p \in ledger \ {0} : ~press[p].pre
    /\ Cardinality(ledger \ {0}) > 1 => overlapped

\* A press that has left the user's hands ends.
PressSettles ==
    \A p \in Calls :
        press[p].pc \in {"message", "verified", "sign", "wallet", "order", "swap",
                        "confirm", "waiting"}
            ~> press[p].pc \in {"plan", "done", "failed"}

=============================================================================

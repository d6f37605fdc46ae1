# A verification project for Crypto8 Yield Orchestrator

Crypto8 is a React client and an Express API server (`server/`, one Node process, a SQLite database
through Prisma). A user logs in with a password or a wallet, creates a *job* (deposit this much),
has it *executed* by the server's protocol adapters (Aave, Uniswap, Orca, Curve, Morpho; simulated by
default, on chain in live mode), and keeps a ledger of deposits and withdrawals. This directory holds
TLA+ models of the parts whose correctness depends on the order of things, the TLC runs that check
them, and TLAPS proofs of what matters most. Paths below are relative to the repository.

Two facts about the platform shape every model:

- **One process, many handlers.** A handler runs alone from one `await` to the next; at every `await`
  any other handler may run. No lock exists, and except for the withdrawals and the reset no database
  transaction spans two awaits. So an action of a model is what one handler does between two awaits,
  and what a handler read before an await is kept in a variable of the request and may be stale.
- **SQLite serialises transactions.** An interactive Prisma transaction commits as a whole or not at
  all, so it is one action.

## Inventory

| Component | State | Operations | Interacts with | What is hard, and what makes it correct | Module |
|---|---|---|---|---|---|
| Job and execution store (`server/store.ts`, routes in `server/index.ts`) | tables `jobs`, `execution_events` | createJob, executeJob (idempotent replay, skip, block, retries, events), cancelJob | adapters, deposit ledger | lookup and write of the idempotency event are far apart; status read once and overwritten later; swallowed inserts; crashes between the writes. Nothing runs twice in sequence, critical jobs never run, answers tell the truth | `JobExecution`, `JobLifecycle` |
| Execution adapters (`server/executionAdapter.ts`, `server/adapters/`) | none in the process; chains outside | runExecutionAdapter per network, live gates, readiness filter | executeJob, the board | `Promise.all` of several submissions with a retry on top; failed allocations dropped. One mint per job, what a wallet paid is in the answer | `AdapterRun` |
| Deposit screen and wallet deposits (`OrchestratorBoard.tsx`, `orcaWalletExecution.ts`, `solanaTxMonitor.ts`, `executionPreview.ts`) | state of the React component; wallet and chain outside | create job, review, execute, approve rows, swap, send, monitor | wallet, API, adapters | closures over old state, a button that stays usable, plans that throw half way, late confirmations. One payment per approval, one booking per deposit | `DepositBoard` |
| Deposit and withdrawal ledgers (`server/positions.ts`, `/api/portfolio` routes) | tables `deposit_positions`, `withdrawal_ledger` | create, adjust, three withdrawals, reset | execution and the Aave confirmation add rows | adjust and create are several awaits, withdrawals are last in first out, weights are recomputed. USD are conserved, users isolated, other pools untouched | `DepositLedger` |
| The browser's own ledger (`src/lib/withdrawStrategies.ts`) | a list of rows | the same three withdrawals | the list the server sent | a second implementation in another order of operations: both agree | `BrowserLedger` |
| Aave transactions and their confirmation (`server/aaveUsdc.ts`, `server/intentStore.ts`) | intents, executions, Aave positions, deposit rows; the chain | build supply and withdrawal, check, confirm | deposit ledger, RPC, wallet | confirmation twice, overlapping or cut off; absolute overwrite of a deposit row | `AaveWallet`, `AavePositions` |
| Position verifier and snapshots (`server/positionVerifier.ts`, `onchainSnapshots.ts`, accounting of `intentStore.ts`) | columns of `positions`, snapshots | the three position lists: verify, write back, sample | RPC, the tables | several awaits per row, rows in parallel, failing reads, five-minute cache, wallets the caller names. No failed read closes a row, values are current | `PositionSync` |
| Authentication, linked wallets (`server/auth.ts`, `userWallets.ts`, auth routes) | tables `users`, `refresh_sessions`, `user_wallets`; challenges in memory | register, login, challenge, wallet login, refresh, logout, link | all routes | challenge used once; refresh against logout; first login of a wallet twice; restart loses challenges | `AuthSessions` |
| Browser session (`src/lib/api.ts`, `App.tsx`, the login panels, cookie and csrf rules of `server/index.ts`) | cookies, localStorage, sessionStorage per tab, screens | login, logout, loads, withdrawals, every other call | authentication, all routes | resends after a refused token and an expired session, several tabs, answers that arrive late. No call is handled twice, a screen shows its own account | `ClientSession` |
| Approval log, runtime mode, bootstrap, market rates, account assets, insights, fees, secrets, planning texts, analysis script | see Not modelled | | | | - |

`PROJECT.json` lists every component with its status, and under `hazards` each place where one of the
hard behaviours bites, with the properties that watch it.

How the modules fit together:

    JobLifecycle  <--- refined by --- JobExecution        (the store in full, an adapter run is one await)
    AdapterRun    <--- extended by -- DepositBoard        (an adapter run opened up, the store reduced to
                                                           one job and one key; the browser around it)
    DepositLedger <--- extended by -- BrowserLedger       (the server's tables, the browser's list)
    AaveWallet    <--- extended by -- AavePositions       (the chain and its transactions, the books)
    AuthSessions, ClientSession                           (the server's side and the browser's side)
    PositionSync
    Fractions                                             (exact amounts and weights of the ledgers)
    SumTheorems                                           (sums over finite sets, of numbers and fractions:
                                                           used by the proofs of all modules with money)

## Plan

Done: the seven groups above, each modelled, checked with TLC and with theorems; every safety property
of a passing run is a theorem for all values of the constants. What is left:

1. A refinement of `JobExecution` by `AdapterRun`, whose store is the same one reduced to a job and a key.
2. A refinement of `AuthSessions` by `ClientSession`'s server steps (its sessions are those of an
   abstract server; today the correspondence is by name only).

## SumTheorems

The properties about money compare sums over the rows of a table, and the community modules define such
a sum (`MapThenSumSet`, `FoldFunctionOnSet`) as a recursion that takes one element after the other out
of the set. The installed provers cannot instantiate an induction theorem, whose parameter is an
operator. `SumTheorems` does without: what would be an induction over n is stated as the existence of a
least counterexample (`Least`, from the well-foundedness of `<` and the first-order theorem `WFMin`),
with the property inside a set comprehension.

Three things are shown, for sums of numbers (`SumOn`) and of fractions (`Total`). The recursive function
that the definition chooses exists on the subsets of a finite set (`PartialUnfolds`, `PartUnrolls`). The
element that is taken first does not matter: a sum is any element's value plus the sum of the others
(`SumOfElement`, `TotalOfElement`). From that follow the rules that the proofs cite: sums over disjoint
unions, of pointwise sums, monotonicity, a change at one place. For fractions it needs the laws of
`Fractions` first: results are kept in lowest terms, so equal values are equal records and the laws of sums
are equations. They rest on lemmas about divisors proved there.

## JobExecution

**State.** `job` is the jobs table (status, risk level, `requestedBy`), `event` the execution events,
a function of job and key because of `unique(job_id, idempotency_key)`, `ledger` the requests whose
execution added a deposit row. A request has its parameters (`call`), the await it is suspended at
(`pc`), the status it read first (`seen`), its failed attempts (`tries`) and the execution result it
holds (`bundle`, named by the request whose adapter run produced it). `answer` is the response.
`before` is a history variable, the requests answered before this one arrived, for properties that
speak of sequences.

**Actions.**

| `pc` | Action | Code |
|---|---|---|
| idle | `Arrive` | the route calls executeJob or cancelJob |
| getJob | `ExecuteGetJob` | row absent, foreign, or kept |
| findEvent | `ExecuteReplay`, `ExecuteDecide` | an event under the key is replayed; otherwise the row read *before* decides between skip, cancelled, block and run |
| findLatest, skipEvent | `ExecuteFindLatest`, `ExecuteSkip` | the latest accepted result is told again |
| blockJob, blockEvent | `ExecuteBlockJob`, `ExecuteBlockEvent` | critical risk |
| runAdapter | `ExecuteAttemptOk`, `ExecuteAttemptThrows` | runExecutionWithRetry |
| failEvent | `ExecuteFailEvent` | attempts used up |
| markExecuted, acceptEvent, recordRow | `ExecuteMarkExecuted`, `ExecuteAcceptEvent`, `ExecuteRecordRow` | status, event, deposit row: three writes |
| cancelRead, cancelWrite | `CancelRead`, `CancelWrite` | cancelJob |

`CreateJob` is the create route. `DbError` is a rejected database call that no handler catches;
`InsertEvent` and `ExecuteRecordRow` contain the ones that are caught and dropped. `Crash` ends the
process: tables stay, requests in flight are lost, nothing resumes them. An adapter run is one await
that resolves or throws; `AdapterRun` opens it up.

**Runs.**

| Run | Instance | Question |
|---|---|---|
| `execute_and_cancel` | 1 job, 2 keys, 2 users (one of role security), 3 requests, 2 attempts, 2 faults; requests symmetric | what answers, events, status and ledger say of each other |
| `lifecycle` | 2 jobs, 2 keys, 2 requests, 2 attempts, 1 fault, with fairness | refinement of `JobLifecycle`, no leak between jobs, every request settles |
| `same_key` | 1 job, 1 key, 2 requests, no fault | expected violation, see Findings |
| `cancel_race` | 1 job, 2 keys, 2 requests of its owner, no fault | expected violation, see Findings |

A request touches the rows of one job only, so races need one job; three requests make the
patterns "two overlap and a third comes later" and "execute, execute, cancel". Two keys tell a replay
from a skip. Two attempts show a retry that succeeds and one that does not. The second fault allows a
dropped event followed by a crash. The deadlock check is off as the server may have nothing to do.

**Fairness.** `FairSpec` assumes weak fairness of each request's own steps: the event loop resumes a
handler whose promise has settled, database calls settle, and an adapter attempt settles because the
HTTP transports under it have time limits. It is used by `EveryRequestSettles` alone. Nothing is
assumed about faults or about new requests.

**Proved** (`JobExecutionProofs`, every value of the constants): `TypeOK`, all seven safety properties
of `execute_and_cancel`, that only owners and the security role execute, `AnswersNameRunsOfTheJob`,
and that `Spec` implements `JobLifecycle`. The properties are not inductive: each needs to know what a
suspended request may still do. The invariant `IInv` says it. `TableInv` relates the rows of the
tables (an accepted event names a run of its job, an executed job is not critical), `RequestInv(r)`
relates the await at which `r` is suspended, and what it holds, to the tables: a copy of "executed"
may be stale, but then the job is executed or cancelled for good. A step belongs to one request;
`Frame` says what it leaves alone and in which direction it can move the tables, and the invariant of
all other requests follows from it once for all actions (`OthersUndisturbed`). What is left is one
lemma per action. `IInv` was checked with TLC on the instance of `execute_and_cancel` before it was
proved. The assumptions are `CallsAssumption`, `BoundsAssumption` and `NullAssumption`, which TLC
evaluates on every run.

Only model-checked: `EveryRequestSettles` (liveness is beyond the prover).

## DepositLedger

**State.** `position` and `withdrawal` are the two tables, keyed by the request that inserted the row
(ids are random). A row has a user, a product, an amount, a mix (a list of pools with weights) and a
`createdAt`. `stamp` is the time a create has read before its insert, `found` the row an adjustment has
found, `booked` the history variable that sums up deposits and adjustments per user. Amounts and
weights are exact fractions in lowest terms (`Fractions`), because a protocol withdrawal turns weights of
one half into thirds; the code uses doubles and takes less than 0.000001 USD for nothing, and rounding is not
modelled. Neither are the upper limits on amounts and label lengths. The wall clock may give any
reading of `Clock`, a step back included, and rows of one millisecond are visited in any order.

**Actions.** `Arrive` is the route with the validation; `CreateInsert`, `ReadBack`; `AdjustFind`,
`AdjustWrite`, `ReadBack`; `Withdraw` for the three withdrawals (they differ in the rows they select
and in what they can take from a row; `Drain` is the common loop in closed form: an entry gives what it
has, up to what is still wanted after all earlier ones); `Reset`; `DbError`, `Crash`. A deposit row that
an execution adds goes through the same `createDepositPosition`; the Aave confirmation, which also
writes this table, has a module of its own.

`BrowserLedger` has the browser's functions of the same names. `App.tsx` uses them instead of the
server when a password user has no wallet connected, and the list then lives in the browser. They are
loops over the listed rows, written as folds, where the server's are the closed form of `Drain`.

**Run.** `ledger`: four requests out of eleven calls of two users, two products, two pools, two clock
readings and one fault; amounts make partial, exact and excessive withdrawals, and the mixes include one
that leaves a third unallocated and one that exceeds the amount. Four requests are enough for two
deposits and two changes, and for the longest race: create, adjust, reset between its steps.
It shows: USD are conserved between deposits and withdrawals; no row is left empty or over-weighted; a
create answered with an error leaves nothing; a request touches its own user's (and product's) rows
only; withdrawals are last in first out; a shortfall means that nothing was left; a protocol withdrawal
keeps the USD of every other pool, as the comment at `server/positions.ts:323` says; and whatever the
server does in a withdrawal, the browser's function makes of the same list (`BrowserAgrees`).

**Proved** (`DepositLedgerProofs`): the eight properties of `ledger`, for all constants. Two
invariants carry them. `LInv` is about ownership: a row carries the user and product of its creator, and
what an adjustment found belongs to its user and product, whatever has become of it since. With it
follow `TouchesOnlyItsOwn` and `ErrorLeavesNoRow`, and the amounts play no part.

`MInv` adds the books: amounts are fractions above zero, the weights of a row fractions that sum to at most
one, and for each user the sum over rows and withdrawals is what was booked since the last reset.
A create or an adjustment changes one summand. A withdrawal changes many: the lemmas about `Drain` say
that what it takes from an entry is at most what the entry has (`DrainBounds`), that an entry gives nothing while
one before it has something left (`DrainOrder`), and that all takings together are the smaller of what is
wanted and what there is (`DrainTotal`, by the last entry of a smallest set, closed under "before", for
which it would fail). The lemmas about a reduced row (`ReducedLaws`) say that its weights still sum to one at
most and that every other pool keeps its absolute amount: the weights are divided by the new amount, which
is not zero because an emptied row is deleted. That gives `Conservation`, `RowsAreSound`, `LastInFirstOut`, `ShortfallMeansEmpty` and
`OtherPoolsKeepTheirUsd`. Assumptions: `CallsAssumption`, `BoundsAssumption`.

`BrowserAgrees` compares two programs. The folds of `BrowserLedger` are shown to be functions of the
places done so far (`RowRounds`, `EntryRounds`), as sums are in `SumTheorems`. The inner loop then leaves in
each entry what the server's reduced row has there (`EntriesTaken`: a smallest set of places for which it does not
would lack its last place), and one round of the outer loop leaves of a row what the server does, or drops it
where the server deletes it (`RowTaken`). `LoopOverRows` adds up the rounds: before a row of place k, what is left
to be taken is what `Drain` leaves for it. For a withdrawal of one product the server orders that product's rows only,
while the browser goes through all of them: `OrderExtends` inserts the other rows one by one, each behind the
last row that is newer, which needs that times are numbers (`TimeInv`).

## AuthSessions

**State.** `account`, `session` and `link` are the tables `users`, `refresh_sessions` (keyed by the id,
the millisecond of its insert) and `user_wallets`; `challenge` is the map of login challenges in the
memory of the process, which a restart empties. A refresh token is random and issued by one request at
most, so it is named by that request; a refresh or logout presents the token of an *answered* login,
since only the answer carries it. `at` is the time a request has read for the id of its next row,
`seen` the session row a refresh has read. `drawn` (which wallet a nonce was drawn for) and `late` (the
refresh arrived after an answered logout of its token) are history. Addresses are spellings of a wallet
because a linked row keeps the client's spelling, and its id the first six characters of it. Whether a
signature or password is right is part of the call; nothing is said about cryptography.

**Actions.** `CreateChallenge` and the first part of `WalletLogin` are synchronous: the challenge is
looked up and deleted before any await. Then `Recover` (Ethereum signatures only), `FindWalletUser`,
`CreateWalletUser`, `Reread`, `IssueToken`, `InsertLink`, `SelectLink`. A password login is
`Login`, `FindPasswordUser`, `IssueToken`; a registration has `Register`, `RegisterUser` before them.
`LinkWallet` is POST /api/account/wallets. `Refresh`, `FindSession`, `CheckSession`; `Logout`, `Revoke`.
A refusal (4xx) and a failure (500, a rejected database call) are different outcomes, as is a request
that a restart has lost. `Tick` moves the clock, which does not step back here.

**Run.** `sessions`: three requests out of seven calls (an Ethereum wallet under two spellings of one
prefix, once with a wrong signature, a Solana wallet with an account, a password user, a link), any
refresh or logout of an answered token, two nonces, clock 0 to 2 with time limits of 1, so that
challenges and sessions expire. Three requests make login, logout, refresh in every overlap, and two
logins of one wallet with a third beside them. No fault bound is needed: each request fails once at most.
A first login that loses the race for its account, or a login in the millisecond of another, fails with
500 and its challenge is spent; a refresh that has read its session before the logout still succeeds.
The properties say what holds all the same. Accounts at the start are a constant (`Seeded`).

**Proved** (`AuthSessionsProofs`, every value of the constants): all six properties of the run. As in
`JobExecution` they say what answers mean, and the invariant `AInv` what a suspended request may still
do: `LoginInv` (what a login has shown at each await and which rows it has left), `SessionInv` (an
answered logout has revoked all rows of its token, so a late refresh can only have read revoked ones),
`TableInv` (the login behind a row), `PairInv` (no two logins hold one nonce, no two registrations one
name). `Frame` and `OthersUndisturbed` carry it from the request that moves to all others. `AInv` was
checked with TLC on the run's instance first. Assumptions: `CallsAssumption`, `AccountsAssumption`,
`TimeAssumption`. `NameOf` need not be injective.

## PositionSync

**State.** A row of the table `positions` and the position on chain it was recorded for have one name.
`protocol`, `pool`, `home`, `db` are the columns it was inserted with, `row` the columns a verification
writes, `stale` whether it was synced more than five minutes ago. `hold[w][r]` is what wallet `w` has in
the position: nothing at all (`Gone`), an empty account (0) or a value in USD; the decoding of contract
reads is abstracted to it. A request (`req`) names the wallets it asks about and runs one verification
(`task`) per active row. `window` (the balances there were while a request ran) and `closure` (what the
read that closed a row had seen) are history.

**Actions.** `List` is the arrival at GET /api/positions or /api/orca/positions: the rows are read and
all verifications start. `Read` is one verification up to its verdict: the wallet is chosen, the
protocol's reader is called, whole or single reads may fail. `Persist` and `Account` are the two
writes. `AnswerPositions` and `AnswerOrca` wait for all rows, scan the wallet, sample and answer;
`AnswerPublic` is the list without a login. `Move` is the chain, `Age` the five minutes.

**Run.** `position_sync`: two rows, two EVM wallets and a Solana one, two requests, one pool, values 0
and 100, one move. The constraint `OneOfEach` keeps two requests *or* two open rows: rows meet in the
balances and scans of one request (two rows of a pool show one balance), requests in the columns of
one row. One pool is the hard case, in which rows are confused. It shows that no failed or late read
closes a row, that what is answered as read was there while the request ran, that a closed row stays
closed, that a list has no pool twice, and that the public list says "nothing deposited" only of
wallets with nothing. `uniswap_scan` is an expected violation, see Findings.

**Proved** (`PositionSyncProofs`, every value of the constants): all five properties of `position_sync`.
`AnswersAreCurrent` and `ClosedRowsStayClosed` need where a verification stands, that the wallet of a row
is never a Solana one (which keeps an Orca row without a value), that the window of a running request
contains the balances of now, and that a verdict of an unfinished or uncached task was in the window when
it was read and stays there, because a window only grows. `NoPoolListedTwice` follows from
what is added to the stored rows. `ClosedOnlyOnEmptyRead` and `PublicEmptyIsEmpty` relate a balance, which is
a sum over the positions of a pool, to the single positions: it is zero if none of them holds anything, which
is what a scan that finds nothing has seen, provided that a scan with an unreadable pool says so.
Assumptions: `WalletsAssumption`, `RowsAssumption` (a table has finitely many rows), `AmountsAssumption`.

Seen while modelling: an Orca row can never be verified, as the wallet of a row is an EVM address. Several
Aave rows of one wallet and chain each show its whole aToken balance. The comment at
`positionVerifier.ts:541` promises another order of wallets than the code at 552 has. A guest's snapshots
fail silently on a foreign key.

## AaveWallet and AavePositions

**State.** `AaveWallet` is one wallet and one chain: its USDC, allowance and aUSDC (`account`), what
was built under a hash (`tx`), the receipts. `AavePositions` adds the seven tables the confirmation
writes and `req`, one call of `confirmAaveUsdcTransaction` each, at the await it is suspended at. A
request inserts at most one row of each table, so its rows have its name. The unit is half a cent,
because the withdrawal ledger keeps two decimals. The process signs nothing, and it books what the
client says of a hash: a behaviour has a truthful client, which names what it built in the order of
the chain, or one that names any amount for any mined hash (`truthful`).

**Actions.** Building, approving, mining (which may revert), interest; `Confirm`; `Receipt` and `Reserve`;
`Find` to `Position` are the steps of a supply, `Open`, `TakeRow`, `Mirror`, `Entry` the loop of a withdrawal;
`Fails` is a rejected call, caught where the code catches it, `Crash` the end of the process.

**Run.** `aave`: three confirmations of two transactions, amounts of up to two half cents, funds of
three, one unit of interest, one fault. Three calls are two rows and a withdrawal over both, or a
supply confirmed three times. `BookedOnce` and `AaveBooksBalance` are stated for calls that do not
overlap and are not hit by a fault; with either, both do fail, since the lookup by hash and the insert
are awaits apart. What holds in any case is `PositionsAreConfirmed`.

**Proved** (`AavePositionsProofs`): all three invariants, for all constants. For `PositionsAreConfirmed`,
whatever overlaps, fails or crashes: the row of `aave_usdc_positions`, whose hash is unique, makes a request
the owner of a transaction before it can insert a position. `BookedOnce` and `AaveBooksBalance` need
`UInv`, which says of every state how far the one running request is ahead of the tables or behind them:
`InHand` is what it has booked or taken from a row and stands in no other table yet, `Ahead` what it will
still add to the open rows or take from them. With that, the open rows and the withdrawal ledger sum to what
was booked, up to the half cent an entry may be rounded by, and to what the mined transactions that the client
has named come to (`Follows`). `ChainInv` is the other side: what the pool holds is the sum of
the mined transactions and the interest.
Assumptions: `AmountAssumption`, `FaultAssumption`, `RequestsAssumption`.

Seen while modelling: no route mounts the component (`src/lib/api.ts` has paths for it). A reverted
transaction is reported as pending for ever (`aaveUsdc.ts:735`). Calldata is not checked against the
claimed amount.

## AdapterRun and DepositBoard

**State.** `AdapterRun` is the server's part of one job under one key: `exec` (a call: its await,
attempts, the readiness and the wallet results it was sent), `uni` and `orca` (the two adapters that
do anything besides a table, per attempt), `event`, `ledger`, and `moved`, the deposits that reached a
chain. The tables of all protocols are those of the code, the amounts those of the row. Rows of a list
differ in protocol, chain and action, so lists of rows and results are sets, except for the table of
Orca, in whose order a wallet goes through a plan; deposits that are alike are numbered. `DepositBoard`
adds the screen (`board`) and its presses of "6. Execute" (`press`): a press is an asynchronous
function with the rows and the position id its closure captured. `setup` is the product, mode, wallets
and environment.

**Actions.** `StartAttempt`, `UniMint`, `UniStops`, `OrcaClient`, `AttemptResolves`, `AttemptRejects`:
an attempt rejects with its first adapter, the others go on, and the next attempt starts them again.
`Lookup`, `Record`, `RecordRow` are the store. On the board: `CreateJob` and the booking beside it,
`Review`, `Execute` (plan, message or password), `StartPlan`, `Sign`, `Jupiter` steps `Quote`,
`Order`, `Swap` when the wallet lacks a token, `WalletSends`, `Monitor`, `Confirm`, `Throw` and
`Cancel`, `Answered`, `AnswerLost`.

**Runs.** `execution_flow`: two presses, two attempts, one fault (of wallet, chain, insert or
connection) and the eleven setups of `MixedSetups`: live and dry-run, seven products, with and without
a linked Solana wallet, a Solana key, a missing token, amounts above and below the Orca minimum. Two
presses are an overlap, or a press after the first has ended. `skipped_rows` is an expected violation,
see Findings.

**Fairness.** Weak fairness of a press's wallet steps (the wallet's window is answered one way or the
other, the monitor has a deadline of 90 s), of the arrival of an answer, and of the server's handlers.
The dialogs (plan, password) are up to the user, so `PressSettles` ends there. `AnswerLost`, faults
and new presses have none.

**Proved** (`DepositBoardProofs`, every setup, number of presses, attempts and faults): all four safety
properties. `BookedOnce` and `MintsOnce` rest on `IInv`: a call keeps its press's view of the created row
(`NamesRow`), a row in the ledger or a mint stems from a call that has started an attempt, without
overlap only one call has (`Alone`), and with a Solana key its first attempt is the only one that can
submit, since then nothing rejects it (`Submits`).

`OnePaymentPerApproval` and `WalletDepositsAreReported` count what a wallet did; `WInv` adds to `IInv` what
they need. A plan on the screen covers the button, so two presses are never at a wallet at once
(`Covers`): the balances that a press reads are of its own making. A row that is still to be paid
in the running plan was paid at most as often as something went wrong (`Bounded`). A swap is made only
when there are no more swaps than positions, and a position uses up a token that was bought (`Stocked`).
What was paid without trouble is in the results of the plan (`Reported`), which the call carries to the
server (`Answers`), whose filters keep wallet results in networks that have Orca. The numbers of alike deposits are the first ones (`Numbered`), so
they can be counted. `WInv` was checked with TLC first. Assumptions: `CallAssumption` (calls are numbers
other than 0, which in `ledger` names the row made with the job; at least one attempt) and
`SetupAssumption`.

Seen while modelling: the token program ids at `orcaAdapter.ts:110` and `liveAccountAssets.ts:10` have
33 bytes, so every live Orca allocation of the server from 25 USD on fails before it is sent, and is
dropped. The dry-run table of Solana sums to 135%. `ENABLE_ORCA_LIVE` is never tested,
`runtimeMode.ts:152` notwithstanding. `executionPreview.ts:27` must match the adapters, but Base,
Solana and Ethereum differ. The weight of a row is applied twice to a wallet's deposit
(`OrchestratorBoard.tsx:1022`, `orcaWalletExecution.ts:403`). With Multi, live, and no Solana key,
each attempt mints again (`MintsOnce` excludes it). A plan that throws forgets the rows already paid.
A press after a finished one opens a new plan; the wallet pays again while the server replays its
answer. A press before the booking was answered books the deposit a second time (`BookedOnce` says
when).

## ClientSession

**State.** The cookies (`jar`: whose access cookie and whether it is valid, the refresh session,
whether there is a csrf cookie), the server's sessions (`alive`), the markers in localStorage, per tab
the stored csrf token and the account on its screen, `shown` (whose rows it has) and `call`, the
asynchronous operations. A csrf token is "current" or "stale" against the cookie. The names of the
calls are kept as sets, as they differ only in their method.

**Actions.** `BeginLogin`, `BeginLogout`, `BeginCall`, `BeginLoad`, `BeginWithdraw`; `TokenAnswered`
and `TokenFails` for the csrf token that is fetched first; `Handle` is the server, `Arrive` the
browser, which takes over the cookies of an answer, `Resume` the code that awaited it, up to its next
await. `Lost` is a request or answer that does not arrive, `Expire` the access token.

**Run.** `client_session`: seven plans of up to four operations of two users in two tabs, with one
request that may fail: another user's login in the same tab, a first login, calls of two tabs, a
withdrawal beside a call, a logout in the other tab. Operations begin in any order. `HandledOnce` is
about all the sendings of a call; `TheScreenTellsTheAccount` names the three situations in which it
does fail (`mixed`).

**Fairness.** Weak fairness of each call's answer, arrival and resumption: a fetch has no time limit,
but the server answers what reaches it or the connection breaks. `CallsSettle` uses it: refreshes and
resends come to an end although the token may expire at every step.

**Proved** (`ClientSessionProofs`, for every set of tabs, users and plans): all three safety properties.
`HandledOnce`: a handler runs with the answer "ok", after which nothing is asked again. `ResendsMatch`: a
call that is about to be sent again holds the token of the cookie, unless another answer has replaced the
cookie since (`overtaken`). `TheScreenTellsTheAccount` relates cookies, markers, screens and all calls
in flight: while nothing is `mixed`, the cookies, and what a load carries or has brought, belong to the
user of the screens, except between the answer of a login and the moment its tab hears of it (`Window`).
In that window the cookies are already the new user's while the tab's screen is not. Assumptions: `NoneAssumption` (no account is called
like the absence of one) and `PlansAssumption` (the form of a plan, and that it opens tabs that there are).

Seen while modelling: a logout that is refused or lost leaves the session alive under a message of
success. A refresh answered after logout and login restores the markers of the former user. On a
direct change of accounts the rows of the former stay until the new ones arrive. Wallet users cannot
pass the password check of a withdrawal. A failed withdrawal is reported as processed
(`handleWithdrawProtocolExposure` swallows the error). Withdrawals carry no idempotency key: a user
who repeats one after a lost answer withdraws twice, which is another call and not excluded by
`HandledOnce`. The development fallback to port 8787 resends login and registration.

## Findings

- `same_key`: two overlapping requests with one `Idempotency-Key` both run the adapters and are both
  answered "execution accepted", with two results and two deposit rows, where `README.md:104` promises
  the existing result. The event that identifies a repetition is written only after the run. In
  sequence the promise holds: `RecordedKeyNeverReruns` and `SequentialRerunSkips`.
- `cancel_race`: `server/store.ts:126` refuses to cancel an executed job, but the test and the update
  are separated by an await; a job executed in between is overwritten with "cancelled" and the cancel
  is acknowledged. A new execution still cannot start after it: `AcknowledgedCancelHolds`.
- `uniswap_scan`: `server/positionVerifier.ts:516` uses a variable that is not in scope. The scan of a
  wallet with a Uniswap token throws, so its rows read as an RPC error with every call answered, where
  the head of the file (line 10) keeps that verdict for calls that failed.
- `skipped_rows`: the board says that protocols that are not ready are skipped
  (`OrchestratorBoard.tsx:735`). The readiness is applied to the results, after the adapters have
  submitted (`executionAdapter.ts:111`): with a Solana wallet only, the server mints the Uniswap
  position that its answer lists as skipped.

## Every property has a mutant

Next to a definition stand its mutants (`ExecuteDecide_NoSkip`, `Drain_NoBreak`, ...): what the code
would do after a plausible slip. With the definition replaced by its mutant, TLC finds the property
violated under the configuration of its run; `PROJECT.json` pairs them. Type invariants and the two
invariants that say who may run what (`TypeOK` of each module, `OnlyOwnerExecutes`) are no longer runs: the
first are proved (`JobExecution`, `AuthSessions`), the second is the theorem `OwnersOnly`.

## Only model-checked

Liveness (`EveryRequestSettles`, `PressSettles`, `CallsSettle`): beyond the prover, like ENABLED in
their fairness. All other properties of passing runs are theorems.

## Not modelled

- **Bootstrap** (`db.ts`, `ensureDemoUsers.ts`): `initDb` publishes the client before the migrations
  have run and the server may listen after 25 s. What follows depends on which statement of which
  request meets which missing table; the outcomes are SQL errors that the `DbError` steps of the other
  modules already have.
- **Runtime mode overrides**: the setters have no caller; the mode is part of the setups of
  `DepositBoard`.
- **Approval log**: rows that nothing reads (`README.md:90`).
- **Market rates, snapshot pruning and history, account assets, news, fees, secrets**: reads of
  outside services and charts. The prune counter is lost at a restart, and the history adds up every
  sample of a bucket (`onchainSnapshots.ts:257`). The balance check before a job reserves nothing, so
  two jobs may rest on one balance.
- **Solana withdrawals of the wallet** (`solanaWalletActions.ts`): the same send and monitor as the
  deposits, without a booking.
- **The three transactions of the Uniswap adapter** are one step; the Morpho adapter has no caller.
- **Planning texts and scores** (`strategyEngine.ts`, `portfolioRisk.ts`), rendering, listings,
  request parsing, rate limits, upper limits on amounts and label lengths, the decoding of contract
  reads, the rounding of doubles.
- The offline script `defi_anal.py` and the prompts under `agents/`.

## Running

    tlc -workers 2 -config JobExecution_safety.cfg MCJobExecution.tla        # execute_and_cancel
    tlc -workers 2 -config JobExecution_lifecycle.cfg MCJobExecution.tla     # lifecycle
    tlc -workers 2 -config DepositLedger_safety.cfg MCDepositLedger.tla      # ledger
    tlc -workers 2 -config AuthSessions_safety.cfg MCAuthSessions.tla        # sessions
    tlc -workers 2 -config PositionSync_safety.cfg MCPositionSync.tla        # position_sync
    tlc -workers 2 -config AavePositions_safety.cfg MCAavePositions.tla      # aave
    tlc -workers 2 -config DepositBoard_flow.cfg MCDepositBoard.tla          # execution_flow
    tlc -workers 2 -config ClientSession_browser.cfg MCClientSession.tla     # client_session
    tlapm JobExecutionProofs.tla      (also DepositLedgerProofs, AuthSessionsProofs, PositionSyncProofs,
                                       AavePositionsProofs, DepositBoardProofs, ClientSessionProofs,
                                       SumTheorems)

The four configurations of Findings are `JobExecution_same_key.cfg`, `JobExecution_cancel_race.cfg`,
`PositionSync_uniswap.cfg` and `DepositBoard_skipped.cfg`; TLC ends them with a counterexample.

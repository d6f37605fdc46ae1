----------------------------- MODULE AdapterRun -----------------------------
(***************************************************************************)
(* The execution of a deposit job by the server: executeJob of             *)
(* server/store.ts around runExecutionAdapter of server/                   *)
(* executionAdapter.ts and the adapters of server/adapters.  JobExecution  *)
(* has the store in full and an adapter run as one await; here the run is  *)
(* opened up and the store is reduced to what a single job and a single    *)
(* key show of it.                                                         *)
(*                                                                         *)
(* The adapters of a network run side by side and the first rejection      *)
(* rejects the attempt: the others are not stopped, and the next attempt   *)
(* starts them again.  Only the Uniswap adapter sends transactions, and    *)
(* only the Orca adapter can reject.                                       *)
(***************************************************************************)
EXTENDS Integers, FiniteSets, Sequences, Functions

CONSTANTS
    Calls,       \* POST /api/orchestrator/execute of the job
    MaxAttempts, \* bound: attempts of an execution (the code has three)
    MaxFaults    \* bound: what the environment may do wrong

ASSUME CallAssumption ==
    Calls \subseteq Nat \ {0} /\ MaxAttempts \in Nat /\ MaxAttempts > 0 /\ MaxFaults \in Nat

VARIABLES
    setup,       \* the job and the environment: see DepositBoard
    exec,        \* [Calls -> record]: one call
    uni,         \* [Calls -> [1..MaxAttempts -> state of the Uniswap adapter]]
    orca,        \* [Calls -> [1..MaxAttempts -> state of the Orca adapter]]
    event,       \* the execution event recorded under the job's key
    ledger,      \* deposit_positions of the job: who inserted them
    moved,       \* set of records: the deposits that reached a chain
    faults,      \* how many faults have happened (bounded)
    overlapped   \* history: a call looked its key up while another was running

server == <<exec, uni, orca, event>>

-----------------------------------------------------------------------------
(* The allocation tables, in percent of the deposit.  An action is named   *)
(* as in the code, with _ for a blank.                                     *)

Row(protocol, chain, action, weight) ==
    [protocol |-> protocol, chain |-> chain, action |-> action, weight |-> weight]

NetworkOf(product) ==
    CASE product \in {"multi-stable", "multi-balanced"} -> "Multi"
      [] product = "arb-stable"  -> "Arbitrum"
      [] product = "base-stable" -> "Base"
      [] product = "sol-stable"  -> "Solana"
      [] OTHER                   -> "Ethereum"

AaveTable(product) ==
    CASE product \in {"multi-stable", "arb-stable"} ->
             {Row("Aave", "Arbitrum", "USDC_Supply_(eMode)", 45)}
      [] product \in {"multi-balanced", "base-stable"} ->
             {Row("Aave", "Base", "USDC_Supply_(eMode)", 50)}
      [] product = "eth-stable"   -> {Row("Aave", "Ethereum", "USDC_Supply", 40)}
      [] product = "eth-bluechip" -> {Row("Aave", "Ethereum", "WETH_Supply", 30)}
      [] OTHER -> {}

StablePair == Row("Uniswap", "Arbitrum", "USDC-USDT_LP_(0.01%)", 35)

\* Only the USDC-USDT pool of Arbitrum can be live.
UniswapTable(product) ==
    CASE product = "multi-stable"   -> {StablePair}
      [] product = "multi-balanced" -> {Row("Uniswap", "Arbitrum", "ETH-USDC_LP_(50%)", 30)}
      [] product = "arb-stable"     ->
             {StablePair, Row("Uniswap", "Arbitrum", "ETH-USDC_LP_(50%)", 20)}
      [] product = "eth-stable"   -> {Row("Uniswap", "Ethereum", "USDC-USDT_LP_(0.01%)", 25)}
      [] product = "eth-bluechip" -> {Row("Uniswap", "Ethereum", "ETH-USDC_LP", 30)}
      [] OTHER -> {}

\* A sequence: a wallet goes through it in this order.
OrcaTable(product) ==
    CASE product = "multi-stable"   -> <<Row("Orca", "Solana", "USDC-USDT_(0.01%)", 20)>>
      [] product = "multi-balanced" -> <<Row("Orca", "Solana", "mSOL-SOL", 20)>>
      [] product = "sol-stable"     -> <<Row("Orca", "Solana", "USDC-USDT_(0.01%)", 40),
                                         Row("Orca", "Solana", "SOL-USDC", 35),
                                         Row("Orca", "Solana", "mSOL-SOL", 25)>>
      [] product \in {"eth-stable", "eth-bluechip"} -> <<Row("Orca", "Solana", "USDC-USDT", 20)>>
      [] OTHER -> <<>>

OrcaRows(product) == Range(OrcaTable(product))

CurveTable(product) ==
    CASE product = "eth-stable"   -> {Row("Curve", "Ethereum", "3pool_LP", 35)}
      [] product = "eth-bluechip" -> {Row("Curve", "Ethereum", "stETH-ETH_LP", 40)}
      [] OTHER -> {}

AerodromeTable(product) ==
    IF product = "base-stable" THEN {Row("Aerodrome", "Base", "USDC-USDT_Slipstream", 50)}
                               ELSE {}

RaydiumTable(product) ==
    IF product = "sol-stable" THEN {Row("Raydium", "Solana", "SOL-USDC_AMM", 35)} ELSE {}

-----------------------------------------------------------------------------
\* The rows of an answer differ in their keys, so a list of them is a set.
NoAnswer == [ok |-> FALSE, told |-> "none", rows |-> {}, skipped |-> {}]
NoExec == [pc |-> "idle", attempt |-> 0, ready |-> {}, unready |-> {}, client |-> {},
           positionId |-> FALSE, answer |-> NoAnswer]

Over == {"idle", "answered"}
Live == setup.mode = "live"
Network == NetworkOf(setup.product)
Usd(weight) == (setup.deposit * weight) \div 100     \* in cents

\* What an adapter answers for a row of its table.
Result(row, status) ==
    [protocol |-> row.protocol, chain |-> row.chain, action |-> row.action,
     usd |-> Usd(row.weight), status |-> status]
Results(table, status) == {Result(row, status) : row \in table}

Key(row) == <<row.protocol, row.chain, row.action>>

\* ORCA_MIN_LIVE_ALLOCATION_USD
OrcaMinimum == 2500

\* Adapters without a live mode answer "unsupported".
Simulated(table) == Results(table, IF Live THEN "unsupported" ELSE "dry-run")

\* isAdapterLiveEnabled, for the one pool that has a live mode.
UniswapIsLive ==
    Live /\ setup.confirm /\ setup.uniswap /\ StablePair \in UniswapTable(setup.product)

UniswapResults(state) ==
    {IF UniswapIsLive /\ Key(row) = Key(StablePair)
     THEN [row EXCEPT !.status = IF state = "minted" THEN "submitted" ELSE "failed"]
     ELSE row : row \in Simulated(UniswapTable(setup.product))}

\* executeOrcaLiveAlloc always throws: the token program id at orcaAdapter.ts:110
\* has 33 bytes, which new PublicKey refuses, after the pool was read and before
\* anything is sent.
AllocationFails(row) == row.usd >= OrcaMinimum

\* An allocation that is too small is reported, one that fails is dropped.
OrcaResults ==
    IF Live
    THEN {row \in Results(OrcaRows(setup.product), "unsupported") : ~AllocationFails(row)}
    ELSE Results(OrcaRows(setup.product), "simulated")

\* Mutant of OrcaPart: what the wallet has done is not asked for.
OrcaPart_ServerOnly(c) == OrcaResults

\* What the client has done itself stands for the Orca adapter.
OrcaPart(c) == IF exec[c].client # {} THEN exec[c].client ELSE OrcaResults

OrcaRuns(client) == Live /\ Network \in {"Solana", "Multi"} /\ client = {}

\* runAdaptersByNetwork
AdapterRows(c, state) ==
    LET p == setup.product
        aave == Simulated(AaveTable(p))
        uniswap == UniswapResults(state)
    IN CASE Network = "Arbitrum" -> aave \cup uniswap
         [] Network = "Base"     -> aave \cup Simulated(AerodromeTable(p))
         [] Network = "Solana"   -> OrcaPart(c) \cup Simulated(RaydiumTable(p))
         [] Network = "Ethereum" -> aave \cup Simulated(CurveTable(p)) \cup uniswap
         [] OTHER                -> aave \cup uniswap \cup OrcaPart(c)

\* filterLiveResults: what the client says of a row goes before the default.
Counts(c, row) ==
    \/ ~Live
    \/ Key(row) \in exec[c].ready
    \/ Key(row) \notin exec[c].unready /\ row.protocol \in {"Aave", "Uniswap", "Orca"}

Bundle(c) ==
    LET rows == AdapterRows(c, uni[c][exec[c].attempt]) IN
    [ok |-> TRUE, told |-> "own", rows |-> {row \in rows : Counts(c, row)},
     skipped |-> {row \in rows : ~Counts(c, row)}]

-----------------------------------------------------------------------------
(* The adapters of one attempt.                                            *)

ServerInit ==
    /\ exec = [c \in Calls |-> NoExec]
    /\ uni = [c \in Calls |-> [a \in 1 .. MaxAttempts |-> "off"]]
    /\ orca = [c \in Calls |-> [a \in 1 .. MaxAttempts |-> "off"]]
    /\ event = NoAnswer
    /\ ledger = {}
    /\ moved = {}
    /\ faults = 0
    /\ overlapped = FALSE

Alike(by, call, key, usd) ==
    {d \in moved : d.by = by /\ d.call = call /\ d.key = key /\ d.usd = usd}

\* Deposits that are alike are told apart by their number.
Moved(by, call, row) ==
    moved' = moved \cup {[by |-> by, call |-> call, key |-> Key(row), usd |-> row.usd,
                          nth |-> Cardinality(Alike(by, call, Key(row), row.usd)) + 1]}

GotoUni(c, a, state) == uni' = [uni EXCEPT ![c][a] = state]

\* The settings, the address of a node, the cap, the pool's health, the key, the
\* price or an approval: what fails before the mint ends in a row "failed".
UniStops(c, a) ==
    /\ uni[c][a] = "submit"
    /\ GotoUni(c, a, "failed")
    /\ UNCHANGED <<setup, exec, orca, event, ledger, moved, faults, overlapped>>

\* submitUniswapTxsIfLive.  Only the mint moves a deposit, so the awaits before it
\* are one step with it; its answer may be lost after it was sent.
UniMint(c, a) ==
    /\ uni[c][a] = "submit"
    /\ \E state \in {"minted", "failed"} : GotoUni(c, a, state)
    /\ Moved("server", c, Result(StablePair, "submitted"))
    /\ UNCHANGED <<setup, exec, orca, event, ledger, faults, overlapped>>

\* createOrcaLiveClient rejects when the server has no Solana key.
OrcaClient(c, a) ==
    /\ orca[c][a] = "client"
    /\ orca' = [orca EXCEPT ![c][a] = IF setup.solanaKey THEN "settled" ELSE "rejected"]
    /\ UNCHANGED <<setup, exec, uni, event, ledger, moved, faults, overlapped>>

-----------------------------------------------------------------------------
(* A call.                                                                 *)

\* ensureSafeLiveMode throws before any adapter starts.
StartAttempt(c, n) ==
    LET safe == ~Live \/ setup.confirm IN
    /\ exec' = [exec EXCEPT ![c].pc = "run", ![c].attempt = n]
    /\ GotoUni(c, n, IF safe /\ UniswapIsLive THEN "submit" ELSE "settled")
    /\ orca' = [orca EXCEPT ![c][n] = IF ~safe THEN "rejected"
                                      ELSE IF OrcaRuns(exec[c].client) THEN "client" ELSE "settled"]

\* A result recorded under the key is told again.  Both writes of an accepted
\* execution are one step here, so no job is executed without one.
Lookup(c) ==
    /\ exec[c].pc = "lookup"
    /\ IF event.told # "none"
       THEN /\ exec' = [exec EXCEPT ![c].pc = "answered", ![c].answer = [event EXCEPT !.told = "again"]]
            /\ UNCHANGED <<uni, orca, overlapped>>
       ELSE /\ StartAttempt(c, 1)
            /\ overlapped' = (overlapped \/ \E d \in Calls \ {c} : exec[d].attempt > 0)
    /\ UNCHANGED <<setup, event, ledger, moved, faults>>

\* Mutant of Rejected: a failed Uniswap submission rejects as well.
Rejected_UniswapToo(c, a) == orca[c][a] = "rejected" \/ uni[c][a] = "failed"

Rejected(c, a) == orca[c][a] = "rejected"

AttemptResolves(c) ==
    /\ exec[c].pc = "run"
    /\ uni[c][exec[c].attempt] \in {"settled", "minted", "failed"}
    /\ orca[c][exec[c].attempt] = "settled" /\ ~Rejected(c, exec[c].attempt)
    /\ exec' = [exec EXCEPT ![c].pc = "record", ![c].answer = Bundle(c)]
    /\ UNCHANGED <<setup, uni, orca, event, ledger, moved, faults, overlapped>>

AttemptRejects(c) ==
    LET a == exec[c].attempt IN
    /\ exec[c].pc = "run"
    /\ Rejected(c, a)
    /\ IF a < MaxAttempts
       THEN StartAttempt(c, a + 1)
       ELSE /\ exec' = [exec EXCEPT ![c].pc = "record", ![c].answer = [NoAnswer EXCEPT !.told = "own"]]
            /\ UNCHANGED <<uni, orca>>
    /\ UNCHANGED <<setup, event, ledger, moved, faults, overlapped>>

\* The event; a second one under the key is refused and the refusal dropped.
Record(c) ==
    /\ exec[c].pc = "record"
    /\ event' = IF event.told = "none" THEN exec[c].answer ELSE event
    /\ exec' = [exec EXCEPT ![c].pc = IF exec[c].answer.ok THEN "ledger" ELSE "answered"]
    /\ UNCHANGED <<setup, uni, orca, ledger, moved, faults, overlapped>>

\* recordExecutionPositionIfNeeded
RecordRow(c) ==
    /\ exec[c].pc = "ledger"
    /\ exec' = [exec EXCEPT ![c].pc = "answered"]
    /\ ledger' = IF exec[c].positionId THEN ledger ELSE ledger \cup {c}
    /\ UNCHANGED <<setup, uni, orca, event, moved, faults, overlapped>>

ServerStep(c) ==
    \/ Lookup(c) \/ AttemptResolves(c) \/ AttemptRejects(c) \/ Record(c) \/ RecordRow(c)
    \/ \E a \in 1 .. MaxAttempts : UniStops(c, a) \/ UniMint(c, a) \/ OrcaClient(c, a)

-----------------------------------------------------------------------------
(* Properties of the server's part.                                        *)

Ran(c) == exec[c].attempt > 0
MintsOf(c) == {d \in moved : d.by = "server" /\ d.call = c}

\* The USDC-USDT position is minted at most once for a job, even when the mint
\* is reported as failed after it was sent, unless two calls overlapped or the
\* server runs Orca beside it without a key.  (With either it does happen: the
\* mint of a rejected attempt goes on while the next attempt mints again.)
MintsOnce ==
    Cardinality(UNION {MintsOf(c) : c \in Calls}) > 1 => overlapped \/ ~setup.solanaKey

\* OrchestratorBoard.tsx:735 says that protocols that are not ready are skipped:
\* what an answer lists as skipped has not been deposited by its run.
SkippedMeansNotSubmitted ==
    \A c \in Calls : exec[c].pc = "answered" /\ exec[c].answer.told = "own" =>
        \A d \in MintsOf(c), row \in exec[c].answer.skipped : Key(row) # d.key

=============================================================================

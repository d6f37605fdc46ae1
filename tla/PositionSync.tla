---------------------------- MODULE PositionSync ----------------------------
(***************************************************************************)
(* The reading of a user's positions: GET /api/positions, which verifies   *)
(* the stored rows against the chain, writes the verdicts back and samples *)
(* the result, and GET /api/orca/positions, which adds the positions found *)
(* in the wallet (server/positionVerifier.ts, server/onchainSnapshots.ts,  *)
(* the accounting of server/intentStore.ts, the routes of server/index.ts).*)
(*                                                                         *)
(* A row and the position on chain it was recorded for have one name.      *)
(* hold[w][r] is what wallet w has in the position of row r: Gone when     *)
(* there is no such account or token, 0 when it is there but empty, a      *)
(* value in USD otherwise.  pool[r] is the pool of the position: for Aave  *)
(* the chain, for Curve the LP token.                                      *)
(*                                                                         *)
(* Every await is a point where another request, or the owner of a wallet, *)
(* may act.  The rows of one request are verified concurrently.            *)
(***************************************************************************)
EXTENDS Integers, FiniteSets, FiniteSetsExt

CONSTANTS
    Rows,                       \* rows of the positions table of one user
    EvmWallets, SolanaWallets,  \* wallets the user connects or has saved
    Requests,                   \* requests of the user
    Pools,
    Amounts,                    \* values a position may have; contains 0
    MaxMoves                    \* bound: how often value moves on chain

Gone == -1     \* neither an account nor a token on chain
NoValue == -1  \* onchainAmountUsd = null
NoWallet == "no wallet"
Wallets == EvmWallets \cup SolanaWallets

ASSUME RowsAssumption == IsFiniteSet(Rows)
ASSUME AmountsAssumption == Amounts \subseteq Nat /\ 0 \in Amounts
ASSUME WalletsAssumption == EvmWallets \cap SolanaWallets = {} /\ NoWallet \notin Wallets

\* "Other" stands for every protocol, and every chain, without a reader.
Protocols == {"Aave", "Uniswap", "Orca", "Curve", "Other"}

VARIABLES
    protocol,    \* [Rows -> Protocols],
    pool,        \* [Rows -> Pools]: what the rows were recorded with
    home,        \* [Rows -> Wallets]: the wallet that deposited
    db,          \* [Rows -> Amounts]: amount_usd = principal_usd
    hold,        \* [Wallets -> [Rows -> Amounts \cup {Gone}]]: the chain
    moves,       \* how often value moved (bounded)
    row,         \* [Rows -> record]: the columns a verification writes
    stale,       \* [Rows -> BOOLEAN]: last_synced_at is five minutes old
    req,         \* [Requests -> record]
    task,        \* [Requests -> [Rows -> record]]: one verification each
    answer,      \* the entries of the last list of found positions sent back
    sampled,     \* [Rows -> value]: the last snapshot of the row
    closure,     \* history: what the read that closed a row had seen
    window       \* history: the balances there were while a request ran

recorded == <<protocol, pool, home, db>>
vars == <<recorded, hold, moves, row, stale, req, task, answer, sampled, closure, window>>

-----------------------------------------------------------------------------
(* What a wallet holds, and the verdicts on it.                            *)

\* The positions of one protocol that wallet w still has an account of.
Accounts(w, kind) == {r \in Rows : protocol[r] = kind /\ hold[w][r] # Gone}

Total(value, positions) == MapThenSumSet(LAMBDA s : value[s], positions)

\* What the wallet has in the pool of row r: aToken and LP balances are one
\* number for a wallet, whatever the number of deposits behind it.
HeldIn(w, kind, p) ==
    Total(hold[w], {s \in Accounts(w, kind) : pool[s] = p})
Balance(w, r) == HeldIn(w, protocol[r], pool[r])

Found(positions) == [found |-> positions, threw |-> FALSE]
Threw == [found |-> {}, threw |-> TRUE]

\* scanOrcaWalletPositions: a position whose pool cannot be read is left out.
ScanOrca(w, down, broken) ==
    IF down THEN Threw ELSE Found(Accounts(w, "Orca") \ broken)

\* Mutant of ScanCurve: an unreadable pool is an empty one.
ScanCurve_NeverThrows(w, broken) ==
    Found({r \in Rows : protocol[r] = "Curve" /\ hold[w][r] > 0
                           /\ \A s \in broken : pool[s] # pool[r]})

\* scanCurveWalletPositions throws when it read no balance and failed somewhere.
ScanCurve(w, broken) ==
    LET listed == {r \in Rows : protocol[r] = "Curve"}
        failed == listed \cap broken
        found  == {r \in listed : hold[w][r] > 0 /\ \A s \in failed : pool[s] # pool[r]}
    IN IF found = {} /\ failed # {} THEN Threw ELSE Found(found)

\* scanUniswapWalletPositions ends by storing its result under "cacheKey", a
\* name only the Orca scan has: once the wallet has a token at all the scan
\* throws, and the Orca cache that line was meant for is never filled.
ScanUniswap(w, down) ==
    IF down \/ Accounts(w, "Uniswap") # {} THEN Threw ELSE Found({})

Verdict(status, value) == [status |-> status, value |-> value]
NoData == Verdict("none", NoValue)

\* calcDriftPct(stored, onchain) > percent
DriftsOver(stored, onchain, percent) ==
    IF stored = 0 THEN onchain # 0
    ELSE \/ 100 * (onchain - stored) > percent * stored
         \/ 100 * (stored - onchain) > percent * stored

Compare(stored, onchain, percent) ==
    IF onchain = 0 /\ stored > 0 THEN Verdict("closed_onchain", 0)
    ELSE IF DriftsOver(stored, onchain, percent) THEN Verdict("drift", onchain)
    ELSE Verdict("verified", onchain)

\* No snapshot at all reads as a closed position; snapshots of which none is
\* the row's read as "unsupported", which is not written back.
FromScan(scan, matching, stored, value, percent) ==
    IF scan.threw THEN Verdict("rpc_error", NoValue)
    ELSE IF scan.found = {} THEN Verdict("closed_onchain", NoValue)
    ELSE IF matching = {} THEN Verdict("unsupported", NoValue)
    ELSE Compare(stored, value, percent)

\* verifyAavePosition: one balanceOf, compared within five percent.
VerifyAave(w, r, down) ==
    IF down THEN Verdict("rpc_error", NoValue) ELSE Compare(db[r], Balance(w, r), 5)

\* verifyUniswapPosition: the token of the row, or every token of the wallet.
VerifyUniswap(w, r, down) ==
    LET scan == ScanUniswap(w, down)
        chosen == IF r \in scan.found THEN {r} ELSE scan.found
    IN FromScan(scan, chosen, db[r], Total(hold[w], chosen), 10)

\* verifyCurvePosition: the snapshot of the row's LP token.
VerifyCurve(w, r, broken) ==
    LET scan == ScanCurve(w, broken)
    IN FromScan(scan, {s \in scan.found : pool[s] = pool[r]}, db[r], Balance(w, r), 10)

\* verifyOrcaPosition.  No row ever gets past the scan: the wallet of a row is an
\* isAddress of viem, and an EVM address is no PublicKey.
VerifyOrca(w, r, down, broken) ==
    LET scan == IF w \in SolanaWallets THEN ScanOrca(w, down, broken) ELSE Threw
        near == {s \in scan.found : pool[s] = pool[r]}
    IN FromScan(scan, near, db[r], IF near = {} THEN NoValue ELSE hold[w][CHOOSE s \in near : TRUE], 5)

\* verifyPosition
VerdictOn(w, r, down, broken) ==
    IF w = NoWallet THEN Verdict("rpc_error", NoValue)
    ELSE IF protocol[r] = "Orca" THEN VerifyOrca(w, r, down, broken)
    ELSE IF protocol[r] = "Aave" THEN VerifyAave(w, r, down)
    ELSE IF protocol[r] = "Uniswap" THEN VerifyUniswap(w, r, down)
    ELSE IF protocol[r] = "Curve" THEN VerifyCurve(w, r, broken)
    ELSE Verdict("unsupported", NoValue)

-----------------------------------------------------------------------------
Idle == [stage |-> "idle", kind |-> "positions", evm |-> NoWallet, sol |-> NoWallet,
         force |-> FALSE]
NoTask == [stage |-> "none", verdict |-> NoData, cached |-> FALSE, failed |-> FALSE,
           saw |-> "none", seen |-> NoValue]
Entry(r, source) == [position |-> r, source |-> source]
PublicEntry(kind, pools, w, status) ==
    [wallet |-> w, kind |-> kind, pools |-> pools, status |-> status, source |-> "public"]

Init ==
    /\ protocol \in [Rows -> Protocols]
    /\ pool \in [Rows -> Pools]
    /\ home \in [Rows -> Wallets]
    /\ \A r \in Rows : protocol[r] = "Orca" <=> home[r] \in SolanaWallets
    /\ db \in [Rows -> Amounts \ {0}]
    /\ moves = 0
    /\ \E closed \in SUBSET Rows :  \* rows closed earlier
          /\ hold = [w \in Wallets |-> [r \in Rows |->
                       IF home[r] = w /\ r \notin closed THEN db[r] ELSE Gone]]
          /\ row = [r \in Rows |-> [status |-> IF r \in closed THEN "closed" ELSE "active",
                                    value |-> db[r], pnl |-> 0, data |-> NoData]]
    /\ stale = [r \in Rows |-> FALSE]
    /\ req = [q \in Requests |-> Idle]
    /\ task = [q \in Requests |-> [r \in Rows |-> NoTask]]
    /\ answer = {}
    /\ sampled = [r \in Rows |-> NoValue]
    /\ closure = [r \in Rows |-> "none"]
    /\ window = [q \in Requests |-> [w \in EvmWallets |-> [r \in Rows |-> {}]]]

\* The owner deposits, withdraws or closes outside of the program, or interest
\* accrues.
Move(r) ==
    /\ moves < MaxMoves
    /\ UNCHANGED <<recorded, row, stale, req, task, answer, sampled, closure>>
    /\ \E v \in (Amounts \cup {Gone}) \ {hold[home[r]][r]} :
          hold' = [hold EXCEPT ![home[r]][r] = v]
    /\ moves' = moves + 1
    /\ window' = [q \in Requests |-> [w \in EvmWallets |-> [s \in Rows |->
                    IF req[q].stage = "reading" THEN window[q][w][s] \cup {Balance(w, s)'}
                    ELSE window[q][w][s]]]]

\* Five minutes since the row was last synced.
Age(r) ==
    /\ ~stale[r] /\ row[r].data # NoData
    /\ stale' = [stale EXCEPT ![r] = TRUE]
    /\ UNCHANGED <<recorded, hold, moves, row, req, task, answer, sampled, closure, window>>

\* Mutant of FromCache: a refresh is answered from the row.
FromCache_IgnoresForce(kind, force, r) ==
    kind = "positions" /\ ~stale[r] /\ row[r].data # NoData

\* enrichPositionsWithOnchain answers from the row when it was synced within
\* five minutes and the caller did not ask for a refresh.
FromCache(kind, force, r) ==
    kind = "positions" /\ ~force /\ ~stale[r] /\ row[r].data # NoData

\* listPositionsByUser, and the synchronous start of one verification per row.
\* The wallets are those the caller names, or the saved ones.
List(q, kind, evm, sol, force) ==
    /\ req[q].stage = "idle"
    /\ req' = [req EXCEPT ![q] = [stage |-> "reading", kind |-> kind, evm |-> evm,
                                  sol |-> sol, force |-> force]]
    /\ task' = [task EXCEPT ![q] = [r \in Rows |->
                  IF row[r].status # "active" THEN NoTask
                  ELSE LET cached == FromCache(kind, force, r)
                       IN [NoTask EXCEPT !.stage = IF cached THEN "done" ELSE "read",
                                         !.cached = cached,
                                         !.verdict = IF cached THEN row[r].data ELSE NoData,
                                         !.seen = row[r].value]]]
    /\ window' = [window EXCEPT ![q] = [w \in EvmWallets |-> [r \in Rows |-> {Balance(w, r)}]]]
    /\ UNCHANGED <<recorded, hold, moves, row, stale, answer, sampled, closure>>

\* resolveWalletAddress: the caller's wallet first, then the wallet stored with
\* an Aave deposit.
WalletFor(q, r) ==
    IF req[q].evm # NoWallet THEN req[q].evm
    ELSE IF protocol[r] = "Aave" THEN home[r] ELSE NoWallet

\* History: what there was when a read said that the position is closed.
SawAtClosing(w, r) ==
    IF Balance(w, r) > 0 THEN "held here"
    ELSE IF Balance(home[r], r) > 0 THEN "held at home" ELSE "empty"

\* verifyPosition up to its verdict.  Only a verdict that came from the chain
\* is written back.
Read(q, r) ==
    /\ task[q][r].stage = "read"
    /\ \E down \in BOOLEAN, broken \in SUBSET Rows :
       LET w == WalletFor(q, r)
           v == VerdictOn(w, r, down, broken)
       IN task' = [task EXCEPT
             ![q][r].stage = IF v.status \in {"rpc_error", "unsupported"} THEN "done" ELSE "persist",
             ![q][r].verdict = v,
             ![q][r].failed = v.status = "rpc_error" /\ (down \/ w = NoWallet),
             ![q][r].saw = IF v.status = "closed_onchain" THEN SawAtClosing(w, r) ELSE "none"]
    /\ UNCHANGED <<recorded, hold, moves, row, stale, req, answer, sampled, closure, window>>

\* Mutant of Persist: the status follows the verdict either way.
Persist_Reopens(q, r) ==
    /\ task[q][r].stage = "persist"
    /\ LET v == task[q][r].verdict
           closes == v.status = "closed_onchain"
       IN /\ row' = [row EXCEPT ![r].data = v,
                                ![r].status = IF closes THEN "closed" ELSE "active"]
          /\ closure' = IF closes THEN [closure EXCEPT ![r] = task[q][r].saw] ELSE closure
          /\ task' = [task EXCEPT ![q][r].stage = IF closes THEN "done" ELSE "account"]
    /\ stale' = [stale EXCEPT ![r] = FALSE]
    /\ UNCHANGED <<recorded, hold, moves, req, answer, sampled, window>>

\* persistVerifyResult, the first UPDATE.
Persist(q, r) ==
    /\ task[q][r].stage = "persist"
    /\ LET v == task[q][r].verdict
           closes == v.status = "closed_onchain"
       IN /\ row' = [row EXCEPT ![r].data = v,
                                ![r].status = IF closes THEN "closed" ELSE row[r].status]
          /\ closure' = IF closes THEN [closure EXCEPT ![r] = task[q][r].saw] ELSE closure
          /\ task' = [task EXCEPT ![q][r].stage = IF closes THEN "done" ELSE "account"]
    /\ stale' = [stale EXCEPT ![r] = FALSE]
    /\ UNCHANGED <<recorded, hold, moves, req, answer, sampled, window>>

\* updatePositionAccountingFromSync: principal and opening time never change,
\* so its SELECT and its UPDATE are one step.
Account(q, r) ==
    /\ task[q][r].stage = "account"
    /\ LET v == task[q][r].verdict.value
       IN row' = [row EXCEPT ![r].value = v, ![r].pnl = v - db[r]]
    /\ stale' = [stale EXCEPT ![r] = FALSE]
    /\ task' = [task EXCEPT ![q][r].stage = "done"]
    /\ UNCHANGED <<recorded, hold, moves, req, answer, sampled, closure, window>>

Verified(q) == \A r \in Rows : task[q][r].stage \in {"none", "done"}
ListedBy(q) == {r \in Rows : task[q][r].stage = "done"}

\* recordOnchainPositionSnapshots: the value of the listed row goes before the
\* one that was just read.  A failure to store is logged and forgotten.
Sample(q, listed) ==
    \/ sampled' = [r \in Rows |-> IF r \in listed THEN task[q][r].seen ELSE sampled[r]]
    \/ UNCHANGED sampled

\* The request is over: its local state is gone.
Leave(q) ==
    /\ req' = [req EXCEPT ![q] = [Idle EXCEPT !.stage = "over"]]
    /\ task' = [task EXCEPT ![q] = [r \in Rows |-> NoTask]]
    /\ window' = [window EXCEPT ![q] = [w \in EvmWallets |-> [r \in Rows |-> {}]]]

AnswerPositions(q) ==
    /\ req[q].stage = "reading" /\ req[q].kind = "positions" /\ Verified(q)
    /\ Sample(q, ListedBy(q))
    /\ Leave(q)
    /\ UNCHANGED <<recorded, hold, moves, row, stale, answer, closure>>

\* Mutant of Additions: the pools of the stored rows are not looked at.
Additions_IgnoresRows(scan, listed) ==
    {A \in SUBSET scan.found :
        /\ \A s, t \in A : s # t => pool[s] # pool[t]
        /\ \A s \in scan.found : \E r \in A : pool[s] = pool[r]}

\* The snapshots listOnchainPositionsForUser adds: those of pools that are not
\* listed yet, one for a pool, whichever the scan returned first.
Additions(scan, listed) ==
    {A \in SUBSET scan.found :
        /\ \A s \in A : \A r \in listed : pool[s] # pool[r]
        /\ \A s, t \in A : s # t => pool[s] # pool[t]
        /\ \A s \in scan.found : \E r \in A \cup listed : pool[s] = pool[r]}

\* The end of GET /api/orca/positions: an exception of the Orca or the Uniswap
\* scan is the whole request's, one of the Curve scan is caught; what is not of
\* Orca is filtered out.
AnswerOrca(q) ==
    /\ req[q].stage = "reading" /\ req[q].kind = "orca" /\ Verified(q)
    /\ \E down \in BOOLEAN, broken \in SUBSET Rows :
       LET orca == IF req[q].sol = NoWallet THEN Found({}) ELSE ScanOrca(req[q].sol, down, broken)
           uni  == IF req[q].evm = NoWallet THEN Found({}) ELSE ScanUniswap(req[q].evm, down)
           listed == {r \in ListedBy(q) : protocol[r] = "Orca"}
       IN \/ /\ orca.threw \/ uni.threw
             /\ UNCHANGED <<answer, sampled>>
          \/ /\ ~orca.threw /\ ~uni.threw
             /\ \E added \in Additions(orca, listed) :
                   /\ answer' = {Entry(r, "db") : r \in listed}
                                   \cup {Entry(s, "wallet_scan") : s \in added}
             /\ Sample(q, listed)
    /\ Leave(q)
    /\ UNCHANGED <<recorded, hold, moves, row, stale, closure>>

\* Mutant of StatusOf: a scan that threw found nothing.
StatusOf_ErrorIsEmpty(scan) == IF scan.found # {} THEN "verified" ELSE "closed_onchain"

StatusOf(scan) ==
    IF scan.threw THEN "rpc_error" ELSE IF scan.found = {} THEN "closed_onchain" ELSE "verified"

\* The Curve row of the public list: what was found, nothing, or an error.
PublicCurve(w, down, broken) ==
    PublicEntry("Curve", Pools, w, StatusOf(IF down THEN Threw ELSE ScanCurve(w, broken)))

\* The rows GET /api/public/positions makes of what it reads in the wallets that
\* are named: an Aave pool and a Curve scan have a row whatever happens, a chain
\* whose Uniswap scan throws is left out.
PublicEvm(w, down, broken) ==
    LET uni == ScanUniswap(w, down)
    IN {PublicEntry("Aave", {p}, w, IF down THEN "rpc_error"
                                    ELSE IF HeldIn(w, "Aave", p) > 0 THEN "verified"
                                    ELSE "closed_onchain") : p \in Pools}
       \cup (IF uni.threw THEN {} ELSE {PublicEntry("Uniswap", Pools, w, StatusOf(uni))})
       \cup {PublicCurve(w, down, broken)}

PublicOrca(w, down, broken) == {PublicEntry("Orca", Pools, w, StatusOf(ScanOrca(w, down, broken)))}

\* The request reads one wallet and one chain after the other; here in one step.
\* Its snapshots are the guest's, who has no row of his own.
AnswerPublic(q) ==
    /\ req[q].stage = "idle"
    /\ \E w \in EvmWallets, s \in SolanaWallets, down \in BOOLEAN, broken \in SUBSET Rows :
          answer' \in {PublicEvm(w, down, broken), PublicOrca(s, down, broken),
                       PublicEvm(w, down, broken) \cup PublicOrca(s, down, broken)}
    /\ Leave(q)
    /\ UNCHANGED <<recorded, hold, moves, row, stale, sampled, closure>>

Next ==
    \/ \E q \in Requests, w \in EvmWallets \cup {NoWallet} :
          \/ \E force \in BOOLEAN : List(q, "positions", w, NoWallet, force)
          \/ \E s \in SolanaWallets \cup {NoWallet} : List(q, "orca", w, s, FALSE)
    \/ \E q \in Requests : AnswerPositions(q) \/ AnswerOrca(q) \/ AnswerPublic(q)
    \/ \E q \in Requests, r \in Rows : Read(q, r) \/ Persist(q, r) \/ Account(q, r)
    \/ \E r \in Rows : Move(r) \/ Age(r)

Spec == Init /\ [][Next]_vars

-----------------------------------------------------------------------------
(* Properties.                                                             *)

\* A row is closed only after a read of a wallet that held nothing of it: no
\* failed, partial or late read closes a position (positionVerifier.ts says so
\* of RPC failures).
ClosedOnlyOnEmptyRead == \A r \in Rows : closure[r] # "held here"

\* A value that was asked for with a refresh, or that was not in the cache, is
\* one the wallet held while the request ran.
AnswersAreCurrent ==
    \A q \in Requests, r \in Rows :
        /\ task[q][r].stage = "done"
        /\ req[q].force \/ ~task[q][r].cached
        /\ task[q][r].verdict.status \in {"verified", "drift"}
        => task[q][r].verdict.value \in window[q][WalletFor(q, r)][r]

\* A row closed by one request is not opened again by the late result of
\* another.
ClosedRowsStayClosed ==
    [][\A r \in Rows : row[r].status = "closed" => row'[r].status = "closed"]_vars

\* The list of Orca positions names every pool of the rows once: a position that
\* is stored and is found in the wallet as well is not listed twice.
NoPoolListedTwice ==
    \A e \in answer, f \in answer :
        e.source = "wallet_scan" /\ e # f => pool[e.position] # pool[f.position]

\* The public list tells a visitor that nothing is deposited only of a wallet
\* that holds nothing, whichever reads fail.  Orca is left out: positions whose
\* pool cannot be read are dropped there, and none left reads as none there.
PublicEmptyIsEmpty ==
    [][\A e \in answer' \ answer :
          e.source = "public" /\ e.kind # "Orca" /\ e.status = "closed_onchain"
              => \A p \in e.pools : HeldIn(e.wallet, e.kind, p) = 0]_vars

\* "rpc_error" is a failed call and not a missing position, as the head of
\* positionVerifier.ts defines it: with a wallet and every call answered, no
\* Uniswap row is reported unreadable.
UnreadMeansUnreachable ==
    \A q \in Requests, r \in Rows :
        protocol[r] = "Uniswap" /\ task[q][r].verdict.status = "rpc_error" /\ ~task[q][r].cached
            => task[q][r].failed

=============================================================================

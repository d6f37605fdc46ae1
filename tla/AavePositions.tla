--------------------------- MODULE AavePositions ---------------------------
(***************************************************************************)
(* The confirmation of Aave USDC transactions: confirmAaveUsdcTransaction  *)
(* of server/aaveUsdc.ts with the tables it writes through server/store.ts,*)
(* server/positions.ts and server/intentStore.ts.  The server signs        *)
(* nothing: a client sends a transaction, names its hash to the server, and*)
(* the server books what the client says of it once the receipt is there.  *)
(* No route of server/index.ts calls it yet; the paths src/lib/api.ts has  *)
(* for it are not mounted.                                                 *)
(*                                                                         *)
(* One user, one wallet and one chain: every query filters by the three.   *)
(* A request inserts at most one row of each table, so its rows have its   *)
(* name.  Every await is a step of its own.                                *)
(***************************************************************************)
EXTENDS AaveWallet, FiniteSets, FiniteSetsExt

CONSTANTS
    Requests,   \* confirmations that are asked for
    MaxFaults   \* bound: database errors, failed calls and crashes

ASSUME FaultAssumption == MaxFaults \in Nat
ASSUME RequestsAssumption == "none" \notin Requests

Amounts == 1 .. MaxAmount
NoRow == [amount |-> -1, deposit |-> "none", at |-> 0]

VARIABLES
    req,         \* [Requests -> record]: one call of confirmAaveUsdcTransaction
    job,         \* [Requests -> "none" | "queued" | "executed"]
    intent,      \* [Requests -> "none" | "draft" | "completed"]
    deposit,     \* [Requests -> amount, 0 when there is no row]: deposit_positions
    aave,        \* [Txs -> row of aave_usdc_positions; deposit_tx_hash is unique]
    execution,   \* [Requests -> "none" | "confirmed"]
    position,    \* [Requests -> Txs \cup {"none"}]: positions
    entries,     \* Seq of amounts: withdrawal_ledger
    faults,      \* how many faults have happened (bounded)
    disturbed,   \* history: requests overlapped or a fault struck
    truthful     \* whether the client is: see Truthful

books == <<job, intent, deposit, aave, execution, position, entries>>
vars == <<wallet, req, books, faults, disturbed, truthful>>

-----------------------------------------------------------------------------
NoCall == [pc |-> "idle", tx |-> "none", kind |-> "none", amount |-> 0, rows |-> <<>>,
           left |-> 0]

Over == {"idle", "pending", "confirmed", "error", "lost"}
Running == {q \in Requests : req[q].pc \notin Over}
At(q, pc) == req[q].pc = pc
Goto(q, pc) == req' = [req EXCEPT ![q].pc = pc]

\* The transactions that have a row of aave_usdc_positions.
Rows == {t \in Txs : aave[t] # NoRow}

\* The statements that only touch the row the request has inserted itself.
Quiet == UNCHANGED <<wallet, faults, disturbed, truthful>>

Init ==
    /\ WalletInit
    /\ req = [q \in Requests |-> NoCall]
    /\ job = [q \in Requests |-> "none"]
    /\ intent = [q \in Requests |-> "none"]
    /\ deposit = [q \in Requests |-> 0]
    /\ aave = [t \in Txs |-> NoRow]
    /\ execution = [q \in Requests |-> "none"]
    /\ position = [q \in Requests |-> "none"]
    /\ entries = <<>>
    /\ faults = 0
    /\ disturbed = FALSE
    /\ truthful \in BOOLEAN

\* A truthful client has its transactions built here, names them in the order of
\* the chain, each once, and says of each what it was.
Truthful(t, kind, amount) ==
    LET n == Cardinality({q \in Requests : ~At(q, "idle")}) + 1 IN
    /\ Checked(t) = "confirmed"
    /\ n \in DOMAIN mined /\ mined[n] = t
    /\ tx[t].kind = kind /\ tx[t].amount = amount

\* A call that passes the validation of its arguments.
Confirm(q, t, kind, amount) ==
    /\ At(q, "idle")
    /\ req' = [req EXCEPT ![q] = [NoCall EXCEPT !.pc = "receipt", !.tx = t, !.kind = kind,
                                                !.amount = amount, !.left = amount]]
    /\ disturbed' = (disturbed \/ Running # {})
    /\ truthful => Truthful(t, kind, amount)
    /\ UNCHANGED <<wallet, books, faults, truthful>>

\* getTransactionReceipt, whose errors read as no receipt, and the checks of its
\* status, sender and target.
Receipt(q) ==
    /\ At(q, "receipt")
    /\ \/ Goto(q, CASE receipt[req[q].tx] = "none"    -> "pending"
                    [] receipt[req[q].tx] = "success" -> "reserve"
                    [] OTHER                          -> "error")
       \/ Goto(q, "pending")
    /\ UNCHANGED books /\ Quiet

\* getAaveReserve.
Reserve(q) ==
    /\ At(q, "reserve")
    /\ Goto(q, IF req[q].kind = "supply" THEN "find" ELSE "open")
    /\ UNCHANGED books /\ Quiet

-----------------------------------------------------------------------------
(* A supply.                                                               *)

\* Mutant of Find: the lookup by transaction hash is left out.
Find_NotAtAll(q) ==
    /\ At(q, "find")
    /\ Goto(q, "job")
    /\ UNCHANGED books /\ Quiet

\* An earlier confirmation of the same transaction is the answer.
Find(q) ==
    /\ At(q, "find")
    /\ Goto(q, IF aave[req[q].tx] # NoRow THEN "confirmed" ELSE "job")
    /\ UNCHANGED books /\ Quiet

Job(q) ==
    /\ At(q, "job") /\ Goto(q, "intent")
    /\ job' = [job EXCEPT ![q] = "queued"]
    /\ UNCHANGED <<intent, deposit, aave, execution, position, entries>> /\ Quiet

Intent(q) ==
    /\ At(q, "intent") /\ Goto(q, "deposit")
    /\ intent' = [intent EXCEPT ![q] = "draft"]
    /\ UNCHANGED <<job, deposit, aave, execution, position, entries>> /\ Quiet

\* createDepositPosition inserts the row and reads it back.
Deposit(q) ==
    /\ At(q, "deposit") /\ Goto(q, "readback")
    /\ deposit' = [deposit EXCEPT ![q] = req[q].amount]
    /\ UNCHANGED <<job, intent, aave, execution, position, entries>> /\ Quiet

ReadBack(q) ==
    /\ At(q, "readback") /\ Goto(q, IF deposit[q] > 0 THEN "row" ELSE "error")
    /\ UNCHANGED books /\ Quiet

\* Mutant of Row: no unique index on the hash.
Row_NotUnique(q) ==
    /\ At(q, "row") /\ Goto(q, "mark")
    /\ aave' = [aave EXCEPT ![req[q].tx] = [amount |-> req[q].amount, deposit |-> q,
                    at |-> Cardinality(Rows)]]
    /\ UNCHANGED <<job, intent, deposit, execution, position, entries>> /\ Quiet

\* The unique index on the hash refuses a second row; what was inserted before
\* it stays.
Row(q) ==
    /\ At(q, "row")
    /\ IF aave[req[q].tx] # NoRow
       THEN Goto(q, "error") /\ UNCHANGED aave
       ELSE /\ Goto(q, "mark")
            /\ aave' = [aave EXCEPT ![req[q].tx] = [amount |-> req[q].amount, deposit |-> q,
                            at |-> Cardinality(Rows)]]
    /\ UNCHANGED <<job, intent, deposit, execution, position, entries>> /\ Quiet

\* The intent is completed, whether the update succeeds or not.
Mark(q) ==
    /\ At(q, "mark") /\ Goto(q, "executed")
    /\ intent' = [intent EXCEPT ![q] = "completed"]
    /\ UNCHANGED <<job, deposit, aave, execution, position, entries>> /\ Quiet

Executed(q) ==
    /\ At(q, "executed") /\ Goto(q, "execution")
    /\ job' = [job EXCEPT ![q] = "executed"]
    /\ UNCHANGED <<intent, deposit, aave, execution, position, entries>> /\ Quiet

\* createExecution with status "confirmed", then updateExecutionConfirmed,
\* which sets the block and the receipt of the same row.
Execution(q) ==
    /\ At(q, "execution") /\ Goto(q, "receipt json")
    /\ execution' = [execution EXCEPT ![q] = "confirmed"]
    /\ UNCHANGED <<job, intent, deposit, aave, position, entries>> /\ Quiet

ExecutionReceipt(q) ==
    /\ At(q, "receipt json") /\ Goto(q, "position")
    /\ UNCHANGED books /\ Quiet

\* createPositionFromExecution, which refuses what is not confirmed.
Position(q) ==
    /\ At(q, "position") /\ Goto(q, "confirmed")
    /\ execution[q] = "confirmed"
    /\ position' = [position EXCEPT ![q] = req[q].tx]
    /\ UNCHANGED <<job, intent, deposit, aave, execution, entries>> /\ Quiet

Supply(q) ==
    \/ Find(q) \/ Job(q) \/ Intent(q) \/ Deposit(q) \/ ReadBack(q) \/ Row(q)
    \/ Mark(q) \/ Executed(q) \/ Execution(q) \/ ExecutionReceipt(q) \/ Position(q)

-----------------------------------------------------------------------------
(* A withdrawal.                                                           *)

OpenRows == {t \in Txs : aave[t].amount > 0}

\* The open rows, newest first.
Listing(order) ==
    /\ \A t \in OpenRows : \E i \in DOMAIN order : order[i] = t
    /\ \A i, j \in DOMAIN order : i < j => aave[order[i]].at > aave[order[j]].at

\* They are read once, as they are now.
Open(q) ==
    /\ At(q, "open")
    /\ \E order \in [1 .. Cardinality(OpenRows) -> OpenRows] :
          /\ Listing(order)
          /\ req' = [req EXCEPT ![q].rows = [i \in DOMAIN order |-> [tx |-> order[i],
                                                amount |-> aave[order[i]].amount,
                                                deposit |-> aave[order[i]].deposit]],
                                ![q].pc = IF order = <<>> THEN "entry" ELSE "take"]
    /\ UNCHANGED books /\ Quiet

Take(q) == Min({Head(req[q].rows).amount, req[q].left})

\* The row is set to the amount read less what is taken.
TakeRow(q) ==
    /\ At(q, "take") /\ Goto(q, "mirror")
    /\ LET r == Head(req[q].rows)
       IN aave' = [aave EXCEPT ![r.tx].amount = r.amount - Take(q)]
    /\ UNCHANGED <<job, intent, deposit, execution, position, entries>> /\ Quiet

\* Mutant of NextRow: what was taken is not counted.
NextRow_ForgetsTake(q) ==
    req' = [req EXCEPT ![q].rows = Tail(@),
                       ![q].pc = IF Tail(req[q].rows) = <<>> THEN "entry" ELSE "take"]

NextRow(q) ==
    LET left == req[q].left - Take(q)
    IN req' = [req EXCEPT ![q].rows = Tail(@), ![q].left = left,
                          ![q].pc = IF left = 0 \/ Tail(req[q].rows) = <<>> THEN "entry" ELSE "take"]

\* The deposit row follows, deleted when nothing is left; an update of a row
\* that is gone fails, and the failure is dropped.
Mirror(q) ==
    /\ At(q, "mirror") /\ NextRow(q)
    /\ LET r == Head(req[q].rows)
       IN deposit' = [deposit EXCEPT ![r.deposit] = IF @ = 0 THEN 0 ELSE r.amount - Take(q)]
    /\ UNCHANGED <<job, intent, aave, execution, position, entries>> /\ Quiet

\* The ledger keeps two decimals: a half cent is rounded up.
Cents(amount) == 2 * ((amount + 1) \div 2)

Entry(q) ==
    /\ At(q, "entry") /\ Goto(q, "confirmed")
    /\ LET withdrawn == req[q].amount - req[q].left
       IN entries' = IF withdrawn > 0 THEN Append(entries, Cents(withdrawn)) ELSE entries
    /\ UNCHANGED <<job, intent, deposit, aave, execution, position>> /\ Quiet

Withdraw(q) == Open(q) \/ TakeRow(q) \/ Mirror(q) \/ Entry(q)

-----------------------------------------------------------------------------
Fault == faults < MaxFaults /\ faults' = faults + 1 /\ disturbed' = TRUE

\* A call of the chain or the database fails.  From the execution on the error
\* is dropped, as are those of the intent's status and of the deposit row.
Fails(q) ==
    /\ Fault /\ q \in Running /\ ~At(q, "receipt")
    /\ CASE req[q].pc \in {"execution", "receipt json", "position"} -> Goto(q, "confirmed")
         [] At(q, "mark")   -> Goto(q, "executed")
         [] At(q, "mirror") -> NextRow(q)
         [] OTHER           -> Goto(q, "error")
    /\ UNCHANGED <<wallet, books, truthful>>

Crash ==
    /\ Fault /\ Running # {}
    /\ req' = [q \in Requests |-> IF q \in Running THEN [req[q] EXCEPT !.pc = "lost"] ELSE req[q]]
    /\ UNCHANGED <<wallet, books, truthful>>

Next ==
    \/ /\ IF truthful THEN WalletNext ELSE \E t \in Txs : Elsewhere(t)
       /\ UNCHANGED <<req, books, faults, disturbed, truthful>>
    \/ \E q \in Requests, t \in Txs, kind \in {"supply", "withdraw"} :
          \E a \in IF truthful THEN {tx[t].amount} ELSE Amounts : Confirm(q, t, kind, a)
    \/ \E q \in Requests : Receipt(q) \/ Reserve(q) \/ Supply(q) \/ Withdraw(q) \/ Fails(q)
    \/ Crash

Spec == Init /\ [][Next]_vars

-----------------------------------------------------------------------------
(* Properties.                                                             *)

Booked(t) == {q \in Requests : req[q].tx = t /\ req[q].kind = "supply" /\ job[q] # "none"}
Sum(f, S) == MapThenSumSet(LAMBDA x : f[x], S)

\* However often a client confirms a supply again, it is booked once: a second
\* job, and with it a second deposit row, needs calls that overlap or a fault.
\* (With either it does happen; see the README.)
BookedOnce == \A t \in Txs : ~disturbed => Cardinality(Booked(t)) <= 1

\* The positions table counts a supply once even when the deposit table does
\* not: whatever overlaps, fails or crashes, a transaction has at most one
\* position, of a mined transaction, with the row of aave_usdc_positions and the
\* deposit row of the same request.
PositionsAreConfirmed ==
    \A p \in Requests : position[p] # "none" =>
        LET t == position[p] IN
        /\ receipt[t] = "success" /\ execution[p] = "confirmed"
        /\ aave[t].deposit = p
        /\ \A q \in Requests : position[q] = t => q = p

\* Without overlaps and faults, once every call is answered: what was supplied is
\* still open or in the withdrawal ledger, up to half a cent an entry, and every
\* open row and its deposit row show the same amount.  When the client was truthful
\* and has named every transaction, what is open is what the pool holds without the
\* interest that is still there.
AaveBooksBalance ==
    Running = {} /\ ~disturbed =>
        LET supplied == Sum([q \in Requests |-> req[q].amount], UNION {Booked(t) : t \in Txs})
            open == Sum([t \in Txs |-> aave[t].amount], OpenRows)
            withdrawn == Sum(entries, DOMAIN entries)
        IN /\ withdrawn - (supplied - open) \in 0 .. Len(entries)
           /\ \A t \in Rows : deposit[aave[t].deposit] = aave[t].amount
           /\ LET asked == {q \in Requests : ~At(q, "idle")} IN
              truthful /\ Cardinality(asked) = Len(mined) /\ (\A q \in asked : At(q, "confirmed"))
                  => account.supplied - open \in 0 .. interest

=============================================================================

------------------------ MODULE AavePositionsProofs ------------------------
(***************************************************************************)
(* The invariants of AavePositions, for all requests, transactions and     *)
(* bounds.                                                                 *)
(*                                                                         *)
(* PositionsAreConfirmed holds whatever overlaps, fails or crashes: the    *)
(* row of aave_usdc_positions names the request that inserted it and is    *)
(* never inserted twice; from that row on, the request owns the            *)
(* transaction (PInv).  A step of one request leaves the rows of the       *)
(* others theirs (Frame), and the chain never takes a receipt back.        *)
(*                                                                         *)
(* BookedOnce and AaveBooksBalance speak of histories without overlap and  *)
(* fault.  Then at most one request is running, and what the tables miss   *)
(* of it, or have too much, can be read off its place in the code: InHand  *)
(* for the books, Ahead for the pool.  UInv says so, of every state; with  *)
(* ChainInv, what the pool holds is the sum of the mined transactions      *)
(* and of the interest.                                                    *)
(***************************************************************************)
EXTENDS AavePositions, SumTheorems, SequenceTheorems

Late == {"mark", "executed", "execution", "receipt json", "position"}
Booking == {"reserve", "find", "job", "intent", "deposit", "readback", "row"} \cup Late

Shape ==
    /\ DOMAIN req = Requests /\ \A q \in Requests : DOMAIN req[q] = DOMAIN NoCall
    /\ DOMAIN aave = Txs /\ \A t \in Txs : DOMAIN aave[t] = DOMAIN NoRow
    /\ DOMAIN execution = Requests /\ DOMAIN position = Requests
    /\ DOMAIN receipt = Txs

PInv(q) ==
    /\ req[q].pc \in {"receipt"} \cup Booking => req[q].tx \in Txs
    /\ req[q].pc \in Booking => receipt[req[q].tx] = "success"
    /\ req[q].pc \in Late => aave[req[q].tx].deposit = q
    /\ position[q] # "none" => /\ position[q] \in Txs
                               /\ receipt[position[q]] = "success"
                               /\ execution[q] = "confirmed"
                               /\ aave[position[q]].deposit = q

IInv == Shape /\ \A q \in Requests : PInv(q)

\* What a step of request q may do to what the others rely on.
Frame(q) ==
    /\ receipt' = receipt
    /\ \A p \in Requests \ {q} : req'[p] = req[p] /\ execution'[p] = execution[p] /\ position'[p] = position[p]
    /\ \A t \in Txs : aave[t].deposit # "none" => aave'[t].deposit = aave[t].deposit

\* The invariant holds at first.
LEMMA InitHolds == Init => IInv
<1> SUFFICES ASSUME Init PROVE IInv
    OBVIOUS
<1>1. Shape
    BY DEF Init, Shape, WalletInit
<1>2. \A q \in Requests : req[q].pc = "idle" /\ position[q] = "none"
    BY DEF Init, NoCall
<1>3. \A q \in Requests : PInv(q)
    BY <1>2 DEF PInv, Booking, Late
<1> QED
    BY <1>1, <1>3 DEF IInv

\* A step keeps what it does not touch.
LEMMA FrameKeeps ==
    ASSUME NEW q \in Requests, IInv, Frame(q), Shape', PInv(q)'
    PROVE  IInv'
<1> SUFFICES ASSUME NEW p \in Requests \ {q} PROVE PInv(p)'
    BY DEF IInv
<1>1. /\ req'[p] = req[p] /\ execution'[p] = execution[p] /\ position'[p] = position[p]
      /\ receipt' = receipt
      /\ \A t \in Txs : aave[t].deposit = p => aave'[t].deposit = p
    BY RequestsAssumption DEF Frame
<1> QED
    BY <1>1 DEF IInv, PInv, Booking

\* How a step changes its own request, and what most steps do to the rows of
\* aave_usdc_positions.
Moves(q, pc) ==
    /\ DOMAIN req' = Requests /\ DOMAIN req'[q] = DOMAIN NoCall
    /\ \A p \in Requests \ {q} : req'[p] = req[p]
    /\ req'[q].tx = req[q].tx /\ req'[q].pc = pc
RowsKept ==
    /\ DOMAIN aave' = Txs
    /\ \A t \in Txs : DOMAIN aave'[t] = DOMAIN NoRow /\ aave'[t].deposit = aave[t].deposit

LEMMA GotoMoves ==
    ASSUME NEW q \in Requests, NEW pc, Shape, Goto(q, pc) PROVE Moves(q, pc)
BY DEF Shape, Goto, Moves, NoCall

LEMMA NextRowMoves ==
    ASSUME NEW q \in Requests, Shape, NextRow(q)
    PROVE  \E pc \in {"entry", "take"} : Moves(q, pc)
<1> DEFINE left == req[q].left - Take(q)
           rest == Tail(req[q].rows)
           pc == IF left = 0 \/ rest = <<>> THEN "entry" ELSE "take"
<1>1. req' = [req EXCEPT ![q].rows = Tail(@), ![q].left = left, ![q].pc = pc]
    BY DEF NextRow
<1>2. pc \in {"entry", "take"}
    OBVIOUS
<1> HIDE DEF left, pc
<1>3. Moves(q, pc)
    BY <1>1 DEF Shape, Moves, NoCall
<1> QED
    BY <1>2, <1>3

LEMMA UnchangedRows == ASSUME Shape, aave' = aave PROVE RowsKept
BY DEF Shape, RowsKept

\* A step that only moves q on, within the tables as they are.
LEMMA MoveKeeps ==
    ASSUME NEW q \in Requests, NEW pc, IInv, Moves(q, pc), RowsKept,
           receipt' = receipt, execution' = execution, position' = position,
           \/ pc \notin {"receipt"} \cup Booking
           \/ req[q].pc = "receipt" /\ receipt[req[q].tx] = "success" /\ pc = "reserve"
           \/ req[q].pc \in Booking /\ pc \in Booking \ Late
           \/ req[q].pc \in Late /\ pc \in Late
    PROVE  IInv'
<1>1. Shape'
    BY DEF IInv, Shape, Moves, RowsKept
<1>2. Frame(q)
    BY DEF Frame, Moves, RowsKept
<1>3. PInv(q)
    BY DEF IInv
<1>4. req'[q].tx = req[q].tx /\ req'[q].pc = pc
    BY DEF Moves
<1>5. \A t \in Txs : aave'[t].deposit = aave[t].deposit
    BY DEF RowsKept
<1>6. PInv(q)'
    BY <1>3, <1>4, <1>5 DEF PInv, Booking, Late
<1> QED
    BY <1>1, <1>2, <1>6, FrameKeeps

-----------------------------------------------------------------------------
(* The steps.                                                              *)

\* The chain and the wallet: a receipt, once there, stays.
LEMMA WalletKeeps ==
    ASSUME IInv, WalletNext \/ \E t \in Txs : Elsewhere(t),
           UNCHANGED <<req, books, faults, disturbed, truthful>>
    PROVE  IInv'
<1>1. req' = req /\ aave' = aave /\ execution' = execution /\ position' = position
    BY DEF books
<1>2. DOMAIN receipt = Txs
    BY DEF IInv, Shape
<1> DEFINE Kept == DOMAIN receipt' = Txs /\ \A t \in Txs : receipt[t] = "success" => receipt'[t] = "success"
<1>3. Kept
  <2>1. ASSUME NEW t \in Txs, Elsewhere(t) PROVE Kept
      BY <1>2, <2>1 DEF Elsewhere
  <2>2. ASSUME NEW t \in Txs, Mine(t) PROVE Kept
      BY <1>2, <2>2 DEF Mine
  <2>3. ASSUME NEW t \in Txs, NEW a, BuildSupply(t, a) \/ BuildWithdraw(t, a) \/ Approve(t) \/ Accrue
        PROVE  receipt' = receipt
      BY <2>3 DEF BuildSupply, BuildWithdraw, Build, Approve, Accrue
  <2>4. Accrue => receipt' = receipt
      BY DEF Accrue
  <2> QED
      BY <1>2, <2>1, <2>2, <2>3, <2>4 DEF WalletNext
<1>4. Shape'
    BY <1>1, <1>3 DEF IInv, Shape
<1>5. ASSUME NEW q \in Requests PROVE PInv(q)'
  <2>1. PInv(q)
      BY DEF IInv
  <2> QED
      BY <1>1, <1>3, <2>1 DEF PInv, Booking
<1> QED
    BY <1>4, <1>5 DEF IInv

\* A new request: its transaction is one of Txs, and nothing is booked.
LEMMA ConfirmKeeps ==
    ASSUME NEW q \in Requests, NEW t \in Txs, NEW kind, NEW a, IInv, Confirm(q, t, kind, a)
    PROVE  IInv'
<1>1. /\ receipt' = receipt /\ aave' = aave
      /\ execution' = execution /\ position' = position
    BY DEF Confirm, wallet, books
<1>2. req' = [req EXCEPT ![q] = [NoCall EXCEPT !.pc = "receipt", !.tx = t, !.kind = kind,
                                               !.amount = a, !.left = a]]
    BY DEF Confirm
<1>3. req'[q].pc = "receipt" /\ req'[q].tx = t /\ DOMAIN req'[q] = DOMAIN NoCall
    BY <1>2 DEF IInv, Shape, NoCall
<1>4. Shape'
    BY <1>1, <1>2, <1>3 DEF IInv, Shape
<1>5. Frame(q)
    BY <1>1, <1>2 DEF Frame, IInv, Shape
<1>6. PInv(q)
    BY DEF IInv
<1>7. PInv(q)'
    BY <1>1, <1>3, <1>6 DEF PInv, Booking, Late
<1> QED
    BY <1>4, <1>5, <1>7, FrameKeeps

\* Every step of a request that inserts nothing into the three tables.
LEMMA GotoKeeps ==
    ASSUME NEW q \in Requests, NEW pc, IInv, Goto(q, pc),
           receipt' = receipt, aave' = aave, execution' = execution, position' = position,
           \/ pc \notin {"receipt"} \cup Booking
           \/ req[q].pc = "receipt" /\ receipt[req[q].tx] = "success" /\ pc = "reserve"
           \/ req[q].pc \in Booking /\ pc \in Booking \ Late
           \/ req[q].pc \in Late /\ pc \in Late
    PROVE  IInv'
<1>1. Shape
    BY DEF IInv
<1>2. Moves(q, pc) /\ RowsKept
    BY <1>1, GotoMoves, UnchangedRows
<1> QED
    BY <1>2, MoveKeeps

LEMMA ReceiptKeeps == ASSUME NEW q \in Requests, IInv, Receipt(q) PROVE IInv'
<1>1. /\ receipt' = receipt /\ aave' = aave
      /\ execution' = execution /\ position' = position
    BY DEF Receipt, Quiet, wallet, books
<1>2. req[q].pc = "receipt"
    BY DEF Receipt, At
<1>3. \/ Goto(q, "pending") \/ Goto(q, "error")
      \/ Goto(q, "reserve") /\ receipt[req[q].tx] = "success"
    BY DEF Receipt
<1>4. CASE Goto(q, "pending")
    BY <1>1, <1>4, GotoKeeps DEF Booking, Late
<1>5. CASE Goto(q, "error")
    BY <1>1, <1>5, GotoKeeps DEF Booking, Late
<1>6. CASE Goto(q, "reserve") /\ receipt[req[q].tx] = "success"
    BY <1>1, <1>2, <1>6, GotoKeeps
<1> QED
    BY <1>3, <1>4, <1>5, <1>6

LEMMA ReserveKeeps == ASSUME NEW q \in Requests, IInv, Reserve(q) PROVE IInv'
<1>1. /\ receipt' = receipt /\ aave' = aave
      /\ execution' = execution /\ position' = position
    BY DEF Reserve, Quiet, wallet, books
<1>2. req[q].pc \in Booking /\ (Goto(q, "find") \/ Goto(q, "open"))
    BY DEF Reserve, At, Booking
<1>3. CASE Goto(q, "find")
    BY <1>1, <1>2, <1>3, GotoKeeps DEF Booking, Late
<1>4. CASE Goto(q, "open")
    BY <1>1, <1>4, GotoKeeps DEF Booking, Late
<1> QED
    BY <1>2, <1>3, <1>4

\* Up to the row, and past it: the steps that only move on.
LEMMA EarlyKeeps ==
    ASSUME NEW q \in Requests, IInv,
           Find(q) \/ Job(q) \/ Intent(q) \/ Deposit(q) \/ ReadBack(q)
    PROVE  IInv'
<1>1. /\ receipt' = receipt /\ aave' = aave
      /\ execution' = execution /\ position' = position
    BY DEF Find, Job, Intent, Deposit, ReadBack, Quiet, wallet, books
<1>2. req[q].pc \in Booking
    BY DEF Find, Job, Intent, Deposit, ReadBack, At, Booking
<1>3. \E pc \in {"confirmed", "job", "intent", "deposit", "readback", "row", "error"} : Goto(q, pc)
    BY DEF Find, Job, Intent, Deposit, ReadBack
<1>4. PICK pc \in {"confirmed", "job", "intent", "deposit", "readback", "row", "error"} : Goto(q, pc)
    BY <1>3
<1>5. pc \notin {"receipt"} \cup Booking \/ pc \in Booking \ Late
    BY DEF Booking, Late
<1> QED
    BY <1>1, <1>2, <1>4, <1>5, GotoKeeps

LEMMA LateKeeps ==
    ASSUME NEW q \in Requests, IInv, Mark(q) \/ Executed(q) \/ ExecutionReceipt(q)
    PROVE  IInv'
<1>1. /\ receipt' = receipt /\ aave' = aave
      /\ execution' = execution /\ position' = position
    BY DEF Mark, Executed, ExecutionReceipt, Quiet, wallet, books
<1>2. req[q].pc \in Late
    BY DEF Mark, Executed, ExecutionReceipt, At, Late
<1>3. PICK pc \in {"executed", "execution", "position"} : Goto(q, pc)
    BY DEF Mark, Executed, ExecutionReceipt
<1>4. pc \in Late
    BY DEF Late
<1> QED
    BY <1>1, <1>2, <1>3, <1>4, GotoKeeps

\* The row: refused when the transaction has one, so it takes none from another.
LEMMA RowKeeps == ASSUME NEW q \in Requests, IInv, Row(q) PROVE IInv'
<1>1. receipt' = receipt /\ execution' = execution /\ position' = position
    BY DEF Row, Quiet, wallet
<1>2. CASE aave[req[q].tx] # NoRow
  <2>1. Goto(q, "error") /\ aave' = aave
      BY <1>2 DEF Row
  <2> QED
      BY <1>1, <2>1, GotoKeeps DEF Booking, Late
<1>3. CASE aave[req[q].tx] = NoRow
  <2> DEFINE t == req[q].tx
             at == Cardinality(Rows)
  <2>1. /\ Goto(q, "mark")
        /\ aave' = [aave EXCEPT ![t] = [amount |-> req[q].amount, deposit |-> q, at |-> at]]
      BY <1>3 DEF Row
  <2>2. PInv(q) /\ Shape /\ req[q].pc = "row"
      BY DEF IInv, Row, At
  <2>3. t \in Txs /\ receipt[t] = "success" /\ aave[t].deposit = "none"
      BY <1>3, <2>2 DEF PInv, Booking, NoRow
  <2> HIDE DEF t, at
  <2>4. DOMAIN aave' = Txs /\ \A u \in Txs \ {t} : aave'[u] = aave[u]
      BY <2>1, <2>2 DEF Shape
  <2>5. aave'[t].deposit = q /\ DOMAIN aave'[t] = DOMAIN NoRow
      BY <2>1, <2>2, <2>3 DEF Shape, NoRow
  <2>6. Moves(q, "mark")
      BY <2>1, <2>2, GotoMoves
  <2>7. req'[q].tx = t /\ req'[q].pc = "mark"
      BY <2>6 DEF Moves, t
  <2>8. Shape'
      BY <1>1, <2>2, <2>4, <2>5, <2>6 DEF Shape, Moves
  <2>9. Frame(q)
      BY <1>1, <2>3, <2>4, <2>6 DEF Frame, Moves
  <2>10. PInv(q)'
      BY <1>1, <2>2, <2>3, <2>4, <2>5, <2>7 DEF PInv, Booking, Late
  <2> QED
      BY <2>8, <2>9, <2>10, FrameKeeps
<1> QED
    BY <1>2, <1>3

LEMMA ExecutionKeeps == ASSUME NEW q \in Requests, IInv, Execution(q) PROVE IInv'
<1>1. receipt' = receipt /\ aave' = aave /\ position' = position
    BY DEF Execution, Quiet, wallet
<1>2. execution' = [execution EXCEPT ![q] = "confirmed"] /\ Goto(q, "receipt json")
    BY DEF Execution
<1>3. Shape /\ PInv(q) /\ req[q].pc = "execution"
    BY DEF IInv, Execution, At
<1>4. Moves(q, "receipt json")
    BY <1>2, <1>3, GotoMoves
<1>5. Shape'
    BY <1>1, <1>2, <1>3, <1>4 DEF Shape, Moves
<1>6. Frame(q)
    BY <1>1, <1>2, <1>3, <1>4 DEF Frame, Moves, Shape
<1>7. execution'[q] = "confirmed"
    BY <1>2, <1>3 DEF Shape
<1>8. PInv(q)'
    BY <1>1, <1>3, <1>4, <1>7 DEF PInv, Moves, Booking, Late
<1> QED
    BY <1>5, <1>6, <1>8, FrameKeeps

\* The position: its request owns the row by then.
LEMMA PositionKeeps == ASSUME NEW q \in Requests, IInv, Position(q) PROVE IInv'
<1>1. receipt' = receipt /\ aave' = aave /\ execution' = execution
    BY DEF Position, Quiet, wallet
<1>2. /\ position' = [position EXCEPT ![q] = req[q].tx]
      /\ Goto(q, "confirmed") /\ execution[q] = "confirmed"
    BY DEF Position
<1>3. Shape /\ PInv(q) /\ req[q].pc = "position"
    BY DEF IInv, Position, At
<1>4. Moves(q, "confirmed")
    BY <1>2, <1>3, GotoMoves
<1>5. Shape'
    BY <1>1, <1>2, <1>3, <1>4 DEF Shape, Moves
<1>6. Frame(q)
    BY <1>1, <1>2, <1>3, <1>4 DEF Frame, Moves, Shape
<1>7. position'[q] = req[q].tx
    BY <1>2, <1>3 DEF Shape
<1>8. PInv(q)'
    BY <1>1, <1>2, <1>3, <1>4, <1>7 DEF PInv, Moves, Booking, Late
<1> QED
    BY <1>5, <1>6, <1>8, FrameKeeps

\* A withdrawal writes amounts and takes no row away.
LEMMA WithdrawKeeps == ASSUME NEW q \in Requests, IInv, Withdraw(q) PROVE IInv'
<1>1. receipt' = receipt /\ execution' = execution /\ position' = position
    BY DEF Withdraw, Open, TakeRow, Mirror, Entry, Quiet, wallet, books
<1>2. Shape
    BY DEF IInv
<1>3. CASE Open(q)
  <2>1. PICK rows : \E pc \in {"entry", "take"} : req' = [req EXCEPT ![q].rows = rows, ![q].pc = pc]
      BY <1>3 DEF Open
  <2>2. PICK pc \in {"entry", "take"} : req' = [req EXCEPT ![q].rows = rows, ![q].pc = pc]
      BY <2>1
  <2>3. Moves(q, pc) /\ pc \notin {"receipt"} \cup Booking
      BY <1>2, <2>2 DEF Shape, Moves, NoCall, Booking, Late
  <2>4. RowsKept
      BY <1>2, <1>3, UnchangedRows DEF Open, books
  <2> QED
      BY <1>1, <2>2, <2>3, <2>4, MoveKeeps
<1>4. CASE TakeRow(q)
  <2>1. Moves(q, "mirror")
      BY <1>2, <1>4, GotoMoves DEF TakeRow
  <2>2. PICK t, a : aave' = [aave EXCEPT ![t].amount = a]
      BY <1>4 DEF TakeRow
  <2>3. RowsKept
      BY <1>2, <2>2 DEF Shape, RowsKept, NoRow
  <2> QED
      BY <1>1, <2>1, <2>3, MoveKeeps DEF Booking, Late
<1>5. CASE Mirror(q)
  <2>1. PICK pc \in {"entry", "take"} : Moves(q, pc)
      BY <1>2, <1>5, NextRowMoves DEF Mirror
  <2>2. pc \notin {"receipt"} \cup Booking
      BY DEF Booking, Late
  <2>3. RowsKept
      BY <1>2, <1>5, UnchangedRows DEF Mirror
  <2> QED
      BY <1>1, <2>1, <2>2, <2>3, MoveKeeps
<1>6. CASE Entry(q)
  <2>1. aave' = aave /\ Goto(q, "confirmed")
      BY <1>6 DEF Entry
  <2> QED
      BY <1>1, <2>1, GotoKeeps DEF Booking, Late
<1> QED
    BY <1>3, <1>4, <1>5, <1>6 DEF Withdraw

\* An error ends the request, or is dropped before a step that needs no more.
LEMMA FailsKeeps == ASSUME NEW q \in Requests, IInv, Fails(q) PROVE IInv'
<1>1. /\ receipt' = receipt /\ aave' = aave
      /\ execution' = execution /\ position' = position
    BY DEF Fails, wallet, books
<1>2. Shape
    BY DEF IInv
<1>3. CASE req[q].pc = "mirror"
  <2>1. NextRow(q)
      BY <1>3 DEF Fails, At
  <2>2. PICK pc \in {"entry", "take"} : Moves(q, pc)
      BY <1>2, <2>1, NextRowMoves
  <2>3. pc \notin {"receipt"} \cup Booking
      BY DEF Booking, Late
  <2> QED
      BY <1>1, <1>2, <2>2, <2>3, MoveKeeps, UnchangedRows
<1>4. CASE req[q].pc = "mark"
  <2>1. Goto(q, "executed")
      BY <1>4 DEF Fails, At
  <2> QED
      BY <1>1, <1>4, <2>1, GotoKeeps DEF Late
<1>5. CASE req[q].pc \notin {"mirror", "mark"}
  <2>1. Goto(q, "confirmed") \/ Goto(q, "error")
      BY <1>5 DEF Fails, At
  <2>2. PICK pc \in {"confirmed", "error"} : Goto(q, pc)
      BY <2>1
  <2>3. pc \notin {"receipt"} \cup Booking
      BY DEF Booking, Late
  <2> QED
      BY <1>1, <2>2, <2>3, GotoKeeps
<1> QED
    BY <1>3, <1>4, <1>5

\* A crash moves every running request out of the way.
LEMMA CrashKeeps == ASSUME IInv, Crash PROVE IInv'
<1>1. /\ receipt' = receipt /\ aave' = aave
      /\ execution' = execution /\ position' = position
    BY DEF Crash, wallet, books
<1>2. req' = [q \in Requests |-> IF q \in Running THEN [req[q] EXCEPT !.pc = "lost"] ELSE req[q]]
    BY DEF Crash
<1>3. Shape'
    BY <1>1, <1>2 DEF IInv, Shape, NoCall
<1>4. ASSUME NEW q \in Requests PROVE PInv(q)'
  <2>1. PInv(q) /\ DOMAIN req[q] = DOMAIN NoCall
      BY DEF IInv, Shape
  <2>2. req'[q].tx = req[q].tx /\ req'[q].pc \in {"lost", req[q].pc}
      BY <1>2, <2>1 DEF NoCall
  <2> QED
      BY <1>1, <2>1, <2>2 DEF PInv, Booking, Late
<1> QED
    BY <1>3, <1>4 DEF IInv

-----------------------------------------------------------------------------
LEMMA StepPreserves == ASSUME IInv, [Next]_vars PROVE IInv'
<1>1. CASE UNCHANGED vars
  <2>1. /\ req' = req /\ receipt' = receipt /\ aave' = aave
        /\ execution' = execution /\ position' = position
      BY <1>1 DEF vars, wallet, books
  <2> QED
      BY <2>1 DEF IInv, Shape, PInv
<1>2. CASE /\ IF truthful THEN WalletNext ELSE \E t \in Txs : Elsewhere(t)
           /\ UNCHANGED <<req, books, faults, disturbed, truthful>>
    BY <1>2, WalletKeeps
<1>3. ASSUME NEW q \in Requests, NEW t \in Txs, NEW kind, NEW a, Confirm(q, t, kind, a)
      PROVE  IInv'
    BY <1>3, ConfirmKeeps
<1>4. ASSUME NEW q \in Requests, Receipt(q) \/ Reserve(q) \/ Supply(q) \/ Withdraw(q) \/ Fails(q)
      PROVE  IInv'
  <2>1. CASE Supply(q)
      BY <2>1, EarlyKeeps, RowKeeps, LateKeeps, ExecutionKeeps, PositionKeeps DEF Supply
  <2> QED
      BY <1>4, <2>1, ReceiptKeeps, ReserveKeeps, WithdrawKeeps, FailsKeeps
<1>5. CASE Crash
    BY <1>5, CrashKeeps
<1> QED
    BY <1>1, <1>2, <1>3, <1>4, <1>5 DEF Next

\* Whatever overlaps, fails or crashes, a transaction has at most one position:
\* one of a mined transaction, whose row of aave_usdc_positions and whose deposit
\* row are of the same request.
THEOREM OnePositionPerSupply == Spec => []PositionsAreConfirmed
<1>1. IInv => PositionsAreConfirmed
  <2> SUFFICES ASSUME IInv, NEW p \in Requests, position[p] # "none"
               PROVE  /\ receipt[position[p]] = "success" /\ execution[p] = "confirmed"
                      /\ aave[position[p]].deposit = p
                      /\ \A q \in Requests : position[q] = position[p] => q = p
      BY DEF PositionsAreConfirmed
  <2>1. \A q \in Requests : PInv(q)
      BY DEF IInv
  <2> QED
      BY <2>1 DEF PInv
<1> QED
    BY <1>1, InitHolds, StepPreserves, PTL DEF Spec
-----------------------------------------------------------------------------
(* BookedOnce and AaveBooksBalance: one request at a time, and no fault.   *)

(* What the chain has done, in the order of mined.                         *)

\* What the wallet has supplied after the first k transactions, without interest.
Signed(i) == IF tx[mined[i]].kind = "supply" THEN tx[mined[i]].amount ELSE -tx[mined[i]].amount
Supplied(k) == SumOn([i \in DOMAIN mined |-> Signed(i)], 1 .. k)

TxInv(t) ==
    /\ DOMAIN tx[t] = DOMAIN NoTx
    /\ tx[t].amount \in Nat /\ tx[t].kind \in {"none", "supply", "withdraw"}
    /\ tx[t].kind = "supply" => tx[t].amount > 0 /\ ~tx[t].max
MinedInv(i) ==
    /\ mined[i] \in Txs /\ receipt[mined[i]] = "success" /\ tx[mined[i]].amount > 0
    /\ tx[mined[i]].kind # "none" /\ ~tx[mined[i]].approve

ChainInv ==
    /\ DOMAIN tx = Txs /\ \A t \in Txs : TxInv(t)
    /\ mined \in Seq(Txs) /\ interest \in Nat
    /\ DOMAIN account = {"usdc", "allowance", "supplied"} /\ account.supplied \in Nat
    /\ \A i \in DOMAIN mined : MinedInv(i)
    /\ \A i, j \in DOMAIN mined : mined[i] = mined[j] => i = j
    /\ account.supplied = Supplied(Len(mined)) + interest
    /\ \A k \in 0 .. Len(mined) : Supplied(k) + interest >= 0

(* What the tables say while calls do not overlap and nothing fails.       *)

Asked == {q \in Requests : ~At(q, "idle")}
Early == {"receipt", "reserve", "find", "job"}
Middle == {"intent", "deposit", "readback", "row"}
Loop == {"take", "mirror", "entry"}

AskedInv(q) ==
    /\ req[q].tx \in Txs /\ req[q].amount \in Nat /\ req[q].amount > 0
    /\ req[q].kind \in {"supply", "withdraw"}
    /\ req[q].pc \in {"find", "job"} \cup Middle \cup Late => req[q].kind = "supply"
    /\ req[q].pc \in {"open"} \cup Loop => req[q].kind = "withdraw"
    /\ req[q].pc \in {"receipt", "reserve", "open"} => req[q].left = req[q].amount

\* A job is followed by its row.
JobInv(q) ==
    /\ job[q] # "none" => ~At(q, "idle") /\ req[q].kind = "supply" /\ req[q].pc \notin Early
    /\ job[q] # "none" => req[q].pc \in Middle \/ req[q].tx \in Rows
    /\ req[q].pc \in Middle \cup Late => job[q] # "none"
    /\ req[q].pc \in {"job"} \cup Middle => req[q].tx \notin Rows
    /\ req[q].pc \in {"readback", "row"} => deposit[q] = req[q].amount

RowInv(t) ==
    /\ aave[t].amount \in Nat /\ aave[t].at \in Nat /\ aave[t].deposit \in Requests
    /\ req[aave[t].deposit].tx = t /\ job[aave[t].deposit] # "none"

\* A withdrawal has read the rows as they are, but for the one it is setting.
ReadInv(q, i) ==
    LET r == req[q].rows[i] IN
    /\ r.tx \in Rows /\ r.amount \in Nat /\ r.amount > 0 /\ r.deposit = aave[r.tx].deposit
    /\ aave[r.tx].amount = IF At(q, "mirror") /\ i = 1 THEN r.amount - Take(q) ELSE r.amount
LoopInv(q) ==
    /\ req[q].pc \in Loop => req[q].left \in 0 .. req[q].amount
    /\ At(q, "entry") => req[q].left = 0 \/ \A t \in Rows : aave[t].amount = 0
    /\ req[q].pc \in {"take", "mirror"} =>
        /\ req[q].left > 0 /\ req[q].rows \in Seq([tx : Txs, amount : Nat, deposit : Requests])
        /\ req[q].rows # <<>>
        /\ \A i \in DOMAIN req[q].rows : ReadInv(q, i)
        /\ \A i, j \in DOMAIN req[q].rows : req[q].rows[i].tx = req[q].rows[j].tx => i = j
        /\ \A t \in Rows : aave[t].amount > 0 => \E i \in DOMAIN req[q].rows : req[q].rows[i].tx = t
    /\ At(q, "mirror") => deposit[Head(req[q].rows).deposit] = Head(req[q].rows).amount

RequestInv(q) == (~At(q, "idle") => AskedInv(q)) /\ JobInv(q) /\ LoopInv(q)

\* The deposit row of t follows.
Followed(t) == deposit[aave[t].deposit] = aave[t].amount
Behind(t) == \E q \in Requests : At(q, "mirror") /\ Head(req[q].rows).tx = t

\* What has been booked, what of it is open and what the ledger has.
Supplies == {q \in Requests : job[q] # "none"}
BookedSum == SumOn([q \in Requests |-> req[q].amount], Supplies)
OpenSum == SumOn([t \in Txs |-> aave[t].amount], Rows)
EntrySum == SumOn(entries, DOMAIN entries)

\* What a running request has booked and not yet put into a row, or taken out of
\* rows and not yet into the ledger.
InHand(q) ==
    CASE req[q].pc \in Middle -> req[q].amount
      [] req[q].pc \in {"take", "entry"} -> req[q].amount - req[q].left
      [] req[q].pc = "mirror" -> req[q].amount - req[q].left + Take(q)
      [] OTHER -> 0
Balanced(x) == EntrySum - (BookedSum - OpenSum - x) \in 0 .. Len(entries)

\* What it will still add to the open rows, less than that only when they are empty.
Ahead(q) ==
    CASE req[q].kind = "supply" /\ req[q].pc \in Early \cup Middle -> req[q].amount
      [] req[q].kind = "withdraw" /\ req[q].pc \in {"receipt", "reserve", "open", "take", "entry"}
            -> -req[q].left
      [] req[q].pc = "mirror" -> Take(q) - req[q].left
      [] OTHER -> 0
Follows(x) ==
    LET k == Cardinality(Asked) IN
    /\ Supplied(k) <= OpenSum + x
    /\ OpenSum + x <= Supplied(k) + interest
Answered == \A q \in Asked : q \in Running \/ At(q, "confirmed")

\* A truthful client has named the first of the mined transactions, each once.
NamedInv ==
    /\ Cardinality(Asked) <= Len(mined)
    /\ \A q \in Asked : /\ \E i \in 1 .. Cardinality(Asked) : mined[i] = req[q].tx
                        /\ req[q].kind = tx[req[q].tx].kind /\ req[q].amount = tx[req[q].tx].amount
    /\ \A p, q \in Asked : req[p].tx = req[q].tx => p = q

Tables ==
    /\ DOMAIN job = Requests /\ DOMAIN deposit = Requests /\ entries \in Seq(Nat)
    /\ IsFiniteSet(Asked) /\ IsFiniteSet(Rows)
Sums ==
    /\ Running = {} => Balanced(0)
    /\ \A q \in Running : Balanced(InHand(q))
Truth ==
    truthful /\ Answered => /\ Running = {} => Follows(0)
                            /\ \A q \in Running : Follows(Ahead(q))
UInv ==
    /\ Tables
    /\ \A p, q \in Running : p = q
    /\ \A q \in Requests : RequestInv(q)
    /\ \A t \in Rows : RowInv(t) /\ (Followed(t) \/ Behind(t))
    /\ \A p, q \in Supplies : req[p].tx = req[q].tx => p = q
    /\ Sums /\ Truth
    /\ truthful => NamedInv
Undisturbed == disturbed \/ UInv
-----------------------------------------------------------------------------
(* The chain.                                                              *)

LEMMA SuppliedIsInt ==
    ASSUME ChainInv, NEW k \in 0 .. Len(mined) PROVE Supplied(k) \in Int
<1> DEFINE f == [i \in DOMAIN mined |-> Signed(i)]
<1>1. DOMAIN mined = 1 .. Len(mined) /\ Len(mined) \in Nat
    BY DEF ChainInv
<1>2. ASSUME NEW i \in DOMAIN mined PROVE Signed(i) \in Int
    BY <1>2 DEF ChainInv, MinedInv, TxInv, Signed
<1>3. \A i \in 1 .. k : f[i] \in Int
    BY <1>1, <1>2
<1>4. IsFiniteSet(1 .. k)
    BY <1>1, FS_Interval
<1> HIDE DEF f
<1> DEFINE D == 1 .. k
<1>5. SumOn(f, D) \in Int
  <2> HIDE DEF D
  <2> QED
      BY <1>3, <1>4, SumType DEF D
<1> QED
    BY <1>5 DEF Supplied, f

\* What has been mined stays as it is.
LEMMA SuppliedKeeps ==
    ASSUME ChainInv, mined' \in Seq(Txs), Len(mined) <= Len(mined'),
           \A i \in DOMAIN mined : /\ mined'[i] = mined[i]
                                   /\ tx'[mined[i]].kind = tx[mined[i]].kind
                                   /\ tx'[mined[i]].amount = tx[mined[i]].amount
    PROVE  \A k \in 0 .. Len(mined) : Supplied(k)' = Supplied(k)
<1> SUFFICES ASSUME NEW k \in 0 .. Len(mined) PROVE Supplied(k)' = Supplied(k)
    OBVIOUS
<1> DEFINE f == [i \in DOMAIN mined |-> Signed(i)]
           g == [i \in DOMAIN mined' |-> Signed(i)']
<1>1. /\ DOMAIN mined = 1 .. Len(mined) /\ Len(mined) \in Nat
      /\ DOMAIN mined' = 1 .. Len(mined') /\ Len(mined') \in Nat
    BY DEF ChainInv
<1>2. \A i \in DOMAIN mined : Signed(i)' = Signed(i)
    BY DEF Signed
<1>3. IsFiniteSet(1 .. k)
    BY <1>1, FS_Interval
<1>4. Supplied(k) = SumOn(f, 1 .. k) /\ Supplied(k)' = SumOn(g, 1 .. k)
    BY DEF Supplied
<1>5. \A i \in 1 .. k : g[i] = f[i]
    BY <1>1, <1>2
<1> HIDE DEF f, g
<1> QED
    BY <1>3, <1>4, <1>5, SumOfEqual

LEMMA ChainInit == Init => ChainInv
<1> SUFFICES ASSUME Init PROVE ChainInv
    OBVIOUS
<1>1. /\ mined = <<>> /\ interest = 0 /\ tx = [t \in Txs |-> NoTx]
      /\ account = [usdc |-> Funds, allowance |-> 0, supplied |-> 0]
    BY DEF Init, WalletInit
<1>2. Len(mined) = 0 /\ DOMAIN mined = {} /\ 1 .. 0 = {}
    BY <1>1
<1>3. Supplied(0) = 0
    BY <1>2, SumEmpty DEF Supplied
<1>4. \A t \in Txs : TxInv(t)
    BY <1>1 DEF TxInv, NoTx
<1> QED
    BY <1>1, <1>2, <1>3, <1>4 DEF ChainInv

\* Transactions that are not mined may change, and the interest may grow.
LEMMA ChainKept ==
    ASSUME ChainInv, mined' = mined, interest' \in Nat, interest' >= interest,
           DOMAIN account' = DOMAIN account,
           account'.supplied = account.supplied + (interest' - interest),
           DOMAIN tx' = Txs, \A t \in Txs : TxInv(t)',
           \A i \in DOMAIN mined : tx'[mined[i]] = tx[mined[i]] /\ receipt'[mined[i]] = "success"
    PROVE  ChainInv'
<1>1. \A k \in 0 .. Len(mined) : Supplied(k)' = Supplied(k)
    BY SuppliedKeeps DEF ChainInv
<1>2. \A i \in DOMAIN mined : MinedInv(i)'
    BY DEF ChainInv, MinedInv
<1>3. Len(mined) \in 0 .. Len(mined) /\ Supplied(Len(mined)) \in Int
    BY SuppliedIsInt DEF ChainInv
<1>4. \A k \in 0 .. Len(mined) : Supplied(k) \in Int
    BY SuppliedIsInt
<1>5. account'.supplied = Supplied(Len(mined)) + interest' /\ account'.supplied \in Nat
    BY <1>3 DEF ChainInv
<1>6. \A k \in 0 .. Len(mined) : Supplied(k) + interest' >= 0
    BY <1>4 DEF ChainInv
<1> QED
    BY <1>1, <1>2, <1>3, <1>5, <1>6 DEF ChainInv

LEMMA BuildKeeps ==
    ASSUME ChainInv, NEW t \in Txs, NEW built, Build(t, built), DOMAIN built = DOMAIN NoTx,
           built.amount \in Nat, built.kind \in {"supply", "withdraw"},
           built.kind = "supply" => built.amount > 0 /\ ~built.max
    PROVE  ChainInv'
<1>1. /\ tx' = [tx EXCEPT ![t] = built] /\ receipt[t] = "none"
      /\ account' = account /\ mined' = mined /\ interest' = interest /\ receipt' = receipt
    BY DEF Build
<1>2. tx'[t] = built /\ DOMAIN tx' = Txs /\ \A u \in Txs \ {t} : tx'[u] = tx[u]
    BY <1>1 DEF ChainInv
<1>3. \A u \in Txs : TxInv(u)'
    BY <1>2 DEF ChainInv, TxInv
<1>4. \A i \in DOMAIN mined : mined[i] \in Txs \ {t}
    BY <1>1 DEF ChainInv, MinedInv
<1>5. \A i \in DOMAIN mined : tx'[mined[i]] = tx[mined[i]] /\ receipt'[mined[i]] = "success"
    BY <1>1, <1>2, <1>4 DEF ChainInv, MinedInv
<1>6. interest' \in Nat /\ account'.supplied = account.supplied + (interest' - interest)
    BY <1>1 DEF ChainInv
<1> QED
    BY <1>1, <1>2, <1>3, <1>5, <1>6, ChainKept

LEMMA ApproveKeeps == ASSUME ChainInv, NEW t \in Txs, Approve(t) PROVE ChainInv'
<1>1. /\ tx[t].approve /\ tx' = [tx EXCEPT ![t].approve = FALSE]
      /\ account' = [account EXCEPT !.allowance = tx[t].amount]
      /\ mined' = mined /\ interest' = interest /\ receipt' = receipt
    BY DEF Approve
<1>2. DOMAIN tx' = Txs /\ \A u \in Txs \ {t} : tx'[u] = tx[u]
    BY <1>1 DEF ChainInv
<1>3. /\ DOMAIN tx'[t] = DOMAIN tx[t] /\ tx'[t].amount = tx[t].amount
      /\ tx'[t].kind = tx[t].kind /\ tx'[t].max = tx[t].max
    BY <1>1 DEF ChainInv, TxInv, NoTx
<1>4. \A u \in Txs : TxInv(u)'
    BY <1>2, <1>3 DEF ChainInv, TxInv
<1>5. \A i \in DOMAIN mined : mined[i] \in Txs \ {t}
    BY <1>1 DEF ChainInv, MinedInv
<1>6. \A i \in DOMAIN mined : tx'[mined[i]] = tx[mined[i]] /\ receipt'[mined[i]] = "success"
    BY <1>1, <1>2, <1>5 DEF ChainInv, MinedInv
<1>7. account'.supplied = account.supplied /\ DOMAIN account' = DOMAIN account
    BY <1>1 DEF ChainInv
<1>8. interest' \in Nat /\ account'.supplied = account.supplied + (interest' - interest)
    BY <1>1, <1>7 DEF ChainInv
<1> QED
    BY <1>1, <1>2, <1>4, <1>6, <1>7, <1>8, ChainKept

\* A mined transaction moves what its entry says, and the pool has it.
LEMMA MineKeeps == ASSUME ChainInv, Shape, NEW t \in Txs, Mine(t) PROVE ChainInv'
<1> DEFINE a == Amount(t)
<1>1. /\ tx[t].kind # "none" /\ ~tx[t].approve /\ receipt[t] = "none"
      /\ tx' = [tx EXCEPT ![t].amount = a] /\ interest' = interest
    BY DEF Mine
<1>2. TxInv(t) /\ a \in Nat /\ (tx[t].kind = "supply" => a > 0)
    BY DEF ChainInv, TxInv, Amount
<1> HIDE DEF a
<1>3. DOMAIN tx' = Txs /\ \A u \in Txs \ {t} : tx'[u] = tx[u]
    BY <1>1 DEF ChainInv
<1>4. /\ DOMAIN tx'[t] = DOMAIN tx[t] /\ tx'[t].amount = a
      /\ tx'[t].kind = tx[t].kind /\ tx'[t].max = tx[t].max /\ tx'[t].approve = tx[t].approve
    BY <1>1, <1>2 DEF ChainInv, TxInv, NoTx
<1>5. \A u \in Txs : TxInv(u)'
    BY <1>2, <1>3, <1>4 DEF ChainInv, TxInv
<1>6. \A i \in DOMAIN mined : mined[i] \in Txs \ {t}
    BY <1>1 DEF ChainInv, MinedInv
<1>7. DOMAIN receipt = Txs
    BY DEF Shape
<1>8. CASE ~Succeeds(t)
  <2>1. /\ receipt' = [receipt EXCEPT ![t] = "reverted"]
        /\ account' = account /\ mined' = mined
      BY <1>8 DEF Mine
  <2>2. \A i \in DOMAIN mined : tx'[mined[i]] = tx[mined[i]] /\ receipt'[mined[i]] = "success"
      BY <1>3, <1>6, <1>7, <2>1 DEF ChainInv, MinedInv
  <2>3. interest' \in Nat /\ account'.supplied = account.supplied + (interest' - interest)
      BY <1>1, <2>1 DEF ChainInv
  <2> QED
      BY <1>1, <1>3, <1>5, <2>1, <2>2, <2>3, ChainKept
<1>9. CASE Succeeds(t)
  <2>1. /\ receipt' = [receipt EXCEPT ![t] = "success"]
        /\ account' = After(t) /\ mined' = Append(mined, t)
      BY <1>9 DEF Mine
  <2>0. PICK n \in Nat : n = Len(mined)
      BY DEF ChainInv
  <2>2. DOMAIN mined = 1 .. n /\ mined \in Seq(Txs) /\ n \in Nat
      BY <2>0 DEF ChainInv
  <2>3. /\ mined' \in Seq(Txs) /\ Len(mined') = n + 1 /\ DOMAIN mined' = 1 .. (n + 1)
        /\ mined'[n + 1] = t /\ \A i \in 1 .. n : mined'[i] = mined[i]
      BY <2>0, <2>1, <2>2
  <2>4. \A i \in 1 .. n : tx'[mined[i]] = tx[mined[i]] /\ receipt'[mined[i]] = "success"
      BY <1>3, <1>6, <1>7, <2>1, <2>2 DEF ChainInv, MinedInv
  <2>5. \A k \in 0 .. n : Supplied(k)' = Supplied(k)
    <3>1. Len(mined) <= Len(mined')
        BY <2>0, <2>3
    <3> QED
        BY <2>0, <2>2, <2>3, <2>4, <3>1, SuppliedKeeps
  <2>6. a > 0
      BY <1>2, <1>9 DEF Succeeds, a, TxInv
  <2>7. ASSUME NEW i \in DOMAIN mined' PROVE MinedInv(i)'
    <3>1. CASE i = n + 1
        BY <1>1, <1>4, <1>7, <2>1, <2>3, <2>6, <3>1 DEF MinedInv
    <3>2. CASE i \in 1 .. n
        BY <2>2, <2>3, <2>4, <3>2 DEF ChainInv, MinedInv
    <3> QED
        BY <2>2, <2>3, <2>7, <3>1, <3>2
  <2>8. \A i, j \in DOMAIN mined' : mined'[i] = mined'[j] => i = j
      BY <1>6, <2>2, <2>3 DEF ChainInv
  <2> DEFINE step == IF tx[t].kind = "supply" THEN a ELSE -a
  <2>9. /\ DOMAIN account' = DOMAIN account
        /\ account'.supplied \in Nat /\ account'.supplied = account.supplied + step
      BY <1>2, <1>9, <2>1 DEF ChainInv, After, Succeeds, a
  <2>10. Supplied(n + 1)' = Supplied(n)' + step
    <3> DEFINE g == [i \in DOMAIN mined' |-> Signed(i)']
    <3>1. Signed(n + 1)' = step
        BY <1>4, <2>3 DEF Signed
    <3>2. \A i \in DOMAIN mined' : Signed(i)' \in Int
        BY <1>5, <2>7 DEF MinedInv, TxInv, Signed
    <3>3. \A i \in 1 .. (n + 1) : g[i] \in Int
        BY <2>3, <3>2
    <3>4. g[n + 1] = step
        BY <2>2, <2>3, <3>1
    <3>5. Supplied(n + 1)' = SumOn(g, 1 .. (n + 1)) /\ Supplied(n)' = SumOn(g, 1 .. n)
        BY DEF Supplied
    <3> HIDE DEF g, step
    <3> DEFINE D == 1 .. n
    <3>6. n + 1 \notin D /\ 1 .. (n + 1) = D \cup {n + 1} /\ n \in Int
        BY <2>2
    <3>8. IsFiniteSet(D)
        BY <3>6, FS_Interval
    <3> HIDE DEF D
    <3>7. SumOn(g, D \cup {n + 1}) = SumOn(g, D) + g[n + 1]
        BY <3>3, <3>6, <3>8, SumAdd
    <3> QED
        BY <3>4, <3>5, <3>6, <3>7 DEF D
  <2>11. Supplied(n) \in Int /\ step \in Int
      BY <1>2, <2>0, SuppliedIsInt
  <2>12. account'.supplied = Supplied(n + 1)' + interest'
      BY <1>1, <2>2, <2>5, <2>9, <2>10, <2>11, <2>0 DEF ChainInv
  <2>13. ASSUME NEW k \in 0 .. (n + 1) PROVE Supplied(k)' + interest' >= 0
    <3>1. CASE k = n + 1
        BY <2>9, <2>12, <3>1
    <3>2. CASE k \in 0 .. n
        BY <1>1, <2>0, <2>5, <3>2 DEF ChainInv
    <3> QED
        BY <2>2, <2>13, <3>1, <3>2
  <2>14. interest' \in Nat /\ DOMAIN account' = {"usdc", "allowance", "supplied"}
      BY <1>1, <2>9 DEF ChainInv
  <2> QED
      BY <1>3, <1>5, <2>3, <2>7, <2>8, <2>9, <2>12, <2>13, <2>14 DEF ChainInv
<1> QED
    BY <1>8, <1>9

LEMMA AccrueKeeps == ASSUME ChainInv, Accrue PROVE ChainInv'
<1>1. /\ account' = [account EXCEPT !.supplied = @ + 1] /\ interest' = interest + 1
      /\ tx' = tx /\ receipt' = receipt /\ mined' = mined
    BY DEF Accrue
<1>2. account'.supplied = account.supplied + 1 /\ DOMAIN account' = DOMAIN account
    BY <1>1 DEF ChainInv
<1>3. /\ interest' \in Nat /\ interest' >= interest
      /\ account'.supplied = account.supplied + (interest' - interest)
    BY <1>1, <1>2 DEF ChainInv
<1>4. \A t \in Txs : TxInv(t)'
    BY <1>1 DEF ChainInv, TxInv
<1>5. \A i \in DOMAIN mined : tx'[mined[i]] = tx[mined[i]] /\ receipt'[mined[i]] = "success"
    BY <1>1 DEF ChainInv, MinedInv
<1> QED
    BY <1>1, <1>2, <1>3, <1>4, <1>5, ChainKept DEF ChainInv

LEMMA ElsewhereKeeps == ASSUME ChainInv, Shape, NEW t \in Txs, Elsewhere(t) PROVE ChainInv'
<1>1. /\ account' = account /\ tx' = tx /\ mined' = mined /\ interest' = interest
      /\ receipt[t] = "none" /\ \A u \in Txs \ {t} : receipt'[u] = receipt[u]
    BY DEF Elsewhere, Shape
<1>2. \A i \in DOMAIN mined : mined[i] \in Txs \ {t}
    BY <1>1 DEF ChainInv, MinedInv
<1>3. \A i \in DOMAIN mined : tx'[mined[i]] = tx[mined[i]] /\ receipt'[mined[i]] = "success"
    BY <1>1, <1>2 DEF ChainInv, MinedInv
<1>4. /\ \A u \in Txs : TxInv(u)'
      /\ interest' \in Nat /\ account'.supplied = account.supplied + (interest' - interest)
    BY <1>1 DEF ChainInv, TxInv
<1> QED
    BY <1>1, <1>3, <1>4, ChainKept DEF ChainInv

LEMMA WalletChain ==
    ASSUME ChainInv, Shape, WalletNext \/ \E t \in Txs : Elsewhere(t) PROVE ChainInv'
<1>1. ASSUME NEW t \in Txs, NEW a \in 1 .. MaxAmount, BuildSupply(t, a) PROVE ChainInv'
  <2> DEFINE built == [NoTx EXCEPT !.kind = "supply", !.amount = a,
                                   !.approve = AccountRead.allowance < a]
  <2>1. Build(t, built)
      BY <1>1 DEF BuildSupply
  <2>2. /\ DOMAIN built = DOMAIN NoTx /\ built.amount = a /\ built.kind = "supply" /\ ~built.max
      BY DEF NoTx
  <2> HIDE DEF built
  <2>3. a \in Nat /\ a > 0
      BY <1>1, AmountAssumption
  <2> QED
      BY <2>1, <2>2, <2>3, BuildKeeps
<1>2. ASSUME NEW t \in Txs, NEW a \in 0 .. MaxAmount, BuildWithdraw(t, a) PROVE ChainInv'
  <2> DEFINE built == [NoTx EXCEPT !.kind = "withdraw", !.amount = a,
                                   !.max = a = 0 \/ a >= AccountRead.supplied]
  <2>1. Build(t, built)
      BY <1>2 DEF BuildWithdraw
  <2>2. /\ DOMAIN built = DOMAIN NoTx /\ built.amount = a /\ built.kind = "withdraw"
      BY DEF NoTx
  <2> HIDE DEF built
  <2>3. a \in Nat
      BY <1>2, AmountAssumption
  <2> QED
      BY <2>1, <2>2, <2>3, BuildKeeps
<1> QED
    BY <1>1, <1>2, ApproveKeeps, MineKeeps, AccrueKeeps, ElsewhereKeeps DEF WalletNext
-----------------------------------------------------------------------------
(* One request at a time.                                                  *)

LEMMA UndisturbedInit == Init => UInv
<1> SUFFICES ASSUME Init PROVE UInv
    OBVIOUS
<1>1. /\ \A q \in Requests : req[q].pc = "idle" /\ job[q] = "none"
      /\ DOMAIN job = Requests /\ DOMAIN deposit = Requests
      /\ \A t \in Txs : aave[t] = NoRow
    BY DEF Init, NoCall
<1>2. entries = <<>> /\ mined = <<>> /\ interest = 0
    BY DEF Init, WalletInit
<1>3. Asked = {} /\ Rows = {} /\ Running = {} /\ Supplies = {}
    BY <1>1 DEF Asked, Rows, Running, Supplies, Over, At
<1>4. Tables
    BY <1>1, <1>2, <1>3, FS_EmptySet DEF Tables
<1>5. \A q \in Requests : RequestInv(q)
    BY <1>1 DEF RequestInv, JobInv, LoopInv, At, Middle, Loop, Late
<1>6. BookedSum = 0 /\ OpenSum = 0
    BY <1>3, SumEmpty DEF BookedSum, OpenSum
<1>7. DOMAIN entries = {} /\ Len(entries) = 0 /\ EntrySum = 0
    BY <1>2, SumEmpty DEF EntrySum
<1>8. 1 .. 0 = {} /\ Cardinality(Asked) = 0
    BY <1>3, FS_EmptySet
<1>9. Supplied(0) = 0
    BY <1>8, SumEmpty DEF Supplied
<1>10. Sums /\ Truth
    BY <1>2, <1>3, <1>6, <1>7, <1>8, <1>9 DEF Sums, Truth, Balanced, Follows
<1>11. NamedInv
    BY <1>2, <1>3, <1>8 DEF NamedInv
<1> QED
    BY <1>3, <1>4, <1>5, <1>10, <1>11 DEF UInv

LEMMA BookedAreAsked ==
    ASSUME UInv PROVE Supplies \subseteq Asked /\ IsFiniteSet(Supplies) /\ IsFiniteSet(Rows)
                      /\ \A q \in Supplies : req[q].amount \in Nat
<1>1. ASSUME NEW q \in Supplies PROVE q \in Asked /\ req[q].amount \in Nat
    BY <1>1 DEF UInv, Supplies, RequestInv, JobInv, AskedInv, Asked
<1> QED
    BY <1>1, FS_Subset DEF UInv, Tables

LEMMA SumsAreInts ==
    ASSUME UInv PROVE BookedSum \in Int /\ OpenSum \in Int /\ EntrySum \in Int /\ Len(entries) \in Nat
<1> DEFINE f == [q \in Requests |-> req[q].amount]
           g == [t \in Txs |-> aave[t].amount]
<1>1. IsFiniteSet(Supplies) /\ \A q \in Supplies : f[q] \in Int
    BY BookedAreAsked DEF Supplies
<1>2. IsFiniteSet(Rows) /\ \A t \in Rows : g[t] \in Int
    BY DEF UInv, Tables, RowInv, Rows
<1>3. /\ Len(entries) \in Nat /\ DOMAIN entries = 1 .. Len(entries)
      /\ \A i \in DOMAIN entries : entries[i] \in Int
    BY DEF UInv, Tables
<1>4. IsFiniteSet(DOMAIN entries)
    BY <1>3, FS_Interval
<1> HIDE DEF f, g
<1>5. SumOn(f, Supplies) \in Int
    BY <1>1, SumType
<1>6. SumOn(g, Rows) \in Int
    BY <1>2, SumType
<1>7. SumOn(entries, DOMAIN entries) \in Int
    BY <1>3, <1>4, SumType
<1> QED
    BY <1>3, <1>5, <1>6, <1>7 DEF BookedSum, OpenSum, EntrySum, f, g

LEMMA BookedKept ==
    ASSUME UInv, Supplies' = Supplies, \A q \in Supplies : req'[q].amount = req[q].amount
    PROVE  BookedSum' = BookedSum
<1> DEFINE f == [q \in Requests |-> req[q].amount]
           g == [q \in Requests |-> req'[q].amount]
<1>1. IsFiniteSet(Supplies) /\ \A q \in Supplies : g[q] = f[q]
    BY BookedAreAsked DEF Supplies
<1>2. BookedSum = SumOn(f, Supplies) /\ BookedSum' = SumOn(g, Supplies)
    BY DEF BookedSum
<1> HIDE DEF f, g
<1> QED
    BY <1>1, <1>2, SumOfEqual

\* A step of q, when no other runs: what is left to show is about q and the sums.
LEMMA StepKeeps ==
    ASSUME UInv, NEW q \in Requests, Running \subseteq {q}, Tables', Rows \subseteq Rows',
           \A p \in Requests \ {q} : req'[p] = req[p] /\ job'[p] = job[p],
           RequestInv(q)',
           \A t \in Rows' : RowInv(t)' /\ (Followed(t) \/ Behind(t))',
           \A p \in Supplies' \ {q} : q \in Supplies' => req'[p].tx # req'[q].tx,
           Balanced(InHand(q))',
           truthful' /\ Answered' => Follows(Ahead(q))',
           truthful' => NamedInv'
    PROVE  UInv'
<1>1. ASSUME NEW p \in Requests \ {q} PROVE RequestInv(p)' /\ p \notin Running'
  <2>1. req[p].pc \in Over
      BY DEF Running
  <2>2. RequestInv(p) /\ req'[p] = req[p] /\ job'[p] = job[p]
      BY DEF UInv
  <2>3. ~At(p, "idle") => AskedInv(p)'
      BY <2>2 DEF RequestInv, AskedInv
  <2>4. JobInv(p)'
      BY <2>1, <2>2 DEF RequestInv, JobInv, At, Over, Early, Middle, Late
  <2>5. LoopInv(p)'
      BY <2>1, <2>2 DEF LoopInv, At, Over, Loop
  <2> QED
      BY <2>1, <2>2, <2>3, <2>4, <2>5 DEF RequestInv, At, Running
<1>2. \A p \in Requests : RequestInv(p)'
    BY <1>1
<1>3. Running' \subseteq {q}
    BY <1>1 DEF Running
<1>4. \A p, r \in Supplies' : req'[p].tx = req'[r].tx => p = r
  <2>1. \A p \in Supplies' \ {q} : p \in Supplies /\ req'[p] = req[p]
      BY DEF Supplies
  <2> QED
      BY <2>1 DEF UInv
<1>5. q \notin Running' => InHand(q)' = 0 /\ Ahead(q)' = 0
    BY DEF Running, InHand, Ahead, Over, Early, Middle
<1>6. Sums'
    BY <1>3, <1>5 DEF Sums
<1>7. Truth'
    BY <1>3, <1>5 DEF Truth
<1> QED
    BY <1>2, <1>3, <1>4, <1>6, <1>7 DEF UInv

\* A step of a running request that goes on with the same call.
Goes(q, pc) ==
    /\ q \in Running /\ pc # "idle" /\ req'[q].pc = pc
    /\ req'[q].tx = req[q].tx /\ req'[q].kind = req[q].kind /\ req'[q].amount = req[q].amount
    /\ \A p \in Requests \ {q} : req'[p] = req[p]
    /\ UNCHANGED <<wallet, truthful>>

LEMMA NamesKept ==
    ASSUME NEW q \in Requests, NEW pc, Goes(q, pc)
    PROVE  /\ Asked' = Asked /\ (NamedInv => NamedInv') /\ (Answered' => Answered)
           /\ \A k : Supplied(k)' = Supplied(k)
<1>1. /\ \A p \in Requests : At(p, "idle")' = At(p, "idle")
      /\ \A p \in Requests : req'[p].tx = req[p].tx /\ req'[p].kind = req[p].kind
                             /\ req'[p].amount = req[p].amount
    BY DEF Goes, At, Running, Over
<1>2. Asked' = Asked
    BY <1>1 DEF Asked
<1>3. mined' = mined /\ tx' = tx
    BY DEF Goes, wallet
<1>4. \A k : Supplied(k)' = Supplied(k)
    BY <1>3 DEF Supplied, Signed
<1>5. \A p \in Asked : req'[p].tx = req[p].tx /\ req'[p].kind = req[p].kind
                        /\ req'[p].amount = req[p].amount
    BY <1>1 DEF Asked
<1>6. NamedInv => NamedInv'
    BY <1>2, <1>3, <1>5 DEF NamedInv
<1>7. ASSUME Answered', NEW p \in Asked PROVE p \in Running \/ At(p, "confirmed")
  <2>1. p \in Running' \/ At(p, "confirmed")'
      BY <1>2, <1>7 DEF Answered
  <2>2. p # q => (p \in Running' => p \in Running) /\ (At(p, "confirmed")' => At(p, "confirmed"))
      BY DEF Goes, Running, At, Asked
  <2> QED
      BY <2>1, <2>2 DEF Goes
<1>8. Answered' => Answered
    BY <1>7 DEF Answered
<1> QED
    BY <1>2, <1>4, <1>6, <1>8

\* The situation of a running request.
LEMMA RunningFacts ==
    ASSUME UInv, NEW q \in Requests, q \in Running
    PROVE  /\ Running = {q} /\ AskedInv(q) /\ JobInv(q) /\ LoopInv(q)
           /\ Balanced(InHand(q)) /\ (truthful /\ Answered => Follows(Ahead(q)))
           /\ \A t \in Rows : Behind(t) => At(q, "mirror") /\ Head(req[q].rows).tx = t
<1>1. Running = {q} /\ ~At(q, "idle")
    BY DEF UInv, Running, At, Over
<1>2. \A p \in Requests : At(p, "mirror") => p \in Running
    BY DEF At, Running, Over
<1> QED
    BY <1>1, <1>2 DEF UInv, RequestInv, Sums, Truth, Behind

LEMMA GoingKeeps ==
    ASSUME UInv, NEW q \in Requests, NEW pc, Goes(q, pc), Tables', Rows \subseteq Rows',
           \A p \in Requests \ {q} : job'[p] = job[p],
           RequestInv(q)',
           \A t \in Rows' : RowInv(t)' /\ (Followed(t) \/ Behind(t))',
           \A p \in Supplies' \ {q} : q \in Supplies' => req'[p].tx # req'[q].tx,
           Balanced(InHand(q))',
           truthful /\ Answered' /\ Follows(Ahead(q)) =>
               \/ OpenSum' + Ahead(q)' = OpenSum + Ahead(q)
               \/ Follows(Ahead(q))'
    PROVE  UInv'
<1>1. /\ Asked' = Asked /\ (NamedInv => NamedInv') /\ (Answered' => Answered)
      /\ \A k : Supplied(k)' = Supplied(k)
    BY NamesKept
<1>2. Running = {q} /\ (truthful /\ Answered => Follows(Ahead(q)))
    BY RunningFacts DEF Goes
<1>3. truthful' = truthful /\ interest' = interest
    BY DEF Goes, wallet
<1>4. truthful' /\ Answered' => Follows(Ahead(q))'
    BY <1>1, <1>2, <1>3 DEF Follows
<1>5. truthful' => NamedInv'
    BY <1>1, <1>3 DEF UInv
<1>6. \A p \in Requests \ {q} : req'[p] = req[p] /\ job'[p] = job[p]
    BY DEF Goes
<1> QED
    BY <1>2, <1>4, <1>5, <1>6, StepKeeps
\* Steps that move q on and leave what the sums are about as it is.
QuietMoves ==
    {<<"receipt", "pending">>, <<"receipt", "error">>, <<"receipt", "reserve">>,
     <<"intent", "deposit">>, <<"readback", "row">>, <<"mark", "executed">>,
     <<"executed", "execution">>, <<"execution", "receipt json">>,
     <<"receipt json", "position">>, <<"position", "confirmed">>}

LEMMA GotoGoes ==
    ASSUME Shape, NEW q \in Running, NEW pc, pc # "idle", Goto(q, pc), Quiet
    PROVE  Goes(q, pc) /\ req'[q].left = req[q].left /\ req'[q].rows = req[q].rows
<1>1. q \in Requests
    BY DEF Running
<1>2. req' = [req EXCEPT ![q].pc = pc]
    BY DEF Goto
<1>3. /\ req'[q].pc = pc /\ req'[q].tx = req[q].tx /\ req'[q].kind = req[q].kind
      /\ req'[q].amount = req[q].amount /\ req'[q].left = req[q].left /\ req'[q].rows = req[q].rows
    BY <1>1, <1>2 DEF Shape, NoCall
<1>4. \A p \in Requests \ {q} : req'[p] = req[p]
    BY <1>2 DEF Shape
<1> QED
    BY <1>3, <1>4 DEF Goes, Quiet

LEMMA QuietKeeps ==
    ASSUME UInv, Shape, NEW q \in Running, NEW pc, Goto(q, pc), Quiet,
           deposit' = deposit, aave' = aave, entries' = entries,
           DOMAIN job' = Requests, job'[q] = "none" <=> job[q] = "none",
           \A p \in Requests \ {q} : job'[p] = job[p],
           \/ <<req[q].pc, pc>> \in QuietMoves
           \/ req[q].pc = "reserve" /\ pc = "find" /\ req[q].kind = "supply"
           \/ req[q].pc = "reserve" /\ pc = "open" /\ req[q].kind = "withdraw"
           \/ req[q].pc = "find" /\ pc = "job" /\ req[q].tx \notin Rows
           \/ req[q].pc = "find" /\ pc = "confirmed" /\ req[q].tx \in Rows
    PROVE  UInv'
<1>1. q \in Requests /\ pc # "idle" /\ pc \notin Loop /\ req[q].pc # "mirror"
    BY DEF Running, QuietMoves, Loop
<1>2. Goes(q, pc) /\ req'[q].left = req[q].left
    BY <1>1, GotoGoes
<1>3. /\ AskedInv(q) /\ JobInv(q) /\ Balanced(InHand(q))
      /\ \A t \in Rows : ~Behind(t)
    BY <1>1, RunningFacts DEF At
<1>4. Rows' = Rows /\ OpenSum' = OpenSum /\ EntrySum' = EntrySum
    BY DEF Rows, OpenSum, EntrySum
<1>5. Asked' = Asked
    BY <1>1, <1>2, NamesKept
<1>6. Tables'
    BY <1>4, <1>5 DEF UInv, Tables
<1>7. /\ req'[q].pc = pc /\ req'[q].tx = req[q].tx /\ req'[q].kind = req[q].kind
      /\ req'[q].amount = req[q].amount /\ \A p \in Requests \ {q} : req'[p] = req[p]
    BY <1>2 DEF Goes
<1>8. Supplies' = Supplies
    BY <1>1 DEF Supplies
<1>9. BookedSum' = BookedSum
    BY <1>1, <1>7, <1>8, BookedKept DEF Supplies
<1>10. AskedInv(q)'
    BY <1>2, <1>3, <1>7 DEF AskedInv, QuietMoves, Middle, Loop, Late
<1>11. JobInv(q)'
    BY <1>3, <1>4, <1>7 DEF JobInv, QuietMoves, At, Middle, Early, Late
<1>12. LoopInv(q)'
    BY <1>1, <1>7 DEF LoopInv, Loop, At
<1>13. RequestInv(q)'
    BY <1>10, <1>11, <1>12 DEF RequestInv
<1>14. \A t \in Rows' : RowInv(t)' /\ Followed(t)'
    BY <1>1, <1>3, <1>4, <1>7 DEF UInv, RowInv, Followed, Rows
<1>15. \A p \in Supplies' \ {q} : q \in Supplies' => req'[p].tx # req'[q].tx
    BY <1>7, <1>8 DEF UInv, Supplies
<1>16. InHand(q)' = InHand(q)
    BY <1>1, <1>7 DEF InHand, QuietMoves, Middle, Loop
<1>17. Balanced(InHand(q))'
    BY <1>3, <1>4, <1>9, <1>16 DEF Balanced
<1>18. ASSUME truthful, Answered' PROVE Ahead(q)' = Ahead(q)
  <2>1. pc \notin {"pending", "error"}
    <3>1. q \in Asked'
        BY <1>1, <1>5 DEF Asked, Running, At, Over
    <3>2. q \in Running' \/ At(q, "confirmed")'
        BY <1>18, <3>1 DEF Answered
    <3> QED
        BY <1>7, <3>2 DEF Running, At, Over
  <2>2. ~(req[q].pc = "find" /\ pc = "confirmed" /\ req[q].tx \in Rows)
    <3> SUFFICES ASSUME req[q].pc = "find", req[q].tx \in Rows PROVE FALSE
        OBVIOUS
    <3> DEFINE p == aave[req[q].tx].deposit
    <3>1. p \in Requests /\ req[p].tx = req[q].tx /\ job[p] # "none"
        BY DEF UInv, RowInv
    <3>2. p # q
        BY <1>3, <3>1 DEF JobInv, Early
    <3>3. p \in Asked /\ q \in Asked
        BY <1>1, <3>1, BookedAreAsked DEF Supplies, Asked, Running, At, Over
    <3> QED
        BY <1>18, <3>1, <3>2, <3>3 DEF UInv, NamedInv
  <2> QED
      BY <1>1, <1>2, <1>3, <1>7, <2>1, <2>2 DEF Ahead, QuietMoves, Early, Middle, AskedInv
<1>19. truthful /\ Answered' /\ Follows(Ahead(q)) => OpenSum' + Ahead(q)' = OpenSum + Ahead(q)
    BY <1>4, <1>18
<1> QED
    BY <1>1, <1>2, <1>4, <1>6, <1>13, <1>14, <1>15, <1>17, <1>19, GoingKeeps

LEMMA QuietStepKeeps ==
    ASSUME UInv, Shape, NEW q \in Requests,
           \/ Receipt(q) \/ Reserve(q) \/ Find(q) \/ Intent(q) \/ ReadBack(q)
           \/ Mark(q) \/ Executed(q) \/ Execution(q) \/ ExecutionReceipt(q) \/ Position(q)
    PROVE  UInv'
<1>1. /\ Quiet /\ deposit' = deposit /\ aave' = aave /\ entries' = entries
      /\ req[q].pc \in {"receipt", "reserve", "find", "intent", "readback"} \cup Late
      /\ job' = job \/ (job' = [job EXCEPT ![q] = "executed"] /\ req[q].pc = "executed")
    BY DEF Receipt, Reserve, Find, Intent, ReadBack, Mark, Executed, Execution, ExecutionReceipt,
           Position, books, At, Late
<1>2. q \in Running
    BY <1>1 DEF Running, Over, Late
<1>3. AskedInv(q) /\ JobInv(q)
    BY <1>2, RunningFacts
<1>4. DOMAIN job = Requests
    BY DEF UInv, Tables
<1>5. /\ DOMAIN job' = Requests /\ (job'[q] = "none" <=> job[q] = "none")
      /\ \A p \in Requests \ {q} : job'[p] = job[p]
    BY <1>1, <1>3, <1>4 DEF JobInv, Late
<1>6. \E pc : Goto(q, pc) /\
           \/ <<req[q].pc, pc>> \in QuietMoves
           \/ req[q].pc = "reserve" /\ pc = "find" /\ req[q].kind = "supply"
           \/ req[q].pc = "reserve" /\ pc = "open" /\ req[q].kind = "withdraw"
           \/ req[q].pc = "find" /\ pc = "job" /\ req[q].tx \notin Rows
           \/ req[q].pc = "find" /\ pc = "confirmed" /\ req[q].tx \in Rows
  <2>1. CASE Receipt(q)
    <3>1. PICK pc \in {"pending", "reserve", "error"} : Goto(q, pc)
        BY <2>1 DEF Receipt
    <3> QED
        BY <2>1, <3>1 DEF Receipt, At, QuietMoves
  <2>2. CASE Reserve(q)
      BY <1>3, <2>2 DEF Reserve, At, AskedInv
  <2>3. CASE Find(q)
      BY <1>3, <2>3 DEF Find, At, AskedInv, Rows
  <2>4. CASE ReadBack(q)
    <3>1. deposit[q] > 0 /\ req[q].pc = "readback"
        BY <1>3, <2>4 DEF ReadBack, At, AskedInv, JobInv
    <3>2. Goto(q, "row")
        BY <2>4, <3>1 DEF ReadBack
    <3> QED
        BY <3>1, <3>2 DEF QuietMoves
  <2>5. CASE Intent(q) \/ Mark(q) \/ Executed(q) \/ Execution(q) \/ ExecutionReceipt(q) \/ Position(q)
      BY <2>5 DEF Intent, Mark, Executed, Execution, ExecutionReceipt, Position, At, QuietMoves
  <2> QED
      BY <2>1, <2>2, <2>3, <2>4, <2>5
<1> QED
    BY <1>1, <1>2, <1>5, <1>6, QuietKeeps

\* The job: from here on the supply is booked, and no other has booked it.
LEMMA JobStepKeeps == ASSUME UInv, Shape, NEW q \in Requests, Job(q) PROVE UInv'
<1>1. /\ Quiet /\ deposit' = deposit /\ aave' = aave /\ entries' = entries
      /\ req[q].pc = "job" /\ Goto(q, "intent") /\ job' = [job EXCEPT ![q] = "queued"]
    BY DEF Job, At
<1>2. q \in Running
    BY <1>1 DEF Running, Over
<1>3. /\ AskedInv(q) /\ JobInv(q) /\ Balanced(InHand(q))
      /\ \A t \in Rows : ~Behind(t)
    BY <1>1, <1>2, RunningFacts DEF At
<1>4. Goes(q, "intent") /\ req'[q].left = req[q].left
    BY <1>1, <1>2, GotoGoes
<1>5. /\ req'[q].pc = "intent" /\ req'[q].tx = req[q].tx /\ req'[q].kind = req[q].kind
      /\ req'[q].amount = req[q].amount /\ \A p \in Requests \ {q} : req'[p] = req[p]
    BY <1>4 DEF Goes
<1>6. job'[q] = "queued" /\ DOMAIN job' = Requests /\ \A p \in Requests \ {q} : job'[p] = job[p]
    BY <1>1 DEF UInv, Tables
<1>7. Rows' = Rows /\ OpenSum' = OpenSum /\ EntrySum' = EntrySum /\ Asked' = Asked
    BY <1>1, <1>4, NamesKept DEF Rows, OpenSum, EntrySum
<1>8. Tables'
    BY <1>1, <1>6, <1>7 DEF UInv, Tables
<1>9. job[q] = "none" /\ req[q].tx \notin Rows /\ req[q].kind = "supply"
    BY <1>1, <1>3 DEF JobInv, AskedInv, Early
<1>10. Supplies' = Supplies \cup {q} /\ q \notin Supplies
    BY <1>6, <1>9 DEF Supplies
<1>11. RequestInv(q)'
  <2>1. AskedInv(q)'
      BY <1>3, <1>5, <1>9 DEF AskedInv, Middle, Loop, Late
  <2>2. JobInv(q)' /\ LoopInv(q)'
      BY <1>5, <1>6, <1>7, <1>9 DEF JobInv, LoopInv, At, Middle, Early, Late, Loop
  <2> QED
      BY <2>1, <2>2 DEF RequestInv
<1>12. \A t \in Rows' : RowInv(t)' /\ Followed(t)'
    BY <1>1, <1>3, <1>5, <1>6, <1>7 DEF UInv, RowInv, Followed, Rows
<1>13. ASSUME NEW p \in Supplies' \ {q} PROVE req'[p].tx # req'[q].tx
  <2>1. p \in Supplies /\ p \in Requests /\ p \notin Running
      BY <1>2, <1>10, <1>13, RunningFacts DEF Supplies
  <2>2. req[p].tx \in Rows
      BY <2>1 DEF UInv, RequestInv, JobInv, Supplies, Running, Over, Middle
  <2> QED
      BY <1>5, <1>9, <2>1, <2>2
<1>14. BookedSum' = BookedSum + req[q].amount
  <2> DEFINE f == [p \in Requests |-> req[p].amount]
             g == [p \in Requests |-> req'[p].amount]
  <2>1. IsFiniteSet(Supplies) /\ \A p \in Supplies : f[p] \in Nat
      BY BookedAreAsked DEF Supplies
  <2>2. f[q] = req[q].amount /\ f[q] \in Nat
      BY <1>3 DEF AskedInv
  <2>3. \A p \in Supplies \cup {q} : g[p] = f[p]
      BY <1>5 DEF Supplies
  <2>4. IsFiniteSet(Supplies \cup {q})
      BY <2>1, FS_AddElement
  <2>5. BookedSum = SumOn(f, Supplies) /\ BookedSum' = SumOn(g, Supplies \cup {q})
      BY <1>10 DEF BookedSum
  <2> HIDE DEF f, g
  <2>6. SumOn(g, Supplies \cup {q}) = SumOn(f, Supplies \cup {q})
      BY <2>3, <2>4, SumOfEqual
  <2>7. SumOn(f, Supplies \cup {q}) = SumOn(f, Supplies) + f[q]
      BY <1>10, <2>1, <2>2, SumAdd
  <2> QED
      BY <2>2, <2>5, <2>6, <2>7
<1>15. InHand(q) = 0 /\ InHand(q)' = req[q].amount
    BY <1>1, <1>5 DEF InHand, Middle
<1>16. Balanced(InHand(q))'
  <2>1. EntrySum \in Int /\ BookedSum \in Int /\ OpenSum \in Int /\ req[q].amount \in Int
      BY <1>3, SumsAreInts DEF AskedInv
  <2> QED
      BY <1>1, <1>3, <1>7, <1>14, <1>15, <2>1 DEF Balanced
<1>17. OpenSum' + Ahead(q)' = OpenSum + Ahead(q)
    BY <1>1, <1>5, <1>7, <1>9 DEF Ahead, Early, Middle
<1> QED
    BY <1>4, <1>6, <1>7, <1>8, <1>11, <1>12, <1>13, <1>16, <1>17, GoingKeeps

\* The deposit row.
LEMMA DepositStepKeeps == ASSUME UInv, Shape, NEW q \in Requests, Deposit(q) PROVE UInv'
<1>1. /\ Quiet /\ deposit' = [deposit EXCEPT ![q] = req[q].amount]
      /\ aave' = aave /\ entries' = entries /\ job' = job
      /\ req[q].pc = "deposit" /\ Goto(q, "readback")
    BY DEF Deposit, At
<1>2. q \in Running
    BY <1>1 DEF Running, Over
<1>3. /\ AskedInv(q) /\ JobInv(q) /\ Balanced(InHand(q))
      /\ \A t \in Rows : ~Behind(t)
    BY <1>1, <1>2, RunningFacts DEF At
<1>4. Goes(q, "readback") /\ req'[q].left = req[q].left
    BY <1>1, <1>2, GotoGoes
<1>5. /\ req'[q].pc = "readback" /\ req'[q].tx = req[q].tx /\ req'[q].kind = req[q].kind
      /\ req'[q].amount = req[q].amount /\ \A p \in Requests \ {q} : req'[p] = req[p]
    BY <1>4 DEF Goes
<1>6. /\ deposit'[q] = req[q].amount /\ DOMAIN deposit' = Requests
      /\ \A p \in Requests \ {q} : deposit'[p] = deposit[p]
    BY <1>1 DEF UInv, Tables
<1>7. Rows' = Rows /\ OpenSum' = OpenSum /\ EntrySum' = EntrySum /\ Asked' = Asked
    BY <1>1, <1>4, NamesKept DEF Rows, OpenSum, EntrySum
<1>8. Tables'
    BY <1>1, <1>6, <1>7 DEF UInv, Tables
<1>9. req[q].tx \notin Rows /\ job[q] # "none" /\ req[q].kind = "supply"
    BY <1>1, <1>3 DEF JobInv, AskedInv, Middle
<1>10. Supplies' = Supplies
    BY <1>1 DEF Supplies
<1>11. BookedSum' = BookedSum
    BY <1>5, <1>10, BookedKept DEF Supplies
<1>12. RequestInv(q)'
  <2>1. AskedInv(q)'
      BY <1>3, <1>5, <1>9 DEF AskedInv, Middle, Loop, Late
  <2>2. JobInv(q)' /\ LoopInv(q)'
      BY <1>1, <1>5, <1>6, <1>7, <1>9 DEF JobInv, LoopInv, At, Middle, Early, Late, Loop
  <2> QED
      BY <2>1, <2>2 DEF RequestInv
<1>13. ASSUME NEW t \in Rows' PROVE RowInv(t)' /\ Followed(t)'
  <2>1. t \in Rows /\ RowInv(t) /\ Followed(t)
      BY <1>3, <1>7, <1>13 DEF UInv
  <2>2. aave[t].deposit # q
      BY <1>9, <2>1 DEF RowInv
  <2> QED
      BY <1>1, <1>5, <1>6, <2>1, <2>2 DEF RowInv, Followed
<1>14. \A p \in Supplies' \ {q} : q \in Supplies' => req'[p].tx # req'[q].tx
    BY <1>5, <1>10 DEF UInv, Supplies
<1>15. InHand(q)' = InHand(q) /\ Ahead(q)' = Ahead(q)
    BY <1>1, <1>5 DEF InHand, Ahead, Early, Middle
<1>16. Balanced(InHand(q))'
    BY <1>1, <1>3, <1>7, <1>11, <1>15 DEF Balanced
<1> QED
    BY <1>1, <1>4, <1>7, <1>8, <1>12, <1>13, <1>14, <1>15, <1>16, GoingKeeps
\* The row: what was in hand is open.
LEMMA RowStepKeeps == ASSUME UInv, Shape, NEW q \in Requests, Row(q) PROVE UInv'
<1>1. Quiet /\ deposit' = deposit /\ entries' = entries /\ job' = job /\ req[q].pc = "row"
    BY DEF Row, At
<1>2. q \in Running
    BY <1>1 DEF Running, Over
<1>3. /\ AskedInv(q) /\ JobInv(q) /\ Balanced(InHand(q))
      /\ \A u \in Rows : ~Behind(u)
    BY <1>1, <1>2, RunningFacts DEF At
<1>4. PICK t \in Txs : t = req[q].tx
    BY <1>3 DEF AskedInv
<1>5. t \notin Rows /\ aave[t] = NoRow /\ job[q] # "none" /\ req[q].kind = "supply"
      /\ deposit[q] = req[q].amount
    BY <1>1, <1>3, <1>4 DEF JobInv, AskedInv, Middle, Rows
<1>6. /\ Goto(q, "mark")
      /\ aave' = [aave EXCEPT ![t] = [amount |-> req[q].amount, deposit |-> q,
                                      at |-> Cardinality(Rows)]]
    BY <1>4, <1>5 DEF Row
<1>7. Goes(q, "mark") /\ req'[q].left = req[q].left
    BY <1>1, <1>2, <1>6, GotoGoes
<1>8. /\ req'[q].pc = "mark" /\ req'[q].tx = t /\ req'[q].kind = req[q].kind
      /\ req'[q].amount = req[q].amount /\ \A p \in Requests \ {q} : req'[p] = req[p]
    BY <1>4, <1>7 DEF Goes
<1>9. /\ aave'[t].amount = req[q].amount /\ aave'[t].deposit = q
      /\ \A u \in Txs \ {t} : aave'[u] = aave[u]
    BY <1>6 DEF Shape
<1>10. aave'[t] # NoRow
    BY <1>9, RequestsAssumption DEF NoRow
<1>11. Rows' = Rows \cup {t}
    BY <1>9, <1>10 DEF Rows
<1>12. EntrySum' = EntrySum /\ Asked' = Asked
    BY <1>1, <1>7, NamesKept DEF EntrySum
<1>13. IsFiniteSet(Rows) /\ IsFiniteSet(Rows')
    BY <1>11, FS_AddElement DEF UInv, Tables
<1>14. Tables'
    BY <1>1, <1>12, <1>13 DEF UInv, Tables
<1>15. RequestInv(q)'
  <2>1. AskedInv(q)'
      BY <1>3, <1>4, <1>5, <1>8 DEF AskedInv, Middle, Loop, Late
  <2>2. JobInv(q)' /\ LoopInv(q)'
      BY <1>1, <1>5, <1>8, <1>11 DEF JobInv, LoopInv, At, Middle, Early, Late, Loop
  <2> QED
      BY <2>1, <2>2 DEF RequestInv
<1>26. aave'[t].at = Cardinality(Rows) /\ Cardinality(Rows) \in Nat
    BY <1>6, <1>13, FS_CardinalityType DEF Shape
<1>16. ASSUME NEW u \in Rows' PROVE RowInv(u)' /\ Followed(u)'
  <2>1. CASE u = t
      BY <1>1, <1>3, <1>5, <1>6, <1>8, <1>9, <1>26, <2>1 DEF RowInv, Followed, AskedInv
  <2>2. CASE u # t
    <3>1. u \in Rows /\ u \in Txs /\ RowInv(u) /\ Followed(u)
        BY <1>3, <1>11, <1>16, <2>2 DEF UInv, Rows
    <3>2. aave'[u] = aave[u] /\ aave[u].deposit # q
        BY <1>4, <1>9, <2>2, <3>1 DEF RowInv
    <3> QED
        BY <1>1, <1>8, <3>1, <3>2 DEF RowInv, Followed
  <2> QED
      BY <2>1, <2>2
<1>17. Supplies' = Supplies
    BY <1>1 DEF Supplies
<1>18. BookedSum' = BookedSum
    BY <1>8, <1>17, BookedKept DEF Supplies
<1>19. \A p \in Supplies' \ {q} : q \in Supplies' => req'[p].tx # req'[q].tx
    BY <1>4, <1>8, <1>17 DEF UInv, Supplies
<1>20. OpenSum' = OpenSum + req[q].amount
  <2> DEFINE f == [u \in Txs |-> aave[u].amount]
             g == [u \in Txs |-> aave'[u].amount]
  <2>1. \A u \in Rows : g[u] = f[u] /\ f[u] \in Nat
      BY <1>5, <1>9 DEF UInv, RowInv, Rows
  <2>2. g[t] = req[q].amount /\ g[t] \in Nat
      BY <1>3, <1>9 DEF AskedInv
  <2>3. OpenSum = SumOn(f, Rows) /\ OpenSum' = SumOn(g, Rows \cup {t})
      BY <1>11 DEF OpenSum
  <2> HIDE DEF f, g
  <2>4. SumOn(g, Rows \cup {t}) = SumOn(g, Rows) + g[t]
      BY <1>5, <1>13, <2>1, <2>2, SumAdd
  <2>5. SumOn(g, Rows) = SumOn(f, Rows)
      BY <1>13, <2>1, SumOfEqual
  <2> QED
      BY <2>2, <2>3, <2>4, <2>5
<1>21. InHand(q) = req[q].amount /\ InHand(q)' = 0
    BY <1>1, <1>8 DEF InHand, Middle, Loop
<1>22. EntrySum \in Int /\ BookedSum \in Int /\ OpenSum \in Int /\ req[q].amount \in Int
    BY <1>3, SumsAreInts DEF AskedInv
<1>23. Balanced(InHand(q))'
    BY <1>1, <1>3, <1>12, <1>18, <1>20, <1>21, <1>22 DEF Balanced
<1>24. OpenSum' + Ahead(q)' = OpenSum + Ahead(q)
    BY <1>1, <1>5, <1>8, <1>20, <1>22 DEF Ahead, Early, Middle
<1>25. Rows \subseteq Rows' /\ \A p \in Requests \ {q} : job'[p] = job[p]
    BY <1>1, <1>11
<1> QED
    BY <1>7, <1>14, <1>15, <1>16, <1>19, <1>23, <1>24, <1>25, GoingKeeps

(* A withdrawal.                                                           *)

\* What is open is counted by its rows.
LEMMA NothingOpen ==
    ASSUME UInv, \A t \in Rows : aave[t].amount = 0 PROVE OpenSum = 0
<1> DEFINE f == [t \in Txs |-> aave[t].amount]
<1>1. IsFiniteSet(Rows) /\ \A t \in Rows : f[t] = 0
    BY BookedAreAsked DEF Rows
<1> HIDE DEF f
<1> QED
    BY <1>1, SumOfZeros DEF OpenSum, f

\* The rows are read: each open one once.
LEMMA OpenStepKeeps == ASSUME UInv, Shape, NEW q \in Requests, Open(q) PROVE UInv'
<1>1. /\ Quiet /\ job' = job /\ deposit' = deposit /\ aave' = aave /\ entries' = entries
      /\ req[q].pc = "open"
    BY DEF Open, At, books
<1>2. q \in Running
    BY <1>1 DEF Running, Over
<1>3. /\ AskedInv(q) /\ JobInv(q) /\ Balanced(InHand(q))
      /\ \A t \in Rows : ~Behind(t)
    BY <1>1, <1>2, RunningFacts DEF At
<1>4. OpenRows \subseteq Rows /\ \A t \in Rows : aave[t].amount > 0 => t \in OpenRows
    BY DEF OpenRows, Rows, NoRow
<1>5. Cardinality(OpenRows) \in Nat
    BY <1>4, FS_Subset, FS_CardinalityType DEF UInv, Tables
<1>6. PICK order \in [1 .. Cardinality(OpenRows) -> OpenRows] :
          /\ Listing(order)
          /\ req' = [req EXCEPT ![q].rows = [i \in DOMAIN order |-> [tx |-> order[i],
                                                amount |-> aave[order[i]].amount,
                                                deposit |-> aave[order[i]].deposit]],
                                ![q].pc = IF order = <<>> THEN "entry" ELSE "take"]
    BY DEF Open
<1> DEFINE n == Cardinality(OpenRows)
           list == [i \in DOMAIN order |-> [tx |-> order[i], amount |-> aave[order[i]].amount,
                                            deposit |-> aave[order[i]].deposit]]
           pc == IF order = <<>> THEN "entry" ELSE "take"
<1>7. n \in Nat /\ DOMAIN order = 1 .. n /\ \A i \in 1 .. n : order[i] \in OpenRows
    BY <1>5, <1>6
<1>8. \A t \in Rows : RowInv(t)
    BY DEF UInv
<1>9. /\ DOMAIN list = 1 .. n
      /\ \A i \in 1 .. n : /\ list[i].tx = order[i] /\ list[i].amount = aave[order[i]].amount
                           /\ list[i].deposit = aave[order[i]].deposit
                           /\ list[i] \in [tx : Txs, amount : Nat, deposit : Requests]
    BY <1>4, <1>7, <1>8 DEF RowInv, Rows
<1>10. req' = [req EXCEPT ![q].rows = list, ![q].pc = pc] /\ pc \in {"entry", "take"}
    BY <1>6
<1>11. list \in [1 .. n -> [tx : Txs, amount : Nat, deposit : Requests]]
    BY <1>7, <1>9
<1>12. pc = "entry" => n = 0
    BY <1>7
<1>13. pc = "take" => n # 0
    BY <1>7
<1> HIDE DEF n, list, pc
<1>14. /\ req'[q].pc = pc /\ req'[q].rows = list /\ req'[q].tx = req[q].tx
       /\ req'[q].kind = req[q].kind /\ req'[q].amount = req[q].amount
       /\ req'[q].left = req[q].left /\ \A p \in Requests \ {q} : req'[p] = req[p]
    BY <1>10 DEF Shape, NoCall
<1>15. Goes(q, pc)
    BY <1>1, <1>2, <1>10, <1>14 DEF Goes, Quiet
<1>16. Rows' = Rows /\ OpenSum' = OpenSum /\ EntrySum' = EntrySum /\ Asked' = Asked
    BY <1>1, <1>15, NamesKept DEF Rows, OpenSum, EntrySum
<1>17. Tables'
    BY <1>1, <1>16 DEF UInv, Tables
<1>18. req[q].left = req[q].amount /\ req[q].kind = "withdraw" /\ job[q] = "none"
    BY <1>1, <1>3 DEF AskedInv, JobInv
<1>19. AskedInv(q)'
    BY <1>3, <1>10, <1>14, <1>18 DEF AskedInv, Middle, Loop, Late
<1>20. JobInv(q)'
    BY <1>1, <1>10, <1>14, <1>18 DEF JobInv, Middle, Late
<1>21. LoopInv(q)'
  <2>0. list \in Seq([tx : Txs, amount : Nat, deposit : Requests]) /\ Len(list) = n
    <3> DEFINE S == [tx : Txs, amount : Nat, deposit : Requests]
    <3>1. list \in [1 .. n -> S] /\ n \in Nat
        BY <1>7, <1>11
    <3> HIDE DEF S
    <3>2. list \in Seq(S)
        BY <3>1, SeqDef
    <3> QED
        BY <3>1, <3>2 DEF S
  <2>1. \A i \in 1 .. n : order[i] \in Rows /\ aave[order[i]].amount > 0
      BY <1>4, <1>7 DEF OpenRows
  <2>2. ASSUME NEW i \in 1 .. n PROVE ReadInv(q, i)'
    <3>1. ~At(q, "mirror")'
        BY <1>10, <1>14 DEF At
    <3>2. /\ list[i].tx \in Rows /\ list[i].amount \in Nat /\ list[i].amount > 0
          /\ list[i].deposit = aave[list[i].tx].deposit
          /\ list[i].amount = aave[list[i].tx].amount
        BY <1>8, <1>9, <2>1, <2>2 DEF RowInv
    <3> QED
        BY <1>1, <1>14, <1>16, <3>1, <3>2 DEF ReadInv
  <2>3. \A i, j \in 1 .. n : list[i].tx = list[j].tx => i = j
    <3> SUFFICES ASSUME NEW i \in 1 .. n, NEW j \in 1 .. n, order[i] = order[j] PROVE i = j
        BY <1>9
    <3>1. \A a, b \in 1 .. n : a < b => aave[order[a]].at > aave[order[b]].at
        BY <1>6, <1>7 DEF Listing
    <3>2. ~(i < j) /\ ~(j < i)
      <4>1. \A a \in 1 .. n : aave[order[a]].at \in Nat
          BY <1>8, <2>1 DEF RowInv
      <4> QED
          BY <3>1, <4>1
    <3> QED
        BY <1>7, <3>2
  <2>4. \A t \in Rows : aave[t].amount > 0 => \E i \in 1 .. n : list[i].tx = t
      BY <1>4, <1>6, <1>7, <1>9 DEF Listing
  <2>5. n # 0 => list # <<>>
      BY <2>0
  <2>6. req[q].left > 0 /\ req[q].left \in 0 .. req[q].amount
      BY <1>3, <1>18 DEF AskedInv
  <2>7. pc = "entry" => \A t \in Rows : aave[t].amount = 0
      BY <1>8, <1>12, <2>4 DEF RowInv
  <2>8. DOMAIN req'[q].rows = 1 .. n /\ pc \in Loop /\ pc # "mirror"
      BY <1>9, <1>10, <1>14 DEF Loop
  <2>9. CASE pc = "entry"
      BY <1>1, <1>14, <1>16, <2>6, <2>7, <2>9 DEF LoopInv, At
  <2>10. CASE pc = "take"
    <3>1. \A t \in Rows' : aave'[t].amount > 0 => \E i \in DOMAIN req'[q].rows : req'[q].rows[i].tx = t
        BY <1>1, <1>14, <1>16, <2>4, <2>8
    <3>2. \A i, j \in DOMAIN req'[q].rows : req'[q].rows[i].tx = req'[q].rows[j].tx => i = j
        BY <1>14, <2>3, <2>8
    <3> QED
        BY <1>13, <1>14, <2>0, <2>2, <2>5, <2>6, <2>8, <2>10, <3>1, <3>2 DEF LoopInv, At
  <2> QED
      BY <1>10, <2>9, <2>10
<1>22. \A t \in Rows' : RowInv(t)' /\ Followed(t)'
    BY <1>1, <1>3, <1>14, <1>16 DEF UInv, RowInv, Followed, Rows
<1>23. Supplies' = Supplies
    BY <1>1 DEF Supplies
<1>24. BookedSum' = BookedSum
    BY <1>14, <1>23, BookedKept DEF Supplies
<1>25. q \notin Supplies'
    BY <1>18, <1>23 DEF Supplies
<1>26. InHand(q) = 0 /\ InHand(q)' = 0
    BY <1>1, <1>3, <1>10, <1>14, <1>18 DEF InHand, Middle, AskedInv
<1>27. Balanced(InHand(q))'
    BY <1>1, <1>3, <1>16, <1>24, <1>26 DEF Balanced
<1>28. OpenSum' + Ahead(q)' = OpenSum + Ahead(q)
    BY <1>1, <1>10, <1>14, <1>16, <1>18 DEF Ahead, Early, Middle
<1> QED
    BY <1>1, <1>15, <1>16, <1>17, <1>19, <1>20, <1>21, <1>22, <1>25, <1>27, <1>28, GoingKeeps DEF RequestInv
\* What is taken from a row.
LEMMA TakeFacts ==
    ASSUME NEW q \in Requests, LoopInv(q), req[q].pc \in {"take", "mirror"}, NEW h, h = Head(req[q].rows)
    PROVE  /\ 1 \in DOMAIN req[q].rows /\ req[q].rows[1] = h /\ ReadInv(q, 1)
           /\ h.tx \in Rows /\ h.amount \in Nat /\ h.amount > 0 /\ h.deposit = aave[h.tx].deposit
           /\ req[q].left \in Nat /\ Take(q) \in Nat /\ Take(q) <= h.amount /\ Take(q) <= req[q].left
           /\ Take(q) = h.amount \/ Take(q) = req[q].left
<1> DEFINE rows == req[q].rows
           left == req[q].left
<1>1. /\ rows \in Seq([tx : Txs, amount : Nat, deposit : Requests]) /\ rows # <<>>
      /\ \A i \in DOMAIN rows : ReadInv(q, i)
    BY DEF LoopInv
<1>2. 1 \in DOMAIN rows /\ rows[1] = h
    BY <1>1
<1>3. ReadInv(q, 1)
    BY <1>1, <1>2
<1>4. h.tx \in Rows /\ h.amount \in Nat /\ h.amount > 0 /\ h.deposit = aave[h.tx].deposit
    BY <1>2, <1>3 DEF ReadInv
<1>5. left \in Nat
  <2>1. left \in 0 .. req[q].amount /\ left > 0
      BY DEF LoopInv, Loop
  <2> QED
      BY <2>1
<1> DEFINE smaller == IF h.amount <= left THEN h.amount ELSE left
<1>6. smaller \in {h.amount, left} /\ \A y \in {h.amount, left} : smaller <= y
    BY <1>4, <1>5
<1>7. \A x \in {h.amount, left} : (\A y \in {h.amount, left} : x <= y) => x = smaller
    BY <1>4, <1>5
<1>8. Take(q) = Min({h.amount, left})
    BY DEF Take
<1>9. Take(q) = smaller
    BY <1>6, <1>7, <1>8 DEF Min
<1> QED
    BY <1>2, <1>3, <1>4, <1>5, <1>9

LEMMA TakeStepKeeps == ASSUME UInv, Shape, NEW q \in Requests, TakeRow(q) PROVE UInv'
<1> DEFINE a == Take(q)
<1>1. PICK h : h = Head(req[q].rows)
    OBVIOUS
<1>2. /\ Quiet /\ job' = job /\ deposit' = deposit /\ entries' = entries
      /\ req[q].pc = "take" /\ Goto(q, "mirror")
      /\ aave' = [aave EXCEPT ![h.tx].amount = h.amount - a]
    BY <1>1 DEF TakeRow, At
<1>3. q \in Running
    BY <1>2 DEF Running, Over
<1>4. /\ AskedInv(q) /\ JobInv(q) /\ LoopInv(q) /\ Balanced(InHand(q))
      /\ \A t \in Rows : Followed(t)
    BY <1>2, <1>3, RunningFacts DEF At, UInv
<1>5. /\ 1 \in DOMAIN req[q].rows /\ req[q].rows[1] = h /\ ReadInv(q, 1)
      /\ h.tx \in Rows /\ h.amount \in Nat /\ h.amount > 0 /\ h.deposit = aave[h.tx].deposit
      /\ req[q].left \in Nat /\ a \in Nat /\ a <= h.amount /\ a <= req[q].left
    BY <1>1, <1>2, <1>4, TakeFacts
<1>6. aave[h.tx].amount = h.amount
    BY <1>2, <1>5 DEF ReadInv, At
<1>7. Goes(q, "mirror") /\ req'[q].left = req[q].left /\ req'[q].rows = req[q].rows
    BY <1>2, <1>3, GotoGoes
<1>8. /\ req'[q].pc = "mirror" /\ req'[q].tx = req[q].tx /\ req'[q].kind = req[q].kind
      /\ req'[q].amount = req[q].amount /\ \A p \in Requests \ {q} : req'[p] = req[p]
    BY <1>7 DEF Goes
<1>9. Take(q)' = a
    BY <1>7 DEF Take
<1> HIDE DEF a
<1>10. /\ aave'[h.tx].amount = h.amount - a /\ DOMAIN aave' = Txs
       /\ \A t \in Txs : aave'[t].deposit = aave[t].deposit /\ aave'[t].at = aave[t].at
       /\ \A t \in Txs \ {h.tx} : aave'[t] = aave[t]
    BY <1>2, <1>5 DEF Shape, NoRow, Rows
<1>11. Rows' = Rows
  <2>1. \A t \in Rows : aave[t].deposit # "none"
      BY RequestsAssumption DEF UInv, RowInv
  <2>2. \A t \in Txs : t \in Rows => aave'[t] # NoRow
      BY <1>10, <2>1 DEF NoRow
  <2>3. \A t \in Txs : t \notin Rows => aave'[t] = NoRow
      BY <1>5, <1>10 DEF Rows
  <2> QED
      BY <2>2, <2>3 DEF Rows
<1>12. EntrySum' = EntrySum /\ Asked' = Asked
    BY <1>2, <1>7, NamesKept DEF EntrySum
<1>13. Tables'
    BY <1>2, <1>11, <1>12 DEF UInv, Tables
<1>14. AskedInv(q)'
    BY <1>2, <1>4, <1>8 DEF AskedInv, Middle, Loop, Late
<1>15. JobInv(q)'
    BY <1>2, <1>4, <1>8, <1>11 DEF JobInv, AskedInv, Middle, Late, At, Loop
<1>16. LoopInv(q)'
  <2> DEFINE rows == req[q].rows
  <2>1. /\ req[q].left > 0 /\ rows \in Seq([tx : Txs, amount : Nat, deposit : Requests])
        /\ rows # <<>> /\ \A i \in DOMAIN rows : ReadInv(q, i)
        /\ \A i, j \in DOMAIN rows : rows[i].tx = rows[j].tx => i = j
        /\ \A t \in Rows : aave[t].amount > 0 => \E i \in DOMAIN rows : rows[i].tx = t
        /\ req[q].left \in 0 .. req[q].amount
      BY <1>2, <1>4 DEF LoopInv, Loop
  <2>2. ASSUME NEW i \in DOMAIN rows PROVE ReadInv(q, i)'
    <3>1. /\ rows[i].tx \in Rows /\ rows[i].amount \in Nat /\ rows[i].amount > 0
          /\ rows[i].deposit = aave[rows[i].tx].deposit /\ aave[rows[i].tx].amount = rows[i].amount
        BY <1>2, <2>1, <2>2 DEF ReadInv, At
    <3>2. rows[i].tx \in Txs
        BY <3>1 DEF Rows
    <3>3. i # 1 => rows[i].tx # h.tx
        BY <1>5, <2>1, <2>2
    <3>4. aave'[rows[i].tx].amount = IF i = 1 THEN rows[i].amount - a ELSE rows[i].amount
        BY <1>5, <1>10, <3>1, <3>2, <3>3
    <3>5. aave'[rows[i].tx].deposit = aave[rows[i].tx].deposit
        BY <1>10, <3>2
    <3> QED
        BY <1>7, <1>8, <1>9, <1>11, <3>1, <3>4, <3>5 DEF ReadInv, At
  <2>3. ASSUME NEW t \in Rows, aave'[t].amount > 0 PROVE \E i \in DOMAIN rows : rows[i].tx = t
      BY <1>5, <1>10, <2>1, <2>3 DEF Rows
  <2>4. deposit[h.deposit] = h.amount
      BY <1>4, <1>5, <1>6 DEF Followed
  <2> QED
      BY <1>1, <1>2, <1>7, <1>8, <1>11, <2>1, <2>2, <2>3, <2>4 DEF LoopInv, At
<1>17. ASSUME NEW t \in Rows' PROVE RowInv(t)' /\ (Followed(t) \/ Behind(t))'
  <2>1. t \in Rows /\ t \in Txs /\ RowInv(t) /\ Followed(t)
      BY <1>4, <1>11, <1>17 DEF UInv, Rows
  <2>2. aave'[t].amount \in Nat
    <3>1. h.amount - a \in Nat
        BY <1>5
    <3> QED
        BY <1>10, <2>1, <3>1 DEF RowInv
  <2>3. RowInv(t)'
      BY <1>2, <1>8, <1>10, <2>1, <2>2 DEF RowInv
  <2>4. CASE t = h.tx
    <3>1. Behind(t)'
        BY <1>1, <1>7, <1>8, <2>4 DEF Behind, At
    <3> QED
        BY <2>3, <3>1
  <2>5. CASE t # h.tx
      BY <1>2, <1>10, <2>1, <2>3, <2>5 DEF Followed
  <2> QED
      BY <2>4, <2>5
<1>18. Supplies' = Supplies
    BY <1>2 DEF Supplies
<1>19. BookedSum' = BookedSum
    BY <1>8, <1>18, BookedKept DEF Supplies
<1>20. q \notin Supplies'
    BY <1>2, <1>4, <1>18 DEF Supplies, JobInv, AskedInv, Loop
<1>21. OpenSum' = OpenSum - a
  <2> DEFINE f == [t \in Txs |-> aave[t].amount]
             g == [t \in Txs |-> aave'[t].amount]
  <2>1. \A t \in Rows : f[t] \in Int /\ g[t] \in Int
      BY <1>11, <1>17 DEF UInv, RowInv, Rows
  <2>2. \A t \in Rows \ {h.tx} : g[t] = f[t]
      BY <1>10 DEF Rows
  <2>3. g[h.tx] = h.amount - a /\ f[h.tx] = h.amount
      BY <1>5, <1>6, <1>10 DEF Rows
  <2>4. IsFiniteSet(Rows) /\ OpenSum = SumOn(f, Rows) /\ OpenSum' = SumOn(g, Rows)
      BY <1>11, BookedAreAsked DEF OpenSum
  <2> HIDE DEF f, g
  <2>5. SumOn(g, Rows) = SumOn(f, Rows) - f[h.tx] + g[h.tx]
      BY <1>5, <2>1, <2>2, <2>4, SumChange
  <2> QED
      BY <1>5, <2>3, <2>4, <2>5, SumsAreInts
<1>22. /\ InHand(q) = req[q].amount - req[q].left
       /\ InHand(q)' = req[q].amount - req[q].left + a
    BY <1>2, <1>7, <1>8, <1>9 DEF InHand, Middle
<1>23. EntrySum \in Int /\ BookedSum \in Int /\ OpenSum \in Int /\ req[q].amount \in Int
    BY <1>4, SumsAreInts DEF AskedInv
<1>24. Balanced(InHand(q))'
  <2>1. req[q].left \in Int /\ a \in Int
      BY <1>5
  <2>2. BookedSum' - OpenSum' - InHand(q)' = BookedSum - OpenSum - InHand(q)
      BY <1>19, <1>21, <1>22, <1>23, <2>1
  <2>3. EntrySum' = EntrySum /\ entries' = entries
      BY <1>2, <1>12
  <2> QED
      BY <1>4, <2>2, <2>3 DEF Balanced
<1>25. OpenSum' + Ahead(q)' = OpenSum + Ahead(q)
  <2>1. req[q].kind = "withdraw"
      BY <1>2, <1>4 DEF AskedInv, Loop
  <2>2. Ahead(q) = -req[q].left /\ Ahead(q)' = a - req[q].left
      BY <1>2, <1>7, <1>8, <1>9, <2>1 DEF Ahead, Early, Middle
  <2> QED
      BY <1>5, <1>21, <1>23, <2>2
<1> QED
    BY <1>2, <1>7, <1>11, <1>13, <1>14, <1>15, <1>16, <1>17, <1>20, <1>24, <1>25, GoingKeeps DEF RequestInv

\* The deposit row follows, and the next row is at the head.
LEMMA MirrorStepKeeps == ASSUME UInv, Shape, NEW q \in Requests, Mirror(q) PROVE UInv'
<1> DEFINE a == Take(q)
           rows == req[q].rows
           left == req[q].left
           pc == IF left - a = 0 \/ Tail(rows) = <<>> THEN "entry" ELSE "take"
<1>1. PICK h : h = Head(rows)
    OBVIOUS
<1>2. /\ Quiet /\ job' = job /\ aave' = aave /\ entries' = entries /\ req[q].pc = "mirror"
      /\ deposit' = [deposit EXCEPT ![h.deposit] = IF @ = 0 THEN 0 ELSE h.amount - a]
      /\ req' = [req EXCEPT ![q].rows = Tail(@), ![q].left = left - a, ![q].pc = pc]
    BY <1>1 DEF Mirror, NextRow, At
<1>3. q \in Running
    BY <1>2 DEF Running, Over
<1>4. /\ AskedInv(q) /\ JobInv(q) /\ LoopInv(q) /\ Balanced(InHand(q))
      /\ \A t \in Rows : Followed(t) \/ t = h.tx
    BY <1>1, <1>2, <1>3, RunningFacts DEF At, UInv
<1>5. /\ 1 \in DOMAIN rows /\ rows[1] = h /\ ReadInv(q, 1)
      /\ h.tx \in Rows /\ h.amount \in Nat /\ h.amount > 0 /\ h.deposit = aave[h.tx].deposit
      /\ left \in Nat /\ a \in Nat /\ a <= h.amount /\ a <= left
      /\ a = h.amount \/ a = left
    BY <1>1, <1>2, <1>4, TakeFacts
<1>6. aave[h.tx].amount = h.amount - a /\ deposit[h.deposit] = h.amount
    BY <1>1, <1>2, <1>4, <1>5 DEF ReadInv, LoopInv, At
<1>7. pc \in {"entry", "take"} /\ (pc = "take" <=> left - a # 0 /\ Tail(rows) # <<>>)
    OBVIOUS
<1> HIDE DEF a, pc
<1>8. /\ req'[q].pc = pc /\ req'[q].left = left - a /\ req'[q].rows = Tail(rows)
      /\ req'[q].tx = req[q].tx /\ req'[q].kind = req[q].kind /\ req'[q].amount = req[q].amount
      /\ \A p \in Requests \ {q} : req'[p] = req[p]
    BY <1>2 DEF Shape, NoCall
<1>9. Goes(q, pc)
    BY <1>2, <1>3, <1>7, <1>8 DEF Goes, Quiet
<1>10. h.deposit \in Requests /\ req[h.deposit].tx = h.tx
    BY <1>5 DEF UInv, RowInv
<1>11. /\ deposit'[h.deposit] = h.amount - a /\ DOMAIN deposit' = Requests
       /\ \A p \in Requests \ {h.deposit} : deposit'[p] = deposit[p]
    BY <1>2, <1>5, <1>6, <1>10 DEF UInv, Tables
<1>12. Rows' = Rows /\ OpenSum' = OpenSum /\ EntrySum' = EntrySum /\ Asked' = Asked
    BY <1>2, <1>9, NamesKept DEF Rows, OpenSum, EntrySum
<1>13. Tables'
    BY <1>2, <1>11, <1>12 DEF UInv, Tables
<1>14. AskedInv(q)'
    BY <1>2, <1>4, <1>7, <1>8 DEF AskedInv, Middle, Loop, Late
<1>15. JobInv(q)'
    BY <1>2, <1>4, <1>7, <1>8, <1>12 DEF JobInv, AskedInv, Middle, Late, Loop
<1>16. LoopInv(q)'
  <2> DEFINE rest == Tail(rows)
  <2>1. /\ left > 0 /\ rows \in Seq([tx : Txs, amount : Nat, deposit : Requests])
        /\ rows # <<>> /\ \A i \in DOMAIN rows : ReadInv(q, i)
        /\ \A i, j \in DOMAIN rows : rows[i].tx = rows[j].tx => i = j
        /\ \A t \in Rows : aave[t].amount > 0 => \E i \in DOMAIN rows : rows[i].tx = t
        /\ left \in 0 .. req[q].amount
      BY <1>2, <1>4 DEF LoopInv, Loop
  <2>2. /\ rest \in Seq([tx : Txs, amount : Nat, deposit : Requests])
        /\ Len(rows) \in Nat /\ Len(rows) > 0 /\ Len(rest) = Len(rows) - 1
        /\ DOMAIN rows = 1 .. Len(rows) /\ DOMAIN rest = 1 .. (Len(rows) - 1)
        /\ \A i \in DOMAIN rest : rest[i] = rows[i + 1] /\ i + 1 \in DOMAIN rows /\ i + 1 # 1
      BY <2>1
  <2>3. left - a \in 0 .. req'[q].amount
      BY <1>4, <1>5, <1>8, <2>1 DEF AskedInv
  <2>4. ASSUME NEW t \in Rows, aave[t].amount > 0, left - a # 0
        PROVE  \E i \in DOMAIN rest : rest[i].tx = t
    <3>1. PICK i \in DOMAIN rows : rows[i].tx = t
        BY <2>1, <2>4
    <3>2. i # 1
        BY <1>5, <1>6, <2>4, <3>1
    <3>3. i - 1 \in DOMAIN rest /\ rest[i - 1] = rows[i]
        BY <2>2, <3>2
    <3> QED
        BY <3>1, <3>3
  <2>5. CASE pc = "entry"
    <3>1. left - a = 0 \/ rest = <<>>
        BY <1>7, <2>5
    <3>2. rest = <<>> => DOMAIN rest = {}
        OBVIOUS
    <3>3. \A t \in Rows : aave[t].amount \in Nat
        BY DEF UInv, RowInv
    <3>4. left - a = 0 \/ \A t \in Rows : aave[t].amount = 0
        BY <2>4, <3>1, <3>2, <3>3
    <3> HIDE DEF rest, rows, left
    <3> QED
        BY <1>2, <1>8, <1>12, <2>3, <2>5, <3>4 DEF LoopInv, At
  <2>6. CASE pc = "take"
    <3>1. left - a > 0 /\ rest # <<>>
        BY <1>5, <1>7, <2>6
    <3>2. ASSUME NEW i \in DOMAIN rest PROVE ReadInv(q, i)'
      <4>1. PICK j \in DOMAIN rows : j # 1 /\ rest[i] = rows[j] /\ ReadInv(q, j)
          BY <2>1, <2>2, <3>2
      <4>2. /\ rows[j].tx \in Rows /\ rows[j].amount \in Nat /\ rows[j].amount > 0
            /\ rows[j].deposit = aave[rows[j].tx].deposit /\ aave[rows[j].tx].amount = rows[j].amount
          BY <4>1 DEF ReadInv
      <4>3. req'[q].rows[i] = rows[j] /\ ~At(q, "mirror")'
          BY <1>8, <2>6, <4>1 DEF At
      <4> QED
          BY <1>2, <1>12, <4>2, <4>3 DEF ReadInv
    <3>3. ASSUME NEW i \in DOMAIN rest, NEW j \in DOMAIN rest, rest[i].tx = rest[j].tx PROVE i = j
      <4>1. i \in Nat /\ j \in Nat /\ i + 1 \in DOMAIN rows /\ j + 1 \in DOMAIN rows
          BY <2>2
      <4>2. rows[i + 1].tx = rest[i].tx /\ rows[j + 1].tx = rest[j].tx
          BY <2>2
      <4>3. \A m, n \in DOMAIN rows : rows[m].tx = rows[n].tx => m = n
          BY <2>1
      <4> HIDE DEF rest, rows
      <4>4. i + 1 = j + 1
          BY <3>3, <4>1, <4>2, <4>3
      <4> QED
          BY <4>1, <4>4
    <3>4. \A t \in Rows : aave[t].amount > 0 => \E i \in DOMAIN rest : rest[i].tx = t
        BY <2>4, <3>1
    <3>5. /\ req'[q].rows = rest /\ req'[q].rows # <<>> /\ req'[q].left > 0
          /\ req'[q].left \in 0 .. req'[q].amount /\ req'[q].pc = "take"
          /\ req'[q].rows \in Seq([tx : Txs, amount : Nat, deposit : Requests])
        BY <1>8, <2>2, <2>3, <2>6, <3>1
    <3>6. \A i \in DOMAIN req'[q].rows : ReadInv(q, i)'
        BY <3>2, <3>5
    <3>7. \A i, j \in DOMAIN req'[q].rows : req'[q].rows[i].tx = req'[q].rows[j].tx => i = j
        BY <3>3, <3>5
    <3>8. \A t \in Rows' : aave'[t].amount > 0 => \E i \in DOMAIN req'[q].rows : req'[q].rows[i].tx = t
        BY <1>2, <1>12, <3>4, <3>5
    <3> HIDE DEF rest, rows, left
    <3> QED
        BY <3>5, <3>6, <3>7, <3>8 DEF LoopInv, At
  <2> QED
      BY <1>7, <2>5, <2>6
<1>17. ASSUME NEW t \in Rows' PROVE RowInv(t)' /\ Followed(t)'
  <2>1. t \in Rows /\ RowInv(t)
      BY <1>12, <1>17 DEF UInv
  <2>2. RowInv(t)'
      BY <1>2, <1>8, <2>1 DEF RowInv
  <2>3. CASE t = h.tx
      BY <1>2, <1>5, <1>6, <1>11, <2>2, <2>3 DEF Followed
  <2>4. CASE t # h.tx
    <3>1. Followed(t) /\ aave[t].deposit # h.deposit
        BY <1>4, <1>10, <2>1, <2>4 DEF RowInv
    <3> QED
        BY <1>2, <1>11, <2>1, <2>2, <3>1 DEF Followed, RowInv
  <2> QED
      BY <2>3, <2>4
<1>18. Supplies' = Supplies
    BY <1>2 DEF Supplies
<1>19. BookedSum' = BookedSum
    BY <1>8, <1>18, BookedKept DEF Supplies
<1>20. q \notin Supplies' /\ req[q].kind = "withdraw"
    BY <1>2, <1>4, <1>18 DEF Supplies, JobInv, AskedInv, Loop
<1>21. /\ InHand(q) = req[q].amount - left + a
       /\ InHand(q)' = req[q].amount - (left - a)
    BY <1>2, <1>7, <1>8 DEF InHand, Middle, a
<1>22. InHand(q)' = InHand(q) /\ req[q].amount \in Int
    BY <1>4, <1>5, <1>21 DEF AskedInv
<1>23. Balanced(InHand(q))'
    BY <1>2, <1>4, <1>12, <1>19, <1>22 DEF Balanced
<1>24. OpenSum' + Ahead(q)' = OpenSum + Ahead(q)
  <2>1. Ahead(q) = a - left /\ Ahead(q)' = -(left - a)
      BY <1>2, <1>7, <1>8, <1>20 DEF Ahead, Early, Middle, a
  <2> QED
      BY <1>5, <1>12, <2>1, SumsAreInts
<1> QED
    BY <1>2, <1>9, <1>12, <1>13, <1>14, <1>15, <1>16, <1>17, <1>20, <1>23, <1>24, GoingKeeps DEF RequestInv

\* The entry: an amount of whole half cents, rounded up to cents.
LEMMA CentsFacts == ASSUME NEW a \in Nat PROVE Cents(a) - a \in 0 .. 1 /\ Cents(a) \in Nat
BY DEF Cents

LEMMA EntryStepKeeps == ASSUME UInv, Shape, ChainInv, NEW q \in Requests, Entry(q) PROVE UInv'
<1> DEFINE w == req[q].amount - req[q].left
<1>1. /\ Quiet /\ job' = job /\ aave' = aave /\ deposit' = deposit /\ req[q].pc = "entry"
      /\ Goto(q, "confirmed")
      /\ entries' = IF w > 0 THEN Append(entries, Cents(w)) ELSE entries
    BY DEF Entry, At
<1>2. q \in Running
    BY <1>1 DEF Running, Over
<1>3. /\ AskedInv(q) /\ JobInv(q) /\ LoopInv(q) /\ Balanced(InHand(q))
      /\ \A t \in Rows : Followed(t)
    BY <1>1, <1>2, RunningFacts DEF At, UInv
<1>4. Goes(q, "confirmed") /\ req'[q].left = req[q].left
    BY <1>1, <1>2, GotoGoes
<1>5. /\ req'[q].pc = "confirmed" /\ req'[q].tx = req[q].tx /\ req'[q].kind = req[q].kind
      /\ req'[q].amount = req[q].amount /\ \A p \in Requests \ {q} : req'[p] = req[p]
    BY <1>4 DEF Goes
<1>6. req[q].left \in Nat /\ req[q].amount \in Nat /\ w \in Nat
  <2>1. req[q].left \in 0 .. req[q].amount /\ req[q].amount \in Nat
      BY <1>1, <1>3 DEF LoopInv, Loop, AskedInv
  <2> QED
      BY <2>1
<1> HIDE DEF w
<1>7. Rows' = Rows /\ OpenSum' = OpenSum /\ Asked' = Asked
    BY <1>1, <1>4, NamesKept DEF Rows, OpenSum
<1>8. entries \in Seq(Nat) /\ entries \in Seq(Int)
    BY DEF UInv, Tables
<1>9. Cents(w) - w \in 0 .. 1 /\ Cents(w) \in Nat
    BY <1>6, CentsFacts
<1>10. /\ entries' \in Seq(Nat)
       /\ \/ EntrySum' = EntrySum /\ w = 0 /\ Len(entries') = Len(entries)
          \/ EntrySum' = EntrySum + Cents(w) /\ Len(entries') = Len(entries) + 1
  <2>1. CASE w > 0
    <3>1. entries' = Append(entries, Cents(w)) /\ Cents(w) \in Int
        BY <1>1, <1>9, <2>1
    <3>2. EntrySum' = EntrySum + Cents(w)
        BY <1>8, <3>1, SumAppend DEF EntrySum
    <3> QED
        BY <1>8, <1>9, <3>1, <3>2
  <2>2. CASE w = 0
    <3>1. entries' = entries
        BY <1>1, <2>2
    <3> QED
        BY <1>8, <2>2, <3>1 DEF EntrySum
  <2> QED
      BY <1>6, <2>1, <2>2
<1>11. Tables'
    BY <1>1, <1>7, <1>10 DEF UInv, Tables
<1>12. RequestInv(q)'
  <2>1. AskedInv(q)' /\ LoopInv(q)'
      BY <1>3, <1>5 DEF AskedInv, LoopInv, At, Middle, Loop, Late
  <2>2. JobInv(q)'
      BY <1>1, <1>3, <1>5 DEF JobInv, AskedInv, Middle, Late, Loop
  <2> QED
      BY <2>1, <2>2 DEF RequestInv
<1>13. \A t \in Rows' : RowInv(t)' /\ Followed(t)'
    BY <1>1, <1>3, <1>5, <1>7 DEF UInv, RowInv, Followed, Rows
<1>14. Supplies' = Supplies
    BY <1>1 DEF Supplies
<1>15. BookedSum' = BookedSum
    BY <1>5, <1>14, BookedKept DEF Supplies
<1>16. q \notin Supplies' /\ req[q].kind = "withdraw"
    BY <1>1, <1>3, <1>14 DEF Supplies, JobInv, AskedInv, Loop
<1>17. InHand(q) = w /\ InHand(q)' = 0
    BY <1>1, <1>5 DEF InHand, Middle, w
<1>18. EntrySum \in Int /\ BookedSum \in Int /\ OpenSum \in Int /\ Len(entries) \in Nat
    BY SumsAreInts
<1>19. Balanced(InHand(q))'
  <2>1. EntrySum - (BookedSum - OpenSum - w) \in 0 .. Len(entries)
      BY <1>3, <1>17 DEF Balanced
  <2>2. PICK c \in Nat : c = Cents(w) /\ c - w \in 0 .. 1
      BY <1>9
  <2>3. \/ EntrySum' = EntrySum /\ w = 0 /\ Len(entries') = Len(entries)
        \/ EntrySum' = EntrySum + c /\ Len(entries') = Len(entries) + 1
      BY <1>10, <2>2
  <2>4. EntrySum' - (BookedSum - OpenSum - 0) \in 0 .. Len(entries')
      BY <1>6, <1>18, <2>1, <2>2, <2>3
  <2> QED
      BY <1>7, <1>15, <1>17, <2>4 DEF Balanced
<1>20. ASSUME truthful, Answered', Follows(Ahead(q)) PROVE Follows(Ahead(q))'
  <2> DEFINE k == Cardinality(Asked)
  <2>1. Ahead(q) = -req[q].left /\ Ahead(q)' = 0
      BY <1>1, <1>5, <1>16 DEF Ahead, Early, Middle
  <2>2. k \in 0 .. Len(mined)
      BY <1>20, FS_CardinalityType DEF UInv, Tables, NamedInv, ChainInv
  <2>3. Supplied(k) \in Int /\ Supplied(k) + interest >= 0 /\ interest \in Nat
      BY <2>2, SuppliedIsInt DEF ChainInv
  <2>4. Supplied(k) <= OpenSum - req[q].left /\ OpenSum - req[q].left <= Supplied(k) + interest
      BY <1>18, <1>20, <2>1 DEF Follows
  <2>5. req[q].left = 0 \/ OpenSum = 0
      BY <1>1, <1>3, NothingOpen DEF LoopInv, At
  <2>6. Supplied(k) <= OpenSum + 0 /\ OpenSum + 0 <= Supplied(k) + interest
      BY <1>6, <1>18, <2>3, <2>4, <2>5
  <2>7. \A n : Supplied(n)' = Supplied(n)
      BY <1>4, NamesKept
  <2>8. interest' = interest
      BY <1>4 DEF Goes, wallet
  <2> QED
      BY <1>7, <2>1, <2>6, <2>7, <2>8 DEF Follows
<1> QED
    BY <1>1, <1>4, <1>7, <1>11, <1>12, <1>13, <1>16, <1>19, <1>20, GoingKeeps

\* A new request: the truthful client names the next mined transaction.
LEMMA ConfirmStepKeeps ==
    ASSUME UInv, Shape, ChainInv, NEW q \in Requests, NEW t \in Txs, NEW kind \in {"supply", "withdraw"},
           NEW a, truthful => a = tx[t].amount, ~truthful => a \in Amounts,
           Confirm(q, t, kind, a), Running = {}
    PROVE  UInv'
<1>1. /\ UNCHANGED wallet /\ job' = job /\ deposit' = deposit /\ aave' = aave /\ entries' = entries
      /\ truthful' = truthful /\ req[q].pc = "idle" /\ (truthful => Truthful(t, kind, a))
      /\ req' = [req EXCEPT ![q] = [NoCall EXCEPT !.pc = "receipt", !.tx = t, !.kind = kind,
                                                  !.amount = a, !.left = a]]
    BY DEF Confirm, books, At
<1>2. /\ req'[q].pc = "receipt" /\ req'[q].tx = t /\ req'[q].kind = kind /\ req'[q].amount = a
      /\ req'[q].left = a /\ \A p \in Requests \ {q} : req'[p] = req[p]
    BY <1>1 DEF Shape, NoCall
<1>3. Rows' = Rows /\ OpenSum' = OpenSum /\ EntrySum' = EntrySum
    BY <1>1 DEF Rows, OpenSum, EntrySum
<1>4. Asked' = Asked \cup {q} /\ q \notin Asked
    BY <1>1, <1>2 DEF Asked, At
<1>5. IsFiniteSet(Asked) /\ IsFiniteSet(Asked') /\ Cardinality(Asked) \in Nat
      /\ Cardinality(Asked') = Cardinality(Asked) + 1
    BY <1>4, FS_AddElement, FS_CardinalityType DEF UInv, Tables
<1>6. Tables'
    BY <1>1, <1>3, <1>5 DEF UInv, Tables
<1>7. mined' = mined /\ tx' = tx /\ interest' = interest
    BY <1>1 DEF wallet
<1>20. PICK n \in Nat : n = Cardinality(Asked) + 1
    BY <1>5
<1>8. truthful => /\ n \in DOMAIN mined /\ mined[n] = t
                  /\ tx[t].kind = kind /\ tx[t].amount = a
  <2>1. Cardinality({p \in Requests : ~At(p, "idle")}) + 1 = n
      BY <1>20 DEF Asked
  <2> QED
      BY <1>1, <2>1 DEF Truthful
<1>9. a \in Nat /\ a > 0
  <2>1. CASE truthful
      BY <1>8, <2>1 DEF ChainInv, MinedInv, TxInv
  <2>2. CASE ~truthful
      BY <2>2, AmountAssumption DEF Amounts
  <2> QED
      BY <2>1, <2>2
<1>10. job[q] = "none"
    BY <1>1 DEF UInv, RequestInv, JobInv, At
<1>11. RequestInv(q)'
  <2>1. AskedInv(q)'
      BY <1>2, <1>9 DEF AskedInv, Middle, Loop, Late
  <2>2. JobInv(q)' /\ LoopInv(q)'
      BY <1>1, <1>2, <1>10 DEF JobInv, LoopInv, At, Middle, Late, Loop
  <2> QED
      BY <2>1, <2>2 DEF RequestInv
<1>12. \A u \in Rows : RowInv(u) /\ Followed(u)
  <2>1. \A u \in Rows : ~Behind(u)
      BY DEF Behind, Running, At, Over
  <2> QED
      BY <2>1 DEF UInv
<1>13. \A u \in Rows' : RowInv(u)' /\ Followed(u)'
    BY <1>1, <1>2, <1>3, <1>10, <1>12 DEF RowInv, Followed
<1>14. Supplies' = Supplies /\ q \notin Supplies'
    BY <1>1, <1>10 DEF Supplies
<1>15. BookedSum' = BookedSum
    BY <1>2, <1>14, BookedKept DEF Supplies
<1>16. InHand(q)' = 0 /\ Ahead(q)' = IF kind = "supply" THEN a ELSE -a
    BY <1>2 DEF InHand, Ahead, Middle, Early
<1>17. Balanced(InHand(q))'
    BY <1>1, <1>3, <1>15, <1>16 DEF UInv, Sums, Balanced
<1>18. ASSUME truthful PROVE NamedInv'
  <2>1. NamedInv /\ n \in DOMAIN mined /\ DOMAIN mined = 1 .. Len(mined) /\ Len(mined) \in Nat
      BY <1>8, <1>18 DEF UInv, ChainInv
  <2>2. Cardinality(Asked') = n
      BY <1>5, <1>20
  <2>3. ASSUME NEW p \in Asked' PROVE \E i \in 1 .. n : mined[i] = req'[p].tx
    <3>1. CASE p = q
      <4>1. n \in 1 .. n
          BY <1>5, <1>20
      <4> QED
          BY <1>2, <1>8, <1>18, <3>1, <4>1
    <3>2. CASE p # q
      <4>1. p \in Asked /\ req'[p] = req[p]
          BY <1>2, <1>4, <2>3, <3>2 DEF Asked
      <4>2. PICK i \in 1 .. Cardinality(Asked) : mined[i] = req[p].tx
          BY <2>1, <4>1 DEF NamedInv
      <4>3. i \in 1 .. n
          BY <1>5, <1>20
      <4> QED
          BY <4>1, <4>2, <4>3
    <3> QED
        BY <3>1, <3>2
  <2>4. \A p \in Asked' : req'[p].kind = tx[req'[p].tx].kind /\ req'[p].amount = tx[req'[p].tx].amount
      BY <1>2, <1>4, <1>8, <1>18, <2>1 DEF NamedInv, Asked
  <2>5. ASSUME NEW p \in Asked PROVE req[p].tx # t
    <3>1. PICK i \in 1 .. Cardinality(Asked) : mined[i] = req[p].tx
        BY <2>1 DEF NamedInv
    <3>2. i \in DOMAIN mined /\ i # n
        BY <1>5, <1>20, <2>1
    <3> QED
        BY <1>8, <1>18, <2>1, <3>1, <3>2 DEF ChainInv
  <2>6. \A p, r \in Asked' : req'[p].tx = req'[r].tx => p = r
      BY <1>2, <1>4, <2>1, <2>5 DEF NamedInv, Asked
  <2>7. n <= Len(mined)
      BY <2>1
  <2> QED
      BY <1>7, <2>2, <2>3, <2>4, <2>6, <2>7 DEF NamedInv
<1>19. ASSUME truthful, Answered' PROVE Follows(Ahead(q))'
  <2>1. Answered
    <3> SUFFICES ASSUME NEW p \in Asked PROVE p \in Running \/ At(p, "confirmed")
        BY DEF Answered
    <3>1. p \in Running' \/ At(p, "confirmed")'
        BY <1>4, <1>19 DEF Answered
    <3>2. p # q /\ p \in Requests
        BY <1>4 DEF Asked
    <3> QED
        BY <1>2, <3>1, <3>2 DEF Running, At
  <2>0. PICK k \in Nat : k = Cardinality(Asked)
      BY <1>5
  <2>2. Supplied(k) <= OpenSum + 0 /\ OpenSum + 0 <= Supplied(k) + interest
      BY <1>19, <2>0, <2>1 DEF UInv, Truth, Follows
  <2>3. n \in DOMAIN mined /\ DOMAIN mined = 1 .. Len(mined) /\ Len(mined) \in Nat /\ n = k + 1 /\ k \in Nat
      BY <1>8, <1>19, <1>20, <2>0 DEF ChainInv
  <2>4. Supplied(n) = Supplied(k) + Ahead(q)'
    <3> DEFINE f == [i \in DOMAIN mined |-> Signed(i)]
               D == 1 .. k
    <3>1. f[n] = Ahead(q)'
        BY <1>8, <1>16, <1>19, <2>3 DEF Signed
    <3>2. \A i \in DOMAIN mined : Signed(i) \in Int
        BY DEF ChainInv, MinedInv, TxInv, Signed
    <3>3. D \cup {n} = 1 .. n /\ n \notin D /\ k \in Int /\ 1 .. n \subseteq DOMAIN mined
        BY <2>3
    <3>4. IsFiniteSet(D)
        BY <3>3, FS_Interval
    <3>5. \A i \in D \cup {n} : f[i] \in Int
        BY <3>2, <3>3
    <3>6. Supplied(n) = SumOn(f, D \cup {n}) /\ Supplied(k) = SumOn(f, D)
        BY <3>3 DEF Supplied
    <3> HIDE DEF f, D
    <3>7. SumOn(f, D \cup {n}) = SumOn(f, D) + f[n]
        BY <3>3, <3>4, <3>5, SumAdd
    <3> QED
        BY <3>1, <3>6, <3>7
  <2>5. Supplied(n)' = Supplied(n) /\ Cardinality(Asked') = n
      BY <1>5, <1>7, <1>20 DEF Supplied, Signed
  <2>6. Supplied(k) \in Int /\ OpenSum \in Int /\ interest \in Int /\ Ahead(q)' \in Int
      BY <1>9, <1>16, <2>3, SuppliedIsInt, SumsAreInts DEF ChainInv
  <2>7. Supplied(n) <= OpenSum + Ahead(q)' /\ OpenSum + Ahead(q)' <= Supplied(n) + interest
      BY <2>2, <2>4, <2>6
  <2>8. \A m : Supplied(m)' = Supplied(m)
      BY <1>7 DEF Supplied, Signed
  <2> QED
      BY <1>3, <1>7, <2>5, <2>7, <2>8 DEF Follows
<1> QED
    BY <1>1, <1>2, <1>3, <1>6, <1>11, <1>13, <1>14, <1>17, <1>18, <1>19, StepKeeps

\* The chain moves on: what was named stays, and interest only adds to what is supplied.
LEMMA WalletStepKeeps ==
    ASSUME UInv, Shape, ChainInv, ChainInv', IF truthful THEN WalletNext ELSE \E t \in Txs : Elsewhere(t),
           UNCHANGED <<req, books, faults, disturbed, truthful>>
    PROVE  UInv'
<1>1. /\ req' = req /\ job' = job /\ deposit' = deposit /\ aave' = aave /\ entries' = entries
      /\ truthful' = truthful
    BY DEF books
<1>2. /\ Asked' = Asked /\ Rows' = Rows /\ Running' = Running /\ Supplies' = Supplies
      /\ BookedSum' = BookedSum /\ OpenSum' = OpenSum /\ EntrySum' = EntrySum
      /\ (Answered' <=> Answered)
    BY <1>1 DEF Asked, Rows, Running, Supplies, BookedSum, OpenSum, EntrySum, Answered, At
<1>3. Tables'
    BY <1>1, <1>2 DEF UInv, Tables
<1>4. ASSUME NEW q \in Requests PROVE RequestInv(q)' /\ InHand(q)' = InHand(q) /\ Ahead(q)' = Ahead(q)
  <2>1. Take(q)' = Take(q)
      BY <1>1 DEF Take
  <2>2. InHand(q)' = InHand(q) /\ Ahead(q)' = Ahead(q)
      BY <1>1, <2>1 DEF InHand, Ahead
  <2>3. RequestInv(q)
      BY DEF UInv
  <2>4. \A i : ReadInv(q, i)' = ReadInv(q, i)
      BY <1>1, <1>2, <2>1, Zenon DEF ReadInv, At
  <2>5. (AskedInv(q) => AskedInv(q)') /\ (JobInv(q) => JobInv(q)') /\ (LoopInv(q) => LoopInv(q)')
      BY <1>1, <1>2, <2>4 DEF AskedInv, JobInv, LoopInv, At
  <2> QED
      BY <1>1, <2>2, <2>3, <2>5 DEF RequestInv, At
<1>5. \A t \in Rows' : RowInv(t)' /\ (Followed(t) \/ Behind(t))'
    BY <1>1, <1>2 DEF UInv, RowInv, Followed, Behind, At
<1>6. \A p, q \in Supplies' : req'[p].tx = req'[q].tx => p = q
    BY <1>1, <1>2 DEF UInv
<1>7. Sums'
    BY <1>1, <1>2, <1>4 DEF UInv, Sums, Balanced, Running
<1>8. CASE ~truthful
    BY <1>1, <1>2, <1>3, <1>4, <1>5, <1>6, <1>7, <1>8 DEF UInv, Truth
<1>9. CASE truthful
  <2>1. WalletNext /\ NamedInv /\ mined \in Seq(Txs) /\ interest \in Nat
      BY <1>9 DEF UInv, ChainInv
  <2>2. /\ interest' >= interest /\ mined' \in Seq(Txs) /\ Len(mined) <= Len(mined')
        /\ \A i \in DOMAIN mined : mined'[i] = mined[i]
        /\ \A t \in Txs : tx[t].kind # "none" /\ ~tx[t].approve /\ receipt[t] # "none" => tx'[t] = tx[t]
    <3>1. ASSUME NEW t \in Txs, NEW built, Build(t, built)
          PROVE  /\ interest' = interest /\ mined' = mined
                 /\ \A u \in Txs : receipt[u] # "none" => tx'[u] = tx[u]
        BY <3>1 DEF Build, ChainInv
    <3>2. ASSUME NEW t \in Txs, Approve(t)
          PROVE  /\ interest' = interest /\ mined' = mined
                 /\ \A u \in Txs : ~tx[u].approve => tx'[u] = tx[u]
        BY <3>2 DEF Approve, ChainInv
    <3>3. ASSUME NEW t \in Txs, Mine(t)
          PROVE  /\ interest' = interest /\ (mined' = mined \/ mined' = Append(mined, t))
                 /\ \A u \in Txs : receipt[u] # "none" => tx'[u] = tx[u]
        BY <3>3 DEF Mine, ChainInv
    <3>4. Accrue => interest' = interest + 1 /\ mined' = mined /\ tx' = tx
        BY DEF Accrue
    <3>5. ASSUME NEW t \in Txs
          PROVE  LET m == Append(mined, t) IN m \in Seq(Txs) /\ Len(m) = Len(mined) + 1 /\ Len(mined) \in Nat
                                              /\ \A i \in DOMAIN mined : m[i] = mined[i]
        BY <2>1
    <3>6. \A t \in Txs : (\E a : BuildSupply(t, a) \/ BuildWithdraw(t, a)) => \E built : Build(t, built)
        BY DEF BuildSupply, BuildWithdraw
    <3>7. Len(mined) \in Nat
        BY <2>1
    <3> QED
        BY <2>1, <3>1, <3>2, <3>3, <3>4, <3>5, <3>6, <3>7 DEF WalletNext
  <2>3. \A i \in DOMAIN mined : tx'[mined[i]] = tx[mined[i]]
      BY <2>2 DEF ChainInv, MinedInv
  <2>4. \A k \in 0 .. Len(mined) : Supplied(k)' = Supplied(k)
      BY <2>2, <2>3, SuppliedKeeps
  <2>0. PICK k \in Nat : k = Cardinality(Asked)
      BY FS_CardinalityType DEF UInv, Tables
  <2>5. k <= Len(mined) /\ DOMAIN mined = 1 .. Len(mined) /\ Len(mined) \in Nat
      BY <2>0, <2>1 DEF NamedInv
  <2>6. k \in 0 .. Len(mined) /\ k <= Len(mined')
    <3>1. Len(mined') \in Nat
        BY <2>2
    <3> QED
        BY <2>2, <2>5, <3>1
  <2>7. Supplied(k)' = Supplied(k) /\ Supplied(k) \in Int
      BY <2>4, <2>6, SuppliedIsInt
  <2>8. ASSUME NEW x \in Int, Follows(x) PROVE Supplied(k) <= OpenSum + x /\ OpenSum + x <= Supplied(k) + interest'
    <3>1. Supplied(k) <= OpenSum + x /\ OpenSum + x <= Supplied(k) + interest
        BY <2>0, <2>8 DEF Follows
    <3>2. OpenSum \in Int /\ interest' \in Nat
        BY SumsAreInts DEF ChainInv
    <3> QED
        BY <2>1, <2>2, <2>7, <3>1, <3>2
  <2>9. ASSUME NEW x \in Int, Follows(x)
        PROVE  Supplied(k)' <= OpenSum' + x /\ OpenSum' + x <= Supplied(k)' + interest'
      BY <1>2, <2>7, <2>8, <2>9
  <2>10. ASSUME NEW q \in Running PROVE Ahead(q) \in Int
    <3>1. AskedInv(q) /\ LoopInv(q)
        BY RunningFacts DEF Running
    <3>2. req[q].amount \in Nat /\ (req[q].pc \in {"receipt", "reserve", "open"} \cup Loop => req[q].left \in Nat)
      <4>1. req[q].pc \in Loop => req[q].left \in 0 .. req[q].amount
          BY <3>1 DEF LoopInv
      <4> QED
          BY <3>1, <4>1 DEF AskedInv
    <3>3. req[q].pc = "mirror" => Take(q) \in Nat
      <4>1. PICK h : h = Head(req[q].rows)
          OBVIOUS
      <4> QED
          BY <3>1, <4>1, TakeFacts DEF Running
    <3> QED
        BY <3>2, <3>3 DEF Ahead, Loop
  <2>11. Truth'
    <3> SUFFICES ASSUME Answered
                 PROVE  /\ Running = {} => Follows(0)'
                        /\ \A q \in Running : Follows(Ahead(q))'
        BY <1>2 DEF Truth
    <3>1. Running = {} => Follows(0)'
      <4>1. Running = {} => Follows(0)
          BY <1>9 DEF UInv, Truth
      <4> QED
          BY <1>2, <2>0, <2>9, <4>1 DEF Follows
    <3>2. ASSUME NEW q \in Running PROVE Follows(Ahead(q))'
      <4>1. Follows(Ahead(q)) /\ Ahead(q) \in Int /\ Ahead(q)' = Ahead(q)
          BY <1>4, <1>9, <2>10 DEF UInv, Truth, Running
      <4> QED
          BY <1>2, <2>0, <2>9, <4>1 DEF Follows
    <3> QED
        BY <3>1, <3>2
  <2>12. NamedInv'
    <3>1. ASSUME NEW q \in Asked
          PROVE  /\ \E i \in 1 .. k : mined'[i] = req[q].tx
                 /\ req[q].kind = tx'[req[q].tx].kind /\ req[q].amount = tx'[req[q].tx].amount
      <4>1. PICK i \in 1 .. k : mined[i] = req[q].tx
          BY <2>0, <2>1 DEF NamedInv
      <4>2. i \in DOMAIN mined
          BY <2>5
      <4> QED
          BY <2>1, <2>2, <2>3, <4>1, <4>2 DEF NamedInv
    <3> QED
        BY <1>1, <1>2, <2>0, <2>1, <2>6, <3>1 DEF NamedInv
  <2> QED
      BY <1>1, <1>2, <1>3, <1>4, <1>5, <1>6, <1>7, <2>11, <2>12 DEF UInv
<1> QED
    BY <1>8, <1>9
-----------------------------------------------------------------------------
(* The theorems.                                                           *)

FullInv == IInv /\ ChainInv /\ Undisturbed

\* Every step that is not the chain's leaves the chain alone.
LEMMA ChainStays == ASSUME ChainInv, UNCHANGED wallet PROVE ChainInv'
<1>1. account' = account /\ tx' = tx /\ receipt' = receipt /\ mined' = mined /\ interest' = interest
    BY DEF wallet
<1>2. \A k : Supplied(k)' = Supplied(k)
    BY <1>1 DEF Supplied, Signed
<1> QED
    BY <1>1, <1>2 DEF ChainInv, TxInv, MinedInv

\* A step of another part of the system changes nothing here.
LEMMA NothingChanges == ASSUME UInv, UNCHANGED vars PROVE UInv'
<1>1. /\ UNCHANGED wallet /\ req' = req /\ job' = job /\ deposit' = deposit /\ aave' = aave
      /\ entries' = entries /\ truthful' = truthful
    BY DEF vars, books
<1>2. mined' = mined /\ tx' = tx /\ interest' = interest
    BY <1>1 DEF wallet
<1>3. /\ Asked' = Asked /\ Rows' = Rows /\ Running' = Running /\ Supplies' = Supplies
      /\ BookedSum' = BookedSum /\ OpenSum' = OpenSum /\ EntrySum' = EntrySum
      /\ (Answered' <=> Answered) /\ \A k : Supplied(k)' = Supplied(k)
    BY <1>1, <1>2 DEF Asked, Rows, Running, Supplies, BookedSum, OpenSum, EntrySum, Answered, At,
                     Supplied, Signed
<1>4. Tables' /\ (NamedInv' <=> NamedInv)
    BY <1>1, <1>2, <1>3 DEF UInv, Tables, NamedInv
<1>5. ASSUME NEW q \in Requests
      PROVE  RequestInv(q)' /\ InHand(q)' = InHand(q) /\ Ahead(q)' = Ahead(q)
  <2>1. Take(q)' = Take(q)
      BY <1>1 DEF Take
  <2>2. InHand(q)' = InHand(q) /\ Ahead(q)' = Ahead(q)
      BY <1>1, <2>1 DEF InHand, Ahead
  <2>3. \A i : ReadInv(q, i)' = ReadInv(q, i)
      BY <1>1, <1>3, <2>1, Zenon DEF ReadInv, At
  <2>4. (AskedInv(q) => AskedInv(q)') /\ (JobInv(q) => JobInv(q)') /\ (LoopInv(q) => LoopInv(q)')
      BY <1>1, <1>3, <2>3 DEF AskedInv, JobInv, LoopInv, At
  <2> QED
      BY <1>1, <2>2, <2>4 DEF UInv, RequestInv, At
<1>6. \A t \in Rows' : RowInv(t)' /\ (Followed(t) \/ Behind(t))'
    BY <1>1, <1>3 DEF UInv, RowInv, Followed, Behind, At
<1>7. \A p, q \in Supplies' : req'[p].tx = req'[q].tx => p = q
    BY <1>1, <1>3 DEF UInv
<1>8. Sums'
    BY <1>1, <1>3, <1>5 DEF UInv, Sums, Balanced, Running
<1>10. \A q \in Running : Follows(Ahead(q))' <=> Follows(Ahead(q))
    BY <1>2, <1>3, <1>5 DEF Follows, Running
<1>11. Follows(0)' <=> Follows(0)
    BY <1>2, <1>3 DEF Follows
<1>12. Truth'
    BY <1>1, <1>3, <1>10, <1>11 DEF UInv, Truth
<1> QED
    BY <1>1, <1>3, <1>4, <1>5, <1>6, <1>7, <1>8, <1>12 DEF UInv

LEMMA RequestStepKeeps ==
    ASSUME UInv, Shape, ChainInv, NEW q \in Requests,
           Receipt(q) \/ Reserve(q) \/ Supply(q) \/ Withdraw(q)
    PROVE  UInv'
<1>1. CASE Receipt(q) \/ Reserve(q) \/ Find(q) \/ Intent(q) \/ ReadBack(q)
    BY <1>1, QuietStepKeeps
<1>2. CASE Mark(q) \/ Executed(q) \/ Execution(q) \/ ExecutionReceipt(q) \/ Position(q)
    BY <1>2, QuietStepKeeps
<1>3. CASE Job(q) \/ Deposit(q) \/ Row(q)
    BY <1>3, JobStepKeeps, DepositStepKeeps, RowStepKeeps
<1>4. CASE Withdraw(q)
    BY <1>4, OpenStepKeeps, TakeStepKeeps, MirrorStepKeeps, EntryStepKeeps DEF Withdraw
<1> QED
    BY <1>1, <1>2, <1>3, <1>4 DEF Supply

\* The rest of the requests' steps leave the chain, too.
LEMMA RequestsLeaveTheChain ==
    ASSUME NEW q \in Requests, Receipt(q) \/ Reserve(q) \/ Supply(q) \/ Withdraw(q)
    PROVE  UNCHANGED wallet /\ disturbed' = disturbed
BY DEF Receipt, Reserve, Supply, Find, Job, Intent, Deposit, ReadBack, Row, Mark, Executed,
       Execution, ExecutionReceipt, Position, Withdraw, Open, TakeRow, Mirror, Entry, Quiet

LEMMA FullStep == ASSUME FullInv, [Next]_vars PROVE FullInv'
<1>1. IInv /\ IInv' /\ Shape /\ ChainInv
    BY StepPreserves DEF FullInv, IInv
<1>2. CASE UNCHANGED vars
  <2>1. ChainInv'
      BY <1>1, <1>2, ChainStays DEF vars
  <2>2. UInv => UInv'
      BY <1>2, NothingChanges
  <2> QED
      BY <1>1, <1>2, <2>1, <2>2 DEF FullInv, Undisturbed, vars
<1>3. CASE /\ IF truthful THEN WalletNext ELSE \E t \in Txs : Elsewhere(t)
           /\ UNCHANGED <<req, books, faults, disturbed, truthful>>
  <2>1. ChainInv'
      BY <1>1, <1>3, WalletChain
  <2>2. UInv => UInv'
      BY <1>1, <1>3, <2>1, WalletStepKeeps
  <2> QED
      BY <1>1, <1>3, <2>1, <2>2 DEF FullInv, Undisturbed
<1>4. ASSUME NEW q \in Requests, NEW t \in Txs, NEW kind \in {"supply", "withdraw"},
             NEW a \in IF truthful THEN {tx[t].amount} ELSE Amounts, Confirm(q, t, kind, a)
      PROVE  FullInv'
  <2>1. ChainInv' /\ disturbed' = (disturbed \/ Running # {})
      BY <1>1, <1>4, ChainStays DEF Confirm
  <2>2. ASSUME UInv, Running = {} PROVE UInv'
      BY <1>1, <1>4, <2>2, ConfirmStepKeeps
  <2> QED
      BY <1>1, <2>1, <2>2 DEF FullInv, Undisturbed
<1>5. ASSUME NEW q \in Requests, Receipt(q) \/ Reserve(q) \/ Supply(q) \/ Withdraw(q)
      PROVE  FullInv'
  <2>1. UNCHANGED wallet /\ disturbed' = disturbed
      BY <1>5, RequestsLeaveTheChain
  <2>2. UInv => UInv'
      BY <1>1, <1>5, RequestStepKeeps
  <2> QED
      BY <1>1, <2>1, <2>2, ChainStays DEF FullInv, Undisturbed
<1>6. CASE Crash \/ \E q \in Requests : Fails(q)
  <2>1. UNCHANGED wallet /\ disturbed' = TRUE
      BY <1>6 DEF Crash, Fails, Fault
  <2> QED
      BY <1>1, <2>1, ChainStays DEF FullInv, Undisturbed
<1> QED
    BY <1>2, <1>3, <1>4, <1>5, <1>6 DEF Next

\* A supply that is confirmed again, as often as the client likes, is booked once,
\* as long as calls do not overlap and nothing fails: Supplies has one request for
\* a transaction.
THEOREM SupplyIsBookedOnce == Spec => []BookedOnce
<1>1. ASSUME FullInv, ~disturbed, NEW t \in Txs PROVE Cardinality(Booked(t)) <= 1
  <2>1. \A p, q \in Booked(t) : p = q
      BY <1>1 DEF FullInv, Undisturbed, UInv, Booked, Supplies
  <2>2. CASE Booked(t) = {}
      BY <2>2, FS_EmptySet
  <2>3. CASE Booked(t) # {}
    <3>1. PICK q : Booked(t) = {q}
        BY <2>1, <2>3
    <3> QED
        BY <3>1, FS_Singleton
  <2> QED
      BY <2>2, <2>3
<1>2. FullInv => BookedOnce
    BY <1>1 DEF BookedOnce
<1>3. Init => FullInv
    BY InitHolds, ChainInit, UndisturbedInit DEF FullInv, Undisturbed
<1> QED
    BY <1>2, <1>3, FullStep, PTL DEF Spec

\* Once every call is answered, and none overlapped or failed: what was supplied is
\* still open or in the withdrawal ledger, to half a cent an entry; every open row has
\* its deposit row; and what a truthful client has open is what the pool holds, less
\* the interest that is still there.
THEOREM AaveBooksAgree == Spec => []AaveBooksBalance
<1>1. ASSUME FullInv, Running = {}, ~disturbed
      PROVE  LET supplied == Sum([q \in Requests |-> req[q].amount], UNION {Booked(t) : t \in Txs})
                 open == Sum([t \in Txs |-> aave[t].amount], OpenRows)
                 withdrawn == Sum(entries, DOMAIN entries)
             IN /\ withdrawn - (supplied - open) \in 0 .. Len(entries)
                /\ \A t \in Rows : deposit[aave[t].deposit] = aave[t].amount
                /\ LET asked == {q \in Requests : ~At(q, "idle")} IN
                   truthful /\ Cardinality(asked) = Len(mined) /\ (\A q \in asked : At(q, "confirmed"))
                       => account.supplied - open \in 0 .. interest
  <2> DEFINE f == [q \in Requests |-> req[q].amount]
             g == [t \in Txs |-> aave[t].amount]
  <2>1. UInv /\ ChainInv
      BY <1>1 DEF FullInv, Undisturbed
  <2>2. UNION {Booked(t) : t \in Txs} = Supplies
    <3>1. \A q \in Supplies : req[q].kind = "supply" /\ req[q].tx \in Txs
        BY <2>1 DEF UInv, Supplies, RequestInv, JobInv, AskedInv
    <3> QED
        BY <3>1 DEF Booked, Supplies
  <2>3. Sum(f, UNION {Booked(t) : t \in Txs}) = BookedSum
      BY <2>2 DEF Sum, SumOn, BookedSum
  <2>4. Sum(entries, DOMAIN entries) = EntrySum
      BY DEF Sum, SumOn, EntrySum
  <2>5. Sum(g, OpenRows) = OpenSum
    <3>1. OpenRows \in SUBSET Rows
        BY DEF OpenRows, Rows, NoRow
    <3>2. \A t \in Rows : t \in Txs /\ aave[t].amount \in Nat /\ g[t] = aave[t].amount
        BY <2>1 DEF UInv, RowInv, Rows
    <3>3. ASSUME NEW t \in Rows \ OpenRows PROVE g[t] = 0
      <4>1. t \in Txs /\ aave[t].amount \in Nat /\ g[t] = aave[t].amount
          BY <3>2
      <4>2. ~(aave[t].amount > 0)
          BY <4>1 DEF OpenRows
      <4> HIDE DEF g
      <4> QED
          BY <4>1, <4>2
    <3>4. IsFiniteSet(Rows)
        BY <2>1, BookedAreAsked
    <3> HIDE DEF g
    <3>5. SumOn(g, Rows) = SumOn(g, OpenRows)
        BY <3>1, <3>2, <3>3, <3>4, SumWithoutZeros
    <3> QED
        BY <3>5 DEF Sum, SumOn, OpenSum, g
  <2>6. EntrySum - (BookedSum - OpenSum) \in 0 .. Len(entries)
    <3>1. EntrySum - (BookedSum - OpenSum - 0) \in 0 .. Len(entries)
        BY <1>1, <2>1 DEF UInv, Sums, Balanced
    <3> QED
        BY <2>1, <3>1, SumsAreInts
  <2>7. ASSUME NEW t \in Rows PROVE deposit[aave[t].deposit] = aave[t].amount
    <3>1. ~Behind(t)
        BY <1>1 DEF Behind, Running, At, Over
    <3> QED
        BY <2>1, <3>1 DEF UInv, Followed
  <2>8. ASSUME truthful, Cardinality(Asked) = Len(mined), \A q \in Asked : At(q, "confirmed")
        PROVE  account.supplied - OpenSum \in 0 .. interest
    <3>1. Follows(0)
        BY <1>1, <2>1, <2>8 DEF UInv, Truth, Answered
    <3>2. Len(mined) \in 0 .. Len(mined) /\ interest \in Nat
        BY <2>1 DEF ChainInv
    <3>3. PICK s \in Int : s = Supplied(Len(mined))
        BY <2>1, <3>2, SuppliedIsInt
    <3>4. s <= OpenSum + 0 /\ OpenSum + 0 <= s + interest
        BY <2>8, <3>1, <3>3 DEF Follows
    <3>5. account.supplied = s + interest
        BY <2>1, <3>3 DEF ChainInv
    <3>6. OpenSum \in Int
        BY <2>1, SumsAreInts
    <3> QED
        BY <3>2, <3>4, <3>5, <3>6
  <2> HIDE DEF f, g
  <2> QED
      BY <2>3, <2>4, <2>5, <2>6, <2>7, <2>8 DEF f, g, Asked
<1>2. FullInv => AaveBooksBalance
    BY <1>1, Zenon DEF AaveBooksBalance
<1>3. Init => FullInv
    BY InitHolds, ChainInit, UndisturbedInit DEF FullInv, Undisturbed
<1> QED
    BY <1>2, <1>3, FullStep, PTL DEF Spec

=============================================================================

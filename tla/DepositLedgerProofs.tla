------------------------- MODULE DepositLedgerProofs -------------------------
(***************************************************************************)
(* What the ledgers of DepositLedger promise, for all users, products,     *)
(* pools, requests, calls, clocks and bounds.                              *)
(*                                                                         *)
(* Isolation of the users, and that an error after an insert means that    *)
(* the row is gone, rest on who a row belongs to, which no step changes: a *)
(* row is named by the request that created it (Owned), and the row that   *)
(* an adjustment found is one of its own user and product, even when it is *)
(* written later (FoundInv).  The amounts play no part in this.            *)
(*                                                                         *)
(* That no dollar is lost, that rows stay sound, and what a withdrawal     *)
(* takes from which row, rest on the books (BooksInv): the amounts are     *)
(* fractions, the weights of a row at most one, and the sums over a user's *)
(* rows and withdrawals what was booked.  The steps need the laws of the   *)
(* draining loop (Drain...), of a reduced row (ReducedLaws) and of sums    *)
(* over tables (Money...), on top of those of SumTheorems.                 *)
(*                                                                         *)
(* That the browser computes the same withdrawals compares two loops of    *)
(* BrowserLedger with the draining loop: the inner one by the places it    *)
(* has done (EntriesTaken), the outer one by the rows (LoopOverRows).  A   *)
(* withdrawal of one product lists fewer rows than the browser does; an    *)
(* order of some rows extends to one of all (OrderExtends).                *)
(***************************************************************************)
EXTENDS BrowserLedger, SumTheorems

\* The variables are functions of the requests; nothing is said of amounts.
ShapeInv ==
  /\ DOMAIN pc = Requests
  /\ DOMAIN found = Requests
  /\ DOMAIN answer = Requests
  /\ DOMAIN position \subseteq Requests
  /\ faults \in Nat

\* A row carries the user and the product of the request that created it.
Owned(x) ==
  /\ {"user", "product"} \subseteq DOMAIN position[x]
  /\ position[x].user = call[x].user
  /\ position[x].product = call[x].product

RowInv == \A x \in DOMAIN position : Owned(x) /\ pc[x] \notin {"idle", "insert"}

\* What an adjustment has found was created for the same user and product.
FoundInv ==
  \A r \in Requests : \A x \in found[r] :
    call[x].user = call[r].user /\ call[x].product = call[r].product

\* Where a create can be suspended, and what its answer says.
CreateInv ==
  \A r \in Requests :
    /\ pc[r] = "insert" => call[r].op = "create"
    /\ pc[r] \in {"find", "write"} => call[r].op = "adjust"
    /\ pc[r] # "done" => answer[r].kind # "error"
    /\ faults = 0 /\ call[r].op = "create" /\ answer[r].kind = "error" => r \notin DOMAIN position

LInv == ShapeInv /\ RowInv /\ FoundInv /\ CreateInv

-----------------------------------------------------------------------------
(* What every step shares *)

\* Goto and Reply move one request only.
LEMMA GotoMoves ==
  ASSUME DOMAIN pc = Requests, NEW r \in Requests, NEW from, NEW to, Goto(r, from, to)
  PROVE  /\ DOMAIN pc' = Requests
         /\ pc[r] = from /\ pc'[r] = to
         /\ \A q \in Requests \ {r} : pc'[q] = pc[q]
  BY DEF Goto

LEMMA ReplyMoves ==
  ASSUME DOMAIN pc = Requests, DOMAIN answer = Requests,
         NEW r \in Requests, NEW from, NEW kind, NEW usd, Reply(r, from, kind, usd)
  PROVE  /\ DOMAIN pc' = Requests /\ DOMAIN answer' = Requests
         /\ pc[r] = from /\ pc'[r] = "done"
         /\ answer'[r].kind = kind
         /\ \A q \in Requests \ {r} : pc'[q] = pc[q] /\ answer'[q] = answer[q]
  BY DEF Reply, Goto

\* A step that only takes rows away, or changes amounts and mixes of rows,
\* keeps what is known of the rows.
RowsShrink ==
  /\ DOMAIN position' \subseteq DOMAIN position
  /\ \A x \in DOMAIN position' :
       /\ DOMAIN position'[x] = DOMAIN position[x]
       /\ position'[x].user = position[x].user
       /\ position'[x].product = position[x].product

\* Steps of one request that shrink the table and do not enter "insert".
LEMMA ShrinkPreserves ==
  ASSUME LInv, NEW r \in Requests, RowsShrink, UNCHANGED call, FoundInv',
         DOMAIN found' = Requests, DOMAIN pc' = Requests, DOMAIN answer' = Requests, faults' \in Nat, faults <= faults',
         \A q \in Requests \ {r} : pc'[q] = pc[q] /\ answer'[q] = answer[q],
         pc'[r] \notin {"idle", "insert"},
         pc'[r] \in {"find", "write"} => call[r].op = "adjust",
         pc'[r] # "done" => answer'[r].kind # "error",
         faults' = 0 /\ call[r].op = "create" /\ answer'[r].kind = "error" => r \notin DOMAIN position'
  PROVE  LInv'
<1>1. ShapeInv'
  BY DEF LInv, ShapeInv, RowsShrink
<1>2. RowInv'
  <2> SUFFICES ASSUME NEW x \in DOMAIN position'
               PROVE  Owned(x)' /\ pc'[x] \notin {"idle", "insert"}
    BY DEF RowInv
  <2>1. x \in DOMAIN position /\ x \in Requests /\ Owned(x) /\ pc[x] \notin {"idle", "insert"}
    BY DEF LInv, ShapeInv, RowInv, RowsShrink
  <2>2. Owned(x)'
    BY <2>1 DEF Owned, RowsShrink
  <2> QED BY <2>1, <2>2
<1>4. CreateInv'
  <2> SUFFICES ASSUME NEW q \in Requests
               PROVE  /\ pc'[q] = "insert" => call[q].op = "create"
                      /\ pc'[q] \in {"find", "write"} => call[q].op = "adjust"
                      /\ pc'[q] # "done" => answer'[q].kind # "error"
                      /\ faults' = 0 /\ call[q].op = "create" /\ answer'[q].kind = "error"
                           => q \notin DOMAIN position'
    BY DEF CreateInv
  <2>1. CASE q = r
    BY <2>1
  <2>2. CASE q # r
    BY <2>2 DEF LInv, ShapeInv, CreateInv, RowsShrink
  <2> QED BY <2>1, <2>2
<1> QED BY <1>1, <1>2, <1>4 DEF LInv

\* The same, for a step that leaves the rows and what was found alone and only
\* sends an answer.
LEMMA ReplyPreserves ==
  ASSUME LInv, NEW r \in Requests, UNCHANGED <<position, call, found>>,
         NEW from, NEW kind, NEW usd, Reply(r, from, kind, usd),
         faults' \in Nat, faults <= faults',
         faults' = 0 /\ call[r].op = "create" /\ kind = "error" => r \notin DOMAIN position
  PROVE  LInv'
<1>1. RowsShrink
  BY DEF RowsShrink
<1>2. FoundInv' /\ DOMAIN found' = Requests
  BY DEF LInv, FoundInv, ShapeInv
<1>3. /\ DOMAIN pc' = Requests /\ DOMAIN answer' = Requests
      /\ pc'[r] = "done" /\ answer'[r].kind = kind
      /\ \A q \in Requests \ {r} : pc'[q] = pc[q] /\ answer'[q] = answer[q]
  BY ReplyMoves DEF LInv, ShapeInv
<1> QED BY <1>1, <1>2, <1>3, ShrinkPreserves

-----------------------------------------------------------------------------
(* One lemma for each action *)

LEMMA ArrivePreserves ==
  ASSUME LInv, NEW r \in Requests, Arrive(r)
  PROVE  LInv'
<1> USE DEF LInv, ShapeInv
<1>0. pc[r] = "idle" /\ r \notin DOMAIN position /\ answer[r].kind # "error"
  BY DEF Arrive, Reply, Goto, RowInv, CreateInv
<1>1. CASE Reply(r, "idle", "error", Zero)
  <2>1. UNCHANGED <<position, call, found, faults>>
    BY DEF Arrive
  <2> QED BY <1>0, <1>1, <2>1, ReplyPreserves
<1>2. CASE Goto(r, "idle", FirstAwait(call[r].op)) /\ UNCHANGED answer
  <2>1. UNCHANGED <<position, call, found, faults>>
    BY DEF Arrive
  <2>2. /\ pc' = [pc EXCEPT ![r] = FirstAwait(call[r].op)]
        /\ FirstAwait(call[r].op) # "done"
        /\ FirstAwait(call[r].op) = "insert" => call[r].op = "create"
        /\ FirstAwait(call[r].op) \in {"find", "write"} => call[r].op = "adjust"
    BY <1>2 DEF Goto, FirstAwait
  <2>3. ShapeInv' /\ FoundInv'
    BY <2>1, <2>2, <1>2 DEF FoundInv
  <2>4. RowInv'
    <3> SUFFICES ASSUME NEW x \in DOMAIN position'
                 PROVE  Owned(x)' /\ pc'[x] \notin {"idle", "insert"}
      BY DEF RowInv
    <3>1. x \in Requests /\ x # r /\ Owned(x) /\ pc[x] \notin {"idle", "insert"}
      BY <2>1, <1>0 DEF RowInv
    <3> QED BY <3>1, <2>1, <2>2 DEF Owned
  <2>5. CreateInv'
    <3> SUFFICES ASSUME NEW q \in Requests
                 PROVE  /\ pc'[q] = "insert" => call[q].op = "create"
                        /\ pc'[q] \in {"find", "write"} => call[q].op = "adjust"
                        /\ pc'[q] # "done" => answer[q].kind # "error"
                        /\ faults = 0 /\ call[q].op = "create" /\ answer[q].kind = "error"
                             => q \notin DOMAIN position
      BY <1>2, <2>1 DEF CreateInv
    <3> QED BY <1>0, <2>2 DEF CreateInv
  <2> QED BY <2>3, <2>4, <2>5
<1> QED BY <1>1, <1>2 DEF Arrive

LEMMA CreateInsertPreserves ==
  ASSUME LInv, NEW r \in Requests, CreateInsert(r)
  PROVE  LInv'
<1> USE DEF LInv, ShapeInv
<1>1. /\ pc[r] = "insert" /\ pc' = [pc EXCEPT ![r] = "readBack"]
      /\ UNCHANGED <<call, found, answer, faults>>
      /\ position' = With(position, r, RowOf(r))
  BY DEF CreateInsert, Goto
<1>2. /\ DOMAIN position' = DOMAIN position \cup {r}
      /\ position'[r] = RowOf(r)
      /\ \A x \in DOMAIN position \ {r} : position'[x] = position[x]
  BY <1>1 DEF With
<1>3. ShapeInv' /\ FoundInv'
  BY <1>1, <1>2 DEF FoundInv
<1>4. RowInv'
  <2> SUFFICES ASSUME NEW x \in DOMAIN position'
               PROVE  Owned(x)' /\ pc'[x] \notin {"idle", "insert"}
    BY DEF RowInv
  <2>1. CASE x = r
    BY <2>1, <1>1, <1>2 DEF Owned, RowOf
  <2>2. CASE x # r
    <3>1. x \in DOMAIN position /\ position'[x] = position[x] /\ Owned(x) /\ pc[x] \notin {"idle", "insert"}
      BY <2>2, <1>2 DEF RowInv
    <3> QED BY <3>1, <2>2, <1>1 DEF Owned
  <2> QED BY <2>1, <2>2
<1>5. CreateInv'
  <2> SUFFICES ASSUME NEW q \in Requests
               PROVE  /\ pc'[q] = "insert" => call[q].op = "create"
                      /\ pc'[q] \in {"find", "write"} => call[q].op = "adjust"
                      /\ pc'[q] # "done" => answer[q].kind # "error"
                      /\ faults = 0 /\ call[q].op = "create" /\ answer[q].kind = "error"
                           => q \notin DOMAIN position'
    BY <1>1 DEF CreateInv
  <2>1. CASE q = r
    BY <2>1, <1>1 DEF CreateInv
  <2>2. CASE q # r
    BY <2>2, <1>1, <1>2 DEF CreateInv
  <2> QED BY <2>1, <2>2
<1> QED BY <1>3, <1>4, <1>5

LEMMA ReadBackPreserves ==
  ASSUME LInv, NEW r \in Requests, ReadBack(r)
  PROVE  LInv'
<1> USE DEF LInv, ShapeInv
<1>1. UNCHANGED <<position, call, found, faults>>
  BY DEF ReadBack
<1>2. CASE \E y : Reply(r, "readBack", "ok", position[y].usd)
  <2>1. PICK y : Reply(r, "readBack", "ok", position[y].usd)
    BY <1>2
  <2> QED BY <1>1, <2>1, ReplyPreserves
<1>3. CASE /\ Reply(r, "readBack", "error", Zero)
           /\ call[r].op = "create" => r \notin DOMAIN position
  BY <1>1, <1>3, ReplyPreserves
<1> QED BY <1>2, <1>3 DEF ReadBack

LEMMA AdjustFindPreserves ==
  ASSUME LInv, NEW r \in Requests, AdjustFind(r)
  PROVE  LInv'
<1> USE DEF LInv, ShapeInv
<1>1. UNCHANGED <<position, call, faults>>
  BY DEF AdjustFind
<1>2. pc[r] = "find" /\ call[r].op = "adjust" /\ answer[r].kind # "error"
  BY DEF AdjustFind, Reply, Goto, CreateInv
<1>3. CASE Reply(r, "find", "error", Zero) /\ UNCHANGED found
  BY <1>1, <1>2, <1>3, ReplyPreserves
<1>4. CASE \E x \in OwnRows(call[r].user) :
             /\ position[x].product = call[r].product
             /\ found' = [found EXCEPT ![r] = {x}]
             /\ Goto(r, "find", "write")
             /\ UNCHANGED answer
  <2>1. PICK x \in OwnRows(call[r].user) :
             /\ position[x].product = call[r].product
             /\ found' = [found EXCEPT ![r] = {x}]
             /\ Goto(r, "find", "write")
             /\ UNCHANGED answer
    BY <1>4
  <2>2. call[x].user = call[r].user /\ call[x].product = call[r].product
    BY <2>1 DEF OwnRows, RowInv, Owned
  <2>3. FoundInv' /\ DOMAIN found' = Requests
    <3>1. DOMAIN found' = Requests
      BY <2>1
    <3>2. ASSUME NEW q \in Requests, NEW y \in found'[q]
          PROVE  call[y].user = call[q].user /\ call[y].product = call[q].product
      BY <3>2, <2>1, <2>2 DEF FoundInv
    <3> QED BY <3>1, <3>2, <1>1 DEF FoundInv
  <2>4. RowsShrink
    BY <1>1 DEF RowsShrink
  <2>5. /\ DOMAIN pc' = Requests /\ pc'[r] = "write"
        /\ \A q \in Requests \ {r} : pc'[q] = pc[q]
    BY <2>1, GotoMoves
  <2> QED BY <1>1, <1>2, <2>1, <2>3, <2>4, <2>5, ShrinkPreserves
<1> QED BY <1>3, <1>4 DEF AdjustFind

LEMMA AdjustWritePreserves ==
  ASSUME LInv, NEW r \in Requests, AdjustWrite(r)
  PROVE  LInv'
<1> USE DEF LInv, ShapeInv
<1>1. UNCHANGED <<call, found, faults>>
  BY DEF AdjustWrite
<1>2. pc[r] = "write" /\ call[r].op = "adjust" /\ answer[r].kind # "error"
  BY DEF AdjustWrite, Reply, Goto, CreateInv
<1>3. CASE Reply(r, "write", "error", Zero) /\ UNCHANGED position
  BY <1>1, <1>2, <1>3, ReplyPreserves
<1>4. CASE \E x \in DOMAIN position :
             /\ Goto(r, "write", "readBack")
             /\ position' = [position EXCEPT ![x].usd = call[r].usd, ![x].mix = call[r].mix]
             /\ UNCHANGED answer
  <2>1. PICK x \in DOMAIN position :
             /\ Goto(r, "write", "readBack")
             /\ position' = [position EXCEPT ![x].usd = call[r].usd, ![x].mix = call[r].mix]
             /\ UNCHANGED answer
    BY <1>4
  <2>2. RowsShrink
    <3>1. DOMAIN position' = DOMAIN position
      BY <2>1
    <3>2. ASSUME NEW y \in DOMAIN position
          PROVE  /\ DOMAIN position'[y] = DOMAIN position[y]
                 /\ position'[y].user = position[y].user
                 /\ position'[y].product = position[y].product
      BY <2>1 DEF RowInv, Owned
    <3> QED BY <3>1, <3>2 DEF RowsShrink
  <2>3. /\ DOMAIN pc' = Requests /\ pc'[r] = "readBack"
        /\ \A q \in Requests \ {r} : pc'[q] = pc[q]
    BY <2>1, GotoMoves
  <2>4. FoundInv'
    BY <1>1 DEF FoundInv
  <2> QED BY <1>1, <1>2, <2>1, <2>2, <2>3, <2>4, ShrinkPreserves
<1> QED BY <1>3, <1>4 DEF AdjustWrite

\* What a withdrawal makes of the table: it takes rows away from those it has
\* selected, and reduces others of them.
LEMMA WithdrawRows ==
  ASSUME LInv, NEW r \in Requests, Withdraw(r)
  PROVE  /\ RowsShrink
         /\ \A x \in DOMAIN position \ Selected(call[r]) :
              x \in DOMAIN position' /\ position'[x] = position[x]
<1>1. PICK rank :
        LET c    == call[r]
            take == Drain([x \in Selected(c) |-> Available(c, position[x])], rank, c.usd)
            gone == {x \in Selected(c) : take[x] = position[x].usd}
        IN position' = [x \in DOMAIN position \ gone |->
                          IF x \in Selected(c) /\ take[x] # Zero
                          THEN Reduced(c, position[x], take[x]) ELSE position[x]]
  BY DEF Withdraw
<1> DEFINE take == Drain([x \in Selected(call[r]) |-> Available(call[r], position[x])], rank, call[r].usd)
           gone == {x \in Selected(call[r]) : take[x] = position[x].usd}
<1>2. /\ DOMAIN position' = DOMAIN position \ gone
      /\ \A x \in DOMAIN position' :
           position'[x] = IF x \in Selected(call[r]) /\ take[x] # Zero
                          THEN Reduced(call[r], position[x], take[x]) ELSE position[x]
  BY <1>1
<1> HIDE DEF take
<1>3. ASSUME NEW row, NEW t, {"user", "product"} \subseteq DOMAIN row
      PROVE  /\ DOMAIN Reduced(call[r], row, t) = DOMAIN row
             /\ Reduced(call[r], row, t).user = row.user
             /\ Reduced(call[r], row, t).product = row.product
  BY <1>3 DEF Reduced
<1>4. ASSUME NEW x \in DOMAIN position'
      PROVE  /\ DOMAIN position'[x] = DOMAIN position[x]
             /\ position'[x].user = position[x].user
             /\ position'[x].product = position[x].product
  <2>1. {"user", "product"} \subseteq DOMAIN position[x]
    BY <1>2 DEF LInv, RowInv, Owned
  <2> QED BY <1>2, <1>3, <2>1
<1> QED BY <1>2, <1>4 DEF RowsShrink

LEMMA WithdrawPreserves ==
  ASSUME LInv, NEW r \in Requests, Withdraw(r)
  PROVE  LInv'
<1> USE DEF LInv, ShapeInv
<1>1. UNCHANGED <<call, found, faults>> /\ \E usd : Reply(r, "transaction", "ok", usd)
  BY DEF Withdraw
<1>2. PICK usd : Reply(r, "transaction", "ok", usd)
  BY <1>1
<1>3. RowsShrink /\ FoundInv'
  BY <1>1, WithdrawRows DEF FoundInv
<1> QED BY <1>1, <1>2, <1>3, ReplyMoves, ShrinkPreserves

LEMMA ResetPreserves ==
  ASSUME LInv, NEW r \in Requests, Reset(r)
  PROVE  LInv'
<1> USE DEF LInv, ShapeInv
<1>1. UNCHANGED <<call, found, faults>> /\ Reply(r, "transaction", "ok", Zero)
  BY DEF Reset
<1>2. RowsShrink /\ FoundInv'
  BY <1>1 DEF Reset, Without, RowsShrink, FoundInv
<1> QED BY <1>1, <1>2, ReplyMoves, ShrinkPreserves

LEMMA DbErrorPreserves ==
  ASSUME LInv, NEW r \in Requests, DbError(r)
  PROVE  LInv'
<1>1. /\ UNCHANGED <<position, call, found>> /\ Reply(r, pc[r], "error", Zero)
      /\ faults' = faults + 1
  BY DEF DbError
<1>2. faults' \in Nat /\ faults <= faults' /\ faults' # 0
  BY <1>1 DEF LInv, ShapeInv
<1> QED BY <1>1, <1>2, ReplyPreserves

LEMMA CrashPreserves ==
  ASSUME LInv, Crash
  PROVE  LInv'
<1> USE DEF LInv, ShapeInv
<1>1. /\ UNCHANGED <<position, call, found, answer>> /\ faults' \in Nat /\ faults' # 0
      /\ pc' = [r \in Requests |-> IF pc[r] \in InFlight THEN "lost" ELSE pc[r]]
  BY DEF Crash
<1>2. ShapeInv' /\ FoundInv'
  BY <1>1 DEF FoundInv
<1>3. RowInv'
  BY <1>1 DEF RowInv, Owned
<1>4. CreateInv'
  BY <1>1 DEF CreateInv, InFlight
<1> QED BY <1>2, <1>3, <1>4

-----------------------------------------------------------------------------
(* The invariant *)

LEMMA InitEstablishes == Init => LInv
<1> SUFFICES ASSUME Init PROVE LInv
  OBVIOUS
<1>1. DOMAIN position = {}
  BY DEF Init, Empty
<1>2. ShapeInv /\ RowInv /\ FoundInv /\ CreateInv
  BY <1>1 DEF Init, ShapeInv, RowInv, FoundInv, CreateInv
<1> QED BY <1>2 DEF LInv

LEMMA NextPreserves == LInv /\ [Next]_vars => LInv'
<1> SUFFICES ASSUME LInv, [Next]_vars PROVE LInv'
  OBVIOUS
<1>1. CASE UNCHANGED vars
  BY <1>1 DEF vars, LInv, ShapeInv, RowInv, Owned, FoundInv, CreateInv
<1>2. ASSUME NEW r \in Requests, Step(r) PROVE LInv'
  BY <1>2, ArrivePreserves, CreateInsertPreserves, ReadBackPreserves, AdjustFindPreserves,
     AdjustWritePreserves, WithdrawPreserves, ResetPreserves, DbErrorPreserves DEF Step
<1>3. CASE Crash
  BY <1>3, CrashPreserves
<1> QED BY <1>1, <1>2, <1>3 DEF Next

\* The inductive invariant of the ledger.
THEOREM Invariance == Spec => []LInv
  BY InitEstablishes, NextPreserves, PTL DEF Spec

\* A create that was answered with an error left no row, unless the database
\* failed: a row is gone for good once a withdrawal or a reset has taken it.
THEOREM ErrorSafety == Spec => []ErrorLeavesNoRow
<1>1. LInv => ErrorLeavesNoRow
  BY DEF LInv, CreateInv, ErrorLeavesNoRow
<1> QED BY <1>1, Invariance, PTL

-----------------------------------------------------------------------------
(* Isolation *)

Changed(x) == x \notin DOMAIN position' \/ position'[x] # position[x]

\* A row that a step of r changes or takes away is one r may touch.
LEMMA StepTouches ==
  ASSUME LInv, NEW r \in Requests, Step(r), NEW x \in DOMAIN position, Changed(x)
  PROVE  /\ position[x].user = call[r].user
         /\ call[r].op \in {"adjust", "withdrawProduct"} => position[x].product = call[r].product
<1> USE DEF LInv, ShapeInv
<1>1. CASE position' = position
  BY <1>1 DEF Changed
<1>2. CASE CreateInsert(r)
  <2>1. r \notin DOMAIN position
    BY <1>2 DEF CreateInsert, Goto, RowInv
  <2> QED BY <1>2, <2>1 DEF CreateInsert, With, Changed
<1>3. CASE AdjustWrite(r)
  <2>1. PICK y \in found[r] :
          \/ UNCHANGED position
          \/ /\ y \in DOMAIN position
             /\ position' = [position EXCEPT ![y].usd = call[r].usd, ![y].mix = call[r].mix]
    BY <1>3 DEF AdjustWrite
  <2>2. y = x
    BY <2>1 DEF Changed
  <2> QED BY <2>2 DEF FoundInv, RowInv, Owned
<1>4. CASE Withdraw(r)
  <2>1. x \in Selected(call[r])
    BY <1>4, WithdrawRows DEF Changed
  <2>2. call[r].op # "adjust"
    BY <1>4 DEF Withdraw, Withdrawals
  <2> QED BY <2>1, <2>2 DEF Selected, OwnRows
<1>5. CASE Reset(r)
  <2>1. x \in OwnRows(call[r].user) /\ call[r].op = "reset"
    BY <1>5 DEF Reset, Without, Changed
  <2> QED BY <2>1 DEF OwnRows
<1> QED BY <1>1, <1>2, <1>3, <1>4, <1>5 DEF Step, Arrive, ReadBack, AdjustFind, DbError

\* A step of one request moves no other.
LEMMA StepMovesOne ==
  ASSUME LInv, NEW r \in Requests, Step(r), NEW q \in Requests, pc'[q] # pc[q]
  PROVE  q = r
<1>1. \E from, to : Goto(r, from, to)
  BY DEF Step, Arrive, CreateInsert, ReadBack, AdjustFind, AdjustWrite, Withdraw, Reset, DbError, Reply
<1> QED BY <1>1, GotoMoves DEF LInv, ShapeInv

\* Users are isolated from each other, and products where a request names one.
THEOREM Isolation == Spec => TouchesOnlyItsOwn
<1> DEFINE Touch == \A r \in Requests, x \in Requests :
       /\ pc'[r] # pc[r]
       /\ x \in DOMAIN position /\ (x \notin DOMAIN position' \/ position'[x] # position[x])
       => /\ position[x].user = call[r].user
          /\ call[r].op \in {"adjust", "withdrawProduct"} => position[x].product = call[r].product
<1>1. ASSUME LInv, [Next]_vars PROVE [Touch]_vars
  <2>1. CASE UNCHANGED vars
    BY <2>1
  <2>2. ASSUME NEW r \in Requests, Step(r) PROVE Touch
    BY <1>1, <2>2, StepTouches, StepMovesOne DEF Changed
  <2>3. CASE Crash
    BY <2>3 DEF Crash
  <2> QED BY <1>1, <2>1, <2>2, <2>3 DEF Next
<1> QED BY <1>1, Invariance, PTL DEF Spec, TouchesOnlyItsOwn

-----------------------------------------------------------------------------
(* The loop of a withdrawal                                                *)

\* The arguments of Drain: amounts that may be taken in turn.
Drains(avail, rank, wanted) ==
  /\ IsFiniteSet(DOMAIN avail) /\ Fractional(avail, DOMAIN avail) /\ wanted \in Fraction
  /\ \A x \in DOMAIN avail : rank[x] \in Nat
  /\ \A x, y \in DOMAIN avail : rank[x] = rank[y] => x = y

\* What comes before x, and what is left to be taken when it is the turn of x.
Before(avail, rank, x)         == {y \in DOMAIN avail : rank[y] < rank[x]}
LeftFor(avail, rank, wanted, x) == Monus(wanted, SumOver(avail, Before(avail, rank, x)))

LEMMA DrainTakes ==
    ASSUME NEW avail, NEW rank, NEW wanted, Drains(avail, rank, wanted), NEW x \in DOMAIN avail
    PROVE  /\ Drain(avail, rank, wanted)[x] = SmallerOf(avail[x], LeftFor(avail, rank, wanted, x))
           /\ SumOver(avail, Before(avail, rank, x)) \in Fraction
           /\ LeftFor(avail, rank, wanted, x) \in Fraction /\ avail[x] \in Fraction
<1>1. /\ Before(avail, rank, x) \in SUBSET DOMAIN avail /\ IsFiniteSet(Before(avail, rank, x))
      /\ Fractional(avail, Before(avail, rank, x))
    BY FS_Subset DEF Drains, Before, Fractional
<1>2. SumOver(avail, Before(avail, rank, x)) \in Fraction
    BY <1>1, TotalType
<1>3. LeftFor(avail, rank, wanted, x) \in Fraction
    BY <1>2, MonusLaws DEF LeftFor, Drains
<1> QED
    BY <1>2, <1>3 DEF Drain, LeftFor, Before, Drains, Fractional

\* No more is taken than there is.
LEMMA DrainBounds ==
    ASSUME NEW avail, NEW rank, NEW wanted, Drains(avail, rank, wanted)
    PROVE  /\ DOMAIN Drain(avail, rank, wanted) = DOMAIN avail
           /\ Fractional(Drain(avail, rank, wanted), DOMAIN avail)
           /\ \A x \in DOMAIN avail : Leq(Drain(avail, rank, wanted)[x], avail[x])
<1>1. DOMAIN Drain(avail, rank, wanted) = DOMAIN avail
    BY DEF Drain
<1>2. ASSUME NEW x \in DOMAIN avail
      PROVE  Drain(avail, rank, wanted)[x] \in Fraction /\ Leq(Drain(avail, rank, wanted)[x], avail[x])
    BY DrainTakes, LeqLaws
<1> QED
    BY <1>1, <1>2 DEF Fractional

\* The last of a finite set.
LEMMA LastRank ==
    ASSUME NEW S, IsFiniteSet(S), S # {}, NEW rank, \A x \in S : rank[x] \in Nat
    PROVE  \E x \in S : \A y \in S : rank[y] <= rank[x]
<1> DEFINE bad == {t \in SUBSET S : t # {} /\ ~\E x \in t : \A y \in t : rank[y] <= rank[x]}
<1> SUFFICES ASSUME bad # {} PROVE FALSE
    OBVIOUS
<1>1. PICK t \in bad : \A x \in t : t \ {x} \notin bad
    BY MinimalSet
<1>2. PICK x \in t : TRUE
    OBVIOUS
<1>3. t \ {x} # {}
    BY <1>2
<1>4. PICK z \in t \ {x} : \A y \in t \ {x} : rank[y] <= rank[z]
    BY <1>1, <1>3
<1>5. CASE rank[x] <= rank[z]
    BY <1>4, <1>5
<1>6. CASE ~(rank[x] <= rank[z])
  <2>1. \A y \in t : rank[y] <= rank[x]
      BY <1>4, <1>6
  <2> QED
      BY <2>1
<1> QED
    BY <1>5, <1>6

\* What is taken is what was wanted, or all there is.
LEMMA DrainTotal ==
    ASSUME NEW avail, NEW rank, NEW wanted, Drains(avail, rank, wanted)
    PROVE  SumOver(Drain(avail, rank, wanted), DOMAIN avail) = SmallerOf(SumOver(avail, DOMAIN avail), wanted)
<1> DEFINE S == DOMAIN avail
           take == Drain(avail, rank, wanted)
           Closed(t) == \A x \in t, y \in S : rank[y] < rank[x] => y \in t
           bad == {t \in SUBSET S : Closed(t) /\ SumOver(take, t) # SmallerOf(SumOver(avail, t), wanted)}
<1>1. IsFiniteSet(S) /\ Fractional(avail, S) /\ wanted \in Fraction /\ Fractional(take, S)
    BY DrainBounds DEF Drains
<1>2. bad = {}
  <2> SUFFICES ASSUME bad # {} PROVE FALSE
      OBVIOUS
  <2>1. PICK t \in bad : IsFiniteSet(t) /\ \A x \in t : t \ {x} \notin bad
    <3>1. bad \subseteq SUBSET S /\ bad # {}
        OBVIOUS
    <3> HIDE DEF S, bad
    <3> QED
        BY <1>1, <3>1, MinimalSet
  <2>2. t # {}
    <3>1. SumOver(avail, {}) = Zero /\ SumOver(take, {}) = Zero
        BY TotalEmpty
    <3>2. SmallerOf(Zero, wanted) = Zero
        BY <1>1, ZeroType, LeqLaws DEF SmallerOf
    <3> QED
        BY <3>1, <3>2
  <2>3. \A x \in t : rank[x] \in Nat
      BY DEF Drains
  <2>4. PICK x \in t : \A y \in t : rank[y] <= rank[x]
      BY <2>1, <2>2, <2>3, LastRank
  <2> DEFINE u == t \ {x}
  <2>5. Before(avail, rank, x) = u
    <3>1. \A y \in u : rank[y] < rank[x]
        BY <2>3, <2>4 DEF Drains
    <3>2. \A y \in S : rank[y] < rank[x] => y \in u
        BY <2>3
    <3> QED
        BY <3>1, <3>2 DEF Before
  <2>6. Closed(u)
    <3> SUFFICES ASSUME NEW y \in u, NEW z \in S, rank[z] < rank[y] PROVE z \in u
        OBVIOUS
    <3>1. rank[y] <= rank[x] /\ rank[z] \in Nat /\ rank[y] \in Nat /\ rank[x] \in Nat
        BY <2>4 DEF Drains
    <3> QED
        BY <3>1
  <2>7. SumOver(take, u) = SmallerOf(SumOver(avail, u), wanted)
      BY <2>1, <2>4, <2>6
  <2>8. take[x] = SmallerOf(avail[x], Monus(wanted, SumOver(avail, u))) /\ avail[x] \in Fraction
      BY <2>5, DrainTakes DEF LeftFor
  <2>9. /\ Fractional(take, t) /\ Fractional(avail, t) /\ IsFiniteSet(u) /\ Fractional(avail, u)
        /\ Fractional(take, u) /\ take[x] \in Fraction
      BY <1>1, <2>1, FS_Subset DEF Fractional
  <2> HIDE DEF take, S
  <2>10. SumOver(take, t) = Plus(take[x], SumOver(take, u)) /\ SumOver(avail, t) = Plus(avail[x], SumOver(avail, u))
      BY <2>1, <2>9, TotalOfElement
  <2>11. SumOver(avail, u) \in Fraction /\ SumOver(take, u) \in Fraction
      BY <2>9, TotalType
  <2> HIDE DEF u
  <2>12. /\ SumOver(avail, t) = Plus(SumOver(avail, u), avail[x])
         /\ SumOver(take, t) = Plus(SumOver(take, u), take[x])
      BY <2>8, <2>9, <2>10, <2>11, PlusLaws
  <2>13. SumOver(take, t) = SmallerOf(SumOver(avail, t), wanted)
      BY <1>1, <2>7, <2>8, <2>11, <2>12, OneMoreSource
  <2> QED
      BY <2>1, <2>13
<1>3. Closed(S)
    OBVIOUS
<1> QED
    BY <1>2, <1>3

\* When it comes to y, what comes before is taken whole.
LEMMA DrainOrder ==
    ASSUME NEW avail, NEW rank, NEW wanted, Drains(avail, rank, wanted),
           NEW x \in DOMAIN avail, NEW y \in DOMAIN avail, rank[x] < rank[y], Drain(avail, rank, wanted)[y] # Zero
    PROVE  Drain(avail, rank, wanted)[x] = avail[x]
<1> DEFINE bx == Before(avail, rank, x)
           by == Before(avail, rank, y)
<1>1. /\ IsFiniteSet(by) /\ Fractional(avail, by) /\ bx \cup {x} \in SUBSET by /\ x \notin bx
      /\ IsFiniteSet(bx) /\ Fractional(avail, bx \cup {x}) /\ wanted \in Fraction
    BY FS_Subset DEF Drains, Before, Fractional
<1>2. /\ SumOver(avail, bx) \in Fraction /\ SumOver(avail, by) \in Fraction
      /\ avail[x] \in Fraction /\ avail[y] \in Fraction
    BY DrainTakes
<1>3. Leq(SumOver(avail, by), wanted)
  <2> SUFFICES ASSUME ~Leq(SumOver(avail, by), wanted) PROVE FALSE
      OBVIOUS
  <2>1. Leq(wanted, SumOver(avail, by))
      BY <1>1, <1>2, LeqLaws
  <2>2. LeftFor(avail, rank, wanted, y) = Zero
      BY <1>1, <1>2, <2>1, MonusLaws DEF LeftFor
  <2>3. SmallerOf(avail[y], Zero) = Zero
      BY <1>2, LeqLaws DEF SmallerOf
  <2> QED
      BY <2>2, <2>3, DrainTakes
<1>4. Leq(Plus(avail[x], SumOver(avail, bx)), SumOver(avail, by))
  <2>1. SumOver(avail, bx \cup {x}) = Plus(avail[x], SumOver(avail, bx))
      BY <1>1, TotalAdd
  <2>2. Leq(SumOver(avail, bx \cup {x}), SumOver(avail, by))
      BY <1>1, PartOfTotal
  <2> QED
      BY <2>1, <2>2
<1> DEFINE s == SumOver(avail, bx)
<1>5. Plus(avail[x], s) \in Fraction /\ Plus(avail[x], s) = Plus(s, avail[x]) /\ Leq(s, Plus(avail[x], s))
    BY <1>2, PlusLaws
<1>6. Leq(Plus(s, avail[x]), wanted) /\ Leq(s, wanted)
    BY <1>1, <1>2, <1>3, <1>4, <1>5, LeqTrans
<1>7. Plus(s, Monus(wanted, s)) = wanted /\ Monus(wanted, s) \in Fraction
    BY <1>1, <1>2, <1>6, MonusLaws
<1>8. Leq(avail[x], Monus(wanted, s))
    BY <1>2, <1>6, <1>7, LeqPlus
<1> QED
    BY <1>8, DrainTakes DEF LeftFor, SmallerOf

\* When there is not enough, everything is taken.
LEMMA DrainAll ==
    ASSUME NEW avail, NEW rank, NEW wanted, Drains(avail, rank, wanted),
           Leq(SumOver(avail, DOMAIN avail), wanted), NEW x \in DOMAIN avail
    PROVE  Drain(avail, rank, wanted)[x] = avail[x]
<1>1. IsFiniteSet(DOMAIN avail) /\ Fractional(avail, DOMAIN avail)
    BY DEF Drains
<1>2. SumOver(Drain(avail, rank, wanted), DOMAIN avail) = SumOver(avail, DOMAIN avail)
    BY DrainTotal DEF SmallerOf
<1> QED
    BY <1>1, <1>2, DrainBounds, TotalMono

\* It is enough that less was taken than wanted.
LEMMA DrainShort ==
    ASSUME NEW avail, NEW rank, NEW wanted, Drains(avail, rank, wanted),
           Less(SumOver(Drain(avail, rank, wanted), DOMAIN avail), wanted), NEW x \in DOMAIN avail
    PROVE  Drain(avail, rank, wanted)[x] = avail[x]
<1>1. wanted \in Fraction
    BY DEF Drains
<1>2. ~Leq(wanted, SmallerOf(SumOver(avail, DOMAIN avail), wanted))
    BY DrainTotal DEF Less
<1>3. Leq(SumOver(avail, DOMAIN avail), wanted)
    BY <1>1, <1>2, LeqLaws DEF SmallerOf
<1> QED
    BY <1>3, DrainAll

\* What is wanted is taken when it is there.
LEMMA DrainEnough ==
    ASSUME NEW avail, NEW rank, NEW wanted, Drains(avail, rank, wanted),
           Leq(wanted, SumOver(avail, DOMAIN avail))
    PROVE  SumOver(Drain(avail, rank, wanted), DOMAIN avail) = wanted
<1>1. wanted \in Fraction /\ SumOver(avail, DOMAIN avail) \in Fraction
    BY TotalType DEF Drains
<1> QED
    BY <1>1, DrainTotal, LeqLaws DEF SmallerOf

-----------------------------------------------------------------------------
(* A row and the pools it is shared by                                     *)

\* A mix names pools by places, and its weights are at most the whole.
Weights(mix) == [i \in DOMAIN mix |-> mix[i].weight]
SoundMix(mix) ==
  /\ IsFiniteSet(DOMAIN mix) /\ DOMAIN mix \subseteq Nat
  /\ \A i \in DOMAIN mix : mix[i] \in MixEntry
  /\ Leq(SumAll(Weights(mix)), Whole(1))

Sound(row) ==
  /\ {"usd", "mix"} \subseteq DOMAIN row
  /\ row.usd \in Fraction /\ row.usd # Zero
  /\ SoundMix(row.mix)

LEMMA EntryType == ASSUME NEW e \in MixEntry PROVE e.pool \in Pools /\ e.weight \in Fraction
BY DEF MixEntry

\* The pools of a row share no more than its amount.
LEMMA AbsoluteLaws ==
    ASSUME NEW row, Sound(row)
    PROVE  /\ DOMAIN AbsoluteMix(row) = DOMAIN row.mix /\ IsFiniteSet(DOMAIN row.mix)
           /\ Fractional(AbsoluteMix(row), DOMAIN row.mix)
           /\ Leq(SumOver(AbsoluteMix(row), DOMAIN row.mix), row.usd)
<1> DEFINE S == DOMAIN row.mix
           w == Weights(row.mix)
<1>1. IsFiniteSet(S) /\ row.usd \in Fraction /\ Leq(SumOver(w, S), Whole(1))
    BY DEF Sound, SoundMix, Weights, SumAll
<1>2. ASSUME NEW i \in S PROVE w[i] \in Fraction /\ AbsoluteMix(row)[i] = Times(row.usd, w[i])
    BY EntryType DEF Sound, SoundMix, Weights, AbsoluteMix
<1>3. Fractional(w, S)
    BY <1>2 DEF Fractional
<1>4. DOMAIN AbsoluteMix(row) = S
    BY DEF AbsoluteMix
<1> HIDE DEF w
<1>5. Fractional(AbsoluteMix(row), S)
  <2> SUFFICES ASSUME NEW i \in S PROVE AbsoluteMix(row)[i] \in Fraction
      BY DEF Fractional
  <2> QED
      BY <1>1, <1>2, TimesLaws
<1>6. SumOver(AbsoluteMix(row), S) = Times(row.usd, SumOver(w, S))
    BY <1>1, <1>2, <1>3, TotalTimes
<1>7. SumOver(w, S) \in Fraction /\ Whole(1) \in Fraction
    BY <1>1, <1>3, TotalType, Ones
<1>8. Leq(Times(row.usd, SumOver(w, S)), Times(row.usd, Whole(1))) /\ Times(row.usd, Whole(1)) = row.usd
    BY <1>1, <1>7, TimesLaws
<1> QED
    BY <1>1, <1>4, <1>5, <1>6, <1>8

LEMMA MatchingLaws ==
    ASSUME NEW row, Sound(row), NEW c
    PROVE  /\ DOMAIN Matching(c, row) = DOMAIN row.mix /\ IsFiniteSet(DOMAIN row.mix)
           /\ Fractional(Matching(c, row), DOMAIN row.mix)
           /\ \A i \in DOMAIN row.mix : Leq(Matching(c, row)[i], AbsoluteMix(row)[i])
           /\ SumAll(Matching(c, row)) = SumOver(Matching(c, row), DOMAIN row.mix)
           /\ SumAll(Matching(c, row)) \in Fraction /\ Leq(SumAll(Matching(c, row)), row.usd)
<1> DEFINE S == DOMAIN row.mix
           a == AbsoluteMix(row)
           m == Matching(c, row)
<1>1. IsFiniteSet(S) /\ Fractional(a, S) /\ Leq(SumOver(a, S), row.usd) /\ row.usd \in Fraction
    BY AbsoluteLaws DEF Sound
<1>2. DOMAIN m = S
    BY DEF Matching
<1>3. ASSUME NEW i \in S PROVE m[i] \in Fraction /\ Leq(m[i], a[i])
  <2>1. a[i] \in Fraction /\ m[i] \in {a[i], Zero}
      BY <1>1 DEF Matching, Fractional
  <2> HIDE DEF a, m
  <2> QED
      BY <2>1, ZeroType, LeqLaws
<1>4. Fractional(m, S)
    BY <1>3 DEF Fractional
<1> HIDE DEF a, m
<1>5. SumOver(m, S) \in Fraction /\ SumOver(a, S) \in Fraction /\ Leq(SumOver(m, S), SumOver(a, S))
    BY <1>1, <1>3, <1>4, TotalType, TotalMono
<1>6. Leq(SumOver(m, S), row.usd)
    BY <1>1, <1>5, LeqTrans
<1>7. SumAll(m) = SumOver(m, S)
    BY <1>2 DEF SumAll
<1> QED
    BY <1>1, <1>2, <1>3, <1>4, <1>5, <1>6, <1>7 DEF a, m

LEMMA AvailableLaws ==
    ASSUME NEW row, Sound(row), NEW c
    PROVE  Available(c, row) \in Fraction /\ Leq(Available(c, row), row.usd)
<1>1. row.usd \in Fraction
    BY DEF Sound
<1> QED
    BY <1>1, MatchingLaws, LeqLaws DEF Available

\* What a protocol withdrawal of `take` USD takes from the entries of the mix
\* of a row, and what it leaves in them.
TakenFrom(c, row, take) == Drain(Matching(c, row), [i \in DOMAIN Matching(c, row) |-> i], take)
LeftIn(c, row, take) == [i \in DOMAIN row.mix |-> Monus(AbsoluteMix(row)[i], TakenFrom(c, row, take)[i])]
Of(c, row, f) == [i \in DOMAIN row.mix |-> IF row.mix[i].pool \in c.target THEN f[i] ELSE Zero]

LEMMA TakenLaws ==
    ASSUME NEW row, Sound(row), NEW c, NEW take \in Fraction, Leq(take, SumAll(Matching(c, row)))
    PROVE  /\ Fractional(TakenFrom(c, row, take), DOMAIN row.mix)
           /\ \A i \in DOMAIN row.mix : Leq(TakenFrom(c, row, take)[i], Matching(c, row)[i])
           /\ SumOver(TakenFrom(c, row, take), DOMAIN row.mix) = take
<1> DEFINE m == Matching(c, row)
           places == [i \in DOMAIN m |-> i]
<1>1. DOMAIN m = DOMAIN row.mix /\ IsFiniteSet(DOMAIN m) /\ Fractional(m, DOMAIN m) /\ DOMAIN m \subseteq Nat
    BY MatchingLaws DEF Sound, SoundMix
<1>2. Leq(take, SumOver(m, DOMAIN m))
    BY DEF SumAll
<1>3. TakenFrom(c, row, take) = Drain(m, places, take)
    BY DEF TakenFrom
<1> HIDE DEF m
<1>4. Drains(m, places, take)
    BY <1>1 DEF Drains
<1> HIDE DEF places
<1>5. /\ Fractional(Drain(m, places, take), DOMAIN m)
      /\ \A i \in DOMAIN m : Leq(Drain(m, places, take)[i], m[i])
    BY <1>4, DrainBounds
<1>6. SumOver(Drain(m, places, take), DOMAIN m) = take
    BY <1>2, <1>4, DrainEnough
<1> QED
    BY <1>1, <1>3, <1>5, <1>6 DEF m

LEMMA LeftLaws ==
    ASSUME NEW row, Sound(row), NEW c, NEW take \in Fraction, Leq(take, SumAll(Matching(c, row)))
    PROVE  /\ Fractional(LeftIn(c, row, take), DOMAIN row.mix)
           /\ \A i \in DOMAIN row.mix :
                /\ AbsoluteMix(row)[i] = Plus(TakenFrom(c, row, take)[i], LeftIn(c, row, take)[i])
                /\ row.mix[i].pool \notin c.target => LeftIn(c, row, take)[i] = AbsoluteMix(row)[i]
           /\ Leq(SumOver(LeftIn(c, row, take), DOMAIN row.mix), Monus(row.usd, take))
           /\ SumOver(Of(c, row, LeftIn(c, row, take)), DOMAIN row.mix) = Monus(SumAll(Matching(c, row)), take)
<1> DEFINE S == DOMAIN row.mix
           a == AbsoluteMix(row)
           m == Matching(c, row)
           t == TakenFrom(c, row, take)
           l == LeftIn(c, row, take)
           o == Of(c, row, l)
<1>1. IsFiniteSet(S) /\ Fractional(a, S) /\ Leq(SumOver(a, S), row.usd) /\ row.usd \in Fraction
    BY AbsoluteLaws DEF Sound
<1>2. Fractional(m, S) /\ (\A i \in S : Leq(m[i], a[i])) /\ SumAll(m) = SumOver(m, S) /\ SumAll(m) \in Fraction
      /\ Leq(SumAll(m), row.usd)
    BY MatchingLaws
<1>3. Fractional(t, S) /\ (\A i \in S : Leq(t[i], m[i])) /\ SumOver(t, S) = take
    BY TakenLaws
<1>4. \A i \in S : /\ m[i] = IF row.mix[i].pool \in c.target THEN a[i] ELSE Zero
                   /\ l[i] = Monus(a[i], t[i])
                   /\ o[i] = IF row.mix[i].pool \in c.target THEN l[i] ELSE Zero
    BY DEF Matching, LeftIn, Of
<1> HIDE DEF a, m, t, l, o
<1>5. ASSUME NEW i \in S
      PROVE  /\ l[i] \in Fraction /\ a[i] = Plus(t[i], l[i])
             /\ row.mix[i].pool \notin c.target => l[i] = a[i]
             /\ o[i] \in Fraction /\ m[i] = Plus(t[i], o[i])
  <2>1. a[i] \in Fraction /\ t[i] \in Fraction /\ m[i] \in Fraction
      BY <1>1, <1>2, <1>3 DEF Fractional
  <2>2. Leq(t[i], a[i]) /\ l[i] = Monus(a[i], t[i])
      BY <1>2, <1>3, <1>4, <2>1, LeqTrans
  <2>3. l[i] \in Fraction /\ a[i] = Plus(t[i], l[i])
      BY <2>1, <2>2, MonusLaws
  <2>4. CASE row.mix[i].pool \in c.target
      BY <1>4, <2>3, <2>4
  <2>5. CASE row.mix[i].pool \notin c.target
    <3>1. t[i] = Zero /\ m[i] = Zero /\ o[i] = Zero
        BY <1>3, <1>4, <2>1, <2>5, LeqLaws
    <3>2. l[i] = a[i] /\ Plus(Zero, Zero) = Zero
        BY <2>1, <2>2, <3>1, MonusLaws, ZeroType, PlusLaws
    <3> QED
        BY <2>1, <2>3, <2>5, <3>1, <3>2, ZeroType
  <2> QED
      BY <2>4, <2>5
<1>6. Fractional(l, S) /\ Fractional(o, S)
    BY <1>5 DEF Fractional
<1>7. SumOver(a, S) = Plus(take, SumOver(l, S)) /\ SumOver(m, S) = Plus(take, SumOver(o, S))
    BY <1>1, <1>3, <1>5, <1>6, TotalPlus
<1>8. SumOver(l, S) \in Fraction /\ SumOver(o, S) \in Fraction
    BY <1>1, <1>6, TotalType
<1>9. Leq(take, row.usd)
    BY <1>1, <1>2, LeqTrans DEF m
<1>10. Plus(take, Monus(row.usd, take)) = row.usd /\ Monus(row.usd, take) \in Fraction
    BY <1>1, <1>9, MonusLaws
<1>11. Leq(SumOver(l, S), Monus(row.usd, take))
    BY <1>1, <1>7, <1>8, <1>10, LeqPlus
<1>12. SumOver(o, S) = Monus(SumAll(m), take)
    BY <1>2, <1>7, <1>8, PlusLaws
<1> QED
    BY <1>5, <1>6, <1>11, <1>12 DEF a, m, t, l, o

\* The row that is left keeps in its pools, of any pools, what was left in them.
LEMMA NormalizedLaws ==
    ASSUME NEW row, Sound(row), NEW left, Fractional(left, DOMAIN row.mix), NEW total \in Fraction, total # Zero,
           Leq(SumOver(left, DOMAIN row.mix), total),
           NEW next, {"usd", "mix"} \subseteq DOMAIN next, next.usd = total, next.mix = Normalized(row.mix, left, total)
    PROVE  /\ Sound(next)
           /\ \A c : SumAll(Matching(c, next)) = SumOver(Of(c, row, left), DOMAIN row.mix)
<1> DEFINE S == DOMAIN row.mix
           K == {j \in S : Less(Zero, left[j])}
<1>1. IsFiniteSet(S) /\ S \subseteq Nat /\ K \in SUBSET S /\ IsFiniteSet(K)
    BY FS_Subset DEF Sound, SoundMix
<1>2. \A i \in S : left[i] \in Fraction /\ (i \notin K => left[i] = Zero)
    BY LeqLaws DEF Fractional
<1>3. DOMAIN next.mix = K /\ \A i \in K : next.mix[i] = [row.mix[i] EXCEPT !.weight = Ratio(left[i], total)]
    BY DEF Normalized
<1>4. ASSUME NEW i \in K
      PROVE  /\ next.mix[i] \in MixEntry /\ next.mix[i].pool = row.mix[i].pool
             /\ next.mix[i].weight = Ratio(left[i], total)
  <2>1. row.mix[i] \in MixEntry /\ Ratio(left[i], total) \in Fraction
      BY <1>1, <1>2, RatioLaws DEF Sound, SoundMix
  <2> QED
      BY <1>3, <2>1 DEF MixEntry
<1> HIDE DEF K
<1> DEFINE w == Weights(next.mix)
<1>5. DOMAIN w = K /\ \A i \in K : w[i] = Ratio(left[i], total)
    BY <1>3, <1>4 DEF Weights
<1> HIDE DEF w
<1>6. Fractional(left, K)
    BY <1>1 DEF Fractional
<1>7. SumOver(left, K) = SumOver(left, S)
    BY <1>1, <1>2, TotalWithoutZeros
<1>8. SumOver(w, K) = Ratio(SumOver(left, K), total) /\ SumOver(left, K) \in Fraction
    BY <1>1, <1>5, <1>6, TotalRatio, TotalType
<1>9. Leq(SumOver(w, K), Whole(1))
    BY <1>7, <1>8, RatioLaws
<1>10. SoundMix(next.mix)
    BY <1>1, <1>3, <1>4, <1>5, <1>9 DEF SoundMix, SumAll, w
<1>11. Sound(next)
    BY <1>10 DEF Sound
<1>12. ASSUME NEW c PROVE SumAll(Matching(c, next)) = SumOver(Of(c, row, left), S)
  <2> DEFINE m == Matching(c, next)
             o == Of(c, row, left)
  <2>1. ASSUME NEW i \in K PROVE m[i] = o[i]
    <3>1. AbsoluteMix(next)[i] = Times(total, Ratio(left[i], total)) /\ i \in S
        BY <1>1, <1>3, <1>4 DEF AbsoluteMix
    <3>2. AbsoluteMix(next)[i] = left[i]
        BY <1>2, <3>1, RatioLaws
    <3>3. m[i] = IF next.mix[i].pool \in c.target THEN AbsoluteMix(next)[i] ELSE Zero
        BY <1>3 DEF Matching
    <3>4. o[i] = IF row.mix[i].pool \in c.target THEN left[i] ELSE Zero
        BY <3>1 DEF Of
    <3> QED
        BY <1>4, <3>2, <3>3, <3>4
  <2>2. \A i \in S : o[i] \in Fraction /\ (i \notin K => o[i] = Zero)
      BY <1>2, ZeroType DEF Of
  <2>3. DOMAIN m = K
      BY <1>3 DEF Matching
  <2> HIDE DEF m, o
  <2>4. Fractional(o, S)
      BY <2>2 DEF Fractional
  <2>5. SumOver(o, S) = SumOver(o, K)
      BY <1>1, <2>2, <2>4, TotalWithoutZeros
  <2>6. SumOver(m, K) = SumOver(o, K)
      BY <1>1, <2>1, TotalOfEqual
  <2> QED
      BY <2>3, <2>5, <2>6 DEF SumAll, m, o
<1> QED
    BY <1>11, <1>12

\* A row of which something was taken, and not everything.
LEMMA ReducedLaws ==
    ASSUME NEW row, Sound(row), NEW c, NEW take \in Fraction, Leq(take, Available(c, row)), take # row.usd
    PROVE  /\ Sound(Reduced(c, row, take))
           /\ Reduced(c, row, take).usd = Monus(row.usd, take)
           /\ Available(c, Reduced(c, row, take)) = Monus(Available(c, row), take)
<1> DEFINE next == Reduced(c, row, take)
           total == Monus(row.usd, take)
<1>1. row.usd \in Fraction /\ {"usd", "mix"} \subseteq DOMAIN row /\ Leq(take, row.usd)
    BY AvailableLaws, LeqTrans DEF Sound
<1>2. total \in Fraction /\ total # Zero
    BY <1>1, MonusLaws, LeqLaws
<1>3. CASE c.op = "withdrawProtocol"
  <2> DEFINE left == LeftIn(c, row, take)
  <2>1. next = [row EXCEPT !.usd = total, !.mix = Normalized(row.mix, left, total)]
      BY <1>3 DEF Reduced, LeftIn, TakenFrom
  <2>2. {"usd", "mix"} \subseteq DOMAIN next /\ next.usd = total /\ next.mix = Normalized(row.mix, left, total)
      BY <1>1, <2>1
  <2>3. /\ Available(c, row) = SumAll(Matching(c, row))
        /\ Available(c, next) = SumAll(Matching(c, next))
      BY <1>3 DEF Available
  <2> HIDE DEF next, left, total
  <2>4. /\ Fractional(left, DOMAIN row.mix) /\ Leq(SumOver(left, DOMAIN row.mix), total)
        /\ SumOver(Of(c, row, left), DOMAIN row.mix) = Monus(SumAll(Matching(c, row)), take)
      BY <2>3, LeftLaws DEF left, total
  <2>5. Sound(next) /\ SumAll(Matching(c, next)) = SumOver(Of(c, row, left), DOMAIN row.mix)
      BY <1>2, <2>2, <2>4, NormalizedLaws
  <2> QED
      BY <2>2, <2>3, <2>4, <2>5 DEF next, total
<1>4. CASE c.op # "withdrawProtocol"
  <2>1. next = [row EXCEPT !.usd = total]
      BY <1>4 DEF Reduced
  <2>2. {"usd", "mix"} \subseteq DOMAIN next /\ next.usd = total /\ next.mix = row.mix
      BY <1>1, <2>1
  <2>3. Available(c, row) = row.usd /\ Available(c, next) = next.usd
      BY <1>4 DEF Available
  <2> QED
      BY <1>2, <2>2, <2>3 DEF Sound
<1> QED
    BY <1>3, <1>4

\* What a protocol withdrawal leaves of another pool.
LEMMA OthersLeft ==
    ASSUME NEW row, Sound(row), NEW c, c.op = "withdrawProtocol", NEW take \in Fraction, Leq(take, Available(c, row)),
           NEW only, only.target \cap c.target = {}
    PROVE  /\ take = row.usd => SumAll(Matching(only, row)) = Zero
           /\ take # row.usd => SumAll(Matching(only, Reduced(c, row, take))) = SumAll(Matching(only, row))
<1> DEFINE S == DOMAIN row.mix
           m == Matching(c, row)
           o == Matching(only, row)
           a == AbsoluteMix(row)
<1>1. /\ IsFiniteSet(S) /\ row.usd \in Fraction /\ Fractional(a, S) /\ Leq(SumOver(a, S), row.usd)
      /\ Fractional(m, S) /\ SumAll(m) = SumOver(m, S) /\ SumAll(m) \in Fraction /\ Leq(SumAll(m), row.usd)
      /\ Fractional(o, S) /\ SumAll(o) = SumOver(o, S) /\ SumAll(o) \in Fraction
    BY AbsoluteLaws, MatchingLaws DEF Sound
<1>2. Available(c, row) = SumAll(m)
    BY DEF Available
<1>3. \A i \in S : /\ o[i] = IF row.mix[i].pool \in only.target THEN a[i] ELSE Zero
                   /\ m[i] = IF row.mix[i].pool \in c.target THEN a[i] ELSE Zero
    BY DEF Matching
<1>4. ASSUME take = row.usd PROVE SumAll(o) = Zero
  <2> DEFINE both == [i \in S |-> Plus(m[i], o[i])]
  <2> HIDE DEF a, m, o
  <2>1. SumAll(m) = row.usd
      BY <1>1, <1>2, <1>4, LeqLaws
  <2>2. ASSUME NEW i \in S PROVE both[i] \in Fraction /\ Leq(both[i], a[i]) /\ both[i] = Plus(m[i], o[i])
    <3>1. both[i] = Plus(m[i], o[i]) /\ a[i] \in Fraction
        BY <1>1 DEF Fractional
    <3>2. Plus(m[i], o[i]) \in {a[i], Zero}
      <4>1. /\ Plus(a[i], Zero) = a[i] /\ Plus(Zero, a[i]) = a[i] /\ Plus(Zero, Zero) = Zero
          BY <3>1, ZeroType, PlusLaws
      <4> QED
          BY <1>3, <4>1
    <3> QED
        BY <3>1, <3>2, ZeroType, LeqLaws
  <2>3. Fractional(both, S)
      BY <2>2 DEF Fractional
  <2> HIDE DEF both
  <2>4. SumOver(both, S) = Plus(SumAll(m), SumAll(o))
      BY <1>1, <2>2, TotalPlus
  <2>5. SumOver(both, S) \in Fraction /\ SumOver(a, S) \in Fraction /\ Leq(SumOver(both, S), SumOver(a, S))
      BY <1>1, <2>2, <2>3, TotalType, TotalMono
  <2>6. Leq(SumOver(both, S), row.usd)
      BY <1>1, <2>5, LeqTrans
  <2>7. Leq(Plus(row.usd, SumAll(o)), Plus(row.usd, Zero))
      BY <1>1, <2>1, <2>4, <2>6, PlusLaws
  <2>8. Leq(SumAll(o), Zero)
      BY <1>1, <2>7, ZeroType, LeqPlus
  <2> QED
      BY <1>1, <2>8, LeqLaws
<1>5. ASSUME take # row.usd PROVE SumAll(Matching(only, Reduced(c, row, take))) = SumAll(o)
  <2> DEFINE left == LeftIn(c, row, take)
             total == Monus(row.usd, take)
             next == Reduced(c, row, take)
             kept == Of(only, row, left)
  <2>1. next = [row EXCEPT !.usd = total, !.mix = Normalized(row.mix, left, total)]
      BY DEF Reduced, LeftIn, TakenFrom
  <2>2. {"usd", "mix"} \subseteq DOMAIN next /\ next.usd = total /\ next.mix = Normalized(row.mix, left, total)
      BY <2>1 DEF Sound
  <2>3. total \in Fraction /\ total # Zero
    <3>1. Leq(take, row.usd)
        BY <1>1, <1>2, LeqTrans
    <3> QED
        BY <1>1, <1>5, <3>1, MonusLaws, LeqLaws
  <2>4. \A i \in S : kept[i] = IF row.mix[i].pool \in only.target THEN left[i] ELSE Zero
      BY DEF Of
  <2> HIDE DEF next, left, total, kept, m, o, a
  <2>5. /\ Fractional(left, S) /\ Leq(SumOver(left, S), total)
        /\ \A i \in S : row.mix[i].pool \notin c.target => left[i] = a[i]
      BY <1>2, LeftLaws DEF left, total, a, m
  <2>6. SumAll(Matching(only, next)) = SumOver(kept, S)
      BY <2>2, <2>3, <2>5, NormalizedLaws DEF kept
  <2>7. \A i \in S : kept[i] = o[i]
      BY <1>3, <2>4, <2>5
  <2>8. SumOver(kept, S) = SumOver(o, S)
      BY <1>1, <2>7, TotalOfEqual
  <2> QED
      BY <1>1, <2>6, <2>8 DEF next
<1> QED
    BY <1>4, <1>5

-----------------------------------------------------------------------------
(* What the rows of a user amount to                                       *)

\* A table of rows with amounts, the rows of a user and what they amount to.
Table(f)    == IsFiniteSet(DOMAIN f) /\ \A x \in DOMAIN f : f[x].usd \in Fraction
Rows(f, u)  == {x \in DOMAIN f : f[x].user = u}
Money(f, u) == SumOver([x \in Rows(f, u) |-> f[x].usd], Rows(f, u))

LEMMA MoneyRows ==
    ASSUME NEW f, Table(f), NEW u
    PROVE  /\ IsFiniteSet(Rows(f, u)) /\ Rows(f, u) \in SUBSET DOMAIN f
           /\ Fractional([x \in Rows(f, u) |-> f[x].usd], Rows(f, u))
           /\ Money(f, u) \in Fraction
<1>1. IsFiniteSet(Rows(f, u)) /\ Rows(f, u) \in SUBSET DOMAIN f
    BY FS_Subset DEF Table, Rows
<1>2. Fractional([x \in Rows(f, u) |-> f[x].usd], Rows(f, u))
    BY <1>1 DEF Table, Fractional
<1> QED
    BY <1>1, <1>2, TotalType DEF Money

LEMMA MoneySame ==
    ASSUME NEW f, NEW g, Table(f), NEW u, Rows(g, u) = Rows(f, u), \A x \in Rows(f, u) : g[x].usd = f[x].usd
    PROVE  Money(g, u) = Money(f, u)
BY DEF Money

LEMMA NoMoney == ASSUME NEW f, NEW u, Rows(f, u) = {} PROVE Money(f, u) = Zero
BY TotalEmpty DEF Money

\* A new row.
LEMMA MoneyAdd ==
    ASSUME NEW f, Table(f), NEW x, x \notin DOMAIN f, NEW v, v.usd \in Fraction
    PROVE  /\ Table(With(f, x, v))
           /\ Money(With(f, x, v), v.user) = Plus(v.usd, Money(f, v.user))
           /\ \A u : u # v.user => Money(With(f, x, v), u) = Money(f, u)
<1> DEFINE g == With(f, x, v)
<1>1. DOMAIN g = DOMAIN f \cup {x} /\ g[x] = v /\ \A y \in DOMAIN f : g[y] = f[y]
    BY DEF With
<1> HIDE DEF g
<1>2. Table(g)
    BY <1>1, FS_AddElement DEF Table
<1>3. ASSUME NEW u, u # v.user PROVE Money(g, u) = Money(f, u)
  <2>1. Rows(g, u) = Rows(f, u) /\ \A y \in Rows(f, u) : g[y].usd = f[y].usd
      BY <1>1, <1>3 DEF Rows
  <2> QED
      BY <2>1, MoneySame
<1>4. Money(g, v.user) = Plus(v.usd, Money(f, v.user))
  <2> DEFINE S == Rows(f, v.user)
             a == [y \in S |-> f[y].usd]
             b == [y \in S \cup {x} |-> g[y].usd]
  <2>1. Rows(g, v.user) = S \cup {x} /\ x \notin S
      BY <1>1 DEF Rows
  <2>2. IsFiniteSet(S) /\ Fractional(a, S)
      BY MoneyRows
  <2>3. (\A y \in S : b[y] = a[y]) /\ b[x] = v.usd
      BY <1>1 DEF Rows
  <2>4. Money(g, v.user) = SumOver(b, S \cup {x}) /\ Money(f, v.user) = SumOver(a, S)
      BY <2>1 DEF Money
  <2> HIDE DEF S, a, b
  <2>5. Fractional(b, S \cup {x})
      BY <2>2, <2>3 DEF Fractional
  <2>6. SumOver(b, S \cup {x}) = Plus(b[x], SumOver(b, S)) /\ SumOver(b, S) = SumOver(a, S)
      BY <2>1, <2>2, <2>3, <2>5, TotalAdd, TotalOfEqual
  <2> QED
      BY <2>3, <2>4, <2>6
<1> QED
    BY <1>2, <1>3, <1>4 DEF g

\* One row with another amount.
LEMMA MoneyReplaced ==
    ASSUME NEW f, NEW g, Table(f), NEW x \in DOMAIN f, DOMAIN g = DOMAIN f, g[x].usd \in Fraction, g[x].user = f[x].user,
           \A y \in DOMAIN f \ {x} : g[y] = f[y]
    PROVE  /\ Table(g)
           /\ \E rest \in Fraction : /\ Money(f, f[x].user) = Plus(f[x].usd, rest)
                                     /\ Money(g, f[x].user) = Plus(g[x].usd, rest)
           /\ \A u : u # f[x].user => Money(g, u) = Money(f, u)
<1> DEFINE v == f[x].user
           S == Rows(f, v)
           a == [y \in S |-> f[y].usd]
           b == [y \in S |-> g[y].usd]
<1>1. Table(g)
    BY DEF Table
<1>2. ASSUME NEW u, u # v PROVE Money(g, u) = Money(f, u)
  <2>1. Rows(g, u) = Rows(f, u) /\ \A y \in Rows(f, u) : g[y].usd = f[y].usd
      BY <1>2 DEF Rows
  <2> QED
      BY <2>1, MoneySame
<1>3. IsFiniteSet(S) /\ Fractional(a, S) /\ x \in S /\ Rows(g, v) = S
    BY MoneyRows DEF Rows
<1>4. Fractional(b, S)
    BY <1>1, <1>3 DEF Fractional, Table, Rows
<1>5. (\A y \in S \ {x} : b[y] = a[y]) /\ a[x] = f[x].usd /\ b[x] = g[x].usd
    BY <1>3 DEF Rows
<1>6. Money(f, v) = SumOver(a, S) /\ Money(g, v) = SumOver(b, S)
    BY <1>3 DEF Money
<1> HIDE DEF S, a, b
<1>7. SumOver(a, S) = Plus(a[x], SumOver(a, S \ {x})) /\ SumOver(b, S) = Plus(b[x], SumOver(b, S \ {x}))
    BY <1>3, <1>4, TotalOfElement
<1>8. IsFiniteSet(S \ {x}) /\ Fractional(a, S \ {x})
    BY <1>3, FS_Subset DEF Fractional
<1>9. SumOver(b, S \ {x}) = SumOver(a, S \ {x}) /\ SumOver(a, S \ {x}) \in Fraction
    BY <1>5, <1>8, TotalOfEqual, TotalType
<1>10. \E rest \in Fraction : Money(f, v) = Plus(f[x].usd, rest) /\ Money(g, v) = Plus(g[x].usd, rest)
    BY <1>5, <1>6, <1>7, <1>9
<1> QED
    BY <1>1, <1>2, <1>10

\* Something taken from the rows S of one user; a row that is emptied may go.
LEMMA MoneyTaken ==
    ASSUME NEW f, NEW g, Table(f), Table(g), NEW v, NEW S \in SUBSET Rows(f, v), NEW take, Fractional(take, S),
           DOMAIN g \subseteq DOMAIN f,
           \A y \in DOMAIN g : g[y].user = f[y].user,
           \A y \in DOMAIN f \ S : y \in DOMAIN g /\ g[y] = f[y],
           \A y \in S : Plus(take[y], IF y \in DOMAIN g THEN g[y].usd ELSE Zero) = f[y].usd
    PROVE  /\ Money(f, v) = Plus(SumOver(take, S), Money(g, v))
           /\ \A u : u # v => Money(g, u) = Money(f, u)
<1> DEFINE R == Rows(f, v)
           Q == Rows(g, v)
           a == [y \in R |-> f[y].usd]
           b == [y \in Q |-> g[y].usd]
           t == [y \in R |-> IF y \in S THEN take[y] ELSE Zero]
           d == [y \in R |-> IF y \in DOMAIN g THEN g[y].usd ELSE Zero]
<1>1. ASSUME NEW u, u # v PROVE Money(g, u) = Money(f, u)
  <2>1. Rows(g, u) = Rows(f, u) /\ \A y \in Rows(f, u) : g[y].usd = f[y].usd
      BY <1>1 DEF Rows
  <2> QED
      BY <2>1, MoneySame
<1>2. IsFiniteSet(R) /\ Q \in SUBSET R /\ Fractional(a, R) /\ IsFiniteSet(Q) /\ Fractional(b, Q) /\ R \in SUBSET DOMAIN f
  <2>1. Q \in SUBSET R
      BY DEF Rows
  <2> QED
      BY <2>1, MoneyRows
<1>3. ASSUME NEW y \in R PROVE t[y] \in Fraction /\ d[y] \in Fraction /\ a[y] = Plus(t[y], d[y])
  <2>1. CASE y \in S
    <3>1. t[y] = take[y] /\ d[y] = (IF y \in DOMAIN g THEN g[y].usd ELSE Zero) /\ a[y] = f[y].usd
        BY <2>1
    <3> HIDE DEF t, d, a
    <3> QED
        BY <2>1, <3>1, ZeroType DEF Fractional, Table
  <2>2. CASE y \notin S
    <3>1. y \in DOMAIN f /\ y \in DOMAIN g /\ g[y] = f[y] /\ f[y].usd \in Fraction
        BY <1>2, <2>2 DEF Table
    <3>2. t[y] = Zero /\ d[y] = f[y].usd /\ a[y] = f[y].usd
        BY <2>2, <3>1
    <3> QED
        BY <3>1, <3>2, ZeroType, PlusLaws
  <2> QED
      BY <2>1, <2>2
<1>4. \A y \in R \ S : t[y] = Zero
    OBVIOUS
<1>5. \A y \in R \ Q : d[y] = Zero
    BY DEF Rows
<1>6. (\A y \in S : t[y] = take[y]) /\ (\A y \in Q : d[y] = b[y])
    BY DEF Rows
<1>7. Money(f, v) = SumOver(a, R) /\ Money(g, v) = SumOver(b, Q)
    BY DEF Money
<1> HIDE DEF R, Q, a, b, t, d
<1>8. Fractional(t, R) /\ Fractional(d, R) /\ IsFiniteSet(S) /\ S \in SUBSET R
    BY <1>2, <1>3, FS_Subset DEF Fractional, R
<1>9. SumOver(a, R) = Plus(SumOver(t, R), SumOver(d, R))
    BY <1>2, <1>3, <1>8, TotalPlus
<1>10. SumOver(t, R) = SumOver(t, S) /\ SumOver(t, S) = SumOver(take, S)
    BY <1>2, <1>4, <1>6, <1>8, TotalWithoutZeros, TotalOfEqual
<1>11. SumOver(d, R) = SumOver(d, Q) /\ SumOver(d, Q) = SumOver(b, Q)
    BY <1>2, <1>5, <1>6, <1>8, TotalWithoutZeros, TotalOfEqual
<1> QED
    BY <1>1, <1>7, <1>9, <1>10, <1>11

-----------------------------------------------------------------------------
(* The books, step by step                                                 *)

\* What is asked for, and that only what is valid gets past the arrival.
CallInv ==
  /\ call \in [Requests -> Call]
  /\ \A r \in Requests :
       /\ pc[r] \in InFlight => Valid(call[r])
       /\ pc[r] = "readBack" => call[r].op \in {"create", "adjust"}

\* The tables and what they amount to.
BooksInv ==
  /\ Table(position) /\ \A x \in DOMAIN position : Sound(position[x])
  /\ Table(withdrawal) /\ \A x \in DOMAIN withdrawal : x \in Requests /\ pc[x] = "done"
  /\ booked \in [Users -> Fraction]
  /\ \A u \in Users : Plus(Money(position, u), Money(withdrawal, u)) = booked[u]

MInv == LInv /\ CallInv /\ BooksInv

LEMMA CallType ==
    ASSUME NEW c \in Call
    PROVE  c.user \in Users /\ c.usd \in Fraction /\ c.mix \in Seq(MixEntry) /\ c.target \in SUBSET Pools
BY DEF Call

\* A request moves on, from where it is not done.
Moves(r) ==
  /\ UNCHANGED call /\ pc[r] # "done" /\ \A q \in Requests \ {r} : pc'[q] = pc[q]
  /\ pc'[r] \in InFlight => Valid(call[r])
  /\ pc'[r] = "readBack" => call[r].op \in {"create", "adjust"}

LEMMA CallKept == ASSUME MInv, NEW r \in Requests, Moves(r) PROVE CallInv'
<1>1. call' \in [Requests -> Call]
    BY DEF MInv, CallInv, Moves
<1>2. ASSUME NEW q \in Requests
      PROVE  /\ pc'[q] \in InFlight => Valid(call'[q])
             /\ pc'[q] = "readBack" => call'[q].op \in {"create", "adjust"}
  <2>1. CASE q = r
      BY <2>1 DEF Moves
  <2>2. CASE q # r
      BY <2>2 DEF MInv, CallInv, Moves
  <2> QED
      BY <2>1, <2>2
<1> QED
    BY <1>1, <1>2 DEF CallInv

\* Steps that leave the tables alone.
LEMMA BooksKept ==
    ASSUME MInv, UNCHANGED <<position, withdrawal, booked>>, \A x \in Requests : pc[x] = "done" => pc'[x] = "done"
    PROVE  BooksInv'
BY DEF MInv, BooksInv

LEMMA MovesKeepDone ==
    ASSUME NEW r \in Requests, Moves(r) PROVE \A x \in Requests : pc[x] = "done" => pc'[x] = "done"
BY DEF Moves

\* Every step of a request moves it.
LEMMA StepMoves == ASSUME MInv, NEW r \in Requests, Step(r) PROVE Moves(r)
<1> USE DEF MInv, LInv, ShapeInv
<1>1. UNCHANGED call
    BY DEF Step, Arrive, CreateInsert, ReadBack, AdjustFind, AdjustWrite, Withdraw, Reset, DbError
<1>2. ASSUME NEW from, NEW to, Goto(r, from, to), from # "done",
             to \in InFlight => Valid(call[r]), to = "readBack" => call[r].op \in {"create", "adjust"}
      PROVE  Moves(r)
    BY <1>1, <1>2, GotoMoves DEF Moves
<1>3. ASSUME NEW from, NEW kind, NEW usd, Reply(r, from, kind, usd), from # "done" PROVE Moves(r)
  <2>1. Goto(r, from, "done") /\ "done" \notin InFlight
      BY <1>3 DEF Reply, InFlight
  <2> QED
      BY <1>2, <1>3, <2>1
<1>4. CASE Arrive(r)
  <2>1. \/ Reply(r, "idle", "error", Zero)
        \/ Valid(call[r]) /\ Goto(r, "idle", FirstAwait(call[r].op))
      BY <1>4 DEF Arrive
  <2>2. FirstAwait(call[r].op) # "readBack"
      BY DEF FirstAwait
  <2> QED
      BY <1>2, <1>3, <2>1, <2>2
<1>5. ASSUME pc[r] \in InFlight PROVE Valid(call[r])
    BY <1>5 DEF CallInv
<1>6. CASE CreateInsert(r)
  <2>1. Goto(r, "insert", "readBack") /\ pc[r] = "insert"
      BY <1>6 DEF CreateInsert, Goto
  <2>2. call[r].op = "create" /\ Valid(call[r])
      BY <1>5, <2>1 DEF CreateInv, InFlight
  <2> QED
      BY <1>2, <2>1, <2>2
<1>7. CASE ReadBack(r)
  <2>1. \E kind, usd : Reply(r, "readBack", kind, usd)
      BY <1>7 DEF ReadBack
  <2> QED
      BY <1>3, <2>1
<1>8. CASE AdjustFind(r)
  <2>1. Reply(r, "find", "error", Zero) \/ Goto(r, "find", "write")
      BY <1>8 DEF AdjustFind
  <2>2. pc[r] = "find"
      BY <2>1 DEF Reply, Goto
  <2>3. Valid(call[r])
      BY <1>5, <2>2 DEF InFlight
  <2> QED
      BY <1>2, <1>3, <2>1, <2>3
<1>9. CASE AdjustWrite(r)
  <2>1. Reply(r, "write", "error", Zero) \/ Goto(r, "write", "readBack")
      BY <1>9 DEF AdjustWrite
  <2>2. pc[r] = "write"
      BY <2>1 DEF Reply, Goto
  <2>3. Valid(call[r]) /\ call[r].op = "adjust"
      BY <1>5, <2>2 DEF InFlight, CreateInv
  <2> QED
      BY <1>2, <1>3, <2>1, <2>3
<1>10. CASE Withdraw(r) \/ Reset(r)
  <2>1. \E usd : Reply(r, "transaction", "ok", usd)
      BY <1>10 DEF Withdraw, Reset
  <2> QED
      BY <1>3, <2>1
<1>11. CASE DbError(r)
  <2>1. Reply(r, pc[r], "error", Zero) /\ pc[r] # "done"
      BY <1>11 DEF DbError, InFlight
  <2> QED
      BY <1>3, <2>1
<1> QED
    BY <1>4, <1>6, <1>7, <1>8, <1>9, <1>10, <1>11 DEF Step

-----------------------------------------------------------------------------
(* The steps that change the tables *)

LEMMA SequenceIsSound ==
    ASSUME NEW mix \in Seq(MixEntry), Leq(SumAll([i \in DOMAIN mix |-> mix[i].weight]), Whole(1)) PROVE SoundMix(mix)
<1>1. DOMAIN mix = 1 .. Len(mix) /\ Len(mix) \in Nat /\ \A i \in DOMAIN mix : mix[i] \in MixEntry
    OBVIOUS
<1>2. IsFiniteSet(DOMAIN mix)
    BY <1>1, FS_Interval
<1> QED
    BY <1>1, <1>2 DEF SoundMix, Weights

\* What a create or an adjustment writes is sound.
LEMMA CallIsSound ==
    ASSUME MInv, NEW r \in Requests, pc[r] \in InFlight, call[r].op \in {"create", "adjust"}
    PROVE  call[r].usd \in Fraction /\ call[r].usd # Zero /\ SoundMix(call[r].mix) /\ call[r].user \in Users
<1>1. call[r] \in Call /\ Valid(call[r])
    BY DEF MInv, CallInv
<1>2. call[r].usd \in Fraction /\ call[r].mix \in Seq(MixEntry) /\ call[r].user \in Users
    BY <1>1, CallType
<1>3. Less(Zero, call[r].usd) /\ Leq(SumAll([i \in DOMAIN call[r].mix |-> call[r].mix[i].weight]), Whole(1))
    BY <1>1 DEF Valid
<1> QED
    BY <1>2, <1>3, LeqLaws, SequenceIsSound

LEMMA CreateBooks == ASSUME MInv, NEW r \in Requests, CreateInsert(r), Moves(r) PROVE BooksInv'
<1>1. /\ pc[r] = "insert" /\ position' = With(position, r, RowOf(r)) /\ UNCHANGED withdrawal
      /\ booked' = [booked EXCEPT ![call[r].user] = Plus(booked[call[r].user], call[r].usd)]
    BY DEF CreateInsert, Goto
<1>2. call[r].op = "create" /\ r \notin DOMAIN position
    BY <1>1 DEF MInv, LInv, CreateInv, RowInv
<1> DEFINE v == call[r].user
           new == call[r].usd
           row == RowOf(r)
<1>3. new \in Fraction /\ new # Zero /\ SoundMix(call[r].mix) /\ v \in Users
    BY <1>1, <1>2, CallIsSound DEF InFlight
<1>4. row.usd = new /\ row.user = v /\ Sound(row)
    BY <1>3 DEF RowOf, Sound
<1>5. /\ Table(position) /\ Table(withdrawal) /\ booked \in [Users -> Fraction]
      /\ \A u \in Users : Plus(Money(position, u), Money(withdrawal, u)) = booked[u]
    BY DEF MInv, BooksInv
<1> HIDE DEF row
<1>6. /\ Table(position') /\ Money(position', v) = Plus(new, Money(position, v))
      /\ \A u : u # v => Money(position', u) = Money(position, u)
    BY <1>1, <1>2, <1>3, <1>4, <1>5, MoneyAdd DEF row
<1>7. \A x \in DOMAIN position' : Sound(position'[x])
  <2>1. DOMAIN position' = DOMAIN position \cup {r} /\ position'[r] = row
        /\ \A x \in DOMAIN position \ {r} : position'[x] = position[x]
      BY <1>1 DEF With, row
  <2> QED
      BY <1>4, <2>1 DEF MInv, BooksInv
<1>8. Money(position, v) \in Fraction /\ Money(withdrawal, v) \in Fraction
    BY <1>5, MoneyRows
<1>9. booked[v] \in Fraction /\ Plus(Money(position, v), Money(withdrawal, v)) = booked[v]
    BY <1>3, <1>5
<1>10. Plus(Plus(new, Money(position, v)), Money(withdrawal, v)) = Plus(booked[v], new)
  <2>1. Plus(Plus(new, Money(position, v)), Money(withdrawal, v))
          = Plus(new, Plus(Money(position, v), Money(withdrawal, v)))
      BY <1>3, <1>8, PlusAssoc
  <2> QED
      BY <1>3, <1>9, <2>1, PlusLaws
<1>11. booked' \in [Users -> Fraction] /\ booked'[v] = Plus(booked[v], new)
       /\ \A u \in Users \ {v} : booked'[u] = booked[u]
    BY <1>1, <1>3, <1>5, <1>9, PlusLaws
<1>12. ASSUME NEW u \in Users PROVE Plus(Money(position', u), Money(withdrawal', u)) = booked'[u]
  <2>1. CASE u = v
      BY <1>1, <1>6, <1>10, <1>11, <2>1
  <2>2. CASE u # v
      BY <1>1, <1>5, <1>6, <1>11, <2>2
  <2> QED
      BY <2>1, <2>2
<1>13. Table(withdrawal') /\ \A x \in DOMAIN withdrawal' : x \in Requests /\ pc'[x] = "done"
    BY <1>1, MovesKeepDone DEF MInv, BooksInv
<1> QED
    BY <1>6, <1>7, <1>11, <1>12, <1>13 DEF BooksInv

LEMMA AdjustBooks == ASSUME MInv, NEW r \in Requests, AdjustWrite(r), Moves(r) PROVE BooksInv'
<1>1. CASE UNCHANGED <<position, booked>>
  <2>1. UNCHANGED withdrawal
      BY DEF AdjustWrite
  <2> QED
      BY <1>1, <2>1, BooksKept, MovesKeepDone
<1>2. CASE \E x \in found[r] : /\ x \in DOMAIN position /\ Goto(r, "write", "readBack")
                               /\ position' = [position EXCEPT ![x].usd = call[r].usd, ![x].mix = call[r].mix]
                               /\ booked' = [booked EXCEPT ![call[r].user] = Monus(Plus(@, call[r].usd), position[x].usd)]
  <2>1. PICK x \in found[r] :
          /\ x \in DOMAIN position /\ Goto(r, "write", "readBack")
          /\ position' = [position EXCEPT ![x].usd = call[r].usd, ![x].mix = call[r].mix]
          /\ booked' = [booked EXCEPT ![call[r].user] = Monus(Plus(@, call[r].usd), position[x].usd)]
      BY <1>2
  <2> DEFINE v == call[r].user
             new == call[r].usd
             old == position[x].usd
             next == [position EXCEPT ![x].usd = call[r].usd, ![x].mix = call[r].mix]
  <2>2. pc[r] = "write" /\ call[r].op = "adjust" /\ UNCHANGED withdrawal
      BY <2>1 DEF Goto, MInv, LInv, CreateInv, AdjustWrite
  <2>3. new \in Fraction /\ new # Zero /\ SoundMix(call[r].mix) /\ v \in Users
      BY <2>2, CallIsSound DEF InFlight
  <2>4. position[x].user = v
      BY <2>1 DEF MInv, LInv, FoundInv, RowInv, Owned
  <2>5. /\ Table(position) /\ Table(withdrawal) /\ booked \in [Users -> Fraction]
        /\ \A u \in Users : Plus(Money(position, u), Money(withdrawal, u)) = booked[u]
        /\ \A y \in DOMAIN position : Sound(position[y])
      BY DEF MInv, BooksInv
  <2>6. {"usd", "mix"} \subseteq DOMAIN position[x] /\ {"user", "product"} \subseteq DOMAIN position[x]
      BY <2>1, <2>5 DEF Sound, MInv, LInv, RowInv, Owned
  <2>7. /\ DOMAIN next = DOMAIN position /\ next[x].usd = new /\ next[x].mix = call[r].mix
        /\ next[x].user = v /\ {"usd", "mix"} \subseteq DOMAIN next[x]
        /\ \A y \in DOMAIN position \ {x} : next[y] = position[y]
      BY <2>1, <2>4, <2>6
  <2>8. position' = next
      BY <2>1
  <2> HIDE DEF next
  <2>9. PICK rest \in Fraction : Money(position, v) = Plus(old, rest) /\ Money(next, v) = Plus(new, rest)
      BY <2>1, <2>3, <2>4, <2>5, <2>7, MoneyReplaced
  <2>10. Table(next) /\ \A u : u # v => Money(next, u) = Money(position, u)
      BY <2>1, <2>3, <2>4, <2>5, <2>7, MoneyReplaced
  <2>11. \A y \in DOMAIN next : Sound(next[y])
    <3>1. Sound(next[x])
        BY <2>3, <2>7 DEF Sound
    <3> QED
        BY <2>5, <2>7, <3>1
  <2>12. old \in Fraction /\ Money(withdrawal, v) \in Fraction
      BY <2>1, <2>5, MoneyRows DEF Table
  <2> DEFINE w == Money(withdrawal, v)
             b == booked[v]
  <2>13. b \in Fraction /\ Plus(Plus(old, rest), w) = b
      BY <2>3, <2>5, <2>9
  <2> HIDE DEF old, new, w, b
  <2>14. Monus(Plus(b, new), old) = Plus(Plus(new, rest), w)
    <3>1. Plus(rest, w) \in Fraction /\ Plus(new, rest) \in Fraction
        BY <2>3, <2>9, <2>12, PlusLaws DEF new, w
    <3>2. b = Plus(old, Plus(rest, w)) /\ Plus(Plus(new, rest), w) = Plus(new, Plus(rest, w))
        BY <2>3, <2>9, <2>12, <2>13, PlusAssoc DEF new, w
    <3>3. Plus(b, new) = Plus(new, b)
        BY <2>3, <2>13, PlusLaws DEF new
    <3>4. Plus(new, Plus(old, Plus(rest, w))) = Plus(old, Plus(new, Plus(rest, w)))
        BY <2>3, <2>12, <3>1, PlusSwap DEF new
    <3>5. Plus(new, Plus(rest, w)) \in Fraction
        BY <2>3, <3>1, PlusLaws DEF new
    <3> QED
        BY <2>12, <3>2, <3>3, <3>4, <3>5, PlusLaws
  <2>15. booked' \in [Users -> Fraction] /\ booked'[v] = Monus(Plus(b, new), old)
         /\ \A u \in Users \ {v} : booked'[u] = booked[u]
    <3>1. Plus(b, new) \in Fraction /\ Monus(Plus(b, new), old) \in Fraction
        BY <2>3, <2>12, <2>13, PlusLaws, MonusLaws DEF new
    <3>2. booked' = [booked EXCEPT ![v] = Monus(Plus(b, new), old)]
        BY <2>1 DEF b, new, old
    <3> QED
        BY <2>3, <2>5, <3>1, <3>2
  <2>16. ASSUME NEW u \in Users PROVE Plus(Money(position', u), Money(withdrawal', u)) = booked'[u]
    <3>1. CASE u = v
        BY <2>2, <2>8, <2>9, <2>14, <2>15, <3>1 DEF new, w
    <3>2. CASE u # v
        BY <2>2, <2>5, <2>8, <2>10, <2>15, <3>2
    <3> QED
        BY <3>1, <3>2
  <2>17. Table(withdrawal') /\ \A y \in DOMAIN withdrawal' : y \in Requests /\ pc'[y] = "done"
      BY <2>2, MovesKeepDone DEF MInv, BooksInv
  <2> QED
      BY <2>8, <2>10, <2>11, <2>15, <2>16, <2>17 DEF BooksInv
<1> QED
    BY <1>1, <1>2 DEF AdjustWrite

\* What a withdrawal does, of the USD that it takes from each selected row.
Takes(r, take) ==
  LET c == call[r]
      S == Selected(c)
  IN /\ IsFiniteSet(S) /\ Fractional(take, S) /\ c.op \in Withdrawals
     /\ \A x \in S : Leq(take[x], Available(c, position[x]))
     /\ DOMAIN position' = DOMAIN position \ {x \in S : take[x] = position[x].usd}
     /\ \A x \in DOMAIN position' :
          position'[x] = IF x \in S /\ take[x] # Zero THEN Reduced(c, position[x], take[x]) ELSE position[x]
     /\ withdrawal' = IF SumOver(take, S) = Zero THEN withdrawal ELSE With(withdrawal, r, LedgerEntry(c, SumOver(take, S)))
     /\ Reply(r, "transaction", "ok", SumOver(take, S))
     /\ \A x, y \in S : position[x].at > position[y].at /\ take[y] # Zero => take[x] = Available(c, position[x])
     /\ Less(SumOver(take, S), c.usd) => \A x \in S : take[x] = Available(c, position[x])

LEMMA SelectedRows ==
    ASSUME MInv, NEW c
    PROVE  /\ Selected(c) \in SUBSET Rows(position, c.user) /\ Selected(c) \in SUBSET DOMAIN position
           /\ IsFiniteSet(Selected(c)) /\ \A x \in Selected(c) : Sound(position[x])
<1>1. Selected(c) \in SUBSET Rows(position, c.user) /\ Selected(c) \in SUBSET DOMAIN position
    BY DEF Selected, OwnRows, Rows
<1> QED
    BY <1>1, FS_Subset DEF MInv, BooksInv, Table

\* What a withdrawal that lists the rows in the order of rank takes.
Offers(r)       == [x \in Selected(call[r]) |-> Available(call[r], position[x])]
Served(r, rank) ==
  /\ rank \in NewestFirst(Selected(call[r])) /\ Drains(Offers(r), rank, call[r].usd)
  /\ Takes(r, Drain(Offers(r), rank, call[r].usd))

LEMMA WithdrawIsServed == ASSUME MInv, NEW r \in Requests, Withdraw(r) PROVE \E rank : Served(r, rank)
<1> DEFINE c == call[r]
           S == Selected(c)
           avail == [x \in S |-> Available(c, position[x])]
           Taken(rank) == Drain(avail, rank, c.usd)
<1>1. PICK rank \in NewestFirst(S) :
        LET take   == Taken(rank)
            actual == SumAll(take)
            gone   == {x \in S : take[x] = position[x].usd}
        IN /\ position' = [x \in DOMAIN position \ gone |->
                             IF x \in S /\ take[x] # Zero THEN Reduced(c, position[x], take[x]) ELSE position[x]]
           /\ withdrawal' = IF actual = Zero THEN withdrawal ELSE With(withdrawal, r, LedgerEntry(c, actual))
           /\ Reply(r, "transaction", "ok", actual)
    BY DEF Withdraw
<1> DEFINE take == Taken(rank)
<1>2. IsFiniteSet(S) /\ \A x \in S : Sound(position[x])
    BY SelectedRows
<1>3. c.usd \in Fraction /\ c.op \in Withdrawals
    BY CallType DEF MInv, CallInv, Withdraw
<1>4. /\ \A x \in S : rank[x] \in Nat
      /\ \A x, y \in S : rank[x] = rank[y] => x = y
      /\ \A x, y \in S : position[x].at > position[y].at => rank[x] < rank[y]
  <2> HIDE DEF S
  <2>1. rank \in Bijection(S, 1 .. Cardinality(S)) /\ \A x, y \in S : position[x].at > position[y].at => rank[x] < rank[y]
      BY DEF NewestFirst
  <2>2. rank \in [S -> 1 .. Cardinality(S)] /\ \A x, y \in S : rank[x] = rank[y] => x = y
      BY <2>1 DEF Bijection, Injection, IsInjective
  <2> QED
      BY <2>1, <2>2
<1>5. DOMAIN avail = S /\ \A x \in S : avail[x] = Available(c, position[x]) /\ avail[x] \in Fraction
    BY <1>2, AvailableLaws
<1>6. take = Drain(avail, rank, c.usd)
    OBVIOUS
<1>7. /\ DOMAIN position' = DOMAIN position \ {x \in S : take[x] = position[x].usd}
      /\ \A x \in DOMAIN position' :
           position'[x] = IF x \in S /\ take[x] # Zero THEN Reduced(c, position[x], take[x]) ELSE position[x]
      /\ withdrawal' = IF SumAll(take) = Zero THEN withdrawal ELSE With(withdrawal, r, LedgerEntry(c, SumAll(take)))
      /\ Reply(r, "transaction", "ok", SumAll(take))
  <2> HIDE DEF take, S
  <2> QED
      BY <1>1 DEF take
<1> HIDE DEF avail, take, S, c
<1>8. Drains(avail, rank, c.usd)
    BY <1>2, <1>3, <1>4, <1>5 DEF Drains, Fractional
<1>9. DOMAIN take = S /\ Fractional(take, S) /\ \A x \in S : Leq(take[x], avail[x])
    BY <1>5, <1>6, <1>8, DrainBounds
<1>10. SumAll(take) = SumOver(take, S)
    BY <1>9 DEF SumAll
<1>11. ASSUME NEW x \in S, NEW y \in S, position[x].at > position[y].at, take[y] # Zero PROVE take[x] = avail[x]
    BY <1>4, <1>5, <1>6, <1>8, <1>11, DrainOrder
<1>12. ASSUME Less(SumOver(take, S), c.usd), NEW x \in S PROVE take[x] = avail[x]
    BY <1>5, <1>6, <1>8, <1>12, DrainShort
<1>13. Takes(r, take)
    BY <1>2, <1>3, <1>5, <1>7, <1>9, <1>10, <1>11, <1>12 DEF Takes, S, c
<1>14. avail = Offers(r)
    BY DEF avail, Offers, S, c
<1> QED
    BY <1>1, <1>6, <1>8, <1>13, <1>14 DEF Served, S, c

LEMMA WithdrawTakes == ASSUME MInv, NEW r \in Requests, Withdraw(r) PROVE \E take : Takes(r, take)
BY WithdrawIsServed DEF Served

\* What a row that a withdrawal has selected is afterwards.
LEMMA TakesRow ==
    ASSUME MInv, NEW r \in Requests, NEW take, Takes(r, take), NEW x \in Selected(call[r])
    PROVE  /\ x \in DOMAIN position' => Sound(position'[x])
           /\ Plus(take[x], IF x \in DOMAIN position' THEN position'[x].usd ELSE Zero) = position[x].usd
           /\ Rest(call[r], x) = Monus(Available(call[r], position[x]), take[x])
           /\ take[x] \in Fraction /\ Available(call[r], position[x]) \in Fraction
<1> DEFINE c == call[r]
           row == position[x]
<1>1. Sound(row) /\ row.usd \in Fraction /\ x \in DOMAIN position
    BY SelectedRows DEF Sound
<1>2. /\ take[x] \in Fraction /\ Leq(take[x], Available(c, row))
      /\ (x \in DOMAIN position' <=> take[x] # row.usd)
      /\ x \in DOMAIN position' => position'[x] = IF take[x] # Zero THEN Reduced(c, row, take[x]) ELSE row
    BY <1>1 DEF Takes, Fractional
<1>3. Available(c, row) \in Fraction /\ Leq(Available(c, row), row.usd)
    BY <1>1, AvailableLaws
<1>4. Leq(take[x], row.usd)
    BY <1>1, <1>2, <1>3, LeqTrans
<1>5. CASE take[x] = row.usd
  <2>1. x \notin DOMAIN position' /\ Rest(c, x) = Zero
      BY <1>2, <1>5 DEF Rest
  <2>2. Monus(Available(c, row), take[x]) = Zero /\ Plus(take[x], Zero) = row.usd
      BY <1>1, <1>2, <1>3, <1>5, MonusLaws, PlusLaws
  <2> QED
      BY <1>2, <1>3, <2>1, <2>2
<1>6. CASE take[x] # row.usd /\ take[x] = Zero
  <2>1. position'[x] = row /\ x \in DOMAIN position'
      BY <1>2, <1>6
  <2>2. Rest(c, x) = Available(c, row)
      BY <2>1 DEF Rest
  <2>3. Monus(Available(c, row), Zero) = Available(c, row) /\ Plus(Zero, row.usd) = row.usd
      BY <1>1, <1>3, ZeroType, MonusLaws, PlusLaws
  <2> QED
      BY <1>1, <1>2, <1>3, <1>6, <2>1, <2>2, <2>3
<1>7. CASE take[x] # row.usd /\ take[x] # Zero
  <2>1. position'[x] = Reduced(c, row, take[x]) /\ x \in DOMAIN position'
      BY <1>2, <1>7
  <2>2. Rest(c, x) = Available(c, Reduced(c, row, take[x]))
      BY <2>1 DEF Rest
  <2>3. /\ Sound(Reduced(c, row, take[x])) /\ Reduced(c, row, take[x]).usd = Monus(row.usd, take[x])
        /\ Available(c, Reduced(c, row, take[x])) = Monus(Available(c, row), take[x])
      BY <1>1, <1>2, <1>7, ReducedLaws
  <2>4. Plus(take[x], Monus(row.usd, take[x])) = row.usd
      BY <1>1, <1>2, <1>4, MonusLaws
  <2> QED
      BY <1>2, <1>3, <2>1, <2>2, <2>3, <2>4
<1> QED
    BY <1>5, <1>6, <1>7

LEMMA WithdrawBooks == ASSUME MInv, NEW r \in Requests, Withdraw(r), Moves(r) PROVE BooksInv'
<1>1. PICK take : Takes(r, take)
    BY WithdrawTakes
<1> DEFINE c == call[r]
           S == Selected(c)
           v == c.user
           actual == SumOver(take, S)
<1>2. /\ Table(position) /\ Table(withdrawal) /\ booked \in [Users -> Fraction]
      /\ \A u \in Users : Plus(Money(position, u), Money(withdrawal, u)) = booked[u]
      /\ \A x \in DOMAIN position : Sound(position[x])
    BY DEF MInv, BooksInv
<1>3. /\ S \in SUBSET Rows(position, v) /\ IsFiniteSet(S) /\ Fractional(take, S) /\ v \in Users
      /\ UNCHANGED booked
    BY <1>1, SelectedRows, CallType DEF Takes, MInv, CallInv, Withdraw
<1>4. DOMAIN position' \subseteq DOMAIN position /\ \A x \in DOMAIN position' : position'[x].user = position[x].user
    BY WithdrawRows DEF MInv, RowsShrink
<1>5. \A x \in DOMAIN position \ S : x \in DOMAIN position' /\ position'[x] = position[x]
    BY WithdrawRows DEF MInv
<1>6. \A x \in S : /\ Plus(take[x], IF x \in DOMAIN position' THEN position'[x].usd ELSE Zero) = position[x].usd
                   /\ x \in DOMAIN position' => Sound(position'[x])
    BY <1>1, TakesRow
<1> HIDE DEF S, v, c
<1>7. \A x \in DOMAIN position' : Sound(position'[x])
    BY <1>2, <1>4, <1>5, <1>6
<1>8. Table(position')
  <2>1. IsFiniteSet(DOMAIN position')
      BY <1>2, <1>4, FS_Subset DEF Table
  <2> QED
      BY <1>7, <2>1 DEF Table, Sound
<1> DEFINE next == position'
<1>9. /\ Money(position, v) = Plus(actual, Money(next, v))
      /\ \A u : u # v => Money(next, u) = Money(position, u)
  <2>1. /\ Table(next) /\ DOMAIN next \subseteq DOMAIN position
        /\ \A y \in DOMAIN next : next[y].user = position[y].user
        /\ \A y \in DOMAIN position \ S : y \in DOMAIN next /\ next[y] = position[y]
        /\ \A y \in S : Plus(take[y], IF y \in DOMAIN next THEN next[y].usd ELSE Zero) = position[y].usd
      BY <1>4, <1>5, <1>6, <1>8
  <2>2. Table(position) /\ S \in SUBSET Rows(position, v) /\ Fractional(take, S)
      BY <1>2, <1>3
  <2> HIDE DEF next
  <2> QED
      BY <2>1, <2>2, MoneyTaken
<1>10. actual \in Fraction /\ Money(next, v) \in Fraction /\ Money(withdrawal, v) \in Fraction
    BY <1>2, <1>3, <1>8, TotalType, MoneyRows
<1> DEFINE log == withdrawal'
<1>11. log = IF actual = Zero THEN withdrawal ELSE With(withdrawal, r, LedgerEntry(c, actual))
    BY <1>1 DEF Takes, S, c
<1>12. pc[r] # "done" /\ pc'[r] = "done" /\ r \notin DOMAIN withdrawal
    BY <1>1, ReplyMoves DEF Takes, MInv, LInv, ShapeInv, BooksInv, Moves
<1>13. /\ Table(log) /\ Money(log, v) = Plus(actual, Money(withdrawal, v))
       /\ \A u : u # v => Money(log, u) = Money(withdrawal, u)
       /\ DOMAIN log \subseteq DOMAIN withdrawal \cup {r}
  <2>1. CASE actual = Zero
    <3>1. log = withdrawal
        BY <1>11, <2>1
    <3> HIDE DEF log, actual
    <3> QED
        BY <1>2, <1>10, <2>1, <3>1, PlusLaws
  <2>2. CASE actual # Zero
    <3> DEFINE e == LedgerEntry(c, actual)
    <3>1. log = With(withdrawal, r, e) /\ e.user = v /\ e.usd = actual
        BY <1>11, <2>2 DEF LedgerEntry, v
    <3> HIDE DEF log, e, actual
    <3>2. Table(With(withdrawal, r, e)) /\ Money(With(withdrawal, r, e), v) = Plus(actual, Money(withdrawal, v))
          /\ \A u : u # v => Money(With(withdrawal, r, e), u) = Money(withdrawal, u)
        BY <1>2, <1>10, <1>12, <3>1, MoneyAdd
    <3>3. DOMAIN With(withdrawal, r, e) = DOMAIN withdrawal \cup {r}
        BY DEF With
    <3> QED
        BY <3>1, <3>2, <3>3
  <2> QED
      BY <2>1, <2>2
<1>14. ASSUME NEW u \in Users PROVE Plus(Money(next, u), Money(log, u)) = booked'[u]
  <2> HIDE DEF next, log, actual
  <2>1. CASE u = v
    <3>1. Plus(Money(next, v), Plus(actual, Money(withdrawal, v))) = Plus(actual, Plus(Money(next, v), Money(withdrawal, v)))
        BY <1>10, PlusSwap
    <3>2. Plus(actual, Plus(Money(next, v), Money(withdrawal, v))) = Plus(Plus(actual, Money(next, v)), Money(withdrawal, v))
        BY <1>10, PlusAssoc
    <3> QED
        BY <1>2, <1>3, <1>9, <1>13, <2>1, <3>1, <3>2
  <2>2. CASE u # v
      BY <1>2, <1>3, <1>9, <1>13, <2>2
  <2> QED
      BY <2>1, <2>2
<1>15. \A x \in DOMAIN withdrawal' : x \in Requests /\ pc'[x] = "done"
    BY <1>12, <1>13, MovesKeepDone DEF MInv, BooksInv
<1> QED
    BY <1>3, <1>2, <1>7, <1>8, <1>13, <1>14, <1>15 DEF BooksInv

LEMMA ResetBooks == ASSUME MInv, NEW r \in Requests, Reset(r), Moves(r) PROVE BooksInv'
<1> DEFINE v == call[r].user
           next == position'
           log == withdrawal'
<1>1. /\ Table(position) /\ Table(withdrawal) /\ booked \in [Users -> Fraction]
      /\ \A u \in Users : Plus(Money(position, u), Money(withdrawal, u)) = booked[u]
      /\ \A x \in DOMAIN position : Sound(position[x])
    BY DEF MInv, BooksInv
<1>2. /\ DOMAIN next = DOMAIN position \ Rows(position, v) /\ \A x \in DOMAIN next : next[x] = position[x]
      /\ DOMAIN log = DOMAIN withdrawal \ Rows(withdrawal, v) /\ \A x \in DOMAIN log : log[x] = withdrawal[x]
      /\ booked' = [booked EXCEPT ![v] = Zero] /\ v \in Users
    BY CallType DEF Reset, Without, OwnRows, Rows, MInv, CallInv
<1>3. \A x \in DOMAIN log : x \in Requests /\ pc'[x] = "done"
    BY <1>2, MovesKeepDone DEF MInv, BooksInv
<1> HIDE DEF next, log
<1>4. Table(next) /\ Table(log)
  <2>1. IsFiniteSet(DOMAIN next) /\ IsFiniteSet(DOMAIN log)
      BY <1>1, <1>2, FS_Subset DEF Table
  <2> QED
      BY <1>1, <1>2, <2>1 DEF Table
<1>5. \A x \in DOMAIN next : Sound(next[x])
    BY <1>1, <1>2
<1>6. Rows(next, v) = {} /\ Rows(log, v) = {}
    BY <1>2 DEF Rows
<1>7. Plus(Money(next, v), Money(log, v)) = Zero
    BY <1>6, NoMoney, ZeroType, PlusLaws
<1>8. ASSUME NEW u \in Users, u # v
      PROVE  Money(next, u) = Money(position, u) /\ Money(log, u) = Money(withdrawal, u)
  <2>1. Rows(next, u) = Rows(position, u) /\ \A x \in Rows(position, u) : next[x].usd = position[x].usd
      BY <1>2, <1>8 DEF Rows
  <2>2. Rows(log, u) = Rows(withdrawal, u) /\ \A x \in Rows(withdrawal, u) : log[x].usd = withdrawal[x].usd
      BY <1>2, <1>8 DEF Rows
  <2> QED
      BY <1>1, <2>1, <2>2, MoneySame
<1>9. booked' \in [Users -> Fraction] /\ booked'[v] = Zero /\ \A u \in Users \ {v} : booked'[u] = booked[u]
    BY <1>1, <1>2, ZeroType
<1>10. \A u \in Users : Plus(Money(next, u), Money(log, u)) = booked'[u]
    BY <1>1, <1>7, <1>8, <1>9
<1> QED
    BY <1>3, <1>4, <1>5, <1>9, <1>10 DEF BooksInv, next, log

LEMMA StepBooks == ASSUME MInv, NEW r \in Requests, Step(r) PROVE MInv'
<1>1. Moves(r)
    BY StepMoves
<1>2. ASSUME UNCHANGED <<position, withdrawal, booked>> PROVE BooksInv'
    BY <1>1, <1>2, BooksKept, MovesKeepDone
<1>3. BooksInv'
  <2>1. CASE Arrive(r) \/ ReadBack(r) \/ AdjustFind(r) \/ DbError(r)
      BY <1>2, <2>1 DEF Arrive, ReadBack, AdjustFind, DbError
  <2> QED
      BY <1>1, <2>1, CreateBooks, AdjustBooks, WithdrawBooks, ResetBooks DEF Step
<1>4. LInv'
    BY NextPreserves DEF MInv, Next
<1> QED
    BY <1>1, <1>3, <1>4, CallKept DEF MInv

LEMMA CrashBooks == ASSUME MInv, Crash PROVE MInv'
<1>1. /\ UNCHANGED <<position, withdrawal, booked, call>>
      /\ pc' = [r \in Requests |-> IF pc[r] \in InFlight THEN "lost" ELSE pc[r]]
    BY DEF Crash
<1>2. CallInv'
    BY <1>1 DEF MInv, CallInv, InFlight
<1>3. BooksInv'
    BY <1>1, BooksKept DEF InFlight
<1> QED
    BY <1>2, <1>3, NextPreserves DEF MInv, Next

LEMMA InitBooks == ASSUME Init PROVE MInv
<1>1. LInv
    BY InitEstablishes
<1>2. CallInv
    BY CallsAssumption DEF Init, CallInv, InFlight
<1>3. DOMAIN position = {} /\ DOMAIN withdrawal = {} /\ booked = [u \in Users |-> Zero]
    BY DEF Init, Empty
<1>4. Table(position) /\ Table(withdrawal)
    BY <1>3, FS_EmptySet DEF Table
<1>5. ASSUME NEW u \in Users PROVE Plus(Money(position, u), Money(withdrawal, u)) = booked[u]
  <2>1. Rows(position, u) = {} /\ Rows(withdrawal, u) = {}
      BY <1>3 DEF Rows
  <2> QED
      BY <1>3, <2>1, NoMoney, ZeroType, PlusLaws
<1>6. BooksInv
    BY <1>3, <1>4, <1>5, ZeroType DEF BooksInv
<1> QED
    BY <1>1, <1>2, <1>6 DEF MInv

LEMMA NextBooks == MInv /\ [Next]_vars => MInv'
<1> SUFFICES ASSUME MInv, [Next]_vars PROVE MInv'
    OBVIOUS
<1>1. CASE UNCHANGED vars
  <2>1. UNCHANGED <<position, withdrawal, booked, call, pc>>
      BY <1>1 DEF vars
  <2>2. CallInv'
      BY <2>1 DEF MInv, CallInv
  <2>3. BooksInv'
      BY <2>1, BooksKept
  <2> QED
      BY <2>2, <2>3, NextPreserves DEF MInv
<1> QED
    BY <1>1, StepBooks, CrashBooks DEF Next

\* The invariant of the books.
THEOREM BooksInvariance == Spec => []MInv
BY InitBooks, NextBooks, PTL DEF Spec

\* No dollar is lost or made.
THEOREM MoneyIsConserved == Spec => []Conservation
<1>1. MInv => Conservation
    BY DEF MInv, BooksInv, Conservation, Money, Rows, OwnRows, OwnWithdrawals, SumAll
<1> QED
    BY <1>1, BooksInvariance, PTL

THEOREM RowsStaySound == Spec => []RowsAreSound
<1>1. MInv => RowsAreSound
  <2> SUFFICES ASSUME MInv, NEW x \in DOMAIN position
               PROVE  /\ Less(Zero, position[x].usd)
                      /\ Leq(SumAll([i \in DOMAIN position[x].mix |-> position[x].mix[i].weight]), Whole(1))
      BY DEF RowsAreSound
  <2>1. Sound(position[x])
      BY DEF MInv, BooksInv
  <2> QED
      BY <2>1, LeqLaws DEF Sound, SoundMix, Weights
<1> QED
    BY <1>1, BooksInvariance, PTL
-----------------------------------------------------------------------------
(* What a withdrawal takes *)

\* An answer that makes a withdrawal is that of its transaction.
LEMMA WithdrawsIs == ASSUME MInv, [Next]_vars, NEW r \in Requests, Withdraws(r) PROVE Withdraw(r)
<1>1. answer'[r] # answer[r] /\ answer'[r].kind = "ok" /\ call[r].op \in Withdrawals
    BY DEF Withdraws
<1>2. PICK q \in Requests : Step(q)
    BY <1>1 DEF Next, Crash, vars
<1>3. q = r
  <2>1. \/ UNCHANGED answer
        \/ \E from, kind, usd : Reply(q, from, kind, usd)
      BY <1>2 DEF Step, Arrive, CreateInsert, ReadBack, AdjustFind, AdjustWrite, Withdraw, Reset, DbError
  <2> QED
      BY <1>1, <2>1, ReplyMoves DEF MInv, LInv, ShapeInv
<1>4. \A from, usd : ~Reply(r, from, "error", usd)
    BY <1>1, ReplyMoves DEF MInv, LInv, ShapeInv
<1>5. ~UNCHANGED answer
    BY <1>1
<1>6. ~ReadBack(r)
  <2> SUFFICES ASSUME ReadBack(r) PROVE FALSE
      OBVIOUS
  <2>1. pc[r] = "readBack"
      BY DEF ReadBack, Reply, Goto
  <2> QED
      BY <1>1, <2>1 DEF MInv, CallInv, Withdrawals
<1>7. ~Reset(r)
    BY <1>1 DEF Reset, Withdrawals
<1> QED
    BY <1>2, <1>3, <1>4, <1>5, <1>6, <1>7 DEF Step, Arrive, CreateInsert, AdjustFind, AdjustWrite, DbError

\* A withdrawal takes from a row only when every newer row has nothing more to
\* give (withdrawAmount in positions.ts, and the two beside it).
THEOREM WithdrawalsTakeTheNewest == Spec => LastInFirstOut
<1> DEFINE Lifo == \A r \in Requests : Withdraws(r) =>
             \A x, y \in Selected(call[r]) :
               position[x].at > position[y].at /\ Less(Rest(call[r], y), Available(call[r], position[y]))
               => Rest(call[r], x) = Zero
<1>1. ASSUME MInv, [Next]_vars PROVE Lifo
  <2> SUFFICES ASSUME NEW r \in Requests, Withdraws(r), NEW x \in Selected(call[r]), NEW y \in Selected(call[r]),
                      position[x].at > position[y].at, Less(Rest(call[r], y), Available(call[r], position[y]))
               PROVE  Rest(call[r], x) = Zero
      OBVIOUS
  <2>1. PICK take : Takes(r, take)
      BY <1>1, WithdrawsIs, WithdrawTakes
  <2> DEFINE ax == Available(call[r], position[x])
             ay == Available(call[r], position[y])
  <2>2. /\ Rest(call[r], x) = Monus(ax, take[x]) /\ Rest(call[r], y) = Monus(ay, take[y])
        /\ take[x] \in Fraction /\ ax \in Fraction /\ take[y] \in Fraction /\ ay \in Fraction
      BY <1>1, <2>1, TakesRow
  <2>3. take[y] # Zero
    <3> SUFFICES ASSUME take[y] = Zero PROVE FALSE
        OBVIOUS
    <3>1. Monus(ay, Zero) = ay /\ Leq(ay, ay)
        BY <2>2, ZeroType, MonusLaws, LeqLaws
    <3> QED
        BY <2>2, <3>1 DEF Less
  <2>4. take[x] = ax
      BY <2>1, <2>3 DEF Takes
  <2>5. Leq(ax, ax)
      BY <2>2, LeqLaws
  <2> QED
      BY <2>2, <2>4, <2>5, MonusLaws
<1> QED
    BY <1>1, BooksInvariance, PTL DEF Spec, LastInFirstOut

\* Who gets less than he asked for has nothing left to withdraw.
THEOREM ShortfallEmpties == Spec => ShortfallMeansEmpty
<1> DEFINE Short == \A r \in Requests : Withdraws(r) /\ Less(answer'[r].usd, call[r].usd) =>
             \A x \in Selected(call[r]) : Rest(call[r], x) = Zero
<1>1. ASSUME MInv, [Next]_vars PROVE Short
  <2> SUFFICES ASSUME NEW r \in Requests, Withdraws(r), Less(answer'[r].usd, call[r].usd), NEW x \in Selected(call[r])
               PROVE  Rest(call[r], x) = Zero
      OBVIOUS
  <2>1. PICK take : Takes(r, take)
      BY <1>1, WithdrawsIs, WithdrawTakes
  <2>2. answer'[r].usd = SumOver(take, Selected(call[r]))
      BY <1>1, <2>1 DEF Takes, Reply, MInv, LInv, ShapeInv
  <2>3. take[x] = Available(call[r], position[x])
      BY <2>1, <2>2 DEF Takes
  <2>4. Rest(call[r], x) = Monus(take[x], take[x]) /\ take[x] \in Fraction
      BY <1>1, <2>1, <2>3, TakesRow
  <2> QED
      BY <2>4, LeqLaws, MonusLaws
<1> QED
    BY <1>1, BooksInvariance, PTL DEF Spec, ShortfallMeansEmpty

\* A protocol withdrawal leaves the USD of every other pool of every row.
THEOREM OtherPoolsAreKept == Spec => OtherPoolsKeepTheirUsd
<1> DEFINE Kept == \A r \in Requests : Withdraws(r) /\ call[r].op = "withdrawProtocol" =>
             \A x \in DOMAIN position, pool \in Pools \ call[r].target :
               LET only == [call[r] EXCEPT !.target = {pool}]
               IN Rest(only, x) = SumAll(Matching(only, position[x]))
<1>1. ASSUME MInv, [Next]_vars PROVE Kept
  <2> SUFFICES ASSUME NEW r \in Requests, Withdraws(r), call[r].op = "withdrawProtocol",
                      NEW x \in DOMAIN position, NEW pool \in Pools \ call[r].target
               PROVE  LET only == [call[r] EXCEPT !.target = {pool}]
                      IN Rest(only, x) = SumAll(Matching(only, position[x]))
      OBVIOUS
  <2> DEFINE only == [call[r] EXCEPT !.target = {pool}]
             c == call[r]
  <2>1. PICK take : Takes(r, take)
      BY <1>1, WithdrawsIs, WithdrawTakes
  <2>2. call[r] \in Call
      BY <1>1 DEF MInv, CallInv
  <2>3. only.op = "withdrawProtocol" /\ only.target \cap c.target = {}
      BY <2>2 DEF Call
  <2> HIDE DEF only
  <2>4. \A row : Available(only, row) = SumAll(Matching(only, row))
      BY <2>3 DEF Available
  <2>5. CASE x \notin Selected(c) \/ take[x] = Zero
    <3>1. x \in Selected(c) => take[x] # position[x].usd
        BY <1>1, <2>5, SelectedRows DEF Sound
    <3>2. x \in DOMAIN position' /\ position'[x] = position[x]
        BY <2>1, <2>5, <3>1 DEF Takes
    <3> QED
        BY <2>4, <3>2 DEF Rest, only
  <2>6. CASE x \in Selected(c) /\ take[x] # Zero
    <3>1. /\ take[x] \in Fraction /\ Leq(take[x], Available(c, position[x])) /\ Sound(position[x])
          /\ (x \in DOMAIN position' <=> take[x] # position[x].usd)
          /\ x \in DOMAIN position' => position'[x] = Reduced(c, position[x], take[x])
        BY <1>1, <2>1, <2>6, SelectedRows DEF Takes, Fractional
    <3>2. /\ take[x] = position[x].usd => SumAll(Matching(only, position[x])) = Zero
          /\ take[x] # position[x].usd =>
               SumAll(Matching(only, Reduced(c, position[x], take[x]))) = SumAll(Matching(only, position[x]))
        BY <2>3, <3>1, OthersLeft
    <3> QED
        BY <2>4, <3>1, <3>2 DEF Rest, only
  <2> QED
      BY <2>5, <2>6
<1> QED
    BY <1>1, BooksInvariance, PTL DEF Spec, OtherPoolsKeepTheirUsd

-----------------------------------------------------------------------------
(* The loops of the browser *)

\* One round: of the loop over the rows, or of the one over the entries of a mix.
Round(kind, c, z, s, k) == IF kind = "rows" THEN TakeFrom(c, s, z[k]) ELSE TakeEntry(c, z, s, k)

\* Where a loop stands after the places in s, for every s in D.
Loops(h, kind, c, z, start, D) ==
  h = [s \in D |-> IF s = {} THEN start ELSE Round(kind, c, z, h[s \ {Max(s)}], Max(s))]

\* The last of some places.
LEMMA MaxIs ==
    ASSUME NEW S, IsFiniteSet(S), S \subseteq Nat, S # {}
    PROVE  Max(S) \in S /\ \A y \in S : y <= Max(S)
<1> DEFINE rank == [i \in S |-> i]
<1>1. \A x \in S : rank[x] \in Nat
    OBVIOUS
<1>2. \E x \in S : \A y \in S : rank[y] <= rank[x]
  <2> HIDE DEF rank
  <2> QED
      BY <1>1, LastRank
<1>3. \E x \in S : \A y \in S : x >= y
    BY <1>2
<1> QED
    BY <1>3 DEF Max

LEMMA MaxOf == ASSUME NEW S, NEW k \in S, S \subseteq Int, \A y \in S : y <= k PROVE Max(S) = k
<1>1. \A x \in S : (\A y \in S : x >= y) <=> x = k
  <2> SUFFICES ASSUME NEW x \in S PROVE (\A y \in S : x >= y) <=> x = k
      OBVIOUS
  <2>1. x \in Int /\ k \in Int
      OBVIOUS
  <2>2. (\A y \in S : x >= y) => x >= k
      OBVIOUS
  <2>3. x <= k
      OBVIOUS
  <2>4. \A y \in S : k >= y
      OBVIOUS
  <2> QED
      BY <2>1, <2>2, <2>3, <2>4
<1>2. (CHOOSE x \in S : \A y \in S : x >= y) = (CHOOSE x \in S : x = k)
    BY <1>1
<1>3. (CHOOSE x \in S : x = k) = k
    OBVIOUS
<1> QED
    BY <1>2, <1>3 DEF Max

\* Every set of places that a loop may have done has a last one.
HasLast(S) == IsFiniteSet(S) /\ \A t \in SUBSET S : t # {} => Max(t) \in t

LEMMA NumbersHaveLast == ASSUME NEW S, IsFiniteSet(S), S \subseteq Nat PROVE HasLast(S)
<1>1. ASSUME NEW t \in SUBSET S, t # {} PROVE Max(t) \in t
    BY <1>1, FS_Subset, MaxIs
<1> QED
    BY <1>1 DEF HasLast

LEMMA FewerPlaces ==
    ASSUME NEW S, HasLast(S), NEW s \in SUBSET S, s # {}
    PROVE  /\ s \ {Max(s)} \in SUBSET S /\ Max(s) \in s /\ Cardinality(s) \in Nat /\ Cardinality(s) > 0
           /\ Cardinality(s \ {Max(s)}) = Cardinality(s) - 1
<1>1. IsFiniteSet(s) /\ Max(s) \in s
    BY FS_Subset DEF HasLast
<1>2. Cardinality(s) \in Nat
    BY <1>1, FS_CardinalityType
<1>3. Cardinality(s) > 0
    BY <1>1, <1>2, FS_EmptySet
<1>4. Cardinality(s \ {Max(s)}) = Cardinality(s) - 1
    BY <1>1, FS_RemoveElement
<1> QED
    BY <1>1, <1>2, <1>3, <1>4

\* There is such a function, whatever a round computes.
LEMMA LoopsUpTo ==
    ASSUME NEW kind, NEW c, NEW z, NEW start, NEW S, HasLast(S), NEW n \in Nat
    PROVE  \E h : Loops(h, kind, c, z, start, UpTo(S, n))
<1> DEFINE bad == {m \in Nat : ~\E h : Loops(h, kind, c, z, start, UpTo(S, m))}
<1> SUFFICES ASSUME bad # {} PROVE FALSE
    OBVIOUS
<1>1. PICK m \in bad : \A k \in bad : m <= k
    BY Least
<1>2. CASE m = 0
  <2> DEFINE h == [s \in UpTo(S, 0) |-> start]
  <2>1. ASSUME NEW s \in UpTo(S, 0) PROVE s = {}
    <3>1. s \in SUBSET S /\ Cardinality(s) <= 0
        BY DEF UpTo
    <3>2. s # {} => Cardinality(s) \in Nat /\ Cardinality(s) > 0
        BY <3>1, FewerPlaces
    <3> QED
        BY <3>1, <3>2
  <2>2. Loops(h, kind, c, z, start, UpTo(S, 0))
      BY <2>1 DEF Loops
  <2> QED
      BY <1>1, <1>2, <2>2
<1>3. CASE m > 0
  <2>1. m - 1 \in Nat /\ m - 1 \notin bad
      BY <1>1, <1>3
  <2>2. PICK g : Loops(g, kind, c, z, start, UpTo(S, m - 1))
      BY <2>1
  <2> DEFINE h == [s \in UpTo(S, m) |->
                     IF s = {} THEN start ELSE Round(kind, c, z, g[s \ {Max(s)}], Max(s))]
  <2>3. ASSUME NEW t \in UpTo(S, m - 1) PROVE h[t] = g[t]
    <3>1. t \in UpTo(S, m)
        BY <1>1, FS_Subset, FS_CardinalityType DEF UpTo, HasLast
    <3> QED
        BY <2>2, <3>1 DEF Loops
  <2>4. ASSUME NEW s \in UpTo(S, m), s # {} PROVE s \ {Max(s)} \in UpTo(S, m - 1)
    <3>1. s \in SUBSET S /\ Cardinality(s) <= m /\ m \in Nat
        BY <1>1 DEF UpTo
    <3>2. s \ {Max(s)} \in SUBSET S /\ Cardinality(s) \in Nat /\ Cardinality(s \ {Max(s)}) = Cardinality(s) - 1
        BY <2>4, <3>1, FewerPlaces
    <3>3. Cardinality(s \ {Max(s)}) <= m - 1
        BY <3>1, <3>2
    <3> QED
        BY <3>2, <3>3 DEF UpTo
  <2>5. \A s \in UpTo(S, m) : s # {} => g[s \ {Max(s)}] = h[s \ {Max(s)}]
      BY <2>3, <2>4
  <2>6. Loops(h, kind, c, z, start, UpTo(S, m))
      BY <2>5 DEF Loops
  <2> QED
      BY <1>1, <2>6
<1> QED
    BY <1>1, <1>2, <1>3

LEMMA LoopExists ==
    ASSUME NEW kind, NEW c, NEW z, NEW start, NEW S, HasLast(S)
    PROVE  \E h : Loops(h, kind, c, z, start, SUBSET S)
<1>1. Cardinality(S) \in Nat
    BY FS_CardinalityType DEF HasLast
<1>2. UpTo(S, Cardinality(S)) = SUBSET S
    BY FS_Subset DEF UpTo, HasLast
<1>3. \E h : Loops(h, kind, c, z, start, UpTo(S, Cardinality(S)))
    BY <1>1, LoopsUpTo
<1> QED
    BY <1>2, <1>3

\* The two loops.
RowLoop(c, list) ==
  CHOOSE h : h = [s \in SUBSET DOMAIN list |->
                    IF s = {} THEN [left |-> c.usd, kept |-> <<>>]
                    ELSE TakeFrom(c, h[s \ {Max(s)}], list[Max(s)])]
EntryLoop(c, row, wanted) ==
  CHOOSE h : h = [s \in SUBSET DOMAIN row.mix |->
                    IF s = {} THEN [left |-> wanted, usd |-> AbsoluteMix(row)]
                    ELSE TakeEntry(c, row, h[s \ {Max(s)}], Max(s))]

\* They are what the folds of BrowserLedger compute, round by round.
LEMMA WithdrawIsLoop ==
    ASSUME NEW c, NEW list PROVE LocalWithdraw(c, list) = RowLoop(c, list)[DOMAIN list].kept
BY DEF LocalWithdraw, FoldLeft, MapThenFoldSet, RowLoop

LEMMA MatchingIsLoop ==
    ASSUME NEW c, NEW row, NEW wanted
    PROVE  TakeMatching(c, row, wanted) = EntryLoop(c, row, wanted)[DOMAIN row.mix]
BY DEF TakeMatching, MapThenFoldSet, EntryLoop

LEMMA RowRounds ==
    ASSUME NEW c, NEW list, NEW n \in Nat, DOMAIN list = 1 .. n
    PROVE  /\ RowLoop(c, list)[{}] = [left |-> c.usd, kept |-> <<>>]
           /\ \A k \in 1 .. n : RowLoop(c, list)[1 .. k] = TakeFrom(c, RowLoop(c, list)[1 .. k - 1], list[k])
<1> DEFINE S == DOMAIN list
           start == [left |-> c.usd, kept |-> <<>>]
           h == RowLoop(c, list)
<1>1. HasLast(S)
  <2>1. IsFiniteSet(S) /\ S \subseteq Nat
      BY FS_Interval
  <2> HIDE DEF S
  <2> QED
      BY <2>1, NumbersHaveLast
<1>2. \E g : Loops(g, "rows", c, list, start, SUBSET S)
    BY <1>1, LoopExists
<1>3. \E g : g = [s \in SUBSET S |-> IF s = {} THEN start ELSE TakeFrom(c, g[s \ {Max(s)}], list[Max(s)])]
    BY <1>2 DEF Loops, Round
<1>4. h = [s \in SUBSET S |-> IF s = {} THEN start ELSE TakeFrom(c, h[s \ {Max(s)}], list[Max(s)])]
    BY <1>3 DEF RowLoop
<1> HIDE DEF h, start
<1>5. ASSUME NEW k \in 1 .. n PROVE h[1 .. k] = TakeFrom(c, h[1 .. k - 1], list[k])
  <2>1. (1 .. k) \ {k} = 1 .. k - 1 /\ 1 .. k \in SUBSET S /\ k \in 1 .. k
      OBVIOUS
  <2>2. Max(1 .. k) = k
    <3>1. k \in 1 .. k /\ 1 .. k \subseteq Int /\ \A y \in 1 .. k : y <= k
        OBVIOUS
    <3> QED
        BY <3>1, MaxOf
  <2> QED
      BY <1>4, <2>1, <2>2
<1> QED
    BY <1>4, <1>5 DEF h, start

LEMMA EntryRounds ==
    ASSUME NEW c, NEW row, NEW wanted, IsFiniteSet(DOMAIN row.mix), DOMAIN row.mix \subseteq Nat
    PROVE  /\ EntryLoop(c, row, wanted)[{}] = [left |-> wanted, usd |-> AbsoluteMix(row)]
           /\ \A s \in SUBSET DOMAIN row.mix : s # {} =>
                EntryLoop(c, row, wanted)[s] = TakeEntry(c, row, EntryLoop(c, row, wanted)[s \ {Max(s)}], Max(s))
<1> DEFINE S == DOMAIN row.mix
           start == [left |-> wanted, usd |-> AbsoluteMix(row)]
           h == EntryLoop(c, row, wanted)
<1>2. \E g : Loops(g, "entries", c, row, start, SUBSET S)
    BY NumbersHaveLast, LoopExists
<1>3. \E g : g = [s \in SUBSET S |-> IF s = {} THEN start ELSE TakeEntry(c, row, g[s \ {Max(s)}], Max(s))]
    BY <1>2 DEF Loops, Round
<1>4. h = [s \in SUBSET S |-> IF s = {} THEN start ELSE TakeEntry(c, row, h[s \ {Max(s)}], Max(s))]
    BY <1>3 DEF EntryLoop
<1> HIDE DEF h, start
<1> QED
    BY <1>4 DEF h, start

-----------------------------------------------------------------------------
(* What the two loops take *)

\* A loop that drains wants no more than there is.
LEMMA DrainWanted ==
    ASSUME NEW avail, NEW rank, NEW wanted, Drains(avail, rank, wanted), NEW x \in DOMAIN avail
    PROVE  Drain(avail, rank, SmallerOf(SumOver(avail, DOMAIN avail), wanted))[x] = Drain(avail, rank, wanted)[x]
<1> DEFINE total == SumOver(avail, DOMAIN avail)
<1>1. total \in Fraction /\ wanted \in Fraction
    BY TotalType DEF Drains
<1>2. CASE Leq(total, wanted)
  <2>1. SmallerOf(total, wanted) = total /\ Leq(total, total)
      BY <1>1, <1>2, LeqLaws DEF SmallerOf
  <2>2. Drains(avail, rank, total)
      BY <1>1 DEF Drains
  <2> QED
      BY <1>2, <2>1, <2>2, DrainAll
<1>3. CASE ~Leq(total, wanted)
    BY <1>3 DEF SmallerOf
<1> QED
    BY <1>2, <1>3

\* The places of a mix, in their order.
Places(row) == [i \in DOMAIN row.mix |-> i]

LEMMA MixDrains ==
    ASSUME NEW row, Sound(row), NEW c, NEW wanted \in Fraction
    PROVE  /\ Drains(Matching(c, row), Places(row), wanted) /\ DOMAIN Matching(c, row) = DOMAIN row.mix
           /\ TakenFrom(c, row, wanted) = Drain(Matching(c, row), Places(row), wanted)
<1>1. DOMAIN row.mix \subseteq Nat
    BY DEF Sound, SoundMix
<1>2. DOMAIN Matching(c, row) = DOMAIN row.mix /\ IsFiniteSet(DOMAIN row.mix) /\ Fractional(Matching(c, row), DOMAIN row.mix)
    BY MatchingLaws
<1> QED
    BY <1>1, <1>2 DEF Drains, Places, TakenFrom

\* The inner loop of the browser takes from every entry what the server takes.
LEMMA EntriesTaken ==
    ASSUME NEW row, Sound(row), NEW c, NEW wanted \in Fraction
    PROVE  LET end == TakeMatching(c, row, wanted)
               total == SumAll(Matching(c, row))
           IN /\ end.left = Monus(wanted, total)
              /\ DOMAIN end.usd = DOMAIN row.mix
              /\ \A i \in DOMAIN row.mix : end.usd[i] = LeftIn(c, row, SmallerOf(total, wanted))[i]
<1> DEFINE S == DOMAIN row.mix
           m == Matching(c, row)
           h == EntryLoop(c, row, wanted)
           take == TakenFrom(c, row, wanted)
           all == AbsoluteMix(row)
           Closed(t) == \A i \in t, j \in S : j < i => j \in t
           Right(t) == /\ h[t].left = Monus(wanted, SumOver(m, t))
                       /\ DOMAIN h[t].usd = S
                       /\ \A i \in S : h[t].usd[i] = IF i \in t THEN Monus(all[i], take[i]) ELSE all[i]
           bad == {t \in SUBSET S : Closed(t) /\ ~Right(t)}
<1>1. /\ IsFiniteSet(S) /\ S \subseteq Nat /\ Fractional(m, S) /\ DOMAIN m = S /\ SumAll(m) = SumOver(m, S)
      /\ DOMAIN all = S
    BY MatchingLaws, AbsoluteLaws DEF Sound, SoundMix
<1>2. /\ h[{}] = [left |-> wanted, usd |-> all]
      /\ \A s \in SUBSET S : s # {} => h[s] = TakeEntry(c, row, h[s \ {Max(s)}], Max(s))
    BY <1>1, EntryRounds
<1>3. Drains(m, Places(row), wanted) /\ take = Drain(m, Places(row), wanted)
    BY MixDrains
<1>4. \A i \in S : m[i] = IF row.mix[i].pool \in c.target THEN all[i] ELSE Zero
    BY DEF Matching
<1>5. bad = {}
  <2> SUFFICES ASSUME bad # {} PROVE FALSE
      OBVIOUS
  <2>1. PICK t \in bad : IsFiniteSet(t) /\ \A x \in t : t \ {x} \notin bad
    <3>1. bad \subseteq SUBSET S /\ bad # {}
        OBVIOUS
    <3> HIDE DEF S, bad
    <3> QED
        BY <1>1, <3>1, MinimalSet
  <2>2. t # {}
    <3>1. SumOver(m, {}) = Zero /\ Monus(wanted, Zero) = wanted
        BY TotalEmpty, MonusLaws
    <3>2. Right({})
        BY <1>1, <1>2, <3>1
    <3> QED
        BY <3>2
  <2> DEFINE k == Max(t)
             u == t \ {k}
  <2>3. k \in t /\ \A y \in t : y <= k
    <3>1. t \subseteq Nat
        BY <1>1
    <3> QED
        BY <2>1, <2>2, <3>1, MaxIs
  <2>4. h[t] = TakeEntry(c, row, h[u], k)
      BY <1>2, <2>2
  <2> HIDE DEF k, h, m, take, all
  <2>5. k \in Nat /\ k \in S /\ \A y \in S : y \in Nat
      BY <1>1, <2>3
  <2>6. Before(m, Places(row), k) = u
    <3>1. \A y \in u : y < k
      <4> SUFFICES ASSUME NEW y \in u PROVE y < k
          OBVIOUS
      <4>1. y <= k /\ y # k /\ y \in Nat
          BY <2>1, <2>3, <2>5
      <4> QED
          BY <2>5, <4>1
    <3>2. \A y \in S : y < k => y \in u
        BY <2>3, <2>5
    <3> QED
        BY <1>1, <2>5, <3>1, <3>2 DEF Before, Places
  <2>7. Closed(u)
      BY <2>3, <2>5
  <2>8. Right(u)
      BY <2>1, <2>3, <2>7
  <2> DEFINE done == SumOver(m, u)
             left == Monus(wanted, done)
  <2>9. /\ take[k] = SmallerOf(m[k], left)
        /\ done \in Fraction /\ left \in Fraction /\ m[k] \in Fraction
      BY <1>1, <1>3, <2>5, <2>6, DrainTakes DEF LeftFor
  <2>10. IF row.mix[k].pool \in c.target THEN SmallerOf(h[u].usd[k], h[u].left) = take[k] ELSE Zero = take[k]
    <3>1. h[u].usd[k] = all[k] /\ h[u].left = left
        BY <2>5, <2>8
    <3> QED
        BY <1>4, <2>5, <2>9, <3>1, SmallerTaken
  <2>11. h[t] = [left |-> Monus(h[u].left, take[k]), usd |-> [h[u].usd EXCEPT ![k] = Monus(@, take[k])]]
      BY <2>4, <2>10 DEF TakeEntry
  <2>12. h[t].left = Monus(wanted, SumOver(m, t))
    <3>1. SumOver(m, t) = Plus(m[k], done)
      <4>1. Fractional(m, t)
          BY <1>1 DEF Fractional
      <4> QED
          BY <2>1, <2>3, <4>1, TotalOfElement
    <3>2. h[t].left = Monus(left, take[k])
        BY <2>8, <2>11
    <3>3. Monus(left, SmallerOf(m[k], left)) = Monus(left, m[k])
        BY <2>9, SmallerTaken
    <3>4. Monus(left, m[k]) = Monus(wanted, Plus(m[k], done))
        BY <2>9, MonusTwice
    <3> QED
        BY <2>9, <3>1, <3>2, <3>3, <3>4
  <2>13. DOMAIN h[t].usd = S
      BY <2>8, <2>11
  <2>14. ASSUME NEW i \in S PROVE h[t].usd[i] = IF i \in t THEN Monus(all[i], take[i]) ELSE all[i]
    <3>1. h[t].usd[i] = IF i = k THEN Monus(h[u].usd[k], take[k]) ELSE h[u].usd[i]
        BY <2>5, <2>8, <2>11
    <3>2. h[u].usd[k] = all[k] /\ h[u].usd[i] = IF i \in u THEN Monus(all[i], take[i]) ELSE all[i]
        BY <2>5, <2>8
    <3> QED
        BY <2>3, <3>1, <3>2
  <2> QED
      BY <2>12, <2>13, <2>14
<1>6. Right(S)
    BY <1>5
<1>7. TakeMatching(c, row, wanted) = h[S]
    BY MatchingIsLoop
<1>8. ASSUME NEW i \in S PROVE TakenFrom(c, row, SmallerOf(SumAll(m), wanted))[i] = take[i]
  <2>1. SumAll(m) \in Fraction
      BY MatchingLaws
  <2>2. SmallerOf(SumAll(m), wanted) \in Fraction
      BY <2>1, SmallerTaken
  <2>3. TakenFrom(c, row, SmallerOf(SumAll(m), wanted)) = Drain(m, Places(row), SmallerOf(SumAll(m), wanted))
      BY <2>2, MixDrains
  <2> QED
      BY <1>1, <1>3, <2>3, DrainWanted
<1> HIDE DEF m, take, h
<1>9. \A i \in S : h[S].usd[i] = LeftIn(c, row, SmallerOf(SumAll(m), wanted))[i]
    BY <1>6, <1>8 DEF LeftIn
<1> QED
    BY <1>1, <1>6, <1>7, <1>9 DEF m

\* Where the outer loop stands after a row: what is left, and the row as the
\* server leaves it, unless the server deletes it.
RowStep(s, next, avail, take, usd, item, after) ==
  /\ {"left", "kept"} \subseteq DOMAIN next
  /\ next.left = Monus(s.left, avail)
  /\ take = usd => next.kept \in {s.kept, s.kept \o <<>>}
  /\ take # usd => next.kept = s.kept \o <<IF take = Zero THEN item ELSE after>>

Taken(c, s, row)   == SmallerOf(Available(c, row), s.left)
Item(x, row)       == [id |-> x, row |-> row]
After(c, s, x, row) == Item(x, Reduced(c, row, Taken(c, s, row)))
Done(c, s, next, x, row) ==
  RowStep(s, next, Available(c, row), Taken(c, s, row), row.usd, Item(x, row), After(c, s, x, row))

\* What the three ways to change the loop's state change.
LEMMA RecordChanged ==
    ASSUME NEW s, {"left", "kept"} \subseteq DOMAIN s, NEW rows, NEW left
    PROVE  LET both == [[s EXCEPT !.kept = @ \o rows] EXCEPT !.left = left]
               one  == [s EXCEPT !.kept = @ \o rows]
               other == [s EXCEPT !.left = left]
           IN /\ {"left", "kept"} \subseteq DOMAIN both /\ both.left = left /\ both.kept = s.kept \o rows
              /\ {"left", "kept"} \subseteq DOMAIN one /\ one.left = s.left /\ one.kept = s.kept \o rows
              /\ {"left", "kept"} \subseteq DOMAIN other /\ other.left = left /\ other.kept = s.kept
OBVIOUS

\* A row with another amount and mix, and the item of it.
PoorerRow(row, usd)              == [row EXCEPT !.usd = usd]
ChangedRow(row, usd, mix)       == [row EXCEPT !.usd = usd, !.mix = mix]
PoorerItem(item, usd)         == [item EXCEPT !.row.usd = usd]
ChangedItem(item, usd, mix)   == [item EXCEPT !.row.usd = usd, !.row.mix = mix]

LEMMA ItemChanged ==
    ASSUME NEW row, {"usd", "mix"} \subseteq DOMAIN row, NEW x, NEW usd, NEW mix
    PROVE  /\ ChangedItem(Item(x, row), usd, mix) = Item(x, ChangedRow(row, usd, mix))
           /\ PoorerItem(Item(x, row), usd) = Item(x, PoorerRow(row, usd))
<1> USE DEF Item, PoorerRow, ChangedRow, PoorerItem, ChangedItem
<1> DEFINE item == [id |-> x, row |-> row]
           poor == [row EXCEPT !.usd = usd]
<1>1. [row EXCEPT !.usd = usd, !.mix = mix] = [poor EXCEPT !.mix = mix]
    OBVIOUS
<1>2. [item EXCEPT !.row.usd = usd] = [id |-> x, row |-> poor]
    OBVIOUS
<1>3. [[id |-> x, row |-> poor] EXCEPT !.row.mix = mix] = [id |-> x, row |-> [poor EXCEPT !.mix = mix]]
    OBVIOUS
<1>4. [item EXCEPT !.row.usd = usd, !.row.mix = mix] = [[item EXCEPT !.row.usd = usd] EXCEPT !.row.mix = mix]
    OBVIOUS
<1> QED
    BY <1>1, <1>2, <1>3, <1>4

\* applyLifoWithdraw, of a row.
LEMMA WholeTaken ==
    ASSUME NEW row, Sound(row), NEW c, c.op \in Withdrawals, c.op # "withdrawProtocol",
           NEW s, {"left", "kept"} \subseteq DOMAIN s, s.left \in Fraction, NEW x
    PROVE  Done(c, s, TakeWhole(s, Item(x, row)), x, row)
<1> DEFINE item == Item(x, row)
           next == TakeWhole(s, item)
           usd  == row.usd
           left == s.left
           take == Taken(c, s, row)
           after == After(c, s, x, row)
<1>1. Available(c, row) = usd /\ usd \in Fraction /\ usd # Zero /\ {"usd", "mix"} \subseteq DOMAIN row
    BY DEF Available, Sound
<1>2. after = Item(x, [row EXCEPT !.usd = Monus(usd, take)])
    BY DEF After, Reduced
<1>3. item.row.usd = usd /\ take = SmallerOf(usd, left)
    BY <1>1 DEF Item, Taken
<1> SUFFICES RowStep(s, next, usd, take, usd, item, after)
    BY <1>1 DEF Done
<1>4. CASE left = Zero
  <2>1. take = Zero /\ Monus(left, usd) = Zero
      BY <1>1, <1>3, <1>4, SmallerTaken
  <2>2. next = [s EXCEPT !.kept = @ \o <<item>>]
      BY <1>4 DEF TakeWhole, Keep
  <2>3. {"left", "kept"} \subseteq DOMAIN next /\ next.left = left /\ next.kept = s.kept \o <<item>>
      BY <2>2, RecordChanged
  <2> HIDE DEF next, item, take, after
  <2> QED
      BY <1>1, <1>4, <2>1, <2>3 DEF RowStep
<1>5. CASE left # Zero /\ Leq(usd, left)
  <2>1. take = usd
      BY <1>3, <1>5 DEF SmallerOf
  <2>2. next = [s EXCEPT !.left = Monus(left, usd)]
      BY <1>3, <1>5 DEF TakeWhole
  <2>3. {"left", "kept"} \subseteq DOMAIN next /\ next.left = Monus(left, usd) /\ next.kept = s.kept
      BY <2>2, RecordChanged
  <2> HIDE DEF next, item, take, after
  <2> QED
      BY <2>1, <2>3 DEF RowStep
<1>6. CASE left # Zero /\ ~Leq(usd, left)
  <2>1. take = left /\ take # Zero /\ take # usd /\ Monus(left, usd) = Zero
    <3>1. Leq(left, usd)
        BY <1>1, <1>6, LeqLaws
    <3>2. left # usd
        BY <1>1, <1>6, LeqLaws
    <3>3. Monus(left, usd) = Zero
        BY <1>1, <3>1, MonusLaws
    <3> QED
        BY <1>3, <1>6, <3>2, <3>3 DEF SmallerOf
  <2>2. LessBy(item, left) = after
    <3> DEFINE total == Monus(usd, left)
    <3>1. LessBy(item, left) = PoorerItem(item, total)
        BY <1>3 DEF LessBy, PoorerItem
    <3>2. after = Item(x, PoorerRow(row, total)) /\ item = Item(x, row)
        BY <1>2, <2>1 DEF PoorerRow
    <3> HIDE DEF total, item, after
    <3>3. PoorerItem(item, total) = Item(x, PoorerRow(row, total))
        BY <1>1, <3>2, ItemChanged
    <3> QED
        BY <3>1, <3>2, <3>3
  <2>3. next = [[s EXCEPT !.kept = @ \o <<after>>] EXCEPT !.left = Zero]
    <3> HIDE DEF item, after, take
    <3> QED
        BY <1>3, <1>6, <2>2 DEF TakeWhole, Keep
  <2>4. {"left", "kept"} \subseteq DOMAIN next /\ next.left = Zero /\ next.kept = s.kept \o <<after>>
    <3> HIDE DEF next, after
    <3> QED
        BY <2>3, RecordChanged
  <2> HIDE DEF next, take, after, item
  <2> QED
      BY <2>1, <2>4 DEF RowStep
<1> QED
    BY <1>4, <1>5, <1>6

\* applyTargetedWithdraw, of a row.
LEMMA TargetTaken ==
    ASSUME NEW row, Sound(row), NEW c, c.op = "withdrawProtocol",
           NEW s, {"left", "kept"} \subseteq DOMAIN s, s.left \in Fraction, NEW x
    PROVE  Done(c, s, TakeTargeted(c, s, Item(x, row)), x, row)
<1> DEFINE item  == Item(x, row)
           inner == TakeMatching(c, row, s.left)
           avail == SumAll(Matching(c, row))
           take  == Taken(c, s, row)
           total == Monus(row.usd, take)
           left  == LeftIn(c, row, take)
           mix   == Reweighted(row.mix, inner.usd, row.usd, total)
           after == After(c, s, x, row)
           next  == TakeTargeted(c, s, item)
<1>1. /\ Available(c, row) = avail /\ avail \in Fraction /\ Leq(avail, row.usd) /\ row.usd \in Fraction
      /\ row.usd # Zero /\ {"usd", "mix"} \subseteq DOMAIN row /\ take = SmallerOf(avail, s.left)
    BY MatchingLaws DEF Available, Sound, Taken
<1>2. /\ inner.left = Monus(s.left, avail)
      /\ \A i \in DOMAIN row.mix : inner.usd[i] = left[i]
    BY <1>1, EntriesTaken
<1>3. Monus(s.left, inner.left) = take /\ take \in Fraction
    BY <1>1, <1>2, SmallerTaken
<1>4. mix = Normalized(row.mix, left, total)
  <2>1. \A i \in DOMAIN row.mix : inner.usd[i] = left[i]
      BY <1>2
  <2> HIDE DEF inner, left, total
  <2>2. {i \in DOMAIN row.mix : Less(Zero, inner.usd[i])} = {i \in DOMAIN row.mix : Less(Zero, left[i])}
      BY <2>1
  <2> QED
      BY <2>1, <2>2 DEF Normalized, Reweighted
<1>5. after = [item EXCEPT !.row.usd = total, !.row.mix = mix]
  <2>1. Reduced(c, row, take) = [row EXCEPT !.usd = total, !.mix = Normalized(row.mix, left, total)]
      BY DEF Reduced, LeftIn, TakenFrom
  <2> HIDE DEF mix, total, left, take
  <2>2. after = Item(x, ChangedRow(row, total, mix)) /\ item = Item(x, row)
      BY <1>4, <2>1 DEF After, take, ChangedRow
  <2> HIDE DEF item, after
  <2>3. ChangedItem(item, total, mix) = Item(x, ChangedRow(row, total, mix))
      BY <1>1, <2>2, ItemChanged
  <2> QED
      BY <2>2, <2>3 DEF ChangedItem
<1>6. total = Zero <=> take = row.usd
  <2>1. Leq(take, avail)
      BY <1>1, LeqLaws
  <2>2. Leq(take, row.usd)
      BY <1>1, <1>3, <2>1, LeqTrans
  <2> QED
      BY <1>1, <1>3, <2>2, MonusLaws, LeqLaws
<1>7. next = IF take = Zero THEN Keep(s, <<item>>)
             ELSE [Keep(s, IF total = Zero THEN <<>> ELSE <<after>>) EXCEPT !.left = inner.left]
  <2>1. item.row = row
      BY DEF Item
  <2> DEFINE taken == Monus(s.left, inner.left)
             rest  == Monus(row.usd, taken)
             then  == [item EXCEPT !.row.usd = rest, !.row.mix = Reweighted(row.mix, inner.usd, row.usd, rest)]
  <2>2. next = IF taken = Zero THEN Keep(s, <<item>>)
               ELSE [Keep(s, IF rest = Zero THEN <<>> ELSE <<then>>) EXCEPT !.left = inner.left]
    <3> HIDE DEF item
    <3> QED
        BY <2>1 DEF TakeTargeted
  <2>3. taken = take /\ rest = total
      BY <1>3
  <2>4. then = after
      BY <1>5, <2>3
  <2> HIDE DEF next, taken, rest, then, after, inner, item, take, total
  <2> QED
      BY <2>2, <2>3, <2>4
<1> DEFINE kept == IF total = Zero THEN <<>> ELSE <<after>>
<1>8. take # Zero => {"left", "kept"} \subseteq DOMAIN next /\ next.left = inner.left /\ next.kept = s.kept \o kept
  <2>1. take # Zero => next = [[s EXCEPT !.kept = @ \o kept] EXCEPT !.left = inner.left]
    <3> HIDE DEF next, item, take, inner, total, after
    <3> QED
        BY <1>7 DEF Keep
  <2> HIDE DEF next, kept, take, inner
  <2> QED
      BY <2>1, RecordChanged
<1>9. take = Zero => {"left", "kept"} \subseteq DOMAIN next /\ next.left = s.left /\ next.kept = s.kept \o <<item>>
  <2>1. take = Zero => next = [s EXCEPT !.kept = @ \o <<item>>]
      BY <1>7 DEF Keep
  <2> HIDE DEF next, take, item
  <2> QED
      BY <2>1, RecordChanged
<1>10. take = Zero => Monus(s.left, avail) = s.left
  <2>1. Leq(avail, s.left) => avail = take
      BY <1>1 DEF SmallerOf
  <2>2. ~Leq(avail, s.left) => s.left = take
      BY <1>1 DEF SmallerOf
  <2>3. Monus(s.left, Zero) = s.left /\ Monus(Zero, avail) = Zero
      BY <1>1, MonusLaws, ZeroType, SmallerTaken
  <2> HIDE DEF take, avail
  <2> QED
      BY <2>1, <2>2, <2>3
<1>11. next.left = Monus(s.left, avail) /\ {"left", "kept"} \subseteq DOMAIN next
    BY <1>2, <1>8, <1>9, <1>10
<1> HIDE DEF next, inner, take, total, left, mix, after, avail, item
<1>12. RowStep(s, next, avail, take, row.usd, item, after)
    BY <1>1, <1>6, <1>8, <1>9, <1>11 DEF RowStep
<1> QED
    BY <1>1, <1>12 DEF Done, take, next, item, after

\* Any of the three, of a row that the server selects, and of one that it does not.
LEMMA RowTaken ==
    ASSUME NEW row, Sound(row), NEW c, c.op \in Withdrawals, c.op = "withdrawProduct" => row.product = c.product,
           NEW s, {"left", "kept"} \subseteq DOMAIN s, s.left \in Fraction, NEW x
    PROVE  Done(c, s, TakeFrom(c, s, Item(x, row)), x, row)
<1>1. CASE c.op = "withdraw"
    BY <1>1, WholeTaken DEF TakeFrom
<1>2. CASE c.op = "withdrawProduct"
    BY <1>2, WholeTaken DEF TakeFrom, TakeProduct, Item
<1>3. CASE c.op = "withdrawProtocol"
    BY <1>3, TargetTaken DEF TakeFrom
<1> QED
    BY <1>1, <1>2, <1>3 DEF Withdrawals

LEMMA RowSkipped ==
    ASSUME NEW row, NEW c, c.op = "withdrawProduct", row.product # c.product,
           NEW s, {"left", "kept"} \subseteq DOMAIN s, NEW x
    PROVE  LET next == TakeFrom(c, s, Item(x, row))
           IN /\ {"left", "kept"} \subseteq DOMAIN next /\ next.left = s.left
              /\ next.kept = s.kept \o <<Item(x, row)>>
<1> DEFINE item == Item(x, row)
           next == TakeFrom(c, s, item)
<1>1. next = [s EXCEPT !.kept = @ \o <<item>>]
    BY DEF TakeFrom, TakeProduct, Keep, Item
<1> HIDE DEF next, item
<1> QED
    BY <1>1, RecordChanged DEF next, item

\* The rows kept, with one more.
LEMMA OneMoreKept ==
    ASSUME NEW V, NEW s \in Seq(V), NEW e
    PROVE  /\ s \o <<>> = s /\ s \o <<e>> \in Seq(V \cup {e}) /\ Range(s \o <<e>>) = Range(s) \cup {e}
<1>1. s \in Seq(V \cup {e}) /\ <<e>> \in Seq(V \cup {e})
    OBVIOUS
<1>2. s \o <<>> = s
    OBVIOUS
<1> DEFINE t == s \o <<e>>
           n == Len(s)
<1>3. n \in Nat /\ DOMAIN s = 1 .. n
    OBVIOUS
<1>4. t \in Seq(V \cup {e}) /\ Len(t) = n + 1 /\ DOMAIN t = 1 .. n + 1
    BY <1>1
<1>5. t[n + 1] = e /\ \A i \in 1 .. n : t[i] = s[i]
    BY <1>1
<1> HIDE DEF t, n
<1>6. 1 .. n + 1 = (1 .. n) \cup {n + 1}
    BY <1>3
<1>7. Range(t) = Range(s) \cup {e}
    BY <1>3, <1>4, <1>5, <1>6 DEF Range
<1> QED
    BY <1>2, <1>4, <1>7 DEF t

\* The list that the browser shows.
LEMMA ListedRows ==
    ASSUME NEW S, IsFiniteSet(S), NEW order \in NewestFirst(S)
    PROVE  LET n == Cardinality(S)
               list == Listed(order)
           IN /\ n \in Nat /\ DOMAIN order = S /\ DOMAIN list = 1 .. n
              /\ \A x \in S : order[x] \in 1 .. n /\ list[order[x]] = Item(x, position[x])
              /\ \A x, y \in S : order[x] = order[y] => x = y
              /\ \A k \in 1 .. n : \E x \in S : order[x] = k
              /\ \A x, y \in S : position[x].at > position[y].at => order[x] < order[y]
<1> DEFINE n == Cardinality(S)
           list == Listed(order)
<1>1. n \in Nat
    BY FS_CardinalityType
<1>2. order \in Bijection(S, 1 .. n) /\ \A x, y \in S : position[x].at > position[y].at => order[x] < order[y]
    BY DEF NewestFirst
<1> HIDE DEF n
<1>3. order \in [S -> 1 .. n] /\ (\A x, y \in S : order[x] = order[y] => x = y) /\ \A k \in 1 .. n : \E x \in S : order[x] = k
    BY <1>2 DEF Bijection, Injection, Surjection, IsInjective
<1>4. DOMAIN order = S
    BY <1>3
<1>5. list = [k \in 1 .. n |-> LET x == CHOOSE y \in S : order[y] = k IN [id |-> x, row |-> position[x]]]
    BY <1>4 DEF Listed, n
<1>6. ASSUME NEW x \in S PROVE list[order[x]] = Item(x, position[x])
  <2>1. (CHOOSE y \in S : order[y] = order[x]) = x
      BY <1>3
  <2> QED
      BY <1>3, <1>5, <2>1 DEF Item
<1> QED
    BY <1>1, <1>2, <1>3, <1>4, <1>5, <1>6 DEF n

\* Place by place: what is left to be taken, and the rows that the server leaves.
LEMMA LoopOverRows ==
    ASSUME MInv, NEW r \in Requests, Withdraw(r), NEW rank, Served(r, rank),
           NEW order \in NewestFirst(OwnRows(call[r].user)),
           \A x, y \in Selected(call[r]) : order[x] < order[y] <=> rank[x] < rank[y]
    PROVE  Range(LocalWithdraw(call[r], Listed(order))) =
             {[id |-> x, row |-> position'[x]] : x \in OwnRows(call[r].user)'}
<1> DEFINE c == call[r]
           own == OwnRows(c.user)
           S == Selected(c)
           avail == Offers(r)
           take == Drain(avail, rank, c.usd)
           n == Cardinality(own)
           list == Listed(order)
           h == RowLoop(c, list)
           UpToPlace(k) == {x \in own : order[x] <= k}
           Right(k) == /\ {"left", "kept"} \subseteq DOMAIN h[1 .. k]
                       /\ h[1 .. k].left = Monus(c.usd, SumOver(avail, S \cap UpToPlace(k)))
                       /\ \E V : h[1 .. k].kept \in Seq(V)
                       /\ Range(h[1 .. k].kept) = {Item(x, position'[x]) : x \in UpToPlace(k) \cap DOMAIN position'}
<1>1. /\ own \in SUBSET DOMAIN position /\ IsFiniteSet(own) /\ \A x \in own : Sound(position[x])
      /\ S \in SUBSET own /\ IsFiniteSet(S)
  <2>1. own \in SUBSET DOMAIN position /\ S \in SUBSET own
      BY DEF OwnRows, Selected
  <2> QED
      BY <2>1, FS_Subset, SelectedRows DEF MInv, BooksInv, Table
<1>2. /\ n \in Nat /\ DOMAIN list = 1 .. n
      /\ \A x \in own : order[x] \in 1 .. n /\ list[order[x]] = Item(x, position[x])
      /\ \A x, y \in own : order[x] = order[y] => x = y
      /\ \A k \in 1 .. n : \E x \in own : order[x] = k
  <2>1. order \in NewestFirst(own)
      OBVIOUS
  <2> HIDE DEF own
  <2> QED
      BY <1>1, <2>1, ListedRows
<1>3. /\ h[{}] = [left |-> c.usd, kept |-> <<>>]
      /\ \A k \in 1 .. n : h[1 .. k] = TakeFrom(c, h[1 .. k - 1], list[k])
  <2> HIDE DEF list, n
  <2> QED
      BY <1>2, RowRounds
<1>4. /\ DOMAIN avail = S /\ \A x \in S : avail[x] = Available(c, position[x]) /\ avail[x] \in Fraction
      /\ c.usd \in Fraction /\ c.op \in Withdrawals
  <2>1. DOMAIN avail = S /\ \A x \in S : avail[x] = Available(c, position[x])
      BY DEF Offers
  <2>2. \A x \in S : avail[x] \in Fraction
      BY <1>1, <2>1, AvailableLaws
  <2> QED
      BY <2>1, <2>2, CallType DEF MInv, CallInv, Withdraw
<1>5. /\ Drains(avail, rank, c.usd)
      /\ DOMAIN position' = DOMAIN position \ {x \in S : take[x] = position[x].usd}
      /\ \A x \in DOMAIN position' :
           position'[x] = IF x \in S /\ take[x] # Zero THEN Reduced(c, position[x], take[x]) ELSE position[x]
    BY DEF Served, Takes
<1>6. \A x \in own \ S : c.op = "withdrawProduct" /\ position[x].product # c.product
    BY DEF Selected
<1>7. \A x \in S : c.op = "withdrawProduct" => position[x].product = c.product
    BY DEF Selected
<1>8. \A x, y \in S : order[x] < order[y] <=> rank[x] < rank[y]
    OBVIOUS
<1> HIDE DEF h, n, list, own, S, avail, take, c
<1> DEFINE bad == {k \in 0 .. n : ~Right(k)}
<1>9. bad = {}
  <2> SUFFICES ASSUME bad # {} PROVE FALSE
      OBVIOUS
  <2>1. PICK m \in bad : \A k \in bad : m <= k
    <3>1. bad \in SUBSET Nat
        BY <1>2
    <3> HIDE DEF bad
    <3> QED
        BY <3>1, Least
  <2>2. m \in 0 .. n /\ m \in Nat /\ ~Right(m)
      BY <1>2, <2>1
  <2>3. m # 0
    <3> SUFFICES Right(0)
        BY <2>2
    <3>1. 1 .. 0 = {} /\ UpToPlace(0) = {}
        BY <1>2
    <3>2. h[1 .. 0] = [left |-> c.usd, kept |-> <<>>]
        BY <1>3, <3>1
    <3>3. {"left", "kept"} \subseteq DOMAIN h[1 .. 0] /\ h[1 .. 0].left = c.usd /\ h[1 .. 0].kept = <<>>
        BY <3>2
    <3>4. Monus(c.usd, SumOver(avail, S \cap UpToPlace(0))) = c.usd
      <4>1. SumOver(avail, {}) = Zero /\ S \cap UpToPlace(0) = {}
          BY <3>1, TotalEmpty
      <4> QED
          BY <1>4, <4>1, MonusLaws
    <3>5. <<>> \in Seq({}) /\ Range(<<>>) = {}
        BY DEF Range
    <3>6. {Item(x, position'[x]) : x \in UpToPlace(0) \cap DOMAIN position'} = {}
        BY <3>1
    <3> QED
        BY <3>3, <3>4, <3>5, <3>6
  <2> DEFINE k == m - 1
             s == h[1 .. k]
             next == h[1 .. m]
             A == UpToPlace(k)
  <2>4. k \in 0 .. n /\ m \in 1 .. n /\ Right(k)
    <3>1. k \in 0 .. n /\ m \in 1 .. n /\ ~(m <= k)
        BY <1>2, <2>2, <2>3
    <3> QED
        BY <2>1, <3>1
  <2>5. PICK x \in own : order[x] = m
      BY <1>2, <2>4
  <2> DEFINE row == position[x]
  <2>6. next = TakeFrom(c, s, Item(x, row))
      BY <1>2, <1>3, <2>4, <2>5
  <2>7. UpToPlace(m) = A \cup {x} /\ x \notin A
    <3>1. \A y \in own : order[y] <= m <=> order[y] <= k \/ y = x
      <4> SUFFICES ASSUME NEW y \in own PROVE order[y] <= m <=> order[y] <= k \/ y = x
          OBVIOUS
      <4>1. order[y] \in Nat /\ order[x] = m /\ (order[y] = m => y = x)
          BY <1>2, <2>5
      <4> QED
          BY <2>2, <4>1
    <3>2. ~(order[x] <= k)
        BY <2>2, <2>5
    <3> QED
        BY <2>5, <3>1, <3>2
  <2> DEFINE B == S \cap A
             done == SumOver(avail, B)
  <2>8. IsFiniteSet(B) /\ Fractional(avail, B) /\ done \in Fraction
    <3>1. IsFiniteSet(B) /\ Fractional(avail, B)
        BY <1>1, <1>4, FS_Subset DEF Fractional
    <3> QED
        BY <3>1, TotalType
  <2>9. /\ {"left", "kept"} \subseteq DOMAIN s /\ s.left = Monus(c.usd, done) /\ s.left \in Fraction
        /\ Range(s.kept) = {Item(y, position'[y]) : y \in A \cap DOMAIN position'}
      BY <1>4, <2>4, <2>8, MonusLaws
  <2>10. PICK V : s.kept \in Seq(V)
      BY <2>4
  <2> HIDE DEF s, next, A, k
  <2>11. x \in DOMAIN position /\ Sound(row)
      BY <1>1, <2>5
  <2>12. CASE x \notin S
    <3>1. /\ {"left", "kept"} \subseteq DOMAIN next /\ next.left = s.left
          /\ next.kept = s.kept \o <<Item(x, row)>>
        BY <1>6, <2>5, <2>6, <2>9, <2>12, RowSkipped
    <3>2. x \in DOMAIN position' /\ position'[x] = row
        BY <1>5, <2>11, <2>12
    <3>3. next.kept \in Seq(V \cup {Item(x, row)}) /\ Range(next.kept) = Range(s.kept) \cup {Item(x, row)}
        BY <2>10, <3>1, OneMoreKept
    <3>4. S \cap UpToPlace(m) = B
        BY <2>7, <2>12
    <3>5. Range(next.kept) = {Item(y, position'[y]) : y \in UpToPlace(m) \cap DOMAIN position'}
        BY <2>7, <2>9, <3>2, <3>3
    <3>6. Right(m)
        BY <2>9, <3>1, <3>3, <3>4, <3>5 DEF next
    <3> QED
        BY <2>2, <3>6
  <2>13. CASE x \in S
    <3>1. Done(c, s, next, x, row)
        BY <1>4, <1>7, <2>6, <2>9, <2>11, <2>13, RowTaken
    <3>2. Before(avail, rank, x) = B
      <4>1. \A y \in S : rank[y] < rank[x] <=> order[y] <= k
        <5> SUFFICES ASSUME NEW y \in S PROVE rank[y] < rank[x] <=> order[y] <= k
            OBVIOUS
        <5>1. order[y] \in Nat /\ order[x] = m
            BY <1>1, <1>2, <2>5
        <5>2. order[y] < m <=> order[y] <= k
            BY <2>2, <5>1 DEF k
        <5> QED
            BY <1>8, <2>13, <5>1, <5>2
      <4> QED
          BY <1>1, <1>4, <4>1 DEF Before, A
    <3>3. take[x] = SmallerOf(avail[x], s.left)
      <4>1. Drains(avail, rank, c.usd) /\ x \in DOMAIN avail
          BY <1>4, <1>5, <2>13
      <4>2. take[x] = SmallerOf(avail[x], LeftFor(avail, rank, c.usd, x))
          BY <4>1, DrainTakes DEF take
      <4> QED
          BY <2>9, <3>2, <4>2 DEF LeftFor
    <3>4. Taken(c, s, row) = take[x] /\ Available(c, row) = avail[x] /\ avail[x] \in Fraction
        BY <1>4, <2>13, <3>3 DEF Taken
    <3>5. /\ {"left", "kept"} \subseteq DOMAIN next /\ next.left = Monus(s.left, avail[x])
          /\ take[x] = row.usd => next.kept \in {s.kept, s.kept \o <<>>}
          /\ take[x] # row.usd =>
               next.kept = s.kept \o <<IF take[x] = Zero THEN Item(x, row) ELSE Item(x, Reduced(c, row, take[x]))>>
        BY <3>1, <3>4 DEF Done, RowStep, After
    <3>6. next.left = Monus(c.usd, SumOver(avail, S \cap UpToPlace(m)))
      <4>1. S \cap UpToPlace(m) = B \cup {x} /\ x \notin B
          BY <2>7, <2>13
      <4>2. Fractional(avail, B \cup {x})
          BY <2>8, <3>4 DEF Fractional
      <4>3. SumOver(avail, B \cup {x}) = Plus(avail[x], done)
          BY <2>8, <4>1, <4>2, TotalAdd
      <4>4. Monus(Monus(c.usd, done), avail[x]) = Monus(c.usd, Plus(avail[x], done))
          BY <1>4, <2>8, <3>4, MonusTwice
      <4> QED
          BY <2>9, <3>5, <4>1, <4>3, <4>4
    <3>7. CASE take[x] = row.usd
      <4>1. x \notin DOMAIN position'
          BY <1>5, <2>13, <3>7
      <4>2. next.kept = s.kept
          BY <2>10, <3>5, <3>7, OneMoreKept
      <4>3. UpToPlace(m) \cap DOMAIN position' = A \cap DOMAIN position'
          BY <2>7, <4>1
      <4>4. Right(m)
          BY <2>9, <2>10, <3>5, <3>6, <4>2, <4>3 DEF next
      <4> QED
          BY <2>2, <4>4
    <3>8. CASE take[x] # row.usd
      <4>1. x \in DOMAIN position'
          BY <1>5, <2>11, <3>8
      <4>2. next.kept = s.kept \o <<Item(x, position'[x])>>
        <5>1. position'[x] = IF take[x] = Zero THEN row ELSE Reduced(c, row, take[x])
            BY <1>5, <2>13, <4>1
        <5> QED
            BY <3>5, <3>8, <5>1
      <4> DEFINE e == Item(x, position'[x])
      <4>3. next.kept \in Seq(V \cup {e}) /\ Range(next.kept) = Range(s.kept) \cup {e}
          BY <2>10, <4>2, OneMoreKept
      <4>4. Range(next.kept) = {Item(y, position'[y]) : y \in UpToPlace(m) \cap DOMAIN position'}
          BY <2>7, <2>9, <4>1, <4>3
      <4>5. Right(m)
          BY <3>5, <3>6, <4>3, <4>4 DEF next
      <4> QED
          BY <2>2, <4>5
    <3> QED
        BY <3>7, <3>8
  <2> QED
      BY <2>12, <2>13
<1>10. Right(n)
  <2>1. n \in 0 .. n
      BY <1>2
  <2> QED
      BY <1>9, <2>1
<1>11. UpToPlace(n) = own
    BY <1>2
<1>12. LocalWithdraw(c, list) = h[1 .. n].kept
    BY <1>2, WithdrawIsLoop DEF h
<1>13. OwnRows(c.user)' = own \cap DOMAIN position'
  <2>1. DOMAIN position' \subseteq DOMAIN position /\ \A x \in DOMAIN position' : position'[x].user = position[x].user
      BY WithdrawRows DEF MInv, RowsShrink
  <2>2. call' = call
      BY DEF Withdraw
  <2> QED
      BY <2>1, <2>2 DEF OwnRows, own, c
<1> QED
    BY <1>10, <1>11, <1>12, <1>13 DEF Item, c, list

-----------------------------------------------------------------------------
(* An order of some of the rows, and one of all of them *)

Newest(order, S, n) ==
  /\ order \in [S -> 1 .. n]
  /\ \A x, y \in S : order[x] = order[y] => x = y
  /\ \A k \in 1 .. n : \E x \in S : order[x] = k
  /\ \A x, y \in S : position[x].at > position[y].at => order[x] < order[y]

\* f lists the rows of S in the order in which g does.
Alike(f, g, S) == \A x, y \in S : f[x] < f[y] <=> g[x] < g[y]
Dated(S)       == \A x \in S : position[x].at \in Int

LEMMA NewestIs ==
    ASSUME NEW S, NEW order PROVE order \in NewestFirst(S) <=> Newest(order, S, Cardinality(S))
BY DEF NewestFirst, Newest, Bijection, Injection, Surjection, IsInjective

\* A row finds its place behind the last newer one.
LEMMA OneMoreRow ==
    ASSUME NEW S, IsFiniteSet(S), NEW x, x \notin S, Dated(S \cup {x}), NEW n \in Nat, NEW g, Newest(g, S, n)
    PROVE  \E f : Newest(f, S \cup {x}, n + 1) /\ Alike(f, g, S)
<1> DEFINE at(y) == position[y].at
           newer == {y \in S : at(y) > at(x)}
<1>1. /\ \A y \in S : g[y] \in 1 .. n /\ g[y] \in Nat
      /\ \A y, z \in S : g[y] = g[z] => y = z
      /\ \A k \in 1 .. n : \E y \in S : g[y] = k
      /\ \A y, z \in S : at(y) > at(z) => g[y] < g[z]
    BY DEF Newest
<1>2. at(x) \in Int /\ \A y \in S : at(y) \in Int
    BY DEF Dated
<1> HIDE DEF at
<1>3. \E p \in 1 .. n + 1 : \A y \in S : (at(y) > at(x) => g[y] < p) /\ (at(x) > at(y) => g[y] >= p)
  <2>1. CASE newer = {}
    <3>1. 1 \in 1 .. n + 1 /\ \A y \in S : ~(at(y) > at(x)) /\ g[y] >= 1
        BY <1>1, <2>1
    <3> QED
        BY <3>1
  <2>2. CASE newer # {}
    <3>1. IsFiniteSet(newer) /\ \A y \in newer : g[y] \in Nat
        BY <1>1, FS_Subset
    <3>2. PICK z \in newer : \A y \in newer : g[y] <= g[z]
        BY <2>2, <3>1, LastRank
    <3> DEFINE p == g[z] + 1
    <3>3. z \in S /\ at(z) > at(x) /\ g[z] \in Nat /\ p \in 1 .. n + 1
        BY <1>1, <3>2
    <3>4. ASSUME NEW y \in S, at(y) > at(x) PROVE g[y] < p
        BY <1>1, <3>2, <3>3, <3>4
    <3>5. ASSUME NEW y \in S, at(x) > at(y) PROVE g[y] >= p
      <4>1. at(z) > at(y)
          BY <1>2, <3>3, <3>5
      <4> QED
          BY <1>1, <3>3, <4>1
    <3> QED
        BY <3>3, <3>4, <3>5
  <2> QED
      BY <2>1, <2>2
<1>4. PICK p \in 1 .. n + 1 : \A y \in S : (at(y) > at(x) => g[y] < p) /\ (at(x) > at(y) => g[y] >= p)
    BY <1>3
<1> DEFINE f == [y \in S \cup {x} |-> IF y = x THEN p ELSE IF g[y] < p THEN g[y] ELSE g[y] + 1]
<1>5. f[x] = p /\ p \in Nat /\ \A y \in S : f[y] = IF g[y] < p THEN g[y] ELSE g[y] + 1
    OBVIOUS
<1>6. f \in [S \cup {x} -> 1 .. n + 1]
  <2>1. \A y \in S : f[y] \in 1 .. n + 1
      BY <1>1, <1>5
  <2>2. f[x] \in 1 .. n + 1
      BY <1>5
  <2> QED
      BY <2>1, <2>2
<1> HIDE DEF f
<1>7. ASSUME NEW y \in S \cup {x}, NEW z \in S \cup {x}, f[y] = f[z] PROVE y = z
  <2>1. \A w \in S : f[w] # p
      BY <1>1, <1>5
  <2>2. CASE y \in S /\ z \in S
    <3>1. g[y] = g[z]
        BY <1>1, <1>5, <1>7, <2>2
    <3> QED
        BY <1>1, <2>2, <3>1
  <2> QED
      BY <1>5, <1>7, <2>1, <2>2
<1>8. ASSUME NEW k \in 1 .. n + 1 PROVE \E y \in S \cup {x} : f[y] = k
  <2>1. CASE k = p
      BY <1>5, <2>1
  <2>2. CASE k < p
    <3>1. k \in 1 .. n
        BY <2>2
    <3>2. PICK y \in S : g[y] = k
        BY <1>1, <3>1
    <3> QED
        BY <1>5, <2>2, <3>2
  <2>3. CASE k > p
    <3>1. k - 1 \in 1 .. n /\ ~(k - 1 < p) /\ (k - 1) + 1 = k
        BY <1>5, <2>3
    <3>2. PICK y \in S : g[y] = k - 1
        BY <1>1, <3>1
    <3> QED
        BY <1>5, <3>1, <3>2
  <2> QED
      BY <1>5, <2>1, <2>2, <2>3
<1>9. ASSUME NEW y \in S, NEW z \in S PROVE f[y] < f[z] <=> g[y] < g[z]
  <2>1. g[y] \in Nat /\ g[z] \in Nat
      BY <1>1
  <2> QED
      BY <1>5, <2>1
<1>10. ASSUME NEW y \in S \cup {x}, NEW z \in S \cup {x}, at(y) > at(z) PROVE f[y] < f[z]
  <2>1. CASE y \in S /\ z \in S
      BY <1>1, <1>9, <1>10, <2>1
  <2>2. CASE y = x /\ z \in S
    <3>1. g[z] \in Nat /\ g[z] >= p
        BY <1>1, <1>4, <1>10, <2>2
    <3> QED
        BY <1>5, <2>2, <3>1
  <2>3. CASE y \in S /\ z = x
    <3>1. g[y] \in Nat /\ g[y] < p
        BY <1>1, <1>4, <1>10, <2>3
    <3> QED
        BY <1>5, <2>3, <3>1
  <2>4. ~(y = x /\ z = x)
      BY <1>2, <1>10
  <2> QED
      BY <2>1, <2>2, <2>3, <2>4
<1>11. Newest(f, S \cup {x}, n + 1)
    BY <1>6, <1>7, <1>8, <1>10 DEF Newest, at
<1> QED
    BY <1>9, <1>11 DEF Alike

\* Rows may be listed, newest first, so that some of them keep their order.
LEMMA OrderExtends ==
    ASSUME NEW S, IsFiniteSet(S), Dated(S), NEW T \in SUBSET S, NEW rank \in NewestFirst(T)
    PROVE  \E order \in NewestFirst(S) : Alike(order, rank, T)
<1> DEFINE bad == {t \in SUBSET S : T \subseteq t /\ ~\E order \in NewestFirst(t) : Alike(order, rank, T)}
<1> SUFFICES ASSUME bad # {} PROVE FALSE
    OBVIOUS
<1>1. PICK t \in bad : IsFiniteSet(t) /\ \A x \in t : t \ {x} \notin bad
  <2>1. bad \subseteq SUBSET S
      OBVIOUS
  <2> HIDE DEF bad
  <2> QED
      BY <2>1, MinimalSet
<1>2. t # T
    BY DEF Alike
<1>3. PICK x \in t : x \notin T
    BY <1>1, <1>2
<1> DEFINE u == t \ {x}
           n == Cardinality(u)
<1>4. IsFiniteSet(u) /\ n \in Nat /\ Cardinality(t) = n + 1 /\ u \cup {x} = t /\ x \notin u
  <2>1. IsFiniteSet(u) /\ n = Cardinality(t) - 1 /\ Cardinality(t) \in Nat
      BY <1>1, <1>3, FS_RemoveElement, FS_CardinalityType
  <2>2. n \in Nat
      BY <2>1, FS_CardinalityType
  <2> QED
      BY <1>3, <2>1, <2>2
<1>5. PICK g \in NewestFirst(u) : Alike(g, rank, T)
    BY <1>1, <1>3
<1>6. Newest(g, u, n)
    BY <1>5, NewestIs
<1>7. Dated(u \cup {x})
    BY <1>4 DEF Dated
<1> HIDE DEF u, n
<1>8. PICK f : Newest(f, u \cup {x}, n + 1) /\ Alike(f, g, u)
  <2>1. IsFiniteSet(u) /\ n \in Nat /\ x \notin u
      BY <1>4
  <2> QED
      BY <1>6, <1>7, <2>1, OneMoreRow
<1>9. f \in NewestFirst(t)
    BY <1>4, <1>8, NewestIs
<1>10. Alike(f, rank, T)
  <2>1. T \subseteq u
      BY <1>1, <1>3 DEF u
  <2> QED
      BY <1>5, <1>8, <2>1 DEF Alike
<1> QED
    BY <1>9, <1>10

\* Rows carry the time at which they were created.
Timed(row) == "at" \in DOMAIN row /\ row.at \in Int
TimeInv == stamp \in [Requests -> Int] /\ \A x \in DOMAIN position : Timed(position[x])

LEMMA StepTimes == ASSUME MInv, TimeInv, NEW r \in Requests, Step(r) PROVE TimeInv'
<1>1. CASE Arrive(r)
  <2>1. UNCHANGED position /\ (UNCHANGED stamp \/ \E t \in Clock : stamp' = [stamp EXCEPT ![r] = t])
      BY <1>1 DEF Arrive
  <2> QED
      BY <2>1, BoundsAssumption DEF TimeInv
<1>2. CASE CreateInsert(r)
  <2>1. position' = With(position, r, RowOf(r)) /\ UNCHANGED stamp
      BY <1>2 DEF CreateInsert
  <2>2. Timed(RowOf(r))
      BY DEF TimeInv, Timed, RowOf
  <2> QED
      BY <2>1, <2>2 DEF TimeInv, With
<1>3. CASE ReadBack(r) \/ AdjustFind(r) \/ DbError(r)
    BY <1>3 DEF ReadBack, AdjustFind, DbError, TimeInv
<1>4. CASE AdjustWrite(r)
  <2>1. /\ UNCHANGED stamp
        /\ \/ UNCHANGED position
           \/ \E x \in DOMAIN position :
                position' = [position EXCEPT ![x].usd = call[r].usd, ![x].mix = call[r].mix]
      BY <1>4 DEF AdjustWrite
  <2>2. ASSUME NEW x \in DOMAIN position,
               position' = [position EXCEPT ![x].usd = call[r].usd, ![x].mix = call[r].mix]
        PROVE  TimeInv'
    <3>1. DOMAIN position' = DOMAIN position
        BY <2>2
    <3>2. ASSUME NEW y \in DOMAIN position PROVE "at" \in DOMAIN position'[y] /\ position'[y].at = position[y].at
        BY <2>2 DEF TimeInv, Timed
    <3> QED
      <4>1. \A y \in DOMAIN position' : "at" \in DOMAIN position'[y] /\ position'[y].at \in Int
          BY <3>1, <3>2 DEF TimeInv, Timed
      <4> QED
          BY <2>1, <4>1 DEF TimeInv, Timed
  <2> QED
      BY <2>1, <2>2 DEF TimeInv
<1>5. CASE Withdraw(r)
  <2>1. PICK take : Takes(r, take)
      BY <1>5, WithdrawTakes
  <2>2. \A c, row, t : Timed(row) => Timed(Reduced(c, row, t))
      BY DEF Timed, Reduced
  <2>3. \A x \in DOMAIN position' :
          /\ x \in DOMAIN position
          /\ position'[x] = position[x] \/ position'[x] = Reduced(call[r], position[x], take[x])
      BY <2>1 DEF Takes
  <2>4. UNCHANGED stamp
      BY <1>5 DEF Withdraw
  <2> QED
      BY <2>2, <2>3, <2>4 DEF TimeInv, Timed
<1>6. CASE Reset(r)
    BY <1>6 DEF Reset, Without, TimeInv
<1> QED
    BY <1>1, <1>2, <1>3, <1>4, <1>5, <1>6 DEF Step

LEMMA TimesInvariance == Spec => [](MInv /\ TimeInv)
<1>1. Init => MInv /\ TimeInv
  <2>1. Init => MInv
      BY InitBooks
  <2>2. Init => TimeInv
      BY DEF Init, TimeInv, Empty
  <2> QED
      BY <2>1, <2>2
<1>2. MInv /\ TimeInv /\ [Next]_vars => (MInv /\ TimeInv)'
  <2> SUFFICES ASSUME MInv, TimeInv, [Next]_vars PROVE TimeInv'
      BY NextBooks
  <2>1. CASE UNCHANGED vars
      BY <2>1 DEF vars, TimeInv
  <2>2. CASE Crash
      BY <2>2 DEF Crash, TimeInv
  <2> QED
      BY <2>1, <2>2, StepTimes DEF Next
<1> QED
    BY <1>1, <1>2, PTL DEF Spec

\* The two implementations of a withdrawal agree: the rows that the server is
\* left with are those that the browser's function would have shown
\* (withdrawStrategies.ts against withdraw*Amount in positions.ts).
THEOREM ImplementationsAgree == Spec => BrowserAgrees
<1> DEFINE Agree == \A r \in Requests : Withdraws(r) =>
             \E rank \in NewestFirst(OwnRows(call[r].user)) :
               Range(LocalWithdraw(call[r], Listed(rank))) = {[id |-> x, row |-> position'[x]] : x \in OwnRows(call[r].user)'}
<1>1. ASSUME MInv, TimeInv, [Next]_vars PROVE Agree
  <2> SUFFICES ASSUME NEW r \in Requests, Withdraws(r)
               PROVE  \E rank \in NewestFirst(OwnRows(call[r].user)) :
                        Range(LocalWithdraw(call[r], Listed(rank))) =
                          {[id |-> x, row |-> position'[x]] : x \in OwnRows(call[r].user)'}
      OBVIOUS
  <2> DEFINE c == call[r]
             own == OwnRows(c.user)
  <2>1. Withdraw(r)
      BY <1>1, WithdrawsIs
  <2>2. PICK rank : Served(r, rank)
      BY <1>1, <2>1, WithdrawIsServed
  <2>3. own \in SUBSET DOMAIN position /\ Selected(c) \in SUBSET own
      BY DEF OwnRows, Selected
  <2>4. IsFiniteSet(own) /\ Dated(own)
      BY <1>1, <2>3, FS_Subset DEF MInv, BooksInv, Table, TimeInv, Timed, Dated
  <2>5. rank \in NewestFirst(Selected(c))
      BY <2>2 DEF Served
  <2>6. PICK order \in NewestFirst(own) : Alike(order, rank, Selected(c))
    <3> HIDE DEF own, c
    <3> QED
        BY <2>3, <2>4, <2>5, OrderExtends
  <2> QED
      BY <1>1, <2>1, <2>2, <2>6, LoopOverRows DEF Alike
<1> QED
    BY <1>1, TimesInvariance, PTL DEF Spec, BrowserAgrees
=============================================================================

---------------------------- MODULE DepositLedger ----------------------------
(***************************************************************************)
(* The deposit and withdrawal ledgers of the users: server/positions.ts    *)
(* with the /api/portfolio routes of server/index.ts.                      *)
(*                                                                         *)
(* A deposit is a row with an amount in USD and a mix of pools, each with  *)
(* its weight in the amount.  Withdrawals take from the newest rows first  *)
(* and run in one database transaction, which SQLite serialises: one       *)
(* action.  Creating and adjusting a row are two or three separate awaits, *)
(* and everything else may run between them.                               *)
(*                                                                         *)
(* Amounts and weights are exact fractions: the code computes with doubles *)
(* and treats less than 0.000001 USD as nothing.  A row is named by the    *)
(* request that created it, as the ids are random.                         *)
(***************************************************************************)
EXTENDS Fractions, FiniteSets, Sequences

CONSTANTS
  Users,      \* usernames
  Products,   \* product names, trimmed
  Pools,      \* the entries of a mix: protocol, chain and pool label
  Requests,   \* HTTP requests
  Calls,      \* what a request may ask for
  Clock,      \* bound: readings of the wall clock, which may step back
  MaxFaults   \* bound: crashes and database errors

Withdrawals == {"withdraw", "withdrawProduct", "withdrawProtocol"}

MixEntry == [pool : Pools, weight : Fraction]

\* What a client sends.  `usd` is the amount; `mix` a list of entries; `target`
\* the pools that a protocol withdrawal's protocol, chain and pool label match.
Call == [op : {"create", "adjust", "reset"} \cup Withdrawals, user : Users,
         product : Products, usd : Fraction, mix : Seq(MixEntry), target : SUBSET Pools]

ASSUME CallsAssumption == Calls \subseteq Call
ASSUME BoundsAssumption == Clock \subseteq Int /\ 0 \in Clock /\ MaxFaults \in Nat

VARIABLES
  position,    \* the deposit_positions table: row id -> row
  withdrawal,  \* the withdrawal_ledger table: row id -> user and amount
  call,        \* what each request asks for
  pc,          \* the await each request is suspended at
  stamp,       \* the createdAt a create request has read
  found,       \* the row an adjust request has found, as a set of at most one
  answer,      \* the response to each request
  booked,      \* history: what each user's deposits and adjustments amount to
  faults       \* faults so far

vars == <<position, withdrawal, call, pc, stamp, found, answer, booked, faults>>

InFlight == {"insert", "find", "write", "readBack", "transaction"}

Empty == [x \in {} |-> Zero]

Init ==
  /\ position = Empty
  /\ withdrawal = Empty
  /\ call \in [Requests -> Calls]
  /\ pc = [r \in Requests |-> "idle"]
  /\ stamp = [r \in Requests |-> 0]
  /\ found = [r \in Requests |-> {}]
  /\ answer = [r \in Requests |-> [kind |-> "none", usd |-> Zero]]
  /\ booked = [u \in Users |-> Zero]
  /\ faults = 0

-----------------------------------------------------------------------------
(* Helpers *)

Goto(r, from, to) == pc[r] = from /\ pc' = [pc EXCEPT ![r] = to]

Reply(r, from, kind, usd) ==
  /\ Goto(r, from, "done")
  /\ answer' = [answer EXCEPT ![r] = [kind |-> kind, usd |-> usd]]

Without(f, S) == [x \in DOMAIN f \ S |-> f[x]]
With(f, x, v) == [y \in DOMAIN f \cup {x} |-> IF y = x THEN v ELSE f[y]]

OwnRows(u) == {x \in DOMAIN position : position[x].user = u}
OwnWithdrawals(u) == {x \in DOMAIN withdrawal : withdrawal[x].user = u}

\* Mutant: the weights are not summed up.
Valid_AnyWeights(c) == c.op # "reset" => Less(Zero, c.usd)

\* assertValidPositionCreate and assertValidWithdrawAmount.
Valid(c) ==
  /\ c.op # "reset" => Less(Zero, c.usd)
  /\ c.op \in {"create", "adjust"} =>
       Leq(SumAll([i \in DOMAIN c.mix |-> c.mix[i].weight]), Whole(1))

\* Mutants: the loop does not stop when nothing remains to be taken; it stops
\* after the first row.
Drain_FirstOnly(avail, rank, wanted) ==
  [x \in DOMAIN avail |-> IF rank[x] = 1 THEN SmallerOf(avail[x], wanted) ELSE Zero]

\* The loop that both kinds of withdrawal run: go through the keys of avail in
\* the order of rank, take from each what it has, until `wanted` is reached.
Drain(avail, rank, wanted) ==
  [x \in DOMAIN avail |->
     SmallerOf(avail[x],
               Monus(wanted, SumOver(avail, {y \in DOMAIN avail : rank[y] < rank[x]})))]

\* Mutant: oldest first.
NewestFirst_Ascending(S) ==
  {rank \in Bijection(S, 1 .. Cardinality(S)) :
     \A x, y \in S : position[x].at < position[y].at => rank[x] < rank[y]}

\* orderBy createdAt desc: rows of the same millisecond come in any order.
NewestFirst(S) ==
  {rank \in Bijection(S, 1 .. Cardinality(S)) :
     \A x, y \in S : position[x].at > position[y].at => rank[x] < rank[y]}

-----------------------------------------------------------------------------
(* Arrival: the route and the validation at the top of each function *)

FirstAwait(op) ==
  CASE op = "create" -> "insert"
    [] op = "adjust" -> "find"
    [] OTHER         -> "transaction"

Arrive(r) ==
  /\ \/ ~Valid(call[r]) /\ Reply(r, "idle", "error", Zero) /\ UNCHANGED stamp
     \/ /\ Valid(call[r])
        /\ Goto(r, "idle", FirstAwait(call[r].op))
        /\ IF call[r].op = "create" THEN \E t \in Clock : stamp' = [stamp EXCEPT ![r] = t]
                                    ELSE UNCHANGED stamp
        /\ UNCHANGED answer
  /\ UNCHANGED <<position, withdrawal, call, found, booked, faults>>

-----------------------------------------------------------------------------
(* POST /api/portfolio/positions, and the row that an execution adds *)

RowOf(r) == [user |-> call[r].user, product |-> call[r].product,
             usd |-> call[r].usd, mix |-> call[r].mix, at |-> stamp[r]]

CreateInsert(r) ==
  /\ Goto(r, "insert", "readBack")
  /\ position' = With(position, r, RowOf(r))
  /\ booked' = [booked EXCEPT ![call[r].user] = Plus(@, call[r].usd)]
  /\ UNCHANGED <<withdrawal, call, stamp, found, answer, faults>>

\* findUniqueOrThrow, of the row just inserted or just adjusted: the row may be
\* gone again, and then the request is answered with an error.
ReadBack(r) ==
  /\ LET x == IF call[r].op = "create" THEN {r} ELSE found[r] IN
     \/ /\ x \subseteq DOMAIN position
        /\ \E y \in x : Reply(r, "readBack", "ok", position[y].usd)
     \/ /\ ~(x \subseteq DOMAIN position)
        /\ Reply(r, "readBack", "error", Zero)
  /\ UNCHANGED <<position, withdrawal, call, stamp, found, booked, faults>>

-----------------------------------------------------------------------------
(* POST /api/portfolio/positions/adjust *)

\* findFirst: the newest row of the product, any of them if several are.
AdjustFind(r) ==
  /\ LET rows == {x \in OwnRows(call[r].user) : position[x].product = call[r].product} IN
     \/ /\ rows = {}
        /\ Reply(r, "find", "error", Zero)
        /\ UNCHANGED found
     \/ \E x \in rows :
          /\ \A y \in rows : position[y].at <= position[x].at
          /\ found' = [found EXCEPT ![r] = {x}]
          /\ Goto(r, "find", "write")
          /\ UNCHANGED answer
  /\ UNCHANGED <<position, withdrawal, call, stamp, booked, faults>>

\* Mutant: an upsert.
AdjustWrite_Upsert(r) ==
  \E x \in found[r] :
    /\ Goto(r, "write", "readBack")
    /\ position' = With(position, x, [RowOf(r) EXCEPT !.at = stamp[x]])
    /\ booked' = [booked EXCEPT ![call[r].user] =
                    Monus(Plus(@, call[r].usd), IF x \in DOMAIN position THEN position[x].usd ELSE Zero)]
    /\ UNCHANGED <<withdrawal, call, stamp, found, answer, faults>>

\* The row found before gets the amount and the mix of the request, whatever
\* happened to it in between; update throws when the row is gone.
AdjustWrite(r) ==
  /\ \E x \in found[r] :
       \/ /\ x \in DOMAIN position
          /\ Goto(r, "write", "readBack")
          /\ position' = [position EXCEPT ![x].usd = call[r].usd, ![x].mix = call[r].mix]
          /\ booked' = [booked EXCEPT ![call[r].user] =
                          Monus(Plus(@, call[r].usd), position[x].usd)]
          /\ UNCHANGED answer
       \/ /\ x \notin DOMAIN position
          /\ Reply(r, "write", "error", Zero)
          /\ UNCHANGED <<position, booked>>
  /\ UNCHANGED <<withdrawal, call, stamp, found, faults>>

-----------------------------------------------------------------------------
(* POST /api/portfolio/withdraw, withdraw-product and withdraw-protocol *)

\* Mutant: every user's rows.
Selected_AllUsers(c) ==
  {x \in DOMAIN position : c.op = "withdrawProduct" => position[x].product = c.product}

Selected(c) ==
  {x \in OwnRows(c.user) : c.op = "withdrawProduct" => position[x].product = c.product}

\* The USD in each entry of the row's mix, and in the entries that match.
AbsoluteMix(row) == [i \in DOMAIN row.mix |-> Times(row.usd, row.mix[i].weight)]
Matching(c, row) ==
  [i \in DOMAIN row.mix |-> IF row.mix[i].pool \in c.target THEN AbsoluteMix(row)[i] ELSE Zero]

\* What the withdrawal can take from a row.
Available(c, row) == IF c.op = "withdrawProtocol" THEN SumAll(Matching(c, row)) ELSE row.usd

\* normalizeMixFromAbsoluteAmounts: an entry with nothing in it goes.  The others
\* keep their places, which name them and their order.
Normalized(mix, usd, total) ==
  [i \in {j \in DOMAIN mix : Less(Zero, usd[j])} |-> [mix[i] EXCEPT !.weight = Ratio(usd[i], total)]]

\* Mutant: the weights are left as they were.
Reduced_SameWeights(c, row, take) == [row EXCEPT !.usd = Monus(@, take)]

\* The row after `take` USD were taken from it: its pools share the loss, but
\* for a protocol withdrawal, which takes from the matching entries in turn.
Reduced(c, row, take) ==
  LET total   == Monus(row.usd, take)
      matched == Matching(c, row)
      taken   == Drain(matched, [i \in DOMAIN matched |-> i], take)
      left    == [i \in DOMAIN row.mix |-> Monus(AbsoluteMix(row)[i], taken[i])]
  IN IF c.op = "withdrawProtocol"
     THEN [row EXCEPT !.usd = total, !.mix = Normalized(row.mix, left, total)]
     ELSE [row EXCEPT !.usd = total]

\* The withdrawal_ledger row.
LedgerEntry(c, actual) == [user |-> c.user, usd |-> actual]

\* One transaction: drain the rows, delete the emptied ones, and note what was
\* taken, if anything, in the withdrawal ledger.
Withdraw(r) ==
  LET c == call[r] IN
  /\ c.op \in Withdrawals
  /\ \E rank \in NewestFirst(Selected(c)) :
       LET take   == Drain([x \in Selected(c) |-> Available(c, position[x])], rank, c.usd)
           actual == SumAll(take)
           gone   == {x \in Selected(c) : take[x] = position[x].usd}
       IN /\ position' = [x \in DOMAIN position \ gone |->
                            IF x \in Selected(c) /\ take[x] # Zero
                            THEN Reduced(c, position[x], take[x]) ELSE position[x]]
          /\ withdrawal' = IF actual = Zero THEN withdrawal
                           ELSE With(withdrawal, r, LedgerEntry(c, actual))
          /\ Reply(r, "transaction", "ok", actual)
  /\ UNCHANGED <<call, stamp, found, booked, faults>>

-----------------------------------------------------------------------------
(* POST /api/portfolio/reset-ledger *)

\* Mutant: the withdrawals are kept.
Reset_KeepsWithdrawals(r) ==
  /\ call[r].op = "reset"
  /\ position' = Without(position, OwnRows(call[r].user))
  /\ booked' = [booked EXCEPT ![call[r].user] = Zero]
  /\ Reply(r, "transaction", "ok", Zero)
  /\ UNCHANGED <<withdrawal, call, stamp, found, faults>>

Reset(r) ==
  /\ call[r].op = "reset"
  /\ position' = Without(position, OwnRows(call[r].user))
  /\ withdrawal' = Without(withdrawal, {x \in DOMAIN withdrawal : withdrawal[x].user = call[r].user})
  /\ booked' = [booked EXCEPT ![call[r].user] = Zero]
  /\ Reply(r, "transaction", "ok", Zero)
  /\ UNCHANGED <<call, stamp, found, faults>>

-----------------------------------------------------------------------------
(* Faults *)

\* A database call rejects; a transaction is rolled back.
DbError(r) ==
  /\ pc[r] \in InFlight
  /\ faults < MaxFaults
  /\ faults' = faults + 1
  /\ Reply(r, pc[r], "error", Zero)
  /\ UNCHANGED <<position, withdrawal, call, stamp, found, booked>>

Crash ==
  /\ faults < MaxFaults
  /\ \E r \in Requests : pc[r] \in InFlight
  /\ faults' = faults + 1
  /\ pc' = [r \in Requests |-> IF pc[r] \in InFlight THEN "lost" ELSE pc[r]]
  /\ UNCHANGED <<position, withdrawal, call, stamp, found, answer, booked>>

-----------------------------------------------------------------------------

Step(r) ==
  \/ Arrive(r) \/ CreateInsert(r) \/ ReadBack(r)
  \/ AdjustFind(r) \/ AdjustWrite(r)
  \/ Withdraw(r) \/ Reset(r) \/ DbError(r)

Next == (\E r \in Requests : Step(r)) \/ Crash

Spec == Init /\ [][Next]_vars

-----------------------------------------------------------------------------
(* Properties *)

\* No dollar is lost or made: what a user has and what he has withdrawn since
\* the last reset is what he has deposited and adjusted since.
Conservation ==
  \A u \in Users :
    Plus(SumAll([x \in OwnRows(u) |-> position[x].usd]),
         SumAll([x \in OwnWithdrawals(u) |-> withdrawal[x].usd]))
    = booked[u]

\* No row is left with nothing in it, or with weights that exceed its amount.
RowsAreSound ==
  \A x \in DOMAIN position :
    /\ Less(Zero, position[x].usd)
    /\ Leq(SumAll([i \in DOMAIN position[x].mix |-> position[x].mix[i].weight]), Whole(1))

\* A create that was answered with an error left nothing behind, unless the
\* database failed: the only error after the insert is that a withdrawal or a
\* reset has taken the row away, and nothing brings a row back.
ErrorLeavesNoRow ==
  \A r \in Requests :
    faults = 0 /\ call[r].op = "create" /\ answer[r].kind = "error" => r \notin DOMAIN position

\* A step of one request leaves the rows and withdrawals of the other users
\* alone, and those of another product too unless it asks for all products.
TouchesOnlyItsOwn ==
  [][\A r \in Requests, x \in Requests :
       /\ pc'[r] # pc[r]
       /\ x \in DOMAIN position /\ (x \notin DOMAIN position' \/ position'[x] # position[x])
       => /\ position[x].user = call[r].user
          /\ call[r].op \in {"adjust", "withdrawProduct"} => position[x].product = call[r].product]_vars

\* The request whose transaction commits in this step is a withdrawal.
Withdraws(r) == call[r].op \in Withdrawals /\ answer'[r] # answer[r] /\ answer'[r].kind = "ok"
Rest(c, x)   == IF x \in DOMAIN position' THEN Available(c, position'[x]) ELSE Zero

\* Last in, first out: a withdrawal takes from a row only when every newer row
\* has nothing more to give.
LastInFirstOut ==
  [][\A r \in Requests : Withdraws(r) =>
       \A x, y \in Selected(call[r]) :
         position[x].at > position[y].at /\ Less(Rest(call[r], y), Available(call[r], position[y]))
         => Rest(call[r], x) = Zero]_vars

\* A withdrawal that is answered with less than it asked for has left nothing.
ShortfallMeansEmpty ==
  [][\A r \in Requests : Withdraws(r) /\ Less(answer'[r].usd, call[r].usd) =>
       \A x \in Selected(call[r]) : Rest(call[r], x) = Zero]_vars

\* positions.ts:323: a protocol withdrawal keeps the absolute USD amount of
\* every other pool.
OtherPoolsKeepTheirUsd ==
  [][\A r \in Requests : Withdraws(r) /\ call[r].op = "withdrawProtocol" =>
       \A x \in DOMAIN position, pool \in Pools \ call[r].target :
         LET only == [call[r] EXCEPT !.target = {pool}]
         IN Rest(only, x) = SumAll(Matching(only, position[x]))]_vars
=============================================================================

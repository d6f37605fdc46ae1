---------------------------- MODULE BrowserLedger ----------------------------
(***************************************************************************)
(* Withdrawals as the browser computes them: src/lib/withdrawStrategies.ts *)
(* over the listed rows, which App.tsx uses instead of the server when the *)
(* user has no wallet connected.  Here they run beside DepositLedger.      *)
(*                                                                         *)
(* A listed row is [id, row]; the list is newest first.                    *)
(***************************************************************************)
EXTENDS DepositLedger, SequencesExt

Listed(rank) == [k \in 1 .. Cardinality(DOMAIN rank) |->
                   LET x == CHOOSE y \in DOMAIN rank : rank[y] = k
                   IN [id |-> x, row |-> position[x]]]

\* The loops carry what remains to be taken and the rows kept so far.
Keep(s, rows) == [s EXCEPT !.kept = @ \o rows]
LessBy(item, usd) == [item EXCEPT !.row.usd = Monus(@, usd)]

\* applyLifoWithdraw
TakeWhole(s, item) ==
  IF s.left = Zero THEN Keep(s, <<item>>)
  ELSE IF Leq(item.row.usd, s.left) THEN [s EXCEPT !.left = Monus(@, item.row.usd)]
  ELSE [Keep(s, <<LessBy(item, s.left)>>) EXCEPT !.left = Zero]

\* applyProductWithdraw
TakeProduct(c, s, item) ==
  IF item.row.product # c.product THEN Keep(s, <<item>>) ELSE TakeWhole(s, item)

\* The inner loop of applyTargetedWithdraw, over the USD in each entry of a mix.
TakeEntry(c, row, s, i) ==
  LET take == IF row.mix[i].pool \in c.target THEN SmallerOf(s.usd[i], s.left) ELSE Zero
  IN [left |-> Monus(s.left, take), usd |-> [s.usd EXCEPT ![i] = Monus(@, take)]]

TakeMatching(c, row, wanted) ==
  MapThenFoldSet(LAMBDA i, s : TakeEntry(c, row, s, i), [left |-> wanted, usd |-> AbsoluteMix(row)],
                 LAMBDA i : i, LAMBDA places : Max(places), DOMAIN row.mix)

\* Mutant: over the amount before the withdrawal.
Reweighted_OldTotal(mix, usd, before, total) == Normalized(mix, usd, before)
Reweighted(mix, usd, before, total) == Normalized(mix, usd, total)

\* applyTargetedWithdraw
TakeTargeted(c, s, item) ==
  LET inner == TakeMatching(c, item.row, s.left)
      taken == Monus(s.left, inner.left)
      total == Monus(item.row.usd, taken)
      next  == [item EXCEPT !.row.usd = total,
                            !.row.mix = Reweighted(item.row.mix, inner.usd, item.row.usd, total)]
  IN IF taken = Zero THEN Keep(s, <<item>>)
     ELSE [Keep(s, IF total = Zero THEN <<>> ELSE <<next>>) EXCEPT !.left = inner.left]

TakeFrom(c, s, item) ==
  CASE c.op = "withdraw"         -> TakeWhole(s, item)
    [] c.op = "withdrawProduct"  -> TakeProduct(c, s, item)
    [] c.op = "withdrawProtocol" -> TakeTargeted(c, s, item)

\* What App.tsx leaves on the screen.
LocalWithdraw(c, list) == FoldLeft(LAMBDA s, item : TakeFrom(c, s, item), [left |-> c.usd, kept |-> <<>>], list).kept

-----------------------------------------------------------------------------

\* The two implementations of a withdrawal agree: the rows that the server is
\* left with are those that the browser's function would have shown, for one of
\* the orders in which rows of the same millisecond may be listed.
\* (withdrawStrategies.ts against withdraw*Amount in positions.ts.)
BrowserAgrees ==
  [][\A r \in Requests : Withdraws(r) =>
       \E rank \in NewestFirst(OwnRows(call[r].user)) :
         Range(LocalWithdraw(call[r], Listed(rank))) = {[id |-> x, row |-> position'[x]] : x \in OwnRows(call[r].user)'}]_vars
==============================================================================

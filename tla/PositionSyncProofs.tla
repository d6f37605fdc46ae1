------------------------- MODULE PositionSyncProofs -------------------------
(***************************************************************************)
(* The properties of PositionSync, for all rows, wallets, requests and     *)
(* values.                                                                 *)
(*                                                                         *)
(* A verdict with a value names the balance of the wallet it was read from *)
(* (VerdictIsBalance).  From that read on, the value is among those the    *)
(* wallet had while the request ran (Current), whatever moves meanwhile;   *)
(* Total need not be expanded for that.  What an empty balance means for   *)
(* the single positions (ClosedOnlyOnEmptyRead, PublicEmptyIsEmpty) rests  *)
(* on the sums of SumTheorems.                                             *)
(***************************************************************************)
EXTENDS PositionSync, SumTheorems

Shape ==
    /\ DOMAIN req = Requests /\ \A q \in Requests : DOMAIN req[q] = DOMAIN Idle
    /\ DOMAIN task = Requests
    /\ \A q \in Requests : DOMAIN task[q] = Rows
    /\ \A q \in Requests, r \in Rows : DOMAIN task[q][r] = DOMAIN NoTask
    /\ DOMAIN window = Requests
    /\ \A q \in Requests : DOMAIN window[q] = EvmWallets
    /\ \A q \in Requests, w \in EvmWallets : DOMAIN window[q][w] = Rows
    /\ DOMAIN row = Rows
    /\ \A r \in Rows : DOMAIN row[r] = {"status", "value", "pnl", "data"}

\* Only Orca rows have a Solana wallet.
Recorded == \A r \in Rows : home[r] \in Wallets /\ (protocol[r] = "Orca" <=> home[r] \in SolanaWallets)

HasValue(v) == v.status \in {"verified", "drift"}

\* The values of a request's verdicts are balances its wallets had in its time.
Current(q, r) ==
    /\ task[q][r].stage # "none" => req[q].stage = "reading"
    /\ task[q][r].stage = "read" => ~task[q][r].cached
    /\ task[q][r].cached => ~req[q].force
    /\ task[q][r].stage \in {"persist", "account", "done"} /\ ~task[q][r].cached /\ HasValue(task[q][r].verdict)
          => /\ WalletFor(q, r) \in EvmWallets
             /\ task[q][r].verdict.value \in window[q][WalletFor(q, r)][r]

PInv(q) ==
    /\ req[q].evm \in EvmWallets \cup {NoWallet}
    /\ req[q].stage = "reading" => \A w \in EvmWallets, r \in Rows : Balance(w, r) \in window[q][w][r]
    /\ \A r \in Rows : Current(q, r)

IInv == Shape /\ Recorded /\ \A q \in Requests : PInv(q)

-----------------------------------------------------------------------------
\* A value in a verdict is what the wallet holds.
LEMMA VerdictIsBalance ==
    ASSUME NEW w, NEW r \in Rows, NEW down \in BOOLEAN, NEW broken,
           w \notin SolanaWallets, HasValue(VerdictOn(w, r, down, broken))
    PROVE  w # NoWallet /\ VerdictOn(w, r, down, broken).value = Balance(w, r)
<1> DEFINE v == VerdictOn(w, r, down, broken)
<1>1. w # NoWallet
    BY DEF VerdictOn, Verdict, HasValue
<1>2. ASSUME NEW stored, NEW onchain, NEW percent, HasValue(Compare(stored, onchain, percent))
      PROVE  Compare(stored, onchain, percent).value = onchain
    BY <1>2 DEF Compare, Verdict, HasValue
<1>3. ASSUME NEW scan, NEW matching, NEW stored, NEW value, NEW percent,
             HasValue(FromScan(scan, matching, stored, value, percent))
      PROVE  /\ ~scan.threw /\ scan.found # {}
             /\ FromScan(scan, matching, stored, value, percent).value = value
  <2>1. ~scan.threw /\ scan.found # {} /\ matching # {}
      BY <1>3 DEF FromScan, Verdict, HasValue
  <2>2. FromScan(scan, matching, stored, value, percent) = Compare(stored, value, percent)
      BY <2>1 DEF FromScan
  <2> QED
      BY <1>2, <1>3, <2>1, <2>2
<1>4. CASE protocol[r] = "Orca"
  <2>1. v = VerifyOrca(w, r, down, broken)
      BY <1>1, <1>4 DEF VerdictOn
  <2>2. ~HasValue(VerifyOrca(w, r, down, broken))
      BY <1>3 DEF VerifyOrca, Threw
  <2> QED
      BY <2>1, <2>2
<1>5. CASE protocol[r] = "Aave"
  <2>1. v = VerifyAave(w, r, down)
      BY <1>1, <1>5 DEF VerdictOn
  <2>2. v = Compare(db[r], Balance(w, r), 5)
      BY <2>1 DEF VerifyAave, Verdict, HasValue
  <2> QED
      BY <1>1, <1>2, <2>2
<1>6. CASE protocol[r] = "Uniswap"
  <2>1. v = VerifyUniswap(w, r, down)
      BY <1>1, <1>6 DEF VerdictOn
  <2>2. ~HasValue(VerifyUniswap(w, r, down))
      BY <1>3 DEF VerifyUniswap, ScanUniswap, Threw, Found
  <2> QED
      BY <2>1, <2>2
<1>7. CASE protocol[r] = "Curve"
  <2>1. v = VerifyCurve(w, r, broken)
      BY <1>1, <1>7 DEF VerdictOn
  <2> QED
      BY <1>1, <1>3, <2>1 DEF VerifyCurve
<1>8. CASE protocol[r] \notin {"Orca", "Aave", "Uniswap", "Curve"}
    BY <1>1, <1>8 DEF VerdictOn, Verdict, HasValue
<1> QED
    BY <1>4, <1>5, <1>6, <1>7, <1>8

LEMMA BalanceKept ==
    ASSUME protocol' = protocol, pool' = pool, hold' = hold, NEW w, NEW r
    PROVE  Balance(w, r)' = Balance(w, r)
BY DEF Balance, HeldIn, Accounts

\* The wallet a row is read from is one of EVM, or none.
LEMMA WalletForIsEvm ==
    ASSUME IInv, NEW q \in Requests, NEW r \in Rows
    PROVE  WalletFor(q, r) \in EvmWallets \cup {NoWallet} /\ WalletFor(q, r) \notin SolanaWallets
<1>1. req[q].evm \in EvmWallets \cup {NoWallet}
    BY DEF IInv, PInv
<1>2. protocol[r] = "Aave" => home[r] \in EvmWallets
    BY DEF IInv, Recorded, Wallets
<1> QED
    BY <1>1, <1>2, WalletsAssumption DEF WalletFor, Wallets

LEMMA InitHolds == Init => IInv
<1> SUFFICES ASSUME Init PROVE IInv
    OBVIOUS
<1>1. Recorded
    BY DEF Init, Recorded
<1>2. Shape
  <2>1. DOMAIN row = Rows /\ \A r \in Rows : DOMAIN row[r] = {"status", "value", "pnl", "data"}
      BY DEF Init
  <2> QED
      BY <2>1 DEF Init, Shape
<1>3. ASSUME NEW q \in Requests PROVE PInv(q)
  <2>1. req[q].evm = NoWallet /\ req[q].stage = "idle"
      BY DEF Init, Idle
  <2>2. \A r \in Rows : task[q][r].stage = "none" /\ task[q][r].cached = FALSE
      BY DEF Init, NoTask
  <2> QED
      BY <2>1, <2>2 DEF PInv, Current
<1> QED
    BY <1>1, <1>2, <1>3 DEF IInv

-----------------------------------------------------------------------------
(* What a step of request q leaves to the others.                          *)

Frame(q) ==
    /\ protocol' = protocol /\ pool' = pool /\ home' = home /\ hold' = hold
    /\ \A p \in Requests \ {q} : req'[p] = req[p] /\ task'[p] = task[p] /\ window'[p] = window[p]

LEMMA FrameKeeps ==
    ASSUME IInv, NEW q \in Requests, Frame(q), Shape', PInv(q)' PROVE IInv'
<1>1. Recorded'
    BY DEF IInv, Recorded, Frame
<1>2. ASSUME NEW p \in Requests \ {q} PROVE PInv(p)'
  <2>1. req'[p] = req[p] /\ task'[p] = task[p] /\ window'[p] = window[p]
      BY DEF Frame
  <2>2. \A w \in EvmWallets, r \in Rows : Balance(w, r)' = Balance(w, r)
      BY BalanceKept DEF Frame
  <2>3. \A r \in Rows : WalletFor(p, r)' = WalletFor(p, r)
      BY <2>1 DEF WalletFor, Frame
  <2>4. PInv(p)
      BY DEF IInv
  <2>5. req'[p].stage = "reading" => \A w \in EvmWallets, r \in Rows : Balance(w, r)' \in window'[p][w][r]
      BY <2>1, <2>2, <2>4 DEF PInv
  <2>6. \A r \in Rows : Current(p, r)'
      BY <2>1, <2>3, <2>4 DEF PInv, Current
  <2> QED
      BY <2>1, <2>4, <2>5, <2>6 DEF PInv
<1> QED
    BY <1>1, <1>2 DEF IInv

\* A step of one verification.
OneTask(q, r) ==
    /\ DOMAIN task' = Requests /\ \A p \in Requests \ {q} : task'[p] = task[p]
    /\ DOMAIN task'[q] = Rows /\ \A s \in Rows \ {r} : task'[q][s] = task[q][s]
    /\ DOMAIN task'[q][r] = DOMAIN NoTask
    /\ task'[q][r].cached = task[q][r].cached

LEMMA TaskKeeps ==
    ASSUME IInv, NEW q \in Requests, NEW r \in Rows, OneTask(q, r),
           UNCHANGED <<recorded, hold, req, window>>,
           DOMAIN row' = Rows, \A s \in Rows : DOMAIN row'[s] = DOMAIN row[s],
           task[q][r].stage # "none", task'[q][r].stage # "read",
           task'[q][r].stage \in {"persist", "account", "done"} /\ ~task[q][r].cached
               /\ HasValue(task'[q][r].verdict)
               => /\ WalletFor(q, r) \in EvmWallets
                  /\ task'[q][r].verdict.value \in window[q][WalletFor(q, r)][r]
    PROVE  IInv'
<1>1. /\ protocol' = protocol /\ pool' = pool /\ home' = home /\ hold' = hold
      /\ req' = req /\ window' = window
    BY DEF recorded
<1>2. Shape'
  <2>1. ASSUME NEW p \in Requests PROVE DOMAIN task'[p] = Rows
      BY DEF IInv, Shape, OneTask
  <2>2. ASSUME NEW p \in Requests, NEW s \in Rows PROVE DOMAIN task'[p][s] = DOMAIN NoTask
    <3>1. DOMAIN task[p][s] = DOMAIN NoTask
        BY DEF IInv, Shape
    <3> QED
        BY <3>1 DEF OneTask
  <2>3. Shape
      BY DEF IInv
  <2> QED
      BY <1>1, <2>1, <2>2, <2>3 DEF Shape, OneTask
<1>3. Frame(q)
    BY <1>1 DEF Frame, OneTask
<1>4. \A w \in EvmWallets, s \in Rows : Balance(w, s)' = Balance(w, s)
    BY <1>1, BalanceKept
<1>5. \A s \in Rows : WalletFor(q, s)' = WalletFor(q, s)
    BY <1>1 DEF WalletFor
<1>6. PInv(q)
    BY DEF IInv
<1>7. ASSUME NEW s \in Rows PROVE Current(q, s)'
  <2>1. Current(q, s) /\ Current(q, r)
      BY <1>6 DEF PInv
  <2>2. CASE s = r
      BY <1>1, <1>5, <2>1, <2>2 DEF Current, OneTask
  <2>3. CASE s # r
      BY <1>1, <1>5, <2>1, <2>3 DEF Current, OneTask
  <2> QED
      BY <2>2, <2>3
<1>8. PInv(q)'
    BY <1>1, <1>4, <1>6, <1>7 DEF PInv
<1> QED
    BY <1>2, <1>3, <1>8, FrameKeeps

\* The three steps of a verification.
LEMMA ReadKeeps == ASSUME IInv, NEW q \in Requests, NEW r \in Rows, Read(q, r) PROVE IInv'
<1> DEFINE w == WalletFor(q, r)
<1>1. PICK down \in BOOLEAN, broken \in SUBSET Rows :
         LET v == VerdictOn(w, r, down, broken) IN
         task' = [task EXCEPT
             ![q][r].stage = IF v.status \in {"rpc_error", "unsupported"} THEN "done" ELSE "persist",
             ![q][r].verdict = v,
             ![q][r].failed = v.status = "rpc_error" /\ (down \/ w = NoWallet),
             ![q][r].saw = IF v.status = "closed_onchain" THEN SawAtClosing(w, r) ELSE "none"]
    BY DEF Read
<1> DEFINE v == VerdictOn(w, r, down, broken)
<1>2. Shape /\ task[q][r].stage = "read" /\ PInv(q) /\ Current(q, r)
    BY DEF IInv, Read, PInv
<1>3. w \notin SolanaWallets /\ w \in EvmWallets \cup {NoWallet}
    BY WalletForIsEvm
<1>4. HasValue(v) => w \in EvmWallets /\ v.value \in window[q][w][r]
  <2>1. req[q].stage = "reading"
      BY <1>2 DEF Current
  <2> HIDE DEF w
  <2>2. HasValue(v) => w # NoWallet /\ v.value = Balance(w, r)
      BY <1>3, VerdictIsBalance
  <2> HIDE DEF v
  <2> QED
      BY <1>2, <1>3, <2>1, <2>2 DEF PInv
<1> DEFINE stage == IF v.status \in {"rpc_error", "unsupported"} THEN "done" ELSE "persist"
           failed == v.status = "rpc_error" /\ (down \/ w = NoWallet)
           saw == IF v.status = "closed_onchain" THEN SawAtClosing(w, r) ELSE "none"
<1>5. /\ stage \in {"done", "persist"}
      /\ task' = [task EXCEPT ![q][r].stage = stage, ![q][r].verdict = v,
                              ![q][r].failed = failed, ![q][r].saw = saw]
    BY <1>1
<1> HIDE DEF v, w, stage, failed, saw
<1>6. OneTask(q, r) /\ task'[q][r].stage = stage /\ task'[q][r].verdict = v
  <2> DEFINE new == [task[q][r] EXCEPT !.stage = stage, !.verdict = v, !.failed = failed, !.saw = saw]
  <2>1. task' = [task EXCEPT ![q] = [task[q] EXCEPT ![r] = new]]
      BY <1>5
  <2>2. DOMAIN new = DOMAIN NoTask /\ new.cached = task[q][r].cached
        /\ new.stage = stage /\ new.verdict = v
      BY <1>2 DEF Shape, NoTask
  <2> HIDE DEF new
  <2> QED
      BY <1>2, <2>1, <2>2 DEF Shape, OneTask
<1>7. UNCHANGED <<recorded, hold, req, window>>
    BY DEF Read
<1>8. DOMAIN row' = Rows /\ \A s \in Rows : DOMAIN row'[s] = DOMAIN row[s]
    BY <1>2 DEF Read, Shape
<1>9. HasValue(task'[q][r].verdict) =>
         WalletFor(q, r) \in EvmWallets /\ task'[q][r].verdict.value \in window[q][WalletFor(q, r)][r]
    BY <1>4, <1>6 DEF w
<1>10. task[q][r].stage # "none" /\ task'[q][r].stage # "read"
    BY <1>2, <1>5, <1>6
<1> QED
    BY <1>6, <1>7, <1>8, <1>9, <1>10, TaskKeeps

LEMMA WriteKeeps ==
    ASSUME IInv, NEW q \in Requests, NEW r \in Rows, Persist(q, r) \/ Account(q, r) PROVE IInv'
<1>1. Shape /\ PInv(q) /\ Current(q, r)
    BY DEF IInv, PInv
<1>2. task[q][r].stage \in {"persist", "account"}
    BY DEF Persist, Account
<1>3. PICK stage \in {"done", "account"} : task' = [task EXCEPT ![q][r].stage = stage]
    BY DEF Persist, Account
<1>4. OneTask(q, r) /\ task'[q][r].stage = stage /\ task'[q][r].verdict = task[q][r].verdict
  <2> DEFINE new == [task[q][r] EXCEPT !.stage = stage]
  <2>1. task' = [task EXCEPT ![q] = [task[q] EXCEPT ![r] = new]]
      BY <1>3
  <2>2. DOMAIN new = DOMAIN NoTask /\ new.cached = task[q][r].cached
        /\ new.stage = stage /\ new.verdict = task[q][r].verdict
      BY <1>1 DEF Shape, NoTask
  <2> HIDE DEF new
  <2> QED
      BY <1>1, <2>1, <2>2 DEF Shape, OneTask
<1>5. UNCHANGED <<recorded, hold, req, window>>
    BY DEF Persist, Account
<1>6. DOMAIN row' = Rows /\ \A s \in Rows : DOMAIN row'[s] = DOMAIN row[s]
  <2>1. CASE Persist(q, r)
      BY <1>1, <2>1 DEF Persist, Shape
  <2>2. CASE Account(q, r)
      BY <1>1, <2>2 DEF Account, Shape
  <2> QED
      BY <2>1, <2>2
<1>7. ~task[q][r].cached /\ HasValue(task'[q][r].verdict) =>
         WalletFor(q, r) \in EvmWallets /\ task'[q][r].verdict.value \in window[q][WalletFor(q, r)][r]
    BY <1>1, <1>2, <1>4 DEF Current
<1>8. task[q][r].stage # "none" /\ task'[q][r].stage # "read"
    BY <1>2, <1>4
<1> QED
    BY <1>4, <1>5, <1>6, <1>7, <1>8, TaskKeeps

-----------------------------------------------------------------------------
(* A request begins and ends; the chain moves.                             *)

\* A request's record, tasks and window are replaced.
LEMMA ReplaceKeepsShape ==
    ASSUME Shape, NEW q \in Requests, Frame(q), row' = row,
           DOMAIN req' = Requests, DOMAIN task' = Requests, DOMAIN window' = Requests,
           DOMAIN req'[q] = DOMAIN Idle, DOMAIN task'[q] = Rows,
           \A r \in Rows : DOMAIN task'[q][r] = DOMAIN NoTask,
           DOMAIN window'[q] = EvmWallets, \A w \in EvmWallets : DOMAIN window'[q][w] = Rows
    PROVE  Shape'
<1>1. ASSUME NEW p \in Requests
      PROVE  /\ DOMAIN req'[p] = DOMAIN Idle /\ DOMAIN task'[p] = Rows
             /\ \A r \in Rows : DOMAIN task'[p][r] = DOMAIN NoTask
             /\ DOMAIN window'[p] = EvmWallets
             /\ \A w \in EvmWallets : DOMAIN window'[p][w] = Rows
  <2>1. CASE p = q
      BY <2>1
  <2>2. CASE p # q
      BY <2>2 DEF Shape, Frame
  <2> QED
      BY <2>1, <2>2
<1> QED
    BY <1>1 DEF Shape

\* The window opens with the balances there are.
LEMMA ListKeeps ==
    ASSUME IInv, NEW q \in Requests, NEW kind, NEW evm \in EvmWallets \cup {NoWallet}, NEW sol,
           NEW force, List(q, kind, evm, sol, force)
    PROVE  IInv'
<1>1. /\ protocol' = protocol /\ pool' = pool /\ home' = home /\ hold' = hold /\ row' = row
    BY DEF List, recorded
<1>2. Shape
    BY DEF IInv
<1>3. req' = [req EXCEPT ![q] = [stage |-> "reading", kind |-> kind, evm |-> evm,
                                 sol |-> sol, force |-> force]]
    BY DEF List
<1>4. PICK new : /\ new = [r \in Rows |->
                      IF row[r].status # "active" THEN NoTask
                      ELSE LET cached == FromCache(kind, force, r)
                           IN [NoTask EXCEPT !.stage = IF cached THEN "done" ELSE "read",
                                             !.cached = cached,
                                             !.verdict = IF cached THEN row[r].data ELSE NoData,
                                             !.seen = row[r].value]]
                 /\ task' = [task EXCEPT ![q] = new]
    BY DEF List
<1>5. DOMAIN new = Rows
    BY <1>4
<1>6. ASSUME NEW r \in Rows
      PROVE  /\ DOMAIN new[r] = DOMAIN NoTask
             /\ new[r].stage \in {"none", "read", "done"}
             /\ new[r].stage = "read" => ~new[r].cached
             /\ new[r].stage = "done" => new[r].cached
             /\ new[r].cached => ~force
  <2> DEFINE cached == FromCache(kind, force, r)
  <2>1. CASE row[r].status # "active"
      BY <1>4, <2>1 DEF NoTask
  <2>2. CASE row[r].status = "active" /\ cached
    <3>1. ~force
        BY <2>2 DEF FromCache
    <3>2. new[r] = [NoTask EXCEPT !.stage = "done", !.cached = cached,
                                  !.verdict = row[r].data, !.seen = row[r].value]
        BY <1>4, <2>2
    <3>3. new[r].stage = "done" /\ new[r].cached = cached /\ DOMAIN new[r] = DOMAIN NoTask
        BY <3>2 DEF NoTask
    <3> HIDE DEF cached
    <3> QED
        BY <2>2, <3>1, <3>3
  <2>3. CASE row[r].status = "active" /\ ~cached
    <3>2. new[r] = [NoTask EXCEPT !.stage = "read", !.cached = cached,
                                  !.verdict = NoData, !.seen = row[r].value]
        BY <1>4, <2>3
    <3>3. new[r].stage = "read" /\ new[r].cached = cached /\ DOMAIN new[r] = DOMAIN NoTask
        BY <3>2 DEF NoTask
    <3> HIDE DEF cached
    <3> QED
        BY <2>3, <3>3
  <2> QED
      BY <2>1, <2>2, <2>3
<1>7. window' = [window EXCEPT ![q] = [w \in EvmWallets |-> [r \in Rows |-> {Balance(w, r)}]]]
    BY DEF List
<1>8. Frame(q)
    BY <1>1, <1>3, <1>4, <1>7, <1>2 DEF Frame, Shape
<1>9. Shape'
  <2>1. DOMAIN req' = Requests /\ DOMAIN task' = Requests /\ DOMAIN window' = Requests
      BY <1>2, <1>3, <1>4, <1>7 DEF Shape
  <2>2. DOMAIN req'[q] = DOMAIN Idle
      BY <1>2, <1>3 DEF Shape, Idle
  <2>3. task'[q] = new
      BY <1>2, <1>4 DEF Shape
  <2>4. DOMAIN task'[q] = Rows /\ \A r \in Rows : DOMAIN task'[q][r] = DOMAIN NoTask
      BY <2>3, <1>5, <1>6
  <2>5. DOMAIN window'[q] = EvmWallets /\ \A w \in EvmWallets : DOMAIN window'[q][w] = Rows
      BY <1>2, <1>7 DEF Shape
  <2> QED
      BY <1>1, <1>2, <1>8, <2>1, <2>2, <2>4, <2>5, ReplaceKeepsShape
<1>10. req'[q].evm = evm /\ req'[q].stage = "reading" /\ req'[q].force = force
    BY <1>2, <1>3 DEF Shape
<1>11. task'[q] = new
    BY <1>2, <1>4 DEF Shape
<1>12. \A w \in EvmWallets, r \in Rows : Balance(w, r)' \in window'[q][w][r]
  <2>1. \A w \in EvmWallets, r \in Rows : Balance(w, r)' = Balance(w, r)
      BY <1>1, BalanceKept
  <2>2. \A w \in EvmWallets, r \in Rows : window'[q][w][r] = {Balance(w, r)}
      BY <1>2, <1>7 DEF Shape
  <2> QED
      BY <2>1, <2>2
<1>13. ASSUME NEW r \in Rows PROVE Current(q, r)'
    BY <1>6, <1>10, <1>11 DEF Current
<1>14. PInv(q)'
    BY <1>10, <1>12, <1>13 DEF PInv
<1> QED
    BY <1>8, <1>9, <1>14, FrameKeeps

\* An answer: the request's tasks and window are gone.
LEMMA LeaveKeeps ==
    ASSUME IInv, NEW q \in Requests, Leave(q), UNCHANGED <<recorded, hold, row>> PROVE IInv'
<1> DEFINE record == [Idle EXCEPT !.stage = "over"]
           tasks == [r \in Rows |-> NoTask]
           view == [w \in EvmWallets |-> [r \in Rows |-> {}]]
<1>1. Shape
    BY DEF IInv
<1>2. DOMAIN record = DOMAIN Idle /\ record.evm = NoWallet /\ record.stage = "over"
    BY DEF Idle
<1>3. DOMAIN tasks = Rows /\ \A r \in Rows : DOMAIN tasks[r] = DOMAIN NoTask
                                             /\ tasks[r].stage = "none" /\ tasks[r].cached = FALSE
    BY DEF NoTask
<1>4. DOMAIN view = EvmWallets /\ \A w \in EvmWallets : DOMAIN view[w] = Rows
    OBVIOUS
<1>5. /\ req' = [req EXCEPT ![q] = record] /\ task' = [task EXCEPT ![q] = tasks]
      /\ window' = [window EXCEPT ![q] = view] /\ row' = row
    BY DEF Leave
<1>6. protocol' = protocol /\ pool' = pool /\ home' = home /\ hold' = hold
    BY DEF recorded
<1> HIDE DEF record, tasks, view
<1>7. Frame(q)
    BY <1>1, <1>5, <1>6 DEF Frame, Shape
<1>8. req'[q] = record /\ task'[q] = tasks /\ window'[q] = view
    BY <1>1, <1>5 DEF Shape
<1>9. Shape'
  <2>1. DOMAIN req' = Requests /\ DOMAIN task' = Requests /\ DOMAIN window' = Requests
      BY <1>1, <1>5 DEF Shape
  <2> QED
      BY <1>1, <1>2, <1>3, <1>4, <1>5, <1>7, <1>8, <2>1, ReplaceKeepsShape
<1>10. PInv(q)'
    BY <1>2, <1>3, <1>8 DEF PInv, Current
<1> QED
    BY <1>7, <1>9, <1>10, FrameKeeps

LEMMA AnswerKeeps ==
    ASSUME IInv, NEW q \in Requests, AnswerPositions(q) \/ AnswerOrca(q) \/ AnswerPublic(q) PROVE IInv'
BY LeaveKeeps DEF AnswerPositions, AnswerOrca, AnswerPublic

\* Value moves: the windows take the new balances in.
LEMMA MoveKeeps == ASSUME IInv, NEW r \in Rows, Move(r) PROVE IInv'
<1>1. /\ protocol' = protocol /\ pool' = pool /\ home' = home
      /\ req' = req /\ task' = task /\ row' = row
    BY DEF Move, recorded
<1>2. window' = [q \in Requests |-> [w \in EvmWallets |-> [s \in Rows |->
                    IF req[q].stage = "reading" THEN window[q][w][s] \cup {Balance(w, s)'}
                    ELSE window[q][w][s]]]]
    BY DEF Move
<1>3. Shape /\ Recorded
    BY DEF IInv
<1>4. DOMAIN window' = Requests /\ \A q \in Requests : DOMAIN window'[q] = EvmWallets
                                      /\ \A w \in EvmWallets : DOMAIN window'[q][w] = Rows
    BY <1>2
<1>5. Shape' /\ Recorded'
    BY <1>1, <1>3, <1>4 DEF Shape, Recorded
<1>6. ASSUME NEW q \in Requests PROVE PInv(q)'
  <2>1. PInv(q)
      BY DEF IInv
  <2>2. \A w \in EvmWallets, s \in Rows : window[q][w][s] \subseteq window'[q][w][s]
      BY <1>2
  <2>3. req[q].stage = "reading" => \A w \in EvmWallets, s \in Rows : Balance(w, s)' \in window'[q][w][s]
      BY <1>2
  <2>4. \A s \in Rows : WalletFor(q, s)' = WalletFor(q, s)
      BY <1>1 DEF WalletFor
  <2>5. \A s \in Rows : Current(q, s)'
      BY <1>1, <2>1, <2>2, <2>4 DEF PInv, Current
  <2> QED
      BY <1>1, <2>1, <2>3, <2>5 DEF PInv
<1> QED
    BY <1>5, <1>6 DEF IInv

\* What leaves all that the invariant speaks of alone.
LEMMA RestKeeps ==
    ASSUME IInv, UNCHANGED <<recorded, hold, row, req, task, window>> PROVE IInv'
<1>1. /\ protocol' = protocol /\ pool' = pool /\ home' = home /\ hold' = hold
      /\ row' = row /\ req' = req /\ task' = task /\ window' = window
    BY DEF recorded
<1>2. Shape' /\ Recorded'
    BY <1>1 DEF IInv, Shape, Recorded
<1>3. ASSUME NEW q \in Requests PROVE PInv(q)'
  <2>1. PInv(q)
      BY DEF IInv
  <2>2. \A w \in EvmWallets, r \in Rows : Balance(w, r)' = Balance(w, r)
      BY <1>1, BalanceKept
  <2>3. \A r \in Rows : WalletFor(q, r)' = WalletFor(q, r)
      BY <1>1 DEF WalletFor
  <2> QED
      BY <1>1, <2>1, <2>2, <2>3 DEF PInv, Current
<1> QED
    BY <1>2, <1>3 DEF IInv

-----------------------------------------------------------------------------
LEMMA StepPreserves == ASSUME IInv, [Next]_vars PROVE IInv'
<1>1. CASE UNCHANGED vars
    BY <1>1, RestKeeps DEF vars
<1>2. ASSUME NEW q \in Requests, NEW w \in EvmWallets \cup {NoWallet}, NEW s, NEW force, NEW kind,
             List(q, kind, w, s, force)
      PROVE  IInv'
    BY <1>2, ListKeeps
<1>3. ASSUME NEW q \in Requests, AnswerPositions(q) \/ AnswerOrca(q) \/ AnswerPublic(q) PROVE IInv'
    BY <1>3, AnswerKeeps
<1>4. ASSUME NEW q \in Requests, NEW r \in Rows, Read(q, r) \/ Persist(q, r) \/ Account(q, r) PROVE IInv'
    BY <1>4, ReadKeeps, WriteKeeps
<1>5. ASSUME NEW r \in Rows, Age(r) PROVE IInv'
    BY <1>5, RestKeeps DEF Age
<1> QED
    BY <1>1, <1>2, <1>3, <1>4, <1>5, MoveKeeps DEF Next

LEMMA Invariance == Spec => []IInv
BY InitHolds, StepPreserves, PTL DEF Spec

\* A value that an answer gives as read, and not as cached, is one the wallet had
\* while the request ran, whatever the chain and other requests do meanwhile.
THEOREM ReadValuesAreCurrent == Spec => []AnswersAreCurrent
<1>1. IInv => AnswersAreCurrent
  <2> SUFFICES ASSUME IInv, NEW q \in Requests, NEW r \in Rows,
                      task[q][r].stage = "done", req[q].force \/ ~task[q][r].cached,
                      task[q][r].verdict.status \in {"verified", "drift"}
               PROVE  task[q][r].verdict.value \in window[q][WalletFor(q, r)][r]
      BY DEF AnswersAreCurrent
  <2>1. Current(q, r)
      BY DEF IInv, PInv
  <2> QED
      BY <2>1 DEF Current, HasValue
<1> QED
    BY <1>1, Invariance, PTL

\* No write of any request opens a closed row again, however late it is.
THEOREM ClosedIsFinal == Spec => ClosedRowsStayClosed
<1> DEFINE Kept == \A r \in Rows : row[r].status = "closed" => row'[r].status = "closed"
<1>1. ASSUME IInv, [Next]_vars PROVE Kept
  <2>1. Shape
      BY <1>1 DEF IInv
  <2>2. ASSUME row' = row PROVE Kept
      BY <2>2
  <2>3. ASSUME NEW q \in Requests, NEW r \in Rows, Persist(q, r) PROVE Kept
    <3>1. PICK v, status : /\ row' = [row EXCEPT ![r].data = v, ![r].status = status]
                           /\ status \in {"closed", row[r].status}
        BY <2>3 DEF Persist
    <3> QED
        BY <2>1, <3>1 DEF Shape
  <2>4. ASSUME NEW q \in Requests, NEW r \in Rows, Account(q, r) PROVE Kept
    <3>1. PICK v, gain : row' = [row EXCEPT ![r].value = v, ![r].pnl = gain]
        BY <2>4 DEF Account
    <3> QED
        BY <2>1, <3>1 DEF Shape
  <2>5. CASE UNCHANGED vars
      BY <2>2, <2>5 DEF vars
  <2>6. ASSUME NEW q \in Requests, NEW kind, NEW w, NEW s, NEW force, List(q, kind, w, s, force)
        PROVE  Kept
      BY <2>2, <2>6 DEF List
  <2>7. ASSUME NEW q \in Requests, AnswerPositions(q) \/ AnswerOrca(q) \/ AnswerPublic(q)
        PROVE  Kept
    <3>1. row' = row
        BY <2>7 DEF AnswerPositions, AnswerOrca, AnswerPublic
    <3> QED
        BY <2>2, <3>1
  <2>8. ASSUME NEW q \in Requests, NEW r \in Rows, Read(q, r) PROVE Kept
      BY <2>2, <2>8 DEF Read
  <2>9. ASSUME NEW r \in Rows, Move(r) \/ Age(r) PROVE Kept
    <3>1. row' = row
        BY <2>9 DEF Move, Age
    <3> QED
        BY <2>2, <3>1
  <2> HIDE DEF Kept
  <2> QED
      BY <1>1, <2>3, <2>4, <2>5, <2>6, <2>7, <2>8, <2>9 DEF Next
<1> QED
    BY <1>1, Invariance, PTL DEF Spec, ClosedRowsStayClosed

-----------------------------------------------------------------------------
(* Closed means empty: what the reads that find nothing say of a wallet.   *)

Held == hold \in [Wallets -> [Rows -> Amounts \cup {Gone}]]

LEMMA TotalIsSum == ASSUME NEW value, NEW positions PROVE Total(value, positions) = SumOn(value, positions)
BY DEF Total, SumOn

\* The rows that are added up have no negative value.
LEMMA HeldIsNat ==
    ASSUME Held, NEW w \in Wallets, NEW kind, NEW p PROVE HeldIn(w, kind, p) \in Nat
<1> DEFINE S == {s \in Accounts(w, kind) : pool[s] = p}
<1>1. IsFiniteSet(S) /\ S \subseteq Rows
    BY RowsAssumption, FS_Subset DEF Accounts
<1>2. \A s \in S : hold[w][s] \in Nat
    BY AmountsAssumption DEF Held, Accounts
<1>3. SumOn(hold[w], S) \in Nat
    BY <1>1, <1>2, SumType
<1> QED
    BY <1>3, TotalIsSum DEF HeldIn

\* A wallet with no account of a protocol, or empty ones only, has nothing there.
LEMMA NothingHeld ==
    ASSUME Held, NEW w \in Wallets, NEW kind, NEW p,
           \A s \in Rows : protocol[s] = kind => ~(hold[w][s] > 0)
    PROVE  HeldIn(w, kind, p) = 0
<1> DEFINE S == {s \in Accounts(w, kind) : pool[s] = p}
<1>1. IsFiniteSet(S) /\ S \subseteq Rows
    BY RowsAssumption, FS_Subset DEF Accounts
<1>2. ASSUME NEW s \in S PROVE hold[w][s] = 0
  <2>1. s \in Rows /\ protocol[s] = kind /\ hold[w][s] # Gone
      BY DEF Accounts
  <2>2. hold[w][s] \in Nat
      BY <2>1, AmountsAssumption DEF Held
  <2> QED
      BY <2>1, <2>2
<1>3. SumOn(hold[w], S) = 0
    BY <1>1, <1>2, SumOfZeros
<1> QED
    BY <1>3, TotalIsSum DEF HeldIn

\* The Curve scan throws when it found nothing and could not read everything.
LEMMA CurveFoundNothing ==
    ASSUME Held, NEW w \in Wallets, NEW broken \in SUBSET Rows, NEW p,
           ~ScanCurve(w, broken).threw, ScanCurve(w, broken).found = {}
    PROVE  HeldIn(w, "Curve", p) = 0
<1> DEFINE listed == {r \in Rows : protocol[r] = "Curve"}
           failed == listed \cap broken
           found  == {r \in listed : hold[w][r] > 0 /\ \A s \in failed : pool[s] # pool[r]}
<1>1. ScanCurve(w, broken) = IF found = {} /\ failed # {} THEN Threw ELSE Found(found)
    BY DEF ScanCurve
<1>2. found = {} /\ failed = {}
  <2> HIDE DEF found, failed
  <2> QED
      BY <1>1 DEF Threw, Found
<1>3. \A s \in Rows : protocol[s] = "Curve" => ~(hold[w][s] > 0)
    BY <1>2
<1> QED
    BY <1>3, NothingHeld

\* The Uniswap scan throws when the wallet has any token.
LEMMA UniswapFoundNothing ==
    ASSUME Held, NEW w \in Wallets, NEW down \in BOOLEAN, NEW p, ~ScanUniswap(w, down).threw
    PROVE  HeldIn(w, "Uniswap", p) = 0
<1>1. Accounts(w, "Uniswap") = {}
    BY DEF ScanUniswap, Threw
<1>2. \A s \in Rows : protocol[s] = "Uniswap" => ~(hold[w][s] > 0)
    BY <1>1 DEF Accounts, Gone
<1> QED
    BY <1>2, NothingHeld

\* A verdict that closes a row was read from a wallet that holds nothing of it.
LEMMA ClosedIsEmpty ==
    ASSUME Held, NEW w \in EvmWallets \cup {NoWallet}, NEW r \in Rows,
           NEW down \in BOOLEAN, NEW broken \in SUBSET Rows,
           VerdictOn(w, r, down, broken).status = "closed_onchain"
    PROVE  Balance(w, r) = 0
<1> DEFINE v == VerdictOn(w, r, down, broken)
<1>1. w # NoWallet /\ w \in Wallets /\ w \notin SolanaWallets
    BY WalletsAssumption DEF VerdictOn, Verdict, Wallets
<1>2. ASSUME NEW stored, NEW onchain, NEW percent, Compare(stored, onchain, percent).status = "closed_onchain"
      PROVE  onchain = 0
    BY <1>2 DEF Compare, Verdict
<1>3. ASSUME NEW scan, NEW matching, NEW stored, NEW value, NEW percent,
             FromScan(scan, matching, stored, value, percent).status = "closed_onchain"
      PROVE  ~scan.threw /\ (scan.found = {} \/ value = 0)
    BY <1>2, <1>3 DEF FromScan, Verdict
<1>4. CASE protocol[r] = "Orca"
  <2>1. v = VerifyOrca(w, r, down, broken)
      BY <1>1, <1>4 DEF VerdictOn
  <2>2. VerifyOrca(w, r, down, broken).status # "closed_onchain"
      BY <1>1, <1>3 DEF VerifyOrca, Threw
  <2> QED
      BY <2>1, <2>2
<1>5. CASE protocol[r] = "Aave"
  <2>1. v = VerifyAave(w, r, down)
      BY <1>1, <1>5 DEF VerdictOn
  <2>2. v = Compare(db[r], Balance(w, r), 5)
      BY <2>1 DEF VerifyAave, Verdict
  <2> QED
      BY <1>2, <2>2
<1>6. CASE protocol[r] = "Uniswap"
  <2>1. v = VerifyUniswap(w, r, down)
      BY <1>1, <1>6 DEF VerdictOn
  <2>2. ~ScanUniswap(w, down).threw
      BY <1>3, <2>1 DEF VerifyUniswap
  <2> QED
      BY <1>1, <1>6, <2>2, UniswapFoundNothing DEF Balance
<1>7. CASE protocol[r] = "Curve"
  <2>1. v = VerifyCurve(w, r, broken)
      BY <1>1, <1>7 DEF VerdictOn
  <2>2. ~ScanCurve(w, broken).threw /\ (ScanCurve(w, broken).found = {} \/ Balance(w, r) = 0)
      BY <1>3, <2>1 DEF VerifyCurve
  <2> QED
      BY <1>1, <1>7, <2>2, CurveFoundNothing DEF Balance
<1>8. CASE protocol[r] \notin {"Orca", "Aave", "Uniswap", "Curve"}
    BY <1>1, <1>8 DEF VerdictOn, Verdict
<1> QED
    BY <1>4, <1>5, <1>6, <1>7, <1>8

\* What a closing read has seen, on its way into the row.
EInv ==
    /\ Held
    /\ \A q \in Requests, r \in Rows : task[q][r].saw # "held here"
    /\ DOMAIN closure = Rows /\ \A r \in Rows : closure[r] # "held here"

LEMMA EInit == Init => EInv
<1> SUFFICES ASSUME Init PROVE EInv
    OBVIOUS
<1>1. PICK closed \in SUBSET Rows :
         hold = [w \in Wallets |-> [r \in Rows |-> IF home[r] = w /\ r \notin closed THEN db[r] ELSE Gone]]
    BY DEF Init
<1>2. \A r \in Rows : db[r] \in Amounts
    BY DEF Init
<1>3. Held
    BY <1>1, <1>2 DEF Held
<1> QED
    BY <1>3 DEF EInv, Init, NoTask

LEMMA EStep == ASSUME IInv, EInv, [Next]_vars PROVE EInv'
<1>1. Shape /\ Held
    BY DEF IInv, EInv
<1>2. ASSUME hold' = hold, closure' = closure,
             \A q \in Requests, r \in Rows : task'[q][r].saw \in {task[q][r].saw, "none"}
      PROVE  EInv'
    BY <1>2 DEF EInv, Held
<1>3. CASE UNCHANGED vars
    BY <1>2, <1>3 DEF vars
<1>4. ASSUME NEW q \in Requests, NEW kind, NEW evm, NEW sol, NEW force, List(q, kind, evm, sol, force)
      PROVE  EInv'
  <2>1. PICK new : /\ \A r \in Rows : new[r].saw = "none"
                   /\ task' = [task EXCEPT ![q] = new]
    <3> DEFINE new == [r \in Rows |->
                  IF row[r].status # "active" THEN NoTask
                  ELSE LET cached == FromCache(kind, force, r)
                       IN [NoTask EXCEPT !.stage = IF cached THEN "done" ELSE "read",
                                         !.cached = cached,
                                         !.verdict = IF cached THEN row[r].data ELSE NoData,
                                         !.seen = row[r].value]]
    <3>1. \A r \in Rows : new[r].saw = "none"
        BY DEF NoTask
    <3>2. task' = [task EXCEPT ![q] = new]
        BY <1>4 DEF List
    <3> HIDE DEF new
    <3> QED
        BY <3>1, <3>2
  <2>2. hold' = hold /\ closure' = closure
      BY <1>4 DEF List
  <2>3. \A p \in Requests, r \in Rows : task'[p][r].saw \in {task[p][r].saw, "none"}
      BY <1>1, <2>1 DEF Shape
  <2> QED
      BY <1>2, <2>2, <2>3
<1>5. ASSUME NEW q \in Requests, AnswerPositions(q) \/ AnswerOrca(q) \/ AnswerPublic(q) PROVE EInv'
  <2> DEFINE tasks == [r \in Rows |-> NoTask]
  <2>1. hold' = hold /\ closure' = closure /\ task' = [task EXCEPT ![q] = tasks]
      BY <1>5 DEF AnswerPositions, AnswerOrca, AnswerPublic, Leave
  <2>2. \A r \in Rows : tasks[r].saw = "none"
      BY DEF NoTask
  <2> HIDE DEF tasks
  <2>3. \A p \in Requests, r \in Rows : task'[p][r].saw \in {task[p][r].saw, "none"}
      BY <1>1, <2>1, <2>2 DEF Shape
  <2> QED
      BY <1>2, <2>1, <2>3
<1>6. ASSUME NEW q \in Requests, NEW r \in Rows, Read(q, r) PROVE EInv'
  <2> DEFINE w == WalletFor(q, r)
  <2>1. PICK down \in BOOLEAN, broken \in SUBSET Rows :
           LET v == VerdictOn(w, r, down, broken) IN
           task' = [task EXCEPT
               ![q][r].stage = IF v.status \in {"rpc_error", "unsupported"} THEN "done" ELSE "persist",
               ![q][r].verdict = v,
               ![q][r].failed = v.status = "rpc_error" /\ (down \/ w = NoWallet),
               ![q][r].saw = IF v.status = "closed_onchain" THEN SawAtClosing(w, r) ELSE "none"]
      BY <1>6 DEF Read
  <2> DEFINE v == VerdictOn(w, r, down, broken)
             stage == IF v.status \in {"rpc_error", "unsupported"} THEN "done" ELSE "persist"
             failed == v.status = "rpc_error" /\ (down \/ w = NoWallet)
             saw == IF v.status = "closed_onchain" THEN SawAtClosing(w, r) ELSE "none"
  <2>2. w \in EvmWallets \cup {NoWallet}
      BY WalletForIsEvm
  <2>3. saw # "held here"
    <3>1. v.status = "closed_onchain" => Balance(w, r) = 0
        BY <1>1, <2>2, ClosedIsEmpty
    <3> HIDE DEF v, w
    <3> QED
        BY <3>1 DEF SawAtClosing
  <2>4. task' = [task EXCEPT ![q][r].stage = stage, ![q][r].verdict = v,
                             ![q][r].failed = failed, ![q][r].saw = saw]
      BY <2>1
  <2> HIDE DEF v, w, stage, failed, saw
  <2> DEFINE new == [task[q][r] EXCEPT !.stage = stage, !.verdict = v, !.failed = failed, !.saw = saw]
  <2>5. task' = [task EXCEPT ![q] = [task[q] EXCEPT ![r] = new]]
      BY <2>4
  <2>6. new.saw = saw
      BY <1>1 DEF Shape, NoTask
  <2> HIDE DEF new
  <2>7. \A p \in Requests, s \in Rows : task'[p][s].saw \in {task[p][s].saw, saw}
      BY <1>1, <2>5, <2>6 DEF Shape
  <2>8. hold' = hold /\ closure' = closure
      BY <1>6 DEF Read
  <2> QED
      BY <2>3, <2>7, <2>8 DEF EInv, Held
<1>7. ASSUME NEW q \in Requests, NEW r \in Rows, Persist(q, r) \/ Account(q, r) PROVE EInv'
  <2>1. PICK stage : task' = [task EXCEPT ![q][r].stage = stage]
      BY <1>7 DEF Persist, Account
  <2> DEFINE new == [task[q][r] EXCEPT !.stage = stage]
  <2>2. task' = [task EXCEPT ![q] = [task[q] EXCEPT ![r] = new]]
      BY <2>1
  <2>3. new.saw = task[q][r].saw
      BY <1>1 DEF Shape, NoTask
  <2> HIDE DEF new
  <2>4. \A p \in Requests, s \in Rows : task'[p][s].saw = task[p][s].saw
      BY <1>1, <2>2, <2>3 DEF Shape
  <2>5. hold' = hold
      BY <1>7 DEF Persist, Account
  <2>6. closure' = closure \/ closure' = [closure EXCEPT ![r] = task[q][r].saw]
      BY <1>7 DEF Persist, Account
  <2> QED
      BY <2>4, <2>5, <2>6 DEF EInv, Held
<1>8. ASSUME NEW r \in Rows, Move(r) PROVE EInv'
  <2>1. task' = task /\ closure' = closure
      BY <1>8 DEF Move
  <2>2. PICK v \in Amounts \cup {Gone} : hold' = [hold EXCEPT ![home[r]][r] = v]
      BY <1>8 DEF Move
  <2>3. home[r] \in Wallets
      BY DEF IInv, Recorded
  <2>4. Held'
      BY <1>1, <2>2, <2>3 DEF Held
  <2> QED
      BY <2>1, <2>4 DEF EInv
<1>9. ASSUME NEW r \in Rows, Age(r) PROVE EInv'
    BY <1>2, <1>9 DEF Age
<1> QED
    BY <1>3, <1>4, <1>5, <1>6, <1>7, <1>8, <1>9 DEF Next

LEMMA EInvariance == Spec => []EInv
BY EInit, EStep, Invariance, PTL DEF Spec

\* No row is closed by a read of a wallet that held something of it, whichever
\* calls fail and whatever else runs.
THEOREM ClosedWhenEmpty == Spec => []ClosedOnlyOnEmptyRead
<1>1. EInv => ClosedOnlyOnEmptyRead
    BY DEF EInv, ClosedOnlyOnEmptyRead
<1> QED
    BY <1>1, EInvariance, PTL

\* Only two kinds of request set the list of found positions.
LEMMA WhoAnswers ==
    ASSUME [Next]_vars
    PROVE  pool' = pool /\ (answer' = answer \/ \E q \in Requests : AnswerOrca(q) \/ AnswerPublic(q))
<1>1. CASE UNCHANGED vars
    BY <1>1 DEF vars, recorded
<1>2. ASSUME NEW q, NEW kind, NEW evm, NEW sol, NEW force, List(q, kind, evm, sol, force)
      PROVE  pool' = pool /\ answer' = answer
    BY <1>2 DEF List, recorded
<1>3. ASSUME NEW q, AnswerPositions(q) PROVE pool' = pool /\ answer' = answer
    BY <1>3 DEF AnswerPositions, recorded
<1>4. ASSUME NEW q, AnswerOrca(q) \/ AnswerPublic(q) PROVE pool' = pool
    BY <1>4 DEF AnswerOrca, AnswerPublic, recorded
<1>5. ASSUME NEW q, NEW r, Read(q, r) \/ Persist(q, r) \/ Account(q, r)
      PROVE  pool' = pool /\ answer' = answer
    BY <1>5 DEF Read, Persist, Account, recorded
<1>6. ASSUME NEW r, Move(r) \/ Age(r) PROVE pool' = pool /\ answer' = answer
    BY <1>6 DEF Move, Age, recorded
<1> QED
    BY <1>1, <1>2, <1>3, <1>4, <1>5, <1>6 DEF Next

\* The list of Orca positions names a pool of a stored row once.
THEOREM PoolsAreListedOnce == Spec => []NoPoolListedTwice
<1>1. Init => NoPoolListedTwice
    BY DEF Init, NoPoolListedTwice
<1>2. ASSUME NoPoolListedTwice, [Next]_vars PROVE NoPoolListedTwice'
  <2>1. pool' = pool
      BY <1>2, WhoAnswers
  <2>2. ASSUME answer' = answer PROVE NoPoolListedTwice'
      BY <1>2, <2>1, <2>2 DEF NoPoolListedTwice
  <2>3. ASSUME NEW q \in Requests, AnswerOrca(q) PROVE NoPoolListedTwice'
    <3> DEFINE listed == {r \in ListedBy(q) : protocol[r] = "Orca"}
    <3>1. \/ answer' = answer
          \/ \E scan : \E added \in Additions(scan, listed) :
                answer' = {Entry(r, "db") : r \in listed} \cup {Entry(s, "wallet_scan") : s \in added}
        BY <2>3 DEF AnswerOrca
    <3>2. ASSUME NEW scan, NEW added \in Additions(scan, listed),
                 answer' = {Entry(r, "db") : r \in listed} \cup {Entry(s, "wallet_scan") : s \in added}
          PROVE  NoPoolListedTwice'
      <4>1. /\ \A s \in added : \A r \in listed : pool[s] # pool[r]
            /\ \A s, t \in added : s # t => pool[s] # pool[t]
          BY DEF Additions
      <4> HIDE DEF listed
      <4>2. ASSUME NEW e \in answer', NEW f \in answer', e.source = "wallet_scan", e # f
            PROVE  pool[e.position] # pool[f.position]
        <5>1. PICK s \in added : e = Entry(s, "wallet_scan")
            BY <3>2, <4>2 DEF Entry
        <5>2. CASE \E r \in listed : f = Entry(r, "db")
            BY <4>1, <5>1, <5>2 DEF Entry
        <5>3. CASE \E t \in added : f = Entry(t, "wallet_scan")
            BY <4>1, <4>2, <5>1, <5>3 DEF Entry
        <5> QED
            BY <3>2, <5>2, <5>3
      <4> QED
          BY <2>1, <4>2 DEF NoPoolListedTwice
    <3> HIDE DEF listed
    <3> QED
        BY <2>2, <3>1, <3>2
  <2>4. ASSUME NEW q \in Requests, AnswerPublic(q) PROVE NoPoolListedTwice'
    <3>1. \A e \in answer' : e.source = "public"
        BY <2>4 DEF AnswerPublic, PublicEvm, PublicCurve, PublicOrca, PublicEntry
    <3> QED
        BY <3>1 DEF NoPoolListedTwice
  <2> QED
      BY <1>2, <2>2, <2>3, <2>4, WhoAnswers
<1> QED
    BY <1>1, <1>2, PTL DEF Spec

\* The public list says of no wallet with something in it that it is empty.
THEOREM PublicListIsRight == Spec => PublicEmptyIsEmpty
<1> DEFINE Right == \A e \in answer' \ answer :
                       e.source = "public" /\ e.kind # "Orca" /\ e.status = "closed_onchain"
                           => \A p \in e.pools : HeldIn(e.wallet, e.kind, p) = 0
<1>1. ASSUME EInv, [Next]_vars PROVE Right
  <2>1. ASSUME NEW w \in EvmWallets, NEW down \in BOOLEAN, NEW broken \in SUBSET Rows,
               NEW e \in PublicEvm(w, down, broken), e.status = "closed_onchain"
        PROVE  \A p \in e.pools : HeldIn(e.wallet, e.kind, p) = 0
    <3>1. Held /\ w \in Wallets
        BY <1>1 DEF EInv, Wallets
    <3>2. CASE \E p \in Pools : e = PublicEntry("Aave", {p}, w, IF down THEN "rpc_error"
                                                        ELSE IF HeldIn(w, "Aave", p) > 0 THEN "verified"
                                                        ELSE "closed_onchain")
      <4>1. PICK p \in Pools : e = PublicEntry("Aave", {p}, w, IF down THEN "rpc_error"
                                                        ELSE IF HeldIn(w, "Aave", p) > 0 THEN "verified"
                                                        ELSE "closed_onchain")
          BY <3>2
      <4>2. HeldIn(w, "Aave", p) \in Nat
          BY <3>1, HeldIsNat
      <4>3. e.wallet = w /\ e.kind = "Aave" /\ e.pools = {p} /\ ~(HeldIn(w, "Aave", p) > 0)
          BY <2>1, <4>1 DEF PublicEntry
      <4> QED
          BY <4>2, <4>3
    <3>3. CASE ~ScanUniswap(w, down).threw /\ e = PublicEntry("Uniswap", Pools, w, StatusOf(ScanUniswap(w, down)))
        BY <3>1, <3>3, UniswapFoundNothing DEF PublicEntry
    <3>4. CASE e = PublicCurve(w, down, broken)
      <4>1. e.wallet = w /\ e.kind = "Curve" /\ e.pools = Pools
            /\ StatusOf(IF down THEN Threw ELSE ScanCurve(w, broken)) = "closed_onchain"
          BY <2>1, <3>4 DEF PublicCurve, PublicEntry
      <4>2. ~ScanCurve(w, broken).threw /\ ScanCurve(w, broken).found = {}
          BY <4>1 DEF StatusOf, Threw
      <4> QED
          BY <3>1, <4>1, <4>2, CurveFoundNothing
    <3> QED
        BY <2>1, <3>2, <3>3, <3>4 DEF PublicEvm
  <2>2. ASSUME NEW q \in Requests, AnswerPublic(q) PROVE Right
    <3>1. PICK w \in EvmWallets, s \in SolanaWallets, down \in BOOLEAN, broken \in SUBSET Rows :
             answer' \in {PublicEvm(w, down, broken), PublicOrca(s, down, broken),
                          PublicEvm(w, down, broken) \cup PublicOrca(s, down, broken)}
        BY <2>2 DEF AnswerPublic
    <3>2. \A e \in PublicOrca(s, down, broken) : e.kind = "Orca"
        BY DEF PublicOrca, PublicEntry
    <3> QED
        BY <2>1, <3>1, <3>2
  <2>3. ASSUME NEW q \in Requests, AnswerOrca(q) PROVE Right
    <3>1. \A e \in answer' \ answer : e.source # "public"
        BY <2>3 DEF AnswerOrca, Entry
    <3> QED
        BY <3>1
  <2>4. answer' = answer => Right
      OBVIOUS
  <2> HIDE DEF Right
  <2> QED
      BY <1>1, <2>2, <2>3, <2>4, WhoAnswers
<1> QED
    BY <1>1, EInvariance, PTL DEF Spec, PublicEmptyIsEmpty

=============================================================================

------------------------- MODULE DepositBoardProofs -------------------------
(***************************************************************************)
(* The safety properties of a deposit from the browser, for all presses,   *)
(* attempts, faults and jobs.                                              *)
(*                                                                         *)
(* BookedOnce and MintsOnce: a call that has started an attempt keeps its  *)
(* press's view of the created row (Sent, NamesRow), and what stands in    *)
(* the ledger or on a chain stems from such a call.  As long as no two     *)
(* calls overlapped, only one has started (Alone); with a Solana key its   *)
(* first attempt is the only one that can submit, and it does so once      *)
(* (Submits).                                                              *)
(*                                                                         *)
(* OnePaymentPerApproval and WalletDepositsAreReported: see the second     *)
(* half, with the invariant WInv.                                          *)
(***************************************************************************)
EXTENDS DepositBoard, SumTheorems

Attempts == 1 .. MaxAttempts

Shape ==
    /\ DOMAIN exec = Calls /\ \A c \in Calls : DOMAIN exec[c] = DOMAIN NoExec
    /\ DOMAIN uni = Calls /\ \A c \in Calls : DOMAIN uni[c] = Attempts
    /\ DOMAIN orca = Calls /\ \A c \in Calls : DOMAIN orca[c] = Attempts
    /\ DOMAIN press = Calls /\ \A c \in Calls : DOMAIN press[c] = DOMAIN NoPress
    /\ DOMAIN board = {"job", "reviewed", "modal", "booking", "result"}

\* The presses whose call may have been sent.
Sent(c) == press[c].pc \in {"waiting", "done", "failed"}

\* A call begins after its press; an attempt begins with the call's lookup.
Begins(c) ==
    /\ exec[c].attempt \in 0 .. MaxAttempts
    /\ ~Sent(c) => exec[c].pc = "idle"
    /\ exec[c].pc \in {"idle", "lookup"} => exec[c].attempt = 0
    /\ exec[c].pc \in {"run", "record", "ledger"} => exec[c].attempt > 0
    /\ exec[c].attempt = 0 => \A a \in Attempts : uni[c][a] = "off"

\* The row its press knew, if any, is the one the call names.
NamesRow(c) ==
    /\ exec[c].pc # "idle" => exec[c].positionId = press[c].pre
    /\ c \in ledger => exec[c].attempt > 0 /\ ~exec[c].positionId

\* With a Solana key nothing rejects an attempt that could submit.
Submits(c) ==
    /\ \A a \in Attempts : uni[c][a] = "submit" => UniswapIsLive /\ a <= exec[c].attempt
    /\ setup.solanaKey /\ UniswapIsLive =>
          exec[c].attempt <= 1 /\ \A a \in Attempts : orca[c][a] # "rejected"

CInv(c) == Begins(c) /\ NamesRow(c) /\ Submits(c)

Alone ==
    ~overlapped => \A c \in Calls, d \in Calls : exec[c].attempt > 0 /\ exec[d].attempt > 0 => c = d

Mints == {m \in moved : m.by = "server"}

Minted ==
    /\ \A m \in Mints : /\ m.call \in Calls /\ exec[m.call].attempt > 0
                        /\ setup.solanaKey => uni[m.call][1] \in {"minted", "failed"}
    /\ ~overlapped /\ setup.solanaKey => \A m \in Mints, n \in Mints : m = n

IInv ==
    /\ Shape
    /\ \A c \in Calls : CInv(c)
    /\ ledger \subseteq Calls \cup {0}
    /\ Alone
    /\ Minted

-----------------------------------------------------------------------------
LEMMA InitHolds == Init => IInv
<1> SUFFICES ASSUME Init PROVE IInv
    OBVIOUS
<1>1. Shape
  <2>1. DOMAIN board = {"job", "reviewed", "modal", "booking", "result"}
      BY DEF Init
  <2> QED
      BY <2>1 DEF Init, ServerInit, Shape, Attempts
<1>2. ASSUME NEW c \in Calls PROVE CInv(c)
  <2>1. exec[c].attempt = 0 /\ exec[c].pc = "idle" /\ c \notin ledger
      BY DEF Init, ServerInit, NoExec
  <2>2. \A a \in Attempts : uni[c][a] = "off" /\ orca[c][a] = "off"
      BY DEF Init, ServerInit, Attempts
  <2> QED
      BY <2>1, <2>2, CallAssumption DEF CInv, Begins, NamesRow, Submits
<1>3. ledger = {} /\ Mints = {}
    BY DEF Init, ServerInit, Mints
<1>4. Alone
    BY DEF Init, ServerInit, NoExec, Alone
<1> QED
    BY <1>1, <1>2, <1>3, <1>4 DEF IInv, Minted

-----------------------------------------------------------------------------
(* The board and the presses.                                              *)

\* A step that leaves the server alone, but for a row made with the job.
LEMMA BoardKeeps ==
    ASSUME IInv, Shape', UNCHANGED <<setup, server, overlapped>>,
           ledger \subseteq ledger', ledger' \subseteq ledger \cup {0},
           moved \subseteq moved', \A m \in moved' : m.by = "server" => m \in moved,
           \A c \in Calls : Sent(c) => Sent(c)' /\ press'[c].pre = press[c].pre
    PROVE  IInv'
<1>1. /\ setup' = setup /\ exec' = exec /\ uni' = uni /\ orca' = orca
      /\ overlapped' = overlapped /\ UniswapIsLive' = UniswapIsLive
    BY DEF server, UniswapIsLive, Live
<1>2. ASSUME NEW c \in Calls PROVE CInv(c)'
  <2>1. CInv(c) /\ c # 0
      BY CallAssumption DEF IInv
  <2>2. c \in ledger' <=> c \in ledger
      BY <2>1
  <2>3. Begins(c)'
      BY <1>1, <2>1 DEF CInv, Begins
  <2>4. NamesRow(c)'
      BY <1>1, <2>1, <2>2 DEF CInv, Begins, NamesRow
  <2>5. Submits(c)'
      BY <1>1, <2>1 DEF CInv, Submits
  <2> QED
      BY <2>3, <2>4, <2>5 DEF CInv
<1>3. Mints' = Mints
    BY DEF Mints
<1>4. Minted' /\ Alone'
    BY <1>1, <1>3 DEF IInv, Minted, Alone
<1> QED
    BY <1>2, <1>4 DEF IInv

LEMMA StutterKeeps == ASSUME IInv, UNCHANGED vars PROVE IInv'
<1>1. Shape' /\ \A c \in Calls : Sent(c)' = Sent(c)
    BY DEF IInv, Shape, Sent, vars
<1> QED
    BY <1>1, BoardKeeps DEF vars, server

\* A step of one press.
OnePress(p) ==
    /\ DOMAIN press' = Calls /\ \A q \in Calls \ {p} : press'[q] = press[q]
    /\ DOMAIN press'[p] = DOMAIN NoPress

\* One deposit is added.
LEMMA MovedAdds ==
    ASSUME NEW by, NEW p, NEW row, Moved(by, p, row)
    PROVE  \E new : /\ moved' = moved \cup {new}
                    /\ new.by = by /\ new.call = p /\ new.key = Key(row) /\ new.usd = row.usd
<1> DEFINE new == [by |-> by, call |-> p, key |-> Key(row), usd |-> row.usd,
                   nth |-> Cardinality(Alike(by, p, Key(row), row.usd)) + 1]
<1>1. moved' = moved \cup {new}
    BY DEF Moved
<1>2. new.by = by /\ new.call = p /\ new.key = Key(row) /\ new.usd = row.usd
    OBVIOUS
<1> HIDE DEF new
<1> QED
    BY <1>1, <1>2

LEMMA MovedByWallet ==
    ASSUME NEW by, NEW p, NEW row, by # "server", Moved(by, p, row)
    PROVE  moved \subseteq moved' /\ \A m \in moved' : m.by = "server" => m \in moved
BY MovedAdds

\* A step of a press that has not sent its call.
LEMMA PressKeeps ==
    ASSUME IInv, NEW p \in Calls, OnePress(p), UNCHANGED <<setup, server, ledger, overlapped>>,
           DOMAIN board' = DOMAIN board,
           moved \subseteq moved', \A m \in moved' : m.by = "server" => m \in moved,
           Sent(p) => Sent(p)' /\ press'[p].pre = press[p].pre
    PROVE  IInv'
<1>1. Shape'
    BY DEF IInv, Shape, OnePress, server
<1>2. \A c \in Calls : Sent(c) => Sent(c)' /\ press'[c].pre = press[c].pre
    BY DEF OnePress, Sent
<1> QED
    BY <1>1, <1>2, BoardKeeps

LEMMA PressShapes ==
    ASSUME Shape, NEW p \in Calls
    PROVE  /\ \A pc : Goto(p, pc) => OnePress(p) /\ press'[p].pc = pc /\ press'[p].pre = press[p].pre
           /\ \A pc : Capture(p, pc) => OnePress(p)
           /\ \A trouble : Throw(p, trouble) => OnePress(p)
BY DEF Shape, OnePress, NoPress, Goto, Capture, Throw

\* The call is sent.
LEMMA SendKeeps ==
    ASSUME IInv, NEW p \in Calls, NEW paid, ~Sent(p), Send(p, paid),
           UNCHANGED <<setup, uni, orca, event, ledger, moved, overlapped>>
    PROVE  IInv'
<1>1. Shape /\ CInv(p) /\ p # 0
    BY CallAssumption DEF IInv
<1>2. /\ OnePress(p) /\ DOMAIN board' = DOMAIN board
      /\ press'[p].pc = "waiting" /\ press'[p].pre = press[p].pre
    BY <1>1 DEF Send, Shape, OnePress, NoPress
<1>3. /\ DOMAIN exec' = Calls /\ \A c \in Calls \ {p} : exec'[c] = exec[c]
      /\ DOMAIN exec'[p] = DOMAIN NoExec
      /\ exec'[p].pc = "lookup" /\ exec'[p].attempt = 0 /\ exec'[p].positionId = press[p].pre
  <2> DEFINE quote == press[p].quote
             new == [NoExec EXCEPT !.pc = "lookup",
                        !.ready = Keys(ReadyRows(quote)), !.unready = Keys(quote) \ Keys(ReadyRows(quote)),
                        !.client = paid, !.positionId = Position(p)]
  <2>1. exec' = [exec EXCEPT ![p] = new]
      BY DEF Send
  <2>2. DOMAIN new = DOMAIN NoExec /\ new.pc = "lookup" /\ new.attempt = 0 /\ new.positionId = press[p].pre
      BY DEF NoExec, Position
  <2> HIDE DEF new
  <2> QED
      BY <1>1, <2>1, <2>2 DEF Shape
<1>4. exec[p].attempt = 0
    BY <1>1 DEF CInv, Begins
<1>5. UniswapIsLive' = UniswapIsLive
    BY DEF UniswapIsLive, Live
<1>6. Shape'
    BY <1>1, <1>2, <1>3 DEF Shape, OnePress
<1>7. ASSUME NEW c \in Calls PROVE exec'[c].attempt = exec[c].attempt /\ CInv(c)'
  <2>1. CInv(c)
      BY DEF IInv
  <2>2. CASE c = p
    <3>1. p \notin ledger
        BY <1>1, <1>4 DEF CInv, NamesRow
    <3>2. Begins(p)' /\ NamesRow(p)'
        BY <1>1, <1>2, <1>3, <1>4, <3>1, CallAssumption DEF CInv, Begins, NamesRow, Sent
    <3>3. Submits(p)'
        BY <1>1, <1>3, <1>4, <1>5 DEF CInv, Submits
    <3> QED
        BY <1>3, <1>4, <2>2, <3>2, <3>3 DEF CInv
  <2>3. CASE c # p
    <3>1. exec'[c] = exec[c] /\ press'[c] = press[c]
        BY <1>2, <1>3, <2>3 DEF OnePress
    <3> QED
        BY <1>5, <2>1, <3>1 DEF CInv, Begins, NamesRow, Submits, Sent
  <2> QED
      BY <2>2, <2>3
<1>8. Mints' = Mints
    BY DEF Mints
<1>9. Minted' /\ Alone'
    BY <1>7, <1>8 DEF IInv, Minted, Alone
<1>10. ledger' \subseteq Calls \cup {0}
    BY DEF IInv
<1> QED
    BY <1>6, <1>7, <1>9, <1>10 DEF IInv

\* The result of a row, which may be the plan's last.
LEMMA DoneKeeps ==
    ASSUME IInv, NEW p \in Calls, NEW status, ~Sent(p), Done(p, status),
           UNCHANGED <<setup, uni, orca, event, ledger, moved, overlapped>>
    PROVE  IInv'
<1> DEFINE rest == press[p].rows \ {NextRow(p)}
<1>1. CASE rest # {}
  <2>1. OnePress(p)
      BY <1>1 DEF Done, IInv, Shape, OnePress, NoPress
  <2>2. exec' = exec /\ board' = board
      BY <1>1 DEF Done
  <2> QED
      BY <2>1, <2>2, PressKeeps DEF server
<1>2. CASE rest = {}
  <2>1. PICK paid : Send(p, paid)
      BY <1>2 DEF Done
  <2> QED
      BY <2>1, SendKeeps
<1> QED
    BY <1>1, <1>2

LEMMA JobKeeps ==
    ASSUME IInv, CreateJob \/ InsertPosition \/ InsertFails \/ PositionAnswered \/ Review
    PROVE  IInv'
<1>1. UNCHANGED <<setup, server, moved, overlapped, press>> /\ DOMAIN board' = DOMAIN board
  <2>1. CASE CreateJob
      BY <2>1 DEF CreateJob, IInv, Shape
  <2>2. CASE InsertPosition
      BY <2>2 DEF InsertPosition, IInv, Shape
  <2>3. CASE InsertFails
      BY <2>3 DEF InsertFails, IInv, Shape
  <2>4. CASE PositionAnswered
      BY <2>4 DEF PositionAnswered, IInv, Shape
  <2>5. CASE Review
      BY <2>5 DEF Review, IInv, Shape
  <2> QED
      BY <2>1, <2>2, <2>3, <2>4, <2>5
<1>2. ledger \subseteq ledger' /\ ledger' \subseteq ledger \cup {0}
    BY DEF CreateJob, InsertPosition, InsertFails, PositionAnswered, Review
<1>3. Shape' /\ \A c \in Calls : Sent(c)' = Sent(c)
    BY <1>1 DEF IInv, Shape, Sent, server
<1> QED
    BY <1>1, <1>2, <1>3, BoardKeeps

LEMMA AskKeeps ==
    ASSUME IInv, NEW p \in Calls, Execute(p) \/ Password(p) \/ Cancel(p) \/ StartPlan(p)
    PROVE  IInv'
<1>1. ~Sent(p)
    BY DEF Execute, Password, Cancel, StartPlan, At, Sent
<1>2. UNCHANGED <<setup, server, ledger, moved, overlapped>> /\ DOMAIN board' = DOMAIN board
  <2>1. CASE Execute(p)
      BY <2>1 DEF Execute, IInv, Shape
  <2>2. CASE Password(p) \/ StartPlan(p)
      BY <2>2 DEF Password, StartPlan
  <2>3. CASE Cancel(p)
      BY <2>3 DEF Cancel, IInv, Shape
  <2> QED
      BY <2>1, <2>2, <2>3
<1>3. OnePress(p)
  <2>1. CASE Execute(p) \/ Password(p) \/ Cancel(p)
      BY <2>1, PressShapes DEF Execute, Password, Cancel, IInv
  <2>2. CASE StartPlan(p)
      BY <2>2 DEF StartPlan, IInv, Shape, OnePress, NoPress
  <2> QED
      BY <2>1, <2>2
<1> QED
    BY <1>1, <1>2, <1>3, PressKeeps

LEMMA AnswerKeeps == ASSUME IInv, NEW p \in Calls, Answered(p) \/ AnswerLost(p) PROVE IInv'
<1>1. PICK pc \in {"done", "failed"} : Goto(p, pc)
    BY DEF Answered, AnswerLost
<1>2. OnePress(p) /\ Sent(p)' /\ press'[p].pre = press[p].pre
    BY <1>1, PressShapes DEF IInv, Sent
<1>3. UNCHANGED <<setup, server, ledger, moved, overlapped>> /\ DOMAIN board' = DOMAIN board
    BY DEF Answered, AnswerLost, IInv, Shape
<1> QED
    BY <1>2, <1>3, PressKeeps

LEMMA WalletKeeps == ASSUME IInv, NEW p \in Calls, WalletStep(p) PROVE IInv'
<1>1. ~Sent(p)
    BY DEF WalletStep, SignMessage, PasswordVerified, Sign, WalletSkips, Quote, Order, Swap,
           PreparationFails, WalletSends, Confirm, At, Sent
<1>2. Shape
    BY DEF IInv
<1>3. CASE SignMessage(p)
  <2>1. CASE Send(p, {})
      BY <1>1, <1>3, <2>1, SendKeeps DEF SignMessage
  <2>2. CASE Goto(p, "failed") /\ UNCHANGED <<exec, board>>
      BY <1>1, <1>2, <1>3, <2>2, PressShapes, PressKeeps DEF SignMessage, server
  <2> QED
      BY <1>3, <2>1, <2>2 DEF SignMessage
<1>4. CASE PasswordVerified(p)
    BY <1>1, <1>4, SendKeeps DEF PasswordVerified
<1>5. CASE Sign(p)
  <2>1. CASE Send(p, press[p].paid)
      BY <1>1, <1>5, <2>1, SendKeeps DEF Sign
  <2>2. CASE (Goto(p, "wallet") \/ Throw(p, 1)) /\ UNCHANGED <<exec, board>>
      BY <1>1, <1>2, <1>5, <2>2, PressShapes, PressKeeps DEF Sign, server
  <2> QED
      BY <1>5, <2>1, <2>2 DEF Sign
<1>6. CASE WalletSkips(p)
    BY <1>1, <1>6, DoneKeeps DEF WalletSkips
<1>7. CASE Quote(p) \/ Order(p) \/ PreparationFails(p)
  <2>1. OnePress(p)
      BY <1>2, <1>7, PressShapes DEF Quote, Order, PreparationFails, Jupiter
  <2> QED
      BY <1>1, <1>7, <2>1, PressKeeps DEF Quote, Order, PreparationFails
<1>8. CASE Swap(p)
  <2>1. OnePress(p)
      BY <1>2, <1>8, PressShapes DEF Swap
  <2>2. moved \subseteq moved' /\ \A m \in moved' : m.by = "server" => m \in moved
      BY <1>8, MovedByWallet DEF Swap
  <2> QED
      BY <1>1, <1>8, <2>1, <2>2, PressKeeps DEF Swap
<1>9. CASE WalletSends(p)
  <2>1. OnePress(p)
      BY <1>2, <1>9, PressShapes DEF WalletSends, Shape, OnePress, NoPress
  <2>2. moved \subseteq moved' /\ \A m \in moved' : m.by = "server" => m \in moved
      BY <1>9, MovedByWallet DEF WalletSends
  <2> QED
      BY <1>1, <1>9, <2>1, <2>2, PressKeeps DEF WalletSends
<1>10. CASE Confirm(p)
  <2>1. CASE Done(p, "submitted")
      BY <1>1, <1>10, <2>1, DoneKeeps DEF Confirm
  <2>2. CASE Throw(p, 1) /\ UNCHANGED <<exec, board>>
      BY <1>1, <1>2, <1>10, <2>2, PressShapes, PressKeeps DEF Confirm, server
  <2> QED
      BY <1>10, <2>1, <2>2 DEF Confirm, Monitor
<1> QED
    BY <1>3, <1>4, <1>5, <1>6, <1>7, <1>8, <1>9, <1>10 DEF WalletStep

-----------------------------------------------------------------------------
(* The server.                                                             *)

\* A step of one call, which may put its row into the ledger.
OneCall(c) ==
    /\ DOMAIN exec' = Calls /\ DOMAIN exec'[c] = DOMAIN NoExec
    /\ DOMAIN uni' = Calls /\ DOMAIN uni'[c] = Attempts
    /\ DOMAIN orca' = Calls /\ DOMAIN orca'[c] = Attempts
    /\ \A d \in Calls \ {c} : exec'[d] = exec[d] /\ uni'[d] = uni[d] /\ orca'[d] = orca[d]
    /\ ledger' \in {ledger, ledger \cup {c}}
    /\ UNCHANGED <<setup, press, board>>

LEMMA CallKeeps ==
    ASSUME IInv, NEW c \in Calls, OneCall(c), CInv(c)', Alone', Minted' PROVE IInv'
<1>1. Shape'
    BY DEF IInv, Shape, OneCall
<1>2. ASSUME NEW d \in Calls \ {c} PROVE CInv(d)'
  <2>1. /\ exec'[d] = exec[d] /\ uni'[d] = uni[d] /\ orca'[d] = orca[d]
        /\ press' = press /\ setup' = setup /\ UniswapIsLive' = UniswapIsLive
      BY DEF OneCall, UniswapIsLive, Live
  <2>2. d \in ledger' <=> d \in ledger
      BY DEF OneCall
  <2>3. CInv(d)
      BY DEF IInv
  <2> QED
      BY <2>1, <2>2, <2>3 DEF CInv, Begins, NamesRow, Submits, Sent
<1>3. ledger' \subseteq Calls \cup {0}
    BY DEF IInv, OneCall
<1> QED
    BY <1>1, <1>2, <1>3 DEF IInv

\* A call goes on, and moves no deposit.
LEMMA OnKeeps ==
    ASSUME IInv, NEW c \in Calls, OneCall(c), CInv(c)', UNCHANGED <<moved, overlapped>>,
           exec'[c].attempt > 0 <=> exec[c].attempt > 0,
           uni[c][1] \in {"minted", "failed"} => uni'[c][1] \in {"minted", "failed"}
    PROVE  IInv'
<1>1. \A d \in Calls : exec'[d].attempt > 0 <=> exec[d].attempt > 0
    BY DEF OneCall
<1>2. Alone'
    BY <1>1 DEF IInv, Alone
<1>3. \A d \in Calls : uni[d][1] \in {"minted", "failed"} => uni'[d][1] \in {"minted", "failed"}
    BY DEF OneCall
<1>4. Mints' = Mints
    BY DEF Mints
<1>5. Minted'
    BY <1>1, <1>3, <1>4 DEF IInv, Minted, OneCall
<1> QED
    BY <1>2, <1>5, CallKeeps

\* What the start of attempt n sets.
LEMMA StartFacts ==
    ASSUME Shape, NEW c \in Calls, NEW n \in Attempts, StartAttempt(c, n),
           UNCHANGED <<setup, press, board, ledger>>
    PROVE  /\ OneCall(c)
           /\ exec'[c].pc = "run" /\ exec'[c].attempt = n /\ exec'[c].positionId = exec[c].positionId
           /\ \A a \in Attempts \ {n} : uni'[c][a] = uni[c][a] /\ orca'[c][a] = orca[c][a]
           /\ uni'[c][n] = "submit" => UniswapIsLive
           /\ uni'[c][n] \in {"submit", "settled"}
           /\ UniswapIsLive => orca'[c][n] # "rejected"
<1> DEFINE safe == ~Live \/ setup.confirm
           u == IF safe /\ UniswapIsLive THEN "submit" ELSE "settled"
           o == IF ~safe THEN "rejected" ELSE IF OrcaRuns(exec[c].client) THEN "client" ELSE "settled"
<1>1. /\ u \in {"submit", "settled"} /\ (u = "submit" => UniswapIsLive)
      /\ UniswapIsLive => o # "rejected"
    BY DEF UniswapIsLive
<1>2. /\ exec' = [exec EXCEPT ![c].pc = "run", ![c].attempt = n]
      /\ uni' = [uni EXCEPT ![c][n] = u] /\ orca' = [orca EXCEPT ![c][n] = o]
    BY DEF StartAttempt, GotoUni
<1> HIDE DEF u, o
<1>3. /\ DOMAIN exec' = Calls /\ DOMAIN exec'[c] = DOMAIN NoExec
      /\ \A d \in Calls \ {c} : exec'[d] = exec[d]
      /\ exec'[c].pc = "run" /\ exec'[c].attempt = n /\ exec'[c].positionId = exec[c].positionId
    BY <1>2 DEF Shape, NoExec
<1>4. /\ DOMAIN uni' = Calls /\ DOMAIN uni'[c] = Attempts /\ uni'[c][n] = u
      /\ \A d \in Calls \ {c} : uni'[d] = uni[d]
      /\ \A a \in Attempts \ {n} : uni'[c][a] = uni[c][a]
    BY <1>2 DEF Shape
<1>5. /\ DOMAIN orca' = Calls /\ DOMAIN orca'[c] = Attempts /\ orca'[c][n] = o
      /\ \A d \in Calls \ {c} : orca'[d] = orca[d]
      /\ \A a \in Attempts \ {n} : orca'[c][a] = orca[c][a]
    BY <1>2 DEF Shape
<1> QED
    BY <1>1, <1>3, <1>4, <1>5 DEF OneCall

\* A step that only takes the call's record on.
LEMMA ExecFacts ==
    ASSUME Shape, NEW c \in Calls, DOMAIN exec' = Calls, DOMAIN exec'[c] = DOMAIN NoExec,
           \A d \in Calls \ {c} : exec'[d] = exec[d],
           UNCHANGED <<setup, uni, orca, press, board>>, ledger' \in {ledger, ledger \cup {c}}
    PROVE  OneCall(c)
BY DEF Shape, OneCall

LEMMA LookupKeeps ==
    ASSUME IInv, NEW c \in Calls, Lookup(c), UNCHANGED <<board, press>> PROVE IInv'
<1>1. Shape /\ CInv(c) /\ exec[c].pc = "lookup" /\ exec[c].attempt = 0 /\ 1 \in Attempts
    BY CallAssumption DEF IInv, CInv, Begins, Lookup, Attempts
<1>2. UniswapIsLive' = UniswapIsLive
    BY DEF Lookup, UniswapIsLive, Live
<1>3. Sent(c)' = Sent(c)
    BY DEF Sent
<1>4. Mints' = Mints
    BY DEF Lookup, Mints
<1>5. CASE event.told # "none"
  <2>1. PICK answer : exec' = [exec EXCEPT ![c].pc = "answered", ![c].answer = answer]
      BY <1>5 DEF Lookup
  <2>2. UNCHANGED <<setup, uni, orca, press, board, ledger, moved, overlapped>>
      BY <1>5 DEF Lookup
  <2>3. /\ DOMAIN exec' = Calls /\ DOMAIN exec'[c] = DOMAIN NoExec
        /\ \A d \in Calls \ {c} : exec'[d] = exec[d]
        /\ exec'[c].pc = "answered" /\ exec'[c].attempt = 0 /\ exec'[c].positionId = exec[c].positionId
      BY <1>1, <2>1 DEF Shape, NoExec
  <2>4. OneCall(c)
      BY <1>1, <2>2, <2>3, ExecFacts
  <2>5. CInv(c)'
      BY <1>1, <1>2, <1>3, <2>2, <2>3 DEF CInv, Begins, NamesRow, Submits
  <2> QED
      BY <1>1, <2>2, <2>3, <2>4, <2>5, OnKeeps
<1>6. CASE event.told = "none"
  <2>1. StartAttempt(c, 1) /\ UNCHANGED <<setup, press, board, ledger, moved>>
      BY <1>6 DEF Lookup
  <2>2. /\ OneCall(c)
        /\ exec'[c].pc = "run" /\ exec'[c].attempt = 1 /\ exec'[c].positionId = exec[c].positionId
        /\ \A a \in Attempts \ {1} : uni'[c][a] = uni[c][a] /\ orca'[c][a] = orca[c][a]
        /\ uni'[c][1] = "submit" => UniswapIsLive
        /\ UniswapIsLive => orca'[c][1] # "rejected"
      BY <1>1, <2>1, StartFacts
  <2>3. CInv(c)'
    <3>1. Begins(c)' /\ NamesRow(c)'
        BY <1>1, <1>3, <2>1, <2>2, CallAssumption DEF CInv, Begins, NamesRow, Attempts
    <3>2. \A a \in Attempts : a # 1 => uni'[c][a] = "off"
        BY <1>1, <2>2 DEF CInv, Begins
    <3>3. Submits(c)'
        BY <1>1, <1>2, <2>1, <2>2, <3>2 DEF CInv, Submits
    <3> QED
        BY <3>1, <3>3 DEF CInv
  <2>4. overlapped' = (overlapped \/ \E d \in Calls \ {c} : exec[d].attempt > 0)
      BY <1>6 DEF Lookup
  <2>5. Alone'
      BY <2>2, <2>4 DEF IInv, Alone, OneCall
  <2>6. \A m \in Mints : m.call # c
      BY <1>1 DEF IInv, Minted
  <2>7. Minted'
    <3>1. setup' = setup /\ (~overlapped' => ~overlapped)
        BY <2>1, <2>4
    <3>2. ASSUME NEW m \in Mints
          PROVE  m.call \in Calls /\ exec'[m.call] = exec[m.call] /\ uni'[m.call] = uni[m.call]
        BY <2>2, <2>6 DEF IInv, Minted, OneCall
    <3> QED
        BY <1>4, <3>1, <3>2 DEF IInv, Minted
  <2> QED
      BY <2>2, <2>3, <2>5, <2>7, CallKeeps
<1> QED
    BY <1>5, <1>6

\* The call's answer is settled, recorded, or booked.
LEMMA RecordKeeps ==
    ASSUME IInv, NEW c \in Calls, AttemptResolves(c) \/ Record(c) \/ RecordRow(c),
           UNCHANGED <<board, press>>
    PROVE  IInv'
<1>1. Shape /\ CInv(c) /\ exec[c].pc \in {"run", "record", "ledger"} /\ exec[c].attempt > 0
    BY DEF IInv, CInv, Begins, AttemptResolves, Record, RecordRow
<1>3. UNCHANGED <<setup, uni, orca, moved, overlapped>>
    BY DEF AttemptResolves, Record, RecordRow
<1>4. ledger' = ledger \/ (~exec[c].positionId /\ ledger' = ledger \cup {c})
    BY DEF AttemptResolves, Record, RecordRow
<1>5. /\ DOMAIN exec' = Calls /\ DOMAIN exec'[c] = DOMAIN NoExec
      /\ \A d \in Calls \ {c} : exec'[d] = exec[d]
      /\ exec'[c].pc \in {"record", "ledger", "answered"} /\ exec'[c].attempt = exec[c].attempt
      /\ exec'[c].positionId = exec[c].positionId
  <2>1. CASE AttemptResolves(c)
    <3>1. PICK answer : exec' = [exec EXCEPT ![c].pc = "record", ![c].answer = answer]
        BY <2>1 DEF AttemptResolves
    <3> QED
        BY <1>1, <3>1 DEF Shape, NoExec
  <2>2. CASE Record(c)
    <3>1. PICK pc \in {"ledger", "answered"} : exec' = [exec EXCEPT ![c].pc = pc]
        BY <2>2 DEF Record
    <3> QED
        BY <1>1, <3>1 DEF Shape, NoExec
  <2>3. CASE RecordRow(c)
      BY <1>1, <2>3 DEF RecordRow, Shape, NoExec
  <2> QED
      BY <2>1, <2>2, <2>3
<1>6. OneCall(c)
    BY <1>1, <1>3, <1>4, <1>5, ExecFacts
<1>7. CInv(c)'
  <2>1. UniswapIsLive' = UniswapIsLive
      BY <1>3 DEF UniswapIsLive, Live
  <2>2. Begins(c)' /\ Submits(c)'
      BY <1>1, <1>3, <1>5, <2>1 DEF CInv, Begins, Submits, Sent
  <2>3. NamesRow(c)'
      BY <1>1, <1>4, <1>5 DEF CInv, NamesRow
  <2> QED
      BY <2>2, <2>3 DEF CInv
<1> QED
    BY <1>3, <1>5, <1>6, <1>7, OnKeeps

LEMMA RejectKeeps ==
    ASSUME IInv, NEW c \in Calls, AttemptRejects(c), UNCHANGED <<board, press>> PROVE IInv'
<1> DEFINE a == exec[c].attempt
<1>1. /\ Shape /\ CInv(c) /\ exec[c].pc = "run" /\ a \in Attempts /\ orca[c][a] = "rejected"
    BY CallAssumption DEF IInv, CInv, Begins, AttemptRejects, Rejected, Attempts
<1>2. ~(setup.solanaKey /\ UniswapIsLive)
    BY <1>1 DEF CInv, Submits
<1>3. UNCHANGED <<setup, ledger, moved, overlapped>> /\ UniswapIsLive' = UniswapIsLive
    BY DEF AttemptRejects, UniswapIsLive, Live
<1>4. CASE a < MaxAttempts
  <2> DEFINE n == a + 1
  <2>1. n \in Attempts /\ n > 1 /\ StartAttempt(c, n)
      BY <1>1, <1>4, CallAssumption DEF AttemptRejects, Attempts
  <2> HIDE DEF n
  <2>2. /\ OneCall(c)
        /\ exec'[c].pc = "run" /\ exec'[c].attempt = n /\ exec'[c].positionId = exec[c].positionId
        /\ \A b \in Attempts \ {n} : uni'[c][b] = uni[c][b] /\ orca'[c][b] = orca[c][b]
        /\ uni'[c][n] = "submit" => UniswapIsLive
      BY <1>1, <1>3, <2>1, StartFacts
  <2>3. n \in Nat /\ n > a /\ 1 \in Attempts /\ a \in Nat /\ a > 0
      BY <1>1, <2>1, CallAssumption DEF Attempts, n
  <2>4. CInv(c)'
    <3>1. Begins(c)' /\ NamesRow(c)'
        BY <1>1, <1>3, <2>1, <2>2, <2>3, CallAssumption DEF CInv, Begins, NamesRow, Attempts, Sent
    <3>2. ASSUME NEW b \in Attempts, uni'[c][b] = "submit" PROVE UniswapIsLive /\ b <= n
        BY <1>1, <2>2, <2>3, <3>2 DEF CInv, Submits, Attempts
    <3>3. Submits(c)'
        BY <1>2, <1>3, <2>2, <3>2 DEF Submits
    <3> QED
        BY <3>1, <3>3 DEF CInv
  <2>5. (exec'[c].attempt > 0 <=> exec[c].attempt > 0) /\ uni'[c][1] = uni[c][1]
      BY <2>1, <2>2, <2>3
  <2> QED
      BY <1>3, <2>2, <2>4, <2>5, OnKeeps
<1>5. CASE ~(a < MaxAttempts)
  <2>1. PICK answer : exec' = [exec EXCEPT ![c].pc = "record", ![c].answer = answer]
      BY <1>5 DEF AttemptRejects
  <2>2. UNCHANGED <<uni, orca>>
      BY <1>5 DEF AttemptRejects
  <2>3. /\ DOMAIN exec' = Calls /\ DOMAIN exec'[c] = DOMAIN NoExec
        /\ \A d \in Calls \ {c} : exec'[d] = exec[d]
        /\ exec'[c].pc = "record" /\ exec'[c].attempt = a /\ exec'[c].positionId = exec[c].positionId
      BY <1>1, <2>1 DEF Shape, NoExec
  <2>4. OneCall(c)
      BY <1>1, <1>3, <2>2, <2>3, ExecFacts
  <2>5. CInv(c)'
      BY <1>1, <1>3, <2>2, <2>3 DEF CInv, Begins, NamesRow, Submits, Sent
  <2> QED
      BY <1>3, <2>2, <2>3, <2>4, <2>5, OnKeeps
<1> QED
    BY <1>4, <1>5

\* The adapters.  A mint is the only thing of the server that moves a deposit.
LEMMA AdapterKeeps ==
    ASSUME IInv, NEW c \in Calls, NEW a \in Attempts, UniStops(c, a) \/ UniMint(c, a) \/ OrcaClient(c, a),
           UNCHANGED <<board, press>>
    PROVE  IInv'
<1>1. Shape /\ CInv(c) /\ 1 \in Attempts
    BY CallAssumption DEF IInv, Attempts
<1>2. UNCHANGED <<setup, exec, ledger, overlapped>> /\ UniswapIsLive' = UniswapIsLive
    BY DEF UniStops, UniMint, OrcaClient, UniswapIsLive, Live
<1>3. ASSUME NEW state \in {"minted", "failed"}, GotoUni(c, a, state), uni[c][a] = "submit", orca' = orca
      PROVE  /\ OneCall(c) /\ CInv(c)' /\ uni'[c][a] = state
             /\ exec[c].attempt > 0 /\ uni[c][1] \in {"minted", "failed"} => a # 1
             /\ \A d \in Calls, b \in Attempts : uni[d][b] # uni'[d][b] => d = c /\ b = a
  <2>1. /\ DOMAIN uni' = Calls /\ DOMAIN uni'[c] = Attempts /\ uni'[c][a] = state
        /\ \A d \in Calls \ {c} : uni'[d] = uni[d]
        /\ \A b \in Attempts \ {a} : uni'[c][b] = uni[c][b]
      BY <1>1, <1>3 DEF Shape, GotoUni
  <2>2. OneCall(c)
      BY <1>1, <1>2, <1>3, <2>1 DEF OneCall, Shape
  <2>3. exec[c].attempt # 0
      BY <1>1, <1>3 DEF CInv, Begins
  <2>4. CInv(c)'
      BY <1>1, <1>2, <1>3, <2>1, <2>3 DEF CInv, Begins, NamesRow, Submits, Sent
  <2> QED
      BY <1>3, <2>1, <2>2, <2>4
<1>4. CASE UniStops(c, a)
    BY <1>1, <1>2, <1>3, <1>4, OnKeeps DEF UniStops
<1>5. CASE UniMint(c, a)
  <2>1. PICK state \in {"minted", "failed"} : GotoUni(c, a, state)
      BY <1>5 DEF UniMint
  <2>2. uni[c][a] = "submit" /\ orca' = orca
      BY <1>5 DEF UniMint
  <2>3. /\ OneCall(c) /\ CInv(c)' /\ uni'[c][a] = state
        /\ \A d \in Calls, b \in Attempts : uni[d][b] # uni'[d][b] => d = c /\ b = a
      BY <1>3, <2>1, <2>2
  <2>4. UniswapIsLive /\ exec[c].attempt > 0 /\ (setup.solanaKey => a = 1)
      BY <1>1, <2>2, CallAssumption DEF CInv, Submits, Begins, Attempts
  <2>5. Alone'
      BY <1>2 DEF IInv, Alone
  <2>6. PICK new : moved' = moved \cup {new} /\ new.by = "server" /\ new.call = c
      BY <1>5, MovedAdds DEF UniMint
  <2>7. Mints' = Mints \cup {new}
      BY <2>6 DEF Mints
  <2>8. ~overlapped /\ setup.solanaKey => Mints = {}
    <3> SUFFICES ASSUME ~overlapped, setup.solanaKey, NEW m \in Mints PROVE FALSE
        OBVIOUS
    <3>1. m.call = c
        BY <2>4 DEF IInv, Minted, Alone
    <3>2. uni[c][1] \in {"minted", "failed"}
        BY <3>1 DEF IInv, Minted
    <3> QED
        BY <2>2, <2>4, <3>2
  <2>9. Minted'
    <3>1. ASSUME NEW m \in Mints'
          PROVE  /\ m.call \in Calls /\ exec'[m.call].attempt > 0
                 /\ setup'.solanaKey => uni'[m.call][1] \in {"minted", "failed"}
      <4>1. CASE m = new
          BY <1>2, <2>1, <2>3, <2>4, <2>6, <4>1
      <4>2. CASE m \in Mints
        <5>1. /\ m.call \in Calls /\ exec[m.call].attempt > 0
              /\ setup.solanaKey => uni[m.call][1] \in {"minted", "failed"}
            BY <4>2 DEF IInv, Minted
        <5> QED
            BY <1>1, <1>2, <2>2, <2>3, <5>1
      <4> QED
          BY <2>7, <3>1, <4>1, <4>2
    <3>2. ~overlapped' /\ setup'.solanaKey => \A m \in Mints', n \in Mints' : m = n
        BY <1>2, <2>7, <2>8
    <3> QED
        BY <3>1, <3>2 DEF Minted
  <2> QED
      BY <2>3, <2>5, <2>9, CallKeeps
<1>6. CASE OrcaClient(c, a)
  <2> DEFINE o == IF setup.solanaKey THEN "settled" ELSE "rejected"
  <2>1. orca' = [orca EXCEPT ![c][a] = o] /\ UNCHANGED <<uni, moved>>
      BY <1>6 DEF OrcaClient
  <2> HIDE DEF o
  <2>2. /\ DOMAIN orca' = Calls /\ DOMAIN orca'[c] = Attempts /\ orca'[c][a] = o
        /\ \A d \in Calls \ {c} : orca'[d] = orca[d]
        /\ \A b \in Attempts \ {a} : orca'[c][b] = orca[c][b]
      BY <1>1, <2>1 DEF Shape
  <2>3. OneCall(c)
      BY <1>1, <1>2, <2>1, <2>2 DEF OneCall, Shape
  <2>4. CInv(c)'
      BY <1>1, <1>2, <2>1, <2>2 DEF CInv, Begins, NamesRow, Submits, Sent, o
  <2> QED
      BY <1>2, <2>1, <2>3, <2>4, OnKeeps
<1> QED
    BY <1>4, <1>5, <1>6

-----------------------------------------------------------------------------
LEMMA StepPreserves == ASSUME IInv, [Next]_vars PROVE IInv'
<1>1. ASSUME NEW c \in Calls, ServerStep(c), UNCHANGED <<board, press>> PROVE IInv'
    BY <1>1, LookupKeeps, RecordKeeps, RejectKeeps, AdapterKeeps DEF ServerStep, Attempts
<1>2. CASE UNCHANGED vars
    BY <1>2, StutterKeeps
<1> QED
    BY <1>1, <1>2, JobKeeps, AskKeeps, WalletKeeps, AnswerKeeps DEF Next

LEMMA Invariance == Spec => []IInv
BY InitHolds, StepPreserves, PTL DEF Spec

\* A set whose elements are all equal has one element at most.
LEMMA AtMostOne ==
    ASSUME NEW S, \A x \in S, y \in S : x = y PROVE ~(Cardinality(S) > 1)
<1>1. CASE S = {}
    BY <1>1, FS_EmptySet
<1>2. CASE S # {}
  <2>1. PICK x : S = {x}
      BY <1>2
  <2> QED
      BY <2>1, FS_Singleton
<1> QED
    BY <1>1, <1>2

\* The row made with the job and rows of executions exclude each other when the
\* board knew the created row, and two executions book only when they overlap.
THEOREM DepositIsBookedOnce == Spec => []BookedOnce
<1>1. IInv => BookedOnce
  <2> SUFFICES ASSUME IInv PROVE BookedOnce
      OBVIOUS
  <2>1. ASSUME NEW p \in ledger \ {0} PROVE p \in Calls /\ exec[p].attempt > 0 /\ ~press[p].pre
    <3>1. p \in Calls
        BY DEF IInv
    <3>2. exec[p].attempt > 0 /\ ~exec[p].positionId /\ exec[p].pc # "idle"
        BY <3>1 DEF IInv, CInv, NamesRow, Begins
    <3>3. exec[p].positionId = press[p].pre
        BY <3>1, <3>2 DEF IInv, CInv, NamesRow
    <3> QED
        BY <3>1, <3>2, <3>3
  <2>2. ~overlapped => \A p \in ledger \ {0}, q \in ledger \ {0} : p = q
      BY <2>1 DEF IInv, Alone
  <2>3. ~overlapped => ~(Cardinality(ledger \ {0}) > 1)
      BY <2>2, AtMostOne
  <2> QED
      BY <2>1, <2>3 DEF BookedOnce
<1> QED
    BY <1>1, Invariance, PTL

\* However often it is pressed and retried, the server mints the position once,
\* unless calls overlapped or it runs without a Solana key.
THEOREM PositionIsMintedOnce == Spec => []MintsOnce
<1>1. IInv => MintsOnce
  <2> SUFFICES ASSUME IInv, ~overlapped, setup.solanaKey
               PROVE  ~(Cardinality(UNION {MintsOf(c) : c \in Calls}) > 1)
      BY DEF MintsOnce
  <2> DEFINE all == UNION {MintsOf(c) : c \in Calls}
  <2>1. all \subseteq Mints
      BY DEF MintsOf, Mints
  <2>2. \A m \in all, n \in all : m = n
      BY <2>1 DEF IInv, Minted
  <2>3. ~(Cardinality(all) > 1)
    <3> HIDE DEF all
    <3> QED
        BY <2>2, AtMostOne
  <2> QED
      BY <2>3
<1> QED
    BY <1>1, Invariance, PTL
-----------------------------------------------------------------------------
(* What the wallets pay.  A row that is still to be handled has been paid   *)
(* and bought for only as often as the plan was thrown back (Bounded); no   *)
(* two presses are at a wallet, since a plan covers the board (Covers), so  *)
(* the balances that a press reads are of its own making (Stocked).         *)

Working == {"sign", "wallet", "order", "swap", "confirm"}
Fresh == {"idle", "plan", "message", "password", "verified"}

Covers(p) == press[p].pc \in Working \cup {"plan", "password", "verified"} => board.modal = p

Fields == {"protocol", "chain", "action", "usd", "status"}
WalletKeys == Keys(OrcaRows(setup.product))

\* In every list of results an Orca row has a key of the wallet's table, once.
Sound(rows) ==
    /\ \A r \in rows : DOMAIN r = Fields
    /\ \A r \in rows : r.protocol = "Orca" => Key(r) \in WalletKeys
    /\ \A r \in rows, s \in rows : r.protocol = "Orca" /\ Key(r) = Key(s) => r = s
Orcas(rows) == Sound(rows) /\ \A r \in rows : r.protocol = "Orca"

Planned(p) ==
    /\ Orcas(press[p].rows) /\ Orcas(press[p].paid)
    /\ Keys(press[p].rows) \cap Keys(press[p].paid) = {}
    /\ press[p].pc \in Fresh => press[p].paid = {}
    /\ press[p].pc \in Working =>
          Keys(press[p].rows) \cup Keys(press[p].paid) \subseteq Keys(ReadyRows(press[p].quote))
    /\ press[p].pc \in Working \ {"sign"} => press[p].rows # {}

\* A call carries what its press paid, and its own answer contains it.
Answers(c) ==
    /\ DOMAIN exec[c].answer = DOMAIN NoAnswer /\ Sound(exec[c].answer.rows)
    /\ Orcas(exec[c].client)
    /\ IF exec[c].pc = "idle" THEN exec[c].answer.told = "none" ELSE exec[c].client = press[c].paid
    /\ Keys(exec[c].client) \subseteq exec[c].ready
    /\ exec[c].answer.told = "own" /\ exec[c].answer.ok /\ Network \in {"Solana", "Multi"} =>
          exec[c].client \subseteq exec[c].answer.rows

Paid(p, k) == Cardinality({d \in MovesOf(k, "wallet") : d.call = p})
Bought(p, k) == Cardinality({d \in MovesOf(k, "swap") \cup MovesOf(k, "late") : d.call = p})
Swaps(k) == Cardinality(MovesOf(k, "swap"))
Took(k) == Cardinality(MovesOf(k, "wallet"))

\* The row is still to be paid.
Open(p, k) ==
    \/ press[p].pc \in {"idle", "plan"}
    \/ /\ press[p].pc \in Working /\ k \in Keys(press[p].rows)
       /\ ~(press[p].pc = "confirm" /\ k = Key(NextRow(p)))

Bounded(p) ==
    /\ press[p].trouble \in Nat
    /\ \A k \in WalletKeys :
          /\ Paid(p, k) <= press[p].trouble + 1 /\ Bought(p, k) <= press[p].trouble + 1
          /\ Open(p, k) => Paid(p, k) <= press[p].trouble
          /\ Open(p, k) => \/ Bought(p, k) <= press[p].trouble
                           \/ press[p].pc = "wallet" /\ k = Key(NextRow(p)) /\ Took(k) < Swaps(k)
    /\ press[p].pc \in {"order", "swap"} =>
          setup.lacks /\ Swaps(Key(NextRow(p))) <= Took(Key(NextRow(p)))

\* A position takes a token that was bought.
Stocked == setup.lacks => \A k \in WalletKeys : Took(k) <= Swaps(k)

\* What was paid without trouble is in the results of the plan.
Reported(p) ==
    press[p].trouble = 0 => \A d \in WalletMoves(p) :
        \/ \E r \in press[p].paid : Key(r) = d.key /\ r.usd = d.usd
        \/ press[p].pc = "confirm" /\ d.key = Key(NextRow(p)) /\ d.usd = WalletRow(p, "submitted").usd

Numbered ==
    /\ IsFiniteSet(moved)
    /\ \A d \in moved : d.nth \in Nat /\ d.nth <= Cardinality(Alike(d.by, d.call, d.key, d.usd))

PInv(p) == Covers(p) /\ Planned(p) /\ Answers(p) /\ Bounded(p) /\ Reported(p)
Shared ==
    /\ DOMAIN event = DOMAIN NoAnswer /\ Sound(event.rows) /\ Sound(board.result)
    /\ Stocked /\ Numbered

WInv == IInv /\ Shared /\ \A p \in Calls : PInv(p)

-----------------------------------------------------------------------------
LEMMA OrcaTables ==
    ASSUME NEW product
    PROVE  /\ \A i \in DOMAIN OrcaTable(product) : i \in Nat /\ OrcaTable(product)[i].protocol = "Orca"
           /\ \A i \in DOMAIN OrcaTable(product), j \in DOMAIN OrcaTable(product) :
                 OrcaTable(product)[i].action = OrcaTable(product)[j].action => i = j
BY DEF OrcaTable, Row

LEMMA OtherTables ==
    ASSUME NEW product
    PROVE  /\ \A row \in AaveTable(product) : row.protocol = "Aave"
           /\ \A row \in UniswapTable(product) : row.protocol = "Uniswap"
           /\ \A row \in CurveTable(product) : row.protocol = "Curve"
           /\ \A row \in AerodromeTable(product) : row.protocol = "Aerodrome"
           /\ \A row \in RaydiumTable(product) : row.protocol = "Raydium"
<1>1. \A row \in AaveTable(product) : row.protocol = "Aave"
    BY DEF AaveTable, Row
<1>2. \A row \in UniswapTable(product) : row.protocol = "Uniswap"
    BY DEF UniswapTable, StablePair, Row
<1>3. \A row \in CurveTable(product) : row.protocol = "Curve"
    BY DEF CurveTable, Row
<1>4. \A row \in AerodromeTable(product) : row.protocol = "Aerodrome"
    BY DEF AerodromeTable, Row
<1>5. \A row \in RaydiumTable(product) : row.protocol = "Raydium"
    BY DEF RaydiumTable, Row
<1> QED
    BY <1>1, <1>2, <1>3, <1>4, <1>5

LEMMA PreviewTables ==
    ASSUME NEW product, NEW row \in PreviewTable(product), row.protocol = "Orca"
    PROVE  row \in OrcaRows(product)
<1>1. CASE product = "base-stable"
    BY <1>1, OtherTables DEF PreviewTable, Row
<1>2. CASE product \in {"eth-stable", "eth-bluechip"}
  <2>1. OrcaTable(product) = <<Row("Orca", "Solana", "USDC-USDT", 20)>>
      BY <1>2 DEF OrcaTable
  <2>2. Row("Orca", "Solana", "USDC-USDT", 20) \in OrcaRows(product)
      BY <2>1 DEF OrcaRows, Range
  <2> QED
      BY <1>2, <2>2 DEF PreviewTable, Row
<1>3. CASE product \notin {"base-stable", "eth-stable", "eth-bluechip"}
  <2>1. PreviewTable(product) = AaveTable(product) \cup UniswapTable(product) \cup OrcaRows(product)
      BY <1>3 DEF PreviewTable
  <2> QED
      BY <2>1, OtherTables
<1> QED
    BY <1>1, <1>2, <1>3

LEMMA TableKeys ==
    ASSUME NEW r \in OrcaRows(setup.product), NEW s \in OrcaRows(setup.product), Key(r) = Key(s) PROVE r = s
<1>1. PICK i \in DOMAIN OrcaTable(setup.product) : r = OrcaTable(setup.product)[i]
    BY DEF OrcaRows, Range
<1>2. PICK j \in DOMAIN OrcaTable(setup.product) : s = OrcaTable(setup.product)[j]
    BY DEF OrcaRows, Range
<1> QED
    BY <1>1, <1>2, OrcaTables DEF Key

\* The results of a table.
LEMMA ResultsAreSound ==
    ASSUME NEW table, NEW status, \A row \in table : row.protocol = "Orca" => row \in OrcaRows(setup.product)
    PROVE  Sound(Results(table, status))
<1> SUFFICES ASSUME NEW x \in table, NEW y \in table
             PROVE  /\ DOMAIN Result(x, status) = Fields
                    /\ x.protocol = "Orca" => Key(Result(x, status)) \in WalletKeys
                    /\ x.protocol = "Orca" /\ Key(Result(x, status)) = Key(Result(y, status)) => x = y
    BY DEF Sound, Results, Result
<1>1. DOMAIN Result(x, status) = Fields
    BY DEF Result, Fields
<1>2. Key(Result(x, status)) = Key(x) /\ Key(Result(y, status)) = Key(y)
    BY DEF Result, Key
<1>3. Key(x) = Key(y) => x.protocol = y.protocol
    BY DEF Key
<1> QED
    BY <1>1, <1>2, <1>3, TableKeys DEF WalletKeys, Keys

\* The next row of a plan that is at a wallet.
LEMMA NextIsThere ==
    ASSUME NEW p \in Calls, Planned(p), press[p].pc \in Working \ {"sign"}
    PROVE  /\ NextRow(p) \in press[p].rows /\ Key(NextRow(p)) \in WalletKeys
           /\ \A r \in press[p].rows : Key(r) = Key(NextRow(p)) => r = NextRow(p)
           /\ \A status : /\ Key(WalletRow(p, status)) = Key(NextRow(p))
                          /\ DOMAIN WalletRow(p, status) = Fields /\ WalletRow(p, status).protocol = "Orca"
<1> DEFINE rows == press[p].rows
           T == {WalletEntry(r) : r \in rows}
<1>1. rows # {} /\ Orcas(rows)
    BY DEF Planned
<1>2. ASSUME NEW r \in rows PROVE WalletEntry(r) \in Nat
  <2>1. PICK s \in OrcaRows(setup.product) : Key(r) = Key(s)
      BY <1>1 DEF Orcas, Sound, WalletKeys, Keys
  <2>2. PICK i \in DOMAIN OrcaTable(setup.product) : s = OrcaTable(setup.product)[i]
      BY DEF OrcaRows, Range
  <2>3. OrcaTable(setup.product)[i].action = r.action
      BY <2>1, <2>2 DEF Key
  <2>4. WalletEntry(r) \in DOMAIN OrcaTable(setup.product)
      BY <2>3 DEF WalletEntry
  <2> QED
      BY <2>4, OrcaTables
<1>3. PICK n \in T : \A m \in T : n <= m
  <2>1. T \in SUBSET Nat /\ T # {}
      BY <1>1, <1>2
  <2> HIDE DEF T
  <2> QED
      BY <2>1, Least
<1>4. \E r \in rows : \A s \in rows : WalletEntry(r) <= WalletEntry(s)
    BY <1>3
<1>5. NextRow(p) \in rows
    BY <1>4 DEF NextRow
<1>6. DOMAIN NextRow(p) = Fields /\ NextRow(p).protocol = "Orca" /\ Key(NextRow(p)) \in WalletKeys
    BY <1>1, <1>5 DEF Orcas, Sound
<1>7. \A r \in rows : Key(r) = Key(NextRow(p)) => r = NextRow(p)
    BY <1>1, <1>5 DEF Orcas, Sound
<1>8. ASSUME NEW status
      PROVE  /\ Key(WalletRow(p, status)) = Key(NextRow(p))
             /\ DOMAIN WalletRow(p, status) = Fields /\ WalletRow(p, status).protocol = "Orca"
  <2>1. PICK usd : WalletRow(p, status) = [NextRow(p) EXCEPT !.usd = usd, !.status = status]
      BY DEF WalletRow
  <2> QED
      BY <1>6, <2>1 DEF Key, Fields
<1> QED
    BY <1>5, <1>6, <1>7, <1>8
-----------------------------------------------------------------------------
(* Counting the deposits.                                                  *)

\* A deposit more adds one to the counts it belongs to.
LEMMA OneMore ==
    ASSUME NEW S, IsFiniteSet(S), NEW x, x \notin S
    PROVE  IsFiniteSet(S \cup {x}) /\ Cardinality(S \cup {x}) = Cardinality(S) + 1 /\ Cardinality(S) \in Nat
BY FS_AddElement, FS_CardinalityType

LEMMA MovedIsNew ==
    ASSUME Numbered, NEW by, NEW p, NEW row, Moved(by, p, row)
    PROVE  \E new : /\ new \notin moved /\ moved' = moved \cup {new}
                    /\ new.by = by /\ new.call = p /\ new.key = Key(row) /\ new.usd = row.usd
                    /\ Numbered'
<1> DEFINE alike == Alike(by, p, Key(row), row.usd)
           n == Cardinality(alike) + 1
           new == [by |-> by, call |-> p, key |-> Key(row), usd |-> row.usd, nth |-> n]
<1>1. moved' = moved \cup {new}
    BY DEF Moved
<1>2. new.by = by /\ new.call = p /\ new.key = Key(row) /\ new.usd = row.usd /\ new.nth = n
    OBVIOUS
<1>3. IsFiniteSet(alike) /\ Cardinality(alike) \in Nat
    BY FS_Subset, FS_CardinalityType DEF Numbered, Alike
<1>4. new \notin moved
  <2> SUFFICES ASSUME new \in moved PROVE FALSE
      OBVIOUS
  <2>1. n <= Cardinality(Alike(new.by, new.call, new.key, new.usd))
      BY <1>2 DEF Numbered
  <2>2. Alike(new.by, new.call, new.key, new.usd) = alike
      BY <1>2
  <2> HIDE DEF new, alike
  <2> QED
      BY <1>3, <2>1, <2>2
<1> HIDE DEF new
<1>5. ASSUME NEW d \in moved' PROVE d.nth \in Nat /\ d.nth <= Cardinality(Alike(d.by, d.call, d.key, d.usd)')
  <2> DEFINE A == Alike(d.by, d.call, d.key, d.usd)
             B == {e \in moved' : e.by = d.by /\ e.call = d.call /\ e.key = d.key /\ e.usd = d.usd}
  <2>1. B = Alike(d.by, d.call, d.key, d.usd)'
      BY DEF Alike
  <2>2. IsFiniteSet(A) /\ Cardinality(A) \in Nat
      BY FS_Subset, FS_CardinalityType DEF Numbered, Alike
  <2>3. new \notin A
      BY <1>4 DEF Alike
  <2>4. CASE d = new
    <3>1. A = alike
        BY <1>2, <2>4
    <3>2. B = A \cup {new}
        BY <1>1, <2>4 DEF Alike
    <3> HIDE DEF A, B, alike
    <3>3. Cardinality(B) = n
        BY <2>2, <2>3, <3>1, <3>2, OneMore
    <3> QED
        BY <1>2, <1>3, <2>1, <2>4, <3>3
  <2>5. CASE d # new
    <3>1. d \in moved
        BY <1>1, <2>5
    <3>2. d.nth \in Nat /\ d.nth <= Cardinality(A)
        BY <3>1 DEF Numbered
    <3>3. B = A \/ B = A \cup {new}
        BY <1>1 DEF Alike
    <3> HIDE DEF A, B
    <3>4. Cardinality(B) = Cardinality(A) \/ Cardinality(B) = Cardinality(A) + 1
        BY <2>2, <2>3, <3>3, OneMore
    <3> QED
        BY <2>1, <2>2, <3>2, <3>4
  <2> QED
      BY <2>4, <2>5
<1>6. IsFiniteSet(moved')
    BY <1>1, FS_AddElement DEF Numbered
<1>7. Numbered'
    BY <1>5, <1>6 DEF Numbered
<1> QED
    BY <1>1, <1>2, <1>4, <1>7

LEMMA CountTypes ==
    ASSUME Numbered, NEW p, NEW k
    PROVE  Paid(p, k) \in Nat /\ Bought(p, k) \in Nat /\ Swaps(k) \in Nat /\ Took(k) \in Nat
<1>1. \A S \in SUBSET moved : Cardinality(S) \in Nat
    BY FS_Subset, FS_CardinalityType DEF Numbered
<1> QED
    BY <1>1 DEF Paid, Bought, Swaps, Took, MovesOf

\* What a deposit adds to the counts.
LEMMA CountsMove ==
    ASSUME Numbered, NEW by, NEW p, NEW row, Moved(by, p, row), NEW q, NEW k
    PROVE  /\ Paid(q, k)' = IF by = "wallet" /\ q = p /\ k = Key(row) THEN Paid(q, k) + 1 ELSE Paid(q, k)
           /\ Bought(q, k)' = IF by \in {"swap", "late"} /\ q = p /\ k = Key(row)
                              THEN Bought(q, k) + 1 ELSE Bought(q, k)
           /\ Swaps(k)' = IF by = "swap" /\ k = Key(row) THEN Swaps(k) + 1 ELSE Swaps(k)
           /\ Took(k)' = IF by = "wallet" /\ k = Key(row) THEN Took(k) + 1 ELSE Took(k)
<1>1. PICK new : /\ new \notin moved /\ moved' = moved \cup {new}
                 /\ new.by = by /\ new.call = p /\ new.key = Key(row)
    BY MovedIsNew
<1>2. \A S \in SUBSET moved : /\ IsFiniteSet(S) /\ new \notin S
                              /\ Cardinality(S \cup {new}) = Cardinality(S) + 1
    BY <1>1, FS_Subset, OneMore DEF Numbered
<1> DEFINE paid == {d \in MovesOf(k, "wallet") : d.call = q}
           bought == {d \in MovesOf(k, "swap") \cup MovesOf(k, "late") : d.call = q}
           swaps == MovesOf(k, "swap")
           took == MovesOf(k, "wallet")
<1>3. paid' = IF by = "wallet" /\ q = p /\ k = Key(row) THEN paid \cup {new} ELSE paid
    BY <1>1 DEF MovesOf
<1>4. bought' = IF by \in {"swap", "late"} /\ q = p /\ k = Key(row) THEN bought \cup {new} ELSE bought
    BY <1>1 DEF MovesOf
<1>5. swaps' = IF by = "swap" /\ k = Key(row) THEN swaps \cup {new} ELSE swaps
    BY <1>1 DEF MovesOf
<1>6. took' = IF by = "wallet" /\ k = Key(row) THEN took \cup {new} ELSE took
    BY <1>1 DEF MovesOf
<1>7. paid \subseteq moved /\ bought \subseteq moved /\ swaps \subseteq moved /\ took \subseteq moved
    BY DEF MovesOf
<1>8. /\ Paid(q, k) = Cardinality(paid) /\ Bought(q, k) = Cardinality(bought)
      /\ Swaps(k) = Cardinality(swaps) /\ Took(k) = Cardinality(took)
    BY DEF Paid, Bought, Swaps, Took
<1>9. /\ Paid(q, k)' = Cardinality(paid') /\ Bought(q, k)' = Cardinality(bought')
      /\ Swaps(k)' = Cardinality(swaps') /\ Took(k)' = Cardinality(took')
    BY DEF Paid, Bought, Swaps, Took
<1> HIDE DEF paid, bought, swaps, took
<1>10. Paid(q, k)' = IF by = "wallet" /\ q = p /\ k = Key(row) THEN Paid(q, k) + 1 ELSE Paid(q, k)
    BY <1>2, <1>3, <1>7, <1>8, <1>9
<1>11. Bought(q, k)' = IF by \in {"swap", "late"} /\ q = p /\ k = Key(row)
                       THEN Bought(q, k) + 1 ELSE Bought(q, k)
    BY <1>2, <1>4, <1>7, <1>8, <1>9
<1>12. Swaps(k)' = IF by = "swap" /\ k = Key(row) THEN Swaps(k) + 1 ELSE Swaps(k)
    BY <1>2, <1>5, <1>7, <1>8, <1>9
<1>13. Took(k)' = IF by = "wallet" /\ k = Key(row) THEN Took(k) + 1 ELSE Took(k)
    BY <1>2, <1>6, <1>7, <1>8, <1>9
<1> QED
    BY <1>10, <1>11, <1>12, <1>13

\* No count and no wallet's deposit changes.
CountsKept ==
    /\ Numbered'
    /\ \A q, k : /\ Paid(q, k)' = Paid(q, k) /\ Bought(q, k)' = Bought(q, k)
                 /\ Swaps(k)' = Swaps(k) /\ Took(k)' = Took(k)
    /\ \A q : WalletMoves(q)' = WalletMoves(q)

LEMMA SameMoves == ASSUME Numbered, moved' = moved PROVE CountsKept
BY DEF CountsKept, Numbered, Alike, Paid, Bought, Swaps, Took, MovesOf, WalletMoves

LEMMA ServerMoves ==
    ASSUME Numbered, NEW p, NEW row, Moved("server", p, row) PROVE CountsKept
<1>1. PICK new : moved' = moved \cup {new} /\ new.by = "server" /\ Numbered'
    BY MovedIsNew
<1>2. \A q : WalletMoves(q)' = WalletMoves(q)
    BY <1>1 DEF WalletMoves
<1>3. \A q, k : /\ Paid(q, k)' = Paid(q, k) /\ Bought(q, k)' = Bought(q, k)
                /\ Swaps(k)' = Swaps(k) /\ Took(k)' = Took(k)
    BY CountsMove
<1> QED
    BY <1>1, <1>2, <1>3 DEF CountsKept
-----------------------------------------------------------------------------
(* What a step leaves alone.                                               *)

LEMMA SetupKept ==
    ASSUME setup' = setup
    PROVE  WalletKeys' = WalletKeys /\ Network' = Network /\ \A row : IsReady(row)' = IsReady(row)
BY DEF WalletKeys, Network, Keys, IsReady, Live

LEMMA NextKept ==
    ASSUME setup' = setup, NEW p, press'[p].rows = press[p].rows
    PROVE  NextRow(p)' = NextRow(p) /\ \A status : WalletRow(p, status)' = WalletRow(p, status)
<1>1. \A row : WalletEntry(row)' = WalletEntry(row)
    BY DEF WalletEntry
<1>2. NextRow(p)' = NextRow(p)
    BY <1>1 DEF NextRow
<1> QED
    BY <1>1, <1>2 DEF WalletRow

\* A press that is left alone and counts nothing new, with or without its call.
LEMMA PressElsewhere ==
    ASSUME NEW p \in Calls, PInv(p), setup' = setup, press'[p] = press[p], WalletMoves(p)' = WalletMoves(p),
           \A k : Paid(p, k)' = Paid(p, k) /\ Bought(p, k)' = Bought(p, k),
           press[p].pc \in Working => \A k : Swaps(k)' = Swaps(k) /\ Took(k)' = Took(k)
    PROVE  Planned(p)' /\ Bounded(p)' /\ Reported(p)'
<1>1. /\ NextRow(p)' = NextRow(p) /\ WalletRow(p, "submitted")' = WalletRow(p, "submitted")
      /\ WalletKeys' = WalletKeys
    BY NextKept, SetupKept
<1>2. Planned(p)'
  <2>1. /\ Orcas(press[p].rows)' /\ Orcas(press[p].paid)'
        /\ ReadyRows(press[p].quote)' = ReadyRows(press[p].quote)
      BY SetupKept DEF PInv, Planned, Orcas, Sound, ReadyRows
  <2> QED
      BY <2>1 DEF PInv, Planned, Keys
<1>3. \A k : Open(p, k)' = Open(p, k)
    BY <1>1 DEF Open, Keys
<1>4. Bounded(p)'
    BY <1>1, <1>3 DEF PInv, Bounded, Working
<1>5. Reported(p)'
    BY <1>1 DEF PInv, Reported
<1> QED
    BY <1>2, <1>4, <1>5

LEMMA Elsewhere ==
    ASSUME NEW p \in Calls, PInv(p), Covers(p)', setup' = setup, press'[p] = press[p], exec'[p] = exec[p],
           WalletMoves(p)' = WalletMoves(p),
           \A k : Paid(p, k)' = Paid(p, k) /\ Bought(p, k)' = Bought(p, k),
           press[p].pc \in Working => \A k : Swaps(k)' = Swaps(k) /\ Took(k)' = Took(k)
    PROVE  PInv(p)'
<1>1. Answers(p)'
    BY SetupKept DEF PInv, Answers, Orcas, Sound, Keys
<1> QED
    BY <1>1, PressElsewhere DEF PInv

\* Two presses are not at a wallet at once.
LEMMA OneAtAWallet ==
    ASSUME NEW p \in Calls, NEW q \in Calls, p # q, Covers(p), Covers(q), press[p].pc \in Working
    PROVE  press[q].pc \notin Working
BY DEF Covers
-----------------------------------------------------------------------------
(* The steps of a press.                                                   *)

\* The other presses.
LEMMA OthersKeep ==
    ASSUME WInv, NEW p \in Calls, OnePress(p), setup' = setup, \A q \in Calls \ {p} : exec'[q] = exec[q],
           board'.modal = board.modal \/ board.modal \in {0, p},
           CountsKept \/ (press[p].pc \in Working /\ \E by, row : Moved(by, p, row))
    PROVE  \A q \in Calls \ {p} : PInv(q)'
<1> SUFFICES ASSUME NEW q \in Calls \ {p} PROVE PInv(q)'
    OBVIOUS
<1>1. PInv(p) /\ PInv(q) /\ Numbered /\ press'[q] = press[q] /\ exec'[q] = exec[q] /\ q # 0
    BY CallAssumption DEF WInv, Shared, OnePress
<1>2. Covers(q)'
    BY <1>1 DEF PInv, Covers
<1>3. CASE CountsKept
    BY <1>1, <1>2, <1>3, Elsewhere DEF CountsKept
<1>4. ASSUME press[p].pc \in Working, NEW by, NEW row, Moved(by, p, row) PROVE PInv(q)'
  <2>1. press[q].pc \notin Working
      BY <1>1, <1>4, OneAtAWallet DEF PInv
  <2>2. \A k : Paid(q, k)' = Paid(q, k) /\ Bought(q, k)' = Bought(q, k)
      BY <1>1, <1>4, CountsMove
  <2>3. PICK new : moved' = moved \cup {new} /\ new.call = p
      BY <1>4, MovedAdds
  <2>4. WalletMoves(q)' = WalletMoves(q)
      BY <2>3 DEF WalletMoves
  <2> QED
      BY <1>1, <1>2, <2>1, <2>2, <2>4, Elsewhere
<1> QED
    BY <1>3, <1>4

\* A step of which the wallet has no part.
LEMMA AwayStep ==
    ASSUME NEW p \in Calls, PInv(p), Covers(p)', setup' = setup, exec'[p] = exec[p], CountsKept,
           press'[p].rows = press[p].rows, press'[p].paid = press[p].paid, press'[p].trouble = press[p].trouble,
           press[p].pc \notin Working, press'[p].pc \notin Working,
           press'[p].pc = "plan" => press[p].pc = "idle", press'[p].pc \in Fresh => press[p].pc \in Fresh,
           press'[p].pc # "idle"
    PROVE  PInv(p)'
<1>1. WalletKeys' = WalletKeys /\ Network' = Network
    BY SetupKept
<1>2. Planned(p)'
    BY <1>1 DEF PInv, Planned, Orcas, Sound, Keys
<1>3. Answers(p)'
    BY <1>1 DEF PInv, Answers, Orcas, Sound, Keys
<1>4. \A k : Open(p, k)' => Open(p, k)
    BY DEF Open
<1>5. Bounded(p)'
    BY <1>1, <1>4 DEF PInv, Bounded, CountsKept, Working
<1>6. Reported(p)'
    BY DEF PInv, Reported, CountsKept, Working
<1> QED
    BY <1>2, <1>3, <1>5, <1>6 DEF PInv

\* A step of the plan at one row.
LEMMA PlanStep ==
    ASSUME NEW p \in Calls, PInv(p), Numbered, Covers(p)', setup' = setup, exec'[p] = exec[p], CountsKept,
           press'[p].quote = press[p].quote, press'[p].rows = press[p].rows, press'[p].paid = press[p].paid,
           press'[p].trouble = press[p].trouble, press[p].rows # {},
           \/ press[p].pc = "sign" /\ press'[p].pc = "wallet"
           \/ press[p].pc = "wallet" /\ press'[p].pc = "order" /\ Lacks(p)
           \/ press[p].pc = "order" /\ press'[p].pc = "swap"
    PROVE  PInv(p)'
<1>1. WalletKeys' = WalletKeys /\ Network' = Network /\ NextRow(p)' = NextRow(p)
    BY SetupKept, NextKept
<1>2. Planned(p)'
  <2>1. /\ Orcas(press[p].rows)' /\ Orcas(press[p].paid)'
        /\ ReadyRows(press[p].quote)' = ReadyRows(press[p].quote)
      BY SetupKept DEF PInv, Planned, Orcas, Sound, ReadyRows
  <2> QED
      BY <2>1 DEF PInv, Planned, Keys, Working, Fresh
<1>3. Answers(p)'
    BY <1>1 DEF PInv, Answers, Orcas, Sound, Keys
<1>4. \A k : Open(p, k)' => Open(p, k)
    BY <1>1 DEF Open, Keys, Working
<1>5. Bounded(p)'
  <2>1. \A k : Swaps(k) \in Nat /\ Took(k) \in Nat
      BY CountTypes
  <2>2. press'[p].pc \in {"order", "swap"} =>
            setup.lacks /\ Swaps(Key(NextRow(p))) <= Took(Key(NextRow(p)))
      BY DEF PInv, Bounded, Lacks, Swaps, Took
  <2>3. ASSUME NEW k \in WalletKeys, Open(p, k)'
        PROVE  \/ Bought(p, k) <= press[p].trouble
               \/ press'[p].pc = "wallet" /\ k = Key(NextRow(p)) /\ Took(k) < Swaps(k)
      BY <1>4, <2>1, <2>2, <2>3 DEF PInv, Bounded
  <2> QED
      BY <1>1, <1>4, <2>2, <2>3 DEF PInv, Bounded, CountsKept
<1>6. Reported(p)'
    BY DEF PInv, Reported, CountsKept
<1> QED
    BY <1>2, <1>3, <1>5, <1>6 DEF PInv

\* The plan is thrown back to its dialog.
LEMMA ThrowStep ==
    ASSUME NEW p \in Calls, Shape, PInv(p), board'.modal = board.modal, setup' = setup, exec'[p] = exec[p],
           press[p].pc \in Working, exec[p].pc = "idle", Throw(p, 1),
           \A k \in WalletKeys : Paid(p, k)' <= press[p].trouble + 1 /\ Bought(p, k)' <= press[p].trouble + 1,
           \A k : Paid(p, k)' \in Nat /\ Bought(p, k)' \in Nat
    PROVE  PInv(p)'
<1>1. WalletKeys' = WalletKeys /\ Network' = Network
    BY SetupKept
<1>2. /\ press'[p].pc = "plan" /\ press'[p].rows = {} /\ press'[p].paid = {}
      /\ press'[p].trouble = press[p].trouble + 1
    BY DEF Throw, Shape, NoPress
<1>3. press[p].trouble \in Nat
    BY DEF PInv, Bounded
<1>4. Covers(p)'
    BY <1>2 DEF PInv, Covers
<1>5. Planned(p)'
    BY <1>2 DEF Planned, Orcas, Sound, Keys, Working
<1>6. Answers(p)'
    BY <1>1, <1>2 DEF PInv, Answers, Orcas, Sound, Keys
<1>7. Bounded(p)'
  <2>1. ASSUME NEW k \in WalletKeys
        PROVE  /\ Paid(p, k)' <= press'[p].trouble /\ Bought(p, k)' <= press'[p].trouble
               /\ Paid(p, k)' <= press'[p].trouble + 1 /\ Bought(p, k)' <= press'[p].trouble + 1
      BY <1>2, <1>3
  <2> QED
      BY <1>1, <1>2, <1>3, <2>1 DEF Bounded
<1>8. Reported(p)'
    BY <1>2, <1>3 DEF Reported
<1> QED
    BY <1>4, <1>5, <1>6, <1>7, <1>8 DEF PInv

\* The call is sent, with what the plan has paid.
LEMMA SendStep ==
    ASSUME NEW p \in Calls, Shape, PInv(p), CountsKept, setup' = setup, NEW paid, Send(p, paid),
           Orcas(paid), Keys(paid) \subseteq Keys(ReadyRows(press[p].quote)),
           press[p].trouble = 0 => \A d \in WalletMoves(p) : \E r \in paid : Key(r) = d.key /\ r.usd = d.usd
    PROVE  PInv(p)'
<1>1. WalletKeys' = WalletKeys /\ Network' = Network
    BY SetupKept
<1>2. /\ press'[p].pc = "waiting" /\ press'[p].rows = {} /\ press'[p].paid = paid
      /\ press'[p].trouble = press[p].trouble
    BY DEF Send, Shape, NoPress
<1>3. /\ exec'[p].client = paid /\ exec'[p].ready = Keys(ReadyRows(press[p].quote))
      /\ exec'[p].answer = NoAnswer
  <2> DEFINE quote == press[p].quote
             new == [NoExec EXCEPT !.pc = "lookup",
                        !.ready = Keys(ReadyRows(quote)), !.unready = Keys(quote) \ Keys(ReadyRows(quote)),
                        !.client = paid, !.positionId = Position(p)]
  <2>1. exec' = [exec EXCEPT ![p] = new]
      BY DEF Send
  <2>2. /\ new.client = paid /\ new.ready = Keys(ReadyRows(quote)) /\ new.answer = NoAnswer
      BY DEF NoExec
  <2> HIDE DEF new
  <2> QED
      BY <2>1, <2>2 DEF Shape
<1>4. Covers(p)'
    BY <1>2 DEF Covers, Working
<1>5. Planned(p)'
    BY <1>1, <1>2 DEF Planned, Orcas, Sound, Keys, Working, Fresh
<1>6. Answers(p)'
  <2>1. Orcas(exec[p].client)'
      BY <1>1, <1>3 DEF Orcas, Sound
  <2>2. Sound(exec[p].answer.rows)' /\ exec'[p].answer.told = "none"
      BY <1>3 DEF Sound, NoAnswer
  <2> QED
      BY <1>2, <1>3, <2>1, <2>2 DEF Answers, Keys
<1>7. Bounded(p)'
    BY <1>1, <1>2 DEF PInv, Bounded, Open, CountsKept, Working
<1>8. Reported(p)'
    BY <1>2 DEF Reported, CountsKept
<1> QED
    BY <1>4, <1>5, <1>6, <1>7, <1>8 DEF PInv
\* A row is done.
LEMMA DoneStep ==
    ASSUME NEW p \in Calls, Shape, PInv(p), CountsKept, setup' = setup, exec[p].pc = "idle", NEW status,
           press[p].pc \in {"wallet", "confirm"}, press[p].pc = "confirm" => status = "submitted",
           Done(p, status)
    PROVE  PInv(p)'
<1> DEFINE next == NextRow(p)
           done == WalletRow(p, status)
           paid == press[p].paid \cup {done}
           rest == press[p].rows \ {next}
<1>1. Planned(p) /\ press[p].pc \in Working \ {"sign"}
    BY DEF PInv, Working
<1>2. /\ next \in press[p].rows /\ Key(next) \in WalletKeys
      /\ \A r \in press[p].rows : Key(r) = Key(next) => r = next
      /\ Key(done) = Key(next) /\ DOMAIN done = Fields /\ done.protocol = "Orca"
    BY <1>1, NextIsThere
<1>3. \A r \in press[p].paid, s \in press[p].rows : Key(r) # Key(s)
    BY <1>1 DEF Planned, Keys
<1>4. Orcas(paid)
  <2>1. \A r \in press[p].paid : Key(r) # Key(done)
      BY <1>2, <1>3
  <2> HIDE DEF done
  <2> QED
      BY <1>1, <1>2, <2>1 DEF Planned, Orcas, Sound
<1>5. Keys(paid) \cup Keys(rest) \subseteq Keys(ReadyRows(press[p].quote))
  <2>1. Keys(press[p].rows) \cup Keys(press[p].paid) \subseteq Keys(ReadyRows(press[p].quote))
      BY <1>1 DEF Planned
  <2>2. \A r \in paid \cup rest : \E s \in press[p].rows \cup press[p].paid : Key(r) = Key(s)
      BY <1>2
  <2> QED
      BY <2>1, <2>2 DEF Keys
<1>6. ASSUME press[p].trouble = 0, NEW d \in WalletMoves(p) PROVE \E r \in paid : Key(r) = d.key /\ r.usd = d.usd
  <2>1. \/ \E r \in press[p].paid : Key(r) = d.key /\ r.usd = d.usd
        \/ press[p].pc = "confirm" /\ d.key = Key(next) /\ d.usd = WalletRow(p, "submitted").usd
      BY <1>6 DEF PInv, Reported
  <2> QED
      BY <1>2, <2>1
<1>7. CASE rest = {}
  <2>1. Send(p, paid)
      BY <1>7 DEF Done
  <2> HIDE DEF paid
  <2> QED
      BY <1>4, <1>5, <1>6, <2>1, SendStep DEF Keys
<1>8. CASE rest # {}
  <2>1. /\ press'[p].pc = "sign" /\ press'[p].rows = rest /\ press'[p].paid = paid
        /\ press'[p].trouble = press[p].trouble /\ press'[p].quote = press[p].quote
        /\ exec' = exec /\ board' = board
    <3> HIDE DEF rest, paid
    <3>1. press' = [press EXCEPT ![p].pc = "sign", ![p].paid = paid, ![p].rows = rest]
        BY <1>8 DEF Done, rest, paid
    <3>2. exec' = exec /\ board' = board
        BY <1>8 DEF Done, rest
    <3> QED
        BY <3>1, <3>2 DEF Shape, NoPress
  <2>2. WalletKeys' = WalletKeys /\ Network' = Network
      BY SetupKept
  <2>3. Orcas(rest)
      BY <1>1 DEF Planned, Orcas, Sound
  <2>4. \A r \in paid, s \in rest : Key(r) # Key(s)
      BY <1>2, <1>3
  <2>5. \A k \in Keys(rest) : k \in Keys(press[p].rows) /\ k # Key(next)
      BY <1>2 DEF Keys
  <2> HIDE DEF rest, paid, next
  <2>6. Covers(p)'
      BY <1>1, <2>1 DEF PInv, Covers
  <2>7. Planned(p)'
    <3>1. Orcas(press[p].rows)' /\ Orcas(press[p].paid)'
        BY <1>4, <2>1, <2>2, <2>3 DEF Orcas, Sound
    <3>2. ReadyRows(press[p].quote)' = ReadyRows(press[p].quote)
        BY <2>1, SetupKept DEF ReadyRows
    <3> QED
        BY <1>5, <1>8, <2>1, <2>4, <3>1, <3>2 DEF Planned, Keys, Fresh
  <2>8. Answers(p)'
      BY <2>1, <2>2 DEF PInv, Answers, Orcas, Sound, Keys
  <2>9. \A k : Open(p, k)' => Open(p, k) /\ k # Key(next)
      BY <1>1, <2>1, <2>5 DEF Open, Keys, next
  <2>10. Bounded(p)'
      BY <2>1, <2>2, <2>9 DEF PInv, Bounded, CountsKept, next
  <2>11. Reported(p)'
      BY <1>6, <2>1 DEF Reported, CountsKept
  <2> QED
      BY <2>6, <2>7, <2>8, <2>10, <2>11 DEF PInv
<1> QED
    BY <1>7, <1>8

\* A step at a wallet that leaves the plan's rows, results and troubles.
AtWallet(p) ==
    /\ press'[p].quote = press[p].quote /\ press'[p].rows = press[p].rows
    /\ press'[p].paid = press[p].paid /\ press'[p].trouble = press[p].trouble
    /\ setup' = setup /\ exec' = exec /\ board' = board

LEMMA AtWalletFacts ==
    ASSUME NEW p \in Calls, PInv(p), AtWallet(p), press[p].pc \in Working \ {"sign"},
           press'[p].pc \in Working \ {"sign"}
    PROVE  /\ Covers(p)' /\ Planned(p)' /\ Answers(p)'
           /\ WalletKeys' = WalletKeys /\ NextRow(p)' = NextRow(p)
           /\ WalletRow(p, "submitted")' = WalletRow(p, "submitted")
<1>1. /\ WalletKeys' = WalletKeys /\ Network' = Network /\ NextRow(p)' = NextRow(p)
      /\ WalletRow(p, "submitted")' = WalletRow(p, "submitted")
    BY SetupKept, NextKept DEF AtWallet
<1>2. Covers(p)'
    BY DEF PInv, Covers, AtWallet
<1>3. Planned(p)'
  <2>1. /\ Orcas(press[p].rows)' /\ Orcas(press[p].paid)'
        /\ ReadyRows(press[p].quote)' = ReadyRows(press[p].quote)
      BY SetupKept DEF PInv, Planned, Orcas, Sound, ReadyRows, AtWallet
  <2> QED
      BY <2>1 DEF PInv, Planned, Keys, Fresh, Working, AtWallet
<1>4. Answers(p)'
    BY <1>1 DEF PInv, Answers, Orcas, Sound, Keys, AtWallet
<1> QED
    BY <1>1, <1>2, <1>3, <1>4

\* A token has been bought for the next row.
LEMMA BuyStep ==
    ASSUME NEW p \in Calls, PInv(p), Shared, AtWallet(p), press[p].pc = "swap", press'[p].pc = "wallet",
           Moved("swap", p, WalletRow(p, "submitted"))
    PROVE  PInv(p)' /\ Stocked'
<1> DEFINE key == Key(NextRow(p))
<1>1. press[p].pc \in Working \ {"sign"} /\ press'[p].pc \in Working \ {"sign"} /\ Planned(p) /\ Numbered
    BY DEF PInv, Working, Shared
<1>2. /\ Covers(p)' /\ Planned(p)' /\ Answers(p)'
      /\ WalletKeys' = WalletKeys /\ NextRow(p)' = NextRow(p)
    BY <1>1, AtWalletFacts
<1>3. key \in WalletKeys /\ Key(WalletRow(p, "submitted")) = key
    BY <1>1, NextIsThere
<1>4. \A k : /\ Paid(p, k)' = Paid(p, k) /\ Took(k)' = Took(k)
             /\ Bought(p, k)' = IF k = key THEN Bought(p, k) + 1 ELSE Bought(p, k)
             /\ Swaps(k)' = IF k = key THEN Swaps(k) + 1 ELSE Swaps(k)
    BY <1>1, <1>3, CountsMove
<1>5. \A k : Paid(p, k) \in Nat /\ Bought(p, k) \in Nat /\ Swaps(k) \in Nat /\ Took(k) \in Nat
    BY <1>1, CountTypes
<1>6. setup' = setup /\ setup.lacks /\ Swaps(key) <= Took(key) /\ press[p].trouble \in Nat
    BY DEF PInv, Bounded, AtWallet
<1>7. \A k \in WalletKeys : Took(k) <= Swaps(k)
    BY <1>6 DEF Shared, Stocked
<1>8. Stocked'
    BY <1>2, <1>4, <1>5, <1>7 DEF Stocked
<1>9. key \in Keys(press[p].rows)
    BY <1>1, NextIsThere DEF Keys
<1>10. \A k : Open(p, k)' => Open(p, k)
    BY DEF Open, Keys, Working, AtWallet
<1>11. Open(p, key)
    BY <1>1, <1>9 DEF Open
<1>12. ASSUME NEW k \in WalletKeys
       PROVE  /\ Paid(p, k)' <= press[p].trouble + 1 /\ Bought(p, k)' <= press[p].trouble + 1
              /\ Open(p, k)' => Paid(p, k)' <= press[p].trouble
              /\ Open(p, k)' => Bought(p, k)' <= press[p].trouble \/ (k = key /\ Took(k)' < Swaps(k)')
  <2>1. CASE k = key
      BY <1>3, <1>4, <1>5, <1>6, <1>7, <1>10, <1>11, <2>1 DEF PInv, Bounded
  <2>2. CASE k # key
      BY <1>4, <1>10, <2>2 DEF PInv, Bounded
  <2> QED
      BY <2>1, <2>2
<1>13. Bounded(p)'
    BY <1>2, <1>6, <1>12 DEF Bounded, AtWallet
<1>14. WalletMoves(p)' = WalletMoves(p)
    BY MovedAdds DEF WalletMoves
<1>15. Reported(p)'
    BY <1>14 DEF PInv, Reported, AtWallet
<1> QED
    BY <1>2, <1>8, <1>13, <1>15 DEF PInv

\* The position's transaction has been sent; it moved the deposit, or failed.
LEMMA PayStep ==
    ASSUME NEW p \in Calls, PInv(p), Shared, AtWallet(p), press[p].pc = "wallet", press'[p].pc = "confirm",
           Moved("wallet", p, WalletRow(p, "submitted")) \/ moved' = moved
    PROVE  PInv(p)'
<1> DEFINE key == Key(NextRow(p))
<1>1. press[p].pc \in Working \ {"sign"} /\ press'[p].pc \in Working \ {"sign"} /\ Planned(p) /\ Numbered
    BY DEF PInv, Working, Shared
<1>2. /\ Covers(p)' /\ Planned(p)' /\ Answers(p)'
      /\ WalletKeys' = WalletKeys /\ NextRow(p)' = NextRow(p)
      /\ WalletRow(p, "submitted")' = WalletRow(p, "submitted")
    BY <1>1, AtWalletFacts
<1>3. key \in WalletKeys /\ Key(WalletRow(p, "submitted")) = key /\ key \in Keys(press[p].rows)
    BY <1>1, NextIsThere DEF Keys
<1>4. \A k : /\ Paid(p, k)' = Paid(p, k) \/ (k = key /\ Paid(p, k)' = Paid(p, k) + 1)
             /\ Bought(p, k)' = Bought(p, k)
  <2>1. CASE moved' = moved
      BY <1>1, <2>1, SameMoves DEF CountsKept
  <2>2. CASE Moved("wallet", p, WalletRow(p, "submitted"))
      BY <1>1, <1>3, <2>2, CountsMove
  <2> QED
      BY <2>1, <2>2
<1>5. \A k : Paid(p, k) \in Nat /\ Bought(p, k) \in Nat
    BY <1>1, CountTypes
<1>6. press[p].trouble \in Nat
    BY DEF PInv, Bounded
<1>7. \A k : Open(p, k)' => Open(p, k) /\ k # key
    BY <1>2 DEF Open, Keys, Working, AtWallet
<1>8. Open(p, key)
    BY <1>1, <1>3 DEF Open
<1>9. ASSUME NEW k \in WalletKeys
      PROVE  /\ Paid(p, k)' <= press[p].trouble + 1 /\ Bought(p, k)' <= press[p].trouble + 1
             /\ Open(p, k)' => Paid(p, k)' <= press[p].trouble /\ Bought(p, k)' <= press[p].trouble
  <2>1. CASE k = key
      BY <1>4, <1>5, <1>6, <1>7, <1>8, <2>1 DEF PInv, Bounded
  <2>2. CASE k # key
      BY <1>4, <1>7, <2>2 DEF PInv, Bounded
  <2> QED
      BY <2>1, <2>2
<1>10. Bounded(p)'
    BY <1>2, <1>6, <1>9 DEF Bounded, AtWallet
<1>11. \A d \in WalletMoves(p)' : d \in WalletMoves(p) \/ (d.key = key /\ d.usd = WalletRow(p, "submitted").usd)
  <2>1. CASE moved' = moved
      BY <2>1 DEF WalletMoves
  <2>2. CASE Moved("wallet", p, WalletRow(p, "submitted"))
      BY <1>3, <2>2, MovedAdds DEF WalletMoves
  <2> QED
      BY <2>1, <2>2
<1>12. Reported(p)'
    BY <1>2, <1>11 DEF PInv, Reported, AtWallet
<1> QED
    BY <1>2, <1>10, <1>12 DEF PInv
-----------------------------------------------------------------------------
(* WInv is inductive.                                                      *)

LEMMA WInitHolds == Init => WInv
<1> SUFFICES ASSUME Init PROVE WInv
    OBVIOUS
<1>1. moved = {} /\ board.result = {} /\ event = NoAnswer
    BY DEF Init, ServerInit
<1>2. \A k : MovesOf(k, "wallet") = {} /\ MovesOf(k, "swap") = {} /\ MovesOf(k, "late") = {}
    BY <1>1 DEF MovesOf
<1>3. \A p, k : Paid(p, k) = 0 /\ Bought(p, k) = 0 /\ Took(k) = 0 /\ Swaps(k) = 0
  <2> SUFFICES ASSUME NEW p, NEW k PROVE Paid(p, k) = 0 /\ Bought(p, k) = 0 /\ Took(k) = 0 /\ Swaps(k) = 0
      OBVIOUS
  <2>1. /\ {d \in MovesOf(k, "wallet") : d.call = p} = {}
        /\ {d \in MovesOf(k, "swap") \cup MovesOf(k, "late") : d.call = p} = {}
      BY <1>2
  <2> QED
      BY <1>2, <2>1, FS_EmptySet DEF Paid, Bought, Took, Swaps
<1>4. Shared
  <2>1. Stocked
      BY <1>3 DEF Stocked
  <2>2. Numbered
      BY <1>1, FS_EmptySet DEF Numbered
  <2>3. Sound(event.rows) /\ Sound(board.result)
      BY <1>1 DEF Sound, NoAnswer
  <2> QED
      BY <1>1, <2>1, <2>2, <2>3 DEF Shared
<1>5. ASSUME NEW p \in Calls PROVE PInv(p)
  <2>1. /\ press[p].pc = "idle" /\ press[p].rows = {} /\ press[p].paid = {} /\ press[p].trouble = 0
        /\ exec[p].pc = "idle" /\ exec[p].client = {} /\ exec[p].answer = NoAnswer
      BY DEF Init, ServerInit, NoPress, NoExec
  <2>2. Covers(p) /\ Planned(p) /\ Reported(p)
      BY <1>1, <2>1 DEF Covers, Planned, Reported, WalletMoves, Working, Orcas, Sound, Keys
  <2>3. Answers(p)
      BY <2>1 DEF Answers, Orcas, Sound, Keys, NoAnswer
  <2>4. Bounded(p)
      BY <1>3, <2>1 DEF Bounded
  <2> QED
      BY <2>2, <2>3, <2>4 DEF PInv
<1> QED
    BY <1>4, <1>5, InitHolds DEF WInv

\* A step of one press, whose own part is known to be kept.
LEMMA PressWKeeps ==
    ASSUME WInv, IInv', NEW p \in Calls, OnePress(p), setup' = setup, \A q \in Calls \ {p} : exec'[q] = exec[q],
           board'.modal = board.modal \/ board.modal \in {0, p}, event' = event,
           CountsKept \/ (press[p].pc \in Working /\ \E by, row : Moved(by, p, row)),
           Sound(board'.result), Stocked', PInv(p)'
    PROVE  WInv'
<1>1. \A q \in Calls : PInv(q)'
    BY OthersKeep
<1>2. Numbered'
    BY MovedIsNew DEF CountsKept, WInv, Shared
<1>3. Sound(event.rows)' /\ Sound(board.result)'
    BY SetupKept DEF WInv, Shared, Sound
<1> QED
    BY <1>1, <1>2, <1>3 DEF WInv, Shared

LEMMA StockKept == ASSUME Stocked, setup' = setup, CountsKept PROVE Stocked'
BY SetupKept DEF Stocked, CountsKept

\* What a step of a press may assume of it.
LEMMA PressFacts ==
    ASSUME WInv, NEW p \in Calls
    PROVE  /\ IInv /\ Shape /\ PInv(p) /\ Shared /\ Numbered /\ Stocked /\ Sound(board.result)
           /\ ~Sent(p) => exec[p].pc = "idle"
           /\ \A k : Paid(p, k) \in Nat /\ Bought(p, k) \in Nat /\ Swaps(k) \in Nat /\ Took(k) \in Nat
<1>1. IInv /\ PInv(p) /\ Shared
    BY DEF WInv
<1>2. Shape /\ Numbered /\ Stocked /\ Sound(board.result) /\ (~Sent(p) => exec[p].pc = "idle")
    BY <1>1 DEF IInv, CInv, Begins, Shared
<1> QED
    BY <1>1, <1>2, CountTypes

\* A step without a press.
LEMMA BoardWKeeps ==
    ASSUME WInv, IInv', UNCHANGED <<setup, exec, event, press>>, CountsKept,
           board'.modal = board.modal, board'.result = board.result
    PROVE  WInv'
<1>1. Shared'
  <2>1. Sound(event.rows)' /\ Sound(board.result)'
      BY SetupKept DEF WInv, Shared, Sound
  <2> QED
      BY <2>1, StockKept DEF WInv, Shared, CountsKept
<1>2. ASSUME NEW p \in Calls PROVE PInv(p)'
  <2>1. PInv(p) /\ Covers(p)'
      BY DEF WInv, PInv, Covers
  <2> QED
      BY <2>1, Elsewhere DEF CountsKept
<1> QED
    BY <1>1, <1>2 DEF WInv

LEMMA JobWKeeps ==
    ASSUME WInv, CreateJob \/ InsertPosition \/ InsertFails \/ PositionAnswered \/ Review
    PROVE  WInv'
<1>1. IInv /\ IInv' /\ Numbered /\ Shape
    BY JobKeeps DEF WInv, Shared, IInv
<1>2. /\ UNCHANGED <<setup, exec, event, press, moved>>
      /\ board'.modal = board.modal /\ board'.result = board.result
  <2>1. CASE CreateJob
      BY <1>1, <2>1 DEF CreateJob, Shape, server
  <2>2. CASE InsertPosition
      BY <1>1, <2>2 DEF InsertPosition, Shape, server
  <2>3. CASE InsertFails
      BY <1>1, <2>3 DEF InsertFails, Shape, server
  <2>4. CASE PositionAnswered
      BY <1>1, <2>4 DEF PositionAnswered, Shape, server
  <2>5. CASE Review
      BY <1>1, <2>5 DEF Review, Shape, server
  <2> QED
      BY <2>1, <2>2, <2>3, <2>4, <2>5
<1> QED
    BY <1>1, <1>2, SameMoves, BoardWKeeps

LEMMA AwayKeeps ==
    ASSUME WInv, NEW p \in Calls, Execute(p) \/ Password(p) \/ Cancel(p) \/ Answered(p) \/ AnswerLost(p)
    PROVE  WInv'
<1>1. /\ IInv /\ Shape /\ PInv(p) /\ Shared /\ Numbered /\ Stocked /\ Sound(board.result)
    BY PressFacts
<1>2. /\ UNCHANGED <<setup, exec, event, moved>>
      /\ press[p].pc \in {"idle", "password", "plan", "waiting"}
    BY DEF Execute, Password, Cancel, Answered, AnswerLost, At, server
<1>3. CountsKept /\ Stocked'
    BY <1>1, <1>2, SameMoves, StockKept
<1>4. IInv'
    BY <1>1, AskKeeps, AnswerKeeps
<1>5. \E pc : Goto(p, pc) \/ Capture(p, pc)
    BY DEF Execute, Password, Cancel, Answered, AnswerLost
<1>6. /\ OnePress(p) /\ press'[p].rows = press[p].rows /\ press'[p].paid = press[p].paid
      /\ press'[p].trouble = press[p].trouble
    BY <1>1, <1>5 DEF Goto, Capture, OnePress, Shape, NoPress
<1>7. board'.modal = board.modal \/ board.modal \in {0, p}
  <2>1. CASE Execute(p)
      BY <2>1 DEF Execute, CanExecute
  <2>2. CASE Password(p) \/ AnswerLost(p)
      BY <2>2 DEF Password, AnswerLost
  <2>3. CASE Cancel(p)
      BY <1>1, <2>3 DEF Cancel, PInv, Covers
  <2>4. CASE Answered(p)
      BY <1>1, <2>4 DEF Answered, Shape
  <2> QED
      BY <2>1, <2>2, <2>3, <2>4
<1>8. Sound(board'.result)
  <2>1. CASE Answered(p)
      BY <1>1, <2>1 DEF Answered, PInv, Answers, Shape
  <2>2. CASE ~Answered(p)
      BY <1>1, <2>2 DEF Execute, Password, Cancel, AnswerLost, Shape
  <2> QED
      BY <2>1, <2>2
<1>9. PInv(p)'
  <2>1. CASE Execute(p)
    <3>1. PICK pc \in {"password", "plan", "message"} :
              Capture(p, pc) /\ board' = [board EXCEPT !.modal = IF pc = "message" THEN 0 ELSE p]
        BY <2>1 DEF Execute
    <3>2. press'[p].pc = pc /\ press[p].pc = "idle" /\ board'.modal = IF pc = "message" THEN 0 ELSE p
        BY <1>1, <2>1, <3>1 DEF Capture, Shape, NoPress, Execute, At
    <3>3. Covers(p)'
        BY <3>2 DEF Covers, Working
    <3> QED
        BY <1>1, <1>2, <1>3, <1>6, <3>2, <3>3, AwayStep DEF Working, Fresh
  <2>2. CASE Password(p)
    <3>1. press'[p].pc = "verified" /\ press[p].pc = "password" /\ board' = board
        BY <1>1, <2>2 DEF Password, Capture, Shape, NoPress, At
    <3>2. Covers(p)'
        BY <1>1, <3>1 DEF PInv, Covers
    <3> QED
        BY <1>1, <1>2, <1>3, <1>6, <3>1, <3>2, AwayStep DEF Working, Fresh
  <2>3. CASE Cancel(p) \/ Answered(p) \/ AnswerLost(p)
    <3>1. press'[p].pc \in {"cancelled", "done", "failed"}
        BY <1>1, <2>3 DEF Cancel, Answered, AnswerLost, Goto, Shape, NoPress
    <3>2. Covers(p)'
        BY <3>1 DEF Covers, Working
    <3> QED
        BY <1>1, <1>2, <1>3, <1>6, <3>1, <3>2, AwayStep DEF Working, Fresh
  <2> QED
      BY <2>1, <2>2, <2>3
<1> QED
    BY <1>2, <1>3, <1>4, <1>6, <1>7, <1>8, <1>9, PressWKeeps
\* Whatever the screen shows is sound.
LEMMA QuoteIsSound == ASSUME Sound(board.result) PROVE Sound(QuoteRows)
BY ResultsAreSound, PreviewTables DEF QuoteRows

LEMMA StartKeeps == ASSUME WInv, NEW p \in Calls, StartPlan(p) PROVE WInv'
<1>1. IInv /\ Shape /\ PInv(p) /\ Shared /\ Numbered /\ Stocked /\ Sound(board.result)
    BY PressFacts
<1>2. /\ UNCHANGED <<setup, exec, event, moved, board>> /\ press[p].pc = "plan" /\ IInv'
    BY <1>1, AskKeeps DEF StartPlan, At, server
<1>3. CountsKept /\ Stocked'
    BY <1>1, <1>2, SameMoves, StockKept
<1> DEFINE rows == {row \in ReadyRows(QuoteRows) : row.protocol = "Orca"}
<1>4. /\ OnePress(p) /\ press'[p].pc = "sign" /\ press'[p].quote = QuoteRows /\ press'[p].rows = rows
      /\ press'[p].paid = {} /\ press'[p].trouble = press[p].trouble
    BY <1>1 DEF StartPlan, OnePress, Shape, NoPress
<1>5. Orcas(rows) /\ Keys(rows) \subseteq Keys(ReadyRows(QuoteRows))
  <2>1. Sound(QuoteRows)
      BY <1>1, QuoteIsSound
  <2> HIDE DEF QuoteRows
  <2> QED
      BY <2>1 DEF Orcas, Sound, ReadyRows, Keys
<1> HIDE DEF rows
<1>6. WalletKeys' = WalletKeys /\ Network' = Network /\ ReadyRows(press[p].quote)' = ReadyRows(QuoteRows)
    BY <1>2, <1>4, SetupKept DEF ReadyRows
<1>7. PInv(p)'
  <2>1. Covers(p)'
      BY <1>1, <1>2 DEF PInv, Covers
  <2>2. Planned(p)'
    <3>1. Orcas(press[p].rows)' /\ Orcas(press[p].paid)'
        BY <1>4, <1>5, <1>6 DEF Orcas, Sound
    <3> QED
        BY <1>4, <1>5, <1>6, <3>1 DEF Planned, Keys, Fresh
  <2>3. Answers(p)'
    <3>1. exec[p].pc = "idle"
        BY <1>2, PressFacts DEF Sent
    <3> QED
        BY <1>1, <1>2, <1>6, <3>1 DEF PInv, Answers, Orcas, Sound, Keys
  <2>4. Bounded(p)'
      BY <1>1, <1>2, <1>3, <1>4, <1>6 DEF PInv, Bounded, Open, CountsKept
  <2>5. Reported(p)'
    <3>1. press[p].trouble = 0 => WalletMoves(p) = {}
        BY <1>1, <1>2 DEF PInv, Reported, Planned, Fresh
    <3> QED
        BY <1>3, <1>4, <3>1 DEF Reported, CountsKept
  <2> QED
      BY <2>1, <2>2, <2>3, <2>4, <2>5 DEF PInv
<1> QED
    BY <1>1, <1>2, <1>3, <1>4, <1>7, PressWKeeps

\* A plan that is thrown back, perhaps after a deposit of its own.
LEMMA ThrowKeeps ==
    ASSUME WInv, IInv', NEW p \in Calls, UNCHANGED <<setup, exec, event, board>>, Throw(p, 1),
           press[p].pc \in Working,
           \/ moved' = moved
           \/ /\ press[p].pc = "swap" /\ \E by \in {"swap", "late"} : Moved(by, p, WalletRow(p, "submitted"))
           \/ /\ press[p].pc = "wallet" /\ ~Lacks(p) /\ Moved("wallet", p, WalletRow(p, "submitted"))
    PROVE  WInv'
<1> DEFINE key == Key(NextRow(p))
<1>1. /\ Shape /\ PInv(p) /\ Shared /\ Numbered /\ Stocked /\ Sound(board.result) /\ exec[p].pc = "idle"
      /\ \A k : Paid(p, k) \in Nat /\ Bought(p, k) \in Nat /\ Swaps(k) \in Nat /\ Took(k) \in Nat
    BY PressFacts DEF Sent, Working
<1>2. OnePress(p)
    BY <1>1, PressShapes
<1>3. WalletKeys' = WalletKeys /\ press[p].trouble \in Nat
    BY <1>1, SetupKept DEF PInv, Bounded
<1>4. /\ CountsKept \/ \E by, row : Moved(by, p, row)
      /\ \A k \in WalletKeys : Paid(p, k)' <= press[p].trouble + 1 /\ Bought(p, k)' <= press[p].trouble + 1
      /\ \A k : Paid(p, k)' \in Nat /\ Bought(p, k)' \in Nat
      /\ Stocked'
  <2>1. CASE moved' = moved
    <3>1. CountsKept /\ Stocked'
        BY <1>1, <2>1, SameMoves, StockKept
    <3> QED
        BY <1>1, <3>1 DEF PInv, Bounded, CountsKept
  <2>2. ASSUME press[p].pc \in {"swap", "wallet"}
        PROVE  /\ key \in Keys(press[p].rows) /\ key \in WalletKeys /\ Key(WalletRow(p, "submitted")) = key
               /\ Open(p, key)
    <3>1. Planned(p) /\ press[p].pc \in Working \ {"sign"}
        BY <1>1, <2>2 DEF PInv, Working
    <3>2. NextRow(p) \in press[p].rows /\ key \in WalletKeys /\ Key(WalletRow(p, "submitted")) = key
        BY <3>1, NextIsThere
    <3> QED
        BY <2>2, <3>1, <3>2 DEF Open, Keys
  <2>3. ASSUME press[p].pc = "swap", NEW by \in {"swap", "late"}, Moved(by, p, WalletRow(p, "submitted"))
        PROVE  /\ \A k \in WalletKeys : /\ Paid(p, k)' <= press[p].trouble + 1
                                        /\ Bought(p, k)' <= press[p].trouble + 1
               /\ \A k : Paid(p, k)' \in Nat /\ Bought(p, k)' \in Nat
               /\ Stocked'
    <3>1. \A k : /\ Paid(p, k)' = Paid(p, k) /\ Took(k)' = Took(k)
                 /\ Bought(p, k)' = IF k = key THEN Bought(p, k) + 1 ELSE Bought(p, k)
                 /\ Swaps(k)' = Swaps(k) \/ Swaps(k)' = Swaps(k) + 1
        BY <1>1, <2>2, <2>3, CountsMove
    <3>2. Bought(p, key) <= press[p].trouble
        BY <1>1, <2>2, <2>3 DEF PInv, Bounded
    <3>3. ASSUME NEW k \in WalletKeys
          PROVE  Paid(p, k)' <= press[p].trouble + 1 /\ Bought(p, k)' <= press[p].trouble + 1
        BY <1>1, <1>3, <3>1, <3>2 DEF PInv, Bounded
    <3>4. Stocked'
        BY <1>1, <1>3, <3>1 DEF Stocked
    <3> QED
        BY <1>1, <3>1, <3>3, <3>4
  <2>4. ASSUME press[p].pc = "wallet", ~Lacks(p), Moved("wallet", p, WalletRow(p, "submitted"))
        PROVE  /\ \A k \in WalletKeys : /\ Paid(p, k)' <= press[p].trouble + 1
                                        /\ Bought(p, k)' <= press[p].trouble + 1
               /\ \A k : Paid(p, k)' \in Nat /\ Bought(p, k)' \in Nat
               /\ Stocked'
    <3>1. \A k : /\ Paid(p, k)' = IF k = key THEN Paid(p, k) + 1 ELSE Paid(p, k)
                 /\ Took(k)' = IF k = key THEN Took(k) + 1 ELSE Took(k)
                 /\ Bought(p, k)' = Bought(p, k) /\ Swaps(k)' = Swaps(k)
        BY <1>1, <2>2, <2>4, CountsMove
    <3>2. Paid(p, key) <= press[p].trouble
        BY <1>1, <2>2, <2>4 DEF PInv, Bounded
    <3>3. setup.lacks => Took(key) < Swaps(key)
        BY <1>1, <2>4 DEF Lacks, Took, Swaps
    <3>4. ASSUME NEW k \in WalletKeys
          PROVE  Paid(p, k)' <= press[p].trouble + 1 /\ Bought(p, k)' <= press[p].trouble + 1
        BY <1>1, <1>3, <3>1, <3>2 DEF PInv, Bounded
    <3>5. Stocked'
        BY <1>1, <1>3, <3>1, <3>3 DEF Stocked
    <3> QED
        BY <1>1, <3>1, <3>4, <3>5
  <2> QED
      BY <2>1, <2>3, <2>4
<1>5. PInv(p)'
    BY <1>1, <1>4, ThrowStep
<1> QED
    BY <1>1, <1>2, <1>4, <1>5, PressWKeeps

\* The call of a press is sent.
LEMMA SendWKeeps ==
    ASSUME WInv, IInv', NEW p \in Calls, UNCHANGED <<setup, event, moved>>, NEW paid, Send(p, paid), PInv(p)'
    PROVE  WInv'
<1>1. /\ Shape /\ Numbered /\ Stocked /\ Sound(board.result)
    BY PressFacts
<1>2. /\ OnePress(p) /\ \A q \in Calls \ {p} : exec'[q] = exec[q]
    BY <1>1 DEF Send, Shape, OnePress, NoPress
<1>3. board'.modal = board.modal \/ board.modal \in {0, p}
    BY <1>1 DEF Send, Shape
<1>4. board'.result = board.result
    BY <1>1 DEF Send, Shape
<1>5. CountsKept /\ Stocked'
    BY <1>1, SameMoves, StockKept
<1> QED
    BY <1>1, <1>2, <1>3, <1>4, <1>5, PressWKeeps

LEMMA DoneWKeeps ==
    ASSUME WInv, IInv', NEW p \in Calls, UNCHANGED <<setup, event, moved>>, NEW status, Done(p, status),
           press[p].pc \in {"wallet", "confirm"}, press[p].pc = "confirm" => status = "submitted"
    PROVE  WInv'
<1>1. /\ Shape /\ PInv(p) /\ Numbered /\ Stocked /\ Sound(board.result) /\ exec[p].pc = "idle"
    BY PressFacts DEF Sent
<1>2. CountsKept /\ Stocked'
    BY <1>1, SameMoves, StockKept
<1>3. PInv(p)'
    BY <1>1, <1>2, DoneStep
<1> DEFINE rest == press[p].rows \ {NextRow(p)}
<1>4. CASE rest # {}
  <2>1. exec' = exec /\ board' = board
      BY <1>4 DEF Done
  <2>2. OnePress(p)
      BY <1>1, <1>4 DEF Done, OnePress, Shape, NoPress
  <2> QED
      BY <1>1, <1>2, <1>3, <2>1, <2>2, PressWKeeps
<1>5. CASE rest = {}
  <2>1. PICK paid : Send(p, paid)
      BY <1>5 DEF Done
  <2> QED
      BY <1>3, <2>1, SendWKeeps
<1> QED
    BY <1>4, <1>5
LEMMA WalletWKeeps == ASSUME WInv, NEW p \in Calls, WalletStep(p) PROVE WInv'
<1>1. /\ IInv /\ Shape /\ PInv(p) /\ Shared /\ Numbered /\ Stocked /\ Sound(board.result)
    BY PressFacts
<1>2. IInv'
    BY <1>1, WalletKeeps
<1>3. exec[p].pc = "idle"
  <2>1. ~Sent(p)
      BY DEF WalletStep, SignMessage, PasswordVerified, Sign, WalletSkips, Quote, Order, Swap,
             PreparationFails, WalletSends, Confirm, At, Sent
  <2> QED
      BY <2>1, PressFacts
<1>4. ASSUME NEW pc, Goto(p, pc)
      PROVE  /\ OnePress(p) /\ press'[p].pc = pc /\ press'[p].quote = press[p].quote
             /\ press'[p].rows = press[p].rows /\ press'[p].paid = press[p].paid
             /\ press'[p].trouble = press[p].trouble
    BY <1>1, <1>4 DEF Goto, Shape, OnePress, NoPress
<1>5. ASSUME press[p].pc \in {"message", "verified"}, Send(p, {}), UNCHANGED <<setup, event, moved>> PROVE WInv'
  <2>1. Orcas({}) /\ Keys({}) = {}
      BY DEF Orcas, Sound, Keys
  <2>2. press[p].trouble = 0 => WalletMoves(p) = {}
      BY <1>1, <1>5 DEF PInv, Planned, Reported, Fresh
  <2>3. CountsKept
      BY <1>1, <1>5, SameMoves
  <2>4. PInv(p)'
      BY <1>1, <1>5, <2>1, <2>2, <2>3, SendStep
  <2> QED
      BY <1>2, <1>5, <2>4, SendWKeeps
<1>6. CASE SignMessage(p)
  <2>1. press[p].pc = "message" /\ UNCHANGED <<setup, event, moved>>
      BY <1>6 DEF SignMessage, At
  <2>2. CASE Send(p, {})
      BY <1>5, <2>1, <2>2
  <2>3. CASE Goto(p, "failed") /\ UNCHANGED <<exec, board>>
    <3>1. CountsKept /\ Stocked'
        BY <1>1, <2>1, SameMoves, StockKept
    <3>2. OnePress(p) /\ press'[p].pc = "failed"
        BY <1>4, <2>3
    <3>3. Covers(p)'
        BY <3>2 DEF Covers, Working
    <3>4. PInv(p)'
        BY <1>1, <1>4, <2>1, <2>3, <3>1, <3>2, <3>3, AwayStep DEF Working, Fresh
    <3> QED
        BY <1>1, <1>2, <2>1, <2>3, <3>1, <3>2, <3>4, PressWKeeps
  <2> QED
      BY <1>6, <2>2, <2>3 DEF SignMessage
<1>7. CASE PasswordVerified(p)
    BY <1>5, <1>7 DEF PasswordVerified, At
<1>8. ASSUME NEW pc, Goto(p, pc), UNCHANGED <<setup, exec, event, moved, board>>, press[p].rows # {},
             \/ press[p].pc = "sign" /\ pc = "wallet"
             \/ press[p].pc = "wallet" /\ pc = "order" /\ Lacks(p)
             \/ press[p].pc = "order" /\ pc = "swap"
      PROVE  WInv'
  <2>1. CountsKept /\ Stocked'
      BY <1>1, <1>8, SameMoves, StockKept
  <2>2. Covers(p)'
      BY <1>1, <1>8 DEF PInv, Covers, Working
  <2>3. PInv(p)'
      BY <1>1, <1>4, <1>8, <2>1, <2>2, PlanStep
  <2> QED
      BY <1>1, <1>2, <1>4, <1>8, <2>1, <2>3, PressWKeeps
<1>9. press[p].pc \in Working \ {"sign"} => press[p].rows # {}
    BY <1>1 DEF PInv, Planned
<1>10. CASE Sign(p)
  <2>1. press[p].pc = "sign" /\ UNCHANGED <<setup, event, moved>>
      BY <1>10 DEF Sign, At
  <2>2. CASE press[p].rows # {} /\ Goto(p, "wallet") /\ UNCHANGED <<exec, board>>
      BY <1>8, <2>1, <2>2
  <2>3. CASE Send(p, press[p].paid)
    <3>1. CountsKept
        BY <1>1, <2>1, SameMoves
    <3>2. Orcas(press[p].paid) /\ Keys(press[p].paid) \subseteq Keys(ReadyRows(press[p].quote))
        BY <1>1, <2>1 DEF PInv, Planned, Working
    <3>3. press[p].trouble = 0 =>
              \A d \in WalletMoves(p) : \E r \in press[p].paid : Key(r) = d.key /\ r.usd = d.usd
        BY <1>1, <2>1 DEF PInv, Reported
    <3>4. PInv(p)'
        BY <1>1, <2>1, <2>3, <3>1, <3>2, <3>3, SendStep
    <3> QED
        BY <1>2, <2>1, <2>3, <3>4, SendWKeeps
  <2>4. CASE Throw(p, 1) /\ UNCHANGED <<exec, board>>
      BY <1>2, <2>1, <2>4, ThrowKeeps DEF Working
  <2> QED
      BY <1>10, <2>2, <2>3, <2>4 DEF Sign
<1>11. CASE WalletSkips(p)
    BY <1>2, <1>11, DoneWKeeps DEF WalletSkips, At
<1>12. CASE Quote(p)
  <2>1. press[p].pc = "wallet" /\ Lacks(p) /\ UNCHANGED <<setup, exec, event, moved, board>>
      BY <1>12 DEF Quote, At, server
  <2> QED
      BY <1>2, <1>8, <1>9, <1>12, <2>1, ThrowKeeps DEF Quote, Jupiter, Working
<1>13. CASE Order(p)
  <2>1. press[p].pc = "order" /\ UNCHANGED <<setup, exec, event, moved, board>>
      BY <1>13 DEF Order, At, server
  <2> QED
      BY <1>2, <1>8, <1>9, <1>13, <2>1, ThrowKeeps DEF Order, Jupiter, Working
<1>14. CASE PreparationFails(p)
    BY <1>2, <1>14, ThrowKeeps DEF PreparationFails, At, server, Working
<1>15. CASE Swap(p)
  <2>1. press[p].pc = "swap" /\ UNCHANGED <<setup, exec, event, board>>
      BY <1>15 DEF Swap, At, server
  <2>2. CASE Goto(p, "wallet") /\ Moved("swap", p, WalletRow(p, "submitted"))
    <3>1. AtWallet(p) /\ OnePress(p) /\ press'[p].pc = "wallet"
        BY <1>4, <2>1, <2>2 DEF AtWallet
    <3>2. PInv(p)' /\ Stocked'
        BY <1>1, <2>1, <2>2, <3>1, BuyStep
    <3> QED
        BY <1>1, <1>2, <2>1, <2>2, <3>1, <3>2, PressWKeeps DEF Working
  <2>3. CASE Throw(p, 1) /\ UNCHANGED moved
      BY <1>2, <2>1, <2>3, ThrowKeeps DEF Working
  <2>4. CASE Throw(p, 1) /\ \E by \in {"swap", "late"} : Moved(by, p, WalletRow(p, "submitted"))
      BY <1>2, <2>1, <2>4, ThrowKeeps DEF Working
  <2> QED
      BY <1>15, <2>2, <2>3, <2>4 DEF Swap
<1>16. CASE WalletSends(p)
  <2>1. press[p].pc = "wallet" /\ ~Lacks(p) /\ UNCHANGED <<setup, exec, event, board>>
      BY <1>16 DEF WalletSends, At, server
  <2>2. ASSUME NEW landed, press' = [press EXCEPT ![p].pc = "confirm", ![p].landed = landed],
               Moved("wallet", p, WalletRow(p, "submitted")) \/ moved' = moved
        PROVE  WInv'
    <3>1. AtWallet(p) /\ OnePress(p) /\ press'[p].pc = "confirm"
        BY <1>1, <2>1, <2>2 DEF AtWallet, OnePress, Shape, NoPress
    <3>2. PInv(p)'
        BY <1>1, <2>1, <2>2, <3>1, PayStep
    <3>3. Stocked'
      <4>1. CASE moved' = moved
          BY <1>1, <2>1, <4>1, SameMoves, StockKept
      <4>2. CASE Moved("wallet", p, WalletRow(p, "submitted"))
        <5>1. Planned(p) /\ press[p].pc \in Working \ {"sign"}
            BY <1>1, <2>1 DEF PInv, Working
        <5>2. Key(WalletRow(p, "submitted")) = Key(NextRow(p))
            BY <5>1, NextIsThere
        <5>3. \A k : /\ Swaps(k)' = Swaps(k) /\ Swaps(k) \in Nat /\ Took(k) \in Nat
                     /\ Took(k)' = IF k = Key(NextRow(p)) THEN Took(k) + 1 ELSE Took(k)
            BY <1>1, <4>2, <5>2, CountsMove, CountTypes
        <5>4. setup.lacks => Took(Key(NextRow(p))) < Swaps(Key(NextRow(p)))
            BY <2>1, <5>3 DEF Lacks, Took, Swaps
        <5> QED
            BY <1>1, <2>1, <5>3, <5>4, SetupKept DEF Stocked
      <4> QED
          BY <2>2, <4>1, <4>2
    <3>4. CountsKept \/ \E by, row : Moved(by, p, row)
        BY <1>1, <2>2, SameMoves
    <3> QED
        BY <1>1, <1>2, <2>1, <3>1, <3>2, <3>3, <3>4, PressWKeeps DEF Working
  <2>3. CASE Throw(p, 1) /\ Moved("wallet", p, WalletRow(p, "submitted"))
      BY <1>2, <2>1, <2>3, ThrowKeeps DEF Working
  <2> QED
      BY <1>16, <2>2, <2>3 DEF WalletSends
<1>17. CASE Confirm(p)
  <2>1. press[p].pc = "confirm" /\ UNCHANGED <<setup, event, moved>>
      BY <1>17 DEF Confirm, At
  <2>2. CASE Done(p, "submitted")
      BY <1>2, <2>1, <2>2, DoneWKeeps
  <2>3. CASE Throw(p, 1) /\ UNCHANGED <<exec, board>>
      BY <1>2, <2>1, <2>3, ThrowKeeps DEF Working
  <2> QED
      BY <1>17, <2>2, <2>3 DEF Confirm, Monitor
<1> QED
    BY <1>6, <1>7, <1>10, <1>11, <1>12, <1>13, <1>14, <1>15, <1>16, <1>17 DEF WalletStep
-----------------------------------------------------------------------------
(* The answer of a call.                                                   *)

\* The rows of the other adapters, which no wallet pays.
Foreign(rows) == \A r \in rows : DOMAIN r = Fields /\ r.protocol # "Orca"

LEMMA ForeignTables ==
    ASSUME NEW product
    PROVE  /\ Foreign(Simulated(AaveTable(product))) /\ Foreign(Simulated(UniswapTable(product)))
           /\ Foreign(Simulated(CurveTable(product))) /\ Foreign(Simulated(AerodromeTable(product)))
           /\ Foreign(Simulated(RaydiumTable(product)))
<1>1. ASSUME NEW table, \A row \in table : row.protocol # "Orca" PROVE Foreign(Simulated(table))
  <2> DEFINE status == IF Live THEN "unsupported" ELSE "dry-run"
  <2>1. Simulated(table) = Results(table, status)
      BY DEF Simulated
  <2> HIDE DEF status
  <2>2. ASSUME NEW row \in table PROVE DOMAIN Result(row, status) = Fields /\ Result(row, status).protocol # "Orca"
      BY <1>1 DEF Result, Fields
  <2> QED
      BY <2>1, <2>2 DEF Results, Foreign
<1> QED
    BY <1>1, OtherTables

LEMMA UniswapIsForeign == ASSUME NEW state PROVE Foreign(UniswapResults(state))
<1> DEFINE rows == Simulated(UniswapTable(setup.product))
           new(row) == [row EXCEPT !.status = IF state = "minted" THEN "submitted" ELSE "failed"]
<1>1. Foreign(rows)
    BY ForeignTables
<1>2. \A r \in UniswapResults(state) : \E row \in rows : r = row \/ r = new(row)
    BY DEF UniswapResults
<1>3. \A row \in rows : DOMAIN new(row) = Fields /\ new(row).protocol = row.protocol
    BY <1>1 DEF Foreign, Fields
<1> HIDE DEF rows, new
<1> QED
    BY <1>1, <1>2, <1>3 DEF Foreign

LEMMA OrcaIsSound == ASSUME NEW c \in Calls, Orcas(exec[c].client) PROVE Sound(OrcaPart(c))
<1>1. \A status : Sound(Results(OrcaRows(setup.product), status))
    BY ResultsAreSound
<1>2. Sound(OrcaResults)
    BY <1>1 DEF OrcaResults, Sound
<1> QED
    BY <1>2 DEF OrcaPart, Orcas

LEMMA AdapterRowsAreSound ==
    ASSUME NEW c \in Calls, Orcas(exec[c].client), NEW state
    PROVE  /\ Sound(AdapterRows(c, state))
           /\ Network \in {"Solana", "Multi"} => OrcaPart(c) \subseteq AdapterRows(c, state)
<1>1. Sound(OrcaPart(c))
    BY OrcaIsSound
<1>2. \A A, B, C : Foreign(A) /\ Foreign(B) /\ Foreign(C) => Foreign(A \cup B) /\ Foreign(A \cup B \cup C)
    BY DEF Foreign
<1>3. \E A : Foreign(A) /\ AdapterRows(c, state) \in {A, A \cup OrcaPart(c)}
  <2> DEFINE aave == Simulated(AaveTable(setup.product))
             uniswap == UniswapResults(state)
             aerodrome == Simulated(AerodromeTable(setup.product))
             raydium == Simulated(RaydiumTable(setup.product))
             curve == Simulated(CurveTable(setup.product))
  <2>1. AdapterRows(c, state) \in {aave \cup uniswap, aave \cup aerodrome, raydium \cup OrcaPart(c),
                                   aave \cup curve \cup uniswap, aave \cup uniswap \cup OrcaPart(c)}
      BY DEF AdapterRows
  <2>2. Foreign(aave) /\ Foreign(uniswap) /\ Foreign(aerodrome) /\ Foreign(raydium) /\ Foreign(curve)
      BY ForeignTables, UniswapIsForeign
  <2> HIDE DEF aave, uniswap, aerodrome, raydium, curve
  <2> QED
      BY <1>2, <2>1, <2>2
<1>4. PICK A : Foreign(A) /\ AdapterRows(c, state) \in {A, A \cup OrcaPart(c)}
    BY <1>3
<1>5. \A r, s : Key(r) = Key(s) => r.protocol = s.protocol
    BY DEF Key
<1>6. Sound(A \cup OrcaPart(c)) /\ Sound(A)
    BY <1>1, <1>4, <1>5 DEF Sound, Foreign
<1>7. Network \in {"Solana", "Multi"} => OrcaPart(c) \subseteq AdapterRows(c, state)
    BY DEF AdapterRows
<1> QED
    BY <1>4, <1>6, <1>7

\* A call's own answer has all its press paid.
LEMMA BundleIsSound ==
    ASSUME NEW c \in Calls, Answers(c)
    PROVE  /\ Sound(Bundle(c).rows) /\ DOMAIN Bundle(c) = DOMAIN NoAnswer
           /\ Network \in {"Solana", "Multi"} => exec[c].client \subseteq Bundle(c).rows
<1> DEFINE rows == AdapterRows(c, uni[c][exec[c].attempt])
<1>1. /\ Bundle(c).rows = {row \in rows : Counts(c, row)} /\ DOMAIN Bundle(c) = DOMAIN NoAnswer
    BY DEF Bundle, NoAnswer
<1>2. /\ Sound(rows)
      /\ Network \in {"Solana", "Multi"} => OrcaPart(c) \subseteq rows
    BY AdapterRowsAreSound DEF Answers
<1> HIDE DEF rows
<1>3. Sound(Bundle(c).rows)
    BY <1>1, <1>2 DEF Sound
<1>4. ASSUME Network \in {"Solana", "Multi"}, NEW row \in exec[c].client PROVE row \in Bundle(c).rows
  <2>1. row \in rows
      BY <1>2, <1>4 DEF OrcaPart
  <2>2. Key(row) \in exec[c].ready
      BY <1>4 DEF Answers, Keys
  <2> QED
      BY <1>1, <2>1, <2>2 DEF Counts
<1> QED
    BY <1>1, <1>3, <1>4

-----------------------------------------------------------------------------
\* A step of one call.
LEMMA CallWKeeps ==
    ASSUME WInv, IInv', NEW c \in Calls, UNCHANGED <<setup, board, press>>, CountsKept,
           \A d \in Calls \ {c} : exec'[d] = exec[d],
           exec'[c].client = exec[c].client, exec'[c].ready = exec[c].ready,
           exec[c].pc # "idle", exec'[c].pc # "idle",
           \/ exec'[c].answer = exec[c].answer
           \/ /\ DOMAIN exec'[c].answer = DOMAIN NoAnswer /\ Sound(exec'[c].answer.rows)
              /\ exec'[c].answer.told = "own" /\ exec'[c].answer.ok /\ Network \in {"Solana", "Multi"} =>
                     exec[c].client \subseteq exec'[c].answer.rows,
           DOMAIN event' = DOMAIN NoAnswer, Sound(event'.rows)
    PROVE  WInv'
<1>1. WalletKeys' = WalletKeys /\ Network' = Network
    BY SetupKept
<1>2. Shared'
  <2>1. Sound(event.rows)' /\ Sound(board.result)'
      BY <1>1 DEF WInv, Shared, Sound
  <2> QED
      BY <2>1, StockKept DEF WInv, Shared, CountsKept
<1>3. ASSUME NEW p \in Calls PROVE PInv(p)'
  <2>1. PInv(p) /\ Covers(p)'
      BY DEF WInv, PInv, Covers
  <2>2. CASE p # c
      BY <2>1, <2>2, Elsewhere DEF CountsKept
  <2>3. CASE p = c
    <3>1. Planned(c)' /\ Bounded(c)' /\ Reported(c)'
        BY <2>1, <2>3, PressElsewhere DEF CountsKept
    <3>2. Answers(c)
        BY <2>1, <2>3 DEF PInv
    <3>3. DOMAIN exec'[c].answer = DOMAIN NoAnswer /\ Sound(exec'[c].answer.rows)
        BY <3>2 DEF Answers
    <3>4. Sound(exec[c].answer.rows)' /\ Orcas(exec[c].client)'
        BY <1>1, <3>2, <3>3 DEF Answers, Orcas, Sound
    <3>5. exec'[c].answer.told = "own" /\ exec'[c].answer.ok /\ Network \in {"Solana", "Multi"} =>
              exec[c].client \subseteq exec'[c].answer.rows
        BY <3>2 DEF Answers
    <3>6. Answers(c)'
        BY <1>1, <3>2, <3>3, <3>4, <3>5 DEF Answers, Keys
    <3> QED
        BY <2>1, <2>3, <3>1, <3>6 DEF PInv
  <2> QED
      BY <2>2, <2>3
<1> QED
    BY <1>2, <1>3 DEF WInv

LEMMA ServerWKeeps == ASSUME WInv, NEW c \in Calls, ServerStep(c), UNCHANGED <<board, press>> PROVE WInv'
<1>1. IInv /\ Shape /\ PInv(c) /\ Answers(c) /\ Numbered /\ DOMAIN event = DOMAIN NoAnswer /\ Sound(event.rows)
    BY PressFacts DEF PInv, Shared
<1>2. IInv'
    BY <1>1, LookupKeeps, RecordKeeps, RejectKeeps, AdapterKeeps DEF ServerStep, Attempts
<1>3. ASSUME NEW n, StartAttempt(c, n), exec[c].pc # "idle", UNCHANGED <<setup, event, moved>> PROVE WInv'
  <2>1. /\ \A d \in Calls \ {c} : exec'[d] = exec[d]
        /\ exec'[c].client = exec[c].client /\ exec'[c].ready = exec[c].ready
        /\ exec'[c].answer = exec[c].answer /\ exec'[c].pc = "run"
      BY <1>1, <1>3 DEF StartAttempt, Shape, NoExec
  <2> QED
      BY <1>1, <1>2, <1>3, <2>1, SameMoves, CallWKeeps
<1>4. ASSUME NEW pc, NEW answer, exec' = [exec EXCEPT ![c].pc = pc, ![c].answer = answer],
             exec[c].pc # "idle", pc # "idle", UNCHANGED <<setup, event, moved>>,
             DOMAIN answer = DOMAIN NoAnswer, Sound(answer.rows),
             answer.told = "own" /\ answer.ok /\ Network \in {"Solana", "Multi"} =>
                 exec[c].client \subseteq answer.rows
      PROVE  WInv'
  <2>1. /\ \A d \in Calls \ {c} : exec'[d] = exec[d]
        /\ exec'[c].client = exec[c].client /\ exec'[c].ready = exec[c].ready
        /\ exec'[c].answer = answer /\ exec'[c].pc = pc
      BY <1>1, <1>4 DEF Shape, NoExec
  <2> QED
      BY <1>1, <1>2, <1>4, <2>1, SameMoves, CallWKeeps
<1>5. ASSUME NEW pc, exec' = [exec EXCEPT ![c].pc = pc], exec[c].pc # "idle", pc # "idle",
             UNCHANGED <<setup, moved>>, event' \in {event, exec[c].answer}
      PROVE  WInv'
  <2>1. /\ \A d \in Calls \ {c} : exec'[d] = exec[d]
        /\ exec'[c].client = exec[c].client /\ exec'[c].ready = exec[c].ready
        /\ exec'[c].answer = exec[c].answer /\ exec'[c].pc = pc
      BY <1>1, <1>5 DEF Shape, NoExec
  <2>2. DOMAIN event' = DOMAIN NoAnswer /\ Sound(event'.rows)
      BY <1>1, <1>5 DEF Answers
  <2> QED
      BY <1>1, <1>2, <1>5, <2>1, <2>2, SameMoves, CallWKeeps
<1>6. CASE Lookup(c)
  <2>1. exec[c].pc = "lookup" /\ UNCHANGED <<setup, event, moved>>
      BY <1>6 DEF Lookup
  <2>2. CASE event.told # "none"
    <3> DEFINE answer == [event EXCEPT !.told = "again"]
    <3>1. exec' = [exec EXCEPT ![c].pc = "answered", ![c].answer = answer]
        BY <1>6, <2>2 DEF Lookup
    <3>2. DOMAIN answer = DOMAIN NoAnswer /\ answer.rows = event.rows /\ answer.told = "again"
        BY <1>1 DEF NoAnswer
    <3> HIDE DEF answer
    <3> QED
        BY <1>1, <1>4, <2>1, <3>1, <3>2
  <2>3. CASE event.told = "none"
      BY <1>3, <1>6, <2>1, <2>3 DEF Lookup
  <2> QED
      BY <2>2, <2>3
<1>7. CASE AttemptResolves(c)
  <2>1. /\ exec[c].pc = "run" /\ UNCHANGED <<setup, event, moved>>
        /\ exec' = [exec EXCEPT ![c].pc = "record", ![c].answer = Bundle(c)]
      BY <1>7 DEF AttemptResolves
  <2>2. /\ Sound(Bundle(c).rows) /\ DOMAIN Bundle(c) = DOMAIN NoAnswer
        /\ Network \in {"Solana", "Multi"} => exec[c].client \subseteq Bundle(c).rows
      BY <1>1, BundleIsSound
  <2> QED
      BY <1>4, <2>1, <2>2
<1>8. CASE AttemptRejects(c)
  <2>1. exec[c].pc = "run" /\ UNCHANGED <<setup, event, moved>>
      BY <1>8 DEF AttemptRejects
  <2>2. CASE exec[c].attempt < MaxAttempts
      BY <1>3, <1>8, <2>1, <2>2 DEF AttemptRejects
  <2>3. CASE ~(exec[c].attempt < MaxAttempts)
    <3> DEFINE answer == [NoAnswer EXCEPT !.told = "own"]
    <3>1. exec' = [exec EXCEPT ![c].pc = "record", ![c].answer = answer]
        BY <1>8, <2>3 DEF AttemptRejects
    <3>2. DOMAIN answer = DOMAIN NoAnswer /\ Sound(answer.rows) /\ ~answer.ok
        BY DEF NoAnswer, Sound
    <3> HIDE DEF answer
    <3> QED
        BY <1>4, <2>1, <3>1, <3>2
  <2> QED
      BY <2>2, <2>3
<1>9. CASE Record(c)
  <2>1. PICK pc \in {"ledger", "answered"} : exec' = [exec EXCEPT ![c].pc = pc]
      BY <1>9 DEF Record
  <2> QED
      BY <1>5, <1>9, <2>1 DEF Record
<1>10. CASE RecordRow(c)
    BY <1>5, <1>10 DEF RecordRow
<1>11. ASSUME NEW a \in 1 .. MaxAttempts, UniStops(c, a) \/ UniMint(c, a) \/ OrcaClient(c, a) PROVE WInv'
  <2>1. UNCHANGED <<setup, exec, event, press, board>>
      BY <1>11 DEF UniStops, UniMint, OrcaClient
  <2>2. CountsKept
      BY <1>1, <1>11, SameMoves, ServerMoves DEF UniStops, UniMint, OrcaClient
  <2> QED
      BY <1>2, <2>1, <2>2, BoardWKeeps
<1> QED
    BY <1>6, <1>7, <1>8, <1>9, <1>10, <1>11 DEF ServerStep

LEMMA WInvariance == Spec => []WInv
<1>1. ASSUME WInv, [Next]_vars PROVE WInv'
  <2>1. CASE UNCHANGED vars
    <3>1. IInv' /\ Numbered
        BY <1>1, <2>1, StepPreserves DEF WInv, Shared
    <3>2. CountsKept
        BY <2>1, <3>1, SameMoves DEF vars
    <3> QED
        BY <1>1, <2>1, <3>1, <3>2, BoardWKeeps DEF vars
  <2> QED
      BY <1>1, <2>1, JobWKeeps, AwayKeeps, StartKeeps, WalletWKeeps, ServerWKeeps DEF Next
<1> QED
    BY <1>1, WInitHolds, PTL DEF Spec

\* However often a plan is thrown back and begun again, a wallet pays a row, and
\* buys its token, once more than something really failed, at the most.
THEOREM ApprovalsAreBounded == Spec => []OnePaymentPerApproval
<1>1. WInv => OnePaymentPerApproval
  <2>1. ASSUME WInv, NEW p \in Calls, NEW k \in WalletKeys
        PROVE  Paid(p, k) <= 1 + press[p].trouble /\ Bought(p, k) <= 1 + press[p].trouble
      BY <2>1 DEF WInv, PInv, Bounded
  <2> QED
      BY <2>1 DEF OnePaymentPerApproval, WalletKeys, Paid, Bought
<1> QED
    BY <1>1, WInvariance, PTL

\* What a wallet has paid in a plan without trouble is in the answer of its run.
THEOREM PaymentsAreReported == Spec => []WalletDepositsAreReported
<1>1. WInv => WalletDepositsAreReported
  <2> SUFFICES ASSUME WInv, NEW p \in Calls, exec[p].answer.told = "own", exec[p].answer.ok,
                      Network \in {"Solana", "Multi"}, press[p].trouble = 0, NEW d \in WalletMoves(p)
               PROVE  \E row \in exec[p].answer.rows : Key(row) = d.key /\ row.usd = d.usd
      BY DEF WalletDepositsAreReported
  <2>1. PInv(p)
      BY DEF WInv
  <2>2. exec[p].client \subseteq exec[p].answer.rows
      BY <2>1 DEF PInv, Answers
  <2>3. exec[p].pc # "idle" /\ press[p].pc # "confirm"
      BY <2>1, PressFacts DEF PInv, Answers, Sent
  <2> QED
      BY <2>1, <2>2, <2>3 DEF PInv, Answers, Reported
<1> QED
    BY <1>1, WInvariance, PTL

=============================================================================

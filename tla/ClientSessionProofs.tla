------------------------ MODULE ClientSessionProofs ------------------------
(***************************************************************************)
(* HandledOnce, ResendsMatch and TheScreenTellsTheAccount, for all tabs,   *)
(* users, calls and plans.                                                 *)
(*                                                                         *)
(* The handler of a call runs when its request is answered "ok", and       *)
(* nothing is asked again after that answer: a call whose handler has run  *)
(* is Over.  All resends are of a call whose handler has not.  A call that *)
(* is to be sent again Knows the token of the cookie, unless overtaken.    *)
(* And while nothing is mixed, the cookies are of the user of the screens, *)
(* except in the Window between the answer of a login and its tab's        *)
(* hearing of it.                                                          *)
(***************************************************************************)
EXTENDS ClientSession, TLAPS

Over(r) == r.pc = "ended" \/ (r.pc = "answered" /\ r.ask = "call" /\ r.status = "ok")
Fresh(r) == DOMAIN r = DOMAIN NoCall /\ r.runs = 0
Good(r) == DOMAIN r = DOMAIN NoCall /\ (r.runs = 0 \/ (r.runs = 1 /\ Over(r)))

IInv == DOMAIN call = Calls /\ \A c \in Calls : Good(call[c])

-----------------------------------------------------------------------------
(* The records of calls.                                                   *)

LEMMA FreshIsGood == ASSUME NEW r, Fresh(r) PROVE Good(r)
BY DEF Fresh, Good

LEMMA GoodIsFresh == ASSUME NEW r, Good(r), ~Over(r) PROVE Fresh(r)
BY DEF Fresh, Good

LEMMA EndIsGood == ASSUME NEW r, Good(r) PROVE Good(End(r))
BY DEF Good, Over, End, NoCall

LEMMA SentIsFresh == ASSUME NEW r, Fresh(r), NEW match PROVE Fresh(Sent(r, match))
BY DEF Fresh, Sent, NoCall

\* To ask leaves a call whose handler has not run as it is.
LEMMA AskIsFresh == ASSUME NEW r, Fresh(r), NEW ask, NEW stored PROVE Fresh(Ask(r, ask, stored))
<1> DEFINE q == [r EXCEPT !.ask = ask]
           tok == IF jar.csrf THEN "current" ELSE "new"
<1>1. Fresh(q)
    BY DEF Fresh, NoCall
<1>2. Fresh([q EXCEPT !.pc = "fetching", !.overtaken = FALSE, !.tok = tok])
    BY <1>1 DEF Fresh, NoCall
<1>3. Fresh(Sent(q, Stored(stored) = "current"))
    BY <1>1, SentIsFresh
<1> HIDE DEF q, tok
<1>4. Ask(r, ask, stored) \in {[q EXCEPT !.pc = "fetching", !.overtaken = FALSE, !.tok = tok],
                               Sent(q, Stored(stored) = "current")}
    BY DEF Ask, q, tok
<1> QED
    BY <1>2, <1>3, <1>4

\* A changed cookie only outdates tokens.
LEMMA OutdateIsGood ==
    ASSUME IInv, NEW d \in Calls
    PROVE  Good(OutdateCalls(call)[d]) /\ DOMAIN OutdateCalls(call) = Calls
<1>1. Good(call[d])
    BY DEF IInv
<1> DEFINE new == OutdateCalls(call)[d]
<1>2. /\ DOMAIN new = DOMAIN call[d] /\ new.pc = call[d].pc /\ new.ask = call[d].ask
      /\ new.status = call[d].status /\ new.runs = call[d].runs
    BY <1>1 DEF OutdateCalls, Good, NoCall
<1>3. DOMAIN OutdateCalls(call) = Calls
    BY DEF OutdateCalls
<1> HIDE DEF new
<1>4. Good(new)
    BY <1>1, <1>2 DEF Good, Over
<1> QED
    BY <1>3, <1>4 DEF new

-----------------------------------------------------------------------------
(* The steps.                                                              *)

LEMMA BecomeKeeps ==
    ASSUME IInv, NEW c \in Calls, NEW r, Good(r), Become(c, r) PROVE IInv'
<1>1. call' = [call EXCEPT ![c] = r]
    BY DEF Become
<1>2. DOMAIN call' = Calls /\ \A d \in Calls : call'[d] = IF d = c THEN r ELSE call[d]
    BY <1>1 DEF IInv
<1>3. \A d \in Calls : Good(call'[d])
    BY <1>2 DEF IInv
<1> QED
    BY <1>2, <1>3 DEF IInv, Good, Over

LEMMA OutdateKeeps ==
    ASSUME IInv, NEW c \in Calls, NEW r, Good(r), NEW changed,
           call' = [(IF changed THEN OutdateCalls(call) ELSE call) EXCEPT ![c] = r]
    PROVE  IInv'
<1> DEFINE calls == IF changed THEN OutdateCalls(call) ELSE call
<1>1. DOMAIN calls = Calls /\ \A d \in Calls : Good(calls[d])
  <2>1. CASE changed
      BY <2>1, OutdateIsGood
  <2>2. CASE ~changed
      BY <2>2 DEF IInv
  <2> QED
      BY <2>1, <2>2
<1>2. call' = [calls EXCEPT ![c] = r]
    OBVIOUS
<1> HIDE DEF calls
<1>3. DOMAIN call' = Calls /\ \A d \in Calls : call'[d] = IF d = c THEN r ELSE calls[d]
    BY <1>1, <1>2
<1>4. \A d \in Calls : Good(call'[d])
    BY <1>1, <1>3
<1> QED
    BY <1>3, <1>4 DEF IInv, Good, Over

\* A request is made for a call whose handler has not run.
LEMMA AskKeeps ==
    ASSUME IInv, NEW c \in Calls, NEW r, Fresh(r), NEW ask, NEW stored, Become(c, Ask(r, ask, stored))
    PROVE  IInv'
BY AskIsFresh, FreshIsGood, BecomeKeeps

\* The handler of a call that has not begun has not run.
LEMMA WaitingIsFresh ==
    ASSUME IInv, NEW c \in Calls, call[c].pc \notin {"answered", "ended"}
           \/ (call[c].pc = "answered" /\ (call[c].ask # "call" \/ call[c].status # "ok"))
    PROVE  Fresh(call[c])
BY GoodIsFresh DEF IInv, Over

LEMMA BeginKeeps ==
    ASSUME IInv, NEW c \in Calls,
           BeginLogin(c) \/ BeginLogout(c) \/ BeginCall(c) \/ BeginLoad(c) \/ BeginWithdraw(c)
    PROVE  IInv'
<1>1. Fresh(call[c])
    BY WaitingIsFresh DEF BeginLogin, BeginLogout, BeginCall, BeginLoad, BeginWithdraw, Begin, At
<1>2. CASE BeginLogin(c) \/ BeginLogout(c)
    BY <1>1, <1>2, AskKeeps DEF BeginLogin, BeginLogout, Start
<1>3. CASE BeginCall(c)
  <2>1. PICK unsafe \in Methods : Start(c, [call[c] EXCEPT !.unsafe = unsafe], "call")
      BY <1>3 DEF BeginCall
  <2> DEFINE r == [call[c] EXCEPT !.unsafe = unsafe]
  <2>2. Fresh(r)
      BY <1>1 DEF Fresh, NoCall
  <2>3. Become(c, Ask(r, "call", token[r.tab]))
      BY <2>1 DEF Start
  <2> HIDE DEF r
  <2> QED
      BY <2>2, <2>3, AskKeeps
<1>4. CASE BeginLoad(c)
  <2> DEFINE r == [call[c] EXCEPT !.for = screen[call[c].tab]]
  <2>1. Fresh(r)
      BY <1>1 DEF Fresh, NoCall
  <2>2. Become(c, Ask(r, "call", token[r.tab]))
      BY <1>4 DEF BeginLoad, Start
  <2> HIDE DEF r
  <2> QED
      BY <2>1, <2>2, AskKeeps
<1>5. CASE BeginWithdraw(c)
  <2> DEFINE r == [call[c] EXCEPT !.user = markers, !.unsafe = TRUE, !.rows = shown[call[c].tab]]
  <2>1. Fresh(r)
      BY <1>1 DEF Fresh, NoCall
  <2>2. Become(c, Ask(r, "login", token[r.tab]))
      BY <1>5 DEF BeginWithdraw, Start
  <2> HIDE DEF r
  <2> QED
      BY <2>1, <2>2, AskKeeps
<1> QED
    BY <1>2, <1>3, <1>4, <1>5

LEMMA TokenKeeps ==
    ASSUME IInv, NEW c \in Calls, TokenAnswered(c) \/ TokenFails(c) PROVE IInv'
<1>1. Fresh(call[c])
    BY WaitingIsFresh DEF TokenAnswered, TokenFails, At
<1>2. CASE TokenAnswered(c)
  <2> DEFINE new == call[c].tok = "new"
  <2>1. PICK seen : call' = [(IF new THEN OutdateCalls(call) ELSE call) EXCEPT
                  ![c] = [call[c] EXCEPT !.pc = "sent", !.tok = "none", !.status = "none", !.seen = seen]]
      BY <1>2 DEF TokenAnswered
  <2> DEFINE r == [call[c] EXCEPT !.pc = "sent", !.tok = "none", !.status = "none", !.seen = seen]
  <2>2. Fresh(r)
      BY <1>1 DEF Fresh, NoCall
  <2> HIDE DEF r, new
  <2>3. Good(r)
      BY <2>2, FreshIsGood
  <2> QED
      BY <2>1, <2>3, OutdateKeeps DEF r
<1>3. CASE TokenFails(c)
  <2> DEFINE s == Sent(call[c], FALSE)
             r == [s EXCEPT !.overtaken = TRUE]
  <2>1. Fresh(s)
      BY <1>1, SentIsFresh
  <2>2. Become(c, r)
      BY <1>3 DEF TokenFails
  <2> HIDE DEF s
  <2>3. Fresh(r)
      BY <2>1 DEF Fresh, NoCall
  <2> HIDE DEF r
  <2> QED
      BY <2>2, <2>3, FreshIsGood, BecomeKeeps
<1> QED
    BY <1>2, <1>3

\* The server.  Only the answer "ok" of a call counts a run.
LEMMA AnswerIsFresh == ASSUME NEW r, Fresh(r), NEW status PROVE Fresh(Answer(r, status))
BY DEF Fresh, Answer, NoCall

LEMMA HandleKeeps == ASSUME IInv, NEW c \in Calls, Handle(c) PROVE IInv'
<1> DEFINE r == call[c]
<1>1. Fresh(r)
    BY WaitingIsFresh DEF Handle, At
<1>2. \A status : Good(Answer(r, status))
    BY <1>1, AnswerIsFresh, FreshIsGood
<1>3. CASE HandleCall(c)
  <2> DEFINE a == Answer(r, "ok")
             done == [a EXCEPT !.runs = a.runs + 1, !.as = r.seen.access]
  <2>1. a.runs = 0 /\ DOMAIN a = DOMAIN NoCall /\ a.pc = "answered" /\ a.ask = "call" /\ a.status = "ok"
      BY <1>1, <1>3 DEF Answer, Fresh, NoCall, HandleCall
  <2>2. \E b \in {Answer(r, "401"), Answer(r, "403"), done} : Become(c, b)
      BY <1>3 DEF HandleCall
  <2> HIDE DEF a
  <2>3. Good(done)
      BY <2>1 DEF Good, Over, NoCall
  <2> HIDE DEF done, r
  <2> QED
      BY <1>2, <2>2, <2>3, BecomeKeeps
<1>4. CASE HandleRefresh(c) \/ HandleLogin(c) \/ HandleLogout(c)
  <2>1. PICK status : Become(c, Answer(r, status))
      BY <1>4 DEF HandleRefresh, HandleLogin, HandleLogout
  <2> HIDE DEF r
  <2> QED
      BY <1>2, <2>1, BecomeKeeps
<1> QED
    BY <1>3, <1>4 DEF Handle

LEMMA ArriveKeeps == ASSUME IInv, NEW c \in Calls, Arrive(c) PROVE IInv'
<1> DEFINE rotates == Sets(call[c]) \/ Renews(call[c]) \/ Clears(call[c])
           tok == IF Sets(call[c]) \/ Renews(call[c]) THEN "current" ELSE "none"
           r == [call[c] EXCEPT !.pc = "arrived", !.overtaken = FALSE, !.tok = tok]
<1>1. Fresh(call[c])
    BY WaitingIsFresh DEF Arrive, At
<1>2. call' = [(IF rotates THEN OutdateCalls(call) ELSE call) EXCEPT ![c] = r]
    BY DEF Arrive
<1> HIDE DEF rotates, tok
<1>3. Fresh(r)
    BY <1>1 DEF Fresh, NoCall
<1> HIDE DEF r
<1> QED
    BY <1>2, <1>3, FreshIsGood, OutdateKeeps

\* What ends a call, or asks again for one whose handler has not run.
LEMMA EndKeeps == ASSUME IInv, NEW c \in Calls, Become(c, End(call[c])) PROVE IInv'
BY EndIsGood, BecomeKeeps DEF IInv

LEMMA AskAgainKeeps ==
    ASSUME IInv, NEW c \in Calls, NEW r, Fresh(r), AskAgain(c, r) PROVE IInv'
BY AskKeeps DEF AskAgain

LEMMA FailsKeeps == ASSUME IInv, NEW c \in Calls, Fails(c) \/ ClearsStorage(c) PROVE IInv'
BY EndKeeps DEF Fails, ClearsStorage

\* After a withdrawal the record is that of a new call.
LEMMA CallAnsweredKeeps ==
    ASSUME IInv, NEW c \in Calls, At(c, "answered"), CallAnswered(c) PROVE IInv'
<1> DEFINE r == call[c]
           healed == [r EXCEPT !.stage = "healed"]
           reload == [NoCall EXCEPT !.kind = "reload", !.tab = r.tab]
<1>1. r.status # "ok" => Fresh(r)
    BY WaitingIsFresh DEF At
<1>2. Fresh(r) => Fresh(healed)
    BY DEF Fresh, NoCall
<1>3. Fresh(reload)
    BY DEF Fresh, NoCall
<1>4. \/ Fails(c)
      \/ r.status # "ok" /\ AskAgain(c, healed)
      \/ r.status # "ok" /\ Become(c, Ask(r, "refresh", token[r.tab]))
      \/ Become(c, Ask(reload, "call", token[r.tab]))
      \/ Become(c, End(r))
    BY DEF CallAnswered, Withdrawn
<1> HIDE DEF healed, reload
<1>5. CASE r.status # "ok" /\ AskAgain(c, healed)
    BY <1>1, <1>2, <1>5, AskAgainKeeps
<1>6. CASE r.status # "ok" /\ Become(c, Ask(r, "refresh", token[r.tab]))
    BY <1>1, <1>6, AskKeeps
<1>7. CASE Become(c, Ask(reload, "call", token[r.tab]))
    BY <1>3, <1>7, AskKeeps
<1> QED
    BY <1>4, <1>5, <1>6, <1>7, FailsKeeps, EndKeeps

LEMMA RefreshAnsweredKeeps ==
    ASSUME IInv, NEW c \in Calls, At(c, "arrived"), RefreshAnswered(c) PROVE IInv'
<1> DEFINE r == call[c]
           again == [r EXCEPT !.again = TRUE]
           second == [r EXCEPT !.stage = "second"]
<1>1. Fresh(r)
    BY WaitingIsFresh DEF At
<1>2. Fresh(again) /\ Fresh(second)
    BY <1>1 DEF Fresh, NoCall
<1>3. \/ AskAgain(c, again) \/ ClearsStorage(c)
      \/ Become(c, End(r)) \/ Become(c, Ask(second, "call", r.tok))
    BY DEF RefreshAnswered
<1> HIDE DEF again, second
<1>4. CASE AskAgain(c, again)
    BY <1>2, <1>4, AskAgainKeeps
<1>5. CASE Become(c, Ask(second, "call", r.tok))
    BY <1>2, <1>5, AskKeeps
<1> QED
    BY <1>3, <1>4, <1>5, FailsKeeps, EndKeeps

LEMMA LoginAnsweredKeeps ==
    ASSUME IInv, NEW c \in Calls, At(c, "arrived"), LoginAnswered(c) PROVE IInv'
<1>1. Fresh(call[c])
    BY WaitingIsFresh DEF At
<1>2. \/ Fails(c) \/ Become(c, End(call[c]))
      \/ Become(c, Ask(call[c], "call", call[c].tok))
    BY DEF LoginAnswered, Entered
<1> QED
    BY <1>1, <1>2, AskKeeps, FailsKeeps, EndKeeps

LEMMA ResumeKeeps == ASSUME IInv, NEW c \in Calls, Resume(c) PROVE IInv'
<1>1. CASE CallAnswered(c)
    BY <1>1, CallAnsweredKeeps DEF Resume, CallAnswered
<1>2. CASE RefreshAnswered(c)
    BY <1>2, RefreshAnsweredKeeps DEF Resume, RefreshAnswered
<1>3. CASE LoginAnswered(c)
    BY <1>3, LoginAnsweredKeeps DEF Resume, LoginAnswered
<1>4. CASE LogoutAnswered(c)
    BY <1>4, FailsKeeps DEF LogoutAnswered
<1> QED
    BY <1>1, <1>2, <1>3, <1>4 DEF Resume

LEMMA LostKeeps == ASSUME IInv, NEW c \in Calls, Lost(c) PROVE IInv'
BY FailsKeeps DEF Lost

-----------------------------------------------------------------------------
LEMMA InitHolds == Init => IInv
<1> SUFFICES ASSUME Init PROVE IInv
    OBVIOUS
<1>1. PICK p \in Plans : call = p.calls
    BY DEF Init
<1>2. DOMAIN call = Calls
    BY <1>1, PlansAssumption
<1>3. ASSUME NEW c \in Calls PROVE Good(call[c])
  <2>1. PICK kind, t, u, told : call[c] = Operation(kind, t, u, told)
      BY <1>1, PlansAssumption
  <2>2. Fresh(Operation(kind, t, u, told))
      BY DEF Operation, Fresh, NoCall
  <2> QED
      BY <2>1, <2>2, FreshIsGood
<1> QED
    BY <1>2, <1>3 DEF IInv

LEMMA StepPreserves == ASSUME IInv, [Next]_vars PROVE IInv'
<1>1. CASE UNCHANGED vars \/ Expire
  <2>1. call' = call
      BY <1>1 DEF vars, Expire
  <2> QED
      BY <2>1 DEF IInv, Good, Over
<1>2. ASSUME NEW c \in Calls,
             \/ BeginLogin(c) \/ BeginLogout(c) \/ BeginCall(c) \/ BeginLoad(c) \/ BeginWithdraw(c)
             \/ TokenAnswered(c) \/ TokenFails(c)
             \/ Handle(c) \/ Arrive(c) \/ Resume(c) \/ Lost(c)
      PROVE  IInv'
    BY <1>2, BeginKeeps, TokenKeeps, HandleKeeps, ArriveKeeps, ResumeKeeps, LostKeeps
<1> QED
    BY <1>1, <1>2 DEF Next

\* However a call is sent again, by whichever tab and through expiries, refused
\* tokens and lost answers, its handler runs once at most.
THEOREM CallsAreHandledOnce == Spec => []HandledOnce
<1>1. IInv => HandledOnce
    BY DEF IInv, Good, HandledOnce
<1> QED
    BY <1>1, InitHolds, StepPreserves, PTL DEF Spec

-----------------------------------------------------------------------------
(* ResendsMatch: where the token of a request comes from.                  *)

Resent(r) == \/ r.ask = "call" /\ r.unsafe /\ r.stage # "first"
             \/ r.ask = "refresh" /\ r.again

\* A record whose tab has learned of the token that is in the cookie, unless it
\* was overtaken.  A request is sent again from such a record, or with the cookie
\* itself.
Knows(r, csrf) ==
    /\ r.pc = "fetching" => r.overtaken \/ r.tok = "new" \/ (r.tok = "current" /\ csrf)
    /\ r.pc = "arrived" /\ r.ask = "refresh" /\ r.status = "ok" =>
          r.overtaken \/ (r.tok = "current" /\ csrf)
Staged(r) ==
    /\ r.pc = "idle" => r.ask = "none" /\ r.stage = "first"
    /\ r.ask = "login" => r.stage = "first"
    /\ r.ask # "refresh" /\ r.stage # "second" => ~r.again
Matches(r) == r.pc = "sent" /\ Resent(r) /\ ~r.overtaken => r.seen.csrf
Learned(r, csrf) == DOMAIN r = DOMAIN NoCall /\ Knows(r, csrf) /\ Staged(r) /\ Matches(r)

MInv == /\ DOMAIN call = Calls /\ DOMAIN jar = DOMAIN NoCookies
        /\ \A c \in Calls : Learned(call[c], jar.csrf)

LEMMA MatchInit == Init => MInv
<1> SUFFICES ASSUME Init PROVE MInv
    OBVIOUS
<1>1. PICK p \in Plans : call = p.calls /\ DOMAIN jar = DOMAIN NoCookies
    BY DEF Init, NoCookies
<1>2. DOMAIN call = Calls
    BY <1>1, PlansAssumption
<1>3. ASSUME NEW c \in Calls PROVE Learned(call[c], jar.csrf)
  <2>1. PICK kind, t, u, told : call[c] = Operation(kind, t, u, told)
      BY <1>1, PlansAssumption
  <2>2. /\ DOMAIN call[c] = DOMAIN NoCall /\ call[c].pc = "idle" /\ call[c].ask = "none"
        /\ call[c].stage = "first" /\ ~call[c].again
      BY <2>1 DEF Operation, NoCall
  <2> QED
      BY <2>2 DEF Learned, Knows, Staged, Matches
<1> QED
    BY <1>1, <1>2, <1>3 DEF MInv

\* The records of the other calls, as the cookie changes: from a token that is
\* still there nothing is lost, and of one that is not they are overtaken.
LEMMA LearnedStays ==
    ASSUME NEW r, NEW csrf, NEW new, Learned(r, csrf), csrf => new PROVE Learned(r, new)
BY DEF Learned, Knows

LEMMA LearnedOutdates ==
    ASSUME MInv, NEW d \in Calls, NEW csrf
    PROVE  Learned(OutdateCalls(call)[d], csrf) /\ DOMAIN OutdateCalls(call) = Calls
<1> DEFINE r == call[d]
           new == OutdateCalls(call)[d]
<1>1. Learned(r, jar.csrf)
    BY DEF MInv
<1>2. /\ DOMAIN new = DOMAIN NoCall /\ new.pc = r.pc /\ new.ask = r.ask /\ new.stage = r.stage
      /\ new.again = r.again /\ new.unsafe = r.unsafe /\ new.seen = r.seen
      /\ new.overtaken = (r.overtaken \/ r.pc \in {"fetching", "arrived"})
    BY <1>1 DEF OutdateCalls, Learned, NoCall
<1> HIDE DEF new
<1>3. (r.pc = "fetching" => new.overtaken) /\ (r.pc = "arrived" => new.overtaken)
    BY <1>2
<1>4. r.pc = "sent" => (new.overtaken <=> r.overtaken)
    BY <1>2
<1>5. Knows(new, csrf)
    BY <1>2, <1>3 DEF Knows
<1>6. Staged(new)
    BY <1>1, <1>2 DEF Learned, Staged
<1>7. Matches(new)
    BY <1>1, <1>2, <1>4 DEF Learned, Matches, Resent
<1>8. Learned(new, csrf)
    BY <1>2, <1>5, <1>6, <1>7 DEF Learned
<1> QED
    BY <1>8 DEF OutdateCalls, new

\* A step of one call.
LEMMA BecomeLearns ==
    ASSUME MInv, NEW c \in Calls, NEW r, Learned(r, jar'.csrf), Become(c, r),
           DOMAIN jar' = DOMAIN NoCookies, jar.csrf => jar'.csrf
    PROVE  MInv'
<1>1. call' = [call EXCEPT ![c] = r]
    BY DEF Become
<1>2. DOMAIN call' = Calls /\ \A d \in Calls : call'[d] = IF d = c THEN r ELSE call[d]
    BY <1>1 DEF MInv
<1>3. \A d \in Calls : Learned(call[d], jar'.csrf)
    BY LearnedStays DEF MInv
<1>4. \A d \in Calls : Learned(call'[d], jar'.csrf)
    BY <1>2, <1>3
<1> QED
    BY <1>2, <1>4 DEF MInv

LEMMA OutdateLearns ==
    ASSUME MInv, NEW c \in Calls, NEW r, Learned(r, jar'.csrf), NEW changed,
           call' = [(IF changed THEN OutdateCalls(call) ELSE call) EXCEPT ![c] = r],
           DOMAIN jar' = DOMAIN NoCookies, changed \/ (jar.csrf => jar'.csrf)
    PROVE  MInv'
<1> DEFINE calls == IF changed THEN OutdateCalls(call) ELSE call
<1>1. DOMAIN calls = Calls /\ \A d \in Calls : Learned(calls[d], jar'.csrf)
  <2>1. CASE changed
      BY <2>1, LearnedOutdates
  <2>2. CASE ~changed
      BY <2>2, LearnedStays DEF MInv
  <2> QED
      BY <2>1, <2>2
<1>2. call' = [calls EXCEPT ![c] = r]
    OBVIOUS
<1> HIDE DEF calls
<1>3. DOMAIN call' = Calls /\ \A d \in Calls : call'[d] = IF d = c THEN r ELSE calls[d]
    BY <1>1, <1>2
<1>4. \A d \in Calls : Learned(call'[d], jar'.csrf)
    BY <1>1, <1>3
<1> QED
    BY <1>3, <1>4 DEF MInv

\* What is sent with the stored token, when that is the cookie's, matches; what is
\* asked for first will be the cookie's.
LEMMA AskLearns ==
    ASSUME NEW r, DOMAIN r = DOMAIN NoCall, DOMAIN jar = DOMAIN NoCookies, NEW ask, ask # "login" \/ r.stage = "first",
           ask \in {"login", "logout", "call", "refresh"},
           ask # "refresh" /\ r.stage # "second" => ~r.again, NEW stored,
           \/ stored = "none" \/ r.overtaken \/ (stored = "current" /\ jar.csrf)
           \/ ~Resent([r EXCEPT !.ask = ask])
    PROVE  Learned(Ask(r, ask, stored), jar.csrf)
<1> DEFINE q == [r EXCEPT !.ask = ask]
           tok == IF jar.csrf THEN "current" ELSE "new"
           asking == [q EXCEPT !.pc = "fetching", !.overtaken = FALSE, !.tok = tok]
           match == Stored(stored) = "current"
           sent == Sent(q, match)
<1>1. /\ DOMAIN q = DOMAIN NoCall /\ q.ask = ask /\ q.stage = r.stage /\ q.again = r.again
      /\ q.unsafe = r.unsafe /\ q.overtaken = r.overtaken
    BY DEF NoCall
<1>2. NeedsToken(q, ask) <=> NeedsToken(r, ask)
    BY <1>1 DEF NeedsToken
<1>3. Resent(q) => NeedsToken(r, ask)
    BY <1>1 DEF Resent, NeedsToken
<1> HIDE DEF q
<1>4. Learned(asking, jar.csrf)
  <2>1. /\ DOMAIN asking = DOMAIN NoCall /\ asking.ask = ask /\ asking.stage = r.stage
        /\ asking.again = r.again /\ asking.pc = "fetching"
        /\ asking.tok = "new" \/ (asking.tok = "current" /\ jar.csrf)
      BY <1>1 DEF NoCall
  <2> HIDE DEF asking
  <2> QED
      BY <2>1 DEF Learned, Knows, Staged, Matches
<1>5. ASSUME ~(NeedsToken(r, ask) /\ Stored(stored) = "none") PROVE Learned(sent, jar.csrf)
  <2>1. /\ DOMAIN sent = DOMAIN NoCall /\ sent.ask = ask /\ sent.stage = r.stage
        /\ sent.again = r.again /\ sent.pc = "sent" /\ sent.unsafe = r.unsafe
        /\ sent.overtaken = r.overtaken /\ sent.seen.csrf = (jar.csrf /\ match)
      BY <1>1 DEF Sent, NoCall, NoCookies
  <2>2. Resent(sent) <=> Resent(q)
      BY <1>1, <2>1 DEF Resent
  <2>3. Resent(q) /\ ~r.overtaken => jar.csrf /\ match
    <3> SUFFICES ASSUME Resent(q), ~r.overtaken PROVE jar.csrf /\ match
        OBVIOUS
    <3>1. Stored(stored) # "none"
        BY <1>3, <1>5
    <3>2. stored = "none" \/ (stored = "current" /\ jar.csrf)
        BY DEF q
    <3> QED
        BY <3>1, <3>2 DEF Stored
  <2>4. Matches(sent)
    <3> HIDE DEF sent, match
    <3> QED
        BY <2>1, <2>2, <2>3 DEF Matches
  <2> HIDE DEF sent
  <2> QED
      BY <2>1, <2>4 DEF Learned, Knows, Staged
<1>6. Ask(r, ask, stored) = IF NeedsToken(r, ask) /\ Stored(stored) = "none" THEN asking ELSE sent
    BY DEF Ask, q
<1> HIDE DEF asking, sent
<1> QED
    BY <1>4, <1>5, <1>6

\* A record that waits for nothing of the token.
LEMMA StillLearned ==
    ASSUME NEW r, DOMAIN r = DOMAIN NoCall, Staged(r), r.pc \notin {"fetching", "arrived", "sent"}, NEW csrf
    PROVE  Learned(r, csrf)
BY DEF Learned, Knows, Matches

LEMMA EndedLearned == ASSUME NEW r, NEW csrf PROVE Learned(End(r), csrf)
<1>1. /\ DOMAIN End(r) = DOMAIN NoCall /\ End(r).pc = "ended" /\ End(r).ask = "none"
      /\ End(r).stage = "first" /\ ~End(r).again
    BY DEF End, NoCall
<1> QED
    BY <1>1, StillLearned DEF Staged

LEMMA BeginLearns ==
    ASSUME MInv, NEW c \in Calls,
           BeginLogin(c) \/ BeginLogout(c) \/ BeginCall(c) \/ BeginLoad(c) \/ BeginWithdraw(c)
    PROVE  MInv'
<1>1. /\ DOMAIN call[c] = DOMAIN NoCall /\ call[c].stage = "first" /\ ~call[c].again
      /\ jar' = jar /\ DOMAIN jar = DOMAIN NoCookies
    BY DEF MInv, Learned, Staged, BeginLogin, BeginLogout, BeginCall, BeginLoad, BeginWithdraw, Begin, At
<1> DEFINE Begins(r) == DOMAIN r = DOMAIN NoCall /\ r.stage = "first" /\ ~r.again
<1>2. ASSUME NEW r, Begins(r), NEW ask \in {"login", "logout", "call"}, Start(c, r, ask) PROVE MInv'
  <2>1. ~Resent([r EXCEPT !.ask = ask])
      BY <1>2 DEF Resent, NoCall
  <2>2. Learned(Ask(r, ask, token[r.tab]), jar.csrf)
      BY <1>1, <1>2, <2>1, AskLearns
  <2> QED
      BY <1>1, <1>2, <2>2, BecomeLearns DEF Start
<1>3. CASE BeginLogin(c) \/ BeginLogout(c)
    BY <1>1, <1>2, <1>3 DEF BeginLogin, BeginLogout
<1>4. CASE BeginCall(c)
  <2>1. PICK unsafe \in Methods : Start(c, [call[c] EXCEPT !.unsafe = unsafe], "call")
      BY <1>4 DEF BeginCall
  <2> DEFINE r == [call[c] EXCEPT !.unsafe = unsafe]
  <2>2. Begins(r)
      BY <1>1 DEF NoCall
  <2> HIDE DEF r, Begins
  <2> QED
      BY <1>2, <2>1, <2>2 DEF r
<1>5. CASE BeginLoad(c)
  <2> DEFINE r == [call[c] EXCEPT !.for = screen[call[c].tab]]
  <2>1. Begins(r)
      BY <1>1 DEF NoCall
  <2> HIDE DEF Begins
  <2> QED
      BY <1>2, <1>5, <2>1 DEF BeginLoad
<1>6. CASE BeginWithdraw(c)
  <2> DEFINE r == [call[c] EXCEPT !.user = markers, !.unsafe = TRUE, !.rows = shown[call[c].tab]]
  <2>1. Begins(r)
      BY <1>1 DEF NoCall
  <2> HIDE DEF Begins
  <2> QED
      BY <1>2, <1>6, <2>1 DEF BeginWithdraw
<1> QED
    BY <1>3, <1>4, <1>5, <1>6

\* The token comes, as the cookie has it, or the request goes without.
LEMMA TokenLearns ==
    ASSUME MInv, NEW c \in Calls, TokenAnswered(c) \/ TokenFails(c) PROVE MInv'
<1>1. /\ Learned(call[c], jar.csrf) /\ DOMAIN call[c] = DOMAIN NoCall /\ call[c].pc = "fetching"
      /\ DOMAIN jar = DOMAIN NoCookies
    BY DEF MInv, Learned, TokenAnswered, TokenFails, At
<1>2. CASE TokenAnswered(c)
  <2> DEFINE new == call[c].tok = "new"
             seen == [jar' EXCEPT !.csrf = new \/ (@ /\ call[c].tok = "current")]
             r == [call[c] EXCEPT !.pc = "sent", !.tok = "none", !.status = "none", !.seen = seen]
  <2>1. jar' = [jar EXCEPT !.csrf = @ \/ new]
      BY <1>2 DEF TokenAnswered
  <2>2. call' = [(IF new THEN OutdateCalls(call) ELSE call) EXCEPT ![c] = r]
      BY <1>2 DEF TokenAnswered
  <2>3. DOMAIN jar' = DOMAIN NoCookies /\ jar'.csrf = (jar.csrf \/ new)
      BY <1>1, <2>1 DEF NoCookies
  <2>4. seen.csrf = (new \/ (jar'.csrf /\ call[c].tok = "current"))
      BY <2>3 DEF NoCookies
  <2>5. call[c].overtaken \/ seen.csrf
      BY <1>1, <2>3, <2>4 DEF Learned, Knows
  <2> HIDE DEF seen
  <2>6. /\ DOMAIN r = DOMAIN NoCall /\ r.pc = "sent" /\ r.ask = call[c].ask /\ r.stage = call[c].stage
        /\ r.again = call[c].again /\ r.unsafe = call[c].unsafe /\ r.overtaken = call[c].overtaken
        /\ r.seen = seen
      BY <1>1 DEF NoCall
  <2> HIDE DEF r
  <2>7. Learned(r, jar'.csrf)
      BY <1>1, <2>5, <2>6 DEF Learned, Knows, Staged, Matches
  <2> QED
      BY <2>2, <2>3, <2>7, OutdateLearns
<1>3. CASE TokenFails(c)
  <2> DEFINE s == Sent(call[c], FALSE)
             r == [s EXCEPT !.overtaken = TRUE]
  <2>1. /\ DOMAIN s = DOMAIN NoCall /\ s.pc = "sent" /\ s.ask = call[c].ask /\ s.stage = call[c].stage
        /\ s.again = call[c].again
      BY <1>1 DEF Sent, NoCall
  <2>2. Become(c, r) /\ jar' = jar
      BY <1>3 DEF TokenFails
  <2> HIDE DEF s
  <2>3. /\ DOMAIN r = DOMAIN NoCall /\ r.pc = "sent" /\ r.ask = call[c].ask /\ r.stage = call[c].stage
        /\ r.again = call[c].again /\ r.overtaken
      BY <2>1 DEF NoCall
  <2> HIDE DEF r
  <2>4. Learned(r, jar.csrf)
      BY <1>1, <2>3 DEF Learned, Knows, Staged, Matches
  <2> QED
      BY <1>1, <2>2, <2>4, BecomeLearns
<1> QED
    BY <1>2, <1>3

LEMMA HandleLearns == ASSUME MInv, NEW c \in Calls, Handle(c) PROVE MInv'
<1>1. /\ Learned(call[c], jar.csrf) /\ DOMAIN call[c] = DOMAIN NoCall
      /\ jar' = jar /\ DOMAIN jar = DOMAIN NoCookies /\ call[c].pc = "sent"
    BY DEF MInv, Learned, Handle, At
<1>2. ASSUME NEW r, DOMAIN r = DOMAIN NoCall, r.pc = "answered", r.ask = call[c].ask,
             r.stage = call[c].stage, r.again = call[c].again, Become(c, r)
      PROVE  MInv'
  <2>1. Staged(r)
      BY <1>1, <1>2 DEF Learned, Staged
  <2> QED
      BY <1>1, <1>2, <2>1, StillLearned, BecomeLearns
<1>3. ASSUME NEW status
      PROVE  LET r == Answer(call[c], status) IN
             /\ DOMAIN r = DOMAIN NoCall /\ r.pc = "answered" /\ r.ask = call[c].ask
             /\ r.stage = call[c].stage /\ r.again = call[c].again
    BY <1>1 DEF Answer, NoCall
<1>4. CASE HandleCall(c)
  <2> DEFINE a == Answer(call[c], "ok")
             done == [a EXCEPT !.runs = a.runs + 1, !.as = call[c].seen.access]
  <2>1. \E b \in {Answer(call[c], "401"), Answer(call[c], "403"), done} : Become(c, b)
      BY <1>4 DEF HandleCall
  <2>2. /\ DOMAIN a = DOMAIN NoCall /\ a.pc = "answered" /\ a.ask = call[c].ask
        /\ a.stage = call[c].stage /\ a.again = call[c].again
      BY <1>3
  <2> HIDE DEF a
  <2>3. /\ DOMAIN done = DOMAIN NoCall /\ done.pc = "answered" /\ done.ask = call[c].ask
        /\ done.stage = call[c].stage /\ done.again = call[c].again
      BY <2>2 DEF NoCall
  <2> HIDE DEF done
  <2> QED
      BY <1>2, <1>3, <2>1, <2>3
<1>5. CASE HandleRefresh(c) \/ HandleLogin(c) \/ HandleLogout(c)
  <2>1. PICK status : Become(c, Answer(call[c], status))
      BY <1>5 DEF HandleRefresh, HandleLogin, HandleLogout
  <2> QED
      BY <1>2, <1>3, <2>1
<1> QED
    BY <1>4, <1>5 DEF Handle

\* The cookies of an answer: who is about to use the former token is overtaken.
LEMMA ArriveLearns == ASSUME MInv, NEW c \in Calls, Arrive(c) PROVE MInv'
<1> DEFINE rotates == Sets(call[c]) \/ Renews(call[c]) \/ Clears(call[c])
           tok == IF Sets(call[c]) \/ Renews(call[c]) THEN "current" ELSE "none"
           r == [call[c] EXCEPT !.pc = "arrived", !.overtaken = FALSE, !.tok = tok]
<1>1. /\ Learned(call[c], jar.csrf) /\ DOMAIN call[c] = DOMAIN NoCall
      /\ DOMAIN jar = DOMAIN NoCookies /\ call[c].pc = "answered"
    BY DEF MInv, Learned, Arrive, At
<1>2. call' = [(IF rotates THEN OutdateCalls(call) ELSE call) EXCEPT ![c] = r]
    BY DEF Arrive
<1>3. /\ DOMAIN jar' = DOMAIN NoCookies /\ (~rotates => jar' = jar)
      /\ (Renews(call[c]) => jar'.csrf)
  <2>1. CASE Sets(call[c])
      BY <2>1 DEF Arrive, NoCookies
  <2>2. CASE ~Sets(call[c]) /\ Renews(call[c])
      BY <1>1, <2>2 DEF Arrive, NoCookies
  <2>3. CASE ~Sets(call[c]) /\ ~Renews(call[c]) /\ Clears(call[c])
      BY <2>3 DEF Arrive
  <2>4. CASE ~rotates
      BY <1>1, <2>4 DEF Arrive
  <2> QED
      BY <2>1, <2>2, <2>3, <2>4
<1>4. Renews(call[c]) => tok = "current"
    OBVIOUS
<1> HIDE DEF rotates, tok
<1>5. /\ DOMAIN r = DOMAIN NoCall /\ r.pc = "arrived" /\ r.ask = call[c].ask /\ r.status = call[c].status
      /\ r.stage = call[c].stage /\ r.again = call[c].again /\ r.tok = tok
    BY <1>1 DEF NoCall
<1> HIDE DEF r
<1>6. Learned(r, jar'.csrf)
    BY <1>1, <1>3, <1>4, <1>5 DEF Learned, Knows, Staged, Matches, Renews
<1> QED
    BY <1>2, <1>3, <1>6, OutdateLearns

LEMMA ResumeLearns == ASSUME MInv, NEW c \in Calls, Resume(c) PROVE MInv'
<1> DEFINE r == call[c]
<1>1. /\ Learned(r, jar.csrf) /\ DOMAIN r = DOMAIN NoCall /\ Staged(r)
      /\ jar' = jar /\ DOMAIN jar = DOMAIN NoCookies
    BY DEF MInv, Learned, Resume
<1>2. ASSUME NEW s, Become(c, s), Learned(s, jar.csrf) PROVE MInv'
    BY <1>1, <1>2, BecomeLearns
<1>3. ASSUME Become(c, End(r)) PROVE MInv'
    BY <1>2, <1>3, EndedLearned
<1>4. CASE CallAnswered(c)
  <2> DEFINE healed == [r EXCEPT !.stage = "healed"]
             reload == [NoCall EXCEPT !.kind = "reload", !.tab = r.tab]
  <2>1. \/ Become(c, End(r))
        \/ r.ask = "call" /\ r.stage = "first" /\ Become(c, Ask(healed, healed.ask, "none"))
        \/ r.ask = "call" /\ r.stage # "second" /\ Become(c, Ask(r, "refresh", token[r.tab]))
        \/ Become(c, Ask(reload, "call", token[r.tab]))
      BY <1>4 DEF CallAnswered, Fails, AskAgain, Forgotten, Renewed, Withdrawn
  <2>2. /\ DOMAIN healed = DOMAIN NoCall /\ healed.ask = r.ask /\ healed.stage = "healed"
        /\ healed.again = r.again
      BY <1>1 DEF NoCall
  <2>3. DOMAIN reload = DOMAIN NoCall /\ reload.stage = "first" /\ ~reload.again
      BY DEF NoCall
  <2>4. ~Resent([reload EXCEPT !.ask = "call"])
      BY DEF Resent, NoCall
  <2>5. ~r.again => ~Resent([r EXCEPT !.ask = "refresh"])
      BY <1>1 DEF Resent, NoCall
  <2> HIDE DEF healed, reload
  <2>6. CASE r.ask = "call" /\ r.stage = "first" /\ Become(c, Ask(healed, healed.ask, "none"))
    <3>1. Learned(Ask(healed, "call", "none"), jar.csrf)
        BY <1>1, <2>2, <2>6, AskLearns DEF Staged
    <3> QED
        BY <1>2, <2>2, <2>6, <3>1
  <2>7. CASE r.ask = "call" /\ r.stage # "second" /\ Become(c, Ask(r, "refresh", token[r.tab]))
    <3>1. ~r.again
        BY <1>1, <2>7 DEF Staged
    <3>2. Learned(Ask(r, "refresh", token[r.tab]), jar.csrf)
        BY <1>1, <2>5, <3>1, AskLearns
    <3> QED
        BY <1>2, <2>7, <3>2
  <2>8. CASE Become(c, Ask(reload, "call", token[r.tab]))
    <3>1. Learned(Ask(reload, "call", token[r.tab]), jar.csrf)
        BY <1>1, <2>3, <2>4, AskLearns
    <3> QED
        BY <1>2, <2>8, <3>1
  <2> QED
      BY <1>3, <2>1, <2>6, <2>7, <2>8
<1>5. CASE RefreshAnswered(c)
  <2> DEFINE again == [r EXCEPT !.again = TRUE]
             second == [r EXCEPT !.stage = "second"]
  <2>1. /\ r.ask = "refresh"
        /\ \/ Become(c, End(r))
           \/ Become(c, Ask(again, again.ask, "none"))
           \/ r.status = "ok" /\ r.pc = "arrived" /\ Become(c, Ask(second, "call", r.tok))
      BY <1>5 DEF RefreshAnswered, ClearsStorage, AskAgain, Forgotten, Resume, At
  <2>2. /\ DOMAIN again = DOMAIN NoCall /\ again.ask = r.ask /\ again.stage = r.stage
      BY <1>1 DEF NoCall
  <2>3. /\ DOMAIN second = DOMAIN NoCall /\ second.stage = "second" /\ second.overtaken = r.overtaken
      BY <1>1 DEF NoCall
  <2> HIDE DEF again, second
  <2>4. CASE Become(c, Ask(again, again.ask, "none"))
    <3>1. Learned(Ask(again, "refresh", "none"), jar.csrf)
        BY <1>1, <2>1, <2>2, AskLearns
    <3> QED
        BY <1>2, <2>1, <2>2, <2>4, <3>1
  <2>5. CASE r.status = "ok" /\ r.pc = "arrived" /\ Become(c, Ask(second, "call", r.tok))
    <3>1. r.overtaken \/ (r.tok = "current" /\ jar.csrf)
        BY <1>1, <2>1, <2>5 DEF Learned, Knows
    <3>2. Learned(Ask(second, "call", r.tok), jar.csrf)
        BY <1>1, <2>3, <3>1, AskLearns
    <3> QED
        BY <1>2, <2>5, <3>2
  <2> QED
      BY <1>3, <2>1, <2>4, <2>5
<1>6. CASE LoginAnswered(c)
  <2>1. r.ask = "login" /\ (Become(c, End(r)) \/ Become(c, Ask(r, "call", r.tok)))
      BY <1>6 DEF LoginAnswered, Fails, Entered
  <2>2. r.stage = "first" /\ ~r.again
      BY <1>1, <2>1 DEF Staged
  <2>3. ~Resent([r EXCEPT !.ask = "call"])
      BY <1>1, <2>2 DEF Resent, NoCall
  <2>4. Learned(Ask(r, "call", r.tok), jar.csrf)
      BY <1>1, <2>2, <2>3, AskLearns
  <2> QED
      BY <1>2, <1>3, <2>1, <2>4
<1>7. CASE LogoutAnswered(c)
    BY <1>3, <1>7 DEF LogoutAnswered, ClearsStorage
<1> QED
    BY <1>4, <1>5, <1>6, <1>7 DEF Resume

LEMMA LostLearns == ASSUME MInv, NEW c \in Calls, Lost(c) PROVE MInv'
<1>1. Become(c, End(call[c])) /\ jar' = jar
    BY DEF Lost, Fails, ClearsStorage
<1> QED
    BY <1>1, EndedLearned, BecomeLearns DEF MInv

LEMMA MatchStep == ASSUME MInv, [Next]_vars PROVE MInv'
<1>1. CASE UNCHANGED vars \/ Expire
  <2>1. call' = call /\ (jar' = jar \/ jar' = [jar EXCEPT !.valid = FALSE])
      BY <1>1 DEF vars, Expire
  <2>2. DOMAIN jar' = DOMAIN NoCookies /\ jar'.csrf = jar.csrf
      BY <2>1 DEF MInv, NoCookies
  <2> QED
      BY <2>1, <2>2 DEF MInv
<1>2. ASSUME NEW c \in Calls,
             \/ BeginLogin(c) \/ BeginLogout(c) \/ BeginCall(c) \/ BeginLoad(c) \/ BeginWithdraw(c)
             \/ TokenAnswered(c) \/ TokenFails(c)
             \/ Handle(c) \/ Arrive(c) \/ Resume(c) \/ Lost(c)
      PROVE  MInv'
    BY <1>2, BeginLearns, TokenLearns, HandleLearns, ArriveLearns, ResumeLearns, LostLearns
<1> QED
    BY <1>1, <1>2 DEF Next

\* A call or a refresh that is sent again, after its csrf token did not match or
\* after a refresh, matches; unless another answer changed the cookie in between.
THEOREM ResendsHaveTheToken == Spec => []ResendsMatch
<1>1. MInv => ResendsMatch
  <2> SUFFICES ASSUME MInv, NEW c \in Calls, At(c, "sent"), Resent(call[c]), ~call[c].overtaken
               PROVE  call[c].seen.csrf
      BY DEF ResendsMatch, Resent
  <2> QED
      BY DEF MInv, Learned, Matches, At
<1> QED
    BY <1>1, MatchInit, MatchStep, PTL DEF Spec

-----------------------------------------------------------------------------
(* TheScreenTellsTheAccount: whose cookies there are, and whose screens.   *)

\* What the user does, under way.
Active(c) == call[c].pc \notin {"idle", "ended"}
Acts(c) == call[c].kind \in ByUser /\ Active(c)

\* A login of which the screen will be told has its cookies.
Entering(c) == /\ call[c].kind = "login" /\ call[c].told
               /\ call[c].pc = "arrived" /\ call[c].status = "ok"
Window(t) == \E c \in Calls : Entering(c) /\ call[c].tab = t

Of(t, u) == screen[t] = None \/ screen[t].user = u
CookieOf(u) == jar.refresh = None \/ jar.refresh.user = u

\* The shape of a record.
Sane(c) ==
    LET r == call[c] IN
    /\ DOMAIN r = DOMAIN NoCall /\ r.tab \in Tabs /\ r.for \in Sessions \cup {None}
    /\ r.seen.refresh \in Sessions \cup {None}
    /\ r.kind = "login" /\ r.pc # "ended" => r.user \in Users
    /\ r.told => r.kind = "login"
    /\ r.kind = "load" /\ r.pc # "idle" => r.for \in Sessions
    /\ r.pc = "idle" => r.ask = "none"
    /\ r.kind = "login" /\ Active(c) => r.ask = "login"
    /\ r.ask = "login" => r.kind \in {"login", "withdraw"} /\ Active(c)
    /\ r.pc = "ended" => r.rows = None /\ r.as = None
    /\ r.ask = "refresh" /\ r.pc \in {"answered", "arrived"} /\ r.status = "ok" => r.seen.refresh # None

\* What the user does is done for one account, his screens' and his cookies'.
Own(c) ==
    LET r == call[c] IN
    /\ r.kind = "login" /\ Active(c) => \A t \in Tabs : Of(t, r.user) \/ (t = r.tab /\ r.told)
    /\ r.kind = "login" /\ r.pc = "arrived" /\ r.status = "ok" => CookieOf(r.user)
    /\ r.kind = "withdraw" /\ Active(c) =>
          r.user \in Users /\ r.rows = r.user /\ CookieOf(r.user) /\ \A t \in Tabs : Of(t, r.user)

\* The session that a login will make is not known before.
New(c) ==
    At(c, "idle") \/ call[c].ask = "login" =>
        \A u \in Users : /\ \A t \in Tabs : screen[t] # [user |-> u, by |-> c]
                         /\ \A d \in Calls : call[d].for # [user |-> u, by |-> c]

\* Whom the server answers for: the user of the screen that asks, unless a login to
\* another account is about to take the screen over.
Rightful(c, a) ==
    LET r == call[c] IN
    /\ r.kind = "withdraw" => a = r.user
    /\ r.kind = "reload" => Of(r.tab, a)
    /\ r.kind = "load" => r.for # screen[r.tab] \/ r.for.user = a \/ Window(r.tab)
Served(c) ==
    LET r == call[c] IN
    /\ r.ask = "call" /\ r.pc = "sent" => r.seen.access = None \/ Rightful(c, r.seen.access)
    /\ r.ask = "call" /\ r.pc = "answered" /\ r.status = "ok" => Rightful(c, r.as)

ShownRight(t) == Loaded(t) => shown[t] = None \/ shown[t] = screen[t].user \/ Window(t)

Kinds ==
    /\ DOMAIN call = Calls /\ DOMAIN jar = DOMAIN NoCookies
    /\ jar.refresh \in Sessions \cup {None} /\ markers \in Users \cup {None}
    /\ screen \in [Tabs -> Sessions \cup {None}] /\ DOMAIN shown = Tabs

\* The access token is of the refresh session's user, and he is the user of the screens.
Cookies ==
    /\ jar.access = None \/ (jar.refresh # None /\ jar.access = jar.refresh.user)
    /\ \A t \in Tabs : screen[t] = None \/ CookieOf(screen[t].user) \/ Window(t)

TInv ==
    /\ Kinds /\ Cookies
    /\ \A c, d \in Calls : Acts(c) /\ Acts(d) => c = d
    /\ \A c \in Calls : Sane(c) /\ Own(c) /\ New(c) /\ Served(c)
    /\ \A t \in Tabs : ShownRight(t)
TellInv == mixed \/ TInv

-----------------------------------------------------------------------------
(* One step of one call.                                                   *)

\* The records of the others keep all but their tokens.
Same(d) ==
    /\ DOMAIN call'[d] = DOMAIN NoCall /\ call'[d].kind = call[d].kind /\ call'[d].tab = call[d].tab
    /\ call'[d].told = call[d].told /\ call'[d].user = call[d].user /\ call'[d].for = call[d].for
    /\ call'[d].rows = call[d].rows /\ call'[d].pc = call[d].pc /\ call'[d].ask = call[d].ask
    /\ call'[d].status = call[d].status /\ call'[d].seen = call[d].seen /\ call'[d].as = call[d].as

\* The screen of the tab is told of the session that c has made.
Enters(c, t) ==
    /\ call[c].ask = "login" /\ call'[c].ask # "login" /\ call'[c].pc # "idle"
    /\ t = call[c].tab /\ \E u \in Users : screen'[t] = [user |-> u, by |-> c]
Screens(c) == \A t \in Tabs : screen'[t] \in {screen[t], None} \/ Enters(c, t)

\* What is shown after the step, if a load of the session has ended.
Shown(c) ==
    \A t \in Tabs :
        \/ shown'[t] = None \/ screen'[t] = None \/ shown'[t] = screen'[t].user \/ Window(t)'
        \/ /\ shown'[t] = shown[t]
           /\ call'[c].kind = "load" /\ call'[c].pc = "ended" /\ call'[c].tab = t
                 => call'[c].for # screen'[t]

Moved(c) ==
    /\ DOMAIN call' = Calls /\ \A d \in Calls \ {c} : Same(d)
    /\ call'[c].tab = call[c].tab
    /\ call'[c].for \in {call[c].for, None} \cup {screen[t] : t \in Tabs}
    /\ (At(c, "idle") \/ call[c].ask = "login")' => At(c, "idle") \/ call[c].ask = "login"
    /\ Acts(c)' => Acts(c) \/ ~Busy
    /\ Entering(c) => Entering(c)' \/ Enters(c, call[c].tab)

LEMMA WindowStays ==
    ASSUME TInv, NEW c \in Calls, Moved(c), NEW t \in Tabs, Window(t), ~Enters(c, t) PROVE Window(t)'
<1>1. PICK d \in Calls : Entering(d) /\ call[d].tab = t
    BY DEF Window
<1>2. CASE d = c
    BY <1>1, <1>2 DEF Moved, Window
<1>3. CASE d # c
  <2>1. Same(d)
      BY <1>3 DEF Moved
  <2> QED
      BY <1>1, <2>1 DEF Same, Entering, Window
<1> QED
    BY <1>2, <1>3

LEMMA OthersStay ==
    ASSUME TInv, NEW c \in Calls, Moved(c), Kinds', Screens(c),
           jar'.refresh \in {jar.refresh, None} \/ Acts(c), NEW d \in Calls, d # c
    PROVE  Sane(d)' /\ Own(d)' /\ Served(d)'
<1>1. Same(d) /\ Sane(d) /\ Own(d) /\ New(c) /\ Served(d)
    BY DEF Moved, TInv
<1>2. (Active(d)' <=> Active(d)) /\ (Acts(d)' <=> Acts(d))
    BY <1>1 DEF Same, Active, Acts
<1>3. Sane(d)'
    BY <1>1, <1>2 DEF Same, Sane
<1>4. Acts(d) => ~Acts(c)
    BY DEF TInv
<1>5. call[c].ask = "login" => Acts(c)
    BY DEF TInv, Sane, Acts, ByUser
<1>6. Acts(d) => (\A t \in Tabs : screen'[t] \in {screen[t], None}) /\ jar'.refresh \in {jar.refresh, None}
    BY <1>4, <1>5 DEF Screens, Enters
<1>7. Acts(d) => \A u : (CookieOf(u) => CookieOf(u)') /\ \A t \in Tabs : Of(t, u) => Of(t, u)'
    BY <1>6 DEF CookieOf, Of
<1>8. Own(d)'
  <2>1. (call[d].kind = "login" \/ call[d].kind = "withdraw") /\ Active(d) => Acts(d)
      BY DEF Acts, ByUser
  <2>2. call[d].kind = "login" /\ call[d].pc = "arrived" => Acts(d)
      BY DEF Acts, ByUser, Active
  <2>3. Acts(d) => Own(d)'
      BY <1>1, <1>2, <1>7 DEF Own, Same
  <2>4. ~Acts(d) => Own(d)'
      BY <1>1, <1>2, <2>1, <2>2 DEF Own, Same
  <2> QED
      BY <2>3, <2>4
<1>9. ASSUME NEW a, Rightful(d, a), call[d].pc \in {"sent", "answered"} PROVE Rightful(d, a)'
  <2>0. PICK t \in Tabs : t = call[d].tab
      BY <1>1 DEF Sane
  <2>1. call[d].kind = "reload" => Of(t, a)'
    <3>1. call[d].kind = "reload" => Acts(d)
        BY <1>9 DEF Acts, ByUser, Active
    <3> QED
        BY <1>7, <1>9, <2>0, <3>1 DEF Rightful
  <2>2. ASSUME call[d].kind = "load"
        PROVE  call[d].for # screen'[t] \/ call[d].for.user = a \/ Window(t)'
    <3>1. call[d].for \in Sessions /\ call[d].for # None
        BY <1>1, <1>9, <2>2, NoneAssumption DEF Sane
    <3>2. CASE Enters(c, t)
        BY <1>1, <3>1, <3>2 DEF Enters, New
    <3>3. CASE ~Enters(c, t) /\ screen'[t] = screen[t]
      <4>1. Window(t) => Window(t)'
          BY <3>3, WindowStays
      <4> QED
          BY <1>9, <2>0, <2>2, <3>3, <4>1 DEF Rightful
    <3>4. CASE screen'[t] = None
        BY <3>1, <3>4
    <3> QED
        BY <3>2, <3>3, <3>4 DEF Screens
  <2>3. call'[d].kind = call[d].kind /\ call'[d].tab = t /\ call'[d].for = call[d].for /\ call'[d].user = call[d].user
      BY <1>1, <2>0 DEF Same
  <2> QED
      BY <1>9, <2>1, <2>2, <2>3 DEF Rightful
<1>10. Served(d)'
    BY <1>1, <1>9 DEF Served, Same
<1> QED
    BY <1>3, <1>8, <1>10

LEMMA NewStays ==
    ASSUME TInv, NEW c \in Calls, Moved(c), Screens(c), NEW d \in Calls PROVE New(d)'
<1> SUFFICES ASSUME (At(d, "idle") \/ call[d].ask = "login")', NEW u \in Users
             PROVE  /\ \A t \in Tabs : screen'[t] # [user |-> u, by |-> d]
                    /\ \A e \in Calls : call'[e].for # [user |-> u, by |-> d]
    BY DEF New
<1> DEFINE s == [user |-> u, by |-> d]
<1>1. s \in Sessions /\ s # None
    BY NoneAssumption DEF Sessions
<1>2. At(d, "idle") \/ call[d].ask = "login"
    BY DEF Moved, Same, At
<1>3. (\A t \in Tabs : screen[t] # s) /\ \A e \in Calls : call[e].for # s
    BY <1>2 DEF TInv, New
<1>4. ASSUME NEW t \in Tabs PROVE screen'[t] # s
  <2>1. CASE Enters(c, t)
    <3>1. d # c
        BY <2>1 DEF Enters, At
    <3> QED
        BY <2>1, <3>1 DEF Enters
  <2> QED
      BY <1>1, <1>3, <2>1 DEF Screens
<1>5. ASSUME NEW e \in Calls PROVE call'[e].for # s
    BY <1>1, <1>3 DEF Moved, Same
<1> QED
    BY <1>4, <1>5

LEMMA ShownStays ==
    ASSUME TInv, NEW c \in Calls, Moved(c), Screens(c), Shown(c), \A d \in Calls : Sane(d)', NEW t \in Tabs
    PROVE  ShownRight(t)'
<1> SUFFICES ASSUME Loaded(t)', ~Window(t)' PROVE shown'[t] = None \/ shown'[t] = screen'[t].user
    BY DEF ShownRight
<1>1. PICK d \in Calls : Loads(d, t)' /\ At(d, "ended")'
    BY DEF Loaded
<1>2. /\ call'[d].kind = "load" /\ call'[d].tab = t /\ call'[d].pc = "ended"
      /\ call'[d].for = screen'[t] /\ call'[d].for \in Sessions
    BY <1>1 DEF Loads, At, Sane
<1>3. screen'[t] # None
    BY <1>2, NoneAssumption
<1>4. CASE shown'[t] = shown[t] /\ d # c
  <2>1. Same(d)
      BY <1>4 DEF Moved
  <2>2. call[d].kind = "load" /\ call[d].tab = t /\ call[d].pc = "ended" /\ call[d].for = screen'[t]
      BY <1>2, <2>1 DEF Same
  <2>3. ~Enters(c, t)
      BY <2>2 DEF TInv, New, Enters
  <2>4. screen'[t] = screen[t]
      BY <1>3, <2>3 DEF Screens
  <2>5. Loaded(t)
      BY <2>2, <2>4 DEF Loaded, Loads, At
  <2>6. ~Window(t)
      BY <2>3, WindowStays
  <2> QED
      BY <1>4, <2>4, <2>5, <2>6 DEF TInv, ShownRight
<1> QED
    BY <1>2, <1>3, <1>4 DEF Shown

LEMMA TellsStep ==
    ASSUME TInv, NEW c \in Calls, Moved(c), Screens(c), Shown(c), Kinds', Cookies',
           jar'.refresh \in {jar.refresh, None} \/ Acts(c), Sane(c)', Own(c)', Served(c)'
    PROVE  TInv'
<1>1. ASSUME NEW d \in Calls PROVE Sane(d)' /\ Own(d)' /\ Served(d)'
    BY OthersStay
<1>2. \A d \in Calls : New(d)'
    BY NewStays
<1>3. \A t \in Tabs : ShownRight(t)'
    BY <1>1, ShownStays
<1>4. ASSUME NEW d \in Calls, NEW e \in Calls, Acts(d)', Acts(e)' PROVE d = e
  <2>1. \A f \in Calls \ {c} : Acts(f)' <=> Acts(f)
      BY DEF Moved, Same, Acts, Active
  <2>2. Busy <=> \E f \in Calls : Acts(f)
      BY DEF Busy, Acts, Active
  <2> QED
      BY <1>4, <2>1, <2>2 DEF Moved, TInv
<1> QED
    BY <1>1, <1>2, <1>3, <1>4 DEF TInv

\* The cookies and the screens as they are, or a screen less.
LEMMA CookiesStay ==
    ASSUME TInv, NEW c \in Calls, Moved(c), jar'.refresh = jar.refresh, jar'.access = jar.access,
           \A t \in Tabs : screen'[t] \in {screen[t], None} /\ ~Enters(c, t)
    PROVE  Cookies'
<1>1. jar'.access = None \/ (jar'.refresh # None /\ jar'.access = jar'.refresh.user)
    BY DEF TInv, Cookies
<1>2. ASSUME NEW t \in Tabs, screen'[t] # None
      PROVE  jar'.refresh = None \/ jar'.refresh.user = screen'[t].user \/ Window(t)'
  <2>1. screen'[t] = screen[t] /\ (CookieOf(screen[t].user) \/ Window(t))
      BY <1>2 DEF TInv, Cookies
  <2>2. Window(t) => Window(t)'
      BY WindowStays
  <2> QED
      BY <2>1, <2>2 DEF CookieOf
<1> QED
    BY <1>1, <1>2 DEF Cookies, CookieOf

\* The access token that a request takes along.
LEMMA AccessIsRightful ==
    ASSUME TInv, jar.access # None
    PROVE  /\ jar.refresh # None /\ jar.access = jar.refresh.user
           /\ \A t \in Tabs : Of(t, jar.access) \/ Window(t)
BY DEF TInv, Cookies, CookieOf, Of

LEMMA NoWindow ==
    ASSUME TInv, NEW c \in Calls, Acts(c), call[c].kind # "login", NEW t PROVE ~Window(t)
<1>1. \A d \in Calls : Entering(d) => Acts(d) /\ call[d].kind = "login"
    BY DEF Entering, Acts, ByUser, Active
<1> QED
    BY <1>1 DEF TInv, Window

-----------------------------------------------------------------------------
(* The records.                                                            *)

\* What a request has of the record it was made from.
Asked(r, q, ask) ==
    /\ DOMAIN q = DOMAIN NoCall /\ q.kind = r.kind /\ q.tab = r.tab /\ q.told = r.told
    /\ q.user = r.user /\ q.for = r.for /\ q.rows = r.rows /\ q.as = r.as /\ q.ask = ask
    /\ \/ q.pc = "fetching" /\ q.seen = r.seen
       \/ q.pc = "sent" /\ q.seen.access = jar.access /\ q.seen.refresh = jar.refresh

LEMMA AskAsks ==
    ASSUME NEW r, DOMAIN r = DOMAIN NoCall, DOMAIN jar = DOMAIN NoCookies, NEW ask, NEW stored
    PROVE  Asked(r, Ask(r, ask, stored), ask)
<1> DEFINE q == [r EXCEPT !.ask = ask]
           tok == IF jar.csrf THEN "current" ELSE "new"
           asking == [q EXCEPT !.pc = "fetching", !.overtaken = FALSE, !.tok = tok]
           match == Stored(stored) = "current"
           sent == Sent(q, match)
<1>1. /\ DOMAIN q = DOMAIN NoCall /\ q.kind = r.kind /\ q.tab = r.tab /\ q.told = r.told
      /\ q.user = r.user /\ q.for = r.for /\ q.rows = r.rows /\ q.as = r.as /\ q.ask = ask
      /\ q.seen = r.seen
    BY DEF NoCall
<1>2. Ask(r, ask, stored) \in {asking, sent}
    BY DEF Ask
<1> HIDE DEF q, tok, match
<1>3. Asked(r, asking, ask)
    BY <1>1 DEF Asked, NoCall
<1>4. Asked(r, sent, ask)
    BY <1>1 DEF Asked, Sent, NoCall, NoCookies
<1> HIDE DEF asking, sent
<1> QED
    BY <1>2, <1>3, <1>4

Ended(r, q) ==
    /\ DOMAIN q = DOMAIN NoCall /\ q.kind = r.kind /\ q.tab = r.tab /\ q.for = r.for
    /\ q.told = FALSE /\ q.user = None /\ q.rows = None /\ q.as = None /\ q.ask = "none"
    /\ q.pc = "ended" /\ q.status = "none" /\ q.seen.refresh = None

LEMMA EndEnds == ASSUME NEW r PROVE Ended(r, End(r))
BY DEF Ended, End, NoCall, NoCookies

-----------------------------------------------------------------------------
(* The steps.                                                              *)

LEMMA BecomeMoves ==
    ASSUME TInv, NEW c \in Calls, NEW q, Become(c, q)
    PROVE  DOMAIN call' = Calls /\ call'[c] = q /\ \A d \in Calls \ {c} : Same(d)
<1>1. call' = [call EXCEPT ![c] = q] /\ DOMAIN call = Calls
    BY DEF Become, TInv, Kinds
<1>2. DOMAIN call' = Calls /\ call'[c] = q /\ \A d \in Calls \ {c} : call'[d] = call[d]
    BY <1>1
<1>3. \A d \in Calls : DOMAIN call[d] = DOMAIN NoCall
    BY DEF TInv, Sane
<1> QED
    BY <1>2, <1>3 DEF Same

LEMMA OutdatedRecord ==
    ASSUME NEW r, NEW q, NEW tok, NEW overtaken, DOMAIN r = DOMAIN NoCall,
           q = [r EXCEPT !.tok = tok, !.overtaken = overtaken]
    PROVE  /\ DOMAIN q = DOMAIN NoCall /\ q.kind = r.kind /\ q.tab = r.tab /\ q.told = r.told
           /\ q.user = r.user /\ q.for = r.for /\ q.rows = r.rows /\ q.pc = r.pc /\ q.ask = r.ask
           /\ q.status = r.status /\ q.seen = r.seen /\ q.as = r.as
BY DEF NoCall

LEMMA OutdateMoves ==
    ASSUME TInv, NEW c \in Calls, NEW q, NEW changed,
           call' = [(IF changed THEN OutdateCalls(call) ELSE call) EXCEPT ![c] = q]
    PROVE  DOMAIN call' = Calls /\ call'[c] = q /\ \A d \in Calls \ {c} : Same(d)
<1> DEFINE calls == IF changed THEN OutdateCalls(call) ELSE call
<1>1. DOMAIN calls = Calls
    BY DEF TInv, Kinds, OutdateCalls
<1>2. call' = [calls EXCEPT ![c] = q]
    OBVIOUS
<1>3. ASSUME NEW d \in Calls, changed
      PROVE  calls[d] = [call[d] EXCEPT !.tok = Outdated(call[d].tok),
                            !.overtaken = (call[d].overtaken \/ call[d].pc \in {"fetching", "arrived"})]
    BY <1>3 DEF OutdateCalls
<1>4. ~changed => calls = call
    OBVIOUS
<1> HIDE DEF calls
<1>5. DOMAIN call' = Calls /\ call'[c] = q /\ \A d \in Calls \ {c} : call'[d] = calls[d]
    BY <1>1, <1>2
<1>6. ASSUME NEW d \in Calls \ {c} PROVE Same(d)
  <2>1. DOMAIN call[d] = DOMAIN NoCall
      BY DEF TInv, Sane
  <2>2. CASE ~changed
      BY <1>4, <1>5, <2>1, <2>2 DEF Same
  <2>3. CASE changed
    <3> DEFINE tok == Outdated(call[d].tok)
               overtaken == call[d].overtaken \/ call[d].pc \in {"fetching", "arrived"}
    <3>1. call'[d] = [call[d] EXCEPT !.tok = tok, !.overtaken = overtaken]
        BY <1>3, <1>5, <2>3
    <3> HIDE DEF tok, overtaken
    <3>2. PICK r, p : r = call[d] /\ p = call'[d]
        OBVIOUS
    <3>3. p = [r EXCEPT !.tok = tok, !.overtaken = overtaken] /\ DOMAIN r = DOMAIN NoCall
        BY <2>1, <3>1, <3>2
    <3>4. /\ DOMAIN p = DOMAIN NoCall /\ p.kind = r.kind /\ p.tab = r.tab /\ p.told = r.told
          /\ p.user = r.user /\ p.for = r.for /\ p.rows = r.rows /\ p.pc = r.pc /\ p.ask = r.ask
          /\ p.status = r.status /\ p.seen = r.seen /\ p.as = r.as
        BY <3>3, OutdatedRecord
    <3> QED
        BY <3>2, <3>4 DEF Same
  <2> QED
      BY <2>2, <2>3
<1> QED
    BY <1>5, <1>6

\* A call has no screen told of it but at the end of its login.
LEMMA NoEntry ==
    ASSUME TInv, NEW c \in Calls, NEW t \in Tabs, screen'[t] \in {screen[t], None} PROVE ~Enters(c, t)
<1> SUFFICES ASSUME Enters(c, t) PROVE FALSE
    OBVIOUS
<1>1. PICK u \in Users : screen'[t] = [user |-> u, by |-> c]
    BY DEF Enters
<1>2. [user |-> u, by |-> c] # None
    BY NoneAssumption DEF Sessions
<1>3. screen[t] # [user |-> u, by |-> c]
    BY DEF TInv, New, Enters
<1> QED
    BY <1>1, <1>2, <1>3

\* A request is made, or made again.
LEMMA AskTells ==
    ASSUME TInv, NEW c \in Calls, NEW r, NEW q, NEW ask, Asked(r, q, ask),
           DOMAIN call' = Calls, call'[c] = q, \A d \in Calls \ {c} : Same(d),
           DOMAIN jar' = DOMAIN NoCookies, jar'.access = jar.access, jar'.refresh = jar.refresh,
           screen' = screen, shown' = shown, markers' \in Users \cup {None},
           r.tab = call[c].tab, r.for \in {call[c].for, None} \cup {screen[t] : t \in Tabs},
           ask = "login" => At(c, "idle") \/ call[c].ask = "login",
           ask = "login" => r.kind \in {"login", "withdraw"},
           r.kind \in ByUser => Acts(c) \/ ~Busy, ~Entering(c),
           r.seen.refresh \in Sessions \cup {None}, r.told => r.kind = "login",
           r.kind = "login" => /\ ask = "login" /\ r.user \in Users
                               /\ \A t \in Tabs : Of(t, r.user) \/ (t = r.tab /\ r.told),
           r.kind = "load" => r.for \in Sessions,
           r.kind = "withdraw" => /\ r.user \in Users /\ r.rows = r.user /\ CookieOf(r.user)
                                  /\ \A t \in Tabs : Of(t, r.user),
           r.kind = "reload" => ~Window(r.tab)
    PROVE  TInv'
<1>1. Moved(c)
    BY DEF Asked, Moved, At, Acts
<1>2. \A t \in Tabs : ~Enters(c, t)
    BY NoEntry
<1>3. Screens(c) /\ Shown(c)
    BY DEF Screens, Shown, Asked
<1>4. Kinds'
    BY DEF TInv, Kinds
<1>5. Cookies'
    BY <1>1, <1>2, CookiesStay
<1>6. Sane(c) /\ Sane(c)'
  <2>1. Sane(c) /\ jar.refresh \in Sessions \cup {None}
      BY DEF TInv, Kinds
  <2>2. q.for \in Sessions \cup {None} /\ q.tab \in Tabs
      BY <2>1 DEF Asked, Sane, TInv, Kinds
  <2>3. q.seen.refresh \in Sessions \cup {None}
      BY <2>1 DEF Asked
  <2>4. q.pc \in {"fetching", "sent"}
      BY DEF Asked
  <2> QED
      BY <2>1, <2>2, <2>3, <2>4 DEF Asked, Sane, Active
<1>7. Own(c)'
  <2>1. \A u : CookieOf(u) => CookieOf(u)'
      BY DEF CookieOf
  <2>2. \A u : \A t \in Tabs : Of(t, u) => Of(t, u)'
      BY DEF Of
  <2> QED
      BY <2>1, <2>2 DEF Asked, Own
<1>8. Served(c)'
  <2> SUFFICES ASSUME ask = "call", q.pc = "sent", jar.access # None PROVE Rightful(c, jar.access)'
      BY DEF Served, Asked
  <2>0. PICK t \in Tabs : t = r.tab
      BY <1>6 DEF Sane
  <2>1. jar.refresh # None /\ jar.access = jar.refresh.user /\ (Of(t, jar.access) \/ Window(t))
      BY AccessIsRightful
  <2>2. Window(t) => Window(t)'
      BY <1>1, <1>2, WindowStays
  <2>3. q.kind = r.kind /\ q.tab = t /\ q.for = r.for /\ q.user = r.user
      BY <2>0 DEF Asked
  <2>4. r.kind = "withdraw" => jar.access = r.user
      BY <2>1 DEF CookieOf
  <2>5. r.kind = "reload" => Of(t, jar.access)'
      BY <2>0, <2>1 DEF Of
  <2>6. r.kind = "load" => r.for # screen'[t] \/ r.for.user = jar.access \/ Window(t)'
    <3>1. r.kind = "load" => r.for # None
        BY NoneAssumption
    <3> QED
        BY <2>1, <2>2, <3>1 DEF Of
  <2> QED
      BY <2>3, <2>4, <2>5, <2>6 DEF Rightful
<1> QED
    BY <1>1, <1>3, <1>4, <1>5, <1>6, <1>7, <1>8, TellsStep

\* A call ends, and perhaps the session of its tab with it.
LEMMA EndTells ==
    ASSUME TInv, NEW c \in Calls, Become(c, End(call[c])), Active(c), ~Entering(c), jar' = jar,
           markers' \in Users \cup {None}, screen' \in [Tabs -> Sessions \cup {None}],
           \A t \in Tabs : screen'[t] \in {screen[t], None}, DOMAIN shown' = Tabs, Shown(c)
    PROVE  TInv'
<1>0. PICK q : q = End(call[c])
    OBVIOUS
<1>1. /\ DOMAIN call' = Calls /\ call'[c] = q /\ \A d \in Calls \ {c} : Same(d)
      /\ Ended(call[c], q)
    BY <1>0, BecomeMoves, EndEnds
<1>2. Moved(c)
    BY <1>1 DEF Moved, Ended, At, Acts, Active
<1>3. \A t \in Tabs : ~Enters(c, t)
    BY NoEntry
<1>4. Screens(c) /\ Kinds'
    BY <1>1 DEF Screens, TInv, Kinds
<1>5. Cookies'
    BY <1>2, <1>3, CookiesStay
<1>6. Sane(c)'
  <2>1. Sane(c)
      BY DEF TInv
  <2> QED
      BY <1>1, <2>1 DEF Ended, Sane, Active
<1>7. Own(c)' /\ Served(c)'
    BY <1>1 DEF Ended, Own, Served, Active
<1> QED
    BY <1>2, <1>4, <1>5, <1>6, <1>7, TellsStep
\* A call of these that begins is of the tab, for the user, and is asked for.
LEMMA StartTells ==
    ASSUME TInv, NEW c \in Calls, NEW kind, Begin(c, kind), NEW r, NEW ask, Start(c, r, ask),
           DOMAIN r = DOMAIN NoCall, r.kind = kind, r.tab = call[c].tab, r.told = call[c].told,
           r.seen = call[c].seen, r.for \in {call[c].for} \cup {screen[t] : t \in Tabs},
           kind \in ByUser => ~Busy, kind # "reload", ask = "login" => kind \in {"login", "withdraw"},
           kind = "login" => /\ ask = "login" /\ r.user \in Users
                             /\ \A t \in Tabs : Of(t, r.user) \/ (t = r.tab /\ r.told),
           kind = "load" => r.for \in Sessions,
           kind = "withdraw" => /\ r.user \in Users /\ r.rows = r.user /\ CookieOf(r.user)
                                /\ \A t \in Tabs : Of(t, r.user)
    PROVE  TInv'
<1>0. PICK q : q = Ask(r, ask, token[r.tab])
    OBVIOUS
<1>1. /\ DOMAIN call' = Calls /\ call'[c] = q /\ \A d \in Calls \ {c} : Same(d)
      /\ Asked(r, q, ask)
  <2>1. DOMAIN jar = DOMAIN NoCookies
      BY DEF TInv, Kinds
  <2>2. Asked(r, q, ask)
      BY <1>0, <2>1, AskAsks
  <2>3. Become(c, q)
      BY <1>0 DEF Start
  <2> QED
      BY <2>2, <2>3, BecomeMoves
<1>2. /\ call[c].pc = "idle" /\ call[c].kind = kind /\ Sane(c)
      /\ jar' = jar /\ markers' = markers /\ screen' = screen /\ shown' = shown
    BY DEF Begin, At, TInv
<1>3. DOMAIN jar' = DOMAIN NoCookies /\ markers' \in Users \cup {None}
    BY <1>2 DEF TInv, Kinds
<1>4. ~Entering(c) /\ At(c, "idle")
    BY <1>2 DEF Entering, At
<1>5. r.seen.refresh \in Sessions \cup {None} /\ (r.told => r.kind = "login")
    BY <1>2 DEF Sane
<1> QED
    BY <1>1, <1>2, <1>3, <1>4, <1>5, AskTells

LEMMA BeginTells ==
    ASSUME TInv, ~mixed', NEW c \in Calls,
           BeginLogin(c) \/ BeginLogout(c) \/ BeginCall(c) \/ BeginLoad(c) \/ BeginWithdraw(c)
    PROVE  TInv'
<1>1. PICK r : r = call[c]
    OBVIOUS
<1>2. Sane(c) /\ DOMAIN r = DOMAIN NoCall /\ r.tab \in Tabs
    BY <1>1 DEF TInv, Sane
<1>3. CASE BeginLogin(c)
  <2>1. Begin(c, "login") /\ Start(c, r, "login") /\ ~Mixes(r.tab, r.user, r.told)
      BY <1>1, <1>3 DEF BeginLogin
  <2>2. r.kind = "login" /\ r.user \in Users
      BY <1>1, <1>2, <2>1 DEF Begin, At, Sane
  <2>3. ~Busy /\ \A t \in Tabs : Of(t, r.user) \/ (t = r.tab /\ r.told)
      BY <2>1 DEF Mixes, Of
  <2> QED
      BY <1>1, <1>2, <2>1, <2>2, <2>3, StartTells
<1>4. CASE BeginLogout(c)
  <2>1. Begin(c, "logout") /\ Start(c, r, "logout") /\ ~Busy /\ r.kind = "logout"
      BY <1>1, <1>4 DEF BeginLogout, Begin
  <2> QED
      BY <1>1, <1>2, <2>1, StartTells
<1>5. CASE BeginCall(c)
  <2>1. PICK unsafe : Start(c, [r EXCEPT !.unsafe = unsafe], "call")
      BY <1>1, <1>5 DEF BeginCall
  <2>2. PICK q : q = [r EXCEPT !.unsafe = unsafe]
      OBVIOUS
  <2>3. Begin(c, "call") /\ r.kind = "call"
      BY <1>1, <1>5 DEF BeginCall, Begin
  <2>4. /\ DOMAIN q = DOMAIN NoCall /\ q.kind = "call" /\ q.tab = r.tab /\ q.told = r.told
        /\ q.seen = r.seen /\ q.for = r.for
      BY <1>2, <2>2, <2>3 DEF NoCall
  <2>5. Start(c, q, "call")
      BY <2>1, <2>2
  <2> QED
      BY <1>1, <2>3, <2>4, <2>5, StartTells DEF ByUser
<1>6. CASE BeginLoad(c)
  <2>1. PICK t \in Tabs : t = r.tab
      BY <1>2
  <2>2. PICK q : q = [r EXCEPT !.for = screen[t]]
      OBVIOUS
  <2>3. Begin(c, "load") /\ r.kind = "load" /\ screen[t] # None /\ Start(c, q, "call")
      BY <1>1, <1>6, <2>1, <2>2 DEF BeginLoad, Begin
  <2>4. /\ DOMAIN q = DOMAIN NoCall /\ q.kind = "load" /\ q.tab = r.tab /\ q.told = r.told
        /\ q.seen = r.seen /\ q.for = screen[t]
      BY <1>2, <2>2, <2>3 DEF NoCall
  <2>5. screen[t] \in Sessions
      BY <2>3 DEF TInv, Kinds
  <2> QED
      BY <1>1, <2>3, <2>4, <2>5, StartTells DEF ByUser
<1>7. CASE BeginWithdraw(c)
  <2>1. PICK t \in Tabs : t = r.tab
      BY <1>2
  <2>2. PICK q : q = [r EXCEPT !.user = markers, !.unsafe = TRUE, !.rows = shown[t]]
      OBVIOUS
  <2>3. /\ Begin(c, "withdraw") /\ r.kind = "withdraw" /\ LoggedIn /\ screen[t] # None
        /\ shown[t] # None /\ Start(c, q, "login") /\ ~Mixes(t, markers, FALSE) /\ Loaded(t)
      BY <1>1, <1>7, <2>1, <2>2 DEF BeginWithdraw, Begin
  <2>4. /\ DOMAIN q = DOMAIN NoCall /\ q.kind = "withdraw" /\ q.tab = r.tab /\ q.told = r.told
        /\ q.seen = r.seen /\ q.for = r.for /\ q.user = markers /\ q.rows = shown[t]
      BY <1>2, <2>2, <2>3 DEF NoCall
  <2>5. ~Busy /\ \A o \in Tabs : Of(o, markers)
      BY <2>3 DEF Mixes, Of
  <2>6. ~Window(t)
      BY <2>5 DEF Window, Entering, Busy, ByUser
  <2>7. shown[t] = markers
      BY <2>3, <2>5, <2>6 DEF TInv, ShownRight, Of
  <2>8. CookieOf(markers)
      BY <2>3, <2>5, <2>6 DEF TInv, Cookies, Of
  <2>9. markers \in Users
      BY <2>3 DEF TInv, Kinds, LoggedIn
  <2> QED
      BY <1>1, <2>3, <2>4, <2>5, <2>7, <2>8, <2>9, StartTells
<1> QED
    BY <1>3, <1>4, <1>5, <1>6, <1>7
\* A call that is under way asks for something, or asks again.
LEMMA AgainTells ==
    ASSUME TInv, NEW c \in Calls, Active(c), ~Entering(c), NEW r, NEW q, NEW ask, Asked(r, q, ask),
           DOMAIN call' = Calls, call'[c] = q, \A d \in Calls \ {c} : Same(d),
           DOMAIN jar' = DOMAIN NoCookies, jar'.access = jar.access, jar'.refresh = jar.refresh,
           screen' = screen, shown' = shown, markers' \in Users \cup {None},
           r.kind = call[c].kind, r.tab = call[c].tab, r.told = call[c].told, r.user = call[c].user,
           r.rows = call[c].rows, r.for = call[c].for, r.seen = call[c].seen,
           ask = "login" => call[c].ask = "login", call[c].kind = "login" => ask = "login"
    PROVE  TInv'
<1>1. Sane(c) /\ Own(c) /\ call[c].pc \notin {"idle", "ended"}
    BY DEF TInv, Active
<1>2. PICK t \in Tabs : t = call[c].tab
    BY <1>1 DEF Sane
<1>3. /\ r.seen.refresh \in Sessions \cup {None} /\ (r.told => r.kind = "login")
      /\ (ask = "login" => r.kind \in {"login", "withdraw"})
      /\ (r.kind = "load" => r.for \in Sessions)
    BY <1>1 DEF Sane
<1>4. r.kind = "login" => /\ ask = "login" /\ r.user \in Users
                          /\ \A o \in Tabs : Of(o, r.user) \/ (o = r.tab /\ r.told)
    BY <1>1 DEF Sane, Own, Active
<1>5. r.kind = "withdraw" => /\ r.user \in Users /\ r.rows = r.user /\ CookieOf(r.user)
                             /\ \A o \in Tabs : Of(o, r.user)
    BY <1>1 DEF Own, Active
<1>6. r.kind \in ByUser => Acts(c)
    BY DEF Acts
<1>7. r.kind = "reload" => ~Window(r.tab)
    BY <1>6, NoWindow DEF ByUser
<1> QED
    BY <1>3, <1>4, <1>5, <1>6, <1>7, AskTells

LEMMA TokenTells ==
    ASSUME TInv, NEW c \in Calls, TokenAnswered(c) \/ TokenFails(c) PROVE TInv'
<1>0. PICK r : r = call[c]
    OBVIOUS
<1>1. /\ Sane(c) /\ DOMAIN r = DOMAIN NoCall /\ DOMAIN jar = DOMAIN NoCookies
      /\ markers \in Users \cup {None}
    BY <1>0 DEF TInv, Sane, Kinds
<1>2. /\ r.pc = "fetching" /\ markers' = markers /\ screen' = screen /\ shown' = shown
      /\ Active(c) /\ ~Entering(c)
    BY <1>0 DEF TokenAnswered, TokenFails, At, Active, Entering
<1>3. r.kind = "login" => r.ask = "login"
    BY <1>0, <1>1, <1>2 DEF Sane
<1>4. CASE TokenAnswered(c)
  <2> DEFINE new == r.tok = "new"
  <2>1. PICK jar1 : jar1 = [jar EXCEPT !.csrf = jar.csrf \/ new]
      OBVIOUS
  <2>2. jar' = jar1
      BY <1>0, <1>4, <2>1 DEF TokenAnswered
  <2>3. DOMAIN jar1 = DOMAIN NoCookies /\ jar1.access = jar.access /\ jar1.refresh = jar.refresh
      BY <1>1, <2>1 DEF NoCookies
  <2>4. PICK seen : seen = [jar1 EXCEPT !.csrf = new \/ (jar1.csrf /\ r.tok = "current")]
      OBVIOUS
  <2>5. PICK q : q = [r EXCEPT !.pc = "sent", !.tok = "none", !.status = "none", !.seen = seen]
      OBVIOUS
  <2>6. call' = [(IF new THEN OutdateCalls(call) ELSE call) EXCEPT ![c] = q]
      BY <1>0, <1>4, <2>2, <2>4, <2>5 DEF TokenAnswered
  <2>7. seen.access = jar.access /\ seen.refresh = jar.refresh
      BY <2>3, <2>4 DEF NoCookies
  <2>8. Asked(r, q, r.ask)
      BY <1>1, <2>5, <2>7 DEF Asked, NoCall
  <2> HIDE DEF new
  <2>9. DOMAIN call' = Calls /\ call'[c] = q /\ \A d \in Calls \ {c} : Same(d)
      BY <2>6, OutdateMoves
  <2> QED
      BY <1>0, <1>1, <1>2, <1>3, <2>2, <2>3, <2>8, <2>9, AgainTells
<1>5. CASE TokenFails(c)
  <2>1. PICK p : p = Sent(r, FALSE)
      OBVIOUS
  <2>2. PICK q : q = [p EXCEPT !.overtaken = TRUE]
      OBVIOUS
  <2>3. /\ DOMAIN p = DOMAIN NoCall /\ p.kind = r.kind /\ p.tab = r.tab /\ p.told = r.told
        /\ p.user = r.user /\ p.for = r.for /\ p.rows = r.rows /\ p.as = r.as /\ p.ask = r.ask
        /\ p.pc = "sent" /\ p.seen.access = jar.access /\ p.seen.refresh = jar.refresh
      BY <1>1, <2>1 DEF Sent, NoCall, NoCookies
  <2>4. Asked(r, q, r.ask)
      BY <2>2, <2>3 DEF Asked, NoCall
  <2>5. Become(c, q) /\ jar' = jar
      BY <1>0, <1>5, <2>1, <2>2 DEF TokenFails
  <2>6. DOMAIN call' = Calls /\ call'[c] = q /\ \A d \in Calls \ {c} : Same(d)
      BY <2>5, BecomeMoves
  <2> QED
      BY <1>0, <1>1, <1>2, <1>3, <2>4, <2>5, <2>6, AgainTells
<1> QED
    BY <1>4, <1>5
\* What the answer to a request has of the request.
Answered(r, q) ==
    /\ DOMAIN q = DOMAIN NoCall /\ q.kind = r.kind /\ q.tab = r.tab /\ q.told = r.told
    /\ q.user = r.user /\ q.for = r.for /\ q.rows = r.rows /\ q.ask = r.ask
    /\ q.pc = "answered" /\ q.seen.refresh \in {r.seen.refresh, None}
    /\ r.ask = "refresh" /\ q.status = "ok" => q.seen.refresh # None
    /\ r.ask = "call" /\ q.status = "ok" => q.as = r.seen.access /\ r.seen.access # None

LEMMA AnswerAnswers ==
    ASSUME NEW r, DOMAIN r = DOMAIN NoCall, NEW status, r.ask = "call" => status # "ok",
           r.ask = "refresh" /\ status = "ok" => r.seen.refresh # None
    PROVE  Answered(r, Answer(r, status))
<1>1. PICK seen : seen = IF r.ask = "refresh" THEN r.seen ELSE NoCookies
    OBVIOUS
<1>2. PICK q : q = [r EXCEPT !.pc = "answered", !.status = status, !.seen = seen]
    OBVIOUS
<1>3. q = Answer(r, status)
    BY <1>1, <1>2 DEF Answer
<1>4. /\ seen.refresh \in {r.seen.refresh, None}
      /\ (r.ask = "refresh" => seen.refresh = r.seen.refresh)
    BY <1>1 DEF NoCookies
<1>5. Answered(r, q)
    BY <1>2, <1>4 DEF Answered, NoCall
<1> QED
    BY <1>3, <1>5

LEMMA HandledAnswers ==
    ASSUME TInv, NEW c \in Calls, Handle(c)
    PROVE  \E q : Become(c, q) /\ Answered(call[c], q)
<1>0. PICK r : r = call[c]
    OBVIOUS
<1>1. DOMAIN r = DOMAIN NoCall
    BY <1>0 DEF TInv, Sane
<1>2. CASE HandleCall(c)
  <2>1. CASE Become(c, Answer(r, "401")) \/ Become(c, Answer(r, "403"))
    <3>1. Answered(r, Answer(r, "401")) /\ Answered(r, Answer(r, "403"))
        BY <1>1, AnswerAnswers
    <3> QED
        BY <1>0, <2>1, <3>1
  <2>2. CASE r.seen.access # None /\ Become(c, [Answer(r, "ok") EXCEPT !.runs = @ + 1, !.as = r.seen.access])
    <3>1. PICK p : p = Answer(r, "ok")
        OBVIOUS
    <3>2. PICK runs : runs = p.runs + 1
        OBVIOUS
    <3>3. PICK q : q = [p EXCEPT !.runs = runs, !.as = r.seen.access]
        OBVIOUS
    <3>4. Become(c, q)
        BY <2>2, <3>1, <3>2, <3>3
    <3>5. r.ask = "call"
        BY <1>0, <1>2 DEF HandleCall
    <3>6. /\ DOMAIN p = DOMAIN NoCall /\ p.kind = r.kind /\ p.tab = r.tab /\ p.told = r.told
          /\ p.user = r.user /\ p.for = r.for /\ p.rows = r.rows /\ p.ask = r.ask
          /\ p.pc = "answered" /\ p.seen.refresh = None
        BY <1>1, <3>1, <3>5 DEF Answer, NoCall, NoCookies
    <3>7. Answered(r, q)
        BY <2>2, <3>3, <3>5, <3>6 DEF Answered, NoCall
    <3> QED
        BY <1>0, <3>4, <3>7
  <2> QED
      BY <1>0, <1>2, <2>1, <2>2 DEF HandleCall
<1>3. CASE HandleRefresh(c)
  <2>1. PICK status : /\ Become(c, Answer(r, status)) /\ (status = "ok" => r.seen.refresh # None)
                      /\ r.ask = "refresh"
      BY <1>0, <1>3 DEF HandleRefresh
  <2>2. Answered(r, Answer(r, status))
      BY <1>1, <2>1, AnswerAnswers
  <2> QED
      BY <1>0, <2>1, <2>2
<1>4. CASE HandleLogin(c) \/ HandleLogout(c)
  <2>1. PICK status : Become(c, Answer(r, status)) /\ r.ask \in {"login", "logout"}
      BY <1>0, <1>4 DEF HandleLogin, HandleLogout
  <2>2. Answered(r, Answer(r, status))
      BY <1>1, <2>1, AnswerAnswers
  <2> QED
      BY <1>0, <2>1, <2>2
<1> QED
    BY <1>2, <1>3, <1>4 DEF Handle

LEMMA HandleTells == ASSUME TInv, NEW c \in Calls, Handle(c) PROVE TInv'
<1>1. PICK q : Become(c, q) /\ Answered(call[c], q)
    BY HandledAnswers
<1>2. DOMAIN call' = Calls /\ call'[c] = q /\ \A d \in Calls \ {c} : Same(d)
    BY <1>1, BecomeMoves
<1>3. /\ jar' = jar /\ markers' = markers /\ screen' = screen /\ shown' = shown
      /\ call[c].pc = "sent"
    BY DEF Handle, At
<1>4. Sane(c) /\ Own(c) /\ Served(c)
    BY DEF TInv
<1>5. Moved(c)
    BY <1>1, <1>2, <1>3 DEF Answered, Moved, At, Acts, Active, Entering
<1>6. \A t \in Tabs : ~Enters(c, t)
    BY <1>3, NoEntry
<1>7. Screens(c) /\ Shown(c)
    BY <1>1, <1>2, <1>3 DEF Screens, Shown, Answered
<1>8. Kinds'
    BY <1>2, <1>3 DEF TInv, Kinds
<1>9. Cookies'
    BY <1>3, <1>5, <1>6, CookiesStay
<1>10. Sane(c)'
  <2>1. q.seen.refresh \in Sessions \cup {None}
      BY <1>1, <1>4 DEF Answered, Sane
  <2> QED
      BY <1>1, <1>2, <1>3, <1>4, <2>1 DEF Answered, Sane, Active
<1>11. Own(c)'
    BY <1>1, <1>2, <1>3, <1>4 DEF Answered, Own, Active, Of, CookieOf
<1>12. Served(c)'
  <2> SUFFICES ASSUME call[c].ask = "call", q.status = "ok" PROVE Rightful(c, q.as)'
      BY <1>1, <1>2 DEF Served, Answered
  <2>1. Rightful(c, q.as)
      BY <1>1, <1>3, <1>4 DEF Served, Answered
  <2>2. PICK t \in Tabs : t = call[c].tab
      BY <1>4 DEF Sane
  <2>3. Window(t) => Window(t)'
      BY <1>5, <1>6, WindowStays
  <2>4. q.kind = call[c].kind /\ q.tab = t /\ q.for = call[c].for /\ q.user = call[c].user
      BY <1>1, <2>2 DEF Answered
  <2> QED
      BY <1>2, <1>3, <2>1, <2>2, <2>3, <2>4 DEF Rightful, Of
<1> QED
    BY <1>3, <1>5, <1>7, <1>8, <1>9, <1>10, <1>11, <1>12, TellsStep
LEMMA ArriveTells == ASSUME TInv, ~mixed', NEW c \in Calls, Arrive(c) PROVE TInv'
<1>0. PICK r : r = call[c]
    OBVIOUS
<1>1. /\ Sane(c) /\ Own(c) /\ Kinds /\ Cookies /\ DOMAIN r = DOMAIN NoCall
      /\ r.pc = "answered" /\ r.ask # "call" /\ ~ArrivesLate(r)
      /\ markers' = markers /\ screen' = screen /\ shown' = shown
    BY <1>0 DEF TInv, Sane, Arrive, At
<1>2. PICK tok : tok = IF Sets(r) \/ Renews(r) THEN "current" ELSE "none"
    OBVIOUS
<1>3. PICK q : q = [r EXCEPT !.pc = "arrived", !.overtaken = FALSE, !.tok = tok]
    OBVIOUS
<1>4. /\ DOMAIN q = DOMAIN NoCall /\ q.kind = r.kind /\ q.tab = r.tab /\ q.told = r.told
      /\ q.user = r.user /\ q.for = r.for /\ q.rows = r.rows /\ q.as = r.as /\ q.ask = r.ask
      /\ q.pc = "arrived" /\ q.status = r.status /\ q.seen = r.seen
    BY <1>1, <1>3 DEF NoCall
<1> DEFINE rotates == Sets(r) \/ Renews(r) \/ Clears(r)
<1>5. call' = [(IF rotates THEN OutdateCalls(call) ELSE call) EXCEPT ![c] = q]
    BY <1>0, <1>2, <1>3 DEF Arrive
<1> HIDE DEF rotates
<1>6. DOMAIN call' = Calls /\ call'[c] = q /\ \A d \in Calls \ {c} : Same(d)
    BY <1>5, OutdateMoves
<1>7. Active(c) /\ ~Entering(c) /\ (r.kind \in ByUser => Acts(c))
    BY <1>0, <1>1 DEF Active, Entering, Acts
<1>8. Moved(c)
    BY <1>0, <1>1, <1>4, <1>6, <1>7 DEF Moved, At, Acts, Active
<1>9. \A t \in Tabs : ~Enters(c, t) /\ (Window(t) => Window(t)')
    BY <1>1, <1>8, NoEntry, WindowStays
<1>10. Screens(c) /\ Shown(c)
    BY <1>1, <1>4, <1>6 DEF Screens, Shown
<1>11. ASSUME Sets(r)
       PROVE  /\ Acts(c) /\ r.user \in Users /\ DOMAIN jar' = DOMAIN NoCookies
              /\ jar'.access = r.user /\ jar'.refresh = [user |-> r.user, by |-> c]
  <2>1. r.ask = "login" /\ r.kind \in {"login", "withdraw"}
      BY <1>0, <1>1, <1>11 DEF Sets, Sane
  <2>2. Acts(c) /\ r.user \in Users
      BY <1>0, <1>1, <1>7, <2>1 DEF ByUser, Sane, Own
  <2>3. jar' = [access |-> r.user, valid |-> TRUE, csrf |-> TRUE, refresh |-> [user |-> r.user, by |-> c]]
      BY <1>0, <1>11 DEF Arrive
  <2> QED
      BY <2>2, <2>3 DEF NoCookies
<1>12. ASSUME Renews(r), ~Sets(r)
       PROVE  /\ DOMAIN jar' = DOMAIN NoCookies /\ jar.refresh # None
              /\ jar'.access = jar.refresh.user /\ jar'.refresh = jar.refresh
  <2>1. jar' = [jar EXCEPT !.access = r.seen.refresh.user, !.valid = TRUE, !.csrf = TRUE]
      BY <1>0, <1>12 DEF Arrive
  <2>2. jar.refresh # None /\ jar.refresh.user = r.seen.refresh.user
      BY <1>1, <1>12 DEF ArrivesLate
  <2> QED
      BY <1>1, <2>1, <2>2 DEF Kinds, NoCookies
<1>13. ASSUME Clears(r), ~Sets(r), ~Renews(r)
       PROVE  DOMAIN jar' = DOMAIN NoCookies /\ jar'.access = None /\ jar'.refresh = None
  <2>1. jar' = NoCookies
      BY <1>0, <1>13 DEF Arrive
  <2> QED
      BY <2>1 DEF NoCookies
<1>14. ~Sets(r) /\ ~Renews(r) /\ ~Clears(r) => jar' = jar
    BY <1>0 DEF Arrive
<1>15. ~Sets(r) => jar'.refresh \in {jar.refresh, None}
    BY <1>12, <1>13, <1>14
<1>16. Kinds'
  <2>1. jar'.refresh \in Sessions \cup {None}
      BY <1>1, <1>11, <1>15 DEF Kinds, Sessions
  <2>2. DOMAIN jar' = DOMAIN NoCookies
      BY <1>1, <1>11, <1>12, <1>13, <1>14 DEF Kinds
  <2> QED
      BY <1>1, <1>6, <2>1, <2>2 DEF Kinds
<1>17. Cookies'
  <2>1. CASE Sets(r)
    <3>1. jar'.access = r.user /\ jar'.refresh # None /\ jar'.refresh.user = r.user
        BY <1>11, <2>1, NoneAssumption DEF Sessions
    <3>2. r.ask = "login" /\ r.status = "ok" /\ r.kind \in {"login", "withdraw"}
        BY <1>0, <1>1, <2>1 DEF Sets, Sane
    <3>3. ASSUME NEW t \in Tabs, screen[t] # None, screen[t].user # r.user PROVE Window(t)'
      <4>1. r.kind = "login" /\ r.told /\ t = r.tab
          BY <1>0, <1>1, <1>7, <3>2, <3>3 DEF Own, Of
      <4> QED
          BY <1>4, <1>6, <3>2, <4>1 DEF Window, Entering
    <3> QED
        BY <1>1, <3>1, <3>3 DEF Cookies, CookieOf
  <2>2. CASE ~Sets(r) /\ Renews(r)
      BY <1>1, <1>9, <1>12, <2>2 DEF Cookies, CookieOf
  <2>3. CASE ~Sets(r) /\ ~Renews(r) /\ Clears(r)
      BY <1>13, <2>3 DEF Cookies, CookieOf
  <2>4. CASE ~Sets(r) /\ ~Renews(r) /\ ~Clears(r)
      BY <1>1, <1>8, <1>9, <1>14, <2>4, CookiesStay
  <2> QED
      BY <2>1, <2>2, <2>3, <2>4
<1>18. Sane(c)'
    BY <1>0, <1>1, <1>4, <1>6 DEF Sane, Active
<1>19. Own(c)'
  <2>1. ASSUME r.kind = "login" PROVE \A t \in Tabs : Of(t, r.user)' \/ (t = r.tab /\ r.told)
      BY <1>0, <1>1, <1>7, <2>1 DEF Own, Of
  <2>2. Sets(r) => CookieOf(r.user)'
      BY <1>11 DEF CookieOf
  <2>3. r.kind = "login" /\ r.status = "ok" => Sets(r)
      BY <1>0, <1>1, <1>7 DEF Sane, Sets
  <2>4. ASSUME r.kind = "withdraw"
        PROVE  r.user \in Users /\ r.rows = r.user /\ CookieOf(r.user) /\ \A t \in Tabs : Of(t, r.user)'
      BY <1>0, <1>1, <1>7, <2>4 DEF Own, Of
  <2>5. ~Sets(r) /\ CookieOf(r.user) => CookieOf(r.user)'
      BY <1>15 DEF CookieOf
  <2> QED
      BY <1>4, <1>6, <2>1, <2>2, <2>3, <2>4, <2>5 DEF Own
<1>20. Served(c)'
    BY <1>1, <1>4, <1>6 DEF Served
<1> QED
    BY <1>8, <1>10, <1>11, <1>15, <1>16, <1>17, <1>18, <1>19, <1>20, TellsStep
\* A call ends and shows these rows, if it was to load them.
LEMMA ShowsTells ==
    ASSUME TInv, NEW c \in Calls, Become(c, End(call[c])), Active(c), ~Entering(c), jar' = jar,
           markers' \in Users \cup {None}, screen' = screen, NEW rows, shown' = Shows(call[c], rows),
           call[c].kind \in {"load", "reload"} /\ ~Aborted(call[c]) =>
              rows = None \/ Of(call[c].tab, rows) \/ Window(call[c].tab)
    PROVE  TInv'
<1>0. PICK r, q : r = call[c] /\ q = End(call[c])
    OBVIOUS
<1>1. /\ DOMAIN call' = Calls /\ call'[c] = q /\ \A d \in Calls \ {c} : Same(d)
      /\ Ended(r, q)
    BY <1>0, BecomeMoves, EndEnds
<1>2. Moved(c)
    BY <1>0, <1>1 DEF Moved, Ended, At, Acts, Active
<1>3. \A t \in Tabs : Window(t) => Window(t)'
    BY <1>2, NoEntry, WindowStays
<1>4. DOMAIN shown = Tabs /\ r.tab \in Tabs /\ screen \in [Tabs -> Sessions \cup {None}]
    BY <1>0 DEF TInv, Kinds, Sane
<1>5. DOMAIN shown' = Tabs
    BY <1>0, <1>4 DEF Shows
<1>6. ASSUME NEW t \in Tabs
      PROVE  \/ shown'[t] = None \/ screen'[t] = None \/ shown'[t] = screen'[t].user \/ Window(t)'
             \/ /\ shown'[t] = shown[t]
                /\ q.kind = "load" /\ q.tab = t => q.for # screen'[t]
  <2>1. CASE t = r.tab /\ r.kind \in {"load", "reload"} /\ ~Aborted(r)
    <3>1. shown'[t] = rows
        BY <1>0, <1>4, <2>1 DEF Shows
    <3> QED
        BY <1>0, <1>3, <2>1, <3>1 DEF Of
  <2>2. CASE t # r.tab
    <3>1. shown'[t] = shown[t]
        BY <1>0, <1>4, <2>2 DEF Shows
    <3> QED
        BY <1>1, <2>2, <3>1 DEF Ended
  <2>3. CASE r.kind \notin {"load", "reload"} \/ Aborted(r)
    <3>1. shown'[t] = shown[t]
        BY <1>0, <2>3 DEF Shows
    <3>2. r.kind = "load" /\ r.tab = t => r.for # screen[t]
        BY <2>3 DEF Aborted
    <3> QED
        BY <1>1, <3>1, <3>2 DEF Ended
  <2> QED
      BY <2>1, <2>2, <2>3
<1>7. Shown(c)
    BY <1>1, <1>6 DEF Shown
<1> QED
    BY <1>4, <1>5, <1>7, EndTells

LEMMA FailsTells ==
    ASSUME TInv, NEW c \in Calls, Fails(c), Active(c), ~Entering(c), jar' = jar PROVE TInv'
<1>1. PICK rows : rows = None
    OBVIOUS
<1>2. shown' = Shows(call[c], rows) /\ Become(c, End(call[c])) /\ screen' = screen /\ markers' = markers
    BY <1>1 DEF Fails
<1>3. markers' \in Users \cup {None}
    BY <1>2 DEF TInv, Kinds
<1> QED
    BY <1>1, <1>2, <1>3, ShowsTells

LEMMA ClearsTells ==
    ASSUME TInv, NEW c \in Calls, ClearsStorage(c), Active(c), ~Entering(c), jar' = jar PROVE TInv'
<1>0. PICK q : q = End(call[c])
    OBVIOUS
<1>1. /\ call'[c] = q /\ Ended(call[c], q) /\ Become(c, End(call[c]))
    BY <1>0, BecomeMoves, EndEnds DEF ClearsStorage
<1>2. PICK t \in Tabs : t = call[c].tab
    BY DEF TInv, Sane
<1>3. /\ markers' = None /\ screen' = [screen EXCEPT ![t] = None] /\ shown' = [shown EXCEPT ![t] = None]
    BY <1>2 DEF ClearsStorage
<1>4. DOMAIN shown = Tabs /\ screen \in [Tabs -> Sessions \cup {None}]
    BY DEF TInv, Kinds
<1>5. /\ DOMAIN shown' = Tabs /\ screen' \in [Tabs -> Sessions \cup {None}]
      /\ \A o \in Tabs : screen'[o] \in {screen[o], None}
    BY <1>3, <1>4
<1>6. ASSUME NEW o \in Tabs PROVE shown'[o] = None \/ (shown'[o] = shown[o] /\ o # t)
    BY <1>3, <1>4
<1>7. Shown(c)
    BY <1>1, <1>2, <1>6 DEF Shown, Ended
<1> QED
    BY <1>1, <1>3, <1>5, <1>7, EndTells
\* What Ask makes of a record that is the call's but for its resends.
LEMMA AskAgainTells ==
    ASSUME TInv, NEW c \in Calls, Active(c), ~Entering(c), NEW r, NEW ask, NEW stored,
           Become(c, Ask(r, ask, stored)), DOMAIN r = DOMAIN NoCall, jar' = jar, screen' = screen,
           shown' = shown, markers' \in Users \cup {None},
           r.kind = call[c].kind, r.tab = call[c].tab, r.told = call[c].told, r.user = call[c].user,
           r.rows = call[c].rows, r.for = call[c].for, r.seen = call[c].seen,
           ask = "login" => call[c].ask = "login", call[c].kind = "login" => ask = "login"
    PROVE  TInv'
<1>1. PICK q : q = Ask(r, ask, stored)
    OBVIOUS
<1>2. DOMAIN jar = DOMAIN NoCookies
    BY DEF TInv, Kinds
<1>3. Asked(r, q, ask)
    BY <1>1, <1>2, AskAsks
<1>4. DOMAIN call' = Calls /\ call'[c] = q /\ \A d \in Calls \ {c} : Same(d)
    BY <1>1, BecomeMoves
<1> QED
    BY <1>2, <1>3, <1>4, AgainTells

LEMMA CallAnsweredTells ==
    ASSUME TInv, NEW c \in Calls, CallAnswered(c), At(c, "answered"), jar' = jar PROVE TInv'
<1>0. PICK r : r = call[c]
    OBVIOUS
<1>1. /\ Sane(c) /\ DOMAIN r = DOMAIN NoCall /\ r.pc = "answered" /\ r.ask = "call"
      /\ markers \in Users \cup {None}
    BY <1>0 DEF TInv, Sane, Kinds, CallAnswered, At
<1>2. Active(c) /\ ~Entering(c) /\ r.kind # "login"
    BY <1>0, <1>1 DEF Active, Entering, Sane
<1>3. CASE Fails(c)
    BY <1>2, <1>3, FailsTells
<1>4. CASE AskAgain(c, [r EXCEPT !.stage = "healed"])
  <2>1. PICK p : p = [r EXCEPT !.stage = "healed"]
      OBVIOUS
  <2>2. /\ DOMAIN p = DOMAIN NoCall /\ p.kind = r.kind /\ p.tab = r.tab /\ p.told = r.told
        /\ p.user = r.user /\ p.rows = r.rows /\ p.for = r.for /\ p.seen = r.seen /\ p.ask = r.ask
      BY <1>1, <2>1 DEF NoCall
  <2>3. /\ Become(c, Ask(p, p.ask, Forgotten(token[p.tab])))
        /\ markers' = markers /\ screen' = screen /\ shown' = shown
      BY <1>4, <2>1 DEF AskAgain
  <2> QED
      BY <1>0, <1>1, <1>2, <2>2, <2>3, AskAgainTells
<1>5. CASE Become(c, Ask(r, "refresh", token[r.tab])) /\ UNCHANGED <<markers, token, screen, shown>>
    BY <1>0, <1>1, <1>2, <1>5, AskAgainTells
<1>6. CASE r.kind = "withdraw" /\ Withdrawn(c)
  <2>1. PICK t \in Tabs : t = r.tab
      BY <1>0, <1>1 DEF Sane
  <2>2. PICK p : p = [NoCall EXCEPT !.kind = "reload", !.tab = t]
      OBVIOUS
  <2>3. /\ DOMAIN p = DOMAIN NoCall /\ p.kind = "reload" /\ p.tab = t /\ p.told = FALSE
        /\ p.for = None /\ p.seen.refresh = None
      BY <2>2 DEF NoCall, NoCookies
  <2>4. PICK q : q = Ask(p, "call", token[t])
      OBVIOUS
  <2>5. DOMAIN jar = DOMAIN NoCookies
      BY DEF TInv, Kinds
  <2>6. Asked(p, q, "call")
      BY <2>3, <2>4, <2>5, AskAsks
  <2>7. Become(c, q) /\ markers' = markers /\ screen' = screen /\ shown' = shown
      BY <1>0, <1>6, <2>1, <2>2, <2>4 DEF Withdrawn
  <2>8. DOMAIN call' = Calls /\ call'[c] = q /\ \A d \in Calls \ {c} : Same(d)
      BY <2>7, BecomeMoves
  <2>9. Acts(c)
      BY <1>0, <1>2, <1>6 DEF Acts, ByUser
  <2>10. ~Window(t)
      BY <1>0, <1>6, <2>9, NoWindow
  <2> QED
      BY <1>0, <1>1, <1>2, <2>1, <2>3, <2>5, <2>6, <2>7, <2>8, <2>9, <2>10, AskTells
<1>7. CASE r.status = "ok" /\ Become(c, End(r)) /\ shown' = Shows(r, r.as) /\ UNCHANGED <<markers, token, screen>>
  <2>1. Rightful(c, r.as)
      BY <1>0, <1>1, <1>7 DEF TInv, Served
  <2>2. r.kind \in {"load", "reload"} /\ ~Aborted(r) => Of(r.tab, r.as) \/ Window(r.tab)
      BY <1>0, <2>1 DEF Rightful, Aborted, Of
  <2>3. PICK rows : rows = r.as
      OBVIOUS
  <2> QED
      BY <1>0, <1>1, <1>2, <1>7, <2>2, <2>3, ShowsTells
<1> QED
    BY <1>0, <1>3, <1>4, <1>5, <1>6, <1>7 DEF CallAnswered

LEMMA RefreshAnsweredTells ==
    ASSUME TInv, NEW c \in Calls, RefreshAnswered(c), At(c, "arrived"), jar' = jar PROVE TInv'
<1>0. PICK r : r = call[c]
    OBVIOUS
<1>1. /\ Sane(c) /\ DOMAIN r = DOMAIN NoCall /\ r.pc = "arrived" /\ r.ask = "refresh"
      /\ markers \in Users \cup {None}
    BY <1>0 DEF TInv, Sane, Kinds, RefreshAnswered, At
<1>2. Active(c) /\ ~Entering(c) /\ r.kind # "login"
    BY <1>0, <1>1 DEF Active, Entering, Sane
<1>3. CASE AskAgain(c, [r EXCEPT !.again = TRUE])
  <2>1. PICK p : p = [r EXCEPT !.again = TRUE]
      OBVIOUS
  <2>2. /\ DOMAIN p = DOMAIN NoCall /\ p.kind = r.kind /\ p.tab = r.tab /\ p.told = r.told
        /\ p.user = r.user /\ p.rows = r.rows /\ p.for = r.for /\ p.seen = r.seen /\ p.ask = r.ask
      BY <1>1, <2>1 DEF NoCall
  <2>3. /\ Become(c, Ask(p, p.ask, Forgotten(token[p.tab])))
        /\ markers' = markers /\ screen' = screen /\ shown' = shown
      BY <1>3, <2>1 DEF AskAgain
  <2> QED
      BY <1>0, <1>1, <1>2, <2>2, <2>3, AskAgainTells
<1>4. CASE ClearsStorage(c)
    BY <1>2, <1>4, ClearsTells
<1>5. CASE /\ r.status = "ok" /\ markers' = r.seen.refresh.user
           /\ Become(c, IF Aborted(r) THEN End(r) ELSE Ask([r EXCEPT !.stage = "second"], "call", r.tok))
           /\ UNCHANGED <<screen, shown>>
  <2>1. r.seen.refresh \in Sessions
      BY <1>0, <1>1, <1>5 DEF Sane
  <2>2. markers' \in Users
      BY <1>5, <2>1 DEF Sessions
  <2>3. CASE Aborted(r)
    <3>1. PICK rows : rows = shown[r.tab]
        OBVIOUS
    <3>2. shown' = Shows(r, rows) /\ Become(c, End(r)) /\ screen' = screen
        BY <1>5, <2>3 DEF Shows
    <3> QED
        BY <1>0, <1>2, <2>2, <2>3, <3>2, ShowsTells
  <2>4. CASE ~Aborted(r)
    <3>1. PICK p : p = [r EXCEPT !.stage = "second"]
        OBVIOUS
    <3>2. /\ DOMAIN p = DOMAIN NoCall /\ p.kind = r.kind /\ p.tab = r.tab /\ p.told = r.told
          /\ p.user = r.user /\ p.rows = r.rows /\ p.for = r.for /\ p.seen = r.seen
        BY <1>1, <3>1 DEF NoCall
    <3>3. Become(c, Ask(p, "call", r.tok)) /\ screen' = screen /\ shown' = shown
        BY <1>5, <2>4, <3>1
    <3> QED
        BY <1>0, <1>1, <1>2, <2>2, <3>2, <3>3, AskAgainTells
  <2> QED
      BY <2>3, <2>4
<1> QED
    BY <1>0, <1>3, <1>4, <1>5 DEF RefreshAnswered
\* A login ends, and the screen is told of its session.
LEMMA EnterTells ==
    ASSUME TInv, NEW c \in Calls, Entering(c), Become(c, End(call[c])), jar' = jar, shown' = shown,
           markers' = call[c].user,
           screen' = [screen EXCEPT ![call[c].tab] = [user |-> call[c].user, by |-> c]]
    PROVE  TInv'
<1>0. PICK r, q : r = call[c] /\ q = End(call[c])
    OBVIOUS
<1>1. /\ DOMAIN call' = Calls /\ call'[c] = q /\ \A d \in Calls \ {c} : Same(d)
      /\ Ended(r, q)
    BY <1>0, BecomeMoves, EndEnds
<1>2. PICK t \in Tabs : t = r.tab
    BY <1>0 DEF TInv, Sane
<1>3. r.kind = "login" /\ r.told /\ r.ask = "login" /\ r.pc = "arrived" /\ r.status = "ok" /\ r.user \in Users
    BY <1>0 DEF TInv, Sane, Entering, Active
<1>4. screen \in [Tabs -> Sessions \cup {None}] /\ DOMAIN shown = Tabs /\ Kinds /\ Cookies /\ Own(c) /\ Sane(c)
    BY DEF TInv, Kinds
<1>5. PICK s \in Sessions : s = [user |-> r.user, by |-> c]
    BY <1>3 DEF Sessions
<1>6. screen' = [screen EXCEPT ![t] = s]
    BY <1>0, <1>2, <1>5
<1>7. screen'[t] = s /\ \A o \in Tabs \ {t} : screen'[o] = screen[o]
    BY <1>4, <1>6
<1>8. Enters(c, t)
    BY <1>0, <1>1, <1>2, <1>3, <1>5, <1>7 DEF Enters, Ended
<1>9. Moved(c)
    BY <1>0, <1>1, <1>2, <1>8 DEF Moved, Ended, At, Acts, Active
<1>10. Screens(c)
    BY <1>7, <1>8 DEF Screens
<1>11. Shown(c)
    BY <1>1, <1>3 DEF Shown, Ended
<1>12. Kinds'
  <2>1. screen' \in [Tabs -> Sessions \cup {None}]
      BY <1>4, <1>6
  <2> QED
      BY <1>0, <1>1, <1>3, <1>4, <2>1 DEF Kinds
<1>13. Cookies'
  <2>1. jar.refresh = None \/ jar.refresh.user = s.user
      BY <1>0, <1>3, <1>4, <1>5 DEF Own, CookieOf
  <2>2. ASSUME NEW o \in Tabs \ {t}, Window(o) PROVE Window(o)'
    <3>1. ~Enters(c, o)
        BY <1>0, <1>2 DEF Enters
    <3> QED
        BY <1>9, <2>2, <3>1, WindowStays
  <2>3. ASSUME NEW o \in Tabs
        PROVE  screen'[o] = None \/ (jar'.refresh = None \/ jar'.refresh.user = screen'[o].user) \/ Window(o)'
    <3>1. CASE o = t
        BY <1>7, <2>1, <3>1
    <3>2. CASE o # t
        BY <1>4, <1>7, <2>2, <3>2 DEF Cookies, CookieOf
    <3> QED
        BY <3>1, <3>2
  <2>4. jar'.access = None \/ (jar'.refresh # None /\ jar'.access = jar'.refresh.user)
      BY <1>4 DEF Cookies
  <2> QED
      BY <2>3, <2>4 DEF Cookies, CookieOf
<1>14. Sane(c)'
  <2>1. q.tab \in Tabs /\ q.for \in Sessions \cup {None} /\ q.seen.refresh = None
      BY <1>0, <1>1, <1>4 DEF Ended, Sane
  <2> QED
      BY <1>1, <1>3, <2>1 DEF Ended, Sane, Active
<1>15. Own(c)' /\ Served(c)'
    BY <1>1 DEF Ended, Own, Served, Active
<1> QED
    BY <1>9, <1>10, <1>11, <1>12, <1>13, <1>14, <1>15, TellsStep

LEMMA LoginAnsweredTells ==
    ASSUME TInv, NEW c \in Calls, LoginAnswered(c), At(c, "arrived"), jar' = jar PROVE TInv'
<1>0. PICK r : r = call[c]
    OBVIOUS
<1>1. /\ Sane(c) /\ Own(c) /\ DOMAIN r = DOMAIN NoCall /\ r.pc = "arrived" /\ r.ask = "login"
    BY <1>0 DEF TInv, Sane, LoginAnswered, At
<1>2. Active(c) /\ r.kind \in {"login", "withdraw"} /\ r.user \in Users
    BY <1>0, <1>1 DEF Active, Sane, Own
<1>3. CASE r.status # "ok"
  <2>1. Fails(c) /\ ~Entering(c)
      BY <1>0, <1>3 DEF LoginAnswered, Entering
  <2> QED
      BY <1>2, <2>1, FailsTells
<1>4. CASE r.status = "ok"
  <2>1. /\ markers' = r.user /\ shown' = shown
        /\ screen' = IF r.told THEN [screen EXCEPT ![r.tab] = [user |-> r.user, by |-> c]] ELSE screen
        /\ Become(c, IF r.kind = "withdraw" THEN Ask(r, "call", r.tok) ELSE End(r))
      BY <1>0, <1>4 DEF LoginAnswered, Entered
  <2>2. CASE r.kind = "withdraw"
    <3>1. ~r.told /\ ~Entering(c)
        BY <1>0, <1>1, <2>2 DEF Sane, Entering
    <3>2. Become(c, Ask(r, "call", r.tok)) /\ screen' = screen
        BY <2>1, <2>2, <3>1
    <3> QED
        BY <1>0, <1>1, <1>2, <2>1, <2>2, <3>1, <3>2, AskAgainTells
  <2>3. CASE r.kind = "login" /\ r.told
    <3>1. Entering(c)
        BY <1>0, <1>1, <1>4, <2>3 DEF Entering
    <3>2. Become(c, End(r)) /\ screen' = [screen EXCEPT ![r.tab] = [user |-> r.user, by |-> c]]
        BY <2>1, <2>3
    <3> QED
        BY <1>0, <2>1, <3>1, <3>2, EnterTells
  <2>4. CASE r.kind = "login" /\ ~r.told
    <3>1. PICK rows : rows = None
        OBVIOUS
    <3>2. Become(c, End(r)) /\ screen' = screen /\ shown' = Shows(r, rows) /\ ~Entering(c)
        BY <1>0, <2>1, <2>4 DEF Shows, Entering
    <3> QED
        BY <1>0, <1>2, <2>1, <2>4, <3>2, ShowsTells
  <2> QED
      BY <1>2, <2>2, <2>3, <2>4
<1> QED
    BY <1>3, <1>4

LEMMA ResumeTells == ASSUME TInv, NEW c \in Calls, Resume(c) PROVE TInv'
<1>1. jar' = jar
    BY DEF Resume
<1>2. CASE CallAnswered(c)
  <2>1. At(c, "answered")
      BY <1>2 DEF Resume, CallAnswered
  <2> QED
      BY <1>1, <1>2, <2>1, CallAnsweredTells
<1>3. CASE RefreshAnswered(c)
  <2>1. At(c, "arrived")
      BY <1>3 DEF Resume, RefreshAnswered
  <2> QED
      BY <1>1, <1>3, <2>1, RefreshAnsweredTells
<1>4. CASE LoginAnswered(c)
  <2>1. At(c, "arrived")
      BY <1>4 DEF Resume, LoginAnswered
  <2> QED
      BY <1>1, <1>4, <2>1, LoginAnsweredTells
<1>5. CASE LogoutAnswered(c)
  <2>1. ClearsStorage(c) /\ call[c].pc = "arrived" /\ call[c].ask = "logout"
      BY <1>5 DEF Resume, LogoutAnswered, At
  <2>2. Active(c) /\ ~Entering(c)
      BY <2>1 DEF TInv, Sane, Active, Entering
  <2> QED
      BY <1>1, <2>1, <2>2, ClearsTells
<1> QED
    BY <1>2, <1>3, <1>4, <1>5 DEF Resume

LEMMA LostTells == ASSUME TInv, NEW c \in Calls, Lost(c) PROVE TInv'
<1>1. Active(c) /\ ~Entering(c) /\ jar' = jar
    BY DEF Lost, Active, Entering
<1> QED
    BY <1>1, ClearsTells, FailsTells DEF Lost
\* The access token expires, or nothing happens.
LEMMA StillTells ==
    ASSUME TInv, call' = call, markers' = markers, screen' = screen, shown' = shown,
           DOMAIN jar' = DOMAIN NoCookies, jar'.access = jar.access, jar'.refresh = jar.refresh
    PROVE  TInv'
<1>1. \A u : CookieOf(u)' <=> CookieOf(u)
    BY DEF CookieOf
<1>2. \A t : Window(t)' <=> Window(t)
    BY DEF Window, Entering
<1>3. \A t, u : Of(t, u)' <=> Of(t, u)
    BY DEF Of
<1>4. Kinds' /\ Cookies'
    BY <1>2 DEF TInv, Kinds, Cookies, CookieOf
<1>5. \A c, d \in Calls : Acts(c)' /\ Acts(d)' => c = d
    BY DEF TInv, Acts, Active
<1>6. ASSUME NEW c \in Calls PROVE Sane(c)' /\ Own(c)' /\ New(c)' /\ Served(c)'
  <2>1. Sane(c)' /\ New(c)'
      BY DEF TInv, Sane, New, Active, At
  <2>2. Own(c)'
      BY <1>1, <1>3 DEF TInv, Own, Active
  <2>3. \A a : Rightful(c, a) => Rightful(c, a)'
    <3>1. PICK t \in Tabs : t = call[c].tab
        BY DEF TInv, Sane
    <3> QED
        BY <1>2, <1>3, <3>1 DEF Rightful
  <2>4. Served(c)'
      BY <2>3 DEF TInv, Served
  <2> QED
      BY <2>1, <2>2, <2>4
<1>7. ASSUME NEW t \in Tabs PROVE ShownRight(t)'
  <2>1. Loaded(t)' => Loaded(t)
      BY DEF Loaded, Loads, At
  <2> QED
      BY <1>2, <2>1 DEF TInv, ShownRight
<1> QED
    BY <1>4, <1>5, <1>6, <1>7 DEF TInv

LEMMA InitTells == Init => TInv
<1> SUFFICES ASSUME Init PROVE TInv
    OBVIOUS
<1>1. PICK p \in Plans :
         LET u == p.first
             s == IF u = None THEN None ELSE [user |-> u, by |-> None]
         IN /\ markers = u /\ call = p.calls /\ faults = p.faults
            /\ jar = [access |-> u, valid |-> FALSE, refresh |-> s, csrf |-> u # None]
            /\ alive = IF s = None THEN {} ELSE {s}
            /\ screen = [t \in Tabs |-> IF t \in p.open THEN s ELSE None]
    BY DEF Init
<1>2. PICK u \in Users \cup {None} : u = p.first
    BY PlansAssumption
<1>3. PICK s : s = IF u = None THEN None ELSE [user |-> u, by |-> None]
    OBVIOUS
<1>4. /\ markers = u /\ call = p.calls
      /\ jar = [access |-> u, valid |-> FALSE, refresh |-> s, csrf |-> u # None]
      /\ screen = [t \in Tabs |-> IF t \in p.open THEN s ELSE None]
      /\ shown = [t \in Tabs |-> None]
    BY <1>1, <1>2, <1>3 DEF Init
<1>5. /\ s \in Sessions \cup {None} /\ (u # None => s # None /\ s.user = u /\ s.by = None)
      /\ (u = None => s = None)
    BY <1>2, <1>3, NoneAssumption DEF Sessions
<1>6. /\ DOMAIN jar = DOMAIN NoCookies /\ jar.access = u /\ jar.refresh = s
      /\ \A t \in Tabs : screen[t] \in {s, None} /\ shown[t] = None
    BY <1>4 DEF NoCookies
<1>7. DOMAIN call = Calls /\ p.open \subseteq Tabs
    BY <1>4, PlansAssumption
<1>8. ASSUME NEW c \in Calls
      PROVE  /\ DOMAIN call[c] = DOMAIN NoCall /\ call[c].tab \in Tabs /\ call[c].for = None
             /\ call[c].seen.refresh = None /\ (call[c].kind = "login" => call[c].user \in Users)
             /\ (call[c].told => call[c].kind = "login")
             /\ call[c].pc = "idle" /\ call[c].ask = "none"
  <2>1. PICK kind \in {"none", "login", "logout", "call", "load", "withdraw"}, t \in p.open,
             v \in Users \cup {None}, told \in BOOLEAN :
            /\ p.calls[c] = Operation(kind, t, v, told)
            /\ (kind = "login" => v \in Users) /\ (told => kind = "login")
      BY PlansAssumption
  <2>2. PICK r : r = Operation(kind, t, v, told)
      OBVIOUS
  <2>3. /\ DOMAIN r = DOMAIN NoCall /\ r.tab = t /\ r.for = None /\ r.seen.refresh = None
        /\ r.kind = kind /\ r.user = v /\ r.told = told /\ r.pc = "idle" /\ r.ask = "none"
      BY <2>2 DEF Operation, NoCall, NoCookies
  <2> QED
      BY <1>4, <1>7, <2>1, <2>2, <2>3
<1>9. Kinds
  <2>1. screen \in [Tabs -> Sessions \cup {None}] /\ DOMAIN shown = Tabs
      BY <1>4, <1>5
  <2> QED
      BY <1>2, <1>4, <1>5, <1>6, <1>7, <2>1 DEF Kinds
<1>10. Cookies
    BY <1>5, <1>6 DEF Cookies, CookieOf
<1>11. \A c \in Calls : ~Active(c) /\ ~Acts(c)
    BY <1>8 DEF Active, Acts
<1>12. ASSUME NEW c \in Calls PROVE Sane(c) /\ Own(c) /\ New(c) /\ Served(c)
  <2>1. Sane(c)
      BY <1>8, <1>11 DEF Sane
  <2>2. Own(c) /\ Served(c)
      BY <1>8, <1>11 DEF Own, Served
  <2>3. ASSUME NEW v \in Users
        PROVE  /\ \A t \in Tabs : screen[t] # [user |-> v, by |-> c]
               /\ \A d \in Calls : call[d].for # [user |-> v, by |-> c]
    <3>1. PICK x \in Sessions : x = [user |-> v, by |-> c]
        BY DEF Sessions
    <3>2. x # None /\ x.by = c /\ c # None
        BY <3>1, NoneAssumption
    <3>3. x # s
        BY <1>5, <3>2
    <3> QED
        BY <1>6, <1>8, <3>1, <3>2, <3>3
  <2> QED
      BY <2>1, <2>2, <2>3 DEF New
<1>13. \A t \in Tabs : ShownRight(t)
    BY <1>6 DEF ShownRight
<1> QED
    BY <1>9, <1>10, <1>11, <1>12, <1>13 DEF TInv

\* Once mixed, nothing is said any more.
LEMMA TellStep == ASSUME TellInv, [Next]_vars PROVE TellInv'
<1>1. mixed => mixed'
    BY DEF Next, vars, Expire, BeginLogin, BeginLogout, BeginCall, BeginLoad, BeginWithdraw,
           TokenAnswered, TokenFails, Handle, Arrive, Resume, Lost
<1> SUFFICES ASSUME TInv, ~mixed' PROVE TInv'
    BY <1>1 DEF TellInv
<1>2. CASE UNCHANGED vars
  <2>1. DOMAIN jar = DOMAIN NoCookies
      BY DEF TInv, Kinds
  <2> QED
      BY <1>2, <2>1, StillTells DEF vars
<1>3. CASE Expire
  <2>1. DOMAIN jar = DOMAIN NoCookies /\ jar' = [jar EXCEPT !.valid = FALSE]
      BY <1>3 DEF TInv, Kinds, Expire
  <2>2. DOMAIN jar' = DOMAIN NoCookies /\ jar'.access = jar.access /\ jar'.refresh = jar.refresh
      BY <2>1 DEF NoCookies
  <2> QED
      BY <1>3, <2>2, StillTells DEF Expire
<1>4. ASSUME NEW c \in Calls,
             BeginLogin(c) \/ BeginLogout(c) \/ BeginCall(c) \/ BeginLoad(c) \/ BeginWithdraw(c)
      PROVE  TInv'
    BY <1>4, BeginTells
<1>5. ASSUME NEW c \in Calls, TokenAnswered(c) \/ TokenFails(c) PROVE TInv'
    BY <1>5, TokenTells
<1>6. ASSUME NEW c \in Calls, Handle(c) PROVE TInv'
    BY <1>6, HandleTells
<1>7. ASSUME NEW c \in Calls, Arrive(c) PROVE TInv'
    BY <1>7, ArriveTells
<1>8. ASSUME NEW c \in Calls, Resume(c) PROVE TInv'
    BY <1>8, ResumeTells
<1>9. ASSUME NEW c \in Calls, Lost(c) PROVE TInv'
    BY <1>9, LostTells
<1> QED
    BY <1>2, <1>3, <1>4, <1>5, <1>6, <1>7, <1>8, <1>9 DEF Next

LEMMA ToldRight == ASSUME TellInv, IInv PROVE TheScreenTellsTheAccount
<1> SUFFICES ASSUME TInv
             PROVE  /\ ~Busy => \A t \in Tabs : Loaded(t) => shown[t] \in {None, screen[t].user}
                    /\ \A c \in Calls : call[c].kind = "withdraw" /\ call[c].runs > 0 => call[c].as = call[c].rows
    BY DEF TellInv, TheScreenTellsTheAccount
<1>1. ASSUME ~Busy, NEW t \in Tabs, Loaded(t) PROVE shown[t] \in {None, screen[t].user}
  <2>1. ~Window(t)
      BY <1>1 DEF Busy, Window, Entering, ByUser
  <2> QED
      BY <1>1, <2>1 DEF TInv, ShownRight
<1>2. ASSUME NEW c \in Calls, call[c].kind = "withdraw", call[c].runs > 0 PROVE call[c].as = call[c].rows
  <2>1. Over(call[c])
      BY <1>2 DEF IInv, Good
  <2>2. CASE call[c].pc = "ended"
      BY <2>2 DEF TInv, Sane
  <2>3. CASE call[c].pc = "answered" /\ call[c].ask = "call" /\ call[c].status = "ok"
    <3>1. Rightful(c, call[c].as) /\ call[c].rows = call[c].user
        BY <1>2, <2>3 DEF TInv, Served, Own, Active
    <3> QED
        BY <1>2, <3>1 DEF Rightful
  <2> QED
      BY <2>1, <2>2, <2>3 DEF Over
<1> QED
    BY <1>1, <1>2

\* While nothing is mixed, the rows that a tab has loaded for its session are those
\* of the session's user, and a withdrawal is taken from the account whose rows the
\* screen showed: for all tabs, users, plans and interleavings.
THEOREM TheScreenIsRight == Spec => []TheScreenTellsTheAccount
<1>1. Init => TellInv /\ IInv
    BY InitTells, InitHolds DEF TellInv
<1>2. TellInv /\ IInv /\ [Next]_vars => (TellInv /\ IInv)'
    BY TellStep, StepPreserves
<1>3. TellInv /\ IInv => TheScreenTellsTheAccount
    BY ToldRight
<1> QED
    BY <1>1, <1>2, <1>3, PTL DEF Spec

=============================================================================

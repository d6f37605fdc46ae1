---------------------------- MODULE ClientSession ----------------------------
(***************************************************************************)
(* The session of a browser: the request layer of lib/api.ts, the panels   *)
(* that log in and out, App.tsx with its rows, and the cookie and CSRF     *)
(* rules of server/index.ts that answer them.                              *)
(*                                                                         *)
(* All tabs of the browser share the cookies (access, refresh, csrf) and   *)
(* the markers in localStorage; each tab has its copy of the csrf token in *)
(* sessionStorage, and its screen.  The browser takes over the cookies of  *)
(* an answer when it arrives (Arrive); the code that waits for it goes on  *)
(* later (Resume).  What an awaited call does up to its next await is one  *)
(* step.  A login makes a refresh session that is named after its user and *)
(* the call that made it.                                                  *)
(***************************************************************************)
EXTENDS Naturals, FiniteSets

CONSTANTS
    Users, Tabs,
    Calls,       \* asynchronous operations of the tabs, each begun once at most
    Plans,       \* who is logged in at first, the tabs that are open, the operations
                 \* that may begin, and how many requests may fail
    SameOrigin,  \* the page is served by the API's host and can read its csrf cookie
    None

VARIABLES
    jar,         \* the cookies
    alive,       \* server: refresh sessions that are not revoked
    markers,     \* localStorage: who is logged in
    token,       \* [Tabs -> the stored csrf token, compared with the cookie]
    screen,      \* [Tabs -> the session App.tsx knows of]
    shown,       \* [Tabs -> whose positions App.tsx has]
    call,        \* [Calls -> record]
    faults,      \* requests that may still fail
    mixed        \* history: see Mixes and ArrivesLate

vars == <<jar, alive, markers, token, screen, shown, call, faults, mixed>>

Sessions == [user : Users, by : Calls \cup {None}]
TokenStates == {"none", "current", "stale"}

ASSUME NoneAssumption == None \notin Calls \cup Sessions

-----------------------------------------------------------------------------
(* The calls of lib/api.ts that need a session, by their method.           *)

Unsafe(names) == {[name |-> n, unsafe |-> TRUE] : n \in names}
Safe(names) == {[name |-> n, unsafe |-> FALSE] : n \in names}

JobCalls == Unsafe({"createOrchestratorJob", "cancelJob", "approveJob", "executeJob"})
                \cup Safe({"listJobs"})
ListCalls == Safe({"listApprovals", "listExecutionEvents", "listDepositPositions",
                   "listOnchainPositions", "resolveOrcaPoolCandidatesRemote",
                   "listOrcaWalletPositions", "listOnchainPositionHistory"})
LedgerCalls == Unsafe({"resetPortfolioLedgerRemote", "createDepositPositionRemote",
                       "adjustDepositPositionRemote"}) \cup Safe({"listWithdrawalLedger"})
WithdrawCalls == Unsafe({"withdrawDepositRemote", "withdrawProtocolExposureRemote",
                         "withdrawProductDepositRemote"})
AccountCalls == Unsafe({"linkAccountWallet", "estimateProtocolFees"})
                    \cup Safe({"listSelfRegistrations", "listAccountAssets", "listAccountWallets"})
AaveCalls == Unsafe({"buildAaveUsdcSupplyTx", "buildAaveUsdcWithdrawTx", "confirmAaveUsdcTx"})
                 \cup Safe({"fetchAaveUsdcPosition", "checkAaveUsdcTxReceipt"})
RuntimeCalls == Unsafe({"updateRuntimeExecutionMode", "updateRuntimeLiveFlag", "setRuntimePreset"})

Methods == {f.unsafe : f \in JobCalls \cup ListCalls \cup LedgerCalls \cup WithdrawCalls
                                 \cup AccountCalls \cup AaveCalls \cup RuntimeCalls}

-----------------------------------------------------------------------------
NoCookies == [access |-> None, valid |-> FALSE, refresh |-> None, csrf |-> FALSE]

\* kind: "login", "logout", "call", "load", "withdraw", and "reload" for the rows
\* a withdrawal asks for.  ask: what it is asking the server for.  stage and
\* again: the resends of authedFetch and of the refresh.  seen: the cookies of the
\* request, and whether its csrf header matched.
NoCall == [kind |-> "none", tab |-> None, unsafe |-> FALSE, user |-> None, told |-> FALSE,
           for |-> None, rows |-> None, pc |-> "idle", ask |-> "none", stage |-> "first",
           again |-> FALSE, tok |-> "none", seen |-> NoCookies, status |-> "none",
           runs |-> 0, as |-> None, overtaken |-> FALSE]

\* An operation: its kind, its tab, the user of a login and whether App.tsx is told.
Operation(kind, t, u, told) ==
    [NoCall EXCEPT !.kind = kind, !.tab = t, !.user = u, !.told = told]

ASSUME PlansAssumption ==
    \A p \in Plans :
        /\ p.first \in Users \cup {None} /\ p.faults \in Nat /\ p.open \subseteq Tabs
        /\ DOMAIN p.calls = Calls
        /\ \A c \in Calls :
              \E kind \in {"none", "login", "logout", "call", "load", "withdraw"}, t \in p.open,
                 u \in Users \cup {None}, told \in BOOLEAN :
                    /\ p.calls[c] = Operation(kind, t, u, told)
                    /\ (kind = "login" => u \in Users) /\ (told => kind = "login")

\* A browser in which nobody is logged in, or one user is, in every tab that is open.
Init ==
    /\ \E p \in Plans :
          LET u == p.first
              s == IF u = None THEN None ELSE [user |-> u, by |-> None]
          IN /\ markers = u /\ call = p.calls /\ faults = p.faults
             /\ jar = [access |-> u, valid |-> FALSE, refresh |-> s, csrf |-> u # None]
             /\ alive = IF s = None THEN {} ELSE {s}
             /\ screen = [t \in Tabs |-> IF t \in p.open THEN s ELSE None]
    /\ \E tok \in {"none", "current"} : token = [t \in Tabs |-> IF jar.csrf THEN tok ELSE "none"]
    /\ shown = [t \in Tabs |-> None]
    /\ mixed = FALSE

At(c, pc) == call[c].pc = pc
Become(c, r) == call' = [call EXCEPT ![c] = r]
Fault == faults > 0 /\ faults' = faults - 1
End(r) == [NoCall EXCEPT !.kind = r.kind, !.tab = r.tab, !.for = r.for, !.runs = r.runs, !.pc = "ended"]

-----------------------------------------------------------------------------
(* The csrf token.                                                         *)

\* The cookie changes or goes: a copy of the former one matches no more, and who
\* is about to use it is overtaken.
Outdated(x) == IF x = "current" THEN "stale" ELSE x
OutdateTabs(tokens) == [t \in Tabs |-> Outdated(tokens[t])]
OutdateCalls(calls) ==
    [d \in Calls |-> [calls[d] EXCEPT !.tok = Outdated(@),
                         !.overtaken = (@ \/ calls[d].pc \in {"fetching", "arrived"})]]

\* readStoredCsrfToken
Stored(stored) == IF stored # "none" THEN stored
                  ELSE IF SameOrigin /\ jar.csrf THEN "current" ELSE "none"

NeedsToken(r, ask) == ask \in {"refresh", "logout"} \/ (ask = "call" /\ r.unsafe)

Sent(r, match) == [r EXCEPT !.pc = "sent", !.tok = "none", !.status = "none",
                       !.seen = [jar EXCEPT !.csrf = @ /\ match]]

\* addCsrfHeader and fetch: with the stored token, or after asking for one.  The
\* server names the token of the cookie, or sets a new one.
Ask(r, ask, stored) ==
    LET q == [r EXCEPT !.ask = ask]
    IN IF NeedsToken(r, ask) /\ Stored(stored) = "none"
       THEN [q EXCEPT !.pc = "fetching", !.overtaken = FALSE,
                  !.tok = IF jar.csrf THEN "current" ELSE "new"]
       ELSE Sent(q, Stored(stored) = "current")

TokenAnswered(c) ==
    LET r == call[c] new == r.tok = "new" IN
    /\ At(c, "fetching")
    /\ jar' = [jar EXCEPT !.csrf = @ \/ new]
    /\ token' = [(IF new THEN OutdateTabs(token) ELSE token)
                     EXCEPT ![r.tab] = IF new THEN "current" ELSE r.tok]
    /\ call' = [(IF new THEN OutdateCalls(call) ELSE call)
                    EXCEPT ![c] = [r EXCEPT !.pc = "sent", !.tok = "none", !.status = "none",
                                       !.seen = [jar' EXCEPT !.csrf = new \/ (@ /\ r.tok = "current")]]]
    /\ UNCHANGED <<alive, markers, screen, shown, faults, mixed>>

\* ensureCsrfToken answers null, and the request goes without the header.
TokenFails(c) ==
    /\ At(c, "fetching") /\ Fault
    /\ Become(c, [Sent(call[c], FALSE) EXCEPT !.overtaken = TRUE])
    /\ UNCHANGED <<jar, alive, markers, token, screen, shown, mixed>>

-----------------------------------------------------------------------------
(* What begins in a tab.                                                   *)

ByUser == {"login", "logout", "withdraw", "reload"}
Busy == \E d \in Calls : call[d].kind \in ByUser /\ call[d].pc \notin {"idle", "ended"}

\* What the user does overlaps with what he did before, or he logs in to an account
\* of which some screen is not told.
Mixes(t, u, told) ==
    \/ Busy
    \/ \E o \in Tabs : screen[o] # None /\ screen[o].user # u /\ ~(o = t /\ told)

Begin(c, kind) ==
    /\ At(c, "idle") /\ call[c].kind = kind
    /\ UNCHANGED <<jar, alive, markers, token, screen, shown, faults>>

Start(c, r, ask) == Become(c, Ask(r, ask, token[r.tab]))

\* login, loginWithWallet and register: WalletPanel tells App.tsx of its login,
\* AuthPanel and the password dialogs tell the SessionContext only.
BeginLogin(c) ==
    /\ Begin(c, "login")
    /\ Start(c, call[c], "login")
    /\ mixed' = (mixed \/ Mixes(call[c].tab, call[c].user, call[c].told))

\* clearSession
BeginLogout(c) ==
    /\ Begin(c, "logout") /\ markers # None
    /\ Start(c, call[c], "logout")
    /\ mixed' = (mixed \/ Busy)

\* getSession, readAccessTokenSnapshot: the markers are all that a tab knows.
LoggedIn == markers # None

\* authedFetch refuses without markers.
BeginCall(c) ==
    /\ Begin(c, "call") /\ LoggedIn
    /\ \E unsafe \in Methods : Start(c, [call[c] EXCEPT !.unsafe = unsafe], "call")
    /\ UNCHANGED mixed

\* The effect of App.tsx loads the rows of a session it has not loaded yet.
Loads(d, t) == call[d].kind = "load" /\ call[d].tab = t /\ ~At(d, "idle") /\ call[d].for = screen[t]
Loaded(t) == \E d \in Calls : Loads(d, t) /\ At(d, "ended")

BeginLoad(c) ==
    LET t == call[c].tab IN
    /\ Begin(c, "load") /\ LoggedIn /\ screen[t] # None
    /\ ~\E d \in Calls : Loads(d, t)
    /\ Start(c, [call[c] EXCEPT !.for = screen[t]], "call")
    /\ UNCHANGED mixed

\* onConfirmWithdraw of PortfolioPanel: the password is checked with a login.
BeginWithdraw(c) ==
    LET t == call[c].tab IN
    /\ Begin(c, "withdraw") /\ LoggedIn /\ screen[t] # None /\ shown[t] # None
    /\ Start(c, [call[c] EXCEPT !.user = markers, !.unsafe = TRUE, !.rows = shown[t]], "login")
    /\ mixed' = (mixed \/ Mixes(t, markers, FALSE) \/ ~Loaded(t))

-----------------------------------------------------------------------------
(* The server.                                                             *)

\* Only a refresh says whom its cookies are of.
Answer(r, status) == [r EXCEPT !.pc = "answered", !.status = status,
                          !.seen = IF r.ask = "refresh" THEN @ ELSE NoCookies]

\* requireAuth: the access token first, then the csrf token, then the handler.
HandleCall(c) ==
    LET r == call[c] IN
    /\ r.ask = "call"
    /\ Become(c, IF r.seen.access = None \/ ~r.seen.valid THEN Answer(r, "401")
                 ELSE IF r.unsafe /\ ~r.seen.csrf THEN Answer(r, "403")
                 ELSE [Answer(r, "ok") EXCEPT !.runs = @ + 1, !.as = r.seen.access])
    /\ UNCHANGED alive

\* POST /api/auth/refresh
HandleRefresh(c) ==
    LET r == call[c] IN
    /\ r.ask = "refresh"
    /\ Become(c, Answer(r, IF r.seen.refresh = None THEN "401"
                           ELSE IF ~r.seen.csrf THEN "403"
                           ELSE IF r.seen.refresh \in alive THEN "ok" ELSE "401"))
    /\ UNCHANGED alive

\* POST /api/auth/login, /wallet, /register
HandleLogin(c) ==
    /\ call[c].ask = "login"
    /\ \/ /\ Become(c, Answer(call[c], "ok"))
          /\ alive' = alive \cup {[user |-> call[c].user, by |-> c]}
       \/ Become(c, Answer(call[c], "401")) /\ UNCHANGED alive

\* POST /api/auth/logout
HandleLogout(c) ==
    LET r == call[c] refused == r.seen.refresh # None /\ ~r.seen.csrf IN
    /\ r.ask = "logout"
    /\ Become(c, Answer(r, IF refused THEN "403" ELSE "ok"))
    /\ alive' = IF refused THEN alive ELSE alive \ {r.seen.refresh}

Handle(c) ==
    /\ At(c, "sent")
    /\ HandleCall(c) \/ HandleRefresh(c) \/ HandleLogin(c) \/ HandleLogout(c)
    /\ UNCHANGED <<jar, markers, token, screen, shown, faults, mixed>>

-----------------------------------------------------------------------------
(* The answer arrives: setAuthCookies, setAccessAndCsrfCookies,            *)
(* clearAuthCookies.  The answer of a call has no cookies.                 *)

Sets(r) == r.ask = "login" /\ r.status = "ok"
Renews(r) == r.ask = "refresh" /\ r.status = "ok"
Clears(r) == <<r.ask, r.status>> \in {<<"refresh", "401">>, <<"logout", "ok">>}

\* A refresh that was asked for in an earlier login brings its access token back.
ArrivesLate(r) == Renews(r) /\ (jar.refresh = None \/ jar.refresh.user # r.seen.refresh.user)

Arrive(c) ==
    LET r == call[c] IN
    /\ At(c, "answered") /\ r.ask # "call"
    /\ jar' = IF Sets(r) THEN [access |-> r.user, valid |-> TRUE, csrf |-> TRUE,
                               refresh |-> [user |-> r.user, by |-> c]]
              ELSE IF Renews(r) THEN [jar EXCEPT !.access = r.seen.refresh.user, !.valid = TRUE, !.csrf = TRUE]
              ELSE IF Clears(r) THEN NoCookies
              ELSE jar
    /\ LET rotates == Sets(r) \/ Renews(r) \/ Clears(r) IN
       /\ token' = IF rotates THEN OutdateTabs(token) ELSE token
       /\ call' = [(IF rotates THEN OutdateCalls(call) ELSE call)
                       EXCEPT ![c] = [r EXCEPT !.pc = "arrived", !.overtaken = FALSE,
                                          !.tok = IF Sets(r) \/ Renews(r) THEN "current" ELSE "none"]]
    /\ mixed' = (mixed \/ ArrivesLate(r))
    /\ UNCHANGED <<alive, markers, screen, shown, faults>>

\* The access token runs out.
Expire ==
    /\ jar.valid /\ jar' = [jar EXCEPT !.valid = FALSE]
    /\ UNCHANGED <<alive, markers, token, screen, shown, call, faults, mixed>>

-----------------------------------------------------------------------------
(* The tab goes on.                                                        *)

\* A new session of App.tsx aborts the load of the former one.
Aborted_Never(r) == FALSE   \* Mutant: its signal is not looked at
Aborted(r) == r.kind = "load" /\ r.for # screen[r.tab]

\* What App.tsx shows after a call of it has ended with these rows.
Shows(r, rows) == IF r.kind \in {"load", "reload"} /\ ~Aborted(r)
                  THEN [shown EXCEPT ![r.tab] = rows] ELSE shown

Fails(c) == /\ Become(c, End(call[c])) /\ shown' = Shows(call[c], None)
            /\ UNCHANGED <<markers, token, screen>>

\* clearAuthStorageSync, and what App.tsx does on AUTH_CLEARED_EVENT.
ClearsStorage(c) ==
    LET t == call[c].tab IN
    /\ Become(c, End(call[c]))
    /\ markers' = None
    /\ token' = [token EXCEPT ![t] = "none"]
    /\ screen' = [screen EXCEPT ![t] = None]
    /\ shown' = [shown EXCEPT ![t] = None]

\* A token that did not match is forgotten before the request is made once more.
Forgotten_Kept(stored) == stored   \* Mutant: it is not
Forgotten(stored) == "none"

AskAgain(c, r) ==
    LET tok == Forgotten(token[r.tab]) IN
    /\ token' = [token EXCEPT ![r.tab] = tok]
    /\ Become(c, Ask(r, r.ask, tok))
    /\ UNCHANGED <<markers, screen, shown>>

\* The withdrawals of App.tsx, once the server has done one: the rows are asked
\* for again.  (Those made without a wallet never reach the server: BrowserLedger.)
Withdrawn(c) ==
    LET t == call[c].tab IN
    /\ Become(c, Ask([NoCall EXCEPT !.kind = "reload", !.tab = t], "call", token[t]))
    /\ UNCHANGED <<markers, token, screen, shown>>

\* authedFetch: one resend after a token that did not match, one after a refresh.
Renewed_Never(r) == FALSE   \* Mutant: any 401 asks for a refresh
Renewed(r) == r.stage = "second"

CallAnswered(c) ==
    LET r == call[c] IN
    /\ r.ask = "call"
    /\ IF Aborted(r) THEN Fails(c)
       ELSE IF r.status = "403" /\ r.stage = "first" THEN AskAgain(c, [r EXCEPT !.stage = "healed"])
       ELSE IF r.status = "401" /\ ~Renewed(r)
       THEN Become(c, Ask(r, "refresh", token[r.tab])) /\ UNCHANGED <<markers, token, screen, shown>>
       ELSE IF r.status # "ok" THEN Fails(c)
       ELSE IF r.kind = "withdraw" /\ LoggedIn THEN Withdrawn(c)
       ELSE /\ Become(c, End(r)) /\ shown' = Shows(r, r.as)
            /\ UNCHANGED <<markers, token, screen>>

\* refreshAccessTokenOrThrow
RefreshAnswered(c) ==
    LET r == call[c] IN
    /\ r.ask = "refresh"
    /\ IF r.status = "403" /\ ~r.again THEN AskAgain(c, [r EXCEPT !.again = TRUE])
       ELSE IF r.status # "ok" THEN ClearsStorage(c)
       ELSE /\ markers' = r.seen.refresh.user
            /\ token' = [token EXCEPT ![r.tab] = r.tok]
            /\ Become(c, IF Aborted(r) THEN End(r)
                         ELSE Ask([r EXCEPT !.stage = "second"], "call", r.tok))
            /\ UNCHANGED <<screen, shown>>

\* login, loginWithWallet and register end alike; a withdrawal goes on with its
\* own call.
Entered(c) ==
    LET r == call[c] IN
    /\ markers' = r.user
    /\ token' = [token EXCEPT ![r.tab] = r.tok]
    /\ screen' = IF r.told THEN [screen EXCEPT ![r.tab] = [user |-> r.user, by |-> c]] ELSE screen
    /\ Become(c, IF r.kind = "withdraw" THEN Ask(r, "call", r.tok) ELSE End(r))
    /\ UNCHANGED shown

LoginAnswered(c) ==
    /\ call[c].ask = "login"
    /\ IF call[c].status = "ok" THEN Entered(c) ELSE Fails(c)

\* The end of clearSession, which does not look at the answer.
LogoutAnswered(c) == call[c].ask = "logout" /\ ClearsStorage(c)

Resume(c) ==
    /\ At(c, IF call[c].ask = "call" THEN "answered" ELSE "arrived")
    /\ CallAnswered(c) \/ RefreshAnswered(c) \/ LoginAnswered(c) \/ LogoutAnswered(c)
    /\ UNCHANGED <<jar, alive, faults, mixed>>

\* Mutant of Lost: a call that was not answered is made once more.
Lost_Resends(c) ==
    /\ call[c].pc \in {"sent", "answered"} /\ Fault
    /\ IF call[c].ask = "logout" THEN ClearsStorage(c)
       ELSE /\ Become(c, Ask(call[c], call[c].ask, token[call[c].tab]))
            /\ UNCHANGED <<markers, token, screen, shown>>
    /\ UNCHANGED <<jar, alive, mixed>>

\* The request does not reach the server, or its answer does not come back: fetch
\* throws, which clearSession catches.
Lost(c) ==
    /\ call[c].pc \in {"sent", "answered"} /\ Fault
    /\ IF call[c].ask = "logout" THEN ClearsStorage(c) ELSE Fails(c)
    /\ UNCHANGED <<jar, alive, mixed>>

-----------------------------------------------------------------------------
Next ==
    \/ Expire
    \/ \E c \in Calls :
          \/ BeginLogin(c) \/ BeginLogout(c) \/ BeginCall(c) \/ BeginLoad(c) \/ BeginWithdraw(c)
          \/ TokenAnswered(c) \/ TokenFails(c)
          \/ Handle(c) \/ Arrive(c) \/ Resume(c) \/ Lost(c)

Spec == Init /\ [][Next]_vars

\* The server answers what reaches it, the network delivers or breaks, and code
\* whose promise is settled goes on.
Fairness ==
    \A c \in Calls : WF_vars(TokenAnswered(c) \/ Handle(c) \/ Arrive(c) \/ Resume(c))

FairSpec == Spec /\ Fairness

-----------------------------------------------------------------------------
(* Properties.                                                             *)

\* However often authedFetch sends a call, its handler runs once at most: what is
\* resent was refused before the handler, and a lost answer is not asked for again.
HandledOnce == \A c \in Calls : call[c].runs <= 1

\* A request that is sent again after its csrf token did not match, or after a
\* refresh, matches, in spite of the tabs' own copies of the token; unless another
\* answer changed the cookie after this tab had learned of the new token.
ResendsMatch ==
    \A c \in Calls :
        LET r == call[c]
            resent == \/ r.ask = "call" /\ r.unsafe /\ r.stage # "first"
                      \/ r.ask = "refresh" /\ r.again
        IN At(c, "sent") /\ resent /\ ~r.overtaken => r.seen.csrf

\* The rows a tab has loaded for its session are those of the session's user, when
\* no action of the user is under way, and a withdrawal from these rows is taken
\* from their account, through expiries, refreshes and logins; unless one of the
\* three things in "mixed" happened: the user's own actions overlapped, a screen
\* was not told of a login to another account, or a refresh of a former login
\* arrived after it.
TheScreenTellsTheAccount ==
    ~mixed =>
        /\ ~Busy => \A t \in Tabs : Loaded(t) => shown[t] \in {None, screen[t].user}
        /\ \A c \in Calls : call[c].kind = "withdraw" /\ call[c].runs > 0 => call[c].as = call[c].rows

\* Every operation of a tab ends, also when the access token expires again and
\* again.
CallsSettle == \A c \in Calls : ~At(c, "idle") ~> At(c, "ended")

=============================================================================

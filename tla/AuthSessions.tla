----------------------------- MODULE AuthSessions -----------------------------
(***************************************************************************)
(* Registration, password and wallet login, refresh, logout and linked     *)
(* wallets: server/auth.ts, server/userWallets.ts, and in server/index.ts  *)
(* the /api/auth routes and POST /api/account/wallets.                     *)
(*                                                                         *)
(* Accounts, refresh sessions and linked wallets are tables and survive a  *)
(* restart; login challenges live in the memory of the process.  A request *)
(* issues at most one refresh token, and tokens are random, so a token is  *)
(* named by the request that issued it.  Only an answer tells a client its *)
(* token: refresh and logout present the token of an answered login.       *)
(***************************************************************************)
EXTENDS Integers, FiniteSets

CONSTANTS
  Users,          \* usernames
  Passwords,      \* passwords that a client may send
  Random,         \* the password of a wallet account, which nobody knows
  Seeded,         \* the users table at the start: username -> password
  Wallets,        \* wallet addresses in their normal form
  Ethereum,       \* the wallets whose signature is recovered asynchronously
  NameOf,         \* the username made out of a wallet's address
  Spellings,      \* addresses as clients send them (letter case, blanks)
  WalletOf,       \* the wallet that a spelling normalises to
  PrefixOf,       \* the first six characters of a spelling
  Nonces,         \* random nonces of login challenges
  Requests,       \* HTTP requests
  Calls,          \* what a login, a registration or a link may ask for
  ChallengeTtl,   \* WALLET_CHALLENGE_TTL_MS
  SessionTtl,     \* REFRESH_EXPIRES_DAYS
  MaxTime         \* bound: last reading of the clock

Logins == {"wallet", "login", "register"}

\* A wallet login says its `spelling`, `nonce` and whether the signature over the
\* challenge's message is the wallet's own (`genuine`); a login or registration
\* its `user` and `password`; a "link" adds a wallet to the user who is logged in.
Call == [op : Logins \cup {"link"}, user : Users, password : Passwords,
         spelling : Spellings, nonce : Nonces, genuine : BOOLEAN]

ASSUME CallsAssumption == Calls \subseteq Call
ASSUME AccountsAssumption ==
  /\ NameOf \in [Wallets -> Users]
  /\ WalletOf \in [Spellings -> Wallets]
  /\ Ethereum \subseteq Wallets
  /\ Random \notin Passwords
  /\ DOMAIN Seeded \subseteq Users
  /\ \A u \in DOMAIN Seeded : Seeded[u] \in Passwords \cup {Random}
ASSUME TimeAssumption == {ChallengeTtl, SessionTtl} \subseteq Nat \ {0} /\ MaxTime \in Nat

VARIABLES
  now,        \* the clock
  challenge,  \* walletLoginChallenges: nonce -> wallet and expiry
  drawn,      \* history: nonce -> the wallet it was drawn for
  account,    \* the users table: username -> password
  session,    \* the refresh_sessions table: id -> row
  link,       \* the user_wallets table
  call,       \* what each request asked for
  pc,         \* the await each request is suspended at, or its outcome
  at,         \* the time a request has read for the row it is about to insert
  seen,       \* the session row a refresh has read, as a set of at most one
  late        \* history: the refresh arrived after an answered logout of its token

requestVars == <<call, at, seen, late>>
vars == <<now, challenge, drawn, account, session, link, pc, requestVars>>

Ok == "ok"
Outcomes == {"ok", "refused", "failed", "lost"}
\* Awaits of a database call, which may reject; "recover" awaits a computation.
InDatabase == {"findUser", "createUser", "reread", "issue", "insertLink", "selectLink",
               "findSession", "checkSession", "revoke"}
InFlight == InDatabase \cup {"recover"}

Times     == 0 .. MaxTime
Challenge == [wallet : Wallets, expiresAt : 0 .. MaxTime + ChallengeTtl]
Session   == [token : Requests, user : Users, expiresAt : 0 .. MaxTime + SessionTtl, revoked : BOOLEAN]

\* A refresh or a logout comes with a token.
Presenting(op, t) == [op |-> op, token |-> t]
NoCall == [op |-> "none"]
Asked  == Calls \cup [op : {"refresh", "logout"}, token : Requests] \cup {NoCall}

TypeOK ==
  /\ now \in Times
  /\ DOMAIN challenge \subseteq DOMAIN drawn
  /\ \A n \in DOMAIN challenge : challenge[n] \in Challenge
  /\ DOMAIN drawn \subseteq Nonces
  /\ \A n \in DOMAIN drawn : drawn[n] \in Wallets
  /\ DOMAIN account \subseteq Users
  /\ \A u \in DOMAIN account : account[u] \in Passwords \cup {Random}
  /\ DOMAIN session \subseteq Times
  /\ \A i \in DOMAIN session : session[i] \in Session
  /\ \A w \in link : w.user \in Users /\ w.spelling \in Spellings
  /\ call \in [Requests -> Asked]
  /\ pc \in [Requests -> {"idle"} \cup InFlight \cup Outcomes]
  /\ at \in [Requests -> Times]
  /\ seen \in [Requests -> SUBSET Session]
  /\ late \in [Requests -> BOOLEAN]

Init ==
  /\ now = 0
  /\ challenge = [n \in {} |-> 0]
  /\ drawn = [n \in {} |-> 0]
  /\ account = Seeded
  /\ session = [i \in {} |-> 0]
  /\ link = {}
  /\ call = [r \in Requests |-> NoCall]
  /\ pc = [r \in Requests |-> "idle"]
  /\ at = [r \in Requests |-> 0]
  /\ seen = [r \in Requests |-> {}]
  /\ late = [r \in Requests |-> FALSE]

-----------------------------------------------------------------------------
(* Helpers *)

Goto(r, from, to) == pc[r] = from /\ pc' = [pc EXCEPT ![r] = to]

\* A table or map f with the entry x -> y added.
With(f, x, y) == [z \in DOMAIN f \cup {x} |-> IF z = x THEN y ELSE f[z]]

\* The username a login is about.
Name(c) == IF c.op = "wallet" THEN NameOf[WalletOf[c.spelling]] ELSE c.user

IsWallet(r) == call[r].op = "wallet"

LinksWallet(r) == call[r].op \in {"wallet", "link"}

\* A call c comes in as request r and goes on at `next`.
Arrive(r, c, op, next) ==
  /\ c.op = op
  /\ Goto(r, "idle", next)
  /\ call' = [call EXCEPT ![r] = c]
  /\ UNCHANGED <<now, drawn, account, session, link, seen, late>>

\* A request that reads the clock for the row it inserts next.
Stamp(r) == at' = [at EXCEPT ![r] = now]

\* The requests that were answered with a token.
Answered == {t \in Requests : pc[t] = Ok /\ call[t].op \in Logins}

-----------------------------------------------------------------------------
(* Wallet login *)

\* POST /api/auth/wallet/challenge, synchronous.
CreateChallenge(n, w) ==
  /\ n \notin DOMAIN drawn
  /\ drawn' = With(drawn, n, w)
  /\ challenge' = With(challenge, n, [wallet |-> w, expiresAt |-> now + ChallengeTtl])
  /\ UNCHANGED <<now, account, session, link, pc, requestVars>>

\* The challenge that the login c may use now.
Matches(c) ==
  /\ c.nonce \in DOMAIN challenge
  /\ challenge[c.nonce].wallet = WalletOf[c.spelling]
  /\ challenge[c.nonce].expiresAt >= now

AfterChallenge(c) ==
  IF Matches(c) /\ WalletOf[c.spelling] \in Ethereum THEN "recover"
  ELSE IF Matches(c) /\ c.genuine THEN "findUser"
  ELSE "refused"

\* POST /api/auth/wallet up to its first await: the challenge is looked up and
\* deleted, whatever comes of it; a Solana signature is verified at once.
WalletLogin_KeepsChallenge(r, c) ==
  /\ Arrive(r, c, "wallet", AfterChallenge(c))
  /\ UNCHANGED <<challenge, at>>

WalletLogin(r, c) ==
  /\ Arrive(r, c, "wallet", AfterChallenge(c))
  /\ challenge' = [n \in DOMAIN challenge \ {c.nonce} |-> challenge[n]]
  /\ UNCHANGED at

\* recoverMessageAddress has settled; its rejection is a refusal, too.
Recover_IgnoresVerdict(r) ==
  /\ Goto(r, "recover", "findUser")
  /\ UNCHANGED <<now, challenge, drawn, account, session, link, requestVars>>

Recover(r) ==
  /\ Goto(r, "recover", IF call[r].genuine THEN "findUser" ELSE "refused")
  /\ UNCHANGED <<now, challenge, drawn, account, session, link, requestVars>>

\* The lookup before a wallet's account is created; a known one goes on to its token.
FindWalletUser(r) ==
  LET known == Name(call[r]) \in DOMAIN account
  IN /\ IsWallet(r)
     /\ Goto(r, "findUser", IF known THEN "issue" ELSE "createUser")
     /\ IF known THEN Stamp(r) ELSE UNCHANGED at
     /\ UNCHANGED <<now, challenge, drawn, account, session, link, call, seen, late>>

\* The insert of a wallet's account: when another login was faster, the unique
\* username rejects it, and no handler catches that.
CreateWalletUser(r) ==
  LET u == Name(call[r])
  IN /\ IsWallet(r)
     /\ Goto(r, "createUser", IF u \in DOMAIN account THEN "failed" ELSE "reread")
     /\ account' = IF u \in DOMAIN account THEN account ELSE With(account, u, Random)
     /\ UNCHANGED <<now, challenge, drawn, session, link, requestVars>>

\* findUniqueOrThrow after the insert.
Reread(r) ==
  /\ Goto(r, "reread", "issue")
  /\ Stamp(r)
  /\ UNCHANGED <<now, challenge, drawn, account, session, link, call, seen, late>>

-----------------------------------------------------------------------------
(* Password login and registration *)

Login(r, c) == Arrive(r, c, "login", "findUser") /\ UNCHANGED <<challenge, at>>

Register(r, c) == Arrive(r, c, "register", "createUser") /\ UNCHANGED <<challenge, at>>

\* registerUser: a taken username is an answer; otherwise authenticate follows.
RegisterUser_TakenIsFine(r) ==
  LET c == call[r]
  IN /\ c.op = "register"
     /\ Goto(r, "createUser", "findUser")
     /\ account' = IF c.user \in DOMAIN account THEN account ELSE With(account, c.user, c.password)
     /\ UNCHANGED <<now, challenge, drawn, session, link, requestVars>>

RegisterUser(r) ==
  LET c == call[r]
  IN /\ c.op = "register"
     /\ Goto(r, "createUser", IF c.user \in DOMAIN account THEN "refused" ELSE "findUser")
     /\ account' = IF c.user \in DOMAIN account THEN account ELSE With(account, c.user, c.password)
     /\ UNCHANGED <<now, challenge, drawn, session, link, requestVars>>

\* authenticate: the account is read and the password compared.
FindPasswordUser(r) ==
  LET c     == call[r]
      match == c.user \in DOMAIN account /\ account[c.user] = c.password
  IN /\ c.op \in {"login", "register"}
     /\ Goto(r, "findUser", IF match THEN "issue" ELSE "refused")
     /\ IF match THEN Stamp(r) ELSE UNCHANGED at
     /\ UNCHANGED <<now, challenge, drawn, account, session, link, call, seen, late>>

-----------------------------------------------------------------------------
(* The refresh token and the linked wallet *)

NewSession(r) ==
  [token |-> r, user |-> Name(call[r]), expiresAt |-> at[r] + SessionTtl, revoked |-> FALSE]

\* issueRefreshToken: the id is the millisecond, and a second session of one
\* millisecond is rejected.  A password login is answered after it; a wallet
\* login goes on to link the wallet.
IssueToken_Upserts(r) ==
  /\ Goto(r, "issue", IF IsWallet(r) THEN "insertLink" ELSE Ok)
  /\ session' = With(session, at[r], NewSession(r))
  /\ IF IsWallet(r) THEN Stamp(r) ELSE UNCHANGED at
  /\ UNCHANGED <<now, challenge, drawn, account, link, call, seen, late>>

IssueToken(r) ==
  \/ /\ at[r] \notin DOMAIN session
     /\ Goto(r, "issue", IF IsWallet(r) THEN "insertLink" ELSE Ok)
     /\ session' = With(session, at[r], NewSession(r))
     /\ IF IsWallet(r) THEN Stamp(r) ELSE UNCHANGED at
     /\ UNCHANGED <<now, challenge, drawn, account, link, call, seen, late>>
  \/ /\ at[r] \in DOMAIN session
     /\ Goto(r, "issue", "failed")
     /\ UNCHANGED <<now, challenge, drawn, account, session, link, requestVars>>

\* POST /api/account/wallets: the access token names an account.
LinkWallet(r, c) ==
  /\ Arrive(r, c, "link", "insertLink")
  /\ c.user \in DOMAIN account
  /\ Stamp(r)
  /\ UNCHANGED challenge

\* The row linkUserWallet inserts, with the address as the client spelled it.
LinkRow(r) ==
  [id |-> <<at[r], PrefixOf[call[r].spelling]>>, user |-> Name(call[r]), spelling |-> call[r].spelling]

Linked(r) == \E w \in link : w.user = Name(call[r]) /\ w.spelling = call[r].spelling

\* INSERT OR IGNORE: a row of the same id, or of the same user and address, stays.
InsertLink(r) ==
  /\ Goto(r, "insertLink", "selectLink")
  /\ link' = IF Linked(r) \/ \E w \in link : w.id = LinkRow(r).id THEN link ELSE link \cup {LinkRow(r)}
  /\ UNCHANGED <<now, challenge, drawn, account, session, requestVars>>

\* The row is read back; when another row's id has displaced it, the handler throws.
SelectLink(r) ==
  /\ Goto(r, "selectLink", IF Linked(r) THEN Ok ELSE "failed")
  /\ UNCHANGED <<now, challenge, drawn, account, session, link, requestVars>>

-----------------------------------------------------------------------------
(* Refresh and logout *)

\* A request arrives with the cookie of an answered login.
Present(r, op, t, next) ==
  /\ t \in Answered
  /\ Goto(r, "idle", next)
  /\ call' = [call EXCEPT ![r] = Presenting(op, t)]
  /\ UNCHANGED <<now, challenge, drawn, account, session, link, at, seen>>

\* A logout with the token t was answered.
LoggedOut(t) == \E q \in Requests : call[q] = Presenting("logout", t) /\ pc[q] = Ok

Refresh(r, t) ==
  /\ Present(r, "refresh", t, "findSession")
  /\ late' = [late EXCEPT ![r] = LoggedOut(t)]

Logout(r, t) == Present(r, "logout", t, "revoke") /\ UNCHANGED late

\* The session of the presented token is read.
FindSession(r) ==
  /\ Goto(r, "findSession", "checkSession")
  /\ seen' = [seen EXCEPT ![r] = {session[i] : i \in {j \in DOMAIN session : session[j].token = call[r].token}}]
  /\ UNCHANGED <<now, challenge, drawn, account, session, link, call, at, late>>

\* The copy of the row that was read is checked, and its user looked up.
CheckSession_NoRevocation(r) ==
  LET usable == \E s \in seen[r] : s.expiresAt > now /\ s.user \in DOMAIN account
  IN /\ Goto(r, "checkSession", IF usable THEN Ok ELSE "refused")
     /\ UNCHANGED <<now, challenge, drawn, account, session, link, requestVars>>

CheckSession(r) ==
  LET usable == \E s \in seen[r] : ~s.revoked /\ s.expiresAt > now /\ s.user \in DOMAIN account
  IN /\ Goto(r, "checkSession", IF usable THEN Ok ELSE "refused")
     /\ UNCHANGED <<now, challenge, drawn, account, session, link, requestVars>>

\* revokeRefreshToken: updateMany by the token's hash.
Revoke(r) ==
  /\ Goto(r, "revoke", Ok)
  /\ session' = [i \in DOMAIN session |->
                   IF session[i].token = call[r].token THEN [session[i] EXCEPT !.revoked = TRUE] ELSE session[i]]
  /\ UNCHANGED <<now, challenge, drawn, account, link, requestVars>>

-----------------------------------------------------------------------------
(* The environment *)

Tick ==
  /\ now < MaxTime
  /\ now' = now + 1
  /\ UNCHANGED <<challenge, drawn, account, session, link, pc, requestVars>>

\* A database call rejects without effect: 500.
DbError(r) ==
  /\ pc[r] \in InDatabase
  /\ pc' = [pc EXCEPT ![r] = "failed"]
  /\ UNCHANGED <<now, challenge, drawn, account, session, link, requestVars>>

\* The process ends and starts again: tables stay, memory is lost.
Restart ==
  /\ pc' = [r \in Requests |-> IF pc[r] \in InFlight THEN "lost" ELSE pc[r]]
  /\ challenge' = [n \in {} |-> 0]
  /\ UNCHANGED <<now, drawn, account, session, link, requestVars>>

ArriveStep(r) ==
  \/ \E c \in Calls : WalletLogin(r, c) \/ Login(r, c) \/ Register(r, c) \/ LinkWallet(r, c)
  \/ \E t \in Requests : Refresh(r, t) \/ Logout(r, t)

LoginStep(r) ==
  \/ Recover(r) \/ FindWalletUser(r) \/ CreateWalletUser(r) \/ Reread(r)
  \/ RegisterUser(r) \/ FindPasswordUser(r)
  \/ IssueToken(r) \/ InsertLink(r) \/ SelectLink(r)

SessionStep(r) == FindSession(r) \/ CheckSession(r) \/ Revoke(r)

Next ==
  \/ \E n \in Nonces, w \in Wallets : CreateChallenge(n, w)
  \/ \E r \in Requests : ArriveStep(r) \/ LoginStep(r) \/ SessionStep(r) \/ DbError(r)
  \/ Tick
  \/ Restart

Spec == Init /\ [][Next]_vars

-----------------------------------------------------------------------------
(* Safety *)

\* A login challenge logs in at most once, however the logins overlap and even
\* while a signature is being recovered, and across a restart (auth.ts:219).
NonceLogsInOnce ==
  \A q, r \in Requests :
    IsWallet(q) /\ IsWallet(r) /\ pc[q] = Ok /\ pc[r] = Ok /\ call[q].nonce = call[r].nonce => q = r

\* A login r has shown what it takes: the wallet's signature over a challenge that
\* was drawn for this wallet, or the password of the account.
Earned(r) ==
  LET c == call[r]
  IN IF IsWallet(r)
     THEN /\ c.genuine
          /\ c.nonce \in DOMAIN drawn
          /\ drawn[c.nonce] = WalletOf[c.spelling]
     ELSE /\ c.op \in {"login", "register"}
          /\ account[c.user] = c.password

\* No session row exists without a login that has earned it, for the user that the
\* login was about: not for a login that failed later, was overtaken or lost.
SessionsAreEarned ==
  \A i \in DOMAIN session :
    LET r == session[i].token IN Earned(r) /\ session[i].user = Name(call[r])

\* A refresh that arrives after an answered logout of its token gets nothing,
\* also after a restart (revokeRefreshToken, auth.ts:323).  One that was under
\* way may still succeed.
LogoutIsFinal == \A r \in Requests : late[r] => pc[r] # Ok

\* Of all registrations of a username at most one succeeds, and the account keeps
\* the password of that one (auth.ts:179).
OneRegistration ==
  \A q, r \in Requests :
    call[q].op = "register" /\ pc[q] = Ok =>
      /\ account[call[q].user] = call[q].password
      /\ call[r].op = "register" /\ pc[r] = Ok /\ call[r].user = call[q].user => q = r

\* Behind an answered login stand the account and a session with its token, and
\* behind an answered link, or a wallet login, the linked address: ids made of the
\* clock never cost an answered request its row (auth.ts:145, userWallets.ts:38).
AnswersAreBacked ==
  \A r \in Requests : pc[r] = Ok =>
    /\ call[r].op \in Logins =>
         /\ Name(call[r]) \in DOMAIN account
         /\ \E i \in DOMAIN session : session[i].token = r /\ session[i].user = Name(call[r])
    /\ LinksWallet(r) => Linked(r)
==============================================================================

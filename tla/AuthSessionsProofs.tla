-------------------------- MODULE AuthSessionsProofs --------------------------
(***************************************************************************)
(* The safety properties of AuthSessions, for all users, wallets, nonces,  *)
(* requests, calls and bounds.                                             *)
(*                                                                         *)
(* The properties speak of answered requests; the invariant says what a    *)
(* suspended request may still do.  RequestInv(r) relates the await of r   *)
(* to the tables, TableInv the rows to the requests they name, PairInv is  *)
(* what two requests cannot both be.  A step belongs to one request:       *)
(* Frame says in which direction it can move the tables, and that alone    *)
(* keeps the invariant of all other requests (OthersUndisturbed).          *)
(***************************************************************************)
EXTENDS AuthSessions, TLAPS

\* A wallet login whose challenge was found and matched.
Accepted(r) == IsWallet(r) /\ pc[r] \notin {"idle", "refused"}

\* A registration that has inserted its account and may still succeed.
Registered(r) == call[r].op = "register" /\ pc[r] \in {"findUser", "issue", Ok}

HasSession(r) == \E i \in DOMAIN session : session[i].token = r /\ session[i].user = Name(call[r])

\* Where a request of each kind can be suspended.
StageInv(r) ==
  /\ pc[r] = "idle" => call[r] = NoCall /\ seen[r] = {} /\ ~late[r]
  /\ pc[r] \in {"recover", "reread"} => IsWallet(r)
  /\ pc[r] \in {"insertLink", "selectLink"} => LinksWallet(r)
  /\ pc[r] \in {"findUser", "createUser", "issue"} => call[r].op \in Logins
  /\ pc[r] \in {"findSession", "checkSession"} => call[r].op = "refresh"
  /\ pc[r] = "revoke" => call[r].op = "logout"

\* What a login has to show at each stage, and what it has left behind.
LoginInv(r) ==
  /\ Accepted(r) => /\ call[r].nonce \in DOMAIN drawn
                    /\ call[r].nonce \notin DOMAIN challenge
                    /\ drawn[call[r].nonce] = WalletOf[call[r].spelling]
  /\ IsWallet(r) /\ pc[r] \in {"findUser", "createUser", "reread", "issue"} => call[r].genuine
  /\ ~IsWallet(r) /\ pc[r] = "issue" => account[call[r].user] = call[r].password
  /\ pc[r] \in {"reread", "issue", "insertLink", "selectLink"} \/ r \in Answered
       => Name(call[r]) \in DOMAIN account
  /\ (pc[r] \in {"insertLink", "selectLink"} /\ IsWallet(r)) \/ r \in Answered => HasSession(r)
  /\ pc[r] = Ok /\ LinksWallet(r) => Linked(r)
  /\ Registered(r) => /\ call[r].user \in DOMAIN account
                      /\ account[call[r].user] = call[r].password

\* A refresh or logout is about an answered login; a logout that was answered
\* has revoked its sessions, and a late refresh cannot have read another one.
SessionInv(r) ==
  /\ call[r].op \in {"refresh", "logout"} => call[r].token \in Answered
  /\ call[r].op = "logout" /\ pc[r] = Ok
       => \A i \in DOMAIN session : session[i].token = call[r].token => session[i].revoked
  /\ late[r] => /\ call[r].op = "refresh"
                /\ LoggedOut(call[r].token)
                /\ \A s \in seen[r] : s.revoked
                /\ pc[r] # Ok

RequestInv(r) == StageInv(r) /\ LoginInv(r) /\ SessionInv(r)

After == {"insertLink", "selectLink", Ok, "failed", "lost"}

\* A session row is that of a login which has earned it and got past its insert.
RowInv(i) ==
  \E t \in Requests :
    /\ session[i].token = t
    /\ call[t].op \in Logins
    /\ pc[t] \in After
    /\ Name(call[t]) \in DOMAIN account
    /\ Earned(t)
    /\ session[i].user = Name(call[t])

TableInv ==
  /\ \A n \in DOMAIN challenge : challenge[n].wallet = drawn[n]
  /\ \A i \in DOMAIN session : RowInv(i)

PairInv ==
  \A q, r \in Requests :
    \/ q = r
    \/ /\ ~(Accepted(q) /\ Accepted(r) /\ call[q].nonce = call[r].nonce)
       /\ ~(Registered(q) /\ Registered(r) /\ call[q].user = call[r].user)

AInv == TypeOK /\ (\A r \in Requests : RequestInv(r)) /\ TableInv /\ PairInv

-----------------------------------------------------------------------------
(* Types *)

\* The record of a login or link has all fields of a call.
LEMMA CallFields ==
  ASSUME TypeOK, NEW r \in Requests, call[r].op \in Logins \cup {"link"}
  PROVE  call[r] \in Call
BY CallsAssumption DEF TypeOK, Asked, NoCall, Logins

LEMMA NameIsUser ==
  ASSUME NEW c \in Call
  PROVE  Name(c) \in Users
BY AccountsAssumption DEF Call, Name

LEMMA TypeKeptByChallenge ==
  ASSUME TypeOK, NEW n \in Nonces, NEW w \in Wallets, CreateChallenge(n, w)
  PROVE  TypeOK'
<1>1. DOMAIN challenge' \subseteq DOMAIN drawn' /\ DOMAIN drawn' \subseteq Nonces
  BY DEF CreateChallenge, TypeOK, With
<1>2. \A m \in DOMAIN drawn' : drawn'[m] \in Wallets
  BY DEF CreateChallenge, TypeOK, With
<1>3. [wallet |-> w, expiresAt |-> now + ChallengeTtl] \in Challenge
  BY TimeAssumption DEF TypeOK, Times, Challenge
<1>4. \A m \in DOMAIN challenge' : challenge'[m] \in Challenge
  BY <1>3 DEF CreateChallenge, TypeOK, With
<1> QED BY <1>1, <1>2, <1>4 DEF CreateChallenge, TypeOK, requestVars

\* What all steps of a request have in common.
LEMMA GotoTyped ==
  ASSUME TypeOK, NEW r \in Requests, NEW from, NEW to \in {"idle"} \cup InFlight \cup Outcomes,
         Goto(r, from, to)
  PROVE  pc' \in [Requests -> {"idle"} \cup InFlight \cup Outcomes]
BY DEF TypeOK, Goto

LEMMA StampTyped ==
  ASSUME TypeOK, NEW r \in Requests, Stamp(r) \/ UNCHANGED at
  PROVE  at' \in [Requests -> Times]
BY DEF TypeOK, Stamp

LEMMA ArriveTyped ==
  ASSUME TypeOK, NEW r \in Requests, NEW c \in Calls, NEW op,
         NEW to \in {"idle"} \cup InFlight \cup Outcomes, Arrive(r, c, op, to)
  PROVE  /\ call' \in [Requests -> Asked]
         /\ pc' \in [Requests -> {"idle"} \cup InFlight \cup Outcomes]
         /\ UNCHANGED <<now, drawn, account, session, link, seen, late>>
<1>1. pc' \in [Requests -> {"idle"} \cup InFlight \cup Outcomes]
  BY GotoTyped DEF Arrive
<1>2. call' \in [Requests -> Asked]
  BY DEF Arrive, TypeOK, Asked
<1> QED BY <1>1, <1>2 DEF Arrive

LEMMA TypeKeptByArrival ==
  ASSUME TypeOK, NEW r \in Requests, ArriveStep(r)
  PROVE  TypeOK'
<1>1. ASSUME NEW c \in Calls, WalletLogin(r, c) PROVE TypeOK'
  <2>1. AfterChallenge(c) \in {"idle"} \cup InFlight \cup Outcomes
    BY DEF AfterChallenge, InFlight, InDatabase, Outcomes
  <2>2. /\ call' \in [Requests -> Asked]
        /\ pc' \in [Requests -> {"idle"} \cup InFlight \cup Outcomes]
        /\ UNCHANGED <<now, drawn, account, session, link, seen, late>>
    BY <1>1, <2>1, ArriveTyped DEF WalletLogin
  <2> QED BY <1>1, <2>2 DEF WalletLogin, TypeOK
<1>2. ASSUME NEW c \in Calls, Login(r, c) \/ Register(r, c) PROVE TypeOK'
  <2>1. /\ call' \in [Requests -> Asked]
        /\ pc' \in [Requests -> {"idle"} \cup InFlight \cup Outcomes]
        /\ UNCHANGED <<now, drawn, account, session, link, seen, late>>
    BY <1>2, ArriveTyped DEF Login, Register, InFlight, InDatabase
  <2> QED BY <1>2, <2>1 DEF Login, Register, TypeOK
<1>3. ASSUME NEW t \in Requests, Refresh(r, t) \/ Logout(r, t) PROVE TypeOK'
  <2>1. PICK op \in {"refresh", "logout"}, to \in {"findSession", "revoke"} : Present(r, op, t, to)
    BY <1>3 DEF Refresh, Logout
  <2>2. pc' \in [Requests -> {"idle"} \cup InFlight \cup Outcomes]
    BY <2>1, GotoTyped DEF Present, InFlight, InDatabase
  <2>3. call' \in [Requests -> Asked]
    BY <2>1 DEF Present, Presenting, TypeOK, Asked
  <2>4. late' \in [Requests -> BOOLEAN]
    BY <1>3 DEF Refresh, Logout, TypeOK, LoggedOut
  <2> QED BY <2>1, <2>2, <2>3, <2>4 DEF Present, TypeOK
<1>4. ASSUME NEW c \in Calls, LinkWallet(r, c) PROVE TypeOK'
  <2>1. /\ call' \in [Requests -> Asked]
        /\ pc' \in [Requests -> {"idle"} \cup InFlight \cup Outcomes]
        /\ UNCHANGED <<now, drawn, account, session, link, seen, late>>
    BY <1>4, ArriveTyped DEF LinkWallet, InFlight, InDatabase
  <2>2. at' \in [Requests -> Times]
    BY <1>4, StampTyped DEF LinkWallet
  <2> QED BY <1>4, <2>1, <2>2 DEF LinkWallet, TypeOK
<1> QED BY <1>1, <1>2, <1>3, <1>4 DEF ArriveStep

LEMMA TypeKeptByLogin ==
  ASSUME TypeOK, NEW r \in Requests, StageInv(r), LoginStep(r)
  PROVE  TypeOK'
<1> DEFINE Places == {"idle"} \cup InFlight \cup Outcomes
<1>1. ASSUME Recover(r) \/ SelectLink(r) PROVE TypeOK'
  <2>1. pc' \in [Requests -> Places]
    BY <1>1, GotoTyped DEF Recover, SelectLink, InFlight, InDatabase, Outcomes, Ok
  <2> QED BY <1>1, <2>1 DEF Recover, SelectLink, TypeOK, requestVars
<1>2. ASSUME FindWalletUser(r) \/ Reread(r) \/ FindPasswordUser(r) PROVE TypeOK'
  <2>1. pc' \in [Requests -> Places]
    BY <1>2, GotoTyped DEF FindWalletUser, Reread, FindPasswordUser, InFlight, InDatabase, Outcomes
  <2>2. at' \in [Requests -> Times]
    BY <1>2, StampTyped DEF FindWalletUser, Reread, FindPasswordUser
  <2> QED BY <1>2, <2>1, <2>2 DEF FindWalletUser, Reread, FindPasswordUser, TypeOK
<1>3. ASSUME CreateWalletUser(r) PROVE TypeOK'
  <2>1. pc' \in [Requests -> Places]
    BY <1>3, GotoTyped DEF CreateWalletUser, InFlight, InDatabase, Outcomes
  <2>2. call[r] \in Call
    BY <1>3, CallFields DEF CreateWalletUser, IsWallet, Logins
  <2>3. Name(call[r]) \in Users
    BY <2>2, NameIsUser
  <2>4. DOMAIN account' \subseteq Users /\ \A u \in DOMAIN account' : account'[u] \in Passwords \cup {Random}
    BY <1>3, <2>3 DEF CreateWalletUser, TypeOK, With
  <2> QED BY <1>3, <2>1, <2>4 DEF CreateWalletUser, TypeOK, requestVars
<1>4. ASSUME RegisterUser(r) PROVE TypeOK'
  <2>1. pc' \in [Requests -> Places]
    BY <1>4, GotoTyped DEF RegisterUser, InFlight, InDatabase, Outcomes
  <2>2. call[r] \in Call
    BY <1>4, CallFields DEF RegisterUser, Logins
  <2>3. call[r].user \in Users /\ call[r].password \in Passwords
    BY <2>2 DEF Call
  <2>4. DOMAIN account' \subseteq Users /\ \A u \in DOMAIN account' : account'[u] \in Passwords \cup {Random}
    BY <1>4, <2>3 DEF RegisterUser, TypeOK, With
  <2> QED BY <1>4, <2>1, <2>4 DEF RegisterUser, TypeOK, requestVars
<1>5. ASSUME IssueToken(r) PROVE TypeOK'
  <2>1. pc' \in [Requests -> Places]
    BY <1>5, GotoTyped DEF IssueToken, InFlight, InDatabase, Outcomes, Ok
  <2>2. at' \in [Requests -> Times]
    BY <1>5, StampTyped DEF IssueToken, requestVars
  <2>3. call[r] \in Call
    BY <1>5, CallFields DEF IssueToken, StageInv, Goto
  <2>4. NewSession(r) \in Session
    BY <2>3, NameIsUser, TimeAssumption DEF NewSession, Session, TypeOK, Times
  <2>5. DOMAIN session' \subseteq Times /\ \A i \in DOMAIN session' : session'[i] \in Session
    BY <1>5, <2>4 DEF IssueToken, TypeOK, With
  <2> QED BY <1>5, <2>1, <2>2, <2>5 DEF IssueToken, TypeOK, requestVars
<1>6. ASSUME InsertLink(r) PROVE TypeOK'
  <2>1. pc' \in [Requests -> Places]
    BY <1>6, GotoTyped DEF InsertLink, InFlight, InDatabase
  <2>2. call[r] \in Call
    BY <1>6, CallFields DEF InsertLink, Goto, StageInv, LinksWallet, Logins
  <2>3. LinkRow(r).user \in Users /\ LinkRow(r).spelling \in Spellings
    BY <2>2, NameIsUser DEF LinkRow, Call
  <2>4. \A w \in link' : w.user \in Users /\ w.spelling \in Spellings
    BY <1>6, <2>3 DEF InsertLink, TypeOK
  <2> QED BY <1>6, <2>1, <2>4 DEF InsertLink, TypeOK, requestVars
<1> QED BY <1>1, <1>2, <1>3, <1>4, <1>5, <1>6 DEF LoginStep

LEMMA TypeKeptBySession ==
  ASSUME TypeOK, NEW r \in Requests, SessionStep(r) \/ DbError(r)
  PROVE  TypeOK'
<1> DEFINE Places == {"idle"} \cup InFlight \cup Outcomes
<1>1. ASSUME FindSession(r) PROVE TypeOK'
  <2>1. pc' \in [Requests -> Places]
    BY <1>1, GotoTyped DEF FindSession, InFlight, InDatabase
  <2>2. {session[i] : i \in {j \in DOMAIN session : session[j].token = call[r].token}} \subseteq Session
    BY DEF TypeOK
  <2>3. seen' \in [Requests -> SUBSET Session]
    BY <1>1, <2>2 DEF FindSession, TypeOK
  <2> QED BY <1>1, <2>1, <2>3 DEF FindSession, TypeOK
<1>2. ASSUME CheckSession(r) PROVE TypeOK'
  <2>1. pc' \in [Requests -> Places]
    BY <1>2, GotoTyped DEF CheckSession, InFlight, InDatabase, Outcomes, Ok
  <2> QED BY <1>2, <2>1 DEF CheckSession, TypeOK, requestVars
<1>3. ASSUME Revoke(r) PROVE TypeOK'
  <2>1. pc' \in [Requests -> Places]
    BY <1>3, GotoTyped DEF Revoke, InFlight, InDatabase, Outcomes, Ok
  <2>2. ASSUME NEW i \in DOMAIN session'
        PROVE  i \in Times /\ session'[i] \in Session
    <3>1. i \in Times /\ session[i] \in Session
      BY <1>3, <2>2 DEF Revoke, TypeOK
    <3>2. session'[i] = session[i] \/ session'[i] = [session[i] EXCEPT !.revoked = TRUE]
      BY <1>3, <2>2 DEF Revoke
    <3> QED BY <3>1, <3>2 DEF Session
  <2>3. DOMAIN session' \subseteq Times /\ \A i \in DOMAIN session' : session'[i] \in Session
    BY <2>2
  <2> QED BY <1>3, <2>1, <2>3 DEF Revoke, TypeOK, requestVars
<1>4. ASSUME DbError(r) PROVE TypeOK'
  BY <1>4 DEF DbError, TypeOK, Outcomes, requestVars
<1> QED BY <1>1, <1>2, <1>3, <1>4 DEF SessionStep

-----------------------------------------------------------------------------
(* What a step of one request does to the others *)

\* A step of r moves r alone; accounts stay as they are, challenges disappear,
\* sessions keep their token and user and are only ever revoked, and a new
\* session belongs to r.
Frame(r) ==
  /\ \A q \in Requests \ {r} :
       pc'[q] = pc[q] /\ call'[q] = call[q] /\ seen'[q] = seen[q] /\ late'[q] = late[q]
  /\ pc[r] \notin Outcomes
  /\ pc[r] # "idle" => call'[r] = call[r]
  /\ \A u \in DOMAIN account : u \in DOMAIN account' /\ account'[u] = account[u]
  /\ drawn' = drawn
  /\ \A n \in DOMAIN challenge' : n \in DOMAIN challenge /\ challenge'[n] = challenge[n]
  /\ \A i \in DOMAIN session :
       /\ i \in DOMAIN session'
       /\ session'[i].token = session[i].token
       /\ session'[i].user = session[i].user
       /\ session[i].revoked => session'[i].revoked
  /\ \A i \in DOMAIN session' \ DOMAIN session : session'[i].token = r /\ pc[r] = "issue"
  /\ link \subseteq link'

\* An answered login stays answered.
LEMMA AnsweredStays ==
  ASSUME NEW r \in Requests, Frame(r), NEW t \in Answered
  PROVE  t # r /\ t \in Answered'
BY DEF Frame, Answered, Outcomes, Ok

LEMMA LoggedOutStays ==
  ASSUME NEW r \in Requests, Frame(r), NEW t, LoggedOut(t)
  PROVE  LoggedOut(t)'
BY DEF Frame, LoggedOut, Outcomes, Ok

LEMMA OthersStage ==
  ASSUME NEW r \in Requests, Frame(r), NEW q \in Requests \ {r}, StageInv(q)
  PROVE  StageInv(q)'
BY DEF Frame, StageInv, IsWallet, LinksWallet

LEMMA OthersLogin ==
  ASSUME NEW r \in Requests, Frame(r), NEW q \in Requests \ {r}, StageInv(q), LoginInv(q)
  PROVE  LoginInv(q)'
<1>1. /\ pc'[q] = pc[q] /\ call'[q] = call[q]
      /\ IsWallet(q)' = IsWallet(q) /\ LinksWallet(q)' = LinksWallet(q)
      /\ (q \in Answered)' = (q \in Answered)
      /\ Name(call[q])' = Name(call[q])
  BY DEF Frame, IsWallet, LinksWallet, Answered
<1>2. (Accepted(q) => /\ call[q].nonce \in DOMAIN drawn
                      /\ call[q].nonce \notin DOMAIN challenge
                      /\ drawn[call[q].nonce] = WalletOf[call[q].spelling])'
  BY <1>1 DEF Frame, LoginInv, Accepted
<1>3. (pc[q] \in {"reread", "issue", "insertLink", "selectLink"} \/ q \in Answered
         => Name(call[q]) \in DOMAIN account)'
  BY <1>1 DEF Frame, LoginInv
<1>4. HasSession(q) => HasSession(q)'
  BY <1>1 DEF Frame, HasSession
<1>5. Linked(q) => Linked(q)'
  BY <1>1 DEF Frame, Linked
<1>6. (Registered(q) => call[q].user \in DOMAIN account /\ account[call[q].user] = call[q].password)'
  BY <1>1 DEF Frame, LoginInv, Registered
<1>7. (~IsWallet(q) /\ pc[q] = "issue" => account[call[q].user] = call[q].password)'
  <2> SUFFICES ASSUME ~IsWallet(q), pc[q] = "issue"
               PROVE  account'[call[q].user] = call[q].password
    BY <1>1
  <2>1. Name(call[q]) = call[q].user
    BY DEF Name, IsWallet
  <2> QED BY <2>1 DEF Frame, LoginInv
<1> QED BY <1>1, <1>2, <1>3, <1>4, <1>5, <1>6, <1>7 DEF LoginInv

LEMMA OthersSession ==
  ASSUME NEW r \in Requests, Frame(r), NEW q \in Requests \ {r}, SessionInv(q)
  PROVE  SessionInv(q)'
<1>1. pc'[q] = pc[q] /\ call'[q] = call[q] /\ seen'[q] = seen[q] /\ late'[q] = late[q]
  BY DEF Frame
<1>2. (call[q].op \in {"refresh", "logout"} => call[q].token \in Answered)'
  BY <1>1, AnsweredStays DEF SessionInv
<1>3. ASSUME call[q].op = "logout", pc[q] = Ok, NEW i \in DOMAIN session', session'[i].token = call[q].token
      PROVE  session'[i].revoked
  <2>1. call[q].token # r
    BY <1>3, AnsweredStays DEF SessionInv
  <2>2. i \in DOMAIN session
    BY <1>3, <2>1 DEF Frame
  <2> QED BY <1>3, <2>2 DEF Frame, SessionInv
<1>4. ASSUME late[q]
      PROVE  \E p \in Requests : call'[p] = Presenting("logout", call'[q].token) /\ pc'[p] = Ok
  <2>1. PICK p \in Requests : call[p] = Presenting("logout", call[q].token) /\ pc[p] = Ok
    BY <1>4 DEF SessionInv, LoggedOut
  <2>2. p # r
    BY <2>1 DEF Frame, Outcomes, Ok
  <2> QED BY <1>1, <2>1, <2>2 DEF Frame
<1>5. (late[q] => LoggedOut(call[q].token))'
  BY <1>1, <1>4 DEF LoggedOut
<1> QED BY <1>1, <1>2, <1>3, <1>5 DEF SessionInv

LEMMA OthersUndisturbed ==
  ASSUME NEW r \in Requests, Frame(r), \A q \in Requests : RequestInv(q)
  PROVE  \A q \in Requests \ {r} : RequestInv(q)'
BY OthersStage, OthersLogin, OthersSession DEF RequestInv

\* What a login has shown is never taken back.
LEMMA EarnedStays ==
  ASSUME NEW r \in Requests, Frame(r), NEW q \in Requests, Earned(q),
         pc[q] # "idle", Name(call[q]) \in DOMAIN account
  PROVE  Earned(q)'
<1>1. call'[q] = call[q] /\ IsWallet(q)' = IsWallet(q)
  BY DEF Frame, IsWallet
<1>2. CASE IsWallet(q)
  BY <1>1, <1>2 DEF Frame, Earned
<1>3. CASE ~IsWallet(q)
  <2>1. Name(call[q]) = call[q].user
    BY <1>3 DEF Name, IsWallet
  <2> QED BY <1>1, <1>3, <2>1 DEF Frame, Earned
<1> QED BY <1>2, <1>3

\* The rows keep to what they name, when no session is added.
LEMMA TableKept ==
  ASSUME AInv, NEW r \in Requests, Frame(r), DOMAIN session' = DOMAIN session,
         pc[r] \in After => pc'[r] \in After
  PROVE  TableInv'
<1>1. \A n \in DOMAIN challenge' : challenge'[n].wallet = drawn'[n]
  BY DEF AInv, TableInv, Frame
<1>2. ASSUME NEW i \in DOMAIN session'
      PROVE  RowInv(i)'
  <2>1. /\ i \in DOMAIN session
        /\ session'[i].token = session[i].token
        /\ session'[i].user = session[i].user
    BY <1>2 DEF Frame
  <2>2. PICK t \in Requests :
          /\ session[i].token = t
          /\ call[t].op \in Logins /\ pc[t] \in After /\ Name(call[t]) \in DOMAIN account
          /\ Earned(t) /\ session[i].user = Name(call[t])
    BY <2>1 DEF AInv, TableInv, RowInv
  <2>3. pc[t] # "idle"
    BY <2>2 DEF After, Ok
  <2>4. call'[t] = call[t] /\ pc'[t] \in After
    BY <2>2, <2>3 DEF Frame
  <2>5. Name(call[t]) \in DOMAIN account'
    BY <2>2 DEF Frame
  <2>6. Earned(t)'
    BY <2>2, <2>3, EarnedStays
  <2> QED BY <2>1, <2>2, <2>4, <2>5, <2>6 DEF RowInv
<1> QED BY <1>1, <1>2 DEF TableInv

\* No two requests become the same login or registration, when r newly becomes
\* neither.
LEMMA PairKept ==
  ASSUME PairInv, NEW r \in Requests, Frame(r),
         Accepted(r)' => Accepted(r) /\ pc[r] # "idle",
         Registered(r)' => Registered(r) /\ pc[r] # "idle"
  PROVE  PairInv'
<1>1. \A q \in Requests : Accepted(q)' => Accepted(q) /\ call'[q] = call[q]
  BY DEF Frame, Accepted, IsWallet
<1>2. \A q \in Requests : Registered(q)' => Registered(q) /\ call'[q] = call[q]
  BY DEF Frame, Registered
<1> QED BY <1>1, <1>2 DEF PairInv

\* The invariant, from its parts for the request that moves.
LEMMA StepKeeps ==
  ASSUME AInv, NEW r \in Requests, Frame(r),
         TypeOK', StageInv(r)', LoginInv(r)', SessionInv(r)', TableInv', PairInv'
  PROVE  AInv'
<1>1. \A q \in Requests \ {r} : RequestInv(q)'
  BY OthersUndisturbed DEF AInv
<1>2. RequestInv(r)'
  BY DEF RequestInv
<1> QED BY <1>1, <1>2 DEF AInv

\* A refresh is never a login, and a login never late.
LEMMA SessionOfLogin ==
  ASSUME NEW r \in Requests, SessionInv(r), call[r].op \in Logins \cup {"link"},
         call'[r] = call[r], late'[r] = late[r]
  PROVE  SessionInv(r)'
BY DEF SessionInv, Logins

\* A refresh or logout that moves on without success, or to a success that is
\* not a logout and not late.
LEMMA SessionOfMove ==
  ASSUME NEW r \in Requests, SessionInv(r), Frame(r), call'[r] = call[r], UNCHANGED <<session, late>>,
         late[r] => \A s \in seen'[r] : s.revoked,
         pc'[r] = Ok => call[r].op # "logout" /\ ~late[r]
  PROVE  SessionInv(r)'
<1>1. call[r].op \in {"refresh", "logout"} => call[r].token \in Answered'
  <2> SUFFICES ASSUME call[r].op \in {"refresh", "logout"} PROVE call[r].token \in Answered'
    OBVIOUS
  <2>1. PICK t \in Answered : t = call[r].token
    BY DEF SessionInv
  <2>2. t \in Answered'
    BY AnsweredStays
  <2> QED BY <2>1, <2>2
<1>2. ASSUME late[r]
      PROVE  \E p \in Requests : call'[p] = Presenting("logout", call[r].token) /\ pc'[p] = Ok
  <2>1. PICK p \in Requests : call[p] = Presenting("logout", call[r].token) /\ pc[p] = Ok
    BY <1>2 DEF SessionInv, LoggedOut
  <2>2. p # r
    BY <2>1 DEF Frame, Outcomes, Ok
  <2> QED BY <2>1, <2>2 DEF Frame
<1>3. (late[r] => LoggedOut(call[r].token))'
  BY <1>2 DEF LoggedOut
<1> QED BY <1>1, <1>2, <1>3 DEF SessionInv

LEMMA LoginOfSession ==
  ASSUME NEW r \in Requests, StageInv(r)', call'[r].op \in {"refresh", "logout"}
  PROVE  LoginInv(r)'
BY DEF LoginInv, StageInv, Accepted, Registered, IsWallet, LinksWallet, Answered, Logins

\* The tables' part of a step that moves r between two awaits and touches no table
\* but, at most, seen.
LEMMA MoveKeeps ==
  ASSUME AInv, NEW r \in Requests, NEW from, NEW to, Goto(r, from, to),
         UNCHANGED <<challenge, drawn, account, session, link, call, late>>,
         \A q \in Requests \ {r} : seen'[q] = seen[q],
         from \notin Outcomes, from # "idle",
         from \in After => to \in After,
         to \in {"findUser", "issue", Ok} /\ call[r].op = "register" => from \in {"findUser", "issue"}
  PROVE  /\ Frame(r) /\ TableInv' /\ PairInv'
         /\ pc[r] = from /\ pc'[r] = to /\ call'[r] = call[r]
<1>1. /\ DOMAIN pc = Requests
      /\ pc[r] = from /\ pc'[r] = to
      /\ \A q \in Requests \ {r} : pc'[q] = pc[q]
  BY DEF AInv, TypeOK, Goto
<1>2. Frame(r)
  BY <1>1 DEF Frame
<1>3. TableInv'
  BY <1>1, <1>2, TableKept
<1>4. Accepted(r)' => Accepted(r) /\ pc[r] # "idle"
  BY <1>1 DEF Accepted, IsWallet, Outcomes
<1>5. Registered(r)' => Registered(r) /\ pc[r] # "idle"
  BY <1>1 DEF Registered
<1>6. PairInv'
  BY <1>2, <1>4, <1>5, PairKept DEF AInv
<1> QED BY <1>1, <1>2, <1>3, <1>6

-----------------------------------------------------------------------------
(* The steps of a login *)

LEMMA RecoverKeeps ==
  ASSUME AInv, NEW r \in Requests, Recover(r), TypeOK'
  PROVE  AInv'
<1> DEFINE to == IF call[r].genuine THEN "findUser" ELSE "refused"
<1>1. IsWallet(r) /\ StageInv(r) /\ LoginInv(r) /\ SessionInv(r)
  BY DEF AInv, RequestInv, StageInv, Recover, Goto
<1>2. Goto(r, "recover", to)
  BY DEF Recover
<1>3. /\ Frame(r) /\ TableInv' /\ PairInv'
      /\ pc[r] = "recover" /\ pc'[r] = to /\ call'[r] = call[r]
  <2> HIDE DEF to
  <2>1. call[r].op # "register"
    BY <1>1 DEF IsWallet
  <2> QED BY <1>2, <2>1, MoveKeeps DEF Recover, requestVars, Outcomes, After, Ok
<1>4. StageInv(r)'
  BY <1>1, <1>3 DEF StageInv, IsWallet, LinksWallet, Logins
<1>5. LoginInv(r)'
  BY <1>1, <1>3 DEF LoginInv, Recover, requestVars, Accepted, Registered, IsWallet, LinksWallet, Answered, Ok
<1>6. SessionInv(r)'
  BY <1>1, <1>3, SessionOfLogin DEF Recover, requestVars, IsWallet, Logins
<1> QED BY <1>3, <1>4, <1>5, <1>6, StepKeeps

LEMMA FindWalletUserKeeps ==
  ASSUME AInv, NEW r \in Requests, FindWalletUser(r), TypeOK'
  PROVE  AInv'
<1> DEFINE to == IF Name(call[r]) \in DOMAIN account THEN "issue" ELSE "createUser"
<1>1. IsWallet(r) /\ StageInv(r) /\ LoginInv(r) /\ SessionInv(r)
  BY DEF AInv, RequestInv, FindWalletUser
<1>2. Goto(r, "findUser", to)
  BY DEF FindWalletUser
<1>3. /\ Frame(r) /\ TableInv' /\ PairInv'
      /\ pc[r] = "findUser" /\ pc'[r] = to /\ call'[r] = call[r]
  <2> HIDE DEF to
  <2>1. call[r].op # "register"
    BY <1>1 DEF IsWallet
  <2> QED BY <1>2, <2>1, MoveKeeps DEF FindWalletUser, Outcomes, After, Ok
<1>4. StageInv(r)'
  BY <1>1, <1>3 DEF StageInv, IsWallet, LinksWallet, Logins
<1>5. LoginInv(r)'
  BY <1>1, <1>3 DEF LoginInv, FindWalletUser, Accepted, Registered, IsWallet, LinksWallet, Answered, Ok
<1>6. SessionInv(r)'
  BY <1>1, <1>3, SessionOfLogin DEF FindWalletUser, IsWallet, Logins
<1> QED BY <1>3, <1>4, <1>5, <1>6, StepKeeps

LEMMA RereadKeeps ==
  ASSUME AInv, NEW r \in Requests, Reread(r), TypeOK'
  PROVE  AInv'
<1>1. IsWallet(r) /\ StageInv(r) /\ LoginInv(r) /\ SessionInv(r)
  BY DEF AInv, RequestInv, StageInv, Reread, Goto
<1>2. Goto(r, "reread", "issue")
  BY DEF Reread
<1>3. /\ Frame(r) /\ TableInv' /\ PairInv'
      /\ pc[r] = "reread" /\ pc'[r] = "issue" /\ call'[r] = call[r]
  <2>1. call[r].op # "register"
    BY <1>1 DEF IsWallet
  <2> QED BY <1>2, <2>1, MoveKeeps DEF Reread, Outcomes, After, Ok
<1>4. StageInv(r)'
  BY <1>1, <1>3 DEF StageInv, IsWallet, LinksWallet, Logins
<1>5. LoginInv(r)'
  BY <1>1, <1>3 DEF LoginInv, Reread, Accepted, Registered, IsWallet, LinksWallet, Answered, Ok
<1>6. SessionInv(r)'
  BY <1>1, <1>3, SessionOfLogin DEF Reread, IsWallet, Logins
<1> QED BY <1>3, <1>4, <1>5, <1>6, StepKeeps

LEMMA FindPasswordUserKeeps ==
  ASSUME AInv, NEW r \in Requests, FindPasswordUser(r), TypeOK'
  PROVE  AInv'
<1> DEFINE match == call[r].user \in DOMAIN account /\ account[call[r].user] = call[r].password
           to    == IF match THEN "issue" ELSE "refused"
<1>1. /\ call[r].op \in {"login", "register"}
      /\ ~IsWallet(r) /\ StageInv(r) /\ LoginInv(r) /\ SessionInv(r)
      /\ Name(call[r]) = call[r].user
  BY DEF AInv, RequestInv, FindPasswordUser, IsWallet, Name
<1>2. Goto(r, "findUser", to)
  BY DEF FindPasswordUser
<1>3. /\ Frame(r) /\ TableInv' /\ PairInv'
      /\ pc[r] = "findUser" /\ pc'[r] = to /\ call'[r] = call[r]
  <2> HIDE DEF to
  <2> QED BY <1>2, MoveKeeps DEF FindPasswordUser, Outcomes, After, Ok
<1>4. StageInv(r)'
  BY <1>1, <1>3 DEF StageInv, IsWallet, LinksWallet, Logins
<1>5. LoginInv(r)'
  BY <1>1, <1>3 DEF LoginInv, FindPasswordUser, Accepted, Registered, IsWallet, LinksWallet, Answered, Ok
<1>6. SessionInv(r)'
  BY <1>1, <1>3, SessionOfLogin DEF FindPasswordUser, Logins
<1> QED BY <1>3, <1>4, <1>5, <1>6, StepKeeps

LEMMA CreateWalletUserKeeps ==
  ASSUME AInv, NEW r \in Requests, CreateWalletUser(r), TypeOK'
  PROVE  AInv'
<1> DEFINE u  == Name(call[r])
           to == IF u \in DOMAIN account THEN "failed" ELSE "reread"
<1>1. IsWallet(r) /\ StageInv(r) /\ LoginInv(r) /\ SessionInv(r)
  BY DEF AInv, RequestInv, CreateWalletUser
<1>2. /\ pc[r] = "createUser" /\ pc'[r] = to /\ call'[r] = call[r]
      /\ \A q \in Requests \ {r} : pc'[q] = pc[q]
  BY DEF CreateWalletUser, Goto, AInv, TypeOK, requestVars
<1>3. /\ \A v \in DOMAIN account : v \in DOMAIN account' /\ account'[v] = account[v]
      /\ u \in DOMAIN account'
  BY DEF CreateWalletUser, With
<1>4. Frame(r)
  BY <1>2, <1>3 DEF Frame, CreateWalletUser, requestVars, Outcomes
<1>5. TableInv'
  BY <1>2, <1>4, TableKept DEF CreateWalletUser, After, Ok
<1>6. PairInv'
  BY <1>1, <1>2, <1>4, PairKept DEF AInv, Accepted, Registered, IsWallet
<1>7. StageInv(r)'
  BY <1>1, <1>2 DEF StageInv, IsWallet, LinksWallet, Logins
<1>8. LoginInv(r)'
  BY <1>1, <1>2, <1>3 DEF LoginInv, CreateWalletUser, requestVars, Accepted, Registered, IsWallet, LinksWallet, Answered, Ok
<1>9. SessionInv(r)'
  BY <1>1, <1>2, SessionOfLogin DEF CreateWalletUser, requestVars, IsWallet, Logins
<1> QED BY <1>4, <1>5, <1>6, <1>7, <1>8, <1>9, StepKeeps

\* The unique username: r becomes the registration of a name that has none.
LEMMA RegisterUserKeeps ==
  ASSUME AInv, NEW r \in Requests, RegisterUser(r), TypeOK'
  PROVE  AInv'
<1> DEFINE u  == call[r].user
           to == IF u \in DOMAIN account THEN "refused" ELSE "findUser"
<1>1. /\ call[r].op = "register" /\ ~IsWallet(r)
      /\ StageInv(r) /\ LoginInv(r) /\ SessionInv(r)
  BY DEF AInv, RequestInv, RegisterUser, IsWallet
<1>2. /\ pc[r] = "createUser" /\ pc'[r] = to /\ call'[r] = call[r]
      /\ \A q \in Requests \ {r} : pc'[q] = pc[q]
  BY DEF RegisterUser, Goto, AInv, TypeOK, requestVars
<1>3. /\ \A v \in DOMAIN account : v \in DOMAIN account' /\ account'[v] = account[v]
      /\ u \in DOMAIN account'
      /\ u \notin DOMAIN account => account'[u] = call[r].password
  BY DEF RegisterUser, With
<1>4. Frame(r)
  BY <1>2, <1>3 DEF Frame, RegisterUser, requestVars, Outcomes
<1>5. TableInv'
  BY <1>2, <1>4, TableKept DEF RegisterUser, After, Ok
<1>6. PairInv'
  <2>1. \A q \in Requests : Accepted(q)' => Accepted(q) /\ call'[q] = call[q]
    BY <1>1, <1>2, <1>4 DEF Frame, Accepted, IsWallet
  <2>2. \A q \in Requests \ {r} : Registered(q)' => Registered(q) /\ call'[q] = call[q]
    BY <1>4 DEF Frame, Registered
  <2>3. Registered(r)' => u \notin DOMAIN account
    BY <1>2 DEF Registered, Ok
  <2>4. \A q \in Requests : Registered(q) => call[q].user \in DOMAIN account
    BY DEF AInv, RequestInv, LoginInv
  <2> QED BY <1>2, <2>1, <2>2, <2>3, <2>4 DEF AInv, PairInv
<1>7. StageInv(r)'
  BY <1>1, <1>2 DEF StageInv, IsWallet, LinksWallet, Logins
<1>8. LoginInv(r)'
  BY <1>1, <1>2, <1>3 DEF LoginInv, RegisterUser, requestVars, Accepted, Registered, IsWallet, LinksWallet, Answered, Ok
<1>9. SessionInv(r)'
  BY <1>1, <1>2, SessionOfLogin DEF RegisterUser, requestVars, Logins
<1> QED BY <1>4, <1>5, <1>6, <1>7, <1>8, <1>9, StepKeeps

\* The insert of the session: the only step that adds a row.
LEMMA InsertSessionKeeps ==
  ASSUME AInv, NEW r \in Requests, TypeOK', at[r] \notin DOMAIN session,
         Goto(r, "issue", IF IsWallet(r) THEN "insertLink" ELSE Ok),
         session' = With(session, at[r], NewSession(r)),
         UNCHANGED <<challenge, drawn, account, link, call, seen, late>>
  PROVE  AInv'
<1>1. /\ call[r].op \in Logins
      /\ StageInv(r) /\ LoginInv(r) /\ SessionInv(r)
  BY DEF AInv, RequestInv, StageInv, Goto
<1>2. /\ pc[r] = "issue" /\ pc'[r] = IF IsWallet(r) THEN "insertLink" ELSE Ok
      /\ call'[r] = call[r]
      /\ \A q \in Requests \ {r} : pc'[q] = pc[q]
  BY DEF Goto, AInv, TypeOK
<1>3. /\ DOMAIN session' = DOMAIN session \cup {at[r]}
      /\ \A i \in DOMAIN session : session'[i] = session[i]
      /\ session'[at[r]].token = r
      /\ session'[at[r]].user = Name(call[r])
  BY DEF With, NewSession
<1>4. Frame(r)
  BY <1>2, <1>3 DEF Frame, Outcomes
<1>5. Name(call[r]) \in DOMAIN account
  BY <1>1, <1>2 DEF LoginInv
<1>6. Earned(r)
  <2>1. CASE IsWallet(r)
    BY <1>1, <1>2, <2>1 DEF LoginInv, Accepted, Earned
  <2>2. CASE ~IsWallet(r)
    BY <1>1, <1>2, <2>2 DEF LoginInv, Earned, IsWallet, LinksWallet, Logins
  <2> QED BY <2>1, <2>2
<1>7. TableInv'
  <2>1. \A n \in DOMAIN challenge' : challenge'[n].wallet = drawn'[n]
    BY DEF AInv, TableInv
  <2>2. ASSUME NEW i \in DOMAIN session PROVE RowInv(i)'
    <3>1. PICK t \in Requests :
            /\ session[i].token = t
            /\ call[t].op \in Logins /\ pc[t] \in After /\ Name(call[t]) \in DOMAIN account
            /\ Earned(t) /\ session[i].user = Name(call[t])
      BY DEF AInv, TableInv, RowInv
    <3>2. t # r
      BY <1>2, <3>1 DEF After, Ok
    <3>3. pc'[t] = pc[t] /\ Earned(t)'
      BY <1>2, <3>1, <3>2 DEF Earned, IsWallet
    <3> QED BY <1>3, <3>1, <3>3 DEF RowInv
  <2>3. ASSUME NEW i, i = at[r] PROVE RowInv(i)'
    <3>1. pc'[r] \in After
      BY <1>2 DEF After, Ok
    <3>2. Earned(r)' /\ Name(call'[r]) \in DOMAIN account' /\ call'[r].op \in Logins
      BY <1>1, <1>5, <1>6 DEF Earned, IsWallet
    <3> QED BY <1>2, <1>3, <2>3, <3>1, <3>2 DEF RowInv
  <2> QED BY <1>3, <2>1, <2>2, <2>3 DEF TableInv
<1>8. PairInv'
  BY <1>2, <1>4, PairKept DEF AInv, Accepted, Registered, IsWallet, Ok
<1>9. StageInv(r)'
  BY <1>1, <1>2 DEF StageInv, IsWallet, LinksWallet, Logins, Ok
<1>10. HasSession(r)'
  BY <1>2, <1>3 DEF HasSession
<1>11. LoginInv(r)'
  BY <1>1, <1>2, <1>5, <1>10 DEF LoginInv, Accepted, Registered, IsWallet, LinksWallet, Answered, Logins, Ok
<1>12. SessionInv(r)'
  BY <1>1, <1>2, SessionOfLogin
<1> QED BY <1>4, <1>7, <1>8, <1>9, <1>11, <1>12, StepKeeps

\* A request that fails, at whatever await, keeps all it has written.
LEMMA FailureKeeps ==
  ASSUME AInv, NEW r \in Requests, TypeOK', NEW from \in InDatabase, Goto(r, from, "failed"),
         UNCHANGED <<challenge, drawn, account, session, link, call, seen, late>>
  PROVE  AInv'
<1>1. StageInv(r) /\ LoginInv(r) /\ SessionInv(r)
  BY DEF AInv, RequestInv
<1>2. /\ Frame(r) /\ TableInv' /\ PairInv'
      /\ pc[r] = from /\ pc'[r] = "failed" /\ call'[r] = call[r]
  BY MoveKeeps DEF InDatabase, Outcomes, After, Ok
<1>3. StageInv(r)'
  BY <1>2 DEF StageInv
<1>4. LoginInv(r)'
  BY <1>1, <1>2 DEF LoginInv, InDatabase, Accepted, Registered, IsWallet, LinksWallet, Answered, Ok
<1>5. SessionInv(r)'
  <2>1. late[r] => \A s \in seen'[r] : s.revoked
    BY <1>1 DEF SessionInv
  <2>2. pc'[r] # Ok
    BY <1>2 DEF Ok
  <2> QED BY <1>1, <1>2, <2>1, <2>2, SessionOfMove
<1> QED BY <1>2, <1>3, <1>4, <1>5, StepKeeps

LEMMA IssueTokenKeeps ==
  ASSUME AInv, NEW r \in Requests, IssueToken(r), TypeOK'
  PROVE  AInv'
<1>1. CASE at[r] \notin DOMAIN session
  BY <1>1, InsertSessionKeeps DEF IssueToken
<1>2. CASE at[r] \in DOMAIN session
  BY <1>2, FailureKeeps DEF IssueToken, requestVars, InDatabase
<1> QED BY <1>1, <1>2

LEMMA InsertLinkKeeps ==
  ASSUME AInv, NEW r \in Requests, InsertLink(r), TypeOK'
  PROVE  AInv'
<1>1. LinksWallet(r) /\ StageInv(r) /\ LoginInv(r) /\ SessionInv(r)
  BY DEF AInv, RequestInv, StageInv, InsertLink, Goto
<1>2. /\ pc[r] = "insertLink" /\ pc'[r] = "selectLink" /\ call'[r] = call[r]
      /\ \A q \in Requests \ {r} : pc'[q] = pc[q]
  BY DEF InsertLink, Goto, AInv, TypeOK, requestVars
<1>3. link \subseteq link'
  BY DEF InsertLink
<1>4. Frame(r)
  BY <1>2, <1>3 DEF Frame, InsertLink, requestVars, Outcomes
<1>5. TableInv'
  BY <1>2, <1>4, TableKept DEF InsertLink, After
<1>6. PairInv'
  BY <1>1, <1>2, <1>4, PairKept DEF AInv, Accepted, Registered, IsWallet, Ok
<1>7. StageInv(r)'
  BY <1>1, <1>2 DEF StageInv, IsWallet, LinksWallet
<1>8. IsWallet(r) => HasSession(r)'
  BY <1>1, <1>2 DEF LoginInv, HasSession, InsertLink
<1>9. LoginInv(r)'
  BY <1>1, <1>2, <1>8 DEF LoginInv, InsertLink, Logins, Accepted, Registered, IsWallet, LinksWallet, Answered, Ok
<1>10. SessionInv(r)'
  BY <1>1, <1>2, SessionOfLogin DEF InsertLink, requestVars, LinksWallet, Logins
<1> QED BY <1>4, <1>5, <1>6, <1>7, <1>9, <1>10, StepKeeps

LEMMA SelectLinkKeeps ==
  ASSUME AInv, NEW r \in Requests, SelectLink(r), TypeOK'
  PROVE  AInv'
<1>1. LinksWallet(r) /\ StageInv(r) /\ LoginInv(r) /\ SessionInv(r)
  BY DEF AInv, RequestInv, StageInv, SelectLink, Goto
<1>2. CASE ~Linked(r)
  BY <1>2, FailureKeeps DEF SelectLink, requestVars, InDatabase
<1>3. CASE Linked(r)
  <2>1. Goto(r, "selectLink", Ok)
    BY <1>3 DEF SelectLink
  <2>2. /\ Frame(r) /\ TableInv' /\ PairInv'
        /\ pc[r] = "selectLink" /\ pc'[r] = Ok /\ call'[r] = call[r]
    <3>1. call[r].op # "register"
      BY <1>1 DEF LinksWallet
    <3> QED BY <2>1, <3>1, MoveKeeps DEF SelectLink, requestVars, Outcomes, After, Ok
  <2>3. StageInv(r)'
    BY <2>2 DEF StageInv, Ok
  <2>4. (IsWallet(r) => HasSession(r)') /\ Linked(r)'
    BY <1>1, <1>3, <2>2 DEF LoginInv, HasSession, Linked, SelectLink
  <2>5. LoginInv(r)'
    BY <1>1, <2>2, <2>4 DEF LoginInv, SelectLink, Logins, Accepted, Registered, IsWallet, LinksWallet, Answered, Ok
  <2>6. SessionInv(r)'
    BY <1>1, <2>2, SessionOfLogin DEF SelectLink, requestVars, LinksWallet, Logins
  <2> QED BY <2>2, <2>3, <2>5, <2>6, StepKeeps
<1> QED BY <1>2, <1>3

-----------------------------------------------------------------------------
(* The steps of a refresh and a logout *)

LEMMA FindSessionKeeps ==
  ASSUME AInv, NEW r \in Requests, FindSession(r), TypeOK'
  PROVE  AInv'
<1> DEFINE rows == {session[i] : i \in {j \in DOMAIN session : session[j].token = call[r].token}}
<1>1. call[r].op = "refresh" /\ StageInv(r) /\ LoginInv(r) /\ SessionInv(r)
  BY DEF AInv, RequestInv, StageInv, FindSession, Goto
<1>2. seen'[r] = rows /\ \A q \in Requests \ {r} : seen'[q] = seen[q]
  BY DEF FindSession, AInv, TypeOK
<1>3. /\ Frame(r) /\ TableInv' /\ PairInv'
      /\ pc[r] = "findSession" /\ pc'[r] = "checkSession" /\ call'[r] = call[r]
  BY <1>2, MoveKeeps DEF FindSession, Outcomes, After, Ok
<1>4. StageInv(r)'
  BY <1>1, <1>3 DEF StageInv
<1>5. LoginInv(r)'
  BY <1>1, <1>3, <1>4, LoginOfSession
<1>6. ASSUME late[r], NEW s \in rows PROVE s.revoked
  <2>1. PICK q \in Requests : call[q] = Presenting("logout", call[r].token) /\ pc[q] = Ok
    BY <1>1, <1>6 DEF SessionInv, LoggedOut
  <2>2. call[q].op = "logout" /\ call[q].token = call[r].token
    BY <2>1 DEF Presenting
  <2>3. \A i \in DOMAIN session : session[i].token = call[r].token => session[i].revoked
    BY <2>1, <2>2 DEF AInv, RequestInv, SessionInv
  <2> QED BY <1>6, <2>3
<1>7. SessionInv(r)'
  <2>1. late[r] => \A s \in seen'[r] : s.revoked
    BY <1>2, <1>6
  <2>2. pc'[r] # Ok
    BY <1>3 DEF Ok
  <2> QED BY <1>1, <1>3, <2>1, <2>2, SessionOfMove DEF FindSession
<1> QED BY <1>3, <1>4, <1>5, <1>7, StepKeeps

LEMMA CheckSessionKeeps ==
  ASSUME AInv, NEW r \in Requests, CheckSession(r), TypeOK'
  PROVE  AInv'
<1>1. call[r].op = "refresh" /\ StageInv(r) /\ LoginInv(r) /\ SessionInv(r)
  BY DEF AInv, RequestInv, StageInv, CheckSession, Goto
<1>2. PICK to \in {Ok, "refused"} :
        /\ Goto(r, "checkSession", to)
        /\ to = Ok => \E s \in seen[r] : ~s.revoked
  <2> DEFINE good == \E s \in seen[r] : ~s.revoked /\ s.expiresAt > now /\ s.user \in DOMAIN account
  <2>1. Goto(r, "checkSession", IF good THEN Ok ELSE "refused")
    BY DEF CheckSession
  <2>2. CASE good
    BY <2>1, <2>2
  <2>3. CASE ~good
    <3>1. "refused" # Ok
      BY DEF Ok
    <3> HIDE DEF good
    <3> QED BY <2>1, <2>3, <3>1
  <2> QED BY <2>2, <2>3
<1>3. /\ Frame(r) /\ TableInv' /\ PairInv'
      /\ pc[r] = "checkSession" /\ pc'[r] = to /\ call'[r] = call[r]
  BY <1>1, <1>2, MoveKeeps DEF CheckSession, requestVars, Outcomes, After, Ok
<1>4. StageInv(r)'
  BY <1>1, <1>3 DEF StageInv, Ok
<1>5. LoginInv(r)'
  BY <1>1, <1>3, <1>4, LoginOfSession
<1>6. to = Ok => ~late[r]
  BY <1>1, <1>2 DEF SessionInv
<1>7. SessionInv(r)'
  <2>1. late[r] => \A s \in seen'[r] : s.revoked
    BY <1>1 DEF SessionInv, CheckSession, requestVars
  <2> QED BY <1>1, <1>3, <1>6, <2>1, SessionOfMove DEF CheckSession, requestVars
<1> QED BY <1>3, <1>4, <1>5, <1>7, StepKeeps

LEMMA RevokeKeeps ==
  ASSUME AInv, NEW r \in Requests, Revoke(r), TypeOK'
  PROVE  AInv'
<1>1. call[r].op = "logout" /\ StageInv(r) /\ LoginInv(r) /\ SessionInv(r)
  BY DEF AInv, RequestInv, StageInv, Revoke, Goto
<1>2. /\ pc[r] = "revoke" /\ pc'[r] = Ok /\ call'[r] = call[r]
      /\ \A q \in Requests \ {r} : pc'[q] = pc[q]
  BY DEF Revoke, Goto, AInv, TypeOK, requestVars
<1>3. ASSUME NEW i \in DOMAIN session
      PROVE  /\ session'[i].token = session[i].token
             /\ session'[i].user = session[i].user
             /\ session[i].revoked => session'[i].revoked
             /\ session[i].token = call[r].token => session'[i].revoked
  <2>1. session[i] \in Session
    BY DEF AInv, TypeOK
  <2>2. session'[i] = IF session[i].token = call[r].token
                      THEN [session[i] EXCEPT !.revoked = TRUE] ELSE session[i]
    BY DEF Revoke
  <2> QED BY <2>1, <2>2 DEF Session
<1>4. DOMAIN session' = DOMAIN session
  BY DEF Revoke
<1>5. Frame(r)
  BY <1>2, <1>3, <1>4 DEF Frame, Revoke, requestVars, Outcomes
<1>6. TableInv'
  BY <1>2, <1>4, <1>5, TableKept DEF After
<1>7. PairInv'
  BY <1>1, <1>2, <1>5, PairKept DEF AInv, Accepted, Registered, IsWallet
<1>8. StageInv(r)'
  BY <1>2 DEF StageInv, Ok
<1>9. LoginInv(r)'
  BY <1>1, <1>2, <1>8, LoginOfSession
<1>10. SessionInv(r)'
  <2>1. call[r].token \in Answered'
    <3>1. PICK t \in Answered : t = call[r].token
      BY <1>1 DEF SessionInv
    <3> QED BY <1>5, <3>1, AnsweredStays
  <2>2. ~late[r]
    BY <1>1 DEF SessionInv
  <2>3. UNCHANGED late
    BY DEF Revoke, requestVars
  <2> QED BY <1>1, <1>2, <1>3, <1>4, <2>1, <2>2, <2>3 DEF SessionInv
<1> QED BY <1>5, <1>6, <1>7, <1>8, <1>9, <1>10, StepKeeps

LEMMA DbErrorKeeps ==
  ASSUME AInv, NEW r \in Requests, DbError(r), TypeOK'
  PROVE  AInv'
BY FailureKeeps DEF DbError, Goto, requestVars

-----------------------------------------------------------------------------
(* Requests that arrive *)

LEMMA ArriveFrames ==
  ASSUME AInv, NEW r \in Requests, NEW c \in Calls, NEW op, NEW to, Arrive(r, c, op, to),
         \A n \in DOMAIN challenge' : n \in DOMAIN challenge /\ challenge'[n] = challenge[n]
  PROVE  /\ Frame(r) /\ TableInv'
         /\ pc[r] = "idle" /\ pc'[r] = to /\ call'[r] = c /\ c.op = op /\ c \in Call
         /\ ~late'[r]
<1>1. /\ pc[r] = "idle" /\ pc'[r] = to /\ call'[r] = c /\ c.op = op
      /\ \A q \in Requests \ {r} : pc'[q] = pc[q] /\ call'[q] = call[q]
  BY DEF Arrive, Goto, AInv, TypeOK
<1>2. Frame(r)
  BY <1>1 DEF Frame, Arrive, Outcomes
<1>3. TableInv'
  BY <1>1, <1>2, TableKept DEF Arrive, After, Ok
<1>4. ~late'[r]
  BY <1>1 DEF AInv, RequestInv, StageInv, Arrive
<1> QED BY <1>1, <1>2, <1>3, <1>4, CallsAssumption

LEMMA WalletLoginKeeps ==
  ASSUME AInv, NEW r \in Requests, NEW c \in Calls, WalletLogin(r, c), TypeOK'
  PROVE  AInv'
<1> DEFINE to == AfterChallenge(c)
<1>1. \A n \in DOMAIN challenge' : n \in DOMAIN challenge /\ n # c.nonce /\ challenge'[n] = challenge[n]
  BY DEF WalletLogin
<1>2. Arrive(r, c, "wallet", to)
  BY DEF WalletLogin
<1>3. /\ Frame(r) /\ TableInv'
      /\ pc[r] = "idle" /\ pc'[r] = to /\ call'[r] = c /\ c.op = "wallet" /\ c \in Call
      /\ ~late'[r]
  <2> HIDE DEF to
  <2> QED BY <1>1, <1>2, ArriveFrames
<1>4. /\ to \in {"refused", "recover", "findUser"}
      /\ to # "refused" => Matches(c)
      /\ to = "findUser" => c.genuine
  BY DEF AfterChallenge
<1> HIDE DEF to
<1>5. Matches(c) => /\ c.nonce \in DOMAIN drawn
                    /\ drawn[c.nonce] = WalletOf[c.spelling]
                    /\ c.nonce \in DOMAIN challenge
  BY DEF Matches, AInv, TypeOK, TableInv
<1>6. PairInv'
  <2>1. \A q \in Requests \ {r} : Accepted(q)' => Accepted(q) /\ call'[q] = call[q]
    BY <1>3 DEF Frame, Accepted, IsWallet
  <2>2. \A q \in Requests : Registered(q)' => Registered(q) /\ call'[q] = call[q]
    BY <1>3 DEF Frame, Registered
  <2>3. Accepted(r)' => c.nonce \in DOMAIN challenge
    BY <1>3, <1>4, <1>5 DEF Accepted
  <2>4. \A q \in Requests : Accepted(q) => call[q].nonce \notin DOMAIN challenge
    BY DEF AInv, RequestInv, LoginInv
  <2> QED BY <1>3, <2>1, <2>2, <2>3, <2>4 DEF AInv, PairInv
<1>7. StageInv(r)'
  BY <1>3, <1>4 DEF StageInv, IsWallet, LinksWallet, Logins
<1>8. LoginInv(r)'
  <2>1. drawn' = drawn
    BY <1>2 DEF Arrive
  <2> QED BY <1>1, <1>3, <1>4, <1>5, <2>1 DEF LoginInv, Accepted, Registered, IsWallet, LinksWallet, Answered, Ok
<1>9. SessionInv(r)'
  BY <1>3 DEF SessionInv
<1> QED BY <1>3, <1>6, <1>7, <1>8, <1>9, StepKeeps

LEMMA PasswordArrivalKeeps ==
  ASSUME AInv, NEW r \in Requests, NEW c \in Calls, Login(r, c) \/ Register(r, c), TypeOK'
  PROVE  AInv'
<1>1. PICK op \in {"login", "register"}, to \in {"findUser", "createUser"} :
        /\ Arrive(r, c, op, to) /\ UNCHANGED challenge
        /\ op = "register" => to = "createUser"
  BY DEF Login, Register
<1>2. /\ Frame(r) /\ TableInv'
      /\ pc[r] = "idle" /\ pc'[r] = to /\ call'[r] = c /\ c.op = op /\ c \in Call
      /\ ~late'[r]
  BY <1>1, ArriveFrames
<1>3. PairInv'
  BY <1>1, <1>2, PairKept DEF AInv, Accepted, Registered, IsWallet, Ok
<1>4. StageInv(r)'
  BY <1>2 DEF StageInv, IsWallet, LinksWallet, Logins
<1>5. LoginInv(r)'
  BY <1>1, <1>2 DEF LoginInv, Accepted, Registered, IsWallet, LinksWallet, Answered, Ok
<1>6. SessionInv(r)'
  BY <1>2 DEF SessionInv
<1> QED BY <1>2, <1>3, <1>4, <1>5, <1>6, StepKeeps

LEMMA LinkWalletKeeps ==
  ASSUME AInv, NEW r \in Requests, NEW c \in Calls, LinkWallet(r, c), TypeOK'
  PROVE  AInv'
<1>1. Arrive(r, c, "link", "insertLink") /\ UNCHANGED challenge /\ c.user \in DOMAIN account
  BY DEF LinkWallet
<1>2. /\ Frame(r) /\ TableInv'
      /\ pc[r] = "idle" /\ pc'[r] = "insertLink" /\ call'[r] = c /\ c.op = "link" /\ c \in Call
      /\ ~late'[r]
  BY <1>1, ArriveFrames
<1>3. PairInv'
  BY <1>1, <1>2, PairKept DEF AInv, Accepted, Registered, IsWallet, Ok
<1>4. StageInv(r)'
  BY <1>2 DEF StageInv, IsWallet, LinksWallet
<1>5. LoginInv(r)'
  BY <1>1, <1>2 DEF Arrive, LoginInv, Accepted, Registered, IsWallet, LinksWallet, Answered, Name, Logins, Ok
<1>6. SessionInv(r)'
  BY <1>2 DEF SessionInv
<1> QED BY <1>2, <1>3, <1>4, <1>5, <1>6, StepKeeps

LEMMA PresentKeeps ==
  ASSUME AInv, NEW r \in Requests, NEW t \in Requests, Refresh(r, t) \/ Logout(r, t), TypeOK'
  PROVE  AInv'
<1>1. PICK op \in {"refresh", "logout"}, to \in {"findSession", "revoke"} :
        /\ Present(r, op, t, to)
        /\ op = "refresh" <=> to = "findSession"
        /\ late' = IF op = "refresh" THEN [late EXCEPT ![r] = LoggedOut(t)] ELSE late
  BY DEF Refresh, Logout
<1>2. /\ pc[r] = "idle" /\ pc'[r] = to /\ call'[r] = Presenting(op, t) /\ t \in Answered
      /\ \A q \in Requests \ {r} : pc'[q] = pc[q] /\ call'[q] = call[q] /\ late'[q] = late[q]
      /\ UNCHANGED <<challenge, drawn, account, session, link, seen>>
  BY <1>1 DEF Present, Goto, AInv, TypeOK
<1>3. call'[r].op = op /\ call'[r].token = t
  BY <1>2 DEF Presenting
<1>4. seen[r] = {} /\ ~late[r]
  BY <1>2 DEF AInv, RequestInv, StageInv
<1>5. Frame(r)
  BY <1>2 DEF Frame, Outcomes
<1>6. TableInv'
  BY <1>2, <1>5, TableKept DEF After, Ok
<1>7. PairInv'
  BY <1>1, <1>3, <1>5, PairKept DEF AInv, Accepted, Registered, IsWallet
<1>8. StageInv(r)'
  BY <1>1, <1>2, <1>3 DEF StageInv
<1>9. LoginInv(r)'
  BY <1>3, <1>8, LoginOfSession
<1>10. SessionInv(r)'
  <2>1. t \in Answered'
    BY <1>2, <1>5, AnsweredStays
  <2>2. late'[r] => op = "refresh" /\ LoggedOut(t)
    BY <1>1, <1>4 DEF AInv, TypeOK
  <2>3. LoggedOut(t) => LoggedOut(t)'
    BY <1>5, LoggedOutStays
  <2>4. (late[r] => LoggedOut(call[r].token))'
    BY <1>3, <2>2, <2>3 DEF LoggedOut
  <2>5. pc'[r] # Ok
    BY <1>2 DEF Ok
  <2> QED BY <1>2, <1>3, <1>4, <2>1, <2>2, <2>4, <2>5 DEF SessionInv
<1> QED BY <1>5, <1>6, <1>7, <1>8, <1>9, <1>10, StepKeeps

-----------------------------------------------------------------------------
(* The environment *)

\* A new challenge has a nonce that no login can have presented.
LEMMA CreateChallengeKeeps ==
  ASSUME AInv, NEW n \in Nonces, NEW w \in Wallets, CreateChallenge(n, w), TypeOK'
  PROVE  AInv'
<1>1. UNCHANGED <<account, session, link, pc, call, seen, late>>
  BY DEF CreateChallenge, requestVars
<1>2. /\ n \notin DOMAIN drawn
      /\ DOMAIN drawn' = DOMAIN drawn \cup {n}
      /\ \A m \in DOMAIN drawn : drawn'[m] = drawn[m]
      /\ DOMAIN challenge' = DOMAIN challenge \cup {n}
      /\ \A m \in DOMAIN challenge' : m # n => challenge'[m] = challenge[m]
      /\ drawn'[n] = w /\ challenge'[n].wallet = w
  BY DEF CreateChallenge, With
<1>3. ASSUME NEW q \in Requests PROVE RequestInv(q)'
  <2>1. StageInv(q) /\ LoginInv(q) /\ SessionInv(q)
    BY DEF AInv, RequestInv
  <2>2. StageInv(q)' /\ SessionInv(q)'
    BY <1>1, <2>1 DEF StageInv, SessionInv, IsWallet, LinksWallet, Answered, LoggedOut
  <2>3. LoginInv(q)'
    BY <1>1, <1>2, <2>1 DEF LoginInv, Accepted, Registered, IsWallet, LinksWallet, Answered, HasSession, Linked
  <2> QED BY <2>2, <2>3 DEF RequestInv
<1>4. TableInv'
  <2>1. \A m \in DOMAIN challenge' : challenge'[m].wallet = drawn'[m]
    BY <1>2 DEF AInv, TypeOK, TableInv
  <2>2. \A q \in Requests : Earned(q) => Earned(q)'
    BY <1>1, <1>2 DEF Earned, IsWallet
  <2>3. \A i \in DOMAIN session' : RowInv(i)'
    BY <1>1, <2>2 DEF AInv, TableInv, RowInv
  <2> QED BY <2>1, <2>3 DEF TableInv
<1>5. PairInv'
  BY <1>1 DEF AInv, PairInv, Accepted, Registered, IsWallet
<1> QED BY <1>3, <1>4, <1>5 DEF AInv

\* A restart ends the requests under way and keeps all answers.
LEMMA RestartKeeps ==
  ASSUME AInv, Restart, TypeOK'
  PROVE  AInv'
<1>1. UNCHANGED <<drawn, account, session, link, call, seen, late>> /\ DOMAIN challenge' = {}
  BY DEF Restart, requestVars
<1>2. \A q \in Requests : pc'[q] = pc[q] \/ (pc[q] \in InFlight /\ pc'[q] = "lost")
  BY DEF Restart, AInv, TypeOK
<1>3. /\ \A q \in Requests : pc'[q] = Ok <=> pc[q] = Ok
      /\ \A q \in Requests : pc'[q] # "lost" => pc'[q] = pc[q]
      /\ \A q \in Requests : pc'[q] \notin {"idle", "refused"} => pc[q] \notin {"idle", "refused"}
  BY <1>2 DEF InFlight, InDatabase, Ok
<1>4. Answered' = Answered
  BY <1>1, <1>3 DEF Answered
<1>5. ASSUME NEW q \in Requests PROVE RequestInv(q)'
  <2>1. StageInv(q) /\ LoginInv(q) /\ SessionInv(q)
    BY DEF AInv, RequestInv
  <2>2. StageInv(q)'
    BY <1>1, <1>3, <2>1 DEF StageInv, IsWallet, LinksWallet
  <2>3. LoginInv(q)'
    BY <1>1, <1>3, <1>4, <2>1 DEF LoginInv, Accepted, Registered, IsWallet, LinksWallet, HasSession, Linked, Ok
  <2>4. SessionInv(q)'
    BY <1>1, <1>3, <1>4, <2>1 DEF SessionInv, LoggedOut
  <2> QED BY <2>2, <2>3, <2>4 DEF RequestInv
<1>6. TableInv'
  <2>1. \A q \in Requests : pc[q] \in After => pc'[q] \in After
    BY <1>2 DEF After
  <2>2. \A q \in Requests : Earned(q) => Earned(q)'
    BY <1>1 DEF Earned, IsWallet
  <2>3. \A i \in DOMAIN session' : RowInv(i)'
    BY <1>1, <2>1, <2>2 DEF AInv, TableInv, RowInv
  <2> QED BY <1>1, <2>3 DEF TableInv
<1>7. PairInv'
  <2>1. \A q \in Requests : Accepted(q)' => Accepted(q)
    BY <1>1, <1>3 DEF Accepted, IsWallet
  <2>2. \A q \in Requests : Registered(q)' => Registered(q)
    BY <1>1, <1>3 DEF Registered, Ok
  <2> QED BY <1>1, <2>1, <2>2 DEF AInv, PairInv
<1> QED BY <1>5, <1>6, <1>7 DEF AInv

\* The clock, and steps that change nothing.
LEMMA IdleKeeps ==
  ASSUME AInv, TypeOK', UNCHANGED <<challenge, drawn, account, session, link, pc, call, seen, late>>
  PROVE  AInv'
<1>1. \A q \in Requests : RequestInv(q)'
  BY DEF AInv, RequestInv, StageInv, LoginInv, SessionInv, Accepted, Registered, IsWallet, LinksWallet, Answered,
         HasSession, Linked, LoggedOut
<1>2. TableInv'
  BY DEF AInv, TableInv, RowInv, Earned, IsWallet
<1>3. PairInv'
  BY DEF AInv, PairInv, Accepted, Registered, IsWallet
<1> QED BY <1>1, <1>2, <1>3 DEF AInv

-----------------------------------------------------------------------------
(* The theorems *)

LEMMA InitEstablishes == Init => AInv
<1> SUFFICES ASSUME Init PROVE AInv
  OBVIOUS
<1>1. TypeOK
  BY AccountsAssumption, TimeAssumption DEF Init, TypeOK, Asked, NoCall, Times
<1>2. \A r \in Requests : /\ pc[r] = "idle" /\ call[r] = NoCall /\ call[r].op = "none"
                          /\ seen[r] = {} /\ ~late[r]
  BY DEF Init, NoCall
<1>3. \A r \in Requests : RequestInv(r)
  BY <1>2 DEF RequestInv, StageInv, LoginInv, SessionInv, Accepted, Registered, IsWallet, LinksWallet, Answered, Ok
<1>4. TableInv
  BY DEF Init, TableInv
<1>5. PairInv
  BY <1>2 DEF PairInv, Accepted, Registered, Ok
<1> QED BY <1>1, <1>3, <1>4, <1>5 DEF AInv

LEMMA StepPreserves == AInv /\ [Next]_vars => AInv'
<1> SUFFICES ASSUME AInv, [Next]_vars PROVE AInv'
  OBVIOUS
<1>1. CASE UNCHANGED vars
  <2>1. TypeOK'
    BY <1>1 DEF AInv, TypeOK, vars, requestVars
  <2> QED BY <1>1, <2>1, IdleKeeps DEF vars, requestVars
<1>2. ASSUME NEW n \in Nonces, NEW w \in Wallets, CreateChallenge(n, w) PROVE AInv'
  <2>1. TypeOK'
    BY <1>2, TypeKeptByChallenge DEF AInv
  <2> QED BY <1>2, <2>1, CreateChallengeKeeps
<1>3. ASSUME NEW r \in Requests, ArriveStep(r) PROVE AInv'
  <2>1. TypeOK'
    BY <1>3, TypeKeptByArrival DEF AInv
  <2> QED BY <1>3, <2>1, WalletLoginKeeps, PasswordArrivalKeeps, LinkWalletKeeps, PresentKeeps
          DEF ArriveStep
<1>4. ASSUME NEW r \in Requests, LoginStep(r) PROVE AInv'
  <2>1. TypeOK'
    BY <1>4, TypeKeptByLogin DEF AInv, RequestInv
  <2> QED BY <1>4, <2>1, RecoverKeeps, FindWalletUserKeeps, CreateWalletUserKeeps, RereadKeeps,
             RegisterUserKeeps, FindPasswordUserKeeps, IssueTokenKeeps, InsertLinkKeeps, SelectLinkKeeps
          DEF LoginStep
<1>5. ASSUME NEW r \in Requests, SessionStep(r) \/ DbError(r) PROVE AInv'
  <2>1. TypeOK'
    BY <1>5, TypeKeptBySession DEF AInv
  <2> QED BY <1>5, <2>1, FindSessionKeeps, CheckSessionKeeps, RevokeKeeps, DbErrorKeeps DEF SessionStep
<1>6. CASE Tick
  <2>1. TypeOK'
    BY <1>6, TimeAssumption DEF AInv, TypeOK, Tick, Times, requestVars
  <2> QED BY <1>6, <2>1, IdleKeeps DEF Tick, requestVars
<1>7. CASE Restart
  <2>1. TypeOK'
    BY <1>7 DEF AInv, TypeOK, Restart, InFlight, InDatabase, Outcomes, requestVars
  <2> QED BY <1>7, <2>1, RestartKeeps
<1> QED BY <1>1, <1>2, <1>3, <1>4, <1>5, <1>6, <1>7 DEF Next

\* The inductive invariant holds throughout.
THEOREM Invariance == Spec => []AInv
BY InitEstablishes, StepPreserves, PTL DEF Spec

\* Types of all variables.
THEOREM TypeInvariant == Spec => []TypeOK
<1>1. AInv => TypeOK
  BY DEF AInv
<1> QED BY <1>1, Invariance, PTL

\* authenticateWallet: a challenge logs in at most once, as it is spent before the
\* first await and its nonce never drawn again.
THEOREM ChallengeOnce == Spec => []NonceLogsInOnce
<1>1. AInv => NonceLogsInOnce
  BY DEF AInv, PairInv, NonceLogsInOnce, Accepted, Ok
<1> QED BY <1>1, Invariance, PTL

\* Every refresh session goes back to a login with a genuine signature over its own
\* challenge or with the password, of that user.
THEOREM EarnedSessions == Spec => []SessionsAreEarned
<1>1. AInv => SessionsAreEarned
  BY DEF AInv, TableInv, RowInv, SessionsAreEarned
<1> QED BY <1>1, Invariance, PTL

\* revokeRefreshToken: nothing is refreshed on a token after its logout was answered.
THEOREM FinalLogout == Spec => []LogoutIsFinal
<1>1. AInv => LogoutIsFinal
  BY DEF AInv, RequestInv, SessionInv, LogoutIsFinal
<1> QED BY <1>1, Invariance, PTL

\* registerUser: one registration per username, which keeps its password.
THEOREM UniqueRegistration == Spec => []OneRegistration
<1>1. AInv => OneRegistration
  BY DEF AInv, RequestInv, LoginInv, PairInv, OneRegistration, Registered
<1> QED BY <1>1, Invariance, PTL

\* An answered login has its account and its session, and an answered link its row.
THEOREM BackedAnswers == Spec => []AnswersAreBacked
<1>1. AInv => AnswersAreBacked
  BY DEF AInv, RequestInv, LoginInv, HasSession, AnswersAreBacked, Answered, Ok
<1> QED BY <1>1, Invariance, PTL
==============================================================================

-------------------------- MODULE MCClientSession --------------------------
(***************************************************************************)
(* Instances of ClientSession for TLC: operations of one tab, or of two,   *)
(* which may begin in any order and overlap.                               *)
(***************************************************************************)
EXTENDS ClientSession, TLC

CONSTANTS alice, bob, t1, t2

Nothing == Operation("none", t1, None, FALSE)
Load(t) == Operation("load", t, None, FALSE)
Call(t) == Operation("call", t, None, FALSE)
Withdraw(t) == Operation("withdraw", t, None, FALSE)
Logout(t) == Operation("logout", t, None, FALSE)
Login(t, u, told) == Operation("login", t, u, told)

Plan(u, n, a, b, c, d) == [first |-> u, faults |-> n, open |-> {a.tab, b.tab, c.tab, d.tab},
                           calls |-> (1 :> a @@ 2 :> b @@ 3 :> c @@ 4 :> d)]

BrowserPlans ==
    { \* another user logs in, in the tab's own panel
      Plan(alice, 1, Load(t1), Logout(t1), Login(t1, bob, TRUE), Nothing),
      Plan(alice, 0, Load(t1), Login(t1, bob, TRUE), Load(t1), Withdraw(t1)),
      \* a first login
      Plan(None, 1, Login(t1, alice, TRUE), Load(t1), Withdraw(t1), Nothing),
      \* two tabs
      Plan(alice, 1, Call(t1), Call(t2), Nothing, Nothing),
      Plan(alice, 1, Call(t1), Call(t1), Nothing, Nothing),
      Plan(alice, 1, Load(t1), Withdraw(t1), Call(t2), Nothing),
      Plan(alice, 1, Call(t1), Logout(t2), Login(t2, bob, FALSE), Nothing) }
=============================================================================

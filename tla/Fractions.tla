------------------------------ MODULE Fractions ------------------------------
(***************************************************************************)
(* Non-negative fractions in lowest terms, for amounts in USD and weights: *)
(* the exact values that the server's floating-point numbers stand for.    *)
(***************************************************************************)
EXTENDS Integers, Functions

\* x times n/d is a whole number.
Clears(n, d, x) == (n * x) % d = 0

IsLowest(f) == \A x \in 1 .. f.d - 1 : ~Clears(f.n, f.d, x)

Fraction == {f \in [n : Nat, d : Nat \ {0}] : IsLowest(f)}

\* The least denominator.
LeastClearing(n, d) == CHOOSE x \in 1 .. d : Clears(n, d, x) /\ \A y \in 1 .. x - 1 : ~Clears(n, d, y)

Lowest(n, d) == LET x == LeastClearing(n, d) IN [n |-> (n * x) \div d, d |-> x]

Whole(n) == [n |-> n, d |-> 1]
Zero == Whole(0)

Leq(a, b)      == a.n * b.d <= b.n * a.d
Less(a, b)     == ~Leq(b, a)
Plus(a, b)     == Lowest(a.n * b.d + b.n * a.d, a.d * b.d)
Times(a, b)    == Lowest(a.n * b.n, a.d * b.d)
Ratio(a, b)    == Lowest(a.n * b.d, a.d * b.n)
SmallerOf(a, b) == IF Leq(a, b) THEN a ELSE b

\* a - b, and zero when b is larger.
Monus(a, b) == IF Leq(a, b) THEN Zero ELSE Lowest(a.n * b.d - b.n * a.d, a.d * b.d)

SumOver(f, S) == FoldFunctionOnSet(Plus, Zero, f, S)
SumAll(f)     == SumOver(f, DOMAIN f)
==============================================================================

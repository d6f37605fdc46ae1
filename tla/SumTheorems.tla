---------------------------- MODULE SumTheorems ----------------------------
(***************************************************************************)
(* Sums over finite sets.  The modules add up with MapThenSumSet and       *)
(* FoldFunctionOnSet of the community modules, recursions that take        *)
(* elements out of the set one by one.  What they compute is derived here  *)
(* from their definitions: that there is such a function at all            *)
(* (PartialUnfolds, PartUnrolls), that the order does not matter           *)
(* (SumOfElement, TotalOfElement), and what follows for the proofs.  For   *)
(* sums of fractions this needs the laws of fractions, which come first.   *)
(***************************************************************************)
EXTENDS Fractions, Sequences, FiniteSets, FiniteSetsExt, FiniteSetTheorems, WellFoundedInduction, TLAPS

\* The form of induction that the proofs below have: a least counterexample.
LEMMA Least ==
    ASSUME NEW T \in SUBSET Nat, T # {} PROVE \E n \in T : \A k \in T : n <= k
<1>1. PICK n \in T : \A k \in T : ~ (<<k, n>> \in OpToRel(<, Nat))
    BY NatLessThanWellFounded, WFMin
<1>2. \A k \in T : ~(k < n)
    BY <1>1 DEF OpToRel
<1> QED
    BY <1>2

\* The sum of f over S.
SumOn(f, S) == MapThenSumSet(LAMBDA x : f[x], S)

\* The element that the recursion takes.
First(S) == CHOOSE x \in S : TRUE

\* What the sums of the subsets of S are, one element less at a time.
Unfolds(h, f, D) == h = [s \in D |-> IF s = {} THEN 0 ELSE f[First(s)] + h[s \ {First(s)}]]
Partial(f, S) == CHOOSE h : Unfolds(h, f, SUBSET S)

LEMMA SumIsPartial == ASSUME NEW f, NEW S PROVE SumOn(f, S) = Partial(f, S)[S]
BY DEF SumOn, Partial, Unfolds, MapThenSumSet, MapThenFoldSet, First

\* The subsets of S of n elements at most.
UpTo(S, n) == {s \in SUBSET S : Cardinality(s) <= n}

LEMMA Smaller ==
    ASSUME NEW S, IsFiniteSet(S), NEW s \in SUBSET S, s # {}
    PROVE  /\ s \ {First(s)} \in SUBSET S /\ First(s) \in s /\ Cardinality(s) \in Nat /\ Cardinality(s) > 0
           /\ Cardinality(s \ {First(s)}) = Cardinality(s) - 1
<1>1. IsFiniteSet(s) /\ First(s) \in s
    BY FS_Subset DEF First
<1> QED
    BY <1>1, FS_RemoveElement, FS_CardinalityType, FS_EmptySet

LEMMA UnfoldingUpTo ==
    ASSUME NEW f, NEW S, IsFiniteSet(S), NEW n \in Nat
    PROVE  \E h : Unfolds(h, f, UpTo(S, n))
<1> DEFINE bad == {m \in Nat : ~\E h : Unfolds(h, f, UpTo(S, m))}
<1> SUFFICES ASSUME bad # {} PROVE FALSE
    OBVIOUS
<1>1. PICK m \in bad : \A k \in bad : m <= k
    BY Least
<1>2. CASE m = 0
  <2> DEFINE h == [s \in UpTo(S, 0) |-> 0]
  <2>1. ASSUME NEW s \in UpTo(S, 0) PROVE s = {}
    <3>1. s \in SUBSET S /\ Cardinality(s) <= 0
        BY DEF UpTo
    <3>2. s # {} => Cardinality(s) \in Nat /\ Cardinality(s) > 0
        BY <3>1, Smaller
    <3> QED
        BY <3>1, <3>2
  <2>2. Unfolds(h, f, UpTo(S, 0))
      BY <2>1 DEF Unfolds
  <2> QED
      BY <1>1, <1>2, <2>2
<1>3. CASE m > 0
  <2>1. m - 1 \in Nat /\ m - 1 \notin bad
      BY <1>1, <1>3
  <2>2. PICK g : Unfolds(g, f, UpTo(S, m - 1))
      BY <2>1
  <2> DEFINE h == [s \in UpTo(S, m) |-> IF s = {} THEN 0 ELSE f[First(s)] + g[s \ {First(s)}]]
  <2>3. ASSUME NEW t \in UpTo(S, m - 1) PROVE h[t] = g[t]
    <3>1. t \in UpTo(S, m)
        BY <1>1, FS_Subset, FS_CardinalityType DEF UpTo
    <3> QED
        BY <2>2, <3>1 DEF Unfolds
  <2>4. ASSUME NEW s \in UpTo(S, m), s # {} PROVE s \ {First(s)} \in UpTo(S, m - 1)
      BY <1>1, <2>4, Smaller DEF UpTo
  <2>5. \A s \in UpTo(S, m) : s # {} => g[s \ {First(s)}] = h[s \ {First(s)}]
      BY <2>3, <2>4
  <2>6. Unfolds(h, f, UpTo(S, m))
      BY <2>5 DEF Unfolds
  <2> QED
      BY <1>1, <2>6
<1> QED
    BY <1>1, <1>2, <1>3

LEMMA PartialUnfolds ==
    ASSUME NEW f, NEW S, IsFiniteSet(S) PROVE Unfolds(Partial(f, S), f, SUBSET S)
<1>1. Cardinality(S) \in Nat
    BY FS_CardinalityType
<1>2. UpTo(S, Cardinality(S)) = SUBSET S
    BY FS_Subset DEF UpTo
<1>3. \E h : Unfolds(h, f, UpTo(S, Cardinality(S)))
    BY <1>1, UnfoldingUpTo
<1> QED
    BY <1>2, <1>3 DEF Partial

\* Induction on a finite set: a smallest counterexample.
LEMMA MinimalSet ==
    ASSUME NEW S, IsFiniteSet(S), NEW B, B \subseteq SUBSET S, B # {}
    PROVE  \E t \in B : IsFiniteSet(t) /\ \A x \in t : t \ {x} \notin B
<1> DEFINE sizes == {Cardinality(t) : t \in B}
<1>1. sizes \in SUBSET Nat /\ sizes # {}
    BY FS_Subset, FS_CardinalityType
<1>2. PICK n \in sizes : \A k \in sizes : n <= k
    BY <1>1, Least
<1>3. PICK t \in B : Cardinality(t) = n
    BY <1>2
<1>4. IsFiniteSet(t) /\ n \in Nat
    BY <1>1, <1>3, FS_Subset
<1>5. ASSUME NEW x \in t PROVE t \ {x} \notin B
  <2>1. Cardinality(t \ {x}) = n - 1
      BY <1>3, <1>4, FS_RemoveElement
  <2>2. t \ {x} \in B => n <= Cardinality(t \ {x})
      BY <1>2
  <2> QED
      BY <1>4, <2>1, <2>2
<1> QED
    BY <1>4, <1>5

\* The sum of a part is the same wherever it is taken.
LEMMA PartialOfPart ==
    ASSUME NEW f, NEW S, IsFiniteSet(S), NEW s \in SUBSET S PROVE Partial(f, S)[s] = SumOn(f, s)
<1> DEFINE bad == {t \in SUBSET s : Partial(f, S)[t] # Partial(f, s)[t]}
<1>1. IsFiniteSet(s)
    BY FS_Subset
<1>2. Unfolds(Partial(f, S), f, SUBSET S) /\ Unfolds(Partial(f, s), f, SUBSET s)
    BY <1>1, PartialUnfolds
<1>3. bad = {}
  <2> SUFFICES ASSUME bad # {} PROVE FALSE
      OBVIOUS
  <2>1. PICK t \in bad : \A x \in t : t \ {x} \notin bad
      BY <1>1, MinimalSet
  <2>2. t # {} /\ t \in SUBSET S
      BY <1>2 DEF Unfolds
  <2> DEFINE u == t \ {First(t)}
  <2>3. First(t) \in t
      BY <2>2 DEF First
  <2>4. Partial(f, S)[u] = Partial(f, s)[u]
      BY <2>1, <2>3
  <2>5. Partial(f, S)[t] = f[First(t)] + Partial(f, S)[u]
      BY <1>2, <2>2 DEF Unfolds
  <2>6. Partial(f, s)[t] = f[First(t)] + Partial(f, s)[u]
      BY <1>2, <2>2 DEF Unfolds
  <2> QED
      BY <2>4, <2>5, <2>6
<1> QED
    BY <1>3, SumIsPartial

LEMMA SumEmpty == ASSUME NEW f PROVE SumOn(f, {}) = 0
<1>1. Unfolds(Partial(f, {}), f, SUBSET {})
    BY PartialUnfolds, FS_EmptySet
<1> QED
    BY <1>1, SumIsPartial DEF Unfolds

LEMMA SumFirst ==
    ASSUME NEW f, NEW S, IsFiniteSet(S), S # {}
    PROVE  SumOn(f, S) = f[First(S)] + SumOn(f, S \ {First(S)})
<1>1. Unfolds(Partial(f, S), f, SUBSET S)
    BY PartialUnfolds
<1>2. Partial(f, S)[S] = f[First(S)] + Partial(f, S)[S \ {First(S)}]
    BY <1>1 DEF Unfolds
<1> QED
    BY <1>2, PartialOfPart, SumIsPartial

\* Sums of integers are integers, sums of naturals are naturals.
LEMMA SumType ==
    ASSUME NEW f, NEW S, IsFiniteSet(S), NEW V \in {Int, Nat}, \A x \in S : f[x] \in V
    PROVE  SumOn(f, S) \in V
<1> DEFINE bad == {t \in SUBSET S : SumOn(f, t) \notin V}
<1> SUFFICES ASSUME bad # {} PROVE FALSE
    OBVIOUS
<1>1. PICK t \in bad : IsFiniteSet(t) /\ \A x \in t : t \ {x} \notin bad
    BY MinimalSet
<1>2. t # {}
    BY SumEmpty
<1>3. First(t) \in t
    BY <1>2 DEF First
<1>4. SumOn(f, t \ {First(t)}) \in V /\ f[First(t)] \in V
    BY <1>1, <1>3
<1> QED
    BY <1>1, <1>2, <1>4, SumFirst

\* Any element may be taken out of a sum.
LEMMA SumOfElement ==
    ASSUME NEW f, NEW S, IsFiniteSet(S), \A x \in S : f[x] \in Int, NEW x \in S
    PROVE  SumOn(f, S) = f[x] + SumOn(f, S \ {x})
<1> DEFINE bad == {t \in SUBSET S : \E y \in t : SumOn(f, t) # f[y] + SumOn(f, t \ {y})}
<1> SUFFICES ASSUME bad # {} PROVE FALSE
    OBVIOUS
<1>1. PICK t \in bad : IsFiniteSet(t) /\ \A y \in t : t \ {y} \notin bad
    BY MinimalSet
<1>2. PICK y \in t : SumOn(f, t) # f[y] + SumOn(f, t \ {y})
    OBVIOUS
<1> DEFINE z == First(t)
<1>3. z \in t
    BY DEF First
<1>4. SumOn(f, t) = f[z] + SumOn(f, t \ {z})
    BY <1>1, <1>3, SumFirst
<1>5. y # z
    BY <1>2, <1>4
<1>6. SumOn(f, t \ {z}) = f[y] + SumOn(f, (t \ {z}) \ {y})
    BY <1>1, <1>3, <1>5
<1>7. SumOn(f, t \ {y}) = f[z] + SumOn(f, (t \ {y}) \ {z})
    BY <1>1, <1>3, <1>5
<1>8. (t \ {z}) \ {y} = (t \ {y}) \ {z}
    OBVIOUS
<1>9. SumOn(f, (t \ {y}) \ {z}) \in Int /\ f[y] \in Int /\ f[z] \in Int
  <2>1. IsFiniteSet((t \ {y}) \ {z}) /\ \A w \in (t \ {y}) \ {z} : f[w] \in Int
      BY <1>1, FS_Subset
  <2> QED
      BY <1>3, <2>1, SumType
<1>10. \A a \in Int, b \in Int, c \in Int : a + (b + c) = b + (a + c)
    OBVIOUS
<1>11. SumOn(f, t) = f[z] + (f[y] + SumOn(f, (t \ {y}) \ {z}))
    BY <1>4, <1>6, <1>8
<1>12. SumOn(f, t) = f[y] + (f[z] + SumOn(f, (t \ {y}) \ {z}))
    BY <1>9, <1>10, <1>11
<1> QED
    BY <1>2, <1>7, <1>12

\* Values that agree have one sum.
LEMMA SumOfEqual ==
    ASSUME NEW f, NEW g, NEW S, IsFiniteSet(S), \A x \in S : f[x] = g[x]
    PROVE  SumOn(f, S) = SumOn(g, S)
<1> DEFINE bad == {t \in SUBSET S : SumOn(f, t) # SumOn(g, t)}
<1> SUFFICES ASSUME bad # {} PROVE FALSE
    OBVIOUS
<1>1. PICK t \in bad : IsFiniteSet(t) /\ \A x \in t : t \ {x} \notin bad
    BY MinimalSet
<1>2. t # {}
    BY SumEmpty
<1>3. First(t) \in t
    BY <1>2 DEF First
<1>4. SumOn(f, t \ {First(t)}) = SumOn(g, t \ {First(t)}) /\ f[First(t)] = g[First(t)]
    BY <1>1, <1>3
<1> QED
    BY <1>1, <1>2, <1>4, SumFirst

\* A sum of zeros is zero.
LEMMA SumOfZeros ==
    ASSUME NEW f, NEW S, IsFiniteSet(S), \A x \in S : f[x] = 0 PROVE SumOn(f, S) = 0
<1> DEFINE bad == {t \in SUBSET S : SumOn(f, t) # 0}
<1> SUFFICES ASSUME bad # {} PROVE FALSE
    OBVIOUS
<1>1. PICK t \in bad : IsFiniteSet(t) /\ \A x \in t : t \ {x} \notin bad
    BY MinimalSet
<1>2. t # {}
    BY SumEmpty
<1>3. First(t) \in t
    BY <1>2 DEF First
<1>4. SumOn(f, t \ {First(t)}) = 0 /\ f[First(t)] = 0
    BY <1>1, <1>3
<1> QED
    BY <1>1, <1>2, <1>4, SumFirst
\* One more element.
LEMMA SumAdd ==
    ASSUME NEW f, NEW S, IsFiniteSet(S), NEW x, x \notin S, \A y \in S \cup {x} : f[y] \in Int
    PROVE  SumOn(f, S \cup {x}) = SumOn(f, S) + f[x]
<1>1. IsFiniteSet(S \cup {x}) /\ (S \cup {x}) \ {x} = S /\ x \in S \cup {x}
    BY FS_AddElement
<1>2. SumOn(f, S \cup {x}) = f[x] + SumOn(f, (S \cup {x}) \ {x})
    BY <1>1, SumOfElement
<1>3. SumOn(f, S) \in Int /\ f[x] \in Int
    BY SumType
<1>4. SumOn(f, S \cup {x}) = f[x] + SumOn(f, S)
    BY <1>1, <1>2
<1> HIDE DEF SumOn
<1> QED
    BY <1>3, <1>4

\* One value changed.
LEMMA SumChange ==
    ASSUME NEW f, NEW g, NEW S, IsFiniteSet(S), NEW x \in S, \A y \in S : f[y] \in Int /\ g[y] \in Int,
           \A y \in S \ {x} : g[y] = f[y]
    PROVE  SumOn(g, S) = SumOn(f, S) - f[x] + g[x]
<1>1. SumOn(f, S) = f[x] + SumOn(f, S \ {x}) /\ SumOn(g, S) = g[x] + SumOn(g, S \ {x})
    BY SumOfElement
<1>2. IsFiniteSet(S \ {x})
    BY FS_Subset
<1>3. SumOn(g, S \ {x}) = SumOn(f, S \ {x})
    BY <1>2, SumOfEqual
<1>4. SumOn(f, S \ {x}) \in Int /\ f[x] \in Int /\ g[x] \in Int
    BY <1>2, SumType
<1> QED
    BY <1>1, <1>3, <1>4

\* What is zero may be left out.
LEMMA SumWithoutZeros ==
    ASSUME NEW f, NEW S, IsFiniteSet(S), NEW T \in SUBSET S, \A x \in S : f[x] \in Int,
           \A x \in S \ T : f[x] = 0
    PROVE  SumOn(f, S) = SumOn(f, T)
<1> DEFINE bad == {t \in SUBSET S : SumOn(f, t) # SumOn(f, t \cap T)}
<1>1. bad = {}
  <2> SUFFICES ASSUME bad # {} PROVE FALSE
      OBVIOUS
  <2>1. PICK t \in bad : IsFiniteSet(t) /\ \A x \in t : t \ {x} \notin bad
      BY MinimalSet
  <2>2. t \in SUBSET S /\ t # t \cap T
      OBVIOUS
  <2>3. PICK x \in t : x \notin T
      BY <2>2
  <2>4. f[x] = 0 /\ (t \ {x}) \cap T = t \cap T /\ t \ {x} \in SUBSET S
      BY <2>2, <2>3
  <2>5. SumOn(f, t) = f[x] + SumOn(f, t \ {x})
      BY <2>1, <2>2, SumOfElement
  <2>6. SumOn(f, t \ {x}) = SumOn(f, t \cap T)
      BY <2>1, <2>4
  <2>7. IsFiniteSet(t \cap T) /\ \A y \in t \cap T : f[y] \in Int
      BY <2>1, <2>2, FS_Subset
  <2>8. SumOn(f, t \cap T) \in Int
      BY <2>7, SumType
  <2> QED
      BY <2>4, <2>5, <2>6, <2>8
<1>2. S \notin bad /\ S \cap T = T
    BY <1>1
<1> QED
    BY <1>2

\* The sum of a sequence that grows.
LEMMA SumAppend ==
    ASSUME NEW s \in Seq(Int), NEW x \in Int
    PROVE  SumOn(Append(s, x), DOMAIN Append(s, x)) = SumOn(s, DOMAIN s) + x
<1> DEFINE n == Len(s)
           u == Append(s, x)
<1>1. DOMAIN s = 1 .. n /\ n \in Nat /\ DOMAIN u = (1 .. n) \cup {n + 1} /\ n + 1 \notin 1 .. n
    OBVIOUS
<1>2. u[n + 1] = x /\ \A i \in 1 .. n : u[i] = s[i] /\ s[i] \in Int
    BY <1>1
<1>3. IsFiniteSet(1 .. n)
    BY <1>1, FS_Interval
<1> HIDE DEF n, u
<1> DEFINE D == 1 .. n
<1>4. SumOn(u, D \cup {n + 1}) = SumOn(u, D) + u[n + 1]
  <2>1. \A y \in D \cup {n + 1} : u[y] \in Int
      BY <1>2
  <2>2. IsFiniteSet(D) /\ n + 1 \notin D
      BY <1>1, <1>3
  <2> HIDE DEF D
  <2> QED
      BY <2>1, <2>2, SumAdd
<1>5. SumOn(u, D) = SumOn(s, D)
    BY <1>2, <1>3, SumOfEqual
<1> QED
    BY <1>1, <1>2, <1>4, <1>5 DEF u

-----------------------------------------------------------------------------
(* Fractions.  Lowest terms are found by search; that two fractions of one *)
(* value are one record (EqualFractions) is what the laws of their         *)
(* arithmetic rest on, each over a common denominator (Common3, Is).       *)

LEMMA Cancels ==
    ASSUME NEW a \in Int, NEW b \in Int, NEW c \in Nat \ {0}, a * c = b * c PROVE a = b
<1>1. (a - b) * c = 0
    OBVIOUS
<1> QED
    BY <1>1

LEMMA Divides ==
    ASSUME NEW a \in Nat, NEW d \in Nat \ {0}, a % d = 0
    PROVE  a \div d \in Nat /\ (a \div d) * d = a
OBVIOUS

LEMMA Multiple ==
    ASSUME NEW k \in Nat, NEW d \in Nat \ {0} PROVE (k * d) % d = 0 /\ (k * d) \div d = k
<1>1. k * d \in Nat
    OBVIOUS
<1>2. (k * d) = d * ((k * d) \div d) + ((k * d) % d) /\ (k * d) % d \in 0 .. d - 1
    BY <1>1
<1> QED
    BY <1>1, <1>2

\* A product of three, in another order.
LEMMA Swap3 ==
    ASSUME NEW a \in Int, NEW b \in Int, NEW c \in Int
    PROVE  (a * b) * c = (a * c) * b /\ (a * b) * c = (b * c) * a /\ a * b \in Int /\ a * b = b * a
OBVIOUS

\* n/d and m/e are the same number.
Same(n, d, m, e) == n * e = m * d

\* Two fractions of one value have the same denominators.
LEMMA SameDenominators ==
    ASSUME NEW n \in Nat, NEW d \in Nat \ {0}, NEW m \in Nat, NEW e \in Nat \ {0}, Same(n, d, m, e),
           NEW y \in Nat, Clears(n, d, y)
    PROVE  Clears(m, e, y)
<1>1. n * y \in Nat /\ m * y \in Nat /\ n * e \in Nat
    OBVIOUS
<1>2. PICK k \in Nat : k * d = n * y
    BY <1>1, Divides DEF Clears
<1>3. (m * y) * d = (k * e) * d
  <2>1. (m * y) * d = (m * d) * y
      BY Swap3
  <2>2. (n * e) * y = (n * y) * e
      BY Swap3
  <2>3. (k * d) * e = (k * e) * d
      BY Swap3
  <2> QED
      BY <1>2, <2>1, <2>2, <2>3 DEF Same
<1>4. m * y = k * e
  <2>1. m * y \in Int /\ k * e \in Int
      OBVIOUS
  <2> QED
      BY <1>3, <2>1, Cancels
<1> QED
    BY <1>4, Multiple DEF Clears

LEMMA SameTurns ==
    ASSUME NEW n \in Nat, NEW d \in Nat, NEW m \in Nat, NEW e \in Nat, Same(n, d, m, e) PROVE Same(m, e, n, d)
BY DEF Same

LEMMA LeastClears ==
    ASSUME NEW n \in Nat, NEW d \in Nat \ {0}
    PROVE  /\ LeastClearing(n, d) \in 1 .. d /\ Clears(n, d, LeastClearing(n, d))
           /\ \A y \in 1 .. LeastClearing(n, d) - 1 : ~Clears(n, d, y)
<1> DEFINE T == {x \in Nat : x >= 1 /\ Clears(n, d, x)}
<1>1. d \in T
    BY Multiple DEF Clears
<1>2. PICK x \in T : \A y \in T : x <= y
    BY <1>1, Least
<1>3. x \in 1 .. d
    BY <1>1, <1>2
<1>4. ASSUME NEW y \in 1 .. x - 1 PROVE ~Clears(n, d, y)
    BY <1>2
<1> QED
    BY <1>2, <1>3, <1>4 DEF LeastClearing

LEMMA LowestIs ==
    ASSUME NEW n \in Nat, NEW d \in Nat \ {0}
    PROVE  \E x \in Nat \ {0}, k \in Nat : /\ Lowest(n, d) = [n |-> k, d |-> x] /\ Same(k, x, n, d)
                                           /\ Clears(n, d, x) /\ \A y \in 1 .. x - 1 : ~Clears(n, d, y)
<1>1. PICK x \in 1 .. d : /\ x = LeastClearing(n, d) /\ Clears(n, d, x)
                          /\ \A y \in 1 .. x - 1 : ~Clears(n, d, y)
    BY LeastClears
<1>2. n * x \in Nat /\ x \in Nat \ {0}
    OBVIOUS
<1>3. (n * x) \div d \in Nat /\ ((n * x) \div d) * d = n * x
    BY <1>1, <1>2, Divides DEF Clears
<1> QED
    BY <1>1, <1>2, <1>3 DEF Same, Lowest

\* Two fractions of one value are the same in lowest terms.
LEMMA LowestOfEqual ==
    ASSUME NEW n \in Nat, NEW d \in Nat \ {0}, NEW m \in Nat, NEW e \in Nat \ {0}, Same(n, d, m, e)
    PROVE  Lowest(n, d) = Lowest(m, e)
<1>1. PICK x \in Nat \ {0}, k \in Nat :
         /\ Lowest(n, d) = [n |-> k, d |-> x] /\ Same(k, x, n, d)
         /\ Clears(n, d, x) /\ \A y \in 1 .. x - 1 : ~Clears(n, d, y)
    BY LowestIs
<1>2. PICK y \in Nat \ {0}, l \in Nat :
         /\ Lowest(m, e) = [n |-> l, d |-> y] /\ Same(l, y, m, e)
         /\ Clears(m, e, y) /\ \A z \in 1 .. y - 1 : ~Clears(m, e, z)
    BY LowestIs
<1>3. Clears(m, e, x) /\ Clears(n, d, y)
    BY <1>1, <1>2, SameDenominators, SameTurns
<1>4. x = y
    BY <1>1, <1>2, <1>3
<1>5. (k * d) * e = (l * e) * d
  <2>1. (n * x) * e = (n * e) * x /\ (m * x) * d = (m * d) * x
      BY Swap3
  <2> QED
      BY <1>1, <1>2, <1>4, <2>1 DEF Same
<1>6. (k * e) * d = (l * e) * d /\ k * e \in Int /\ l * e \in Int
    BY <1>5, Swap3
<1>7. k * e = l * e
    BY <1>6, Cancels
<1>8. k = l
    BY <1>7, Cancels
<1> QED
    BY <1>1, <1>2, <1>4, <1>8

LEMMA LowestType ==
    ASSUME NEW n \in Nat, NEW d \in Nat \ {0}
    PROVE  /\ Lowest(n, d) \in Fraction /\ Lowest(n, d).n \in Nat /\ Lowest(n, d).d \in Nat \ {0}
           /\ Same(Lowest(n, d).n, Lowest(n, d).d, n, d)
<1>1. PICK x \in Nat \ {0}, k \in Nat :
         /\ Lowest(n, d) = [n |-> k, d |-> x] /\ Same(k, x, n, d)
         /\ Clears(n, d, x) /\ \A y \in 1 .. x - 1 : ~Clears(n, d, y)
    BY LowestIs
<1>2. ASSUME NEW y \in 1 .. x - 1, Clears(k, x, y) PROVE FALSE
    BY <1>1, <1>2, SameDenominators
<1> QED
    BY <1>1, <1>2 DEF Fraction, IsLowest

LEMMA FractionType == ASSUME NEW f \in Fraction PROVE f.n \in Nat /\ f.d \in Nat \ {0}
BY DEF Fraction

LEMMA LowestOfFraction == ASSUME NEW f \in Fraction PROVE Lowest(f.n, f.d) = f
<1>1. f.n \in Nat /\ f.d \in Nat \ {0} /\ f = [n |-> f.n, d |-> f.d] /\ IsLowest(f)
    BY DEF Fraction
<1>2. PICK x \in Nat \ {0}, k \in Nat :
         /\ Lowest(f.n, f.d) = [n |-> k, d |-> x] /\ Same(k, x, f.n, f.d)
         /\ Clears(f.n, f.d, x) /\ \A y \in 1 .. x - 1 : ~Clears(f.n, f.d, y)
    BY <1>1, LowestIs
<1>3. Clears(f.n, f.d, f.d)
    BY <1>1, Multiple DEF Clears
<1>4. x = f.d
    BY <1>1, <1>2, <1>3 DEF IsLowest
<1>5. k = f.n
    BY <1>1, <1>2, <1>4, Cancels DEF Same
<1> QED
    BY <1>1, <1>2, <1>4, <1>5

\* Equal values are equal.
LEMMA EqualFractions ==
    ASSUME NEW f \in Fraction, NEW g \in Fraction, Same(f.n, f.d, g.n, g.d) PROVE f = g
BY FractionType, LowestOfFraction, LowestOfEqual
-----------------------------------------------------------------------------
LEMMA SameTrans ==
    ASSUME NEW n \in Nat, NEW d \in Nat \ {0}, NEW m \in Nat, NEW e \in Nat \ {0},
           NEW k \in Nat, NEW l \in Nat \ {0}, Same(n, d, m, e), Same(m, e, k, l)
    PROVE  Same(n, d, k, l)
<1>1. (n * l) * e = (k * d) * e
  <2>1. (n * l) * e = (n * e) * l /\ (m * d) * l = (m * l) * d /\ (k * e) * d = (k * d) * e
      BY Swap3
  <2> QED
      BY <2>1 DEF Same
<1>2. n * l \in Int /\ k * d \in Int
    OBVIOUS
<1> QED
    BY <1>1, <1>2, Cancels DEF Same

\* a is A/D.
Is(a, A, D) == Same(a.n, a.d, A, D)

LEMMA IsSame ==
    ASSUME NEW a \in Fraction, NEW b \in Fraction, NEW A \in Nat, NEW D \in Nat \ {0}, Is(a, A, D), Is(b, A, D)
    PROVE  a = b
<1>1. a.n \in Nat /\ a.d \in Nat \ {0} /\ b.n \in Nat /\ b.d \in Nat \ {0}
    BY FractionType
<1>2. Same(A, D, b.n, b.d)
    BY <1>1, SameTurns DEF Is
<1>3. Same(a.n, a.d, b.n, b.d)
    BY <1>1, <1>2, SameTrans DEF Is
<1> QED
    BY <1>3, EqualFractions

LEMMA IsOne ==
    ASSUME NEW a \in Fraction, NEW A \in Nat, NEW B \in Nat, NEW D \in Nat \ {0}, Is(a, A, D), Is(a, B, D)
    PROVE  A = B
<1>1. PICK d \in Nat \ {0} : d = a.d
    BY FractionType
<1>2. A * d = B * d
    BY <1>1 DEF Is, Same
<1> QED
    BY <1>2, Cancels

LEMMA IsLowered ==
    ASSUME NEW n \in Nat, NEW d \in Nat \ {0}, NEW A \in Nat, NEW D \in Nat \ {0}, Same(n, d, A, D)
    PROVE  Lowest(n, d) \in Fraction /\ Is(Lowest(n, d), A, D)
<1>1. /\ Lowest(n, d) \in Fraction /\ Lowest(n, d).n \in Nat /\ Lowest(n, d).d \in Nat \ {0}
      /\ Same(Lowest(n, d).n, Lowest(n, d).d, n, d)
    BY LowestType
<1>2. Same(Lowest(n, d).n, Lowest(n, d).d, A, D)
    BY <1>1, SameTrans
<1> QED
    BY <1>1, <1>2 DEF Is

LEMMA OrderCancels ==
    ASSUME NEW a \in Int, NEW b \in Int, NEW c \in Nat \ {0} PROVE a * c <= b * c <=> a <= b
<1>1. a <= b => a * c <= b * c
    OBVIOUS
<1>2. b + 1 <= a => b * c + c <= a * c
    OBVIOUS
<1> QED
    BY <1>1, <1>2

\* Numerators over one denominator.
LEMMA OverOne ==
    ASSUME NEW a \in Fraction, NEW b \in Fraction, NEW A \in Nat, NEW B \in Nat, NEW D \in Nat \ {0},
           Is(a, A, D), Is(b, B, D)
    PROVE  \E p \in Nat, q \in Nat, e \in Nat \ {0} :
              p = a.n * b.d /\ q = b.n * a.d /\ e = a.d * b.d /\ p * D = A * e /\ q * D = B * e
<1>1. PICK n \in Nat, d \in Nat \ {0} : n = a.n /\ d = a.d
    BY FractionType
<1>2. PICK m \in Nat, e \in Nat \ {0} : m = b.n /\ e = b.d
    BY FractionType
<1>3. n * D = A * d /\ m * D = B * e
    BY <1>1, <1>2 DEF Is, Same
<1>4. d * e \in Nat \ {0} /\ n * e \in Nat /\ m * d \in Nat
    OBVIOUS
<1>5. (n * e) * D = A * (d * e)
  <2>1. (n * e) * D = (n * D) * e /\ (A * d) * e = A * (d * e)
      OBVIOUS
  <2> QED
      BY <1>3, <2>1
<1>6. (m * d) * D = B * (d * e)
  <2>1. (m * d) * D = (m * D) * d /\ (B * e) * d = B * (d * e)
      OBVIOUS
  <2> QED
      BY <1>3, <2>1
<1> QED
    BY <1>1, <1>2, <1>4, <1>5, <1>6

LEMMA IsLeq ==
    ASSUME NEW a \in Fraction, NEW b \in Fraction, NEW A \in Nat, NEW B \in Nat, NEW D \in Nat \ {0},
           Is(a, A, D), Is(b, B, D)
    PROVE  Leq(a, b) <=> A <= B
<1>1. PICK p \in Nat, q \in Nat, e \in Nat \ {0} :
         p = a.n * b.d /\ q = b.n * a.d /\ e = a.d * b.d /\ p * D = A * e /\ q * D = B * e
    BY OverOne
<1>2. p <= q <=> p * D <= q * D
    BY OrderCancels
<1>3. A <= B <=> A * e <= B * e
    BY OrderCancels
<1> QED
    BY <1>1, <1>2, <1>3 DEF Leq

LEMMA IsPlus ==
    ASSUME NEW a \in Fraction, NEW b \in Fraction, NEW A \in Nat, NEW B \in Nat, NEW D \in Nat \ {0},
           Is(a, A, D), Is(b, B, D)
    PROVE  Plus(a, b) \in Fraction /\ Is(Plus(a, b), A + B, D)
<1>1. PICK p \in Nat, q \in Nat, e \in Nat \ {0} :
         p = a.n * b.d /\ q = b.n * a.d /\ e = a.d * b.d /\ p * D = A * e /\ q * D = B * e
    BY OverOne
<1>2. (p + q) * D = p * D + q * D /\ (A + B) * e = A * e + B * e
    OBVIOUS
<1>3. Same(p + q, e, A + B, D)
    BY <1>1, <1>2 DEF Same
<1>4. Plus(a, b) = Lowest(p + q, e)
    BY <1>1 DEF Plus
<1> QED
    BY <1>3, <1>4, IsLowered

LEMMA IsZero == ASSUME NEW D \in Nat \ {0} PROVE Zero \in Fraction /\ Is(Zero, 0, D)
BY DEF Zero, Whole, Fraction, IsLowest, Is, Same

LEMMA IsMonus ==
    ASSUME NEW a \in Fraction, NEW b \in Fraction, NEW A \in Nat, NEW B \in Nat, NEW D \in Nat \ {0},
           Is(a, A, D), Is(b, B, D)
    PROVE  /\ Monus(a, b) \in Fraction
           /\ A <= B => Monus(a, b) = Zero
           /\ B <= A => Is(Monus(a, b), A - B, D)
<1>1. PICK p \in Nat, q \in Nat, e \in Nat \ {0} :
         p = a.n * b.d /\ q = b.n * a.d /\ e = a.d * b.d /\ p * D = A * e /\ q * D = B * e
    BY OverOne
<1>2. Leq(a, b) <=> A <= B
    BY IsLeq
<1>3. CASE A <= B
    BY <1>2, <1>3, IsZero DEF Monus
<1>4. CASE ~(A <= B)
  <2>1. p - q \in Nat
    <3>1. ~(p <= q)
        BY <1>1, <1>2, <1>4 DEF Leq
    <3> QED
        BY <3>1
  <2>2. (p - q) * D = p * D - q * D /\ (A - B) * e = A * e - B * e /\ A - B \in Nat
      BY <1>4
  <2>3. Same(p - q, e, A - B, D)
      BY <1>1, <2>2 DEF Same
  <2>4. Monus(a, b) = Lowest(p - q, e)
      BY <1>1, <1>2, <1>4 DEF Monus
  <2> QED
      BY <1>4, <2>1, <2>2, <2>3, <2>4, IsLowered
<1> QED
    BY <1>3, <1>4

LEMMA IsTimes ==
    ASSUME NEW a \in Fraction, NEW b \in Fraction, NEW A \in Nat, NEW B \in Nat,
           NEW D \in Nat \ {0}, NEW E \in Nat \ {0}, Is(a, A, D), Is(b, B, E)
    PROVE  Times(a, b) \in Fraction /\ Is(Times(a, b), A * B, D * E)
<1>1. PICK n \in Nat, d \in Nat \ {0} : n = a.n /\ d = a.d
    BY FractionType
<1>2. PICK m \in Nat, e \in Nat \ {0} : m = b.n /\ e = b.d
    BY FractionType
<1>3. n * D = A * d /\ m * E = B * e
    BY <1>1, <1>2 DEF Is, Same
<1>4. n * m \in Nat /\ d * e \in Nat \ {0} /\ A * B \in Nat /\ D * E \in Nat \ {0}
    OBVIOUS
<1>5. (n * m) * (D * E) = (A * B) * (d * e)
  <2>1. (n * m) * (D * E) = (n * D) * (m * E) /\ (A * d) * (B * e) = (A * B) * (d * e)
      OBVIOUS
  <2> QED
      BY <1>3, <2>1
<1>6. Times(a, b) = Lowest(n * m, d * e)
    BY <1>1, <1>2 DEF Times
<1> QED
    BY <1>4, <1>5, <1>6, IsLowered DEF Same

LEMMA IsRatio ==
    ASSUME NEW a \in Fraction, NEW b \in Fraction, NEW A \in Nat, NEW B \in Nat \ {0}, NEW D \in Nat \ {0},
           Is(a, A, D), Is(b, B, D)
    PROVE  Ratio(a, b) \in Fraction /\ Is(Ratio(a, b), A, B)
<1>1. PICK n \in Nat, d \in Nat \ {0} : n = a.n /\ d = a.d
    BY FractionType
<1>2. PICK m \in Nat, e \in Nat \ {0} : m = b.n /\ e = b.d
    BY FractionType
<1>3. n * D = A * d /\ m * D = B * e
    BY <1>1, <1>2 DEF Is, Same
<1>4. m # 0
    BY <1>3
<1>5. n * e \in Nat /\ d * m \in Nat \ {0}
    BY <1>4
<1>6. ((n * e) * B) * D = (A * (d * m)) * D
  <2>1. ((n * e) * B) * D = (n * D) * (B * e) /\ (A * d) * (m * D) = (A * (d * m)) * D
      OBVIOUS
  <2> QED
      BY <1>3, <2>1
<1>7. (n * e) * B = A * (d * m)
  <2>1. (n * e) * B \in Int /\ A * (d * m) \in Int
      OBVIOUS
  <2> QED
      BY <1>6, <2>1, Cancels
<1>8. Ratio(a, b) = Lowest(n * e, d * m)
    BY <1>1, <1>2 DEF Ratio
<1> QED
    BY <1>5, <1>7, <1>8, IsLowered DEF Same
-----------------------------------------------------------------------------
(* Fractions over a common denominator.                                    *)

LEMMA Common3 ==
    ASSUME NEW a \in Fraction, NEW b \in Fraction, NEW c \in Fraction
    PROVE  \E D \in Nat \ {0}, A \in Nat, B \in Nat, C \in Nat : Is(a, A, D) /\ Is(b, B, D) /\ Is(c, C, D)
<1>1. PICK n \in Nat, d \in Nat \ {0} : n = a.n /\ d = a.d
    BY FractionType
<1>2. PICK m \in Nat, e \in Nat \ {0} : m = b.n /\ e = b.d
    BY FractionType
<1>3. PICK k \in Nat, f \in Nat \ {0} : k = c.n /\ f = c.d
    BY FractionType
<1>4. PICK D \in Nat \ {0}, A \in Nat, B \in Nat, C \in Nat :
         D = (d * e) * f /\ A = (n * e) * f /\ B = (m * d) * f /\ C = (k * d) * e
    OBVIOUS
<1>5. n * D = A * d /\ m * D = B * e /\ k * D = C * f
  <2>1. n * ((d * e) * f) = ((n * e) * f) * d
      OBVIOUS
  <2>2. m * ((d * e) * f) = ((m * d) * f) * e
      OBVIOUS
  <2>3. k * ((d * e) * f) = ((k * d) * e) * f
      OBVIOUS
  <2> QED
      BY <1>4, <2>1, <2>2, <2>3
<1> QED
    BY <1>1, <1>2, <1>3, <1>5 DEF Is, Same

LEMMA ZeroType == Zero \in Fraction
BY IsZero

LEMMA PlusLaws ==
    ASSUME NEW a \in Fraction, NEW b \in Fraction
    PROVE  /\ Plus(a, b) \in Fraction /\ Plus(a, b) = Plus(b, a)
           /\ Plus(Zero, a) = a /\ Plus(a, Zero) = a
           /\ Leq(a, Plus(a, b)) /\ Leq(b, Plus(a, b)) /\ Monus(Plus(a, b), a) = b
<1>1. PICK D \in Nat \ {0}, A \in Nat, B \in Nat : Is(a, A, D) /\ Is(b, B, D)
    BY Common3
<1>2. Zero \in Fraction /\ Is(Zero, 0, D)
    BY IsZero
<1>3. Plus(a, b) \in Fraction /\ Is(Plus(a, b), A + B, D)
    BY <1>1, IsPlus
<1>4. Plus(b, a) \in Fraction /\ Is(Plus(b, a), B + A, D)
    BY <1>1, IsPlus
<1>5. A + B \in Nat /\ B + A = A + B /\ 0 + A = A /\ A + 0 = A
    OBVIOUS
<1>6. Plus(a, b) = Plus(b, a)
    BY <1>3, <1>4, <1>5, IsSame
<1>7. Plus(Zero, a) \in Fraction /\ Is(Plus(Zero, a), A, D) /\ Plus(a, Zero) \in Fraction /\ Is(Plus(a, Zero), A, D)
    BY <1>1, <1>2, <1>5, IsPlus
<1>8. Plus(Zero, a) = a /\ Plus(a, Zero) = a
    BY <1>1, <1>7, IsSame
<1>9. Leq(a, Plus(a, b)) /\ Leq(b, Plus(a, b))
  <2>1. A <= A + B /\ B <= A + B
      OBVIOUS
  <2> QED
      BY <1>1, <1>3, <1>5, <2>1, IsLeq
<1>10. Monus(Plus(a, b), a) = b
  <2>1. A <= A + B /\ (A + B) - A = B
      OBVIOUS
  <2>2. Monus(Plus(a, b), a) \in Fraction /\ Is(Monus(Plus(a, b), a), B, D)
      BY <1>1, <1>3, <1>5, <2>1, IsMonus
  <2> QED
      BY <1>1, <2>2, IsSame
<1> QED
    BY <1>3, <1>6, <1>8, <1>9, <1>10

LEMMA PlusAssoc ==
    ASSUME NEW a \in Fraction, NEW b \in Fraction, NEW c \in Fraction
    PROVE  Plus(a, Plus(b, c)) = Plus(Plus(a, b), c)
<1>1. PICK D \in Nat \ {0}, A \in Nat, B \in Nat, C \in Nat : Is(a, A, D) /\ Is(b, B, D) /\ Is(c, C, D)
    BY Common3
<1>2. B + C \in Nat /\ A + B \in Nat /\ (A + B) + C \in Nat /\ A + (B + C) = (A + B) + C
    OBVIOUS
<1>3. Plus(b, c) \in Fraction /\ Is(Plus(b, c), B + C, D) /\ Plus(a, b) \in Fraction /\ Is(Plus(a, b), A + B, D)
    BY <1>1, IsPlus
<1>4. Plus(a, Plus(b, c)) \in Fraction /\ Is(Plus(a, Plus(b, c)), A + (B + C), D)
    BY <1>1, <1>2, <1>3, IsPlus
<1>5. Plus(Plus(a, b), c) \in Fraction /\ Is(Plus(Plus(a, b), c), (A + B) + C, D)
    BY <1>1, <1>2, <1>3, IsPlus
<1> QED
    BY <1>2, <1>4, <1>5, IsSame

\* One more term, put in between.
LEMMA PlusSwap ==
    ASSUME NEW a \in Fraction, NEW b \in Fraction, NEW c \in Fraction
    PROVE  Plus(a, Plus(b, c)) = Plus(b, Plus(a, c))
<1>1. Plus(a, Plus(b, c)) = Plus(Plus(a, b), c) /\ Plus(b, Plus(a, c)) = Plus(Plus(b, a), c)
    BY PlusAssoc
<1> QED
    BY <1>1, PlusLaws

LEMMA LeqLaws ==
    ASSUME NEW a \in Fraction, NEW b \in Fraction
    PROVE  /\ Leq(a, a) /\ Leq(Zero, a) /\ (Leq(a, b) \/ Leq(b, a))
           /\ Leq(a, b) /\ Leq(b, a) => a = b
           /\ Leq(a, Zero) => a = Zero
           /\ Less(a, b) => Leq(a, b)
           /\ Less(Zero, a) <=> a # Zero
           /\ SmallerOf(a, b) \in Fraction /\ Leq(SmallerOf(a, b), a) /\ Leq(SmallerOf(a, b), b)
<1>1. PICK D \in Nat \ {0}, A \in Nat, B \in Nat : Is(a, A, D) /\ Is(b, B, D)
    BY Common3
<1>2. Zero \in Fraction /\ Is(Zero, 0, D)
    BY IsZero
<1>3. (Leq(a, a) <=> A <= A) /\ (Leq(Zero, a) <=> 0 <= A) /\ (Leq(a, b) <=> A <= B) /\ (Leq(b, a) <=> B <= A)
      /\ (Leq(a, Zero) <=> A <= 0)
    BY <1>1, <1>2, IsLeq
<1>4. A = B => a = b
    BY <1>1, IsSame
<1>5. A = 0 => a = Zero
    BY <1>1, <1>2, IsSame
<1>6. Leq(a, a) /\ Leq(Zero, a) /\ (Leq(a, b) \/ Leq(b, a))
    BY <1>3
<1>7. (Leq(a, b) /\ Leq(b, a) => a = b) /\ (Leq(a, Zero) => a = Zero)
    BY <1>3, <1>4, <1>5
<1>8. Less(a, b) => Leq(a, b)
    BY <1>6 DEF Less
<1>10. Less(Zero, a) <=> a # Zero
  <2>1. Leq(Zero, Zero)
      BY <1>2, IsLeq
  <2>2. a = Zero => Leq(a, Zero)
      BY <2>1
  <2>3. Leq(a, Zero) => a = Zero
      BY <1>7
  <2>4. Less(Zero, a) <=> ~Leq(a, Zero)
      BY DEF Less
  <2> QED
      BY <2>2, <2>3, <2>4
<1>9. SmallerOf(a, b) \in Fraction /\ Leq(SmallerOf(a, b), a) /\ Leq(SmallerOf(a, b), b)
  <2>1. Leq(b, b)
      BY <1>1, IsLeq
  <2> QED
      BY <1>6, <2>1 DEF SmallerOf
<1> QED
    BY <1>6, <1>7, <1>8, <1>9, <1>10

LEMMA LeqTrans ==
    ASSUME NEW a \in Fraction, NEW b \in Fraction, NEW c \in Fraction, Leq(a, b), Leq(b, c) PROVE Leq(a, c)
<1>1. PICK D \in Nat \ {0}, A \in Nat, B \in Nat, C \in Nat : Is(a, A, D) /\ Is(b, B, D) /\ Is(c, C, D)
    BY Common3
<1>2. (Leq(a, b) <=> A <= B) /\ (Leq(b, c) <=> B <= C) /\ (Leq(a, c) <=> A <= C)
    BY <1>1, IsLeq
<1> QED
    BY <1>2

\* The same on both sides.
LEMMA LeqPlus ==
    ASSUME NEW a \in Fraction, NEW b \in Fraction, NEW c \in Fraction
    PROVE  /\ Leq(Plus(c, a), Plus(c, b)) <=> Leq(a, b)
           /\ Plus(c, a) = Plus(c, b) => a = b
<1>1. PICK D \in Nat \ {0}, A \in Nat, B \in Nat, C \in Nat : Is(a, A, D) /\ Is(b, B, D) /\ Is(c, C, D)
    BY Common3
<1>2. C + A \in Nat /\ C + B \in Nat
    OBVIOUS
<1>3. Plus(c, a) \in Fraction /\ Is(Plus(c, a), C + A, D) /\ Plus(c, b) \in Fraction /\ Is(Plus(c, b), C + B, D)
    BY <1>1, IsPlus
<1>4. (Leq(Plus(c, a), Plus(c, b)) <=> C + A <= C + B) /\ (Leq(a, b) <=> A <= B)
    BY <1>1, <1>2, <1>3, IsLeq
<1>5. Plus(c, a) = Plus(c, b) => C + A = C + B
    BY <1>2, <1>3, IsOne
<1>6. Plus(c, a) = Plus(c, b) => a = b
    BY <1>1, <1>5, IsSame
<1> QED
    BY <1>4, <1>6

LEMMA MonusLaws ==
    ASSUME NEW a \in Fraction, NEW b \in Fraction
    PROVE  /\ Monus(a, b) \in Fraction /\ Leq(Monus(a, b), a)
           /\ Monus(a, Zero) = a
           /\ Leq(b, a) => Plus(b, Monus(a, b)) = a
           /\ Leq(a, b) <=> Monus(a, b) = Zero
<1>1. PICK D \in Nat \ {0}, A \in Nat, B \in Nat : Is(a, A, D) /\ Is(b, B, D)
    BY Common3
<1>2. Zero \in Fraction /\ Is(Zero, 0, D)
    BY IsZero
<1>3. /\ Monus(a, b) \in Fraction /\ (A <= B => Monus(a, b) = Zero)
      /\ (B <= A => Is(Monus(a, b), A - B, D))
    BY <1>1, IsMonus
<1>4. (Leq(b, a) <=> B <= A) /\ (Leq(a, b) <=> A <= B)
    BY <1>1, IsLeq
<1>5. Leq(b, a) => Plus(b, Monus(a, b)) = a
  <2> SUFFICES ASSUME B <= A PROVE Plus(b, Monus(a, b)) = a
      BY <1>4
  <2>1. A - B \in Nat /\ B + (A - B) = A
      OBVIOUS
  <2>2. Plus(b, Monus(a, b)) \in Fraction /\ Is(Plus(b, Monus(a, b)), B + (A - B), D)
      BY <1>1, <1>3, <2>1, IsPlus
  <2> QED
      BY <1>1, <2>1, <2>2, IsSame
<1>6. Leq(Monus(a, b), a)
  <2>1. CASE A <= B
      BY <1>3, <2>1, LeqLaws
  <2>2. CASE B <= A
    <3>1. A - B \in Nat /\ A - B <= A
        BY <2>2
    <3> QED
        BY <1>1, <1>3, <2>2, <3>1, IsLeq
  <2> QED
      BY <2>1, <2>2
<1>7. Monus(a, Zero) = a
  <2>1. 0 <= A /\ A - 0 = A
      OBVIOUS
  <2>2. Monus(a, Zero) \in Fraction /\ Is(Monus(a, Zero), A, D)
      BY <1>1, <1>2, <2>1, IsMonus
  <2> QED
      BY <1>1, <2>2, IsSame
<1>8. Monus(a, b) = Zero => Leq(a, b)
  <2> SUFFICES ASSUME Monus(a, b) = Zero, ~(A <= B) PROVE FALSE
      BY <1>4
  <2>1. Is(Zero, A - B, D) /\ A - B \in Nat
      BY <1>3
  <2>2. A - B = 0
      BY <1>2, <2>1, IsOne
  <2> QED
      BY <2>2
<1> QED
    BY <1>3, <1>4, <1>5, <1>6, <1>7, <1>8
-----------------------------------------------------------------------------
(* Products and ratios.                                                    *)

LEMMA Ones == Whole(1) \in Fraction /\ Is(Whole(1), 1, 1)
BY DEF Whole, Fraction, IsLowest, Is, Same

LEMMA TimesLaws ==
    ASSUME NEW a \in Fraction, NEW b \in Fraction, NEW c \in Fraction
    PROVE  /\ Times(a, b) \in Fraction
           /\ Times(a, Plus(b, c)) = Plus(Times(a, b), Times(a, c))
           /\ Leq(b, c) => Leq(Times(a, b), Times(a, c))
           /\ Times(a, Zero) = Zero /\ Times(a, Whole(1)) = a
<1>1. PICK D \in Nat \ {0}, A \in Nat, B \in Nat, C \in Nat : Is(a, A, D) /\ Is(b, B, D) /\ Is(c, C, D)
    BY Common3
<1>2. PICK E \in Nat \ {0}, P \in Nat, Q \in Nat, S \in Nat :
         E = D * D /\ P = A * B /\ Q = A * C /\ S = A * (B + C) /\ S = P + Q
    OBVIOUS
<1>3. B + C \in Nat
    OBVIOUS
<1>4. Plus(b, c) \in Fraction /\ Is(Plus(b, c), B + C, D)
    BY <1>1, IsPlus
<1>5. Times(a, b) \in Fraction /\ Is(Times(a, b), P, E) /\ Times(a, c) \in Fraction /\ Is(Times(a, c), Q, E)
    BY <1>1, <1>2, IsTimes
<1>6. Times(a, Plus(b, c)) \in Fraction /\ Is(Times(a, Plus(b, c)), S, E)
    BY <1>1, <1>2, <1>3, <1>4, IsTimes
<1>7. Times(a, Plus(b, c)) = Plus(Times(a, b), Times(a, c))
  <2>1. /\ Plus(Times(a, b), Times(a, c)) \in Fraction
        /\ Is(Plus(Times(a, b), Times(a, c)), P + Q, E)
      BY <1>5, IsPlus
  <2> QED
      BY <1>2, <1>6, <2>1, IsSame
<1>8. Leq(b, c) => Leq(Times(a, b), Times(a, c))
  <2>1. Leq(b, c) <=> B <= C
      BY <1>1, IsLeq
  <2>2. Leq(Times(a, b), Times(a, c)) <=> P <= Q
      BY <1>5, IsLeq
  <2>3. B <= C => A * B <= A * C
      OBVIOUS
  <2> QED
      BY <1>2, <2>1, <2>2, <2>3
<1>9. Times(a, Zero) = Zero
  <2>1. Zero \in Fraction /\ Is(Zero, 0, D) /\ Is(Zero, 0, E)
      BY IsZero
  <2>2. A * 0 = 0
      OBVIOUS
  <2>3. Times(a, Zero) \in Fraction /\ Is(Times(a, Zero), A * 0, D * D)
      BY <1>1, <2>1, IsTimes
  <2> QED
      BY <1>2, <2>1, <2>2, <2>3, IsSame
<1>10. Times(a, Whole(1)) = a
  <2>1. Times(a, Whole(1)) \in Fraction /\ Is(Times(a, Whole(1)), A * 1, D * 1)
      BY <1>1, Ones, IsTimes
  <2>2. A * 1 = A /\ D * 1 = D
      OBVIOUS
  <2> QED
      BY <1>1, <2>1, <2>2, IsSame
<1> QED
    BY <1>5, <1>7, <1>8, <1>9, <1>10

LEMMA NotZero ==
    ASSUME NEW t \in Fraction, t # Zero, NEW T \in Nat, NEW D \in Nat \ {0}, Is(t, T, D) PROVE T \in Nat \ {0}
<1>1. T = 0 => t = Zero
    BY IsZero, IsSame
<1> QED
    BY <1>1

\* Shares of t.
LEMMA RatioLaws ==
    ASSUME NEW a \in Fraction, NEW b \in Fraction, NEW t \in Fraction, t # Zero
    PROVE  /\ Ratio(a, t) \in Fraction
           /\ Ratio(Plus(a, b), t) = Plus(Ratio(a, t), Ratio(b, t))
           /\ Times(t, Ratio(a, t)) = a
           /\ Leq(a, t) => Leq(Ratio(a, t), Whole(1))
           /\ Ratio(Zero, t) = Zero
<1>1. PICK D \in Nat \ {0}, A \in Nat, B \in Nat, T \in Nat : Is(a, A, D) /\ Is(b, B, D) /\ Is(t, T, D)
    BY Common3
<1>2. T \in Nat \ {0}
    BY <1>1, NotZero
<1>3. A + B \in Nat
    OBVIOUS
<1>4. Plus(a, b) \in Fraction /\ Is(Plus(a, b), A + B, D)
    BY <1>1, IsPlus
<1>5. Ratio(a, t) \in Fraction /\ Is(Ratio(a, t), A, T) /\ Ratio(b, t) \in Fraction /\ Is(Ratio(b, t), B, T)
    BY <1>1, <1>2, IsRatio
<1>6. Ratio(Plus(a, b), t) \in Fraction /\ Is(Ratio(Plus(a, b), t), A + B, T)
    BY <1>1, <1>2, <1>3, <1>4, IsRatio
<1>7. Ratio(Plus(a, b), t) = Plus(Ratio(a, t), Ratio(b, t))
  <2>1. /\ Plus(Ratio(a, t), Ratio(b, t)) \in Fraction
        /\ Is(Plus(Ratio(a, t), Ratio(b, t)), A + B, T)
      BY <1>2, <1>5, IsPlus
  <2> QED
      BY <1>2, <1>3, <1>6, <2>1, IsSame
<1>8. Times(t, Ratio(a, t)) = a
  <2>1. Times(t, Ratio(a, t)) \in Fraction /\ Is(Times(t, Ratio(a, t)), T * A, D * T)
      BY <1>1, <1>2, <1>5, IsTimes
  <2>2. PICK P \in Nat, E \in Nat \ {0} : P = T * A /\ E = D * T
      BY <1>2
  <2>3. PICK n \in Nat, d \in Nat \ {0} : n = a.n /\ d = a.d
      BY FractionType
  <2>4. n * E = P * d
    <3>1. n * D = A * d
        BY <1>1, <2>3 DEF Is, Same
    <3>2. n * (D * T) = (n * D) * T /\ (T * A) * d = (A * d) * T
        OBVIOUS
    <3> QED
        BY <2>2, <3>1, <3>2
  <2>5. Is(a, P, E)
      BY <2>3, <2>4 DEF Is, Same
  <2> QED
      BY <2>1, <2>2, <2>5, IsSame
<1>9. Leq(a, t) => Leq(Ratio(a, t), Whole(1))
  <2>1. Leq(a, t) <=> A <= T
      BY <1>1, IsLeq
  <2>2. Is(Whole(1), T, T) /\ Whole(1) \in Fraction
      BY <1>2 DEF Whole, Is, Same, Fraction, IsLowest
  <2>3. Leq(Ratio(a, t), Whole(1)) <=> A <= T
      BY <1>2, <1>5, <2>2, IsLeq
  <2> QED
      BY <2>1, <2>3
<1>10. Ratio(Zero, t) = Zero
  <2>1. Zero \in Fraction /\ Is(Zero, 0, D) /\ Is(Zero, 0, T)
      BY <1>2, IsZero
  <2>2. Ratio(Zero, t) \in Fraction /\ Is(Ratio(Zero, t), 0, T)
      BY <1>1, <1>2, <2>1, IsRatio
  <2> QED
      BY <1>2, <2>1, <2>2, IsSame
<1> QED
    BY <1>5, <1>7, <1>8, <1>9, <1>10

\* What is taken of b from w, and what is left.
LEMMA SmallerTaken ==
    ASSUME NEW w \in Fraction, NEW b \in Fraction
    PROVE  /\ SmallerOf(b, w) \in Fraction /\ Monus(w, SmallerOf(b, w)) = Monus(w, b)
           /\ Monus(w, Monus(w, b)) = SmallerOf(b, w)
           /\ SmallerOf(Zero, w) = Zero /\ SmallerOf(b, Zero) = Zero /\ Monus(Zero, b) = Zero
<1> DEFINE m == Monus(w, b)
<1>1. m \in Fraction /\ (Leq(w, b) => m = Zero) /\ (Leq(b, w) => Plus(b, m) = w)
    BY MonusLaws
<1>2. SmallerOf(Zero, w) = Zero /\ SmallerOf(b, Zero) = Zero /\ Monus(Zero, b) = Zero
    BY ZeroType, LeqLaws, MonusLaws DEF SmallerOf
<1>3. CASE Leq(b, w)
  <2>1. Plus(m, b) = w /\ Monus(Plus(m, b), m) = b
      BY <1>1, <1>3, PlusLaws
  <2> QED
      BY <1>2, <1>3, <2>1 DEF SmallerOf
<1>4. CASE ~Leq(b, w)
  <2>1. Leq(w, b) /\ SmallerOf(b, w) = w
      BY <1>4, LeqLaws DEF SmallerOf
  <2>2. m = Zero /\ Monus(w, w) = Zero /\ Monus(w, Zero) = w
      BY <1>1, <2>1, LeqLaws, MonusLaws
  <2> QED
      BY <1>2, <2>1, <2>2
<1> QED
    BY <1>3, <1>4

LEMMA MonusTwice ==
    ASSUME NEW w \in Fraction, NEW a \in Fraction, NEW b \in Fraction
    PROVE  Monus(Monus(w, a), b) = Monus(w, Plus(b, a))
<1>1. PICK D \in Nat \ {0}, W \in Nat, A \in Nat, B \in Nat : Is(w, W, D) /\ Is(a, A, D) /\ Is(b, B, D)
    BY Common3
<1>2. B + A \in Nat /\ Plus(b, a) \in Fraction /\ Is(Plus(b, a), B + A, D)
    BY <1>1, IsPlus
<1>3. CASE W <= A
  <2>1. W <= B + A
      BY <1>3
  <2>2. Monus(w, a) = Zero /\ Monus(w, Plus(b, a)) = Zero
      BY <1>1, <1>2, <1>3, <2>1, IsMonus
  <2> QED
      BY <2>2, SmallerTaken
<1>4. CASE ~(W <= A)
  <2>1. W - A \in Nat /\ A <= W
      BY <1>4
  <2>2. Monus(w, a) \in Fraction /\ Is(Monus(w, a), W - A, D)
      BY <1>1, <2>1, IsMonus
  <2>3. CASE W - A <= B
    <3>1. W <= B + A
        BY <2>3
    <3> QED
        BY <1>1, <1>2, <2>1, <2>2, <2>3, <3>1, IsMonus
  <2>4. CASE ~(W - A <= B)
    <3>1. B <= W - A /\ B + A <= W /\ (W - A) - B = W - (B + A) /\ W - (B + A) \in Nat
        BY <2>1, <2>4
    <3>2. Monus(Monus(w, a), b) \in Fraction /\ Is(Monus(Monus(w, a), b), (W - A) - B, D)
        BY <1>1, <2>1, <2>2, <3>1, IsMonus
    <3>3. Monus(w, Plus(b, a)) \in Fraction /\ Is(Monus(w, Plus(b, a)), W - (B + A), D)
        BY <1>1, <1>2, <3>1, IsMonus
    <3> QED
        BY <3>1, <3>2, <3>3, IsSame
  <2> QED
      BY <2>3, <2>4
<1> QED
    BY <1>3, <1>4

\* Taking from one more source: what s gives and then what a gives of the rest.
LEMMA OneMoreSource ==
    ASSUME NEW s \in Fraction, NEW a \in Fraction, NEW w \in Fraction
    PROVE  SmallerOf(Plus(s, a), w) = Plus(SmallerOf(s, w), SmallerOf(a, Monus(w, s)))
<1>1. PICK D \in Nat \ {0}, S \in Nat, A \in Nat, W \in Nat : Is(s, S, D) /\ Is(a, A, D) /\ Is(w, W, D)
    BY Common3
<1>2. S + A \in Nat
    OBVIOUS
<1>3. Plus(s, a) \in Fraction /\ Is(Plus(s, a), S + A, D)
    BY <1>1, IsPlus
<1>4. (Leq(Plus(s, a), w) <=> S + A <= W) /\ (Leq(s, w) <=> S <= W)
    BY <1>1, <1>2, <1>3, IsLeq
<1>5. CASE W <= S
  <2>1. Monus(w, s) = Zero
      BY <1>1, <1>5, IsMonus
  <2>2. SmallerOf(a, Zero) = Zero
      BY LeqLaws DEF SmallerOf
  <2>3. SmallerOf(s, w) = w
    <3>1. S <= W => S = W
        BY <1>5
    <3>2. S = W => s = w
        BY <1>1, IsSame
    <3> QED
        BY <1>4, <3>1, <3>2 DEF SmallerOf
  <2>4. SmallerOf(Plus(s, a), w) = w
    <3>1. S + A <= W => S + A = W
        BY <1>5
    <3>2. S + A = W => Plus(s, a) = w
        BY <1>1, <1>3, IsSame
    <3> QED
        BY <1>4, <3>1, <3>2 DEF SmallerOf
  <2> QED
      BY <2>1, <2>2, <2>3, <2>4, PlusLaws
<1>6. CASE ~(W <= S)
  <2>1. W - S \in Nat /\ S <= W /\ S + (W - S) = W /\ (S + A <= W <=> A <= W - S)
      BY <1>6
  <2>2. Monus(w, s) \in Fraction /\ Is(Monus(w, s), W - S, D)
      BY <1>1, <2>1, IsMonus
  <2>3. Leq(a, Monus(w, s)) <=> A <= W - S
      BY <1>1, <2>1, <2>2, IsLeq
  <2>4. SmallerOf(s, w) = s
      BY <1>4, <2>1 DEF SmallerOf
  <2>5. Plus(s, Monus(w, s)) = w
      BY <1>4, <2>1, MonusLaws
  <2>6. CASE A <= W - S
      BY <1>4, <2>1, <2>3, <2>4, <2>6 DEF SmallerOf
  <2>7. CASE ~(A <= W - S)
      BY <1>4, <2>1, <2>3, <2>4, <2>5, <2>7 DEF SmallerOf
  <2> QED
      BY <2>6, <2>7
<1> QED
    BY <1>5, <1>6
-----------------------------------------------------------------------------
(* Sums of fractions: SumOver, by the same argument as SumOn.              *)

Unrolls(h, f, D) == h = [s \in D |-> IF s = {} THEN Zero ELSE Plus(f[First(s)], h[s \ {First(s)}])]
Part(f, S) == CHOOSE h : Unrolls(h, f, SUBSET S)

LEMMA TotalIsPart == ASSUME NEW f, NEW S PROVE SumOver(f, S) = Part(f, S)[S]
BY DEF SumOver, FoldFunctionOnSet, Part, Unrolls, MapThenFoldSet, First

LEMMA UnrollingUpTo ==
    ASSUME NEW f, NEW S, IsFiniteSet(S), NEW n \in Nat
    PROVE  \E h : Unrolls(h, f, UpTo(S, n))
<1> DEFINE bad == {m \in Nat : ~\E h : Unrolls(h, f, UpTo(S, m))}
<1> SUFFICES ASSUME bad # {} PROVE FALSE
    OBVIOUS
<1>1. PICK m \in bad : \A k \in bad : m <= k
    BY Least
<1>2. CASE m = 0
  <2> DEFINE h == [s \in UpTo(S, 0) |-> Zero]
  <2>1. ASSUME NEW s \in UpTo(S, 0) PROVE s = {}
    <3>1. s \in SUBSET S /\ Cardinality(s) <= 0
        BY DEF UpTo
    <3>2. s # {} => Cardinality(s) \in Nat /\ Cardinality(s) > 0
        BY <3>1, Smaller
    <3> QED
        BY <3>1, <3>2
  <2>2. Unrolls(h, f, UpTo(S, 0))
      BY <2>1 DEF Unrolls
  <2> QED
      BY <1>1, <1>2, <2>2
<1>3. CASE m > 0
  <2>1. m - 1 \in Nat /\ m - 1 \notin bad
      BY <1>1, <1>3
  <2>2. PICK g : Unrolls(g, f, UpTo(S, m - 1))
      BY <2>1
  <2> DEFINE h == [s \in UpTo(S, m) |-> IF s = {} THEN Zero ELSE Plus(f[First(s)], g[s \ {First(s)}])]
  <2>3. ASSUME NEW t \in UpTo(S, m - 1) PROVE h[t] = g[t]
    <3>1. t \in UpTo(S, m)
        BY <1>1, FS_Subset, FS_CardinalityType DEF UpTo
    <3> QED
        BY <2>2, <3>1 DEF Unrolls
  <2>4. ASSUME NEW s \in UpTo(S, m), s # {} PROVE s \ {First(s)} \in UpTo(S, m - 1)
      BY <1>1, <2>4, Smaller DEF UpTo
  <2>5. \A s \in UpTo(S, m) : s # {} => g[s \ {First(s)}] = h[s \ {First(s)}]
      BY <2>3, <2>4
  <2>6. Unrolls(h, f, UpTo(S, m))
      BY <2>5 DEF Unrolls
  <2> QED
      BY <1>1, <2>6
<1> QED
    BY <1>1, <1>2, <1>3

LEMMA PartUnrolls ==
    ASSUME NEW f, NEW S, IsFiniteSet(S) PROVE Unrolls(Part(f, S), f, SUBSET S)
<1>1. Cardinality(S) \in Nat
    BY FS_CardinalityType
<1>2. UpTo(S, Cardinality(S)) = SUBSET S
    BY FS_Subset DEF UpTo
<1>3. \E h : Unrolls(h, f, UpTo(S, Cardinality(S)))
    BY <1>1, UnrollingUpTo
<1> QED
    BY <1>2, <1>3 DEF Part

LEMMA PartOfPart ==
    ASSUME NEW f, NEW S, IsFiniteSet(S), NEW s \in SUBSET S PROVE Part(f, S)[s] = SumOver(f, s)
<1> DEFINE bad == {t \in SUBSET s : Part(f, S)[t] # Part(f, s)[t]}
<1>1. IsFiniteSet(s)
    BY FS_Subset
<1>2. Unrolls(Part(f, S), f, SUBSET S) /\ Unrolls(Part(f, s), f, SUBSET s)
    BY <1>1, PartUnrolls
<1>3. bad = {}
  <2> SUFFICES ASSUME bad # {} PROVE FALSE
      OBVIOUS
  <2>1. PICK t \in bad : \A x \in t : t \ {x} \notin bad
      BY <1>1, MinimalSet
  <2>2. t # {} /\ t \in SUBSET S
      BY <1>2 DEF Unrolls
  <2> DEFINE u == t \ {First(t)}
  <2>3. First(t) \in t
      BY <2>2 DEF First
  <2>4. Part(f, S)[u] = Part(f, s)[u]
      BY <2>1, <2>3
  <2>5. Part(f, S)[t] = Plus(f[First(t)], Part(f, S)[u])
      BY <1>2, <2>2 DEF Unrolls
  <2>6. Part(f, s)[t] = Plus(f[First(t)], Part(f, s)[u])
      BY <1>2, <2>2 DEF Unrolls
  <2> QED
      BY <2>4, <2>5, <2>6
<1> QED
    BY <1>3, TotalIsPart

LEMMA TotalEmpty == ASSUME NEW f PROVE SumOver(f, {}) = Zero
<1>1. Unrolls(Part(f, {}), f, SUBSET {})
    BY PartUnrolls, FS_EmptySet
<1> QED
    BY <1>1, TotalIsPart DEF Unrolls

LEMMA TotalFirst ==
    ASSUME NEW f, NEW S, IsFiniteSet(S), S # {}
    PROVE  SumOver(f, S) = Plus(f[First(S)], SumOver(f, S \ {First(S)}))
<1>1. Unrolls(Part(f, S), f, SUBSET S)
    BY PartUnrolls
<1>2. Part(f, S)[S] = Plus(f[First(S)], Part(f, S)[S \ {First(S)}])
    BY <1>1 DEF Unrolls
<1> QED
    BY <1>2, PartOfPart, TotalIsPart

\* f gives every element of S a fraction.
Fractional(f, S) == \A x \in S : f[x] \in Fraction

LEMMA TotalType ==
    ASSUME NEW f, NEW S, IsFiniteSet(S), Fractional(f, S) PROVE SumOver(f, S) \in Fraction
<1> DEFINE bad == {t \in SUBSET S : SumOver(f, t) \notin Fraction}
<1> SUFFICES ASSUME bad # {} PROVE FALSE
    OBVIOUS
<1>1. PICK t \in bad : IsFiniteSet(t) /\ \A x \in t : t \ {x} \notin bad
    BY MinimalSet
<1>2. t # {}
    BY TotalEmpty, ZeroType
<1>3. First(t) \in t
    BY <1>2 DEF First
<1>4. SumOver(f, t \ {First(t)}) \in Fraction /\ f[First(t)] \in Fraction
    BY <1>1, <1>3 DEF Fractional
<1>5. SumOver(f, t) = Plus(f[First(t)], SumOver(f, t \ {First(t)}))
    BY <1>1, <1>2, TotalFirst
<1> QED
    BY <1>1, <1>4, <1>5, PlusLaws

\* Any element may be taken out of a sum.
LEMMA TotalOfElement ==
    ASSUME NEW f, NEW S, IsFiniteSet(S), Fractional(f, S), NEW x \in S
    PROVE  SumOver(f, S) = Plus(f[x], SumOver(f, S \ {x}))
<1> DEFINE bad == {t \in SUBSET S : \E y \in t : SumOver(f, t) # Plus(f[y], SumOver(f, t \ {y}))}
<1> SUFFICES ASSUME bad # {} PROVE FALSE
    OBVIOUS
<1>1. PICK t \in bad : IsFiniteSet(t) /\ \A y \in t : t \ {y} \notin bad
    BY MinimalSet
<1>2. PICK y \in t : SumOver(f, t) # Plus(f[y], SumOver(f, t \ {y}))
    OBVIOUS
<1> DEFINE z == First(t)
<1>3. z \in t
    BY DEF First
<1>4. SumOver(f, t) = Plus(f[z], SumOver(f, t \ {z}))
    BY <1>1, <1>3, TotalFirst
<1>5. y # z
    BY <1>2, <1>4
<1>6. SumOver(f, t \ {z}) = Plus(f[y], SumOver(f, (t \ {z}) \ {y}))
    BY <1>1, <1>3, <1>5
<1>7. SumOver(f, t \ {y}) = Plus(f[z], SumOver(f, (t \ {y}) \ {z}))
    BY <1>1, <1>3, <1>5
<1>8. (t \ {z}) \ {y} = (t \ {y}) \ {z}
    OBVIOUS
<1>9. SumOver(f, (t \ {y}) \ {z}) \in Fraction /\ f[y] \in Fraction /\ f[z] \in Fraction
  <2>1. IsFiniteSet((t \ {y}) \ {z}) /\ Fractional(f, (t \ {y}) \ {z})
      BY <1>1, FS_Subset DEF Fractional
  <2>2. t \in SUBSET S
      OBVIOUS
  <2> QED
      BY <1>3, <2>1, <2>2, TotalType DEF Fractional
<1>11. SumOver(f, t) = Plus(f[z], Plus(f[y], SumOver(f, (t \ {y}) \ {z})))
    BY <1>4, <1>6, <1>8
<1>12. SumOver(f, t) = Plus(f[y], Plus(f[z], SumOver(f, (t \ {y}) \ {z})))
    BY <1>9, <1>11, PlusSwap
<1> QED
    BY <1>2, <1>7, <1>12

\* Values that agree have one sum.
LEMMA TotalOfEqual ==
    ASSUME NEW f, NEW g, NEW S, IsFiniteSet(S), \A x \in S : f[x] = g[x]
    PROVE  SumOver(f, S) = SumOver(g, S)
<1> DEFINE bad == {t \in SUBSET S : SumOver(f, t) # SumOver(g, t)}
<1> SUFFICES ASSUME bad # {} PROVE FALSE
    OBVIOUS
<1>1. PICK t \in bad : IsFiniteSet(t) /\ \A x \in t : t \ {x} \notin bad
    BY MinimalSet
<1>2. t # {}
    BY TotalEmpty
<1>3. First(t) \in t
    BY <1>2 DEF First
<1>4. SumOver(f, t \ {First(t)}) = SumOver(g, t \ {First(t)}) /\ f[First(t)] = g[First(t)]
    BY <1>1, <1>3
<1> QED
    BY <1>1, <1>2, <1>4, TotalFirst

\* One more element.
LEMMA TotalAdd ==
    ASSUME NEW f, NEW S, IsFiniteSet(S), NEW x, x \notin S, Fractional(f, S \cup {x})
    PROVE  SumOver(f, S \cup {x}) = Plus(f[x], SumOver(f, S))
<1>1. IsFiniteSet(S \cup {x}) /\ (S \cup {x}) \ {x} = S /\ x \in S \cup {x}
    BY FS_AddElement
<1> QED
    BY <1>1, TotalOfElement

\* A set of two parts.
LEMMA TotalOfParts ==
    ASSUME NEW f, NEW S, IsFiniteSet(S), NEW T \in SUBSET S, Fractional(f, S)
    PROVE  SumOver(f, S) = Plus(SumOver(f, T), SumOver(f, S \ T))
<1> DEFINE bad == {t \in SUBSET T : SumOver(f, S) # Plus(SumOver(f, t), SumOver(f, S \ t))}
<1> SUFFICES ASSUME bad # {} PROVE FALSE
    OBVIOUS
<1>0. IsFiniteSet(T)
    BY FS_Subset
<1> DEFINE good == {t \in SUBSET T : SumOver(f, S) = Plus(SumOver(f, t), SumOver(f, S \ t))}
<1>1. PICK t \in bad : IsFiniteSet(t) /\ \A x \in t : t \ {x} \notin bad
    BY <1>0, MinimalSet
<1>2. t # {}
  <2>1. SumOver(f, {}) = Zero /\ SumOver(f, S) \in Fraction /\ S \ {} = S
      BY TotalEmpty, TotalType
  <2> QED
      BY <2>1, PlusLaws
<1>3. PICK x \in t : TRUE
    BY <1>2
<1> DEFINE u == t \ {x}
<1>4. SumOver(f, S) = Plus(SumOver(f, u), SumOver(f, S \ u))
    BY <1>1
<1>5. /\ IsFiniteSet(u) /\ Fractional(f, u) /\ IsFiniteSet(S \ u) /\ Fractional(f, S \ u)
      /\ IsFiniteSet(S \ t) /\ Fractional(f, S \ t) /\ Fractional(f, t) /\ f[x] \in Fraction
    BY FS_Subset DEF Fractional
<1>6. (S \ u) \ {x} = S \ t /\ x \in S \ u
    OBVIOUS
<1>7. SumOver(f, S \ u) = Plus(f[x], SumOver(f, S \ t))
    BY <1>5, <1>6, TotalOfElement
<1>8. SumOver(f, t) = Plus(f[x], SumOver(f, u))
    BY <1>1, <1>5, TotalOfElement
<1>9. SumOver(f, u) \in Fraction /\ SumOver(f, S \ t) \in Fraction
    BY <1>5, TotalType
<1> HIDE DEF u
<1>10. Plus(SumOver(f, u), Plus(f[x], SumOver(f, S \ t))) = Plus(f[x], Plus(SumOver(f, u), SumOver(f, S \ t)))
    BY <1>5, <1>9, PlusSwap
<1>11. Plus(f[x], Plus(SumOver(f, u), SumOver(f, S \ t))) = Plus(Plus(f[x], SumOver(f, u)), SumOver(f, S \ t))
    BY <1>5, <1>9, PlusAssoc
<1> QED
    BY <1>1, <1>4, <1>7, <1>8, <1>10, <1>11

LEMMA TotalOfZeros ==
    ASSUME NEW f, NEW S, IsFiniteSet(S), \A x \in S : f[x] = Zero PROVE SumOver(f, S) = Zero
<1> DEFINE bad == {t \in SUBSET S : SumOver(f, t) # Zero}
<1> SUFFICES ASSUME bad # {} PROVE FALSE
    OBVIOUS
<1>1. PICK t \in bad : IsFiniteSet(t) /\ \A x \in t : t \ {x} \notin bad
    BY MinimalSet
<1>2. t # {}
    BY TotalEmpty
<1>3. First(t) \in t
    BY <1>2 DEF First
<1>4. SumOver(f, t \ {First(t)}) = Zero /\ f[First(t)] = Zero
    BY <1>1, <1>3
<1>5. Plus(Zero, Zero) = Zero
    BY ZeroType, PlusLaws
<1> QED
    BY <1>1, <1>2, <1>4, <1>5, TotalFirst

\* What is zero may be left out.
LEMMA TotalWithoutZeros ==
    ASSUME NEW f, NEW S, IsFiniteSet(S), NEW T \in SUBSET S, Fractional(f, S), \A x \in S \ T : f[x] = Zero
    PROVE  SumOver(f, S) = SumOver(f, T)
<1>1. IsFiniteSet(T) /\ IsFiniteSet(S \ T) /\ Fractional(f, T)
    BY FS_Subset DEF Fractional
<1>2. SumOver(f, S \ T) = Zero
    BY <1>1, TotalOfZeros
<1>3. SumOver(f, T) \in Fraction
    BY <1>1, TotalType
<1> QED
    BY <1>2, <1>3, TotalOfParts, PlusLaws

\* An element is at most the sum.
LEMMA ElementOfTotal ==
    ASSUME NEW f, NEW S, IsFiniteSet(S), Fractional(f, S), NEW x \in S
    PROVE  Leq(f[x], SumOver(f, S)) /\ f[x] \in Fraction /\ (SumOver(f, S) = Zero => f[x] = Zero)
<1>1. IsFiniteSet(S \ {x}) /\ Fractional(f, S \ {x}) /\ f[x] \in Fraction
    BY FS_Subset DEF Fractional
<1>2. SumOver(f, S \ {x}) \in Fraction
    BY <1>1, TotalType
<1>3. SumOver(f, S) = Plus(f[x], SumOver(f, S \ {x}))
    BY TotalOfElement
<1>4. Leq(f[x], SumOver(f, S))
    BY <1>1, <1>2, <1>3, PlusLaws
<1>5. SumOver(f, S) = Zero => f[x] = Zero
    BY <1>1, <1>4, LeqLaws
<1> QED
    BY <1>1, <1>4, <1>5

\* A part is at most the whole.
LEMMA PartOfTotal ==
    ASSUME NEW f, NEW S, IsFiniteSet(S), Fractional(f, S), NEW T \in SUBSET S
    PROVE  Leq(SumOver(f, T), SumOver(f, S))
<1>1. IsFiniteSet(T) /\ Fractional(f, T) /\ IsFiniteSet(S \ T) /\ Fractional(f, S \ T)
    BY FS_Subset DEF Fractional
<1>2. SumOver(f, T) \in Fraction /\ SumOver(f, S \ T) \in Fraction
    BY <1>1, TotalType
<1> QED
    BY <1>2, TotalOfParts, PlusLaws
LEMMA PlusCross ==
    ASSUME NEW a \in Fraction, NEW b \in Fraction, NEW c \in Fraction, NEW d \in Fraction
    PROVE  Plus(Plus(a, b), Plus(c, d)) = Plus(Plus(a, c), Plus(b, d))
<1>1. Plus(c, d) \in Fraction /\ Plus(b, d) \in Fraction
    BY PlusLaws
<1>2. Plus(Plus(a, b), Plus(c, d)) = Plus(a, Plus(b, Plus(c, d)))
    BY <1>1, PlusAssoc
<1>3. Plus(Plus(a, c), Plus(b, d)) = Plus(a, Plus(c, Plus(b, d)))
    BY <1>1, PlusAssoc
<1>4. Plus(b, Plus(c, d)) = Plus(c, Plus(b, d))
    BY PlusSwap
<1> QED
    BY <1>2, <1>3, <1>4

\* The sum of two sums.
LEMMA TotalPlus ==
    ASSUME NEW f, NEW g, NEW h, NEW S, IsFiniteSet(S), Fractional(f, S), Fractional(g, S),
           \A x \in S : h[x] = Plus(f[x], g[x])
    PROVE  SumOver(h, S) = Plus(SumOver(f, S), SumOver(g, S))
<1> DEFINE bad == {t \in SUBSET S : SumOver(h, t) # Plus(SumOver(f, t), SumOver(g, t))}
<1> SUFFICES ASSUME bad # {} PROVE FALSE
    OBVIOUS
<1>1. PICK t \in bad : IsFiniteSet(t) /\ \A x \in t : t \ {x} \notin bad
    BY MinimalSet
<1>2. t # {}
    BY TotalEmpty, ZeroType, PlusLaws
<1> DEFINE x == First(t)
           u == t \ {x}
<1>3. x \in t /\ x \in S
    BY <1>2 DEF First
<1>4. SumOver(h, u) = Plus(SumOver(f, u), SumOver(g, u))
    BY <1>1, <1>3
<1>5. IsFiniteSet(u) /\ Fractional(f, u) /\ Fractional(g, u) /\ f[x] \in Fraction /\ g[x] \in Fraction
    BY <1>1, <1>3, FS_Subset DEF Fractional
<1>6. SumOver(f, u) \in Fraction /\ SumOver(g, u) \in Fraction
    BY <1>5, TotalType
<1>7. /\ SumOver(f, t) = Plus(f[x], SumOver(f, u)) /\ SumOver(g, t) = Plus(g[x], SumOver(g, u))
      /\ SumOver(h, t) = Plus(h[x], SumOver(h, u))
    BY <1>1, <1>2, TotalFirst
<1>8. SumOver(h, t) = Plus(Plus(f[x], g[x]), Plus(SumOver(f, u), SumOver(g, u)))
    BY <1>3, <1>4, <1>7
<1> HIDE DEF x, u
<1>9. SumOver(h, t) = Plus(Plus(f[x], SumOver(f, u)), Plus(g[x], SumOver(g, u)))
    BY <1>5, <1>6, <1>8, PlusCross
<1> QED
    BY <1>1, <1>7, <1>9

\* A sum of smaller values is smaller, and only equal values have the same sum.
LEMMA TotalMono ==
    ASSUME NEW f, NEW g, NEW S, IsFiniteSet(S), Fractional(f, S), Fractional(g, S), \A x \in S : Leq(f[x], g[x])
    PROVE  /\ Leq(SumOver(f, S), SumOver(g, S))
           /\ SumOver(f, S) = SumOver(g, S) => \A x \in S : f[x] = g[x]
<1> DEFINE d == [x \in S |-> Monus(g[x], f[x])]
<1>1. \A x \in S : d[x] \in Fraction /\ g[x] = Plus(f[x], d[x]) /\ (d[x] = Zero => Leq(g[x], f[x]))
    BY MonusLaws DEF Fractional
<1>2. Fractional(d, S)
    BY <1>1 DEF Fractional
<1> HIDE DEF d
<1>3. SumOver(g, S) = Plus(SumOver(f, S), SumOver(d, S))
    BY <1>1, <1>2, TotalPlus
<1>4. SumOver(f, S) \in Fraction /\ SumOver(d, S) \in Fraction
    BY <1>2, TotalType
<1>5. Leq(SumOver(f, S), SumOver(g, S))
    BY <1>3, <1>4, PlusLaws
<1>6. ASSUME SumOver(f, S) = SumOver(g, S), NEW x \in S PROVE f[x] = g[x]
  <2>1. Plus(SumOver(f, S), SumOver(d, S)) = Plus(SumOver(f, S), Zero)
      BY <1>3, <1>4, <1>6, PlusLaws
  <2>2. SumOver(d, S) = Zero
      BY <1>4, <2>1, ZeroType, LeqPlus
  <2>3. d[x] = Zero
      BY <1>2, <2>2, ElementOfTotal
  <2>4. f[x] \in Fraction /\ g[x] \in Fraction /\ Leq(g[x], f[x]) /\ Leq(f[x], g[x])
      BY <1>1, <2>3 DEF Fractional
  <2> QED
      BY <2>4, LeqLaws
<1> QED
    BY <1>5, <1>6

\* A common factor, and a common divisor.
LEMMA TotalTimes ==
    ASSUME NEW f, NEW g, NEW S, IsFiniteSet(S), Fractional(f, S), NEW t \in Fraction,
           \A x \in S : g[x] = Times(t, f[x])
    PROVE  SumOver(g, S) = Times(t, SumOver(f, S))
<1> DEFINE bad == {s \in SUBSET S : SumOver(g, s) # Times(t, SumOver(f, s))}
<1> SUFFICES ASSUME bad # {} PROVE FALSE
    OBVIOUS
<1>1. PICK s \in bad : IsFiniteSet(s) /\ \A x \in s : s \ {x} \notin bad
    BY MinimalSet
<1>2. s # {}
  <2>1. Times(t, Zero) = Zero
      BY ZeroType, TimesLaws
  <2>2. SumOver(g, {}) = Zero /\ SumOver(f, {}) = Zero
      BY TotalEmpty
  <2> QED
      BY <2>1, <2>2
<1> DEFINE x == First(s)
           u == s \ {x}
<1>3. x \in s /\ x \in S
    BY <1>2 DEF First
<1>4. SumOver(g, u) = Times(t, SumOver(f, u))
    BY <1>1, <1>3
<1>5. IsFiniteSet(u) /\ Fractional(f, u) /\ f[x] \in Fraction
    BY <1>1, <1>3, FS_Subset DEF Fractional
<1>6. SumOver(f, u) \in Fraction
    BY <1>5, TotalType
<1>7. SumOver(f, s) = Plus(f[x], SumOver(f, u)) /\ SumOver(g, s) = Plus(g[x], SumOver(g, u))
    BY <1>1, <1>2, TotalFirst
<1>8. g[x] = Times(t, f[x])
    BY <1>3
<1> HIDE DEF x, u
<1>9. Times(t, Plus(f[x], SumOver(f, u))) = Plus(Times(t, f[x]), Times(t, SumOver(f, u)))
    BY <1>5, <1>6, TimesLaws
<1> QED
    BY <1>1, <1>4, <1>7, <1>8, <1>9

LEMMA TotalRatio ==
    ASSUME NEW f, NEW g, NEW S, IsFiniteSet(S), Fractional(f, S), NEW t \in Fraction, t # Zero,
           \A x \in S : g[x] = Ratio(f[x], t)
    PROVE  SumOver(g, S) = Ratio(SumOver(f, S), t)
<1> DEFINE bad == {s \in SUBSET S : SumOver(g, s) # Ratio(SumOver(f, s), t)}
<1> SUFFICES ASSUME bad # {} PROVE FALSE
    OBVIOUS
<1>1. PICK s \in bad : IsFiniteSet(s) /\ \A x \in s : s \ {x} \notin bad
    BY MinimalSet
<1>2. s # {}
  <2>1. Ratio(Zero, t) = Zero
      BY ZeroType, RatioLaws
  <2>2. SumOver(g, {}) = Zero /\ SumOver(f, {}) = Zero
      BY TotalEmpty
  <2> QED
      BY <2>1, <2>2
<1> DEFINE x == First(s)
           u == s \ {x}
<1>3. x \in s /\ x \in S
    BY <1>2 DEF First
<1>4. SumOver(g, u) = Ratio(SumOver(f, u), t)
    BY <1>1, <1>3
<1>5. IsFiniteSet(u) /\ Fractional(f, u) /\ f[x] \in Fraction
    BY <1>1, <1>3, FS_Subset DEF Fractional
<1>6. SumOver(f, u) \in Fraction
    BY <1>5, TotalType
<1>7. SumOver(f, s) = Plus(f[x], SumOver(f, u)) /\ SumOver(g, s) = Plus(g[x], SumOver(g, u))
    BY <1>1, <1>2, TotalFirst
<1>8. g[x] = Ratio(f[x], t)
    BY <1>3
<1> HIDE DEF x, u
<1>9. Ratio(Plus(f[x], SumOver(f, u)), t) = Plus(Ratio(f[x], t), Ratio(SumOver(f, u), t))
    BY <1>5, <1>6, RatioLaws
<1> QED
    BY <1>1, <1>4, <1>7, <1>8, <1>9
=============================================================================

--------------------------- MODULE NaturalLemmas ---------------------------
(***************************************************************************)
(* Induction over the naturals, stated with sets instead of predicates so  *)
(* that a proof can cite it, and what follows from it: least and greatest  *)
(* elements, recursions that unfold; and division by a positive number.    *)
(***************************************************************************)
EXTENDS Integers, WellFoundedInduction, TLAPS

Below == {p \in Nat \X Nat : p[1] < p[2]}

\* The order of the naturals is well founded.
LEMMA BelowWellFounded == IsWellFoundedOn(Below, Nat)
<1>1. IsWellFoundedOn(OpToRel(<, Nat), Nat)
  BY NatLessThanWellFounded
<1>2. OpToRel(<, Nat) = Below
  BY DEF OpToRel, Below
<1> QED
  BY <1>1, <1>2

\* A non-empty set of naturals has a least element.
LEMMA NatLeast ==
    ASSUME NEW T \in SUBSET Nat, T # {}
    PROVE  \E x \in T : \A y \in T : x <= y
<1>1. PICK x \in T : \A y \in T : ~(<<y, x>> \in Below)
  BY BelowWellFounded, WFMin
<1>2. ASSUME NEW y \in T, y < x PROVE <<y, x>> \in Below
  BY <1>2 DEF Below
<1>3. \A y \in T : ~(y < x)
  BY <1>1, <1>2
<1>4. \A y \in T : x <= y
  BY <1>3
<1> QED
  BY <1>4

\* A set that contains 0 and the successor of each of its naturals contains
\* every natural.
LEMMA NatInduct ==
    ASSUME NEW T, 0 \in T, \A n \in Nat : n \in T => n + 1 \in T
    PROVE  \A n \in Nat : n \in T
<1> SUFFICES ASSUME Nat \ T # {} PROVE FALSE
  OBVIOUS
<1>1. PICK x \in Nat \ T : \A y \in Nat \ T : x <= y
  BY NatLeast
<1>2. x # 0 /\ x - 1 \in Nat
  BY <1>1
<1>3. x - 1 \in T
  BY <1>1, <1>2
<1>4. (x - 1) + 1 = x
  BY <1>2
<1> QED
  BY <1>1, <1>2, <1>3, <1>4

\* A non-empty set of naturals with an upper bound has a greatest element.
LEMMA NatGreatest ==
    ASSUME NEW T \in SUBSET Nat, T # {}, NEW m \in Nat, \A x \in T : x <= m
    PROVE  \E x \in T : \A y \in T : y <= x
<1> DEFINE gaps == {g \in Nat : g <= m /\ m - g \in T}
<1>1. PICK t \in T : TRUE
  OBVIOUS
<1>2. m - t \in gaps
  BY <1>1
<1>3. PICK g \in gaps : \A h \in gaps : g <= h
  BY <1>2, NatLeast
<1>4. m - g \in T
  BY <1>3
<1>5. ASSUME NEW y \in T PROVE y <= m - g
  <2>1. m - y \in gaps
    OBVIOUS
  <2> QED
    BY <1>3, <2>1
<1> QED
  BY <1>4, <1>5

\* A recursion of m steps over S: its first value and what each step makes of
\* the value before it; and the function on 0 .. m that unfolds it.
Recursion(S, first, m, step) ==
    first \in S /\ m \in Nat /\ step \in [1 .. m -> [S -> S]]

Unfolds(S, first, m, step, g) ==
    /\ g \in [0 .. m -> S]
    /\ g[0] = first
    /\ \A k \in 1 .. m : g[k] = step[k][g[k - 1]]

\* Every recursion is unfolded by some function.
LEMMA NatRecursion ==
    ASSUME NEW S, NEW first, NEW m, NEW step, Recursion(S, first, m, step)
    PROVE  \E g : Unfolds(S, first, m, step, g)
<1> USE DEF Recursion
<1> DEFINE unfolds(n, g) ==
             g[0] = first /\ \A k \in 1 .. n : g[k] = step[k][g[k - 1]]
           defined == {n \in Nat : n <= m => \E g \in [0 .. n -> S] : unfolds(n, g)}
<1>1. 0 \in defined
  <2> DEFINE g == [k \in 0 .. 0 |-> first]
  <2>1. g \in [0 .. 0 -> S] /\ unfolds(0, g)
    OBVIOUS
  <2> QED
    BY <2>1
<1>2. ASSUME NEW n \in Nat, n \in defined PROVE n + 1 \in defined
  <2> SUFFICES ASSUME n + 1 <= m
               PROVE  \E g \in [0 .. n + 1 -> S] : unfolds(n + 1, g)
    OBVIOUS
  <2>1. PICK g \in [0 .. n -> S] : unfolds(n, g)
    BY <1>2
  <2> DEFINE h == [k \in 0 .. n + 1 |-> IF k = n + 1 THEN step[n + 1][g[n]]
                                        ELSE g[k]]
  <2>2. step[n + 1][g[n]] \in S
    <3>1. n + 1 \in 1 .. m /\ g[n] \in S
      OBVIOUS
    <3> QED
      BY <3>1
  <2>3. h \in [0 .. n + 1 -> S]
    BY <2>2
  <2>4. h[0] = first
    BY <2>1
  <2>5. ASSUME NEW k \in 1 .. n + 1 PROVE h[k] = step[k][h[k - 1]]
    <3>1. CASE k = n + 1
      <4>1. h[k - 1] = g[n] /\ h[k] = step[n + 1][g[n]]
        BY <3>1
      <4> QED
        BY <3>1, <4>1
    <3>2. CASE k # n + 1
      <4>1. k \in 1 .. n /\ h[k] = g[k] /\ h[k - 1] = g[k - 1]
        BY <3>2
      <4> QED
        BY <2>1, <4>1
    <3> QED
      BY <3>1, <3>2
  <2> HIDE DEF h
  <2> QED
    BY <2>3, <2>4, <2>5
<1> HIDE DEF defined
<1>3. m \in defined
  BY <1>1, <1>2, NatInduct
<1> QED
  BY <1>3 DEF defined, Unfolds

\* A step repeated without end.
LEMMA NatIterate ==
    ASSUME NEW S, NEW first \in S, NEW step \in [S -> S]
    PROVE  \E f \in [Nat -> S] :
              f[0] = first /\ \A k \in Nat : f[k + 1] = step[f[k]]
<1> DEFINE steps(m) == [k \in 1 .. m |-> step]
           unfolds(m, g) == Unfolds(S, first, m, steps(m), g)
           course(m) == CHOOSE g : unfolds(m, g)
           f == [m \in Nat |-> course(m)[m]]
<1>1. ASSUME NEW m \in Nat PROVE unfolds(m, course(m))
  <2>1. Recursion(S, first, m, steps(m))
    BY DEF Recursion
  <2>2. \E g : unfolds(m, g)
    BY <2>1, NatRecursion
  <2> QED
    BY <2>2
<1> HIDE DEF course
<1>2. ASSUME NEW m \in Nat
      PROVE  /\ course(m) \in [0 .. m -> S] /\ course(m)[0] = first
             /\ \A k \in 1 .. m : course(m)[k] = step[course(m)[k - 1]]
  <2>1. \A k \in 1 .. m : steps(m)[k] = step
    OBVIOUS
  <2> HIDE DEF steps
  <2>2. Unfolds(S, first, m, steps(m), course(m))
    BY <1>1
  <2> QED
    BY <2>1, <2>2 DEF Unfolds
<1>3. ASSUME NEW m \in Nat
      PROVE  \A k \in Nat : k <= m => course(m + 1)[k] = course(m)[k]
  <2> DEFINE same == {k \in Nat : k <= m => course(m + 1)[k] = course(m)[k]}
  <2>1. m + 1 \in Nat
    OBVIOUS
  <2>2. 0 \in same
    BY <1>2, <2>1
  <2>3. ASSUME NEW k \in Nat, k \in same PROVE k + 1 \in same
    <3> SUFFICES ASSUME k + 1 <= m
                 PROVE  course(m + 1)[k + 1] = course(m)[k + 1]
      OBVIOUS
    <3>1. k + 1 \in 1 .. m /\ k + 1 \in 1 .. m + 1 /\ (k + 1) - 1 = k
      OBVIOUS
    <3>2. course(m + 1)[k + 1] = step[course(m + 1)[k]]
      BY <1>2, <2>1, <3>1
    <3>3. course(m)[k + 1] = step[course(m)[k]]
      BY <1>2, <3>1
    <3>4. course(m + 1)[k] = course(m)[k]
      BY <2>3, <3>1
    <3> QED
      BY <3>2, <3>3, <3>4
  <2> HIDE DEF same
  <2>4. \A k \in Nat : k \in same
    BY <2>2, <2>3, NatInduct
  <2> QED
    BY <2>4 DEF same
<1>4. f \in [Nat -> S]
  <2>1. ASSUME NEW m \in Nat PROVE course(m)[m] \in S
    BY <1>2
  <2> QED
    BY <2>1
<1>5. f[0] = first
  BY <1>2
<1>6. ASSUME NEW k \in Nat PROVE f[k + 1] = step[f[k]]
  <2>1. k + 1 \in Nat /\ k + 1 \in 1 .. k + 1 /\ (k + 1) - 1 = k
    OBVIOUS
  <2>2. course(k + 1)[k + 1] = step[course(k + 1)[k]]
    BY <1>2, <2>1
  <2>3. course(k + 1)[k] = course(k)[k]
    BY <1>3
  <2> QED
    BY <2>1, <2>2, <2>3
<1> HIDE DEF f
<1> QED
  BY <1>4, <1>5, <1>6

\* Division of integers by a positive number.
LEMMA DivideInt ==
    ASSUME NEW n \in Nat \ {0}, NEW a \in Int
    PROVE  /\ a \div n \in Int /\ a % n \in 0 .. n - 1
           /\ a = n * (a \div n) + (a % n)
OBVIOUS

\* Two multiples less than n apart are the same.
LEMMA MultiplesApart ==
    ASSUME NEW n \in Nat \ {0}, NEW x \in Int, NEW y \in Int,
           n * x < n * y + n, n * y < n * x + n
    PROVE  x = y
<1>1. CASE x >= y + 1
  <2>1. n * x >= n * (y + 1)
    BY <1>1
  <2>2. n * (y + 1) = n * y + n
    OBVIOUS
  <2> QED
    BY <2>1, <2>2
<1>2. CASE y >= x + 1
  <2>1. n * y >= n * (x + 1)
    BY <1>2
  <2>2. n * (x + 1) = n * x + n
    OBVIOUS
  <2> QED
    BY <2>1, <2>2
<1> QED
  BY <1>1, <1>2

\* A remainder is known by any quotient that fits.
LEMMA RemainderUnique ==
    ASSUME NEW n \in Nat \ {0}, NEW a \in Int, NEW d \in Int, NEW r \in 0 .. n - 1,
           a = n * d + r
    PROVE  a % n = r
<1>1. a \div n \in Int /\ a % n \in 0 .. n - 1 /\ a = n * (a \div n) + (a % n)
  BY DivideInt
<1>2. a \div n = d
  BY <1>1, MultiplesApart
<1> QED
  BY <1>1, <1>2

=============================================================================

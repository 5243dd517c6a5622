------------------------------ MODULE NatFacts ------------------------------
(***************************************************************************)
(* What the proofs need of the natural numbers: the modulus of an index or *)
(* a counter that wraps, and induction and primitive recursion, stated of  *)
(* sets and functions rather than of operators, so that the provers can    *)
(* instantiate them.  The loops of the firmware are modelled as recursive  *)
(* functions; what such a loop computes, for a bound of any size, is       *)
(* proved from the theorems of this module.                                *)
(***************************************************************************)
EXTENDS Integers, WellFoundedInduction, TLAPS

\* The modulus of a sum or a difference of two indices.
LEMMA ModOnce ==
    ASSUME NEW n \in Nat, n > 0, NEW x \in Int
    PROVE  /\ x \in 0 .. n - 1 => x % n = x
           /\ x \in n .. 2 * n - 1 => x % n = x - n
           /\ x \in -n .. -1 => x % n = x + n
<1>1. x \in 0 .. n - 1 => x % n = x
  BY SMTT(30)
<1>2. x \in n .. 2 * n - 1 => x % n = x - n
  BY SMTT(30)
<1>3. x \in -n .. -1 => x % n = x + n
  BY SMTT(30)
<1> QED
  BY <1>1, <1>2, <1>3

\* A non-empty set of naturals has a least element.
LEMMA LeastElement ==
    ASSUME NEW T \in SUBSET Nat, T # {}
    PROVE  \E x \in T : \A y \in T : x <= y
<1> DEFINE Less == OpToRel(<, Nat)
<1>1. IsWellFoundedOn(Less, Nat)
  BY NatLessThanWellFounded
<1>2. \A x, y \in Nat : y < x => <<y, x>> \in Less
  BY DEF OpToRel
<1> HIDE DEF Less
<1>3. PICK x \in T : \A y \in T : ~(<<y, x>> \in Less)
  BY <1>1, WFMin
<1>4. \A y \in T : ~(y < x)
  BY <1>2, <1>3
<1> QED
  BY <1>3, <1>4

\* A non-empty set of integers that is bounded above has a greatest element.
LEMMA GreatestElement ==
    ASSUME NEW T \in SUBSET Int, NEW bound \in Int, T # {}, \A x \in T : x <= bound
    PROVE  \E x \in T : \A y \in T : y <= x
<1> DEFINE Below == {bound - x : x \in T}
<1>1. Below \in SUBSET Nat /\ Below # {}
  <2>1. \A x \in T : bound - x \in Nat
    OBVIOUS
  <2> QED
    BY <2>1, Zenon
<1>2. PICK d \in Below : \A e \in Below : d <= e
  BY <1>1, LeastElement
<1>3. PICK x \in T : d = bound - x
  BY <1>2
<1>4. \A y \in T : bound - x <= bound - y
  BY <1>2, <1>3
<1> QED
  BY <1>4

\* A set that holds 0, and n + 1 with every n, holds every natural.
THEOREM SetInduction ==
    ASSUME NEW S, 0 \in S, \A n \in Nat : n \in S => n + 1 \in S
    PROVE  Nat \subseteq S
<1> SUFFICES ASSUME Nat \ S # {} PROVE FALSE
  OBVIOUS
<1>1. PICK x \in Nat \ S : \A y \in Nat \ S : x <= y
  BY LeastElement
<1>2. x # 0 /\ x - 1 \in Nat
  BY <1>1
<1>3. x - 1 \in S
  BY <1>1, <1>2
<1> QED
  BY <1>1, <1>2, <1>3

\* The first n steps of the iteration of step from f0.
Steps(S, f0, step, n) ==
    {g \in [0 .. n -> S] :
        g[0] = f0 /\ \A i \in 0 .. n - 1 : g[i + 1] = step[<<g[i], i + 1>>]}

LEMMA StepsAgree ==
    ASSUME NEW S, NEW f0, NEW step, NEW n \in Nat, NEW m \in Nat,
           NEW g \in Steps(S, f0, step, n), NEW h \in Steps(S, f0, step, m)
    PROVE  \A i \in Nat : i <= n /\ i <= m => g[i] = h[i]
<1> DEFINE A == {i \in Nat : i <= n /\ i <= m => g[i] = h[i]}
<1>1. 0 \in A
  BY DEF Steps
<1>2. ASSUME NEW i \in Nat, i \in A PROVE i + 1 \in A
  <2> SUFFICES ASSUME i + 1 <= n, i + 1 <= m PROVE g[i + 1] = h[i + 1]
    OBVIOUS
  <2>1. i \in 0 .. n - 1 /\ i \in 0 .. m - 1 /\ g[i] = h[i]
    BY <1>2
  <2> QED
    BY <2>1 DEF Steps
<1> HIDE DEF A
<1>3. Nat \subseteq A
  BY <1>1, <1>2, SetInduction
<1> QED
  BY <1>3 DEF A

LEMMA StepsExist ==
    ASSUME NEW S, NEW f0 \in S, NEW step \in [S \X Nat -> S], NEW n \in Nat
    PROVE  \E g : g \in Steps(S, f0, step, n)
<1> DEFINE A == {k \in Nat : \E g : g \in Steps(S, f0, step, k)}
<1>1. 0 \in A
  <2>1. [i \in 0 .. 0 |-> f0] \in Steps(S, f0, step, 0)
    BY DEF Steps
  <2> QED
    BY <2>1
<1>2. ASSUME NEW k \in Nat, k \in A PROVE k + 1 \in A
  <2>1. PICK g : g \in Steps(S, f0, step, k)
    BY <1>2
  <2> DEFINE h == [i \in 0 .. k + 1 |-> IF i = k + 1 THEN step[<<g[k], k + 1>>] ELSE g[i]]
  <2>2. g \in [0 .. k -> S] /\ k \in 0 .. k
    BY <2>1 DEF Steps
  <2>3. step[<<g[k], k + 1>>] \in S
    BY <2>2
  <2>4. h \in [0 .. k + 1 -> S]
    BY <2>2, <2>3
  <2>5. h[0] = f0
    BY <2>1 DEF Steps
  <2>6. ASSUME NEW i \in 0 .. (k + 1) - 1 PROVE h[i + 1] = step[<<h[i], i + 1>>]
    <3>1. CASE i = k
      <4>1. k \in 0 .. k + 1 /\ k # k + 1 /\ h[k] = g[k]
        OBVIOUS
      <4>2. k + 1 \in 0 .. k + 1 /\ h[k + 1] = step[<<g[k], k + 1>>]
        OBVIOUS
      <4> QED
        BY <3>1, <4>1, <4>2, Zenon
    <3>2. CASE i # k
      <4>1. i \in 0 .. k - 1 /\ i + 1 \in 0 .. k
        BY <3>2
      <4> QED
        BY <2>1, <4>1 DEF Steps
    <3> QED
      BY <3>1, <3>2
  <2>7. h \in Steps(S, f0, step, k + 1)
    BY <2>4, <2>5, <2>6 DEF Steps
  <2> QED
    BY <2>7
<1> HIDE DEF A
<1>3. Nat \subseteq A
  BY <1>1, <1>2, SetInduction
<1> QED
  BY <1>3 DEF A

\* f starts with f0 and goes from n to n + 1 by step.
Iterates(f, S, f0, step) ==
    /\ f \in [Nat -> S]
    /\ f[0] = f0
    /\ \A n \in Nat : f[n + 1] = step[<<f[n], n + 1>>]

\* There is a function that starts with f0 and goes on by step: the recursive
\* functions of the models satisfy their defining equations.
THEOREM PrimitiveRecursion ==
    ASSUME NEW S, NEW f0 \in S, NEW step \in [S \X Nat -> S]
    PROVE  \E f : Iterates(f, S, f0, step)
<1> DEFINE G(n) == CHOOSE g : g \in Steps(S, f0, step, n)
           f == [n \in Nat |-> G(n)[n]]
<1>1. \A n \in Nat : G(n) \in Steps(S, f0, step, n)
  BY StepsExist
<1> HIDE DEF G
<1>2. ASSUME NEW n \in Nat PROVE G(n)[n] \in S
  <2>1. G(n) \in [0 .. n -> S] /\ n \in 0 .. n
    BY <1>1 DEF Steps
  <2> QED
    BY <2>1
<1>3. f \in [Nat -> S]
  BY <1>2
<1>4. f[0] = f0
  BY <1>1 DEF Steps
<1>5. ASSUME NEW n \in Nat PROVE f[n + 1] = step[<<f[n], n + 1>>]
  <2>1. G(n + 1) \in Steps(S, f0, step, n + 1) /\ n + 1 \in Nat
    BY <1>1
  <2>2. G(n) \in Steps(S, f0, step, n)
    BY <1>1
  <2>3. G(n + 1)[n + 1] = step[<<G(n + 1)[n], n + 1>>]
    <3>1. n \in 0 .. (n + 1) - 1
      OBVIOUS
    <3> QED
      BY <2>1, <3>1 DEF Steps
  <2>4. G(n + 1)[n] = G(n)[n]
    BY <2>1, <2>2, StepsAgree
  <2> QED
    BY <2>3, <2>4
<1> HIDE DEF f
<1>6. Iterates(f, S, f0, step)
  BY <1>3, <1>4, <1>5 DEF Iterates
<1> QED
  BY <1>6

\* The same below a bound: a set that holds 0, and n + 1 with every n short of
\* N, holds everything up to N.
THEOREM BoundedInduction ==
    ASSUME NEW N \in Nat, NEW S, 0 \in S, \A n \in 0 .. N - 1 : n \in S => n + 1 \in S
    PROVE  0 .. N \subseteq S
<1> DEFINE A == {n \in Nat : n <= N => n \in S}
<1>1. 0 \in A
  OBVIOUS
<1>2. ASSUME NEW n \in Nat, n \in A PROVE n + 1 \in A
  <2>1. n + 1 <= N => n \in 0 .. N - 1 /\ n \in S
    BY <1>2
  <2> QED
    BY <2>1
<1> HIDE DEF A
<1>3. Nat \subseteq A
  BY <1>1, <1>2, SetInduction
<1> QED
  BY <1>3 DEF A

\* f is the recursive function on 0 .. N that starts with f0 and goes on by step.
IteratesTo(f, N, f0, step) ==
    f = [n \in 0 .. N |-> IF n = 0 THEN f0 ELSE step[<<f[n - 1], n>>]]

\* There is such a function, with values in S.
THEOREM BoundedRecursion ==
    ASSUME NEW N \in Nat, NEW S, NEW f0 \in S, NEW step \in [S \X (1 .. N) -> S]
    PROVE  \E f \in [0 .. N -> S] : IteratesTo(f, N, f0, step)
<1> DEFINE total == [a \in S \X Nat |-> IF a[2] \in 1 .. N THEN step[a] ELSE a[1]]
<1>1. total \in [S \X Nat -> S]
  <2> SUFFICES ASSUME NEW a \in S \X Nat
               PROVE  (IF a[2] \in 1 .. N THEN step[a] ELSE a[1]) \in S
    OBVIOUS
  <2>1. a[1] \in S /\ a = <<a[1], a[2]>>
    OBVIOUS
  <2>2. CASE a[2] \in 1 .. N
    <3>1. a \in S \X (1 .. N)
      BY <2>1, <2>2
    <3> QED
      BY <2>2, <3>1
  <2> QED
    BY <2>1, <2>2
<1>2. ASSUME NEW x \in S, NEW n \in 1 .. N PROVE total[<<x, n>>] = step[<<x, n>>]
  <2>1. <<x, n>> \in S \X Nat /\ <<x, n>>[2] = n
    OBVIOUS
  <2> QED
    BY <2>1
<1> HIDE DEF total
<1>3. PICK g : Iterates(g, S, f0, total)
  BY <1>1, PrimitiveRecursion
<1> DEFINE f == [n \in 0 .. N |-> g[n]]
<1>4. f \in [0 .. N -> S]
  BY <1>3 DEF Iterates
<1>5. ASSUME NEW n \in 0 .. N
      PROVE  f[n] = IF n = 0 THEN f0 ELSE step[<<f[n - 1], n>>]
  <2>1. CASE n = 0
    BY <1>3, <2>1 DEF Iterates
  <2>2. CASE n # 0
    <3>1. n - 1 \in Nat /\ n - 1 \in 0 .. N /\ n \in 1 .. N /\ (n - 1) + 1 = n
      BY <2>2
    <3>2. g[(n - 1) + 1] = total[<<g[n - 1], (n - 1) + 1>>] /\ g[n - 1] \in S
      BY <1>3, <3>1 DEF Iterates
    <3>3. g[n] = step[<<g[n - 1], n>>]
      BY <1>2, <3>1, <3>2
    <3> QED
      BY <2>2, <3>1, <3>3
  <2> QED
    BY <2>1, <2>2
<1> HIDE DEF f
<1>6. f = [n \in 0 .. N |-> f[n]]
  BY <1>4
<1>7. IteratesTo(f, N, f0, step)
  BY <1>5, <1>6 DEF IteratesTo
<1> QED
  BY <1>4, <1>7

\* The remainder of a division is the only one.
LEMMA RemainderIs ==
    ASSUME NEW n \in Nat, n > 0, NEW q \in Int, NEW r \in 0 .. n - 1
    PROVE  (n * q + r) % n = r
<1> DEFINE x == n * q + r
           p == x \div n
           t == x % n
<1>1. x \in Int /\ n * q \in Int
  BY SMTT(30)
<1>2. p \in Int /\ t \in 0 .. n - 1 /\ x = n * p + t
  <2> HIDE DEF x
  <2> QED
    BY <1>1, SMTT(30)
<1> HIDE DEF p, t
<1>3. n * p + t = n * q + r
  BY <1>2, Zenon DEF x
<1>4. n * (p - q) = r - t /\ n * (p - q) \in Int
  BY <1>2, <1>3, SMTT(30)
<1>5. p = q
  <2>1. CASE p - q >= 1
    <3>1. PICK d \in Nat : p - q = d + 1
      BY <1>2, <2>1
    <3>2. n * (d + 1) = n * d + n /\ n * d \in Nat
      BY SMTT(30)
    <3> QED
      BY <1>2, <1>4, <3>1, <3>2
  <2>2. CASE q - p >= 1
    <3>1. PICK d \in Nat : q - p = d + 1
      BY <1>2, <2>2
    <3>2. n * (d + 1) = n * d + n /\ n * d \in Nat
      BY SMTT(30)
    <3>3. p - q = -(d + 1)
      BY <1>2, <3>1
    <3>4. n * (-(d + 1)) = -(n * (d + 1))
      BY SMTT(30)
    <3> QED
      BY <1>2, <1>4, <3>2, <3>3, <3>4
  <2> QED
    BY <1>2, <2>1, <2>2
<1>6. t = r
  BY <1>1, <1>2, <1>3, <1>5
<1> QED
  BY <1>6 DEF t, x

\* The remainder of a later number.
LEMMA RemainderLater ==
    ASSUME NEW n \in Nat, n > 0, NEW x \in Nat, NEW d \in 0 .. n
    PROVE  (x + d) % n = IF (x % n) + d < n THEN (x % n) + d ELSE (x % n) + d - n
<1> DEFINE q == x \div n
           r == x % n
<1>1. q \in Int /\ r \in 0 .. n - 1 /\ x = n * q + r /\ n * q \in Int
  BY SMTT(30)
<1> HIDE DEF q, r
<1>2. CASE r + d < n
  <2>1. x + d = n * q + (r + d) /\ r + d \in 0 .. n - 1
    BY <1>1, <1>2
  <2>2. (n * q + (r + d)) % n = r + d
    BY <1>1, <2>1, RemainderIs
  <2> QED
    BY <1>2, <2>1, <2>2 DEF r
<1>3. CASE r + d >= n
  <2>1. r + d - n \in 0 .. n - 1 /\ q + 1 \in Int
    BY <1>1, <1>3
  <2>2. n * (q + 1) = n * q + n
    BY <1>1, SMTT(30)
  <2>3. x + d = n * (q + 1) + (r + d - n)
    BY <1>1, <2>2
  <2>4. (n * (q + 1) + (r + d - n)) % n = r + d - n
    BY <2>1, RemainderIs
  <2>5. ~(r + d < n)
    BY <1>1, <1>3
  <2> QED
    BY <2>3, <2>4, <2>5 DEF r
<1> QED
  BY <1>1, <1>2, <1>3

\* Numbers less than n apart have different remainders.
LEMMA RemaindersDiffer ==
    ASSUME NEW n \in Nat, n > 0, NEW x \in Nat, NEW y \in Nat, x < y, y - x < n
    PROVE  x % n # y % n
<1>1. PICK d \in 0 .. n : y = x + d /\ d > 0 /\ d < n
  BY y - x \in 0 .. n
<1>2. x % n \in 0 .. n - 1
  BY SMTT(30)
<1>3. (x + d) % n = IF (x % n) + d < n THEN (x % n) + d ELSE (x % n) + d - n
  BY RemainderLater
<1> QED
  BY <1>1, <1>2, <1>3

\* Induction from a on, as far as b.
THEOREM IntervalInduction ==
    ASSUME NEW a \in Int, NEW b \in Int, NEW S, a \in S,
           \A i \in a .. b - 1 : i \in S => i + 1 \in S
    PROVE  a .. b \subseteq S
<1> DEFINE T == {n \in Nat : a + n <= b => a + n \in S}
<1>1. 0 \in T
  OBVIOUS
<1>2. ASSUME NEW n \in Nat, n \in T PROVE n + 1 \in T
  <2> SUFFICES ASSUME a + (n + 1) <= b PROVE a + (n + 1) \in S
    OBVIOUS
  <2>1. a + n \in a .. b - 1 /\ a + n \in S /\ (a + n) + 1 = a + (n + 1)
    BY <1>2
  <2>2. (a + n) + 1 \in S
    BY <2>1
  <2> QED
    BY <2>1, <2>2
<1> HIDE DEF T
<1>3. Nat \subseteq T
  BY <1>1, <1>2, SetInduction
<1>4. ASSUME NEW i \in a .. b PROVE i \in S
  <2>1. i - a \in Nat /\ a + (i - a) = i /\ i <= b
    OBVIOUS
  <2>2. i - a \in T
    BY <1>3, <2>1
  <2> QED
    BY <2>1, <2>2 DEF T
<1> QED
  BY <1>4

\* f is the recursive function on a .. b that starts with f0 and goes on by step.
IteratesOn(f, a, b, f0, step) ==
    f = [i \in a .. b |-> IF i = a THEN f0 ELSE step[<<f[i - 1], i>>]]

\* There is such a function, with values in S.
THEOREM IntervalRecursion ==
    ASSUME NEW a \in Int, NEW b \in Int, a <= b, NEW S, NEW f0 \in S,
           NEW step \in [S \X (a .. b) -> S]
    PROVE  \E f \in [a .. b -> S] : IteratesOn(f, a, b, f0, step)
<1> DEFINE shifted == [z \in S \X Nat |-> IF a + z[2] \in a .. b THEN step[<<z[1], a + z[2]>>]
                                          ELSE z[1]]
<1>1. shifted \in [S \X Nat -> S]
  <2> SUFFICES ASSUME NEW z \in S \X Nat
               PROVE  (IF a + z[2] \in a .. b THEN step[<<z[1], a + z[2]>>] ELSE z[1]) \in S
    OBVIOUS
  <2>1. z[1] \in S
    OBVIOUS
  <2>2. CASE a + z[2] \in a .. b
    <3>1. <<z[1], a + z[2]>> \in S \X (a .. b)
      BY <2>1, <2>2
    <3> QED
      BY <2>2, <3>1
  <2> QED
    BY <2>1, <2>2
<1>2. ASSUME NEW x \in S, NEW i \in a .. b, i # a
      PROVE  shifted[<<x, i - a>>] = step[<<x, i>>]
  <2>1. i - a \in Nat /\ a + (i - a) = i /\ <<x, i - a>> \in S \X Nat
    OBVIOUS
  <2>2. shifted[<<x, i - a>>] = IF a + (i - a) \in a .. b THEN step[<<x, a + (i - a)>>] ELSE x
    BY <2>1
  <2> QED
    BY <2>1, <2>2
<1> HIDE DEF shifted
<1>3. PICK g : Iterates(g, S, f0, shifted)
  BY <1>1, PrimitiveRecursion
<1> DEFINE f == [i \in a .. b |-> g[i - a]]
<1>4. \A n \in Nat : g[n] \in S
  BY <1>3 DEF Iterates
<1>5. f \in [a .. b -> S]
  BY <1>4
<1>6. ASSUME NEW i \in a .. b
      PROVE  f[i] = IF i = a THEN f0 ELSE step[<<f[i - 1], i>>]
  <2>1. CASE i = a
    <3>1. f[i] = g[0]
      BY <2>1
    <3> QED
      BY <1>3, <2>1, <3>1 DEF Iterates
  <2>2. CASE i # a
    <3>1. i - a - 1 \in Nat /\ (i - a - 1) + 1 = i - a /\ i - 1 \in a .. b
          /\ (i - 1) - a = i - a - 1
      BY <2>2
    <3>2. g[(i - a - 1) + 1] = shifted[<<g[i - a - 1], (i - a - 1) + 1>>]
      BY <1>3, <3>1 DEF Iterates
    <3>3. g[i - a] = step[<<g[i - a - 1], i>>]
      BY <1>2, <1>4, <2>2, <3>1, <3>2
    <3>4. f[i - 1] = g[i - a - 1] /\ f[i] = g[i - a]
      BY <3>1
    <3> QED
      BY <2>2, <3>3, <3>4
  <2> QED
    BY <2>1, <2>2
<1> HIDE DEF f
<1>7. f = [i \in a .. b |-> IF i = a THEN f0 ELSE step[<<f[i - 1], i>>]]
  BY <1>5, <1>6
<1> QED
  BY <1>5, <1>7 DEF IteratesOn
=============================================================================

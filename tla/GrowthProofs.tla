---------------------------- MODULE GrowthProofs ----------------------------
(***************************************************************************)
(* The recursive definition of Growth has the values one expects.  That    *)
(* the recursion has a solution is shown for its initial parts first, by   *)
(* induction in the form of a set of numbers: the library's induction      *)
(* theorems take an operator, which the provers cannot instantiate.        *)
(***************************************************************************)
EXTENDS Growth, WellFoundedInduction, TLAPS

\* A set that holds zero and with each number the next one holds all of them.
LEMMA NatSetInduction ==
  ASSUME NEW S, 0 \in S, \A n \in Nat : n \in S => n + 1 \in S
  PROVE  Nat \subseteq S
<1> DEFINE R == OpToRel(<, Nat)
           T == Nat \ S
<1>1. IsWellFoundedOn(R, Nat)
  BY NatLessThanWellFounded
<1>2. ASSUME T # {} PROVE FALSE
  <2>1. PICK x \in T : \A y \in T : <<y, x>> \notin R
    <3> HIDE DEF R
    <3> QED
      BY <1>1, <1>2, WFMin
  <2>2. \A y \in T : ~(y < x)
    BY <2>1 DEF OpToRel
  <2>3. x # 0 /\ x - 1 \in Nat /\ x - 1 < x
    OBVIOUS
  <2> QED
    BY <2>2, <2>3
<1> QED
  BY <1>2

\* f holds the first n + 1 values.
Powers(f, first, factor, n) ==
  /\ f \in [0..n -> Int]
  /\ f[0] = first
  /\ \A k \in 1..n : f[k] = f[k - 1] * factor

\* There are such values, as many as one likes.
LEMMA PowersExist ==
  ASSUME NEW first \in Int, NEW factor \in Int, NEW n \in Nat
  PROVE  \E f : Powers(f, first, factor, n)
<1> DEFINE S == {m \in Nat : \E f : Powers(f, first, factor, m)}
<1>1. 0 \in S
  <2> DEFINE f == [k \in 0..0 |-> first]
  <2>1. Powers(f, first, factor, 0)
    BY DEF Powers
  <2> QED
    BY <2>1
<1>2. ASSUME NEW m \in Nat, m \in S PROVE m + 1 \in S
  <2>1. PICK f : Powers(f, first, factor, m)
    BY <1>2
  <2> DEFINE g == [k \in 0..m + 1 |-> IF k <= m THEN f[k] ELSE f[m] * factor]
  <2>2. f \in [0..m -> Int] /\ f[m] * factor \in Int
    BY <2>1 DEF Powers
  <2>3. g \in [0..m + 1 -> Int] /\ g[0] = first
    BY <2>1, <2>2 DEF Powers
  <2>4. ASSUME NEW k \in 1..m + 1 PROVE g[k] = g[k - 1] * factor
    <3>1. CASE k <= m
      <4>1. k \in 1..m /\ k - 1 \in 0..m /\ k \in 0..m
        BY <3>1
      <4>2. g[k] = f[k] /\ g[k - 1] = f[k - 1]
        BY <4>1
      <4> QED
        BY <2>1, <4>1, <4>2 DEF Powers
    <3>2. CASE k = m + 1
      <4>1. g[k] = f[m] * factor /\ g[k - 1] = f[m]
        BY <3>2
      <4> QED
        BY <4>1
    <3> QED
      BY <3>1, <3>2
  <2> HIDE DEF g
  <2>5. Powers(g, first, factor, m + 1)
    BY <2>3, <2>4 DEF Powers
  <2> QED
    BY <2>5
<1> HIDE DEF S
<1>3. Nat \subseteq S
  BY <1>1, <1>2, NatSetInduction
<1> QED
  BY <1>3 DEF S

\* And only one choice of them.
LEMMA PowersAgree ==
  ASSUME NEW first \in Int, NEW factor \in Int,
         NEW f, NEW m \in Nat, Powers(f, first, factor, m),
         NEW g, NEW n \in Nat, Powers(g, first, factor, n),
         NEW k \in Nat, k <= m, k <= n
  PROVE  f[k] = g[k]
<1> DEFINE S == {i \in Nat : i <= m /\ i <= n => f[i] = g[i]}
<1>1. 0 \in S
  BY DEF Powers
<1>2. ASSUME NEW i \in Nat, i \in S PROVE i + 1 \in S
  <2> SUFFICES ASSUME i + 1 <= m, i + 1 <= n PROVE f[i + 1] = g[i + 1]
    OBVIOUS
  <2>1. f[i] = g[i]
    BY <1>2
  <2>2. f[i + 1] = f[i] * factor /\ g[i + 1] = g[i] * factor
    <3>1. i + 1 \in 1..m /\ i + 1 \in 1..n /\ i + 1 - 1 = i
      OBVIOUS
    <3> QED
      BY <3>1 DEF Powers
  <2> QED
    BY <2>1, <2>2
<1> HIDE DEF S
<1>3. Nat \subseteq S
  BY <1>1, <1>2, NatSetInduction
<1> QED
  BY <1>3 DEF S

\* Growth starts with the first number, and each next one is the factor times the last.
THEOREM GrowthLaw ==
  ASSUME NEW first \in Int, NEW factor \in Int
  PROVE  /\ Grown(first, factor)[0] = first
         /\ \A n \in Nat : /\ Grown(first, factor)[n] \in Int
                           /\ Grown(first, factor)[n + 1] = Grown(first, factor)[n] * factor
<1> DEFINE P(n) == CHOOSE f : Powers(f, first, factor, n)
           F    == [n \in Nat |-> P(n)[n]]
           G    == Grown(first, factor)
<1>1. \A n \in Nat : Powers(P(n), first, factor, n)
  BY PowersExist
<1> HIDE DEF P
<1>2. \A n \in Nat : F[n] = P(n)[n] /\ F[n] \in Int
  BY <1>1 DEF Powers
<1>3. F[0] = first
  BY <1>1, <1>2 DEF Powers
<1>4. ASSUME NEW n \in Nat PROVE F[n + 1] = F[n] * factor
  <2>1. P(n + 1)[n] = P(n)[n]
    BY <1>1, PowersAgree
  <2>2. P(n + 1)[n + 1] = P(n + 1)[n] * factor
    <3>1. n + 1 \in 1..n + 1 /\ n + 1 - 1 = n /\ Powers(P(n + 1), first, factor, n + 1)
      BY <1>1
    <3> QED
      BY <3>1 DEF Powers
  <2> QED
    BY <1>2, <2>1, <2>2
<1>5. F = [n \in Nat |-> IF n = 0 THEN first ELSE F[n - 1] * factor]
  <2>1. ASSUME NEW n \in Nat
        PROVE  F[n] = IF n = 0 THEN first ELSE F[n - 1] * factor
    <3>1. CASE n = 0
      BY <1>3, <3>1
    <3>2. CASE n # 0
      <4>1. n - 1 \in Nat /\ n - 1 + 1 = n
        BY <3>2
      <4> QED
        BY <1>4, <3>2, <4>1
    <3> QED
      BY <3>1, <3>2
  <2>2. F = [n \in Nat |-> F[n]]
    OBVIOUS
  <2> HIDE DEF F
  <2> QED
    BY <2>1, <2>2
<1> HIDE DEF F
<1>6. G = [n \in Nat |-> IF n = 0 THEN first ELSE G[n - 1] * factor]
  BY <1>5 DEF Grown
<1> HIDE DEF G
<1>7. G[0] = first
  BY <1>6
<1>8. \A n \in Nat : G[n + 1] = G[n] * factor
  <2> TAKE n \in Nat
  <2>1. n + 1 \in Nat /\ n + 1 # 0 /\ n + 1 - 1 = n
    OBVIOUS
  <2> QED
    BY <1>6, <2>1
<1> DEFINE S == {n \in Nat : G[n] \in Int}
<1>9. 0 \in S /\ \A n \in Nat : n \in S => n + 1 \in S
  BY <1>7, <1>8
<1> HIDE DEF S
<1>10. Nat \subseteq S
  BY <1>9, NatSetInduction
<1> QED
  BY <1>7, <1>8, <1>10 DEF G, S

\* With a factor of at least two, what starts positive grows at each step.
LEMMA GrowthGrows ==
  ASSUME NEW first \in Int, NEW factor \in Int, first >= 1, factor >= 2, NEW n \in Nat
  PROVE  /\ Grown(first, factor)[n] >= 1
         /\ Grown(first, factor)[n + 1] >= 2 * Grown(first, factor)[n]
<1> DEFINE G == Grown(first, factor)
           S == {m \in Nat : G[m] >= 1}
<1>1. G[0] = first /\ \A m \in Nat : G[m] \in Int /\ G[m + 1] = G[m] * factor
  BY GrowthLaw
<1> HIDE DEF G
<1>2. ASSUME NEW m \in Nat, G[m] >= 1 PROVE G[m + 1] >= 2 * G[m]
  <2>1. \A a \in Nat, b \in Nat : a * (2 + b) = 2 * a + a * b /\ a * b \in Nat
    OBVIOUS
  <2>2. G[m] \in Nat /\ factor - 2 \in Nat /\ factor = 2 + (factor - 2)
    BY <1>1, <1>2
  <2>3. G[m] * factor = 2 * G[m] + G[m] * (factor - 2) /\ G[m] * (factor - 2) \in Nat
    BY <2>1, <2>2
  <2> QED
    BY <1>1, <2>2, <2>3
<1>3. 0 \in S /\ \A m \in Nat : m \in S => m + 1 \in S
  BY <1>1, <1>2
<1> HIDE DEF S
<1>4. Nat \subseteq S
  BY <1>3, NatSetInduction
<1> QED
  BY <1>2, <1>4 DEF G, S
=============================================================================

------------------------- MODULE TlsfMappingProofs -------------------------
(***************************************************************************)
(* The size classes of the TLSF heap, for every size and every number of   *)
(* classes per power of two: a size falls into exactly one class, larger   *)
(* sizes never into an earlier one, and what find_free takes from the      *)
(* classes it searches is large enough.                                    *)
(***************************************************************************)
EXTENDS MCTlsfMapping, WellFoundedInduction, TLAPS

(* A nonempty set of naturals has a least element: induction by least        *)
(* counterexample.                                                           *)
LEMMA LeastOfNat ==
    ASSUME NEW S \in SUBSET Nat, S # {}
    PROVE  \E m \in S : \A n \in S : m <= n
<1>1. PICK x \in S : \A y \in S : ~(<<y, x>> \in OpToRel(<, Nat))
  BY WFMin, NatLessThanWellFounded, Zenon
<1>2. \A y \in S : ~(y < x)
  BY <1>1 DEF OpToRel
<1> QED BY <1>2

-----------------------------------------------------------------------------
(* Powers of two *)

(* The equation of Pow2: the recursion of its definition has a solution.     *)
(* Tables of the first powers exist for every length, and they agree.        *)
LEMMA Pow2Equation ==
    Pow2 = [k \in Nat |-> IF k = 0 THEN 1 ELSE 2 * Pow2[k - 1]]
<1> DEFINE Is(g, k) == g = [n \in 0..k |-> IF n = 0 THEN 1 ELSE 2 * g[n - 1]]
           Bad == {k \in Nat : ~\E g : Is(g, k)}
<1>1. Bad = {}
  <2> SUFFICES ASSUME Bad # {} PROVE FALSE
    OBVIOUS
  <2>1. PICK k \in Bad : \A j \in Bad : k <= j
    <3>1. Bad \in SUBSET Nat
      OBVIOUS
    <3> HIDE DEF Bad
    <3> QED BY <3>1, LeastOfNat
  <2>2. k \in Nat /\ ~\E g : Is(g, k)
    OBVIOUS
  <2>3. k # 0
    <3> DEFINE g == [n \in 0..0 |-> 1]
    <3>1. g = [n \in 0..0 |-> IF n = 0 THEN 1 ELSE 2 * g[n - 1]]
      OBVIOUS
    <3> HIDE DEF g
    <3> QED BY <2>2, <3>1
  <2>4. k - 1 \in Nat /\ k - 1 \notin Bad
    <3> HIDE DEF Bad
    <3> QED BY <2>1, <2>2, <2>3
  <2>5. PICK g : Is(g, k - 1)
    BY <2>4
  <2> DEFINE h == [n \in 0..k |-> IF n = k THEN 2 * g[k - 1] ELSE g[n]]
  <2>6. \A n \in 0..(k - 1) : g[n] = IF n = 0 THEN 1 ELSE 2 * g[n - 1]
    <3>1. g = [n \in 0..(k - 1) |-> IF n = 0 THEN 1 ELSE 2 * g[n - 1]]
      BY <2>5
    <3> QED BY <3>1
  <2>7. \A n \in 0..(k - 1) : h[n] = g[n]
    BY <2>2
  <2>8. h[k] = 2 * g[k - 1]
    BY <2>2
  <2>9. \A n \in 0..k : h[n] = IF n = 0 THEN 1 ELSE 2 * h[n - 1]
    <3> TAKE n \in 0..k
    <3> HIDE DEF h
    <3>1. CASE n = k
      BY <2>2, <2>3, <2>4, <2>7, <2>8, <3>1
    <3>2. CASE n # k
      <4>1. n \in 0..(k - 1) /\ (n # 0 => n - 1 \in 0..(k - 1))
        BY <2>2, <3>2
      <4> QED BY <2>6, <2>7, <4>1
    <3> QED BY <3>1, <3>2
  <2>10. h = [n \in 0..k |-> h[n]]
    OBVIOUS
  <2> HIDE DEF h
  <2>11. h = [n \in 0..k |-> IF n = 0 THEN 1 ELSE 2 * h[n - 1]]
    BY <2>9, <2>10
  <2> QED BY <2>2, <2>11
<1> DEFINE G(k) == CHOOSE g : Is(g, k)
<1>2. ASSUME NEW k \in Nat PROVE Is(G(k), k)
  <2>1. \E g : Is(g, k)
    BY <1>1
  <2> QED BY <2>1, Zenon
<1>3. ASSUME NEW k \in Nat
      PROVE  \A n \in 0..k : G(k)[n] = IF n = 0 THEN 1 ELSE 2 * G(k)[n - 1]
  <2>1. G(k) = [n \in 0..k |-> IF n = 0 THEN 1 ELSE 2 * G(k)[n - 1]]
    BY <1>2
  <2> HIDE DEF G
  <2> QED BY <2>1
<1> HIDE DEF G, Bad
<1>4. ASSUME NEW k \in Nat, NEW j \in Nat, NEW n \in 0..k, n <= j
      PROVE  G(k)[n] = G(j)[n]
  <2> DEFINE Off == {i \in Nat : i <= k /\ i <= j /\ G(k)[i] # G(j)[i]}
  <2>1. Off = {}
    <3> SUFFICES ASSUME Off # {} PROVE FALSE
      OBVIOUS
    <3>1. PICK i \in Off : \A l \in Off : i <= l
      <4>1. Off \in SUBSET Nat
        OBVIOUS
      <4> HIDE DEF Off
      <4> QED BY <4>1, LeastOfNat
    <3>2. i # 0
      BY <1>3
    <3>3. i - 1 \in Nat /\ i - 1 \notin Off
      <4>1. i \in Nat
        OBVIOUS
      <4> HIDE DEF Off
      <4> QED BY <3>1, <3>2, <4>1
    <3>4. G(k)[i - 1] = G(j)[i - 1]
      BY <3>3
    <3>5. G(k)[i] = 2 * G(k)[i - 1] /\ G(j)[i] = 2 * G(j)[i - 1]
      BY <1>3, <3>2
    <3> QED BY <3>4, <3>5
  <2> QED BY <2>1, <1>4
<1> DEFINE F == [k \in Nat |-> G(k)[k]]
<1>5. \A k \in Nat : F[k] = IF k = 0 THEN 1 ELSE 2 * F[k - 1]
  <2> TAKE k \in Nat
  <2>1. F[k] = G(k)[k]
    OBVIOUS
  <2>2. CASE k = 0
    BY <1>3, <2>1, <2>2
  <2>3. CASE k # 0
    <3>1. F[k - 1] = G(k - 1)[k - 1]
      BY <2>3
    <3>2. G(k)[k] = 2 * G(k)[k - 1]
      BY <1>3, <2>3
    <3>3. G(k)[k - 1] = G(k - 1)[k - 1]
      BY <1>4, <2>3
    <3> QED BY <2>1, <2>3, <3>1, <3>2, <3>3
  <2> QED BY <2>2, <2>3
<1>6. F = [k \in Nat |-> F[k]]
  OBVIOUS
<1> HIDE DEF F
<1>7. F = [k \in Nat |-> IF k = 0 THEN 1 ELSE 2 * F[k - 1]]
  BY <1>5, <1>6
<1>8. Pow2 = CHOOSE f : f = [k \in Nat |-> IF k = 0 THEN 1 ELSE 2 * f[k - 1]]
  BY Zenon DEF Pow2
<1> QED BY <1>7, <1>8, Zenon

(* Pow2 starts at one, doubles, and grows past every number. *)
LEMMA Pow2Props ==
    /\ Pow2 \in [Nat -> Nat \ {0}]
    /\ Pow2[0] = 1
    /\ \A k \in Nat : Pow2[k + 1] = 2 * Pow2[k]
    /\ \A k \in Nat : Pow2[k] > k
<1>1. Pow2[0] = 1
  BY Pow2Equation
<1>2. \A k \in Nat : Pow2[k + 1] = 2 * Pow2[k]
  <2> TAKE k \in Nat
  <2>1. k + 1 \in Nat /\ k + 1 # 0 /\ (k + 1) - 1 = k
    OBVIOUS
  <2>2. Pow2[k + 1] = IF k + 1 = 0 THEN 1 ELSE 2 * Pow2[(k + 1) - 1]
    BY Pow2Equation, <2>1
  <2> QED BY <2>1, <2>2
<1> DEFINE Bad == {k \in Nat : ~(Pow2[k] \in Nat /\ Pow2[k] > k)}
<1>3. Bad = {}
  <2> SUFFICES ASSUME Bad # {} PROVE FALSE
    OBVIOUS
  <2>1. PICK k \in Bad : \A j \in Bad : k <= j
    <3>1. Bad \in SUBSET Nat
      OBVIOUS
    <3> HIDE DEF Bad
    <3> QED BY <3>1, LeastOfNat
  <2>2. k \in Nat /\ k # 0
    BY <1>1
  <2>3. k - 1 \in Nat /\ k - 1 \notin Bad
    <3> HIDE DEF Bad
    <3> QED BY <2>1, <2>2
  <2>4. Pow2[k - 1] \in Nat /\ Pow2[k - 1] > k - 1
    BY <2>3
  <2>5. Pow2[(k - 1) + 1] = 2 * Pow2[k - 1]
    BY <1>2, <2>3
  <2>6. (k - 1) + 1 = k
    BY <2>2
  <2>7. Pow2[k] \in Nat /\ Pow2[k] > k
    BY <2>2, <2>4, <2>5, <2>6
  <2> QED BY <2>1, <2>7
<1>4. \A k \in Nat : Pow2[k] \in Nat \ {0} /\ Pow2[k] > k
  BY <1>3
<1>5. Pow2 = [k \in Nat |-> Pow2[k]]
  BY Pow2Equation
<1> QED BY <1>1, <1>2, <1>4, <1>5

(* Pow2 does not decrease. *)
LEMMA Pow2Monotone ==
    ASSUME NEW a \in Nat, NEW b \in Nat, a <= b
    PROVE  Pow2[a] <= Pow2[b]
<1> DEFINE Bad == {k \in Nat : ~(Pow2[a] <= Pow2[a + k])}
<1>1. Bad = {}
  <2> SUFFICES ASSUME Bad # {} PROVE FALSE
    OBVIOUS
  <2>1. PICK k \in Bad : \A j \in Bad : k <= j
    <3>1. Bad \in SUBSET Nat
      OBVIOUS
    <3> HIDE DEF Bad
    <3> QED BY <3>1, LeastOfNat
  <2>2. k \in Nat /\ k # 0
    BY Pow2Props
  <2>3. k - 1 \in Nat /\ k - 1 \notin Bad
    <3> HIDE DEF Bad
    <3> QED BY <2>1, <2>2
  <2>4. Pow2[a] <= Pow2[a + (k - 1)]
    BY <2>3
  <2>5. a + (k - 1) \in Nat /\ (a + (k - 1)) + 1 = a + k
    BY <2>2
  <2>6. Pow2[a + k] = 2 * Pow2[a + (k - 1)]
    BY <2>5, Pow2Props
  <2>7. Pow2[a] \in Nat /\ Pow2[a + (k - 1)] \in Nat
    BY <2>5, Pow2Props
  <2>8. Pow2[a] <= Pow2[a + k]
    BY <2>4, <2>6, <2>7
  <2> QED BY <2>1, <2>8
<1>2. b - a \in Nat /\ a + (b - a) = b
  OBVIOUS
<1> QED BY <1>1, <1>2

(* Shifting by a and then by b is shifting by their sum. *)
LEMMA Pow2Sum ==
    ASSUME NEW a \in Nat, NEW b \in Nat
    PROVE  Pow2[a + b] = Pow2[a] * Pow2[b]
<1> DEFINE Bad == {k \in Nat : Pow2[a + k] # Pow2[a] * Pow2[k]}
<1>1. Bad = {}
  <2> SUFFICES ASSUME Bad # {} PROVE FALSE
    OBVIOUS
  <2>1. PICK k \in Bad : \A j \in Bad : k <= j
    <3>1. Bad \in SUBSET Nat
      OBVIOUS
    <3> HIDE DEF Bad
    <3> QED BY <3>1, LeastOfNat
  <2>2. k \in Nat /\ k # 0
    BY Pow2Props
  <2>3. k - 1 \in Nat /\ k - 1 \notin Bad
    <3> HIDE DEF Bad
    <3> QED BY <2>1, <2>2
  <2>4. Pow2[a + (k - 1)] = Pow2[a] * Pow2[k - 1]
    BY <2>3
  <2>5. /\ a + (k - 1) \in Nat /\ (a + (k - 1)) + 1 = a + k
        /\ (k - 1) + 1 = k
    BY <2>2
  <2>6. Pow2[a + k] = 2 * Pow2[a + (k - 1)] /\ Pow2[k] = 2 * Pow2[k - 1]
    BY <2>3, <2>5, Pow2Props
  <2>7. Pow2[a] \in Nat /\ Pow2[k - 1] \in Nat
    BY <2>3, Pow2Props
  <2>8. ASSUME NEW x \in Nat, NEW y \in Nat PROVE 2 * (x * y) = x * (2 * y)
    OBVIOUS
  <2>9. Pow2[a + k] = Pow2[a] * Pow2[k]
    BY <2>4, <2>6, <2>7, <2>8
  <2> QED BY <2>1, <2>9
<1> QED BY <1>1

(* Log2 is the index of the leading bit, for every size but zero. *)
LEMMA Log2Props ==
    ASSUME NEW n \in Nat \ {0}
    PROVE  /\ Log2(n) \in Nat
           /\ Pow2[Log2(n)] <= n /\ n < Pow2[Log2(n) + 1]
<1> DEFINE Over == {k \in Nat : n < Pow2[k + 1]}
<1>1. n \in Over
  <2>1. Pow2[n + 1] > n + 1 /\ Pow2[n + 1] \in Nat
    BY Pow2Props
  <2> QED BY <2>1
<1>2. PICK k \in Over : \A j \in Over : k <= j
  <2>1. Over \in SUBSET Nat /\ Over # {}
    BY <1>1
  <2> HIDE DEF Over
  <2> QED BY <2>1, LeastOfNat
<1>3. k \in Nat /\ n < Pow2[k + 1]
  OBVIOUS
<1>4. Pow2[k] <= n
  <2>1. CASE k = 0
    BY <2>1, Pow2Props
  <2>2. CASE k # 0
    <3>1. k - 1 \in Nat /\ k - 1 \notin Over
      <4> HIDE DEF Over
      <4> QED BY <1>2, <1>3, <2>2
    <3>2. ~(n < Pow2[(k - 1) + 1]) /\ (k - 1) + 1 = k
      BY <1>3, <3>1
    <3> QED BY <1>3, <3>2, Pow2Props
  <2> QED BY <2>1, <2>2
<1>5. k \in 0..n
  <2>1. Pow2[k] > k /\ Pow2[k] \in Nat
    BY <1>3, Pow2Props
  <2> QED BY <1>3, <1>4, <2>1
<1>6. /\ Log2(n) \in 0..n
      /\ Pow2[Log2(n)] <= n /\ n < Pow2[Log2(n) + 1]
  BY <1>3, <1>4, <1>5, Zenon DEF Log2
<1> QED BY <1>6

(* A number with fl as its leading bit is a sum of 2^fl and less. *)
LEMMA Log2Order ==
    ASSUME NEW a \in Nat \ {0}, NEW b \in Nat \ {0}
    PROVE  /\ a <= b => Log2(a) <= Log2(b)
           /\ Log2(a) < Log2(b) => a < b
<1> DEFINE f == Log2(a)
           g == Log2(b)
<1>1. /\ f \in Nat /\ Pow2[f] <= a /\ a < Pow2[f + 1]
      /\ g \in Nat /\ Pow2[g] <= b /\ b < Pow2[g + 1]
  BY Log2Props
<1>2. /\ Pow2[f] \in Nat /\ Pow2[f + 1] \in Nat
      /\ Pow2[g] \in Nat /\ Pow2[g + 1] \in Nat
  BY <1>1, Pow2Props
<1> HIDE DEF f, g
<1>3. ASSUME f < g PROVE a < b
  <2>1. Pow2[f + 1] <= Pow2[g]
    BY <1>1, <1>3, Pow2Monotone
  <2> QED BY <1>1, <1>2, <2>1
<1>4. ASSUME g < f PROVE b < a
  <2>1. Pow2[g + 1] <= Pow2[f]
    BY <1>1, <1>4, Pow2Monotone
  <2> QED BY <1>1, <1>2, <2>1
<1>5. a <= b => f <= g
  BY <1>1, <1>4
<1> QED BY <1>3, <1>5 DEF f, g

-----------------------------------------------------------------------------
(* Arithmetic *)

(* Quotient and remainder. *)
LEMMA DivBounds ==
    ASSUME NEW a \in Nat, NEW b \in Nat \ {0}
    PROVE  /\ a \div b \in Nat
           /\ b * (a \div b) <= a /\ a < b * (a \div b) + b
OBVIOUS

(* Multiplying by a positive number keeps and reflects the order. *)
LEMMA TimesOrder ==
    ASSUME NEW a \in Nat, NEW b \in Nat, NEW c \in Nat \ {0}
    PROVE  /\ a <= b <=> c * a <= c * b
           /\ a < b <=> c * a < c * b
           /\ c * a \in Nat /\ c * b \in Nat
OBVIOUS

-----------------------------------------------------------------------------
(* The classes *)

(* The quotient of which Mapping keeps the low bits. *)
Quotient(n) == (n * Pow2[SLI]) \div Pow2[Log2(n)]

(* The quotient has exactly one bit above those that are kept, so the class  *)
(* within a power of two is the quotient less that bit.                      *)
LEMMA MappingProps ==
    ASSUME NEW n \in Nat \ {0}
    PROVE  /\ Quotient(n) \in Nat
           /\ Pow2[SLI] <= Quotient(n) /\ Quotient(n) < 2 * Pow2[SLI]
           /\ Pow2[Log2(n)] * Quotient(n) <= n * Pow2[SLI]
           /\ n * Pow2[SLI] < Pow2[Log2(n)] * (Quotient(n) + 1)
           /\ Mapping(n) = <<Log2(n), Quotient(n) - Pow2[SLI]>>
<1> DEFINE P == Pow2[SLI]
           Q == Pow2[Log2(n)]
           x == Quotient(n)
<1>1. Log2(n) \in Nat /\ Q <= n /\ n < 2 * Q
  BY Log2Props, Pow2Props
<1>2. P \in Nat \ {0} /\ Q \in Nat \ {0}
  BY <1>1, SLIAssumption, Pow2Props
<1>3. Mapping(n) = <<Log2(n), x % P>> /\ x = (n * P) \div Q
  BY DEF Mapping, Quotient
<1> HIDE DEF P, Q, x
<1>4. n * P \in Nat /\ P * n = n * P
  BY <1>2
<1>5. x \in Nat /\ Q * x <= n * P /\ n * P < Q * x + Q
  BY <1>2, <1>3, <1>4, DivBounds
<1>6. Q * (x + 1) = Q * x + Q /\ Q * (x + 1) \in Nat /\ Q * x \in Nat
  BY <1>2, <1>5
<1>7. Q * P <= n * P /\ n * P < Q * (2 * P)
  <2>1. P * Q <= P * n /\ P * n < P * (2 * Q)
    BY <1>1, <1>2, TimesOrder
  <2>2. P * Q = Q * P /\ P * (2 * Q) = Q * (2 * P)
    BY <1>2
  <2> QED BY <1>4, <2>1, <2>2
<1>8. P <= x
  <2>1. Q * P \in Nat
    BY <1>2
  <2>2. Q * P < Q * (x + 1)
    BY <1>4, <1>5, <1>6, <1>7, <2>1
  <2>3. P < x + 1
    BY <1>2, <1>5, <2>2, TimesOrder
  <2> QED BY <1>2, <1>5, <2>3
<1>9. x < 2 * P
  <2>1. Q * (2 * P) \in Nat
    BY <1>2
  <2>2. Q * x < Q * (2 * P)
    BY <1>4, <1>5, <1>6, <1>7, <2>1
  <2> QED BY <1>2, <1>5, <2>2, TimesOrder
<1>10. x % P = x - P
  BY <1>2, <1>5, <1>8, <1>9
<1> QED BY <1>3, <1>5, <1>6, <1>8, <1>9, <1>10 DEF P, Q, x

(* Every size below 2^k has a class of the first k powers of two. *)
LEMMA MappingInClasses ==
    ASSUME NEW k \in Nat, NEW n \in Nat \ {0}, n < Pow2[k]
    PROVE  Mapping(n) \in (0..(k - 1)) \X (0..(Pow2[SLI] - 1))
<1>1. Log2(n) \in Nat /\ Pow2[Log2(n)] <= n /\ Pow2[Log2(n)] \in Nat
  BY Log2Props, Pow2Props
<1>2. Log2(n) < k
  <2> SUFFICES ASSUME k <= Log2(n) PROVE FALSE
    BY <1>1
  <2>1. Pow2[k] <= Pow2[Log2(n)] /\ Pow2[k] \in Nat
    BY <1>1, Pow2Monotone, Pow2Props
  <2> QED BY <1>1, <2>1
<1>3. Pow2[SLI] \in Nat
  BY SLIAssumption, Pow2Props
<1>4. Quotient(n) - Pow2[SLI] \in 0..(Pow2[SLI] - 1)
  BY <1>3, MappingProps
<1> QED BY <1>1, <1>2, <1>4, MappingProps

(* What the order of two classes says of the sizes in them. *)
LEMMA ClassOrder ==
    ASSUME NEW a \in Nat \ {0}, NEW b \in Nat \ {0}
    PROVE  ClassLeq(Mapping(a), Mapping(b)) <=>
               \/ Log2(a) < Log2(b)
               \/ Log2(a) = Log2(b) /\ Quotient(a) <= Quotient(b)
<1>1. Pow2[SLI] \in Nat
  BY SLIAssumption, Pow2Props
<1>2. /\ Mapping(a) = <<Log2(a), Quotient(a) - Pow2[SLI]>> /\ Quotient(a) \in Nat
      /\ Mapping(b) = <<Log2(b), Quotient(b) - Pow2[SLI]>> /\ Quotient(b) \in Nat
  BY MappingProps
<1> QED BY <1>1, <1>2 DEF ClassLeq

(* A larger size never falls into an earlier class. *)
LEMMA MappingMonotone ==
    ASSUME NEW a \in Nat \ {0}, NEW b \in Nat \ {0}, a <= b
    PROVE  ClassLeq(Mapping(a), Mapping(b))
<1> DEFINE f == Log2(a)
           P == Pow2[SLI]
           Q == Pow2[f]
           x == Quotient(a)
           y == Quotient(b)
<1>1. f \in Nat /\ Log2(b) \in Nat /\ f <= Log2(b)
  BY Log2Props, Log2Order
<1>2. ASSUME f = Log2(b) PROVE x <= y
  <2>1. P \in Nat \ {0} /\ Q \in Nat \ {0}
    BY <1>1, SLIAssumption, Pow2Props
  <2>2. /\ x \in Nat /\ y \in Nat
        /\ Q * x <= a * P /\ b * P < Q * (y + 1)
    BY <1>2, MappingProps
  <2> HIDE DEF P, Q, x, y
  <2>3. a * P <= b * P /\ a * P \in Nat /\ b * P \in Nat
    <3>1. P * a <= P * b
      BY <2>1, TimesOrder
    <3>2. P * a = a * P /\ P * b = b * P
      BY <2>1
    <3> QED BY <2>1, <3>1, <3>2
  <2>4. Q * x < Q * (y + 1)
    <3>1. Q * x \in Nat /\ Q * (y + 1) \in Nat
      BY <2>1, <2>2
    <3> QED BY <2>2, <2>3, <3>1
  <2>5. x < y + 1
    BY <2>1, <2>2, <2>4, TimesOrder
  <2> QED BY <2>2, <2>5
<1> QED BY <1>1, <1>2, ClassOrder

-----------------------------------------------------------------------------
(* The search *)

(* What the search adds to a request: a class width less one, or nothing     *)
(* where every size has a class of its own.                                  *)
RoundUp(n) == IF n >= Pow2[SLI] THEN Pow2[Log2(n) - SLI] - 1 ELSE 0

(* The leading bit of a request that is rounded up is past the class bits,   *)
(* and its power of two holds 2^SLI class widths.                            *)
LEMMA Width ==
    ASSUME NEW n \in Nat \ {0}, n >= Pow2[SLI]
    PROVE  /\ Log2(n) - SLI \in Nat
           /\ Pow2[Log2(n) - SLI] \in Nat \ {0}
           /\ Pow2[Log2(n)] = Pow2[Log2(n) - SLI] * Pow2[SLI]
<1>1. SLI \in Nat /\ Log2(n) \in Nat /\ n < Pow2[Log2(n) + 1]
  BY SLIAssumption, Log2Props
<1>2. SLI <= Log2(n)
  <2> SUFFICES ASSUME Log2(n) + 1 <= SLI PROVE FALSE
    BY <1>1
  <2>1. Pow2[Log2(n) + 1] <= Pow2[SLI]
    BY <1>1, Pow2Monotone
  <2>2. Pow2[Log2(n) + 1] \in Nat /\ Pow2[SLI] \in Nat
    BY <1>1, Pow2Props
  <2> QED BY <1>1, <2>1, <2>2
<1>3. Log2(n) - SLI \in Nat /\ (Log2(n) - SLI) + SLI = Log2(n)
  BY <1>1, <1>2
<1>4. Pow2[(Log2(n) - SLI) + SLI] = Pow2[Log2(n) - SLI] * Pow2[SLI]
  BY <1>1, <1>3, Pow2Sum
<1> QED BY <1>3, <1>4, Pow2Props

(* The size searched for is at least the size asked for. *)
LEMMA SearchRounds ==
    ASSUME NEW n \in Nat \ {0}
    PROVE  /\ RoundUp(n) \in Nat /\ n + RoundUp(n) \in Nat \ {0}
           /\ MappingSearch(n) = Mapping(n + RoundUp(n))
<1>1. RoundUp(n) \in Nat
  BY Width DEF RoundUp
<1>2. MappingSearch(n) = Mapping(n + RoundUp(n))
  BY DEF MappingSearch, RoundUp
<1> QED BY <1>1, <1>2

(* Every block of the class in which the search starts, or of a later one,   *)
(* is at least as large as the request.                                      *)
LEMMA SearchFits ==
    ASSUME NEW n \in Nat \ {0}, NEW s \in Nat \ {0},
           ClassLeq(MappingSearch(n), Mapping(s))
    PROVE  s >= n
<1> DEFINE t == n + RoundUp(n)
           f == Log2(t)
           L == Log2(n)
           P == Pow2[SLI]
           x == Quotient(t)
           y == Quotient(s)
<1>1. t \in Nat \ {0} /\ n <= t /\ MappingSearch(n) = Mapping(t)
  BY SearchRounds
<1>2. f \in Nat /\ L \in Nat /\ Log2(s) \in Nat /\ L <= f
  <2> HIDE DEF t
  <2> QED BY <1>1, Log2Props, Log2Order
<1>3. f < Log2(s) \/ (f = Log2(s) /\ x <= y)
  <2> HIDE DEF t
  <2> QED BY <1>1, ClassOrder
<1>4. CASE L < Log2(s)
  <2>1. n < s
    BY <1>4, Log2Order
  <2> QED BY <2>1
<1>5. CASE f = L /\ Log2(s) = L /\ x <= y
  <2> DEFINE Q == Pow2[L]
  <2>1. P \in Nat \ {0} /\ Q \in Nat \ {0}
    BY <1>2, SLIAssumption, Pow2Props
  <2>2. /\ x \in Nat /\ t * P < Q * (x + 1)
    <3> HIDE DEF t
    <3> QED BY <1>1, <1>5, MappingProps
  <2>3. /\ y \in Nat /\ Q * y <= s * P
    BY <1>5, MappingProps
  <2>4. CASE n >= P
    <3> DEFINE W == Pow2[L - SLI]
    <3>1. W \in Nat \ {0} /\ Q = W * P /\ t = n + (W - 1)
      BY <2>4, Width DEF RoundUp
    <3> HIDE DEF t, x, y, P, Q, W
    <3>2. Q * (x + 1) = P * (W * (x + 1)) /\ t * P = P * t
      BY <1>1, <2>1, <2>2, <3>1
    <3>3. t < W * (x + 1)
      <4>1. W * (x + 1) \in Nat
        BY <2>2, <3>1
      <4>2. P * t < P * (W * (x + 1))
        BY <2>2, <3>2
      <4> QED BY <1>1, <2>1, <4>1, <4>2, TimesOrder
    <3>4. W * y <= s
      <4>1. Q * y = P * (W * y) /\ s * P = P * s /\ W * y \in Nat
        BY <2>1, <2>3, <3>1
      <4>2. P * (W * y) <= P * s
        BY <2>3, <4>1
      <4> QED BY <2>1, <4>1, <4>2, TimesOrder
    <3>5. W * x <= W * y /\ W * x \in Nat /\ W * y \in Nat
      BY <1>5, <2>2, <2>3, <3>1, TimesOrder
    <3>6. W * (x + 1) = W * x + W
      BY <2>2, <3>1
    <3> QED BY <3>1, <3>3, <3>4, <3>5, <3>6
  <2>5. CASE ~(n >= P)
    <3> DEFINE V == Pow2[SLI - L]
    <3>1. t = n
      BY <2>5 DEF RoundUp
    <3>2. L < SLI
      <4> SUFFICES ASSUME SLI <= L PROVE FALSE
        BY <1>2, SLIAssumption
      <4>1. P <= Q
        BY <1>2, SLIAssumption, Pow2Monotone
      <4>2. Q <= n
        BY Log2Props
      <4> HIDE DEF Q, P
      <4> QED BY <2>1, <2>5, <4>1, <4>2
    <3>3. V \in Nat \ {0} /\ P = Q * V
      <4>1. SLI - L \in Nat /\ L + (SLI - L) = SLI
        BY <1>2, <3>2, SLIAssumption
      <4>2. Pow2[L + (SLI - L)] = Pow2[L] * Pow2[SLI - L]
        BY <1>2, <4>1, Pow2Sum
      <4> QED BY <4>1, <4>2, Pow2Props
    <3> HIDE DEF t, x, y, P, Q, V
    <3>4. V * n < x + 1
      <4>1. t * P = Q * (V * n) /\ V * n \in Nat
        BY <2>1, <3>1, <3>3
      <4>2. Q * (V * n) < Q * (x + 1)
        BY <2>2, <4>1
      <4> QED BY <2>1, <2>2, <4>1, <4>2, TimesOrder
    <3>5. y <= V * s
      <4>1. s * P = Q * (V * s) /\ V * s \in Nat
        BY <2>1, <3>3
      <4>2. Q * y <= Q * (V * s)
        BY <2>3, <4>1
      <4> QED BY <2>1, <2>3, <4>1, <4>2, TimesOrder
    <3>6. V * n <= V * s
      <4>1. V * n \in Nat /\ V * s \in Nat
        BY <3>3
      <4> QED BY <1>5, <2>2, <2>3, <3>4, <3>5, <4>1
    <3>7. n <= s
      BY <3>3, <3>6, TimesOrder
    <3> QED BY <3>7
  <2> QED BY <2>4, <2>5
<1> HIDE DEF f, L, t, x, y
<1> QED BY <1>2, <1>3, <1>4, <1>5

(* A block that exceeds the request by one part in 2^SLI lies in a class     *)
(* that the search reaches.                                                  *)
LEMMA SearchReaches ==
    ASSUME NEW n \in Nat \ {0}, NEW s \in Nat \ {0},
           s * Pow2[SLI] >= n * (Pow2[SLI] + 1)
    PROVE  ClassLeq(MappingSearch(n), Mapping(s))
<1> DEFINE P == Pow2[SLI]
           t == n + RoundUp(n)
<1>1. t \in Nat \ {0} /\ MappingSearch(n) = Mapping(t)
  BY SearchRounds
<1>2. P \in Nat \ {0}
  BY SLIAssumption, Pow2Props
<1>3. n * (P + 1) = P * n + n /\ s * P = P * s /\ P * n \in Nat /\ P * s \in Nat
  BY <1>2
<1>4. t <= s
  <2>1. CASE n >= P
    <3> DEFINE W == Pow2[Log2(n) - SLI]
    <3>1. W \in Nat \ {0} /\ Pow2[Log2(n)] = W * P /\ t = n + (W - 1)
      BY <2>1, Width DEF RoundUp
    <3>2. Pow2[Log2(n)] <= n
      BY Log2Props
    <3>3. P * n + n <= P * s
      BY <1>3
    <3> HIDE DEF t, P, W
    <3>4. W * P = P * W /\ P * W \in Nat /\ P * (n + W) = P * n + P * W
      BY <1>2, <3>1
    <3>5. P * (n + W) <= P * s
      BY <1>3, <3>1, <3>2, <3>3, <3>4
    <3>6. n + W <= s
      BY <1>2, <3>1, <3>5, TimesOrder
    <3> QED BY <3>1, <3>6
  <2>2. CASE ~(n >= P)
    <3>1. t = n
      BY <2>2 DEF RoundUp
    <3>2. P * n <= P * s
      <4>1. P * n + n <= P * s
        BY <1>3
      <4> HIDE DEF P
      <4> QED BY <1>3, <4>1
    <3>3. n <= s
      <4> HIDE DEF P
      <4> QED BY <1>2, <3>2, TimesOrder
    <3> QED BY <3>1, <3>3
  <2> QED BY <2>1, <2>2
<1> HIDE DEF t
<1> QED BY <1>1, <1>4, MappingMonotone

-----------------------------------------------------------------------------
(* The sizes that a run steps through are positive. *)
LEMMA PairsPositive == Pairs => [](request \in Nat \ {0} /\ block \in Nat \ {0})
<1> DEFINE Positive == request \in Nat \ {0} /\ block \in Nat \ {0}
<1>1. FirstPair => Positive
  BY SizesAssumption DEF FirstPair, SizesChecked
<1>2. Positive /\ [NextBlock \/ LastBlock]_pair => Positive'
  BY SizesAssumption DEF NextBlock, LastBlock, pair
<1> QED BY <1>1, <1>2, PTL DEF Pairs

(* For every request, every block size and every number of classes per power *)
(* of two, no block that find_free may return is smaller than the request:   *)
(* the subtraction in alloc never wraps.                                     *)
THEOREM SearchedClassAlwaysFits == Pairs => []SearchedClassFits
<1>1. request \in Nat \ {0} /\ block \in Nat \ {0} => SearchedClassFits
  BY SearchFits DEF SearchedClassFits
<1> QED BY <1>1, PairsPositive, PTL

(* For every request, every block size and every number of classes per power *)
(* of two, find_free does not pass over a block that is larger than the      *)
(* request by one part in 2^SLI.                                             *)
THEOREM SearchAlwaysMissesLittle == Pairs => []SearchMissesLittle
<1>1. request \in Nat \ {0} /\ block \in Nat \ {0} => SearchMissesLittle
  BY SearchReaches DEF SearchMissesLittle
<1> QED BY <1>1, PairsPositive, PTL

=============================================================================

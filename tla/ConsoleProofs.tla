--------------------------- MODULE ConsoleProofs ---------------------------
(***************************************************************************)
(* Theorems about Console, for every geometry and every text: the screens  *)
(* show the end of what was printed and nothing is written past the        *)
(* framebuffer.  First where a text belongs, byte by byte; then what the   *)
(* operations of the two writers do to a screen; then the invariant.       *)
(***************************************************************************)
EXTENDS Console, TLAPS, FiniteSetTheorems, WellFoundedInduction

-----------------------------------------------------------------------------
(* Numbers. *)

(* A set of natural numbers has a least element. *)
LEMMA LeastNatural ==
    ASSUME NEW S \in SUBSET Nat, S # {}
    PROVE  \E m \in S : \A n \in S : m <= n
<1>1. PICK x \in S : \A y \in S : ~(<<y, x>> \in OpToRel(<, Nat))
  BY WFMin, NatLessThanWellFounded, Zenon
<1>2. \A y \in S : ~(y < x)
  BY <1>1 DEF OpToRel
<1> QED BY <1>2

(* Quotient and remainder are the only ones. *)
LEMMA DivUnique ==
    ASSUME NEW b \in Nat \ {0}, NEW q \in Nat, NEW r \in 0..(b - 1)
    PROVE  (b * q + r) \div b = q /\ (b * q + r) % b = r
<1>1. b * q \in Nat
  OBVIOUS
<1> DEFINE a == b * q + r
           d == a \div b
           e == a % b
<1>2. a \in Nat /\ d \in Nat /\ e \in 0..(b - 1) /\ a = b * d + e
  BY <1>1
<1>3. b * q + r = b * d + e
  BY <1>2
<1> HIDE DEF a, d, e
<1>4. ~(q < d)
  <2> SUFFICES ASSUME q < d PROVE FALSE
    OBVIOUS
  <2>1. b * d >= b * (q + 1)
    BY <1>2
  <2>2. b * (q + 1) = b * q + b
    OBVIOUS
  <2> QED BY <1>1, <1>2, <1>3, <2>1, <2>2
<1>5. ~(d < q)
  <2> SUFFICES ASSUME d < q PROVE FALSE
    OBVIOUS
  <2>1. b * q >= b * (d + 1)
    BY <1>2
  <2>2. b * (d + 1) = b * d + b
    BY <1>2
  <2>3. b * d \in Nat
    BY <1>2
  <2> QED BY <1>1, <1>2, <1>3, <2>1, <2>2, <2>3
<1>6. d = q
  BY <1>2, <1>4, <1>5
<1>7. e = r
  BY <1>1, <1>2, <1>3, <1>6
<1> QED BY <1>6, <1>7 DEF a, d, e

(* Quotient and remainder, and when a number is below a multiple. *)
LEMMA DivProps ==
    ASSUME NEW b \in Nat \ {0}, NEW a \in Nat
    PROVE  /\ a \div b \in Nat /\ a % b \in 0..(b - 1) /\ a = b * (a \div b) + (a % b)
           /\ \A q \in Nat : a < b * q <=> a \div b < q
<1> DEFINE d == a \div b
           e == a % b
<1>1. d \in Nat /\ e \in 0..(b - 1) /\ a = b * d + e
  OBVIOUS
<1> HIDE DEF d, e
<1>2. ASSUME NEW q \in Nat
      PROVE  a < b * q <=> d < q
  <2>1. b * q \in Nat /\ b * d \in Nat
    BY <1>1
  <2>2. ASSUME d < q PROVE a < b * q
    <3>1. b * q >= b * (d + 1)
      BY <1>1, <2>2
    <3>2. b * (d + 1) = b * d + b
      BY <1>1
    <3> QED BY <1>1, <2>1, <3>1, <3>2
  <2>3. ASSUME q <= d PROVE b * q <= a
    <3>1. b * q <= b * d
      BY <1>1, <2>3
    <3> QED BY <1>1, <2>1, <3>1
  <2> QED BY <1>1, <2>1, <2>2, <2>3
<1> QED BY <1>1, <1>2 DEF d, e

(* The remainder of the successor. *)
LEMMA ModNext ==
    ASSUME NEW n \in Nat \ {0}, NEW k \in Nat
    PROVE  (k + 1) % n = IF (k % n) + 1 = n THEN 0 ELSE (k % n) + 1
<1> DEFINE q == k \div n
           r == k % n
<1>1. q \in Nat /\ r \in 0..(n - 1) /\ k = n * q + r
  BY DivProps
<1> HIDE DEF q, r
<1>2. CASE r + 1 = n
  <2>1. k + 1 = n * (q + 1) + 0
    BY <1>1, <1>2
  <2>2. (n * (q + 1) + 0) % n = 0
    BY <1>1, DivUnique
  <2> QED BY <1>2, <2>1, <2>2 DEF r
<1>3. CASE r + 1 # n
  <2>1. k + 1 = n * q + (r + 1) /\ r + 1 \in 0..(n - 1)
    BY <1>1, <1>3
  <2>2. (n * q + (r + 1)) % n = r + 1
    BY <1>1, <2>1, DivUnique
  <2> QED BY <1>3, <2>1, <2>2 DEF r
<1> QED BY <1>2, <1>3

-----------------------------------------------------------------------------
(* Where a text belongs.  Into and RowOf look at a prefix only, so a text   *)
(* being printed is handled as t with the k bytes of it that are out.       *)

(* What Into chooses. *)
IsInto(t, i, k) ==
    /\ k \in 0..(i - 1)
    /\ \A j \in (i - k)..(i - 1) : t[j] # NL
    /\ k = i - 1 \/ t[i - k - 1] = NL

(* There is only one such distance. *)
LEMMA IntoUnique ==
    ASSUME NEW t, NEW i \in Nat \ {0}, NEW k, NEW m, IsInto(t, i, k), IsInto(t, i, m)
    PROVE  k = m
<1>1. ASSUME NEW a, NEW c, IsInto(t, i, a), IsInto(t, i, c), a < c
      PROVE  FALSE
  <2>1. a \in 0..(i - 1) /\ c \in 0..(i - 1) /\ a # i - 1
    BY <1>1 DEF IsInto
  <2>2. t[i - a - 1] = NL
    BY <1>1, <2>1 DEF IsInto
  <2>3. i - a - 1 \in (i - c)..(i - 1)
    BY <1>1, <2>1
  <2> QED BY <1>1, <2>2, <2>3 DEF IsInto
<1>2. k \in 0..(i - 1) /\ m \in 0..(i - 1)
  BY DEF IsInto
<1>3. ~(k < m) /\ ~(m < k)
  BY <1>1
<1> QED BY <1>2, <1>3

(* The distance of the next byte, from that of the last. *)
LEMMA IsIntoNext ==
    ASSUME NEW t, NEW i \in Nat \ {0}, NEW k, IsInto(t, i, k)
    PROVE  IsInto(t, i + 1, IF t[i] = NL THEN 0 ELSE k + 1)
<1>1. k \in 0..(i - 1)
  BY DEF IsInto
<1>2. CASE t[i] = NL
  BY <1>2 DEF IsInto
<1>3. CASE t[i] # NL
  <2>1. ASSUME NEW j \in (i + 1 - (k + 1))..(i + 1 - 1)
        PROVE  t[j] # NL
    <3>1. j = i \/ j \in (i - k)..(i - 1)
      BY <1>1
    <3> QED BY <1>3, <3>1 DEF IsInto
  <2>2. k + 1 = i + 1 - 1 \/ t[i + 1 - (k + 1) - 1] = NL
    <3>1. i + 1 - (k + 1) - 1 = i - k - 1
      BY <1>1
    <3> QED BY <1>1, <3>1 DEF IsInto
  <2>3. k + 1 \in 0..(i + 1 - 1)
    BY <1>1
  <2> QED BY <1>3, <2>1, <2>2, <2>3 DEF IsInto
<1> QED BY <1>2, <1>3

(* Every byte has such a distance. *)
LEMMA IntoExists ==
    ASSUME NEW t, NEW i \in Nat \ {0}
    PROVE  \E k : IsInto(t, i, k)
<1> DEFINE Bad == {m \in Nat \ {0} : ~\E k : IsInto(t, m, k)}
<1>1. Bad = {}
  <2> SUFFICES ASSUME Bad # {} PROVE FALSE
    OBVIOUS
  <2>1. PICK m \in Bad : \A j \in Bad : m <= j
    <3>1. Bad \in SUBSET Nat
      OBVIOUS
    <3> HIDE DEF Bad
    <3> QED BY <3>1, LeastNatural
  <2>2. m \in Nat \ {0} /\ ~\E k : IsInto(t, m, k)
    OBVIOUS
  <2>3. m # 1
    <3>1. IsInto(t, 1, 0)
      BY DEF IsInto
    <3> QED BY <2>2, <3>1
  <2>4. m - 1 \in Nat \ {0} /\ m - 1 \notin Bad
    <3> HIDE DEF Bad
    <3> QED BY <2>1, <2>2, <2>3
  <2>5. PICK k : IsInto(t, m - 1, k)
    BY <2>4
  <2>6. m - 1 + 1 = m
    BY <2>2
  <2> QED BY <2>2, <2>4, <2>5, <2>6, IsIntoNext
<1> QED BY <1>1

(* Into is that distance. *)
LEMMA IntoIs ==
    ASSUME NEW t, NEW i \in Nat \ {0}
    PROVE  IsInto(t, i, Into(t, i)) /\ Into(t, i) \in 0..(i - 1)
<1>1. PICK k : IsInto(t, i, k)
  BY IntoExists
<1>2. k \in 0..(i - 1) /\ (\A j \in (i - k)..(i - 1) : t[j] # NL) /\ (k = i - 1 \/ t[i - k - 1] = NL)
  BY <1>1 DEF IsInto
<1> QED BY <1>2, Zenon DEF Into, IsInto

(* Into, byte by byte. *)
LEMMA IntoNext ==
    ASSUME NEW t
    PROVE  /\ Into(t, 1) = 0
           /\ \A i \in Nat \ {0} : Into(t, i + 1) = IF t[i] = NL THEN 0 ELSE Into(t, i) + 1
<1>1. Into(t, 1) = 0
  <2>1. Into(t, 1) \in 0..(1 - 1)
    BY IntoIs
  <2> QED BY <2>1
<1>2. ASSUME NEW i \in Nat \ {0}
      PROVE  Into(t, i + 1) = IF t[i] = NL THEN 0 ELSE Into(t, i) + 1
  <2> DEFINE m == IF t[i] = NL THEN 0 ELSE Into(t, i) + 1
  <2>1. IsInto(t, i + 1, m)
    BY IntoIs, IsIntoNext
  <2>2. i + 1 \in Nat \ {0}
    OBVIOUS
  <2>3. IsInto(t, i + 1, Into(t, i + 1))
    BY <2>2, IntoIs
  <2> HIDE DEF m
  <2>4. Into(t, i + 1) = m
    BY <2>1, <2>2, <2>3, IntoUnique
  <2> QED BY <2>4 DEF m
<1> QED BY <1>1, <1>2

(* Into depends on the bytes before. *)
LEMMA IntoSame ==
    ASSUME NEW t, NEW u, NEW i \in Nat \ {0}, \A j \in 1..(i - 1) : t[j] = u[j]
    PROVE  Into(t, i) = Into(u, i)
<1> DEFINE k == Into(u, i)
<1>1. IsInto(u, i, k) /\ k \in 0..(i - 1)
  BY IntoIs
<1> HIDE DEF k
<1>2. IsInto(t, i, k)
  <2>1. \A j \in (i - k)..(i - 1) : t[j] # NL
    <3> TAKE j \in (i - k)..(i - 1)
    <3>1. j \in 1..(i - 1)
      BY <1>1
    <3> QED BY <1>1, <3>1 DEF IsInto
  <2>2. k = i - 1 \/ t[i - k - 1] = NL
    <3> SUFFICES ASSUME k # i - 1 PROVE t[i - k - 1] = NL
      OBVIOUS
    <3>1. i - k - 1 \in 1..(i - 1)
      BY <1>1
    <3> QED BY <1>1, <3>1 DEF IsInto
  <2> QED BY <1>1, <2>1, <2>2 DEF IsInto
<1>3. IsInto(t, i, Into(t, i))
  BY IntoIs
<1> QED BY <1>2, <1>3, IntoUnique DEF k

(* Byte j starts a row, or ends one. *)
Starts(t, j, n) == t[j] = NL \/ (Into(t, j) > 0 /\ Into(t, j) % n = 0)

(* The number of the row, byte by byte. *)
LEMMA RowNext ==
    ASSUME NEW t, NEW n
    PROVE  /\ RowOf(t, 0, n) = 0
           /\ \A i \in Nat : /\ RowOf(t, i, n) \in Nat
                             /\ RowOf(t, i + 1, n) =
                                    IF Starts(t, i + 1, n) THEN RowOf(t, i, n) + 1 ELSE RowOf(t, i, n)
<1> DEFINE S(i) == {j \in 1..i : Starts(t, j, n)}
<1>1. \A i : RowOf(t, i, n) = Cardinality(S(i))
  BY DEF RowOf, Starts
<1>2. S(0) = {}
  OBVIOUS
<1>3. ASSUME NEW i \in Nat
      PROVE  IsFiniteSet(S(i)) /\ Cardinality(S(i)) \in Nat
  <2>1. IsFiniteSet(1..i) /\ S(i) \in SUBSET (1..i)
    BY FS_Interval
  <2> QED BY <2>1, FS_Subset, FS_CardinalityType
<1>4. ASSUME NEW i \in Nat
      PROVE  S(i + 1) = IF Starts(t, i + 1, n) THEN S(i) \cup {i + 1} ELSE S(i)
  <2>1. 1..(i + 1) = (1..i) \cup {i + 1}
    OBVIOUS
  <2> HIDE DEF Starts
  <2> QED BY <2>1
<1>5. ASSUME NEW i \in Nat
      PROVE  i + 1 \notin S(i)
  OBVIOUS
<1> HIDE DEF S
<1>6. RowOf(t, 0, n) = 0
  BY <1>1, <1>2, FS_EmptySet
<1>7. ASSUME NEW i \in Nat
      PROVE  RowOf(t, i + 1, n) = IF Starts(t, i + 1, n) THEN RowOf(t, i, n) + 1 ELSE RowOf(t, i, n)
  <2>1. Cardinality(S(i) \cup {i + 1}) = Cardinality(S(i)) + 1
    BY <1>3, <1>5, FS_AddElement
  <2> QED BY <1>1, <1>4, <2>1
<1> QED BY <1>1, <1>3, <1>6, <1>7

(* Rows are not numbered backwards. *)
LEMMA RowMono ==
    ASSUME NEW t, NEW n, NEW k \in Nat, NEW i \in 0..k
    PROVE  RowOf(t, i, n) <= RowOf(t, k, n)
<1> DEFINE S(m) == {j \in 1..m : Starts(t, j, n)}
<1>1. \A m : RowOf(t, m, n) = Cardinality(S(m))
  BY DEF RowOf, Starts
<1>2. S(i) \in SUBSET S(k) /\ S(k) \in SUBSET (1..k)
  OBVIOUS
<1> HIDE DEF S
<1>3. IsFiniteSet(S(k))
  BY <1>2, FS_Interval, FS_Subset
<1> QED BY <1>1, <1>2, <1>3, FS_Subset

(* The number of the row depends on the bytes so far. *)
LEMMA RowSame ==
    ASSUME NEW t, NEW u, NEW n, NEW i \in Nat, \A j \in 1..i : t[j] = u[j]
    PROVE  RowOf(t, i, n) = RowOf(u, i, n)
<1>1. ASSUME NEW j \in 1..i
      PROVE  Into(t, j) = Into(u, j)
  <2>1. \A m \in 1..(j - 1) : t[m] = u[m]
    OBVIOUS
  <2> QED BY <2>1, IntoSame
<1>2. {j \in 1..i : t[j] = NL \/ (Into(t, j) > 0 /\ Into(t, j) % n = 0)}
          = {j \in 1..i : u[j] = NL \/ (Into(u, j) > 0 /\ Into(u, j) % n = 0)}
  BY <1>1
<1> QED BY <1>2, Zenon DEF RowOf

(* The column after k bytes: past the last of its row, or 0 after a newline. *)
ColOf(t, k, n) == IF k = 0 \/ t[k] = NL THEN 0 ELSE (Into(t, k) % n) + 1

(* BytesAt, for the first k bytes. *)
Upto(t, k, r, c, n) == {i \in 1..k : t[i] # NL /\ RowOf(t, i, n) = r /\ Into(t, i) % n = c}

(* A column is on the row or just past it. *)
LEMMA ColRange ==
    ASSUME NEW t, NEW k \in Nat, NEW n \in Nat \ {0}
    PROVE  ColOf(t, k, n) \in 0..n
<1>1. CASE k = 0 \/ t[k] = NL
  BY <1>1 DEF ColOf
<1>2. CASE k # 0 /\ t[k] # NL
  <2>1. Into(t, k) \in Nat
    BY <1>2, IntoIs
  <2>2. Into(t, k) % n \in 0..(n - 1)
    BY <2>1, DivProps
  <2> QED BY <1>2, <2>2 DEF ColOf
<1> QED BY <1>1, <1>2

(* Where the next byte goes, if it is no newline. *)
LEMMA NextByte ==
    ASSUME NEW t, NEW k \in Nat, NEW n \in Nat \ {0}, t[k + 1] # NL
    PROVE  IF ColOf(t, k, n) < n
           THEN Into(t, k + 1) % n = ColOf(t, k, n) /\ RowOf(t, k + 1, n) = RowOf(t, k, n)
           ELSE Into(t, k + 1) % n = 0 /\ RowOf(t, k + 1, n) = RowOf(t, k, n) + 1
<1>1. CASE k = 0 \/ t[k] = NL
  <2>1. Into(t, k + 1) = 0
    BY <1>1, IntoNext
  <2>2. 0 % n = 0
    <3>1. (n * 0 + 0) % n = 0
      BY DivUnique
    <3>2. n * 0 + 0 = 0
      OBVIOUS
    <3> QED BY <3>1, <3>2
  <2>3. ~Starts(t, k + 1, n)
    BY <2>1 DEF Starts
  <2>4. ColOf(t, k, n) = 0 /\ 0 < n
    BY <1>1 DEF ColOf
  <2> QED BY <2>1, <2>2, <2>3, <2>4, RowNext
<1>2. CASE k # 0 /\ t[k] # NL
  <2>1. Into(t, k) \in Nat /\ Into(t, k + 1) = Into(t, k) + 1
    BY <1>2, IntoIs, IntoNext
  <2>2. ColOf(t, k, n) = (Into(t, k) % n) + 1 /\ Into(t, k) % n \in 0..(n - 1)
    BY <1>2, <2>1, DivProps DEF ColOf
  <2>3. Into(t, k + 1) % n = IF (Into(t, k) % n) + 1 = n THEN 0 ELSE (Into(t, k) % n) + 1
    BY <2>1, ModNext
  <2>4. Into(t, k + 1) > 0
    BY <2>1
  <2>5. CASE ColOf(t, k, n) < n
    <3>1. Into(t, k + 1) % n = ColOf(t, k, n) /\ Into(t, k + 1) % n # 0
      BY <2>2, <2>3, <2>5
    <3>2. ~Starts(t, k + 1, n)
      BY <3>1 DEF Starts
    <3> QED BY <2>5, <3>1, <3>2, RowNext
  <2>6. CASE ~(ColOf(t, k, n) < n)
    <3>1. Into(t, k + 1) % n = 0
      BY <2>2, <2>3, <2>6
    <3>2. Starts(t, k + 1, n)
      BY <2>4, <3>1 DEF Starts
    <3> QED BY <2>6, <3>1, <3>2, RowNext
  <2> QED BY <2>5, <2>6
<1> QED BY <1>1, <1>2

(* What is on the last row lies before the column. *)
LEMMA BeforeCol ==
    ASSUME NEW t, NEW k \in Nat, NEW n \in Nat \ {0}, NEW i \in 1..k,
           t[i] # NL, RowOf(t, i, n) = RowOf(t, k, n)
    PROVE  Into(t, i) % n < ColOf(t, k, n)
<1> DEFINE Good(m) == \A j \in 1..m :
               t[j] # NL /\ RowOf(t, j, n) = RowOf(t, m, n) => Into(t, j) % n < ColOf(t, m, n)
           Bad == {m \in Nat : ~Good(m)}
<1>1. Bad = {}
  <2> SUFFICES ASSUME Bad # {} PROVE FALSE
    OBVIOUS
  <2>1. PICK m \in Bad : \A j \in Bad : m <= j
    <3>1. Bad \in SUBSET Nat
      OBVIOUS
    <3> HIDE DEF Bad
    <3> QED BY <3>1, LeastNatural
  <2>2. m \in Nat /\ ~Good(m)
    OBVIOUS
  <2>3. m # 0
    BY <2>2
  <2>4. m - 1 \in Nat /\ m - 1 \notin Bad
    <3> HIDE DEF Bad
    <3> QED BY <2>1, <2>2, <2>3
  <2>5. Good(m - 1)
    BY <2>4
  <2>6. PICK j \in 1..m : /\ t[j] # NL /\ RowOf(t, j, n) = RowOf(t, m, n)
                          /\ ~(Into(t, j) % n < ColOf(t, m, n))
    BY <2>2
  <2>7. Into(t, j) \in Nat /\ Into(t, j) % n \in 0..(n - 1)
    <3>1. Into(t, j) \in Nat
      BY IntoIs
    <3> QED BY <3>1, DivProps
  <2>8. j # m
    <3> SUFFICES ASSUME j = m PROVE FALSE
      OBVIOUS
    <3>1. ColOf(t, m, n) = (Into(t, m) % n) + 1
      BY <2>3, <2>6 DEF ColOf
    <3> QED BY <2>6, <2>7, <3>1
  <2>9. j \in 1..(m - 1) /\ m - 1 + 1 = m /\ j \in 0..(m - 1)
    BY <2>2, <2>8
  <2>10. RowOf(t, j, n) <= RowOf(t, m - 1, n) /\ RowOf(t, m - 1, n) \in Nat
    BY <2>4, <2>9, RowMono, RowNext
  <2>11. t[m] # NL
    <3> SUFFICES ASSUME t[m] = NL PROVE FALSE
      OBVIOUS
    <3>1. RowOf(t, m, n) = RowOf(t, m - 1, n) + 1
      <4>1. Starts(t, m, n)
        BY DEF Starts
      <4> QED BY <2>4, <2>9, <4>1, RowNext
    <3> QED BY <2>6, <2>10, <3>1
  <2>12. /\ ColOf(t, m - 1, n) < n /\ RowOf(t, m, n) = RowOf(t, m - 1, n)
         /\ Into(t, m) % n = ColOf(t, m - 1, n)
    <3>1. IF ColOf(t, m - 1, n) < n
          THEN Into(t, m) % n = ColOf(t, m - 1, n) /\ RowOf(t, m, n) = RowOf(t, m - 1, n)
          ELSE Into(t, m) % n = 0 /\ RowOf(t, m, n) = RowOf(t, m - 1, n) + 1
      BY <2>4, <2>9, <2>11, NextByte
    <3> QED BY <2>6, <2>10, <3>1
  <2>13. Into(t, j) % n < ColOf(t, m - 1, n)
    BY <2>5, <2>6, <2>9, <2>12
  <2>14. ColOf(t, m, n) = ColOf(t, m - 1, n) + 1
    BY <2>3, <2>11, <2>12 DEF ColOf
  <2>15. ColOf(t, m - 1, n) \in Nat
    BY <2>4, ColRange
  <2> QED BY <2>6, <2>7, <2>13, <2>14, <2>15
<1> QED BY <1>1

(* No byte belongs behind the cursor. *)
LEMMA NothingBehind ==
    ASSUME NEW t, NEW k \in Nat, NEW n \in Nat \ {0}
    PROVE  /\ \A r, c : r \in Nat /\ r > RowOf(t, k, n) => Upto(t, k, r, c, n) = {}
           /\ Upto(t, k, RowOf(t, k, n), ColOf(t, k, n), n) = {}
<1>1. ASSUME NEW r \in Nat, r > RowOf(t, k, n), NEW c, NEW i \in Upto(t, k, r, c, n)
      PROVE  FALSE
  <2>1. i \in 0..k /\ RowOf(t, i, n) = r
    BY DEF Upto
  <2> QED BY <1>1, <2>1, RowMono, RowNext
<1>2. ASSUME NEW i \in Upto(t, k, RowOf(t, k, n), ColOf(t, k, n), n)
      PROVE  FALSE
  <2>1. i \in 1..k /\ t[i] # NL /\ RowOf(t, i, n) = RowOf(t, k, n) /\ Into(t, i) % n = ColOf(t, k, n)
    BY DEF Upto
  <2>2. Into(t, i) % n < ColOf(t, k, n)
    BY <2>1, BeforeCol
  <2> QED BY <2>1, <2>2, ColRange
<1> QED BY <1>1, <1>2

(* A newline belongs nowhere, and begins a row. *)
LEMMA AddNewline ==
    ASSUME NEW t, NEW k \in Nat, NEW n \in Nat \ {0}, t[k + 1] = NL
    PROVE  /\ RowOf(t, k + 1, n) = RowOf(t, k, n) + 1 /\ ColOf(t, k + 1, n) = 0
           /\ \A r, c : Upto(t, k + 1, r, c, n) = Upto(t, k, r, c, n)
<1>1. Starts(t, k + 1, n)
  BY DEF Starts
<1>2. RowOf(t, k + 1, n) = RowOf(t, k, n) + 1
  BY <1>1, RowNext
<1>3. ColOf(t, k + 1, n) = 0
  BY DEF ColOf
<1>4. ASSUME NEW r, NEW c
      PROVE  Upto(t, k + 1, r, c, n) = Upto(t, k, r, c, n)
  <2>1. 1..(k + 1) = (1..k) \cup {k + 1}
    OBVIOUS
  <2> QED BY <2>1 DEF Upto
<1> QED BY <1>2, <1>3, <1>4

(* Byte k + 1 of t belongs in column col of row `row`, and nothing else      *)
(* does.                                                                     *)
Belongs(t, k, row, col, n) ==
    /\ RowOf(t, k + 1, n) = row /\ ColOf(t, k + 1, n) = col + 1
    /\ col \in 0..(n - 1) /\ row \in Nat
    /\ Upto(t, k, row, col, n) = {} /\ Upto(t, k + 1, row, col, n) = {k + 1}
    /\ \A r, c : r # row \/ c # col => Upto(t, k + 1, r, c, n) = Upto(t, k, r, c, n)

(* Another byte belongs at the cursor, or at the start of the row below if   *)
(* the cursor is past the row.                                               *)
LEMMA AddByte ==
    ASSUME NEW t, NEW k \in Nat, NEW n \in Nat \ {0}, t[k + 1] # NL,
           NEW row, NEW col,
           row = IF ColOf(t, k, n) < n THEN RowOf(t, k, n) ELSE RowOf(t, k, n) + 1,
           col = IF ColOf(t, k, n) < n THEN ColOf(t, k, n) ELSE 0
    PROVE  Belongs(t, k, row, col, n)
<1>1. Into(t, k + 1) % n = col /\ RowOf(t, k + 1, n) = row
  BY NextByte
<1>2. ColOf(t, k, n) \in 0..n /\ RowOf(t, k, n) \in Nat
  BY ColRange, RowNext
<1>3. col \in 0..(n - 1) /\ row \in Nat
  BY <1>2
<1>4. ColOf(t, k + 1, n) = col + 1
  BY <1>1 DEF ColOf
<1>5. Upto(t, k, row, col, n) = {}
  <2>1. CASE ColOf(t, k, n) < n
    BY <2>1, NothingBehind
  <2>2. CASE ~(ColOf(t, k, n) < n)
    <3>1. row \in Nat /\ row > RowOf(t, k, n)
      BY <1>2, <2>2
    <3> QED BY <3>1, NothingBehind
  <2> QED BY <2>1, <2>2
<1>6. ASSUME NEW r, NEW c
      PROVE  Upto(t, k + 1, r, c, n) = Upto(t, k, r, c, n) \cup (IF r = row /\ c = col THEN {k + 1} ELSE {})
  <2>1. 1..(k + 1) = (1..k) \cup {k + 1}
    OBVIOUS
  <2> QED BY <1>1, <2>1 DEF Upto
<1>7. ASSUME NEW r, NEW c, r # row \/ c # col
      PROVE  Upto(t, k + 1, r, c, n) = Upto(t, k, r, c, n)
  BY <1>6, <1>7
<1>8. Upto(t, k + 1, row, col, n) = {k + 1}
  BY <1>5, <1>6
<1> QED BY <1>1, <1>3, <1>4, <1>5, <1>7, <1>8 DEF Belongs

(* A text is shown as any longer text's beginning is. *)
LEMMA Prefix ==
    ASSUME NEW t, NEW u, NEW k \in Nat, NEW n, \A i \in 1..k : t[i] = u[i]
    PROVE  /\ RowOf(t, k, n) = RowOf(u, k, n) /\ ColOf(t, k, n) = ColOf(u, k, n)
           /\ \A r, c : Upto(t, k, r, c, n) = Upto(u, k, r, c, n)
<1>1. ASSUME NEW i \in 1..k
      PROVE  Into(t, i) = Into(u, i) /\ RowOf(t, i, n) = RowOf(u, i, n)
  <2>1. (\A j \in 1..(i - 1) : t[j] = u[j]) /\ (\A j \in 1..i : t[j] = u[j])
    OBVIOUS
  <2> QED BY <2>1, IntoSame, RowSame
<1>2. RowOf(t, k, n) = RowOf(u, k, n)
  BY RowSame
<1>3. ColOf(t, k, n) = ColOf(u, k, n)
  <2>1. CASE k = 0
    BY <2>1 DEF ColOf
  <2>2. CASE k # 0
    <3>1. k \in 1..k
      BY <2>2
    <3> QED BY <1>1, <3>1 DEF ColOf
  <2> QED BY <2>1, <2>2
<1>4. ASSUME NEW r, NEW c
      PROVE  Upto(t, k, r, c, n) = Upto(u, k, r, c, n)
  BY <1>1 DEF Upto
<1> QED BY <1>2, <1>3, <1>4

-----------------------------------------------------------------------------
(* The VGA writer. *)

VgaRows == 0..(VgaHeight - 1)
VgaCols == 0..(VgaWidth - 1)

IsVga(v) ==
    /\ v = [cells |-> v.cells, col |-> v.col, hhdm |-> v.hhdm]
    /\ v.cells = [p \in VgaRows \X VgaCols |-> v.cells[p]]

(* What belongs on row y of the screen in column x, when `last` is the       *)
(* number of the row at the bottom.                                          *)
VgaRight(v, t, k, last, y, x) ==
    LET r  == last - (VgaHeight - 1) + y
        at == Upto(t, k, r, x, VgaWidth)
    IN  IF at = {} THEN v.cells[<<y, x>>] = IF r <= 0 THEN Firmware ELSE Blank
        ELSE \A i \in at : v.cells[<<y, x>>] = VgaShown(t[i])

VgaShows(v, t, k, last) ==
    IsVga(v) /\ \A y \in VgaRows, x \in VgaCols : VgaRight(v, t, k, last, y, x)

(* A writer made of its parts. *)
LEMMA MakeVga ==
    ASSUME NEW cells, cells = [p \in VgaRows \X VgaCols |-> cells[p]], NEW col, NEW hhdm,
           NEW u, u = [cells |-> cells, col |-> col, hhdm |-> hhdm]
    PROVE  IsVga(u) /\ u.cells = cells /\ u.col = col /\ u.hhdm = hhdm
<1>1. u.cells = cells /\ u.col = col /\ u.hhdm = hhdm
  OBVIOUS
<1>2. u = [cells |-> u.cells, col |-> u.col, hhdm |-> u.hhdm]
  BY <1>1
<1>3. u.cells = [p \in VgaRows \X VgaCols |-> u.cells[p]]
  BY <1>1, Zenon
<1> QED BY <1>1, <1>2, <1>3, Zenon DEF IsVga

(* A new line moves every row up. *)
LEMMA VgaNewLineProps ==
    ASSUME NEW v, IsVga(v)
    PROVE  /\ IsVga(VgaNewLine(v)) /\ VgaNewLine(v).col = 0 /\ VgaNewLine(v).hhdm = v.hhdm
           /\ \A y \in VgaRows, x \in VgaCols : VgaNewLine(v).cells[<<y, x>>] =
                  IF y = VgaHeight - 1 THEN Blank ELSE v.cells[<<y + 1, x>>]
<1> DEFINE cells == [p \in VgaRows \X VgaCols |->
                         IF p[1] = VgaHeight - 1 THEN Blank ELSE v.cells[<<p[1] + 1, p[2]>>]]
<1>1. DOMAIN v.cells = VgaRows \X VgaCols
  BY DEF IsVga
<1>2. VgaNewLine(v) = [cells |-> cells, col |-> 0, hhdm |-> v.hhdm]
  <2>1. v = [cells |-> v.cells, col |-> v.col, hhdm |-> v.hhdm]
    BY DEF IsVga
  <2>2. VgaNewLine(v) = [v EXCEPT !.cells = cells, !.col = 0]
    BY <1>1, Zenon DEF VgaNewLine
  <2> HIDE DEF cells
  <2> QED BY <2>1, <2>2
<1>3. ASSUME NEW y \in VgaRows, NEW x \in VgaCols
      PROVE  cells[<<y, x>>] = IF y = VgaHeight - 1 THEN Blank ELSE v.cells[<<y + 1, x>>]
  OBVIOUS
<1>4. cells = [p \in VgaRows \X VgaCols |-> cells[p]]
  OBVIOUS
<1> HIDE DEF cells
<1>5. /\ IsVga(VgaNewLine(v)) /\ VgaNewLine(v).cells = cells /\ VgaNewLine(v).col = 0
      /\ VgaNewLine(v).hhdm = v.hhdm
  BY <1>2, <1>4, MakeVga
<1> QED BY <1>3, <1>5

(* A screen is right after a new line, with an empty row below. *)
LEMMA VgaNewLineShows ==
    ASSUME NEW v, NEW t, NEW k \in Nat, NEW last \in Nat, VgaShows(v, t, k, last),
           \A c : Upto(t, k, last + 1, c, VgaWidth) = {}
    PROVE  VgaShows(VgaNewLine(v), t, k, last + 1)
<1> DEFINE u == VgaNewLine(v)
<1>1. VgaHeight \in Nat \ {0}
  BY ConsoleAssumption
<1>2. /\ IsVga(u)
      /\ \A y \in VgaRows, x \in VgaCols : u.cells[<<y, x>>] =
             IF y = VgaHeight - 1 THEN Blank ELSE v.cells[<<y + 1, x>>]
  BY VgaNewLineProps DEF VgaShows
<1> HIDE DEF u
<1>3. ASSUME NEW y \in VgaRows, NEW x \in VgaCols
      PROVE  VgaRight(u, t, k, last + 1, y, x)
  <2>1. CASE y = VgaHeight - 1
    <3>1. (last + 1) - (VgaHeight - 1) + y = last + 1 /\ ~(last + 1 <= 0)
      BY <1>1, <2>1
    <3>2. u.cells[<<y, x>>] = Blank
      BY <1>2, <2>1
    <3> QED BY <3>1, <3>2 DEF VgaRight
  <2>2. CASE y # VgaHeight - 1
    <3>1. y + 1 \in VgaRows
      BY <1>1, <2>2 DEF VgaRows
    <3>2. (last + 1) - (VgaHeight - 1) + y = last - (VgaHeight - 1) + (y + 1)
      BY <1>1 DEF VgaRows
    <3>3. VgaRight(v, t, k, last, y + 1, x)
      BY <3>1 DEF VgaShows
    <3>4. u.cells[<<y, x>>] = v.cells[<<y + 1, x>>]
      BY <1>2, <2>2
    <3> QED BY <3>2, <3>3, <3>4 DEF VgaRight
  <2> QED BY <2>1, <2>2
<1> QED BY <1>2, <1>3 DEF VgaShows, u

(* The last step of VgaWriteByte. *)
VgaDraw(v, b) == [v EXCEPT !.cells[<<VgaHeight - 1, v.col>>] = b, !.col = @ + 1]

(* One cell is written. *)
LEMMA VgaPut ==
    ASSUME NEW v, IsVga(v), NEW b, v.col \in VgaCols, NEW u, u = VgaDraw(v, b)
    PROVE  /\ IsVga(u) /\ u.col = v.col + 1 /\ u.hhdm = v.hhdm
           /\ \A y \in VgaRows, x \in VgaCols : u.cells[<<y, x>>] =
                  IF y = VgaHeight - 1 /\ x = v.col THEN b ELSE v.cells[<<y, x>>]
<1>1. VgaHeight - 1 \in VgaRows
  BY ConsoleAssumption DEF VgaRows
<1> DEFINE q == <<VgaHeight - 1, v.col>>
           cells == [v.cells EXCEPT ![q] = b]
<1>2. u = [cells |-> cells, col |-> v.col + 1, hhdm |-> v.hhdm]
  <2>1. v = [cells |-> v.cells, col |-> v.col, hhdm |-> v.hhdm]
    BY DEF IsVga
  <2>2. u = [v EXCEPT !.cells = cells, !.col = v.col + 1]
    BY <2>1 DEF VgaDraw
  <2> HIDE DEF cells
  <2> QED BY <2>1, <2>2
<1>3. cells = [p \in VgaRows \X VgaCols |-> cells[p]]
  BY DEF IsVga
<1>4. ASSUME NEW y \in VgaRows, NEW x \in VgaCols
      PROVE  cells[<<y, x>>] = IF y = VgaHeight - 1 /\ x = v.col THEN b ELSE v.cells[<<y, x>>]
  BY <1>1 DEF IsVga
<1> HIDE DEF cells
<1>5. IsVga(u) /\ u.cells = cells /\ u.col = v.col + 1 /\ u.hhdm = v.hhdm
  <2> DEFINE col == v.col + 1
             hhdm == v.hhdm
  <2>1. u = [cells |-> cells, col |-> col, hhdm |-> hhdm]
    BY <1>2
  <2> HIDE DEF col, hhdm
  <2>2. IsVga(u) /\ u.cells = cells /\ u.col = col /\ u.hhdm = hhdm
    BY <1>3, <2>1, MakeVga, SMTT(30)
  <2> QED BY <2>2 DEF col, hhdm
<1> QED BY <1>4, <1>5

(* What VgaShown makes of a byte is a newline only if the byte is one. *)
LEMMA VgaShownNewline ==
    ASSUME NEW b
    PROVE  VgaShown(b) = NL <=> b = NL
<1>1. "0xfe" # NL
  BY DEF NL
<1>2. NL \notin Other
  BY ConsoleAssumption
<1> QED BY <1>1, <1>2 DEF VgaShown

(* The writer is right after k bytes of t: the screen and the column. *)
VgaAfter(v, t, k) ==
    /\ VgaShows(v, t, k, RowOf(t, k, VgaWidth))
    /\ v.col = ColOf(t, k, VgaWidth)

(* One more byte. *)
LEMMA VgaByte ==
    ASSUME NEW v, NEW t, NEW k \in Nat, VgaAfter(v, t, k)
    PROVE  /\ VgaAfter(VgaWriteByte(v, VgaShown(t[k + 1])), t, k + 1)
           /\ VgaWriteByte(v, VgaShown(t[k + 1])).hhdm = v.hhdm
<1> DEFINE b == VgaShown(t[k + 1])
           w == VgaWriteByte(v, b)
           n == VgaWidth
           last == RowOf(t, k, n)
<1>1. n \in Nat \ {0} /\ VgaHeight \in Nat \ {0}
  BY ConsoleAssumption
<1>2. last \in Nat /\ last + 1 \in Nat /\ last + 1 > last /\ VgaShows(v, t, k, last) /\ IsVga(v)
  <2>1. last \in Nat
    BY RowNext
  <2> HIDE DEF last
  <2>2. VgaShows(v, t, k, last) /\ IsVga(v)
    BY DEF VgaAfter, VgaShows, last
  <2> QED BY <2>1, <2>2
<1>3. \A c : Upto(t, k, last + 1, c, n) = {}
  BY <1>1, <1>2, NothingBehind
<1>4. VgaShows(VgaNewLine(v), t, k, last + 1)
  BY <1>2, <1>3, VgaNewLineShows
<1>5. VgaNewLine(v).col = 0 /\ VgaNewLine(v).hhdm = v.hhdm
  BY <1>2, VgaNewLineProps
<1>6. CASE t[k + 1] = NL
  <2>1. b = NL
    BY <1>6, VgaShownNewline
  <2>2. w = VgaNewLine(v)
    BY <2>1 DEF VgaWriteByte
  <2>3. /\ RowOf(t, k + 1, n) = last + 1 /\ ColOf(t, k + 1, n) = 0
        /\ \A r, c : Upto(t, k + 1, r, c, n) = Upto(t, k, r, c, n)
    BY <1>1, <1>6, AddNewline
  <2> HIDE DEF w, last, b
  <2>4. \A y \in VgaRows, x \in VgaCols : VgaRight(w, t, k + 1, last + 1, y, x)
    <3> TAKE y \in VgaRows, x \in VgaCols
    <3>1. VgaRight(w, t, k, last + 1, y, x)
      BY <1>4, <2>2 DEF VgaShows
    <3> QED BY <2>3, <3>1 DEF VgaRight
  <2>5. IsVga(w)
    BY <1>4, <2>2 DEF VgaShows
  <2> QED BY <1>5, <2>2, <2>3, <2>4, <2>5 DEF VgaAfter, VgaShows, w, b
<1>7. CASE t[k + 1] # NL
  <2> DEFINE fits == ColOf(t, k, n) < n
             u == IF v.col >= n THEN VgaNewLine(v) ELSE v
             row == IF fits THEN last ELSE last + 1
             col == IF fits THEN ColOf(t, k, n) ELSE 0
  <2>1. b # NL
    BY <1>7, VgaShownNewline
  <2>2. w = VgaDraw(u, b)
    BY <2>1 DEF VgaWriteByte, VgaDraw
  <2>3. v.col = ColOf(t, k, n) /\ v.col \in 0..n
    BY <1>1, ColRange DEF VgaAfter
  <2>4. VgaShows(u, t, k, row) /\ u.col = col /\ u.hhdm = v.hhdm
    <3>1. CASE fits
      BY <1>1, <1>2, <2>3, <3>1
    <3>2. CASE ~fits
      BY <1>1, <1>4, <1>5, <2>3, <3>2
    <3> QED BY <3>1, <3>2
  <2>5. Belongs(t, k, row, col, n)
    <3>1. /\ row = IF ColOf(t, k, n) < n THEN RowOf(t, k, n) ELSE RowOf(t, k, n) + 1
          /\ col = IF ColOf(t, k, n) < n THEN ColOf(t, k, n) ELSE 0
      OBVIOUS
    <3> HIDE DEF row, col, n
    <3> QED BY <1>1, <1>7, <3>1, AddByte
  <2> USE DEF Belongs
  <2> HIDE DEF u, row, col, w, last, fits
  <2>6. /\ IsVga(w) /\ w.col = col + 1 /\ w.hhdm = v.hhdm
        /\ \A y \in VgaRows, x \in VgaCols : w.cells[<<y, x>>] =
               IF y = VgaHeight - 1 /\ x = col THEN b ELSE u.cells[<<y, x>>]
    <3> HIDE DEF b
    <3>1. IsVga(u) /\ u.col \in VgaCols
      BY <2>4, <2>5 DEF VgaShows, VgaCols
    <3>2. /\ IsVga(w) /\ w.col = u.col + 1 /\ w.hhdm = u.hhdm
          /\ \A y \in VgaRows, x \in VgaCols : w.cells[<<y, x>>] =
                 IF y = VgaHeight - 1 /\ x = u.col THEN b ELSE u.cells[<<y, x>>]
      BY <2>2, <3>1, VgaPut
    <3> QED BY <2>4, <3>2
  <2>7. ASSUME NEW y \in VgaRows, NEW x \in VgaCols
        PROVE  VgaRight(w, t, k + 1, row, y, x)
    <3>1. CASE y = VgaHeight - 1 /\ x = col
      <4>1. row - (VgaHeight - 1) + y = row
        BY <1>1, <2>5, <3>1
      <4>2. w.cells[<<y, x>>] = b
        BY <2>6, <3>1
      <4> QED BY <2>5, <3>1, <4>1, <4>2 DEF VgaRight
    <3>2. CASE ~(y = VgaHeight - 1 /\ x = col)
      <4>1. row - (VgaHeight - 1) + y # row \/ x # col
        BY <1>1, <2>5, <3>2 DEF VgaRows
      <4>2. w.cells[<<y, x>>] = u.cells[<<y, x>>]
        BY <2>6, <3>2
      <4>3. VgaRight(u, t, k, row, y, x)
        BY <2>4 DEF VgaShows
      <4> QED BY <2>5, <4>1, <4>2, <4>3 DEF VgaRight
    <3> QED BY <3>1, <3>2
  <2> QED BY <2>5, <2>6, <2>7 DEF VgaAfter, VgaShows, w
<1> QED BY <1>6, <1>7

(* VgaWriteString is its loop: there is a state after every byte. *)
LEMMA VgaLoop ==
    ASSUME NEW v, NEW s, Len(s) \in Nat
    PROVE  \E g : /\ g[0] = v
                  /\ \A i \in 1..Len(s) : g[i] = VgaWriteByte(g[i - 1], VgaShown(s[i]))
                  /\ VgaWriteString(v, s) = g[Len(s)]
<1> DEFINE N == Len(s)
           One(x, i) == VgaWriteByte(x, VgaShown(s[i]))
           After[i \in 0..N] == IF i = 0 THEN v ELSE VgaWriteByte(After[i - 1], VgaShown(s[i]))
           Is(g, k) == g = [i \in 0..k |-> IF i = 0 THEN v ELSE One(g[i - 1], i)]
           Bad == {k \in Nat : ~\E g : Is(g, k)}
<1>1. VgaWriteString(v, s) = After[N]
  BY Zenon DEF VgaWriteString
<1>2. N \in Nat
  OBVIOUS
<1>3. (\E g : Is(g, N)) => Is(After, N)
  BY Zenon
<1> HIDE DEF After, One, N
<1>4. Bad = {}
  <2> SUFFICES ASSUME Bad # {} PROVE FALSE
    OBVIOUS
  <2>1. PICK k \in Bad : \A j \in Bad : k <= j
    <3>1. Bad \in SUBSET Nat
      OBVIOUS
    <3> HIDE DEF Bad
    <3> QED BY <3>1, LeastNatural
  <2>2. k \in Nat /\ ~\E g : Is(g, k)
    OBVIOUS
  <2>3. k # 0
    <3> DEFINE g == [i \in 0..0 |-> v]
    <3>1. g = [i \in 0..0 |-> IF i = 0 THEN v ELSE One(g[i - 1], i)]
      OBVIOUS
    <3> HIDE DEF g
    <3> QED BY <2>2, <3>1
  <2>4. k - 1 \in Nat /\ k - 1 \notin Bad
    <3> HIDE DEF Bad
    <3> QED BY <2>1, <2>2, <2>3
  <2>5. PICK g : Is(g, k - 1)
    BY <2>4
  <2> DEFINE h == [i \in 0..k |-> IF i = k THEN One(g[k - 1], k) ELSE g[i]]
  <2>6. \A i \in 0..(k - 1) : g[i] = IF i = 0 THEN v ELSE One(g[i - 1], i)
    <3>1. g = [i \in 0..(k - 1) |-> IF i = 0 THEN v ELSE One(g[i - 1], i)]
      BY <2>5
    <3> QED BY <3>1
  <2>7. \A i \in 0..(k - 1) : h[i] = g[i]
    BY <2>2
  <2>8. h[k] = One(g[k - 1], k)
    BY <2>2
  <2>9. \A i \in 0..k : h[i] = IF i = 0 THEN v ELSE One(h[i - 1], i)
    <3> TAKE i \in 0..k
    <3> HIDE DEF h
    <3>1. CASE i = k
      BY <2>2, <2>3, <2>4, <2>7, <2>8, <3>1
    <3>2. CASE i # k
      <4>1. i \in 0..(k - 1) /\ (i # 0 => i - 1 \in 0..(k - 1))
        BY <2>2, <3>2
      <4> QED BY <2>6, <2>7, <4>1
    <3> QED BY <3>1, <3>2
  <2>10. h = [i \in 0..k |-> h[i]]
    OBVIOUS
  <2> HIDE DEF h
  <2>11. h = [i \in 0..k |-> IF i = 0 THEN v ELSE One(h[i - 1], i)]
    BY <2>9, <2>10
  <2> QED BY <2>2, <2>11
<1>5. Is(After, N)
  BY <1>2, <1>3, <1>4
<1>6. After[0] = v
  BY <1>2, <1>5
<1>7. \A i \in 1..N : After[i] = One(After[i - 1], i)
  <2> TAKE i \in 1..N
  <2>1. i \in 0..N /\ i # 0
    BY <1>2
  <2> QED BY <1>5, <2>1
<1> DEFINE u == After
<1>8. /\ u[0] = v
      /\ \A i \in 1..N : u[i] = One(u[i - 1], i)
      /\ VgaWriteString(v, s) = u[N]
  BY <1>1, <1>6, <1>7
<1> HIDE DEF u
<1> QED BY <1>8, Zenon DEF One, N

(* A string is written behind the text that is shown. *)
LEMMA VgaString ==
    ASSUME NEW S, NEW t \in Seq(S), NEW s \in Seq(S), NEW v, VgaAfter(v, t, Len(t))
    PROVE  /\ VgaAfter(VgaWriteString(v, s), t \o s, Len(t \o s))
           /\ VgaWriteString(v, s).hhdm = v.hhdm
<1> DEFINE T == t \o s
           k == Len(t)
           N == Len(s)
<1>1. /\ k \in Nat /\ N \in Nat /\ Len(T) = k + N
      /\ (\A i \in 1..k : t[i] = T[i]) /\ (\A i \in 1..N : T[k + i] = s[i])
  OBVIOUS
<1> HIDE DEF T, k, N
<1>2. VgaAfter(v, T, k)
  <2>1. VgaAfter(v, t, k)
    BY DEF k
  <2>2. /\ RowOf(t, k, VgaWidth) = RowOf(T, k, VgaWidth)
        /\ ColOf(t, k, VgaWidth) = ColOf(T, k, VgaWidth)
        /\ \A r, c : Upto(t, k, r, c, VgaWidth) = Upto(T, k, r, c, VgaWidth)
    BY <1>1, Prefix
  <2>3. VgaShows(v, t, k, RowOf(T, k, VgaWidth)) /\ v.col = ColOf(T, k, VgaWidth)
    BY <2>1, <2>2 DEF VgaAfter
  <2>4. ASSUME NEW y \in VgaRows, NEW x \in VgaCols
        PROVE  VgaRight(v, T, k, RowOf(T, k, VgaWidth), y, x)
    <3> DEFINE r == RowOf(T, k, VgaWidth) - (VgaHeight - 1) + y
    <3>1. VgaRight(v, t, k, RowOf(T, k, VgaWidth), y, x)
      BY <2>3 DEF VgaShows
    <3>2. Upto(t, k, r, x, VgaWidth) = Upto(T, k, r, x, VgaWidth)
      BY <2>2
    <3>3. \A i \in Upto(T, k, r, x, VgaWidth) : t[i] = T[i]
      BY <1>1 DEF Upto
    <3> QED BY <3>1, <3>2, <3>3 DEF VgaRight
  <2> QED BY <2>3, <2>4 DEF VgaAfter, VgaShows
<1>3. PICK g : /\ g[0] = v
               /\ \A i \in 1..N : g[i] = VgaWriteByte(g[i - 1], VgaShown(s[i]))
               /\ VgaWriteString(v, s) = g[N]
  <2>1. Len(s) \in Nat
    OBVIOUS
  <2> QED BY <2>1, VgaLoop DEF N
<1> DEFINE Good(i) == VgaAfter(g[i], T, k + i) /\ g[i].hhdm = v.hhdm
           Bad == {i \in 0..N : ~Good(i)}
<1>4. Bad = {}
  <2> SUFFICES ASSUME Bad # {} PROVE FALSE
    OBVIOUS
  <2>1. PICK i \in Bad : \A j \in Bad : i <= j
    <3>1. Bad \in SUBSET Nat
      BY <1>1
    <3> HIDE DEF Bad
    <3> QED BY <3>1, LeastNatural
  <2>2. i \in 0..N /\ ~Good(i)
    OBVIOUS
  <2>3. i # 0
    <3>1. k + 0 = k
      BY <1>1
    <3> QED BY <1>2, <1>3, <2>2, <3>1
  <2>4. i - 1 \in 0..N /\ i - 1 \notin Bad /\ i \in 1..N
    <3> HIDE DEF Bad
    <3> QED BY <1>1, <2>1, <2>2, <2>3
  <2>5. Good(i - 1)
    BY <2>4
  <2> DEFINE m == k + (i - 1)
  <2>6. m \in Nat /\ m + 1 = k + i
    BY <1>1, <2>4
  <2>7. VgaAfter(g[i - 1], T, m) /\ g[i - 1].hhdm = v.hhdm
    BY <2>5
  <2>8. g[i] = VgaWriteByte(g[i - 1], VgaShown(T[m + 1]))
    BY <1>1, <1>3, <2>4, <2>6
  <2> HIDE DEF m
  <2>9. VgaAfter(g[i], T, m + 1) /\ g[i].hhdm = g[i - 1].hhdm
    <3> DEFINE x == g[i - 1]
    <3>1. VgaAfter(x, T, m)
      BY <2>7
    <3> HIDE DEF x, Bad, Good
    <3>2. /\ VgaAfter(VgaWriteByte(x, VgaShown(T[m + 1])), T, m + 1)
          /\ VgaWriteByte(x, VgaShown(T[m + 1])).hhdm = x.hhdm
      BY <2>6, <3>1, VgaByte
    <3> QED BY <2>8, <3>2 DEF x
  <2> QED BY <2>2, <2>6, <2>7, <2>9
<1>5. Good(N)
  BY <1>1, <1>4
<1> QED BY <1>1, <1>3, <1>5 DEF T

-----------------------------------------------------------------------------
(* The framebuffer's memory.  The pixel at offset o lies in the cell of      *)
(* column CX and row CY, at GX and GY of it.                                 *)

CX(o) == (o % info.pitch) \div CharW
CY(o) == (o \div info.pitch) \div CharH
GX(o) == (o % info.pitch) % CharW
GY(o) == (o \div info.pitch) % CharH

(* The screen has a cell, and the cells fit. *)
LEMMA Geometry ==
    ASSUME info \in Geometries
    PROVE  /\ info.width \in Nat /\ info.height \in Nat /\ info.pitch \in Nat \ {0}
           /\ CharW \in Nat \ {0} /\ CharH \in Nat \ {0}
           /\ Cols \in Nat \ {0} /\ Rows \in Nat \ {0}
           /\ CharW * Cols <= info.pitch /\ CharH * Rows <= info.height
           /\ CharW * Cols \in Nat /\ CharH * Rows \in Nat
<1>1. CharW \in Nat \ {0} /\ CharH \in Nat \ {0}
  BY ConsoleAssumption
<1>2. /\ info.width \in Nat /\ info.height \in Nat /\ info.pitch \in Nat
      /\ CharW <= info.width /\ CharH <= info.height /\ info.width <= info.pitch
  BY ConsoleAssumption
<1>3. info.pitch # 0
  BY <1>1, <1>2
<1>4. ASSUME NEW a \in Nat, NEW b \in Nat \ {0}, b <= a
      PROVE  a \div b \in Nat \ {0} /\ b * (a \div b) <= a /\ b * (a \div b) \in Nat
  <2> DEFINE d == a \div b
             e == a % b
  <2>1. d \in Nat /\ e \in 0..(b - 1) /\ a = b * d + e
    BY DivProps
  <2>2. ~(a < b * 1) => ~(d < 1)
    BY DivProps
  <2> HIDE DEF d, e
  <2>3. d # 0
    BY <1>4, <2>1, <2>2
  <2>4. b * d \in Nat
    BY <2>1
  <2> QED BY <2>1, <2>3, <2>4 DEF d
<1>5. Cols \in Nat \ {0} /\ CharW * Cols <= info.width /\ CharW * Cols \in Nat
  BY <1>1, <1>2, <1>4 DEF Cols
<1>6. Rows \in Nat \ {0} /\ CharH * Rows <= info.height /\ CharH * Rows \in Nat
  BY <1>1, <1>2, <1>4 DEF Rows
<1> QED BY <1>1, <1>2, <1>3, <1>5, <1>6

(* The places of a pixel are numbers in range. *)
LEMMA PlaceTypes ==
    ASSUME info \in Geometries, NEW o \in Nat
    PROVE  /\ o % info.pitch \in 0..(info.pitch - 1) /\ o \div info.pitch \in Nat
           /\ CX(o) \in Nat /\ CY(o) \in Nat
           /\ GX(o) \in 0..(CharW - 1) /\ GY(o) \in 0..(CharH - 1)
           /\ o % info.pitch = CharW * CX(o) + GX(o)
           /\ o \div info.pitch = CharH * CY(o) + GY(o)
           /\ o = info.pitch * (o \div info.pitch) + (o % info.pitch)
<1>1. info.pitch \in Nat \ {0} /\ CharW \in Nat \ {0} /\ CharH \in Nat \ {0}
  BY Geometry
<1> DEFINE x == o % info.pitch
           y == o \div info.pitch
<1>2. x \in 0..(info.pitch - 1) /\ y \in Nat /\ o = info.pitch * y + x
  BY <1>1, DivProps
<1>3. x \in Nat
  BY <1>1, <1>2
<1> HIDE DEF x, y
<1>4. x \div CharW \in Nat /\ x % CharW \in 0..(CharW - 1) /\ x = CharW * (x \div CharW) + (x % CharW)
  BY <1>1, <1>3, DivProps
<1>5. y \div CharH \in Nat /\ y % CharH \in 0..(CharH - 1) /\ y = CharH * (y \div CharH) + (y % CharH)
  BY <1>1, <1>2, DivProps
<1> QED BY <1>2, <1>4, <1>5 DEF x, y, CX, CY, GX, GY

(* The memory is the scanlines of the screen's height. *)
LEMMA MemoryIs ==
    ASSUME info \in Geometries
    PROVE  /\ Memory \in SUBSET Nat
           /\ \A o \in Nat : o \in Memory <=> o \div info.pitch < info.height
           /\ \A o \in Nat : CY(o) < Rows => o \in Memory
<1>1. /\ info.pitch \in Nat \ {0} /\ info.height \in Nat /\ CharH \in Nat \ {0} /\ Rows \in Nat
      /\ CharH * Rows <= info.height /\ CharH * Rows \in Nat
  BY Geometry
<1>2. info.height * info.pitch = info.pitch * info.height /\ info.pitch * info.height \in Nat
  BY <1>1
<1>3. ASSUME NEW o \in Nat
      PROVE  o \in Memory <=> o \div info.pitch < info.height
  <2>1. o < info.pitch * info.height <=> o \div info.pitch < info.height
    BY <1>1, DivProps
  <2>2. o \in Memory <=> o < info.pitch * info.height
    BY <1>2 DEF Memory
  <2> QED BY <2>1, <2>2
<1>4. ASSUME NEW o \in Nat, CY(o) < Rows
      PROVE  o \in Memory
  <2> DEFINE y == o \div info.pitch
  <2>1. y \in Nat
    BY PlaceTypes
  <2>2. y \div CharH < Rows
    BY <1>4 DEF CY
  <2> HIDE DEF y
  <2>3. y < CharH * Rows
    BY <1>1, <2>1, <2>2, DivProps
  <2>4. y < info.height
    BY <1>1, <2>1, <2>3
  <2> QED BY <1>3, <2>4 DEF y
<1>5. Memory \in SUBSET Nat
  BY DEF Memory
<1> QED BY <1>3, <1>4, <1>5

(* The scanlines of a row are the pixels of its cells and their padding. *)
LEMMA RowAtIs ==
    ASSUME info \in Geometries, NEW r \in Nat
    PROVE  \A o \in Int : o \in RowAt(r) <=> o \in Nat /\ CY(o) = r
<1>1. info.pitch \in Nat \ {0} /\ CharH \in Nat \ {0}
  BY Geometry
<1>2. ASSUME NEW q \in Nat, NEW o \in Nat
      PROVE  o < q * CharH * info.pitch <=> CY(o) < q
  <2> DEFINE y == o \div info.pitch
             P == info.pitch
  <2>1. y \in Nat
    BY PlaceTypes
  <2>2. CharH * q \in Nat
    BY <1>1
  <2>3. o < P * (CharH * q) <=> y < CharH * q
    BY <1>1, <2>2, DivProps
  <2>4. q * CharH * P = P * (CharH * q)
    <3>1. P \in Nat
      BY <1>1
    <3> HIDE DEF P
    <3> QED BY <1>1, <3>1
  <2>5. y < CharH * q <=> y \div CharH < q
    <3> HIDE DEF y
    <3> QED BY <1>1, <2>1, DivProps
  <2> QED BY <2>3, <2>4, <2>5 DEF CY
<1>3. r * CharH * info.pitch \in Nat /\ (r + 1) * CharH * info.pitch \in Nat
  BY <1>1
<1>4. ASSUME NEW o \in Nat
      PROVE  o \in RowAt(r) <=> CY(o) = r
  <2>1. o < r * CharH * info.pitch <=> CY(o) < r
    BY <1>2
  <2>2. o < (r + 1) * CharH * info.pitch <=> CY(o) < r + 1
    BY <1>2
  <2>3. CY(o) \in Nat
    BY PlaceTypes
  <2> DEFINE a == r * CharH * info.pitch
             b == (r + 1) * CharH * info.pitch
  <2>4. a \in Nat /\ b \in Nat /\ RowAt(r) = a..(b - 1)
    BY <1>3 DEF RowAt
  <2> HIDE DEF a, b
  <2>5. (o < a <=> CY(o) < r) /\ (o < b <=> CY(o) < r + 1)
    BY <2>1, <2>2 DEF a, b
  <2> QED BY <2>3, <2>4, <2>5
<1>5. RowAt(r) \in SUBSET Nat
  <2> DEFINE a == r * CharH * info.pitch
             b == (r + 1) * CharH * info.pitch
  <2>1. a \in Nat /\ b \in Nat /\ RowAt(r) = a..(b - 1)
    BY <1>3 DEF RowAt
  <2> HIDE DEF a, b
  <2> QED BY <2>1
<1> QED BY <1>4, <1>5

(* The pixel one row below. *)
LEMMA Below ==
    ASSUME info \in Geometries, NEW o \in Nat
    PROVE  LET q == o + CharH * info.pitch
           IN  q \in Nat /\ CX(q) = CX(o) /\ GX(q) = GX(o) /\ CY(q) = CY(o) + 1 /\ GY(q) = GY(o)
<1> DEFINE q == o + CharH * info.pitch
           P == info.pitch
           x == o % P
           y == o \div P
<1>1. P \in Nat \ {0} /\ CharH \in Nat \ {0}
  BY Geometry
<1>2. x \in 0..(P - 1) /\ y \in Nat /\ o = P * y + x
  BY PlaceTypes
<1>3. y = CharH * CY(o) + GY(o) /\ CY(o) \in Nat /\ GY(o) \in 0..(CharH - 1)
  BY PlaceTypes
<1>4. q = o + CharH * P
  OBVIOUS
<1> HIDE DEF q, P, x, y
<1>5. q = P * (y + CharH) + x /\ y + CharH \in Nat
  BY <1>1, <1>2, <1>4
<1>6. q \in Nat
  BY <1>1, <1>4
<1>7. q \div P = y + CharH /\ q % P = x
  BY <1>1, <1>2, <1>5, DivUnique
<1>8. y + CharH = CharH * (CY(o) + 1) + GY(o) /\ CY(o) + 1 \in Nat
  BY <1>1, <1>3
<1>9. (y + CharH) \div CharH = CY(o) + 1 /\ (y + CharH) % CharH = GY(o)
  <2> DEFINE c == CY(o) + 1
             e == GY(o)
  <2>1. c \in Nat /\ e \in 0..(CharH - 1) /\ y + CharH = CharH * c + e
    BY <1>3, <1>8
  <2> HIDE DEF c, e
  <2>2. (CharH * c + e) \div CharH = c /\ (CharH * c + e) % CharH = e
    BY <1>1, <2>1, DivUnique
  <2> QED BY <2>1, <2>2 DEF c, e
<1>10. CX(q) = CX(o) /\ GX(q) = GX(o)
  <2>1. /\ CX(q) = (q % P) \div CharW /\ GX(q) = (q % P) % CharW
        /\ CX(o) = x \div CharW /\ GX(o) = x % CharW
    BY DEF CX, GX, P, x
  <2> QED BY <1>7, <2>1
<1>11. CY(q) = CY(o) + 1 /\ GY(q) = GY(o)
  <2>1. CY(q) = (q \div P) \div CharH /\ GY(q) = (q \div P) % CharH
    BY DEF CY, GY, P
  <2> QED BY <1>7, <1>9, <2>1
<1> QED BY <1>6, <1>10, <1>11 DEF q, P

(* The offsets that draw_char writes. *)
CellAt(col, row) ==
    {Offset(col * CharW + gx, row * CharH + gy) : gx \in 0..(CharW - 1), gy \in 0..(CharH - 1)}

(* They are the pixels of the cell, and where in the cell each is. *)
LEMMA CellIs ==
    ASSUME info \in Geometries, NEW col \in 0..(Cols - 1), NEW row \in Nat
    PROVE  /\ CellAt(col, row) = {o \in Nat : CX(o) = col /\ CY(o) = row}
           /\ \A o \in Nat : CX(o) = col /\ CY(o) = row =>
                  /\ (o % info.pitch) - col * CharW = GX(o)
                  /\ (o \div info.pitch) - row * CharH = GY(o)
<1> DEFINE P == info.pitch
<1>1. /\ P \in Nat \ {0} /\ CharW \in Nat \ {0} /\ CharH \in Nat \ {0} /\ Cols \in Nat
      /\ CharW * Cols <= P
  BY Geometry
<1>2. col \in Nat /\ col + 1 <= Cols
  BY <1>1
<1> HIDE DEF P
<1>3. col * CharW \in Nat /\ row * CharH \in Nat /\ col * CharW + CharW <= P
  <2>1. CharW * (col + 1) <= CharW * Cols
    BY <1>1, <1>2
  <2>2. CharW * (col + 1) = col * CharW + CharW
    BY <1>1, <1>2
  <2>3. col * CharW \in Nat /\ row * CharH \in Nat /\ CharW * Cols \in Nat
    BY <1>1, <1>2
  <2> QED BY <1>1, <2>1, <2>2, <2>3
<1>4. ASSUME NEW gx \in 0..(CharW - 1), NEW gy \in 0..(CharH - 1)
      PROVE  LET o == Offset(col * CharW + gx, row * CharH + gy)
             IN  o \in Nat /\ CX(o) = col /\ CY(o) = row
  <2> DEFINE x == col * CharW + gx
             y == row * CharH + gy
             o == Offset(x, y)
  <2>1. x \in 0..(P - 1) /\ y \in Nat /\ x \in Nat
    BY <1>1, <1>3
  <2>2. x = CharW * col + gx /\ y = CharH * row + gy
    BY <1>1, <1>2
  <2>3. o = y * P + x
    BY DEF Offset, P
  <2> HIDE DEF x, y, o
  <2>4. o = P * y + x /\ o \in Nat
    BY <1>1, <2>1, <2>3
  <2>5. o \div P = y /\ o % P = x
    BY <1>1, <2>1, <2>4, DivUnique
  <2>6. x \div CharW = col /\ y \div CharH = row
    BY <1>1, <1>2, <2>2, DivUnique
  <2>7. CX(o) = (o % P) \div CharW /\ CY(o) = (o \div P) \div CharH
    BY DEF CX, CY, P
  <2>8. o \in Nat /\ CX(o) = col /\ CY(o) = row
    BY <2>4, <2>5, <2>6, <2>7
  <2> QED BY <2>8 DEF x, y, o
<1>5. ASSUME NEW o \in Nat, CX(o) = col, CY(o) = row
      PROVE  /\ o = Offset(col * CharW + GX(o), row * CharH + GY(o))
             /\ (o % P) - col * CharW = GX(o) /\ (o \div P) - row * CharH = GY(o)
             /\ GX(o) \in 0..(CharW - 1) /\ GY(o) \in 0..(CharH - 1)
  <2>1. /\ GX(o) \in 0..(CharW - 1) /\ GY(o) \in 0..(CharH - 1)
        /\ o % P = CharW * col + GX(o) /\ o \div P = CharH * row + GY(o)
        /\ o = P * (o \div P) + (o % P)
    BY <1>5, PlaceTypes DEF P
  <2>2. CharW * col = col * CharW /\ CharH * row = row * CharH
    BY <1>1, <1>2
  <2>3. o % P = col * CharW + GX(o) /\ o \div P = row * CharH + GY(o)
    BY <2>1, <2>2
  <2>4. (o \div P) * P = P * (o \div P)
    <3>1. o \div P \in Nat
      BY PlaceTypes DEF P
    <3> QED BY <1>1, <3>1
  <2>5. o = Offset(col * CharW + GX(o), row * CharH + GY(o))
    BY <2>1, <2>3, <2>4 DEF Offset, P
  <2>6. (o % P) - col * CharW = GX(o) /\ (o \div P) - row * CharH = GY(o)
    <3> DEFINE a == col * CharW
               b == row * CharH
               x == o % P
               y == o \div P
               gx == GX(o)
               gy == GY(o)
    <3>1. a \in Nat /\ b \in Nat /\ gx \in Nat /\ gy \in Nat /\ x = a + gx /\ y = b + gy
      BY <1>1, <1>3, <2>1, <2>3
    <3> HIDE DEF a, b, x, y, gx, gy
    <3>2. x - a = gx /\ y - b = gy
      BY <3>1
    <3> QED BY <3>2 DEF a, b, x, y, gx, gy
  <2> QED BY <2>1, <2>5, <2>6
<1>6. CellAt(col, row) \in SUBSET {o \in Nat : CX(o) = col /\ CY(o) = row}
  BY <1>4 DEF CellAt
<1>7. {o \in Nat : CX(o) = col /\ CY(o) = row} \in SUBSET CellAt(col, row)
  <2> SUFFICES ASSUME NEW o \in Nat, CX(o) = col, CY(o) = row
               PROVE  o \in CellAt(col, row)
    OBVIOUS
  <2> QED BY <1>5 DEF CellAt
<1> QED BY <1>5, <1>6, <1>7 DEF P

(* The writer's record and its memory. *)
IsFb(w) ==
    /\ w = [on |-> w.on, mem |-> w.mem, col |-> w.col, row |-> w.row, wild |-> w.wild]
    /\ w.mem = [o \in Memory |-> w.mem[o]]

(* Two writers that differ in their memory only. *)
SameFb(u, w) == u.on = w.on /\ u.col = w.col /\ u.row = w.row /\ u.wild = w.wild

(* Pixels inside the memory are written and nothing else is. *)
LEMMA PokeProps ==
    ASSUME NEW w, IsFb(w), w.wild \in BOOLEAN, NEW pixels, DOMAIN pixels \in SUBSET Memory
    PROVE  /\ IsFb(Poke(w, pixels)) /\ SameFb(Poke(w, pixels), w)
           /\ \A o \in Memory : Poke(w, pixels).mem[o] =
                  IF o \in DOMAIN pixels THEN pixels[o] ELSE w.mem[o]
<1> DEFINE mem == [o \in Memory |-> IF o \in DOMAIN pixels THEN pixels[o] ELSE w.mem[o]]
           u == Poke(w, pixels)
<1>1. w = [on |-> w.on, mem |-> w.mem, col |-> w.col, row |-> w.row, wild |-> w.wild]
  BY DEF IsFb
<1>2. u = [w EXCEPT !.mem = mem, !.wild = w.wild \/ ~(DOMAIN pixels \subseteq Memory)]
  BY Zenon DEF Poke
<1>3. (w.wild \/ ~(DOMAIN pixels \subseteq Memory)) = w.wild
  BY Zenon
<1>4. u = [w EXCEPT !.mem = mem, !.wild = w.wild]
  BY <1>2, <1>3, Zenon
<1>5. mem = [o \in Memory |-> mem[o]]
  OBVIOUS
<1>6. \A o \in Memory : mem[o] = IF o \in DOMAIN pixels THEN pixels[o] ELSE w.mem[o]
  OBVIOUS
<1> HIDE DEF mem, u
<1>7. u = [on |-> w.on, mem |-> mem, col |-> w.col, row |-> w.row, wild |-> w.wild]
  BY <1>1, <1>4
<1>8. u.mem = mem /\ SameFb(u, w)
  BY <1>7 DEF SameFb
<1>9. IsFb(u)
  <2>1. u = [on |-> u.on, mem |-> u.mem, col |-> u.col, row |-> u.row, wild |-> u.wild]
    BY <1>7, <1>8 DEF SameFb
  <2>2. u.mem = [o \in Memory |-> u.mem[o]]
    BY <1>5, <1>8, Zenon
  <2> QED BY <2>1, <2>2, Zenon DEF IsFb
<1> QED BY <1>6, <1>8, <1>9 DEF u

(* draw_char on the screen: the pixels of one cell. *)
LEMMA DrawCharProps ==
    ASSUME info \in Geometries, NEW w, IsFb(w), w.wild \in BOOLEAN, NEW c,
           w.col \in 0..(Cols - 1), w.row \in 0..(Rows - 1)
    PROVE  /\ IsFb(DrawChar(w, c)) /\ SameFb(DrawChar(w, c), w)
           /\ \A o \in Memory : DrawChar(w, c).mem[o] =
                  IF CX(o) = w.col /\ CY(o) = w.row THEN Glyph(c, GX(o), GY(o)) ELSE w.mem[o]
<1> DEFINE x0 == w.col * CharW
           y0 == w.row * CharH
           cell == CellAt(w.col, w.row)
           pixels == [o \in cell |-> Glyph(c, (o % info.pitch) - x0, (o \div info.pitch) - y0)]
<1>1. DrawChar(w, c) = Poke(w, pixels)
  BY DEF DrawChar, CellAt
<1>2. w.col \in 0..(Cols - 1) /\ w.row \in Nat /\ w.row < Rows
  BY Geometry
<1>3. /\ cell = {o \in Nat : CX(o) = w.col /\ CY(o) = w.row}
      /\ \A o \in Nat : CX(o) = w.col /\ CY(o) = w.row =>
             (o % info.pitch) - x0 = GX(o) /\ (o \div info.pitch) - y0 = GY(o)
  BY <1>2, CellIs
<1>4. DOMAIN pixels = cell
  OBVIOUS
<1>5. cell \in SUBSET Memory
  BY <1>2, <1>3, MemoryIs
<1>6. \A o \in cell : pixels[o] = Glyph(c, GX(o), GY(o))
  <2> TAKE o \in cell
  <2>1. pixels[o] = Glyph(c, (o % info.pitch) - x0, (o \div info.pitch) - y0)
    OBVIOUS
  <2>2. (o % info.pitch) - x0 = GX(o) /\ (o \div info.pitch) - y0 = GY(o)
    BY <1>3
  <2> QED BY <2>1, <2>2, Zenon
<1>7. \A o \in Memory : o \in Nat
  BY MemoryIs
<1> HIDE DEF pixels, cell
<1>8. DOMAIN pixels \in SUBSET Memory
  BY <1>4, <1>5
<1>9. /\ IsFb(Poke(w, pixels)) /\ SameFb(Poke(w, pixels), w)
      /\ \A o \in Memory : Poke(w, pixels).mem[o] =
             IF o \in DOMAIN pixels THEN pixels[o] ELSE w.mem[o]
  BY <1>8, PokeProps
<1>10. ASSUME NEW o \in Memory
       PROVE  DrawChar(w, c).mem[o] =
                  IF CX(o) = w.col /\ CY(o) = w.row THEN Glyph(c, GX(o), GY(o)) ELSE w.mem[o]
  <2>1. o \in cell <=> CX(o) = w.col /\ CY(o) = w.row
    BY <1>3, <1>7
  <2> QED BY <1>1, <1>4, <1>6, <1>9, <2>1
<1> QED BY <1>1, <1>9, <1>10

(* scroll_up on the screen: every row but the last shows the one below. *)
LEMMA ScrollUpProps ==
    ASSUME info \in Geometries, NEW w, IsFb(w), w.wild \in BOOLEAN
    PROVE  /\ IsFb(ScrollUp(w)) /\ SameFb(ScrollUp(w), w)
           /\ \A o \in Memory : ScrollUp(w).mem[o] =
                  IF CY(o) < Rows - 1 THEN w.mem[o + CharH * info.pitch]
                  ELSE IF CY(o) = Rows - 1 THEN Black ELSE w.mem[o]
<1> DEFINE above == UNION {RowAt(r) : r \in 0..(Rows - 2)}
           moved == [o \in above |-> Peek(w, o + CharH * info.pitch)]
           blank == [o \in RowAt(Rows - 1) |-> Black]
           u == Poke(w, moved)
           v == Poke(u, blank)
<1>1. ScrollUp(w) = v
  BY Zenon DEF ScrollUp, ClearRow
<1>2. Rows \in Nat \ {0} /\ Rows - 1 \in Nat
  BY Geometry
<1>3. \A r \in Nat : RowAt(r) \in SUBSET Nat
  <2> TAKE r \in Nat
  <2>1. RowAt(r) \in SUBSET Int
    BY Geometry DEF RowAt
  <2> QED BY <2>1, RowAtIs
<1>4. \A o \in Nat : o \in above <=> CY(o) < Rows - 1
  <2> TAKE o \in Nat
  <2>1. CY(o) \in Nat
    BY PlaceTypes
  <2>2. ASSUME o \in above PROVE CY(o) < Rows - 1
    <3>1. PICK r \in 0..(Rows - 2) : o \in RowAt(r)
      BY <2>2
    <3>2. CY(o) = r
      BY <3>1, RowAtIs
    <3> QED BY <1>2, <3>2
  <2>3. ASSUME CY(o) < Rows - 1 PROVE o \in above
    <3>1. CY(o) \in 0..(Rows - 2)
      BY <1>2, <2>1, <2>3
    <3>2. o \in RowAt(CY(o))
      BY <2>1, RowAtIs
    <3> QED BY <3>1, <3>2
  <2> QED BY <2>2, <2>3
<1>5. above \in SUBSET Nat
  BY <1>3
<1>6. \A o \in Nat : o \in RowAt(Rows - 1) <=> CY(o) = Rows - 1
  BY <1>2, RowAtIs
<1>7. DOMAIN moved = above /\ DOMAIN blank = RowAt(Rows - 1)
  OBVIOUS
<1>8. \A o \in RowAt(Rows - 1) : blank[o] = Black
  BY Zenon
<1>9. ASSUME NEW o \in above
      PROVE  moved[o] = w.mem[o + CharH * info.pitch]
  <2> DEFINE q == o + CharH * info.pitch
  <2>1. o \in Nat /\ CY(o) < Rows - 1 /\ CY(o) \in Nat
    BY <1>4, <1>5, PlaceTypes
  <2>2. q \in Nat /\ CY(q) = CY(o) + 1
    BY <2>1, Below
  <2>3. q \in Memory
    <3>1. CY(q) < Rows
      BY <1>2, <2>1, <2>2
    <3> QED BY <2>2, <3>1, MemoryIs
  <2>4. moved[o] = Peek(w, q)
    OBVIOUS
  <2> QED BY <2>3, <2>4 DEF Peek
<1> HIDE DEF above, moved, blank, u, v
<1>10. /\ IsFb(u) /\ SameFb(u, w)
       /\ \A o \in Memory : u.mem[o] = IF o \in above THEN moved[o] ELSE w.mem[o]
  <2>1. above \in SUBSET Memory
    <3> SUFFICES ASSUME NEW o \in above PROVE o \in Memory
      OBVIOUS
    <3>1. o \in Nat /\ CY(o) < Rows - 1 /\ CY(o) \in Nat
      BY <1>4, <1>5, PlaceTypes
    <3>2. CY(o) < Rows
      BY <1>2, <3>1
    <3> QED BY <3>1, <3>2, MemoryIs
  <2> QED BY <1>7, <2>1, PokeProps DEF u
<1>11. u.wild \in BOOLEAN
  BY <1>10 DEF SameFb
<1>12. /\ IsFb(v) /\ SameFb(v, u)
       /\ \A o \in Memory : v.mem[o] = IF o \in RowAt(Rows - 1) THEN blank[o] ELSE u.mem[o]
  <2>1. RowAt(Rows - 1) \in SUBSET Memory
    <3> SUFFICES ASSUME NEW o \in RowAt(Rows - 1) PROVE o \in Memory
      OBVIOUS
    <3>1. o \in Nat
      BY <1>2, <1>3
    <3>2. CY(o) < Rows
      BY <1>2, <1>6, <3>1
    <3> QED BY <3>1, <3>2, MemoryIs
  <2> QED BY <1>7, <1>10, <1>11, <2>1, PokeProps DEF v
<1>13. ASSUME NEW o \in Memory
       PROVE  v.mem[o] = IF CY(o) < Rows - 1 THEN w.mem[o + CharH * info.pitch]
                         ELSE IF CY(o) = Rows - 1 THEN Black ELSE w.mem[o]
  <2>1. o \in Nat /\ CY(o) \in Nat
    BY MemoryIs, PlaceTypes
  <2>2. CASE CY(o) < Rows - 1
    <3>1. o \in above /\ o \notin RowAt(Rows - 1)
      BY <1>2, <1>4, <1>6, <2>1, <2>2
    <3> QED BY <1>9, <1>10, <1>12, <2>2, <3>1
  <2>3. CASE CY(o) = Rows - 1
    <3>1. o \in RowAt(Rows - 1) /\ ~(CY(o) < Rows - 1)
      BY <1>2, <1>6, <2>1, <2>3
    <3> QED BY <1>8, <1>12, <2>3, <3>1
  <2>4. CASE ~(CY(o) < Rows - 1) /\ CY(o) # Rows - 1
    <3>1. o \notin above /\ o \notin RowAt(Rows - 1)
      BY <1>4, <1>6, <2>1, <2>4
    <3> QED BY <1>10, <1>12, <2>4, <3>1
  <2> QED BY <2>2, <2>3, <2>4
<1>14. SameFb(v, w)
  BY <1>10, <1>12 DEF SameFb
<1> QED BY <1>1, <1>12, <1>13, <1>14

Moved(w, col, row) == [w EXCEPT !.col = col, !.row = row]

(* The cursor is moved. *)
LEMMA MoveCursor ==
    ASSUME NEW w, IsFb(w), NEW col, NEW row, NEW u, u = Moved(w, col, row)
    PROVE  /\ IsFb(u) /\ u.mem = w.mem /\ u.on = w.on /\ u.wild = w.wild
           /\ u.col = col /\ u.row = row
<1>1. w = [on |-> w.on, mem |-> w.mem, col |-> w.col, row |-> w.row, wild |-> w.wild]
  BY DEF IsFb
<1>2. u = [on |-> w.on, mem |-> w.mem, col |-> col, row |-> row, wild |-> w.wild]
  BY <1>1 DEF Moved
<1>3. u.mem = w.mem /\ u.on = w.on /\ u.wild = w.wild /\ u.col = col /\ u.row = row
  BY <1>2
<1>4. u = [on |-> u.on, mem |-> u.mem, col |-> u.col, row |-> u.row, wild |-> u.wild]
  BY <1>2, <1>3
<1>5. u.mem = [o \in Memory |-> u.mem[o]]
  BY <1>3, Zenon DEF IsFb
<1> QED BY <1>3, <1>4, <1>5, Zenon DEF IsFb

-----------------------------------------------------------------------------
(* The framebuffer writer. *)

(* The row of the text at the top of the screen, and the cursor's row on the *)
(* screen, when `last` is the cursor's row in the text.                      *)
Top(last) == IF last < Rows THEN 0 ELSE last - (Rows - 1)
RowOn(last) == IF last < Rows THEN last ELSE Rows - 1

FbRight(w, t, k, top, o) ==
    LET at == IF CX(o) < Cols /\ CY(o) < Rows THEN Upto(t, k, top + CY(o), CX(o), Cols) ELSE {}
    IN  IF at = {} THEN w.mem[o] = Black
        ELSE \A i \in at : w.mem[o] = Glyph(Shown(t[i]), GX(o), GY(o))

FbShows(w, t, k, last) ==
    /\ IsFb(w) /\ w.on /\ w.wild = FALSE /\ w.row = RowOn(last)
    /\ \A o \in Memory : FbRight(w, t, k, Top(last), o)

(* A screen is right after a new line, with an empty row at the cursor. *)
LEMMA NewLineShows ==
    ASSUME info \in Geometries, NEW w, NEW t, NEW k \in Nat, NEW last \in Nat,
           FbShows(w, t, k, last), \A c : Upto(t, k, last + 1, c, Cols) = {}
    PROVE  FbShows(NewLine(w), t, k, last + 1) /\ NewLine(w).col = 0
<1> DEFINE u == NewLine(w)
<1>1. Rows \in Nat \ {0}
  BY Geometry
<1>2. IsFb(w) /\ w.on /\ w.wild = FALSE /\ w.row = RowOn(last)
  BY DEF FbShows
<1>3. CASE last + 1 < Rows
  <2>1. /\ Top(last) = 0 /\ Top(last + 1) = 0 /\ RowOn(last) = last /\ RowOn(last + 1) = last + 1
        /\ ~(w.row + 1 >= Rows)
    BY <1>1, <1>2, <1>3 DEF Top, RowOn
  <2>2. u = Moved(w, 0, last + 1)
    BY <1>2, <2>1 DEF NewLine, Moved
  <2> HIDE DEF u
  <2>3. /\ IsFb(u) /\ u.mem = w.mem /\ u.on = w.on /\ u.wild = w.wild
        /\ u.col = 0 /\ u.row = last + 1
    <3> DEFINE row == last + 1
    <3>1. u = Moved(w, 0, row)
      BY <2>2
    <3> HIDE DEF row
    <3>2. /\ IsFb(u) /\ u.mem = w.mem /\ u.on = w.on /\ u.wild = w.wild
          /\ u.col = 0 /\ u.row = row
      <4>1. IsFb(w)
        BY <1>2
      <4> QED BY <3>1, <4>1, MoveCursor
    <3> QED BY <3>2 DEF row
  <2>4. ASSUME NEW o \in Memory
        PROVE  FbRight(u, t, k, 0, o)
    <3>1. FbRight(w, t, k, 0, o)
      BY <2>1 DEF FbShows
    <3> QED BY <2>3, <3>1 DEF FbRight
  <2>5. FbShows(u, t, k, last + 1)
    BY <1>2, <2>1, <2>3, <2>4 DEF FbShows
  <2> QED BY <2>3, <2>5 DEF u
<1>4. CASE ~(last + 1 < Rows)
  <2> DEFINE v == ScrollUp(w)
             top == Top(last)
  <2>1. /\ top \in Nat /\ Top(last + 1) = top + 1 /\ RowOn(last) = Rows - 1
        /\ RowOn(last + 1) = Rows - 1 /\ w.row + 1 >= Rows /\ top + (Rows - 1) = last
    BY <1>1, <1>2, <1>4 DEF Top, RowOn
  <2>2. u = Moved(v, 0, Rows - 1)
    BY <2>1 DEF NewLine, Moved
  <2>3. /\ IsFb(v) /\ SameFb(v, w)
        /\ \A o \in Memory : v.mem[o] =
               IF CY(o) < Rows - 1 THEN w.mem[o + CharH * info.pitch]
               ELSE IF CY(o) = Rows - 1 THEN Black ELSE w.mem[o]
    <3>1. w.wild \in BOOLEAN
      BY <1>2
    <3> QED BY <1>2, <3>1, ScrollUpProps
  <2> HIDE DEF u, v, top
  <2>4. /\ IsFb(u) /\ u.mem = v.mem /\ u.on = w.on /\ u.wild = w.wild
        /\ u.col = 0 /\ u.row = Rows - 1
    <3> DEFINE row == Rows - 1
    <3>1. u = Moved(v, 0, row)
      BY <2>2
    <3> HIDE DEF row
    <3>2. /\ IsFb(u) /\ u.mem = v.mem /\ u.on = v.on /\ u.wild = v.wild
          /\ u.col = 0 /\ u.row = row
      BY <2>3, <3>1, MoveCursor
    <3> QED BY <2>3, <3>2 DEF row, SameFb
  <2>5. ASSUME NEW o \in Memory
        PROVE  FbRight(u, t, k, top + 1, o)
    <3>1. o \in Nat /\ CY(o) \in Nat
      BY MemoryIs, PlaceTypes
    <3>2. FbRight(w, t, k, top, o)
      BY DEF FbShows, top
    <3>3. CASE CY(o) < Rows - 1
      <4> DEFINE q == o + CharH * info.pitch
      <4>1. q \in Nat /\ CX(q) = CX(o) /\ GX(q) = GX(o) /\ CY(q) = CY(o) + 1 /\ GY(q) = GY(o)
        BY <3>1, Below
      <4>2. u.mem[o] = w.mem[q]
        BY <2>3, <2>4, <3>3
      <4> HIDE DEF q
      <4>3. CY(q) < Rows /\ CY(o) < Rows /\ top + CY(q) = (top + 1) + CY(o)
        BY <1>1, <2>1, <3>1, <3>3, <4>1
      <4>4. q \in Memory
        BY <4>1, <4>3, MemoryIs
      <4>5. FbRight(w, t, k, top, q)
        BY <4>4 DEF FbShows, top
      <4> QED BY <4>1, <4>2, <4>3, <4>5 DEF FbRight
    <3>4. CASE CY(o) = Rows - 1
      <4>1. u.mem[o] = Black
        BY <1>1, <2>3, <2>4, <3>4
      <4>2. (top + 1) + CY(o) = last + 1
        BY <1>1, <2>1, <3>4
      <4>3. Upto(t, k, (top + 1) + CY(o), CX(o), Cols) = {}
        BY <4>2
      <4> QED BY <4>1, <4>3 DEF FbRight
    <3>5. CASE ~(CY(o) < Rows - 1) /\ CY(o) # Rows - 1
      <4>1. u.mem[o] = w.mem[o]
        BY <2>3, <2>4, <3>5
      <4>2. ~(CY(o) < Rows)
        BY <1>1, <3>1, <3>5
      <4> QED BY <3>2, <4>1, <4>2 DEF FbRight
    <3> QED BY <3>3, <3>4, <3>5
  <2>6. FbShows(u, t, k, last + 1)
    BY <1>2, <2>1, <2>4, <2>5 DEF FbShows
  <2> QED BY <2>4, <2>6 DEF u
<1> QED BY <1>3, <1>4

(* What Shown makes of a byte is a newline only if the byte is one. *)
LEMMA ShownNewline ==
    ASSUME NEW b
    PROVE  Shown(b) = NL <=> b = NL
<1>1. "?" # NL
  BY DEF NL
<1>2. NL \notin Other
  BY ConsoleAssumption
<1> QED BY <1>1, <1>2 DEF Shown

(* The last step of WriteByte. *)
Drawn(v, b) == [DrawChar(v, b) EXCEPT !.col = @ + 1]

(* A character at the cursor, which then is behind it. *)
LEMMA PutChar ==
    ASSUME info \in Geometries, NEW v, IsFb(v), v.wild \in BOOLEAN, NEW b,
           v.col \in 0..(Cols - 1), v.row \in 0..(Rows - 1),
           NEW u, u = Drawn(v, b)
    PROVE  /\ IsFb(u) /\ u.on = v.on /\ u.wild = v.wild /\ u.col = v.col + 1 /\ u.row = v.row
           /\ \A o \in Memory : u.mem[o] =
                  IF CX(o) = v.col /\ CY(o) = v.row THEN Glyph(b, GX(o), GY(o)) ELSE v.mem[o]
<1> DEFINE d == DrawChar(v, b)
           col == v.col + 1
           row == v.row
<1>1. /\ IsFb(d) /\ SameFb(d, v)
      /\ \A o \in Memory : d.mem[o] =
             IF CX(o) = v.col /\ CY(o) = v.row THEN Glyph(b, GX(o), GY(o)) ELSE v.mem[o]
  BY DrawCharProps
<1>2. u = [d EXCEPT !.col = d.col + 1]
  BY DEF Drawn
<1> HIDE DEF d
<1>3. u = Moved(d, col, row)
  <2>1. d = [on |-> d.on, mem |-> d.mem, col |-> d.col, row |-> d.row, wild |-> d.wild]
    BY <1>1 DEF IsFb
  <2>2. d.col = v.col /\ d.row = v.row
    BY <1>1 DEF SameFb
  <2> QED BY <1>2, <2>1, <2>2 DEF Moved
<1> HIDE DEF col, row
<1>4. /\ IsFb(u) /\ u.mem = d.mem /\ u.on = d.on /\ u.wild = d.wild
      /\ u.col = col /\ u.row = row
  <2>1. IsFb(d)
    BY <1>1
  <2> QED BY <1>3, <2>1, MoveCursor
<1> QED BY <1>1, <1>4 DEF SameFb, col, row

(* The writer is right after k bytes of t: the screen and the cursor. *)
FbAfter(w, t, k) ==
    /\ FbShows(w, t, k, RowOf(t, k, Cols))
    /\ w.col = ColOf(t, k, Cols)

(* One more byte. *)
LEMMA FbByte ==
    ASSUME info \in Geometries, NEW w, NEW t, NEW k \in Nat, FbAfter(w, t, k)
    PROVE  FbAfter(WriteByte(w, Shown(t[k + 1])), t, k + 1)
<1> DEFINE b == Shown(t[k + 1])
           g == WriteByte(w, b)
           n == Cols
           last == RowOf(t, k, n)
<1>1. n \in Nat \ {0} /\ Rows \in Nat \ {0}
  BY Geometry
<1>2. last \in Nat /\ last + 1 \in Nat /\ last + 1 > last /\ FbShows(w, t, k, last)
  <2>1. last \in Nat
    BY RowNext
  <2> HIDE DEF last
  <2>2. FbShows(w, t, k, last)
    BY DEF FbAfter, last
  <2> QED BY <2>1, <2>2
<1>3. \A c : Upto(t, k, last + 1, c, n) = {}
  BY <1>1, <1>2, NothingBehind
<1>4. FbShows(NewLine(w), t, k, last + 1) /\ NewLine(w).col = 0
  BY <1>2, <1>3, NewLineShows
<1>5. CASE t[k + 1] = NL
  <2>1. b = NL
    BY <1>5, ShownNewline
  <2>2. g = NewLine(w)
    BY <2>1 DEF WriteByte
  <2>3. /\ RowOf(t, k + 1, n) = last + 1 /\ ColOf(t, k + 1, n) = 0
        /\ \A r, c : Upto(t, k + 1, r, c, n) = Upto(t, k, r, c, n)
    BY <1>1, <1>5, AddNewline
  <2> HIDE DEF g, last, b
  <2>4. \A o \in Memory : FbRight(g, t, k + 1, Top(last + 1), o)
    <3> TAKE o \in Memory
    <3>1. FbRight(g, t, k, Top(last + 1), o)
      BY <1>4, <2>2 DEF FbShows
    <3> QED BY <2>3, <3>1 DEF FbRight
  <2>5. FbShows(g, t, k + 1, last + 1)
    BY <1>4, <2>2, <2>4 DEF FbShows
  <2> QED BY <1>4, <2>2, <2>3, <2>5 DEF FbAfter, g, b
<1>6. CASE t[k + 1] # NL
  <2> DEFINE fits == ColOf(t, k, n) < n
             v == IF w.col >= n THEN NewLine(w) ELSE w
             row == IF fits THEN last ELSE last + 1
             col == IF fits THEN ColOf(t, k, n) ELSE 0
  <2>1. b # NL
    BY <1>6, ShownNewline
  <2>2. g = Drawn(v, b)
    BY <2>1 DEF WriteByte, Drawn
  <2>3. w.col = ColOf(t, k, n) /\ w.col \in 0..n
    BY <1>1, ColRange DEF FbAfter
  <2>4. FbShows(v, t, k, row) /\ v.col = col
    <3>1. CASE fits
      BY <1>1, <1>2, <2>3, <3>1
    <3>2. CASE ~fits
      BY <1>1, <1>4, <2>3, <3>2
    <3> QED BY <3>1, <3>2
  <2>5. Belongs(t, k, row, col, n)
    <3>1. /\ row = IF ColOf(t, k, n) < n THEN RowOf(t, k, n) ELSE RowOf(t, k, n) + 1
          /\ col = IF ColOf(t, k, n) < n THEN ColOf(t, k, n) ELSE 0
      OBVIOUS
    <3> HIDE DEF row, col, n
    <3> QED BY <1>1, <1>6, <3>1, AddByte
  <2> HIDE DEF v, row, col, g, last, fits
  <2>6. IsFb(v) /\ v.on /\ v.wild = FALSE /\ v.row = RowOn(row) /\ v.col = col
    BY <2>4 DEF FbShows
  <2>7. /\ row \in Nat /\ col \in 0..(Cols - 1) /\ RowOn(row) \in 0..(Rows - 1)
        /\ Top(row) \in Nat /\ Top(row) + RowOn(row) = row /\ RowOn(row) \in Nat
    BY <1>1, <2>5 DEF Belongs, RowOn, Top
  <2>8. /\ IsFb(g) /\ g.on = v.on /\ g.wild = v.wild /\ g.col = v.col + 1 /\ g.row = v.row
        /\ \A o \in Memory : g.mem[o] =
               IF CX(o) = v.col /\ CY(o) = v.row THEN Glyph(b, GX(o), GY(o)) ELSE v.mem[o]
    <3> HIDE DEF b
    <3>1. v.wild \in BOOLEAN /\ v.col \in 0..(Cols - 1) /\ v.row \in 0..(Rows - 1)
      BY <2>6, <2>7
    <3>2. IsFb(v)
      BY <2>6
    <3> QED BY <2>2, <3>1, <3>2, PutChar
  <2>9. ASSUME NEW o \in Memory
        PROVE  FbRight(g, t, k + 1, Top(row), o)
    <3>1. o \in Nat /\ CY(o) \in Nat
      BY MemoryIs, PlaceTypes
    <3>2. CASE CX(o) = col /\ CY(o) = RowOn(row)
      <4>1. Top(row) + CY(o) = row /\ CX(o) < Cols /\ CY(o) < Rows
        BY <1>1, <2>7, <3>2
      <4>2. g.mem[o] = Glyph(b, GX(o), GY(o))
        BY <2>6, <2>8, <3>2
      <4>3. Upto(t, k + 1, Top(row) + CY(o), CX(o), Cols) = {k + 1}
        BY <2>5, <3>2, <4>1 DEF Belongs
      <4> QED BY <4>1, <4>2, <4>3 DEF FbRight
    <3>3. CASE ~(CX(o) = col /\ CY(o) = RowOn(row))
      <4>1. Top(row) + CY(o) # row \/ CX(o) # col
        <5>1. CASE CX(o) # col
          BY <5>1
        <5>2. CASE CY(o) # RowOn(row)
          BY <2>7, <3>1, <5>2
        <5> QED BY <3>3, <5>1, <5>2
      <4>2. g.mem[o] = v.mem[o]
        BY <2>6, <2>8, <3>3
      <4>3. FbRight(v, t, k, Top(row), o)
        BY <2>4 DEF FbShows
      <4>4. Upto(t, k + 1, Top(row) + CY(o), CX(o), Cols) = Upto(t, k, Top(row) + CY(o), CX(o), Cols)
        BY <2>5, <4>1 DEF Belongs
      <4> QED BY <4>2, <4>3, <4>4 DEF FbRight
    <3> QED BY <3>2, <3>3
  <2>10. FbShows(g, t, k + 1, row)
    BY <2>6, <2>8, <2>9 DEF FbShows
  <2>11. RowOf(t, k + 1, Cols) = row /\ ColOf(t, k + 1, Cols) = col + 1
    BY <2>5 DEF Belongs
  <2> QED BY <2>6, <2>8, <2>10, <2>11 DEF FbAfter, g
<1> QED BY <1>5, <1>6

(* WriteStr is its loop. *)
LEMMA FbLoop ==
    ASSUME NEW v, NEW s, Len(s) \in Nat
    PROVE  \E g : /\ g[0] = v
                  /\ \A i \in 1..Len(s) : g[i] = WriteByte(g[i - 1], Shown(s[i]))
                  /\ WriteStr(v, s) = g[Len(s)]
<1> DEFINE N == Len(s)
           One(x, i) == WriteByte(x, Shown(s[i]))
           After[i \in 0..N] == IF i = 0 THEN v ELSE WriteByte(After[i - 1], Shown(s[i]))
           Is(g, k) == g = [i \in 0..k |-> IF i = 0 THEN v ELSE One(g[i - 1], i)]
           Bad == {k \in Nat : ~\E g : Is(g, k)}
<1>1. WriteStr(v, s) = After[N]
  BY Zenon DEF WriteStr
<1>2. N \in Nat
  OBVIOUS
<1>3. (\E g : Is(g, N)) => Is(After, N)
  BY Zenon
<1> HIDE DEF After, One, N
<1>4. Bad = {}
  <2> SUFFICES ASSUME Bad # {} PROVE FALSE
    OBVIOUS
  <2>1. PICK k \in Bad : \A j \in Bad : k <= j
    <3>1. Bad \in SUBSET Nat
      OBVIOUS
    <3> HIDE DEF Bad
    <3> QED BY <3>1, LeastNatural
  <2>2. k \in Nat /\ ~\E g : Is(g, k)
    OBVIOUS
  <2>3. k # 0
    <3> DEFINE g == [i \in 0..0 |-> v]
    <3>1. g = [i \in 0..0 |-> IF i = 0 THEN v ELSE One(g[i - 1], i)]
      OBVIOUS
    <3> HIDE DEF g
    <3> QED BY <2>2, <3>1
  <2>4. k - 1 \in Nat /\ k - 1 \notin Bad
    <3> HIDE DEF Bad
    <3> QED BY <2>1, <2>2, <2>3
  <2>5. PICK g : Is(g, k - 1)
    BY <2>4
  <2> DEFINE h == [i \in 0..k |-> IF i = k THEN One(g[k - 1], k) ELSE g[i]]
  <2>6. \A i \in 0..(k - 1) : g[i] = IF i = 0 THEN v ELSE One(g[i - 1], i)
    <3>1. g = [i \in 0..(k - 1) |-> IF i = 0 THEN v ELSE One(g[i - 1], i)]
      BY <2>5
    <3> QED BY <3>1
  <2>7. \A i \in 0..(k - 1) : h[i] = g[i]
    BY <2>2
  <2>8. h[k] = One(g[k - 1], k)
    BY <2>2
  <2>9. \A i \in 0..k : h[i] = IF i = 0 THEN v ELSE One(h[i - 1], i)
    <3> TAKE i \in 0..k
    <3> HIDE DEF h
    <3>1. CASE i = k
      BY <2>2, <2>3, <2>4, <2>7, <2>8, <3>1
    <3>2. CASE i # k
      <4>1. i \in 0..(k - 1) /\ (i # 0 => i - 1 \in 0..(k - 1))
        BY <2>2, <3>2
      <4> QED BY <2>6, <2>7, <4>1
    <3> QED BY <3>1, <3>2
  <2>10. h = [i \in 0..k |-> h[i]]
    OBVIOUS
  <2> HIDE DEF h
  <2>11. h = [i \in 0..k |-> IF i = 0 THEN v ELSE One(h[i - 1], i)]
    BY <2>9, <2>10
  <2> QED BY <2>2, <2>11
<1>5. Is(After, N)
  BY <1>2, <1>3, <1>4
<1>6. After[0] = v
  BY <1>2, <1>5
<1>7. \A i \in 1..N : After[i] = One(After[i - 1], i)
  <2> TAKE i \in 1..N
  <2>1. i \in 0..N /\ i # 0
    BY <1>2
  <2> QED BY <1>5, <2>1
<1> DEFINE u == After
<1>8. /\ u[0] = v
      /\ \A i \in 1..N : u[i] = One(u[i - 1], i)
      /\ WriteStr(v, s) = u[N]
  BY <1>1, <1>6, <1>7
<1> HIDE DEF u
<1> QED BY <1>8, Zenon DEF One, N

(* A string is written behind the text that is shown. *)
LEMMA FbString ==
    ASSUME info \in Geometries,
           NEW S, NEW t \in Seq(S), NEW s \in Seq(S), NEW w, FbAfter(w, t, Len(t))
    PROVE  FbAfter(WriteStr(w, s), t \o s, Len(t \o s))
<1> DEFINE T == t \o s
           k == Len(t)
           N == Len(s)
<1>1. /\ k \in Nat /\ N \in Nat /\ Len(T) = k + N
      /\ (\A i \in 1..k : t[i] = T[i]) /\ (\A i \in 1..N : T[k + i] = s[i])
  OBVIOUS
<1> HIDE DEF T, k, N
<1>2. FbAfter(w, T, k)
  <2> DEFINE last == RowOf(T, k, Cols)
  <2>1. FbAfter(w, t, k)
    BY DEF k
  <2>2. /\ RowOf(t, k, Cols) = last
        /\ ColOf(t, k, Cols) = ColOf(T, k, Cols)
        /\ \A r, c : Upto(t, k, r, c, Cols) = Upto(T, k, r, c, Cols)
    BY <1>1, Prefix
  <2> HIDE DEF last
  <2>3. FbShows(w, t, k, last) /\ w.col = ColOf(T, k, Cols)
    BY <2>1, <2>2 DEF FbAfter
  <2>4. ASSUME NEW o \in Memory
        PROVE  FbRight(w, T, k, Top(last), o)
    <3> DEFINE r == Top(last) + CY(o)
               x == CX(o)
    <3>1. FbRight(w, t, k, Top(last), o)
      BY <2>3 DEF FbShows
    <3>2. Upto(t, k, r, x, Cols) = Upto(T, k, r, x, Cols)
      BY <2>2
    <3>3. \A i \in Upto(T, k, r, x, Cols) : t[i] = T[i]
      BY <1>1 DEF Upto
    <3> QED BY <3>1, <3>2, <3>3 DEF FbRight
  <2>5. FbShows(w, T, k, last)
    BY <2>3, <2>4 DEF FbShows
  <2> QED BY <2>3, <2>5 DEF FbAfter, last
<1>3. PICK g : /\ g[0] = w
               /\ \A i \in 1..N : g[i] = WriteByte(g[i - 1], Shown(s[i]))
               /\ WriteStr(w, s) = g[N]
  <2>1. Len(s) \in Nat
    OBVIOUS
  <2> QED BY <2>1, FbLoop DEF N
<1> DEFINE Bad == {i \in 0..N : ~FbAfter(g[i], T, k + i)}
<1>4. Bad = {}
  <2> SUFFICES ASSUME Bad # {} PROVE FALSE
    OBVIOUS
  <2>1. PICK i \in Bad : \A j \in Bad : i <= j
    <3>1. Bad \in SUBSET Nat
      BY <1>1
    <3> HIDE DEF Bad
    <3> QED BY <3>1, LeastNatural
  <2>2. i \in 0..N /\ ~FbAfter(g[i], T, k + i)
    OBVIOUS
  <2>3. i # 0
    <3>1. k + 0 = k
      BY <1>1
    <3> QED BY <1>2, <1>3, <2>2, <3>1
  <2>4. i - 1 \in 0..N /\ i - 1 \notin Bad /\ i \in 1..N
    <3> HIDE DEF Bad
    <3> QED BY <1>1, <2>1, <2>2, <2>3
  <2> DEFINE m == k + (i - 1)
             x == g[i - 1]
  <2>5. m \in Nat /\ m + 1 = k + i
    BY <1>1, <2>4
  <2>6. FbAfter(x, T, m)
    BY <2>4
  <2>7. g[i] = WriteByte(x, Shown(T[m + 1]))
    BY <1>1, <1>3, <2>4, <2>5
  <2> HIDE DEF m, x, Bad
  <2>8. FbAfter(WriteByte(x, Shown(T[m + 1])), T, m + 1)
    BY <2>5, <2>6, FbByte
  <2> QED BY <2>2, <2>5, <2>7, <2>8
<1>5. FbAfter(g[N], T, k + N)
  BY <1>1, <1>4
<1> QED BY <1>1, <1>3, <1>5 DEF T

-----------------------------------------------------------------------------
(* The inductive invariant. *)

Alphabet == Printable \cup Other \cup {NL}

(* The writer before init_from_info, or for good if that finds no use for    *)
(* the framebuffer.                                                          *)
Off == [on |-> FALSE, mem |-> <<>>, col |-> 0, row |-> 0, wild |-> FALSE]

(* Both screens are right and both cursors are where the texts end. *)
ConsoleInv ==
    /\ info \in Geometries /\ text \in Seq(Alphabet) /\ vtext \in Seq(Alphabet)
    /\ \/ fb = Off /\ text = <<>>
       \/ started /\ FbAfter(fb, text, Len(text))
    /\ VgaAfter(vga, vtext, Len(vtext))

(* Nothing is shown before the first byte. *)
LEMMA NothingYet ==
    ASSUME NEW t, NEW n
    PROVE  /\ RowOf(t, 0, n) = 0 /\ ColOf(t, 0, n) = 0
           /\ \A r, c : Upto(t, 0, r, c, n) = {}
<1>1. RowOf(t, 0, n) = 0
  BY RowNext
<1>2. ColOf(t, 0, n) = 0
  BY DEF ColOf
<1>3. \A r, c : Upto(t, 0, r, c, n) = {}
  <2> TAKE r, c
  <2>1. 1..0 = {}
    OBVIOUS
  <2> QED BY <2>1 DEF Upto
<1> QED BY <1>1, <1>2, <1>3

(* The VGA buffer as the firmware left it. *)
LEMMA VgaStart ==
    ASSUME NEW v, v = [cells |-> [p \in VgaRows \X VgaCols |-> Firmware], col |-> 0, hhdm |-> FALSE]
    PROVE  VgaAfter(v, <<>>, 0)
<1> DEFINE cells == [p \in VgaRows \X VgaCols |-> Firmware]
<1>1. cells = [p \in VgaRows \X VgaCols |-> cells[p]]
  OBVIOUS
<1>2. \A y \in VgaRows, x \in VgaCols : cells[<<y, x>>] = Firmware
  OBVIOUS
<1>3. v = [cells |-> cells, col |-> 0, hhdm |-> FALSE]
  OBVIOUS
<1> HIDE DEF cells
<1>4. IsVga(v) /\ v.cells = cells /\ v.col = 0
  BY <1>1, <1>3, MakeVga
<1>5. /\ RowOf(<<>>, 0, VgaWidth) = 0 /\ ColOf(<<>>, 0, VgaWidth) = 0
      /\ \A r, c : Upto(<<>>, 0, r, c, VgaWidth) = {}
  BY NothingYet
<1>6. ASSUME NEW y \in VgaRows, NEW x \in VgaCols
      PROVE  VgaRight(v, <<>>, 0, 0, y, x)
  <2>1. 0 - (VgaHeight - 1) + y <= 0
    BY ConsoleAssumption DEF VgaRows
  <2>2. v.cells[<<y, x>>] = Firmware
    BY <1>2, <1>4
  <2> QED BY <1>5, <2>1, <2>2 DEF VgaRight
<1> QED BY <1>4, <1>5, <1>6 DEF VgaAfter, VgaShows

(* The framebuffer after init_from_info is black. *)
LEMMA FbStart ==
    ASSUME info \in Geometries, NEW w,
           w = [on |-> TRUE, mem |-> [o \in Memory |-> Black], col |-> 0, row |-> 0, wild |-> FALSE]
    PROVE  FbAfter(w, <<>>, 0)
<1> DEFINE mem == [o \in Memory |-> Black]
<1>1. mem = [o \in Memory |-> mem[o]] /\ \A o \in Memory : mem[o] = Black
  OBVIOUS
<1>2. w = [on |-> TRUE, mem |-> mem, col |-> 0, row |-> 0, wild |-> FALSE]
  OBVIOUS
<1> HIDE DEF mem
<1>3. w.on = TRUE /\ w.mem = mem /\ w.col = 0 /\ w.row = 0 /\ w.wild = FALSE
  BY <1>2
<1>4. IsFb(w)
  <2>1. w = [on |-> w.on, mem |-> w.mem, col |-> w.col, row |-> w.row, wild |-> w.wild]
    BY <1>2, <1>3
  <2>2. w.mem = [o \in Memory |-> w.mem[o]]
    BY <1>1, <1>3, Zenon
  <2> QED BY <2>1, <2>2, Zenon DEF IsFb
<1>5. /\ RowOf(<<>>, 0, Cols) = 0 /\ ColOf(<<>>, 0, Cols) = 0
      /\ \A r, c : Upto(<<>>, 0, r, c, Cols) = {}
  BY NothingYet
<1>6. ASSUME NEW o \in Memory
      PROVE  FbRight(w, <<>>, 0, Top(0), o)
  BY <1>1, <1>3, <1>5 DEF FbRight
<1>7. RowOn(0) = 0
  BY Geometry DEF RowOn
<1>8. FbShows(w, <<>>, 0, 0)
  BY <1>3, <1>4, <1>6, <1>7 DEF FbShows
<1> QED BY <1>3, <1>5, <1>8 DEF FbAfter

(* The framebuffer that Limine has set up stays the same. *)
LEMMA InfoKept ==
    ASSUME info' = info, FbAfter(fb', text', Len(text'))
    PROVE  FbAfter(fb, text, Len(text))'
BY DEF FbAfter, FbShows, IsFb, FbRight, Top, RowOn, Memory, Cols, Rows, CX, CY, GX, GY

(* The invariant holds initially. *)
LEMMA ConsoleInit == Init => ConsoleInv
<1> SUFFICES ASSUME Init PROVE ConsoleInv
  OBVIOUS
<1>1. info \in Geometries /\ text = <<>> /\ vtext = <<>> /\ fb = Off
  BY DEF Init, Off
<1>2. vga = [cells |-> [p \in VgaRows \X VgaCols |-> Firmware], col |-> 0, hhdm |-> FALSE]
  BY DEF Init, VgaRows, VgaCols
<1>3. VgaAfter(vga, <<>>, 0)
  BY <1>2, VgaStart
<1>4. <<>> \in Seq(Alphabet) /\ Len(<<>>) = 0
  OBVIOUS
<1> QED BY <1>1, <1>3, <1>4 DEF ConsoleInv

(* Every step keeps the invariant. *)
LEMMA ConsoleNext == ConsoleInv /\ [Next]_vars => ConsoleInv'
<1> SUFFICES ASSUME ConsoleInv, [Next]_vars PROVE ConsoleInv'
  OBVIOUS
<1>1. /\ info \in Geometries /\ text \in Seq(Alphabet) /\ vtext \in Seq(Alphabet)
      /\ (fb = Off /\ text = <<>>) \/ (started /\ FbAfter(fb, text, Len(text)))
      /\ VgaAfter(vga, vtext, Len(vtext))
  BY DEF ConsoleInv
<1>2. Strings \in SUBSET Seq(Alphabet)
  BY ConsoleAssumption DEF Alphabet
<1>3. ASSUME info' = info, text' \in Seq(Alphabet), vtext' \in Seq(Alphabet),
             (fb' = Off /\ text' = <<>>) \/ (started' /\ FbAfter(fb', text', Len(text'))),
             VgaAfter(vga', vtext', Len(vtext'))
      PROVE  ConsoleInv'
  <2>1. (fb = Off /\ text = <<>>)' \/ (started /\ FbAfter(fb, text, Len(text)))'
    <3>1. CASE fb' = Off /\ text' = <<>>
      BY <3>1 DEF Off
    <3>2. CASE started' /\ FbAfter(fb', text', Len(text'))
      <4>1. FbAfter(fb, text, Len(text))'
        BY <1>3, <3>2, InfoKept
      <4> QED BY <3>2, <4>1
    <3> QED BY <1>3, <3>1, <3>2
  <2>2. VgaAfter(vga, vtext, Len(vtext))'
    BY <1>3 DEF VgaAfter, VgaShows, IsVga, VgaRight
  <2>3. info' \in Geometries
    BY <1>1, <1>3
  <2> QED BY <1>3, <2>1, <2>2, <2>3 DEF ConsoleInv
<1>4. CASE InitFromInfo
  <2>1. /\ ~started /\ started' /\ info' = info /\ text' = text /\ vga' = vga /\ vtext' = vtext
        /\ fb = Off /\ text = <<>>
    BY <1>1, <1>4 DEF InitFromInfo
  <2>2. CASE info.bpp # 32
    <3>1. fb' = fb
      BY <1>4, <2>2 DEF InitFromInfo
    <3> QED BY <1>1, <1>3, <2>1, <3>1
  <2>3. CASE info.bpp = 32
    <3> DEFINE mem == [o \in Memory |-> Black]
    <3>1. fb' = [fb EXCEPT !.on = TRUE, !.mem = mem]
      BY <1>4, <2>3 DEF InitFromInfo
    <3> HIDE DEF mem
    <3>2. fb' = [on |-> TRUE, mem |-> mem, col |-> 0, row |-> 0, wild |-> FALSE]
      BY <2>1, <3>1 DEF Off
    <3>3. FbAfter(fb', <<>>, 0)
      BY <1>1, <3>2, FbStart DEF mem
    <3>4. text' = <<>> /\ Len(text') = 0
      BY <2>1
    <3>5. FbAfter(fb', text', Len(text'))
      BY <3>3, <3>4
    <3> QED BY <1>1, <1>3, <2>1, <3>5
  <2> QED BY <2>2, <2>3
<1>5. CASE VgaInit
  <2>1. info' = info /\ text' = text /\ fb' = fb /\ vtext' = vtext /\ started' = started
    BY <1>5 DEF VgaInit
  <2>2. vga' = [vga EXCEPT !.hhdm = TRUE]
    BY <1>5 DEF VgaInit
  <2>3. IsVga(vga)
    BY <1>1 DEF VgaAfter, VgaShows
  <2>4. vga' = [cells |-> vga.cells, col |-> vga.col, hhdm |-> TRUE]
    BY <2>2, <2>3 DEF IsVga
  <2>5. IsVga(vga') /\ vga'.cells = vga.cells /\ vga'.col = vga.col
    <3>1. vga.cells = [p \in VgaRows \X VgaCols |-> vga.cells[p]]
      BY <2>3 DEF IsVga
    <3> DEFINE cells == vga.cells
               col == vga.col
    <3>2. vga' = [cells |-> cells, col |-> col, hhdm |-> TRUE]
      BY <2>4
    <3>3. cells = [p \in VgaRows \X VgaCols |-> cells[p]]
      BY <3>1
    <3> HIDE DEF cells, col
    <3>4. IsVga(vga') /\ vga'.cells = cells /\ vga'.col = col
      BY <3>2, <3>3, MakeVga
    <3> QED BY <3>4 DEF cells, col
  <2>6. VgaAfter(vga', vtext, Len(vtext))
    BY <1>1, <2>5 DEF VgaAfter, VgaShows, VgaRight
  <2> QED BY <1>1, <1>3, <2>1, <2>6
<1>6. ASSUME NEW s \in Strings, FbPrint(s)
      PROVE  ConsoleInv'
  <2>1. info' = info /\ vga' = vga /\ vtext' = vtext /\ started' = started
    BY <1>6 DEF FbPrint
  <2>2. CASE ~fb.on
    <3>1. fb' = fb /\ text' = text
      BY <1>6, <2>2 DEF FbPrint
    <3> QED BY <1>1, <1>3, <2>1, <3>1
  <2>3. CASE fb.on
    <3>1. fb' = WriteStr(fb, s) /\ text' = text \o s
      BY <1>6, <2>3 DEF FbPrint
    <3>2. started /\ FbAfter(fb, text, Len(text))
      BY <1>1, <2>3 DEF Off
    <3>3. s \in Seq(Alphabet)
      BY <1>2
    <3>4. FbAfter(WriteStr(fb, s), text \o s, Len(text \o s))
      BY <1>1, <3>2, <3>3, FbString
    <3>5. text \o s \in Seq(Alphabet)
      BY <1>1, <3>3
    <3>6. FbAfter(fb', text', Len(text'))
      BY <3>1, <3>4
    <3> QED BY <1>1, <1>3, <2>1, <3>1, <3>2, <3>5, <3>6
  <2> QED BY <2>2, <2>3
<1>7. ASSUME NEW s \in Strings, VgaWrite(s)
      PROVE  ConsoleInv'
  <2>1. info' = info /\ fb' = fb /\ text' = text /\ started' = started
    BY <1>7 DEF VgaWrite
  <2>2. CASE ~vga.hhdm
    <3>1. vga' = vga /\ vtext' = vtext
      BY <1>7, <2>2 DEF VgaWrite
    <3> QED BY <1>1, <1>3, <2>1, <3>1
  <2>3. CASE vga.hhdm
    <3>1. vga' = VgaWriteString(vga, s) /\ vtext' = vtext \o s
      BY <1>7, <2>3 DEF VgaWrite
    <3>2. s \in Seq(Alphabet)
      BY <1>2
    <3>3. VgaAfter(VgaWriteString(vga, s), vtext \o s, Len(vtext \o s))
      BY <1>1, <3>2, VgaString
    <3>4. vtext \o s \in Seq(Alphabet)
      BY <1>1, <3>2
    <3>5. VgaAfter(vga', vtext', Len(vtext'))
      BY <3>1, <3>3
    <3> QED BY <1>1, <1>3, <2>1, <3>1, <3>4, <3>5
  <2> QED BY <2>2, <2>3
<1>8. CASE UNCHANGED vars
  <2>1. /\ info' = info /\ started' = started /\ fb' = fb /\ text' = text
        /\ vga' = vga /\ vtext' = vtext
    BY <1>8 DEF vars
  <2> QED BY <1>1, <1>3, <2>1
<1> QED BY <1>4, <1>5, <1>6, <1>7, <1>8 DEF Next, Full

(* The console's invariant: whatever is printed, in strings of any length    *)
(* and before or after init_from_info and vga_buffer::init, both screens     *)
(* and both cursors are where a definition without a cursor puts them.       *)
THEOREM ConsoleInvariant == Spec => []ConsoleInv
<1>1. Init => ConsoleInv
  BY ConsoleInit
<1>2. ConsoleInv /\ [Next]_vars => ConsoleInv'
  BY ConsoleNext
<1> QED BY <1>1, <1>2, PTL DEF Spec

(* FbWriter never writes past the framebuffer's memory, neither with         *)
(* draw_char nor when it scrolls and clears, on any framebuffer that holds a *)
(* cell.                                                                     *)
THEOREM ConsoleNoWildWrites == Spec => []NoWildWrites
<1>1. ConsoleInv => NoWildWrites
  <2> SUFFICES ASSUME ConsoleInv PROVE ~fb.wild
    BY DEF NoWildWrites
  <2>1. CASE fb = Off
    BY <2>1 DEF Off
  <2>2. CASE FbAfter(fb, text, Len(text))
    BY <2>2 DEF FbAfter, FbShows
  <2> QED BY <2>1, <2>2 DEF ConsoleInv
<1> QED BY <1>1, ConsoleInvariant, PTL

(* The framebuffer shows the end of the text that print! was given, wrapped  *)
(* and scrolled, and is black everywhere else.                               *)
THEOREM ConsoleFbShows == Spec => []FbShowsText
<1>1. ConsoleInv => FbShowsText
  <2> SUFFICES ASSUME ConsoleInv, fb.on PROVE FbShowsText
    BY DEF FbShowsText
  <2> DEFINE k == Len(text)
             last == RowOf(text, k, Cols)
             top == IF last < Rows THEN 0 ELSE last - (Rows - 1)
             Right(o, x, y) ==
                 LET at == IF x < Cols * CharW /\ y < Rows * CharH
                           THEN BytesAt(text, top + (y \div CharH), x \div CharW, Cols) ELSE {}
                 IN  IF at = {} THEN fb.mem[o] = Black
                     ELSE \A i \in at : fb.mem[o] = Glyph(Shown(text[i]), x % CharW, y % CharH)
  <2>1. info \in Geometries /\ text \in Seq(Alphabet) /\ FbAfter(fb, text, k)
    BY DEF ConsoleInv, Off
  <2>2. top = Top(last)
    BY DEF Top
  <2>3. \A o \in Memory : FbRight(fb, text, k, Top(last), o)
    BY <2>1 DEF FbAfter, FbShows
  <2>4. /\ CharW \in Nat \ {0} /\ CharH \in Nat \ {0} /\ Cols \in Nat /\ Rows \in Nat
        /\ Cols * CharW = CharW * Cols /\ Rows * CharH = CharH * Rows
    BY <2>1, Geometry
  <2>5. \A r, c : BytesAt(text, r, c, Cols) = Upto(text, k, r, c, Cols)
    BY DEF BytesAt, Upto
  <2> HIDE DEF top, last, k
  <2>6. ASSUME NEW o \in Memory
        PROVE  Right(o, o % info.pitch, o \div info.pitch)
    <3> DEFINE x == o % info.pitch
               y == o \div info.pitch
    <3>1. o \in Nat /\ x \in Nat /\ y \in Nat
      <4>1. o \in Nat
        BY <2>1, MemoryIs
      <4>2. o % info.pitch \in 0..(info.pitch - 1) /\ o \div info.pitch \in Nat
        BY <2>1, <4>1, PlaceTypes
      <4>3. info.pitch \in Nat \ {0}
        BY <2>1, Geometry
      <4> QED BY <4>1, <4>2, <4>3
    <3>2. CX(o) = x \div CharW /\ CY(o) = y \div CharH /\ GX(o) = x % CharW /\ GY(o) = y % CharH
      BY DEF CX, CY, GX, GY
    <3> HIDE DEF x, y
    <3>3. (x < Cols * CharW <=> CX(o) < Cols) /\ (y < Rows * CharH <=> CY(o) < Rows)
      <4>1. x < CharW * Cols <=> x \div CharW < Cols
        BY <2>4, <3>1, DivProps
      <4>2. y < CharH * Rows <=> y \div CharH < Rows
        BY <2>4, <3>1, DivProps
      <4> QED BY <2>4, <3>2, <4>1, <4>2
    <3>4. FbRight(fb, text, k, top, o)
      BY <2>2, <2>3
    <3> DEFINE at == IF CX(o) < Cols /\ CY(o) < Rows THEN Upto(text, k, top + CY(o), CX(o), Cols)
                     ELSE {}
    <3>5. at = IF x < Cols * CharW /\ y < Rows * CharH
               THEN BytesAt(text, top + (y \div CharH), x \div CharW, Cols) ELSE {}
      <4>1. BytesAt(text, top + (y \div CharH), x \div CharW, Cols)
                = Upto(text, k, top + CY(o), CX(o), Cols)
        BY <2>5, <3>2
      <4> QED BY <3>3, <4>1
    <3>6. IF at = {} THEN fb.mem[o] = Black
          ELSE \A i \in at : fb.mem[o] = Glyph(Shown(text[i]), x % CharW, y % CharH)
      BY <3>2, <3>4 DEF FbRight
    <3> HIDE DEF at
    <3>7. Right(o, x, y)
      BY <3>5, <3>6
    <3> HIDE DEF Right
    <3> QED BY <3>7 DEF x, y
  <2> QED BY <2>6 DEF FbShowsText, top, last, k
<1> QED BY <1>1, ConsoleInvariant, PTL

(* The VGA buffer shows the end of the text that Writer was given, and above *)
(* it what the firmware had left.                                            *)
THEOREM ConsoleVgaShows == Spec => []VgaShowsText
<1>1. ConsoleInv => VgaShowsText
  <2> SUFFICES ASSUME ConsoleInv PROVE VgaShowsText
    OBVIOUS
  <2> DEFINE k == Len(vtext)
             last == RowOf(vtext, k, VgaWidth)
  <2>1. VgaShows(vga, vtext, k, last)
    BY DEF ConsoleInv, VgaAfter
  <2>2. \A r, c : BytesAt(vtext, r, c, VgaWidth) = Upto(vtext, k, r, c, VgaWidth)
    BY DEF BytesAt, Upto
  <2>3. DOMAIN vga.cells = VgaRows \X VgaCols
    BY <2>1 DEF VgaShows, IsVga
  <2> HIDE DEF last, k
  <2>4. ASSUME NEW p \in DOMAIN vga.cells
        PROVE  LET r  == last - (VgaHeight - 1) + p[1]
                   at == BytesAt(vtext, r, p[2], VgaWidth)
               IN  IF at = {} THEN vga.cells[p] = IF r <= 0 THEN Firmware ELSE Blank
                   ELSE \A i \in at : vga.cells[p] = VgaShown(vtext[i])
    <3>1. p = <<p[1], p[2]>> /\ p[1] \in VgaRows /\ p[2] \in VgaCols
      BY <2>3
    <3>2. VgaRight(vga, vtext, k, last, p[1], p[2])
      BY <2>1, <3>1 DEF VgaShows
    <3>3. vga.cells[<<p[1], p[2]>>] = vga.cells[p]
      BY <3>1
    <3> QED BY <2>2, <3>2, <3>3 DEF VgaRight
  <2> QED BY <2>4 DEF VgaShowsText, last, k
<1> QED BY <1>1, ConsoleInvariant, PTL

=============================================================================

---------------------------- MODULE BuddyProofs ----------------------------
(***************************************************************************)
(* The buddy allocator for every number of orders, every memory size and   *)
(* every sequence of calls.  Its own records first: no page is in two      *)
(* places, no page is lost, each bitmap bit says that exactly one buddy is *)
(* free, and a merge only ever unlinks a block that is on the list.  Then  *)
(* what it promises its callers: free buddies stay apart only where two    *)
(* regions meet, the statistics are exact, a panic on a bitmap index means *)
(* that a region is too far up, and the allocator implements               *)
(* PageAllocator.                                                          *)
(***************************************************************************)
EXTENDS Buddy, FiniteSetTheorems, WellFoundedInduction, TLAPS

-----------------------------------------------------------------------------
(* The lists: what push, pop and unlink do to the set of elements.         *)

(* Pushing a node adds it to the elements and keeps the list duplicate-free. *)
LEMMA PushFrontProps ==
    ASSUME NEW S, NEW s \in Seq(S), NEW x \in S
    PROVE  /\ PushFront(s, x) \in Seq(S)
           /\ Elems(PushFront(s, x)) = Elems(s) \cup {x}
           /\ NoDup(s) /\ x \notin Elems(s) => NoDup(PushFront(s, x))
<1> DEFINE t == PushFront(s, x)
<1>1. /\ t \in Seq(S) /\ Len(t) = Len(s) + 1 /\ t[1] = x
      /\ \A i \in 1..Len(s) : t[i + 1] = s[i]
  BY DEF PushFront
<1>2. \A i \in 2..Len(t) : i - 1 \in 1..Len(s) /\ t[i] = s[i - 1]
  BY <1>1
<1>3. Elems(t) = Elems(s) \cup {x}
  <2>1. ASSUME NEW y \in Elems(t) PROVE y \in Elems(s) \cup {x}
    BY <1>1, <1>2, <2>1 DEF Elems
  <2>2. ASSUME NEW y \in Elems(s) PROVE y \in Elems(t)
    <3>1. PICK i \in 1..Len(s) : y = s[i]
      BY DEF Elems
    <3>2. i + 1 \in DOMAIN t /\ t[i + 1] = y
      BY <1>1, <3>1
    <3> QED BY <3>2 DEF Elems
  <2>3. x \in Elems(t)
    BY <1>1 DEF Elems
  <2> QED BY <2>1, <2>2, <2>3
<1>4. ASSUME NoDup(s), x \notin Elems(s) PROVE NoDup(t)
  BY <1>1, <1>2, <1>4, SMTT(30) DEF NoDup, Elems
<1> QED BY <1>1, <1>3, <1>4

(* Popping the head of a duplicate-free list removes exactly that node. *)
LEMMA PopFrontProps ==
    ASSUME NEW S, NEW s \in Seq(S), s # <<>>
    PROVE  /\ Head(s) \in S /\ Head(s) \in Elems(s)
           /\ PopFront(s) \in Seq(S)
           /\ NoDup(s) => /\ NoDup(PopFront(s))
                          /\ Elems(PopFront(s)) = Elems(s) \ {Head(s)}
<1> DEFINE t == PopFront(s)
<1>1. /\ t \in Seq(S) /\ Len(s) \in Nat /\ Len(s) > 0 /\ Len(t) = Len(s) - 1
      /\ Head(s) = s[1]
      /\ \A i \in 1..Len(t) : t[i] = s[i + 1]
  BY DEF PopFront
<1>2. Head(s) \in S /\ Head(s) \in Elems(s)
  BY <1>1 DEF Elems
<1>3. ASSUME NoDup(s) PROVE NoDup(t) /\ Elems(t) = Elems(s) \ {Head(s)}
  <2>1. NoDup(t)
    <3>1. SUFFICES ASSUME NEW i \in 1..Len(t), NEW j \in 1..Len(t), t[i] = t[j]
                   PROVE  i = j
      BY <1>1 DEF NoDup
    <3>2. i + 1 \in DOMAIN s /\ j + 1 \in DOMAIN s /\ s[i + 1] = s[j + 1]
      BY <1>1, <3>1
    <3>3. i + 1 = j + 1
      BY <1>3, <3>2 DEF NoDup
    <3> QED BY <3>3
  <2>2. ASSUME NEW y \in Elems(t) PROVE y \in Elems(s) \ {Head(s)}
    BY <1>1, <1>3 DEF NoDup, Elems
  <2>3. ASSUME NEW y \in Elems(s) \ {Head(s)} PROVE y \in Elems(t)
    <3>1. PICK i \in 1..Len(s) : y = s[i]
      BY DEF Elems
    <3>2. i - 1 \in 1..Len(t) /\ t[i - 1] = y
      BY <1>1, <3>1
    <3> QED BY <3>2, <1>1 DEF Elems
  <2> QED BY <2>1, <2>2, <2>3
<1> QED BY <1>1, <1>2, <1>3

(* Unlinking a node of a duplicate-free list removes exactly that node. *)
LEMMA UnlinkProps ==
    ASSUME NEW S, NEW s \in Seq(S), NEW x \in Elems(s)
    PROVE  /\ Unlink(s, x) \in Seq(S)
           /\ NoDup(s) => /\ NoDup(Unlink(s, x))
                          /\ Elems(Unlink(s, x)) = Elems(s) \ {x}
<1> DEFINE t == Unlink(s, x)
           d == CHOOSE i \in DOMAIN s : s[i] = x
<1>1. d \in 1..Len(s) /\ s[d] = x
  BY DEF Elems
<1>2. Len(s) \in Nat /\ Len(s) > 0
  BY <1>1
<1>3. t = [j \in 1..(Len(s) - 1) |-> IF j < d THEN s[j] ELSE s[j + 1]]
  BY DEF Unlink
<1> HIDE DEF d
<1>4. \A j \in 1..(Len(s) - 1) : t[j] = IF j < d THEN s[j] ELSE s[j + 1]
  BY <1>3
<1>5. t \in Seq(S) /\ Len(t) = Len(s) - 1
  <2>1. \A j \in 1..(Len(s) - 1) : (IF j < d THEN s[j] ELSE s[j + 1]) \in S
    BY <1>1, <1>2
  <2> QED BY <1>2, <1>3, <2>1
<1> HIDE DEF t
<1>6. ASSUME NoDup(s) PROVE NoDup(t) /\ Elems(t) = Elems(s) \ {x}
  <2>1. NoDup(t)
    BY <1>1, <1>2, <1>4, <1>5, <1>6, SMTT(30) DEF NoDup
  <2>2. ASSUME NEW y \in Elems(t) PROVE y \in Elems(s) \ {x}
    <3>1. PICK j \in 1..(Len(s) - 1) : y = t[j]
      BY <1>5 DEF Elems
    <3>2. PICK i \in 1..Len(s) : i # d /\ y = s[i]
      <4>1. CASE j < d
        BY <1>1, <1>2, <1>4, <3>1, <4>1
      <4>2. CASE ~(j < d)
        BY <1>1, <1>2, <1>4, <3>1, <4>2
      <4> QED BY <4>1, <4>2
    <3>3. y # x
      BY <1>1, <1>6, <3>2 DEF NoDup
    <3> QED BY <3>2, <3>3 DEF Elems
  <2>3. ASSUME NEW y \in Elems(s) \ {x} PROVE y \in Elems(t)
    <3>1. PICK i \in 1..Len(s) : y = s[i]
      BY DEF Elems
    <3>2. CASE i < d
      <4>1. i \in 1..Len(t) /\ t[i] = y
        BY <1>1, <1>2, <1>4, <1>5, <3>1, <3>2
      <4> QED BY <4>1, <1>5 DEF Elems
    <3>3. CASE i > d
      <4>1. i - 1 \in 1..Len(t) /\ t[i - 1] = y
        BY <1>1, <1>2, <1>4, <1>5, <3>1, <3>3
      <4> QED BY <4>1, <1>5 DEF Elems
    <3> QED BY <1>1, <3>1, <3>2, <3>3
  <2> QED BY <2>1, <2>2, <2>3
<1> QED BY <1>5, <1>6 DEF t

-----------------------------------------------------------------------------
(* Arithmetic of aligned blocks.                                           *)

(* Shifting by one more place halves the result. *)
LEMMA ShiftOnce ==
    ASSUME NEW p \in Nat, NEW n \in Nat \ {0}
    PROVE  p \div (2 * n) = (p \div n) \div 2
  OBVIOUS

(* The table of powers of two, one order at a time. *)
LEMMA Pow2Facts ==
    ASSUME NEW k \in Orders
    PROVE  /\ k \in 0..MaxOrder /\ k + 1 \in 0..MaxOrder
           /\ Pow2[k] \in Nat \ {0} /\ Pow2[k + 1] \in Nat \ {0}
           /\ Pow2[k + 1] = 2 * Pow2[k]
  BY MaxOrderAssumption, Pow2Assumption DEF Orders

(* An aligned page index is the block size times the block's number. *)
LEMMA AlignedIsMultiple ==
    ASSUME NEW n \in Nat \ {0}, NEW p \in Nat
    PROVE  /\ p \div n \in Nat
           /\ p % n = 0 <=> p = n * (p \div n)
  OBVIOUS

(* The converse: a multiple of the block size is aligned to it. *)
LEMMA MultipleIsAligned ==
    ASSUME NEW n \in Nat \ {0}, NEW i \in Nat
    PROVE  n * i \in Nat /\ (n * i) \div n = i /\ (n * i) % n = 0
  OBVIOUS

(* The buddy of an aligned block is another aligned block of the same pair, *)
(* the two are each other's buddies, and the pair has no third member.      *)
LEMMA BuddyFacts ==
    ASSUME NEW k \in Orders, NEW p \in Nat, AlignedTo(p, k)
    PROVE  /\ BuddyOf(p, k) \in Nat
           /\ BuddyOf(p, k) # p
           /\ AlignedTo(BuddyOf(p, k), k)
           /\ PairBit(BuddyOf(p, k), k) = PairBit(p, k)
           /\ BuddyOf(BuddyOf(p, k), k) = p
           /\ PairBit(p, k) \in Nat
           /\ \A q \in Nat : AlignedTo(q, k) /\ PairBit(q, k) = PairBit(p, k)
                                => q = p \/ q = BuddyOf(p, k)
<1> DEFINE n == Pow2[k]
           i == p \div n
           j == IF i % 2 = 0 THEN i + 1 ELSE i - 1
<1>1. n \in Nat \ {0} /\ Pow2[k + 1] = 2 * n
  BY Pow2Facts
<1>2. \A q \in Nat : PairBit(q, k) = (q \div n) \div 2
  BY <1>1, ShiftOnce DEF PairBit
<1>3. i \in Nat /\ p = n * i
  BY <1>1, AlignedIsMultiple DEF AlignedTo
<1> HIDE DEF n, i
<1>4. /\ j \in Nat /\ j # i /\ j \div 2 = i \div 2
      /\ (IF j % 2 = 0 THEN j + 1 ELSE j - 1) = i
  BY <1>3
<1>5. BuddyOf(p, k) = IF i % 2 = 0 THEN p + n ELSE p - n
  BY DEF BuddyOf, n, i
<1>6. BuddyOf(p, k) = n * j
  <2>1. CASE i % 2 = 0
    <3>1. n * (i + 1) = n * i + n
      BY <1>1, <1>3
    <3> QED BY <1>3, <1>5, <2>1, <3>1
  <2>2. CASE i % 2 # 0
    <3>1. n * (i - 1) = n * i - n
      BY <1>1, <1>3
    <3> QED BY <1>3, <1>5, <2>2, <3>1
  <2> QED BY <2>1, <2>2
<1> HIDE DEF j
<1>7. n * j \in Nat /\ (n * j) \div n = j /\ (n * j) % n = 0
  BY <1>1, <1>4, MultipleIsAligned
<1>8. BuddyOf(p, k) \in Nat /\ AlignedTo(BuddyOf(p, k), k)
  BY <1>6, <1>7 DEF AlignedTo, n
<1>9. BuddyOf(p, k) # p
  BY <1>1, <1>3, <1>5
<1>10. PairBit(BuddyOf(p, k), k) = PairBit(p, k)
  BY <1>2, <1>4, <1>6, <1>7 DEF i
<1>11. BuddyOf(BuddyOf(p, k), k) = p
  <2>1. BuddyOf(n * j, k) = IF j % 2 = 0 THEN n * j + n ELSE n * j - n
    BY <1>7 DEF BuddyOf, n
  <2>2. CASE j % 2 = 0
    <3>1. i = j + 1 /\ n * (j + 1) = n * j + n
      BY <1>1, <1>4, <2>2
    <3> QED BY <1>3, <1>6, <2>1, <2>2, <3>1
  <2>3. CASE j % 2 # 0
    <3>1. i = j - 1 /\ n * (j - 1) = n * j - n
      BY <1>1, <1>4, <2>3
    <3> QED BY <1>3, <1>6, <2>1, <2>3, <3>1
  <2> QED BY <2>2, <2>3
<1>12. PairBit(p, k) \in Nat
  BY <1>2, <1>3 DEF i
<1>13. ASSUME NEW q \in Nat, AlignedTo(q, k), PairBit(q, k) = PairBit(p, k)
       PROVE  q = p \/ q = BuddyOf(p, k)
  <2> DEFINE m == q \div n
  <2>1. m \in Nat /\ q = n * m
    BY <1>1, <1>13, AlignedIsMultiple DEF AlignedTo, n
  <2>2. m \div 2 = i \div 2
    BY <1>2, <1>13 DEF i
  <2> HIDE DEF m
  <2>3. m = i \/ m = j
    BY <1>3, <2>1, <2>2 DEF j
  <2> QED BY <1>3, <1>6, <2>1, <2>3
<1> QED BY <1>8, <1>9, <1>10, <1>11, <1>12, <1>13

(* A block is its lower and its upper half, and they do not overlap. *)
LEMMA HalvesFacts ==
    ASSUME NEW k \in Orders, NEW p \in Nat, AlignedTo(p, k + 1), k + 1 \in Orders
    PROVE  /\ AlignedTo(p, k)
           /\ p + Pow2[k] \in Nat
           /\ AlignedTo(p + Pow2[k], k)
           /\ PairBit(p + Pow2[k], k) = PairBit(p, k)
           /\ BuddyOf(p, k) = p + Pow2[k]
           /\ Pages([page |-> p, order |-> k + 1]) =
                Pages([page |-> p, order |-> k]) \cup
                Pages([page |-> p + Pow2[k], order |-> k])
           /\ Pages([page |-> p, order |-> k]) \cap
                Pages([page |-> p + Pow2[k], order |-> k]) = {}
<1> DEFINE n == Pow2[k]
           i == p \div (2 * n)
<1>1. n \in Nat \ {0} /\ Pow2[k + 1] = 2 * n
  BY Pow2Facts
<1>2. 2 * n \in Nat \ {0} /\ i \in Nat /\ p = (2 * n) * i
  <2>1. 2 * n \in Nat \ {0}
    BY <1>1
  <2>2. p % (2 * n) = 0
    BY <1>1 DEF AlignedTo
  <2> HIDE DEF n
  <2> QED BY <2>1, <2>2, AlignedIsMultiple
<1> HIDE DEF n, i
<1>3. p = n * (2 * i) /\ 2 * i \in Nat
  BY <1>1, <1>2
<1>4. p % n = 0 /\ p \div n = 2 * i
  BY <1>1, <1>3, MultipleIsAligned
<1>5. AlignedTo(p, k)
  BY <1>4 DEF AlignedTo, n
<1>6. BuddyOf(p, k) = p + n
  BY <1>2, <1>4 DEF BuddyOf, n
<1>7. /\ AlignedTo(p + n, k) /\ p + n \in Nat
      /\ PairBit(p + n, k) = PairBit(p, k)
  BY <1>5, <1>6, BuddyFacts
<1>8. /\ p..(p + 2 * n - 1) = (p..(p + n - 1)) \cup ((p + n)..(p + n + n - 1))
      /\ (p..(p + n - 1)) \cap ((p + n)..(p + n + n - 1)) = {}
  BY <1>1
<1> QED BY <1>1, <1>5, <1>6, <1>7, <1>8 DEF Pages, n

(* Merging: the pair of an aligned block is an aligned block one order up. *)
LEMMA ParentFacts ==
    ASSUME NEW k \in Orders, NEW p \in Nat, AlignedTo(p, k), k + 1 \in Orders
    PROVE  LET m == Min(p, BuddyOf(p, k))
           IN  /\ m \in Nat /\ AlignedTo(m, k + 1)
               /\ Pages([page |-> m, order |-> k + 1]) =
                    Pages([page |-> p, order |-> k]) \cup
                    Pages([page |-> BuddyOf(p, k), order |-> k])
<1> DEFINE n == Pow2[k]
           i == p \div n
           m == Min(p, BuddyOf(p, k))
<1>1. n \in Nat \ {0} /\ Pow2[k + 1] = 2 * n
  BY Pow2Facts
<1>2. i \in Nat /\ p = n * i
  BY <1>1, AlignedIsMultiple DEF AlignedTo
<1>3. BuddyOf(p, k) = IF i % 2 = 0 THEN p + n ELSE p - n
  BY DEF BuddyOf
<1>4. BuddyOf(p, k) \in Nat /\ BuddyOf(BuddyOf(p, k), k) = p
  BY BuddyFacts
<1> HIDE DEF n, i
<1>5. m \in Nat /\ {p, BuddyOf(p, k)} = {m, m + n}
  <2>1. CASE i % 2 = 0
    BY <1>1, <1>3, <1>4, <2>1 DEF Min
  <2>2. CASE i % 2 # 0
    BY <1>1, <1>3, <1>4, <2>2 DEF Min
  <2> QED BY <2>1, <2>2
<1>6. AlignedTo(m, k + 1)
  <2>1. PICK a \in Nat : m = n * (2 * a)
    <3>1. CASE i % 2 = 0
      <4>1. m = p /\ i = 2 * (i \div 2) /\ i \div 2 \in Nat
        BY <1>1, <1>2, <1>3, <3>1 DEF Min
      <4> QED BY <1>2, <4>1
    <3>2. CASE i % 2 # 0
      <4>1. m = p - n /\ i - 1 = 2 * (i \div 2) /\ i \div 2 \in Nat
        BY <1>1, <1>2, <1>3, <3>2 DEF Min
      <4>2. n * (i - 1) = n * i - n
        BY <1>1, <1>2
      <4> QED BY <1>2, <4>1, <4>2
    <3> QED BY <3>1, <3>2
  <2>2. m = (2 * n) * a /\ 2 * n \in Nat \ {0}
    BY <1>1, <2>1
  <2> HIDE DEF m
  <2>3. m % (2 * n) = 0
    BY <2>2, MultipleIsAligned
  <2> QED BY <1>1, <2>3 DEF AlignedTo
<1>7. Pages([page |-> m, order |-> k + 1]) =
        Pages([page |-> m, order |-> k]) \cup Pages([page |-> m + n, order |-> k])
  BY <1>5, <1>6, HalvesFacts DEF n
<1>8. \/ p = m /\ BuddyOf(p, k) = m + n
      \/ p = m + n /\ BuddyOf(p, k) = m
  BY <1>1, <1>5
<1> QED BY <1>5, <1>6, <1>7, <1>8

-----------------------------------------------------------------------------
(* Bitmaps: putting a block on a list, or taking one off, changes whether   *)
(* exactly one buddy of its pair is free, and of no other pair.             *)

(* free_block: the toggle keeps the bitmap right when a block goes on a list. *)
LEMMA ToggleOnAdd ==
    ASSUME NEW k \in Orders, NEW L \in SUBSET Nat, \A q \in L : AlignedTo(q, k),
           NEW p \in Nat, AlignedTo(p, k), p \notin L
    PROVE  OneOfPair(L \cup {p}, k) = Toggle(OneOfPair(L, k), PairBit(p, k))
<1> DEFINE b == BuddyOf(p, k)
           x == PairBit(p, k)
           M == L \cup {p}
<1>1. /\ b \in Nat /\ b # p /\ BuddyOf(b, k) = p /\ PairBit(b, k) = x
      /\ \A q \in L : PairBit(q, k) = x => q = b
  BY BuddyFacts
<1>2. ASSUME NEW q \in L, q # b
      PROVE  BuddyOf(q, k) # p /\ PairBit(q, k) # x
  BY <1>1, <1>2, BuddyFacts
<1>a. \A y : y \in OneOfPair(L, k) <=>
               \E q \in L : BuddyOf(q, k) \notin L /\ PairBit(q, k) = y
  BY Zenon DEF OneOfPair
<1>b. \A y : y \in OneOfPair(M, k) <=>
               \E q \in M : BuddyOf(q, k) \notin M /\ PairBit(q, k) = y
  BY Zenon DEF OneOfPair
<1> HIDE DEF b, x
<1>3. ASSUME NEW y, y # x
      PROVE  y \in OneOfPair(M, k) <=> y \in OneOfPair(L, k)
  <2>1. ASSUME NEW q \in M, BuddyOf(q, k) \notin M, PairBit(q, k) = y
        PROVE  \E z \in L : BuddyOf(z, k) \notin L /\ PairBit(z, k) = y
    BY <1>3, <2>1 DEF x
  <2>2. ASSUME NEW q \in L, BuddyOf(q, k) \notin L, PairBit(q, k) = y
        PROVE  \E z \in M : BuddyOf(z, k) \notin M /\ PairBit(z, k) = y
    BY <1>1, <1>2, <1>3, <2>2
  <2> QED BY <1>a, <1>b, <2>1, <2>2
<1>4. x \in OneOfPair(L, k) <=> b \in L
  BY <1>1, <1>a
<1>5. x \in OneOfPair(M, k) <=> b \notin L
  <2>1. CASE b \in L
    <3>1. ASSUME NEW q \in M, PairBit(q, k) = x PROVE BuddyOf(q, k) \in M
      BY <1>1, <2>1, <3>1 DEF b
    <3> QED BY <1>b, <2>1, <3>1
  <2>2. CASE b \notin L
    <3>1. p \in M /\ BuddyOf(p, k) \notin M /\ PairBit(p, k) = x
      BY <1>1, <2>2 DEF b, x
    <3> QED BY <1>b, <2>2, <3>1
  <2> QED BY <2>1, <2>2
<1>6. ASSUME NEW y
      PROVE  y \in OneOfPair(M, k) <=> y \in Toggle(OneOfPair(L, k), x)
  BY <1>3, <1>4, <1>5 DEF Toggle
<1> QED BY <1>6 DEF x

(* The pop and the unlink: likewise when a block leaves its list. *)
LEMMA ToggleOnRemove ==
    ASSUME NEW k \in Orders, NEW L \in SUBSET Nat, \A q \in L : AlignedTo(q, k),
           NEW p \in L
    PROVE  OneOfPair(L \ {p}, k) = Toggle(OneOfPair(L, k), PairBit(p, k))
<1>1. (L \ {p}) \cup {p} = L
  OBVIOUS
<1>2. OneOfPair(L, k) = Toggle(OneOfPair(L \ {p}, k), PairBit(p, k))
  BY <1>1, ToggleOnAdd
<1> QED BY <1>2 DEF Toggle

-----------------------------------------------------------------------------
(* The blocks on the lists.                                                *)

(* What it is for a block to be on the lists. *)
LEMMA BlocksOfMember ==
    ASSUME NEW lists, NEW b
    PROVE  b \in BlocksOf(lists) <=>
             \E k \in Orders : \E p \in Elems(lists[k]) :
                 b = [page |-> p, order |-> k]
  BY DEF BlocksOf

(* A block is free exactly if its page is on the list of its order. *)
LEMMA BlockOnList ==
    ASSUME NEW lists, NEW k \in Orders, NEW p
    PROVE  [page |-> p, order |-> k] \in BlocksOf(lists) <=> p \in Elems(lists[k])
  BY BlocksOfMember

-----------------------------------------------------------------------------
(* The two edits of a list, with the bitmap toggle that goes with each.    *)

ListsOK ==
    \A k \in Orders :
        /\ NoDup(free_lists[k])
        /\ \A p \in Elems(free_lists[k]) : AlignedTo(p, k)
        /\ bitmaps[k] = OneOfPair(Elems(free_lists[k]), k)

HeapType == free_lists \in [Orders -> Seq(Nat)] /\ bitmaps \in [Orders -> SUBSET Nat]

(* The bit of a pair is an index of the bitmap. *)
LEMMA PairBitNat ==
    ASSUME NEW k \in Orders, NEW p \in Nat
    PROVE  PairBit(p, k) \in Nat
  BY Pow2Facts, AlignedIsMultiple DEF PairBit

(* A list of page indices has page indices for elements. *)
LEMMA ElemsNat ==
    ASSUME NEW s \in Seq(Nat) PROVE Elems(s) \subseteq Nat
  BY DEF Elems

(* free_block adds exactly one block and keeps lists and bitmaps in step. *)
LEMMA FreeBlockEffect ==
    ASSUME HeapType, NEW k \in Orders, NEW p \in Nat, FreeBlock(p, k)
    PROVE  /\ HeapType'
           /\ FreeBlocks' = FreeBlocks \cup {[page |-> p, order |-> k]}
           /\ ListsOK /\ AlignedTo(p, k) /\ p \notin Elems(free_lists[k]) => ListsOK'
<1> DEFINE s == PushFront(free_lists[k], p)
<1>1. /\ s \in Seq(Nat) /\ Elems(s) = Elems(free_lists[k]) \cup {p}
      /\ NoDup(free_lists[k]) /\ p \notin Elems(free_lists[k]) => NoDup(s)
  BY PushFrontProps DEF HeapType
<1> HIDE DEF s
<1>2. /\ free_lists' = [free_lists EXCEPT ![k] = s]
      /\ bitmaps' = [bitmaps EXCEPT ![k] = Toggle(bitmaps[k], PairBit(p, k))]
  BY DEF FreeBlock, s, HeapType
<1>3. HeapType'
  BY <1>1, <1>2, PairBitNat DEF HeapType, Toggle
<1>4. FreeBlocks' = FreeBlocks \cup {[page |-> p, order |-> k]}
  <2>1. free_lists'[k] = s /\ \A j \in Orders \ {k} : free_lists'[j] = free_lists[j]
    BY <1>2 DEF HeapType
  <2>2. BlocksOf(free_lists') = BlocksOf(free_lists) \cup {[page |-> p, order |-> k]}
    <3>1. ASSUME NEW b
          PROVE  b \in BlocksOf(free_lists') <=>
                   b \in BlocksOf(free_lists) \/ b = [page |-> p, order |-> k]
      BY <1>1, <2>1, BlocksOfMember
    <3> QED BY <3>1
  <2> QED BY <2>2 DEF FreeBlocks
<1>5. ASSUME ListsOK, AlignedTo(p, k), p \notin Elems(free_lists[k])
      PROVE  ListsOK'
  <2>1. OneOfPair(Elems(free_lists[k]) \cup {p}, k) =
          Toggle(OneOfPair(Elems(free_lists[k]), k), PairBit(p, k))
    BY <1>5, ToggleOnAdd, ElemsNat DEF ListsOK, HeapType
  <2>2. ASSUME NEW j \in Orders
        PROVE  /\ NoDup(free_lists'[j])
               /\ \A q \in Elems(free_lists'[j]) : AlignedTo(q, j)
               /\ bitmaps'[j] = OneOfPair(Elems(free_lists'[j]), j)
    <3>1. CASE j = k
      <4>1. free_lists'[k] = s /\ bitmaps'[k] = Toggle(bitmaps[k], PairBit(p, k))
        BY <1>2 DEF HeapType
      <4> QED BY <1>1, <1>5, <2>1, <3>1, <4>1 DEF ListsOK
    <3>2. CASE j # k
      <4>1. free_lists'[j] = free_lists[j] /\ bitmaps'[j] = bitmaps[j]
        BY <1>2, <3>2 DEF HeapType
      <4> QED BY <1>5, <4>1 DEF ListsOK
    <3> QED BY <3>1, <3>2
  <2> QED BY <2>2 DEF ListsOK
<1> QED BY <1>3, <1>4, <1>5

(* Taking a block off its list, by pop or unlink, with the toggle. *)
LEMMA TakeOffEffect ==
    ASSUME HeapType, ListsOK, NEW k \in Orders, NEW p \in Elems(free_lists[k]),
           NEW s \in Seq(Nat), NoDup(s), Elems(s) = Elems(free_lists[k]) \ {p},
           free_lists' = [free_lists EXCEPT ![k] = s],
           bitmaps' = [bitmaps EXCEPT ![k] = Toggle(bitmaps[k], PairBit(p, k))]
    PROVE  /\ HeapType'
           /\ ListsOK'
           /\ FreeBlocks' = FreeBlocks \ {[page |-> p, order |-> k]}
<1>1. HeapType'
  BY PairBitNat, ElemsNat DEF HeapType, Toggle
<1>2. FreeBlocks' = FreeBlocks \ {[page |-> p, order |-> k]}
  <2>1. free_lists'[k] = s /\ \A j \in Orders \ {k} : free_lists'[j] = free_lists[j]
    BY DEF HeapType
  <2>2. BlocksOf(free_lists') = BlocksOf(free_lists) \ {[page |-> p, order |-> k]}
    <3>1. ASSUME NEW b \in BlocksOf(free_lists')
          PROVE  b \in BlocksOf(free_lists) /\ b # [page |-> p, order |-> k]
      <4>1. PICK j \in Orders : \E q \in Elems(free_lists'[j]) :
                b = [page |-> q, order |-> j]
        BY BlocksOfMember
      <4>2. PICK q \in Elems(free_lists'[j]) : b = [page |-> q, order |-> j]
        BY <4>1
      <4>3. q \in Elems(free_lists[j]) /\ (j = k => q # p)
        BY <2>1, <4>2
      <4> QED BY <4>2, <4>3, BlocksOfMember
    <3>2. ASSUME NEW b \in BlocksOf(free_lists), b # [page |-> p, order |-> k]
          PROVE  b \in BlocksOf(free_lists')
      <4>1. PICK j \in Orders : \E q \in Elems(free_lists[j]) :
                b = [page |-> q, order |-> j]
        BY BlocksOfMember
      <4>2. PICK q \in Elems(free_lists[j]) : b = [page |-> q, order |-> j]
        BY <4>1
      <4>3. q \in Elems(free_lists'[j])
        BY <2>1, <3>2, <4>2
      <4> QED BY <4>2, <4>3, BlocksOfMember
    <3> QED BY <3>1, <3>2
  <2> QED BY <2>2 DEF FreeBlocks
<1>3. OneOfPair(Elems(free_lists[k]) \ {p}, k) =
        Toggle(OneOfPair(Elems(free_lists[k]), k), PairBit(p, k))
  BY ToggleOnRemove, ElemsNat DEF ListsOK, HeapType
<1>4. ASSUME NEW j \in Orders
      PROVE  /\ NoDup(free_lists'[j])
             /\ \A q \in Elems(free_lists'[j]) : AlignedTo(q, j)
             /\ bitmaps'[j] = OneOfPair(Elems(free_lists'[j]), j)
  <2>1. CASE j = k
    <3>1. free_lists'[k] = s /\ bitmaps'[k] = Toggle(bitmaps[k], PairBit(p, k))
      BY DEF HeapType
    <3> QED BY <1>3, <2>1, <3>1 DEF ListsOK
  <2>2. CASE j # k
    <3>1. free_lists'[j] = free_lists[j] /\ bitmaps'[j] = bitmaps[j]
      BY <2>2 DEF HeapType
    <3> QED BY <3>1 DEF ListsOK
  <2> QED BY <2>1, <2>2
<1> QED BY <1>1, <1>2, <1>4 DEF ListsOK

-----------------------------------------------------------------------------
(* The invariant without its guard against panics, in the form the steps    *)
(* below establish it.                                                      *)

Apart ==
    /\ \A b, c \in Blocks : b # c => Pages(b) \cap Pages(c) = {}
    /\ \A b \in Blocks : Pages(b) \cap Pending = {}
    /\ FreeBlocks \cap LiveBlocks = {}
    /\ HandBlocks \cap (FreeBlocks \cup LiveBlocks) = {}

Covered ==
    \A x : (\E b \in Blocks : x \in Pages(b)) \/ x \in Pending
              <=> \E r \in regions : x \in RegionPages(r)

HeldAligned == \A b \in LiveBlocks \cup HandBlocks : AlignedTo(b.page, b.order)

Core == ListsOK /\ Apart /\ Covered /\ HeldAligned

(* Where a step leaves the blocks and the pending pages. *)
Moves(freed, out, hand, pending) ==
    /\ FreeBlocks' = freed /\ LiveBlocks' = out
    /\ HandBlocks' = hand /\ Pending' = pending

(* Short of a panic, Core is the conjunction of the four invariants. *)
LEMMA CoreIsInvariant ==
    ASSUME ~Panicked
    PROVE  Core <=> BlocksAligned /\ NoOverlap /\ NoPageLost /\ BitIsOneFreeBuddy
<1>1. (\A k \in Orders : \A p \in Elems(free_lists[k]) : AlignedTo(p, k))
        <=> \A b \in FreeBlocks : AlignedTo(b.page, b.order)
  <2>1. ASSUME NEW k \in Orders, NEW p \in Elems(free_lists[k]),
               \A b \in FreeBlocks : AlignedTo(b.page, b.order)
        PROVE  AlignedTo(p, k)
    <3>1. [page |-> p, order |-> k] \in FreeBlocks
      BY BlockOnList DEF FreeBlocks
    <3> QED BY <2>1, <3>1
  <2>2. ASSUME \A k \in Orders : \A p \in Elems(free_lists[k]) : AlignedTo(p, k),
               NEW b \in FreeBlocks
        PROVE  AlignedTo(b.page, b.order)
    BY <2>2, BlocksOfMember DEF FreeBlocks
  <2> QED BY <2>1, <2>2
<1>2. BlocksAligned <=> /\ \A b \in FreeBlocks : AlignedTo(b.page, b.order)
                        /\ HeldAligned
  BY DEF BlocksAligned, HeldAligned, Blocks
<1>3. Covered <=> NoPageLost
  <2> DEFINE A == (UNION {Pages(b) : b \in Blocks}) \cup Pending
             B == UNION {RegionPages(r) : r \in regions}
  <2>1. \A x : x \in A <=> (\E b \in Blocks : x \in Pages(b)) \/ x \in Pending
    OBVIOUS
  <2>2. \A x : x \in B <=> \E r \in regions : x \in RegionPages(r)
    OBVIOUS
  <2> HIDE DEF A, B
  <2>3. Covered <=> \A x : x \in A <=> x \in B
    BY <2>1, <2>2 DEF Covered
  <2>4. NoPageLost <=> A = B
    BY DEF NoPageLost, Registered, A, B
  <2> QED BY <2>3, <2>4
<1>4. Apart /\ (\A k \in Orders : NoDup(free_lists[k])) <=> NoOverlap
  BY DEF Apart, NoOverlap
<1>5. ListsOK <=> /\ \A k \in Orders : NoDup(free_lists[k])
                  /\ \A k \in Orders : \A p \in Elems(free_lists[k]) : AlignedTo(p, k)
                  /\ BitIsOneFreeBuddy
  BY DEF ListsOK, BitIsOneFreeBuddy
<1> QED BY <1>1, <1>2, <1>3, <1>4, <1>5 DEF Core

(* A block holds its first page. *)
LEMMA PagesNonEmpty ==
    ASSUME NEW p \in Nat, NEW k \in Orders
    PROVE  p \in Pages([page |-> p, order |-> k])
  BY Pow2Facts DEF Pages

(* A bit that is set when dealloc_pages looks at it means that the buddy is *)
(* on the list: the block in hand itself is not.                            *)
LEMMA SetBitMeansFreeBuddy ==
    ASSUME TypeOK, ListsOK, Apart, HeldAligned, pc = "merge", BuddyBitSet
    PROVE  BuddyOf(page, ord) \in Elems(free_lists[ord])
<1>1. page \in Nat /\ ord \in Orders
  BY DEF TypeOK
<1>2. [page |-> page, order |-> ord] \in HandBlocks
  BY DEF HandBlocks
<1>3. AlignedTo(page, ord)
  BY <1>2 DEF HeldAligned
<1>4. page \notin Elems(free_lists[ord])
  BY <1>1, <1>2, BlockOnList DEF Apart, FreeBlocks
<1>5. PICK q \in Elems(free_lists[ord]) : PairBit(q, ord) = PairBit(page, ord)
  BY <1>1 DEF ListsOK, BuddyBitSet, OneOfPair
<1>6. q \in Nat /\ AlignedTo(q, ord)
  BY <1>1, ElemsNat DEF ListsOK, TypeOK
<1> QED BY <1>1, <1>3, <1>4, <1>5, <1>6, BuddyFacts

-----------------------------------------------------------------------------
(* One lemma per step that moves a block.                                  *)

(* add_region begins: the pages of the region become the pending ones. *)
LEMMA AddRegionCore ==
    ASSUME TypeOK, BaseFixed, Core, NEW v \in Nat, NEW n \in Nat, AddRegion(v, n)
    PROVE  /\ Core'
           /\ HandBlocks = {} /\ Pending = {}
           /\ Moves(FreeBlocks, LiveBlocks, {}, RegionPages([start |-> v - base, size |-> n]))
<1> DEFINE r == [start |-> v - base, size |-> n]
<1>1. /\ pc = "idle" /\ pc' = "add" /\ page' = v - base /\ remaining' = n
      /\ v - base \in Nat
      /\ \A q \in regions : RegionPages(q) \cap RegionPages(r) = {}
      /\ regions' = IF n = 0 THEN regions ELSE regions \cup {r}
      /\ free_lists' = free_lists /\ bitmaps' = bitmaps /\ live' = live /\ base' = base
  BY DEF AddRegion, heap, TypeOK
<1>2. /\ FreeBlocks' = FreeBlocks /\ LiveBlocks' = LiveBlocks
      /\ HandBlocks = {} /\ HandBlocks' = {} /\ Blocks' = Blocks /\ Pending = {}
  BY <1>1 DEF FreeBlocks, LiveBlocks, HandBlocks, Blocks, Pending
<1>3. Pending' = RegionPages(r) /\ (n = 0 => RegionPages(r) = {})
  BY <1>1 DEF Pending, RegionPages
<1>a. Moves(FreeBlocks, LiveBlocks, {}, RegionPages(r))
  BY <1>2, <1>3 DEF Moves
<1> HIDE DEF r
<1>4. ListsOK' /\ HeldAligned'
  BY <1>1, <1>2 DEF Core, ListsOK, HeldAligned
<1>5. Covered'
  BY <1>1, <1>2, <1>3 DEF Core, Covered
<1>6. Apart'
  BY <1>1, <1>2, <1>3 DEF Core, Covered, Apart
<1> QED BY <1>2, <1>4, <1>5, <1>6, <1>a DEF Core, r

(* add_region's loop: the next block goes from the pending pages to a list. *)
LEMMA AddBlockCore ==
    ASSUME TypeOK, BaseFixed, Core, AddBlock
    PROVE  /\ Core' /\ HeapType' /\ HandBlocks = {}
           /\ \E k \in Orders : LET b == [page |-> page, order |-> k]
                IN  /\ LargestFit(k) /\ InBitmap(PairBit(page, k))
                    /\ page' = page + Pow2[k] /\ remaining' = remaining - Pow2[k]
                    /\ Pages(b) \subseteq Pending
                    /\ Moves(FreeBlocks \cup {b}, LiveBlocks, {}, Pending \ Pages(b))
<1>1. PICK k \in Orders :
          /\ LargestFit(k) /\ Fits(k) /\ FreeBlock(page, k)
          /\ page' = page + Pow2[k] /\ remaining' = remaining - Pow2[k]
  BY DEF AddBlock, LargestFit
<1> DEFINE nb == [page |-> page, order |-> k]
<1>2. /\ pc = "add" /\ pc' = "add" /\ live' = live /\ base' = base
      /\ regions' = regions /\ page \in Nat /\ remaining \in Nat
      /\ AlignedTo(page, k) /\ Pow2[k] <= remaining /\ Pow2[k] \in Nat \ {0}
  BY <1>1, Pow2Facts DEF AddBlock, TypeOK, Fits
<1>3. Pages(nb) \subseteq Pending /\ Pending' = Pending \ Pages(nb) /\ page \in Pages(nb)
  BY <1>1, <1>2 DEF Pages, Pending
<1>4. HandBlocks = {} /\ HandBlocks' = {} /\ LiveBlocks' = LiveBlocks
  BY <1>2 DEF HandBlocks, LiveBlocks
<1>5. nb \notin Blocks
  BY <1>3 DEF Core, Apart
<1>6. page \notin Elems(free_lists[k])
  BY <1>5, BlockOnList DEF Blocks, FreeBlocks
<1>7. HeapType' /\ ListsOK' /\ FreeBlocks' = FreeBlocks \cup {nb}
  BY <1>1, <1>2, <1>6, FreeBlockEffect DEF Core, HeapType, TypeOK
<1>8. Blocks' = Blocks \cup {nb}
  BY <1>4, <1>7 DEF Blocks
<1>a. /\ InBitmap(PairBit(page, k))
      /\ Moves(FreeBlocks \cup {nb}, LiveBlocks, {}, Pending \ Pages(nb))
  BY <1>1, <1>3, <1>4, <1>7 DEF Moves, FreeBlock
<1> HIDE DEF nb
<1>9. Covered'
  BY <1>2, <1>3, <1>8 DEF Core, Covered
<1>10. Apart'
  BY <1>3, <1>4, <1>5, <1>7, <1>8 DEF Core, Apart, Blocks
<1>11. HeldAligned'
  BY <1>4 DEF Core, HeldAligned
<1>12. Core' /\ HeapType' /\ HandBlocks = {}
  BY <1>4, <1>7, <1>9, <1>10, <1>11 DEF Core
<1> QED BY <1>1, <1>3, <1>12, <1>a DEF nb

(* alloc_pages takes the head of the first list that has a block. *)
LEMMA AllocPopCore ==
    ASSUME TypeOK, BaseFixed, Core, NEW o \in Orders, AllocPop(o)
    PROVE  Core' /\ HeapType' /\ page' \in Nat /\ ord' \in Orders /\ o <= ord'
           /\ HandBlocks = {} /\ Pending = {}
           /\ \E b \in FreeBlocks : Moves(FreeBlocks \ {b}, LiveBlocks, {b}, {})
<1>1. PICK k \in Orders :
          /\ FirstNonEmpty(o, k)
          /\ page' = Head(free_lists[k])
          /\ free_lists' = [free_lists EXCEPT ![k] = PopFront(@)]
          /\ bitmaps' = [bitmaps EXCEPT ![k] = Toggle(@, PairBit(page', k))]
          /\ ord' = k
  BY DEF AllocPop
<1> DEFINE s == free_lists[k]
           b == [page |-> Head(s), order |-> k]
<1>2. /\ pc = "idle" /\ pc' = "split" /\ live' = live /\ base' = base
      /\ regions' = regions
  BY DEF AllocPop
<1>3. s \in Seq(Nat) /\ s # <<>> /\ o <= k
  BY <1>1 DEF FirstNonEmpty, NonEmpty, TypeOK, Orders
<1>4. NoDup(s)
  BY DEF Core, ListsOK
<1>5. /\ Head(s) \in Nat /\ Head(s) \in Elems(s) /\ PopFront(s) \in Seq(Nat)
      /\ NoDup(PopFront(s)) /\ Elems(PopFront(s)) = Elems(s) \ {Head(s)}
  BY <1>3, <1>4, PopFrontProps
<1>6. /\ free_lists' = [free_lists EXCEPT ![k] = PopFront(s)]
      /\ bitmaps' = [bitmaps EXCEPT ![k] = Toggle(bitmaps[k], PairBit(Head(s), k))]
  BY <1>1 DEF TypeOK
<1>7. HeapType' /\ ListsOK' /\ FreeBlocks' = FreeBlocks \ {b}
  BY <1>5, <1>6, TakeOffEffect DEF Core, HeapType, TypeOK
<1>8. b \in FreeBlocks
  BY <1>5, BlockOnList DEF FreeBlocks
<1>9. AlignedTo(Head(s), k)
  BY <1>5 DEF Core, ListsOK
<1>10. HandBlocks = {} /\ HandBlocks' = {b} /\ LiveBlocks' = LiveBlocks
  BY <1>1, <1>2 DEF HandBlocks, LiveBlocks
<1>11. Pending = {} /\ Pending' = {}
  BY <1>2 DEF Pending
<1>12. HeldAligned'
  BY <1>9, <1>10 DEF Core, HeldAligned
<1> HIDE DEF b
<1>13. Blocks' = Blocks
  BY <1>7, <1>8, <1>10 DEF Blocks
<1>14. Covered'
  BY <1>2, <1>11, <1>13 DEF Core, Covered
<1>15. Apart'
  BY <1>7, <1>8, <1>10, <1>11, <1>13 DEF Core, Apart
<1>16. Moves(FreeBlocks \ {b}, LiveBlocks, {b}, {})
  BY <1>7, <1>10, <1>11 DEF Moves
<1> QED BY <1>1, <1>3, <1>5, <1>7, <1>8, <1>10, <1>11, <1>12, <1>14, <1>15, <1>16 DEF Core

(* alloc_pages splits: the upper half goes on a list, the lower stays in hand. *)
LEMMA SplitCore ==
    ASSUME TypeOK, BaseFixed, Core, Split
    PROVE  /\ Core' /\ HeapType' /\ ord' \in Orders /\ order <= ord' /\ ord = ord' + 1
           /\ Pending = {}
           /\ LET h  == [page |-> page, order |-> ord]
                  lo == [page |-> page, order |-> ord']
                  hi == [page |-> page + Pow2[ord'], order |-> ord']
              IN  /\ HandBlocks = {h} /\ Pages(h) = Pages(lo) \cup Pages(hi)
                  /\ BuddyOf(page, ord') = page + Pow2[ord']
                  /\ AlignedTo(page, ord') /\ page + Pow2[ord'] \in Nat
                  /\ PairBit(page + Pow2[ord'], ord') = PairBit(page, ord')
                  /\ InBitmap(PairBit(page, ord'))
                  /\ Moves(FreeBlocks \cup {hi}, LiveBlocks, {lo}, {})
<1> DEFINE k  == ord - 1
           h  == [page |-> page, order |-> ord]
           lo == [page |-> page, order |-> k]
           hi == [page |-> page + Pow2[k], order |-> k]
<1>1. /\ pc = "split" /\ pc' = "split" /\ ord' = k /\ page' = page
      /\ live' = live /\ base' = base /\ regions' = regions
      /\ FreeBlock(page + Pow2[k], k)
  BY DEF Split
<1>2. page \in Nat /\ ord \in Orders /\ k \in Orders /\ k + 1 = ord /\ order <= k
  <2>1. page \in Nat /\ ord \in 0..(MaxOrder - 1) /\ order \in 0..(MaxOrder - 1)
    BY DEF TypeOK, Orders
  <2>2. ord > order
    BY DEF Split
  <2> QED BY <2>1, <2>2, MaxOrderAssumption DEF Orders
<1> HIDE DEF k
<1>3. HandBlocks = {h} /\ HandBlocks' = {lo} /\ LiveBlocks' = LiveBlocks
  BY <1>1 DEF HandBlocks, LiveBlocks
<1>4. AlignedTo(page, ord)
  <2>1. h \in LiveBlocks \cup HandBlocks
    BY <1>3
  <2>2. AlignedTo(h.page, h.order)
    BY <2>1 DEF Core, HeldAligned
  <2> QED BY <2>2
<1>5. /\ AlignedTo(page, k) /\ page + Pow2[k] \in Nat /\ AlignedTo(page + Pow2[k], k)
      /\ Pages(h) = Pages(lo) \cup Pages(hi) /\ Pages(lo) \cap Pages(hi) = {}
      /\ BuddyOf(page, k) = page + Pow2[k]
      /\ PairBit(page + Pow2[k], k) = PairBit(page, k)
  BY <1>2, <1>4, HalvesFacts
<1>6. page \in Pages(lo) /\ page + Pow2[k] \in Pages(hi) /\ h # lo /\ h # hi /\ lo # hi
  <2>1. page \in Pages(lo) /\ page + Pow2[k] \in Pages(hi)
    BY <1>2, <1>5, PagesNonEmpty
  <2> QED BY <1>2, <1>5, <2>1
<1>7. HeldAligned'
  BY <1>3, <1>5 DEF Core, HeldAligned
<1>8. hi \notin Blocks /\ lo \notin Blocks
  BY <1>3, <1>5, <1>6 DEF Core, Apart, Blocks
<1>9. page + Pow2[k] \notin Elems(free_lists[k])
  BY <1>2, <1>8, BlockOnList DEF Blocks, FreeBlocks
<1>10. HeapType' /\ ListsOK' /\ FreeBlocks' = FreeBlocks \cup {hi}
  BY <1>1, <1>2, <1>5, <1>9, FreeBlockEffect DEF Core, HeapType, TypeOK
<1>11. Pending = {} /\ Pending' = {}
  BY <1>1 DEF Pending
<1>a. InBitmap(PairBit(page, k)) /\ Moves(FreeBlocks \cup {hi}, LiveBlocks, {lo}, {})
  BY <1>1, <1>3, <1>5, <1>10, <1>11 DEF Moves, FreeBlock
<1> HIDE DEF h, lo, hi
<1>12. Blocks = (FreeBlocks \cup LiveBlocks) \cup {h}
  BY <1>3 DEF Blocks
<1>13. Blocks' = (FreeBlocks \cup LiveBlocks) \cup {lo, hi}
  BY <1>3, <1>10 DEF Blocks
<1>14. Covered'
  BY <1>1, <1>5, <1>11, <1>12, <1>13 DEF Core, Covered
<1>15. h \notin FreeBlocks \cup LiveBlocks
  BY <1>3 DEF Core, Apart
<1>16. \A b \in FreeBlocks \cup LiveBlocks : Pages(b) \cap Pages(h) = {}
  BY <1>12, <1>15 DEF Core, Apart
<1>17. \A b, c \in Blocks' : b # c => Pages(b) \cap Pages(c) = {}
  BY <1>5, <1>12, <1>13, <1>16 DEF Core, Apart
<1>18. Apart'
  BY <1>3, <1>6, <1>8, <1>10, <1>11, <1>12, <1>17 DEF Core, Apart
<1>19. Core' /\ HeapType' /\ ord' \in Orders /\ order <= ord' /\ ord = ord' + 1
  BY <1>1, <1>2, <1>7, <1>10, <1>14, <1>18 DEF Core
<1> QED BY <1>1, <1>3, <1>5, <1>11, <1>19, <1>a DEF h, lo, hi

(* alloc_pages returns: the block in hand is the caller's. *)
LEMMA AllocEndCore ==
    ASSUME TypeOK, BaseFixed, Core, AllocEnd
    PROVE  /\ Core' /\ Pending = {}
           /\ LET h == [page |-> page, order |-> ord]
              IN  /\ HandBlocks = {h}
                  /\ Moves(FreeBlocks, LiveBlocks \cup {h}, {}, {})
<1> DEFINE h == [page |-> page, order |-> ord]
<1>1. /\ pc = "split" /\ pc' = "idle" /\ ord = order
      /\ live' = live \cup {[addr |-> base + page, order |-> ord]}
      /\ base' = base /\ regions' = regions
      /\ free_lists' = free_lists /\ bitmaps' = bitmaps
  BY DEF AllocEnd, Return, heap
<1>2. HandBlocks = {h} /\ HandBlocks' = {} /\ FreeBlocks' = FreeBlocks
  BY <1>1 DEF HandBlocks, FreeBlocks
<1>3. LiveBlocks' = LiveBlocks \cup {h}
  <2>1. (base + page) - base = page
    BY DEF TypeOK
  <2>2. LiveBlocks' = {[page |-> b.addr - base, order |-> b.order] : b \in live'}
    BY <1>1 DEF LiveBlocks
  <2>3. ASSUME NEW x
        PROVE  x \in LiveBlocks' <=> x \in LiveBlocks \/ x = h
    <3> DEFINE n == [addr |-> base + page, order |-> ord]
    <3>1. [page |-> n.addr - base, order |-> n.order] = h
      <4>1. n.addr = base + page /\ n.order = ord
        OBVIOUS
      <4> HIDE DEF n
      <4>2. n.addr - base = page
        BY <2>1, <4>1
      <4> QED BY <4>1, <4>2
    <3>2. live' = live \cup {n}
      BY <1>1
    <3> HIDE DEF n, h
    <3> QED BY <2>2, <3>1, <3>2 DEF LiveBlocks
  <2> QED BY <2>3
<1>4. Pending = {} /\ Pending' = {}
  BY <1>1 DEF Pending
<1> HIDE DEF h
<1>5. Blocks' = Blocks
  BY <1>2, <1>3 DEF Blocks
<1>6. ListsOK' /\ HeldAligned'
  BY <1>1, <1>2, <1>3 DEF Core, ListsOK, HeldAligned
<1>7. Covered'
  BY <1>1, <1>4, <1>5 DEF Core, Covered
<1>8. Apart'
  BY <1>2, <1>3, <1>4, <1>5 DEF Core, Apart
<1>9. Moves(FreeBlocks, LiveBlocks \cup {h}, {}, {})
  BY <1>2, <1>3, <1>4 DEF Moves
<1> QED BY <1>2, <1>4, <1>6, <1>7, <1>8, <1>9 DEF Core, h

(* dealloc_pages begins: the caller's block is in hand. *)
LEMMA DeallocCore ==
    ASSUME TypeOK, BaseFixed, Core, NEW d \in live, Dealloc(d)
    PROVE  /\ Core' /\ Pending = {} /\ HandBlocks = {}
           /\ LET h == [page |-> d.addr - base, order |-> d.order]
              IN  /\ h \in LiveBlocks
                  /\ Moves(FreeBlocks, LiveBlocks \ {h}, {h}, {})
<1> DEFINE h == [page |-> d.addr - base, order |-> d.order]
<1>1. /\ pc = "idle" /\ pc' = "merge" /\ page' = d.addr - base /\ ord' = d.order
      /\ live' = live \ {d} /\ base' = base /\ regions' = regions
      /\ free_lists' = free_lists /\ bitmaps' = bitmaps
  BY DEF Dealloc, heap
<1>2. HandBlocks = {} /\ HandBlocks' = {h} /\ FreeBlocks' = FreeBlocks
  BY <1>1 DEF HandBlocks, FreeBlocks
<1>3. LiveBlocks' = LiveBlocks \ {h} /\ h \in LiveBlocks
  <2>1. \A e \in live : [page |-> e.addr - base, order |-> e.order] = h <=> e = d
    <3>1. ASSUME NEW e \in live PROVE /\ e.addr \in Nat /\ d.addr \in Nat
                                       /\ e = [addr |-> e.addr, order |-> e.order]
                                       /\ d = [addr |-> d.addr, order |-> d.order]
      BY DEF TypeOK
    <3>2. base \in Nat
      BY DEF TypeOK
    <3>3. ASSUME NEW e \in live, [page |-> e.addr - base, order |-> e.order] = h
          PROVE  e = d
      <4>1. e.addr - base = d.addr - base /\ e.order = d.order
        BY <3>3
      <4>2. e.addr = d.addr
        BY <3>1, <3>2, <4>1
      <4> QED BY <3>1, <4>1, <4>2
    <3> QED BY <3>3
  <2> QED BY <1>1, <2>1 DEF LiveBlocks
<1>4. Pending = {} /\ Pending' = {}
  BY <1>1 DEF Pending
<1> HIDE DEF h
<1>5. Blocks' = Blocks
  BY <1>2, <1>3 DEF Blocks
<1>6. ListsOK' /\ HeldAligned'
  BY <1>1, <1>2, <1>3 DEF Core, ListsOK, HeldAligned
<1>7. Covered'
  BY <1>1, <1>4, <1>5 DEF Core, Covered
<1>8. Apart'
  BY <1>2, <1>3, <1>4, <1>5 DEF Core, Apart
<1>9. Moves(FreeBlocks, LiveBlocks \ {h}, {h}, {})
  BY <1>2, <1>3, <1>4 DEF Moves
<1> QED BY <1>2, <1>3, <1>4, <1>6, <1>7, <1>8, <1>9 DEF Core, h

(* dealloc_pages merges: the free buddy leaves its list and joins the hand. *)
LEMMA MergeCore ==
    ASSUME TypeOK, BaseFixed, Core, Merge
    PROVE  /\ Core' /\ HeapType' /\ page' \in Nat /\ ord' \in Orders /\ Pending = {}
           /\ LET h  == [page |-> page, order |-> ord]
                  bd == [page |-> BuddyOf(page, ord), order |-> ord]
                  up == [page |-> page', order |-> ord']
              IN  /\ bd \in FreeBlocks /\ HandBlocks = {h}
                  /\ Pages(up) = Pages(h) \cup Pages(bd)
                  /\ Moves(FreeBlocks \ {bd}, LiveBlocks, {up}, {})
<1> DEFINE h  == [page |-> page, order |-> ord]
           bd == [page |-> BuddyOf(page, ord), order |-> ord]
           up == [page |-> page', order |-> ord + 1]
           s  == free_lists[ord]
<1>1. /\ pc = "merge" /\ pc' = "merge" /\ BuddyBitSet
      /\ page' = Min(page, BuddyOf(page, ord)) /\ ord' = ord + 1
      /\ live' = live /\ base' = base /\ regions' = regions
      /\ free_lists' = [free_lists EXCEPT ![ord] = Unlink(s, BuddyOf(page, ord))]
      /\ bitmaps' = [bitmaps EXCEPT ![ord] = Toggle(bitmaps[ord], PairBit(page, ord))]
  BY DEF Merge, TypeOK
<1>2. page \in Nat /\ ord \in Orders /\ ord + 1 \in Orders /\ s \in Seq(Nat)
  BY <1>1, MaxOrderAssumption DEF TypeOK, Orders, BuddyBitSet
<1>3. BuddyOf(page, ord) \in Elems(s)
  BY <1>1, SetBitMeansFreeBuddy DEF Core
<1>4. HandBlocks = {h} /\ HandBlocks' = {up} /\ LiveBlocks' = LiveBlocks
  BY <1>1 DEF HandBlocks, LiveBlocks
<1>5. AlignedTo(page, ord)
  <2>1. h \in LiveBlocks \cup HandBlocks
    BY <1>4
  <2>2. AlignedTo(h.page, h.order)
    BY <2>1 DEF Core, HeldAligned
  <2> QED BY <2>2
<1>6. /\ PairBit(BuddyOf(page, ord), ord) = PairBit(page, ord)
      /\ BuddyOf(page, ord) # page
  BY <1>2, <1>5, BuddyFacts
<1>7. NoDup(s)
  BY <1>2 DEF Core, ListsOK
<1>8. /\ Unlink(s, BuddyOf(page, ord)) \in Seq(Nat)
      /\ NoDup(Unlink(s, BuddyOf(page, ord)))
      /\ Elems(Unlink(s, BuddyOf(page, ord))) = Elems(s) \ {BuddyOf(page, ord)}
  BY <1>2, <1>3, <1>7, UnlinkProps
<1>9. HeapType' /\ ListsOK' /\ FreeBlocks' = FreeBlocks \ {bd}
  BY <1>1, <1>2, <1>3, <1>6, <1>8, TakeOffEffect DEF Core, HeapType, TypeOK
<1>10. bd \in FreeBlocks
  BY <1>2, <1>3, BlockOnList DEF FreeBlocks
<1>11. /\ page' \in Nat /\ AlignedTo(page', ord + 1)
       /\ Pages(up) = Pages(h) \cup Pages(bd)
  BY <1>1, <1>2, <1>5, ParentFacts
<1>12. page' \in Pages(up)
  BY <1>2, <1>11, PagesNonEmpty
<1>13. HeldAligned'
  BY <1>1, <1>4, <1>11 DEF Core, HeldAligned
<1>14. Pending = {} /\ Pending' = {}
  BY <1>1 DEF Pending
<1> HIDE DEF h, bd, up, s
<1>15. Blocks = (FreeBlocks \cup LiveBlocks) \cup {h}
  BY <1>4 DEF Blocks
<1>16. Blocks' = ((FreeBlocks \ {bd}) \cup LiveBlocks) \cup {up}
  BY <1>4, <1>9 DEF Blocks
<1>17. h \notin FreeBlocks \cup LiveBlocks /\ bd \notin LiveBlocks
  BY <1>4, <1>10 DEF Core, Apart
<1>18. \A b \in (FreeBlocks \ {bd}) \cup LiveBlocks :
           Pages(b) \cap Pages(h) = {} /\ Pages(b) \cap Pages(bd) = {}
  BY <1>10, <1>15, <1>17 DEF Core, Apart
<1>19. up \notin (FreeBlocks \ {bd}) \cup LiveBlocks
  BY <1>11, <1>12, <1>18
<1>20. Covered'
  BY <1>1, <1>10, <1>11, <1>14, <1>15, <1>16, <1>17 DEF Core, Covered
<1>21. \A b, c \in Blocks' : b # c => Pages(b) \cap Pages(c) = {}
  BY <1>11, <1>15, <1>16, <1>18 DEF Core, Apart
<1>22. Apart'
  BY <1>4, <1>9, <1>14, <1>19, <1>21 DEF Core, Apart
<1>23. Moves(FreeBlocks \ {bd}, LiveBlocks, {up}, {})
  BY <1>4, <1>9, <1>14 DEF Moves
<1>24. Core' /\ HeapType' /\ page' \in Nat /\ ord' \in Orders
  BY <1>1, <1>2, <1>9, <1>11, <1>13, <1>20, <1>22 DEF Core
<1> QED BY <1>1, <1>4, <1>10, <1>11, <1>14, <1>23, <1>24 DEF h, bd, up

(* dealloc_pages ends: the block in hand goes on the list of its order. *)
LEMMA DeallocEndCore ==
    ASSUME TypeOK, BaseFixed, Core, DeallocEnd
    PROVE  /\ Core' /\ HeapType' /\ Pending = {}
           /\ LET h == [page |-> page, order |-> ord]
              IN  /\ HandBlocks = {h} /\ h \notin FreeBlocks /\ AlignedTo(page, ord)
                  /\ Moves(FreeBlocks \cup {h}, LiveBlocks, {}, {})
<1> DEFINE h == [page |-> page, order |-> ord]
<1>1. /\ pc = "merge" /\ pc' = "idle" /\ FreeBlock(page, ord)
      /\ live' = live /\ base' = base /\ regions' = regions
  BY DEF DeallocEnd, Return
<1>2. page \in Nat /\ ord \in Orders
  BY DEF TypeOK
<1>3. HandBlocks = {h} /\ HandBlocks' = {} /\ LiveBlocks' = LiveBlocks
  BY <1>1 DEF HandBlocks, LiveBlocks
<1>4. AlignedTo(page, ord) /\ h \notin FreeBlocks /\ h \notin LiveBlocks
  BY <1>3 DEF Core, HeldAligned, Apart
<1>5. page \notin Elems(free_lists[ord])
  BY <1>2, <1>4, BlockOnList DEF FreeBlocks
<1>6. HeapType' /\ ListsOK' /\ FreeBlocks' = FreeBlocks \cup {h}
  BY <1>1, <1>2, <1>4, <1>5, FreeBlockEffect DEF Core, HeapType, TypeOK
<1>7. Pending = {} /\ Pending' = {}
  BY <1>1 DEF Pending
<1> HIDE DEF h
<1>8. Blocks' = Blocks
  BY <1>3, <1>6 DEF Blocks
<1>9. Covered' /\ HeldAligned'
  BY <1>1, <1>3, <1>7, <1>8 DEF Core, Covered, HeldAligned
<1>10. Apart'
  BY <1>3, <1>4, <1>6, <1>7, <1>8 DEF Core, Apart
<1>11. Moves(FreeBlocks \cup {h}, LiveBlocks, {}, {})
  BY <1>3, <1>6, <1>7 DEF Moves
<1>12. Core' /\ HeapType'
  BY <1>6, <1>9, <1>10 DEF Core
<1> QED BY <1>3, <1>4, <1>7, <1>11, <1>12 DEF h

(* Steps that move no block. *)
LEMMA IdleCore ==
    ASSUME TypeOK, BaseFixed, Core, pc = "idle",
           UNCHANGED <<free_lists, bitmaps, pc, live, regions>>,
           base' = base \/ live = {}
    PROVE  /\ Core' /\ HandBlocks = {} /\ Pending = {}
           /\ Moves(FreeBlocks, LiveBlocks, {}, {})
<1>1. FreeBlocks' = FreeBlocks /\ LiveBlocks' = LiveBlocks
  BY DEF FreeBlocks, LiveBlocks
<1>2. HandBlocks = {} /\ HandBlocks' = {} /\ Pending = {} /\ Pending' = {}
  BY DEF HandBlocks, Pending
<1>3. Blocks' = Blocks
  BY <1>1, <1>2 DEF Blocks
<1>5. Core'
  BY <1>1, <1>2, <1>3 DEF Core, ListsOK, HeldAligned, Apart, Covered
<1> QED BY <1>1, <1>2, <1>5 DEF Moves

(* add_region ends, with no page pending. *)
LEMMA AddEndCore ==
    ASSUME TypeOK, BaseFixed, Core, AddEnd
    PROVE  /\ Core' /\ HandBlocks = {} /\ Pending = {}
           /\ Moves(FreeBlocks, LiveBlocks, {}, {})
<1>1. /\ pc = "add" /\ pc' = "idle" /\ remaining = 0 /\ page \in Nat
      /\ UNCHANGED <<free_lists, bitmaps, live, regions, base>>
  BY DEF AddEnd, Return, heap, TypeOK
<1>2. FreeBlocks' = FreeBlocks /\ LiveBlocks' = LiveBlocks
  BY <1>1 DEF FreeBlocks, LiveBlocks
<1>3. HandBlocks = {} /\ HandBlocks' = {} /\ Pending = {} /\ Pending' = {}
  BY <1>1 DEF HandBlocks, Pending
<1>4. Blocks' = Blocks
  BY <1>2, <1>3 DEF Blocks
<1>5. Core'
  BY <1>1, <1>2, <1>3, <1>4 DEF Core, ListsOK, HeldAligned, Apart, Covered
<1> QED BY <1>2, <1>3, <1>5 DEF Moves

(* A push that ends in the panic of the bitmap keeps the lists' types. *)
LEMMA PushType ==
    ASSUME HeapType, NEW k \in Orders, NEW q \in Nat, FreeBlockPanic(q, k)
    PROVE  HeapType'
  BY PushFrontProps DEF HeapType, FreeBlockPanic

Stats == [total : Int, used : Int, free : Int, allocs : Int, deallocs : Int,
          peak : Int]

(* The counters are integers. *)
LEMMA StatsFields ==
    ASSUME NEW st \in Stats
    PROVE  /\ st.used \in Int /\ st.free \in Int /\ st.allocs \in Int
           /\ st.deallocs \in Int /\ st.peak \in Int
  BY DEF Stats

(* add_region's update of the counters keeps their type. *)
LEMMA StatsAdd ==
    ASSUME NEW st \in Stats, NEW a \in Int, NEW b \in Int
    PROVE  [st EXCEPT !.total = a, !.free = b] \in Stats
  BY DEF Stats

(* alloc_pages' update of the counters keeps their type. *)
LEMMA StatsAlloc ==
    ASSUME NEW st \in Stats, NEW a \in Int, NEW b \in Int, NEW c \in Int, NEW d \in Int
    PROVE  [st EXCEPT !.used = a, !.free = b, !.allocs = c, !.peak = d] \in Stats
  BY DEF Stats

(* dealloc_pages' update of the counters keeps their type. *)
LEMMA StatsDealloc ==
    ASSUME NEW st \in Stats, NEW a \in Int, NEW b \in Int, NEW c \in Int
    PROVE  [st EXCEPT !.used = a, !.free = b, !.deallocs = c] \in Stats
  BY DEF Stats

(* A call that returns leaves typed locals. *)
LEMMA ReturnType ==
    ASSUME Return
    PROVE  /\ pc' = "idle" /\ page' \in Nat /\ ord' \in Orders /\ order' \in Orders
           /\ remaining' \in Nat /\ page_count' \in Nat
  BY MaxOrderAssumption DEF Return, Orders

-----------------------------------------------------------------------------
(* Every step keeps the inductive invariant.                               *)

(* BuddyAllocator::new establishes the inductive invariant. *)
LEMMA IndInvInit == Init => IndInv
<1> SUFFICES ASSUME Init PROVE IndInv
  OBVIOUS
<1>1. TypeOK
  <2>1. 0 \in Orders
    BY MaxOrderAssumption DEF Orders
  <2> QED BY <2>1 DEF Init, TypeOK, NoStats
<1>2. \A k \in Orders : Elems(free_lists[k]) = {}
  BY DEF Init, Elems
<1>3. FreeBlocks = {} /\ LiveBlocks = {} /\ HandBlocks = {} /\ Pending = {}
  BY <1>2, BlocksOfMember DEF Init, FreeBlocks, LiveBlocks, HandBlocks, Pending
<1>4. BaseFixed
  BY <1>3 DEF Init, BaseFixed
<1>5. Blocks = {} /\ regions = {}
  BY <1>3 DEF Blocks, Init
<1>6. Apart /\ Covered /\ HeldAligned
  BY <1>3, <1>5 DEF Apart, Covered, HeldAligned
<1>7. ListsOK
  <2>1. \A k \in Orders : OneOfPair({}, k) = {}
    BY DEF OneOfPair
  <2>2. \A k \in Orders : free_lists[k] = <<>> /\ bitmaps[k] = {}
    BY DEF Init
  <2>3. NoDup(<<>>)
    BY DEF NoDup
  <2> QED BY <1>2, <2>1, <2>2, <2>3 DEF ListsOK
<1>8. ~Panicked
  BY DEF Init, Panicked
<1> QED BY <1>1, <1>4, <1>6, <1>7, <1>8, CoreIsInvariant DEF IndInv, Core

(* Every step keeps the types. *)
LEMMA TypeStep == IndInv /\ [Next]_vars => TypeOK'
<1> SUFFICES ASSUME IndInv, [Next]_vars PROVE TypeOK'
  OBVIOUS
<1>a. TypeOK /\ BaseFixed /\ HeapType /\ stats \in Stats
  BY DEF IndInv, TypeOK, HeapType, Stats
<1>b. ~Panicked => Core
  BY CoreIsInvariant DEF IndInv
<1>1. ASSUME NEW v \in Bases, SetBase(v) PROVE TypeOK'
  BY <1>a, <1>1, BoundsAssumption DEF TypeOK, SetBase, heap, locals
<1>2. CASE SetBasePanic \/ AllocPanic(MaxOrder)
  BY <1>a, <1>2 DEF TypeOK, SetBasePanic, AllocPanic, PanicNow, heap, locals
<1>3. ASSUME NEW v \in 0..MaxAddr, NEW n \in 0..(MaxAddr - v), AddRegion(v, n)
      PROVE  TypeOK'
  <2>1. v \in Nat /\ n \in Nat /\ v - base \in Nat
    BY <1>a, <1>3, BoundsAssumption DEF TypeOK, AddRegion
  <2>2. regions' \subseteq [start : Nat, size : Nat]
    BY <1>a, <1>3, <2>1 DEF TypeOK, AddRegion
  <2> QED BY <1>a, <1>3, <2>1, <2>2 DEF TypeOK, AddRegion, heap
<1>4. ASSUME NEW v \in 0..MaxAddr, AddRegionPanic(v) PROVE TypeOK'
  BY <1>a, <1>4 DEF TypeOK, AddRegionPanic, PanicNow, heap, locals
<1>5. ASSUME NEW o \in Orders, AllocNone(o) PROVE TypeOK'
  BY <1>a, <1>5 DEF TypeOK, AllocNone, heap, locals
<1>6. ASSUME NEW o \in Orders, AllocPop(o) PROVE TypeOK'
  <2>1. Core
    BY <1>b, <1>6 DEF AllocPop, Panicked
  <2>2. HeapType' /\ page' \in Nat /\ ord' \in Orders
    BY <1>a, <1>6, <2>1, AllocPopCore
  <2> QED BY <1>a, <1>6, <2>2 DEF TypeOK, AllocPop, HeapType
<1>7. ASSUME NEW d \in live, Dealloc(d) PROVE TypeOK'
  <2>1. d.addr - base \in Nat /\ d.order \in Orders
    BY <1>a DEF TypeOK, BaseFixed
  <2> QED BY <1>a, <1>7, <2>1 DEF TypeOK, Dealloc, heap
<1>8. CASE AddBlock
  <2>1. Core
    BY <1>b, <1>8 DEF AddBlock, Panicked
  <2>2. HeapType'
    BY <1>a, <1>8, <2>1, AddBlockCore
  <2>3. page' \in Nat /\ remaining' \in Nat
    <3>1. PICK k \in Orders : /\ Pow2[k] <= remaining /\ page' = page + Pow2[k]
                              /\ remaining' = remaining - Pow2[k]
      BY <1>8 DEF AddBlock, LargestFit, Fits
    <3>2. Pow2[k] \in Nat /\ page \in Nat /\ remaining \in Nat
      BY <1>a, Pow2Facts DEF TypeOK
    <3> QED BY <3>1, <3>2
  <2> QED BY <1>a, <1>8, <2>2, <2>3 DEF TypeOK, AddBlock, HeapType
<1>9. CASE AddBlockPanic
  <2>1. HeapType'
    BY <1>a, <1>9, PushType DEF AddBlockPanic, TypeOK
  <2> QED BY <1>a, <1>9, <2>1 DEF TypeOK, AddBlockPanic, HeapType, locals
<1>10. CASE AddEnd
  <2>1. total_pages' \in Nat /\ total_pages' - stats.used \in Int
    BY <1>a, <1>10, SMTT(30) DEF AddEnd, TypeOK
  <2>2. stats' \in Stats
    <3> DEFINE t == total_pages'
               f == total_pages' - stats.used
    <3>1. stats' = [stats EXCEPT !.total = t, !.free = f]
      BY <1>10 DEF AddEnd
    <3>2. t \in Int /\ f \in Int
      BY <2>1
    <3> HIDE DEF t, f
    <3> QED BY <1>a, <3>1, <3>2, StatsAdd
  <2> QED BY <1>a, <1>10, <2>1, <2>2, ReturnType DEF TypeOK, AddEnd, heap, Stats
<1>11. CASE Split
  <2>1. Core
    BY <1>b, <1>11 DEF Split, Panicked
  <2>2. HeapType' /\ ord' \in Orders
    BY <1>a, <1>11, <2>1, SplitCore
  <2> QED BY <1>a, <1>11, <2>2 DEF TypeOK, Split, HeapType
<1>12. CASE SplitPanic
  <2>1. ord' \in Orders
    <3>1. ord \in 0..(MaxOrder - 1) /\ order \in 0..(MaxOrder - 1)
      BY <1>a DEF TypeOK, Orders
    <3>2. ord > order /\ ord' = ord - 1
      BY <1>12 DEF SplitPanic
    <3> QED BY <3>1, <3>2, MaxOrderAssumption DEF Orders
  <2>2. page + Pow2[ord'] \in Nat
    <3>1. \A k \in Orders : Pow2[k] \in Nat
      BY Pow2Facts
    <3>2. Pow2[ord'] \in Nat
      BY <2>1, <3>1
    <3> QED BY <1>a, <3>2 DEF TypeOK
  <2>3. HeapType'
    BY <1>a, <1>12, <2>1, <2>2, PushType DEF SplitPanic
  <2> QED BY <1>a, <1>12, <2>1, <2>3 DEF TypeOK, SplitPanic, HeapType
<1>13. CASE AllocEnd
  <2>1. Pow2[order] \in Nat /\ base + page \in Nat
    BY <1>a, Pow2Facts, SMTT(30) DEF TypeOK
  <2>2. stats' \in Stats
    <3> DEFINE used == stats.used + Pow2[order]
               peak == IF used > stats.peak THEN used ELSE stats.peak
    <3>1. stats' = [stats EXCEPT !.used = used, !.free = stats.free - Pow2[order],
                                 !.allocs = stats.allocs + 1, !.peak = peak]
      BY <1>a, <1>13 DEF AllocEnd, Stats
    <3>2. used \in Int /\ peak \in Int /\ stats.free - Pow2[order] \in Int
          /\ stats.allocs + 1 \in Int
      BY <1>a, <2>1, StatsFields
    <3> HIDE DEF used, peak
    <3> QED BY <1>a, <3>1, <3>2, StatsAlloc
  <2>3. live' \subseteq [addr : Nat, order : Orders]
    BY <1>a, <1>13, <2>1, SMTT(30) DEF AllocEnd, TypeOK
  <2> QED BY <1>a, <1>13, <2>2, <2>3, ReturnType DEF TypeOK, AllocEnd, heap, Stats
<1>14. CASE Merge
  <2>1. Core
    BY <1>b, <1>14 DEF Merge, Panicked
  <2>2. HeapType' /\ page' \in Nat /\ ord' \in Orders
    BY <1>a, <1>14, <2>1, MergeCore
  <2> QED BY <1>a, <1>14, <2>2 DEF TypeOK, Merge, HeapType
<1>15. CASE DeallocEnd
  <2>1. Core
    BY <1>b, <1>15 DEF DeallocEnd, Panicked
  <2>2. HeapType'
    BY <1>a, <1>15, <2>1, DeallocEndCore
  <2>3. stats' \in Stats
    <3>1. stats' = [stats EXCEPT !.used = stats.used - Pow2[order],
                                 !.free = stats.free + Pow2[order],
                                 !.deallocs = stats.deallocs + 1]
      BY <1>a, <1>15 DEF DeallocEnd, Stats
    <3>2. Pow2[order] \in Nat
      BY <1>a, Pow2Facts DEF TypeOK
    <3>3. /\ stats.used - Pow2[order] \in Int /\ stats.free + Pow2[order] \in Int
          /\ stats.deallocs + 1 \in Int
      BY <1>a, <3>2, StatsFields
    <3> QED BY <1>a, <3>1, <3>3, StatsDealloc
  <2> QED BY <1>a, <1>15, <2>2, <2>3, ReturnType
          DEF TypeOK, DeallocEnd, HeapType, Stats
<1>16. CASE UNCHANGED vars
  BY <1>a, <1>16 DEF TypeOK, vars
<1> QED
  BY <1>1, <1>2, <1>3, <1>4, <1>5, <1>6, <1>7, <1>8, <1>9, <1>10, <1>11, <1>12,
     <1>13, <1>14, <1>15, <1>16 DEF Next, Call, Step, Halted

(* The base is set before the first region, and stays from then on. *)
LEMMA BaseStep == IndInv /\ [Next]_vars => BaseFixed'
<1> SUFFICES ASSUME IndInv, [Next]_vars PROVE BaseFixed'
  OBVIOUS
<1>a. TypeOK /\ BaseFixed /\ TypeOK'
  BY TypeStep DEF IndInv
<1>b. ~Panicked => Core
  BY CoreIsInvariant DEF IndInv
<1>1. ASSUME NEW v \in Bases, SetBase(v) PROVE BaseFixed'
  <2>1. FreeBlocks' = FreeBlocks
    BY <1>1 DEF SetBase, heap, FreeBlocks
  <2> QED BY <1>a, <1>1, <2>1 DEF BaseFixed, SetBase, heap, locals
<1>2. CASE SetBasePanic \/ AllocPanic(MaxOrder)
  BY <1>a, <1>2 DEF BaseFixed, SetBasePanic, AllocPanic, PanicNow, locals
<1>3. ASSUME NEW v \in 0..MaxAddr, NEW n \in 0..(MaxAddr - v), AddRegion(v, n)
      PROVE  BaseFixed'
  <2>1. FreeBlocks' = FreeBlocks
    BY <1>3 DEF AddRegion, heap, FreeBlocks
  <2>2. n \in Nat
    BY <1>3, BoundsAssumption
  <2> QED BY <1>a, <1>3, <2>1, <2>2 DEF BaseFixed, AddRegion
<1>4. ASSUME NEW v \in 0..MaxAddr, AddRegionPanic(v) PROVE BaseFixed'
  BY <1>a, <1>4 DEF BaseFixed, AddRegionPanic, PanicNow, locals
<1>5. ASSUME NEW o \in Orders, AllocNone(o) PROVE BaseFixed'
  <2>1. FreeBlocks' = FreeBlocks
    BY <1>5 DEF AllocNone, heap, FreeBlocks
  <2> QED BY <1>a, <1>5, <2>1 DEF BaseFixed, AllocNone, locals
<1>6. ASSUME NEW o \in Orders, AllocPop(o) PROVE BaseFixed'
  <2>1. Core
    BY <1>b, <1>6 DEF AllocPop, Panicked
  <2>2. o <= ord' /\ FreeBlocks # {}
    <3>1. o <= ord' /\ \E b \in FreeBlocks : Moves(FreeBlocks \ {b}, LiveBlocks, {b}, {})
      BY <1>a, <1>6, <2>1, AllocPopCore
    <3> QED BY <3>1
  <2> QED BY <1>a, <1>6, <2>2 DEF BaseFixed, AllocPop
<1>7. ASSUME NEW d \in live, Dealloc(d) PROVE BaseFixed'
  BY <1>a, <1>7 DEF BaseFixed, Dealloc
<1>8. CASE AddBlock
  <2>1. PICK k \in Orders : remaining' = remaining - Pow2[k]
    BY <1>8 DEF AddBlock
  <2>2. Pow2[k] \in Nat \ {0} /\ remaining \in Nat /\ page_count \in Nat
    BY <1>a, Pow2Facts DEF TypeOK
  <2>3. remaining' < page_count
    BY <1>a, <1>8, <2>1, <2>2 DEF BaseFixed, AddBlock
  <2>4. remaining' \in Int /\ remaining' <= page_count /\ remaining' # page_count
    BY <2>1, <2>2, <2>3
  <2>5. /\ pc' = "add" /\ live' = live /\ base' = base /\ total_pages' = total_pages
        /\ page_count' = page_count
    BY <1>8 DEF AddBlock
  <2> QED BY <1>a, <2>4, <2>5 DEF BaseFixed
<1>9. CASE AddBlockPanic
  BY <1>a, <1>9 DEF BaseFixed, AddBlockPanic
<1>10. CASE AddEnd
  <2>1. FreeBlocks' = FreeBlocks
    BY <1>10 DEF AddEnd, heap, FreeBlocks
  <2>2. /\ total_pages' = 0 => total_pages = 0 /\ page_count = 0
        /\ pc = "add" /\ pc' = "idle" /\ remaining = 0
    <3>1. total_pages \in Nat /\ page_count \in Nat
      BY <1>a DEF TypeOK
    <3>2. /\ total_pages' = total_pages + page_count
          /\ pc = "add" /\ pc' = "idle" /\ remaining = 0
      BY <1>10 DEF AddEnd, Return
    <3> QED BY <3>1, <3>2
  <2> QED BY <1>a, <1>10, <2>1, <2>2 DEF BaseFixed, AddEnd
<1>11. CASE Split
  <2>1. Core
    BY <1>b, <1>11 DEF Split, Panicked
  <2>2. order <= ord'
    BY <1>a, <1>11, <2>1, SplitCore
  <2> QED BY <1>a, <1>11, <2>2 DEF BaseFixed, Split
<1>12. CASE SplitPanic
  BY <1>a, <1>12 DEF BaseFixed, SplitPanic
<1>13. CASE AllocEnd
  <2>1. base \in Nat /\ page \in Nat /\ base + page >= base
    BY <1>a DEF TypeOK
  <2> QED BY <1>a, <1>13, <2>1 DEF BaseFixed, AllocEnd, Return
<1>14. CASE Merge
  BY <1>a, <1>14 DEF BaseFixed, Merge
<1>15. CASE DeallocEnd
  BY <1>a, <1>15 DEF BaseFixed, DeallocEnd, Return
<1>16. CASE UNCHANGED vars
  <2>1. FreeBlocks' = FreeBlocks
    BY <1>16 DEF vars, FreeBlocks
  <2> QED BY <1>a, <1>16, <2>1 DEF BaseFixed, vars
<1> QED
  BY <1>1, <1>2, <1>3, <1>4, <1>5, <1>6, <1>7, <1>8, <1>9, <1>10, <1>11, <1>12,
     <1>13, <1>14, <1>15, <1>16 DEF Next, Call, Step, Halted

(* Every step that does not panic keeps lists, bitmaps and pages in order. *)
LEMMA CoreStep == IndInv /\ [Next]_vars /\ ~Panicked' => Core'
<1> SUFFICES ASSUME IndInv, [Next]_vars, ~Panicked' PROVE Core'
  OBVIOUS
<1>a. TypeOK /\ BaseFixed
  BY DEF IndInv
<1>b. ~Panicked => Core
  BY CoreIsInvariant DEF IndInv
<1>1. ASSUME NEW v \in Bases, SetBase(v) PROVE Core'
  BY <1>a, <1>b, <1>1, IdleCore DEF SetBase, heap, Panicked, BaseFixed
<1>2. ASSUME NEW v \in 0..MaxAddr, NEW n \in 0..(MaxAddr - v), AddRegion(v, n)
      PROVE  Core'
  <2>1. v \in Nat /\ n \in Nat
    BY <1>2, BoundsAssumption
  <2> QED BY <1>a, <1>b, <1>2, <2>1, AddRegionCore DEF AddRegion, Panicked
<1>3. ASSUME NEW o \in Orders, AllocNone(o) PROVE Core'
  BY <1>a, <1>b, <1>3, IdleCore DEF AllocNone, heap, Panicked
<1>4. ASSUME NEW o \in Orders, AllocPop(o) PROVE Core'
  BY <1>a, <1>b, <1>4, AllocPopCore DEF AllocPop, Panicked
<1>5. ASSUME NEW d \in live, Dealloc(d) PROVE Core'
  BY <1>a, <1>b, <1>5, DeallocCore DEF Dealloc, Panicked
<1>6. CASE AddBlock
  BY <1>a, <1>b, <1>6, AddBlockCore DEF AddBlock, Panicked
<1>7. CASE AddEnd
  BY <1>a, <1>b, <1>7, AddEndCore DEF AddEnd, Panicked
<1>8. CASE Split
  BY <1>a, <1>b, <1>8, SplitCore DEF Split, Panicked
<1>9. CASE AllocEnd
  BY <1>a, <1>b, <1>9, AllocEndCore DEF AllocEnd, Panicked
<1>10. CASE Merge
  BY <1>a, <1>b, <1>10, MergeCore DEF Merge, Panicked
<1>11. CASE DeallocEnd
  BY <1>a, <1>b, <1>11, DeallocEndCore DEF DeallocEnd, Panicked
<1>12. CASE UNCHANGED vars
  <2>1. Core
    BY <1>b, <1>12 DEF vars, Panicked
  <2>2. /\ FreeBlocks' = FreeBlocks /\ LiveBlocks' = LiveBlocks
        /\ HandBlocks' = HandBlocks /\ Pending' = Pending
    BY <1>12 DEF vars, FreeBlocks, LiveBlocks, HandBlocks, Pending
  <2>3. Blocks' = Blocks
    BY <2>2 DEF Blocks
  <2> QED BY <1>12, <2>1, <2>2, <2>3
          DEF vars, Core, ListsOK, HeldAligned, Apart, Covered
<1>13. ASSUME SetBasePanic \/ AllocPanic(MaxOrder) \/ AddBlockPanic \/ SplitPanic
              \/ \E v \in 0..MaxAddr : AddRegionPanic(v)
       PROVE  FALSE
  BY <1>13 DEF SetBasePanic, AllocPanic, AddBlockPanic, SplitPanic, AddRegionPanic, PanicNow,
               Panicked
<1> QED
  BY <1>1, <1>2, <1>3, <1>4, <1>5, <1>6, <1>7, <1>8, <1>9, <1>10, <1>11, <1>12,
     <1>13 DEF Next, Call, Step, Halted

(* The invariant is inductive. *)
LEMMA IndInvStep == IndInv /\ [Next]_vars => IndInv'
<1> SUFFICES ASSUME IndInv, [Next]_vars PROVE IndInv'
  OBVIOUS
<1>1. TypeOK' /\ BaseFixed'
  BY TypeStep, BaseStep
<1>2. CASE Panicked'
  BY <1>1, <1>2 DEF IndInv, BlocksAligned, NoOverlap, NoPageLost, BitIsOneFreeBuddy
<1>3. CASE ~Panicked'
  <2>1. Core'
    BY <1>3, CoreStep
  <2>2. (BlocksAligned /\ NoOverlap /\ NoPageLost /\ BitIsOneFreeBuddy)'
    BY <1>3, <2>1, CoreIsInvariant, PTL
  <2> QED BY <1>1, <2>2 DEF IndInv
<1> QED BY <1>2, <1>3

(* The inductive invariant holds in every reachable state, for every number  *)
(* of orders, bitmap size and memory layout: buddy.rs keeps every page in    *)
(* exactly one place and its bitmaps in step with its lists.                 *)
THEOREM BuddyInvariant == Spec => []IndInv
  BY IndInvInit, IndInvStep, PTL DEF Spec

(* alloc_pages never hands out a page that another caller holds or that is   *)
(* still on a free list.                                                     *)
THEOREM BuddyNoOverlap == Spec => []NoOverlap
<1>1. IndInv => NoOverlap
  BY DEF IndInv
<1> QED BY <1>1, BuddyInvariant, PTL

(* No sequence of splits and merges loses a page of a region. *)
THEOREM BuddyNoPageLost == Spec => []NoPageLost
<1>1. IndInv => NoPageLost
  BY DEF IndInv
<1> QED BY <1>1, BuddyInvariant, PTL

(* A bit is set exactly when one buddy of its pair is on the list. *)
THEOREM BuddyBits == Spec => []BitIsOneFreeBuddy
<1>1. IndInv => BitIsOneFreeBuddy
  BY DEF IndInv
<1> QED BY <1>1, BuddyInvariant, PTL

(* dealloc_pages only unlinks a block that is on the list it edits. *)
THEOREM BuddyUnlink == Spec => []UnlinksOnlyFreeBuddy
<1>1. IndInv => UnlinksOnlyFreeBuddy
  <2> SUFFICES ASSUME IndInv, pc = "merge", BuddyBitSet
               PROVE  BuddyOf(page, ord) \in Elems(free_lists[ord])
    BY DEF UnlinksOnlyFreeBuddy
  <2>1. Core
    BY CoreIsInvariant DEF IndInv, Panicked
  <2> QED BY <2>1, SetBitMeansFreeBuddy DEF IndInv, Core
<1> QED BY <1>1, BuddyInvariant, PTL

-----------------------------------------------------------------------------
(* The second inductive invariant, on top of IndInv.                       *)

RegionsApart ==
    /\ \A r \in regions : r.size > 0
    /\ \A q, r \in regions : q # r => RegionPages(q) \cap RegionPages(r) = {}

(* The first page of the region being added. *)
CurStart == page + remaining - page_count

(* While add_region runs: the region is on the books; no free block reaches  *)
(* across its first page; and a lower buddy that the loop has just put on a  *)
(* list is not going to be followed by its upper buddy.                      *)
AddInv ==
    pc = "add" /\ page_count > 0 =>
        /\ [start |-> CurStart, size |-> page_count] \in regions
        /\ \A b \in FreeBlocks :
              b.page >= CurStart \/ b.page + Pow2[b.order] <= CurStart
        /\ \A b \in FreeBlocks :
              /\ b.page >= CurStart /\ b.page + Pow2[b.order] = page
              /\ b.order + 1 \in Orders /\ AlignedTo(b.page, b.order + 1)
              => remaining < Pow2[b.order]

(* CoalescedUpToSeams, block by block. *)
Coalesced ==
    \A b, c \in FreeBlocks :
        /\ b.order = c.order /\ b.order + 1 \in Orders
        /\ c.page = BuddyOf(b.page, b.order) /\ b.page < c.page
        => \E r \in regions : r.start = c.page

(* The bit of every block exists, so only free_block can index past the end. *)
BitsExist == \A b \in Blocks : InBitmap(PairBit(b.page, b.order))

Merging(n) == IF pc = "merge" THEN n ELSE 0

StatsInv ==
    /\ stats.total = total_pages
    /\ stats.free = total_pages - stats.used
    /\ IsFiniteSet(LivePages)
    /\ stats.used = Cardinality(LivePages) + Merging(Pow2[order])
    /\ IsFiniteSet(Registered)
    /\ Cardinality(Registered) = total_pages + IF pc = "add" THEN page_count ELSE 0
    /\ IsFiniteSet(live)
    /\ stats.allocs - stats.deallocs = Cardinality(live) + Merging(1)
    /\ stats.used <= stats.peak /\ stats.peak <= stats.total

ContractInv ==
    /\ IndInv
    /\ RegionsApart
    /\ ~Panicked => AddInv /\ Coalesced /\ BitsExist /\ StatsInv

-----------------------------------------------------------------------------
(* Arithmetic of nested blocks.                                            *)

(* Every set of naturals has a least element. *)
LEMMA LeastNatural ==
    ASSUME NEW S \in SUBSET Nat, S # {}
    PROVE  \E m \in S : \A n \in S : m <= n
<1>1. PICK x \in S : \A y \in S : ~(<<y, x>> \in OpToRel(<, Nat))
  BY WFMin, NatLessThanWellFounded
<1>2. \A y \in S : ~(y < x)
  BY <1>1 DEF OpToRel
<1> QED BY <1>2

(* A larger block is a whole number of smaller ones: by induction on the     *)
(* larger order, as the least order that is not.                             *)
LEMMA Pow2Multiple ==
    ASSUME NEW a \in Orders, NEW b \in Orders, a <= b
    PROVE  \E m \in Nat \ {0} : Pow2[b] = Pow2[a] * m
<1> DEFINE Good(c) == \E m \in Nat \ {0} : Pow2[c] = Pow2[a] * m
           Bad == {c \in Orders : a <= c /\ ~Good(c)}
<1> SUFFICES Bad = {}
  OBVIOUS
<1> SUFFICES ASSUME Bad # {} PROVE FALSE
  OBVIOUS
<1>1. Orders \subseteq Nat /\ \A c \in Orders : c - 1 >= 0 => c - 1 \in Orders
  BY MaxOrderAssumption DEF Orders
<1>2. PICK c \in Bad : \A d \in Bad : c <= d
  <2>1. Bad \in SUBSET Nat
    BY <1>1
  <2> HIDE DEF Bad
  <2> QED BY <2>1, LeastNatural
<1>3. c \in Orders /\ a <= c /\ c \in Nat /\ a \in Nat
  BY <1>1, <1>2
<1>4. Good(a)
  <2>1. Pow2[a] \in Nat \ {0}
    BY Pow2Facts
  <2>2. Pow2[a] = Pow2[a] * 1
    BY <2>1
  <2> QED BY <2>2
<1>5. c # a
  BY <1>2, <1>4
<1>6. c - 1 \in Orders /\ a <= c - 1 /\ c - 1 < c /\ (c - 1) + 1 = c
  BY <1>1, <1>3, <1>5
<1>7. Good(c - 1)
  <2>1. c - 1 \notin Bad
    <3> HIDE DEF Bad
    <3> QED BY <1>2, <1>3, <1>6
  <2> QED BY <1>6, <2>1
<1>8. PICK m \in Nat \ {0} : Pow2[c - 1] = Pow2[a] * m
  BY <1>7
<1>9. Pow2[c] = 2 * Pow2[c - 1] /\ Pow2[a] \in Nat
  BY <1>6, Pow2Facts
<1>10. Pow2[c] = Pow2[a] * (2 * m) /\ 2 * m \in Nat \ {0}
  <2>1. \A x \in Nat : 2 * (x * m) = x * (2 * m)
    OBVIOUS
  <2> QED BY <1>8, <1>9, <2>1
<1> QED BY <1>2, <1>10

(* Scaling keeps the order. *)
LEMMA ScaledOrder ==
    ASSUME NEW n \in Nat \ {0}, NEW i \in Int, NEW j \in Int
    PROVE  n * i < n * j <=> i < j
<1>1. ASSUME i < j PROVE n * i < n * j
  <2>1. n * j - n * i = n * (j - i)
    OBVIOUS
  <2>2. \A d \in Nat \ {0} : n * d > 0
    OBVIOUS
  <2>3. n * (j - i) > 0
    BY <1>1, <2>2
  <2> QED BY <2>1, <2>3
<1>2. ASSUME j <= i PROVE n * j <= n * i
  <2>1. n * i - n * j = n * (i - j)
    OBVIOUS
  <2>2. \A d \in Nat : n * d >= 0
    OBVIOUS
  <2>3. n * (i - j) >= 0
    BY <1>2, <2>2
  <2> QED BY <2>1, <2>3
<1>3. n * i \in Int /\ n * j \in Int
  OBVIOUS
<1> QED BY <1>1, <1>2, <1>3

(* Two aligned blocks that share a page are nested. *)
LEMMA AlignedBlocksNest ==
    ASSUME NEW a \in Orders, NEW b \in Orders, a <= b, NEW p \in Nat, NEW q \in Nat,
           AlignedTo(p, a), AlignedTo(q, b),
           Pages([page |-> p, order |-> a]) \cap Pages([page |-> q, order |-> b]) # {}
    PROVE  Pages([page |-> p, order |-> a]) \subseteq Pages([page |-> q, order |-> b])
<1> DEFINE n == Pow2[a]
           i == p \div n
           j == q \div Pow2[b]
<1>1. n \in Nat \ {0} /\ Pow2[b] \in Nat \ {0}
  BY Pow2Facts
<1>2. PICK m \in Nat \ {0} : Pow2[b] = n * m
  BY Pow2Multiple
<1>3. i \in Nat /\ p = n * i
  BY <1>1, AlignedIsMultiple DEF AlignedTo
<1>4. j \in Nat /\ q = Pow2[b] * j
  BY <1>1, AlignedIsMultiple DEF AlignedTo
<1> HIDE DEF n, i, j
<1>5. /\ q = n * (m * j) /\ q + Pow2[b] = n * (m * j + m) /\ p + n = n * (i + 1)
      /\ m * j \in Nat
  BY <1>1, <1>2, <1>3, <1>4
<1>6. p < q + Pow2[b] /\ q < p + n
  <2>1. PICK x \in (p..(p + n - 1)) \cap (q..(q + Pow2[b] - 1)) : TRUE
    BY DEF Pages, n
  <2> QED BY <1>1, <2>1
<1>7. i < m * j + m /\ m * j < i + 1
  BY <1>1, <1>3, <1>5, <1>6, ScaledOrder
<1>8. m * j <= i /\ i + 1 <= m * j + m
  BY <1>3, <1>5, <1>7
<1>9. ~(n * i < n * (m * j)) /\ ~(n * (m * j + m) < n * (i + 1))
  BY <1>1, <1>3, <1>5, <1>8, ScaledOrder
<1>10. q <= p /\ p + n <= q + Pow2[b]
  BY <1>1, <1>3, <1>4, <1>5, <1>9
<1>11. p..(p + n - 1) \subseteq q..(q + Pow2[b] - 1)
  BY <1>1, <1>10
<1> QED BY <1>11 DEF Pages, n

(* The lower buddy of a pair starts the block that the two make up. *)
LEMMA LowerBuddyAligned ==
    ASSUME NEW k \in Orders, k + 1 \in Orders, NEW p \in Nat, AlignedTo(p, k),
           p < BuddyOf(p, k)
    PROVE  AlignedTo(p, k + 1) /\ BuddyOf(p, k) = p + Pow2[k]
<1>1. Min(p, BuddyOf(p, k)) = p /\ BuddyOf(p, k) \in Nat
  BY BuddyFacts DEF Min
<1>2. AlignedTo(p, k + 1)
  BY <1>1, ParentFacts
<1> QED BY <1>2, HalvesFacts

-----------------------------------------------------------------------------
(* Steps and what they do to the blocks.                                   *)

(* A step that does not panic is one of these, from a state in order. *)
LEMMA StepCases ==
    ASSUME IndInv, [Next]_vars, ~Panicked'
    PROVE  /\ ~Panicked /\ TypeOK /\ BaseFixed /\ Core /\ TypeOK' /\ BaseFixed' /\ Core'
           /\ \/ \E v \in Bases : SetBase(v)
              \/ \E v \in Nat : \E n \in Nat : AddRegion(v, n)
              \/ \E o \in Orders : AllocNone(o)
              \/ \E o \in Orders : AllocPop(o)
              \/ \E d \in live : Dealloc(d)
              \/ AddBlock \/ AddEnd \/ Split \/ AllocEnd \/ Merge \/ DeallocEnd
              \/ UNCHANGED vars
<1>1. ~(\/ SetBasePanic \/ AllocPanic(MaxOrder) \/ AddBlockPanic \/ SplitPanic
        \/ \E v \in 0..MaxAddr : AddRegionPanic(v))
  BY DEF SetBasePanic, AllocPanic, AddBlockPanic, SplitPanic, AddRegionPanic, PanicNow, Panicked
<1>2. ASSUME NEW v \in 0..MaxAddr, NEW n \in 0..(MaxAddr - v), AddRegion(v, n)
      PROVE  \E w \in Nat : \E m \in Nat : AddRegion(w, m)
  BY <1>2, BoundsAssumption
<1>3. \/ \E v \in Bases : SetBase(v)
      \/ \E v \in Nat : \E n \in Nat : AddRegion(v, n)
      \/ \E o \in Orders : AllocNone(o)
      \/ \E o \in Orders : AllocPop(o)
      \/ \E d \in live : Dealloc(d)
      \/ AddBlock \/ AddEnd \/ Split \/ AllocEnd \/ Merge \/ DeallocEnd
      \/ UNCHANGED vars
  BY <1>1, <1>2 DEF Next, Call, Step, Halted
<1>4. ~Panicked
  BY <1>3 DEF SetBase, AddRegion, AllocNone, AllocPop, Dealloc, AddBlock, AddEnd,
              Split, AllocEnd, Merge, DeallocEnd, Panicked, vars
<1>5. Core /\ Core' /\ TypeOK' /\ BaseFixed'
  BY <1>4, CoreIsInvariant, CoreStep, TypeStep, BaseStep DEF IndInv
<1> QED BY <1>3, <1>4, <1>5 DEF IndInv

(* The fields of a block on a list. *)
LEMMA FreeBlockFields ==
    ASSUME TypeOK, Core, NEW b \in FreeBlocks
    PROVE  /\ b.page \in Nat /\ b.order \in Orders
           /\ b = [page |-> b.page, order |-> b.order]
           /\ AlignedTo(b.page, b.order)
           /\ b.page \in Elems(free_lists[b.order])
           /\ Pow2[b.order] \in Nat \ {0}
<1>1. PICK k \in Orders : \E p \in Elems(free_lists[k]) : b = [page |-> p, order |-> k]
  BY BlocksOfMember DEF FreeBlocks
<1>2. PICK p \in Elems(free_lists[k]) : b = [page |-> p, order |-> k]
  BY <1>1
<1>3. p \in Nat /\ AlignedTo(p, k)
  BY ElemsNat DEF TypeOK, Core, ListsOK
<1> QED BY <1>2, <1>3, Pow2Facts

(* Regions stay disjoint, by the contract of add_region. *)
LEMMA RegionsStep == TypeOK /\ RegionsApart /\ [Next]_vars => RegionsApart'
<1> SUFFICES ASSUME TypeOK, RegionsApart, [Next]_vars PROVE RegionsApart'
  OBVIOUS
<1>1. CASE regions' = regions
  BY <1>1 DEF RegionsApart
<1>2. ASSUME NEW v \in 0..MaxAddr, NEW n \in 0..(MaxAddr - v), AddRegion(v, n)
      PROVE  RegionsApart'
  <2> DEFINE r == [start |-> v - base, size |-> n]
  <2>1. n \in Nat /\ r.size = n
    BY <1>2, BoundsAssumption
  <2>2. /\ regions' = IF n = 0 THEN regions ELSE regions \cup {r}
        /\ \A q \in regions : RegionPages(q) \cap RegionPages(r) = {}
    BY <1>2 DEF AddRegion
  <2> HIDE DEF r
  <2>3. CASE n = 0
    BY <2>2, <2>3, <1>1
  <2>4. CASE n # 0
    <3>1. regions' = regions \cup {r} /\ r.size > 0
      BY <2>1, <2>2, <2>4
    <3> QED BY <2>2, <3>1 DEF RegionsApart
  <2> QED BY <2>3, <2>4
<1> QED
  BY <1>1, <1>2 DEF Next, Call, Step, Halted, vars, SetBase, SetBasePanic, AllocPanic, PanicNow,
     AddRegionPanic, AllocNone, AllocPop, Dealloc, AddBlock, AddBlockPanic, AddEnd,
     Split, SplitPanic, AllocEnd, Merge, DeallocEnd

(* A page on a list is a page of some region. *)
LEMMA ListedInRegion ==
    ASSUME Covered, NEW b \in Blocks, NEW x \in Pages(b)
    PROVE  \E r \in regions : x \in RegionPages(r)
  BY DEF Covered

(* add_region begins. *)
LEMMA AddRegionAddInv ==
    ASSUME TypeOK, BaseFixed, Core, NEW v \in Nat, NEW n \in Nat, AddRegion(v, n)
    PROVE  AddInv'
<1> DEFINE s == v - base
           r == [start |-> s, size |-> n]
<1>1. /\ FreeBlocks' = FreeBlocks /\ page' = s /\ remaining' = n /\ page_count' = n
      /\ s \in Nat /\ regions' = IF n = 0 THEN regions ELSE regions \cup {r}
      /\ \A q \in regions : RegionPages(q) \cap RegionPages(r) = {}
  BY DEF AddRegion, heap, FreeBlocks, TypeOK
<1>2. CurStart' = s
  BY <1>1 DEF CurStart
<1>3. SUFFICES ASSUME n > 0 PROVE AddInv'
  BY <1>1 DEF AddInv
<1>4. ASSUME NEW b \in FreeBlocks
      PROVE  b.page >= s \/ b.page + Pow2[b.order] <= s
  <2>1. b.page \in Nat /\ Pow2[b.order] \in Nat \ {0}
    BY FreeBlockFields
  <2>2. SUFFICES ASSUME b.page < s, b.page + Pow2[b.order] > s PROVE FALSE
    BY <1>1, <2>1
  <2>3. s \in Pages(b)
    BY <1>1, <2>1, <2>2 DEF Pages
  <2>4. PICK q \in regions : s \in RegionPages(q)
    BY <2>3, ListedInRegion DEF Core, Blocks
  <2>5. s \in RegionPages(r)
    BY <1>1, <1>3 DEF RegionPages
  <2> QED BY <1>1, <2>4, <2>5
<1>5. ASSUME NEW b \in FreeBlocks, b.page >= s, b.page + Pow2[b.order] = s
      PROVE  FALSE
  <2>1. b.page \in Nat /\ Pow2[b.order] \in Nat \ {0}
    BY FreeBlockFields
  <2> QED BY <1>1, <1>5, <2>1
<1>6. r \in regions'
  BY <1>1, <1>3
<1> HIDE DEF s
<1> QED BY <1>1, <1>2, <1>4, <1>5, <1>6 DEF AddInv

(* add_region's loop. *)
LEMMA AddBlockAddInv ==
    ASSUME TypeOK, BaseFixed, Core, AddInv, AddBlock
    PROVE  AddInv'
<1>1. PICK k \in Orders :
          LET b == [page |-> page, order |-> k]
          IN  /\ LargestFit(k)
              /\ page' = page + Pow2[k] /\ remaining' = remaining - Pow2[k]
              /\ Pages(b) \subseteq Pending
              /\ Moves(FreeBlocks \cup {b}, LiveBlocks, {}, Pending \ Pages(b))
  BY AddBlockCore
<1> DEFINE nb == [page |-> page, order |-> k]
<1>2. /\ FreeBlocks' = FreeBlocks \cup {nb} /\ Pages(nb) \subseteq Pending
      /\ pc = "add" /\ page_count' = page_count /\ regions' = regions
  BY <1>1 DEF Moves, AddBlock
<1>3. /\ page \in Nat /\ remaining \in Nat /\ page_count \in Nat
      /\ remaining <= page_count /\ Pow2[k] \in Nat \ {0}
  BY <1>2, Pow2Facts DEF TypeOK, BaseFixed
<1>4. CurStart' = CurStart /\ CurStart <= page /\ CurStart \in Int
  BY <1>1, <1>2, <1>3 DEF CurStart
<1>5. SUFFICES ASSUME page_count > 0 PROVE AddInv'
  BY <1>2 DEF AddInv
<1>6. /\ [start |-> CurStart, size |-> page_count] \in regions
      /\ \A b \in FreeBlocks :
            b.page >= CurStart \/ b.page + Pow2[b.order] <= CurStart
  BY <1>2, <1>5 DEF AddInv
<1>7. ASSUME NEW b \in FreeBlocks', b.page + Pow2[b.order] = page',
             b.order + 1 \in Orders, AlignedTo(b.page, b.order + 1)
      PROVE  remaining' < Pow2[b.order]
  <2>1. CASE b = nb
    <3>1. k + 1 \in Orders /\ AlignedTo(page, k + 1) /\ b.order = k
      BY <1>7, <2>1
    <3>2. ~Fits(k + 1)
      BY <1>1, <3>1 DEF LargestFit, Orders
    <3>3. ~(Pow2[k + 1] <= remaining) /\ Pow2[k + 1] = 2 * Pow2[k]
      BY <3>1, <3>2, Pow2Facts DEF Fits
    <3> QED BY <1>1, <1>3, <3>1, <3>3
  <2>2. CASE b \in FreeBlocks
    <3>1. b.page \in Nat /\ Pow2[b.order] \in Nat \ {0}
      BY <2>2, FreeBlockFields
    <3>2. page' - 1 \in Pages(b) /\ page' - 1 \in Pages(nb)
      BY <1>1, <1>3, <1>7, <3>1 DEF Pages
    <3>3. Pages(b) \cap Pending = {}
      BY <2>2 DEF Core, Apart, Blocks
    <3> QED BY <1>2, <3>2, <3>3
  <2> QED BY <1>2, <2>1, <2>2
<1>8. \A b \in FreeBlocks' :
          b.page >= CurStart \/ b.page + Pow2[b.order] <= CurStart
  BY <1>2, <1>4, <1>6
<1> QED BY <1>2, <1>4, <1>6, <1>7, <1>8 DEF AddInv

-----------------------------------------------------------------------------
(* Coalescing.                                                             *)

(* add_region leaves two free buddies only where its region meets another. *)
LEMMA AddBlockCoalesced ==
    ASSUME TypeOK, BaseFixed, Core, RegionsApart, AddInv, Coalesced, AddBlock
    PROVE  Coalesced'
<1>1. PICK k \in Orders :
          LET b == [page |-> page, order |-> k]
          IN  /\ LargestFit(k)
              /\ Pages(b) \subseteq Pending
              /\ Moves(FreeBlocks \cup {b}, LiveBlocks, {}, Pending \ Pages(b))
  BY AddBlockCore
<1> DEFINE nb == [page |-> page, order |-> k]
           cur == [start |-> CurStart, size |-> page_count]
<1>2. /\ FreeBlocks' = FreeBlocks \cup {nb} /\ Pages(nb) \subseteq Pending
      /\ pc = "add" /\ regions' = regions /\ remaining > 0
      /\ Pending = page..(page + remaining - 1)
  BY <1>1 DEF Moves, AddBlock, Pending
<1>3. /\ page \in Nat /\ remaining \in Nat /\ page_count \in Nat
      /\ remaining <= page_count /\ Pow2[k] \in Nat \ {0}
      /\ AlignedTo(page, k) /\ Pow2[k] <= remaining
  BY <1>1, <1>2, Pow2Facts DEF TypeOK, BaseFixed, LargestFit, Fits
<1>4. page_count > 0
  BY <1>2, <1>3
<1>5. /\ cur \in regions
      /\ \A b \in FreeBlocks :
            b.page >= CurStart \/ b.page + Pow2[b.order] <= CurStart
      /\ \A b \in FreeBlocks :
              /\ b.page >= CurStart /\ b.page + Pow2[b.order] = page
              /\ b.order + 1 \in Orders /\ AlignedTo(b.page, b.order + 1)
              => remaining < Pow2[b.order]
  BY <1>2, <1>4 DEF AddInv
<1>6. CurStart \in Int /\ CurStart <= page /\ cur.start = CurStart
      /\ CurStart + page_count = page + remaining
  BY <1>3 DEF CurStart
<1>7. SUFFICES ASSUME NEW b \in FreeBlocks', NEW c \in FreeBlocks',
                      b.order = c.order, b.order + 1 \in Orders,
                      c.page = BuddyOf(b.page, b.order), b.page < c.page
               PROVE  \E r \in regions : r.start = c.page
  BY <1>2 DEF Coalesced
<1>8. CASE b \in FreeBlocks /\ c \in FreeBlocks
  BY <1>7, <1>8 DEF Coalesced
<1>9. CASE b = nb /\ c \in FreeBlocks
  <2>1. b.page = page /\ b.order = k /\ k + 1 \in Orders /\ c.order = k
        /\ c.page = BuddyOf(page, k) /\ page < BuddyOf(page, k)
    BY <1>7, <1>9
  <2>2. c.page = page + Pow2[k]
    BY <1>3, <2>1, LowerBuddyAligned
  <2>3. c.page \in Pages(c)
    BY <1>9, FreeBlockFields, PagesNonEmpty
  <2>4. c.page \notin Pending
    BY <1>9, <2>3 DEF Core, Apart, Blocks
  <2>5. c.page = page + remaining
    BY <1>2, <1>3, <2>2, <2>4
  <2>6. PICK r \in regions : c.page \in RegionPages(r)
    BY <1>9, <2>3, ListedInRegion DEF Core, Blocks
  <2>7. r.start \in Nat /\ r.size \in Nat
    BY <2>6 DEF TypeOK
  <2>8. r # cur
    <3>1. c.page \notin RegionPages(cur)
      BY <1>3, <1>6, <2>5 DEF RegionPages
    <3> QED BY <2>6, <3>1
  <2>9. c.page - 1 \in RegionPages(cur)
    BY <1>2, <1>3, <1>6, <2>5 DEF RegionPages
  <2>10. c.page - 1 \notin RegionPages(r)
    BY <1>5, <2>8, <2>9 DEF RegionsApart
  <2>11. r.start = c.page
    BY <1>3, <2>5, <2>6, <2>7, <2>10 DEF RegionPages
  <2> QED BY <2>11
<1>10. CASE b \in FreeBlocks /\ c = nb
  <2>1. c.page = page /\ c.order = k /\ b.order = k /\ k + 1 \in Orders
        /\ BuddyOf(b.page, k) = page /\ b.page < page
    BY <1>7, <1>10
  <2>2. b.page \in Nat /\ AlignedTo(b.page, k)
    BY <1>10, <2>1, FreeBlockFields
  <2>3. AlignedTo(b.page, k + 1) /\ page = b.page + Pow2[k]
    BY <2>1, <2>2, LowerBuddyAligned
  <2>4. ~(b.page >= CurStart)
    <3> SUFFICES ASSUME b.page >= CurStart PROVE FALSE
      OBVIOUS
    <3>1. remaining < Pow2[k]
      BY <1>5, <1>10, <2>1, <2>3
    <3> QED BY <1>3, <3>1
  <2>5. page <= CurStart
    BY <1>5, <1>10, <2>1, <2>3, <2>4
  <2>6. cur.start = c.page
    BY <1>3, <1>6, <2>1, <2>5
  <2> QED BY <1>5, <2>6
<1>11. CASE b = nb /\ c = nb
  <2>1. b.page = page /\ c.page = page
    BY <1>11
  <2> QED BY <1>3, <1>7, <2>1
<1> QED BY <1>2, <1>7, <1>8, <1>9, <1>10, <1>11

(* alloc_pages splits: the other half is in hand. *)
LEMMA SplitCoalesced ==
    ASSUME TypeOK, BaseFixed, Core, Coalesced, Split
    PROVE  Coalesced'
<1> DEFINE lo == [page |-> page, order |-> ord']
           hi == [page |-> page + Pow2[ord'], order |-> ord']
<1>1. /\ Core' /\ ord' \in Orders
      /\ BuddyOf(page, ord') = page + Pow2[ord'] /\ AlignedTo(page, ord')
      /\ page + Pow2[ord'] \in Nat
      /\ FreeBlocks' = FreeBlocks \cup {hi} /\ HandBlocks' = {lo}
      /\ regions' = regions /\ page \in Nat
  BY SplitCore DEF Moves, Split, TypeOK
<1>2. lo \notin FreeBlocks'
  BY <1>1 DEF Core, Apart
<1>3. /\ BuddyOf(page + Pow2[ord'], ord') = page
      /\ page # page + Pow2[ord']
  BY <1>1, BuddyFacts
<1>4. SUFFICES ASSUME NEW b \in FreeBlocks', NEW c \in FreeBlocks',
                      b.order = c.order, b.order + 1 \in Orders,
                      c.page = BuddyOf(b.page, b.order), b.page < c.page
               PROVE  \E r \in regions : r.start = c.page
  BY <1>1 DEF Coalesced
<1>5. CASE b \in FreeBlocks /\ c \in FreeBlocks
  BY <1>4, <1>5 DEF Coalesced
<1>6. CASE b = hi
  <2>1. c.page = page /\ c.order = ord'
    BY <1>3, <1>4, <1>6
  <2>2. c # hi
    BY <1>3, <2>1
  <2>a. c \in FreeBlocks
    BY <1>1, <1>4, <2>2
  <2>3. c = lo
    BY <2>1, <2>a, FreeBlockFields
  <2> QED BY <1>2, <1>4, <2>3
<1>7. CASE b \in FreeBlocks /\ c = hi
  <2>1. /\ b.order = ord' /\ b.page \in Nat /\ AlignedTo(b.page, ord')
        /\ BuddyOf(b.page, ord') = page + Pow2[ord']
        /\ b = [page |-> b.page, order |-> b.order]
    BY <1>4, <1>7, FreeBlockFields
  <2>2. b.page = page
    BY <1>1, <1>3, <2>1, BuddyFacts
  <2> QED BY <1>2, <1>4, <2>1, <2>2
<1> QED BY <1>1, <1>4, <1>5, <1>6, <1>7

(* dealloc_pages ends: the bit says that the buddy is not on the list. *)
LEMMA DeallocEndCoalesced ==
    ASSUME TypeOK, BaseFixed, Core, Coalesced, DeallocEnd
    PROVE  Coalesced'
<1> DEFINE h == [page |-> page, order |-> ord]
<1>1. /\ h \notin FreeBlocks /\ AlignedTo(page, ord)
      /\ FreeBlocks' = FreeBlocks \cup {h} /\ regions' = regions
      /\ page \in Nat /\ ord \in Orders /\ ~BuddyBitSet
  BY DeallocEndCore DEF Moves, DeallocEnd, TypeOK
<1>2. /\ BuddyOf(BuddyOf(page, ord), ord) = page /\ BuddyOf(page, ord) \in Nat
      /\ PairBit(BuddyOf(page, ord), ord) = PairBit(page, ord)
  BY <1>1, BuddyFacts
<1>3. ord + 1 \in Orders => BuddyOf(page, ord) \notin Elems(free_lists[ord])
  <2> SUFFICES ASSUME ord + 1 \in Orders, BuddyOf(page, ord) \in Elems(free_lists[ord])
               PROVE  FALSE
    OBVIOUS
  <2>1. page \notin Elems(free_lists[ord])
    BY <1>1, BlockOnList DEF FreeBlocks
  <2>2. PairBit(page, ord) \in OneOfPair(Elems(free_lists[ord]), ord)
    BY <1>2, <2>1 DEF OneOfPair
  <2>3. PairBit(page, ord) \in bitmaps[ord]
    BY <1>1, <2>2 DEF Core, ListsOK
  <2>4. ord < MaxOrder - 1
    BY <1>1, MaxOrderAssumption DEF Orders
  <2> QED BY <1>1, <2>3, <2>4 DEF BuddyBitSet
<1>4. SUFFICES ASSUME NEW b \in FreeBlocks', NEW c \in FreeBlocks',
                      b.order = c.order, b.order + 1 \in Orders,
                      c.page = BuddyOf(b.page, b.order), b.page < c.page
               PROVE  \E r \in regions : r.start = c.page
  BY <1>1 DEF Coalesced
<1>5. CASE b \in FreeBlocks /\ c \in FreeBlocks
  BY <1>4, <1>5 DEF Coalesced
<1>6. CASE b = h /\ c \in FreeBlocks
  BY <1>3, <1>4, <1>6, FreeBlockFields
<1>7. CASE b \in FreeBlocks /\ c = h
  <2>1. b.order = ord /\ b.page \in Nat /\ AlignedTo(b.page, ord)
        /\ BuddyOf(b.page, ord) = page /\ b.page \in Elems(free_lists[ord])
        /\ ord + 1 \in Orders
    BY <1>4, <1>7, FreeBlockFields
  <2>2. b.page = BuddyOf(page, ord)
    BY <1>1, <2>1, BuddyFacts
  <2> QED BY <1>3, <2>1, <2>2
<1>8. CASE b = h /\ c = h
  BY <1>1, <1>4, <1>8
<1> QED BY <1>1, <1>4, <1>5, <1>6, <1>7, <1>8

(* The step lemmas together: AddInv and Coalesced. *)
LEMMA SeamsStep ==
    ASSUME IndInv, RegionsApart, AddInv, Coalesced, [Next]_vars, ~Panicked'
    PROVE  AddInv' /\ Coalesced'
<1>a. TypeOK /\ BaseFixed /\ Core
  BY StepCases
<1>b. ASSUME FreeBlocks' \subseteq FreeBlocks, regions \subseteq regions'
      PROVE  Coalesced'
  BY <1>b DEF Coalesced
<1>1. ASSUME NEW v \in Bases, SetBase(v) PROVE AddInv' /\ Coalesced'
  <2>1. FreeBlocks' = FreeBlocks /\ regions' = regions /\ pc' # "add"
    BY <1>1 DEF SetBase, heap, FreeBlocks
  <2> QED BY <1>b, <2>1 DEF AddInv
<1>2. ASSUME NEW v \in Nat, NEW n \in Nat, AddRegion(v, n) PROVE AddInv' /\ Coalesced'
  <2>1. FreeBlocks' = FreeBlocks /\ regions \subseteq regions'
    BY <1>2 DEF AddRegion, heap, FreeBlocks
  <2> QED BY <1>a, <1>b, <1>2, <2>1, AddRegionAddInv
<1>3. ASSUME NEW o \in Orders, AllocNone(o) PROVE AddInv' /\ Coalesced'
  <2>1. FreeBlocks' = FreeBlocks /\ regions' = regions /\ pc' # "add"
    BY <1>3 DEF AllocNone, heap, FreeBlocks
  <2> QED BY <1>b, <2>1 DEF AddInv
<1>4. ASSUME NEW o \in Orders, AllocPop(o) PROVE AddInv' /\ Coalesced'
  <2>1. PICK b \in FreeBlocks : Moves(FreeBlocks \ {b}, LiveBlocks, {b}, {})
    BY <1>a, <1>4, AllocPopCore
  <2>2. FreeBlocks' \subseteq FreeBlocks /\ regions' = regions /\ pc' # "add"
    BY <1>4, <2>1 DEF Moves, AllocPop
  <2> QED BY <1>b, <2>2 DEF AddInv
<1>5. ASSUME NEW d \in live, Dealloc(d) PROVE AddInv' /\ Coalesced'
  <2>1. FreeBlocks' = FreeBlocks /\ regions' = regions /\ pc' # "add"
    BY <1>5 DEF Dealloc, heap, FreeBlocks
  <2> QED BY <1>b, <2>1 DEF AddInv
<1>6. CASE AddBlock
  BY <1>a, <1>6, AddBlockAddInv, AddBlockCoalesced
<1>7. CASE AddEnd
  <2>1. FreeBlocks' = FreeBlocks /\ regions' = regions /\ pc' # "add"
    BY <1>7 DEF AddEnd, Return, heap, FreeBlocks
  <2> QED BY <1>b, <2>1 DEF AddInv
<1>8. CASE Split
  <2>1. pc' # "add"
    BY <1>8 DEF Split
  <2> QED BY <1>a, <1>8, <2>1, SplitCoalesced DEF AddInv
<1>9. CASE AllocEnd
  <2>1. FreeBlocks' = FreeBlocks /\ regions' = regions /\ pc' # "add"
    BY <1>9 DEF AllocEnd, Return, heap, FreeBlocks
  <2> QED BY <1>b, <2>1 DEF AddInv
<1>10. CASE Merge
  <2>1. \E bd : Moves(FreeBlocks \ {bd}, LiveBlocks, HandBlocks', {})
    BY <1>a, <1>10, MergeCore DEF Moves
  <2>2. FreeBlocks' \subseteq FreeBlocks /\ regions' = regions /\ pc' # "add"
    BY <1>10, <2>1 DEF Moves, Merge
  <2> QED BY <1>b, <2>2 DEF AddInv
<1>11. CASE DeallocEnd
  <2>1. pc' # "add"
    BY <1>11 DEF DeallocEnd, Return
  <2> QED BY <1>a, <1>11, <2>1, DeallocEndCoalesced DEF AddInv
<1>12. CASE UNCHANGED vars
  <2>1. FreeBlocks' = FreeBlocks /\ CurStart' = CurStart
    BY <1>12 DEF vars, FreeBlocks, CurStart
  <2>2. Coalesced'
    BY <1>b, <1>12, <2>1 DEF vars
  <2>3. pc' = pc /\ regions' = regions /\ page' = page /\ remaining' = remaining
        /\ page_count' = page_count
    BY <1>12 DEF vars
  <2> QED BY <2>1, <2>2, <2>3 DEF AddInv
<1> QED
  BY StepCases, <1>1, <1>2, <1>3, <1>4, <1>5, <1>6, <1>7, <1>8, <1>9, <1>10, <1>11,
     <1>12

-----------------------------------------------------------------------------
(* Bitmap indices.                                                         *)

(* Every block has a bit: only the pushes of add_region and of a split can  *)
(* meet a page beyond the bitmap, and those test it.                        *)
LEMMA BitsStep ==
    ASSUME IndInv, BitsExist, [Next]_vars, ~Panicked'
    PROVE  BitsExist'
<1>a. TypeOK /\ BaseFixed /\ Core
  BY StepCases
<1>b. ASSUME NEW F, NEW L, NEW H, NEW P, Moves(F, L, H, P),
             \A b \in F \cup L \cup H : InBitmap(PairBit(b.page, b.order))
      PROVE  BitsExist'
  BY <1>b DEF Moves, BitsExist, Blocks, InBitmap, PairBit
<1>c. \A b \in FreeBlocks \cup LiveBlocks \cup HandBlocks :
          InBitmap(PairBit(b.page, b.order))
  BY DEF BitsExist, Blocks
<1>1. ASSUME NEW v \in Bases, SetBase(v) PROVE BitsExist'
  <2>1. Moves(FreeBlocks, LiveBlocks, {}, {})
    BY <1>a, <1>1, IdleCore DEF SetBase, heap, BaseFixed
  <2> QED BY <1>b, <1>c, <2>1
<1>2. ASSUME NEW v \in Nat, NEW n \in Nat, AddRegion(v, n) PROVE BitsExist'
  BY <1>a, <1>b, <1>c, <1>2, AddRegionCore
<1>3. ASSUME NEW o \in Orders, AllocNone(o) PROVE BitsExist'
  <2>1. Moves(FreeBlocks, LiveBlocks, {}, {})
    BY <1>a, <1>3, IdleCore DEF AllocNone, heap
  <2> QED BY <1>b, <1>c, <2>1
<1>4. ASSUME NEW o \in Orders, AllocPop(o) PROVE BitsExist'
  <2>1. PICK b \in FreeBlocks : Moves(FreeBlocks \ {b}, LiveBlocks, {b}, {})
    BY <1>a, <1>4, AllocPopCore
  <2> QED BY <1>b, <1>c, <2>1
<1>5. ASSUME NEW d \in live, Dealloc(d) PROVE BitsExist'
  <2>1. \E h \in LiveBlocks : Moves(FreeBlocks, LiveBlocks \ {h}, {h}, {})
    BY <1>a, <1>5, DeallocCore
  <2> QED BY <1>b, <1>c, <2>1
<1>6. CASE AddBlock
  <2>1. PICK k \in Orders : \E P :
            /\ InBitmap(PairBit(page, k))
            /\ Moves(FreeBlocks \cup {[page |-> page, order |-> k]}, LiveBlocks, {}, P)
    BY <1>a, <1>6, AddBlockCore
  <2> QED BY <1>b, <1>c, <2>1
<1>7. CASE AddEnd
  <2>1. Moves(FreeBlocks, LiveBlocks, {}, {})
    BY <1>a, <1>7, AddEndCore
  <2> QED BY <1>b, <1>c, <2>1
<1>8. CASE Split
  <2> DEFINE lo == [page |-> page, order |-> ord']
             hi == [page |-> page + Pow2[ord'], order |-> ord']
  <2>1. /\ PairBit(page + Pow2[ord'], ord') = PairBit(page, ord')
        /\ InBitmap(PairBit(page, ord'))
        /\ Moves(FreeBlocks \cup {hi}, LiveBlocks, {lo}, {})
    BY <1>a, <1>8, SplitCore
  <2>2. \A b \in {lo, hi} : InBitmap(PairBit(b.page, b.order))
    BY <2>1
  <2> HIDE DEF lo, hi
  <2> QED BY <1>b, <1>c, <2>1, <2>2
<1>9. CASE AllocEnd
  <2>1. \E h \in HandBlocks : Moves(FreeBlocks, LiveBlocks \cup {h}, {}, {})
    BY <1>a, <1>9, AllocEndCore
  <2> QED BY <1>b, <1>c, <2>1
<1>10. CASE Merge
  <2> DEFINE h  == [page |-> page, order |-> ord]
             bd == [page |-> BuddyOf(page, ord), order |-> ord]
             up == [page |-> page', order |-> ord']
  <2>1. /\ bd \in FreeBlocks /\ HandBlocks = {h} /\ page' \in Nat
        /\ Moves(FreeBlocks \ {bd}, LiveBlocks, {up}, {})
    BY <1>a, <1>10, MergeCore
  <2>2. /\ page' = Min(page, BuddyOf(page, ord)) /\ ord' = ord + 1
        /\ ord \in Orders /\ ord + 1 \in Orders
    BY <1>a, <1>10, MaxOrderAssumption DEF Merge, TypeOK, BuddyBitSet, Orders
  <2>3. InBitmap(PairBit(page', ord))
    <3>1. InBitmap(PairBit(page, ord)) /\ InBitmap(PairBit(BuddyOf(page, ord), ord))
      <4>1. /\ h.page = page /\ h.order = ord
            /\ bd.page = BuddyOf(page, ord) /\ bd.order = ord
        OBVIOUS
      <4> HIDE DEF h, bd
      <4>2. InBitmap(PairBit(h.page, h.order)) /\ InBitmap(PairBit(bd.page, bd.order))
        BY <1>c, <2>1
      <4> QED BY <4>1, <4>2
    <3> QED BY <2>2, <3>1 DEF Min
  <2>4. PairBit(page', ord') = PairBit(page', ord) \div 2
    <3>1. Pow2[ord + 2] = 2 * Pow2[ord + 1] /\ Pow2[ord + 1] \in Nat \ {0}
      <4>1. ord + 1 + 1 = ord + 2
        BY <2>2 DEF Orders
      <4> QED BY <2>2, <4>1, Pow2Facts
    <3>2. PairBit(page', ord') = page' \div Pow2[ord + 2]
      <4>1. ord + 1 + 1 = ord + 2
        BY <2>2 DEF Orders
      <4> QED BY <2>2, <4>1 DEF PairBit
    <3> QED BY <2>1, <3>1, <3>2, ShiftOnce DEF PairBit
  <2>5. InBitmap(PairBit(page', ord'))
    <3>1. PairBit(page', ord) \in Nat
      BY <2>1, <2>2, PairBitNat
    <3>2. \A n \in Nat : n \div 2 <= n /\ n \div 2 \in Nat
      OBVIOUS
    <3> QED BY <2>3, <2>4, <3>1, <3>2, BoundsAssumption DEF InBitmap
  <2>6. \A b \in {up} : InBitmap(PairBit(b.page, b.order))
    BY <2>5
  <2> HIDE DEF bd, up
  <2> QED BY <1>b, <1>c, <2>1, <2>6
<1>11. CASE DeallocEnd
  <2>1. \E h \in HandBlocks : Moves(FreeBlocks \cup {h}, LiveBlocks, {}, {})
    BY <1>a, <1>11, DeallocEndCore
  <2> QED BY <1>b, <1>c, <2>1
<1>12. CASE UNCHANGED vars
  <2>1. Moves(FreeBlocks, LiveBlocks, HandBlocks, Pending)
    BY <1>12 DEF vars, Moves, FreeBlocks, LiveBlocks, HandBlocks, Pending
  <2> QED BY <1>b, <1>c, <2>1
<1> QED
  BY StepCases, <1>1, <1>2, <1>3, <1>4, <1>5, <1>6, <1>7, <1>8, <1>9, <1>10, <1>11,
     <1>12

(* A page whose bit does not exist lies past what the bitmap covers. *)
LEMMA PastBitmap ==
    ASSUME NEW p \in Nat, NEW k \in Orders, ~InBitmap(PairBit(p, k))
    PROVE  p >= 2 * BitmapBits
<1> DEFINE n == Pow2[k + 1]
           i == p \div n
<1>1. n \in Nat \ {0} /\ n >= 2
  BY Pow2Facts
<1> HIDE DEF n
<1>2. i \in Nat /\ n * i <= p
  <2>1. \A x \in Nat \ {0} : p \div x \in Nat /\ x * (p \div x) <= p
    OBVIOUS
  <2> QED BY <1>1, <2>1
<1>3. i >= BitmapBits /\ BitmapBits \in Nat
  BY <1>2, BoundsAssumption DEF InBitmap, PairBit, n
<1> HIDE DEF i
<1>4. n * i >= 2 * i
  BY <1>1, <1>2
<1> QED BY <1>1, <1>2, <1>3, <1>4

(* A panic of an operation in progress: a block past the bitmap. *)
LEMMA PanicStep ==
    ASSUME IndInv, [Next]_vars, pc # "idle", ~Panicked, Panicked'
    PROVE  \E r \in regions : r.start + r.size > 2 * BitmapBits
<1>1. TypeOK /\ BaseFixed /\ Core
  BY CoreIsInvariant DEF IndInv
<1>2. AddBlockPanic \/ SplitPanic
  BY DEF Next, Call, Step, Halted, SetBase, SetBasePanic, AllocPanic, AddRegion, AddRegionPanic,
         AllocNone, AllocPop, Dealloc, AddBlock, AddEnd, Split, AllocEnd, Merge,
         DeallocEnd, Panicked, vars, Return
<1>3. ASSUME NEW x \in Nat, x >= 2 * BitmapBits, NEW r \in regions, x \in RegionPages(r)
      PROVE  r.start + r.size > 2 * BitmapBits
  <2>1. r.start \in Nat /\ r.size \in Nat
    BY <1>1 DEF TypeOK
  <2> QED BY <1>3, <2>1, BoundsAssumption DEF RegionPages
<1>4. CASE AddBlockPanic
  <2>1. PICK k \in Orders : ~InBitmap(PairBit(page, k))
    BY <1>4 DEF AddBlockPanic, FreeBlockPanic
  <2>2. page \in Nat /\ page \in Pending
    BY <1>1, <1>4 DEF TypeOK, AddBlockPanic, Pending
  <2>3. \E r \in regions : page \in RegionPages(r)
    BY <1>1, <2>2 DEF Core, Covered
  <2> QED BY <1>3, <2>1, <2>2, <2>3, PastBitmap
<1>5. CASE SplitPanic
  <2> DEFINE k == ord - 1
             h == [page |-> page, order |-> ord]
  <2>1. /\ page \in Nat /\ k \in Orders /\ k + 1 = ord /\ ord \in Orders
        /\ HandBlocks = {h} /\ ~InBitmap(PairBit(page + Pow2[k], k))
    <3>1. page \in Nat /\ ord \in 0..(MaxOrder - 1) /\ order \in 0..(MaxOrder - 1)
      BY <1>1 DEF TypeOK, Orders
    <3>2. ord > order /\ pc = "split" /\ ~InBitmap(PairBit(page + Pow2[k], k))
      BY <1>5 DEF SplitPanic, FreeBlockPanic
    <3>3. k \in Orders /\ k + 1 = ord /\ ord \in Orders
      BY <3>1, <3>2, MaxOrderAssumption DEF Orders
    <3> QED BY <3>1, <3>2, <3>3 DEF HandBlocks
  <2>2. AlignedTo(page, ord)
    <3>1. h \in LiveBlocks \cup HandBlocks
      BY <2>1
    <3>2. AlignedTo(h.page, h.order)
      BY <1>1, <3>1 DEF Core, HeldAligned
    <3> QED BY <3>2
  <2> HIDE DEF k
  <2>3. page + Pow2[k] \in Nat /\ page + Pow2[k] \in Pages(h)
    <3>1. /\ page + Pow2[k] \in Nat
          /\ Pages(h) = Pages([page |-> page, order |-> k]) \cup
                        Pages([page |-> page + Pow2[k], order |-> k])
      BY <2>1, <2>2, HalvesFacts
    <3> QED BY <2>1, <3>1, PagesNonEmpty
  <2>4. \E r \in regions : page + Pow2[k] \in RegionPages(r)
    <3>1. h \in Blocks
      BY <2>1 DEF Blocks
    <3> QED BY <1>1, <2>3, <3>1, ListedInRegion DEF Core
  <2> QED BY <1>3, <2>1, <2>3, <2>4, PastBitmap
<1> QED BY <1>2, <1>4, <1>5

-----------------------------------------------------------------------------
(* Statistics.                                                             *)

(* The size of a set that is put together from two disjoint ones. *)
LEMMA DisjointUnion ==
    ASSUME NEW S, NEW T, IsFiniteSet(S), IsFiniteSet(T), S \cap T = {}
    PROVE  /\ IsFiniteSet(S \cup T)
           /\ Cardinality(S) \in Nat /\ Cardinality(T) \in Nat
           /\ Cardinality(S \cup T) = Cardinality(S) + Cardinality(T)
<1>1. /\ IsFiniteSet(S \cup T)
      /\ Cardinality(S \cup T) = Cardinality(S) + Cardinality(T) - Cardinality({})
  BY FS_Union
<1>2. Cardinality(S) \in Nat /\ Cardinality(T) \in Nat /\ Cardinality({}) = 0
  BY FS_CardinalityType, FS_EmptySet
<1> QED BY <1>1, <1>2

(* A block of order k has 2^k pages, a region as many as its size says. *)
LEMMA PagesCount ==
    ASSUME NEW p \in Nat, NEW n \in Nat
    PROVE  IsFiniteSet(p..(p + n - 1)) /\ Cardinality(p..(p + n - 1)) = n
<1>1. p \in Int /\ p + n - 1 \in Int
  OBVIOUS
<1>2. /\ IsFiniteSet(p..(p + n - 1))
      /\ Cardinality(p..(p + n - 1)) = IF p > p + n - 1 THEN 0 ELSE p + n - 1 - p + 1
  BY <1>1, FS_Interval
<1>3. (IF p > p + n - 1 THEN 0 ELSE p + n - 1 - p + 1) = n
  OBVIOUS
<1> QED BY <1>2, <1>3

(* A step that leaves the counters, the callers and the regions alone. *)
LEMMA StatsSame ==
    ASSUME StatsInv, UNCHANGED <<stats, total_pages, live, regions>>,
           LiveBlocks' = LiveBlocks,
           pc' = "merge" <=> pc = "merge", pc = "merge" => order' = order,
           pc' = "add" <=> pc = "add", pc = "add" => page_count' = page_count
    PROVE  StatsInv'
<1>1. LivePages' = LivePages
  BY DEF LivePages, Pages
<1>2. Registered' = Registered
  BY DEF Registered, RegionPages
<1>3. Merging(Pow2[order])' = Merging(Pow2[order]) /\ Merging(1)' = Merging(1)
  BY DEF Merging
<1>4. (IF pc = "add" THEN page_count ELSE 0)' = IF pc = "add" THEN page_count ELSE 0
  OBVIOUS
<1> QED BY <1>1, <1>2, <1>3, <1>4 DEF StatsInv

(* add_region begins: as many pages as it was called with become known. *)
LEMMA AddRegionStats ==
    ASSUME TypeOK, BaseFixed, Core, StatsInv, NEW v \in Nat, NEW n \in Nat, AddRegion(v, n)
    PROVE  StatsInv'
<1> DEFINE r == [start |-> v - base, size |-> n]
<1>1. /\ pc = "idle" /\ pc' = "add" /\ page_count' = n /\ v - base \in Nat
      /\ stats' = stats /\ total_pages' = total_pages /\ live' = live
      /\ \A q \in regions : RegionPages(q) \cap RegionPages(r) = {}
      /\ regions' = IF n = 0 THEN regions ELSE regions \cup {r}
  BY DEF AddRegion, TypeOK
<1>2. LivePages' = LivePages
  <2>1. LiveBlocks' = LiveBlocks
    BY AddRegionCore DEF Moves
  <2> QED BY <2>1 DEF LivePages, Pages
<1>3. IsFiniteSet(RegionPages(r)) /\ Cardinality(RegionPages(r)) = n
  BY <1>1, PagesCount DEF RegionPages
<1>4. n = 0 => RegionPages(r) = {}
  BY <1>1 DEF RegionPages
<1> HIDE DEF r
<1>5. Registered' = Registered \cup RegionPages(r)
  <2>1. Registered' = UNION {RegionPages(q) : q \in regions'}
    BY DEF Registered, RegionPages
  <2> QED BY <1>1, <1>4, <2>1 DEF Registered
<1>6. Registered \cap RegionPages(r) = {}
  BY <1>1 DEF Registered
<1>7. IsFiniteSet(Registered) /\ Cardinality(Registered) = total_pages /\ total_pages \in Nat
  <2>1. Cardinality(Registered) = total_pages + 0
    BY <1>1 DEF StatsInv
  <2> QED BY <2>1 DEF StatsInv, TypeOK
<1>8. IsFiniteSet(Registered') /\ Cardinality(Registered') = total_pages + n
  BY <1>3, <1>5, <1>6, <1>7, DisjointUnion
<1>9. Merging(Pow2[order])' = Merging(Pow2[order]) /\ Merging(1)' = Merging(1)
  BY <1>1 DEF Merging
<1> QED BY <1>1, <1>2, <1>8, <1>9 DEF StatsInv

(* add_region ends: the counters follow. *)
LEMMA AddEndStats ==
    ASSUME TypeOK, BaseFixed, Core, StatsInv, AddEnd
    PROVE  StatsInv'
<1>1. /\ pc = "add" /\ pc' = "idle" /\ live' = live /\ regions' = regions
      /\ total_pages' = total_pages + page_count
      /\ stats' = [stats EXCEPT !.total = total_pages',
                                !.free = total_pages' - stats.used]
  BY DEF AddEnd, Return
<1>2. LivePages' = LivePages
  <2>1. LiveBlocks' = LiveBlocks
    BY AddEndCore DEF Moves
  <2> QED BY <2>1 DEF LivePages, Pages
<1>3. Registered' = Registered
  BY <1>1 DEF Registered, RegionPages
<1>4. Merging(Pow2[order])' = 0 /\ Merging(Pow2[order]) = 0
      /\ Merging(1)' = 0 /\ Merging(1) = 0
  BY <1>1 DEF Merging
<1>5. /\ stats'.total = total_pages' /\ stats'.free = total_pages' - stats.used
      /\ stats'.used = stats.used /\ stats'.allocs = stats.allocs
      /\ stats'.deallocs = stats.deallocs /\ stats'.peak = stats.peak
  BY <1>1 DEF TypeOK
<1>6. stats.peak <= total_pages'
  <2>1. total_pages \in Nat /\ page_count \in Nat /\ stats.peak \in Int
    BY DEF TypeOK
  <2>2. stats.peak <= total_pages
    BY DEF StatsInv
  <2> QED BY <1>1, <2>1, <2>2
<1>7. Cardinality(Registered) = total_pages' + 0
  <2>1. total_pages' \in Nat
    BY <1>1 DEF TypeOK
  <2> QED BY <1>1, <2>1 DEF StatsInv
<1> QED BY <1>1, <1>2, <1>3, <1>4, <1>5, <1>6, <1>7 DEF StatsInv

(* alloc_pages returns: the caller has 2^order pages more. *)
LEMMA AllocEndStats ==
    ASSUME TypeOK, BaseFixed, Core, Core', StatsInv, AllocEnd
    PROVE  StatsInv'
<1> DEFINE h == [page |-> page, order |-> ord]
           n == Pow2[order]
           used == stats.used + n
           d == [addr |-> base + page, order |-> order]
<1>1. /\ pc = "split" /\ pc' = "idle" /\ ord = order /\ total_pages' = total_pages
      /\ live' = live \cup {d} /\ regions' = regions
      /\ page \in Nat /\ order \in Orders /\ base \in Nat
      /\ total_pages \in Nat
  BY DEF AllocEnd, Return, TypeOK
<1>2. /\ stats'.total = stats.total /\ stats'.used = used
      /\ stats'.free = stats.free - n /\ stats'.allocs = stats.allocs + 1
      /\ stats'.deallocs = stats.deallocs
      /\ stats'.peak = IF used > stats.peak THEN used ELSE stats.peak
  BY DEF AllocEnd, TypeOK
<1>3. n \in Nat /\ stats \in Stats /\ stats.total \in Int
  BY <1>1, Pow2Facts DEF TypeOK, Stats
<1>4. /\ HandBlocks = {h} /\ LiveBlocks' = LiveBlocks \cup {h} /\ Pending = {}
  BY AllocEndCore DEF Moves
<1>5. h \notin LiveBlocks /\ h \in Blocks /\ LiveBlocks \subseteq Blocks
  BY <1>4 DEF Core, Apart, Blocks
<1>6. IsFiniteSet(Pages(h)) /\ Cardinality(Pages(h)) = n
  BY <1>1, <1>3, PagesCount DEF Pages
<1>7. d \notin live
  <2>1. d.addr - base = page /\ d.order = ord
    BY <1>1
  <2>2. [page |-> d.addr - base, order |-> d.order] = h
    BY <2>1
  <2> HIDE DEF d, h
  <2> QED BY <1>5, <2>2 DEF LiveBlocks
<1> HIDE DEF h, d
<1>8. LivePages' = LivePages \cup Pages(h)
  <2>1. LivePages' = UNION {Pages(b) : b \in LiveBlocks'}
    BY DEF LivePages, Pages
  <2> QED BY <1>4, <2>1 DEF LivePages
<1>9. LivePages \cap Pages(h) = {}
  BY <1>5 DEF LivePages, Core, Apart
<1>10. /\ IsFiniteSet(LivePages') /\ Cardinality(LivePages) \in Nat
       /\ Cardinality(LivePages') = Cardinality(LivePages) + n
  BY <1>6, <1>8, <1>9, DisjointUnion DEF StatsInv
<1>11. /\ Merging(n) = 0 /\ Merging(Pow2[order])' = 0 /\ Merging(1)' = 0
       /\ Merging(1) = 0
  BY <1>1 DEF Merging
<1>12. used = Cardinality(LivePages')
  <2>1. stats.used = Cardinality(LivePages) + 0
    BY <1>11 DEF StatsInv
  <2> QED BY <1>3, <1>10, <2>1
<1>13. Registered' = Registered /\ Cardinality(Registered) = total_pages
       /\ IsFiniteSet(Registered)
  <2>1. Registered' = Registered
    BY <1>1 DEF Registered, RegionPages
  <2>2. Cardinality(Registered) = total_pages + 0
    BY <1>1 DEF StatsInv
  <2> QED BY <1>1, <2>1, <2>2 DEF StatsInv
<1>14. used <= total_pages
  <2>1. LivePages' \subseteq Registered
    <3>1. \A x \in LivePages' : \E b \in Blocks : x \in Pages(b)
      BY <1>5, <1>8 DEF LivePages
    <3> QED BY <3>1 DEF Core, Covered, Registered
  <2>2. Cardinality(LivePages') <= Cardinality(Registered)
    BY <1>13, <2>1, FS_Subset
  <2> QED BY <1>12, <1>13, <2>2
<1>15. /\ IsFiniteSet(live') /\ Cardinality(live) \in Nat
       /\ Cardinality(live') = Cardinality(live) + 1
  BY <1>1, <1>7, FS_AddElement, FS_CardinalityType DEF StatsInv
<1>16. (stats.allocs + 1) - stats.deallocs = Cardinality(live') + 0
  <2>1. stats.allocs - stats.deallocs = Cardinality(live) + 0
    BY <1>11 DEF StatsInv
  <2>2. stats.allocs \in Int /\ stats.deallocs \in Int
    BY <1>3, StatsFields
  <2> QED BY <1>15, <2>1, <2>2
<1>17. stats.free - n = total_pages - used
  <2>1. stats.used \in Int /\ stats.free = total_pages - stats.used
    BY <1>3, StatsFields DEF StatsInv
  <2> QED BY <1>1, <1>3, <2>1
<1>18. used <= stats'.peak /\ stats'.peak <= stats.total /\ stats.total = total_pages
  <2>1. /\ stats.peak <= stats.total /\ stats.total = total_pages /\ stats.peak \in Int
        /\ used \in Int
    BY <1>3, StatsFields DEF StatsInv
  <2> QED BY <1>1, <1>2, <1>14, <2>1
<1>19. used = Cardinality(LivePages') + 0 /\ Cardinality(Registered) = total_pages + 0
  BY <1>1, <1>3, <1>10, <1>12, <1>13
<1> HIDE DEF used, n
<1>20. (stats.total = total_pages)' /\ (stats.free = total_pages - stats.used)'
  BY <1>1, <1>2, <1>17, <1>18
<1>21. (stats.used = Cardinality(LivePages) + Merging(Pow2[order]))'
  BY <1>2, <1>11, <1>19
<1>22. (Cardinality(Registered) = total_pages + IF pc = "add" THEN page_count ELSE 0)'
  BY <1>1, <1>13, <1>19
<1>23. (stats.allocs - stats.deallocs = Cardinality(live) + Merging(1))'
  <2>1. stats'.allocs - stats'.deallocs = Cardinality(live') + 0
    <3>1. stats'.allocs = stats.allocs + 1 /\ stats'.deallocs = stats.deallocs
      BY <1>2
    <3> QED BY <1>16, <3>1
  <2> QED BY <1>11, <2>1
<1>24. (stats.used <= stats.peak /\ stats.peak <= stats.total)'
  BY <1>2, <1>18
<1> QED BY <1>10, <1>13, <1>15, <1>20, <1>21, <1>22, <1>23, <1>24 DEF StatsInv

(* dealloc_pages begins: the pages are the caller's no more, and are counted *)
(* until the merge ends.                                                     *)
LEMMA DeallocStats ==
    ASSUME TypeOK, BaseFixed, Core, StatsInv, NEW d \in live, Dealloc(d)
    PROVE  StatsInv'
<1> DEFINE h == [page |-> d.addr - base, order |-> d.order]
           n == Pow2[d.order]
<1>1. /\ pc = "idle" /\ pc' = "merge" /\ order' = d.order /\ live' = live \ {d}
      /\ stats' = stats /\ total_pages' = total_pages /\ regions' = regions
      /\ d.addr - base \in Nat /\ d.order \in Orders
  BY DEF Dealloc, TypeOK
<1>2. n \in Nat
  BY <1>1, Pow2Facts
<1>3. h \in LiveBlocks /\ LiveBlocks' = LiveBlocks \ {h}
  BY DeallocCore DEF Moves
<1>4. IsFiniteSet(Pages(h)) /\ Cardinality(Pages(h)) = n
  BY <1>1, <1>2, PagesCount DEF Pages
<1> HIDE DEF h
<1>5. LivePages' = UNION {Pages(b) : b \in LiveBlocks \ {h}}
  <2>1. LivePages' = UNION {Pages(b) : b \in LiveBlocks'}
    BY DEF LivePages, Pages
  <2> QED BY <1>3, <2>1
<1>6. LivePages = LivePages' \cup Pages(h)
  BY <1>3, <1>5 DEF LivePages
<1>7. LivePages' \cap Pages(h) = {}
  BY <1>3, <1>5 DEF Core, Apart, Blocks
<1>8. IsFiniteSet(LivePages')
  BY <1>6, FS_Subset DEF StatsInv
<1>9. Cardinality(LivePages) = Cardinality(LivePages') + n /\ Cardinality(LivePages') \in Nat
  BY <1>4, <1>6, <1>7, <1>8, DisjointUnion
<1>10. /\ Merging(Pow2[order]) = 0 /\ Merging(1) = 0
       /\ Merging(Pow2[order])' = n /\ Merging(1)' = 1
  BY <1>1 DEF Merging
<1>11. stats.used = Cardinality(LivePages') + n
  <2>1. stats.used = Cardinality(LivePages) + 0
    BY <1>10 DEF StatsInv
  <2> QED BY <1>2, <1>9, <2>1
<1>12. IsFiniteSet(live') /\ Cardinality(live') \in Nat
       /\ Cardinality(live') = Cardinality(live) - 1 /\ Cardinality(live) \in Nat
  BY <1>1, FS_RemoveElement, FS_CardinalityType DEF StatsInv
<1>13. stats.allocs - stats.deallocs = Cardinality(live') + 1
  <2>1. stats.allocs - stats.deallocs = Cardinality(live) + 0
    BY <1>10 DEF StatsInv
  <2> QED BY <1>12, <2>1
<1>14. Registered' = Registered
  BY <1>1 DEF Registered, RegionPages
<1> HIDE DEF n
<1>15. (stats.used = Cardinality(LivePages) + Merging(Pow2[order]))'
  BY <1>1, <1>10, <1>11
<1>16. (Cardinality(Registered) = total_pages + IF pc = "add" THEN page_count ELSE 0)'
  BY <1>1, <1>14 DEF StatsInv
<1>17. (stats.allocs - stats.deallocs = Cardinality(live) + Merging(1))'
  BY <1>1, <1>10, <1>13
<1> QED BY <1>1, <1>8, <1>12, <1>14, <1>15, <1>16, <1>17 DEF StatsInv

(* dealloc_pages ends: the pages are counted as free. *)
LEMMA DeallocEndStats ==
    ASSUME TypeOK, BaseFixed, Core, StatsInv, DeallocEnd
    PROVE  StatsInv'
<1> DEFINE n == Pow2[order]
<1>1. /\ pc = "merge" /\ pc' = "idle" /\ live' = live /\ regions' = regions
      /\ total_pages' = total_pages /\ n \in Nat /\ total_pages \in Nat
  BY Pow2Facts DEF DeallocEnd, Return, TypeOK
<1>2. /\ stats'.total = stats.total /\ stats'.used = stats.used - n
      /\ stats'.free = stats.free + n /\ stats'.allocs = stats.allocs
      /\ stats'.deallocs = stats.deallocs + 1 /\ stats'.peak = stats.peak
  BY DEF DeallocEnd, TypeOK
<1>3. /\ stats.used \in Int /\ stats.free \in Int /\ stats.allocs \in Int
      /\ stats.deallocs \in Int /\ stats.peak \in Int
  BY DEF TypeOK
<1>4. LivePages' = LivePages
  <2>1. LiveBlocks' = LiveBlocks
    BY DeallocEndCore DEF Moves
  <2> QED BY <2>1 DEF LivePages, Pages
<1>5. Registered' = Registered
  BY <1>1 DEF Registered, RegionPages
<1>6. /\ Merging(n) = n /\ Merging(1) = 1
      /\ Merging(Pow2[order])' = 0 /\ Merging(1)' = 0
  BY <1>1 DEF Merging
<1>7. Cardinality(LivePages) \in Nat /\ Cardinality(live) \in Nat
  BY FS_CardinalityType DEF StatsInv
<1>8. stats.used - n = Cardinality(LivePages) + 0
  <2>1. stats.used = Cardinality(LivePages) + n
    BY <1>6 DEF StatsInv
  <2> QED BY <1>1, <1>3, <1>7, <2>1
<1>9. stats.allocs - (stats.deallocs + 1) = Cardinality(live) + 0
  <2>1. stats.allocs - stats.deallocs = Cardinality(live) + 1
    BY <1>6 DEF StatsInv
  <2> QED BY <1>3, <1>7, <2>1
<1>10. stats.free + n = total_pages - (stats.used - n)
  <2>1. stats.free = total_pages - stats.used
    BY DEF StatsInv
  <2> QED BY <1>1, <1>3, <2>1
<1>11. stats.used - n <= stats.peak
  <2>1. stats.used <= stats.peak
    BY DEF StatsInv
  <2> QED BY <1>1, <1>3, <2>1
<1> HIDE DEF n
<1>12. (stats.used = Cardinality(LivePages) + Merging(Pow2[order]))'
  BY <1>2, <1>4, <1>6, <1>8
<1>13. (Cardinality(Registered) = total_pages + IF pc = "add" THEN page_count ELSE 0)'
  BY <1>1, <1>5 DEF StatsInv
<1>14. (stats.allocs - stats.deallocs = Cardinality(live) + Merging(1))'
  BY <1>1, <1>2, <1>6, <1>9
<1>15. (stats.free = total_pages - stats.used)' /\ (stats.total = total_pages)'
  BY <1>1, <1>2, <1>10 DEF StatsInv
<1>16. (stats.used <= stats.peak /\ stats.peak <= stats.total)'
  BY <1>2, <1>11 DEF StatsInv
<1> QED BY <1>1, <1>4, <1>5, <1>12, <1>13, <1>14, <1>15, <1>16 DEF StatsInv

(* The counters, step by step. *)
LEMMA StatsStep ==
    ASSUME IndInv, StatsInv, [Next]_vars, ~Panicked'
    PROVE  StatsInv'
<1>a. TypeOK /\ BaseFixed /\ Core /\ Core'
  BY StepCases
<1>1. ASSUME NEW v \in Bases, SetBase(v) PROVE StatsInv'
  <2>1. Moves(FreeBlocks, LiveBlocks, {}, {})
    BY <1>a, <1>1, IdleCore DEF SetBase, heap, BaseFixed
  <2> QED BY <1>1, <2>1, StatsSame DEF Moves, SetBase, locals
<1>2. ASSUME NEW v \in Nat, NEW n \in Nat, AddRegion(v, n) PROVE StatsInv'
  BY <1>a, <1>2, AddRegionStats
<1>3. ASSUME NEW o \in Orders, AllocNone(o) PROVE StatsInv'
  <2>1. Moves(FreeBlocks, LiveBlocks, {}, {})
    BY <1>a, <1>3, IdleCore DEF AllocNone, heap
  <2> QED BY <1>3, <2>1, StatsSame DEF Moves, AllocNone, locals
<1>4. ASSUME NEW o \in Orders, AllocPop(o) PROVE StatsInv'
  <2>1. \E b \in FreeBlocks : Moves(FreeBlocks \ {b}, LiveBlocks, {b}, {})
    BY <1>a, <1>4, AllocPopCore
  <2> QED BY <1>4, <2>1, StatsSame DEF Moves, AllocPop
<1>5. ASSUME NEW d \in live, Dealloc(d) PROVE StatsInv'
  BY <1>a, <1>5, DeallocStats
<1>6. CASE AddBlock
  <2>1. LiveBlocks' = LiveBlocks
    BY <1>a, <1>6, AddBlockCore DEF Moves
  <2> QED BY <1>6, <2>1, StatsSame DEF AddBlock
<1>7. CASE AddEnd
  BY <1>a, <1>7, AddEndStats
<1>8. CASE Split
  <2>1. LiveBlocks' = LiveBlocks
    BY <1>a, <1>8, SplitCore DEF Moves
  <2> QED BY <1>8, <2>1, StatsSame DEF Split
<1>9. CASE AllocEnd
  BY <1>a, <1>9, AllocEndStats
<1>10. CASE Merge
  <2>1. LiveBlocks' = LiveBlocks
    BY <1>a, <1>10, MergeCore DEF Moves
  <2> QED BY <1>10, <2>1, StatsSame DEF Merge
<1>11. CASE DeallocEnd
  BY <1>a, <1>11, DeallocEndStats
<1>12. CASE UNCHANGED vars
  <2>1. LiveBlocks' = LiveBlocks
    BY <1>12 DEF vars, LiveBlocks
  <2> QED BY <1>12, <2>1, StatsSame DEF vars
<1> QED
  BY StepCases, <1>1, <1>2, <1>3, <1>4, <1>5, <1>6, <1>7, <1>8, <1>9, <1>10, <1>11,
     <1>12

(* Between operations the listed pages are the registered ones that nobody   *)
(* holds, so the counters are exact.                                         *)
LEMMA StatsInvExact ==
    ASSUME TypeOK, Core, StatsInv
    PROVE  StatsExact
<1> SUFFICES ASSUME pc = "idle" PROVE StatsExact
  BY DEF StatsExact
<1>1. HandBlocks = {} /\ Pending = {} /\ Blocks = FreeBlocks \cup LiveBlocks
  BY DEF HandBlocks, Pending, Blocks
<1>2. ListedPages \cap LivePages = {}
  BY <1>1 DEF ListedPages, LivePages, Core, Apart
<1>3. Registered = LivePages \cup ListedPages
  <2>1. \A x : x \in Registered <=> \E r \in regions : x \in RegionPages(r)
    BY DEF Registered
  <2>2. \A x : x \in LivePages \cup ListedPages <=> \E b \in Blocks : x \in Pages(b)
    BY <1>1 DEF LivePages, ListedPages
  <2>3. \A x : x \in Registered <=> x \in LivePages \cup ListedPages
    BY <1>1, <2>1, <2>2 DEF Core, Covered
  <2> QED BY <2>3
<1>4. IsFiniteSet(ListedPages)
  BY <1>3, FS_Subset DEF StatsInv
<1>5. /\ Cardinality(Registered) = Cardinality(LivePages) + Cardinality(ListedPages)
      /\ Cardinality(LivePages) \in Nat /\ Cardinality(ListedPages) \in Nat
  BY <1>2, <1>3, <1>4, DisjointUnion DEF StatsInv
<1>6. total_pages \in Nat
  BY DEF TypeOK
<1>7. /\ stats.used = Cardinality(LivePages) + 0
      /\ Cardinality(Registered) = total_pages + 0
      /\ stats.allocs - stats.deallocs = Cardinality(live) + 0
      /\ stats.free = total_pages - stats.used
  BY DEF StatsInv, Merging
<1>8. /\ stats.used = Cardinality(LivePages) /\ stats.free = Cardinality(ListedPages)
      /\ total_pages = stats.used + stats.free
  BY <1>5, <1>6, <1>7
<1>9. stats.allocs - stats.deallocs = Cardinality(live)
  BY <1>7, FS_CardinalityType DEF StatsInv
<1>10. stats.peak >= stats.used
  BY DEF StatsInv, TypeOK
<1> QED BY <1>8, <1>9, <1>10 DEF StatsExact, StatsInv

-----------------------------------------------------------------------------
(* The second invariant and what follows from it.                          *)

(* Nothing is registered, held or counted at the start. *)
LEMMA ContractInit == Init => ContractInv
<1> SUFFICES ASSUME Init PROVE ContractInv
  OBVIOUS
<1>1. IndInv
  BY IndInvInit
<1>2. regions = {} /\ live = {} /\ pc = "idle" /\ stats = NoStats /\ total_pages = 0
  BY DEF Init
<1>3. FreeBlocks = {} /\ LiveBlocks = {} /\ HandBlocks = {}
  BY DEF Init, FreeBlocks, LiveBlocks, HandBlocks, BlocksOf, Elems
<1>4. LivePages = {} /\ Registered = {}
  BY <1>2, <1>3 DEF LivePages, Registered
<1>5. AddInv /\ Coalesced /\ BitsExist /\ RegionsApart
  BY <1>2, <1>3 DEF AddInv, Coalesced, BitsExist, RegionsApart, Blocks
<1>6. Merging(Pow2[order]) = 0 /\ Merging(1) = 0
  BY <1>2 DEF Merging
<1>7. IsFiniteSet({}) /\ Cardinality({}) = 0
  BY FS_EmptySet
<1>8. StatsInv
  BY <1>2, <1>4, <1>6, <1>7 DEF StatsInv, NoStats
<1> QED BY <1>1, <1>5, <1>8 DEF ContractInv

(* Regions are disjoint; short of a panic, free buddies are split only at    *)
(* seams, every block has a bit and the counters match the blocks.           *)
THEOREM BuddyContract == Spec => []ContractInv
<1>1. ContractInv /\ [Next]_vars => ContractInv'
  <2> SUFFICES ASSUME ContractInv, [Next]_vars PROVE ContractInv'
    OBVIOUS
  <2>1. IndInv /\ RegionsApart /\ TypeOK
    BY DEF ContractInv, IndInv
  <2>2. IndInv'
    BY <2>1, IndInvStep
  <2>3. RegionsApart'
    BY <2>1, RegionsStep
  <2>4. ASSUME ~Panicked'
        PROVE  AddInv' /\ Coalesced' /\ BitsExist' /\ StatsInv'
    <3>1. ~Panicked
      BY <2>1, <2>4, StepCases
    <3>2. AddInv /\ Coalesced /\ BitsExist /\ StatsInv
      BY <3>1 DEF ContractInv
    <3> QED BY <2>1, <2>4, <3>2, SeamsStep, BitsStep, StatsStep
  <2> QED BY <2>2, <2>3, <2>4 DEF ContractInv
<1> QED BY ContractInit, <1>1, PTL DEF Spec

(* Two free buddies are left unmerged only where two regions meet. *)
THEOREM BuddyCoalesced == Spec => []CoalescedUpToSeams
<1>1. ContractInv => CoalescedUpToSeams
  <2> SUFFICES ASSUME ContractInv, ~Panicked, NEW k \in 0..(MaxOrder - 2),
                      NEW p \in Elems(free_lists[k]), p < BuddyOf(p, k),
                      BuddyOf(p, k) \in Elems(free_lists[k])
               PROVE  \E r \in regions : r.start = BuddyOf(p, k)
    BY DEF CoalescedUpToSeams
  <2> DEFINE b == [page |-> p, order |-> k]
             c == [page |-> BuddyOf(p, k), order |-> k]
  <2>1. k \in Orders /\ k + 1 \in Orders
    BY MaxOrderAssumption DEF Orders
  <2>2. b \in FreeBlocks /\ c \in FreeBlocks
    BY <2>1, BlockOnList DEF FreeBlocks
  <2>3. /\ b.order = c.order /\ b.order + 1 \in Orders
        /\ c.page = BuddyOf(b.page, b.order) /\ b.page < c.page
    BY <2>1
  <2>4. c.page = BuddyOf(p, k)
    OBVIOUS
  <2> HIDE DEF b, c
  <2>5. Coalesced
    BY DEF ContractInv
  <2> QED BY <2>2, <2>3, <2>4, <2>5 DEF Coalesced
<1> QED BY <1>1, BuddyContract, PTL

(* Between operations the statistics say what the lists and callers hold. *)
THEOREM BuddyStats == Spec => []StatsExact
<1>1. ContractInv => StatsExact
  <2> SUFFICES ASSUME ContractInv, pc = "idle" PROVE StatsExact
    BY DEF StatsExact
  <2>1. ~Panicked
    BY DEF Panicked
  <2>2. TypeOK /\ Core /\ StatsInv
    BY <2>1, CoreIsInvariant DEF ContractInv, IndInv
  <2> QED BY <2>2, StatsInvExact
<1> QED BY <1>1, BuddyContract, PTL

(* An operation in progress panics only if some region reaches past the     *)
(* pages that the bitmaps cover.                                            *)
THEOREM BuddyPanics == Spec => PanicsOnlyPastBitmap
<1>1. IndInv /\ [Next]_vars =>
        [pc # "idle" /\ ~Panicked /\ Panicked' =>
             \E r \in regions : r.start + r.size > 2 * BitmapBits]_vars
  BY PanicStep
<1> QED BY <1>1, BuddyInvariant, PTL DEF Spec, PanicsOnlyPastBitmap

-----------------------------------------------------------------------------
(* The allocator implements PageAllocator.                                 *)

(* The pages that the abstract allocator has to give. *)
FreePages == (UNION {Pages(b) : b \in FreeBlocks \cup HandBlocks}) \cup Pending

(* What it is for a page to be one of them. *)
LEMMA FreePagesMember ==
    ASSUME NEW x
    PROVE  x \in FreePages <=> \/ \E b \in FreeBlocks \cup HandBlocks : x \in Pages(b)
                               \/ x \in Pending
  BY DEF FreePages

(* And after a step. *)
LEMMA FreePagesMoved ==
    ASSUME NEW F, NEW L, NEW H, NEW P, Moves(F, L, H, P)
    PROVE  \A x : x \in FreePages' <=> (\E b \in F \cup H : x \in Pages(b)) \/ x \in P
  BY DEF FreePages, Moves, Pages

(* A refused order: no list of that order or above has a block, so an        *)
(* aligned free run inside one region would have to consist of smaller       *)
(* blocks, and the smallest of them would have its buddy on the list too.    *)
LEMMA RefusalJustified ==
    ASSUME TypeOK, BaseFixed, Core, RegionsApart, Coalesced, pc = "idle",
           NEW o \in Orders, \A k \in Orders : k >= o => ~NonEmpty(k),
           NEW r \in regions, NEW p \in RegionPages(r), AlignedTo(p, o),
           Pages([page |-> p, order |-> o]) \subseteq FreePages \cap RegionPages(r)
    PROVE  FALSE
<1> DEFINE run == [page |-> p, order |-> o]
           In(k) == \E b \in FreeBlocks : b.order = k /\ Pages(b) \cap Pages(run) # {}
           Sizes == {k \in Orders : In(k)}
<1>0. Orders \subseteq Nat /\ p \in Nat /\ r.start \in Nat /\ r.size \in Nat
  <2>1. r.start \in Nat /\ r.size \in Nat
    BY DEF TypeOK
  <2> QED BY <2>1, MaxOrderAssumption DEF Orders, RegionPages
<1>1. \A x \in Pages(run) : \E b \in FreeBlocks : x \in Pages(b)
  BY FreePagesMember DEF HandBlocks, Pending
<1>2. \A b \in FreeBlocks : b.order \in Orders /\ ~(b.order >= o)
  <2>1. ASSUME NEW b \in FreeBlocks PROVE b.order \in Orders /\ ~(b.order >= o)
    <3>1. b.order \in Orders /\ b.page \in Elems(free_lists[b.order])
      BY FreeBlockFields
    <3>2. NonEmpty(b.order)
      BY <3>1 DEF NonEmpty, Elems
    <3> QED BY <3>1, <3>2
  <2> QED BY <2>1
<1>3. Sizes # {}
  <2>1. p \in Pages(run)
    BY <1>0, PagesNonEmpty
  <2> QED BY <1>1, <1>2, <2>1
<1>4. PICK k \in Sizes : \A j \in Sizes : k <= j
  <2>1. Sizes \in SUBSET Nat
    BY <1>0
  <2> HIDE DEF Sizes
  <2> QED BY <1>3, <2>1, LeastNatural
<1>5. PICK b \in FreeBlocks : b.order = k /\ Pages(b) \cap Pages(run) # {}
  BY <1>4
<1>6. \A c \in FreeBlocks : Pages(c) \cap Pages(run) # {} => k <= c.order
  BY <1>2, <1>4
<1>7. /\ k \in Orders /\ k + 1 \in Orders /\ k + 1 <= o
      /\ b.page \in Nat /\ AlignedTo(b.page, k)
      /\ b = [page |-> b.page, order |-> k]
  <2>1. k \in Orders /\ ~(k >= o)
    BY <1>2, <1>5
  <2>2. k + 1 \in Orders /\ k + 1 <= o
    BY <2>1, MaxOrderAssumption DEF Orders
  <2> QED BY <1>5, <2>1, <2>2, FreeBlockFields
<1> DEFINE q == BuddyOf(b.page, k)
           bd == [page |-> q, order |-> k]
           m == Min(b.page, q)
           up == [page |-> m, order |-> k + 1]
<1>8. q \in Nat /\ AlignedTo(q, k) /\ BuddyOf(q, k) = b.page /\ q # b.page
  BY <1>7, BuddyFacts
<1>9. m \in Nat /\ AlignedTo(m, k + 1) /\ Pages(up) = Pages(b) \cup Pages(bd)
  BY <1>7, ParentFacts
<1> HIDE DEF run, Sizes, q, m
<1>10. Pages(up) \subseteq Pages(run)
  <2>1. Pages(up) \cap Pages(run) # {}
    BY <1>5, <1>9
  <2> HIDE DEF bd
  <2> QED BY <1>0, <1>7, <1>9, <2>1, AlignedBlocksNest DEF run
<1>11. q \in Pages(bd) /\ q \in Pages(run)
  <2>1. q \in Pages(bd)
    BY <1>7, <1>8, PagesNonEmpty
  <2> HIDE DEF bd, up
  <2> QED BY <1>9, <1>10, <2>1
<1>12. PICK c \in FreeBlocks : q \in Pages(c)
  BY <1>1, <1>11
<1>13. k <= c.order
  BY <1>6, <1>11, <1>12
<1>14. /\ c.page \in Nat /\ c.order \in Orders /\ AlignedTo(c.page, c.order)
       /\ c = [page |-> c.page, order |-> c.order]
  BY FreeBlockFields
<1>15. c.order = k
  <2> SUFFICES ASSUME c.order # k PROVE FALSE
    OBVIOUS
  <2>1. k + 1 <= c.order
    BY <1>0, <1>7, <1>13, <1>14
  <2>2. Pages(up) \cap Pages(c) # {}
    BY <1>9, <1>11, <1>12
  <2>3. Pages(up) \subseteq Pages(c)
    BY <1>7, <1>9, <1>14, <2>1, <2>2, AlignedBlocksNest
  <2>4. Pages(b) \cap Pages(c) # {}
    <3> HIDE DEF bd, up
    <3> QED BY <1>5, <1>9, <2>3
  <2>5. b = c
    BY <1>5, <1>12, <2>4 DEF Core, Apart, Blocks
  <2> QED BY <1>5, <2>5
<1>16. c = bd
  <2>1. Pages(bd) \cap Pages(c) # {} /\ Pages(c) \cap Pages(bd) # {}
    BY <1>11, <1>12
  <2>2. Pages(bd) \subseteq Pages(c) /\ Pages(c) \subseteq Pages(bd)
    <3>1. /\ c = [page |-> c.page, order |-> k] /\ AlignedTo(c.page, k)
          /\ k <= k /\ c.page \in Nat
      BY <1>0, <1>7, <1>14, <1>15
    <3> QED BY <1>7, <1>8, <2>1, <3>1, AlignedBlocksNest
  <2>3. q \in Pages(c) /\ c.page \in Pages(bd)
    BY <1>7, <1>11, <1>14, <2>2, PagesNonEmpty
  <2>4. /\ q \in c.page..(c.page + Pow2[k] - 1) /\ c.page \in q..(q + Pow2[k] - 1)
    BY <1>15, <2>3 DEF Pages
  <2>5. c.page = q
    BY <1>8, <1>14, <2>4
  <2> QED BY <1>14, <1>15, <2>5
<1>17. PICK s \in regions : \E lo, hi \in {b.page, q} : lo < hi /\ s.start = hi
  <2>1. bd \in FreeBlocks /\ bd.page = q /\ bd.order = k
    BY <1>12, <1>16
  <2> HIDE DEF bd
  <2>2. CASE b.page < q
    <3>1. \E s \in regions : s.start = bd.page
      BY <1>5, <1>7, <2>1, <2>2 DEF Coalesced, q
    <3> QED BY <2>1, <2>2, <3>1
  <2>3. CASE q < b.page
    <3>1. \E s \in regions : s.start = b.page
      BY <1>5, <1>7, <1>8, <2>1, <2>3 DEF Coalesced
    <3> QED BY <2>3, <3>1
  <2> QED BY <1>7, <1>8, <2>2, <2>3
<1>18. PICK lo, hi \in {b.page, q} : lo < hi /\ s.start = hi
  BY <1>17
<1>19. b.page \in RegionPages(r) /\ q \in RegionPages(r)
  <2>1. b.page \in Pages(b)
    BY <1>7, PagesNonEmpty
  <2> HIDE DEF bd, up
  <2> QED BY <1>9, <1>10, <1>11, <2>1 DEF run
<1>20. hi \in RegionPages(s)
  <2>1. s.size \in Nat /\ s.size > 0 /\ s.start \in Nat
    BY DEF TypeOK, RegionsApart
  <2> QED BY <1>18, <2>1 DEF RegionPages
<1>21. s = r
  BY <1>18, <1>19, <1>20 DEF RegionsApart
<1> QED BY <1>0, <1>7, <1>8, <1>18, <1>19, <1>21 DEF RegionPages

(* The operators of PageAllocator are those of Buddy. *)
LEMMA AbstractOperators ==
    /\ \A b : Abstract!Pages(b) = Pages(b)
    /\ \A r : Abstract!RegionPages(r) = RegionPages(r)
    /\ \A b : Abstract!Aligned(b) <=> AlignedTo(b.page, b.order)
    /\ Abstract!Orders = Orders
  BY DEF Abstract!Pages, Pages, Abstract!RegionPages, RegionPages, Abstract!Aligned,
         AlignedTo, Abstract!Orders, Orders

(* A step that moves pages about inside the allocator is no step at all. *)
LEMMA AbstractStutter ==
    ASSUME FreePages' = FreePages, LiveBlocks' = LiveBlocks, regions' = regions,
           refused' = refused
    PROVE  UNCHANGED Abstract!vars
  BY DEF Abstract!vars, FreePages

(* Donating a region. *)
LEMMA AbstractDonate ==
    ASSUME NEW r, \A q \in regions : RegionPages(q) \cap RegionPages(r) = {},
           regions' = regions \cup {r}, FreePages' = FreePages \cup RegionPages(r),
           LiveBlocks' = LiveBlocks, refused' = refused
    PROVE  Abstract!Next
<1>1. Abstract!Donate(r)
  BY AbstractOperators DEF Abstract!Donate, FreePages
<1> QED BY <1>1 DEF Abstract!Next

(* Handing out a block. *)
LEMMA AbstractAlloc ==
    ASSUME NEW b, AlignedTo(b.page, b.order), Pages(b) \subseteq FreePages,
           FreePages' = FreePages \ Pages(b), LiveBlocks' = LiveBlocks \cup {b},
           refused' = -1, regions' = regions
    PROVE  Abstract!Next
<1>1. Abstract!Alloc(b)
  BY AbstractOperators DEF Abstract!Alloc, FreePages
<1> QED BY <1>1 DEF Abstract!Next

(* Taking a block back. *)
LEMMA AbstractFree ==
    ASSUME NEW b \in LiveBlocks, LiveBlocks' = LiveBlocks \ {b},
           FreePages' = FreePages \cup Pages(b), regions' = regions, refused' = refused
    PROVE  Abstract!Next
<1>1. Abstract!Free(b)
  BY AbstractOperators DEF Abstract!Free, FreePages
<1> QED BY <1>1 DEF Abstract!Next

(* Refusing a request. *)
LEMMA AbstractRefuse ==
    ASSUME NEW o \in Orders,
           \A r \in regions : \A p \in RegionPages(r) :
               ~(/\ AlignedTo(p, o)
                 /\ Pages([page |-> p, order |-> o]) \subseteq FreePages \cap RegionPages(r)),
           FreePages' = FreePages, LiveBlocks' = LiveBlocks, regions' = regions,
           refused' = o
    PROVE  Abstract!Next
<1>1. ~Abstract!Servable(o)
  BY AbstractOperators DEF Abstract!Servable, FreePages
<1>2. Abstract!Refuse(o)
  BY <1>1 DEF Abstract!Refuse, FreePages
<1> QED BY <1>2, AbstractOperators DEF Abstract!Next

(* The push that comes before the panic of the bitmap. *)
LEMMA PushedBlock ==
    ASSUME free_lists \in [Orders -> Seq(Nat)], NEW k \in Orders, NEW p \in Nat,
           FreeBlockPanic(p, k)
    PROVE  FreeBlocks' = FreeBlocks \cup {[page |-> p, order |-> k]}
<1> DEFINE s == PushFront(free_lists[k], p)
<1>1. Elems(s) = Elems(free_lists[k]) \cup {p}
  <2>1. free_lists[k] \in Seq(Nat)
    OBVIOUS
  <2> QED BY <2>1, PushFrontProps
<1> HIDE DEF s
<1>2. free_lists'[k] = s /\ \A j \in Orders \ {k} : free_lists'[j] = free_lists[j]
  BY DEF FreeBlockPanic, s
<1>3. ASSUME NEW b
      PROVE  b \in BlocksOf(free_lists') <=>
               b \in BlocksOf(free_lists) \/ b = [page |-> p, order |-> k]
  BY <1>1, <1>2, BlocksOfMember, SMTT(30)
<1> QED BY <1>3 DEF FreeBlocks

(* Panics change nothing that a caller could see. *)
LEMMA PanicRefines ==
    ASSUME TypeOK, Core, ~Panicked,
           \/ SetBasePanic \/ AllocPanic(MaxOrder) \/ AddBlockPanic \/ SplitPanic
           \/ \E v \in 0..MaxAddr : AddRegionPanic(v)
    PROVE  UNCHANGED Abstract!vars
<1>1. CASE SetBasePanic \/ AllocPanic(MaxOrder) \/ \E v \in 0..MaxAddr : AddRegionPanic(v)
  <2>1. /\ pc = "idle" /\ pc' = "panic"
        /\ UNCHANGED <<base, free_lists, live, regions, refused>>
    BY <1>1 DEF SetBasePanic, AllocPanic, AddRegionPanic, PanicNow, heap
  <2>2. Moves(FreeBlocks, LiveBlocks, HandBlocks, Pending)
    BY <2>1 DEF Moves, FreeBlocks, LiveBlocks, HandBlocks, Pending
  <2>3. FreePages' = FreePages
    BY <2>2 DEF Moves, FreePages, Pages
  <2> QED BY <2>1, <2>2, <2>3, AbstractStutter DEF Moves
<1>2. CASE AddBlockPanic
  <2>1. PICK k \in Orders : LargestFit(k) /\ FreeBlockPanic(page, k)
    BY <1>2 DEF AddBlockPanic
  <2> DEFINE b == [page |-> page, order |-> k]
  <2>2. /\ pc = "add" /\ pc' = "panic_add" /\ page \in Nat /\ remaining \in Nat
        /\ Pow2[k] \in Nat /\ Pow2[k] <= remaining
        /\ UNCHANGED <<base, live, regions, refused, page, remaining>>
    BY <1>2, <2>1, Pow2Facts DEF AddBlockPanic, TypeOK, locals, LargestFit, Fits
  <2>3. FreeBlocks' = FreeBlocks \cup {b}
    BY <2>1, <2>2, PushedBlock DEF TypeOK
  <2>4. Pages(b) \subseteq Pending
    BY <2>2 DEF Pages, Pending
  <2>5. Moves(FreeBlocks \cup {b}, LiveBlocks, HandBlocks, Pending)
    BY <2>2, <2>3 DEF Moves, LiveBlocks, HandBlocks, Pending
  <2> HIDE DEF b
  <2>6. \A x : x \in FreePages' <=> x \in FreePages
    BY <2>4, <2>5, FreePagesMoved, FreePagesMember
  <2>7. FreePages' = FreePages
    BY <2>6 DEF FreePages
  <2> QED BY <2>2, <2>5, <2>7, AbstractStutter DEF Moves
<1>3. CASE SplitPanic
  <2> DEFINE k  == ord - 1
             h  == [page |-> page, order |-> ord]
             lo == [page |-> page, order |-> k]
             hi == [page |-> page + Pow2[k], order |-> k]
  <2>1. /\ pc = "split" /\ pc' = "panic_split" /\ ord' = k /\ page' = page
        /\ FreeBlockPanic(page + Pow2[k], k)
        /\ UNCHANGED <<base, live, regions, refused>>
    BY <1>3 DEF SplitPanic
  <2>2. page \in Nat /\ k \in Orders /\ k + 1 = ord /\ ord \in Orders
    <3>1. page \in Nat /\ ord \in 0..(MaxOrder - 1) /\ order \in 0..(MaxOrder - 1)
      BY DEF TypeOK, Orders
    <3>2. ord > order
      BY <1>3 DEF SplitPanic
    <3> QED BY <3>1, <3>2, MaxOrderAssumption DEF Orders
  <2> HIDE DEF k
  <2>3. HandBlocks = {h} /\ HandBlocks' = {lo} /\ Pending = {} /\ Pending' = {}
    BY <2>1 DEF HandBlocks, Pending
  <2>4. AlignedTo(page, ord)
    <3>1. h \in LiveBlocks \cup HandBlocks
      BY <2>3
    <3>2. AlignedTo(h.page, h.order)
      BY <3>1 DEF Core, HeldAligned
    <3> QED BY <3>2
  <2>5. page + Pow2[k] \in Nat /\ Pages(h) = Pages(lo) \cup Pages(hi)
    BY <2>2, <2>4, HalvesFacts
  <2>6. FreeBlocks' = FreeBlocks \cup {hi}
    BY <2>1, <2>2, <2>5, PushedBlock DEF TypeOK
  <2>7. Moves(FreeBlocks \cup {hi}, LiveBlocks, {lo}, {})
    BY <2>1, <2>3, <2>6 DEF Moves, LiveBlocks
  <2> HIDE DEF h, lo, hi
  <2>8. \A x : x \in FreePages' <=> x \in FreePages
    BY <2>3, <2>5, <2>7, FreePagesMoved, FreePagesMember
  <2>9. FreePages' = FreePages
    BY <2>8 DEF FreePages
  <2> QED BY <2>1, <2>7, <2>9, AbstractStutter DEF Moves
<1> QED BY <1>1, <1>2, <1>3

(* One step of buddy.rs is one step of PageAllocator, or none. *)
LEMMA StepRefines ==
    ASSUME IndInv, RegionsApart, Coalesced, ~Panicked, [Next]_vars, ~Panicked'
    PROVE  [Abstract!Next]_(Abstract!vars)
<1>a. TypeOK /\ BaseFixed /\ Core /\ Core'
  BY StepCases
<1>b. ASSUME NEW F, NEW L, NEW H, NEW P, Moves(F, L, H, P),
             \A x : (\E b \in F \cup H : x \in Pages(b)) \/ x \in P <=> x \in FreePages
      PROVE  FreePages' = FreePages /\ LiveBlocks' = L
  <2>1. \A x : x \in FreePages' <=> x \in FreePages
    BY <1>b, FreePagesMoved
  <2>2. FreePages' = FreePages
    BY <2>1 DEF FreePages
  <2> QED BY <1>b, <2>2 DEF Moves
<1>c. \A x : x \in FreePages <=> \/ \E b \in FreeBlocks \cup HandBlocks : x \in Pages(b)
                                 \/ x \in Pending
  BY FreePagesMember
<1>1. ASSUME NEW v \in Bases, SetBase(v) PROVE UNCHANGED Abstract!vars
  <2>1. Moves(FreeBlocks, LiveBlocks, {}, {}) /\ HandBlocks = {} /\ Pending = {}
    BY <1>a, <1>1, IdleCore DEF SetBase, heap, BaseFixed
  <2>2. FreePages' = FreePages /\ LiveBlocks' = LiveBlocks
    BY <1>b, <1>c, <2>1
  <2> QED BY <1>1, <2>2, AbstractStutter DEF SetBase
<1>2. ASSUME NEW v \in Nat, NEW n \in Nat, AddRegion(v, n)
      PROVE  Abstract!Next \/ UNCHANGED Abstract!vars
  <2> DEFINE r == [start |-> v - base, size |-> n]
  <2>1. /\ HandBlocks = {} /\ Pending = {}
        /\ Moves(FreeBlocks, LiveBlocks, {}, RegionPages(r))
    BY <1>a, <1>2, AddRegionCore
  <2>2. /\ \A q \in regions : RegionPages(q) \cap RegionPages(r) = {}
        /\ regions' = IF n = 0 THEN regions ELSE regions \cup {r}
        /\ refused' = refused /\ v - base \in Nat
    BY <1>a, <1>2 DEF AddRegion, TypeOK
  <2>3. n = 0 => RegionPages(r) = {}
    BY <2>2 DEF RegionPages
  <2> HIDE DEF r
  <2>4. FreePages' = FreePages \cup RegionPages(r) /\ LiveBlocks' = LiveBlocks
    <3>1. \A x : x \in FreePages' <=> x \in FreePages \cup RegionPages(r)
      BY <1>c, <2>1, FreePagesMoved
    <3>2. FreePages' = FreePages \cup RegionPages(r)
      BY <3>1 DEF FreePages
    <3> QED BY <2>1, <3>2 DEF Moves
  <2>5. CASE n = 0
    BY <2>2, <2>3, <2>4, <2>5, AbstractStutter
  <2>6. CASE n # 0
    BY <2>2, <2>4, <2>6, AbstractDonate
  <2> QED BY <2>5, <2>6
<1>3. ASSUME NEW o \in Orders, AllocNone(o) PROVE Abstract!Next
  <2>1. Moves(FreeBlocks, LiveBlocks, {}, {}) /\ HandBlocks = {} /\ Pending = {}
    BY <1>a, <1>3, IdleCore DEF AllocNone, heap
  <2>2. FreePages' = FreePages /\ LiveBlocks' = LiveBlocks
    BY <1>b, <1>c, <2>1
  <2>3. /\ pc = "idle" /\ \A k \in Orders : k >= o => ~NonEmpty(k)
        /\ regions' = regions /\ refused' = o
    BY <1>3 DEF AllocNone
  <2>4. ASSUME NEW r \in regions, NEW p \in RegionPages(r), AlignedTo(p, o),
               Pages([page |-> p, order |-> o]) \subseteq FreePages \cap RegionPages(r)
        PROVE  FALSE
    BY <1>a, <2>3, <2>4, RefusalJustified
  <2> QED BY <2>2, <2>3, <2>4, AbstractRefuse
<1>4. ASSUME NEW o \in Orders, AllocPop(o) PROVE UNCHANGED Abstract!vars
  <2>1. PICK b \in FreeBlocks : Moves(FreeBlocks \ {b}, LiveBlocks, {b}, {})
    BY <1>a, <1>4, AllocPopCore
  <2>2. HandBlocks = {} /\ Pending = {}
    BY <1>a, <1>4, AllocPopCore
  <2>3. FreePages' = FreePages /\ LiveBlocks' = LiveBlocks
    <3>1. \A x : (\E c \in (FreeBlocks \ {b}) \cup {b} : x \in Pages(c)) \/ x \in {}
                   <=> x \in FreePages
      BY <1>c, <2>1, <2>2
    <3> QED BY <1>b, <2>1, <3>1
  <2> QED BY <1>4, <2>3, AbstractStutter DEF AllocPop
<1>5. ASSUME NEW d \in live, Dealloc(d) PROVE Abstract!Next
  <2>1. PICK h \in LiveBlocks : Moves(FreeBlocks, LiveBlocks \ {h}, {h}, {})
    BY <1>a, <1>5, DeallocCore
  <2>2. HandBlocks = {} /\ Pending = {}
    BY <1>a, <1>5, DeallocCore
  <2>3. \A x : x \in FreePages' <=> x \in FreePages \cup Pages(h)
    BY <1>c, <2>1, <2>2, FreePagesMoved
  <2>4. FreePages' = FreePages \cup Pages(h)
    BY <2>3 DEF FreePages
  <2> QED BY <1>5, <2>1, <2>4, AbstractFree DEF Moves, Dealloc
<1>6. CASE AddBlock
  <2>1. PICK k \in Orders :
            LET b == [page |-> page, order |-> k]
            IN  /\ Pages(b) \subseteq Pending
                /\ Moves(FreeBlocks \cup {b}, LiveBlocks, {}, Pending \ Pages(b))
    BY <1>a, <1>6, AddBlockCore
  <2> DEFINE b == [page |-> page, order |-> k]
  <2>2. /\ Pages(b) \subseteq Pending /\ HandBlocks = {}
        /\ Moves(FreeBlocks \cup {b}, LiveBlocks, {}, Pending \ Pages(b))
    BY <1>a, <1>6, <2>1, AddBlockCore
  <2> HIDE DEF b
  <2>3. FreePages' = FreePages /\ LiveBlocks' = LiveBlocks
    <3>1. \A x : (\E c \in (FreeBlocks \cup {b}) \cup {} : x \in Pages(c))
                 \/ x \in Pending \ Pages(b) <=> x \in FreePages
      BY <1>c, <2>2
    <3> QED BY <1>b, <2>2, <3>1
  <2> QED BY <1>6, <2>3, AbstractStutter DEF AddBlock
<1>7. CASE AddEnd
  <2>1. Moves(FreeBlocks, LiveBlocks, {}, {}) /\ HandBlocks = {} /\ Pending = {}
    BY <1>a, <1>7, AddEndCore
  <2>2. FreePages' = FreePages /\ LiveBlocks' = LiveBlocks
    BY <1>b, <1>c, <2>1
  <2> QED BY <1>7, <2>2, AbstractStutter DEF AddEnd
<1>8. CASE Split
  <2> DEFINE h  == [page |-> page, order |-> ord]
             lo == [page |-> page, order |-> ord']
             hi == [page |-> page + Pow2[ord'], order |-> ord']
  <2>1. /\ HandBlocks = {h} /\ Pages(h) = Pages(lo) \cup Pages(hi) /\ Pending = {}
        /\ Moves(FreeBlocks \cup {hi}, LiveBlocks, {lo}, {})
    BY <1>a, <1>8, SplitCore
  <2> HIDE DEF h, lo, hi
  <2>2. FreePages' = FreePages /\ LiveBlocks' = LiveBlocks
    <3>1. \A x : (\E c \in (FreeBlocks \cup {hi}) \cup {lo} : x \in Pages(c)) \/ x \in {}
                   <=> x \in FreePages
      BY <1>c, <2>1
    <3> QED BY <1>b, <2>1, <3>1
  <2> QED BY <1>8, <2>2, AbstractStutter DEF Split
<1>9. CASE AllocEnd
  <2> DEFINE h == [page |-> page, order |-> ord]
  <2>1. /\ HandBlocks = {h} /\ Pending = {}
        /\ Moves(FreeBlocks, LiveBlocks \cup {h}, {}, {})
    BY <1>a, <1>9, AllocEndCore
  <2> HIDE DEF h
  <2>2. AlignedTo(h.page, h.order)
    BY <1>a, <2>1 DEF Core, HeldAligned
  <2>3. \A b \in FreeBlocks : Pages(b) \cap Pages(h) = {}
    BY <1>a, <2>1 DEF Core, Apart, Blocks
  <2>4. \A x : x \in FreePages' <=> x \in FreePages \ Pages(h)
    BY <1>c, <2>1, <2>3, FreePagesMoved
  <2>5. FreePages' = FreePages \ Pages(h) /\ Pages(h) \subseteq FreePages
    BY <1>c, <2>1, <2>4 DEF FreePages
  <2> QED BY <1>9, <2>1, <2>2, <2>5, AbstractAlloc DEF Moves, AllocEnd
<1>10. CASE Merge
  <2> DEFINE h  == [page |-> page, order |-> ord]
             bd == [page |-> BuddyOf(page, ord), order |-> ord]
             up == [page |-> page', order |-> ord']
  <2>1. /\ bd \in FreeBlocks /\ HandBlocks = {h} /\ Pending = {}
        /\ Pages(up) = Pages(h) \cup Pages(bd)
        /\ Moves(FreeBlocks \ {bd}, LiveBlocks, {up}, {})
    BY <1>a, <1>10, MergeCore
  <2> HIDE DEF h, bd, up
  <2>2. FreePages' = FreePages /\ LiveBlocks' = LiveBlocks
    <3>1. \A x : (\E c \in (FreeBlocks \ {bd}) \cup {up} : x \in Pages(c)) \/ x \in {}
                   <=> x \in FreePages
      BY <1>c, <2>1
    <3> QED BY <1>b, <2>1, <3>1
  <2> QED BY <1>10, <2>2, AbstractStutter DEF Merge
<1>11. CASE DeallocEnd
  <2> DEFINE h == [page |-> page, order |-> ord]
  <2>1. /\ HandBlocks = {h} /\ Pending = {}
        /\ Moves(FreeBlocks \cup {h}, LiveBlocks, {}, {})
    BY <1>a, <1>11, DeallocEndCore
  <2> HIDE DEF h
  <2>2. FreePages' = FreePages /\ LiveBlocks' = LiveBlocks
    BY <1>b, <1>c, <2>1
  <2> QED BY <1>11, <2>2, AbstractStutter DEF DeallocEnd
<1>12. CASE UNCHANGED vars
  BY <1>12 DEF vars, Abstract!vars, FreeBlocks, LiveBlocks, HandBlocks, Pending
<1> QED
  BY StepCases, <1>1, <1>2, <1>3, <1>4, <1>5, <1>6, <1>7, <1>8, <1>9, <1>10, <1>11,
     <1>12

(* Every step of buddy.rs is a step of PageAllocator or none: the blocks that *)
(* alloc_pages hands out are aligned and free, and it returns None only when  *)
(* no aligned run of free pages inside one region could have served.          *)
THEOREM BuddyRefinesPageAllocator == Spec => RefinesPageAllocator
<1>1. Init => Abstract!Init
  <2> SUFFICES ASSUME Init PROVE Abstract!Init
    OBVIOUS
  <2>1. FreeBlocks = {} /\ LiveBlocks = {} /\ HandBlocks = {} /\ Pending = {}
    BY DEF Init, FreeBlocks, LiveBlocks, HandBlocks, Pending, BlocksOf, Elems
  <2> QED BY <2>1 DEF Abstract!Init, Init
<1>2. ContractInv /\ [Next]_vars => [Abstract!Next]_(Abstract!vars)
  <2> SUFFICES ASSUME ContractInv, [Next]_vars PROVE [Abstract!Next]_(Abstract!vars)
    OBVIOUS
  <2>1. CASE Panicked
    <3>1. UNCHANGED vars
      BY <2>1 DEF Next, Call, Step, Halted, SetBase, SetBasePanic, AllocPanic, AddRegion,
         AddRegionPanic, AllocNone, AllocPop, Dealloc, AddBlock, AddBlockPanic, AddEnd,
         Split, SplitPanic, AllocEnd, Merge, DeallocEnd, Panicked
    <3> QED BY <3>1 DEF vars, Abstract!vars, FreeBlocks, LiveBlocks, HandBlocks, Pending
  <2>2. CASE ~Panicked /\ Panicked'
    <3>1. TypeOK /\ Core
      BY <2>2, CoreIsInvariant DEF ContractInv, IndInv
    <3>2. \/ SetBasePanic \/ AllocPanic(MaxOrder) \/ AddBlockPanic \/ SplitPanic
          \/ \E v \in 0..MaxAddr : AddRegionPanic(v)
      BY <2>2 DEF Next, Call, Step, Halted, SetBase, AddRegion,
         AllocNone, AllocPop, Dealloc, AddBlock, AddEnd, Split, AllocEnd, Merge,
         DeallocEnd, Panicked, vars, Return
    <3> QED BY <2>2, <3>1, <3>2, PanicRefines
  <2>3. CASE ~Panicked /\ ~Panicked'
    BY <2>3, StepRefines DEF ContractInv
  <2> QED BY <2>1, <2>2, <2>3
<1> QED BY <1>1, <1>2, BuddyContract, PTL DEF Spec, RefinesPageAllocator, Abstract!Spec

=============================================================================

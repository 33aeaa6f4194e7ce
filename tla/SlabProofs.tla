----------------------------- MODULE SlabProofs -----------------------------
(***************************************************************************)
(* Safety of the slab cache for every slab and object size, every base and *)
(* every number of pages: free-slot chains and the list of partial slabs   *)
(* are sound, dealloc finds the header, no page is lost or in two places,  *)
(* and callers see a memory pool.                                          *)
(***************************************************************************)
EXTENDS Slab, FiniteSetTheorems, SequenceTheorems, TLAPS

-----------------------------------------------------------------------------
(* A header's fields are integers.                                         *)
Header == [free_head : Int, in_use : Int, prev : Int, next : Int,
           link : [0..(Capacity - 1) -> Int]]

-----------------------------------------------------------------------------
(* Orderings of finite sets.                                               *)

(* c lists the n elements of S, each once. *)
Lists(c, n, S) ==
    /\ n \in Nat /\ c \in [1..n -> S]
    /\ \A i, j \in 1..n : c[i] = c[j] => i = j
    /\ \A s \in S : \E i \in 1..n : c[i] = s

(* The sequences that SetToSeqs gives are these lists. *)
LEMMA ListsOfSet ==
    ASSUME NEW S, IsFiniteSet(S)
    PROVE  \A c : c \in SetToSeqs(S) <=> Lists(c, Cardinality(S), S)
<1> DEFINE n == Cardinality(S)
<1>1. n \in Nat
  BY FS_CardinalityType
<1>2. IsFiniteSet(1..n) /\ Cardinality(1..n) = n
  <2>1. IsFiniteSet(1..n) /\ Cardinality(1..n) = IF 1 > n THEN 0 ELSE n - 1 + 1
    <3> HIDE DEF n
    <3> QED BY <1>1, FS_Interval
  <2> QED BY <1>1, <2>1
<1>3. ASSUME NEW c \in SetToSeqs(S) PROVE Lists(c, n, S)
  <2>1. c \in [1..n -> S] /\ \A i, j \in 1..n : c[i] = c[j] => i = j
    BY <1>3, Zenon DEF SetToSeqs
  <2>2. c \in Injection(1..n, S)
    BY <2>1, Zenon DEF Injection, IsInjective
  <2>3. c \in Surjection(1..n, S)
    BY <1>2, <2>2, FS_Injection, Zenon
  <2>4. \A s \in S : \E i \in 1..n : c[i] = s
    BY <2>3, Zenon DEF Surjection
  <2> QED BY <1>1, <2>1, <2>4, Zenon DEF Lists
<1>4. ASSUME NEW c, Lists(c, n, S) PROVE c \in SetToSeqs(S)
  BY <1>4, Zenon DEF Lists, SetToSeqs
<1> QED BY <1>3, <1>4, Zenon

(* A list fixes the number of its elements. *)
LEMMA ListsCount ==
    ASSUME NEW c, NEW n, NEW S, Lists(c, n, S)
    PROVE  /\ IsFiniteSet(S) /\ Cardinality(S) = n
           /\ c \in SetToSeqs(S)
<1>1. n \in Nat /\ c \in Bijection(1..n, S)
  BY Zenon DEF Lists, Bijection, Injection, Surjection, IsInjective
<1>2. ExistsBijection(1..n, S)
  BY <1>1, Zenon DEF ExistsBijection
<1>3. IsFiniteSet(S) /\ Cardinality(S) = n
  BY <1>1, <1>2, FS_NatBijection, FS_CountingElements, Zenon
<1> QED BY <1>3, ListsOfSet, Zenon

(* A list is a sequence of that length. *)
LEMMA ListsSeq ==
    ASSUME NEW c, NEW n, NEW S, Lists(c, n, S)
    PROVE  /\ n \in Nat /\ DOMAIN c = 1..n /\ Len(c) = n
           /\ c = <<>> <=> n = 0
           /\ n = 0 <=> S = {}
<1>1. n \in Nat /\ c \in [1..n -> S] /\ DOMAIN c = 1..n
  BY DEF Lists
<1>2. c \in Seq(S)
  BY <1>1
<1>3. Len(c) = n
  BY <1>1, <1>2, LenProperties
<1>4. c = <<>> <=> n = 0
  BY <1>2, <1>3
<1>5. n = 0 => S = {}
  BY <1>1 DEF Lists
<1>6. S = {} => n = 0
  BY <1>1
<1> QED BY <1>1, <1>3, <1>4, <1>5, <1>6

(* Putting an element in front. *)
LEMMA ListsPush ==
    ASSUME NEW c, NEW n, NEW S, Lists(c, n, S), NEW x, x \notin S
    PROVE  Lists([k \in 1..(n + 1) |-> IF k = 1 THEN x ELSE c[k - 1]], n + 1, S \cup {x})
<1> DEFINE d == [k \in 1..(n + 1) |-> IF k = 1 THEN x ELSE c[k - 1]]
<1>1. n \in Nat /\ c \in [1..n -> S]
  BY DEF Lists
<1>2. n + 1 \in Nat /\ DOMAIN d = 1..(n + 1) /\ 1 \in 1..(n + 1) /\ d[1] = x
  BY <1>1
<1>3. \A k \in 2..(n + 1) : k - 1 \in 1..n /\ k \in 1..(n + 1) /\ d[k] = c[k - 1]
  BY <1>1
<1>4. \A k \in 1..(n + 1) : k = 1 \/ k \in 2..(n + 1)
  BY <1>1
<1>5. \A k \in 1..n : k + 1 \in 1..(n + 1) /\ d[k + 1] = c[k]
  BY <1>1
<1>d. d = [k \in 1..(n + 1) |-> d[k]]
  OBVIOUS
<1> HIDE DEF d
<1>6. \A k \in 2..(n + 1) : d[k] \in S
  BY <1>1, <1>3
<1>7. d \in [1..(n + 1) -> S \cup {x}]
  BY <1>2, <1>4, <1>6, <1>d
<1>8. \A i, j \in 1..(n + 1) : d[i] = d[j] => i = j
  <2> TAKE i, j \in 1..(n + 1)
  <2> HAVE d[i] = d[j]
  <2>1. CASE i = 1 \/ j = 1
    BY <1>2, <1>4, <1>6, <2>1
  <2>2. CASE i \in 2..(n + 1) /\ j \in 2..(n + 1)
    <3>1. i - 1 = j - 1
      BY <1>3, <2>2 DEF Lists
    <3> QED BY <2>2, <3>1
  <2> QED BY <1>4, <2>1, <2>2
<1>9. \A s \in S \cup {x} : \E i \in 1..(n + 1) : d[i] = s
  BY <1>2, <1>5 DEF Lists
<1> QED BY <1>2, <1>7, <1>8, <1>9 DEF Lists, d

(* Taking the j-th element out. *)
LEMMA ListsDrop ==
    ASSUME NEW c, NEW n, NEW S, Lists(c, n, S), NEW j \in 1..n
    PROVE  Lists([k \in 1..(n - 1) |-> IF k < j THEN c[k] ELSE c[k + 1]], n - 1, S \ {c[j]})
<1> DEFINE d == [k \in 1..(n - 1) |-> IF k < j THEN c[k] ELSE c[k + 1]]
<1>1. n \in Nat /\ n - 1 \in Nat /\ c \in [1..n -> S]
  BY DEF Lists
<1>2. \A k \in 1..(n - 1) : k \in 1..n /\ k + 1 \in 1..n /\ d[k] = IF k < j THEN c[k] ELSE c[k + 1]
  BY <1>1
<1>3. \A k \in 1..n : /\ k < j => k \in 1..(n - 1) /\ d[k] = c[k]
                      /\ k > j => k - 1 \in 1..(n - 1) /\ d[k - 1] = c[k]
  BY <1>1
<1>d. d = [k \in 1..(n - 1) |-> d[k]]
  OBVIOUS
<1> HIDE DEF d
<1>4. \A a, b \in 1..n : c[a] = c[b] => a = b
  BY DEF Lists
<1>5. \A k \in 1..(n - 1) : d[k] \in S \ {c[j]}
  <2> TAKE k \in 1..(n - 1)
  <2>1. CASE k < j
    BY <1>1, <1>2, <1>4, <2>1
  <2>2. CASE ~(k < j)
    <3>1. k + 1 # j
      BY <1>1, <2>2
    <3> QED BY <1>1, <1>2, <1>4, <2>2, <3>1
  <2> QED BY <2>1, <2>2
<1>6. d \in [1..(n - 1) -> S \ {c[j]}]
  BY <1>5, <1>d
<1>7. \A a, b \in 1..(n - 1) : d[a] = d[b] => a = b
  <2> TAKE a, b \in 1..(n - 1)
  <2> HAVE d[a] = d[b]
  <2>1. CASE a < j /\ b < j
    BY <1>2, <1>4, <2>1
  <2>2. CASE a < j /\ ~(b < j)
    <3>1. a = b + 1
      BY <1>2, <1>4, <2>2
    <3> QED BY <1>1, <2>2, <3>1
  <2>3. CASE ~(a < j) /\ b < j
    <3>1. a + 1 = b
      BY <1>2, <1>4, <2>3
    <3> QED BY <1>1, <2>3, <3>1
  <2>4. CASE ~(a < j) /\ ~(b < j)
    <3>1. a + 1 = b + 1
      BY <1>2, <1>4, <2>4
    <3> QED BY <1>1, <3>1
  <2> QED BY <2>1, <2>2, <2>3, <2>4
<1>8. \A s \in S \ {c[j]} : \E i \in 1..(n - 1) : d[i] = s
  <2> TAKE s \in S \ {c[j]}
  <2>1. PICK k \in 1..n : c[k] = s
    BY DEF Lists
  <2>2. k # j
    BY <2>1
  <2>3. CASE k < j
    <3>1. k \in 1..(n - 1) /\ d[k] = s
      BY <1>3, <2>1, <2>3, Zenon
    <3> QED BY <3>1, Zenon
  <2>4. CASE k > j
    <3>1. k - 1 \in 1..(n - 1) /\ d[k - 1] = s
      BY <1>3, <2>1, <2>4, Zenon
    <3> QED BY <3>1, Zenon
  <2> QED BY <1>1, <2>2, <2>3, <2>4
<1> QED BY <1>1, <1>6, <1>7, <1>8 DEF Lists, d

-----------------------------------------------------------------------------
(* Chains of free slots.                                                   *)

HasChain(link, x, S) == \E c \in SetToSeqs(S) : Chained(link, x, c)

ChainOf(link, x, c, n) ==
    /\ x = IF n = 0 THEN End ELSE c[1]
    /\ \A k \in 1..n : link[c[k]] = IF k = n THEN End ELSE c[k + 1]

(* A chain, in terms of lists. *)
LEMMA ChainForm ==
    ASSUME NEW link, NEW x, NEW S
    PROVE  /\ \A c, n : Lists(c, n, S) /\ ChainOf(link, x, c, n) => HasChain(link, x, S)
           /\ IsFiniteSet(S) /\ HasChain(link, x, S) =>
                 \E c, n : Lists(c, n, S) /\ ChainOf(link, x, c, n)
<1>1. ASSUME NEW c, NEW n, Lists(c, n, S)
      PROVE  Chained(link, x, c) <=> ChainOf(link, x, c, n)
  <2>1. DOMAIN c = 1..n /\ Len(c) = n /\ (c = <<>> <=> n = 0)
    BY <1>1, ListsSeq
  <2> QED BY <2>1, Zenon DEF Chained, ChainOf
<1>2. ASSUME NEW c, NEW n, Lists(c, n, S), ChainOf(link, x, c, n)
      PROVE  HasChain(link, x, S)
  BY <1>1, <1>2, ListsCount, Zenon DEF HasChain
<1>3. ASSUME IsFiniteSet(S), HasChain(link, x, S)
      PROVE  \E c, n : Lists(c, n, S) /\ ChainOf(link, x, c, n)
  BY <1>1, <1>3, ListsOfSet, Zenon DEF HasChain
<1> QED BY <1>2, <1>3, Zenon

(* Taking the slot at the head of a chain. *)
LEMMA ChainTake ==
    ASSUME NEW link, NEW S, IsFiniteSet(S), S # {}, NEW x, HasChain(link, x, S),
           NEW m, \A s \in S : s # x => m[s] = link[s]
    PROVE  x \in S /\ HasChain(m, link[x], S \ {x})
<1>1. PICK c, n : Lists(c, n, S) /\ ChainOf(link, x, c, n)
  BY ChainForm, Zenon
<1> DEFINE d == [k \in 1..(n - 1) |-> IF k < 1 THEN c[k] ELSE c[k + 1]]
<1>2. n \in Nat /\ n # 0 /\ 1 \in 1..n
  BY <1>1, ListsSeq
<1>3. x = c[1] /\ x \in S
  BY <1>1, <1>2 DEF ChainOf, Lists
<1>4. Lists(d, n - 1, S \ {x})
  BY <1>1, <1>2, <1>3, ListsDrop, Zenon
<1>5. \A k \in 1..(n - 1) : k + 1 \in 1..n /\ d[k] = c[k + 1] /\ d[k] \in S /\ d[k] # x
  BY <1>1, <1>2, <1>3 DEF Lists
<1>6. link[x] = IF n - 1 = 0 THEN End ELSE d[1]
  BY <1>1, <1>2, <1>3 DEF ChainOf
<1>7. \A k \in 1..(n - 1) : link[d[k]] = IF k = n - 1 THEN End ELSE d[k + 1]
  BY <1>1, <1>2, <1>5 DEF ChainOf
<1> HIDE DEF d
<1>8. \A k \in 1..(n - 1) : m[d[k]] = link[d[k]]
  BY <1>5
<1>9. ChainOf(m, link[x], d, n - 1)
  BY <1>6, <1>7, <1>8 DEF ChainOf
<1> QED BY <1>3, <1>4, <1>9, ChainForm, Zenon

(* Putting a slot at the head of a chain. *)
LEMMA ChainPut ==
    ASSUME NEW link, NEW S, IsFiniteSet(S), NEW x, HasChain(link, x, S), NEW i, i \notin S,
           NEW m, m[i] = x, \A s \in S : m[s] = link[s]
    PROVE  HasChain(m, i, S \cup {i})
<1>1. PICK c, n : Lists(c, n, S) /\ ChainOf(link, x, c, n)
  BY ChainForm, Zenon
<1> DEFINE d == [k \in 1..(n + 1) |-> IF k = 1 THEN i ELSE c[k - 1]]
<1>2. n \in Nat
  BY <1>1, ListsSeq
<1>3. Lists(d, n + 1, S \cup {i})
  BY <1>1, <1>2, ListsPush, Zenon
<1>4. d[1] = i /\ m[i] = x
  BY <1>2
<1>5. \A k \in 1..n : d[k + 1] = c[k] /\ c[k] \in S /\ m[c[k]] = link[c[k]]
  BY <1>1, <1>2 DEF Lists
<1> HIDE DEF d
<1>6. x = IF n = 0 THEN End ELSE d[2]
  <2>1. n # 0 => d[2] = c[1]
    BY <1>2, <1>5
  <2> QED BY <1>1, <2>1 DEF ChainOf
<1>7. ASSUME NEW k \in 1..(n + 1)
      PROVE  m[d[k]] = IF k = n + 1 THEN End ELSE d[k + 1]
  <2>1. CASE k = 1
    BY <1>2, <1>4, <1>6, <2>1
  <2>2. CASE k # 1
    <3>1. k - 1 \in 1..n /\ (k - 1) + 1 = k
      BY <1>2, <2>2
    <3>2. d[k] = c[k - 1] /\ m[d[k]] = link[c[k - 1]]
      BY <1>5, <3>1
    <3>3. link[c[k - 1]] = IF k - 1 = n THEN End ELSE c[k]
      BY <1>1, <3>1 DEF ChainOf
    <3>4. k # n + 1 => k \in 1..n
      BY <1>2
    <3>5. (k - 1 = n) <=> (k = n + 1)
      BY <1>2
    <3> QED BY <1>5, <3>2, <3>3, <3>4, <3>5
  <2> QED BY <2>1, <2>2
<1>8. n + 1 # 0
  BY <1>2
<1>9. ChainOf(m, i, d, n + 1)
  BY <1>4, <1>7, <1>8 DEF ChainOf
<1> QED BY <1>3, <1>9, ChainForm, Zenon

(* A fresh slab chains all its slots in order. *)
LEMMA ChainFresh ==
    /\ Capacity \in Nat \ {0}
    /\ HasChain(Fresh.link, Fresh.free_head, 0..(Capacity - 1))
<1>0. PageUnits \in Nat /\ Pow2[Order] \in Nat /\ Stride \in Nat /\ ObjSize \in Nat \ {0}
  BY SlabAssumption
<1>1. SlabUnits \in Nat
  BY <1>0 DEF SlabUnits
<1>2. Capacity \in Int
  BY <1>0, <1>1 DEF Capacity
<1>3. Capacity \in Nat \ {0}
  BY <1>2, RoomAssumption
<1> DEFINE d == [k \in 1..Capacity |-> k - 1]
           S == 0..(Capacity - 1)
           f == Fresh.link
<1>4. f = [i \in 0..(Capacity - 1) |-> IF i + 1 < Capacity THEN i + 1 ELSE End]
      /\ Fresh.free_head = 0
  BY DEF Fresh
<1> HIDE DEF f
<1>5. Lists(d, Capacity, S)
  <2> HIDE DEF d
  <2>1. d \in [1..Capacity -> S]
    BY <1>3 DEF d
  <2>2. \A i, j \in 1..Capacity : d[i] = d[j] => i = j
    BY <1>3 DEF d
  <2>3. \A s \in S : s + 1 \in 1..Capacity /\ d[s + 1] = s
    BY <1>3 DEF d
  <2> HIDE DEF S
  <2> QED BY <1>3, <2>1, <2>2, <2>3 DEF Lists
<1>6. ChainOf(f, 0, d, Capacity)
  BY <1>3, <1>4 DEF ChainOf
<1> QED BY <1>3, <1>4, <1>5, <1>6, ChainForm, Zenon DEF f

-----------------------------------------------------------------------------
(* The list of partial slabs.                                              *)

Listed(c, N) == \E l \in SetToSeqs(N) : Linked(c, l)

Follows(slab, partial0, l, n) ==
    /\ partial0 = IF n = 0 THEN Null ELSE l[1]
    /\ \A k \in 1..n : /\ slab[l[k]].next = IF k = n THEN Null ELSE l[k + 1]
                       /\ slab[l[k]].prev = IF k = 1 THEN Null ELSE l[k - 1]

(* A list of slabs, in terms of lists. *)
LEMMA ListedForm ==
    ASSUME NEW c, NEW N
    PROVE  /\ \A l, n : Lists(l, n, N) /\ Follows(c.slabs, c.partial, l, n) => Listed(c, N)
           /\ IsFiniteSet(N) /\ Listed(c, N) =>
                 \E l, n : Lists(l, n, N) /\ Follows(c.slabs, c.partial, l, n)
<1>1. ASSUME NEW l, NEW n, Lists(l, n, N)
      PROVE  Linked(c, l) <=> Follows(c.slabs, c.partial, l, n)
  <2>1. DOMAIN l = 1..n /\ Len(l) = n /\ (l = <<>> <=> n = 0)
    BY <1>1, ListsSeq
  <2> QED BY <2>1, Zenon DEF Linked, Follows
<1>2. ASSUME NEW l, NEW n, Lists(l, n, N), Follows(c.slabs, c.partial, l, n)
      PROVE  Listed(c, N)
  BY <1>1, <1>2, ListsCount, Zenon DEF Listed
<1>3. ASSUME IsFiniteSet(N), Listed(c, N)
      PROVE  \E l, n : Lists(l, n, N) /\ Follows(c.slabs, c.partial, l, n)
  BY <1>1, <1>3, ListsOfSet, Zenon DEF Listed
<1> QED BY <1>2, <1>3, Zenon

(* The fields of a header that are about its slots. *)
SameSlots(h, g) == h.free_head = g.free_head /\ h.in_use = g.in_use /\ h.link = g.link

SameLinks(h, g) == h.prev = g.prev /\ h.next = g.next

(* The list is a matter of the links only. *)
LEMMA ListedSame ==
    ASSUME NEW c, NEW d, NEW N, IsFiniteSet(N), Listed(c, N), d.partial = c.partial,
           \A q \in N : SameLinks(d.slabs[q], c.slabs[q])
    PROVE  Listed(d, N)
<1>1. PICK l, n : Lists(l, n, N) /\ Follows(c.slabs, c.partial, l, n)
  BY ListedForm, Zenon
<1>2. \A k \in 1..n : l[k] \in N
  BY <1>1 DEF Lists
<1>3. Follows(d.slabs, d.partial, l, n)
  BY <1>1, <1>2, Zenon DEF Follows, SameLinks
<1> QED BY <1>1, <1>3, ListedForm, Zenon

(* The head of the list is a slab on it, and so are a slab's neighbours. *)
LEMMA ListedHead ==
    ASSUME NEW c, NEW N \in SUBSET Nat, IsFiniteSet(N), Listed(c, N)
    PROVE  /\ c.partial \in N \cup {Null}
           /\ c.partial = Null <=> N = {}
<1>1. PICK l, n : Lists(l, n, N) /\ Follows(c.slabs, c.partial, l, n)
  BY ListedForm, Zenon
<1>2. n \in Nat /\ (n = 0 <=> N = {})
  BY <1>1, ListsSeq
<1>3. n # 0 => l[1] \in N
  BY <1>1, <1>2 DEF Lists
<1> QED BY <1>1, <1>2, <1>3 DEF Follows, Null

IsCache(c, D) ==
    /\ D \subseteq Nat
    /\ c = [slabs |-> c.slabs, partial |-> c.partial]
    /\ c.slabs \in [D -> Header]
    /\ c.partial \in Int

(* What link_partial writes. *)
LEMMA LinkWrites ==
    ASSUME NEW D, NEW c, IsCache(c, D), NEW p \in D, c.partial \in (D \ {p}) \cup {Null}
    PROVE  LET r == LinkPartial(c, p) IN
           /\ IsCache(r, D) /\ r.partial = p
           /\ \A q \in D :
                 /\ SameSlots(r.slabs[q], c.slabs[q])
                 /\ r.slabs[q].next = IF q = p THEN c.partial ELSE c.slabs[q].next
                 /\ r.slabs[q].prev = IF q = p THEN Null ELSE IF q = c.partial THEN p
                                      ELSE c.slabs[q].prev
<1> DEFINE h == c.slabs
           s == [h EXCEPT ![p].next = c.partial, ![p].prev = Null]
           t == [s EXCEPT ![c.partial].prev = p]
           r == LinkPartial(c, p)
<1>1. h \in [D -> Header] /\ D \subseteq Nat /\ c.partial \in Int
  BY DEF IsCache
<1> HIDE DEF h
<1>2. s \in [D -> Header]
  <2> DEFINE f == [h[p] EXCEPT !.next = c.partial]
             g == [h[p] EXCEPT !.next = c.partial, !.prev = Null]
  <2>0. f \in Header /\ Null \in Int
    <3>1. h[p] \in Header
      BY <1>1
    <3>2. Null \in Int
      BY DEF Null
    <3>3. f \in Header
      BY <1>1, <3>1 DEF Header
    <3> QED BY <3>2, <3>3
  <2>1. g \in Header
    <3>1. g = [f EXCEPT !.prev = Null]
      OBVIOUS
    <3> HIDE DEF f, g
    <3> QED BY <2>0, <3>1 DEF Header
  <2>2. s = [h EXCEPT ![p] = g]
    BY <1>1
  <2> HIDE DEF g, s
  <2> QED BY <1>1, <2>1, <2>2
<1>3. \A q \in D : /\ SameSlots(s[q], h[q])
                   /\ s[q].next = IF q = p THEN c.partial ELSE h[q].next
                   /\ s[q].prev = IF q = p THEN Null ELSE h[q].prev
  BY <1>1 DEF Header, SameSlots
<1> HIDE DEF s
<1>4. CASE c.partial = Null
  <2>1. r = [slabs |-> s, partial |-> p]
    BY <1>4 DEF LinkPartial, s, h
  <2>2. \A q \in D : q # c.partial
    BY <1>1, <1>4 DEF Null
  <2>3. r.slabs = s /\ r.partial = p
    BY <2>1
  <2>4. IsCache(r, D)
    BY <1>1, <1>2, <2>1, <2>3 DEF IsCache
  <2> HIDE DEF r
  <2> QED BY <1>3, <2>2, <2>3, <2>4 DEF h, r
<1>5. CASE c.partial # Null
  <2>1. r = [slabs |-> t, partial |-> p]
    BY <1>5 DEF LinkPartial, s, h
  <2>2. c.partial \in D \ {p} /\ p \in Int
    BY <1>1, <1>5
  <2>3. t \in [D -> Header]
    BY <1>1, <1>2, <2>2 DEF Header
  <2>4. \A q \in D : /\ SameSlots(t[q], s[q]) /\ t[q].next = s[q].next
                     /\ t[q].prev = IF q = c.partial THEN p ELSE s[q].prev
    BY <1>1, <1>2, <2>2 DEF Header, SameSlots
  <2> HIDE DEF t
  <2>5. r.slabs = t /\ r.partial = p
    BY <2>1
  <2>6. IsCache(r, D)
    BY <1>1, <2>1, <2>2, <2>3, <2>5 DEF IsCache
  <2> HIDE DEF r
  <2>7. \A q \in D : SameSlots(t[q], h[q])
    BY <1>3, <2>4 DEF SameSlots
  <2> QED BY <1>3, <2>2, <2>4, <2>5, <2>6, <2>7 DEF h, r
<1> QED BY <1>4, <1>5

(* What unlink_partial writes. *)
LEMMA UnlinkWrites ==
    ASSUME NEW D, NEW c, IsCache(c, D), NEW p \in D,
           c.slabs[p].prev \in D \cup {Null}, c.slabs[p].next \in D \cup {Null}
    PROVE  LET r == UnlinkPartial(c, p) IN
           /\ IsCache(r, D)
           /\ r.partial = IF c.slabs[p].prev = Null THEN c.slabs[p].next ELSE c.partial
           /\ \A q \in D :
                 /\ SameSlots(r.slabs[q], c.slabs[q])
                 /\ r.slabs[q].next = IF q = c.slabs[p].prev THEN c.slabs[p].next
                                      ELSE c.slabs[q].next
                 /\ r.slabs[q].prev = IF q = c.slabs[p].next THEN c.slabs[p].prev
                                      ELSE c.slabs[q].prev
<1> DEFINE h == c.slabs
           x == c.slabs[p].prev
           y == c.slabs[p].next
           s == IF x = Null THEN h ELSE [h EXCEPT ![x].next = y]
           t == IF y = Null THEN s ELSE [s EXCEPT ![y].prev = x]
           z == IF x = Null THEN y ELSE c.partial
           r == UnlinkPartial(c, p)
<1>1. h \in [D -> Header] /\ D \subseteq Nat /\ c.partial \in Int
  BY DEF IsCache
<1>2. x \in D \cup {Null} /\ y \in D \cup {Null}
  OBVIOUS
<1>r. r = [slabs |-> t, partial |-> z]
  BY DEF UnlinkPartial
<1> HIDE DEF h, x, y, r
<1>3. x \in Int /\ y \in Int /\ z \in Int
  BY <1>1, <1>2 DEF Null
<1>4. s \in [D -> Header]
  BY <1>1, <1>2, <1>3 DEF Header
<1>5. \A q \in D : /\ SameSlots(s[q], h[q]) /\ s[q].prev = h[q].prev
                   /\ s[q].next = IF q = x THEN y ELSE h[q].next
  <2>1. CASE x = Null
    BY <1>1, <2>1 DEF SameSlots, Null
  <2>2. CASE x # Null
    BY <1>1, <1>2, <1>3, <2>2 DEF Header, SameSlots
  <2> QED BY <2>1, <2>2
<1> HIDE DEF s
<1>6. t \in [D -> Header]
  BY <1>1, <1>2, <1>3, <1>4 DEF Header
<1>7. \A q \in D : /\ SameSlots(t[q], s[q]) /\ t[q].next = s[q].next
                   /\ t[q].prev = IF q = y THEN x ELSE s[q].prev
  <2>1. CASE y = Null
    BY <1>1, <2>1 DEF SameSlots, Null
  <2>2. CASE y # Null
    BY <1>1, <1>2, <1>3, <1>4, <2>2 DEF Header, SameSlots
  <2> QED BY <2>1, <2>2
<1> HIDE DEF t, z
<1>8. r.slabs = t /\ r.partial = z
  BY <1>r
<1>9. IsCache(r, D)
  BY <1>1, <1>3, <1>6, <1>r, <1>8 DEF IsCache
<1>10. \A q \in D : SameSlots(t[q], h[q])
  BY <1>5, <1>7 DEF SameSlots
<1> QED BY <1>5, <1>7, <1>8, <1>9, <1>10 DEF h, x, y, z, r

(* link_partial puts the slab at the head of the list. *)
LEMMA LinkListed ==
    ASSUME NEW D, NEW c, IsCache(c, D), NEW N \in SUBSET D, IsFiniteSet(N), Listed(c, N),
           NEW p \in D \ N
    PROVE  /\ c.partial \in (D \ {p}) \cup {Null}
           /\ Listed(LinkPartial(c, p), N \cup {p})
<1> DEFINE r == LinkPartial(c, p)
<1>1. PICK l, n : Lists(l, n, N) /\ Follows(c.slabs, c.partial, l, n)
  BY ListedForm, Zenon
<1>0. D \subseteq Nat
  BY DEF IsCache
<1>2. n \in Nat /\ l \in [1..n -> N] /\ \A i, j \in 1..n : l[i] = l[j] => i = j
  BY <1>1 DEF Lists
<1>3. /\ c.partial = IF n = 0 THEN Null ELSE l[1]
      /\ \A k \in 1..n : /\ c.slabs[l[k]].next = IF k = n THEN Null ELSE l[k + 1]
                         /\ c.slabs[l[k]].prev = IF k = 1 THEN Null ELSE l[k - 1]
  BY <1>1 DEF Follows
<1>4. c.partial \in N \cup {Null} /\ (n # 0 => c.partial = l[1] /\ 1 \in 1..n)
  BY <1>2, <1>3
<1>5. c.partial \in (D \ {p}) \cup {Null}
  BY <1>4
<1>6. /\ r.partial = p
      /\ \A q \in D : /\ r.slabs[q].next = IF q = p THEN c.partial ELSE c.slabs[q].next
                      /\ r.slabs[q].prev = IF q = p THEN Null ELSE IF q = c.partial THEN p
                                           ELSE c.slabs[q].prev
  BY <1>5, LinkWrites
<1> HIDE DEF r
<1> DEFINE d == [k \in 1..(n + 1) |-> IF k = 1 THEN p ELSE l[k - 1]]
<1>7. Lists(d, n + 1, N \cup {p})
  BY <1>1, ListsPush, Zenon
<1>8. d[1] = p /\ \A k \in 1..n : d[k + 1] = l[k]
  BY <1>2
<1> HIDE DEF d
<1>9. ASSUME NEW k \in 1..(n + 1)
      PROVE  /\ r.slabs[d[k]].next = IF k = n + 1 THEN Null ELSE d[k + 1]
             /\ r.slabs[d[k]].prev = IF k = 1 THEN Null ELSE d[k - 1]
  <2>1. CASE k = 1
    <3>1. r.slabs[p].next = c.partial /\ r.slabs[p].prev = Null
      BY <1>6
    <3>2. c.partial = IF 1 = n + 1 THEN Null ELSE d[2]
      <4>1. n # 0 => d[2] = l[1]
        BY <1>2, <1>8
      <4> QED BY <1>2, <1>3, <4>1
    <3> QED BY <1>8, <2>1, <3>1, <3>2
  <2>2. CASE k # 1
    <3> DEFINE j == k - 1
    <3>1. j \in 1..n /\ k = j + 1 /\ (k = n + 1 <=> j = n)
      BY <1>2, <2>2
    <3> HIDE DEF j
    <3>2. d[k] = l[j] /\ l[j] \in N /\ l[j] \in D /\ l[j] # p
      BY <1>2, <1>8, <3>1
    <3>3. r.slabs[d[k]].next = IF j = n THEN Null ELSE l[j + 1]
      BY <1>3, <1>6, <3>1, <3>2
    <3>4. j # n => l[j + 1] = d[k + 1]
      BY <1>2, <1>8, <3>1
    <3>5. (l[j] = c.partial) <=> (j = 1)
      BY <1>2, <1>4, <3>1
    <3>6. r.slabs[d[k]].prev = IF j = 1 THEN p ELSE l[j - 1]
      BY <1>3, <1>6, <3>1, <3>2, <3>5
    <3>7. d[k - 1] = IF j = 1 THEN p ELSE l[j - 1]
      <4>1. CASE j = 1
        BY <1>8, <3>1, <4>1
      <4>2. CASE j # 1
        <5>1. j - 1 \in 1..n /\ (j - 1) + 1 = k - 1
          BY <1>2, <3>1, <4>2
        <5> QED BY <1>8, <4>2, <5>1
      <4> QED BY <4>1, <4>2
    <3> QED BY <2>2, <3>1, <3>3, <3>4, <3>6, <3>7
  <2> QED BY <2>1, <2>2
<1>10. n + 1 # 0
  BY <1>2
<1>11. Follows(r.slabs, r.partial, d, n + 1)
  BY <1>6, <1>8, <1>9, <1>10, Zenon DEF Follows
<1> QED BY <1>5, <1>7, <1>11, ListedForm, Zenon DEF r

(* unlink_partial takes the slab out wherever it is on the list. *)
LEMMA UnlinkListed ==
    ASSUME NEW D, NEW c, IsCache(c, D), NEW N \in SUBSET D, IsFiniteSet(N), Listed(c, N),
           NEW p \in N
    PROVE  /\ c.slabs[p].prev \in D \cup {Null} /\ c.slabs[p].next \in D \cup {Null}
           /\ Listed(UnlinkPartial(c, p), N \ {p})
<1> DEFINE r == UnlinkPartial(c, p)
           x == c.slabs[p].prev
           y == c.slabs[p].next
<1>1. PICK l, n : Lists(l, n, N) /\ Follows(c.slabs, c.partial, l, n)
  BY ListedForm, Zenon
<1>0. N \subseteq Nat /\ \A q \in N : q # Null
  BY DEF IsCache, Null
<1>2. n \in Nat /\ l \in [1..n -> N] /\ \A i, k \in 1..n : l[i] = l[k] => i = k
  BY <1>1 DEF Lists
<1>3. /\ c.partial = IF n = 0 THEN Null ELSE l[1]
      /\ \A k \in 1..n : /\ c.slabs[l[k]].next = IF k = n THEN Null ELSE l[k + 1]
                         /\ c.slabs[l[k]].prev = IF k = 1 THEN Null ELSE l[k - 1]
  BY <1>1 DEF Follows
<1>4. PICK j \in 1..n : l[j] = p
  BY <1>1 DEF Lists
<1>5. /\ x = IF j = 1 THEN Null ELSE l[j - 1]
      /\ y = IF j = n THEN Null ELSE l[j + 1]
  BY <1>3, <1>4
<1>6. (j # 1 => j - 1 \in 1..n) /\ (j # n => j + 1 \in 1..n)
  BY <1>2
<1>7. x \in N \cup {Null} /\ y \in N \cup {Null} /\ (x = Null <=> j = 1)
  BY <1>0, <1>2, <1>5, <1>6
<1>8. /\ r.partial = IF x = Null THEN y ELSE c.partial
      /\ \A q \in D : /\ r.slabs[q].next = IF q = x THEN y ELSE c.slabs[q].next
                      /\ r.slabs[q].prev = IF q = y THEN x ELSE c.slabs[q].prev
  BY <1>7, UnlinkWrites
<1> DEFINE d == [k \in 1..(n - 1) |-> IF k < j THEN l[k] ELSE l[k + 1]]
<1>9. Lists(d, n - 1, N \ {p})
  BY <1>1, <1>4, ListsDrop, Zenon
<1>10. \A k \in 1..(n - 1) : d[k] = IF k < j THEN l[k] ELSE l[k + 1]
  BY <1>2
<1> HIDE DEF r, d, x, y
<1>11. r.partial = IF n - 1 = 0 THEN Null ELSE d[1]
  <2>1. CASE n = 1
    BY <1>2, <1>5, <1>7, <1>8, <2>1
  <2>2. CASE n # 1 /\ j = 1
    <3>1. 1 \in 1..(n - 1) /\ d[1] = l[2] /\ y = l[2]
      BY <1>2, <1>5, <1>10, <2>2
    <3> QED BY <1>2, <1>7, <1>8, <2>2, <3>1
  <2>3. CASE n # 1 /\ j # 1
    <3>1. 1 \in 1..(n - 1) /\ d[1] = l[1] /\ n # 0
      BY <1>2, <1>10, <2>3
    <3> QED BY <1>2, <1>3, <1>7, <1>8, <2>3, <3>1
  <2> QED BY <2>1, <2>2, <2>3
<1>12. ASSUME NEW k \in 1..(n - 1)
       PROVE  /\ r.slabs[d[k]].next = IF k = n - 1 THEN Null ELSE d[k + 1]
              /\ r.slabs[d[k]].prev = IF k = 1 THEN Null ELSE d[k - 1]
  <2>0. k \in 1..n /\ k + 1 \in 1..n
    BY <1>2
  <2>1. CASE k < j
    <3>1. d[k] = l[k] /\ l[k] \in D
      BY <1>2, <1>10, <2>0, <2>1
    <3>2. (l[k] = x) <=> (k = j - 1)
      BY <1>0, <1>2, <1>5, <1>6, <2>0, <2>1
    <3>3. l[k] # y
      <4>0. k # j + 1 /\ l[k] \in N
        BY <1>2, <2>0, <2>1
      <4>1. l[k] # Null /\ (j # n => l[k] # l[j + 1])
        BY <1>0, <1>2, <1>6, <2>0, <4>0, Zenon
      <4> QED BY <1>5, <4>1
    <3>4. r.slabs[d[k]].next = IF k = j - 1 THEN y ELSE l[k + 1]
      <4>1. k # n
        BY <1>2
      <4> QED BY <1>3, <1>8, <2>0, <3>1, <3>2, <4>1
    <3>5. r.slabs[d[k]].prev = IF k = 1 THEN Null ELSE l[k - 1]
      BY <1>3, <1>8, <2>0, <3>1, <3>3
    <3>6. k # 1 => k - 1 \in 1..(n - 1) /\ d[k - 1] = l[k - 1]
      <4>1. k # 1 => k - 1 \in 1..(n - 1) /\ k - 1 < j
        BY <1>2, <2>1
      <4> QED BY <1>10, <4>1
    <3>7. CASE k = j - 1
      <4>1. (k = n - 1) <=> (j = n)
        BY <1>2, <3>7
      <4>2. j # n => d[k + 1] = l[j + 1]
        <5>1. j # n => k + 1 \in 1..(n - 1) /\ ~(k + 1 < j) /\ (k + 1) + 1 = j + 1
          BY <1>2, <3>7
        <5> QED BY <1>10, <5>1
      <4> QED BY <1>5, <3>4, <3>5, <3>6, <3>7, <4>1, <4>2
    <3>8. CASE k # j - 1
      <4>1. k + 1 \in 1..(n - 1) /\ k + 1 < j /\ k # n - 1
        BY <1>2, <2>1, <3>8
      <4>2. d[k + 1] = l[k + 1]
        BY <1>10, <4>1
      <4> QED BY <3>4, <3>5, <3>6, <3>8, <4>1, <4>2
    <3> QED BY <3>7, <3>8
  <2>2. CASE ~(k < j)
    <3>1. d[k] = l[k + 1] /\ l[k + 1] \in D
      BY <1>2, <1>10, <2>0, <2>2
    <3>2. l[k + 1] # x
      <4>0. k + 1 # j - 1 /\ l[k + 1] \in N
        BY <1>2, <2>0, <2>2
      <4>1. l[k + 1] # Null /\ (j # 1 => l[k + 1] # l[j - 1])
        BY <1>0, <1>2, <1>6, <2>0, <4>0, Zenon
      <4> QED BY <1>5, <4>1
    <3>3. (l[k + 1] = y) <=> (k = j)
      BY <1>0, <1>2, <1>5, <1>6, <2>0, <2>2
    <3>4. r.slabs[d[k]].next = IF k + 1 = n THEN Null ELSE l[(k + 1) + 1]
      BY <1>3, <1>8, <2>0, <3>1, <3>2
    <3>5. k + 1 # n => d[k + 1] = l[(k + 1) + 1]
      <4>1. k + 1 # n => k + 1 \in 1..(n - 1) /\ ~(k + 1 < j)
        BY <1>2, <2>2
      <4> QED BY <1>10, <4>1
    <3>6. (k + 1 = n) <=> (k = n - 1)
      BY <1>2
    <3>7. r.slabs[d[k]].prev = IF k = j THEN x ELSE l[k]
      <4>1. k + 1 # 1 /\ (k + 1) - 1 = k
        BY <1>2
      <4> QED BY <1>3, <1>8, <2>0, <3>1, <3>3, <4>1
    <3>8. IF k = j THEN x = (IF k = 1 THEN Null ELSE d[k - 1]) ELSE k # 1 /\ l[k] = d[k - 1]
      <4>1. CASE k = j
        <5>1. k # 1 => k - 1 \in 1..(n - 1) /\ k - 1 < j
          BY <1>2, <4>1
        <5>2. k # 1 => d[k - 1] = l[k - 1]
          BY <1>10, <5>1
        <5> QED BY <1>5, <4>1, <5>2
      <4>2. CASE k # j
        <5>1. k # 1 /\ k - 1 \in 1..(n - 1) /\ ~(k - 1 < j) /\ (k - 1) + 1 = k
          BY <1>2, <2>2, <4>2
        <5>2. d[k - 1] = l[k]
          BY <1>10, <5>1
        <5> QED BY <4>2, <5>1, <5>2
      <4> QED BY <4>1, <4>2
    <3> QED BY <3>4, <3>5, <3>6, <3>7, <3>8
  <2> QED BY <2>1, <2>2
<1>13. Follows(r.slabs, r.partial, d, n - 1)
  BY <1>11, <1>12, Zenon DEF Follows
<1>14. Listed(r, N \ {p})
  BY <1>9, <1>13, ListedForm, Zenon
<1> QED BY <1>7, <1>14 DEF r, x, y

-----------------------------------------------------------------------------
(* Addresses.                                                              *)

(* What rounding down leaves. *)
LEMMA Rounded ==
    ASSUME NEW n \in Nat \ {0}, NEW a \in Int
    PROVE  /\ a \div n \in Int /\ a % n \in 0..(n - 1)
           /\ a = n * (a \div n) + (a % n)
OBVIOUS

(* Scaling keeps the order. *)
LEMMA Scaled ==
    ASSUME NEW n \in Nat \ {0}, NEW i \in Int, NEW j \in Int
    PROVE  n * i < n * j <=> i < j
<1>1. ASSUME i < j PROVE n * i < n * j
  <2>1. n * j - n * i = n * (j - i)
    OBVIOUS
  <2>2. \A d \in Nat \ {0} : n * d > 0
    OBVIOUS
  <2>3. n * (j - i) > 0
    BY <1>1, <2>2
  <2> QED BY <2>1, <2>3
<1>2. ASSUME j <= i PROVE n * j <= n * i
  <2>1. n * i - n * j = n * (i - j)
    OBVIOUS
  <2>2. \A d \in Nat : n * d >= 0
    OBVIOUS
  <2>3. n * (i - j) >= 0
    BY <1>2, <2>2
  <2> QED BY <2>1, <2>3
<1>3. n * i \in Int /\ n * j \in Int
  OBVIOUS
<1>4. CASE i < j
  BY <1>1, <1>4
<1>5. CASE j <= i
  BY <1>2, <1>3, <1>5
<1> QED BY <1>4, <1>5

(* Quotient and remainder are unique. *)
LEMMA Quotient ==
    ASSUME NEW n \in Nat \ {0}, NEW q \in Int, NEW r \in 0..(n - 1)
    PROVE  (n * q + r) \div n = q /\ (n * q + r) % n = r
OBVIOUS

(* The slots fit behind the header. *)
LEMMA Sizes ==
    /\ PageUnits \in Nat \ {0} /\ ObjSize \in Nat \ {0} /\ Stride \in Nat
    /\ Order \in Nat /\ NumPages \in Nat /\ Pow2[Order] \in Nat \ {0} /\ Pow2[0] = 1
    /\ SlabUnits \in Nat \ {0} /\ Capacity \in Nat \ {0}
    /\ \A i \in 0..(Capacity - 1) :
          /\ i * ObjSize \in Nat
          /\ Stride + i * ObjSize + ObjSize <= SlabUnits
<1>1. /\ PageUnits \in Nat \ {0} /\ ObjSize \in Nat \ {0} /\ Stride \in Nat
      /\ Order \in Nat /\ NumPages \in Nat /\ Pow2[Order] \in Nat \ {0} /\ Pow2[0] = 1
  BY SlabAssumption
<1>2. SlabUnits \in Nat \ {0}
  BY <1>1 DEF SlabUnits
<1>3. Capacity \in Nat \ {0}
  BY ChainFresh
<1>4. ObjSize * Capacity <= SlabUnits - Stride /\ ObjSize * Capacity \in Int
  <2>1. Stride < SlabUnits /\ Capacity = (SlabUnits - Stride) \div ObjSize
    BY <1>1, <1>2, <1>3 DEF Capacity
  <2> HIDE DEF Capacity
  <2> DEFINE w == SlabUnits - Stride
  <2>2. w \in Int
    BY <1>1, <1>2
  <2> HIDE DEF w
  <2>3. /\ w \div ObjSize \in Int /\ w % ObjSize \in 0..(ObjSize - 1)
        /\ w = ObjSize * (w \div ObjSize) + (w % ObjSize)
    BY <1>1, <2>2, Rounded
  <2>4. Capacity = w \div ObjSize
    BY <2>1 DEF w
  <2>5. ObjSize * Capacity \in Int
    BY <1>1, <1>3
  <2>6. w = ObjSize * Capacity + (w % ObjSize)
    BY <2>3, <2>4
  <2>7. ObjSize * Capacity <= w
    BY <1>1, <2>2, <2>3, <2>5, <2>6
  <2> QED BY <2>5, <2>7 DEF w
<1>5. ASSUME NEW i \in 0..(Capacity - 1)
      PROVE  /\ i * ObjSize \in Nat
             /\ Stride + i * ObjSize + ObjSize <= SlabUnits
  <2>1. i \in Nat /\ i + 1 \in Int /\ ~(Capacity < i + 1)
    BY <1>3
  <2>2. ~(ObjSize * Capacity < ObjSize * (i + 1))
    BY <1>1, <1>3, <2>1, Scaled
  <2>3. ObjSize * (i + 1) = i * ObjSize + ObjSize
    BY <1>1, <2>1
  <2>4. i * ObjSize \in Nat
    BY <1>1, <2>1
  <2> QED BY <1>1, <1>2, <1>4, <2>2, <2>3, <2>4
<1> QED BY <1>1, <1>2, <1>3, <1>5

(* A slab's base rounds to itself, and so does every address in the slab. *)
LEMMA InSlab ==
    ASSUME base \in Nat, NEW p \in Nat, Aligned(p),
           NEW u \in Int, SlabBase(p) <= u, u < SlabBase(p) + SlabUnits
    PROVE  SlabBaseOf(u) = SlabBase(p) /\ SlabOf(u) = p
<1> DEFINE b == SlabBase(p)
           m == b \div SlabUnits
<1>1. SlabUnits \in Nat \ {0} /\ PageUnits \in Nat \ {0}
  BY Sizes
<1>2. b \in Nat /\ b = PageUnits * (base + p)
  BY <1>1 DEF SlabBase
<1>3. b - (b % SlabUnits) = b
  BY DEF Aligned, SlabBaseOf
<1> HIDE DEF b
<1>4. m \in Int /\ b % SlabUnits \in 0..(SlabUnits - 1) /\ b = SlabUnits * m + (b % SlabUnits)
  BY <1>1, <1>2, Rounded
<1> HIDE DEF m
<1>5. b % SlabUnits = 0
  BY <1>1, <1>2, <1>3, <1>4
<1>6. b = SlabUnits * m
  <2>1. SlabUnits * m \in Int
    BY <1>1, <1>4
  <2> QED BY <1>4, <1>5, <2>1
<1> DEFINE r == u - b
<1>7. r \in 0..(SlabUnits - 1) /\ u = b + r
  BY <1>1, <1>2 DEF b
<1> HIDE DEF r
<1>8. u % SlabUnits = r
  <2>1. u = SlabUnits * m + r
    BY <1>6, <1>7
  <2> QED BY <1>1, <1>4, <1>7, <2>1, Quotient
<1>9. SlabBaseOf(u) = b
  <2>1. SlabBaseOf(u) = u - r
    BY <1>8 DEF SlabBaseOf
  <2> QED BY <1>1, <1>2, <1>7, <2>1
<1>10. b \div PageUnits = base + p
  <2> DEFINE x == base + p
  <2>1. x \in Int /\ 0 \in 0..(PageUnits - 1)
    BY <1>1
  <2>2. b = PageUnits * x + 0
    BY <1>1, <1>2, <2>1
  <2> HIDE DEF x
  <2>3. (PageUnits * x + 0) \div PageUnits = x
    BY <1>1, <2>1, Quotient
  <2> QED BY <2>2, <2>3 DEF x
<1>11. SlabOf(u) = p
  BY <1>9, <1>10 DEF SlabOf
<1> QED BY <1>9, <1>11 DEF b

(* The place of a slot, found again from its address. *)
LEMMA SlotPlace ==
    ASSUME base \in Nat, NEW p \in Nat, Aligned(p), NEW i \in 0..(Capacity - 1)
    PROVE  /\ Slot(p, i) \in Nat /\ SlabBase(p) \in Nat
           /\ SlabOf(Slot(p, i)) = p /\ SlotOf(Slot(p, i)) = i
           /\ SlabBase(p) + Stride <= Slot(p, i)
           /\ SlabBase(p) <= Slot(p, i)
           /\ Slot(p, i) + ObjSize <= SlabBase(p) + SlabUnits
           /\ Slot(p, i) < SlabBase(p) + SlabUnits
<1> DEFINE b == SlabBase(p)
           a == Slot(p, i)
           e == i * ObjSize
<1>1. /\ SlabUnits \in Nat \ {0} /\ PageUnits \in Nat \ {0} /\ Stride \in Nat
      /\ ObjSize \in Nat \ {0} /\ e \in Nat /\ Stride + e + ObjSize <= SlabUnits
      /\ Capacity \in Nat \ {0}
  BY Sizes
<1>2. b \in Nat
  BY <1>1 DEF SlabBase
<1>3. a = b + Stride + e
  BY DEF Slot
<1> HIDE DEF b, a
<1>5. e = ObjSize * i + 0 /\ i \in Int /\ 0 \in 0..(ObjSize - 1)
  BY <1>1
<1> HIDE DEF e
<1>4. /\ a \in Nat /\ b + Stride <= a /\ b <= a /\ a + ObjSize <= b + SlabUnits
      /\ a < b + SlabUnits
  BY <1>1, <1>2, <1>3
<1>6. e \div ObjSize = i
  BY <1>1, <1>5, Quotient
<1>7. SlabBaseOf(a) = b /\ SlabOf(a) = p
  BY <1>4, InSlab DEF a, b
<1>8. a - b - Stride = e
  BY <1>1, <1>2, <1>3
<1>9. SlotOf(a) = i
  BY <1>6, <1>7, <1>8 DEF SlotOf
<1> QED BY <1>2, <1>4, <1>7, <1>9 DEF a, b

-----------------------------------------------------------------------------
(* The cache c of slabs D with the objects L in use.                       *)

FreeIn(p, L) == {i \in 0..(Capacity - 1) : Slot(p, i) \notin L}

Within(p, L) == {a \in L : SlabBase(p) <= a /\ a < SlabBase(p) + SlabUnits}

SlotsInv(p, h, L) ==
    /\ HasChain(h.link, h.free_head, FreeIn(p, L))
    /\ h.in_use = Cardinality(Within(p, L))
    /\ h.in_use + Cardinality(FreeIn(p, L)) = Capacity

CacheInv(c, D, L) ==
    /\ base \in Nat
    /\ IsCache(c, D) /\ IsFiniteSet(D)
    /\ L \subseteq Int /\ IsFiniteSet(L)
    /\ \A p \in D : Aligned(p)
    /\ \A a \in L : \E p \in D : \E i \in 0..(Capacity - 1) : a = Slot(p, i)
    /\ \A p \in D : SlotsInv(p, c.slabs[p], L)
    /\ Listed(c, {p \in D : ~IsFull(c.slabs[p])})

(* An object of one slab makes no difference to another. *)
LEMMA OtherSlab ==
    ASSUME base \in Nat, NEW p \in Nat, Aligned(p), NEW q \in Nat, Aligned(q), p # q,
           NEW i \in 0..(Capacity - 1), NEW L, NEW M,
           \A a : a # Slot(q, i) => (a \in M <=> a \in L)
    PROVE  FreeIn(p, M) = FreeIn(p, L) /\ Within(p, M) = Within(p, L)
<1> DEFINE o == Slot(q, i)
<1>1. SlabOf(o) = q /\ o \in Nat
  BY SlotPlace
<1>2. \A j \in 0..(Capacity - 1) : SlabOf(Slot(p, j)) = p
  BY SlotPlace
<1>3. ~(SlabBase(p) <= o /\ o < SlabBase(p) + SlabUnits)
  BY <1>1, InSlab
<1>4. \A j \in 0..(Capacity - 1) : Slot(p, j) # o
  BY <1>1, <1>2
<1>0. \A a : a # o => (a \in M <=> a \in L)
  OBVIOUS
<1> HIDE DEF o
<1>5. FreeIn(p, M) = FreeIn(p, L)
  BY <1>0, <1>4, Zenon DEF FreeIn
<1>6. Within(p, M) = Within(p, L)
  BY <1>0, <1>3, Zenon DEF Within
<1> QED BY <1>5, <1>6

(* An object of the slab takes its slot. *)
LEMMA OwnSlab ==
    ASSUME base \in Nat, NEW p \in Nat, Aligned(p),
           NEW i \in 0..(Capacity - 1), NEW L, NEW M,
           \A a : a \in M <=> a \in L \/ a = Slot(p, i)
    PROVE  /\ FreeIn(p, M) = FreeIn(p, L) \ {i}
           /\ Within(p, M) = Within(p, L) \cup {Slot(p, i)}
           /\ Slot(p, i) \notin L => /\ FreeIn(p, L) = FreeIn(p, M) \cup {i}
                                     /\ Within(p, L) = Within(p, M) \ {Slot(p, i)}
<1> DEFINE o == Slot(p, i)
<1>1. SlabBase(p) <= o /\ o < SlabBase(p) + SlabUnits
  BY SlotPlace
<1>2. \A j \in 0..(Capacity - 1) : SlotOf(Slot(p, j)) = j
  BY SlotPlace
<1>3. \A j \in 0..(Capacity - 1) : Slot(p, j) = o <=> j = i
  BY <1>2, Zenon
<1>0. \A a : a \in M <=> a \in L \/ a = o
  OBVIOUS
<1> HIDE DEF o
<1>4. /\ FreeIn(p, M) = FreeIn(p, L) \ {i}
      /\ o \notin L => FreeIn(p, L) = FreeIn(p, M) \cup {i}
  BY <1>0, <1>3, Zenon DEF FreeIn
<1>5. /\ Within(p, M) = Within(p, L) \cup {o}
      /\ o \notin L => Within(p, L) = Within(p, M) \ {o}
  BY <1>0, <1>1, Zenon DEF Within
<1> QED BY <1>4, <1>5 DEF o

(* The sets are finite. *)
LEMMA SlotsFinite ==
    ASSUME NEW p, NEW L, IsFiniteSet(L)
    PROVE  IsFiniteSet(FreeIn(p, L)) /\ IsFiniteSet(Within(p, L))
<1>1. Capacity - 1 \in Int /\ 0 \in Int
  BY Sizes
<1>2. IsFiniteSet(0..(Capacity - 1))
  BY <1>1, FS_Interval
<1>3. FreeIn(p, L) \in SUBSET (0..(Capacity - 1)) /\ Within(p, L) \in SUBSET L
  BY Zenon DEF FreeIn, Within
<1> QED BY <1>2, <1>3, FS_Subset, Zenon

(* Dealloc finds the header and the slot of every object. *)
LEMMA Recovered ==
    ASSUME NEW c, NEW D, NEW L, CacheInv(c, D, L), NEW a \in L
    PROVE  /\ SlabOf(a) \in D /\ SlotOf(a) \in 0..(Capacity - 1)
           /\ a = Slot(SlabOf(a), SlotOf(a))
           /\ a \in Within(SlabOf(a), L)
           /\ a + ObjSize <= SlabBase(SlabOf(a)) + SlabUnits
<1>1. PICK p \in D, i \in 0..(Capacity - 1) : a = Slot(p, i)
  BY DEF CacheInv
<1>2. base \in Nat /\ p \in Nat /\ Aligned(p)
  BY DEF CacheInv, IsCache
<1>3. /\ SlabOf(a) = p /\ SlotOf(a) = i
      /\ SlabBase(p) <= a /\ a < SlabBase(p) + SlabUnits
      /\ a + ObjSize <= SlabBase(p) + SlabUnits
  BY <1>1, <1>2, SlotPlace
<1> QED BY <1>1, <1>3 DEF Within

(* Taking a free slot of slab p. *)
LEMMA SlotTaken ==
    ASSUME base \in Nat, NEW p \in Nat, Aligned(p), NEW h \in Header,
           NEW L \in SUBSET Int, IsFiniteSet(L), SlotsInv(p, h, L), ~IsFull(h),
           NEW i \in Int, i = h.free_head,
           NEW g \in Header, g.free_head = h.link[i], g.in_use = h.in_use + 1,
           \A j \in 0..(Capacity - 1) : j # i => g.link[j] = h.link[j],
           NEW M, \A a : a \in M <=> a \in L \/ a = Slot(p, i)
    PROVE  /\ i \in 0..(Capacity - 1) /\ Slot(p, i) \notin L
           /\ SlotsInv(p, g, M)
<1> DEFINE S == FreeIn(p, L)
           T == FreeIn(p, M)
           a == Slot(p, i)
           V == Within(p, L)
           W == Within(p, M)
<1>1. IsFiniteSet(S) /\ IsFiniteSet(V)
  BY SlotsFinite
<1>2. Cardinality(S) \in Nat /\ Cardinality(V) \in Nat
  BY <1>1, FS_CardinalityType
<1>3. Capacity \in Nat \ {0} /\ h.in_use \in Int /\ h.link \in [0..(Capacity - 1) -> Int]
  BY Sizes DEF Header
<1>4. h.in_use = Cardinality(V) /\ h.in_use + Cardinality(S) = Capacity
  BY DEF SlotsInv
<1>5. S # {}
  <2>1. Cardinality(S) # 0
    BY <1>2, <1>3, <1>4 DEF IsFull
  <2> QED BY <2>1, FS_EmptySet, Zenon
<1>6. S \in SUBSET (0..(Capacity - 1))
  BY DEF FreeIn
<1>7. i \in S /\ HasChain(g.link, h.link[i], S \ {i})
  <2>1. HasChain(h.link, i, S)
    BY DEF SlotsInv
  <2>2. \A s \in S : s # i => g.link[s] = h.link[s]
    BY <1>6
  <2> HIDE DEF S
  <2> QED BY <1>1, <1>5, <2>1, <2>2, ChainTake, Zenon
<1>8. i \in 0..(Capacity - 1) /\ a \notin L /\ a \notin V
  BY <1>7, Zenon DEF FreeIn, Within
<1>9. T = S \ {i} /\ W = V \cup {a}
  BY <1>8, OwnSlab
<1> HIDE DEF S, T, a, V, W
<1>10. Cardinality(S \ {i}) = Cardinality(S) - 1 /\ Cardinality(V \cup {a}) = Cardinality(V) + 1
  BY <1>1, <1>7, <1>8, FS_AddElement, FS_RemoveElement
<1>11. Cardinality(T) = Cardinality(S) - 1 /\ Cardinality(W) = Cardinality(V) + 1
  BY <1>9, <1>10, Zenon
<1>12. g.in_use = Cardinality(W) /\ g.in_use + Cardinality(T) = Capacity
  BY <1>2, <1>3, <1>4, <1>11
<1>13. HasChain(g.link, g.free_head, T)
  BY <1>7, <1>9, Zenon
<1> QED BY <1>8, <1>12, <1>13 DEF SlotsInv, a, T, W

(* Giving the object of slot i of slab p back. *)
LEMMA SlotReturned ==
    ASSUME base \in Nat, NEW p \in Nat, Aligned(p), NEW h \in Header,
           NEW L \in SUBSET Int, IsFiniteSet(L), SlotsInv(p, h, L),
           NEW i \in 0..(Capacity - 1), Slot(p, i) \in L,
           NEW g \in Header, g.free_head = i, g.in_use = h.in_use - 1, g.link[i] = h.free_head,
           \A j \in 0..(Capacity - 1) : j # i => g.link[j] = h.link[j],
           NEW M, \A a : a \in M <=> a \in L /\ a # Slot(p, i)
    PROVE  SlotsInv(p, g, M) /\ ~IsFull(g)
<1> DEFINE S == FreeIn(p, L)
           T == FreeIn(p, M)
           a == Slot(p, i)
           V == Within(p, L)
           W == Within(p, M)
<1>1. IsFiniteSet(S) /\ IsFiniteSet(V)
  BY SlotsFinite
<1>2. Cardinality(S) \in Nat /\ Cardinality(V) \in Nat
  BY <1>1, FS_CardinalityType
<1>3. Capacity \in Nat \ {0} /\ h.in_use \in Int /\ h.link \in [0..(Capacity - 1) -> Int]
  BY Sizes DEF Header
<1>4. h.in_use = Cardinality(V) /\ h.in_use + Cardinality(S) = Capacity
  BY DEF SlotsInv
<1>5. S \in SUBSET (0..(Capacity - 1)) /\ i \notin S
  BY DEF FreeIn
<1>6. HasChain(g.link, i, S \cup {i})
  <2>1. HasChain(h.link, h.free_head, S)
    BY DEF SlotsInv
  <2>2. \A s \in S : g.link[s] = h.link[s]
    BY <1>5
  <2> HIDE DEF S
  <2> QED BY <1>1, <1>5, <2>1, <2>2, ChainPut, Zenon
<1>7. a \in V
  BY SlotPlace DEF Within
<1>8. T = S \cup {i} /\ W = V \ {a}
  <2>1. (\A x : x \in L <=> x \in M \/ x = Slot(p, i)) /\ Slot(p, i) \notin M
    OBVIOUS
  <2> QED BY <2>1, OwnSlab
<1> HIDE DEF S, T, a, V, W
<1>9. Cardinality(S \cup {i}) = Cardinality(S) + 1 /\ Cardinality(V \ {a}) = Cardinality(V) - 1
  BY <1>1, <1>5, <1>7, FS_AddElement, FS_RemoveElement
<1>10. Cardinality(T) = Cardinality(S) + 1 /\ Cardinality(W) = Cardinality(V) - 1
  BY <1>8, <1>9, Zenon
<1>11. /\ g.in_use = Cardinality(W) /\ g.in_use + Cardinality(T) = Capacity
       /\ g.in_use # Capacity
  BY <1>2, <1>3, <1>4, <1>10
<1>12. HasChain(g.link, g.free_head, T)
  BY <1>6, <1>8, Zenon
<1> QED BY <1>11, <1>12 DEF SlotsInv, IsFull, T, W

-----------------------------------------------------------------------------
(* What the operations do to the cache.                                    *)

Partial(c, D) == {p \in D : ~IsFull(c.slabs[p])}

WithHeader(c, p, h) == [c EXCEPT !.slabs[p] = h]

(* Writing one header. *)
LEMMA HeaderWritten ==
    ASSUME NEW D, NEW c, IsCache(c, D), NEW p \in D, NEW h \in Header
    PROVE  LET d == WithHeader(c, p, h) IN
           /\ IsCache(d, D) /\ d.partial = c.partial
           /\ \A q \in D : d.slabs[q] = IF q = p THEN h ELSE c.slabs[q]
<1> DEFINE s == [c.slabs EXCEPT ![p] = h]
           d == WithHeader(c, p, h)
<1>1. d = [slabs |-> s, partial |-> c.partial]
  BY DEF WithHeader, IsCache
<1>2. c.slabs \in [D -> Header] /\ D \subseteq Nat /\ c.partial \in Int
  BY DEF IsCache
<1>3. s \in [D -> Header] /\ \A q \in D : s[q] = IF q = p THEN h ELSE c.slabs[q]
  BY <1>2
<1> HIDE DEF s
<1>4. d.slabs = s /\ d.partial = c.partial
  BY <1>1
<1> HIDE DEF d
<1>5. IsCache(d, D)
  BY <1>1, <1>2, <1>3, <1>4 DEF IsCache
<1> QED BY <1>3, <1>4, <1>5 DEF d

(* The header that alloc leaves. *)
LEMMA TakeSlotFields ==
    ASSUME NEW h \in Header, h.free_head \in 0..(Capacity - 1)
    PROVE  LET g == TakeSlot(h) IN
           /\ g \in Header /\ SameLinks(g, h)
           /\ g.free_head = h.link[h.free_head] /\ g.in_use = h.in_use + 1
           /\ \A j \in 0..(Capacity - 1) : j # h.free_head => g.link[j] = h.link[j]
<1> DEFINE Links == [0..(Capacity - 1) -> Int]
           i == h.free_head
           l == [h.link EXCEPT ![i] = Data]
           x == [h EXCEPT !.free_head = h.link[i]]
           y == [x EXCEPT !.in_use = @ + 1]
           z == [y EXCEPT !.link = l]
           g == TakeSlot(h)
           Hs == [free_head : Int, in_use : Int, prev : Int, next : Int, link : Links]
<1>1. h \in Hs /\ h.link \in [0..(Capacity - 1) -> Int] /\ h.link[i] \in Int /\ h.in_use + 1 \in Int
  <2>1. h \in Hs
    BY DEF Header
  <2>2. h.link \in Links /\ h.in_use \in Int
    <3> HIDE DEF Links
    <3> QED BY <2>1
  <2>3. \A j \in 0..(Capacity - 1) : h.link[j] \in Int
    BY <2>2
  <2>4. h.link[i] \in Int
    BY <2>3, Zenon
  <2>5. h.in_use + 1 \in Int
    BY <2>2
  <2> QED BY <2>1, <2>2, <2>4, <2>5, Zenon
<1>2. l \in Links /\ \A j \in 0..(Capacity - 1) : j # i => l[j] = h.link[j]
  BY <1>1 DEF Data
<1>3. g = z
  BY <1>1 DEF TakeSlot
<1> HIDE DEF Links, l, g, i
<1>4. x \in Hs /\ SameLinks(x, h) /\ x.free_head = h.link[i] /\ x.in_use = h.in_use
  BY <1>1 DEF SameLinks
<1> HIDE DEF x
<1>5. y \in Hs /\ SameLinks(y, h) /\ y.free_head = h.link[i] /\ y.in_use = h.in_use + 1
  BY <1>1, <1>4 DEF SameLinks
<1> HIDE DEF y
<1>6. /\ z \in Hs /\ SameLinks(z, h) /\ z.free_head = h.link[i] /\ z.in_use = h.in_use + 1
      /\ z.link = l
  BY <1>2, <1>5 DEF SameLinks
<1> HIDE DEF z
<1>7. g \in Header
  BY <1>3, <1>6 DEF Header, Links
<1> QED BY <1>2, <1>3, <1>6, <1>7 DEF g, i

(* The header that dealloc leaves. *)
LEMMA PutBackFields ==
    ASSUME NEW a, NEW h \in Header, h = slabs[SlabOf(a)],
           NEW i \in 0..(Capacity - 1), i = SlotOf(a), NEW g, g = PutBack(a)
    PROVE  /\ g \in Header /\ SameLinks(g, h)
           /\ g.free_head = i /\ g.in_use = h.in_use - 1 /\ g.link[i] = h.free_head
           /\ \A j \in 0..(Capacity - 1) : j # i => g.link[j] = h.link[j]
<1> DEFINE Links == [0..(Capacity - 1) -> Int]
           l == [h.link EXCEPT ![i] = h.free_head]
           x == [h EXCEPT !.link = l]
           y == [x EXCEPT !.free_head = i]
           z == [y EXCEPT !.in_use = @ - 1]
           Hs == [free_head : Int, in_use : Int, prev : Int, next : Int, link : Links]
<1>1. /\ h \in Hs /\ h.link \in [0..(Capacity - 1) -> Int] /\ h.free_head \in Int
      /\ h.in_use - 1 \in Int /\ i \in Int
  <2>1. h \in Hs
    BY DEF Header
  <2>2. h.link \in Links /\ h.in_use \in Int /\ h.free_head \in Int
    <3> HIDE DEF Links
    <3> QED BY <2>1
  <2>3. i \in Int
    BY Sizes
  <2> QED BY <2>1, <2>2, <2>3
<1>2. l \in Links /\ l[i] = h.free_head /\ \A j \in 0..(Capacity - 1) : j # i => l[j] = h.link[j]
  BY <1>1
<1>3. g = z
  BY <1>1 DEF PutBack
<1> HIDE DEF Links, l
<1>4. x \in Hs /\ SameLinks(x, h) /\ x.link = l /\ x.in_use = h.in_use
  BY <1>1, <1>2 DEF SameLinks
<1> HIDE DEF x
<1>5. y \in Hs /\ SameLinks(y, h) /\ y.link = l /\ y.free_head = i /\ y.in_use = h.in_use
  BY <1>1, <1>4 DEF SameLinks
<1> HIDE DEF y
<1>6. /\ z \in Hs /\ SameLinks(z, h) /\ z.free_head = i /\ z.in_use = h.in_use - 1
      /\ z.link = l
  BY <1>1, <1>5 DEF SameLinks
<1> HIDE DEF z
<1>7. g \in Header
  BY <1>3, <1>6 DEF Header, Links
<1> QED BY <1>2, <1>3, <1>6, <1>7

(* d and M differ from c and L in slab p and in one of its slots only. *)
OneSlab(c, D, L, p, d, M) ==
    /\ p \in D
    /\ \E i \in 0..(Capacity - 1) : \A a : a # Slot(p, i) => (a \in M <=> a \in L)
    /\ IsCache(d, D) /\ SlotsInv(p, d.slabs[p], M)
    /\ \A q \in D : q # p => SameSlots(d.slabs[q], c.slabs[q])
    /\ Listed(d, Partial(d, D))

(* Such a change keeps the invariant. *)
LEMMA OneSlabChanges ==
    ASSUME NEW c, NEW D, NEW L, CacheInv(c, D, L), NEW p, NEW d, NEW M,
           OneSlab(c, D, L, p, d, M)
    PROVE  CacheInv(d, D, M)
<1>0. PICK i \in 0..(Capacity - 1) : \A a : a # Slot(p, i) => (a \in M <=> a \in L)
  BY Zenon DEF OneSlab
<1>i. /\ p \in D /\ IsCache(d, D) /\ SlotsInv(p, d.slabs[p], M)
      /\ \A q \in D : q # p => SameSlots(d.slabs[q], c.slabs[q])
      /\ Listed(d, Partial(d, D))
  BY DEF OneSlab
<1>1. /\ base \in Nat /\ IsFiniteSet(D) /\ D \subseteq Nat /\ L \subseteq Int /\ IsFiniteSet(L)
      /\ \A q \in D : Aligned(q)
  BY DEF CacheInv, IsCache
<1>2. Slot(p, i) \in Int
  BY <1>1, <1>i, SlotPlace
<1>3. M \subseteq Int /\ IsFiniteSet(M)
  <2>1. IsFiniteSet(L \cup {Slot(p, i)})
    BY <1>1, FS_AddElement
  <2>2. M \in SUBSET (L \cup {Slot(p, i)})
    BY <1>0
  <2>3. IsFiniteSet(M)
    BY <2>1, <2>2, FS_Subset
  <2> QED BY <1>1, <1>2, <2>2, <2>3
<1>4. \A a \in M : \E q \in D : \E j \in 0..(Capacity - 1) : a = Slot(q, j)
  <2> TAKE a \in M
  <2>1. CASE a = Slot(p, i)
    BY <1>i, <2>1
  <2>2. CASE a # Slot(p, i)
    <3>1. a \in L
      BY <1>0, <2>2
    <3> QED BY <3>1, Zenon DEF CacheInv
  <2> QED BY <2>1, <2>2
<1>5. ASSUME NEW q \in D, q # p PROVE SlotsInv(q, d.slabs[q], M)
  <2>1. FreeIn(q, M) = FreeIn(q, L) /\ Within(q, M) = Within(q, L)
    BY <1>0, <1>1, <1>5, <1>i, OtherSlab
  <2>2. SlotsInv(q, c.slabs[q], L)
    BY DEF CacheInv
  <2> QED BY <1>5, <1>i, <2>1, <2>2, Zenon DEF SlotsInv, SameSlots
<1> QED BY <1>1, <1>i, <1>3, <1>4, <1>5, Zenon DEF CacheInv, Partial

(* The slabs that may be on the list are finitely many natural numbers. *)
LEMMA PartialFinite ==
    ASSUME NEW c, NEW D, NEW L, CacheInv(c, D, L)
    PROVE  /\ Partial(c, D) \in SUBSET D /\ Partial(c, D) \in SUBSET Nat
           /\ IsFiniteSet(Partial(c, D)) /\ Listed(c, Partial(c, D))
           /\ c.partial \in Partial(c, D) \cup {Null}
           /\ c.partial = Null <=> Partial(c, D) = {}
<1>1. Partial(c, D) \in SUBSET D /\ D \subseteq Nat /\ IsFiniteSet(D)
  BY DEF Partial, CacheInv, IsCache
<1>2. IsFiniteSet(Partial(c, D))
  BY <1>1, FS_Subset
<1>3. Listed(c, Partial(c, D))
  BY Zenon DEF CacheInv, Partial
<1>4. Partial(c, D) \in SUBSET Nat
  BY <1>1
<1> QED BY <1>1, <1>2, <1>3, <1>4, ListedHead

(* Alloc from the first partial slab. *)
LEMMA TakeKeeps ==
    ASSUME NEW c, NEW D, NEW L, CacheInv(c, D, L), c.partial # Null,
           NEW p \in Nat, p = c.partial, NEW i \in Int, i = c.slabs[p].free_head,
           NEW M, \A a : a \in M <=> a \in L \/ a = Slot(p, i)
    PROVE  /\ p \in D /\ i \in 0..(Capacity - 1) /\ Slot(p, i) \notin L
           /\ CacheInv(Taken(c), D, M)
<1> DEFINE N == Partial(c, D)
           h == c.slabs[p]
           g == TakeSlot(h)
           d == WithHeader(c, p, g)
           r == Taken(c)
<1>1. /\ base \in Nat /\ IsCache(c, D) /\ D \subseteq Nat /\ L \in SUBSET Int /\ IsFiniteSet(L)
      /\ \A q \in D : Aligned(q) /\ SlotsInv(q, c.slabs[q], L)
  BY DEF CacheInv, IsCache
<1>2. /\ N \in SUBSET D /\ N \in SUBSET Nat /\ IsFiniteSet(N) /\ Listed(c, N) /\ p \in N
  BY PartialFinite
<1>3. p \in D /\ p \in Nat /\ ~IsFull(h) /\ h \in Header /\ Aligned(p) /\ SlotsInv(p, h, L)
  BY <1>1, <1>2 DEF Partial, IsCache
<1>r. r = IF IsFull(g) THEN UnlinkPartial(d, p) ELSE d
  BY DEF Taken, WithHeader
<1>i. i = h.free_head
  OBVIOUS
<1> HIDE DEF N, h, r
<1>4. i \in 0..(Capacity - 1)
  <2>1. HasChain(h.link, i, FreeIn(p, L)) /\ IsFiniteSet(FreeIn(p, L))
    BY <1>1, <1>3, <1>i, SlotsFinite DEF SlotsInv
  <2>2. FreeIn(p, L) # {}
    <3>1. h.in_use \in Int /\ Capacity \in Nat /\ h.in_use # Capacity
      BY <1>3, Sizes DEF Header, IsFull
    <3>2. Cardinality(FreeIn(p, L)) # 0
      BY <1>3, <3>1 DEF SlotsInv
    <3> QED BY <3>2, FS_EmptySet, Zenon
  <2>3. i \in FreeIn(p, L)
    BY <2>1, <2>2, ChainTake, Zenon
  <2> QED BY <2>3, Zenon DEF FreeIn
<1>5. /\ g \in Header /\ SameLinks(g, h) /\ g.free_head = h.link[i] /\ g.in_use = h.in_use + 1
      /\ \A j \in 0..(Capacity - 1) : j # i => g.link[j] = h.link[j]
  BY <1>3, <1>4, <1>i, TakeSlotFields, Zenon
<1> HIDE DEF g
<1>6. Slot(p, i) \notin L /\ SlotsInv(p, g, M)
  BY <1>1, <1>3, <1>5, <1>i, SlotTaken
<1>7. /\ IsCache(d, D) /\ d.partial = c.partial
      /\ \A q \in D : d.slabs[q] = IF q = p THEN g ELSE c.slabs[q]
  BY <1>1, <1>3, <1>5, HeaderWritten
<1> HIDE DEF d
<1>8. Listed(d, N)
  <2>1. \A q \in N : SameLinks(d.slabs[q], c.slabs[q])
    BY <1>2, <1>5, <1>7 DEF SameLinks, h
  <2> QED BY <1>2, <1>7, <2>1, ListedSame, Zenon
<1>9. \E j \in 0..(Capacity - 1) : \A a : a # Slot(p, j) => (a \in M <=> a \in L)
  BY <1>4, Zenon
<1>10. CASE IsFull(g)
  <2>1. r = UnlinkPartial(d, p)
    BY <1>10, <1>r
  <2>2. /\ d.slabs[p].prev \in D \cup {Null} /\ d.slabs[p].next \in D \cup {Null}
        /\ Listed(r, N \ {p})
    BY <1>2, <1>7, <1>8, <2>1, UnlinkListed, Zenon
  <2>3. IsCache(r, D) /\ \A q \in D : SameSlots(r.slabs[q], d.slabs[q])
    BY <1>3, <1>7, <2>1, <2>2, UnlinkWrites
  <2>4. SlotsInv(p, r.slabs[p], M)
    BY <1>3, <1>6, <1>7, <2>3, Zenon DEF SlotsInv, SameSlots
  <2>5. \A q \in D : q # p => SameSlots(r.slabs[q], c.slabs[q])
    BY <1>7, <2>3
  <2>6. IsFull(r.slabs[p]) /\ \A q \in D : q # p => (IsFull(r.slabs[q]) <=> IsFull(c.slabs[q]))
    BY <1>3, <1>7, <1>10, <2>3, <2>5 DEF IsFull, SameSlots
  <2>7. Partial(r, D) = N \ {p}
    BY <1>3, <2>6, Zenon DEF Partial, N
  <2>8. Listed(r, Partial(r, D))
    BY <2>2, <2>7, Zenon
  <2>9. OneSlab(c, D, L, p, r, M)
    BY <1>3, <1>9, <2>3, <2>4, <2>5, <2>8, Zenon DEF OneSlab
  <2> QED BY <1>3, <1>4, <1>6, <2>9, OneSlabChanges, Zenon DEF r
<1>11. CASE ~IsFull(g)
  <2>1. r = d
    BY <1>11, <1>r
  <2>2. SlotsInv(p, d.slabs[p], M)
    BY <1>3, <1>6, <1>7, Zenon
  <2>3. \A q \in D : q # p => SameSlots(d.slabs[q], c.slabs[q])
    BY <1>7 DEF SameSlots
  <2>4. Partial(d, D) = N
    <3>1. \A q \in D : IsFull(d.slabs[q]) <=> IsFull(c.slabs[q])
      BY <1>3, <1>7, <1>11 DEF h
    <3> QED BY <3>1, Zenon DEF Partial, N
  <2>5. Listed(d, Partial(d, D))
    BY <1>8, <2>4, Zenon
  <2>0. IsCache(d, D)
    BY <1>7
  <2>6. CacheInv(d, D, M)
    <3>1. OneSlab(c, D, L, p, d, M)
      BY <1>3, <1>9, <2>0, <2>2, <2>3, <2>5, Zenon DEF OneSlab
    <3> QED BY <3>1, OneSlabChanges, Zenon
  <2> QED BY <1>3, <1>4, <1>6, <2>1, <2>6 DEF r
<1> QED BY <1>10, <1>11

(* Nothing lives in a page that is in no slab. *)
LEMMA NothingElsewhere ==
    ASSUME NEW c, NEW D, NEW L, CacheInv(c, D, L), NEW p \in Nat, p \notin D, Aligned(p)
    PROVE  FreeIn(p, L) = 0..(Capacity - 1) /\ Within(p, L) = {}
<1>1. base \in Nat /\ D \subseteq Nat /\ L \subseteq Int
  BY DEF CacheInv, IsCache
<1>2. \A a \in L : SlabOf(a) \in D
  BY Recovered
<1>3. \A a \in L : ~(SlabBase(p) <= a /\ a < SlabBase(p) + SlabUnits)
  BY <1>1, <1>2, InSlab
<1>4. \A i \in 0..(Capacity - 1) : Slot(p, i) \notin L
  BY <1>1, <1>2, SlotPlace
<1> QED BY <1>3, <1>4, Zenon DEF FreeIn, Within

(* A fresh header. *)
LEMMA FreshHeader ==
    /\ Fresh \in Header /\ Fresh.in_use = 0 /\ ~IsFull(Fresh) /\ Capacity \in Nat \ {0}
    /\ HasChain(Fresh.link, Fresh.free_head, 0..(Capacity - 1))
<1>1. Capacity \in Nat \ {0} /\ HasChain(Fresh.link, Fresh.free_head, 0..(Capacity - 1))
  BY ChainFresh
<1>2. Fresh.in_use = 0
  BY DEF Fresh
<1>3. Fresh \in Header
  <2> DEFINE l == [i \in 0..(Capacity - 1) |-> IF i + 1 < Capacity THEN i + 1 ELSE End]
             Links == [0..(Capacity - 1) -> Int]
  <2>1. l \in Links
    BY <1>1 DEF End
  <2>2. Fresh = [free_head |-> 0, in_use |-> 0, prev |-> Null, next |-> Null, link |-> l]
    BY DEF Fresh
  <2>3. Header = [free_head : Int, in_use : Int, prev : Int, next : Int, link : Links]
    BY DEF Header
  <2> HIDE DEF l, Links
  <2> QED BY <2>1, <2>2, <2>3 DEF Null
<1> QED BY <1>1, <1>2, <1>3 DEF IsFull

(* g is the cache c of slabs D with a fresh slab p, not yet on the list. *)
OneMore(c, D, p, g, E) ==
    /\ p \in Nat /\ p \notin D /\ Aligned(p)
    /\ \A q : q \in E <=> q \in D \/ q = p
    /\ IsCache(g, E) /\ g.partial = Null /\ g.slabs[p] = Fresh
    /\ \A q \in D : g.slabs[q] = c.slabs[q]

(* The cache with a new slab. *)
LEMMA GrowKeeps ==
    ASSUME NEW c, NEW D, NEW L, CacheInv(c, D, L), c.partial = Null,
           NEW p \in Nat, p \notin D, Aligned(p),
           NEW E, \A q : q \in E <=> q \in D \/ q = p,
           NEW g, IsCache(g, E), g.partial = Null, g.slabs[p] = Fresh,
           \A q \in D : g.slabs[q] = c.slabs[q]
    PROVE  LinkPartial(g, p).partial = p /\ CacheInv(LinkPartial(g, p), E, L)
<1> DEFINE r == LinkPartial(g, p)
           None == {}
<1>1. /\ base \in Nat /\ D \subseteq Nat /\ IsFiniteSet(D) /\ L \subseteq Int /\ IsFiniteSet(L)
      /\ \A q \in D : Aligned(q) /\ SlotsInv(q, c.slabs[q], L)
  BY DEF CacheInv, IsCache
<1>2. Partial(c, D) = {}
  BY PartialFinite
<1>4. /\ Fresh \in Header /\ Fresh.in_use = 0 /\ ~IsFull(Fresh) /\ Capacity \in Nat \ {0}
      /\ HasChain(Fresh.link, Fresh.free_head, 0..(Capacity - 1))
  BY FreshHeader
<1>6. p \in E /\ E \subseteq Nat
  BY <1>1
<1> HIDE DEF r, None
<1>8. None \in SUBSET E /\ IsFiniteSet(None) /\ p \in E \ None /\ Listed(g, None)
  <2>1. IsFiniteSet(None) /\ None = {} /\ Cardinality(None) = 0
    BY FS_EmptySet DEF None
  <2>2. Listed(c, None)
    BY <1>2, <2>1, PartialFinite, Zenon
  <2>3. Listed(g, None)
    <3>1. g.partial = c.partial /\ \A q \in None : SameLinks(g.slabs[q], c.slabs[q])
      BY <2>1
    <3> QED BY <2>1, <2>2, <3>1, ListedSame, Zenon
  <2> QED BY <1>6, <2>1, <2>3
<1>9. g.partial \in (E \ {p}) \cup {Null} /\ Listed(r, None \cup {p})
  BY <1>8, LinkListed, Zenon DEF r
<1>10. IsCache(r, E) /\ r.partial = p /\ \A q \in E : SameSlots(r.slabs[q], g.slabs[q])
  BY <1>6, <1>9, LinkWrites DEF r
<1>11. Partial(r, E) = None \cup {p}
  <2>1. ~IsFull(r.slabs[p])
    BY <1>4, <1>6, <1>10 DEF IsFull, SameSlots
  <2>2. \A q \in D : IsFull(r.slabs[q]) <=> IsFull(c.slabs[q])
    BY <1>6, <1>10 DEF IsFull, SameSlots
  <2>3. \A q \in D : IsFull(c.slabs[q])
    BY <1>2 DEF Partial
  <2> QED BY <2>1, <2>2, <2>3 DEF Partial, None
<1>12. Listed(r, Partial(r, E))
  BY <1>9, <1>11, Zenon
<1>13. SlotsInv(p, r.slabs[p], L)
  <2>1. FreeIn(p, L) = 0..(Capacity - 1) /\ Within(p, L) = {}
    BY NothingElsewhere
  <2>2. Cardinality(0..(Capacity - 1)) = Capacity
    <3>1. Capacity - 1 \in Int /\ 0 \in Int /\ ~(0 > Capacity - 1)
      BY <1>4
    <3>2. Cardinality(0..(Capacity - 1)) = (Capacity - 1) - 0 + 1
      BY <3>1, FS_Interval
    <3> QED BY <1>4, <3>2
  <2>3. Cardinality(Within(p, L)) = 0
    BY <2>1, FS_EmptySet, Zenon
  <2>4. Cardinality(FreeIn(p, L)) = Capacity
    BY <2>1, <2>2, Zenon
  <2>5. HasChain(Fresh.link, Fresh.free_head, FreeIn(p, L))
    BY <1>4, <2>1, Zenon
  <2>6. SameSlots(r.slabs[p], Fresh)
    BY <1>6, <1>10
  <2>7. /\ r.slabs[p].in_use = Cardinality(Within(p, L))
        /\ r.slabs[p].in_use + Cardinality(FreeIn(p, L)) = Capacity
    BY <1>4, <2>3, <2>4, <2>6 DEF SameSlots
  <2> QED BY <2>5, <2>6, <2>7, Zenon DEF SlotsInv, SameSlots
<1>14. ASSUME NEW q \in D PROVE SlotsInv(q, r.slabs[q], L)
  <2>1. SameSlots(r.slabs[q], c.slabs[q])
    BY <1>6, <1>10
  <2>2. SlotsInv(q, c.slabs[q], L)
    BY <1>1
  <2> QED BY <2>1, <2>2, Zenon DEF SlotsInv, SameSlots
<1>15. IsFiniteSet(E) /\ \A q \in E : q \in D \/ q = p
  <2>1. E = D \cup {p}
    OBVIOUS
  <2> QED BY <1>1, <2>1, FS_AddElement
<1>16. \A a \in L : \E q \in E : \E i \in 0..(Capacity - 1) : a = Slot(q, i)
  <2>1. D \subseteq E
    OBVIOUS
  <2> QED BY <2>1, Zenon DEF CacheInv
<1>17. \A q \in E : Aligned(q) /\ SlotsInv(q, r.slabs[q], L)
  BY <1>1, <1>13, <1>14, <1>15, Zenon
<1> QED BY <1>1, <1>10, <1>12, <1>15, <1>16, <1>17, Zenon DEF CacheInv, Partial, r

(* The same, with the hypotheses in one. *)
LEMMA GrowsByOne ==
    ASSUME NEW c, NEW D, NEW L, CacheInv(c, D, L), c.partial = Null, NEW p, NEW g, NEW E,
           OneMore(c, D, p, g, E)
    PROVE  LinkPartial(g, p).partial = p /\ CacheInv(LinkPartial(g, p), E, L)
BY GrowKeeps DEF OneMore

(* Giving back an object of a slab: the header g takes the place of the      *)
(* slab's, and a slab that was full goes on the list.                        *)
LEMMA PutKeeps ==
    ASSUME NEW c, NEW D, NEW L, CacheInv(c, D, L), NEW a \in L,
           NEW p \in Nat, p = SlabOf(a), NEW i \in 0..(Capacity - 1), i = SlotOf(a),
           NEW g \in Header, SameLinks(g, c.slabs[p]), g.free_head = i,
           g.in_use = c.slabs[p].in_use - 1, g.link[i] = c.slabs[p].free_head,
           \A j \in 0..(Capacity - 1) : j # i => g.link[j] = c.slabs[p].link[j],
           NEW M, \A x : x \in M <=> x \in L /\ x # a
    PROVE  LET d == WithHeader(c, p, g) IN
           /\ IsFull(c.slabs[p]) => CacheInv(LinkPartial(d, p), D, M)
           /\ ~IsFull(c.slabs[p]) => CacheInv(d, D, M)
<1> DEFINE N == Partial(c, D)
           h == c.slabs[p]
           d == WithHeader(c, p, g)
           r == LinkPartial(d, p)
<1>1. /\ base \in Nat /\ IsCache(c, D) /\ D \subseteq Nat /\ L \in SUBSET Int /\ IsFiniteSet(L)
      /\ \A q \in D : Aligned(q) /\ SlotsInv(q, c.slabs[q], L)
  BY DEF CacheInv, IsCache
<1>2. N \in SUBSET D /\ IsFiniteSet(N) /\ Listed(c, N)
  BY PartialFinite
<1>3. p \in D /\ a = Slot(p, i) /\ Slot(p, i) \in L
  BY Recovered
<1>4. h \in Header /\ Aligned(p) /\ SlotsInv(p, h, L)
  BY <1>1, <1>3 DEF IsCache
<1>5. \A x : x \in M <=> x \in L /\ x # Slot(p, i)
  BY <1>3
<1>6. SlotsInv(p, g, M) /\ ~IsFull(g)
  BY <1>1, <1>3, <1>4, <1>5, SlotReturned
<1>7. /\ IsCache(d, D) /\ d.partial = c.partial
      /\ \A q \in D : d.slabs[q] = IF q = p THEN g ELSE c.slabs[q]
  BY <1>1, <1>3, HeaderWritten
<1> HIDE DEF N, d, r
<1>8. IsCache(d, D) /\ d.partial = c.partial /\ d.slabs[p] = g
      /\ \A q \in D : q # p => d.slabs[q] = c.slabs[q]
  BY <1>3, <1>7
<1>9. Listed(d, N)
  <2>1. \A q \in N : SameLinks(d.slabs[q], c.slabs[q])
    BY <1>2, <1>8 DEF SameLinks
  <2> QED BY <1>2, <1>8, <2>1, ListedSame, Zenon
<1>10. \E j \in 0..(Capacity - 1) : \A x : x # Slot(p, j) => (x \in M <=> x \in L)
  BY <1>5, Zenon
<1>11. ASSUME IsFull(h) PROVE CacheInv(r, D, M)
  <2>0. p \in D \ N
    BY <1>3, <1>11 DEF N, Partial
  <2>1. d.partial \in (D \ {p}) \cup {Null} /\ Listed(r, N \cup {p})
    BY <1>2, <1>8, <1>9, <2>0, LinkListed, Zenon DEF r
  <2>2. IsCache(r, D) /\ \A q \in D : SameSlots(r.slabs[q], d.slabs[q])
    BY <1>3, <1>8, <2>1, LinkWrites DEF r
  <2>3. SlotsInv(p, r.slabs[p], M)
    BY <1>3, <1>6, <1>8, <2>2, Zenon DEF SlotsInv, SameSlots
  <2>4. \A q \in D : q # p => SameSlots(r.slabs[q], c.slabs[q])
    BY <1>8, <2>2
  <2>5. ~IsFull(r.slabs[p]) /\ \A q \in D : q # p => (IsFull(r.slabs[q]) <=> IsFull(c.slabs[q]))
    BY <1>3, <1>6, <1>8, <2>2, <2>4 DEF IsFull, SameSlots
  <2>6. Partial(r, D) = N \cup {p}
    BY <1>3, <2>5, Zenon DEF Partial, N
  <2>7. Listed(r, Partial(r, D))
    BY <2>1, <2>6, Zenon
  <2>8. OneSlab(c, D, L, p, r, M)
    BY <1>3, <1>10, <2>2, <2>3, <2>4, <2>7, Zenon DEF OneSlab
  <2> QED BY <2>8, OneSlabChanges, Zenon
<1>12. ASSUME ~IsFull(h) PROVE CacheInv(d, D, M)
  <2>1. \A q \in D : q # p => SameSlots(d.slabs[q], c.slabs[q])
    BY <1>8 DEF SameSlots
  <2>2. Partial(d, D) = N
    <3>1. \A q \in D : IsFull(d.slabs[q]) <=> IsFull(c.slabs[q])
      BY <1>6, <1>8, <1>12
    <3> QED BY <3>1, Zenon DEF Partial, N
  <2>3. Listed(d, Partial(d, D))
    BY <1>9, <2>2, Zenon
  <2>4. SlotsInv(p, d.slabs[p], M)
    BY <1>6, <1>8, Zenon
  <2>5. IsCache(d, D)
    BY <1>8
  <2>6. OneSlab(c, D, L, p, d, M)
    BY <1>3, <1>10, <2>1, <2>3, <2>4, <2>5, Zenon DEF OneSlab
  <2> QED BY <2>6, OneSlabChanges, Zenon
<1> QED BY <1>11, <1>12 DEF d, r

(* Giving back the last object of a slab, which leaves the cache. *)
LEMMA DropKeeps ==
    ASSUME NEW c, NEW D, NEW L, CacheInv(c, D, L), NEW a \in L,
           NEW p \in Nat, p = SlabOf(a), ~IsFull(c.slabs[p]), c.slabs[p].in_use = 1,
           NEW E, \A q : q \in E <=> q \in D /\ q # p,
           NEW d, IsCache(d, E), d.partial = UnlinkPartial(c, p).partial,
           \A q \in E : d.slabs[q] = UnlinkPartial(c, p).slabs[q],
           NEW M, \A x : x \in M <=> x \in L /\ x # a
    PROVE  CacheInv(d, E, M)
<1> DEFINE N == Partial(c, D)
           r == UnlinkPartial(c, p)
           i == SlotOf(a)
<1>1. /\ base \in Nat /\ IsCache(c, D) /\ D \subseteq Nat /\ L \in SUBSET Int /\ IsFiniteSet(L)
      /\ IsFiniteSet(D) /\ \A q \in D : Aligned(q) /\ SlotsInv(q, c.slabs[q], L)
  BY DEF CacheInv, IsCache
<1>2. N \in SUBSET D /\ IsFiniteSet(N) /\ Listed(c, N)
  BY PartialFinite
<1>3. p \in D /\ a = Slot(p, SlotOf(a)) /\ SlotOf(a) \in 0..(Capacity - 1) /\ a \in Within(p, L)
  BY Recovered
<1>4. p \in N
  BY <1>3 DEF Partial
<1>5. Within(p, L) = {a}
  <2>1. Cardinality(Within(p, L)) = 1 /\ IsFiniteSet(Within(p, L))
    BY <1>1, <1>3, SlotsFinite DEF SlotsInv
  <2>2. PICK x : Within(p, L) = {x}
    BY <2>1, FS_Singleton, Zenon
  <2> QED BY <1>3, <2>2, Zenon
<1> HIDE DEF N, r
<1>6. /\ c.slabs[p].prev \in D \cup {Null} /\ c.slabs[p].next \in D \cup {Null}
      /\ Listed(r, N \ {p})
  BY <1>1, <1>2, <1>4, UnlinkListed, Zenon DEF r
<1>7. IsCache(r, D) /\ \A q \in D : SameSlots(r.slabs[q], c.slabs[q])
  BY <1>1, <1>3, <1>6, UnlinkWrites DEF r
<1>8. d.partial = r.partial /\ (\A q \in E : d.slabs[q] = r.slabs[q] /\ q \in D /\ q # p)
      /\ \A q \in D : q = p \/ q \in E
  BY DEF r
<1>9. Partial(d, E) = N \ {p}
  <2>1. \A q \in E : IsFull(d.slabs[q]) <=> IsFull(c.slabs[q])
    BY <1>7, <1>8 DEF IsFull, SameSlots
  <2> QED BY <1>8, <2>1, Zenon DEF Partial, N
<1>10. Listed(d, Partial(d, E))
  <2> DEFINE P == N \ {p}
  <2>1. IsFiniteSet(P) /\ P \subseteq E
    <3>1. P \subseteq E
      BY <1>2, <1>8
    <3>2. IsFiniteSet(P)
      BY <1>2, FS_RemoveElement
    <3> QED BY <3>1, <3>2
  <2>2. Listed(r, P)
    BY <1>6
  <2> HIDE DEF P
  <2>3. \A q \in P : SameLinks(d.slabs[q], r.slabs[q])
    BY <1>8, <2>1 DEF SameLinks
  <2>4. Listed(d, P)
    BY <1>8, <2>1, <2>2, <2>3, ListedSame, Zenon
  <2> QED BY <1>9, <2>4, Zenon DEF P
<1>11. ASSUME NEW q \in E PROVE SlotsInv(q, d.slabs[q], M)
  <2>1. \A x : x # Slot(p, i) => (x \in M <=> x \in L)
    BY <1>3
  <2>2. q \in D /\ q # p /\ q \in Nat /\ Aligned(q) /\ Aligned(p)
    BY <1>1, <1>3, <1>8
  <2>3. FreeIn(q, M) = FreeIn(q, L) /\ Within(q, M) = Within(q, L)
    BY <1>1, <1>3, <2>1, <2>2, OtherSlab
  <2>4. SlotsInv(q, c.slabs[q], L) /\ SameSlots(d.slabs[q], c.slabs[q])
    BY <1>1, <1>7, <1>8, <2>2
  <2> QED BY <2>3, <2>4, Zenon DEF SlotsInv, SameSlots
<1>12. \A x \in M : \E q \in E : \E j \in 0..(Capacity - 1) : x = Slot(q, j)
  <2> TAKE x \in M
  <2>1. x \in L /\ x # a
    OBVIOUS
  <2>2. SlabOf(x) \in D /\ SlotOf(x) \in 0..(Capacity - 1) /\ x = Slot(SlabOf(x), SlotOf(x))
        /\ x \in Within(SlabOf(x), L)
    BY <2>1, Recovered
  <2>3. SlabOf(x) # p
    BY <1>5, <2>1, <2>2
  <2> QED BY <1>8, <2>2, <2>3, Zenon
<1>13. M \subseteq Int /\ IsFiniteSet(M) /\ IsFiniteSet(E)
  <2>1. M = L \ {a} /\ E = D \ {p}
    OBVIOUS
  <2> QED BY <1>1, <2>1, FS_RemoveElement
<1>14. \A q \in E : Aligned(q)
  BY <1>1, <1>8
<1> QED BY <1>1, <1>10, <1>11, <1>12, <1>13, <1>14, Zenon DEF CacheInv, Partial

-----------------------------------------------------------------------------
(* The pages: F free, H the blocks handed out, O those of other callers, D *)
(* the slabs.                                                              *)

Blocks(D) == {Block(p) : p \in D}

IsBlock(b) == b.page \in Nat /\ Pow2[b.order] \in Nat \ {0}

(* The blocks of H lie in the region apart from each other, and the rest is F. *)
Divided(F, H) ==
    /\ \A b \in H : IsBlock(b) /\ Pager!Pages(b) \subseteq 0..(NumPages - 1)
    /\ \A b, c \in H : b # c => Pager!Pages(b) \cap Pager!Pages(c) = {}
    /\ \A x : x \in F <=> x \in 0..(NumPages - 1) /\ \A b \in H : x \notin Pager!Pages(b)

Owners(H, O, D) ==
    /\ D \subseteq Nat /\ O \subseteq [page : Nat, order : {0}]
    /\ H = O \cup Blocks(D) /\ O \cap Blocks(D) = {}

(* A block that is handed out comes from the free pages. *)
LEMMA DividedAlloc ==
    ASSUME NEW F, NEW H, Divided(F, H), NEW b, IsBlock(b), Pager!Pages(b) \subseteq F,
           NEW F2, F2 = F \ Pager!Pages(b), NEW H2, H2 = H \cup {b}
    PROVE  b \notin H /\ Divided(F2, H2)
<1> DEFINE P(x) == Pager!Pages(x)
<1>1. b.page \in P(b)
  BY DEF IsBlock, Pager!Pages
<1>2. /\ \A c \in H : IsBlock(c) /\ P(c) \subseteq 0..(NumPages - 1)
      /\ \A c, d \in H : c # d => P(c) \cap P(d) = {}
      /\ \A x : x \in F <=> x \in 0..(NumPages - 1) /\ \A c \in H : x \notin P(c)
  BY Zenon DEF Divided
<1>3. P(b) \subseteq F /\ F2 = F \ P(b)
  OBVIOUS
<1> HIDE DEF P
<1>4. b \notin H
  BY <1>1, <1>2, <1>3
<1>5. \A c \in H : P(b) \cap P(c) = {}
  BY <1>2, <1>3
<1>6. \A c \in H2 : IsBlock(c) /\ P(c) \subseteq 0..(NumPages - 1)
  BY <1>2, <1>3
<1>7. \A c, d \in H2 : c # d => P(c) \cap P(d) = {}
  BY <1>2, <1>5
<1>8. \A x : x \in F2 <=> x \in 0..(NumPages - 1) /\ \A c \in H2 : x \notin P(c)
  BY <1>2, <1>3, Zenon
<1> QED BY <1>4, <1>6, <1>7, <1>8, Zenon DEF Divided, P

(* A block that is given back joins the free pages. *)
LEMMA DividedFree ==
    ASSUME NEW F, NEW H, Divided(F, H), NEW b \in H,
           NEW F2, F2 = F \cup Pager!Pages(b), NEW H2, H2 = H \ {b}
    PROVE  Divided(F2, H2)
<1> DEFINE P(x) == Pager!Pages(x)
<1>2. /\ \A c \in H : IsBlock(c) /\ P(c) \subseteq 0..(NumPages - 1)
      /\ \A c, d \in H : c # d => P(c) \cap P(d) = {}
      /\ \A x : x \in F <=> x \in 0..(NumPages - 1) /\ \A c \in H : x \notin P(c)
  BY Zenon DEF Divided
<1>3. F2 = F \cup P(b)
  OBVIOUS
<1> HIDE DEF P
<1>4. \A c \in H2 : IsBlock(c) /\ P(c) \subseteq 0..(NumPages - 1)
  BY <1>2
<1>5. \A c, d \in H2 : c # d => P(c) \cap P(d) = {}
  BY <1>2
<1>6. ASSUME NEW x PROVE x \in F2 <=> x \in 0..(NumPages - 1) /\ \A c \in H2 : x \notin P(c)
  <2>1. CASE x \in P(b)
    <3>1. x \in 0..(NumPages - 1) /\ \A c \in H2 : x \notin P(c)
      BY <1>2, <2>1
    <3> QED BY <1>3, <2>1, <3>1, Zenon
  <2>2. CASE x \notin P(b)
    <3>1. x \in F2 <=> x \in F
      BY <1>3, <2>2
    <3>2. (\A c \in H2 : x \notin P(c)) <=> (\A c \in H : x \notin P(c))
      BY <2>2
    <3> QED BY <1>2, <3>1, <3>2, Zenon
  <2> QED BY <2>1, <2>2
<1> QED BY <1>4, <1>5, <1>6, Zenon DEF Divided, P

(* The block of a slab. *)
LEMMA SlabBlock ==
    ASSUME NEW p \in Nat
    PROVE  /\ IsBlock(Block(p)) /\ Block(p).page = p
           /\ Pager!Pages(Block(p)) = p..(p + Pow2[Order] - 1)
           /\ p \in Pager!Pages(Block(p))
           /\ \A q : Block(p) = Block(q) => p = q
<1>1. Block(p).page = p /\ Block(p).order = Order /\ \A q : Block(q).page = q
  BY DEF Block
<1>2. Pow2[Order] \in Nat \ {0}
  BY Sizes
<1>3. Pager!Pages(Block(p)) = p..(p + Pow2[Order] - 1)
  BY <1>1 DEF Pager!Pages
<1>4. p \in p..(p + Pow2[Order] - 1)
  BY <1>2
<1>5. \A q : Block(p) = Block(q) => p = q
  BY <1>1, Zenon
<1> QED BY <1>1, <1>2, <1>3, <1>4, <1>5 DEF IsBlock

(* A block gets a new owner: a slab of this cache, *)
LEMMA OwnersGrow ==
    ASSUME NEW H, NEW O, NEW D, Owners(H, O, D), NEW p \in Nat, Block(p) \notin H,
           NEW H2, H2 = H \cup {Block(p)}, NEW E, E = D \cup {p}
    PROVE  p \notin D /\ Owners(H2, O, E)
<1>1. /\ D \subseteq Nat /\ O \subseteq [page : Nat, order : {0}]
      /\ H = O \cup Blocks(D) /\ O \cap Blocks(D) = {}
  BY DEF Owners
<1>2. Blocks(E) = Blocks(D) \cup {Block(p)}
  BY Zenon DEF Blocks
<1>3. p \notin D
  BY <1>1, Zenon DEF Blocks
<1>4. E \subseteq Nat
  BY <1>1
<1>5. H2 = O \cup Blocks(E) /\ O \cap Blocks(E) = {}
  BY <1>1, <1>2
<1> QED BY <1>1, <1>3, <1>4, <1>5, Zenon DEF Owners

(* the page allocator again, *)
LEMMA OwnersDrop ==
    ASSUME NEW H, NEW O, NEW D, Owners(H, O, D), NEW p \in D,
           NEW H2, H2 = H \ {Block(p)}, NEW E, E = D \ {p}
    PROVE  Block(p) \in H /\ Owners(H2, O, E)
<1>1. /\ D \subseteq Nat /\ O \subseteq [page : Nat, order : {0}]
      /\ H = O \cup Blocks(D) /\ O \cap Blocks(D) = {}
  BY DEF Owners
<1>2. \A q \in D : Block(q) = Block(p) => q = p
  BY <1>1, SlabBlock
<1>3. Blocks(E) = Blocks(D) \ {Block(p)} /\ Block(p) \in Blocks(D)
  BY <1>2, Zenon DEF Blocks
<1>4. E \subseteq Nat
  BY <1>1
<1>5. H2 = O \cup Blocks(E) /\ O \cap Blocks(E) = {} /\ Block(p) \in H
  BY <1>1, <1>3
<1> QED BY <1>1, <1>4, <1>5, Zenon DEF Owners

(* another caller, *)
LEMMA OwnersOther ==
    ASSUME NEW H, NEW O, NEW D, Owners(H, O, D), NEW b \in [page : Nat, order : {0}], b \notin H,
           NEW H2, H2 = H \cup {b}, NEW P, P = O \cup {b}
    PROVE  Owners(H2, P, D)
<1>1. /\ D \subseteq Nat /\ O \subseteq [page : Nat, order : {0}]
      /\ H = O \cup Blocks(D) /\ O \cap Blocks(D) = {}
  BY DEF Owners
<1>2. H2 = P \cup Blocks(D) /\ P \cap Blocks(D) = {}
  BY <1>1
<1>3. P \subseteq [page : Nat, order : {0}]
  BY <1>1, Zenon
<1> QED BY <1>1, <1>2, <1>3, Zenon DEF Owners

(* or that caller no more. *)
LEMMA OwnersOtherDone ==
    ASSUME NEW H, NEW O, NEW D, Owners(H, O, D), NEW b \in O,
           NEW H2, H2 = H \ {b}, NEW P, P = O \ {b}
    PROVE  b \in H /\ Owners(H2, P, D)
<1>1. /\ D \subseteq Nat /\ O \subseteq [page : Nat, order : {0}]
      /\ H = O \cup Blocks(D) /\ O \cap Blocks(D) = {}
  BY DEF Owners
<1>2. H2 = P \cup Blocks(D) /\ P \cap Blocks(D) = {} /\ b \in H
  BY <1>1
<1>3. P \subseteq [page : Nat, order : {0}]
  BY <1>1, Zenon
<1> QED BY <1>1, <1>2, <1>3, Zenon DEF Owners

-----------------------------------------------------------------------------
(* The inductive invariant.                                                *)

(* No slab is empty, unless it consists of one object. *)
NoneEmpty(D, L) == Capacity > 1 => \A p \in D : Within(p, L) # {}

(* None was returned when the list of slabs was empty and, on an aligned     *)
(* base, when no block was to be had; on any other there are no slabs.       *)
RefusalInv ==
    /\ result = "none" => partial = Null
    /\ result = "none" /\ Aligned(0) => ~Pager!Servable(Order)
    /\ ~Aligned(0) => DOMAIN slabs = {}

(* The chains, the counts and the list of slabs are sound and every object   *)
(* is a slot of an aligned slab; blocks lie apart, each with its owner; no   *)
(* slab is empty; and None was returned for a reason.                        *)
SlabInv ==
    /\ CacheInv(Cache, DOMAIN slabs, live)
    /\ Divided(free, held)
    /\ Owners(held, others, DOMAIN slabs)
    /\ NoneEmpty(DOMAIN slabs, live)
    /\ RefusalInv

(* The base does not move, and nothing else of the state is in CacheInv but *)
(* what it is given.                                                        *)
LEMMA BaseKept ==
    ASSUME base' = base,
           CacheInv([slabs |-> slabs', partial |-> partial'], DOMAIN slabs', live')
    PROVE  CacheInv(Cache, DOMAIN slabs, live)'
<1> DEFINE c == [slabs |-> slabs', partial |-> partial']
<1>1. ASSUME NEW p PROVE SlabBase(p)' = SlabBase(p)
  BY DEF SlabBase
<1>2. ASSUME NEW p, NEW i PROVE Slot(p, i)' = Slot(p, i)
  BY DEF Slot, SlabBase
<1>3. ASSUME NEW p PROVE Aligned(p)' <=> Aligned(p)
  BY DEF Aligned, SlabBaseOf, SlabBase
<1>4. ASSUME NEW p PROVE FreeIn(p, live)' = FreeIn(p, live')
  BY DEF FreeIn, Slot, SlabBase
<1>5. ASSUME NEW p PROVE Within(p, live)' = Within(p, live')
  BY DEF Within, SlabBase
<1>6. ASSUME NEW p \in DOMAIN slabs' PROVE SlotsInv(p, Cache.slabs[p], live)'
  <2>1. SlotsInv(p, slabs'[p], live')
    BY DEF CacheInv
  <2>2. Cache.slabs' = slabs'
    BY DEF Cache
  <2> QED BY <1>4, <1>5, <2>1, <2>2, Zenon DEF SlotsInv
<1>7. Cache' = c
  BY DEF Cache
<1> HIDE DEF c
<1>8. \A a \in live' : \E p \in DOMAIN slabs' : \E i \in 0..(Capacity - 1) : a = Slot(p, i)'
  BY <1>2 DEF CacheInv
<1> QED BY <1>3, <1>6, <1>7, <1>8 DEF CacheInv, c

(* A step that moves the cache to r. *)
LEMMA Became ==
    ASSUME NEW r, NEW D, NEW M, CacheInv(r, D, M), slabs' = r.slabs, partial' = r.partial
    PROVE  /\ DOMAIN slabs' = D
           /\ CacheInv([slabs |-> slabs', partial |-> partial'], DOMAIN slabs', M)
<1>1. r = [slabs |-> r.slabs, partial |-> r.partial] /\ r.slabs \in [D -> Header]
  BY DEF CacheInv, IsCache
<1>2. DOMAIN slabs' = D
  BY <1>1
<1>3. [slabs |-> slabs', partial |-> partial'] = r
  BY <1>1
<1> QED BY <1>2, <1>3

(* The parts of the invariant after a step that leaves the base. *)
LEMMA StepDone ==
    ASSUME base' = base,
           CacheInv([slabs |-> slabs', partial |-> partial'], DOMAIN slabs', live'),
           Divided(free', held'), Owners(held', others', DOMAIN slabs'),
           NoneEmpty(DOMAIN slabs', live'),
           \/ result' = "ok" /\ (DOMAIN slabs' \subseteq DOMAIN slabs \/ Aligned(0))
           \/ /\ result' = "none" /\ (Aligned(0) => ~Pager!Servable(Order))
              /\ free' = free /\ slabs' = slabs /\ partial' = Null
           \/ result' = result /\ free' = free /\ slabs' = slabs /\ partial' = partial,
           RefusalInv
    PROVE  SlabInv'
<1>1. CacheInv(Cache, DOMAIN slabs, live)'
  BY BaseKept
<1>2. Divided(free, held)' /\ Owners(held, others, DOMAIN slabs)'
  BY DEF Divided, Owners
<1>3. NoneEmpty(DOMAIN slabs, live)'
  <2>1. ASSUME NEW p PROVE Within(p, live)' = Within(p, live')
    BY DEF Within, SlabBase
  <2> QED BY <2>1 DEF NoneEmpty
<1>4. Aligned(0)' <=> Aligned(0)
  BY DEF Aligned, SlabBaseOf, SlabBase
<1>5. RefusalInv'
  <2>1. CASE result' = "ok" /\ (DOMAIN slabs' \subseteq DOMAIN slabs \/ Aligned(0))
    <3>1. ~Aligned(0) => DOMAIN slabs' = {}
      BY <2>1 DEF RefusalInv
    <3> QED BY <1>4, <2>1, <3>1 DEF RefusalInv
  <2>2. CASE /\ result' = "none" /\ (Aligned(0) => ~Pager!Servable(Order))
             /\ free' = free /\ slabs' = slabs /\ partial' = Null
    <3>1. ~Aligned(0) => DOMAIN slabs' = {}
      BY <2>2 DEF RefusalInv
    <3>2. Pager!Servable(Order)' <=> Pager!Servable(Order)
      BY <2>2 DEF Pager!Servable
    <3> QED BY <1>4, <2>2, <3>1, <3>2 DEF RefusalInv
  <2>3. CASE result' = result /\ free' = free /\ slabs' = slabs /\ partial' = partial
    <3>1. Pager!Servable(Order)' <=> Pager!Servable(Order)
      BY <2>3 DEF Pager!Servable
    <3> QED BY <1>4, <2>3, <3>1 DEF RefusalInv
  <2> QED BY <2>1, <2>2, <2>3
<1> QED BY <1>1, <1>2, <1>3, <1>5 DEF SlabInv

(* Blocks of the buddy are aligned to the slab size where the base is. *)
LEMMA AlignedAlike ==
    ASSUME base \in Nat, NEW p \in Nat, p % Pow2[Order] = 0
    PROVE  Aligned(p) <=> Aligned(0)
<1> DEFINE n == Pow2[Order]
           m == p \div n
           b == SlabBase(0)
           e == SlabBase(p)
<1>1. PageUnits \in Nat \ {0} /\ n \in Nat \ {0} /\ SlabUnits \in Nat \ {0} /\ SlabUnits = PageUnits * n
  BY Sizes DEF SlabUnits
<1>0. p % n = 0
  OBVIOUS
<1> HIDE DEF n
<1>2. m \in Int /\ p = n * m
  <2>1. m \in Int /\ p = n * m + (p % n)
    BY <1>1, Rounded
  <2>2. n * m \in Int
    BY <1>1, <2>1
  <2> QED BY <1>0, <2>1, <2>2
<1> HIDE DEF m
<1>3. b \in Int /\ e \in Int /\ b = base * PageUnits /\ e = (base + p) * PageUnits
  BY <1>1 DEF SlabBase
<1> HIDE DEF b, e
<1>4. e = b + SlabUnits * m
  <2>1. e = base * PageUnits + p * PageUnits
    BY <1>1, <1>3
  <2>2. p * PageUnits = (PageUnits * n) * m
    BY <1>1, <1>2
  <2> QED BY <1>1, <1>3, <2>1, <2>2
<1> DEFINE k == b \div SlabUnits
           r == b % SlabUnits
<1>5. k \in Int /\ r \in 0..(SlabUnits - 1) /\ b = SlabUnits * k + r
  BY <1>1, <1>3, Rounded
<1>r. r = b % SlabUnits
  OBVIOUS
<1> HIDE DEF k, r
<1>6. e = SlabUnits * (k + m) + r /\ k + m \in Int
  BY <1>1, <1>2, <1>4, <1>5
<1>7. e % SlabUnits = r
  BY <1>1, <1>5, <1>6, Quotient
<1>8. (Aligned(p) <=> e - r = e) /\ (Aligned(0) <=> b - r = b)
  BY <1>7, <1>r DEF Aligned, SlabBaseOf, e, b
<1>9. (e - r = e) <=> (b - r = b)
  BY <1>1, <1>3, <1>5
<1> QED BY <1>8, <1>9

(* Handing out objects leaves no slab empty. *)
LEMMA NoneEmptyMore ==
    ASSUME NEW D, NEW L, NEW M, L \subseteq M, NoneEmpty(D, L)
    PROVE  NoneEmpty(D, M)
<1>1. \A p \in D : Within(p, L) \subseteq Within(p, M)
  BY DEF Within
<1> QED BY <1>1 DEF NoneEmpty

(* Nor does giving one back, of a slab that has more or that leaves. *)
LEMMA NoneEmptyLess ==
    ASSUME NEW c, NEW D, NEW L, CacheInv(c, D, L), NoneEmpty(D, L), NEW a \in L,
           NEW E \in SUBSET D, NEW M, M = L \ {a},
           Capacity > 1 /\ SlabOf(a) \in E => c.slabs[SlabOf(a)].in_use > 1
    PROVE  NoneEmpty(E, M)
<1> DEFINE p == SlabOf(a)
<1>1. base \in Nat /\ D \subseteq Nat /\ L \subseteq Int /\ IsFiniteSet(L) /\ \A q \in D : Aligned(q)
  BY DEF CacheInv, IsCache
<1>2. p \in D /\ a \in Within(p, L)
  BY Recovered
<1>3. ASSUME Capacity > 1, NEW q \in E PROVE Within(q, M) # {}
  <2>1. CASE q # p
    <3>1. PICK x : x \in Within(q, L)
      BY <1>3 DEF NoneEmpty
    <3>2. SlabOf(x) = q
      BY <1>1, <3>1, InSlab DEF Within
    <3>3. x \in Within(q, M)
      BY <2>1, <3>1, <3>2 DEF Within
    <3> QED BY <3>3
  <2>2. CASE q = p
    <3>1. c.slabs[p].in_use > 1 /\ c.slabs[p].in_use = Cardinality(Within(p, L))
      BY <1>2, <1>3, <2>2 DEF CacheInv, SlotsInv
    <3>2. Within(p, L) # {a}
      <4>1. Cardinality({a}) = 1
        BY FS_Singleton
      <4>2. c.slabs[p].in_use # 1
        BY <3>1
      <4> QED BY <3>1, <4>1, <4>2, Zenon
    <3>3. PICK x \in Within(p, L) : x # a
      BY <1>2, <3>2
    <3>4. x \in Within(p, M)
      BY <3>3 DEF Within
    <3> QED BY <2>2, <3>4
  <2> QED BY <2>1, <2>2
<1> QED BY <1>3 DEF NoneEmpty

-----------------------------------------------------------------------------
(* The steps.                                                              *)

(* The variables as the lemmas want them. *)
LEMMA StateFacts ==
    ASSUME SlabInv
    PROVE  /\ base \in Nat /\ Cache.slabs = slabs /\ Cache.partial = partial
           /\ CacheInv(Cache, DOMAIN slabs, live) /\ IsCache(Cache, DOMAIN slabs)
           /\ DOMAIN slabs \subseteq Nat /\ slabs \in [DOMAIN slabs -> Header]
           /\ live \subseteq Int /\ free \subseteq Nat
<1>1. Cache.slabs = slabs /\ Cache.partial = partial
  BY DEF Cache
<1>2. CacheInv(Cache, DOMAIN slabs, live)
  BY DEF SlabInv
<1>3. base \in Nat /\ IsCache(Cache, DOMAIN slabs) /\ live \subseteq Int
  BY <1>2 DEF CacheInv
<1>4. DOMAIN slabs \subseteq Nat /\ slabs \in [DOMAIN slabs -> Header]
  BY <1>1, <1>3 DEF IsCache
<1>5. free \subseteq Nat
  BY Sizes DEF SlabInv, Divided
<1> QED BY <1>1, <1>2, <1>3, <1>4, <1>5

(* Handing out a slot of the first partial slab. *)
LEMMA AllocKeeps ==
    ASSUME SlabInv, Alloc
    PROVE  SlabInv'
<1> DEFINE D == DOMAIN slabs
           c == Cache
           i == slabs[partial].free_head
<1>1. /\ base \in Nat /\ c.slabs = slabs /\ c.partial = partial /\ CacheInv(c, D, live)
      /\ D \subseteq Nat /\ slabs \in [D -> Header]
  BY StateFacts
<1>2. /\ partial # Null /\ base' = base /\ free' = free /\ held' = held /\ others' = others
      /\ slabs' = Taken(c).slabs /\ partial' = Taken(c).partial
      /\ live' = live \cup {Slot(partial, i)} /\ result' = "ok"
  BY <1>1 DEF Alloc, Take, Become, pool
<1> HIDE DEF c
<1>3. partial \in D /\ partial \in Nat
  BY <1>1, <1>2, PartialFinite
<1>4. i \in Int
  BY <1>1, <1>3 DEF Header
<1>5. i = c.slabs[partial].free_head
  BY <1>1
<1> HIDE DEF i
<1>6. \A a : a \in live' <=> a \in live \/ a = Slot(partial, i)
  BY <1>2
<1>7. CacheInv(Taken(c), D, live')
  BY <1>1, <1>2, <1>3, <1>4, <1>5, <1>6, TakeKeeps
<1>8. DOMAIN slabs' = D /\ CacheInv([slabs |-> slabs', partial |-> partial'], DOMAIN slabs', live')
  BY <1>2, <1>7, Became
<1>9. NoneEmpty(D, live')
  BY <1>2, NoneEmptyMore DEF SlabInv
<1> HIDE DEF D
<1>10. Owners(held', others', DOMAIN slabs') /\ Divided(free', held') /\ RefusalInv
  BY <1>2, <1>8 DEF SlabInv, D
<1> QED BY <1>2, <1>8, <1>9, <1>10, StepDone DEF D

(* The cache with a new slab is a cache. *)
LEMMA GrownFields ==
    ASSUME IsCache(Cache, DOMAIN slabs), NEW p \in Nat, p \notin DOMAIN slabs, partial = Null
    PROVE  /\ IsCache(Grown(p), DOMAIN slabs \cup {p}) /\ Grown(p).partial = Null
           /\ Grown(p).slabs[p] = Fresh
           /\ \A q \in DOMAIN slabs : Grown(p).slabs[q] = slabs[q]
<1> DEFINE D == DOMAIN slabs
           E == D \cup {p}
           s == [q \in E |-> IF q = p THEN Fresh ELSE slabs[q]]
           g == Grown(p)
<1>1. D \subseteq Nat /\ slabs \in [D -> Header] /\ Fresh \in Header
  BY FreshHeader DEF IsCache, Cache
<1>2. g = [slabs |-> s, partial |-> Null]
  BY DEF Grown, Cache
<1> HIDE DEF D, g
<1>3. s \in [E -> Header] /\ s[p] = Fresh /\ \A q \in D : s[q] = slabs[q]
  BY <1>1 DEF D
<1> HIDE DEF s
<1>4. g.slabs = s /\ g.partial = Null /\ Null \in Int
  BY <1>2 DEF Null
<1>5. IsCache(g, E)
  BY <1>1, <1>2, <1>3, <1>4 DEF IsCache
<1> QED BY <1>3, <1>4, <1>5 DEF D, g

(* Growing: a block of the page allocator becomes a slab with one object. *)
LEMMA AllocGrowKeeps ==
    ASSUME SlabInv, NEW p \in free, AllocGrow(p)
    PROVE  SlabInv'
<1> DEFINE D == DOMAIN slabs
           E == D \cup {p}
           c == LinkPartial(Grown(p), p)
           i == c.slabs[p].free_head
           P == Pager!Pages(Block(p))
<1>1. /\ base \in Nat /\ Cache.slabs = slabs /\ Cache.partial = partial
      /\ CacheInv(Cache, D, live) /\ IsCache(Cache, D) /\ D \subseteq Nat /\ p \in Nat
  BY StateFacts
<1>2. /\ partial = Null /\ base' = base /\ others' = others /\ Aligned(p)
      /\ p % Pow2[Order] = 0 /\ P \subseteq free /\ free' = free \ P
      /\ held' = held \cup {Block(p)}
      /\ slabs' = Taken(c).slabs /\ partial' = Taken(c).partial
      /\ live' = live \cup {Slot(c.partial, c.slabs[c.partial].free_head)} /\ result' = "ok"
  BY DEF AllocGrow, Take, Become, Pager!Alloc, Pager!Aligned, Block
<1>3. Block(p) \notin held /\ Divided(free', held')
  BY <1>1, <1>2, SlabBlock, DividedAlloc DEF SlabInv
<1>4. p \notin D /\ Owners(held', others, E)
  BY <1>1, <1>2, <1>3, OwnersGrow DEF SlabInv
<1>5. /\ IsCache(Grown(p), E) /\ Grown(p).partial = Null /\ Grown(p).slabs[p] = Fresh
      /\ \A q \in D : Grown(p).slabs[q] = Cache.slabs[q]
  BY <1>1, <1>2, <1>4, GrownFields
<1>6. c.partial = p /\ CacheInv(c, E, live)
  <2>1. \A q : q \in E <=> q \in D \/ q = p
    OBVIOUS
  <2>2. Cache.partial = Null /\ CacheInv(Cache, D, live) /\ p \in Nat /\ p \notin D /\ Aligned(p)
    BY <1>1, <1>2, <1>4
  <2> HIDE DEF D, E
  <2>3. OneMore(Cache, D, p, Grown(p), E)
    BY <1>5, <2>1, <2>2, Zenon DEF OneMore
  <2> QED BY <2>2, <2>3, GrowsByOne, Zenon
<1> HIDE DEF c, D, P
<1>7. i \in Int
  <2>1. c.slabs \in [E -> Header]
    BY <1>6 DEF CacheInv, IsCache
  <2> QED BY <2>1 DEF Header
<1>i. i = c.slabs[p].free_head
  OBVIOUS
<1> HIDE DEF i, E
<1>8. live' = live \cup {Slot(p, i)} /\ \A a : a \in live' <=> a \in live \/ a = Slot(p, i)
  BY <1>2, <1>6, <1>i
<1>9. c.partial # Null
  BY <1>1, <1>6 DEF Null
<1>10. i \in 0..(Capacity - 1) /\ CacheInv(Taken(c), E, live')
  BY <1>1, <1>6, <1>7, <1>8, <1>9, <1>i, TakeKeeps
<1>11. DOMAIN slabs' = E /\ CacheInv([slabs |-> slabs', partial |-> partial'], DOMAIN slabs', live')
  BY <1>2, <1>10, Became
<1>12. NoneEmpty(E, live')
  <2>1. NoneEmpty(D, live')
    BY <1>8, NoneEmptyMore DEF SlabInv, D
  <2>2. Slot(p, i) \in Within(p, live')
    BY <1>1, <1>2, <1>8, <1>10, SlotPlace DEF Within
  <2>3. \A q \in E : q \in D \/ q = p
    BY DEF E
  <2> QED BY <2>1, <2>2, <2>3 DEF NoneEmpty
<1>13. Aligned(0)
  BY <1>1, <1>2, AlignedAlike
<1>14. Owners(held', others', DOMAIN slabs') /\ RefusalInv
  BY <1>2, <1>4, <1>11 DEF SlabInv
<1> QED BY <1>2, <1>3, <1>11, <1>12, <1>13, <1>14, StepDone

(* The variables that a step may leave to the page allocator's callers. *)
CacheKept == slabs' = slabs /\ partial' = partial /\ live' = live /\ base' = base

(* Such a step keeps what is about the cache. *)
LEMMA CacheKeptKeeps ==
    ASSUME SlabInv, CacheKept
    PROVE  /\ CacheInv([slabs |-> slabs', partial |-> partial'], DOMAIN slabs', live')
           /\ NoneEmpty(DOMAIN slabs', live')
<1>1. CacheInv([slabs |-> slabs, partial |-> partial], DOMAIN slabs, live)
      /\ NoneEmpty(DOMAIN slabs, live)
  BY DEF SlabInv, Cache
<1>2. slabs' = slabs /\ partial' = partial /\ live' = live
  BY DEF CacheKept
<1> QED BY <1>1, <1>2

(* Failing for want of a block, or on a misaligned base, changes nothing. *)
LEMMA AllocFailsKeeps ==
    ASSUME SlabInv, AllocNone \/ \E p \in free : AllocMisaligned(p)
    PROVE  SlabInv'
<1>1. /\ CacheKept /\ free' = free /\ held' = held /\ others' = others /\ result' = "none"
  BY DEF AllocNone, AllocMisaligned, pool, CacheKept
<1>2. Aligned(0) => ~Pager!Servable(Order)
  <2>1. CASE AllocNone
    BY <2>1 DEF AllocNone
  <2>2. ASSUME NEW p \in free, AllocMisaligned(p) PROVE ~Aligned(0)
    <3>1. base \in Nat /\ p \in Nat
      BY StateFacts
    <3>2. p % Pow2[Order] = 0 /\ ~Aligned(p)
      BY <2>2 DEF AllocMisaligned
    <3> QED BY <3>1, <3>2, AlignedAlike
  <2> QED BY <2>1, <2>2
<1>3. /\ CacheInv([slabs |-> slabs', partial |-> partial'], DOMAIN slabs', live')
      /\ NoneEmpty(DOMAIN slabs', live')
  BY <1>1, CacheKeptKeeps
<1>4. /\ base' = base /\ slabs' = slabs /\ partial' = partial /\ RefusalInv
      /\ Divided(free', held') /\ Owners(held', others', DOMAIN slabs')
  BY <1>1 DEF CacheKept, SlabInv
<1>5. partial = Null
  BY DEF AllocNone, AllocMisaligned
<1> QED BY <1>1, <1>2, <1>3, <1>4, <1>5, StepDone

(* Another caller is given a page. *)
LEMMA OtherAllocKeeps ==
    ASSUME SlabInv, NEW p \in free, OtherAlloc([page |-> p, order |-> 0])
    PROVE  SlabInv'
<1> DEFINE b == [page |-> p, order |-> 0]
<1>1. /\ CacheKept /\ Pager!Pages(b) \subseteq free /\ free' = free \ Pager!Pages(b)
      /\ held' = held \cup {b} /\ others' = others \cup {b} /\ result' = "ok"
  BY DEF OtherAlloc, Pager!Alloc, CacheKept
<1>2. p \in Nat /\ b \in [page : Nat, order : {0}] /\ IsBlock(b)
  <2>1. p \in Nat
    BY StateFacts
  <2> QED BY <2>1, Sizes DEF IsBlock
<1> HIDE DEF b
<1>3. b \notin held /\ Divided(free', held')
  BY <1>1, <1>2, DividedAlloc DEF SlabInv
<1>4. Owners(held', others', DOMAIN slabs)
  BY <1>1, <1>2, <1>3, OwnersOther DEF SlabInv
<1>5. base' = base /\ slabs' = slabs /\ RefusalInv
  BY <1>1 DEF CacheKept, SlabInv
<1> QED BY <1>1, <1>3, <1>4, <1>5, CacheKeptKeeps, StepDone

(* Another caller gives a page back. *)
LEMMA OtherFreeKeeps ==
    ASSUME SlabInv, NEW b \in others, OtherFree(b)
    PROVE  SlabInv'
<1>1. /\ CacheKept /\ free' = free \cup Pager!Pages(b)
      /\ held' = held \ {b} /\ others' = others \ {b} /\ result' = "ok"
  BY DEF OtherFree, Pager!Free, CacheKept
<1>2. b \in held /\ Owners(held', others', DOMAIN slabs)
  BY <1>1, OwnersOtherDone DEF SlabInv
<1>3. Divided(free', held')
  BY <1>1, <1>2, DividedFree DEF SlabInv
<1>4. base' = base /\ slabs' = slabs /\ RefusalInv
  BY <1>1 DEF CacheKept, SlabInv
<1> QED BY <1>1, <1>2, <1>3, <1>4, CacheKeptKeeps, StepDone

(* Giving an object back: what dealloc finds, and the cache with the header *)
(* that it writes.                                                          *)
LEMMA PutBackKeeps ==
    ASSUME SlabInv, NEW a \in live, NEW p, p = SlabOf(a), NEW M, M = live \ {a}
    PROVE  LET d == WithHeader(Cache, p, PutBack(a)) IN
           /\ p \in DOMAIN slabs /\ p \in Nat /\ slabs[p].in_use \in Int
           /\ PutBack(a).in_use = slabs[p].in_use - 1
           /\ IsFull(slabs[p]) => CacheInv(LinkPartial(d, p), DOMAIN slabs, M)
           /\ ~IsFull(slabs[p]) => CacheInv(d, DOMAIN slabs, M)
<1> DEFINE D == DOMAIN slabs
           h == slabs[p]
           i == SlotOf(a)
           g == PutBack(a)
<1>1. /\ base \in Nat /\ Cache.slabs = slabs /\ CacheInv(Cache, D, live)
      /\ D \subseteq Nat /\ slabs \in [D -> Header]
  BY StateFacts
<1>2. p \in D /\ p \in Nat /\ i \in 0..(Capacity - 1)
  BY <1>1, Recovered
<1>3. h \in Header /\ h = Cache.slabs[p] /\ h = slabs[SlabOf(a)]
  BY <1>1, <1>2
<1>4. h.in_use \in Int
  BY <1>3 DEF Header
<1> HIDE DEF h, i, g, D
<1>5. /\ g \in Header /\ SameLinks(g, h)
      /\ g.free_head = i /\ g.in_use = h.in_use - 1 /\ g.link[i] = h.free_head
      /\ \A j \in 0..(Capacity - 1) : j # i => g.link[j] = h.link[j]
  BY <1>2, <1>3, PutBackFields DEF g, i
<1>6. \A x : x \in M <=> x \in live /\ x # a
  OBVIOUS
<1>7. LET d == WithHeader(Cache, p, g) IN
      /\ IsFull(Cache.slabs[p]) => CacheInv(LinkPartial(d, p), D, M)
      /\ ~IsFull(Cache.slabs[p]) => CacheInv(d, D, M)
  BY <1>1, <1>2, <1>3, <1>5, <1>6, PutKeeps DEF i
<1> QED BY <1>2, <1>3, <1>4, <1>5, <1>7 DEF D, g, h

(* Giving back an object of a full slab, which goes on the list. *)
LEMMA DeallocFullKeeps ==
    ASSUME SlabInv, NEW a \in live, DeallocFull(a)
    PROVE  SlabInv'
<1> DEFINE D == DOMAIN slabs
           p == SlabOf(a)
           d == WithHeader(Cache, p, PutBack(a))
           r == LinkPartial(d, p)
<1>1. /\ IsFull(slabs[p]) /\ slabs' = r.slabs /\ partial' = r.partial
      /\ live' = live \ {a} /\ result' = "ok"
      /\ base' = base /\ free' = free /\ held' = held /\ others' = others
  BY DEF DeallocFull, Become, Forget, pool, WithHeader
<1>2. p \in D /\ slabs[p].in_use \in Int /\ CacheInv(r, D, live')
  BY <1>1, PutBackKeeps
<1>3. Cache.slabs = slabs /\ CacheInv(Cache, D, live) /\ NoneEmpty(D, live)
  BY StateFacts DEF SlabInv
<1> HIDE DEF D, r
<1>4. DOMAIN slabs' = D /\ CacheInv([slabs |-> slabs', partial |-> partial'], DOMAIN slabs', live')
  BY <1>1, <1>2, Became
<1>5. Capacity > 1 => Cache.slabs[p].in_use > 1
  BY <1>1, <1>3 DEF IsFull
<1>6. NoneEmpty(D, live')
  BY <1>1, <1>3, <1>5, NoneEmptyLess
<1>7. /\ Divided(free', held') /\ Owners(held', others', DOMAIN slabs') /\ RefusalInv
      /\ DOMAIN slabs' = DOMAIN slabs
  BY <1>1, <1>4 DEF SlabInv, D
<1> QED BY <1>1, <1>4, <1>6, <1>7, StepDone

(* Giving back an object of a slab that is on the list and stays there. *)
LEMMA DeallocPartialKeeps ==
    ASSUME SlabInv, NEW a \in live, DeallocPartial(a)
    PROVE  SlabInv'
<1> DEFINE D == DOMAIN slabs
           p == SlabOf(a)
           g == PutBack(a)
           d == WithHeader(Cache, p, g)
<1>1. /\ ~IsFull(slabs[p]) /\ g.in_use > 0 /\ slabs' = [slabs EXCEPT ![p] = g]
      /\ partial' = partial /\ live' = live \ {a} /\ result' = "ok"
      /\ base' = base /\ free' = free /\ held' = held /\ others' = others
  BY DEF DeallocPartial, Forget, pool
<1>2. /\ p \in D /\ slabs[p].in_use \in Int /\ g.in_use = slabs[p].in_use - 1
      /\ CacheInv(d, D, live')
  BY <1>1, PutBackKeeps
<1>3. Cache.slabs = slabs /\ CacheInv(Cache, D, live) /\ NoneEmpty(D, live)
  BY StateFacts DEF SlabInv
<1>d. d.slabs = slabs' /\ d.partial = partial'
  <2> HIDE DEF g, p
  <2> QED BY <1>1 DEF WithHeader, Cache
<1> HIDE DEF D, d, g
<1>4. DOMAIN slabs' = D /\ CacheInv([slabs |-> slabs', partial |-> partial'], DOMAIN slabs', live')
  BY <1>2, <1>d, Became
<1>5. Cache.slabs[p].in_use > 1
  BY <1>1, <1>2, <1>3
<1>6. NoneEmpty(D, live')
  BY <1>1, <1>3, <1>5, NoneEmptyLess
<1>7. /\ Divided(free', held') /\ Owners(held', others', DOMAIN slabs') /\ RefusalInv
      /\ DOMAIN slabs' = DOMAIN slabs
  BY <1>1, <1>4 DEF SlabInv, D
<1> QED BY <1>1, <1>4, <1>6, <1>7, StepDone

(* Giving back the last object of a slab: the slab goes too. *)
LEMMA DeallocLastKeeps ==
    ASSUME SlabInv, NEW a \in live, DeallocLast(a)
    PROVE  SlabInv'
<1> DEFINE D == DOMAIN slabs
           p == SlabOf(a)
           E == D \ {p}
           u == UnlinkPartial(Cache, p)
           s == [q \in E |-> u.slabs[q]]
           d == Dropped(p)
<1>1. /\ ~IsFull(slabs[p]) /\ PutBack(a).in_use = 0 /\ slabs' = d.slabs /\ partial' = d.partial
      /\ live' = live \ {a} /\ result' = "ok" /\ base' = base /\ others' = others
      /\ held' = held \ {Block(p)} /\ free' = free \cup Pager!Pages(Block(p))
  BY DEF DeallocLast, Become, Forget, Pager!Free
<1>2. p \in D /\ p \in Nat /\ slabs[p].in_use = 1
  <2>1. p \in D /\ p \in Nat /\ slabs[p].in_use \in Int /\ PutBack(a).in_use = slabs[p].in_use - 1
    BY <1>1, PutBackKeeps
  <2> QED BY <1>1, <2>1
<1>3. /\ Cache.slabs = slabs /\ CacheInv(Cache, D, live) /\ IsCache(Cache, D)
      /\ D \subseteq Nat /\ NoneEmpty(D, live)
  BY StateFacts DEF SlabInv
<1>4. Partial(Cache, D) \in SUBSET D /\ IsFiniteSet(Partial(Cache, D))
      /\ Listed(Cache, Partial(Cache, D)) /\ p \in Partial(Cache, D)
  BY <1>1, <1>2, <1>3, PartialFinite DEF Partial
<1>5. IsCache(u, D)
  <2>1. Cache.slabs[p].prev \in D \cup {Null} /\ Cache.slabs[p].next \in D \cup {Null}
    BY <1>3, <1>4, UnlinkListed
  <2> QED BY <1>2, <1>3, <2>1, UnlinkWrites
<1> HIDE DEF u
<1>6. d.slabs = s /\ d.partial = u.partial /\ d = [slabs |-> d.slabs, partial |-> d.partial]
  <2>1. u = [slabs |-> u.slabs, partial |-> u.partial]
    BY <1>5 DEF IsCache
  <2>2. d = [u EXCEPT !.slabs = s]
    BY DEF Dropped, u
  <2> HIDE DEF d, s
  <2> QED BY <2>1, <2>2
<1>7. IsCache(d, E) /\ \A q \in E : d.slabs[q] = u.slabs[q]
  <2>1. u.slabs \in [D -> Header] /\ u.partial \in Int
    BY <1>5 DEF IsCache
  <2>2. s \in [E -> Header] /\ \A q \in E : s[q] = u.slabs[q]
    BY <2>1
  <2> HIDE DEF d, s
  <2> QED BY <1>3, <1>6, <2>1, <2>2 DEF IsCache
<1>8. (\A q : q \in E <=> q \in D /\ q # p) /\ \A x : x \in live' <=> x \in live /\ x # a
  BY <1>1
<1> HIDE DEF d, s, E, D
<1>9. CacheInv(d, E, live')
  BY <1>1, <1>2, <1>3, <1>6, <1>7, <1>8, DropKeeps DEF u
<1>10. DOMAIN slabs' = E /\ CacheInv([slabs |-> slabs', partial |-> partial'], DOMAIN slabs', live')
  BY <1>1, <1>9, Became
<1>11. NoneEmpty(E, live')
  <2>1. E \in SUBSET D /\ p \notin E
    BY <1>8
  <2> QED BY <1>1, <1>3, <2>1, NoneEmptyLess
<1>12. Block(p) \in held /\ Owners(held', others', E)
  BY <1>1, <1>2, OwnersDrop DEF SlabInv, D, E
<1>13. Divided(free', held')
  BY <1>1, <1>12, DividedFree DEF SlabInv
<1>14. DOMAIN slabs' \subseteq DOMAIN slabs /\ RefusalInv
  BY <1>10 DEF D, E, SlabInv
<1> QED BY <1>1, <1>10, <1>11, <1>12, <1>13, <1>14, StepDone

(* An empty cache. *)
LEMMA InitKeeps ==
    ASSUME Init
    PROVE  SlabInv
<1>1. /\ base \in Nat /\ free = 0..(NumPages - 1) /\ held = {} /\ others = {}
      /\ slabs = [p \in {} |-> Fresh] /\ partial = Null /\ live = {} /\ result = "ok"
  BY SlabAssumption DEF Init
<1>2. DOMAIN slabs = {} /\ slabs \in [{} -> Header] /\ Null \in Int
  BY <1>1 DEF Null
<1>3. Cache = [slabs |-> slabs, partial |-> partial] /\ Cache.slabs = slabs /\ Cache.partial = Null
  BY <1>1 DEF Cache
<1>4. IsCache(Cache, {})
  BY <1>1, <1>2, <1>3 DEF IsCache
<1>5. Listed(Cache, {})
  <2> DEFINE l == [k \in 1..0 |-> 0]
  <2>1. Lists(l, 0, {})
    BY DEF Lists
  <2>2. Follows(Cache.slabs, Cache.partial, l, 0)
    BY <1>3 DEF Follows
  <2> QED BY <2>1, <2>2, ListedForm, Zenon
<1>6. {p \in {} : ~IsFull(Cache.slabs[p])} = {} /\ IsFiniteSet({})
  BY FS_EmptySet
<1>7. CacheInv(Cache, DOMAIN slabs, live)
  BY <1>1, <1>2, <1>4, <1>5, <1>6 DEF CacheInv
<1>8. Divided(free, held)
  BY <1>1 DEF Divided
<1>9. Owners(held, others, DOMAIN slabs)
  BY <1>1, <1>2 DEF Owners, Blocks
<1>10. NoneEmpty(DOMAIN slabs, live) /\ RefusalInv
  BY <1>1, <1>2 DEF NoneEmpty, RefusalInv
<1> QED BY <1>7, <1>8, <1>9, <1>10 DEF SlabInv

(* A step that changes nothing. *)
LEMMA StutterKeeps ==
    ASSUME SlabInv, UNCHANGED vars
    PROVE  SlabInv'
<1>1. /\ CacheKept /\ free' = free /\ held' = held /\ others' = others /\ result' = result
  BY DEF vars, CacheKept
<1>2. /\ base' = base /\ slabs' = slabs /\ partial' = partial /\ RefusalInv
      /\ Divided(free', held') /\ Owners(held', others', DOMAIN slabs')
  BY <1>1 DEF CacheKept, SlabInv
<1> QED BY <1>1, <1>2, CacheKeptKeeps, StepDone

(* SlabInv holds in every state: whatever slots alloc hands out and dealloc  *)
(* takes back, in whatever order and between whatever requests of the page   *)
(* allocator's other callers.                                                *)
THEOREM SlabInvariant == Spec => []SlabInv
<1>1. Init => SlabInv
  BY InitKeeps
<1>2. ASSUME SlabInv, [Next]_vars
      PROVE  SlabInv'
  <2>1. CASE Alloc
    BY <1>2, <2>1, AllocKeeps
  <2>2. CASE AllocNone \/ \E p \in free : AllocMisaligned(p)
    BY <1>2, <2>2, AllocFailsKeeps
  <2>3. ASSUME NEW p \in free, AllocGrow(p) PROVE SlabInv'
    BY <1>2, <2>3, AllocGrowKeeps
  <2>4. ASSUME NEW a \in live, DeallocFull(a) \/ DeallocPartial(a) \/ DeallocLast(a)
        PROVE  SlabInv'
    BY <1>2, <2>4, DeallocFullKeeps, DeallocPartialKeeps, DeallocLastKeeps
  <2>5. ASSUME NEW p \in free, OtherAlloc([page |-> p, order |-> 0]) PROVE SlabInv'
    BY <1>2, <2>5, OtherAllocKeeps
  <2>6. ASSUME NEW b \in others, OtherFree(b) PROVE SlabInv'
    BY <1>2, <2>6, OtherFreeKeeps
  <2>7. CASE UNCHANGED vars
    BY <1>2, <2>7, StutterKeeps
  <2> QED BY <1>2, <2>1, <2>2, <2>3, <2>4, <2>5, <2>6, <2>7, Zenon DEF Next
<1> QED BY <1>1, <1>2, PTL DEF Spec

-----------------------------------------------------------------------------
(* What the invariant says.                                                *)

(* Chains hold exactly the free slots and counters count the objects. *)
THEOREM SlabFreeLists == Spec => []FreeListSound
<1>1. ASSUME SlabInv PROVE FreeListSound
  <2>1. ASSUME NEW p \in DOMAIN slabs
        PROVE  /\ HasChain(slabs[p].link, slabs[p].free_head, FreeSlots(p))
               /\ slabs[p].in_use = Cardinality(LiveIn(p))
    <3>1. SlotsInv(p, slabs[p], live)
      BY <1>1, StateFacts DEF CacheInv
    <3>2. FreeIn(p, live) = FreeSlots(p) /\ Within(p, live) = LiveIn(p)
      BY DEF FreeIn, FreeSlots, Within, LiveIn
    <3> QED BY <3>1, <3>2 DEF SlotsInv
  <2> QED BY <2>1, Zenon DEF FreeListSound, HasChain
<1> QED BY <1>1, SlabInvariant, PTL

(* The list of partial slabs holds exactly the slabs with a free slot. *)
THEOREM SlabPartialList == Spec => []PartialExact
<1>1. ASSUME SlabInv PROVE PartialExact
  <2>1. Cache.slabs = slabs /\ Listed(Cache, {p \in DOMAIN slabs : ~IsFull(Cache.slabs[p])})
    BY <1>1, StateFacts DEF CacheInv
  <2> QED BY <2>1, Zenon DEF PartialExact, Listed
<1> QED BY <1>1, SlabInvariant, PTL

(* Masking an object's address finds its slab's header. *)
THEOREM SlabHeaders == Spec => []HeaderRecovered
<1>1. ASSUME SlabInv PROVE HeaderRecovered
  BY <1>1, StateFacts, Recovered, Zenon DEF HeaderRecovered
<1> QED BY <1>1, SlabInvariant, PTL

(* No page is lost or in two places, and no slab is kept empty. *)
THEOREM SlabPages == Spec => []PagesAccounted
<1>1. ASSUME SlabInv PROVE PagesAccounted
  <2>1. /\ held = others \cup {Block(p) : p \in DOMAIN slabs}
        /\ others \cap {Block(p) : p \in DOMAIN slabs} = {}
    BY <1>1 DEF SlabInv, Owners, Blocks
  <2>2. \A b, c \in held : b # c => Pager!Pages(b) \cap Pager!Pages(c) = {}
    BY <1>1 DEF SlabInv, Divided
  <2>3. free = (0..(NumPages - 1)) \ UNION {Pager!Pages(b) : b \in held}
    <3>1. \A x : x \in free <=> x \in 0..(NumPages - 1) /\ \A b \in held : x \notin Pager!Pages(b)
      BY <1>1 DEF SlabInv, Divided
    <3> QED BY <3>1
  <2>4. Capacity > 1 => \A p \in DOMAIN slabs : LiveIn(p) # {}
    BY <1>1 DEF SlabInv, NoneEmpty, Within, LiveIn
  <2> QED BY <2>1, <2>2, <2>3, <2>4 DEF PagesAccounted
<1> QED BY <1>1, SlabInvariant, PTL

(* alloc turns a caller away only when no slot is left and no slab can be    *)
(* made: with the list empty every slab is full, and in a full slab as many  *)
(* slots are taken as there are.                                             *)
THEOREM SlabRefusals == Spec => []NoneOnlyWhenExhausted
<1>1. ASSUME SlabInv, result = "none", NEW p \in DOMAIN slabs PROVE FreeSlots(p) = {}
  <2> DEFINE N == {q \in DOMAIN slabs : ~IsFull(slabs[q])}
             S == FreeIn(p, live)
  <2>1. /\ partial = Null /\ Cache.slabs = slabs /\ Cache.partial = partial
        /\ CacheInv(Cache, DOMAIN slabs, live) /\ DOMAIN slabs \subseteq Nat
    BY <1>1, StateFacts DEF SlabInv, RefusalInv
  <2>2. IsFiniteSet(DOMAIN slabs) /\ IsFiniteSet(live) /\ SlotsInv(p, slabs[p], live) /\ Listed(Cache, N)
    BY <2>1 DEF CacheInv
  <2>3. N \in SUBSET Nat /\ IsFiniteSet(N)
    BY <2>1, <2>2, FS_Subset
  <2>4. N = {}
    <3> HIDE DEF N
    <3> QED BY <2>1, <2>2, <2>3, ListedHead, Zenon
  <2>5. slabs[p].in_use = Capacity
    BY <2>4 DEF IsFull
  <2>6. IsFiniteSet(S) /\ Cardinality(S) \in Nat /\ Capacity \in Nat
    BY <2>2, SlotsFinite, FS_CardinalityType, Sizes
  <2>7. Cardinality(S) = 0
    BY <2>2, <2>5, <2>6 DEF SlotsInv
  <2>8. S = {}
    BY <2>6, <2>7, FS_EmptySet
  <2> QED BY <2>8 DEF FreeIn, FreeSlots
<1>2. ASSUME SlabInv, result = "none", NEW p \in free, p % Pow2[Order] = 0,
             Pager!Pages(Block(p)) \subseteq free
      PROVE  ~Aligned(p)
  <2> SUFFICES ASSUME Aligned(p) PROVE FALSE
    OBVIOUS
  <2>1. base \in Nat /\ p \in Nat
    BY <1>2, StateFacts
  <2>2. Aligned(0)
    BY <1>2, <2>1, AlignedAlike
  <2>3. ~Pager!Servable(Order)
    BY <1>2, <2>2 DEF SlabInv, RefusalInv
  <2>4. free \subseteq 0..(NumPages - 1)
    BY <1>2 DEF SlabInv, Divided
  <2>5. Pager!RegionPages(Region) = 0..(NumPages - 1)
    <3>1. Region.start = 0 /\ Region.size = NumPages
      BY DEF Region
    <3>2. NumPages \in Nat
      BY SlabAssumption
    <3>3. 0 + NumPages - 1 = NumPages - 1
      BY <3>2
    <3> QED BY <3>1, <3>3, Zenon DEF Pager!RegionPages
  <2>6. Pager!Aligned(Block(p))
    BY <1>2 DEF Block, Pager!Aligned
  <2>7. Pager!Pages(Block(p)) \subseteq free \cap Pager!RegionPages(Region) /\ p \in Pager!RegionPages(Region)
    BY <1>2, <2>4, <2>5
  <2> QED BY <2>3, <2>6, <2>7 DEF Pager!Servable, Block
<1>3. SlabInv => NoneOnlyWhenExhausted
  BY <1>1, <1>2 DEF NoneOnlyWhenExhausted
<1> QED BY <1>3, SlabInvariant, PTL

-----------------------------------------------------------------------------
(* The cache as a memory pool.                                             *)

(* A unit of an object lies in the object's slab, behind the header. *)
LEMMA UnitOfObject ==
    ASSUME SlabInv, NEW a \in live, NEW u \in Int, a <= u, u < a + ObjSize,
           NEW p, p = SlabOf(a)
    PROVE  /\ p \in DOMAIN slabs /\ p \in Nat /\ Aligned(p) /\ SlabOf(u) = p
           /\ SlabBase(p) \in Nat
           /\ SlabBase(p) + Stride <= u /\ u < SlabBase(p) + SlabUnits
<1>1. base \in Nat /\ CacheInv(Cache, DOMAIN slabs, live) /\ DOMAIN slabs \subseteq Nat /\ a \in Int
  BY StateFacts
<1>2. p \in DOMAIN slabs /\ p \in Nat /\ SlotOf(a) \in 0..(Capacity - 1) /\ a = Slot(p, SlotOf(a))
  BY <1>1, Recovered
<1>3. Aligned(p)
  BY <1>1, <1>2 DEF CacheInv
<1>4. /\ SlabBase(p) \in Nat /\ SlabBase(p) + Stride <= a /\ a + ObjSize <= SlabBase(p) + SlabUnits
  BY <1>1, <1>2, <1>3, SlotPlace
<1>5. Stride \in Nat /\ ObjSize \in Nat /\ SlabUnits \in Nat
  BY Sizes
<1>6. SlabBase(p) <= u /\ SlabBase(p) + Stride <= u /\ u < SlabBase(p) + SlabUnits
  BY <1>1, <1>4, <1>5
<1>7. SlabOf(u) = p
  BY <1>1, <1>2, <1>3, <1>6, InSlab
<1> QED BY <1>2, <1>3, <1>4, <1>6, <1>7

(* Objects lie apart. *)
LiveApart ==
    /\ live \subseteq Int
    /\ \A a, b \in live : \A u \in Int :
          a <= u /\ u < a + ObjSize /\ b <= u /\ u < b + ObjSize => a = b

(* Two objects that share a unit are the same. *)
LEMMA ObjectsApart == SlabInv => LiveApart
<1> SUFFICES ASSUME SlabInv, NEW a \in live, NEW b \in live, NEW u \in Int,
                    a <= u, u < a + ObjSize, b <= u, u < b + ObjSize
             PROVE  a = b
  BY StateFacts DEF LiveApart
<1> DEFINE p == SlabOf(a)
           i == SlotOf(a)
           j == SlotOf(b)
           v == u - SlabBase(p) - Stride
<1>1. p \in Nat /\ SlabOf(b) = p /\ SlabBase(p) \in Nat
  BY UnitOfObject
<1>2. CacheInv(Cache, DOMAIN slabs, live)
  BY StateFacts
<1>3. /\ i \in 0..(Capacity - 1) /\ j \in 0..(Capacity - 1) /\ a = Slot(p, i) /\ b = Slot(p, j)
  BY <1>1, <1>2, Recovered
<1>4. ObjSize \in Nat \ {0} /\ Stride \in Nat /\ Capacity \in Nat
  BY Sizes
<1>5. /\ a = SlabBase(p) + Stride + i * ObjSize /\ b = SlabBase(p) + Stride + j * ObjSize
  BY <1>3 DEF Slot
<1> HIDE DEF p, i, j
<1>6. i \in Int /\ j \in Int /\ i + 1 \in Int /\ j + 1 \in Int
  BY <1>3, <1>4
<1>7. /\ i * ObjSize \in Int /\ j * ObjSize \in Int
      /\ ObjSize * (i + 1) = i * ObjSize + ObjSize /\ ObjSize * (j + 1) = j * ObjSize + ObjSize
      /\ ObjSize * i = i * ObjSize /\ ObjSize * j = j * ObjSize
  BY <1>4, <1>6
<1>8. ObjSize * i < ObjSize * (j + 1) /\ ObjSize * j < ObjSize * (i + 1)
  BY <1>1, <1>4, <1>5, <1>7
<1>9. i < j + 1 /\ j < i + 1
  BY <1>4, <1>6, <1>8, Scaled
<1>10. i = j
  BY <1>6, <1>9
<1> QED BY <1>3, <1>10

(* The objects in use share nothing with the rest of memory. *)
OwnedApart == Pool!Owned({[ptr |-> a, size |-> ObjSize] : a \in live}) \cap Outside = {}

(* A page that holds a unit of a slab is one of the slab's pages. *)
LEMMA PageOfUnit ==
    ASSUME base \in Nat, NEW p \in Nat, NEW q \in Int, NEW u \in Int,
           SlabBase(p) <= u, u < SlabBase(p) + SlabUnits,
           (base + q) * PageUnits <= u, u <= (base + q + 1) * PageUnits - 1
    PROVE  q \in Pager!Pages(Block(p))
<1> DEFINE n == Pow2[Order]
           x == base + p
           y == base + q
<1>1. PageUnits \in Nat \ {0} /\ n \in Nat \ {0} /\ SlabUnits = PageUnits * n
  BY Sizes DEF SlabUnits
<1> HIDE DEF n
<1>2. x \in Int /\ y \in Int /\ base + q + 1 = y + 1
  OBVIOUS
<1>3. SlabBase(p) = x * PageUnits
  BY DEF SlabBase
<1>4. x * PageUnits <= u /\ u < x * PageUnits + PageUnits * n
      /\ y * PageUnits <= u /\ u <= (y + 1) * PageUnits - 1
  BY <1>1, <1>2, <1>3
<1> HIDE DEF x, y
<1>5. /\ x * PageUnits = PageUnits * x /\ PageUnits * x \in Int
      /\ y * PageUnits = PageUnits * y /\ PageUnits * y \in Int
      /\ (y + 1) * PageUnits = PageUnits * (y + 1) /\ PageUnits * (y + 1) \in Int
      /\ PageUnits * x + PageUnits * n = PageUnits * (x + n) /\ PageUnits * (x + n) \in Int
  BY <1>1, <1>2
<1>6. PageUnits * x < PageUnits * (y + 1) /\ PageUnits * y < PageUnits * (x + n)
  BY <1>1, <1>4, <1>5
<1>7. x < y + 1 /\ y < x + n
  <2>1. y + 1 \in Int /\ x + n \in Int
    BY <1>1, <1>2
  <2> QED BY <1>1, <1>2, <1>6, <2>1, Scaled
<1>8. p <= q /\ q <= p + n - 1
  BY <1>1, <1>7 DEF x, y
<1>9. Pager!Pages(Block(p)) = p..(p + n - 1)
  BY SlabBlock DEF n
<1> QED BY <1>1, <1>8, <1>9

(* Objects lie in slabs behind headers, and slabs in pages that are neither *)
(* free nor of another caller.                                              *)
LEMMA ObjectsInside == SlabInv => OwnedApart
<1> SUFFICES ASSUME SlabInv, NEW u, u \in Outside,
                    u \in Pool!Owned({[ptr |-> a, size |-> ObjSize] : a \in live})
             PROVE  FALSE
  BY DEF OwnedApart
<1>1. PICK a \in live : u \in a..(a + ObjSize - 1)
  BY DEF Pool!Owned, Pool!Extent
<1> DEFINE p == SlabOf(a)
<1>2. base \in Nat /\ a \in Int /\ DOMAIN slabs \subseteq Nat /\ CacheInv(Cache, DOMAIN slabs, live)
      /\ free \subseteq Nat
  BY StateFacts
<1>3. ObjSize \in Nat /\ Stride \in Nat /\ SlabUnits \in Nat /\ Stride + ObjSize <= SlabUnits
  <2>1. 0 \in 0..(Capacity - 1) /\ ObjSize \in Nat /\ Stride \in Nat /\ SlabUnits \in Nat
    BY Sizes
  <2>2. Stride + 0 * ObjSize + ObjSize <= SlabUnits
    BY <2>1, Sizes
  <2> QED BY <2>1, <2>2
<1>4. u \in Int /\ a <= u /\ u < a + ObjSize
  BY <1>1, <1>2, <1>3
<1>5. /\ p \in DOMAIN slabs /\ p \in Nat /\ SlabOf(u) = p /\ SlabBase(p) \in Nat
      /\ SlabBase(p) + Stride <= u /\ u < SlabBase(p) + SlabUnits
  BY <1>4, UnitOfObject
<1> HIDE DEF p
<1>6. ASSUME NEW q \in DOMAIN slabs, u \in SlabBase(q)..(SlabBase(q) + Stride - 1)
      PROVE  FALSE
  <2>1. q \in Nat /\ Aligned(q)
    BY <1>2 DEF CacheInv
  <2>2. SlabBase(q) \in Nat
    BY <1>2, <2>1, Sizes DEF SlabBase
  <2>3. SlabBase(q) <= u /\ u < SlabBase(q) + SlabUnits /\ u < SlabBase(q) + Stride
    BY <1>3, <1>4, <1>6, <2>2, Sizes
  <2>4. q = p
    BY <1>2, <1>4, <1>5, <2>1, <2>3, InSlab
  <2> QED BY <1>3, <1>4, <1>5, <2>2, <2>3, <2>4
<1>7. ASSUME NEW q \in free \cup UNION {Pager!Pages(b) : b \in others},
             u \in (base + q) * PageUnits..((base + q + 1) * PageUnits - 1)
      PROVE  FALSE
  <2>1. Block(p) \in held /\ Block(p) \notin others /\ others \subseteq held
    BY <1>5 DEF SlabInv, Owners, Blocks
  <2>2. q \in Int
    <3>1. \A b \in held : Pager!Pages(b) \subseteq 0..(NumPages - 1)
      BY DEF SlabInv, Divided
    <3> QED BY <1>2, <2>1, <3>1, Sizes
  <2>3. q \in Pager!Pages(Block(p))
    <3>1. SlabBase(p) <= u
      BY <1>3, <1>4, <1>5
    <3>2. (base + q) * PageUnits <= u /\ u <= (base + q + 1) * PageUnits - 1
      <4>1. (base + q) * PageUnits \in Int /\ (base + q + 1) * PageUnits - 1 \in Int
        BY <1>2, <2>2, Sizes
      <4> QED BY <1>7, <4>1
    <3> QED BY <1>2, <1>4, <1>5, <2>2, <3>1, <3>2, PageOfUnit
  <2>4. q \notin free
    BY <2>1, <2>3 DEF SlabInv, Divided
  <2>5. \A b \in others : q \notin Pager!Pages(b)
    BY <2>1, <2>3 DEF SlabInv, Divided
  <2> QED BY <2>4, <2>5
<1>8. \/ \E q \in free \cup UNION {Pager!Pages(b) : b \in others} :
            u \in (base + q) * PageUnits..((base + q + 1) * PageUnits - 1)
      \/ \E q \in DOMAIN slabs : u \in SlabBase(q)..(SlabBase(q) + Stride - 1)
  <2> DEFINE A(q) == (base + q) * PageUnits..((base + q + 1) * PageUnits - 1)
             B(q) == SlabBase(q)..(SlabBase(q) + Stride - 1)
             S == free \cup UNION {Pager!Pages(b) : b \in others}
  <2>1. u \in (UNION {A(q) : q \in S}) \cup (UNION {B(q) : q \in DOMAIN slabs})
    BY DEF Outside
  <2> HIDE DEF A, B, S
  <2>2. (\E q \in S : u \in A(q)) \/ (\E q \in DOMAIN slabs : u \in B(q))
    BY <2>1
  <2> QED BY <2>2, Zenon DEF A, B, S
<1> QED BY <1>6, <1>7, <1>8, Zenon

(* Callers of the cache see a memory pool: an object that alloc hands out    *)
(* overlaps no other, and nothing of it is a free page, another caller's or  *)
(* a header until it is given back.                                          *)
THEOREM SlabIsPool == Spec => SlabImplementsPool
<1>1. Init => Pool!Init
  BY DEF Init, Pool!Init
<1>2. LiveApart /\ LiveApart' /\ OwnedApart' /\ [Next]_vars
      => [Pool!Next]_<<{[ptr |-> a, size |-> ObjSize] : a \in live}, Outside>>
  <2> SUFFICES ASSUME LiveApart, LiveApart', OwnedApart', [Next]_vars PROVE Pool!Next
    OBVIOUS
  <2> DEFINE Objects(L) == {[ptr |-> a, size |-> ObjSize] : a \in L}
  <2>1. Pool!Owned(Objects(live')) \cap Outside' = {}
    BY DEF OwnedApart
  <2>2. \/ live' = live
        \/ \E x : live' = live \cup {x}
        \/ \E x \in live : live' = live \ {x}
    BY DEF Next, Alloc, AllocGrow, AllocNone, AllocMisaligned, Take, DeallocFull,
       DeallocPartial, DeallocLast, Forget, OtherAlloc, OtherFree, vars
  <2>3. CASE live' = live
    BY <2>1, <2>3 DEF Pool!Next
  <2>4. ASSUME NEW x, x \notin live, live' = live \cup {x} PROVE Pool!Next
    <3> DEFINE b == [ptr |-> x, size |-> ObjSize]
    <3>1. Objects(live') = Objects(live) \cup {b} /\ b \in Objects(live')
      BY <2>4
    <3>2. b \notin Objects(live)
      BY <2>4
    <3>3. Pool!Extent(b) \cap Pool!Owned(Objects(live)) = {}
      <4> SUFFICES ASSUME NEW u, u \in Pool!Extent(b), u \in Pool!Owned(Objects(live))
                   PROVE  FALSE
        OBVIOUS
      <4>1. PICK a \in live : u \in a..(a + ObjSize - 1)
        BY DEF Pool!Owned, Pool!Extent
      <4>2. u \in x..(x + ObjSize - 1)
        BY DEF Pool!Extent
      <4>3. a \in Int /\ x \in Int /\ a \in live' /\ x \in live' /\ ObjSize \in Nat
        BY <2>4, Sizes DEF LiveApart
      <4>4. u \in Int /\ a <= u /\ u < a + ObjSize /\ x <= u /\ u < x + ObjSize
        BY <4>1, <4>2, <4>3
      <4>5. a = x
        BY <4>3, <4>4 DEF LiveApart
      <4> QED BY <2>4, <4>5
    <3> HIDE DEF b
    <3>4. Pool!Alloc(b)
      BY <3>1, <3>3 DEF Pool!Alloc
    <3> QED BY <2>1, <3>1, <3>2, <3>4 DEF Pool!Next
  <2>5. ASSUME NEW x \in live, live' = live \ {x} PROVE Pool!Next
    <3> DEFINE b == [ptr |-> x, size |-> ObjSize]
    <3>1. Objects(live') = Objects(live) \ {b} /\ b \in Objects(live)
      BY <2>5
    <3> HIDE DEF b
    <3>2. Pool!Free(b)
      BY <3>1 DEF Pool!Free
    <3> QED BY <2>1, <3>1, <3>2 DEF Pool!Next
  <2>6. ASSUME NEW x, live' = live \cup {x}, x \in live PROVE live' = live
    BY <2>6
  <2> QED BY <2>2, <2>3, <2>4, <2>5, <2>6
<1> QED BY <1>1, <1>2, ObjectsApart, ObjectsInside, SlabInvariant, PTL
        DEF Spec, SlabImplementsPool, Pool!Spec

=============================================================================

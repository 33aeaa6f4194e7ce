----------------------------- MODULE BootProofs -----------------------------
(***************************************************************************)
(* The handoff of memory for every memory map that Limine may give, every  *)
(* place of the image and of the boot stack, and every limit of the        *)
(* kernel's own: no page in use is donated, none twice, none is forgotten, *)
(* and the kernel's tables map them all.                                   *)
(***************************************************************************)
EXTENDS Boot, FiniteSetTheorems, SequenceTheorems, WellFoundedInduction, TLAPS

-----------------------------------------------------------------------------
(* The inductive invariant. *)

(* What the bootloader has given and harvest has copied: see Init. *)
MapInv ==
    /\ map \in Maps /\ image \in Images
    /\ \A k \in DOMAIN map :
           Reclaimable(map[k]) => image.end <= map[k].base \/ map[k].end <= image.start
    /\ \E k \in DOMAIN map : Reclaimable(map[k]) /\ stack \subseteq FullPages(map[k])
    /\ kept = SubSeq(map, 1, Min({Len(map), MaxRegions}))

(* The loops over the entries start with the first. *)
TypeInv ==
    /\ i \in Nat \ {0} /\ base \in Int
    /\ pc \in {"heap", "devices", "stack", "pml4"} => i = 1

(* The pages of the pool are those that were donated, and each was once. *)
PoolInv ==
    /\ free \cup used = Donated /\ free \cap used = {}
    /\ IsFiniteSet(Donated) /\ total = Cardinality(Donated)

(* What is donated of an entry, sooner or later or not at all. *)
Share(k) == IF Usable(kept[k]) THEN FullPages(kept[k]) \ ImagePages ELSE FullPages(kept[k])

Released(k) == Reclaimable(kept[k]) /\ Low <= AlignedBase(kept[k])

ToGive == {k \in DOMAIN kept : Usable(kept[k]) \/ Released(k)}

(* The entries that kernel_main has donated when it is where it is. *)
Given ==
    {k \in DOMAIN kept :
        \/ Usable(kept[k]) /\ pc # "heap" /\ (pc = "usable" => k < i)
        \/ /\ Released(k) /\ pc \in {"release", "continue", "run"}
           /\ pc # "run" => sp \notin FullPages(kept[k])
           /\ pc = "release" => k < i}

SharesOf(K) == UNION {Share(k) : k \in K}

DonatedInv ==
    /\ Donated \subseteq SharesOf(ToGive)
    /\ pc # "panic" => Donated = SharesOf(Given)
    /\ pc # "run" => Donated \cap stack = {}

(* The region that waits is found from some page of the stack, and release   *)
(* skips the one of another.                                                 *)
Held(s) ==
    {[from |-> AlignedBase(kept[k]), to |-> AlignedEnd(kept[k])] :
     k \in {k \in DOMAIN kept : Reclaimable(kept[k]) /\ HoldsStack(kept[k], s)}}

StackInv ==
    /\ pc \in {"stack", "pml4", "release"} => \E s \in stack : deferred = Held(s)
    /\ pc = "continue" => \E s \in stack : cell = Held(s)
    /\ pc \in {"release", "continue"} => sp \in stack

TopInv ==
    /\ top \in {0, HhdmTop}
    /\ LimineTablesInUse => top = 0

IndInv ==
    /\ MapInv /\ TypeInv /\ PoolInv /\ DonatedInv /\ StackInv /\ TopInv

-----------------------------------------------------------------------------
(* Arithmetic. *)

(* Every set of naturals has a least element. *)
LEMMA NatLeast ==
    ASSUME NEW S \in SUBSET Nat, S # {}
    PROVE  \E m \in S : \A n \in S : m <= n
<1>1. PICK x \in S : \A y \in S : ~(<<y, x>> \in OpToRel(<, Nat))
  BY WFMin, NatLessThanWellFounded
<1>2. \A y \in S : ~(y < x)
  BY <1>1 DEF OpToRel
<1> QED BY <1>2

(* Min is that element. *)
LEMMA MinIsLeast ==
    ASSUME NEW S \in SUBSET Nat, S # {}
    PROVE  Min(S) \in S /\ \A n \in S : Min(S) <= n
  BY NatLeast DEF Min

(* The ends of finitely many regions have a maximum: by induction on their   *)
(* number, as the least number for which they had none.                      *)
LEMMA MaxOfEnds ==
    ASSUME NEW f, NEW n \in Nat, \A k \in 1..n : f[k] \in Nat
    PROVE  /\ Max({f[k] : k \in 1..n} \cup {0}) \in Nat
           /\ \A k \in 1..n : f[k] <= Max({f[k2] : k2 \in 1..n} \cup {0})
<1> DEFINE Ends(m) == {f[k] : k \in 1..m} \cup {0}
           Bounded(m) == \E x \in Ends(m) : \A y \in Ends(m) : y <= x
           Bad == {m \in 0..n : ~Bounded(m)}
<1>1. Bad = {}
  <2> SUFFICES ASSUME Bad # {} PROVE FALSE
    OBVIOUS
  <2>0. Bad \in SUBSET Nat
    OBVIOUS
  <2> HIDE DEF Bad
  <2>1. PICK m \in Bad : \A l \in Bad : m <= l
    BY <2>0, NatLeast
  <2> USE DEF Bad
  <2>2. m # 0
    <3>1. Ends(0) = {0}
      OBVIOUS
    <3>2. Bounded(0)
      BY <3>1
    <3> QED BY <3>2
  <2>3. m - 1 \in 0..n /\ m - 1 \notin Bad /\ m \in 1..n
    <3>1. m \in 1..n
      BY <2>2
    <3>2. m - 1 \in 0..n /\ ~(m <= m - 1)
      BY <3>1
    <3> HIDE DEF Bad
    <3> QED BY <2>1, <3>1, <3>2
  <2>4. PICK x \in Ends(m - 1) : \A y \in Ends(m - 1) : y <= x
    <3>1. Bounded(m - 1)
      BY <2>3
    <3> QED BY <3>1
  <2>5. Ends(m) = Ends(m - 1) \cup {f[m]} /\ x \in Nat /\ f[m] \in Nat /\ Ends(m) \subseteq Nat
    <3>1. 1..m = (1..(m - 1)) \cup {m} /\ 1..m \subseteq 1..n
      BY <2>3
    <3> QED BY <2>3, <3>1
  <2>6. Bounded(m)
    <3> HIDE DEF Ends
    <3>1. CASE f[m] <= x
      BY <2>4, <2>5, <3>1
    <3>2. CASE x <= f[m]
      <4>1. \A y \in Ends(m) : y <= f[m]
        BY <2>4, <2>5, <3>2
      <4> QED BY <2>5, <4>1
    <3> QED BY <2>5, <3>1, <3>2
  <2> QED BY <2>6
<1>2. Bounded(n) /\ Ends(n) \subseteq Nat
  <2>1. n \in 0..n
    OBVIOUS
  <2>2. Bounded(n)
    BY <1>1, <2>1
  <2> QED BY <2>2
<1>3. Max(Ends(n)) \in Ends(n) /\ \A y \in Ends(n) : y <= Max(Ends(n))
  BY <1>2 DEF Max
<1> QED BY <1>2, <1>3

(* Rounding down to pages keeps the order. *)
LEMMA DivMono ==
    ASSUME NEW a \in Nat, NEW b \in Nat, a <= b
    PROVE  a \div PageUnits <= b \div PageUnits /\ a \div PageUnits \in Nat
  BY BootAssumption

(* The last whole page below an address lies below the next huge page above  *)
(* any higher address.                                                       *)
LEMMA HugeCovers ==
    ASSUME NEW e \in Nat, NEW z \in Nat, e <= z, NEW n \in Nat \ {0}, NEW hp \in Nat \ {0}
    PROVE  /\ e \div n <= ((z + n * hp - 1) \div (n * hp)) * hp
           /\ ((z + n * hp - 1) \div (n * hp)) * hp \in Nat
<1> DEFINE q == (z + n * hp - 1) \div (n * hp)
           a == e \div n
<1>1. n * hp \in Nat \ {0} /\ q \in Nat /\ a \in Nat
  OBVIOUS
<1>2. z + n * hp - 1 < (n * hp) * (q + 1)
  BY <1>1
<1>3. n * a <= e
  BY <1>1
<1>4. (n * hp) * (q + 1) = n * (hp * q) + n * hp
  BY <1>1
<1>5. n * a <= n * (hp * q)
  BY <1>1, <1>2, <1>3, <1>4
<1>6. a <= hp * q
  BY <1>1, <1>5
<1> QED BY <1>6, <1>1

-----------------------------------------------------------------------------
(* The map. *)

(* A sequence has its elements from one to its length. *)
LEMMA SeqFacts ==
    ASSUME NEW S, NEW s \in Seq(S)
    PROVE  Len(s) \in Nat /\ DOMAIN s = 1..Len(s) /\ \A k \in DOMAIN s : s[k] \in S
  OBVIOUS

(* harvest keeps the first entries. *)
LEMMA KeptFacts ==
    ASSUME MapInv
    PROVE  /\ Len(kept) \in Nat /\ DOMAIN kept = 1..Len(kept)
           /\ \A k \in DOMAIN kept : k \in DOMAIN map /\ kept[k] = map[k]
<1> DEFINE n == Min({Len(map), MaxRegions})
           Entry == [base : Nat, end : Nat, type : STRING]
<1>1. map \in Seq(Entry) /\ MaxRegions \in Nat
  BY MapsAssumption, BootAssumption DEF MapInv
<1> HIDE DEF Entry
<1>2. Len(map) \in Nat /\ DOMAIN map = 1..Len(map) /\ \A k \in 1..Len(map) : map[k] \in Entry
  BY <1>1, SeqFacts
<1>3. n \in {Len(map), MaxRegions} /\ n <= Len(map) /\ n <= MaxRegions
  <2>1. {Len(map), MaxRegions} \in SUBSET Nat /\ {Len(map), MaxRegions} # {}
    BY <1>1, <1>2
  <2> QED BY <2>1, MinIsLeast
<1> HIDE DEF n
<1>4. n \in Nat /\ 1..n \subseteq 1..Len(map)
  BY <1>1, <1>2, <1>3
<1>5. \A k \in 1..n : map[k] \in Entry
  BY <1>2, <1>4
<1>6. /\ SubSeq(map, 1, n) \in Seq(Entry)
      /\ Len(SubSeq(map, 1, n)) = IF 1 <= n THEN n - 1 + 1 ELSE 0
      /\ \A k \in 1..(n - 1 + 1) : SubSeq(map, 1, n)[k] = map[1 + k - 1]
  BY <1>4, <1>5, SubSeqProperties
<1>7. kept = SubSeq(map, 1, n)
  BY DEF MapInv, n
<1>8. kept \in Seq(Entry) /\ Len(kept) = n
  <2>1. (IF 1 <= n THEN n - 1 + 1 ELSE 0) = n
    BY <1>4
  <2> QED BY <1>6, <1>7, <2>1
<1>9. Len(kept) = n /\ DOMAIN kept = 1..n
  BY <1>8, <1>4
<1>10. ASSUME NEW k \in 1..n PROVE kept[k] = map[k]
  <2>1. k \in 1..(n - 1 + 1) /\ 1 + k - 1 = k
    BY <1>4
  <2> QED BY <1>6, <1>7, <2>1
<1> QED BY <1>2, <1>4, <1>9, <1>10

(* An entry has a page number at either end. *)
LEMMA EntryFacts ==
    ASSUME MapInv, NEW k \in DOMAIN map
    PROVE  /\ map[k].base \in Nat /\ map[k].end \in Nat
           /\ AlignedBase(map[k]) \in Nat /\ AlignedEnd(map[k]) \in Nat
<1> DEFINE Entry == [base : Nat, end : Nat, type : STRING]
<1>1. map \in Seq(Entry)
  BY MapsAssumption DEF MapInv
<1>2. map[k].base \in Nat /\ map[k].end \in Nat
  <2>1. map[k] \in Entry
    BY <1>1, SeqFacts, Zenon
  <2> QED BY <2>1
<1>3. map[k].base + PageUnits - 1 \in Nat
  BY <1>2, BootAssumption
<1> QED BY <1>2, <1>3, DivMono DEF AlignedBase, AlignedEnd

(* So has the image. *)
LEMMA ImageFacts ==
    ASSUME MapInv
    PROVE  ImageStart \in Nat /\ ImageEnd \in Nat /\ ImageStart <= ImageEnd
<1>1. image.start \in Nat /\ image.end \in Nat /\ image.start <= image.end
  BY MapsAssumption DEF MapInv
<1>2. image.end + PageUnits - 1 \in Nat /\ image.start <= image.end + PageUnits - 1
  BY <1>1, BootAssumption
<1> QED BY <1>1, <1>2, DivMono DEF ImageStart, ImageEnd

(* No whole page lies in two entries that are donated. *)
LEMMA EntriesDisjoint ==
    ASSUME MapInv, NEW j \in DOMAIN map, NEW k \in DOMAIN map, j # k,
           Usable(map[j]) \/ Reclaimable(map[j]), Usable(map[k]) \/ Reclaimable(map[k])
    PROVE  FullPages(map[j]) \cap FullPages(map[k]) = {}
<1>1. map[j].end <= map[k].base \/ map[k].end <= map[j].base
  <2>1. {map[j].type, map[k].type} \subseteq {"usable", "bootloader", "acpi"}
    BY DEF Usable, Reclaimable
  <2> QED BY <2>1, MapsAssumption DEF MapInv
<1>2. ASSUME NEW a \in DOMAIN map, NEW b \in DOMAIN map, map[a].end <= map[b].base
      PROVE  FullPages(map[a]) \cap FullPages(map[b]) = {}
  <2>1. map[a].end \in Nat /\ map[b].base + PageUnits - 1 \in Nat /\ map[a].end <= map[b].base + PageUnits - 1
    BY <1>2, EntryFacts, BootAssumption
  <2>2. AlignedEnd(map[a]) <= AlignedBase(map[b])
    BY <2>1, DivMono DEF AlignedEnd, AlignedBase
  <2> QED BY <2>2, EntryFacts DEF FullPages
<1> QED BY <1>1, <1>2

(* The image lies in none that the bootloader used. *)
LEMMA ImageApart ==
    ASSUME MapInv, NEW k \in DOMAIN map, Reclaimable(map[k])
    PROVE  FullPages(map[k]) \cap ImagePages = {}
<1>1. image.start \in Nat /\ image.end \in Nat
  BY MapsAssumption DEF MapInv
<1>2. image.end <= map[k].base \/ map[k].end <= image.start
  BY DEF MapInv
<1>3. CASE image.end <= map[k].base
  <2>1. /\ image.end + PageUnits - 1 \in Nat /\ map[k].base + PageUnits - 1 \in Nat
        /\ image.end + PageUnits - 1 <= map[k].base + PageUnits - 1
    BY <1>1, <1>3, EntryFacts, BootAssumption
  <2>2. ImageEnd <= AlignedBase(map[k])
    BY <2>1, DivMono DEF ImageEnd, AlignedBase
  <2> QED BY <2>2, EntryFacts, ImageFacts DEF FullPages, ImagePages
<1>4. CASE map[k].end <= image.start
  <2>1. AlignedEnd(map[k]) <= ImageStart
    BY <1>1, <1>4, EntryFacts, DivMono DEF ImageStart, AlignedEnd
  <2> QED BY <2>1, EntryFacts, ImageFacts DEF FullPages, ImagePages
<1> QED BY <1>2, <1>3, <1>4

(* The kernel's tables map every entry that harvest has kept. *)
LEMMA TopCovers ==
    ASSUME MapInv
    PROVE  HhdmTop \in Nat /\ \A k \in DOMAIN kept : AlignedEnd(kept[k]) <= HhdmTop
<1> DEFINE f == [k \in DOMAIN kept |-> kept[k].end]
           n == Len(kept)
           z == Max({kept[k].end : k \in DOMAIN kept} \cup {0})
<1>1. n \in Nat /\ DOMAIN kept = 1..n /\ \A k \in 1..n : kept[k].end \in Nat
  BY KeptFacts, EntryFacts
<1>2. {f[k] : k \in 1..n} = {kept[k].end : k \in DOMAIN kept} /\ \A k \in 1..n : f[k] = kept[k].end
  BY <1>1
<1> HIDE DEF f
<1>3. z \in Nat /\ \A k \in 1..n : kept[k].end <= z
  <2>1. \A k \in 1..n : f[k] \in Nat
    BY <1>1, <1>2
  <2>2. /\ Max({f[k] : k \in 1..n} \cup {0}) \in Nat
        /\ \A k \in 1..n : f[k] <= Max({f[k2] : k2 \in 1..n} \cup {0})
    BY <1>1, <2>1, MaxOfEnds
  <2> QED BY <1>2, <2>2
<1> HIDE DEF z
<1>4. HhdmTop = ((z + PageUnits * HugePages - 1) \div (PageUnits * HugePages)) * HugePages
  BY DEF HhdmTop, z
<1>5. PageUnits \in Nat \ {0} /\ HugePages \in Nat \ {0}
  BY BootAssumption
<1>6. HhdmTop \in Nat
  BY <1>3, <1>4, <1>5, HugeCovers
<1>7. ASSUME NEW k \in 1..n PROVE AlignedEnd(kept[k]) <= HhdmTop
  BY <1>1, <1>3, <1>4, <1>5, HugeCovers DEF AlignedEnd
<1> QED BY <1>1, <1>6, <1>7

-----------------------------------------------------------------------------
(* The pool. *)

PagesOfRegions(rs) == UNION {RegionPages(r) : r \in rs}

Disjoint(rs) == \A r, q \in rs : r # q => RegionPages(r) \cap RegionPages(q) = {}

(* Of regions without a common page, the pages are counted once: each        *)
(* belongs to one region.                                                    *)
LEMMA PageCountOfDisjoint ==
    ASSUME NEW rs, IsFiniteSet(PagesOfRegions(rs)), Disjoint(rs)
    PROVE  PageCount(rs) = Cardinality(PagesOfRegions(rs))
<1> DEFINE U == PagesOfRegions(rs)
           X == {x \in rs \X U : x[2] \in RegionPages(x[1])}
           own(p) == CHOOSE r \in rs : p \in RegionPages(r)
           f == [p \in U |-> <<own(p), p>>]
<1>1. \A p \in U : own(p) \in rs /\ p \in RegionPages(own(p))
  BY DEF PagesOfRegions
<1>2. \A r \in rs, p \in U : p \in RegionPages(r) => own(p) = r
  BY <1>1 DEF Disjoint
<1> HIDE DEF own, U
<1>3. f \in [U -> X]
  BY <1>1
<1>4. ASSUME NEW p \in U, NEW q \in U, f[p] = f[q] PROVE p = q
  BY <1>4
<1>5. ASSUME NEW x \in X PROVE \E p \in U : f[p] = x
  <2>1. PICK r \in rs, p \in U : x = <<r, p>> /\ p \in RegionPages(r)
    OBVIOUS
  <2>2. f[p] = x
    BY <1>2, <2>1
  <2> QED BY <2>2
<1> HIDE DEF f, X
<1>6. f \in Bijection(U, X)
  BY <1>3, <1>4, <1>5 DEF Bijection, Injection, Surjection, IsInjective
<1>7. ExistsBijection(U, X)
  BY <1>6 DEF ExistsBijection
<1>8. Cardinality(X) = Cardinality(U)
  BY <1>7, FS_Bijection DEF U
<1> QED BY <1>8 DEF PageCount, X, U, PagesOfRegions

(* add_region of regions that are new and have no page in common. *)
LEMMA AddRegionsEffect ==
    ASSUME PoolInv, NEW rs, NEW next, AddRegions(rs, next),
           IsFiniteSet(PagesOfRegions(rs)), Disjoint(rs),
           PagesOfRegions(rs) \cap Donated = {},
           \A r \in rs : r.from \in Int /\ r.to \in Int
    PROVE  /\ PoolInv' /\ base' = base
           /\ \/ pc' = "panic" /\ UNCHANGED pool
              \/ pc' = next /\ Donated' = Donated \cup PagesOfRegions(rs)
<1> DEFINE some == {r \in rs : r.from < r.to}
<1>1. PagesOfRegions(some) = PagesOfRegions(rs) /\ Disjoint(some)
  BY DEF PagesOfRegions, Disjoint, RegionPages
<1>2. CASE pc' = "panic" /\ UNCHANGED pool
  BY <1>2 DEF PoolInv, Donated, pool
<1>3. CASE /\ pc' = next /\ regions' = regions \cup some /\ UNCHANGED <<base, used>>
           /\ free' = free \cup UNION {RegionPages(r) : r \in some}
           /\ total' = total + PageCount(some)
  <2>1. /\ pc' = next /\ regions' = regions \cup some /\ base' = base /\ used' = used
        /\ free' = free \cup PagesOfRegions(some) /\ total' = total + PageCount(some)
    BY <1>3 DEF AddRegions, PagesOfRegions
  <2>2. Donated' = Donated \cup PagesOfRegions(rs)
    BY <1>1, <2>1 DEF Donated, PagesOfRegions
  <2>3. PageCount(some) = Cardinality(PagesOfRegions(rs))
    BY <1>1, PageCountOfDisjoint
  <2>4. Cardinality(Donated') = Cardinality(Donated) + Cardinality(PagesOfRegions(rs)) /\ IsFiniteSet(Donated')
    <3>1. Cardinality(PagesOfRegions(rs)) \in Nat /\ Cardinality(Donated) \in Nat
      BY FS_CardinalityType DEF PoolInv
    <3>2. Donated \cap PagesOfRegions(rs) = {} /\ Cardinality({}) = 0
      BY FS_EmptySet
    <3>3. /\ IsFiniteSet(Donated \cup PagesOfRegions(rs))
          /\ Cardinality(Donated \cup PagesOfRegions(rs)) =
                 Cardinality(Donated) + Cardinality(PagesOfRegions(rs)) - Cardinality(Donated \cap PagesOfRegions(rs))
      BY FS_Union DEF PoolInv
    <3>4. \A a, b \in Nat : a + b - 0 = a + b
      OBVIOUS
    <3> QED BY <2>2, <3>1, <3>2, <3>3, <3>4, Zenon
  <2>5. free' \cup used' = Donated' /\ free' \cap used' = {}
    BY <1>1, <2>1, <2>2 DEF PoolInv
  <2>6. total' = Cardinality(Donated')
    BY <2>1, <2>3, <2>4 DEF PoolInv
  <2>7. PoolInv'
    BY <2>4, <2>5, <2>6 DEF PoolInv
  <2> QED BY <2>1, <2>2, <2>7
<1> QED BY <1>2, <1>3 DEF AddRegions

(* Handing out free pages. *)
LEMMA TakeEffect ==
    ASSUME PoolInv, NEW ps \in SUBSET free, Take(ps)
    PROVE  PoolInv' /\ Donated' = Donated /\ base' = base
<1>1. Donated' = Donated
  BY DEF Take, Donated
<1> QED BY <1>1 DEF Take, PoolInv

-----------------------------------------------------------------------------
(* What is donated of an entry. *)

Whole(k) == [from |-> AlignedBase(kept[k]), to |-> AlignedEnd(kept[k])]

(* An entry is donated for one reason, and the memory map keeps it apart     *)
(* from every other.                                                         *)
LEMMA GiveFacts ==
    ASSUME MapInv, NEW k \in ToGive
    PROVE  /\ k \in DOMAIN kept /\ k \in DOMAIN map /\ kept[k] = map[k]
           /\ Usable(map[k]) \/ Reclaimable(map[k])
           /\ AlignedBase(kept[k]) \in Nat /\ AlignedEnd(kept[k]) \in Nat
           /\ Share(k) \subseteq FullPages(kept[k])
           /\ IsFiniteSet(Share(k))
           /\ Share(k) \cap ImagePages = {}
           /\ Reclaimable(kept[k]) => ~Usable(kept[k]) /\ Share(k) = FullPages(kept[k])
<1>1. k \in DOMAIN kept /\ k \in DOMAIN map /\ kept[k] = map[k] /\ (Usable(map[k]) \/ Reclaimable(map[k]))
  BY KeptFacts DEF ToGive, Released
<1>2. AlignedBase(kept[k]) \in Nat /\ AlignedEnd(kept[k]) \in Nat
  BY <1>1, EntryFacts
<1>3. Share(k) \subseteq FullPages(kept[k])
  BY DEF Share
<1>4. IsFiniteSet(FullPages(kept[k]))
  BY <1>2, FS_Interval DEF FullPages
<1>5. IsFiniteSet(Share(k))
  BY <1>3, <1>4, FS_Subset
<1>6. Reclaimable(kept[k]) => ~Usable(kept[k]) /\ Share(k) = FullPages(kept[k])
  BY DEF Reclaimable, Usable, Share
<1>7. Share(k) \cap ImagePages = {}
  BY <1>1, <1>6, ImageApart DEF Share
<1> QED BY <1>1, <1>2, <1>3, <1>5, <1>6, <1>7

(* The shares of different entries have no page in common. *)
LEMMA SharesDisjoint ==
    ASSUME MapInv, NEW K \in SUBSET ToGive, NEW k \in ToGive, k \notin K
    PROVE  Share(k) \cap SharesOf(K) = {}
<1>1. ASSUME NEW j \in K PROVE Share(k) \cap Share(j) = {}
  BY GiveFacts, EntriesDisjoint
<1> QED BY <1>1 DEF SharesOf

(* Nor has the share of a usable entry with the boot stack, and only one     *)
(* reclaimable entry has.                                                    *)
LEMMA StackFacts ==
    ASSUME MapInv
    PROVE  \E c \in DOMAIN map :
               /\ Reclaimable(map[c]) /\ stack \subseteq FullPages(map[c])
               /\ \A k \in ToGive : k # c => FullPages(kept[k]) \cap stack = {}
<1>1. PICK c \in DOMAIN map : Reclaimable(map[c]) /\ stack \subseteq FullPages(map[c])
  BY DEF MapInv
<1>2. ASSUME NEW k \in ToGive, k # c PROVE FullPages(kept[k]) \cap stack = {}
  <2>1. FullPages(map[k]) \cap FullPages(map[c]) = {}
    BY <1>1, <1>2, GiveFacts, EntriesDisjoint
  <2> QED BY <1>1, <2>1, GiveFacts
<1> QED BY <1>1, <1>2

(* The least and the greatest of two numbers. *)
LEMMA MinMaxOfTwo ==
    ASSUME NEW a \in Nat, NEW b \in Nat
    PROVE  /\ Min({a, b}) = IF a <= b THEN a ELSE b
           /\ Max({a, b}) = IF a <= b THEN b ELSE a
<1>1. Min({a, b}) \in {a, b} /\ \A n \in {a, b} : Min({a, b}) <= n
  BY MinIsLeast
<1>2. \E x \in {a, b} : \A y \in {a, b} : x >= y
  OBVIOUS
<1>3. Max({a, b}) \in {a, b} /\ \A y \in {a, b} : Max({a, b}) >= y
  BY <1>2 DEF Max
<1> QED BY <1>1, <1>3

(* The two parts of a region without the image. *)
LEMMA PunchedFacts ==
    ASSUME MapInv, NEW k \in ToGive, Usable(kept[k])
    PROVE  /\ PagesOfRegions(Punched(kept[k])) = Share(k)
           /\ Disjoint(Punched(kept[k]))
           /\ \A r \in Punched(kept[k]) : r.from \in Nat /\ r.to \in Nat
<1> DEFINE a == AlignedBase(kept[k])
           e == AlignedEnd(kept[k])
           low == [from |-> a, to |-> Min({e, ImageStart})]
           high == [from |-> Max({a, ImageEnd}), to |-> e]
<1>1. a \in Nat /\ e \in Nat /\ ImageStart \in Nat /\ ImageEnd \in Nat /\ ImageStart <= ImageEnd
  BY GiveFacts, ImageFacts
<1>2. Punched(kept[k]) = {low, high}
  BY DEF Punched
<1>3. Share(k) = (a..(e - 1)) \ (ImageStart..(ImageEnd - 1))
  BY DEF Share, FullPages, ImagePages
<1> HIDE DEF a, e
<1>4. /\ low.from = a /\ low.to = IF e <= ImageStart THEN e ELSE ImageStart
      /\ high.from = (IF a <= ImageEnd THEN ImageEnd ELSE a) /\ high.to = e
  BY <1>1, MinMaxOfTwo
<1> HIDE DEF low, high
<1>5. RegionPages(low) = {p \in a..(e - 1) : p < ImageStart}
  BY <1>1, <1>4 DEF RegionPages
<1>6. RegionPages(high) = {p \in a..(e - 1) : p >= ImageEnd}
  BY <1>1, <1>4 DEF RegionPages
<1>7. RegionPages(low) \cup RegionPages(high) = Share(k)
  BY <1>1, <1>3, <1>5, <1>6
<1>8. RegionPages(low) \cap RegionPages(high) = {}
  BY <1>1, <1>5, <1>6
<1>9. PagesOfRegions(Punched(kept[k])) = Share(k)
  BY <1>2, <1>7 DEF PagesOfRegions
<1>10. Disjoint(Punched(kept[k]))
  BY <1>2, <1>8 DEF Disjoint
<1>11. \A r \in {low, high} : r.from \in Nat /\ r.to \in Nat
  BY <1>1, <1>4
<1> QED BY <1>2, <1>9, <1>10, <1>11 DEF a, e

(* A region that is donated as a whole. *)
LEMMA WholeFacts ==
    ASSUME MapInv, NEW k \in ToGive, Reclaimable(kept[k])
    PROVE  /\ PagesOfRegions({Whole(k)}) = Share(k)
           /\ Disjoint({Whole(k)})
           /\ \A r \in {Whole(k)} : r.from \in Nat /\ r.to \in Nat
<1>1. Whole(k).from = AlignedBase(kept[k]) /\ Whole(k).to = AlignedEnd(kept[k])
  BY DEF Whole
<1>2. RegionPages(Whole(k)) = Share(k)
  BY <1>1, GiveFacts DEF RegionPages, FullPages
<1>3. PagesOfRegions({Whole(k)}) = Share(k) /\ Disjoint({Whole(k)})
  BY <1>2 DEF PagesOfRegions, Disjoint
<1> QED BY <1>1, <1>3, GiveFacts

(* The share of one more entry is donated, or that is a panic. *)
LEMMA DonateOne ==
    ASSUME MapInv, PoolInv, DonatedInv, pc # "panic",
           NEW k \in ToGive, k \notin Given,
           NEW rs, NEW next, AddRegions(rs, next),
           PagesOfRegions(rs) = Share(k), Disjoint(rs),
           \A r \in rs : r.from \in Nat /\ r.to \in Nat
    PROVE  /\ PoolInv' /\ base' = base
           /\ \/ pc' = "panic" /\ UNCHANGED pool
              \/ pc' = next /\ Donated' = Donated \cup Share(k)
<1>1. Given \in SUBSET ToGive
  BY DEF Given, ToGive
<1>2. Donated = SharesOf(Given)
  BY DEF DonatedInv
<1>3. Share(k) \cap Donated = {}
  BY <1>1, <1>2, SharesDisjoint
<1>4. IsFiniteSet(PagesOfRegions(rs)) /\ \A r \in rs : r.from \in Int /\ r.to \in Int
  BY GiveFacts
<1> QED BY <1>3, <1>4, AddRegionsEffect

(* The definitions that depend only on what the bootloader has given. *)
LEMMA SameGiven ==
    ASSUME MapInv, UNCHANGED given
    PROVE  /\ MapInv' /\ ToGive' = ToGive /\ HhdmTop' = HhdmTop
           /\ \A k : Share(k)' = Share(k) /\ Whole(k)' = Whole(k) /\ Held(k)' = Held(k)
           /\ \A K : SharesOf(K)' = SharesOf(K)
<1>1. MapInv'
  BY DEF given, MapInv
<1>2. ToGive' = ToGive /\ HhdmTop' = HhdmTop
  BY DEF given, ToGive, Released, HhdmTop
<1>3. \A k : Share(k)' = Share(k) /\ Whole(k)' = Whole(k) /\ Held(k)' = Held(k)
  BY DEF given, Share, Whole, Held, ImagePages, ImageStart, ImageEnd
<1>4. \A K : SharesOf(K)' = SharesOf(K)
  BY <1>3 DEF SharesOf
<1> QED BY <1>1, <1>2, <1>3, <1>4

-----------------------------------------------------------------------------
(* The steps. *)

(* A panic keeps what was donated. *)
LEMMA PanicStep ==
    ASSUME IndInv, UNCHANGED <<given, pool>>, pc # "run", pc' = "panic", i' \in Nat \ {0}, top' \in {0, HhdmTop}
    PROVE  IndInv'
<1>1. /\ MapInv' /\ ToGive' = ToGive /\ HhdmTop' = HhdmTop
      /\ \A k : Share(k)' = Share(k)
  BY SameGiven DEF IndInv
<1>2. Donated' = Donated /\ stack' = stack
  BY DEF Donated, pool, given
<1>3. PoolInv' /\ TypeInv'
  BY <1>2 DEF IndInv, PoolInv, TypeInv, pool
<1>4. DonatedInv'
  <2>1. SharesOf(ToGive)' = SharesOf(ToGive)
    BY <1>1 DEF SharesOf
  <2> QED BY <1>2, <2>1 DEF IndInv, DonatedInv
<1> QED BY <1>1, <1>3, <1>4 DEF IndInv, StackInv, TopInv, LimineTablesInUse

(* A step that donates nothing and changes no more than where kernel_main is *)
(* and what it has handed out.                                               *)
LEMMA QuietStep ==
    ASSUME IndInv, UNCHANGED given, PoolInv', Donated' = Donated, TypeInv', Given' = Given,
           pc # "panic", pc # "run", pc' # "panic", pc' # "run", StackInv', TopInv'
    PROVE  IndInv'
<1>1. MapInv' /\ ToGive' = ToGive /\ \A k : Share(k)' = Share(k)
  BY SameGiven DEF IndInv
<1>2. SharesOf(ToGive)' = SharesOf(ToGive) /\ SharesOf(Given)' = SharesOf(Given)
  BY <1>1 DEF SharesOf
<1>3. DonatedInv'
  BY <1>2 DEF IndInv, DonatedInv, given
<1> QED BY <1>1, <1>3 DEF IndInv

(* A step that donates the share of one entry. *)
LEMMA GiveStep ==
    ASSUME IndInv, UNCHANGED given, PoolInv', TypeInv', NEW k \in ToGive,
           Donated' = Donated \cup Share(k), Given' = Given \cup {k},
           pc # "panic", pc # "run", pc' # "panic", pc' # "run" => Share(k) \cap stack = {},
           StackInv', TopInv'
    PROVE  IndInv'
<1>1. MapInv' /\ ToGive' = ToGive /\ \A j : Share(j)' = Share(j)
  BY SameGiven DEF IndInv
<1>2. SharesOf(ToGive)' = SharesOf(ToGive) /\ SharesOf(Given)' = SharesOf(Given) \cup Share(k)
  BY <1>1 DEF SharesOf
<1>3. Share(k) \subseteq SharesOf(ToGive)
  BY DEF SharesOf
<1>4. DonatedInv'
  BY <1>2, <1>3 DEF IndInv, DonatedInv, given
<1> QED BY <1>1, <1>4 DEF IndInv

(* heap::init finds the base. *)
LEMMA SetBaseStep == ASSUME IndInv, SetBase PROVE IndInv'
<1> DEFINE ks == {k \in DOMAIN kept : Usable(kept[k])}
           bases == {AlignedBase(kept[k]) : k \in ks}
<1>0. UNCHANGED <<given, i, free, regions, total, used, top>> /\ Donated' = Donated
  BY DEF SetBase, Donated
<1>1. CASE bases = {}
  <2>1. pc' = "panic" /\ UNCHANGED base /\ pc = "heap"
    BY <1>1 DEF SetBase
  <2> QED BY <1>0, <2>1, PanicStep DEF IndInv, TypeInv, TopInv, pool
<1>2. CASE bases # {}
  <2>1. pc' = "usable" /\ base' = Min(bases) /\ pc = "heap"
    BY <1>2 DEF SetBase
  <2>2. bases \in SUBSET Nat
    BY KeptFacts, EntryFacts DEF IndInv
  <2>3. TypeInv'
    BY <1>0, <1>2, <2>1, <2>2, MinIsLeast DEF IndInv, TypeInv
  <2>4. PoolInv'
    BY <1>0 DEF IndInv, PoolInv
  <2>5. Given' = Given
    <3>1. i' = 1 /\ kept' = kept /\ DOMAIN kept \subseteq Nat \ {0}
      BY <1>0, <2>1, KeptFacts DEF IndInv, TypeInv, given
    <3> QED BY <2>1, <3>1 DEF Given, Released
  <2>6. StackInv' /\ TopInv'
    BY <1>0, <2>1, SameGiven DEF IndInv, StackInv, TopInv, LimineTablesInUse
  <2> QED BY <1>0, <2>1, <2>3, <2>4, <2>5, <2>6, QuietStep
<1> QED BY <1>1, <1>2

(* It donates the usable entries without the image. *)
LEMMA AddUsableStep == ASSUME IndInv, AddUsable PROVE IndInv'
<1>0. /\ UNCHANGED <<given, top, sp, deferred, cell>> /\ pc = "usable" /\ i' = i + 1 /\ i \in Nat \ {0}
      /\ i \in DOMAIN kept /\ DOMAIN kept \subseteq Nat
  BY KeptFacts DEF AddUsable, IndInv, TypeInv
<1>1. CASE ~Usable(kept[i])
  <2>1. UNCHANGED <<pc, pool>>
    BY <1>1 DEF AddUsable
  <2>2. TypeInv' /\ PoolInv' /\ Donated' = Donated
    BY <1>0, <2>1 DEF IndInv, TypeInv, PoolInv, Donated, pool
  <2>3. Given' = Given
    BY <1>0, <1>1, <2>1 DEF Given, Released, given
  <2>4. StackInv' /\ TopInv'
    BY <1>0, <2>1, SameGiven DEF IndInv, StackInv, TopInv, LimineTablesInUse, pool
  <2> QED BY <1>0, <2>1, <2>2, <2>3, <2>4, QuietStep
<1>2. CASE Usable(kept[i])
  <2>1. AddRegions(Punched(kept[i]), pc)
    BY <1>2 DEF AddUsable
  <2>2. i \in ToGive /\ i \notin Given
    BY <1>0, <1>2 DEF ToGive, Given
  <2>3. /\ PagesOfRegions(Punched(kept[i])) = Share(i) /\ Disjoint(Punched(kept[i]))
        /\ \A r \in Punched(kept[i]) : r.from \in Nat /\ r.to \in Nat
    BY <1>2, <2>2, PunchedFacts DEF IndInv
  <2>4. /\ PoolInv' /\ base' = base
        /\ \/ pc' = "panic" /\ UNCHANGED pool
           \/ pc' = "usable" /\ Donated' = Donated \cup Share(i)
    BY <1>0, <2>1, <2>2, <2>3, DonateOne DEF IndInv
  <2>5. CASE pc' = "panic" /\ UNCHANGED pool
    BY <1>0, <2>5, PanicStep DEF IndInv, TopInv
  <2>6. CASE pc' = "usable" /\ Donated' = Donated \cup Share(i)
    <3>1. Given' = Given \cup {i}
      BY <1>0, <1>2, <2>6 DEF Given, Released, given
    <3>2. Share(i) \cap stack = {}
      <4>1. PICK c \in DOMAIN map :
                /\ Reclaimable(map[c]) /\ stack \subseteq FullPages(map[c])
                /\ \A k \in ToGive : k # c => FullPages(kept[k]) \cap stack = {}
        BY StackFacts DEF IndInv
      <4>2. i # c
        BY <1>2, <2>2, <4>1, GiveFacts DEF IndInv, Usable, Reclaimable
      <4> QED BY <2>2, <4>1, <4>2, GiveFacts DEF IndInv
    <3>3. TypeInv'
      BY <1>0, <2>4, <2>6 DEF IndInv, TypeInv
    <3>4. StackInv' /\ TopInv'
      BY <1>0, <2>4, <2>6, SameGiven DEF IndInv, StackInv, TopInv, LimineTablesInUse
    <3> QED BY <1>0, <2>2, <2>4, <2>6, <3>1, <3>2, <3>3, <3>4, GiveStep
  <2> QED BY <2>4, <2>5, <2>6
<1> QED BY <1>1, <1>2

(* A block of a higher order is not smaller. *)
LEMMA Pow2Mono ==
    ASSUME NEW o \in Orders, NEW k \in Orders, o <= k
    PROVE  Pow2[o] \in Nat \ {0} /\ Pow2[k] \in Nat \ {0} /\ Pow2[o] <= Pow2[k]
<1> DEFINE Bad == {n \in Orders : o <= n /\ ~(Pow2[o] <= Pow2[n])}
<1>1. /\ Orders \subseteq Nat /\ \A n \in Orders : Pow2[n] \in Nat \ {0}
      /\ \A n \in Orders : n + 1 \in Orders => Pow2[n + 1] = 2 * Pow2[n]
  <2>1. MaxOrder \in Nat \ {0}
    BY BootAssumption
  <2>2. Orders \subseteq Nat /\ Orders \subseteq 0..MaxOrder
    BY <2>1 DEF Orders
  <2>3. \A n \in 0..MaxOrder : Pow2[n] \in Nat \ {0}
    BY OrderAssumption
  <2> QED BY <2>2, <2>3, OrderAssumption
<1>2. SUFFICES ASSUME Bad # {} PROVE FALSE
  BY <1>1
<1>3. PICK m \in Bad : \A n \in Bad : m <= n
  <2>1. Bad \in SUBSET Nat
    BY <1>1
  <2> HIDE DEF Bad
  <2> QED BY <1>2, <2>1, NatLeast
<1>4. m \in Orders /\ m # o /\ m - 1 \in Orders /\ o <= m - 1
  <2>1. m \in Orders /\ o <= m /\ m # o
    BY <1>1
  <2> QED BY <1>1, <2>1, BootAssumption DEF Orders
<1>5. m - 1 \notin Bad
  <2>1. m \in Nat /\ ~(m <= m - 1)
    BY <1>1, <1>4
  <2> HIDE DEF Bad
  <2> QED BY <1>3, <2>1
<1>6. Pow2[m] = 2 * Pow2[m - 1] /\ Pow2[o] <= Pow2[m - 1]
  <2>1. m - 1 + 1 = m
    BY <1>1, <1>4
  <2> QED BY <1>1, <1>4, <1>5, <2>1
<1> QED BY <1>1, <1>4, <1>6

(* A block of free pages is handed out, or that is a panic. *)
LEMMA AllocEffect ==
    ASSUME PoolInv, NEW order \in Orders, NEW next, AllocOrPanic(order, next), Donated \subseteq Int
    PROVE  \/ pc' = next /\ PoolInv' /\ Donated' = Donated /\ base' = base
           \/ pc' = "panic" /\ UNCHANGED pool
<1>1. ASSUME NEW k \in Orders, order <= k, NEW p \in Listed(k), Take(Block(p, order))
      PROVE  PoolInv' /\ Donated' = Donated /\ base' = base
  <2>1. p \in Int /\ Block(p, k) \subseteq free
    BY DEF Listed, OnList, PoolInv
  <2>2. Block(p, order) \subseteq Block(p, k)
    BY <1>1, <2>1, Pow2Mono DEF Block
  <2> QED BY <1>1, <2>1, <2>2, TakeEffect
<1> QED BY <1>1 DEF AllocOrPanic

(* Page numbers are numbers. *)
LEMMA DonatedNat == ASSUME MapInv, DonatedInv PROVE Donated \subseteq Nat
<1>1. ASSUME NEW k \in ToGive PROVE Share(k) \subseteq Nat
  BY GiveFacts DEF FullPages
<1> QED BY <1>1 DEF DonatedInv, SharesOf

(* heap::init takes the pool of the TLSF heap. *)
LEMMA CarveHeapStep == ASSUME IndInv, CarveHeap PROVE IndInv'
<1>0. UNCHANGED <<given, top, sp, deferred, cell>> /\ pc = "usable" /\ i > Len(kept) /\ i' = 1
  BY DEF CarveHeap
<1>1. \/ pc' = "devices" /\ PoolInv' /\ Donated' = Donated /\ base' = base
      \/ pc' = "panic" /\ UNCHANGED pool
  BY AllocEffect, DonatedNat, BootAssumption DEF CarveHeap, IndInv
<1>2. CASE pc' = "panic" /\ UNCHANGED pool
  BY <1>0, <1>2, PanicStep DEF IndInv, TopInv
<1>3. CASE pc' = "devices" /\ PoolInv' /\ Donated' = Donated /\ base' = base
  <2>1. \A k \in DOMAIN kept : k < i
    BY <1>0, KeptFacts DEF IndInv, TypeInv
  <2>2. Given' = Given
    BY <1>0, <1>3, <2>1 DEF Given, Released, given
  <2>3. TypeInv'
    BY <1>0, <1>3 DEF IndInv, TypeInv
  <2>4. StackInv' /\ TopInv'
    BY <1>0, <1>3, SameGiven DEF IndInv, StackInv, TopInv, LimineTablesInUse
  <2> QED BY <1>0, <1>3, <2>2, <2>3, <2>4, QuietStep
<1> QED BY <1>1, <1>2, <1>3

(* While Limine's tables are loaded, kernel_main takes pages and stays where *)
(* it is or goes on.                                                         *)
LEMMA TakingStep ==
    ASSUME IndInv, UNCHANGED <<given, i, top, sp, deferred, cell>>, NEW order \in Orders, NEW next,
           <<pc, next>> \in {<<"devices", "devices">>, <<"stack", "pml4">>, <<"pml4", "pml4">>},
           AllocOrPanic(order, next)
    PROVE  IndInv'
<1>1. \/ pc' = next /\ PoolInv' /\ Donated' = Donated /\ base' = base
      \/ pc' = "panic" /\ UNCHANGED pool
  BY AllocEffect, DonatedNat DEF IndInv
<1>2. CASE pc' = "panic" /\ UNCHANGED pool
  BY <1>2, PanicStep DEF IndInv, TopInv, TypeInv
<1>3. CASE pc' = next /\ PoolInv' /\ Donated' = Donated /\ base' = base
  <2>1. Given' = Given /\ TypeInv'
    BY <1>3 DEF Given, Released, given, IndInv, TypeInv
  <2>2. /\ stack' = stack /\ HhdmTop' = HhdmTop /\ \A t : Held(t)' = Held(t)
    BY SameGiven DEF IndInv, given
  <2>3. StackInv' /\ TopInv'
    BY <1>3, <2>2 DEF IndInv, StackInv, TopInv, LimineTablesInUse
  <2> QED BY <1>3, <2>1, <2>3, QuietStep
<1> QED BY <1>1, <1>2, <1>3

(* It makes tables for the devices, and those of its own. *)
LEMMA NewTableStep == ASSUME IndInv, MapDevices \/ MakeTable PROVE IndInv'
<1>1. 0 \in Orders
  BY BootAssumption DEF Orders
<1> QED BY <1>1, TakingStep DEF MapDevices, MakeTable, NewTable

(* It notes the entry that holds its stack. *)
LEMMA FindBootStackStep == ASSUME IndInv, FindBootStack PROVE IndInv'
<1>0. UNCHANGED <<given, i, pool, top, sp, cell>> /\ pc = "devices" /\ pc' = "stack"
  BY DEF FindBootStack
<1>1. PICK s \in stack : deferred' = Held(s)
  BY DEF FindBootStack, Held
<1>2. Given' = Given /\ TypeInv' /\ PoolInv' /\ Donated' = Donated
  BY <1>0 DEF Given, Released, given, pool, IndInv, TypeInv, PoolInv, Donated
<1>3. /\ stack' = stack /\ HhdmTop' = HhdmTop /\ \A t : Held(t)' = Held(t)
  BY <1>0, SameGiven DEF IndInv, given
<1>4. StackInv' /\ TopInv'
  BY <1>0, <1>1, <1>3 DEF IndInv, StackInv, TopInv, LimineTablesInUse, pool
<1> QED BY <1>0, <1>2, <1>4, QuietStep

(* It takes the pages of its own stack. *)
LEMMA AllocStackStep == ASSUME IndInv, AllocStack PROVE IndInv'
  BY TakingStep, BootAssumption DEF AllocStack

(* Its own tables map every page that has been or will be donated. *)
LEMMA TopCoversPool ==
    ASSUME MapInv, DonatedInv
    PROVE  Donated \subseteq 0..(HhdmTop - 1) /\ HhdmTop \in Nat
<1>1. ASSUME NEW k \in ToGive PROVE Share(k) \subseteq 0..(HhdmTop - 1)
  BY GiveFacts, TopCovers DEF FullPages
<1> QED BY <1>1, TopCovers DEF DonatedInv, SharesOf

(* It loads its own tables, and goes on if they map its stack. *)
LEMMA InstallPml4Step == ASSUME IndInv, InstallPml4 PROVE IndInv'
<1>0. UNCHANGED <<given, i, pool, deferred, cell>> /\ pc = "pml4" /\ top' = HhdmTop
  BY DEF InstallPml4
<1>1. PICK s \in stack : sp' = s /\ pc' = IF s < HhdmTop THEN "release" ELSE "panic"
  BY DEF InstallPml4
<1>2. CASE pc' = "panic"
  BY <1>0, <1>2, PanicStep DEF IndInv, TypeInv
<1>3. CASE pc' = "release"
  <2>1. /\ stack' = stack /\ HhdmTop' = HhdmTop /\ \A t : Held(t)' = Held(t)
    BY <1>0, SameGiven DEF IndInv, given
  <2>2. DOMAIN kept \subseteq Nat \ {0} /\ i = 1
    BY <1>0, KeptFacts DEF IndInv, TypeInv
  <2>3. Given' = Given /\ TypeInv'
    BY <1>0, <1>3, <2>2 DEF Given, Released, given, pool, IndInv, TypeInv
  <2>4. PoolInv' /\ Donated' = Donated
    BY <1>0 DEF IndInv, PoolInv, Donated, pool
  <2>5. StackInv' /\ TopInv'
    BY <1>0, <1>1, <1>3, <2>1 DEF IndInv, StackInv, TopInv, LimineTablesInUse
  <2> QED BY <1>0, <1>3, <2>3, <2>4, <2>5, QuietStep
<1> QED BY <1>1, <1>2, <1>3

(* LimineData::release goes over an entry. *)
LEMMA ReleaseRegionStep == ASSUME IndInv, ReleaseRegion PROVE IndInv'
<1>0. /\ UNCHANGED <<given, top, sp, deferred, cell>> /\ pc = "release" /\ i' = i + 1 /\ i \in Nat \ {0}
      /\ i \in DOMAIN kept /\ DOMAIN kept \subseteq Nat /\ sp \in stack
  BY KeptFacts DEF ReleaseRegion, IndInv, TypeInv, StackInv
<1>1. /\ stack' = stack /\ HhdmTop' = HhdmTop /\ \A t : Held(t)' = Held(t)
  BY <1>0, SameGiven DEF IndInv, given
<1>2. AlignedBase(kept[i]) \in Nat /\ AlignedEnd(kept[i]) \in Nat
  BY <1>0, KeptFacts, EntryFacts DEF IndInv
<1>3. Skipped(kept[i]) <=> ~(Low <= AlignedBase(kept[i])) \/ sp \in FullPages(kept[i])
  BY <1>2, BootAssumption DEF Skipped
<1>4. CASE ~(Reclaimable(kept[i]) /\ ~Skipped(kept[i]))
  <2>1. UNCHANGED <<pc, pool>>
    BY <1>4 DEF ReleaseRegion
  <2>2. TypeInv' /\ PoolInv' /\ Donated' = Donated
    BY <1>0, <2>1 DEF IndInv, TypeInv, PoolInv, Donated, pool
  <2>3. Given' = Given
    BY <1>0, <1>3, <1>4, <2>1 DEF Given, Released, given
  <2>4. StackInv' /\ TopInv'
    BY <1>0, <1>1, <2>1 DEF IndInv, StackInv, TopInv, LimineTablesInUse, pool
  <2> QED BY <1>0, <2>1, <2>2, <2>3, <2>4, QuietStep
<1>5. CASE Reclaimable(kept[i]) /\ ~Skipped(kept[i])
  <2>1. AddRegions({Whole(i)}, pc)
    BY <1>5 DEF ReleaseRegion, Whole
  <2>2. i \in ToGive /\ i \notin Given /\ sp \notin FullPages(kept[i]) /\ Released(i) /\ ~Usable(kept[i])
    BY <1>0, <1>3, <1>5 DEF ToGive, Given, Released, Usable, Reclaimable
  <2>3. /\ PagesOfRegions({Whole(i)}) = Share(i) /\ Disjoint({Whole(i)})
        /\ \A r \in {Whole(i)} : r.from \in Nat /\ r.to \in Nat
    BY <2>2, WholeFacts DEF IndInv, Released
  <2>4. /\ PoolInv' /\ base' = base
        /\ \/ pc' = "panic" /\ UNCHANGED pool
           \/ pc' = "release" /\ Donated' = Donated \cup Share(i)
    BY <1>0, <2>1, <2>2, <2>3, DonateOne DEF IndInv
  <2>5. CASE pc' = "panic" /\ UNCHANGED pool
    BY <1>0, <2>5, PanicStep DEF IndInv, TopInv
  <2>6. CASE pc' = "release" /\ Donated' = Donated \cup Share(i)
    <3>1. Given' = Given \cup {i}
      BY <1>0, <2>2, <2>6 DEF Given, Released, given
    <3>2. Share(i) \cap stack = {}
      <4>1. PICK c \in DOMAIN map :
                /\ Reclaimable(map[c]) /\ stack \subseteq FullPages(map[c])
                /\ \A k \in ToGive : k # c => FullPages(kept[k]) \cap stack = {}
        BY StackFacts DEF IndInv
      <4>2. i # c
        BY <1>0, <2>2, <4>1, GiveFacts DEF IndInv
      <4> QED BY <2>2, <4>1, <4>2, GiveFacts DEF IndInv
    <3>3. TypeInv'
      BY <1>0, <2>4, <2>6 DEF IndInv, TypeInv
    <3>4. StackInv' /\ TopInv'
      BY <1>0, <1>1, <2>4, <2>6 DEF IndInv, StackInv, TopInv, LimineTablesInUse
    <3> QED BY <1>0, <2>2, <2>4, <2>6, <3>1, <3>2, <3>3, <3>4, GiveStep
  <2> QED BY <2>4, <2>5, <2>6
<1> QED BY <1>4, <1>5

(* post_stack_state::store. *)
LEMMA StoreStep == ASSUME IndInv, Store PROVE IndInv'
<1>0. /\ UNCHANGED <<given, i, pool, top, sp, deferred>> /\ pc = "release" /\ pc' = "continue"
      /\ cell' = deferred /\ i > Len(kept)
  BY DEF Store
<1>1. \A k \in DOMAIN kept : k < i
  BY <1>0, KeptFacts DEF IndInv, TypeInv
<1>2. Given' = Given
  BY <1>0, <1>1 DEF Given, Released, given
<1>3. TypeInv' /\ PoolInv' /\ Donated' = Donated
  BY <1>0 DEF IndInv, TypeInv, PoolInv, Donated, pool
<1>4. /\ stack' = stack /\ HhdmTop' = HhdmTop /\ \A t : Held(t)' = Held(t)
  BY <1>0, SameGiven DEF IndInv, given
<1>5. StackInv' /\ TopInv'
  BY <1>0, <1>4 DEF IndInv, StackInv, TopInv, LimineTablesInUse
<1> QED BY <1>0, <1>2, <1>3, <1>5, QuietStep

(* The entry that waited is the one that release skipped for the stack, from *)
(* whichever pages of the stack the two were found; or there is none.        *)
LEMMA HeldFacts ==
    ASSUME MapInv, NEW s \in stack, sp \in stack
    PROVE  \/ /\ Held(s) = {}
              /\ \A k \in DOMAIN kept : Released(k) => sp \notin FullPages(kept[k])
           \/ \E c \in ToGive :
                  /\ Released(c) /\ Held(s) = {Whole(c)} /\ sp \in FullPages(kept[c])
                  /\ \A k \in DOMAIN kept : Released(k) /\ k # c => sp \notin FullPages(kept[k])
<1>1. PICK c \in DOMAIN map :
          /\ Reclaimable(map[c]) /\ stack \subseteq FullPages(map[c])
          /\ \A k \in ToGive : k # c => FullPages(kept[k]) \cap stack = {}
  BY StackFacts
<1>2. \A k \in DOMAIN kept : Released(k) => k \in ToGive
  BY DEF ToGive
<1>3. \A k \in DOMAIN kept : Reclaimable(kept[k]) /\ HoldsStack(kept[k], s) <=> Released(k) /\ s \in FullPages(kept[k])
  BY DEF HoldsStack, Released
<1>4. Held(s) = {Whole(k) : k \in {k \in DOMAIN kept : Released(k) /\ s \in FullPages(kept[k])}}
  BY <1>3 DEF Held, Whole
<1>5. \A k \in DOMAIN kept : Released(k) /\ k # c => sp \notin FullPages(kept[k]) /\ s \notin FullPages(kept[k])
  BY <1>1, <1>2
<1>6. CASE c \in DOMAIN kept /\ Released(c)
  <2>1. s \in FullPages(kept[c]) /\ sp \in FullPages(kept[c])
    BY <1>1, <1>6, KeptFacts
  <2>2. {k \in DOMAIN kept : Released(k) /\ s \in FullPages(kept[k])} = {c}
    BY <1>5, <1>6, <2>1
  <2>3. Held(s) = {Whole(c)}
    BY <1>4, <2>2
  <2> QED BY <1>2, <1>5, <1>6, <2>1, <2>3
<1>7. CASE ~(c \in DOMAIN kept /\ Released(c))
  <2>1. {k \in DOMAIN kept : Released(k) /\ s \in FullPages(kept[k])} = {}
    BY <1>5, <1>7
  <2>2. Held(s) = {}
    BY <1>4, <2>1
  <2> QED BY <1>5, <1>7, <2>2
<1> QED BY <1>6, <1>7

(* kernel_main_continue donates the entry that waited. *)
LEMMA ContinueStep == ASSUME IndInv, Continue PROVE IndInv'
<1>0. UNCHANGED <<given, i, top, sp, deferred>> /\ pc = "continue" /\ AddRegions(cell, "run") /\ sp \in stack
  BY DEF Continue, IndInv, StackInv
<1>1. PICK s \in stack : cell = Held(s)
  BY <1>0 DEF IndInv, StackInv
<1>2. HhdmTop' = HhdmTop
  BY <1>0, SameGiven DEF IndInv
<1>3. \/ /\ cell = {}
         /\ \A k \in DOMAIN kept : Released(k) => sp \notin FullPages(kept[k])
      \/ \E c \in ToGive :
             /\ Released(c) /\ cell = {Whole(c)} /\ sp \in FullPages(kept[c])
             /\ \A k \in DOMAIN kept : Released(k) /\ k # c => sp \notin FullPages(kept[k])
  BY <1>0, <1>1, HeldFacts DEF IndInv
<1>4. ASSUME NEW c \in ToGive, Released(c), cell = {Whole(c)}, sp \in FullPages(kept[c]),
             \A k \in DOMAIN kept : Released(k) /\ k # c => sp \notin FullPages(kept[k])
      PROVE  IndInv'
  <2>1. c \notin Given /\ ~Usable(kept[c]) /\ c \in DOMAIN kept
    BY <1>0, <1>4, GiveFacts DEF Given, Released, IndInv
  <2>2. /\ PagesOfRegions({Whole(c)}) = Share(c) /\ Disjoint({Whole(c)})
        /\ \A r \in {Whole(c)} : r.from \in Nat /\ r.to \in Nat
    BY <1>4, WholeFacts DEF IndInv, Released
  <2>3. /\ PoolInv' /\ base' = base
        /\ \/ pc' = "panic" /\ UNCHANGED pool
           \/ pc' = "run" /\ Donated' = Donated \cup Share(c)
    BY <1>0, <1>4, <2>1, <2>2, DonateOne DEF IndInv
  <2>4. CASE pc' = "panic" /\ UNCHANGED pool
    BY <1>0, <2>4, PanicStep DEF IndInv, TopInv, TypeInv
  <2>5. CASE pc' = "run" /\ Donated' = Donated \cup Share(c)
    <3>1. Given' = Given \cup {c}
      BY <1>0, <1>4, <2>1, <2>5 DEF Given, Released, given
    <3>2. TypeInv' /\ StackInv' /\ TopInv'
      BY <1>0, <1>2, <2>3, <2>5 DEF IndInv, TypeInv, StackInv, TopInv, LimineTablesInUse
    <3> QED BY <1>0, <2>3, <2>5, <3>1, <3>2, GiveStep
  <2> QED BY <2>3, <2>4, <2>5
<1>5. ASSUME cell = {}, \A k \in DOMAIN kept : Released(k) => sp \notin FullPages(kept[k])
      PROVE  IndInv'
  <2>1. PagesOfRegions(cell) = {} /\ Disjoint(cell) /\ IsFiniteSet({})
    BY <1>5, FS_EmptySet DEF PagesOfRegions, Disjoint
  <2>2. /\ PoolInv' /\ base' = base
        /\ \/ pc' = "panic" /\ UNCHANGED pool
           \/ pc' = "run" /\ Donated' = Donated
    BY <1>0, <1>5, <2>1, AddRegionsEffect DEF IndInv
  <2>3. CASE pc' = "panic" /\ UNCHANGED pool
    BY <1>0, <2>3, PanicStep DEF IndInv, TopInv, TypeInv
  <2>4. CASE pc' = "run" /\ Donated' = Donated
    <3>1. Given' = Given
      BY <1>0, <1>5, <2>4 DEF Given, Released, given
    <3>2. MapInv' /\ ToGive' = ToGive /\ \A k : Share(k)' = Share(k)
      BY <1>0, SameGiven DEF IndInv
    <3>3. SharesOf(ToGive)' = SharesOf(ToGive) /\ SharesOf(Given)' = SharesOf(Given)
      BY <3>1, <3>2 DEF SharesOf
    <3>4. DonatedInv'
      BY <1>0, <2>4, <3>3 DEF IndInv, DonatedInv
    <3>5. TypeInv' /\ StackInv' /\ TopInv'
      BY <1>0, <1>2, <2>2, <2>4 DEF IndInv, TypeInv, StackInv, TopInv, LimineTablesInUse
    <3> QED BY <2>2, <3>2, <3>4, <3>5 DEF IndInv
  <2> QED BY <2>2, <2>3, <2>4
<1> QED BY <1>3, <1>4, <1>5

-----------------------------------------------------------------------------
(* The theorems. *)

(* The invariant holds when the bootloader enters the kernel. *)
LEMMA InitIndInv == Init => IndInv
<1> SUFFICES ASSUME Init PROVE IndInv
  OBVIOUS
<1>1. MapInv
  <2>1. PICK k \in DOMAIN map : \E p, q \in FullPages(map[k]) :
           Reclaimable(map[k]) /\ p <= q /\ q <= p + 1 /\ stack = p..q
    BY DEF Init
  <2>2. stack \subseteq FullPages(map[k])
    BY <2>1 DEF FullPages
  <2> QED BY <2>1, <2>2 DEF Init, MapInv
<1>2. TypeInv
  BY DEF Init, TypeInv
<1>3. Donated = {}
  BY DEF Init, Donated
<1>4. PoolInv
  BY <1>3, FS_EmptySet DEF Init, PoolInv
<1>5. Given = {}
  BY DEF Init, Given
<1>6. DonatedInv
  BY <1>3, <1>5 DEF DonatedInv, SharesOf
<1>7. StackInv /\ TopInv
  BY DEF Init, StackInv, TopInv
<1> QED BY <1>1, <1>2, <1>4, <1>6, <1>7 DEF IndInv

(* A step that changes nothing keeps it. *)
LEMMA StutterStep == ASSUME IndInv, UNCHANGED vars PROVE IndInv'
<1>1. MapInv' /\ TypeInv'
  BY DEF IndInv, MapInv, TypeInv, vars
<1>2. PoolInv' /\ Donated' = Donated
  BY DEF IndInv, PoolInv, Donated, vars
<1>3. /\ ToGive' = ToGive /\ HhdmTop' = HhdmTop
      /\ \A k : Share(k)' = Share(k) /\ Held(k)' = Held(k)
  BY SameGiven DEF IndInv, vars, given
<1>4. Given' = Given
  BY DEF Given, Released, vars
<1>5. SharesOf(ToGive)' = SharesOf(ToGive) /\ SharesOf(Given)' = SharesOf(Given)
  BY <1>3, <1>4 DEF SharesOf
<1>6. DonatedInv' /\ StackInv' /\ TopInv'
  BY <1>2, <1>3, <1>5 DEF IndInv, DonatedInv, StackInv, TopInv, LimineTablesInUse, vars
<1> QED BY <1>1, <1>2, <1>6 DEF IndInv

(* The inductive invariant holds throughout. *)
THEOREM BootInvariant == Spec => []IndInv
<1>1. Init => IndInv
  BY InitIndInv
<1>2. IndInv /\ [Next]_vars => IndInv'
  BY SetBaseStep, AddUsableStep, CarveHeapStep, NewTableStep, FindBootStackStep, AllocStackStep,
     InstallPml4Step, ReleaseRegionStep, StoreStep, ContinueStep, StutterStep
     DEF Next, Halted
<1> QED BY <1>1, <1>2, PTL DEF Spec

(* Whatever the map, the image and the stack: no page in use is ever free.   *)
THEOREM BootNothingInUseFree == Spec => []NothingInUseFree
<1>1. ASSUME IndInv PROVE NothingInUseFree
  <2>1. free \subseteq Donated /\ free \cap used = {}
    BY <1>1 DEF IndInv, PoolInv
  <2>2. ASSUME NEW p \in free
        PROVE  \E k \in ToGive : k \in DOMAIN map /\ p \in FullPages(map[k]) /\ p \notin ImagePages
                                /\ (Usable(map[k]) \/ Reclaimable(map[k]))
    <3>1. PICK k \in ToGive : p \in Share(k)
      BY <1>1, <2>1 DEF IndInv, DonatedInv, SharesOf
    <3> QED BY <1>1, <3>1, GiveFacts DEF IndInv
  <2>3. free \cap ImagePages = {}
    BY <2>2
  <2>4. OnBootStack => free \cap stack = {}
    BY <1>1, <2>1 DEF OnBootStack, IndInv, DonatedInv
  <2>5. free \subseteq PagesOf(map, Usable) \cup PagesOf(map, Reclaimable)
    BY <2>2 DEF PagesOf
  <2>6. ASSUME LimineTablesInUse, NEW p \in free PROVE p \notin PagesOf(map, Reclaimable)
    <3>1. pc # "panic" /\ pc \notin {"release", "continue", "run"}
      BY <2>6 DEF LimineTablesInUse
    <3>2. PICK k \in Given : p \in Share(k)
      BY <1>1, <2>1, <3>1 DEF IndInv, DonatedInv, SharesOf
    <3>3. Usable(kept[k]) /\ k \in ToGive
      BY <3>1, <3>2 DEF Given, ToGive
    <3>4. k \in DOMAIN map /\ Usable(map[k]) /\ ~Reclaimable(map[k]) /\ p \in FullPages(map[k])
      BY <1>1, <3>2, <3>3, GiveFacts DEF IndInv
    <3>5. \A j \in DOMAIN map : Reclaimable(map[j]) => p \notin FullPages(map[j])
      BY <1>1, <3>4, EntriesDisjoint DEF IndInv
    <3> QED BY <3>5 DEF PagesOf
  <2> QED BY <2>1, <2>3, <2>4, <2>5, <2>6 DEF NothingInUseFree
<1> QED BY <1>1, BootInvariant, PTL

(* No page is donated twice, whichever pages of the stack the two readings   *)
(* of the stack pointer fall into.                                           *)
THEOREM BootDonatedOnce == Spec => []DonatedOnce
<1>1. IndInv => DonatedOnce
  BY DEF IndInv, PoolInv, DonatedOnce
<1> QED BY <1>1, BootInvariant, PTL

(* A kernel that is up has been given every page it may use. *)
THEOREM BootAllReclaimed == Spec => []AllReclaimed
<1>1. ASSUME IndInv, pc = "run"
      PROVE  Donated = (PagesOf(kept, Usable) \ ImagePages)
                       \cup PagesOf(kept, LAMBDA r : Reclaimable(r) /\ AlignedBase(r) >= Low)
  <2>1. Donated = SharesOf(Given) /\ Given = ToGive
    BY <1>1 DEF IndInv, DonatedInv, Given, ToGive
  <2>2. \A k \in DOMAIN kept : Low <= AlignedBase(kept[k]) <=> AlignedBase(kept[k]) >= Low
    BY <1>1, KeptFacts, EntryFacts, BootAssumption DEF IndInv
  <2>3. ASSUME NEW p, p \in Donated
        PROVE  p \in (PagesOf(kept, Usable) \ ImagePages)
                     \cup PagesOf(kept, LAMBDA r : Reclaimable(r) /\ AlignedBase(r) >= Low)
    <3>1. PICK k \in ToGive : p \in Share(k)
      BY <2>1, <2>3 DEF SharesOf
    <3>2. k \in DOMAIN kept /\ p \in FullPages(kept[k]) /\ p \notin ImagePages
      BY <1>1, <3>1, GiveFacts DEF IndInv
    <3>3. CASE Usable(kept[k])
      BY <3>2, <3>3 DEF PagesOf
    <3>4. CASE Reclaimable(kept[k]) /\ AlignedBase(kept[k]) >= Low
      BY <3>2, <3>4 DEF PagesOf
    <3> QED BY <2>2, <3>2, <3>3, <3>4 DEF ToGive, Released
  <2>4. ASSUME NEW p, p \in PagesOf(kept, Usable) \ ImagePages PROVE p \in Donated
    <3>1. PICK k \in DOMAIN kept : Usable(kept[k]) /\ p \in FullPages(kept[k])
      BY <2>4 DEF PagesOf
    <3>2. p \in Share(k) /\ k \in ToGive
      BY <2>4, <3>1 DEF Share, ToGive
    <3> QED BY <2>1, <3>2 DEF SharesOf
  <2>5. ASSUME NEW p, p \in PagesOf(kept, LAMBDA r : Reclaimable(r) /\ AlignedBase(r) >= Low)
        PROVE  p \in Donated
    <3>1. PICK k \in DOMAIN kept : Reclaimable(kept[k]) /\ AlignedBase(kept[k]) >= Low /\ p \in FullPages(kept[k])
      BY <2>5 DEF PagesOf
    <3>2. p \in Share(k) /\ k \in ToGive
      BY <1>1, <2>2, <3>1, GiveFacts DEF Released, ToGive, IndInv
    <3> QED BY <2>1, <3>2 DEF SharesOf
  <2> QED BY <2>3, <2>4, <2>5
<1>2. IndInv => AllReclaimed
  BY <1>1 DEF AllReclaimed
<1> QED BY <1>2, BootInvariant, PTL

(* The kernel's own tables map every page of the allocator. *)
THEOREM BootPoolMapped == Spec => []PoolMapped
<1>1. IndInv => PoolMapped
  BY TopCoversPool DEF IndInv, PoolInv, TopInv, PoolMapped
<1> QED BY <1>1, BootInvariant, PTL

=============================================================================

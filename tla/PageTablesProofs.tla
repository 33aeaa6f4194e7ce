-------------------------- MODULE PageTablesProofs --------------------------
(***************************************************************************)
(* Safety of the page tables for every fan-out, memory map and bootloader: *)
(* the tables are a tree of owned frames, no frame is lost, the TLB is     *)
(* coherent, and the tables implement the abstract address space, as long  *)
(* as no page is mapped where a large page lies.                           *)
(***************************************************************************)
EXTENDS PageTables, FiniteSetTheorems, WellFoundedInduction, TLAPS

-----------------------------------------------------------------------------
(* The inductive invariant.                                                *)

Mems == [Frames -> [Index -> Entries]]

IsLink(e) == e.present /\ ~e.huge

(* A[k] are the tables of level k under the root r: each is led to by one    *)
(* entry of a table of the level above, and by no other.                     *)
Tree(m, A, r) ==
    /\ m \in Mems
    /\ A \in [1..4 -> SUBSET Frames]
    /\ A[4] = {r}
    /\ \A k \in 2..4 : \A t \in A[k], i \in Index :
           IsLink(m[t][i]) => m[t][i].frame \in A[k - 1]
    /\ \A k \in 2..4 : \A f \in A[k - 1] :
           \E t \in A[k], i \in Index : IsLink(m[t][i]) /\ m[t][i].frame = f
    /\ \A j, k \in 1..4 : j # k => A[j] \cap A[k] = {}
    /\ \A k \in 2..4 : \A t, u \in A[k], i, j \in Index :
           IsLink(m[t][i]) /\ IsLink(m[u][j]) /\ m[t][i].frame = m[u][j].frame
               => t = u /\ i = j
    /\ \A t \in A[4] \cup A[1], i \in Index : ~m[t][i].huge

(* All its tables. *)
All(A) == A[1] \cup A[2] \cup A[3] \cup A[4]

(* Nothing below the root is global. *)
NotGlobal(m, A) ==
    \A k \in 1..3 : \A t \in A[k], i \in Index : m[t][i].prot # "kernel"

(* Page v does not lie in a large page. *)
NotLarge(m, r, v) ==
    LET e4 == m[r][At(v, 4)]
        e3 == m[e4.frame][At(v, 3)]
        e2 == m[e3.frame][At(v, 2)]
    IN  e4.present /\ e3.present => ~e3.huge /\ (e2.present => ~e2.huge)

(* The tables of each level that T4, T3, T2 and T1 find from the root. *)
LevelsOf(m, r) ==
    LET t3 == Below({r}, m)
        t2 == Below(t3, m)
        t1 == Below(t2, m)
    IN  [k \in 1..4 |-> IF k = 4 THEN {r} ELSE IF k = 3 THEN t3 ELSE IF k = 2 THEN t2 ELSE t1]

Levels == LevelsOf(mem, cr3)

HhdmPages == {Hhdm(f) : f \in Frames}
CallPages ==
    {u \in VirtPages : u \in RunPages \/ \E v \in RunPages, n \in MmioLens : u \in v..(v + n - 1)}

(* No page that the kernel maps lies in a large page: the devices not in     *)
(* Limine's tables, what it maps later not in its own HHDM.                  *)
ClearOfLarge ==
    /\ NotLarge(LimineMem, LimineRoot, Hhdm(Lapic))
    /\ NotLarge(LimineMem, LimineRoot, Hhdm(Fb))
    /\ CallPages \cap HhdmPages = {}

Booting == pc \in {"lapic", "fb", "stack", "pml4"}

TypeInv ==
    /\ pool \subseteq Ram /\ hogged \subseteq Ram
    /\ guard \in Ram \cup {Unmapped} /\ (pc \in {"lapic", "fb", "stack"} => guard = Unmapped)
    /\ pc \in {"lapic", "fb", "stack", "pml4", "release", "run", "panic"}
    /\ \A t \in tlb : t.page \in VirtPages
    /\ mmio \in [page : Int, frame : Nat, left : Nat]

(* What is free, with other callers, in the stack, a table, or Limine's. *)
Apart ==
    /\ All(Levels) \cap (pool \cup hogged) = {} /\ pool \cap hogged = {}
    /\ Stack \cap (All(Levels) \cup pool \cup hogged) = {}
    /\ pc # "run" => LimineFrames \cap (pool \cup hogged \cup Stack) = {}
    /\ pc = "release" => LimineFrames \cap All(Levels) = {}

(* Limine's tables, with what kernel_main has added to them. *)
InLimine ==
    /\ All(Levels) \subseteq LimineFrames \cup orphans
    /\ NotGlobal(mem, Levels)
    /\ pc \in {"lapic", "fb"} => \A f \in {Lapic, Fb} : NotLarge(mem, cr3, Hhdm(f))

InKernel ==
    \A v \in VirtPages \ HhdmPages : NotLarge(mem, cr3, v)

MmioInv ==
    mmio.left > 0 => pc = "run" /\ mmio.page..(mmio.page + mmio.left - 1) \subseteq CallPages

PTInv ==
    /\ TypeInv
    /\ Tree(mem, Levels, cr3)
    /\ Apart
    /\ Booting => InLimine
    /\ pc \in {"release", "run"} => InKernel
    /\ MmioInv
    /\ FramesAccounted /\ TlbCoherent /\ MapTakesEffect

-----------------------------------------------------------------------------
(* The four entries on the way to page v. *)
E4(m, r, v) == m[r][At(v, 4)]
E3(m, r, v) == m[E4(m, r, v).frame][At(v, 3)]
E2(m, r, v) == m[E3(m, r, v).frame][At(v, 2)]
E1(m, r, v) == m[E2(m, r, v).frame][At(v, 1)]

(* The table of level k on that way is t. *)
Reach(m, r, v, k, t) ==
    \/ k = 4 /\ t = r
    \/ k = 3 /\ IsLink(E4(m, r, v)) /\ t = E4(m, r, v).frame
    \/ k = 2 /\ IsLink(E4(m, r, v)) /\ IsLink(E3(m, r, v)) /\ t = E3(m, r, v).frame
    \/ /\ k = 1 /\ IsLink(E4(m, r, v)) /\ IsLink(E3(m, r, v)) /\ IsLink(E2(m, r, v))
       /\ t = E2(m, r, v).frame

(* n is m with a new, empty table f under entry i of table t of level k. *)
Grows(m, A, k, t, i, f, n, B) ==
    /\ k \in 2..4 /\ t \in A[k] /\ i \in Index /\ ~m[t][i].present
    /\ f \in Frames /\ f \notin All(A)
    /\ n \in Mems
    /\ \A j \in Index : n[f][j] = NotPresent
    /\ n[t][i] = Leaf(f, "table")
    /\ \A s \in Frames, j \in Index : s # f /\ ~(s = t /\ j = i) => n[s][j] = m[s][j]
    /\ B = [A EXCEPT ![k - 1] = A[k - 1] \cup {f}]

(* n is m with another entry i in table t. *)
Writes(m, t, i, e, n) ==
    /\ t \in Frames /\ i \in Index /\ e \in Entries
    /\ n \in Mems
    /\ n[t][i] = e
    /\ \A s \in Frames, j \in Index : ~(s = t /\ j = i) => n[s][j] = m[s][j]

(* The tables under r and the free frames have no frame in common. *)
Base(m, p, A, r) == Tree(m, A, r) /\ p \subseteq Frames /\ p \cap All(A) = {}

(* A walk that began with memory m, free frames p and tables B has made the  *)
(* tables in A besides: no page is translated differently.                   *)
Walked(w, A, m, p, B, r) ==
    /\ w = [mem |-> w.mem, pool |-> w.pool, at |-> w.at, ok |-> w.ok] /\ w.ok \in BOOLEAN
    /\ Base(w.mem, w.pool, A, r)
    /\ w.pool \subseteq p /\ All(A) = All(B) \cup (p \ w.pool)
    /\ \A u \in VirtPages :
           /\ Lookup(w.mem, r, u) = Lookup(m, r, u)
           /\ NotLarge(m, r, u) => NotLarge(w.mem, r, u)
    /\ \A f \in Frames \ All(A) : w.mem[f] = m[f]
    /\ NotGlobal(m, B) => NotGlobal(w.mem, A)

NoLarge3(m, A) == \A t \in A[3], i \in Index : ~m[t][i].huge

-----------------------------------------------------------------------------
(* Arithmetic of the pages.                                                *)

(* Every set of naturals has a least element. *)
LEMMA LeastNatural ==
    ASSUME NEW S \in SUBSET Nat, S # {}
    PROVE  \E m \in S : \A n \in S : m <= n
<1>1. PICK x \in S : \A y \in S : ~(<<y, x>> \in OpToRel(<, Nat))
  BY WFMin, NatLessThanWellFounded, Zenon
<1>2. \A y \in S : ~(y < x)
  BY <1>1 DEF OpToRel
<1> QED BY <1>2

(* Min is the least element, so what is taken from a pool was in it. *)
LEMMA MinIn ==
    ASSUME NEW S \in SUBSET Nat, S # {}
    PROVE  Min(S) \in S
<1>1. \E m \in S : \A n \in S : m <= n
  BY LeastNatural
<1> QED BY <1>1, Zenon DEF Min

(* Quotient and remainder are the only ones. *)
LEMMA DivUnique ==
    ASSUME NEW b \in Nat \ {0}, NEW q \in Nat, NEW r \in 0..(b - 1)
    PROVE  (b * q + r) \div b = q /\ (b * q + r) % b = r
<1>1. b * q \in Nat
  OBVIOUS
<1> DEFINE a == b * q + r
           d == a \div b
           e == a % b
<1>2. a \in Nat /\ d \in Nat /\ e \in 0..(b - 1) /\ a = b * d + e
  BY <1>1
<1>3. b * q + r = b * d + e
  BY <1>2
<1> HIDE DEF a, d, e
<1>4. ~(q < d)
  <2> SUFFICES ASSUME q < d PROVE FALSE
    OBVIOUS
  <2>1. b * d >= b * (q + 1)
    BY <1>2
  <2>2. b * (q + 1) = b * q + b
    OBVIOUS
  <2> QED BY <1>1, <1>2, <1>3, <2>1, <2>2
<1>5. ~(d < q)
  <2> SUFFICES ASSUME d < q PROVE FALSE
    OBVIOUS
  <2>1. b * q >= b * (d + 1)
    BY <1>2
  <2>2. b * (d + 1) = b * d + b
    BY <1>2
  <2>3. b * d \in Nat
    BY <1>2
  <2> QED BY <1>1, <1>2, <1>3, <2>1, <2>2, <2>3
<1>6. d = q
  BY <1>2, <1>4, <1>5
<1>7. e = r
  BY <1>1, <1>2, <1>3, <1>6
<1> QED BY <1>6, <1>7 DEF a, d, e

(* Dividing twice divides by the product. *)
LEMMA DivDiv ==
    ASSUME NEW a \in Nat, NEW b \in Nat \ {0}, NEW c \in Nat \ {0}
    PROVE  a \div (b * c) = (a \div b) \div c
<1> DEFINE q == a \div b
           r == a % b
           s == q \div c
           t == q % c
<1>1. q \in Nat /\ r \in 0..(b - 1) /\ a = b * q + r
  OBVIOUS
<1>2. s \in Nat /\ t \in 0..(c - 1) /\ q = c * s + t
  BY <1>1
<1> HIDE DEF q, r, s, t
<1>3. a = (b * c) * s + (b * t + r)
  BY <1>1, <1>2
<1>4. b * c \in Nat \ {0} /\ b * t + r \in 0..(b * c - 1)
  <2>1. b * t <= b * (c - 1) /\ b * t \in Nat
    BY <1>2
  <2>2. b * (c - 1) = b * c - b
    OBVIOUS
  <2>3. b * c \in Nat \ {0}
    OBVIOUS
  <2> QED BY <1>1, <2>1, <2>2, <2>3
<1> DEFINE bc == b * c
           x == b * t + r
<1>5. bc \in Nat \ {0} /\ x \in 0..(bc - 1) /\ a = bc * s + x
  BY <1>3, <1>4
<1> HIDE DEF bc, x
<1>6. a \div bc = s
  BY <1>2, <1>5, DivUnique
<1> QED BY <1>6 DEF bc, s, q

(* The constants. *)
LEMMA Sizes ==
    /\ Fan \in Nat \ {0, 1}
    /\ Span[1] = 1 /\ Span[2] = Fan /\ Span[3] = Fan * Fan /\ Span[4] = Fan * Fan * Fan
    /\ \A k \in 1..4 : Span[k] \in Nat \ {0}
    /\ \A v \in VirtPages : v \in Nat
<1>1. Fan \in Nat \ {0, 1}
  BY PageTablesAssumption
<1>2. Span[1] = 1 /\ Span[2] = Fan /\ Span[3] = Fan * Fan /\ Span[4] = Fan * Fan * Fan
  BY DEF Span
<1>3. Fan * Fan \in Nat \ {0}
  BY <1>1
<1>4. Fan * Fan * Fan \in Nat \ {0}
  BY <1>1, <1>3
<1>5. \A k \in 1..4 : k = 1 \/ k = 2 \/ k = 3 \/ k = 4
  OBVIOUS
<1>6. \A k \in 1..4 : Span[k] \in Nat \ {0}
  BY <1>1, <1>2, <1>3, <1>4, <1>5
<1>7. \A v \in VirtPages : v \in Nat
  BY DEF VirtPages
<1> QED BY <1>1, <1>2, <1>6, <1>7

(* An index is one of a table. *)
LEMMA AtIndex ==
    ASSUME NEW v \in Nat, NEW k \in 1..4
    PROVE  At(v, k) \in Index
<1>1. Span[k] \in Nat \ {0} /\ Fan \in Nat \ {0}
  BY Sizes
<1> DEFINE s == Span[k]
<1>2. v \div s \in Nat
  BY <1>1
<1> QED BY <1>1, <1>2 DEF At, Index

(* The indices of a page are its digits. *)
LEMMA AtDigits ==
    ASSUME NEW v \in VirtPages
    PROVE  /\ v = Fan * (v \div Fan) + At(v, 1) /\ v \div Fan \in Nat
           /\ v \div Fan = Fan * (v \div (Fan * Fan)) + At(v, 2)
           /\ v \div (Fan * Fan) = Fan * At(v, 4) + At(v, 3)
           /\ At(v, 4) = v \div (Fan * Fan * Fan)
<1> DEFINE a == v \div Fan
           b == v \div (Fan * Fan)
           c == v \div (Fan * Fan * Fan)
<1>1. Fan \in Nat \ {0, 1} /\ v \in Nat /\ Fan * Fan \in Nat \ {0} /\ Fan * Fan * Fan \in Nat \ {0}
  BY Sizes
<1>0. Fan \in Nat \ {0}
  BY <1>1
<1>2. b = a \div Fan
  BY <1>0, <1>1, DivDiv, Zenon
<1>3. c = b \div Fan
  BY <1>0, <1>1, DivDiv, Zenon
<1>4. a \in Nat /\ v = Fan * a + (v % Fan)
  BY <1>1
<1>5. b \in Nat /\ a = Fan * b + (a % Fan)
  BY <1>1, <1>2, <1>4
<1>6. c \in Nat /\ b = Fan * c + (b % Fan)
  BY <1>1, <1>3, <1>5
<1>7. c < Fan
  <2>1. v < Fan * (Fan * Fan * Fan)
    BY <1>1, Sizes DEF VirtPages
  <2> DEFINE s == Fan * Fan * Fan
  <2>2. v = s * c + (v % s) /\ v % s >= 0 /\ s \in Nat
    BY <1>1
  <2> HIDE DEF s, c
  <2>3. c >= Fan => s * c >= s * Fan
    BY <1>1, <1>6, <2>2
  <2>4. s * Fan = Fan * s
    BY <1>1, <2>2
  <2>5. v < Fan * s /\ v % s \in Nat /\ s * c \in Nat /\ s * Fan \in Nat
    BY <1>1, <1>6, <2>1, <2>2 DEF s
  <2> QED BY <1>1, <1>6, <2>2, <2>3, <2>4, <2>5
<1>8. At(v, 1) = v % Fan
  BY <1>1, Sizes DEF At
<1>9. At(v, 2) = a % Fan
  BY Sizes DEF At
<1>10. At(v, 3) = b % Fan
  BY Sizes DEF At
<1>11. At(v, 4) = c % Fan
  BY Sizes DEF At
<1>12. c % Fan = c
  BY <1>1, <1>6, <1>7
<1> QED BY <1>4, <1>5, <1>6, <1>8, <1>9, <1>10, <1>11, <1>12

(* So two pages with the same indices are one, and two that differ in the    *)
(* last only lie in one large page.                                          *)
LEMMA SameDigits ==
    ASSUME NEW u \in VirtPages, NEW v \in VirtPages,
           At(u, 4) = At(v, 4), At(u, 3) = At(v, 3), At(u, 2) = At(v, 2)
    PROVE  /\ u \div Fan = v \div Fan
           /\ At(u, 1) = At(v, 1) => u = v
<1>1. u \div (Fan * Fan) = v \div (Fan * Fan)
  BY AtDigits
<1>2. u \div Fan = v \div Fan
  BY <1>1, AtDigits
<1> QED BY <1>2, AtDigits

-----------------------------------------------------------------------------
(* Trees of tables.                                                        *)

(* Below finds the next level. *)
LEMMA BelowIs ==
    ASSUME NEW m, NEW A, NEW r, Tree(m, A, r), NEW k \in 2..4
    PROVE  Below(A[k], m) = A[k - 1]
<1>1. ASSUME NEW f \in Below(A[k], m) PROVE f \in A[k - 1]
  <2>1. PICK x \in Links(A[k], m) : f = m[x[1]][x[2]].frame
    BY <1>1 DEF Below
  <2>2. x[1] \in A[k] /\ x[2] \in Index /\ IsLink(m[x[1]][x[2]])
    BY <2>1 DEF Links, IsLink
  <2> QED BY <2>1, <2>2 DEF Tree
<1>2. ASSUME NEW f \in A[k - 1] PROVE f \in Below(A[k], m)
  <2>1. PICK t \in A[k], i \in Index : IsLink(m[t][i]) /\ m[t][i].frame = f
    BY <1>2 DEF Tree
  <2>2. <<t, i>> \in Links(A[k], m)
    BY <2>1 DEF Links, IsLink
  <2> QED BY <2>1, <2>2 DEF Below
<1> QED BY <1>1, <1>2

(* So the levels of a tree are those that are found. *)
LEMMA LevelsAre ==
    ASSUME NEW m, NEW A, NEW r, Tree(m, A, r)
    PROVE  /\ LevelsOf(m, r) = A
           /\ Below({r}, m) = A[3] /\ Below(A[3], m) = A[2] /\ Below(A[2], m) = A[1]
<1>1. A[4] = {r} /\ A = [k \in 1..4 |-> A[k]]
  BY DEF Tree
<1>2. Below(A[4], m) = A[3] /\ Below(A[3], m) = A[2] /\ Below(A[2], m) = A[1]
  <2>1. Below(A[4], m) = A[4 - 1] /\ Below(A[3], m) = A[3 - 1] /\ Below(A[2], m) = A[2 - 1]
    BY BelowIs
  <2> QED BY <2>1
<1>3. LevelsOf(m, r) = [k \in 1..4 |-> IF k = 4 THEN A[4] ELSE IF k = 3 THEN A[3] ELSE IF k = 2 THEN A[2] ELSE A[1]]
  BY <1>1, <1>2, Zenon DEF LevelsOf
<1>4. \A k \in 1..4 : k = 1 \/ k = 2 \/ k = 3 \/ k = 4
  OBVIOUS
<1> QED BY <1>1, <1>2, <1>3, <1>4

(* Tables of a tree are of one level. *)
LEMMA LevelsApart ==
    ASSUME NEW m, NEW A, NEW r, Tree(m, A, r)
    PROVE  /\ A[4] \cap A[3] = {} /\ A[4] \cap A[2] = {} /\ A[4] \cap A[1] = {}
           /\ A[3] \cap A[2] = {} /\ A[3] \cap A[1] = {} /\ A[2] \cap A[1] = {}
           /\ \A k \in 1..4 : A[k] \subseteq All(A)
           /\ All(A) \subseteq Frames /\ r \in A[4] /\ r \in All(A)
           /\ A[1] \subseteq Frames /\ A[2] \subseteq Frames /\ A[3] \subseteq Frames
<1>1. \A k \in 1..4 : k = 1 \/ k = 2 \/ k = 3 \/ k = 4
  OBVIOUS
<1> QED BY <1>1 DEF Tree, All

(* The way to a page goes down the levels. *)
LEMMA PathIn ==
    ASSUME NEW m, NEW A, NEW r, Tree(m, A, r), NEW v \in VirtPages
    PROVE  /\ r \in A[4] /\ ~E4(m, r, v).huge
           /\ \A k \in 1..4 : At(v, k) \in Index
           /\ E4(m, r, v).present => IsLink(E4(m, r, v)) /\ E4(m, r, v).frame \in A[3]
           /\ E4(m, r, v).present /\ IsLink(E3(m, r, v)) => E3(m, r, v).frame \in A[2]
           /\ E4(m, r, v).present /\ IsLink(E3(m, r, v)) /\ IsLink(E2(m, r, v))
                  => E2(m, r, v).frame \in A[1]
<1>1. \A k \in 1..4 : At(v, k) \in Index
  BY AtIndex, Sizes
<1>2. r \in A[4] /\ ~E4(m, r, v).huge
  BY <1>1 DEF Tree, E4
<1>3. \A k \in 2..4 : \A t \in A[k], i \in Index :
          IsLink(m[t][i]) => m[t][i].frame \in A[k - 1]
  BY DEF Tree
<1>4. /\ \A t \in A[4], i \in Index : IsLink(m[t][i]) => m[t][i].frame \in A[3]
      /\ \A t \in A[3], i \in Index : IsLink(m[t][i]) => m[t][i].frame \in A[2]
      /\ \A t \in A[2], i \in Index : IsLink(m[t][i]) => m[t][i].frame \in A[1]
  <2>1. 4 \in 2..4 /\ 3 \in 2..4 /\ 2 \in 2..4 /\ 4 - 1 = 3 /\ 3 - 1 = 2 /\ 2 - 1 = 1
    OBVIOUS
  <2> HIDE DEF IsLink
  <2> QED BY <1>3, <2>1
<1>5. E4(m, r, v).present => IsLink(E4(m, r, v)) /\ E4(m, r, v).frame \in A[3]
  BY <1>1, <1>2, <1>4 DEF IsLink, E4
<1>6. E4(m, r, v).present /\ IsLink(E3(m, r, v)) => E3(m, r, v).frame \in A[2]
  BY <1>1, <1>4, <1>5 DEF E3
<1>7. E4(m, r, v).present /\ IsLink(E3(m, r, v)) /\ IsLink(E2(m, r, v))
          => E2(m, r, v).frame \in A[1]
  BY <1>1, <1>4, <1>6 DEF E2
<1> QED BY <1>1, <1>2, <1>5, <1>6, <1>7

(* Two pages whose ways meet have the indices above in common. *)
LEMMA PathsMeet ==
    ASSUME NEW m, NEW A, NEW r, Tree(m, A, r), NEW u \in VirtPages, NEW v \in VirtPages, NEW t
    PROVE  /\ Reach(m, r, u, 2, t) /\ Reach(m, r, v, 2, t)
                  => At(u, 4) = At(v, 4) /\ At(u, 3) = At(v, 3)
           /\ Reach(m, r, u, 1, t) /\ Reach(m, r, v, 1, t)
                  => At(u, 4) = At(v, 4) /\ At(u, 3) = At(v, 3) /\ At(u, 2) = At(v, 2)
<1> DEFINE Same(x, y, i, j) == IsLink(m[x][i]) /\ IsLink(m[y][j]) /\ m[x][i].frame = m[y][j].frame
<1>1. /\ \A x, y \in A[4], i, j \in Index : Same(x, y, i, j) => x = y /\ i = j
      /\ \A x, y \in A[3], i, j \in Index : Same(x, y, i, j) => x = y /\ i = j
      /\ \A x, y \in A[2], i, j \in Index : Same(x, y, i, j) => x = y /\ i = j
  <2>1. 4 \in 2..4 /\ 3 \in 2..4 /\ 2 \in 2..4
    OBVIOUS
  <2> QED BY <2>1, Zenon DEF Tree
<1> HIDE DEF Same
<1>2. \A k \in 1..4 : At(u, k) \in Index /\ At(v, k) \in Index
  BY PathIn
<1>3. ASSUME E4(m, r, u).frame = E4(m, r, v).frame, IsLink(E4(m, r, u)), IsLink(E4(m, r, v))
      PROVE  At(u, 4) = At(v, 4)
  BY <1>1, <1>2, <1>3, PathIn DEF Same, E4
<1>4. ASSUME E3(m, r, u).frame = E3(m, r, v).frame, IsLink(E4(m, r, u)), IsLink(E4(m, r, v)),
             IsLink(E3(m, r, u)), IsLink(E3(m, r, v))
      PROVE  At(u, 4) = At(v, 4) /\ At(u, 3) = At(v, 3)
  <2>1. E4(m, r, u).frame \in A[3] /\ E4(m, r, v).frame \in A[3]
    BY <1>4, PathIn DEF IsLink
  <2>2. E4(m, r, u).frame = E4(m, r, v).frame /\ At(u, 3) = At(v, 3)
    BY <1>1, <1>2, <1>4, <2>1 DEF Same, E3
  <2> QED BY <1>3, <1>4, <2>2
<1>5. ASSUME E2(m, r, u).frame = E2(m, r, v).frame, IsLink(E4(m, r, u)), IsLink(E4(m, r, v)),
             IsLink(E3(m, r, u)), IsLink(E3(m, r, v)), IsLink(E2(m, r, u)), IsLink(E2(m, r, v))
      PROVE  At(u, 4) = At(v, 4) /\ At(u, 3) = At(v, 3) /\ At(u, 2) = At(v, 2)
  <2>1. E3(m, r, u).frame \in A[2] /\ E3(m, r, v).frame \in A[2]
    BY <1>5, PathIn DEF IsLink
  <2>2. E3(m, r, u).frame = E3(m, r, v).frame /\ At(u, 2) = At(v, 2)
    BY <1>1, <1>2, <1>5, <2>1 DEF Same, E2
  <2> QED BY <1>4, <1>5, <2>2
<1> QED BY <1>4, <1>5 DEF Reach

(* The table reached at level k is one of level k. *)
LEMMA ReachIn ==
    ASSUME NEW m, NEW A, NEW r, Tree(m, A, r), NEW v \in VirtPages, NEW k \in 1..4, NEW t,
           Reach(m, r, v, k, t)
    PROVE  t \in A[k] /\ At(v, k) \in Index
<1>1. IsLink(E4(m, r, v)) => E4(m, r, v).present
  BY DEF IsLink
<1> QED BY <1>1, PathIn DEF Reach

(* The conjuncts of Tree, to be cited one by one. *)
LEMMA TreeFacts ==
    ASSUME NEW m, NEW A, NEW r, Tree(m, A, r)
    PROVE  /\ m \in Mems /\ A \in [1..4 -> SUBSET Frames] /\ A[4] = {r}
           /\ \A k \in 2..4 : \A t \in A[k], i \in Index :
                  IsLink(m[t][i]) => m[t][i].frame \in A[k - 1]
           /\ \A k \in 2..4 : \A f \in A[k - 1] :
                  \E t \in A[k], i \in Index : IsLink(m[t][i]) /\ m[t][i].frame = f
           /\ \A j, k \in 1..4 : j # k => A[j] \cap A[k] = {}
           /\ \A k \in 2..4 : \A t, u \in A[k], i, j \in Index :
                  IsLink(m[t][i]) /\ IsLink(m[u][j]) /\ m[t][i].frame = m[u][j].frame
                      => t = u /\ i = j
           /\ \A t \in A[4] \cup A[1], i \in Index : ~m[t][i].huge
  BY Zenon DEF Tree

(* A new table under an entry that was not present makes a larger tree. *)
LEMMA GrowTree ==
    ASSUME NEW m, NEW A, NEW r, Tree(m, A, r), NEW k, NEW t, NEW i, NEW f, NEW n, NEW B,
           Grows(m, A, k, t, i, f, n, B)
    PROVE  /\ Tree(n, B, r) /\ All(B) = All(A) \cup {f} /\ f \in B[k - 1]
           /\ k > 2 => B[1] = A[1]
           /\ \A l \in 1..4 : A[l] \subseteq B[l] /\ B[l] \subseteq A[l] \cup {f}
<1>1. /\ k \in 2..4 /\ t \in A[k] /\ i \in Index /\ ~m[t][i].present
      /\ f \in Frames /\ f \notin All(A) /\ n \in Mems
  BY DEF Grows
<1>2. /\ A \in [1..4 -> SUBSET Frames]
      /\ \A l \in 1..4 : A[l] \subseteq All(A)
      /\ All(A) \subseteq Frames /\ f \notin All(A)
  BY <1>1, LevelsApart, TreeFacts
<1>3. /\ B \in [1..4 -> SUBSET Frames] /\ B[k - 1] = A[k - 1] \cup {f}
      /\ \A l \in 1..4 : l # k - 1 => B[l] = A[l]
  <2>1. k - 1 \in 1..4 /\ B = [A EXCEPT ![k - 1] = A[k - 1] \cup {f}]
    BY <1>1 DEF Grows
  <2> QED BY <1>1, <1>2, <2>1
<1>4. All(B) = All(A) \cup {f}
  <2>1. k - 1 = 1 \/ k - 1 = 2 \/ k - 1 = 3
    BY <1>1
  <2> QED BY <1>3, <2>1 DEF All
<1>5. t \in All(A) /\ t # f /\ k - 1 \in 1..4 /\ k \in 1..4 /\ k # k - 1
  BY <1>1, <1>2
<1>6. /\ IsLink(n[t][i]) /\ n[t][i].frame = f /\ ~n[t][i].huge /\ ~IsLink(m[t][i])
      /\ \A j \in Index : ~IsLink(n[f][j]) /\ ~n[f][j].huge
  BY <1>1 DEF Grows, IsLink, Leaf, NotPresent
<1>7. \A x \in All(A), j \in Index : ~(x = t /\ j = i) => n[x][j] = m[x][j]
  BY <1>2 DEF Grows
<1> DEFINE Old(x, j) == x \in All(A) /\ IsLink(m[x][j]) /\ n[x][j] = m[x][j]
<1>8. \A x \in All(B), j \in Index : IsLink(n[x][j]) => (x = t /\ j = i) \/ Old(x, j)
  BY <1>4, <1>6, <1>7
<1>9. \A x \in All(A), j \in Index : IsLink(m[x][j]) => n[x][j] = m[x][j]
  BY <1>6, <1>7
<1> HIDE DEF Old
<1>10. \A l \in 1..4 : \A x \in B[l] : x \in All(B) /\ (x \in All(A) => x \in A[l]) /\ (x = t => l = k)
  <2> TAKE l \in 1..4
  <2> TAKE x \in B[l]
  <2>1. x \in A[l] \/ x = f
    BY <1>3
  <2>2. x \in All(B)
    BY <1>2, <1>4, <2>1
  <2>3. x \in All(A) => x \in A[l]
    BY <1>2, <2>1
  <2>4. x = t => l = k
    BY <1>1, <1>5, <2>3, TreeFacts
  <2> QED BY <2>2, <2>3, <2>4
<1>11. \A l \in 1..4 : A[l] \subseteq B[l] /\ B[l] \subseteq A[l] \cup {f}
  BY <1>3
<1>12. \A l \in 2..4 : l \in 1..4 /\ l - 1 \in 1..4
  OBVIOUS
<1>13. B[4] = {r}
  BY <1>1, <1>3, TreeFacts
<1>14. ASSUME NEW l \in 2..4, NEW x \in B[l], NEW j \in Index, IsLink(n[x][j])
       PROVE  /\ n[x][j].frame \in B[l - 1]
              /\ (x = t /\ j = i /\ l = k) \/ (Old(x, j) /\ x \in A[l] /\ n[x][j].frame \in A[l - 1])
  <2>1. CASE x = t /\ j = i
    BY <1>3, <1>6, <1>10, <1>12, <2>1
  <2>2. CASE Old(x, j)
    <3>1. x \in A[l] /\ IsLink(m[x][j]) /\ n[x][j] = m[x][j]
      BY <1>10, <1>12, <2>2 DEF Old
    <3>2. n[x][j].frame \in A[l - 1]
      BY <3>1, TreeFacts
    <3> QED BY <1>11, <1>12, <2>2, <3>1, <3>2
  <2> QED BY <1>8, <1>10, <1>12, <1>14, <2>1, <2>2
<1>15. ASSUME NEW l \in 2..4, NEW g \in B[l - 1]
       PROVE  \E x \in B[l], j \in Index : IsLink(n[x][j]) /\ n[x][j].frame = g
  <2>1. CASE g \in A[l - 1]
    <3>1. PICK x \in A[l], j \in Index : IsLink(m[x][j]) /\ m[x][j].frame = g
      BY <2>1, TreeFacts
    <3>2. x \in B[l] /\ n[x][j] = m[x][j]
      BY <1>2, <1>9, <1>11, <1>12, <3>1
    <3> QED BY <3>1, <3>2
  <2>2. CASE g \notin A[l - 1]
    <3>1. g = f /\ l = k
      BY <1>1, <1>3, <1>12, <2>2
    <3>2. t \in B[k]
      BY <1>1, <1>5, <1>11
    <3> QED BY <1>1, <1>6, <3>1, <3>2
  <2> QED BY <2>1, <2>2
<1>16. ASSUME NEW l \in 1..4, NEW j \in 1..4, l # j PROVE B[l] \cap B[j] = {}
  BY <1>2, <1>3, <1>16, TreeFacts, SMTT(30)
<1>17. ASSUME NEW l \in 2..4, NEW x \in B[l], NEW y \in B[l], NEW a \in Index, NEW b \in Index,
              IsLink(n[x][a]), IsLink(n[y][b]), n[x][a].frame = n[y][b].frame
       PROVE  x = y /\ a = b
  <2>1. CASE Old(x, a) /\ Old(y, b) /\ x \in A[l] /\ y \in A[l]
    <3>1. IsLink(m[x][a]) /\ IsLink(m[y][b]) /\ m[x][a].frame = m[y][b].frame
      BY <1>17, <2>1 DEF Old
    <3> QED BY <2>1, <3>1, TreeFacts
  <2>2. CASE x = t /\ a = i /\ n[y][b].frame \in A[l - 1]
    BY <1>2, <1>6, <1>12, <1>17, <2>2
  <2>3. CASE y = t /\ b = i /\ n[x][a].frame \in A[l - 1]
    BY <1>2, <1>6, <1>12, <1>17, <2>3
  <2> QED BY <1>14, <1>17, <2>1, <2>2, <2>3
<1>18. ASSUME NEW x \in B[4] \cup B[1], NEW j \in Index PROVE ~n[x][j].huge
  <2>1. x = f \/ x \in A[4] \cup A[1]
    BY <1>11
  <2>2. CASE x \in A[4] \cup A[1]
    BY <1>2, <1>6, <1>7, <2>2, TreeFacts
  <2> QED BY <1>6, <2>1, <2>2
<1>19. Tree(n, B, r)
  BY <1>1, <1>3, <1>13, <1>14, <1>15, <1>16, <1>17, <1>18 DEF Tree
<1>20. k > 2 => B[1] = A[1]
  BY <1>1, <1>3
<1> QED BY <1>3, <1>4, <1>11, <1>19, <1>20

(* What the entries on the way to a page say of it. *)
LEMMA LookupIs ==
    ASSUME NEW m, NEW r, NEW v
    PROVE  /\ Lookup(m, r, v) =
                 IF ~E4(m, r, v).present \/ ~E3(m, r, v).present THEN NotPresent
                 ELSE IF E3(m, r, v).huge
                      THEN Leaf(E3(m, r, v).frame + At(v, 2) * Fan + At(v, 1), E3(m, r, v).prot)
                 ELSE IF ~E2(m, r, v).present THEN NotPresent
                 ELSE IF E2(m, r, v).huge
                      THEN Leaf(E2(m, r, v).frame + At(v, 1), E2(m, r, v).prot)
                 ELSE IF E1(m, r, v).present THEN E1(m, r, v) ELSE NotPresent
           /\ NotLarge(m, r, v) <=>
                 (E4(m, r, v).present /\ E3(m, r, v).present
                      => ~E3(m, r, v).huge /\ (E2(m, r, v).present => ~E2(m, r, v).huge))
  BY Zenon DEF Lookup, NotLarge, E4, E3, E2, E1

(* An entry is read from a table that the new one does not replace. *)
LEMMA GrowEntries ==
    ASSUME NEW m, NEW A, NEW r, Tree(m, A, r), NEW k, NEW t, NEW i, NEW f, NEW n, NEW B,
           Grows(m, A, k, t, i, f, n, B), NEW u \in VirtPages
    PROVE  /\ IF k = 4 /\ At(u, 4) = i THEN E4(n, r, u) = Leaf(f, "table") /\ ~E4(m, r, u).present
              ELSE E4(n, r, u) = E4(m, r, u)
           /\ E4(m, r, u).present =>
                 IF k = 3 /\ E4(m, r, u).frame = t /\ At(u, 3) = i
                 THEN E3(n, r, u) = Leaf(f, "table") /\ ~E3(m, r, u).present
                 ELSE E3(n, r, u) = E3(m, r, u)
           /\ E4(m, r, u).present /\ IsLink(E3(m, r, u)) =>
                 IF k = 2 /\ E3(m, r, u).frame = t /\ At(u, 2) = i
                 THEN E2(n, r, u) = Leaf(f, "table") /\ ~E2(m, r, u).present
                 ELSE E2(n, r, u) = E2(m, r, u)
           /\ E4(m, r, u).present /\ IsLink(E3(m, r, u)) /\ IsLink(E2(m, r, u)) =>
                 E1(n, r, u) = E1(m, r, u)
           /\ E4(n, r, u).frame = f => ~E3(n, r, u).present
           /\ E3(n, r, u).frame = f => ~E2(n, r, u).present
           /\ E2(n, r, u).frame = f => ~E1(n, r, u).present
<1>1. /\ k \in 2..4 /\ t \in A[k] /\ i \in Index /\ ~m[t][i].present
      /\ f \in Frames /\ f \notin All(A) /\ n[t][i] = Leaf(f, "table")
      /\ \A j \in Index : ~n[f][j].present
  BY DEF Grows, NotPresent
<1>2. \A x \in All(A), j \in Index : ~(x = t /\ j = i) => n[x][j] = m[x][j]
  BY <1>1, LevelsApart DEF Grows
<1>3. /\ A[4] \subseteq All(A) /\ A[3] \subseteq All(A) /\ A[2] \subseteq All(A) /\ A[1] \subseteq All(A)
      /\ \A x \in A[4] : x = t => k = 4 
      /\ \A x \in A[3] : x = t => k = 3
      /\ \A x \in A[2] : x = t => k = 2
      /\ \A x \in A[1] : x # t
  <2>1. k = 2 \/ k = 3 \/ k = 4
    BY <1>1
  <2> QED BY <1>1, <2>1, LevelsApart
<1>4. At(u, 4) \in Index /\ At(u, 3) \in Index /\ At(u, 2) \in Index /\ At(u, 1) \in Index
  BY PathIn
<1>5. k = 4 => t = r
  BY <1>1, TreeFacts
<1> DEFINE e4 == E4(m, r, u)
           e3 == E3(m, r, u)
           e2 == E2(m, r, u)
<1>6. /\ r \in A[4]
      /\ e4.present => e4.frame \in A[3]
      /\ e4.present /\ IsLink(e3) => e3.frame \in A[2]
      /\ e4.present /\ IsLink(e3) /\ IsLink(e2) => e2.frame \in A[1]
  BY PathIn
<1>7. IF k = 4 /\ At(u, 4) = i THEN E4(n, r, u) = Leaf(f, "table") /\ ~E4(m, r, u).present
              ELSE E4(n, r, u) = E4(m, r, u)
  BY <1>1, <1>2, <1>3, <1>4, <1>5, <1>6 DEF E4
<1>8. e4.present => E4(n, r, u) = e4
  BY <1>7
<1>9. e4.present => IF k = 3 /\ e4.frame = t /\ At(u, 3) = i
                    THEN E3(n, r, u) = Leaf(f, "table") /\ ~e3.present
                    ELSE E3(n, r, u) = e3
  <2> SUFFICES ASSUME e4.present
               PROVE  IF k = 3 /\ e4.frame = t /\ At(u, 3) = i
                      THEN E3(n, r, u) = Leaf(f, "table") /\ ~e3.present
                      ELSE E3(n, r, u) = e3
    OBVIOUS
  <2>1. E3(n, r, u) = n[e4.frame][At(u, 3)] /\ e3 = m[e4.frame][At(u, 3)] /\ e4.frame \in A[3]
    BY <1>6, <1>8 DEF E3
  <2> HIDE DEF e4, e3
  <2> QED BY <1>1, <1>2, <1>3, <1>4, <2>1
<1>10. IsLink(e3) => e3.present
  BY DEF IsLink
<1>11. e4.present /\ IsLink(e3) => IF k = 2 /\ e3.frame = t /\ At(u, 2) = i
                                   THEN E2(n, r, u) = Leaf(f, "table") /\ ~e2.present
                                   ELSE E2(n, r, u) = e2
  <2> SUFFICES ASSUME e4.present, IsLink(e3)
               PROVE  IF k = 2 /\ e3.frame = t /\ At(u, 2) = i
                      THEN E2(n, r, u) = Leaf(f, "table") /\ ~e2.present
                      ELSE E2(n, r, u) = e2
    OBVIOUS
  <2>1. E3(n, r, u) = e3
    BY <1>9, <1>10
  <2>2. E2(n, r, u) = n[e3.frame][At(u, 2)] /\ e2 = m[e3.frame][At(u, 2)] /\ e3.frame \in A[2]
    BY <1>6, <2>1 DEF E2
  <2> HIDE DEF e4, e3, e2
  <2> QED BY <1>1, <1>2, <1>3, <1>4, <2>2
<1>12. e4.present /\ IsLink(e3) /\ IsLink(e2) => E1(n, r, u) = E1(m, r, u)
  <2> SUFFICES ASSUME e4.present, IsLink(e3), IsLink(e2)
               PROVE  E1(n, r, u) = E1(m, r, u)
    OBVIOUS
  <2>1. E2(n, r, u) = e2
    BY <1>11 DEF IsLink
  <2>2. E1(n, r, u) = n[e2.frame][At(u, 1)] /\ E1(m, r, u) = m[e2.frame][At(u, 1)] /\ e2.frame \in A[1]
    BY <1>6, <2>1 DEF E1
  <2> HIDE DEF e4, e3, e2
  <2> QED BY <1>2, <1>3, <1>4, <2>2
<1>13. /\ E4(n, r, u).frame = f => ~E3(n, r, u).present
       /\ E3(n, r, u).frame = f => ~E2(n, r, u).present
       /\ E2(n, r, u).frame = f => ~E1(n, r, u).present
  BY <1>1, <1>4 DEF E3, E2, E1
<1> QED BY <1>7, <1>9, <1>11, <1>12, <1>13

(* It changes no translation, and no page comes to lie in a large page. *)
LEMMA GrowLookup ==
    ASSUME NEW m, NEW A, NEW r, Tree(m, A, r), NEW k, NEW t, NEW i, NEW f, NEW n, NEW B,
           Grows(m, A, k, t, i, f, n, B), NEW u \in VirtPages
    PROVE  /\ Lookup(n, r, u) = Lookup(m, r, u)
           /\ NotLarge(m, r, u) => NotLarge(n, r, u)
<1>1. Leaf(f, "table").present /\ ~Leaf(f, "table").huge /\ Leaf(f, "table").frame = f
  BY DEF Leaf
<1>2. ~E4(m, r, u).huge
  BY PathIn
<1> QED BY <1>1, <1>2, GrowEntries, LookupIs DEF IsLink

(* The way goes on to the new table. *)
LEMMA GrowReach ==
    ASSUME NEW m, NEW A, NEW r, Tree(m, A, r), NEW k, NEW t, NEW i, NEW f, NEW n, NEW B,
           Grows(m, A, k, t, i, f, n, B), NEW v \in VirtPages, Reach(m, r, v, k, t), i = At(v, k)
    PROVE  Reach(n, r, v, k - 1, f)
<1>1. Leaf(f, "table").present /\ ~Leaf(f, "table").huge /\ Leaf(f, "table").frame = f
  BY DEF Leaf
<1>2. k = 2 \/ k = 3 \/ k = 4
  BY DEF Grows
<1>3. ~E4(m, r, v).huge
  BY PathIn
<1> QED BY <1>1, <1>2, <1>3, GrowEntries DEF Reach, IsLink

(* Pages of one large page have the indices above the last in common. *)
LEMMA SameLarge ==
    ASSUME NEW u \in VirtPages, NEW v \in VirtPages, u \div Fan = v \div Fan
    PROVE  At(u, 4) = At(v, 4) /\ At(u, 3) = At(v, 3) /\ At(u, 2) = At(v, 2)
<1>1. Fan \in Nat \ {0} /\ u \in Nat /\ v \in Nat /\ Fan * Fan \in Nat \ {0}
  BY Sizes
<1>2. u \div (Fan * Fan) = v \div (Fan * Fan)
  <2>1. u \div (Fan * Fan) = (u \div Fan) \div Fan
    BY <1>1, DivDiv, Zenon
  <2>2. v \div (Fan * Fan) = (v \div Fan) \div Fan
    BY <1>1, DivDiv, Zenon
  <2> QED BY <2>1, <2>2
<1>3. u \div (Fan * Fan * Fan) = v \div (Fan * Fan * Fan)
  <2>1. u \div (Fan * Fan * Fan) = (u \div (Fan * Fan)) \div Fan
    BY <1>1, DivDiv, Zenon
  <2>2. v \div (Fan * Fan * Fan) = (v \div (Fan * Fan)) \div Fan
    BY <1>1, DivDiv, Zenon
  <2> QED BY <1>2, <2>1, <2>2
<1> QED BY <1>2, <1>3, Sizes, Zenon DEF At

(* A tree stays one when an entry changes that leads to no table, before and *)
(* after.                                                                    *)
LEMMA WriteTree ==
    ASSUME NEW m, NEW A, NEW r, Tree(m, A, r), NEW t, NEW i, NEW e, NEW n, Writes(m, t, i, e, n),
           t \notin A[4], t \in A[1] => ~e.huge,
           t \in A[3] \cup A[2] => ~IsLink(e) /\ ~IsLink(m[t][i])
    PROVE  Tree(n, A, r)
<1>1. n \in Mems /\ A \in [1..4 -> SUBSET Frames] /\ A[4] = {r}
  BY TreeFacts DEF Writes
<1>2. \A k \in 1..4 : A[k] \subseteq Frames
  BY <1>1
<1>3. \A s \in Frames, j \in Index : ~(s = t /\ j = i) => n[s][j] = m[s][j]
  BY DEF Writes
<1>4. n[t][i] = e
  BY DEF Writes
<1>5. ASSUME NEW k \in 2..4, NEW s \in A[k], NEW j \in Index
      PROVE  /\ IsLink(n[s][j]) <=> IsLink(m[s][j])
             /\ IsLink(m[s][j]) => n[s][j] = m[s][j]
  <2>1. CASE s = t /\ j = i
    <3>1. k \in 2..3
      BY <2>1
    <3>2. t \in A[3] \cup A[2]
      BY <2>1, <3>1
    <3> QED BY <1>4, <2>1, <3>2
  <2>2. CASE ~(s = t /\ j = i)
    <3>1. s \in Frames
      BY <1>2
    <3> QED BY <1>3, <2>2, <3>1
  <2> QED BY <2>1, <2>2
<1>6. ASSUME NEW k \in 2..4, NEW s \in A[k], NEW j \in Index, IsLink(n[s][j])
      PROVE  n[s][j].frame \in A[k - 1]
  <2>1. IsLink(m[s][j]) /\ n[s][j] = m[s][j]
    BY <1>5, <1>6
  <2> QED BY <2>1, TreeFacts
<1>7. ASSUME NEW k \in 2..4, NEW f \in A[k - 1]
      PROVE  \E s \in A[k], j \in Index : IsLink(n[s][j]) /\ n[s][j].frame = f
  <2>1. PICK s \in A[k], j \in Index : IsLink(m[s][j]) /\ m[s][j].frame = f
    BY TreeFacts
  <2>2. IsLink(n[s][j]) /\ n[s][j] = m[s][j]
    BY <1>5, <2>1
  <2> QED BY <2>1, <2>2
<1>8. ASSUME NEW k \in 2..4, NEW x \in A[k], NEW y \in A[k], NEW a \in Index, NEW b \in Index,
             IsLink(n[x][a]), IsLink(n[y][b]), n[x][a].frame = n[y][b].frame
      PROVE  x = y /\ a = b
  <2>1. IsLink(m[x][a]) /\ n[x][a] = m[x][a] /\ IsLink(m[y][b]) /\ n[y][b] = m[y][b]
    BY <1>5, <1>8
  <2>2. m[x][a].frame = m[y][b].frame
    BY <1>8, <2>1
  <2> QED BY <2>1, <2>2, TreeFacts
<1>9. ASSUME NEW s \in A[4] \cup A[1], NEW j \in Index PROVE ~n[s][j].huge
  <2>1. s \in Frames
    BY <1>2
  <2>2. ~m[s][j].huge
    BY TreeFacts
  <2> QED BY <1>3, <1>4, <2>1, <2>2
<1>10. \A j, k \in 1..4 : j # k => A[j] \cap A[k] = {}
  BY TreeFacts
<1> QED BY <1>1, <1>6, <1>7, <1>8, <1>9, <1>10 DEF Tree

(* Writing the entry of page v in a table of level 1 changes its translation *)
(* and no other.                                                             *)
LEMMA WriteLeaf ==
    ASSUME NEW m, NEW A, NEW r, Tree(m, A, r), NEW v \in VirtPages, NEW t, Reach(m, r, v, 1, t),
           NEW e, ~e.huge, NEW n, Writes(m, t, At(v, 1), e, n)
    PROVE  /\ Tree(n, A, r)
           /\ \A u \in VirtPages :
                 /\ NotLarge(m, r, u) => NotLarge(n, r, u)
                 /\ u # v => Lookup(n, r, u) = Lookup(m, r, u)
           /\ Lookup(n, r, v) = IF e.present THEN e ELSE NotPresent
<1>1. t \in A[1] /\ t \notin A[4] /\ t \notin A[3] /\ t \notin A[2]
  BY ReachIn, LevelsApart
<1>2. Tree(n, A, r)
  BY <1>1, WriteTree
<1>3. \A x \in A[4] \cup A[3] \cup A[2], j \in Index : n[x][j] = m[x][j]
  BY <1>1, LevelsApart DEF Writes
<1>4. ASSUME NEW u \in VirtPages
      PROVE  /\ E4(n, r, u) = E4(m, r, u)
             /\ E4(m, r, u).present => E3(n, r, u) = E3(m, r, u)
             /\ E4(m, r, u).present /\ IsLink(E3(m, r, u)) => E2(n, r, u) = E2(m, r, u)
  <2>1. At(u, 4) \in Index /\ At(u, 3) \in Index /\ At(u, 2) \in Index
    BY PathIn
  <2>2. E4(n, r, u) = E4(m, r, u)
    BY <1>3, <2>1, PathIn DEF E4
  <2>3. E4(m, r, u).present => E3(n, r, u) = E3(m, r, u)
    BY <1>3, <2>1, <2>2, PathIn DEF E3
  <2>4. E4(m, r, u).present /\ IsLink(E3(m, r, u)) => E2(n, r, u) = E2(m, r, u)
    BY <1>3, <2>1, <2>3, PathIn DEF E2
  <2> QED BY <2>2, <2>3, <2>4
<1>5. ASSUME NEW u \in VirtPages PROVE NotLarge(m, r, u) => NotLarge(n, r, u)
  BY <1>4, LookupIs DEF IsLink
<1>6. ASSUME NEW u \in VirtPages, u # v,
             E4(m, r, u).present, IsLink(E3(m, r, u)), IsLink(E2(m, r, u))
      PROVE  E1(n, r, u) = E1(m, r, u)
  <2>1. Reach(m, r, u, 1, E2(m, r, u).frame)
    BY <1>6, PathIn DEF Reach
  <2>2. E2(m, r, u).frame = t => At(u, 1) # At(v, 1)
    BY <1>6, <2>1, PathsMeet, SameDigits
  <2>3. E2(m, r, u).frame \in Frames /\ At(u, 1) \in Index
    BY <1>6, PathIn, LevelsApart
  <2>4. E2(n, r, u) = E2(m, r, u)
    BY <1>4, <1>6
  <2> QED BY <2>2, <2>3, <2>4 DEF E1, Writes
<1>7. ASSUME NEW u \in VirtPages, u # v PROVE Lookup(n, r, u) = Lookup(m, r, u)
  BY <1>4, <1>6, <1>7, LookupIs DEF IsLink
<1>8. Lookup(n, r, v) = IF e.present THEN e ELSE NotPresent
  <2>1. IsLink(E4(m, r, v)) /\ IsLink(E3(m, r, v)) /\ IsLink(E2(m, r, v)) /\ t = E2(m, r, v).frame
    BY DEF Reach
  <2>2. E4(n, r, v) = E4(m, r, v) /\ E3(n, r, v) = E3(m, r, v) /\ E2(n, r, v) = E2(m, r, v)
    BY <1>4, <2>1 DEF IsLink
  <2>3. E1(n, r, v) = e
    BY <2>1, <2>2 DEF E1, Writes
  <2> QED BY <2>1, <2>2, <2>3, LookupIs DEF IsLink
<1> QED BY <1>2, <1>5, <1>7, <1>8

(* Writing a large page in a table of level 2, none being below, changes the *)
(* translations of its pages and no other.                                   *)
LEMMA WriteLarge ==
    ASSUME NEW m, NEW A, NEW r, Tree(m, A, r), A[1] = {}, NEW v \in VirtPages, NEW t,
           Reach(m, r, v, 2, t), NEW e, e.present, e.huge, NEW n, Writes(m, t, At(v, 2), e, n)
    PROVE  /\ Tree(n, A, r)
           /\ \A u \in VirtPages :
                 IF u \div Fan = v \div Fan THEN Lookup(n, r, u) = Leaf(e.frame + At(u, 1), e.prot)
                 ELSE /\ Lookup(n, r, u) = Lookup(m, r, u)
                      /\ NotLarge(m, r, u) => NotLarge(n, r, u)
<1>1. t \in A[2] /\ t \notin A[4] /\ t \notin A[3] /\ t \notin A[1] /\ At(v, 2) \in Index
  BY ReachIn, LevelsApart
<1>2. \A x \in A[2], j \in Index : ~IsLink(m[x][j])
  <2>1. \A x \in A[2], j \in Index : IsLink(m[x][j]) => m[x][j].frame \in A[2 - 1]
    BY TreeFacts
  <2> QED BY <2>1
<1>3. ~IsLink(e)
  BY DEF IsLink
<1>4. Tree(n, A, r)
  BY <1>1, <1>2, <1>3, WriteTree
<1>5. \A x \in A[4] \cup A[3], j \in Index : n[x][j] = m[x][j]
  BY <1>1, LevelsApart DEF Writes
<1>6. ASSUME NEW u \in VirtPages
      PROVE  /\ E4(n, r, u) = E4(m, r, u)
             /\ E4(m, r, u).present => E3(n, r, u) = E3(m, r, u)
  <2>1. At(u, 4) \in Index /\ At(u, 3) \in Index
    BY PathIn
  <2>2. E4(n, r, u) = E4(m, r, u)
    BY <1>5, <2>1, PathIn DEF E4
  <2>3. E4(m, r, u).present => E3(n, r, u) = E3(m, r, u)
    BY <1>5, <2>1, <2>2, PathIn DEF E3
  <2> QED BY <2>2, <2>3
<1>7. ASSUME NEW u \in VirtPages, u \div Fan # v \div Fan,
             E4(m, r, u).present, IsLink(E3(m, r, u))
      PROVE  E2(n, r, u) = E2(m, r, u)
  <2>1. Reach(m, r, u, 2, E3(m, r, u).frame)
    BY <1>7, PathIn DEF Reach
  <2>2. E3(m, r, u).frame = t => At(u, 2) # At(v, 2)
    BY <1>7, <2>1, PathsMeet, SameDigits
  <2>3. E3(m, r, u).frame \in Frames /\ At(u, 2) \in Index
    BY <1>7, PathIn, LevelsApart
  <2>4. E3(n, r, u) = E3(m, r, u)
    BY <1>6, <1>7
  <2> QED BY <2>2, <2>3, <2>4 DEF E2, Writes
<1>8. ASSUME NEW u \in VirtPages, u \div Fan # v \div Fan
      PROVE  /\ Lookup(n, r, u) = Lookup(m, r, u)
             /\ NotLarge(m, r, u) => NotLarge(n, r, u)
  <2>1. E4(m, r, u).present /\ IsLink(E3(m, r, u)) => ~IsLink(E2(m, r, u)) /\ ~IsLink(E2(n, r, u))
    BY <1>2, <1>7, <1>8, PathIn DEF E2
  <2> QED BY <1>6, <1>7, <1>8, <2>1, LookupIs DEF IsLink
<1>9. ASSUME NEW u \in VirtPages, u \div Fan = v \div Fan
      PROVE  Lookup(n, r, u) = Leaf(e.frame + At(u, 1), e.prot)
  <2>1. At(u, 4) = At(v, 4) /\ At(u, 3) = At(v, 3) /\ At(u, 2) = At(v, 2)
    BY <1>9, SameLarge
  <2>2. E4(m, r, u) = E4(m, r, v) /\ E3(m, r, u) = E3(m, r, v)
    BY <2>1 DEF E4, E3
  <2>3. IsLink(E4(m, r, v)) /\ IsLink(E3(m, r, v)) /\ t = E3(m, r, v).frame
    BY DEF Reach
  <2>4. E4(n, r, u) = E4(m, r, u) /\ E3(n, r, u) = E3(m, r, u)
    BY <1>6, <2>2, <2>3 DEF IsLink
  <2>5. E2(n, r, u) = e
    BY <2>1, <2>2, <2>3, <2>4 DEF E2, Writes
  <2> QED BY <2>2, <2>3, <2>4, <2>5, LookupIs DEF IsLink
<1> QED BY <1>4, <1>8, <1>9

-----------------------------------------------------------------------------
(* Walks.                                                                  *)

(* The entries that are written. *)
LEMMA EntryTypes ==
    /\ NotPresent \in Entries /\ EmptyTable \in [Index -> Entries]
    /\ ~NotPresent.present /\ ~NotPresent.huge /\ NotPresent.prot # "kernel"
    /\ \A f \in Nat, prot \in Prots :
           /\ Leaf(f, prot) \in Entries /\ Huge(f, prot) \in Entries
           /\ Leaf(f, prot).present /\ ~Leaf(f, prot).huge
           /\ Leaf(f, prot).frame = f /\ Leaf(f, prot).prot = prot
           /\ Huge(f, prot).present /\ Huge(f, prot).huge
           /\ Huge(f, prot).frame = f /\ Huge(f, prot).prot = prot
    /\ \A i \in Index : EmptyTable[i] = NotPresent
<1>1. /\ NotPresent \in Entries
      /\ ~NotPresent.present /\ ~NotPresent.huge /\ NotPresent.prot # "kernel"
  BY DEF Entries, NotPresent, Prots
<1>2. EmptyTable \in [Index -> Entries] /\ \A i \in Index : EmptyTable[i] = NotPresent
  BY <1>1 DEF EmptyTable
<1>3. ASSUME NEW f \in Nat, NEW prot \in Prots
      PROVE  /\ Leaf(f, prot) \in Entries /\ Leaf(f, prot).present /\ ~Leaf(f, prot).huge
             /\ Leaf(f, prot).frame = f /\ Leaf(f, prot).prot = prot
  BY DEF Entries, Leaf
<1>4. ASSUME NEW f \in Nat, NEW prot \in Prots
      PROVE  /\ Huge(f, prot) \in Entries /\ Huge(f, prot).present /\ Huge(f, prot).huge
             /\ Huge(f, prot).frame = f /\ Huge(f, prot).prot = prot
  BY DEF Entries, Huge
<1> QED BY <1>1, <1>2, <1>3, <1>4

LEMMA FramesNat == Frames \subseteq Nat
  BY DEF Frames

(* A walk over tables begins so. *)
LEMMA WalkedStart ==
    ASSUME NEW m, NEW p, NEW A, NEW r, Base(m, p, A, r), NEW w,
           w = [mem |-> m, pool |-> p, at |-> w.at, ok |-> w.ok], w.ok \in BOOLEAN
    PROVE  Walked(w, A, m, p, A, r)
<1>1. w.mem = m /\ w.pool = p
  OBVIOUS
<1>2. All(A) = All(A) \cup (p \ p)
  OBVIOUS
<1> QED BY <1>1, <1>2 DEF Walked

(* What descend_or_create does when it makes a table. *)
LEMMA CreateGrows ==
    ASSUME NEW m, NEW A, NEW r, Tree(m, A, r), NEW k \in 2..4, NEW t \in A[k], NEW i \in Index,
           ~m[t][i].present, NEW f \in Frames, f \notin All(A)
    PROVE  Grows(m, A, k, t, i, f,
                 [m EXCEPT ![f] = EmptyTable, ![t][i] = Leaf(f, "table")],
                 [A EXCEPT ![k - 1] = A[k - 1] \cup {f}])
<1>1. m \in [Frames -> [Index -> Entries]]
  BY TreeFacts DEF Mems
<1>2. t \in Frames /\ t # f
  BY LevelsApart
<1>3. Leaf(f, "table") \in Entries /\ EmptyTable \in [Index -> Entries]
      /\ \A j \in Index : EmptyTable[j] = NotPresent
  <2>1. f \in Nat /\ "table" \in Prots
    BY FramesNat DEF Prots
  <2> QED BY <2>1, EntryTypes
<1> DEFINE a == [m EXCEPT ![f] = EmptyTable]
           n == [a EXCEPT ![t][i] = Leaf(f, "table")]
<1>4. a \in [Frames -> [Index -> Entries]] /\ a[f] = EmptyTable
      /\ \A s \in Frames : s # f => a[s] = m[s]
  BY <1>1, <1>3
<1> HIDE DEF a
<1>5. n \in [Frames -> [Index -> Entries]] /\ n[t][i] = Leaf(f, "table")
      /\ \A s \in Frames, j \in Index : ~(s = t /\ j = i) => n[s][j] = a[s][j]
  BY <1>2, <1>3, <1>4
<1>6. n = [m EXCEPT ![f] = EmptyTable, ![t][i] = Leaf(f, "table")]
  BY Zenon DEF a
<1> HIDE DEF n
<1>7. \A j \in Index : n[f][j] = NotPresent
  BY <1>2, <1>3, <1>4, <1>5
<1>8. \A s \in Frames, j \in Index : s # f /\ ~(s = t /\ j = i) => n[s][j] = m[s][j]
  BY <1>4, <1>5
<1> QED BY <1>5, <1>6, <1>7, <1>8, Zenon DEF Grows, Mems

(* One level down. *)
LEMMA Descend ==
    ASSUME NEW w, NEW A, NEW m, NEW p, NEW B, NEW r, Walked(w, A, m, p, B, r), w.ok,
           NEW v \in VirtPages, NEW k \in 2..4, Reach(w.mem, r, v, k, w.at),
           w.mem[w.at][At(v, k)].present => ~w.mem[w.at][At(v, k)].huge,
           NEW x, x = DescendOrCreate(w, v, k)
    PROVE  \E C : /\ Walked(x, C, m, p, B, r)
                  /\ x.ok => Reach(x.mem, r, v, k - 1, x.at)
                  /\ k > 2 => C[1] = A[1]
                  /\ NoLarge3(w.mem, A) => NoLarge3(x.mem, C)
<1> DEFINE e == w.mem[w.at][At(v, k)]
           f == Min(w.pool)
<1>1. Tree(w.mem, A, r) /\ w.pool \subseteq Frames /\ w.pool \cap All(A) = {}
  BY DEF Walked, Base
<1>2. w = [mem |-> w.mem, pool |-> w.pool, at |-> w.at, ok |-> w.ok]
  BY DEF Walked
<1>3. w.at \in A[k] /\ At(v, k) \in Index
  BY <1>1, ReachIn
<1>4. CASE e.present
  <2>1. x = [mem |-> w.mem, pool |-> w.pool, at |-> e.frame, ok |-> w.ok]
    BY <1>2, <1>4 DEF DescendOrCreate
  <2>2. x.mem = w.mem /\ x.pool = w.pool /\ x.at = e.frame /\ x.ok = w.ok
    BY <2>1
  <2>3. Walked(x, A, m, p, B, r)
    BY <2>1, <2>2 DEF Walked
  <2>4. IsLink(e)
    BY <1>4 DEF IsLink
  <2>5. k = 4 \/ k = 3 \/ k = 2
    OBVIOUS
  <2>6. Reach(w.mem, r, v, k - 1, e.frame)
    <3>1. CASE k = 4
      <4>1. e = E4(w.mem, r, v)
        BY <3>1 DEF Reach, E4
      <4> HIDE DEF e
      <4> QED BY <2>4, <3>1, <4>1 DEF Reach
    <3>2. CASE k = 3
      <4>1. e = E3(w.mem, r, v) /\ IsLink(E4(w.mem, r, v))
        BY <3>2 DEF Reach, E3
      <4> HIDE DEF e
      <4> QED BY <2>4, <3>2, <4>1 DEF Reach
    <3>3. CASE k = 2
      <4>1. e = E2(w.mem, r, v) /\ IsLink(E4(w.mem, r, v)) /\ IsLink(E3(w.mem, r, v))
        BY <3>3 DEF Reach, E2
      <4> HIDE DEF e
      <4> QED BY <2>4, <3>3, <4>1 DEF Reach
    <3> QED BY <2>5, <3>1, <3>2, <3>3
  <2> QED BY <2>2, <2>3, <2>6
<1>5. CASE ~e.present /\ w.pool = {}
  <2>1. x = [mem |-> w.mem, pool |-> w.pool, at |-> w.at, ok |-> FALSE]
    BY <1>2, <1>5 DEF DescendOrCreate
  <2>2. x.mem = w.mem /\ x.pool = w.pool /\ x.at = w.at /\ x.ok = FALSE
    BY <2>1
  <2>3. Walked(x, A, m, p, B, r)
    BY <2>1, <2>2 DEF Walked
  <2> QED BY <2>2, <2>3
<1>6. CASE ~e.present /\ w.pool # {}
  <2>1. x = [mem |-> [w.mem EXCEPT ![f] = EmptyTable, ![w.at][At(v, k)] = Leaf(f, "table")],
             pool |-> w.pool \ {f}, at |-> f, ok |-> TRUE]
    BY <1>6, Zenon DEF DescendOrCreate
  <2>2. f \in w.pool /\ f \in Frames /\ f \notin All(A)
    BY <1>1, <1>6, MinIn, FramesNat
  <2> DEFINE C == [A EXCEPT ![k - 1] = A[k - 1] \cup {f}]
             n == [w.mem EXCEPT ![f] = EmptyTable, ![w.at][At(v, k)] = Leaf(f, "table")]
  <2>3. x.mem = n /\ x.pool = w.pool \ {f} /\ x.at = f /\ x.ok = TRUE
        /\ x = [mem |-> x.mem, pool |-> x.pool, at |-> x.at, ok |-> x.ok]
    BY <2>1
  <2>4. Grows(w.mem, A, k, w.at, At(v, k), f, n, C)
    BY <1>1, <1>3, <1>6, <2>2, CreateGrows
  <2> HIDE DEF C, n, f, e
  <2>5. /\ Tree(n, C, r) /\ All(C) = All(A) \cup {f} /\ (k > 2 => C[1] = A[1])
        /\ \A l \in 1..4 : C[l] \subseteq A[l] \cup {f}
    BY <1>1, <2>4, GrowTree
  <2>6. Reach(n, r, v, k - 1, f)
    BY <1>1, <2>4, GrowReach
  <2>7. \A u \in VirtPages : /\ Lookup(n, r, u) = Lookup(w.mem, r, u)
                             /\ NotLarge(w.mem, r, u) => NotLarge(n, r, u)
    BY <1>1, <2>4, GrowLookup
  <2>8. \A l \in 1..3 : \A t \in C[l], i \in Index :
            n[t][i] = NotPresent \/ n[t][i] = Leaf(f, "table") \/ (t \in A[l] /\ n[t][i] = w.mem[t][i])
    <3> SUFFICES ASSUME NEW l \in 1..3, NEW t \in C[l], NEW i \in Index
                 PROVE n[t][i] = NotPresent \/ n[t][i] = Leaf(f, "table") \/ (t \in A[l] /\ n[t][i] = w.mem[t][i])
      OBVIOUS
    <3>1. l \in 1..4 /\ t \in Frames
      BY <2>5, TreeFacts
    <3>2. t \in A[l] \/ t = f
      BY <2>5, <3>1
    <3> QED BY <2>4, <3>1, <3>2 DEF Grows
  <2>9. Leaf(f, "table").prot # "kernel" /\ ~Leaf(f, "table").huge
    BY DEF Leaf
  <2>10. NotGlobal(w.mem, A) => NotGlobal(n, C)
    BY <2>8, <2>9, EntryTypes DEF NotGlobal
  <2>11. NoLarge3(w.mem, A) => NoLarge3(n, C)
    BY <2>8, <2>9, EntryTypes DEF NoLarge3
  <2>12. \A g \in Frames \ All(C) : n[g] = w.mem[g]
    <3> SUFFICES ASSUME NEW g \in Frames \ All(C) PROVE n[g] = w.mem[g]
      OBVIOUS
    <3>1. g # f /\ g # w.at
      BY <1>1, <1>3, <2>5, LevelsApart
    <3>2. \A j \in Index : n[g][j] = w.mem[g][j]
      BY <2>4, <3>1 DEF Grows
    <3>3. n \in [Frames -> [Index -> Entries]] /\ w.mem \in [Frames -> [Index -> Entries]]
      BY <1>1, <2>5, TreeFacts DEF Mems
    <3> QED BY <3>2, <3>3
  <2>13. Base(n, w.pool \ {f}, C, r)
    BY <1>1, <2>5 DEF Base
  <2>14. All(C) = All(B) \cup (p \ (w.pool \ {f})) /\ w.pool \ {f} \subseteq p
    BY <2>2, <2>5 DEF Walked
  <2>15. Walked(x, C, m, p, B, r)
    BY <2>3, <2>5, <2>7, <2>10, <2>12, <2>13, <2>14, ZenonT(40) DEF Walked
  <2> QED BY <2>3, <2>5, <2>6, <2>11, <2>15
<1> QED BY <1>4, <1>5, <1>6

(* One level down, where no large page is in the way. *)
LEMMA StepDown ==
    ASSUME NEW w, NEW A, NEW m, NEW p, NEW B, NEW r, Walked(w, A, m, p, B, r),
           NEW v \in VirtPages, NEW k \in 2..4, w.ok => Reach(w.mem, r, v, k, w.at),
           k = 4 \/ NotLarge(m, r, v) \/ (k = 3 /\ NoLarge3(w.mem, A)),
           NEW x, x = DescendOrCreate(w, v, k)
    PROVE  \E C : /\ Walked(x, C, m, p, B, r)
                  /\ x.ok => w.ok /\ Reach(x.mem, r, v, k - 1, x.at)
                  /\ k > 2 => C[1] = A[1]
                  /\ NoLarge3(w.mem, A) => NoLarge3(x.mem, C)
<1>1. CASE ~w.ok
  <2>1. x = w
    BY <1>1 DEF DescendOrCreate
  <2> QED BY <1>1, <2>1
<1>2. CASE w.ok
  <2>1. Reach(w.mem, r, v, k, w.at) /\ Tree(w.mem, A, r)
    BY <1>2 DEF Walked, Base
  <2>2. NotLarge(m, r, v) => NotLarge(w.mem, r, v)
    BY DEF Walked
  <2> DEFINE e == w.mem[w.at][At(v, k)]
  <2>3. e.present => ~e.huge
    <3>1. w.at \in A[k] /\ At(v, k) \in Index
      BY <2>1, ReachIn
    <3>2. CASE k = 4
      BY <2>1, <3>1, <3>2, TreeFacts
    <3>3. CASE k = 3
      <4>1. e = E3(w.mem, r, v) /\ IsLink(E4(w.mem, r, v))
        BY <2>1, <3>3 DEF Reach, E3
      <4>2. CASE NoLarge3(w.mem, A)
        BY <3>1, <3>3, <4>2 DEF NoLarge3
      <4>3. CASE NotLarge(m, r, v)
        <5> HIDE DEF e
        <5> QED BY <2>2, <4>1, <4>3, LookupIs DEF IsLink
      <4> QED BY <3>3, <4>2, <4>3
    <3>4. CASE k = 2
      <4>1. e = E2(w.mem, r, v) /\ IsLink(E4(w.mem, r, v)) /\ IsLink(E3(w.mem, r, v))
        BY <2>1, <3>4 DEF Reach, E2
      <4> HIDE DEF e
      <4> QED BY <2>2, <3>4, <4>1, LookupIs DEF IsLink
    <3> QED BY <3>2, <3>3, <3>4
  <2> HIDE DEF e
  <2>4. \E C : /\ Walked(x, C, m, p, B, r)
               /\ x.ok => Reach(x.mem, r, v, k - 1, x.at)
               /\ k > 2 => C[1] = A[1]
               /\ NoLarge3(w.mem, A) => NoLarge3(x.mem, C)
    BY <1>2, <2>1, <2>3, Descend DEF e
  <2> QED BY <1>2, <2>4
<1> QED BY <1>1, <1>2

(* Down to the table of level 2, as map_hhdm_2m goes. *)
LEMMA ToMiddle ==
    ASSUME NEW w, NEW A, NEW m, NEW p, NEW B, NEW r, Walked(w, A, m, p, B, r), w.at = r,
           NEW v \in VirtPages, NoLarge3(w.mem, A)
    PROVE  \E C : /\ Walked(ToTable(w, v, 2), C, m, p, B, r)
                  /\ ToTable(w, v, 2).ok => /\ w.ok
                                            /\ Reach(ToTable(w, v, 2).mem, r, v, 2, ToTable(w, v, 2).at)
                  /\ C[1] = A[1] /\ NoLarge3(ToTable(w, v, 2).mem, C)
<1> DEFINE y == DescendOrCreate(w, v, 4)
           x == ToTable(w, v, 2)
<1>1. x = DescendOrCreate(y, v, 3)
  BY DEF ToTable
<1>2. Reach(w.mem, r, v, 4, w.at)
  BY DEF Reach
<1> HIDE DEF y, x
<1>3. PICK C : /\ Walked(y, C, m, p, B, r)
               /\ y.ok => w.ok /\ Reach(y.mem, r, v, 4 - 1, y.at)
               /\ 4 > 2 => C[1] = A[1]
               /\ NoLarge3(w.mem, A) => NoLarge3(y.mem, C)
  BY <1>2, StepDown DEF y
<1>4. y.ok => Reach(y.mem, r, v, 3, y.at)
  BY <1>3
<1>5. PICK D : /\ Walked(x, D, m, p, B, r)
               /\ x.ok => y.ok /\ Reach(x.mem, r, v, 3 - 1, x.at)
               /\ 3 > 2 => D[1] = C[1]
               /\ NoLarge3(y.mem, C) => NoLarge3(x.mem, D)
  BY <1>1, <1>3, <1>4, StepDown
<1> QED BY <1>3, <1>5 DEF x

(* Down to the table of level 1, as map goes. *)
LEMMA ToLeaves ==
    ASSUME NEW w, NEW A, NEW m, NEW p, NEW B, NEW r, Walked(w, A, m, p, B, r), w.at = r,
           NEW v \in VirtPages, NotLarge(m, r, v), NEW x, x = ToTable(w, v, 1)
    PROVE  \E C : /\ Walked(x, C, m, p, B, r)
                  /\ x.ok => w.ok /\ Reach(x.mem, r, v, 1, x.at)
<1> DEFINE y == DescendOrCreate(w, v, 4)
           z == DescendOrCreate(y, v, 3)
<1>1. x = DescendOrCreate(z, v, 2)
  BY DEF ToTable
<1>2. Reach(w.mem, r, v, 4, w.at)
  BY DEF Reach
<1> HIDE DEF y, z
<1>3. PICK C : Walked(y, C, m, p, B, r) /\ (y.ok => w.ok /\ Reach(y.mem, r, v, 4 - 1, y.at))
  BY <1>2, StepDown DEF y
<1>4. y.ok => Reach(y.mem, r, v, 3, y.at)
  BY <1>3
<1>5. PICK D : Walked(z, D, m, p, B, r) /\ (z.ok => y.ok /\ Reach(z.mem, r, v, 3 - 1, z.at))
  BY <1>3, <1>4, StepDown DEF z
<1>6. z.ok => Reach(z.mem, r, v, 2, z.at)
  BY <1>5
<1>7. PICK E : Walked(x, E, m, p, B, r) /\ (x.ok => z.ok /\ Reach(x.mem, r, v, 2 - 1, x.at))
  BY <1>1, <1>5, <1>6, StepDown
<1> QED BY <1>3, <1>5, <1>7

(* An entry written in a table. *)
LEMMA WriteIs ==
    ASSUME NEW m \in Mems, NEW t \in Frames, NEW i \in Index, NEW e \in Entries
    PROVE  /\ Writes(m, t, i, e, [m EXCEPT ![t][i] = e])
           /\ \A f \in Frames : f # t => [m EXCEPT ![t][i] = e][f] = m[f]
<1>1. m \in [Frames -> [Index -> Entries]]
  BY DEF Mems
<1> DEFINE n == [m EXCEPT ![t][i] = e]
<1>2. n \in [Frames -> [Index -> Entries]] /\ n[t][i] = e
      /\ \A s \in Frames, j \in Index : ~(s = t /\ j = i) => n[s][j] = m[s][j]
  BY <1>1
<1>3. \A f \in Frames : f # t => n[f] = m[f]
  BY <1>1
<1> HIDE DEF n
<1>4. Writes(m, t, i, e, n)
  BY <1>2, Zenon DEF Writes, Mems
<1> QED BY <1>3, <1>4 DEF n

(* What map does: x is the walk that map has made of w, over the tables A. *)
Mapped(x, w, A, r, v, e, C) ==
    /\ x = [mem |-> x.mem, pool |-> x.pool, at |-> x.at, ok |-> x.ok] /\ x.ok \in BOOLEAN
    /\ Base(x.mem, x.pool, C, r)
    /\ x.pool \subseteq w.pool /\ All(C) = All(A) \cup (w.pool \ x.pool)
    /\ x.ok => w.ok /\ Lookup(x.mem, r, v) = e
    /\ \A u \in VirtPages :
           /\ u # v \/ ~x.ok => Lookup(x.mem, r, u) = Lookup(w.mem, r, u)
           /\ NotLarge(w.mem, r, u) => NotLarge(x.mem, r, u)
    /\ \A f \in Frames \ All(C) : x.mem[f] = w.mem[f]
    /\ NotGlobal(w.mem, A) /\ e.prot # "kernel" => NotGlobal(x.mem, C)

(* map maps its page, or has no frame left and changes no translation.       *)
LEMMA MapPageDoes ==
    ASSUME NEW w, NEW A, NEW r, Base(w.mem, w.pool, A, r), w.at = r,
           w = [mem |-> w.mem, pool |-> w.pool, at |-> w.at, ok |-> w.ok], w.ok \in BOOLEAN,
           NEW v \in VirtPages, NotLarge(w.mem, r, v), NEW f \in Nat, NEW prot \in Prots
    PROVE  \E C : Mapped(MapPage(w, v, f, prot), w, A, r, v, Leaf(f, prot), C)
<1> DEFINE x == MapPage(w, v, f, prot)
           t == ToTable(w, v, 1)
           e == Leaf(f, prot)
<1>1. Walked(w, A, w.mem, w.pool, A, r)
  BY WalkedStart
<1> HIDE DEF t, x
<1>2. PICK C : Walked(t, C, w.mem, w.pool, A, r) /\ (t.ok => w.ok /\ Reach(t.mem, r, v, 1, t.at))
  <2>1. t = ToTable(w, v, 1)
    BY DEF t
  <2> DEFINE m == w.mem
             p == w.pool
  <2>2. Walked(w, A, m, p, A, r) /\ NotLarge(m, r, v)
    BY <1>1
  <2> HIDE DEF m, p
  <2>3. \E C : Walked(t, C, m, p, A, r) /\ (t.ok => w.ok /\ Reach(t.mem, r, v, 1, t.at))
    BY <2>1, <2>2, ToLeaves
  <2> QED BY <2>3 DEF m, p
<1>3. /\ t = [mem |-> t.mem, pool |-> t.pool, at |-> t.at, ok |-> t.ok] /\ t.ok \in BOOLEAN
      /\ Base(t.mem, t.pool, C, r) /\ Tree(t.mem, C, r)
      /\ t.pool \subseteq w.pool /\ All(C) = All(A) \cup (w.pool \ t.pool)
      /\ \A u \in VirtPages :
           /\ Lookup(t.mem, r, u) = Lookup(w.mem, r, u)
           /\ NotLarge(w.mem, r, u) => NotLarge(t.mem, r, u)
      /\ \A g \in Frames \ All(C) : t.mem[g] = w.mem[g]
      /\ NotGlobal(w.mem, A) => NotGlobal(t.mem, C)
  BY <1>2 DEF Walked, Base
<1>4. CASE ~t.ok
  <2>1. x = t
    BY <1>4 DEF MapPage, t, x
  <2>2. Mapped(x, w, A, r, v, e, C)
    BY <1>3, <1>4, <2>1 DEF Mapped
  <2> QED BY <2>2 DEF x
<1>5. CASE t.ok
  <2> DEFINE n == [t.mem EXCEPT ![t.at][At(v, 1)] = e]
  <2>1. x = [t EXCEPT !.mem[t.at][At(v, 1)] = e]
    BY <1>5 DEF MapPage, t, x
  <2>2. x = [mem |-> n, pool |-> t.pool, at |-> t.at, ok |-> t.ok]
    <3> HIDE DEF e
    <3> QED BY <1>3, <2>1
  <2>3. t.at \in C[1] /\ At(v, 1) \in Index /\ t.at \in Frames /\ t.at \in All(C)
    BY <1>2, <1>3, <1>5, ReachIn, LevelsApart
  <2>4. e \in Entries /\ e.present /\ ~e.huge /\ e.prot = prot
    BY EntryTypes
  <2>5. t.mem \in Mems
    BY <1>3, TreeFacts
  <2> HIDE DEF e
  <2>6. Writes(t.mem, t.at, At(v, 1), e, n) /\ \A g \in Frames : g # t.at => n[g] = t.mem[g]
    BY <2>3, <2>4, <2>5, WriteIs
  <2> HIDE DEF n
  <2>7. /\ Tree(n, C, r)
        /\ \A u \in VirtPages :
              /\ NotLarge(t.mem, r, u) => NotLarge(n, r, u)
              /\ u # v => Lookup(n, r, u) = Lookup(t.mem, r, u)
        /\ Lookup(n, r, v) = e
    BY <1>2, <1>3, <1>5, <2>4, <2>6, WriteLeaf
  <2>8. NotGlobal(t.mem, C) /\ prot # "kernel" => NotGlobal(n, C)
    <3> SUFFICES ASSUME NotGlobal(t.mem, C), prot # "kernel",
                        NEW k \in 1..3, NEW s \in C[k], NEW i \in Index
                 PROVE  n[s][i].prot # "kernel"
      BY DEF NotGlobal
    <3>1. s \in Frames
      BY <2>7, TreeFacts
    <3>2. t.mem[s][i].prot # "kernel"
      BY DEF NotGlobal
    <3> QED BY <2>4, <2>6, <3>1, <3>2 DEF Writes
  <2>9. /\ x.mem = n /\ x.pool = t.pool /\ x.at = t.at /\ x.ok = t.ok
        /\ x = [mem |-> x.mem, pool |-> x.pool, at |-> x.at, ok |-> x.ok]
    BY <2>2
  <2>10. Base(n, t.pool, C, r)
    BY <1>3, <2>7 DEF Base
  <2>11. \A g \in Frames \ All(C) : n[g] = w.mem[g]
    BY <1>3, <2>3, <2>6
  <2>12. Mapped(x, w, A, r, v, e, C)
    BY <1>2, <1>3, <1>5, <2>4, <2>7, <2>8, <2>9, <2>10, <2>11 DEF Mapped
  <2> QED BY <2>12 DEF e, x
<1> QED BY <1>3, <1>4, <1>5

-----------------------------------------------------------------------------
(* The kernel's own tables.                                                *)

(* Where the HHDM lies. *)
LEMMA Geometry ==
    /\ Rounded \in Nat /\ Rounded \div Fan \in Nat /\ Rounded = Fan * (Rounded \div Fan)
    /\ MapEnd <= Rounded /\ Rounded < Span[4] /\ Ram \subseteq Frames /\ RamFrames \in Nat \ {0}
    /\ RamFrames <= MapEnd
    /\ \A f \in Frames \cup {Lapic, Fb} : Hhdm(f) \in VirtPages
    /\ Image \in VirtPages \ HhdmPages
    /\ ImageFrame \in Ram
    /\ Hhdm(0) = Span[4]
<1> DEFINE c == (MapEnd + Fan - 1) \div Fan
           s == Span[4]
<1>1. /\ Fan \in Nat \ {0, 1} /\ s \in Nat \ {0}
      /\ RamFrames \in Nat \ {0} /\ MapEnd \in RamFrames..(s - Fan)
      /\ Lapic \in RamFrames..(s - 1) /\ Fb \in RamFrames..(s - 1)
  BY Sizes, PageTablesAssumption
<1> HIDE DEF s
<1>2. MapEnd + Fan - 1 \in Nat
  BY <1>1
<1>3. c \in Nat /\ MapEnd + Fan - 1 = Fan * c + ((MapEnd + Fan - 1) % Fan)
      /\ (MapEnd + Fan - 1) % Fan \in 0..(Fan - 1)
  BY <1>1, <1>2
<1>4. Rounded = c * Fan
  BY DEF Rounded
<1> HIDE DEF c
<1>5. Fan * c \in Nat /\ Fan * c + 0 = Fan * c /\ Fan * c = c * Fan
  BY <1>1, <1>3
<1>6. (Fan * c + 0) \div Fan = c
  BY <1>1, <1>3, DivUnique
<1>7. Rounded \div Fan = c /\ Rounded = Fan * c
  BY <1>4, <1>5, <1>6
<1>8. Rounded \in Nat /\ MapEnd <= Rounded /\ Rounded < s
  BY <1>1, <1>3, <1>5, <1>7
<1>9. Ram \subseteq Frames /\ ImageFrame \in Ram
  BY <1>1, <1>8 DEF Ram, Frames, ImageFrame
<1>10. Fan * s >= s + s /\ Fan * s \in Nat
  BY <1>1
<1>11. \A f \in Frames \cup {Lapic, Fb} : Hhdm(f) \in VirtPages
  <2>1. \A f \in Frames \cup {Lapic, Fb} : f \in Nat /\ f < s
    BY <1>1, <1>8 DEF Frames
  <2>2. \A f \in Nat : f < s => s + f \in 0..(Fan * s - 1)
    BY <1>1, <1>10
  <2> QED BY <2>1, <2>2 DEF Hhdm, VirtPages, s
<1>12. Image \in VirtPages
  BY <1>1, <1>10 DEF Image, VirtPages, s
<1>13. Image \notin HhdmPages
  <2>1. \A f \in Frames : f \in Nat
    BY FramesNat
  <2>2. \A f \in Frames : Hhdm(f) # 0
    BY <1>1, <2>1 DEF Hhdm, s
  <2> QED BY <2>2 DEF Image, HhdmPages
<1>14. Hhdm(0) = s
  BY <1>1 DEF Hhdm, s
<1> QED BY <1>1, <1>3, <1>7, <1>8, <1>9, <1>11, <1>12, <1>13, <1>14 DEF s

(* The pages of the large page of frame number (n - 1) * Fan. *)
LEMMA LargePages ==
    ASSUME NEW n \in 1..(Rounded \div Fan), NEW f, f = (n - 1) * Fan
    PROVE  /\ f \in Frames /\ Hhdm(f) \in VirtPages
           /\ \A u \in VirtPages :
                 IF u \div Fan = Hhdm(f) \div Fan
                 THEN /\ u \in HhdmPages /\ f + At(u, 1) = u - Hhdm(0)
                      /\ u - Hhdm(0) \in f..(n * Fan - 1)
                 ELSE u - Hhdm(0) \notin f..(n * Fan - 1)
           /\ n * Fan = f + Fan
<1> DEFINE c == Rounded \div Fan
           q == Fan * Fan + (n - 1)
           s == Span[4]
<1>1. Fan \in Nat \ {0, 1} /\ s = Fan * Fan * Fan /\ s \in Nat \ {0} /\ c \in Nat /\ Rounded = Fan * c
  BY Sizes, Geometry
<1>2. n \in Nat /\ 1 <= n /\ n <= c
  BY <1>1
<1> HIDE DEF c, s
<1>3. n * Fan = f + Fan /\ f \in Nat /\ f = Fan * (n - 1)
  BY <1>1, <1>2
<1>4. Fan * n <= Fan * c /\ Fan * n = n * Fan
  BY <1>1, <1>2
<1>5. f + Fan <= Rounded
  BY <1>1, <1>3, <1>4
<1>6. \A i \in 0..(Fan - 1) : f + i \in Frames
  BY <1>1, <1>3, <1>5, Geometry DEF Frames
<1>7. f \in Frames /\ Hhdm(f) \in VirtPages
  <2>1. f + 0 \in Frames /\ f + 0 = f
    BY <1>1, <1>3, <1>6
  <2> QED BY <2>1, Geometry
<1>8. q \in Nat /\ Fan * q = s + f /\ Hhdm(f) = Fan * q + 0
  <2>1. Fan * Fan \in Nat /\ q \in Nat
    BY <1>1, <1>2
  <2>2. Fan * q = Fan * (Fan * Fan) + Fan * (n - 1)
    BY <1>1, <1>2, <2>1
  <2>3. Fan * (Fan * Fan) = s
    BY <1>1
  <2>4. Hhdm(f) = s + f
    BY DEF Hhdm, s
  <2> HIDE DEF q
  <2> QED BY <1>1, <1>3, <2>1, <2>2, <2>3, <2>4
<1> HIDE DEF q
<1>9. Hhdm(f) \div Fan = q
  BY <1>1, <1>8, DivUnique
<1>10. ASSUME NEW u \in VirtPages, u \div Fan = q
       PROVE  u \in HhdmPages /\ f + At(u, 1) = u - s /\ u - s \in f..(n * Fan - 1)
  <2>1. u = Fan * q + At(u, 1) /\ At(u, 1) \in 0..(Fan - 1)
    <3>1. u \in Nat /\ 1 \in 1..4
      BY Sizes
    <3>2. At(u, 1) \in 0..(Fan - 1)
      BY <3>1, AtIndex, Zenon DEF Index
    <3>3. u = Fan * (u \div Fan) + At(u, 1)
      BY AtDigits
    <3> QED BY <1>10, <3>2, <3>3, Zenon
  <2>2. f + At(u, 1) = u - s /\ u - s \in f..(n * Fan - 1)
    BY <1>1, <1>3, <1>8, <2>1
  <2>3. f + At(u, 1) \in Frames
    BY <1>6, <2>1
  <2>4. u = s + (f + At(u, 1))
    BY <1>1, <1>3, <1>8, <2>1
  <2> QED BY <2>2, <2>3, <2>4 DEF HhdmPages, Hhdm, s
<1>11. ASSUME NEW u \in VirtPages, u - s \in f..(n * Fan - 1)
       PROVE  u \div Fan = q
  <2> DEFINE i == u - (s + f)
  <2>1. i \in 0..(Fan - 1) /\ u = (s + f) + i
    BY <1>1, <1>3, <1>11, Sizes
  <2> HIDE DEF i
  <2>2. u = Fan * q + i
    BY <1>8, <2>1
  <2>3. (Fan * q + i) \div Fan = q
    <3>1. Fan \in Nat \ {0} /\ q \in Nat
      BY <1>1, <1>8
    <3> QED BY <2>1, <3>1, DivUnique, Zenon
  <2> QED BY <2>2, <2>3
<1>12. Hhdm(0) = s
  BY Geometry DEF s
<1> QED BY <1>3, <1>7, <1>9, <1>10, <1>11, <1>12

(* The tables with n large pages of the HHDM in them, over memory m and with *)
(* the frames p.                                                             *)
Built(x, r, m, p, n, A) ==
    /\ x = [mem |-> x.mem, pool |-> x.pool, at |-> x.at, ok |-> x.ok] /\ x.ok \in BOOLEAN
    /\ Base(x.mem, x.pool, A, r) /\ A[1] = {} /\ NoLarge3(x.mem, A)
    /\ x.pool \subseteq p /\ All(A) = {r} \cup (p \ x.pool)
    /\ \A f \in Frames \ All(A) : x.mem[f] = m[f]
    /\ \A u \in VirtPages \ HhdmPages : NotLarge(x.mem, r, u)
    /\ x.ok => \A u \in VirtPages :
           Lookup(x.mem, r, u) = IF u - Hhdm(0) \in 0..(n * Fan - 1)
                                 THEN Leaf(u - Hhdm(0), "kernel") ELSE NotPresent

(* One more large page. *)
LEMMA LargeStep ==
    ASSUME NEW x, NEW r, NEW m, NEW p, NEW n \in 1..(Rounded \div Fan), NEW A,
           Built(x, r, m, p, n - 1, A)
    PROVE  \E C : Built(MapLarge([x EXCEPT !.at = r], (n - 1) * Fan, "kernel"), r, m, p, n, C)
<1> DEFINE z == MapLarge([x EXCEPT !.at = r], (n - 1) * Fan, "kernel")
           y == [x EXCEPT !.at = r]
           f == (n - 1) * Fan
           v == Hhdm(f)
           t == ToTable(y, v, 2)
           e == Huge(f, "kernel")
           b == x.mem
           q == x.pool
<1>1. /\ f \in Frames /\ v \in VirtPages /\ n * Fan = f + Fan
      /\ \A u \in VirtPages :
            IF u \div Fan = v \div Fan
            THEN u \in HhdmPages /\ f + At(u, 1) = u - Hhdm(0) /\ u - Hhdm(0) \in f..(n * Fan - 1)
            ELSE u - Hhdm(0) \notin f..(n * Fan - 1)
  BY LargePages
<1>2. /\ x = [mem |-> x.mem, pool |-> x.pool, at |-> x.at, ok |-> x.ok] /\ x.ok \in BOOLEAN
      /\ Base(b, q, A, r) /\ A[1] = {} /\ NoLarge3(b, A)
      /\ q \subseteq p /\ All(A) = {r} \cup (p \ q)
      /\ \A g \in Frames \ All(A) : b[g] = m[g]
      /\ \A u \in VirtPages \ HhdmPages : NotLarge(b, r, u)
      /\ x.ok => \A u \in VirtPages :
           Lookup(b, r, u) = IF u - Hhdm(0) \in 0..((n - 1) * Fan - 1)
                             THEN Leaf(u - Hhdm(0), "kernel") ELSE NotPresent
  BY DEF Built
<1>3. y = [mem |-> b, pool |-> q, at |-> r, ok |-> x.ok]
  BY <1>2
<1> HIDE DEF b, q
<1>4. y.mem = b /\ y.pool = q /\ y.at = r /\ y.ok = x.ok
      /\ y = [mem |-> b, pool |-> q, at |-> y.at, ok |-> y.ok] /\ y.ok \in BOOLEAN
  BY <1>2, <1>3
<1> HIDE DEF y
<1>5. Walked(y, A, b, q, A, r)
  BY <1>2, <1>4, WalkedStart
<1>6. z = IF t.ok THEN [t EXCEPT !.mem[t.at][At(v, 2)] = e] ELSE t
  BY DEF MapLarge, y
<1>7. t = ToTable(y, v, 2) /\ NoLarge3(y.mem, A)
  BY <1>2, <1>4
<1> HIDE DEF t, v, z
<1>8. PICK C : /\ Walked(t, C, b, q, A, r)
               /\ t.ok => y.ok /\ Reach(t.mem, r, v, 2, t.at)
               /\ C[1] = A[1] /\ NoLarge3(t.mem, C)
  <2>1. v \in VirtPages /\ y.at = r
    BY <1>1, <1>4
  <2> HIDE DEF f, e
  <2> QED BY <1>5, <1>7, <2>1, ToMiddle
<1>9. /\ t = [mem |-> t.mem, pool |-> t.pool, at |-> t.at, ok |-> t.ok] /\ t.ok \in BOOLEAN
      /\ Base(t.mem, t.pool, C, r) /\ Tree(t.mem, C, r)
      /\ t.pool \subseteq q /\ All(C) = All(A) \cup (q \ t.pool)
      /\ \A u \in VirtPages :
           /\ Lookup(t.mem, r, u) = Lookup(b, r, u)
           /\ NotLarge(b, r, u) => NotLarge(t.mem, r, u)
      /\ \A g \in Frames \ All(C) : t.mem[g] = b[g]
  BY <1>8 DEF Walked, Base
<1>10. t.pool \subseteq p /\ All(C) = {r} \cup (p \ t.pool)
  BY <1>2, <1>9
<1>11. \A g \in Frames \ All(C) : t.mem[g] = m[g]
  BY <1>2, <1>9
<1>12. C[1] = {}
  BY <1>2, <1>8
<1>13. CASE ~t.ok
  <2>1. z = t
    BY <1>6, <1>13
  <2>2. \A u \in VirtPages \ HhdmPages : NotLarge(t.mem, r, u)
    BY <1>2, <1>9
  <2>3. Built(z, r, m, p, n, C)
    BY <1>8, <1>9, <1>10, <1>11, <1>12, <1>13, <2>1, <2>2 DEF Built
  <2> QED BY <2>3 DEF z
<1>14. CASE t.ok
  <2> DEFINE k == [t.mem EXCEPT ![t.at][At(v, 2)] = e]
  <2>1. t.at \in C[2] /\ At(v, 2) \in Index /\ t.at \in Frames /\ t.at \in All(C) /\ t.at \notin C[3]
    BY <1>1, <1>8, <1>9, <1>14, ReachIn, LevelsApart
  <2>2. e \in Entries /\ e.present /\ e.huge /\ e.frame = f /\ e.prot = "kernel"
    <3>1. f \in Nat /\ "kernel" \in Prots
      BY <1>1, FramesNat DEF Prots
    <3> QED BY <3>1, EntryTypes
  <2>3. t.mem \in Mems
    BY <1>9, TreeFacts
  <2> HIDE DEF e, f
  <2>4. z = [mem |-> k, pool |-> t.pool, at |-> t.at, ok |-> t.ok]
    BY <1>6, <1>9, <1>14
  <2>5. Writes(t.mem, t.at, At(v, 2), e, k) /\ \A g \in Frames : g # t.at => k[g] = t.mem[g]
    BY <2>1, <2>2, <2>3, WriteIs
  <2> HIDE DEF k
  <2>6. /\ Tree(k, C, r)
        /\ \A u \in VirtPages :
              IF u \div Fan = v \div Fan THEN Lookup(k, r, u) = Leaf(e.frame + At(u, 1), e.prot)
              ELSE /\ Lookup(k, r, u) = Lookup(t.mem, r, u)
                   /\ NotLarge(t.mem, r, u) => NotLarge(k, r, u)
    BY <1>1, <1>8, <1>9, <1>12, <1>14, <2>2, <2>5, WriteLarge
  <2>7. /\ z.mem = k /\ z.pool = t.pool /\ z.at = t.at /\ z.ok = t.ok
        /\ z = [mem |-> z.mem, pool |-> z.pool, at |-> z.at, ok |-> z.ok]
    BY <2>4
  <2>8. Base(k, t.pool, C, r)
    BY <1>9, <2>6 DEF Base
  <2>9. NoLarge3(k, C)
    <3>1. \A s \in C[3] : s \in Frames /\ s # t.at
      BY <1>9, <2>1, LevelsApart
    <3> QED BY <1>8, <2>5, <3>1 DEF NoLarge3
  <2>10. \A g \in Frames \ All(C) : k[g] = m[g]
    BY <1>11, <2>1, <2>5
  <2>11. \A u \in VirtPages \ HhdmPages : NotLarge(k, r, u)
    <3> SUFFICES ASSUME NEW u \in VirtPages \ HhdmPages PROVE NotLarge(k, r, u)
      OBVIOUS
    <3>1. u \div Fan # v \div Fan
      BY <1>1
    <3> QED BY <1>2, <1>9, <2>6, <3>1
  <2>12. ASSUME NEW u \in VirtPages
         PROVE  Lookup(k, r, u) = IF u - Hhdm(0) \in 0..(n * Fan - 1)
                                  THEN Leaf(u - Hhdm(0), "kernel") ELSE NotPresent
    <3>1. u - Hhdm(0) \in Int /\ f \in Nat /\ Fan \in Nat \ {0}
      BY <1>1, Sizes, Geometry, FramesNat
    <3>2. (n - 1) * Fan = f
      BY DEF f
    <3>3. CASE u \div Fan = v \div Fan
      BY <1>1, <2>2, <2>6, <3>1, <3>3
    <3>4. CASE u \div Fan # v \div Fan
      <4>1. u - Hhdm(0) \in 0..(n * Fan - 1) <=> u - Hhdm(0) \in 0..(f - 1)
        BY <1>1, <3>1, <3>4
      <4>2. Lookup(k, r, u) = Lookup(b, r, u)
        BY <1>9, <2>6, <3>4
      <4>3. Lookup(b, r, u) = IF u - Hhdm(0) \in 0..(f - 1)
                              THEN Leaf(u - Hhdm(0), "kernel") ELSE NotPresent
        BY <1>2, <1>4, <1>8, <1>14, <3>2
      <4> QED BY <4>1, <4>2, <4>3
    <3> QED BY <3>3, <3>4
  <2>13. Built(z, r, m, p, n, C)
    BY <1>9, <1>10, <1>12, <2>7, <2>8, <2>9, <2>10, <2>11, <2>12 DEF Built
  <2> QED BY <2>13 DEF z
<1> QED BY <1>9, <1>13, <1>14

(* The loop of map_hhdm_2m, iteration by iteration: functions that give the  *)
(* first iterations exist for every number of them, as a least number for    *)
(* which there is none would be one more than one for which there is.        *)
LEMMA HhdmLoop ==
    ASSUME NEW w, NEW prot
    PROVE  \E g : /\ g[0] = w
                  /\ \A n \in 1..(Rounded \div Fan) :
                        g[n] = MapLarge([g[n - 1] EXCEPT !.at = w.at], (n - 1) * Fan, prot)
                  /\ MapHhdm(w, prot) = [g[Rounded \div Fan] EXCEPT !.at = w.at]
<1> DEFINE N == Rounded \div Fan
           One(x, n) == MapLarge([x EXCEPT !.at = w.at], (n - 1) * Fan, prot)
           Upto[n \in 0..N] ==
               IF n = 0 THEN w
               ELSE MapLarge([Upto[n - 1] EXCEPT !.at = w.at], (n - 1) * Fan, prot)
           Is(g, k) == g = [n \in 0..k |-> IF n = 0 THEN w ELSE One(g[n - 1], n)]
           Bad == {k \in Nat : ~\E g : Is(g, k)}
<1>1. MapHhdm(w, prot) = [Upto[N] EXCEPT !.at = w.at]
  BY Zenon DEF MapHhdm
<1>2. N \in Nat
  BY Geometry
<1>3. (\E g : Is(g, N)) => Is(Upto, N)
  BY Zenon
<1> HIDE DEF Upto, One, N
<1>4. Bad = {}
  <2> SUFFICES ASSUME Bad # {} PROVE FALSE
    OBVIOUS
  <2>1. PICK k \in Bad : \A j \in Bad : k <= j
    <3>1. Bad \in SUBSET Nat
      OBVIOUS
    <3> HIDE DEF Bad
    <3> QED BY <3>1, LeastNatural
  <2>2. k \in Nat /\ ~\E g : Is(g, k)
    OBVIOUS
  <2>3. k # 0
    <3> DEFINE g == [n \in 0..0 |-> w]
    <3>1. g = [n \in 0..0 |-> IF n = 0 THEN w ELSE One(g[n - 1], n)]
      OBVIOUS
    <3> HIDE DEF g
    <3> QED BY <2>2, <3>1
  <2>4. k - 1 \in Nat /\ k - 1 \notin Bad
    <3> HIDE DEF Bad
    <3> QED BY <2>1, <2>2, <2>3
  <2>5. PICK g : Is(g, k - 1)
    BY <2>4
  <2> DEFINE h == [n \in 0..k |-> IF n = k THEN One(g[k - 1], k) ELSE g[n]]
  <2>6. \A n \in 0..(k - 1) : g[n] = IF n = 0 THEN w ELSE One(g[n - 1], n)
    <3>1. g = [n \in 0..(k - 1) |-> IF n = 0 THEN w ELSE One(g[n - 1], n)]
      BY <2>5
    <3> QED BY <3>1
  <2>7. \A n \in 0..(k - 1) : h[n] = g[n]
    BY <2>2
  <2>8. h[k] = One(g[k - 1], k)
    BY <2>2
  <2>9. \A n \in 0..k : h[n] = IF n = 0 THEN w ELSE One(h[n - 1], n)
    <3> TAKE n \in 0..k
    <3> HIDE DEF h
    <3>1. CASE n = k
      BY <2>2, <2>3, <2>4, <2>7, <2>8, <3>1
    <3>2. CASE n # k
      <4>1. n \in 0..(k - 1) /\ (n # 0 => n - 1 \in 0..(k - 1))
        BY <2>2, <3>2
      <4> QED BY <2>6, <2>7, <4>1
    <3> QED BY <3>1, <3>2
  <2>10. h = [n \in 0..k |-> h[n]]
    OBVIOUS
  <2> HIDE DEF h
  <2>11. h = [n \in 0..k |-> IF n = 0 THEN w ELSE One(h[n - 1], n)]
    BY <2>9, <2>10
  <2> QED BY <2>2, <2>11
<1>5. Is(Upto, N)
  BY <1>2, <1>3, <1>4
<1>6. Upto[0] = w
  BY <1>2, <1>5
<1>7. \A n \in 1..N : Upto[n] = One(Upto[n - 1], n)
  <2> TAKE n \in 1..N
  <2>1. n \in 0..N /\ n # 0
    BY <1>2
  <2> QED BY <1>5, <2>1
<1> DEFINE u == Upto
<1>8. /\ u[0] = w
      /\ \A n \in 1..N : u[n] = One(u[n - 1], n)
      /\ MapHhdm(w, prot) = [u[N] EXCEPT !.at = w.at]
  BY <1>1, <1>6, <1>7
<1> HIDE DEF u
<1> QED BY <1>8, Zenon DEF One, N

(* So the whole HHDM is mapped, unless the frames run out. *)
LEMMA HhdmBuilt ==
    ASSUME NEW w, NEW r, NEW m, NEW p, NEW A, Built(w, r, m, p, 0, A), w.at = r
    PROVE  \E C : /\ Built(MapHhdm(w, "kernel"), r, m, p, Rounded \div Fan, C)
                  /\ MapHhdm(w, "kernel").at = r
<1> DEFINE N == Rounded \div Fan
           x == MapHhdm(w, "kernel")
<1>1. PICK g : /\ g[0] = w
               /\ \A n \in 1..N : g[n] = MapLarge([g[n - 1] EXCEPT !.at = r], (n - 1) * Fan, "kernel")
               /\ x = [g[N] EXCEPT !.at = r]
  <2>1. \E g : /\ g[0] = w
               /\ \A n \in 1..N :
                     g[n] = MapLarge([g[n - 1] EXCEPT !.at = w.at], (n - 1) * Fan, "kernel")
               /\ x = [g[N] EXCEPT !.at = w.at]
    BY HhdmLoop, Zenon
  <2> QED BY <2>1, Zenon
<1>2. N \in Nat
  BY Geometry
<1> HIDE DEF x
<1> DEFINE Good(n) == \E C : Built(g[n], r, m, p, n, C)
           Bad == {n \in 0..N : ~Good(n)}
<1>3. Bad = {}
  <2> SUFFICES ASSUME Bad # {} PROVE FALSE
    OBVIOUS
  <2>1. PICK n \in Bad : \A j \in Bad : n <= j
    <3>1. Bad \in SUBSET Nat
      BY <1>2
    <3> HIDE DEF Bad
    <3> QED BY <3>1, LeastNatural
  <2>2. n \in 0..N /\ ~Good(n)
    OBVIOUS
  <2>3. n # 0
    BY <1>1, <2>2
  <2>4. n \in 1..N /\ n - 1 \in 0..N /\ n - 1 \notin Bad
    BY <1>2, <2>1, <2>2, <2>3
  <2>5. PICK C : Built(g[n - 1], r, m, p, n - 1, C)
    BY <2>4
  <2>6. \E D : Built(MapLarge([g[n - 1] EXCEPT !.at = r], (n - 1) * Fan, "kernel"), r, m, p, n, D)
    BY <2>4, <2>5, LargeStep
  <2>7. Good(n)
    BY <1>1, <2>4, <2>6
  <2> QED BY <2>2, <2>7
<1>4. Good(N)
  BY <1>2, <1>3
<1> HIDE DEF N
<1>5. PICK C : Built(g[N], r, m, p, N, C)
  BY <1>4
<1> DEFINE y == g[N]
<1>6. y = [mem |-> y.mem, pool |-> y.pool, at |-> y.at, ok |-> y.ok] /\ Built(y, r, m, p, N, C)
      /\ x = [y EXCEPT !.at = r]
  BY <1>1, <1>5 DEF Built
<1> HIDE DEF y
<1>7. x = [mem |-> y.mem, pool |-> y.pool, at |-> r, ok |-> y.ok]
  BY <1>6
<1>8. x.mem = y.mem /\ x.pool = y.pool /\ x.ok = y.ok /\ x.at = r
      /\ x = [mem |-> x.mem, pool |-> x.pool, at |-> x.at, ok |-> x.ok]
  BY <1>7
<1>9. Built(x, r, m, p, N, C)
  BY <1>6, <1>8, Zenon DEF Built
<1> QED BY <1>8, <1>9 DEF x, N

(* What the kernel's own tables map. *)
KernelLeaf(u) ==
    IF u = Image THEN Leaf(ImageFrame, "kernel")
    ELSE IF u \in HhdmPages THEN Leaf(u - Hhdm(0), "kernel")
    ELSE NotPresent

(* x has new tables C, in frames of p, with memory m otherwise unchanged. *)
NewTables(x, m, p, C) ==
    /\ x.ok \in BOOLEAN /\ x.pool \subseteq p
    /\ Base(x.mem, x.pool, C, x.at) /\ All(C) = p \ x.pool
    /\ \A f \in Frames \ All(C) : x.mem[f] = m[f]
    /\ \A u \in VirtPages \ HhdmPages : NotLarge(x.mem, x.at, u)
    /\ x.ok => \A u \in VirtPages : Lookup(x.mem, x.at, u) = KernelLeaf(u)

(* An empty root is a tree that maps nothing. *)
LEMMA EmptyRoot ==
    ASSUME NEW m \in Mems, NEW p \in SUBSET Frames, NEW r \in p, NEW w,
           w = [mem |-> [m EXCEPT ![r] = EmptyTable], pool |-> p \ {r}, at |-> r, ok |-> TRUE]
    PROVE  \E A : Built(w, r, m, p \ {r}, 0, A)
<1> DEFINE n == [m EXCEPT ![r] = EmptyTable]
           A == [k \in 1..4 |-> IF k = 4 THEN {r} ELSE {}]
<1>1. m \in [Frames -> [Index -> Entries]] /\ r \in Frames
  BY DEF Mems
<1>2. n \in [Frames -> [Index -> Entries]] /\ n[r] = EmptyTable /\ \A f \in Frames \ {r} : n[f] = m[f]
  BY <1>1, EntryTypes
<1>3. \A i \in Index : n[r][i] = NotPresent /\ ~IsLink(n[r][i]) /\ ~n[r][i].present /\ ~n[r][i].huge
  BY <1>2, EntryTypes DEF IsLink
<1>4. A[1] = {} /\ A[2] = {} /\ A[3] = {} /\ A[4] = {r} /\ A \in [1..4 -> SUBSET Frames]
      /\ \A k \in 1..4 : k # 4 => A[k] = {}
  BY <1>1
<1>5. w.mem = n /\ w.pool = p \ {r} /\ w.at = r /\ w.ok = TRUE
      /\ w = [mem |-> w.mem, pool |-> w.pool, at |-> w.at, ok |-> w.ok]
  OBVIOUS
<1> HIDE DEF n, A
<1>6. Tree(n, A, r)
  <2>1. \A k \in 2..4 : \A t \in A[k], i \in Index : t = r /\ ~IsLink(n[t][i])
    BY <1>3, <1>4
  <2>2. \A k \in 2..4 : A[k - 1] = {}
    BY <1>4
  <2>3. \A j, k \in 1..4 : j # k => A[j] \cap A[k] = {}
    BY <1>4
  <2>4. n \in Mems
    BY <1>2 DEF Mems
  <2> QED BY <1>3, <1>4, <2>1, <2>2, <2>3, <2>4 DEF Tree
<1>7. All(A) = {r}
  BY <1>4 DEF All
<1>8. Base(n, p \ {r}, A, r)
  BY <1>6, <1>7 DEF Base
<1>9. \A u \in VirtPages : Lookup(n, r, u) = NotPresent /\ NotLarge(n, r, u)
  <2> TAKE u \in VirtPages
  <2>1. ~E4(n, r, u).present
    BY <1>3, <1>6, PathIn DEF E4
  <2> QED BY <2>1, LookupIs
<1>10. \A u \in VirtPages : u - Hhdm(0) \notin 0..(0 * Fan - 1)
  BY Sizes, Geometry
<1>11. \A f \in Frames \ All(A) : n[f] = m[f]
  BY <1>2, <1>7
<1>12. All(A) = {r} \cup ((p \ {r}) \ (p \ {r}))
  BY <1>7
<1>13. NoLarge3(n, A)
  BY <1>4 DEF NoLarge3
<1>14. Built(w, r, m, p \ {r}, 0, A)
  BY <1>4, <1>5, <1>8, <1>9, <1>10, <1>11, <1>12, <1>13 DEF Built
<1> QED BY <1>14

(* install_kernel_pml4 builds tables for the HHDM and the image in frames of *)
(* the pool, or runs out of them.                                            *)
LEMMA BuildDoes ==
    ASSUME NEW m \in Mems, NEW p \in SUBSET Frames, NEW c
    PROVE  LET x == BuildTables(Walk(m, p, c))
           IN  IF p = {} THEN x.mem = m /\ x.pool = p /\ x.ok = FALSE
               ELSE \E C : NewTables(x, m, p, C)
<1> DEFINE x == BuildTables(Walk(m, p, c))
           r == Min(p)
           w == [mem |-> [m EXCEPT ![r] = EmptyTable], pool |-> p \ {r}, at |-> r, ok |-> TRUE]
           h == MapHhdm(w, "kernel")
           y == MapPage(h, Image, ImageFrame, "kernel")
           q == p \ {r}
           e == Leaf(ImageFrame, "kernel")
<1>1. CASE p = {}
  <2>1. x = [Walk(m, p, c) EXCEPT !.ok = FALSE]
    BY <1>1, Zenon DEF BuildTables, Walk
  <2>2. x.mem = m /\ x.pool = p /\ x.ok = FALSE
    BY <2>1 DEF Walk
  <2> QED BY <1>1, <2>2
<1>2. CASE p # {}
  <2>1. x = [y EXCEPT !.at = r]
    <3>1. Walk(m, p, c).mem = m /\ Walk(m, p, c).pool = p
      BY DEF Walk
    <3> QED BY <1>2, <3>1, Zenon DEF BuildTables
  <2>2. r \in p /\ r \in Frames
    BY <1>2, MinIn, FramesNat
  <2> HIDE DEF r
  <2>3. \E A : Built(w, r, m, q, 0, A)
    BY <2>2, EmptyRoot
  <2>4. w.at = r
    OBVIOUS
  <2> HIDE DEF w, q
  <2>5. PICK C : Built(h, r, m, q, Rounded \div Fan, C) /\ h.at = r
    BY <2>3, <2>4, HhdmBuilt
  <2> HIDE DEF h, x
  <2>6. /\ h = [mem |-> h.mem, pool |-> h.pool, at |-> h.at, ok |-> h.ok] /\ h.ok \in BOOLEAN
        /\ Base(h.mem, h.pool, C, r)
        /\ h.pool \subseteq q /\ All(C) = {r} \cup (q \ h.pool)
        /\ \A f \in Frames \ All(C) : h.mem[f] = m[f]
        /\ \A u \in VirtPages \ HhdmPages : NotLarge(h.mem, r, u)
        /\ h.ok => \A u \in VirtPages :
               Lookup(h.mem, r, u) = IF u - Hhdm(0) \in 0..((Rounded \div Fan) * Fan - 1)
                                     THEN Leaf(u - Hhdm(0), "kernel") ELSE NotPresent
    BY <2>5 DEF Built
  <2>7. /\ Image \in VirtPages /\ NotLarge(h.mem, r, Image)
        /\ ImageFrame \in Nat /\ "kernel" \in Prots
    BY <2>6, Geometry, FramesNat DEF Prots
  <2>8. PICK D : Mapped(y, h, C, r, Image, e, D)
    BY <2>5, <2>6, <2>7, MapPageDoes
  <2> HIDE DEF y, e
  <2>9. /\ y = [mem |-> y.mem, pool |-> y.pool, at |-> y.at, ok |-> y.ok] /\ y.ok \in BOOLEAN
        /\ Base(y.mem, y.pool, D, r)
        /\ y.pool \subseteq h.pool /\ All(D) = All(C) \cup (h.pool \ y.pool)
        /\ y.ok => h.ok /\ Lookup(y.mem, r, Image) = e
        /\ \A u \in VirtPages :
              /\ u # Image \/ ~y.ok => Lookup(y.mem, r, u) = Lookup(h.mem, r, u)
              /\ NotLarge(h.mem, r, u) => NotLarge(y.mem, r, u)
        /\ \A f \in Frames \ All(D) : y.mem[f] = h.mem[f]
    BY <2>8 DEF Mapped
  <2>10. x.mem = y.mem /\ x.pool = y.pool /\ x.at = r /\ x.ok = y.ok
    BY <2>1, <2>9
  <2>11. x.pool \subseteq p /\ All(D) = p \ x.pool
    BY <2>2, <2>6, <2>9, <2>10 DEF q
  <2>12. \A f \in Frames \ All(D) : x.mem[f] = m[f]
    BY <2>6, <2>9, <2>10
  <2>13. \A u \in VirtPages \ HhdmPages : NotLarge(x.mem, x.at, u)
    BY <2>6, <2>9, <2>10
  <2>14. ASSUME x.ok, NEW u \in VirtPages PROVE Lookup(x.mem, x.at, u) = KernelLeaf(u)
    <3>1. CASE u = Image
      BY <2>9, <2>10, <2>14, <3>1 DEF KernelLeaf, e
    <3>2. CASE u # Image
      <4>1. (Rounded \div Fan) * Fan = Rounded
        BY Geometry, Sizes
      <4>2. u - Hhdm(0) \in 0..((Rounded \div Fan) * Fan - 1) <=> u \in HhdmPages
        <5>1. u \in Int /\ Hhdm(0) \in Int /\ Span[4] \in Int /\ Hhdm(0) = Span[4]
          BY Sizes, Geometry
        <5>2. \A f \in Frames : f \in Int /\ Hhdm(f) = Span[4] + f
          BY FramesNat DEF Hhdm
        <5>3. ASSUME u - Hhdm(0) \in Frames PROVE u \in HhdmPages
          <6> DEFINE f == u - Hhdm(0)
          <6>1. u = Span[4] + f /\ f \in Frames
            BY <5>1, <5>3
          <6> QED BY <5>2, <6>1 DEF HhdmPages
        <5>4. ASSUME u \in HhdmPages PROVE u - Hhdm(0) \in Frames
          <6>1. PICK f \in Frames : u = Hhdm(f)
            BY <5>4 DEF HhdmPages
          <6>2. u - Hhdm(0) = f
            BY <5>1, <5>2, <6>1
          <6> QED BY <6>2
        <5> QED BY <4>1, <5>3, <5>4 DEF Frames
      <4>3. Lookup(x.mem, x.at, u) = Lookup(h.mem, r, u) /\ h.ok
        BY <2>9, <2>10, <2>14, <3>2
      <4> QED BY <2>6, <3>2, <4>2, <4>3 DEF KernelLeaf
    <3> QED BY <3>1, <3>2
  <2>15. NewTables(x, m, p, D)
    BY <2>9, <2>10, <2>11, <2>12, <2>13, <2>14 DEF NewTables
  <2> QED BY <1>2, <2>15 DEF x
<1> QED BY <1>1, <1>2

-----------------------------------------------------------------------------
(* What the steps do to the tables in use.                                 *)

(* What the abstract address space sees. *)
AbsMapped    == [v \in Pages |-> Translate(v)]
AbsInstalled == pc \in {"release", "run"}

AbsNext ==
    \/ /\ last' # NoCall
       /\ AbsMapped' = [AbsMapped EXCEPT ![last'.page] = last'.leaf]
       /\ AbsInstalled' = AbsInstalled
    \/ last' = NoCall /\ AbsMapped' = AbsMapped /\ AbsInstalled' = AbsInstalled
    \/ /\ ~AbsInstalled /\ AbsInstalled' = TRUE
       /\ AbsMapped' = [v \in Pages |-> KernelLeaf(v)]
       /\ last' = NoCall
    \/ UNCHANGED <<AbsMapped, AbsInstalled, last>>

(* The tables of the module are those of the tree. *)
LEMMA TablesAll == Tables = All(Levels) /\ Tables' = All(Levels')
  BY DEF Tables, All, Levels, LevelsOf, T4, T3, T2, T1

(* What is written outside the tables does not matter to them. *)
LEMMA FrameTree ==
    ASSUME NEW m, NEW A, NEW r, Tree(m, A, r), NEW n \in Mems,
           \A f \in All(A) : n[f] = m[f]
    PROVE  /\ Tree(n, A, r)
           /\ NotGlobal(m, A) => NotGlobal(n, A)
           /\ \A u \in VirtPages :
                 /\ Lookup(n, r, u) = Lookup(m, r, u)
                 /\ NotLarge(m, r, u) => NotLarge(n, r, u)
<1>1. \A k \in 1..4 : \A t \in A[k] : n[t] = m[t]
  BY LevelsApart
<1>2. Tree(n, A, r)
  <2>1. \A k \in 2..4 : \A t \in A[k] : n[t] = m[t]
    BY <1>1
  <2>2. \A k \in 2..4 : \A t \in A[k], i \in Index :
           IsLink(n[t][i]) => n[t][i].frame \in A[k - 1]
    BY <2>1, TreeFacts, SMTT(30)
  <2>3. ASSUME NEW k \in 2..4, NEW f \in A[k - 1]
        PROVE  \E t \in A[k], i \in Index : IsLink(n[t][i]) /\ n[t][i].frame = f
    <3>1. PICK t \in A[k], i \in Index : IsLink(m[t][i]) /\ m[t][i].frame = f
      BY TreeFacts
    <3> QED BY <2>1, <3>1
  <2>4. ASSUME NEW k \in 2..4, NEW t \in A[k], NEW u \in A[k], NEW i \in Index, NEW j \in Index,
               IsLink(n[t][i]), IsLink(n[u][j]), n[t][i].frame = n[u][j].frame
        PROVE  t = u /\ i = j
    <3>1. IsLink(m[t][i]) /\ IsLink(m[u][j]) /\ m[t][i].frame = m[u][j].frame
      BY <2>1, <2>4
    <3> QED BY <3>1, TreeFacts
  <2>5. \A t \in A[4] \cup A[1], i \in Index : ~n[t][i].huge
    BY <1>1, TreeFacts
  <2>6. A \in [1..4 -> SUBSET Frames] /\ A[4] = {r} /\ \A j, k \in 1..4 : j # k => A[j] \cap A[k] = {}
    BY TreeFacts
  <2> QED BY <2>2, <2>3, <2>4, <2>5, <2>6 DEF Tree
<1>3. NotGlobal(m, A) => NotGlobal(n, A)
  BY <1>1 DEF NotGlobal
<1>4. ASSUME NEW u \in VirtPages
      PROVE  /\ Lookup(n, r, u) = Lookup(m, r, u)
             /\ NotLarge(m, r, u) => NotLarge(n, r, u)
  <2>1. \A t \in A[4] \cup A[3] \cup A[2] \cup A[1] : n[t] = m[t]
    BY DEF All
  <2>2. E4(n, r, u) = E4(m, r, u)
    BY <2>1, PathIn DEF E4
  <2>3. E4(m, r, u).present => E3(n, r, u) = E3(m, r, u)
    BY <2>1, <2>2, PathIn DEF E3
  <2>4. E4(m, r, u).present /\ IsLink(E3(m, r, u)) => E2(n, r, u) = E2(m, r, u)
    BY <2>1, <2>3, PathIn DEF E2
  <2>5. E4(m, r, u).present /\ IsLink(E3(m, r, u)) /\ IsLink(E2(m, r, u)) => E1(n, r, u) = E1(m, r, u)
    BY <2>1, <2>4, PathIn DEF E1
  <2> QED BY <2>2, <2>3, <2>4, <2>5, LookupIs DEF IsLink
<1> QED BY <1>2, <1>3, <1>4

(* A page is global only if its entry is. *)
LEMMA LookupNotGlobal ==
    ASSUME NEW m, NEW A, NEW r, Tree(m, A, r), NotGlobal(m, A), NEW u \in VirtPages
    PROVE  Lookup(m, r, u).prot # "kernel"
<1>1. \A t \in A[3] \cup A[2] \cup A[1], i \in Index : m[t][i].prot # "kernel"
  BY DEF NotGlobal
<1>2. E4(m, r, u).present => E3(m, r, u).prot # "kernel"
  BY <1>1, PathIn DEF E3
<1>3. E4(m, r, u).present /\ IsLink(E3(m, r, u)) => E2(m, r, u).prot # "kernel"
  BY <1>1, PathIn DEF E2
<1>4. E4(m, r, u).present /\ IsLink(E3(m, r, u)) /\ IsLink(E2(m, r, u)) => E1(m, r, u).prot # "kernel"
  BY <1>1, PathIn DEF E1
<1>5. \A f, q : Leaf(f, q).prot = q
  BY DEF Leaf
<1> QED BY <1>2, <1>3, <1>4, <1>5, LookupIs, EntryTypes DEF IsLink

(* The pages of the calls. *)
LEMMA CallPagesAre ==
    /\ CallPages \subseteq VirtPages /\ RunPages \subseteq CallPages
    /\ \A v \in RunPages, n \in MmioLens : v..(v + n - 1) \subseteq CallPages
<1>1. RunPages \subseteq VirtPages /\ MmioLens \subseteq Nat
      /\ \A v \in RunPages, n \in MmioLens : v + n - 1 \in VirtPages
  BY PageTablesAssumption
<1>3. ASSUME NEW v \in RunPages, NEW n \in MmioLens, NEW u \in v..(v + n - 1)
      PROVE  u \in VirtPages
  <2> DEFINE e == Fan * Span[4]
  <2>1. e \in Nat
    BY Sizes
  <2>2. v \in 0..(e - 1) /\ v + n - 1 \in 0..(e - 1) /\ n \in Nat
    BY <1>1 DEF VirtPages
  <2> HIDE DEF e
  <2>3. u \in 0..(e - 1)
    BY <2>1, <2>2
  <2> QED BY <2>3 DEF e, VirtPages
<1> QED BY <1>1, <1>3 DEF CallPages

(* map over the tables in use. *)
LEMMA MapEffect ==
    ASSUME NEW v \in VirtPages, NEW f \in Nat, NEW prot \in Prots, NEW w,
           w = MapPage(Walk(mem, pool, cr3), v, f, prot),
           Tree(mem, Levels, cr3), pool \subseteq Ram, All(Levels) \cap pool = {},
           NotLarge(mem, cr3, v),
           mem' = w.mem, pool' = w.pool, cr3' = cr3,
           IF w.ok THEN Invlpg(v) ELSE UNCHANGED tlb,
           last' = IF w.ok THEN [page |-> v, leaf |-> Leaf(f, prot)] ELSE NoCall
    PROVE  /\ Tree(mem', Levels', cr3') /\ pool' \subseteq pool
           /\ All(Levels') = All(Levels) \cup (pool \ pool') /\ All(Levels') \cap pool' = {}
           /\ \A u \in VirtPages : NotLarge(mem, cr3, u) => NotLarge(mem', cr3', u)
           /\ NotGlobal(mem, Levels) /\ prot # "kernel" => NotGlobal(mem', Levels')
           /\ (\A t \in tlb : t.page \in VirtPages) /\ TlbCoherent
                  => TlbCoherent' /\ \A t \in tlb' : t.page \in VirtPages
           /\ IF last' = NoCall THEN AbsMapped' = AbsMapped
              ELSE AbsMapped' = [AbsMapped EXCEPT ![last'.page] = last'.leaf]
           /\ w.ok \in BOOLEAN /\ MapTakesEffect'
<1> DEFINE a == Walk(mem, pool, cr3)
           e == Leaf(f, prot)
<1>1. a = [mem |-> mem, pool |-> pool, at |-> cr3, ok |-> TRUE]
  BY DEF Walk
<1>2. /\ a.mem = mem /\ a.pool = pool /\ a.at = cr3 /\ a.ok = TRUE
      /\ a = [mem |-> a.mem, pool |-> a.pool, at |-> a.at, ok |-> a.ok] /\ a.ok \in BOOLEAN
  BY <1>1
<1> HIDE DEF a
<1>3. Base(a.mem, a.pool, Levels, cr3) /\ NotLarge(a.mem, cr3, v)
  BY <1>2, Geometry DEF Base
<1>4. PICK C : Mapped(MapPage(a, v, f, prot), a, Levels, cr3, v, Leaf(f, prot), C)
  BY <1>2, <1>3, MapPageDoes
<1>5. Mapped(w, a, Levels, cr3, v, e, C)
  BY <1>4 DEF a
<1>6. e.prot = prot /\ e = Leaf(f, prot)
  BY EntryTypes
<1> HIDE DEF e
<1>7. /\ Tree(mem', C, cr3') /\ pool' \subseteq pool /\ pool' \cap All(C) = {}
      /\ All(C) = All(Levels) \cup (pool \ pool') /\ w.ok \in BOOLEAN
      /\ w.ok => Lookup(mem', cr3, v) = e
      /\ \A u \in VirtPages :
            /\ u # v \/ ~w.ok => Lookup(mem', cr3, u) = Lookup(mem, cr3, u)
            /\ NotLarge(mem, cr3, u) => NotLarge(mem', cr3, u)
      /\ NotGlobal(mem, Levels) /\ e.prot # "kernel" => NotGlobal(mem', C)
  BY <1>2, <1>5 DEF Mapped, Base
<1>8. Levels' = C
  BY <1>7, LevelsAre, ZenonT(40) DEF Levels
<1>9. (\A t \in tlb : t.page \in VirtPages) /\ TlbCoherent
          => TlbCoherent' /\ \A t \in tlb' : t.page \in VirtPages
  <2> SUFFICES ASSUME \A t \in tlb : t.page \in VirtPages, TlbCoherent
               PROVE  TlbCoherent' /\ \A t \in tlb' : t.page \in VirtPages
    OBVIOUS
  <2>1. \A t \in tlb' : t \in tlb /\ (t.page # v \/ ~w.ok)
    BY DEF Invlpg
  <2>2. \A t \in tlb' : Lookup(mem', cr3', t.page) = Leaf(t.frame, t.prot)
    BY <1>7, <2>1 DEF TlbCoherent, Translate
  <2> QED BY <2>1, <2>2 DEF TlbCoherent, Translate
<1>10. last' = NoCall <=> ~w.ok
  <2>1. [page |-> v, leaf |-> e] # NoCall
    <3>1. v # -1
      BY Sizes
    <3>2. [page |-> v, leaf |-> e].page = v /\ NoCall.page = -1
      BY DEF NoCall, Unmapped
    <3> QED BY <3>1, <3>2
  <2> QED BY <1>6, <1>7, <2>1
<1>15. MapTakesEffect'
  <2> SUFFICES ASSUME last' # NoCall PROVE Lookup(mem', cr3', last'.page) = last'.leaf
    BY DEF MapTakesEffect, Translate
  <2>1. w.ok /\ last'.page = v /\ last'.leaf = e
    BY <1>6, <1>7, <1>10
  <2> QED BY <1>7, <2>1
<1>11. \A u \in Pages : u \in VirtPages
  BY DEF Pages
<1>12. AbsMapped' = [u \in Pages |-> Lookup(mem', cr3, u)] /\ AbsMapped = [u \in Pages |-> Lookup(mem, cr3, u)]
  BY DEF AbsMapped, Translate
<1>13. CASE ~w.ok
  BY <1>6, <1>7, <1>8, <1>9, <1>10, <1>11, <1>12, <1>13, <1>15
<1>14. CASE w.ok
  <2>1. last'.page = v /\ last'.leaf = e
    BY <1>6, <1>14
  <2>2. AbsMapped' = [AbsMapped EXCEPT ![v] = e]
    BY <1>7, <1>11, <1>12, <1>14
  <2>3. AbsMapped' = [AbsMapped EXCEPT ![last'.page] = last'.leaf]
    BY <2>1, <2>2
  <2> QED BY <1>6, <1>7, <1>8, <1>9, <1>10, <1>14, <1>15, <2>3
<1> QED BY <1>7, <1>13, <1>14

(* unmap finds the table that the page's entry is in. *)
LEMMA LeafTableIs ==
    ASSUME Tree(mem, Levels, cr3), NEW v \in VirtPages, LeafTable(v) # Unmapped
    PROVE  Reach(mem, cr3, v, 1, LeafTable(v))
<1> DEFINE a == Existing(mem, cr3, v, 4)
           b == Existing(mem, a, v, 3)
           c == Existing(mem, b, v, 2)
<1>1. ~NotPresent.present /\ Unmapped = -1
  BY EntryTypes DEF Unmapped
<1>2. c # Unmapped /\ c = LeafTable(v)
  BY DEF LeafTable
<1>3. b # Unmapped /\ IsLink(mem[b][At(v, 2)]) /\ c = mem[b][At(v, 2)].frame
  BY <1>1, <1>2 DEF Existing, IsLink
<1>4. a # Unmapped /\ IsLink(mem[a][At(v, 3)]) /\ b = mem[a][At(v, 3)].frame
  <2> HIDE DEF a
  <2> QED BY <1>1, <1>3 DEF Existing, IsLink
<1>5. IsLink(E4(mem, cr3, v)) /\ a = E4(mem, cr3, v).frame
  BY <1>1, <1>4 DEF Existing, IsLink, E4
<1> HIDE DEF a, b, c
<1>6. IsLink(E3(mem, cr3, v)) /\ b = E3(mem, cr3, v).frame
  BY <1>4, <1>5 DEF E3
<1>7. IsLink(E2(mem, cr3, v)) /\ c = E2(mem, cr3, v).frame
  BY <1>3, <1>6 DEF E2
<1> QED BY <1>2, <1>5, <1>6, <1>7 DEF Reach

(* unmap over the tables in use. *)
LEMMA UnmapEffect ==
    ASSUME NEW v \in VirtPages, Tree(mem, Levels, cr3), UnmapPage(v), cr3' = cr3
    PROVE  /\ Tree(mem', Levels', cr3') /\ Levels' = Levels
           /\ \A u \in VirtPages : NotLarge(mem, cr3, u) => NotLarge(mem', cr3', u)
           /\ NotGlobal(mem, Levels) => NotGlobal(mem', Levels')
           /\ (\A t \in tlb : t.page \in VirtPages) /\ TlbCoherent
                  => TlbCoherent' /\ \A t \in tlb' : t.page \in VirtPages
           /\ IF last' = NoCall THEN AbsMapped' = AbsMapped
              ELSE AbsMapped' = [AbsMapped EXCEPT ![last'.page] = last'.leaf]
           /\ MapTakesEffect'
<1>1. CASE LeafTable(v) = Unmapped
  BY <1>1 DEF UnmapPage, Levels, TlbCoherent, Translate, AbsMapped, MapTakesEffect
<1>2. CASE LeafTable(v) # Unmapped
  <2> DEFINE t == LeafTable(v)
             i == At(v, 1)
  <2>1. /\ mem' = [mem EXCEPT ![t][i] = NotPresent]
        /\ last' = [page |-> v, leaf |-> NotPresent]
        /\ tlb' = {x \in tlb : x.page # v}
    BY <1>2 DEF UnmapPage, Invlpg
  <2>2. Reach(mem, cr3, v, 1, t)
    BY <1>2, LeafTableIs
  <2>3. t \in Frames /\ i \in Index /\ mem \in Mems
    BY <2>2, ReachIn, LevelsApart, TreeFacts
  <2> HIDE DEF t, i
  <2>4. Writes(mem, t, i, NotPresent, mem')
    BY <2>1, <2>3, WriteIs, EntryTypes
  <2>5. /\ Tree(mem', Levels, cr3)
        /\ \A u \in VirtPages :
              /\ NotLarge(mem, cr3, u) => NotLarge(mem', cr3, u)
              /\ u # v => Lookup(mem', cr3, u) = Lookup(mem, cr3, u)
        /\ Lookup(mem', cr3, v) = NotPresent
    BY <2>2, <2>4, WriteLeaf, EntryTypes DEF i
  <2>6. Levels' = Levels
    BY <2>5, LevelsAre DEF Levels
  <2>7. NotGlobal(mem, Levels) => NotGlobal(mem', Levels)
    <3> SUFFICES ASSUME NotGlobal(mem, Levels), NEW k \in 1..3, NEW s \in Levels[k], NEW j \in Index
                 PROVE  mem'[s][j].prot # "kernel"
      BY DEF NotGlobal
    <3>1. s \in Frames /\ mem[s][j].prot # "kernel"
      BY TreeFacts DEF NotGlobal
    <3> QED BY <2>4, <3>1, EntryTypes DEF Writes
  <2>8. (\A x \in tlb : x.page \in VirtPages) /\ TlbCoherent
            => TlbCoherent' /\ \A x \in tlb' : x.page \in VirtPages
    BY <2>1, <2>5 DEF TlbCoherent, Translate
  <2>9. last' # NoCall /\ last'.page = v /\ last'.leaf = NotPresent
    <3>1. v # -1
      BY Sizes
    <3>2. [page |-> v, leaf |-> NotPresent].page = v /\ NoCall.page = -1
      BY DEF NoCall, Unmapped
    <3> QED BY <2>1, <3>1, <3>2
  <2>10. AbsMapped' = [AbsMapped EXCEPT ![v] = NotPresent]
    <3>1. \A u \in Pages : u \in VirtPages
      BY DEF Pages
    <3> QED BY <2>5, <3>1 DEF AbsMapped, Translate
  <2>11. MapTakesEffect'
    BY <2>5, <2>9 DEF MapTakesEffect, Translate
  <2> QED BY <2>5, <2>6, <2>7, <2>8, <2>9, <2>10, <2>11
<1> QED BY <1>1, <1>2

-----------------------------------------------------------------------------
(* The initial states.                                                     *)

(* What the bootloader hands over is a tree. *)
LEMMA LimineTree ==
    /\ Tree(LimineMem, LevelsOf(LimineMem, LimineRoot), LimineRoot)
    /\ All(LevelsOf(LimineMem, LimineRoot)) \subseteq LimineFrames
    /\ NotGlobal(LimineMem, LevelsOf(LimineMem, LimineRoot))
<1> DEFINE m == LimineMem
           t4 == {LimineRoot}
           t3 == Below(t4, m)
           t2 == Below(t3, m)
           t1 == Below(t2, m)
           A == LevelsOf(m, LimineRoot)
<1>1. A = [k \in 1..4 |-> IF k = 4 THEN t4 ELSE IF k = 3 THEN t3 ELSE IF k = 2 THEN t2 ELSE t1]
  BY Zenon DEF LevelsOf
<1>2. /\ m \in [Frames -> [Index -> Entries]]
      /\ LimineFrames \subseteq Ram
      /\ t4 \cup t3 \cup t2 \cup t1 \subseteq LimineFrames
      /\ LimineRoot \notin t3 \cup t2 \cup t1
      /\ t3 \cap t2 = {} /\ t3 \cap t1 = {} /\ t2 \cap t1 = {}
      /\ \A x, y \in Links(t4 \cup t3 \cup t2, m) : m[x[1]][x[2]].frame = m[y[1]][y[2]].frame => x = y
      /\ \A t \in t4 \cup t1, i \in Index : ~m[t][i].huge
      /\ \A t \in t3 \cup t2 \cup t1, i \in Index : m[t][i].prot # "kernel"
  BY LimineAssumption
<1>3. ASSUME NEW ts
      PROVE  /\ \A t \in ts, i \in Index : IsLink(m[t][i]) => <<t, i>> \in Links(ts, m) /\ m[t][i].frame \in Below(ts, m)
             /\ \A f \in Below(ts, m) : \E t \in ts, i \in Index : IsLink(m[t][i]) /\ m[t][i].frame = f
  <2>1. \A t \in ts, i \in Index : IsLink(m[t][i]) => <<t, i>> \in Links(ts, m)
    BY DEF Links, IsLink
  <2>2. ASSUME NEW t \in ts, NEW i \in Index, IsLink(m[t][i]) PROVE m[t][i].frame \in Below(ts, m)
    <3>1. <<t, i>> \in Links(ts, m)
      BY <2>1, <2>2
    <3> QED BY <3>1 DEF Below
  <2>3. ASSUME NEW f \in Below(ts, m)
        PROVE  \E t \in ts, i \in Index : IsLink(m[t][i]) /\ m[t][i].frame = f
    <3>1. PICK x \in Links(ts, m) : f = m[x[1]][x[2]].frame
      BY <2>3 DEF Below
    <3>2. x[1] \in ts /\ x[2] \in Index /\ IsLink(m[x[1]][x[2]])
      BY <3>1 DEF Links, IsLink
    <3> QED BY <3>1, <3>2
  <2> QED BY <2>1, <2>2, <2>3
<1>4. ASSUME NEW t \in t4 \cup t3 \cup t2, NEW u \in t4 \cup t3 \cup t2, NEW i \in Index, NEW j \in Index,
             IsLink(m[t][i]), IsLink(m[u][j]), m[t][i].frame = m[u][j].frame
      PROVE  t = u /\ i = j
  <2> DEFINE ts == t4 \cup t3 \cup t2
  <2> HIDE DEF ts
  <2>1. <<t, i>> \in Links(ts, m) /\ <<u, j>> \in Links(ts, m)
    BY <1>3, <1>4 DEF ts
  <2>2. \A x, y \in Links(ts, m) : m[x[1]][x[2]].frame = m[y[1]][y[2]].frame => x = y
    BY <1>2 DEF ts
  <2>3. m[<<t, i>>[1]][<<t, i>>[2]].frame = m[<<u, j>>[1]][<<u, j>>[2]].frame
    BY <1>4
  <2>4. <<t, i>> = <<u, j>>
    BY <2>1, <2>2, <2>3
  <2> QED BY <2>4
<1>5. /\ \A t \in t4, i \in Index : IsLink(m[t][i]) => m[t][i].frame \in t3
      /\ \A t \in t3, i \in Index : IsLink(m[t][i]) => m[t][i].frame \in t2
      /\ \A t \in t2, i \in Index : IsLink(m[t][i]) => m[t][i].frame \in t1
      /\ \A f \in t3 : \E t \in t4, i \in Index : IsLink(m[t][i]) /\ m[t][i].frame = f
      /\ \A f \in t2 : \E t \in t3, i \in Index : IsLink(m[t][i]) /\ m[t][i].frame = f
      /\ \A f \in t1 : \E t \in t2, i \in Index : IsLink(m[t][i]) /\ m[t][i].frame = f
  <2>1. t3 = Below(t4, m) /\ t2 = Below(t3, m) /\ t1 = Below(t2, m)
    OBVIOUS
  <2> HIDE DEF t1, t2, t3, t4, m
  <2>2. /\ \A t \in t4, i \in Index : IsLink(m[t][i]) => m[t][i].frame \in t3
        /\ \A f \in t3 : \E t \in t4, i \in Index : IsLink(m[t][i]) /\ m[t][i].frame = f
    BY <1>3, <2>1
  <2>3. /\ \A t \in t3, i \in Index : IsLink(m[t][i]) => m[t][i].frame \in t2
        /\ \A f \in t2 : \E t \in t3, i \in Index : IsLink(m[t][i]) /\ m[t][i].frame = f
    BY <1>3, <2>1
  <2>4. /\ \A t \in t2, i \in Index : IsLink(m[t][i]) => m[t][i].frame \in t1
        /\ \A f \in t1 : \E t \in t2, i \in Index : IsLink(m[t][i]) /\ m[t][i].frame = f
    BY <1>3, <2>1
  <2> QED BY <2>2, <2>3, <2>4
<1>6. t4 = {LimineRoot}
  OBVIOUS
<1> HIDE DEF t1, t2, t3, t4, m
<1>7. A[4] = t4 /\ A[3] = t3 /\ A[2] = t2 /\ A[1] = t1
  BY <1>1
<1>8. Ram \subseteq Frames
  BY Geometry
<1>9. A \in [1..4 -> SUBSET Frames]
  <2>1. t4 \subseteq Frames /\ t3 \subseteq Frames /\ t2 \subseteq Frames /\ t1 \subseteq Frames
    BY <1>2, <1>8
  <2> QED BY <1>1, <2>1
<1> HIDE DEF A
<1>10. \A k \in 2..4 : \A t \in A[k], i \in Index : IsLink(m[t][i]) => m[t][i].frame \in A[k - 1]
  <2> TAKE k \in 2..4
  <2>1. (k = 4 /\ k - 1 = 3) \/ (k = 3 /\ k - 1 = 2) \/ (k = 2 /\ k - 1 = 1)
    OBVIOUS
  <2> QED BY <1>5, <1>7, <2>1
<1>11. \A k \in 2..4 : \A f \in A[k - 1] : \E t \in A[k], i \in Index : IsLink(m[t][i]) /\ m[t][i].frame = f
  <2> TAKE k \in 2..4
  <2>1. (k = 4 /\ k - 1 = 3) \/ (k = 3 /\ k - 1 = 2) \/ (k = 2 /\ k - 1 = 1)
    OBVIOUS
  <2> QED BY <1>5, <1>7, <2>1
<1>12. \A j, k \in 1..4 : j # k => A[j] \cap A[k] = {}
  <2>1. t4 \cap t3 = {} /\ t4 \cap t2 = {} /\ t4 \cap t1 = {}
    BY <1>2, <1>6
  <2>2. \A k \in 1..4 : k = 1 \/ k = 2 \/ k = 3 \/ k = 4
    OBVIOUS
  <2> QED BY <1>2, <1>7, <2>1, <2>2
<1>13. \A k \in 2..4 : A[k] \subseteq t4 \cup t3 \cup t2
  BY <1>7
<1>14. \A k \in 2..4 : \A t, u \in A[k], i, j \in Index :
           IsLink(m[t][i]) /\ IsLink(m[u][j]) /\ m[t][i].frame = m[u][j].frame
               => t = u /\ i = j
  BY <1>4, <1>13
<1>15. Tree(m, A, LimineRoot)
  BY <1>2, <1>6, <1>7, <1>9, <1>10, <1>11, <1>12, <1>14 DEF Tree, Mems
<1>16. All(A) \subseteq LimineFrames
  BY <1>2, <1>7 DEF All
<1>17. NotGlobal(m, A)
  <2>1. \A k \in 1..3 : A[k] \subseteq t3 \cup t2 \cup t1
    BY <1>7
  <2> QED BY <1>2, <2>1 DEF NotGlobal
<1> QED BY <1>15, <1>16, <1>17 DEF A, m

(* The invariant holds when kernel_main begins. *)
LEMMA InitInv ==
    ASSUME ClearOfLarge, Init
    PROVE  PTInv
<1>1. /\ mem = LimineMem /\ cr3 = LimineRoot /\ tlb = {} /\ pc = "lapic" /\ guard = Unmapped
      /\ mmio = NoMmio /\ orphans = {}
  BY DEF Init
<1>2. LimineFrames \subseteq Ram
  BY LimineAssumption
<1>3. /\ pool \subseteq Ram /\ hogged \subseteq Ram /\ pool \cap hogged = {}
      /\ LimineFrames \cap (pool \cup hogged) = {}
      /\ Ram \subseteq pool \cup hogged \cup LimineFrames \cup {ImageFrame}
  <2> DEFINE usable == Ram \ (LimineFrames \cup {ImageFrame})
  <2>1. PICK n : pool = Lowest(n, usable) /\ hogged = usable \ pool
    BY DEF Init
  <2>2. pool \subseteq usable
    <3> HIDE DEF usable
    <3> QED BY <2>1 DEF Lowest
  <2> QED BY <2>1, <2>2
<1>4. Levels = LevelsOf(LimineMem, LimineRoot)
  BY <1>1 DEF Levels
<1>5. Tree(mem, Levels, cr3) /\ All(Levels) \subseteq LimineFrames /\ NotGlobal(mem, Levels)
  BY <1>1, <1>4, LimineTree
<1>6. mmio \in [page : Int, frame : Nat, left : Nat] /\ mmio.left = 0
  BY <1>1 DEF NoMmio
<1>7. TypeInv
  BY <1>1, <1>3, <1>6 DEF TypeInv
<1>8. Apart
  BY <1>1, <1>3, <1>5 DEF Apart, Stack
<1>9. InLimine
  BY <1>1, <1>5 DEF InLimine, ClearOfLarge
<1>10. MmioInv
  BY <1>6 DEF MmioInv
<1>11. FramesAccounted
  BY <1>1, <1>3 DEF FramesAccounted
<1>12. TlbCoherent
  BY <1>1 DEF TlbCoherent
<1>13. MapTakesEffect
  BY DEF Init, MapTakesEffect
<1> QED BY <1>1, <1>5, <1>7, <1>8, <1>9, <1>10, <1>11, <1>12, <1>13 DEF PTInv

-----------------------------------------------------------------------------
(* The steps, one by one.                                                  *)

(* A call that sets a page or fails is a step of the abstract address space. *)
LEMMA CallStep ==
    ASSUME IF last' = NoCall THEN AbsMapped' = AbsMapped
           ELSE AbsMapped' = [AbsMapped EXCEPT ![last'.page] = last'.leaf],
           AbsInstalled' = AbsInstalled
    PROVE  AbsNext
  BY DEF AbsNext

(* kernel_main maps a device into Limine's tables. *)
LEMMA BootMapInv ==
    ASSUME PTInv, pc \in {"lapic", "fb"}, NEW f \in {Lapic, Fb}, NEW prot \in {"uc", "wc"},
           NEW next \in {"fb", "stack"}, BootMap(f, prot, next)
    PROVE  PTInv' /\ AbsNext
<1> DEFINE w == MapPage(Walk(mem, pool, cr3), Hhdm(f), f, prot)
           v == Hhdm(f)
<1>1. /\ mem' = w.mem /\ pool' = w.pool /\ orphans' = orphans \cup (pool \ pool')
      /\ pc' = IF w.ok THEN next ELSE "panic"
      /\ last' = IF w.ok THEN [page |-> v, leaf |-> Leaf(f, prot)] ELSE NoCall
      /\ IF w.ok THEN Invlpg(v) ELSE UNCHANGED tlb
      /\ cr3' = cr3 /\ guard' = guard /\ mmio' = mmio /\ hogged' = hogged /\ Stack' = Stack
  BY DEF BootMap, Stack
<1>2. /\ TypeInv /\ Tree(mem, Levels, cr3) /\ Apart /\ InLimine /\ MmioInv
      /\ FramesAccounted /\ TlbCoherent
  BY DEF PTInv, Booting
<1>3. f \in Nat /\ prot \in Prots /\ prot # "kernel" /\ v \in VirtPages
  <2>1. {Lapic, Fb} \subseteq RamFrames..(Span[4] - 1) /\ RamFrames \in Nat
    BY PageTablesAssumption
  <2>2. f \in Nat
    BY <2>1, Sizes
  <2> QED BY <2>2, Geometry DEF Prots
<1>4. /\ pool \subseteq Ram /\ All(Levels) \cap pool = {} /\ NotLarge(mem, cr3, v)
      /\ \A t \in tlb : t.page \in VirtPages
  BY <1>2 DEF TypeInv, Apart, InLimine
<1> HIDE DEF w, v
<1>5. /\ Tree(mem', Levels', cr3') /\ pool' \subseteq pool
      /\ All(Levels') = All(Levels) \cup (pool \ pool') /\ All(Levels') \cap pool' = {}
      /\ \A u \in VirtPages : NotLarge(mem, cr3, u) => NotLarge(mem', cr3', u)
      /\ NotGlobal(mem, Levels) => NotGlobal(mem', Levels')
      /\ TlbCoherent' /\ MapTakesEffect' /\ (\A t \in tlb' : t.page \in VirtPages)
      /\ IF last' = NoCall THEN AbsMapped' = AbsMapped
         ELSE AbsMapped' = [AbsMapped EXCEPT ![last'.page] = last'.leaf]
  <2>1. w = MapPage(Walk(mem, pool, cr3), v, f, prot)
    BY DEF w, v
  <2> QED BY <1>1, <1>2, <1>3, <1>4, <2>1, MapEffect
<1>6. pc' \in {"fb", "stack", "panic"}
  BY <1>1
<1>7. TypeInv'
  BY <1>1, <1>2, <1>5, <1>6 DEF TypeInv
<1>8. Apart'
  BY <1>1, <1>2, <1>5, <1>6 DEF Apart
<1>9. InLimine'
  <2>1. All(Levels') \subseteq LimineFrames \cup orphans'
    BY <1>1, <1>2, <1>5 DEF InLimine
  <2>2. \A g \in {Lapic, Fb} : Hhdm(g) \in VirtPages /\ NotLarge(mem', cr3', Hhdm(g))
    BY <1>2, <1>5, Geometry DEF InLimine
  <2> QED BY <1>2, <1>5, <2>1, <2>2 DEF InLimine
<1>10. MmioInv'
  BY <1>1, <1>2 DEF MmioInv
<1>11. FramesAccounted'
  <2>1. Tables = All(Levels) /\ Tables' = All(Levels')
    BY TablesAll
  <2>2. pc # "panic" /\ pc # "run" /\ pc' # "run"
    BY <1>6
  <2> QED BY <1>1, <1>2, <1>5, <2>1, <2>2 DEF FramesAccounted
<1>12. AbsNext
  BY <1>5, <1>6, CallStep DEF AbsInstalled
<1> QED BY <1>5, <1>6, <1>7, <1>8, <1>9, <1>10, <1>11, <1>12 DEF PTInv

(* The running kernel maps a page. *)
LEMMA MapInv ==
    ASSUME ClearOfLarge, PTInv, pc = "run", NEW v \in CallPages, NEW f \in Nat, NEW prot \in Prots,
           Map(v, f, prot), MmioInv', mmio' \in [page : Int, frame : Nat, left : Nat]
    PROVE  PTInv' /\ AbsNext
<1> DEFINE w == MapPage(Walk(mem, pool, cr3), v, f, prot)
<1>1. /\ mem' = w.mem /\ pool' = w.pool /\ orphans' = orphans
      /\ last' = IF w.ok THEN [page |-> v, leaf |-> Leaf(f, prot)] ELSE NoCall
      /\ IF w.ok THEN Invlpg(v) ELSE UNCHANGED tlb
      /\ cr3' = cr3 /\ guard' = guard /\ hogged' = hogged /\ pc' = "run" /\ Stack' = Stack
  BY DEF Map, Stack
<1>2. /\ TypeInv /\ Tree(mem, Levels, cr3) /\ Apart /\ InKernel
      /\ FramesAccounted /\ TlbCoherent
  BY DEF PTInv
<1>3. v \in VirtPages /\ v \notin HhdmPages
  BY CallPagesAre DEF ClearOfLarge
<1>4. /\ pool \subseteq Ram /\ All(Levels) \cap pool = {} /\ NotLarge(mem, cr3, v)
      /\ \A t \in tlb : t.page \in VirtPages
  BY <1>2, <1>3 DEF TypeInv, Apart, InKernel
<1>5. w = MapPage(Walk(mem, pool, cr3), v, f, prot)
  OBVIOUS
<1> HIDE DEF w
<1>6. /\ Tree(mem', Levels', cr3') /\ pool' \subseteq pool
      /\ All(Levels') = All(Levels) \cup (pool \ pool') /\ All(Levels') \cap pool' = {}
      /\ \A u \in VirtPages : NotLarge(mem, cr3, u) => NotLarge(mem', cr3', u)
      /\ TlbCoherent' /\ MapTakesEffect' /\ (\A t \in tlb' : t.page \in VirtPages)
      /\ IF last' = NoCall THEN AbsMapped' = AbsMapped
         ELSE AbsMapped' = [AbsMapped EXCEPT ![last'.page] = last'.leaf]
  BY <1>1, <1>2, <1>3, <1>4, <1>5, MapEffect
<1>7. TypeInv'
  BY <1>1, <1>2, <1>6 DEF TypeInv
<1>8. Apart'
  BY <1>1, <1>2, <1>6 DEF Apart
<1>9. InKernel'
  BY <1>2, <1>6 DEF InKernel
<1>10. FramesAccounted'
  <2>1. Tables = All(Levels) /\ Tables' = All(Levels')
    BY TablesAll
  <2> QED BY <1>1, <1>2, <1>6, <2>1 DEF FramesAccounted
<1>11. AbsNext
  BY <1>1, <1>6, CallStep DEF AbsInstalled
<1> QED BY <1>1, <1>6, <1>7, <1>8, <1>9, <1>10, <1>11 DEF PTInv, Booting

(* The running kernel unmaps a page. *)
LEMMA UnmapInv ==
    ASSUME PTInv, NEW v \in RunPages, Unmap(v)
    PROVE  PTInv' /\ AbsNext
<1>1. /\ pc = "run" /\ UnmapPage(v) /\ mmio.left = 0
      /\ UNCHANGED <<pool, cr3, pc, lapic, guard, mmio, hogged, orphans>> /\ Stack' = Stack
  BY DEF Unmap, Stack
<1>2. /\ TypeInv /\ Tree(mem, Levels, cr3) /\ Apart /\ InKernel
      /\ FramesAccounted /\ TlbCoherent
  BY <1>1 DEF PTInv
<1>3. v \in VirtPages
  BY CallPagesAre
<1>4. /\ Tree(mem', Levels', cr3') /\ Levels' = Levels
      /\ \A u \in VirtPages : NotLarge(mem, cr3, u) => NotLarge(mem', cr3', u)
      /\ TlbCoherent' /\ MapTakesEffect' /\ (\A t \in tlb' : t.page \in VirtPages)
      /\ IF last' = NoCall THEN AbsMapped' = AbsMapped
         ELSE AbsMapped' = [AbsMapped EXCEPT ![last'.page] = last'.leaf]
  <2>1. \A t \in tlb : t.page \in VirtPages
    BY <1>2 DEF TypeInv
  <2> QED BY <1>1, <1>2, <1>3, <2>1, UnmapEffect
<1>5. TypeInv'
  BY <1>1, <1>2, <1>4 DEF TypeInv
<1>6. Apart'
  BY <1>1, <1>2, <1>4 DEF Apart
<1>7. InKernel'
  BY <1>2, <1>4 DEF InKernel
<1>8. FramesAccounted'
  BY <1>1, <1>2, <1>4, TablesAll DEF FramesAccounted
<1>9. MmioInv'
  BY <1>1 DEF MmioInv
<1>10. AbsNext
  BY <1>1, <1>4, CallStep DEF AbsInstalled
<1> QED BY <1>1, <1>4, <1>5, <1>6, <1>7, <1>8, <1>9, <1>10 DEF PTInv, Booting

(* The stack: its guard page is unmapped in Limine's tables. *)
LEMMA AllocStackInv ==
    ASSUME PTInv, AllocStack
    PROVE  PTInv' /\ AbsNext
<1> DEFINE f == Min(StackBlocks)
<1>1. /\ pc = "stack" /\ StackBlocks # {} /\ pool' = pool \ {f, f + 1}
      /\ UnmapPage(Hhdm(f)) /\ guard' = f /\ pc' = "pml4"
      /\ UNCHANGED <<cr3, lapic, mmio, hogged, orphans>>
  BY DEF AllocStack
<1>2. /\ TypeInv /\ Tree(mem, Levels, cr3) /\ Apart /\ InLimine /\ MmioInv
      /\ FramesAccounted /\ TlbCoherent
  BY <1>1 DEF PTInv, Booting
<1>3. f \in pool /\ f + 1 \in pool /\ f \in Ram /\ f \in Frames /\ f # Unmapped
  <2>1. StackBlocks \in SUBSET Nat
    BY <1>2, Geometry, FramesNat DEF StackBlocks, TypeInv
  <2>2. f \in StackBlocks
    BY <1>1, <2>1, MinIn
  <2> HIDE DEF f
  <2> QED BY <1>2, <2>1, <2>2, Geometry DEF StackBlocks, TypeInv, Unmapped
<1> HIDE DEF f
<1>4. Hhdm(f) \in VirtPages
  BY <1>3, Geometry
<1>0. Stack = {} /\ Stack' = {f, f + 1}
  BY <1>1, <1>2, <1>3 DEF Stack, TypeInv
<1>5. /\ Tree(mem', Levels', cr3') /\ Levels' = Levels
      /\ NotGlobal(mem, Levels) => NotGlobal(mem', Levels')
      /\ TlbCoherent' /\ MapTakesEffect' /\ (\A t \in tlb' : t.page \in VirtPages)
      /\ IF last' = NoCall THEN AbsMapped' = AbsMapped
         ELSE AbsMapped' = [AbsMapped EXCEPT ![last'.page] = last'.leaf]
  <2>1. \A t \in tlb : t.page \in VirtPages
    BY <1>2 DEF TypeInv
  <2> QED BY <1>1, <1>2, <1>4, <2>1, UnmapEffect
<1>6. TypeInv'
  BY <1>1, <1>2, <1>3, <1>5 DEF TypeInv
<1>7. Apart'
  BY <1>0, <1>1, <1>2, <1>3, <1>5 DEF Apart
<1>8. InLimine'
  BY <1>1, <1>2, <1>5 DEF InLimine
<1>9. FramesAccounted'
  BY <1>0, <1>1, <1>2, <1>3, <1>5, TablesAll DEF FramesAccounted
<1>10. MmioInv'
  BY <1>1, <1>2 DEF MmioInv
<1>11. AbsNext
  BY <1>1, <1>5, CallStep DEF AbsInstalled
<1> QED BY <1>1, <1>5, <1>6, <1>7, <1>8, <1>9, <1>10, <1>11 DEF PTInv

(* The kernel's own tables are installed. *)
LEMMA InstallInv ==
    ASSUME PTInv, InstallPml4
    PROVE  PTInv' /\ AbsNext
<1> DEFINE w == BuildTables(Walk(mem, pool, cr3))
<1>1. /\ pc = "pml4" /\ mem' = w.mem /\ pool' = w.pool
      /\ pc' = IF w.ok THEN "release" ELSE "panic"
      /\ cr3' = IF w.ok THEN w.at ELSE cr3
      /\ tlb' = {t \in tlb : Global(t.prot)}
      /\ last' = NoCall
      /\ UNCHANGED <<lapic, guard, mmio, hogged, orphans>> /\ Stack' = Stack
  BY DEF InstallPml4, Stack
<1>2. /\ TypeInv /\ Tree(mem, Levels, cr3) /\ Apart /\ InLimine /\ MmioInv
      /\ FramesAccounted /\ TlbCoherent
  BY <1>1 DEF PTInv, Booting
<1>3. mem \in Mems /\ pool \in SUBSET Frames
  BY <1>2, TreeFacts, Geometry DEF TypeInv
<1>4. IF pool = {} THEN w.mem = mem /\ w.pool = pool /\ w.ok = FALSE
      ELSE \E C : NewTables(w, mem, pool, C)
  BY <1>3, BuildDoes
<1> HIDE DEF w
<1>5. tlb' = {}
  <2> SUFFICES ASSUME NEW t \in tlb PROVE t.prot # "kernel"
    BY <1>1 DEF Global
  <2>1. t.page \in VirtPages /\ Lookup(mem, cr3, t.page) = Leaf(t.frame, t.prot)
    BY <1>2 DEF TypeInv, TlbCoherent, Translate
  <2>2. Lookup(mem, cr3, t.page).prot # "kernel"
    BY <1>2, <2>1, LookupNotGlobal DEF InLimine
  <2>3. Leaf(t.frame, t.prot).prot = t.prot
    BY DEF Leaf
  <2> QED BY <2>1, <2>2, <2>3
<1>6. TlbCoherent' /\ MapTakesEffect' /\ \A t \in tlb' : t.page \in VirtPages
  BY <1>1, <1>5 DEF TlbCoherent, MapTakesEffect
<1>7. MmioInv'
  BY <1>1, <1>2 DEF MmioInv
<1>8. Tables = All(Levels) /\ Tables' = All(Levels')
  BY TablesAll
<1>9. ASSUME pool' \subseteq pool, w.ok = FALSE, mem' \in Mems,
             \A f \in All(Levels) : mem'[f] = mem[f]
      PROVE  PTInv' /\ AbsNext
  <2>1. pc' = "panic" /\ cr3' = cr3
    BY <1>1, <1>9
  <2>2. /\ Tree(mem', Levels, cr3)
        /\ \A u \in VirtPages : Lookup(mem', cr3, u) = Lookup(mem, cr3, u)
    BY <1>2, <1>9, FrameTree
  <2>3. Levels' = Levels
    BY <2>1, <2>2, LevelsAre DEF Levels
  <2>4. TypeInv'
    BY <1>1, <1>2, <1>6, <1>9, <2>1 DEF TypeInv
  <2>5. Apart'
    BY <1>1, <1>2, <1>9, <2>1, <2>3 DEF Apart
  <2>6. FramesAccounted'
    BY <2>1 DEF FramesAccounted
  <2>7. AbsMapped' = AbsMapped
    <3>1. \A u \in Pages : u \in VirtPages
      BY DEF Pages
    <3> QED BY <2>1, <2>2, <3>1 DEF AbsMapped, Translate
  <2>8. AbsNext
    BY <1>1, <2>1, <2>7 DEF AbsNext, AbsInstalled
  <2> QED BY <1>6, <1>7, <2>1, <2>2, <2>3, <2>4, <2>5, <2>6, <2>8 DEF PTInv, Booting
<1>10. CASE pool = {}
  <2>1. pool' \subseteq pool /\ w.ok = FALSE /\ mem' \in Mems /\ mem' = mem
    BY <1>1, <1>3, <1>4, <1>10
  <2> QED BY <1>9, <2>1
<1>11. CASE pool # {}
  <2>1. PICK C : NewTables(w, mem, pool, C)
    BY <1>4, <1>11
  <2>2. /\ w.ok \in BOOLEAN /\ pool' \subseteq pool
        /\ Tree(mem', C, w.at) /\ All(C) \cap pool' = {} /\ All(C) = pool \ pool'
        /\ \A f \in Frames \ All(C) : mem'[f] = mem[f]
        /\ \A u \in VirtPages \ HhdmPages : NotLarge(mem', w.at, u)
        /\ w.ok => \A u \in VirtPages : Lookup(mem', w.at, u) = KernelLeaf(u)
    BY <1>1, <2>1 DEF NewTables, Base
  <2>3. CASE ~w.ok
    <3>1. w.ok = FALSE
      BY <2>2, <2>3
    <3>2. \A f \in All(Levels) : f \in Frames /\ f \notin All(C)
      BY <1>2, <2>2, LevelsApart DEF Apart
    <3>3. mem' \in Mems
      BY <2>2, TreeFacts
    <3> QED BY <1>9, <2>2, <3>1, <3>2, <3>3
  <2>4. CASE w.ok
    <3>1. pc' = "release" /\ cr3' = w.at
      BY <1>1, <2>4
    <3>2. Levels' = C
      BY <2>2, <3>1, LevelsAre, ZenonT(40) DEF Levels
    <3>3. Tree(mem', Levels', cr3')
      BY <2>2, <3>1, <3>2
    <3>4. TypeInv'
      BY <1>1, <1>2, <1>6, <2>2, <3>1 DEF TypeInv
    <3>5. Apart'
      BY <1>1, <1>2, <2>2, <3>1, <3>2 DEF Apart
    <3>6. InKernel'
      BY <2>2, <3>1 DEF InKernel
    <3>7. FramesAccounted'
      <4>1. All(Levels) \subseteq LimineFrames \cup orphans
        BY <1>2 DEF InLimine
      <4>2. Ram \subseteq pool \cup hogged \cup All(Levels) \cup Stack \cup {ImageFrame}
                         \cup orphans \cup LimineFrames
        BY <1>1, <1>2, <1>8 DEF FramesAccounted
      <4> QED BY <1>1, <1>8, <2>2, <3>1, <3>2, <4>1, <4>2 DEF FramesAccounted
    <3>8. AbsNext
      <4>1. AbsMapped' = [v \in Pages |-> KernelLeaf(v)]
        <5>1. \A u \in Pages : u \in VirtPages
          BY DEF Pages
        <5> QED BY <2>2, <2>4, <3>1, <5>1 DEF AbsMapped, Translate
      <4> QED BY <1>1, <3>1, <4>1 DEF AbsNext, AbsInstalled
    <3> QED BY <1>6, <1>7, <3>1, <3>3, <3>4, <3>5, <3>6, <3>7, <3>8 DEF PTInv, Booting
  <2> QED BY <2>2, <2>3, <2>4
<1> QED BY <1>10, <1>11

(* The frames of Limine's tables become free. *)
LEMMA ReleaseInv ==
    ASSUME PTInv, Release
    PROVE  PTInv' /\ AbsNext
<1>1. /\ pc = "release" /\ pc' = "run" /\ pool' = pool \cup LimineFrames /\ last' = NoCall
      /\ UNCHANGED <<mem, cr3, tlb, lapic, guard, mmio, hogged, orphans>>
      /\ Stack' = Stack /\ Levels' = Levels
  BY DEF Release, Stack, Levels
<1>2. /\ TypeInv /\ Tree(mem, Levels, cr3) /\ Apart /\ InKernel /\ MmioInv
      /\ FramesAccounted /\ TlbCoherent
  BY <1>1 DEF PTInv
<1>3. LimineFrames \subseteq Ram
  BY LimineAssumption
<1>4. TypeInv'
  BY <1>1, <1>2, <1>3 DEF TypeInv
<1>5. Apart'
  BY <1>1, <1>2 DEF Apart
<1>6. InKernel' /\ TlbCoherent' /\ MapTakesEffect' /\ MmioInv'
  BY <1>1, <1>2 DEF InKernel, TlbCoherent, MapTakesEffect, Translate, MmioInv
<1>7. FramesAccounted'
  <2>1. Tables = All(Levels) /\ Tables' = All(Levels')
    BY TablesAll
  <2> QED BY <1>1, <1>2, <2>1 DEF FramesAccounted
<1>8. AbsNext
  BY <1>1 DEF AbsNext, AbsInstalled, AbsMapped, Translate
<1> QED BY <1>1, <1>2, <1>4, <1>5, <1>6, <1>7, <1>8 DEF PTInv, Booting

(* Steps that leave the tables, the pool and the TLB alone. *)
LEMMA QuietInv ==
    ASSUME PTInv, UNCHANGED <<mem, pool, cr3, tlb, guard, hogged, orphans>>,
           TypeInv', MmioInv',
           \/ pc' = pc
           \/ pc' = "panic" /\ pc # "run"
           \/ pc = "lapic" /\ pc' = "fb"
           \/ pc = "fb" /\ pc' = "stack",
           last' = NoCall \/ last' = last,
           AbsInstalled' = AbsInstalled
    PROVE  PTInv' /\ AbsNext
<1>1. Stack' = Stack /\ Levels' = Levels /\ Tables' = Tables
  BY TablesAll DEF Stack, Levels
<1>2. /\ TypeInv /\ Tree(mem, Levels, cr3) /\ Apart
      /\ FramesAccounted /\ TlbCoherent /\ MapTakesEffect /\ (Booting => InLimine)
      /\ (pc \in {"release", "run"} => InKernel)
  BY DEF PTInv
<1>3. Tree(mem', Levels', cr3')
  BY <1>1, <1>2
<1>4. Apart'
  BY <1>1, <1>2 DEF Apart
<1>5. Booting' => InLimine'
  <2> SUFFICES ASSUME Booting' PROVE InLimine'
    OBVIOUS
  <2>1. InLimine /\ (pc' \in {"lapic", "fb"} => pc \in {"lapic", "fb"})
    BY <1>2 DEF Booting
  <2> QED BY <1>1, <2>1 DEF InLimine
<1>6. pc' \in {"release", "run"} => InKernel'
  <2> SUFFICES ASSUME pc' \in {"release", "run"} PROVE InKernel'
    OBVIOUS
  <2> QED BY <1>2 DEF InKernel
<1>7. FramesAccounted'
  BY <1>1, <1>2 DEF FramesAccounted
<1>8. TlbCoherent' /\ MapTakesEffect'
  BY <1>2 DEF TlbCoherent, MapTakesEffect, Translate
<1>9. AbsMapped' = AbsMapped
  BY DEF AbsMapped, Translate
<1>10. AbsNext
  BY <1>9 DEF AbsNext
<1> QED BY <1>3, <1>4, <1>5, <1>6, <1>7, <1>8, <1>10 DEF PTInv

(* Other callers take and give back frames. *)
LEMMA HogInv ==
    ASSUME PTInv, (\E n \in HogSizes : Hog(n)) \/ Unhog
    PROVE  PTInv' /\ AbsNext
<1>1. /\ pc = "run" /\ mmio.left = 0
      /\ UNCHANGED <<mem, cr3, tlb, pc, lapic, guard, mmio, orphans, last>>
      /\ Stack' = Stack /\ Levels' = Levels
  BY DEF Hog, Unhog, Stack, Levels
<1>2. pool' \cup hogged' = pool \cup hogged /\ pool' \cap hogged' = {}
  <2>1. CASE \E n \in HogSizes : Hog(n)
    <3>1. PICK n \in HogSizes : Hog(n)
      BY <2>1
    <3> QED BY <3>1 DEF Hog, Lowest
  <2>2. CASE Unhog
    BY <2>2 DEF Unhog
  <2> QED BY <2>1, <2>2
<1>3. /\ TypeInv /\ Tree(mem, Levels, cr3) /\ Apart /\ InKernel
      /\ FramesAccounted /\ TlbCoherent /\ MapTakesEffect
  BY <1>1 DEF PTInv
<1>4. TypeInv'
  <2>1. pool' \cup hogged' \subseteq Ram
    BY <1>2, <1>3 DEF TypeInv
  <2> QED BY <1>1, <1>3, <2>1 DEF TypeInv
<1>5. Apart'
  <2>1. All(Levels) \cap (pool' \cup hogged') = {} /\ Stack \cap (All(Levels) \cup pool' \cup hogged') = {}
    BY <1>2, <1>3 DEF Apart
  <2> QED BY <1>1, <1>2, <2>1 DEF Apart
<1>6. InKernel' /\ TlbCoherent' /\ MapTakesEffect' /\ MmioInv'
  BY <1>1, <1>3 DEF InKernel, TlbCoherent, MapTakesEffect, Translate, MmioInv
<1>7. FramesAccounted'
  <2>1. Tables = All(Levels) /\ Tables' = All(Levels')
    BY TablesAll
  <2> QED BY <1>1, <1>2, <1>3, <2>1 DEF FramesAccounted
<1>8. AbsNext
  BY <1>1 DEF AbsNext, AbsInstalled, AbsMapped, Translate
<1> QED BY <1>1, <1>3, <1>4, <1>5, <1>6, <1>7, <1>8 DEF PTInv, Booting

(* The CPU caches a translation. *)
LEMMA AccessInv ==
    ASSUME PTInv, NEW v \in TlbPages, Access(v)
    PROVE  PTInv' /\ AbsNext
<1> DEFINE e == Translate(v)
<1>1. /\ e.present /\ tlb' = tlb \cup {[page |-> v, frame |-> e.frame, prot |-> e.prot]}
      /\ UNCHANGED <<mem, pool, cr3, pc, lapic, guard, mmio, hogged, orphans, last>>
      /\ Stack' = Stack /\ Levels' = Levels
  BY DEF Access, Stack, Levels
<1>2. PTInv
  OBVIOUS
<1>3. TypeInv /\ TlbCoherent /\ Tree(mem, Levels, cr3)
  BY DEF PTInv
<1>4. v \in VirtPages
  BY PageTablesAssumption
<1>5. e = Leaf(e.frame, e.prot)
  <2>1. \A f, q : Leaf(f, q).frame = f /\ Leaf(f, q).prot = q
    BY DEF Leaf
  <2>2. E4(mem, cr3, v).present /\ IsLink(E3(mem, cr3, v)) /\ IsLink(E2(mem, cr3, v))
            => E1(mem, cr3, v) \in Entries /\ ~E1(mem, cr3, v).huge
    <3>1. mem \in [Frames -> [Index -> Entries]] /\ At(v, 1) \in Index
      BY <1>3, <1>4, TreeFacts, PathIn DEF Mems
    <3>2. \A t \in Levels[1], i \in Index : t \in Frames /\ ~mem[t][i].huge
      BY <1>3, TreeFacts, LevelsApart
    <3> QED BY <1>3, <1>4, <3>1, <3>2, PathIn DEF E1
  <2>3. \A x \in Entries : x.present /\ ~x.huge => x = Leaf(x.frame, x.prot)
    BY DEF Entries, Leaf
  <2>4. e.present /\ e = Lookup(mem, cr3, v)
    BY <1>1 DEF Translate
  <2> HIDE DEF e
  <2> QED BY <2>1, <2>2, <2>3, <2>4, LookupIs, EntryTypes DEF IsLink
<1>6. TlbCoherent'
  <2>1. \A u : Translate(u)' = Translate(u)
    BY <1>1 DEF Translate
  <2>2. \A t \in tlb : Translate(t.page) = Leaf(t.frame, t.prot)
    BY <1>3 DEF TlbCoherent
  <2> DEFINE x == [page |-> v, frame |-> e.frame, prot |-> e.prot]
  <2>3. x.page = v /\ x.frame = e.frame /\ x.prot = e.prot
    OBVIOUS
  <2>4. Translate(x.page) = Leaf(x.frame, x.prot)
    BY <1>5, <2>3
  <2> HIDE DEF x
  <2>5. tlb' = tlb \cup {x}
    BY <1>1 DEF x
  <2>6. \A t \in tlb' : Lookup(mem', cr3', t.page) = Leaf(t.frame, t.prot)
    BY <1>1, <2>2, <2>4, <2>5 DEF Translate
  <2> QED BY <2>6 DEF TlbCoherent, Translate
<1>7. TypeInv'
  <2>1. \A t \in tlb' : t.page \in VirtPages
    BY <1>1, <1>3, <1>4 DEF TypeInv
  <2> HIDE DEF e
  <2> QED BY <1>1, <1>3, <2>1 DEF TypeInv
<1>8. AbsNext
  BY <1>1 DEF AbsNext, AbsInstalled, AbsMapped, Translate
<1>9. Tables' = Tables
  BY <1>1, TablesAll
<1> HIDE DEF e
<1> QED BY <1>1, <1>6, <1>7, <1>8, <1>9
        DEF PTInv, Booting, InLimine, InKernel, Apart, MmioInv, FramesAccounted, MapTakesEffect,
            Translate

(* Every step keeps the invariant and is one of the abstract address space. *)
LEMMA StepInv ==
    ASSUME ClearOfLarge, PTInv, [Next]_vars
    PROVE  PTInv' /\ AbsNext
<1>0. TypeInv /\ MmioInv
  BY DEF PTInv
<1>1. CASE MapLapic
  BY <1>1, BootMapInv DEF MapLapic
<1>2. CASE MapFb
  BY <1>2, BootMapInv DEF MapFb
<1>3. CASE NoLapic \/ NoFb \/ NoStack
  <2>1. /\ UNCHANGED <<mem, pool, cr3, tlb, guard, mmio, hogged, orphans>> /\ last' = NoCall
        /\ \/ pc = "lapic" /\ pc' = "fb"
           \/ pc = "fb" /\ pc' = "stack"
           \/ pc = "stack" /\ pc' = "panic"
    BY <1>3 DEF NoLapic, NoFb, NoStack
  <2>2. TypeInv'
    BY <1>0, <2>1 DEF TypeInv
  <2>3. MmioInv'
    BY <1>0, <2>1 DEF MmioInv
  <2>4. AbsInstalled' = AbsInstalled
    BY <2>1 DEF AbsInstalled
  <2> QED BY <2>1, <2>2, <2>3, <2>4, QuietInv
<1>4. CASE AllocStack
  BY <1>4, AllocStackInv
<1>5. CASE InstallPml4
  BY <1>5, InstallInv
<1>6. CASE Release
  BY <1>6, ReleaseInv
<1>7. ASSUME NEW v \in RunPages, NEW f \in RunFrames, MapOne(v, f, "kernel")
      PROVE  PTInv' /\ AbsNext
  <2>1. pc = "run" /\ mmio' = mmio /\ Map(v, f, "kernel") /\ pc' = pc
    BY <1>7 DEF MapOne, Map
  <2>2. v \in CallPages /\ f \in Nat /\ "kernel" \in Prots
    BY PageTablesAssumption, CallPagesAre DEF Prots
  <2>3. MmioInv' /\ mmio' \in [page : Int, frame : Nat, left : Nat]
    BY <1>0, <2>1 DEF MmioInv, TypeInv
  <2> QED BY <2>1, <2>2, <2>3, MapInv
<1>8. ASSUME NEW v \in RunPages, NEW f \in RunFrames, NEW n \in MmioLens, MapMmio(v, f, n)
      PROVE  PTInv' /\ AbsNext
  <2>1. /\ UNCHANGED <<mem, pool, cr3, tlb, guard, hogged, orphans, pc>> /\ last' = NoCall
        /\ pc = "run" /\ mmio' = [page |-> v, frame |-> f, left |-> n]
    BY <1>8 DEF MapMmio
  <2>2. v \in Int /\ f \in Nat /\ n \in Nat
    BY PageTablesAssumption DEF VirtPages
  <2>3. TypeInv'
    BY <1>0, <2>1, <2>2 DEF TypeInv
  <2>4. mmio'.page = v /\ mmio'.left = n
    BY <2>1
  <2>5. v..(v + n - 1) \subseteq CallPages
    BY CallPagesAre
  <2>6. MmioInv'
    BY <2>1, <2>4, <2>5 DEF MmioInv
  <2>7. AbsInstalled' = AbsInstalled
    BY <2>1 DEF AbsInstalled
  <2> QED BY <2>1, <2>3, <2>6, <2>7, QuietInv
<1>9. CASE MmioPage
  <2>1. mmio.left > 0 /\ Map(mmio.page, mmio.frame, "uc") /\ pc' = pc
    BY <1>9 DEF MmioPage, Map
  <2>2. /\ mmio.page \in Int /\ mmio.frame \in Nat /\ mmio.left \in Nat
        /\ pc = "run" /\ mmio.page..(mmio.page + mmio.left - 1) \subseteq CallPages
    BY <1>0, <2>1 DEF MmioInv, TypeInv
  <2>3. mmio.page \in mmio.page..(mmio.page + mmio.left - 1)
    BY <2>1, <2>2
  <2>4. mmio.page \in CallPages /\ "uc" \in Prots
    BY <2>2, <2>3 DEF Prots
  <2> DEFINE next == [page |-> mmio.page + 1, frame |-> mmio.frame + 1, left |-> mmio.left - 1]
  <2>5. mmio' = NoMmio \/ mmio' = next
    BY <1>9 DEF MmioPage
  <2>6. MmioInv' /\ mmio' \in [page : Int, frame : Nat, left : Nat]
    <3>1. CASE mmio' = NoMmio
      BY <3>1 DEF MmioInv, NoMmio
    <3>2. CASE mmio' = next
      <4>1. /\ mmio'.page = mmio.page + 1 /\ mmio'.frame = mmio.frame + 1
            /\ mmio'.left = mmio.left - 1
        BY <3>2
      <4>2. mmio' \in [page : Int, frame : Nat, left : Nat]
        BY <2>1, <2>2, <3>2
      <4>3. mmio'.page..(mmio'.page + mmio'.left - 1) \subseteq mmio.page..(mmio.page + mmio.left - 1)
        BY <2>1, <2>2, <4>1
      <4> QED BY <2>1, <2>2, <4>2, <4>3 DEF MmioInv
    <3> QED BY <2>5, <3>1, <3>2
  <2> QED BY <2>1, <2>2, <2>4, <2>6, MapInv
<1>10. ASSUME NEW v \in RunPages, Unmap(v) PROVE PTInv' /\ AbsNext
  BY <1>10, UnmapInv
<1>11. ASSUME NEW v \in TlbPages, Access(v) PROVE PTInv' /\ AbsNext
  BY <1>11, AccessInv
<1>12. CASE (\E n \in HogSizes : Hog(n)) \/ Unhog
  BY <1>12, HogInv
<1>13. CASE Halted \/ UNCHANGED vars
  <2>1. UNCHANGED vars
    BY <1>13 DEF Halted
  <2>2. UNCHANGED <<mem, pool, cr3, tlb, guard, mmio, hogged, orphans, pc, last>>
    BY <2>1 DEF vars
  <2>3. TypeInv'
    BY <1>0, <2>2 DEF TypeInv
  <2>4. MmioInv' /\ AbsInstalled' = AbsInstalled
    BY <1>0, <2>2 DEF MmioInv, AbsInstalled
  <2> QED BY <2>2, <2>3, <2>4, QuietInv
<1> QED BY <1>1, <1>2, <1>3, <1>4, <1>5, <1>6, <1>7, <1>8, <1>9, <1>10, <1>11, <1>12, <1>13
        DEF Next

-----------------------------------------------------------------------------
(* A tree has one table more than it has entries that lead to tables. *)
LEMMA TreeCount ==
    ASSUME NEW m, NEW A, NEW r, Tree(m, A, r)
    PROVE  Cardinality(All(A)) = 1 + Cardinality(Links(A[4] \cup A[3] \cup A[2], m))
<1> DEFINE L == Links(A[4] \cup A[3] \cup A[2], m)
           S == A[3] \cup A[2] \cup A[1]
           g == [x \in L |-> m[x[1]][x[2]].frame]
<1>1. \A x \in L : /\ x = <<x[1], x[2]>> /\ x[1] \in A[4] \cup A[3] \cup A[2] /\ x[2] \in Index
                   /\ IsLink(m[x[1]][x[2]])
  BY DEF Links, IsLink
<1>2. \A t \in A[4] \cup A[3] \cup A[2], i \in Index : IsLink(m[t][i]) => <<t, i>> \in L
  BY DEF Links, IsLink
<1>3. /\ \A t \in A[4], i \in Index : IsLink(m[t][i]) => m[t][i].frame \in A[3]
      /\ \A t \in A[3], i \in Index : IsLink(m[t][i]) => m[t][i].frame \in A[2]
      /\ \A t \in A[2], i \in Index : IsLink(m[t][i]) => m[t][i].frame \in A[1]
  <2>1. \A k \in 2..4 : \A t \in A[k], i \in Index : IsLink(m[t][i]) => m[t][i].frame \in A[k - 1]
    BY TreeFacts
  <2>2. 4 \in 2..4 /\ 3 \in 2..4 /\ 2 \in 2..4 /\ 4 - 1 = 3 /\ 3 - 1 = 2 /\ 2 - 1 = 1
    OBVIOUS
  <2> QED BY <2>1, <2>2
<1>4. /\ \A f \in A[3] : \E t \in A[4], i \in Index : IsLink(m[t][i]) /\ m[t][i].frame = f
      /\ \A f \in A[2] : \E t \in A[3], i \in Index : IsLink(m[t][i]) /\ m[t][i].frame = f
      /\ \A f \in A[1] : \E t \in A[2], i \in Index : IsLink(m[t][i]) /\ m[t][i].frame = f
  <2>1. \A k \in 2..4 : \A f \in A[k - 1] :
            \E t \in A[k], i \in Index : IsLink(m[t][i]) /\ m[t][i].frame = f
    BY TreeFacts
  <2>2. 4 \in 2..4 /\ 3 \in 2..4 /\ 2 \in 2..4 /\ 4 - 1 = 3 /\ 3 - 1 = 2 /\ 2 - 1 = 1
    OBVIOUS
  <2> QED BY <2>1, <2>2
<1>5. \A k \in 2..4 : \A t, u \in A[k], i, j \in Index :
          IsLink(m[t][i]) /\ IsLink(m[u][j]) /\ m[t][i].frame = m[u][j].frame => t = u /\ i = j
  BY TreeFacts
<1> HIDE DEF L
<1>6. g \in [L -> S]
  BY <1>1, <1>3
<1>7. ASSUME NEW f \in S PROVE \E x \in L : g[x] = f
  <2>1. PICK t \in A[4] \cup A[3] \cup A[2], i \in Index : IsLink(m[t][i]) /\ m[t][i].frame = f
    BY <1>4
  <2>2. <<t, i>> \in L
    BY <1>2, <2>1
  <2> QED BY <2>1, <2>2
<1>8. ASSUME NEW x \in L, NEW y \in L, g[x] = g[y] PROVE x = y
  <2>1. m[x[1]][x[2]].frame = m[y[1]][y[2]].frame
    BY <1>8
  <2>2. \E k \in 2..4 : x[1] \in A[k] /\ y[1] \in A[k]
    BY <1>1, <1>3, <2>1, LevelsApart
  <2>3. x[1] = y[1] /\ x[2] = y[2]
    BY <1>1, <1>5, <2>1, <2>2
  <2> QED BY <1>1, <2>3
<1> HIDE DEF g
<1>9. g \in Bijection(L, S)
  BY <1>6, <1>7, <1>8 DEF Bijection, Injection, Surjection, IsInjective
<1>10. IsFiniteSet(S) /\ IsFiniteSet(L)
  <2>1. Rounded \in Nat /\ Fan \in Nat
    BY Geometry, PageTablesAssumption
  <2>2. IsFiniteSet(Frames) /\ IsFiniteSet(Index)
    BY <2>1, FS_Interval DEF Frames, Index
  <2>3. S \subseteq Frames
    BY LevelsApart
  <2>4. L \subseteq Frames \X Index
    BY <1>1, LevelsApart
  <2>5. IsFiniteSet(Frames \X Index)
    BY <2>2, FS_Product
  <2> QED BY <2>2, <2>3, <2>4, <2>5, FS_Subset
<1>11. ExistsBijection(L, S)
  BY <1>9, Zenon DEF ExistsBijection
<1>12. Cardinality(L) = Cardinality(S)
  BY <1>10, <1>11, FS_Bijection
<1>13. All(A) = S \cup {r} /\ r \notin S
  BY LevelsApart, TreeFacts DEF All
<1>14. Cardinality(S \cup {r}) = Cardinality(S) + 1 /\ Cardinality(S) \in Nat
  BY <1>10, <1>13, FS_AddElement, FS_CardinalityType
<1> QED BY <1>12, <1>13, <1>14 DEF L

(* So the invariant says that the tables are owned. *)
LEMMA InvOwned == PTInv => TablesOwned
<1> SUFFICES ASSUME PTInv PROVE TablesOwned
  OBVIOUS
<1>1. Tree(mem, Levels, cr3) /\ Apart
  BY DEF PTInv
<1>2. T4 = Levels[4] /\ T3 = Levels[3] /\ T2 = Levels[2] /\ Tables = All(Levels)
  BY TablesAll DEF Levels, LevelsOf, T4, T3, T2
<1>3. Cardinality(Tables) = 1 + Cardinality(Links(T4 \cup T3 \cup T2, mem))
  BY <1>1, <1>2, TreeCount
<1> QED BY <1>1, <1>2, <1>3 DEF TablesOwned, Apart


-----------------------------------------------------------------------------
(* The theorems.  In all of them no page is mapped where a large page lies:  *)
(* map follows such a page as if it were a table.                            *)

(* The inductive invariant holds. *)
THEOREM PageTablesInvariant == ASSUME ClearOfLarge PROVE Spec => []PTInv
<1>1. Init => PTInv
  BY InitInv
<1>2. PTInv /\ [Next]_vars => PTInv'
  BY StepInv
<1> QED BY <1>1, <1>2, PTL DEF Spec

(* The tables under CR3 are a tree, in frames that nobody else has. *)
THEOREM PageTablesOwned == ASSUME ClearOfLarge PROVE Spec => []TablesOwned
  BY PageTablesInvariant, InvOwned, PTL

(* No frame is lost but those of the tables that were made for devices in    *)
(* the bootloader's tables.                                                  *)
THEOREM PageTablesAccounted == ASSUME ClearOfLarge PROVE Spec => []FramesAccounted
<1>1. PTInv => FramesAccounted
  BY DEF PTInv
<1> QED BY <1>1, PageTablesInvariant, PTL

(* Every cached translation is the one in the tables. *)
THEOREM PageTablesTlb == ASSUME ClearOfLarge PROVE Spec => []TlbCoherent
<1>1. PTInv => TlbCoherent
  BY DEF PTInv
<1> QED BY <1>1, PageTablesInvariant, PTL

(* map and unmap do what their documentation says: the large pages are the   *)
(* only reason why they may not.                                             *)
THEOREM PageTablesEffect == ASSUME ClearOfLarge PROVE Spec => []MapTakesEffect
<1>1. PTInv => MapTakesEffect
  BY DEF PTInv
<1> QED BY <1>1, PageTablesInvariant, PTL

(* The tables implement the abstract address space. *)
THEOREM PageTablesRefine == ASSUME ClearOfLarge PROVE Spec => RefinesAddressSpace
<1>1. Init => ~(pc \in {"release", "run"}) /\ last = NoCall
  BY DEF Init
<1>2. PTInv /\ [Next]_vars
      => [Abstract!Set \/ Abstract!Fail \/ Abstract!Install]_Abstract!vars
  <2> SUFFICES ASSUME PTInv, [Next]_vars
               PROVE  [Abstract!Set \/ Abstract!Fail \/ Abstract!Install]_Abstract!vars
    OBVIOUS
  <2>1. AbsNext
    BY StepInv
  <2>2. [v \in Pages |-> KernelLeaf(v)]
        = [v \in Pages |-> IF v = Image THEN Leaf(ImageFrame, "kernel")
                           ELSE IF v \in {Hhdm(f) : f \in Frames}
                                THEN Leaf(v - Hhdm(0), "kernel")
                           ELSE NotPresent]
    BY DEF KernelLeaf, HhdmPages
  <2> QED BY <2>1, <2>2 DEF AbsNext, AbsMapped, AbsInstalled, Abstract!Set, Abstract!Fail,
                            Abstract!Install, Abstract!vars
<1> QED BY <1>1, <1>2, PageTablesInvariant, PTL DEF Spec, RefinesAddressSpace, Abstract!Spec

=============================================================================

----------------------------- MODULE TlsfProofs -----------------------------
(***************************************************************************)
(* The TLSF heap for every pool, every set of requests and every number of *)
(* size classes: as long as frees keep the neighbours' records true and    *)
(* pointers are not moved for alignment (what the runs tlsf_order and      *)
(* tlsf_align show to be needed), headers tile the pool, lists and bitmaps *)
(* hold exactly its free blocks, and callers see a memory pool.            *)
(***************************************************************************)
EXTENDS Tlsf, TlsfMappingProofs, FiniteSetTheorems

Header == [size : Nat, free : BOOLEAN, prev_free : BOOLEAN, prev_phys : Int,
           next : Int, prev : Int]

HeapType(h) ==
    h \in [mem : [Addrs -> Header], heads : [Classes -> Int],
           fl_bitmap : SUBSET Nat, sl_bitmap : SUBSET Classes]

(* The sizes a block can have: all have a class. *)
Sizes == 1..(PoolSize - 2)

(* The lists hold the blocks F: next and prev are each other's inverse, a    *)
(* block without a prev is the head of its class, and the ranks r grow along *)
(* a list, so that none is a cycle.  New blocks get the rank k, below all    *)
(* others.                                                                   *)
ByRank(h, F, r, k) ==
    /\ \A c \in Classes : h.heads[c] # Null =>
          /\ h.heads[c] \in F
          /\ Mapping(h.mem[h.heads[c]].size) = c
          /\ h.mem[h.heads[c]].prev = Null
    /\ \A q \in F :
          /\ h.mem[q].size \in Sizes
          /\ r[q] > k
          /\ h.mem[q].prev = Null => h.heads[Mapping(h.mem[q].size)] = q
          /\ h.mem[q].prev # Null =>
                /\ h.mem[q].prev \in F
                /\ Mapping(h.mem[h.mem[q].prev].size) = Mapping(h.mem[q].size)
                /\ h.mem[h.mem[q].prev].next = q
                /\ r[h.mem[q].prev] < r[q]
          /\ h.mem[q].next # Null =>
                /\ h.mem[q].next \in F
                /\ h.mem[h.mem[q].next].prev = q

BitsMatch(h) ==
    /\ \A c \in Classes : c \in h.sl_bitmap <=> h.heads[c] # Null
    /\ h.fl_bitmap = {c[1] : c \in h.sl_bitmap}

Linked(h, F) ==
    /\ \E r \in [Addrs -> Int] : \E k \in Int : ByRank(h, F, r, k)
    /\ BitsMatch(h)

-----------------------------------------------------------------------------
(* Records and classes *)

(* What the constants say of addresses. *)
LEMMA Layout ==
    /\ PoolSize \in Nat /\ PoolSize > 3
    /\ Sentinel = PoolSize - 1 /\ Sentinel \in Nat /\ Sentinel \in Addrs
    /\ Addrs = 0..Sentinel /\ 0 \in Addrs /\ 0 # Sentinel
    /\ Null = -1 /\ Null \notin Addrs
BY TlsfAssumption DEF Sentinel, Addrs, Null

(* Every size that a block can have has a list. *)
LEMMA HasClass ==
    ASSUME NEW n \in Sizes
    PROVE  Mapping(n) \in Classes
<1>1. FLCount \in Nat /\ PoolSize \in Nat /\ PoolSize - 2 < Pow2[FLCount]
  BY TlsfAssumption, PoolAssumption
<1>2. Pow2[FLCount] \in Nat
  BY <1>1, Pow2Props
<1>3. n \in Nat \ {0} /\ n < Pow2[FLCount]
  BY <1>1, <1>2 DEF Sizes
<1> QED BY <1>1, <1>3, MappingInClasses DEF Classes

(* The fields of a heap. *)
LEMMA HeapFields ==
    ASSUME NEW h, HeapType(h)
    PROVE  /\ h = [mem |-> h.mem, heads |-> h.heads, fl_bitmap |-> h.fl_bitmap,
                   sl_bitmap |-> h.sl_bitmap]
           /\ h.mem \in [Addrs -> Header]
           /\ h.heads \in [Classes -> Int]
           /\ h.fl_bitmap \in SUBSET Nat /\ h.sl_bitmap \in SUBSET Classes
BY DEF HeapType

(* A heap put together from its fields. *)
LEMMA HeapMade ==
    ASSUME NEW m \in [Addrs -> Header], NEW x \in [Classes -> Int],
           NEW f \in SUBSET Nat, NEW s \in SUBSET Classes
    PROVE  HeapType([mem |-> m, heads |-> x, fl_bitmap |-> f, sl_bitmap |-> s])
BY DEF HeapType

(* Each field of a header can be set alone. *)
LEMMA HeaderSet ==
    ASSUME NEW m \in [Addrs -> Header], NEW b \in Addrs
    PROVE  /\ \A n \in Nat : [m EXCEPT ![b].size = n] \in [Addrs -> Header]
           /\ \A f \in BOOLEAN : [m EXCEPT ![b].free = f] \in [Addrs -> Header]
           /\ \A f \in BOOLEAN : [m EXCEPT ![b].prev_free = f] \in [Addrs -> Header]
           /\ \A p \in Int : [m EXCEPT ![b].prev_phys = p] \in [Addrs -> Header]
           /\ \A p \in Int : [m EXCEPT ![b].next = p] \in [Addrs -> Header]
           /\ \A p \in Int : [m EXCEPT ![b].prev = p] \in [Addrs -> Header]
<1>1. m[b] \in Header
  OBVIOUS
<1>2. /\ \A n \in Nat : [m[b] EXCEPT !.size = n] \in Header
      /\ \A f \in BOOLEAN : [m[b] EXCEPT !.free = f] \in Header
      /\ \A f \in BOOLEAN : [m[b] EXCEPT !.prev_free = f] \in Header
      /\ \A p \in Int : [m[b] EXCEPT !.prev_phys = p] \in Header
      /\ \A p \in Int : [m[b] EXCEPT !.next = p] \in Header
      /\ \A p \in Int : [m[b] EXCEPT !.prev = p] \in Header
  BY <1>1 DEF Header
<1> QED BY <1>2

(* Setting free in one header leaves all else alone. *)
LEMMA MemSetFree ==
    ASSUME NEW m \in [Addrs -> Header], NEW b \in Addrs
    PROVE  /\ [m EXCEPT ![b].free = TRUE] \in [Addrs -> Header]
           /\ \A a \in Addrs :
                 /\ [m EXCEPT ![b].free = TRUE][a].size = m[a].size
                 /\ [m EXCEPT ![b].free = TRUE][a].free <=> a = b \/ m[a].free
                 /\ [m EXCEPT ![b].free = TRUE][a].prev_free = m[a].prev_free
                 /\ [m EXCEPT ![b].free = TRUE][a].prev_phys = m[a].prev_phys
                 /\ [m EXCEPT ![b].free = TRUE][a].next = m[a].next
                 /\ [m EXCEPT ![b].free = TRUE][a].prev = m[a].prev
<1> DEFINE g == [m EXCEPT ![b].free = TRUE]
<1>1. g \in [Addrs -> Header]
  BY HeaderSet
<1>2. \A a \in Addrs : g[a] = IF a = b THEN [m[a] EXCEPT !.free = TRUE] ELSE m[a]
  OBVIOUS
<1> HIDE DEF g
<1>3. ASSUME NEW a \in Addrs
      PROVE  /\ g[a].size = m[a].size
             /\ g[a].free <=> a = b \/ m[a].free
             /\ g[a].prev_free = m[a].prev_free
             /\ g[a].prev_phys = m[a].prev_phys
             /\ g[a].next = m[a].next
             /\ g[a].prev = m[a].prev
  BY <1>2 DEF Header
<1> QED BY <1>1, <1>3 DEF g

(* Clearing free in one header leaves all else alone. *)
LEMMA MemClearFree ==
    ASSUME NEW m \in [Addrs -> Header], NEW b \in Addrs
    PROVE  /\ [m EXCEPT ![b].free = FALSE] \in [Addrs -> Header]
           /\ \A a \in Addrs :
                 /\ [m EXCEPT ![b].free = FALSE][a].size = m[a].size
                 /\ [m EXCEPT ![b].free = FALSE][a].free <=> a # b /\ m[a].free
                 /\ [m EXCEPT ![b].free = FALSE][a].prev_free = m[a].prev_free
                 /\ [m EXCEPT ![b].free = FALSE][a].prev_phys = m[a].prev_phys
                 /\ [m EXCEPT ![b].free = FALSE][a].next = m[a].next
                 /\ [m EXCEPT ![b].free = FALSE][a].prev = m[a].prev
<1> DEFINE g == [m EXCEPT ![b].free = FALSE]
<1>1. g \in [Addrs -> Header]
  BY HeaderSet
<1>2. \A a \in Addrs : g[a] = IF a = b THEN [m[a] EXCEPT !.free = FALSE] ELSE m[a]
  OBVIOUS
<1> HIDE DEF g
<1>3. ASSUME NEW a \in Addrs
      PROVE  /\ g[a].size = m[a].size
             /\ g[a].free <=> a # b /\ m[a].free
             /\ g[a].prev_free = m[a].prev_free
             /\ g[a].prev_phys = m[a].prev_phys
             /\ g[a].next = m[a].next
             /\ g[a].prev = m[a].prev
  BY <1>2 DEF Header
<1> QED BY <1>1, <1>3 DEF g

(* Setting next in one header leaves all else alone. *)
LEMMA MemSetNext ==
    ASSUME NEW m \in [Addrs -> Header], NEW b \in Addrs, NEW v \in Int
    PROVE  /\ [m EXCEPT ![b].next = v] \in [Addrs -> Header]
           /\ \A a \in Addrs :
                 /\ [m EXCEPT ![b].next = v][a].size = m[a].size
                 /\ [m EXCEPT ![b].next = v][a].free = m[a].free
                 /\ [m EXCEPT ![b].next = v][a].prev_free = m[a].prev_free
                 /\ [m EXCEPT ![b].next = v][a].prev_phys = m[a].prev_phys
                 /\ [m EXCEPT ![b].next = v][a].next = IF a = b THEN v ELSE m[a].next
                 /\ [m EXCEPT ![b].next = v][a].prev = m[a].prev
<1> DEFINE g == [m EXCEPT ![b].next = v]
<1>1. g \in [Addrs -> Header]
  BY HeaderSet
<1>2. \A a \in Addrs : g[a] = IF a = b THEN [m[a] EXCEPT !.next = v] ELSE m[a]
  OBVIOUS
<1> HIDE DEF g
<1>3. ASSUME NEW a \in Addrs
      PROVE  /\ g[a].size = m[a].size
             /\ g[a].free = m[a].free
             /\ g[a].prev_free = m[a].prev_free
             /\ g[a].prev_phys = m[a].prev_phys
             /\ g[a].next = IF a = b THEN v ELSE m[a].next
             /\ g[a].prev = m[a].prev
  BY <1>2 DEF Header
<1> QED BY <1>1, <1>3 DEF g

(* Setting prev in one header leaves all else alone. *)
LEMMA MemSetPrev ==
    ASSUME NEW m \in [Addrs -> Header], NEW b \in Addrs, NEW v \in Int
    PROVE  /\ [m EXCEPT ![b].prev = v] \in [Addrs -> Header]
           /\ \A a \in Addrs :
                 /\ [m EXCEPT ![b].prev = v][a].size = m[a].size
                 /\ [m EXCEPT ![b].prev = v][a].free = m[a].free
                 /\ [m EXCEPT ![b].prev = v][a].prev_free = m[a].prev_free
                 /\ [m EXCEPT ![b].prev = v][a].prev_phys = m[a].prev_phys
                 /\ [m EXCEPT ![b].prev = v][a].next = m[a].next
                 /\ [m EXCEPT ![b].prev = v][a].prev = IF a = b THEN v ELSE m[a].prev
<1> DEFINE g == [m EXCEPT ![b].prev = v]
<1>1. g \in [Addrs -> Header]
  BY HeaderSet
<1>2. \A a \in Addrs : g[a] = IF a = b THEN [m[a] EXCEPT !.prev = v] ELSE m[a]
  OBVIOUS
<1> HIDE DEF g
<1>3. ASSUME NEW a \in Addrs
      PROVE  /\ g[a].size = m[a].size
             /\ g[a].free = m[a].free
             /\ g[a].prev_free = m[a].prev_free
             /\ g[a].prev_phys = m[a].prev_phys
             /\ g[a].next = m[a].next
             /\ g[a].prev = IF a = b THEN v ELSE m[a].prev
  BY <1>2 DEF Header
<1> QED BY <1>1, <1>3 DEF g

(* What setting a field leaves alone. *)
SameLists(g, h) ==
    /\ g.heads = h.heads /\ g.fl_bitmap = h.fl_bitmap /\ g.sl_bitmap = h.sl_bitmap
    /\ \A a \in Addrs : /\ g.mem[a].next = h.mem[a].next
                        /\ g.mem[a].prev = h.mem[a].prev
                        /\ g.mem[a].free = h.mem[a].free

(* set_size changes one size. *)
LEMMA SetSizeProps ==
    ASSUME NEW h, HeapType(h), NEW b \in Addrs, NEW n \in Nat
    PROVE  /\ HeapType(SetSize(h, b, n)) /\ SameLists(SetSize(h, b, n), h)
           /\ \A a \in Addrs :
                 /\ SetSize(h, b, n).mem[a].size = IF a = b THEN n ELSE h.mem[a].size
                 /\ SetSize(h, b, n).mem[a].prev_free = h.mem[a].prev_free
                 /\ SetSize(h, b, n).mem[a].prev_phys = h.mem[a].prev_phys
<1> DEFINE m == [h.mem EXCEPT ![b].size = n]
<1>1. h.mem \in [Addrs -> Header] /\ m \in [Addrs -> Header]
  BY HeapFields, HeaderSet
<1>2. \A a \in Addrs : m[a] = IF a = b THEN [h.mem[a] EXCEPT !.size = n] ELSE h.mem[a]
  BY <1>1
<1>3. SetSize(h, b, n) = [mem |-> m, heads |-> h.heads, fl_bitmap |-> h.fl_bitmap,
                          sl_bitmap |-> h.sl_bitmap]
  BY HeapFields DEF SetSize
<1> HIDE DEF m
<1>4. HeapType(SetSize(h, b, n))
  BY <1>1, <1>3, HeapFields, HeapMade
<1>5. \A a \in Addrs : /\ m[a].size = IF a = b THEN n ELSE h.mem[a].size
                       /\ m[a].next = h.mem[a].next /\ m[a].prev = h.mem[a].prev
                       /\ m[a].free = h.mem[a].free
                       /\ m[a].prev_free = h.mem[a].prev_free
                       /\ m[a].prev_phys = h.mem[a].prev_phys
  BY <1>1, <1>2 DEF Header
<1> QED BY <1>3, <1>4, <1>5 DEF SameLists

(* set_prev_free changes one flag. *)
LEMMA SetPrevFreeProps ==
    ASSUME NEW h, HeapType(h), NEW b \in Addrs, NEW f \in BOOLEAN
    PROVE  /\ HeapType(SetPrevFree(h, b, f)) /\ SameLists(SetPrevFree(h, b, f), h)
           /\ \A a \in Addrs :
                 /\ SetPrevFree(h, b, f).mem[a].size = h.mem[a].size
                 /\ SetPrevFree(h, b, f).mem[a].prev_free
                        = IF a = b THEN f ELSE h.mem[a].prev_free
                 /\ SetPrevFree(h, b, f).mem[a].prev_phys = h.mem[a].prev_phys
<1> DEFINE m == [h.mem EXCEPT ![b].prev_free = f]
<1>1. h.mem \in [Addrs -> Header] /\ m \in [Addrs -> Header]
  BY HeapFields, HeaderSet
<1>2. \A a \in Addrs : m[a] = IF a = b THEN [h.mem[a] EXCEPT !.prev_free = f] ELSE h.mem[a]
  BY <1>1
<1>3. SetPrevFree(h, b, f) = [mem |-> m, heads |-> h.heads, fl_bitmap |-> h.fl_bitmap,
                              sl_bitmap |-> h.sl_bitmap]
  BY HeapFields DEF SetPrevFree
<1> HIDE DEF m
<1>4. HeapType(SetPrevFree(h, b, f))
  BY <1>1, <1>3, HeapFields, HeapMade
<1>5. \A a \in Addrs : /\ m[a].prev_free = IF a = b THEN f ELSE h.mem[a].prev_free
                       /\ m[a].next = h.mem[a].next /\ m[a].prev = h.mem[a].prev
                       /\ m[a].free = h.mem[a].free
                       /\ m[a].size = h.mem[a].size
                       /\ m[a].prev_phys = h.mem[a].prev_phys
  BY <1>1, <1>2 DEF Header
<1> QED BY <1>3, <1>4, <1>5 DEF SameLists

(* Writing prev_phys changes one pointer. *)
LEMMA SetPrevPhysProps ==
    ASSUME NEW h, HeapType(h), NEW b \in Addrs, NEW p \in Int
    PROVE  /\ HeapType(SetPrevPhys(h, b, p)) /\ SameLists(SetPrevPhys(h, b, p), h)
           /\ \A a \in Addrs :
                 /\ SetPrevPhys(h, b, p).mem[a].size = h.mem[a].size
                 /\ SetPrevPhys(h, b, p).mem[a].prev_free = h.mem[a].prev_free
                 /\ SetPrevPhys(h, b, p).mem[a].prev_phys
                        = IF a = b THEN p ELSE h.mem[a].prev_phys
<1> DEFINE m == [h.mem EXCEPT ![b].prev_phys = p]
<1>1. h.mem \in [Addrs -> Header] /\ m \in [Addrs -> Header]
  BY HeapFields, HeaderSet
<1>2. \A a \in Addrs : m[a] = IF a = b THEN [h.mem[a] EXCEPT !.prev_phys = p] ELSE h.mem[a]
  BY <1>1
<1>3. SetPrevPhys(h, b, p) = [mem |-> m, heads |-> h.heads, fl_bitmap |-> h.fl_bitmap,
                              sl_bitmap |-> h.sl_bitmap]
  BY HeapFields DEF SetPrevPhys
<1> HIDE DEF m
<1>4. HeapType(SetPrevPhys(h, b, p))
  BY <1>1, <1>3, HeapFields, HeapMade
<1>5. \A a \in Addrs : /\ m[a].prev_phys = IF a = b THEN p ELSE h.mem[a].prev_phys
                       /\ m[a].next = h.mem[a].next /\ m[a].prev = h.mem[a].prev
                       /\ m[a].free = h.mem[a].free
                       /\ m[a].size = h.mem[a].size
                       /\ m[a].prev_free = h.mem[a].prev_free
  BY <1>1, <1>2 DEF Header
<1> QED BY <1>3, <1>4, <1>5 DEF SameLists

-----------------------------------------------------------------------------
(* The lists *)

(* insert_free touches the block, the head of its class and the first block  *)
(* there.                                                                    *)
LEMMA InsertFields ==
    ASSUME NEW h, HeapType(h), NEW b \in Addrs, NEW c \in Classes, NEW old \in Int,
           c = Mapping(h.mem[b].size), old = h.heads[c],
           old = Null \/ old \in Addrs \ {b}
    PROVE  /\ HeapType(InsertFree(h, b))
           /\ InsertFree(h, b).heads = [h.heads EXCEPT ![c] = b]
           /\ InsertFree(h, b).fl_bitmap = h.fl_bitmap \cup {c[1]}
           /\ InsertFree(h, b).sl_bitmap = h.sl_bitmap \cup {c}
           /\ \A a \in Addrs :
                 /\ InsertFree(h, b).mem[a].size = h.mem[a].size
                 /\ InsertFree(h, b).mem[a].prev_free = h.mem[a].prev_free
                 /\ InsertFree(h, b).mem[a].prev_phys = h.mem[a].prev_phys
                 /\ InsertFree(h, b).mem[a].free <=> a = b \/ h.mem[a].free
                 /\ InsertFree(h, b).mem[a].next = IF a = b THEN old ELSE h.mem[a].next
                 /\ InsertFree(h, b).mem[a].prev =
                       IF a = b THEN Null ELSE IF a = old THEN b ELSE h.mem[a].prev
<1> DEFINE m1 == [h.mem EXCEPT ![b].next = old]
           m2 == [m1 EXCEPT ![b].prev = Null]
           m3 == [m2 EXCEPT ![b].free = TRUE]
           m4 == IF old = Null THEN m3 ELSE [m3 EXCEPT ![old].prev = b]
<1>1. /\ InsertFree(h, b).mem = m4
      /\ InsertFree(h, b) = [mem |-> m4, heads |-> [h.heads EXCEPT ![c] = b],
                            fl_bitmap |-> h.fl_bitmap \cup {c[1]},
                            sl_bitmap |-> h.sl_bitmap \cup {c}]
  BY DEF InsertFree
<1>2. /\ h.mem \in [Addrs -> Header] /\ h.heads \in [Classes -> Int]
      /\ h.fl_bitmap \in SUBSET Nat /\ h.sl_bitmap \in SUBSET Classes
  BY HeapFields
<1>3. /\ Null \in Int /\ b \in Int /\ c[1] \in Nat
  BY Layout DEF Classes
<1>4. /\ m1 \in [Addrs -> Header]
      /\ \A a \in Addrs :
            /\ m1[a].size = h.mem[a].size
            /\ m1[a].free <=> h.mem[a].free
            /\ m1[a].prev_free = h.mem[a].prev_free
            /\ m1[a].prev_phys = h.mem[a].prev_phys
            /\ m1[a].next = IF a = b THEN old ELSE h.mem[a].next
            /\ m1[a].prev = h.mem[a].prev
  BY <1>2, MemSetNext
<1> HIDE DEF m1
<1>5. /\ m2 \in [Addrs -> Header]
      /\ \A a \in Addrs :
            /\ m2[a].size = m1[a].size
            /\ m2[a].free <=> m1[a].free
            /\ m2[a].prev_free = m1[a].prev_free
            /\ m2[a].prev_phys = m1[a].prev_phys
            /\ m2[a].next = m1[a].next
            /\ m2[a].prev = IF a = b THEN Null ELSE m1[a].prev
  BY <1>3, <1>4, MemSetPrev
<1> HIDE DEF m2
<1>6. /\ m3 \in [Addrs -> Header]
      /\ \A a \in Addrs :
            /\ m3[a].size = m2[a].size
            /\ m3[a].free <=> a = b \/ m2[a].free
            /\ m3[a].prev_free = m2[a].prev_free
            /\ m3[a].prev_phys = m2[a].prev_phys
            /\ m3[a].next = m2[a].next
            /\ m3[a].prev = m2[a].prev
  BY <1>5, MemSetFree
<1> HIDE DEF m3
<1>7. /\ m4 \in [Addrs -> Header]
      /\ \A a \in Addrs :
            /\ m4[a].size = m3[a].size
            /\ m4[a].free <=> m3[a].free
            /\ m4[a].prev_free = m3[a].prev_free
            /\ m4[a].prev_phys = m3[a].prev_phys
            /\ m4[a].next = m3[a].next
            /\ m4[a].prev = IF a = old THEN b ELSE m3[a].prev
  <2>1. CASE old = Null
    BY <1>6, <2>1, Layout
  <2>2. CASE old # Null
    <3>1. old \in Addrs /\ m4 = [m3 EXCEPT ![old].prev = b]
      BY <2>2
    <3>2. m3 \in [Addrs -> Header] /\ b \in Int
      BY <1>3, <1>6
    <3>3. m4 \in [Addrs -> Header]
      BY <3>1, <3>2, HeaderSet
    <3>4. \A a \in Addrs : m4[a] = IF a = old THEN [m3[a] EXCEPT !.prev = b] ELSE m3[a]
      BY <3>1, <3>2
    <3> HIDE DEF m4
    <3>5. ASSUME NEW a \in Addrs
          PROVE  /\ m4[a].size = m3[a].size
                 /\ m4[a].free = m3[a].free
                 /\ m4[a].prev_free = m3[a].prev_free
                 /\ m4[a].prev_phys = m3[a].prev_phys
                 /\ m4[a].next = m3[a].next
                 /\ m4[a].prev = IF a = old THEN b ELSE m3[a].prev
      BY <3>2, <3>4, ZenonT(40) DEF Header
    <3> QED BY <3>3, <3>5
  <2> QED BY <2>1, <2>2
<1> HIDE DEF m4
<1>8. HeapType(InsertFree(h, b))
  <2>1. /\ [h.heads EXCEPT ![c] = b] \in [Classes -> Int]
        /\ h.fl_bitmap \cup {c[1]} \in SUBSET Nat
        /\ h.sl_bitmap \cup {c} \in SUBSET Classes
    BY <1>2, <1>3
  <2>2. m4 \in [Addrs -> Header]
    BY <1>7
  <2>3. HeapType([mem |-> m4, heads |-> [h.heads EXCEPT ![c] = b],
                  fl_bitmap |-> h.fl_bitmap \cup {c[1]},
                  sl_bitmap |-> h.sl_bitmap \cup {c}])
    BY <2>1, <2>2, HeapMade, Zenon
  <2> QED BY <1>1, <2>3, Zenon
<1>9. old # b
  BY Layout
<1>10. ASSUME NEW a \in Addrs
       PROVE  /\ m4[a].size = h.mem[a].size
              /\ m4[a].free <=> a = b \/ h.mem[a].free
              /\ m4[a].prev_free = h.mem[a].prev_free
              /\ m4[a].prev_phys = h.mem[a].prev_phys
              /\ m4[a].next = IF a = b THEN old ELSE h.mem[a].next
              /\ m4[a].prev = IF a = b THEN Null ELSE IF a = old THEN b ELSE h.mem[a].prev
  BY <1>4, <1>5, <1>6, <1>7, <1>9
<1>11. /\ InsertFree(h, b).heads = [h.heads EXCEPT ![c] = b]
       /\ InsertFree(h, b).fl_bitmap = h.fl_bitmap \cup {c[1]}
       /\ InsertFree(h, b).sl_bitmap = h.sl_bitmap \cup {c}
  BY <1>1
<1> QED BY <1>1, <1>8, <1>10, <1>11, Zenon

(* remove_free touches the block, its neighbours on the list and, at the     *)
(* front, the head of its class.                                             *)
Unlinked(g, h, b) ==
    LET c == Mapping(h.mem[b].size)
        p == h.mem[b].prev
        n == h.mem[b].next
    IN  /\ HeapType(g)
        /\ g.heads = IF p = Null THEN [h.heads EXCEPT ![c] = n] ELSE h.heads
        /\ g.sl_bitmap = IF g.heads[c] = Null THEN h.sl_bitmap \ {c} ELSE h.sl_bitmap
        /\ g.fl_bitmap = IF g.heads[c] = Null /\ \A d \in g.sl_bitmap : d[1] # c[1]
                         THEN h.fl_bitmap \ {c[1]} ELSE h.fl_bitmap
        /\ \A a \in Addrs :
              /\ g.mem[a].size = h.mem[a].size
              /\ g.mem[a].prev_free = h.mem[a].prev_free
              /\ g.mem[a].prev_phys = h.mem[a].prev_phys
              /\ g.mem[a].free <=> a # b /\ h.mem[a].free
              /\ g.mem[a].next = IF a = p THEN n ELSE h.mem[a].next
              /\ g.mem[a].prev = IF a = n THEN p ELSE h.mem[a].prev

LEMMA RemoveFields ==
    ASSUME NEW h, HeapType(h), NEW b \in Addrs, Mapping(h.mem[b].size) \in Classes,
           h.mem[b].prev = Null \/ h.mem[b].prev \in Addrs \ {b},
           h.mem[b].next = Null \/ h.mem[b].next \in Addrs \ {b}
    PROVE  Unlinked(RemoveFree(h, b), h, b)
<1> DEFINE c == Mapping(h.mem[b].size)
           p == h.mem[b].prev
           n == h.mem[b].next
<1>1. /\ c \in Classes /\ (p = Null \/ p \in Addrs \ {b}) /\ (n = Null \/ n \in Addrs \ {b})
      /\ p \in Int /\ n \in Int
  BY Layout
<1>2. c = Mapping(h.mem[b].size) /\ p = h.mem[b].prev /\ n = h.mem[b].next
  OBVIOUS
<1> HIDE DEF c, p, n
<1> DEFINE m1 == IF p = Null THEN h.mem ELSE [h.mem EXCEPT ![p].next = n]
           m2 == IF n = Null THEN m1 ELSE [m1 EXCEPT ![n].prev = p]
           m3 == [m2 EXCEPT ![b].free = FALSE]
           x  == IF p = Null THEN [h.heads EXCEPT ![c] = n] ELSE h.heads
           sl == IF x[c] = Null THEN h.sl_bitmap \ {c} ELSE h.sl_bitmap
           fl == IF x[c] = Null /\ \A d \in sl : d[1] # c[1]
                 THEN h.fl_bitmap \ {c[1]} ELSE h.fl_bitmap
<1>3. RemoveFree(h, b) = [mem |-> m3, heads |-> x, fl_bitmap |-> fl, sl_bitmap |-> sl]
  BY <1>2 DEF RemoveFree
<1>4. /\ h.mem \in [Addrs -> Header] /\ h.heads \in [Classes -> Int]
      /\ h.fl_bitmap \in SUBSET Nat /\ h.sl_bitmap \in SUBSET Classes
  BY HeapFields
<1>5. x \in [Classes -> Int] /\ sl \in SUBSET Classes /\ fl \in SUBSET Nat
  BY <1>4, <1>1
<1>6. /\ m1 \in [Addrs -> Header]
      /\ \A a \in Addrs :
            /\ m1[a].size = h.mem[a].size
            /\ m1[a].free <=> h.mem[a].free
            /\ m1[a].prev_free = h.mem[a].prev_free
            /\ m1[a].prev_phys = h.mem[a].prev_phys
            /\ m1[a].next = IF a = p THEN n ELSE h.mem[a].next
            /\ m1[a].prev = h.mem[a].prev
  <2>1. CASE p = Null
    BY <1>4, <2>1, Layout
  <2>2. CASE p # Null
    BY <1>4, <1>1, <2>2, MemSetNext
  <2> QED BY <2>1, <2>2
<1> HIDE DEF m1
<1>7. /\ m2 \in [Addrs -> Header]
      /\ \A a \in Addrs :
            /\ m2[a].size = m1[a].size
            /\ m2[a].free <=> m1[a].free
            /\ m2[a].prev_free = m1[a].prev_free
            /\ m2[a].prev_phys = m1[a].prev_phys
            /\ m2[a].next = m1[a].next
            /\ m2[a].prev = IF a = n THEN p ELSE m1[a].prev
  <2>1. CASE n = Null
    BY <1>6, <2>1, Layout
  <2>2. CASE n # Null
    BY <1>6, <1>1, <2>2, MemSetPrev
  <2> QED BY <2>1, <2>2
<1> HIDE DEF m2
<1>8. /\ m3 \in [Addrs -> Header]
      /\ \A a \in Addrs :
            /\ m3[a].size = m2[a].size
            /\ m3[a].free <=> a # b /\ m2[a].free
            /\ m3[a].prev_free = m2[a].prev_free
            /\ m3[a].prev_phys = m2[a].prev_phys
            /\ m3[a].next = m2[a].next
            /\ m3[a].prev = m2[a].prev
  BY <1>7, MemClearFree
<1> HIDE DEF m3, x, sl, fl
<1>9. HeapType(RemoveFree(h, b))
  BY <1>3, <1>5, <1>8, HeapMade
<1>10. /\ RemoveFree(h, b).mem = m3 /\ RemoveFree(h, b).heads = x
      /\ RemoveFree(h, b).fl_bitmap = fl /\ RemoveFree(h, b).sl_bitmap = sl
  BY <1>3
<1>11. ASSUME NEW a \in Addrs
      PROVE  /\ m3[a].size = h.mem[a].size
             /\ m3[a].free <=> a # b /\ h.mem[a].free
             /\ m3[a].prev_free = h.mem[a].prev_free
             /\ m3[a].prev_phys = h.mem[a].prev_phys
             /\ m3[a].next = IF a = p THEN n ELSE h.mem[a].next
             /\ m3[a].prev = IF a = n THEN p ELSE h.mem[a].prev
  BY <1>6, <1>7, <1>8
<1>12. /\ x = IF p = Null THEN [h.heads EXCEPT ![c] = n] ELSE h.heads
       /\ sl = IF x[c] = Null THEN h.sl_bitmap \ {c} ELSE h.sl_bitmap
       /\ fl = IF x[c] = Null /\ \A d \in sl : d[1] # c[1]
               THEN h.fl_bitmap \ {c[1]} ELSE h.fl_bitmap
  BY DEF x, sl, fl
<1> DEFINE g == RemoveFree(h, b)
<1>13. /\ g.heads = IF p = Null THEN [h.heads EXCEPT ![c] = n] ELSE h.heads
       /\ g.sl_bitmap = IF g.heads[c] = Null THEN h.sl_bitmap \ {c} ELSE h.sl_bitmap
       /\ g.fl_bitmap = IF g.heads[c] = Null /\ \A d \in g.sl_bitmap : d[1] # c[1]
                        THEN h.fl_bitmap \ {c[1]} ELSE h.fl_bitmap
  <2> HIDE DEF g
  <2> QED BY <1>10, <1>12 DEF g
<1>14. \A a \in Addrs :
         /\ g.mem[a].size = h.mem[a].size
         /\ g.mem[a].free <=> a # b /\ h.mem[a].free
         /\ g.mem[a].prev_free = h.mem[a].prev_free
         /\ g.mem[a].prev_phys = h.mem[a].prev_phys
         /\ g.mem[a].next = IF a = p THEN n ELSE h.mem[a].next
         /\ g.mem[a].prev = IF a = n THEN p ELSE h.mem[a].prev
  <2> HIDE DEF g
  <2> QED BY <1>10, <1>11 DEF g
<1> HIDE DEF g
<1>15. HeapType(g)
  BY <1>9 DEF g
<1>16. Unlinked(g, h, b)
  BY <1>13, <1>14, <1>15, <1>2 DEF Unlinked
<1> QED BY <1>16 DEF g

(* Whatever leaves sizes and links of the listed blocks, the heads and the   *)
(* bitmaps alone keeps the lists.                                            *)
LEMMA LinkedFrame ==
    ASSUME NEW h, NEW g, NEW F \in SUBSET Addrs, Linked(h, F),
           g.heads = h.heads, g.fl_bitmap = h.fl_bitmap, g.sl_bitmap = h.sl_bitmap,
           \A q \in F : /\ g.mem[q].size = h.mem[q].size
                        /\ g.mem[q].next = h.mem[q].next
                        /\ g.mem[q].prev = h.mem[q].prev
    PROVE  Linked(g, F)
<1>1. PICK r \in [Addrs -> Int], k \in Int : ByRank(h, F, r, k)
  BY DEF Linked
<1>2. BitsMatch(g)
  BY DEF Linked, BitsMatch
<1>3. ByRank(g, F, r, k)
  BY <1>1 DEF ByRank
<1> QED BY <1>2, <1>3 DEF Linked

(* Where the links of a listed block lead. *)
LEMMA LinkedNode ==
    ASSUME NEW h, HeapType(h), NEW F \in SUBSET Addrs, Linked(h, F), NEW b \in F
    PROVE  /\ h.mem[b].size \in Sizes /\ Mapping(h.mem[b].size) \in Classes
           /\ h.mem[b].prev = Null \/ h.mem[b].prev \in F \ {b}
           /\ h.mem[b].next = Null \/ h.mem[b].next \in F \ {b}
           /\ h.mem[b].prev \in Int /\ h.mem[b].next \in Int
<1>1. PICK r \in [Addrs -> Int], k \in Int : ByRank(h, F, r, k)
  BY DEF Linked
<1>2. h.mem[b].size \in Sizes
  BY <1>1 DEF ByRank
<1>3. h.mem[b].prev = Null \/ h.mem[b].prev \in F \ {b}
  BY <1>1 DEF ByRank
<1>4. h.mem[b].next = Null \/ h.mem[b].next \in F \ {b}
  <2>1. SUFFICES ASSUME h.mem[b].next # Null, h.mem[b].next = b PROVE FALSE
    BY <1>1 DEF ByRank
  <2>2. h.mem[b].prev = b
    BY <1>1, <2>1 DEF ByRank
  <2>3. h.mem[b].prev # Null
    BY <2>2, Layout
  <2> QED BY <1>3, <2>2, <2>3
<1>5. h.mem[b] \in Header
  BY HeapFields
<1>6. h.mem[b].prev \in Int /\ h.mem[b].next \in Int
  BY <1>5 DEF Header
<1> QED BY <1>2, <1>3, <1>4, <1>6, HasClass

(* One block becomes free, or is no longer; nothing else of the pool changes. *)
Freed(g, h, b) ==
    \A a \in Addrs : /\ g.mem[a].size = h.mem[a].size
                     /\ g.mem[a].prev_free = h.mem[a].prev_free
                     /\ g.mem[a].prev_phys = h.mem[a].prev_phys
                     /\ g.mem[a].free <=> a = b \/ h.mem[a].free

Taken(g, h, b) ==
    \A a \in Addrs : /\ g.mem[a].size = h.mem[a].size
                     /\ g.mem[a].prev_free = h.mem[a].prev_free
                     /\ g.mem[a].prev_phys = h.mem[a].prev_phys
                     /\ g.mem[a].free <=> a # b /\ h.mem[a].free

(* insert_free adds the block to the lists. *)
LEMMA LinkedInsert ==
    ASSUME NEW h, HeapType(h), NEW F \in SUBSET Addrs, Linked(h, F),
           NEW b \in Addrs, b \notin F, h.mem[b].size \in Sizes
    PROVE  /\ HeapType(InsertFree(h, b)) /\ Linked(InsertFree(h, b), F \cup {b})
           /\ Freed(InsertFree(h, b), h, b)
<1> DEFINE c == Mapping(h.mem[b].size)
           old == h.heads[c]
           g == InsertFree(h, b)
<1>1. PICK r \in [Addrs -> Int], k \in Int : ByRank(h, F, r, k)
  BY DEF Linked
<1>2. c \in Classes /\ old \in Int
  BY HasClass, HeapFields
<1>3. old = Null \/ old \in F
  BY <1>1, <1>2 DEF ByRank
<1> HIDE DEF c, old
<1>4. /\ HeapType(g)
      /\ g.heads = [h.heads EXCEPT ![c] = b]
      /\ g.fl_bitmap = h.fl_bitmap \cup {c[1]}
      /\ g.sl_bitmap = h.sl_bitmap \cup {c}
      /\ \A a \in Addrs :
            /\ g.mem[a].size = h.mem[a].size
            /\ g.mem[a].prev_free = h.mem[a].prev_free
            /\ g.mem[a].prev_phys = h.mem[a].prev_phys
            /\ g.mem[a].free <=> a = b \/ h.mem[a].free
            /\ g.mem[a].next = IF a = b THEN old ELSE h.mem[a].next
            /\ g.mem[a].prev = IF a = b THEN Null ELSE IF a = old THEN b ELSE h.mem[a].prev
  <2>1. old = Null \/ old \in Addrs \ {b}
    BY <1>3
  <2>2. c = Mapping(h.mem[b].size) /\ old = h.heads[c]
    BY DEF c, old
  <2>3. c \in Classes
    BY <1>2
  <2>4. old \in Int
    BY <1>2
  <2> QED BY <2>1, <2>2, <2>3, <2>4, InsertFields
<1> HIDE DEF g
<1>5. h.heads \in [Classes -> Int] /\ Null \notin Addrs /\ b # Null
  BY HeapFields, Layout
<1>6. BitsMatch(g)
  <2>1. BitsMatch(h)
    BY DEF Linked
  <2>2. \A d \in Classes : d \in g.sl_bitmap <=> g.heads[d] # Null
    BY <1>2, <1>4, <1>5, <2>1 DEF BitsMatch
  <2>3. g.fl_bitmap = {d[1] : d \in g.sl_bitmap}
    BY <1>4, <2>1 DEF BitsMatch
  <2> QED BY <2>2, <2>3 DEF BitsMatch
<1> DEFINE s == [r EXCEPT ![b] = k]
           G == F \cup {b}
<1>7. s \in [Addrs -> Int] /\ s[b] = k /\ \A q \in F : s[q] = r[q]
  OBVIOUS
<1> HIDE DEF s
<1>8. \A d \in Classes : g.heads[d] = IF d = c THEN b ELSE h.heads[d]
  BY <1>2, <1>4, <1>5
<1>9. \A d \in Classes : g.heads[d] # Null =>
          /\ g.heads[d] \in G
          /\ Mapping(g.mem[g.heads[d]].size) = d
          /\ g.mem[g.heads[d]].prev = Null
  <2> TAKE d \in Classes
  <2>1. CASE d = c
    BY <1>4, <1>8, <2>1 DEF c
  <2>2. CASE d # c
    <3>1. g.heads[d] = h.heads[d]
      BY <1>8, <2>2
    <3>2. SUFFICES ASSUME h.heads[d] # Null
                   PROVE  /\ h.heads[d] \in F
                          /\ Mapping(g.mem[h.heads[d]].size) = d
                          /\ g.mem[h.heads[d]].prev = Null
      BY <3>1
    <3>3. /\ h.heads[d] \in F
          /\ Mapping(h.mem[h.heads[d]].size) = d
          /\ h.mem[h.heads[d]].prev = Null
      BY <1>1, <3>2 DEF ByRank
    <3>4. h.heads[d] # old
      <4>1. SUFFICES ASSUME h.heads[d] = old PROVE FALSE
        OBVIOUS
      <4>2. old # Null /\ old = h.heads[c]
        BY <3>2, <4>1 DEF old
      <4>3. Mapping(h.mem[old].size) = c
        BY <1>1, <1>2, <4>2 DEF ByRank
      <4> QED BY <2>2, <3>3, <4>1, <4>3
    <3> QED BY <1>4, <3>3, <3>4
  <2> QED BY <2>1, <2>2
<1>10. ASSUME NEW q \in G
       PROVE  /\ g.mem[q].size \in Sizes
              /\ s[q] > k - 1
              /\ g.mem[q].prev = Null => g.heads[Mapping(g.mem[q].size)] = q
              /\ g.mem[q].prev # Null =>
                    /\ g.mem[q].prev \in G
                    /\ Mapping(g.mem[g.mem[q].prev].size) = Mapping(g.mem[q].size)
                    /\ g.mem[g.mem[q].prev].next = q
                    /\ s[g.mem[q].prev] < s[q]
              /\ g.mem[q].next # Null =>
                    /\ g.mem[q].next \in G
                    /\ g.mem[g.mem[q].next].prev = q
  <2>1. CASE q = b
    <3>1. /\ g.mem[b].size \in Sizes /\ g.mem[b].prev = Null /\ g.mem[b].next = old
          /\ Mapping(g.mem[b].size) = c /\ g.heads[c] = b
      BY <1>2, <1>4, <1>8 DEF c
    <3>2. old # Null => old \in G /\ g.mem[old].prev = b
      BY <1>3, <1>4
    <3> QED BY <1>7, <2>1, <3>1, <3>2
  <2>2. CASE q # b
    <3>1. q \in F /\ q \in Addrs
      BY <2>2
    <3>2. /\ h.mem[q].size \in Sizes
          /\ r[q] > k
          /\ h.mem[q].prev = Null => h.heads[Mapping(h.mem[q].size)] = q
          /\ h.mem[q].prev # Null =>
                /\ h.mem[q].prev \in F
                /\ Mapping(h.mem[h.mem[q].prev].size) = Mapping(h.mem[q].size)
                /\ h.mem[h.mem[q].prev].next = q
                /\ r[h.mem[q].prev] < r[q]
          /\ h.mem[q].next # Null =>
                /\ h.mem[q].next \in F
                /\ h.mem[h.mem[q].next].prev = q
      BY <1>1, <3>1 DEF ByRank
    <3>3. /\ g.mem[q].size = h.mem[q].size /\ g.mem[q].next = h.mem[q].next
          /\ g.mem[q].prev = IF q = old THEN b ELSE h.mem[q].prev
      BY <1>4, <2>2, <3>1
    <3>4. Mapping(h.mem[q].size) \in Classes
      BY <3>2, HasClass
    <3>5. s[q] > k - 1
      BY <1>7, <3>1, <3>2
    <3>6. CASE q = old
      <4>1. old # Null /\ Mapping(h.mem[old].size) = c /\ h.mem[old].prev = Null
        <5>1. old # Null
          BY <1>5, <3>1, <3>6
        <5>2. old = h.heads[c]
          BY DEF old
        <5> QED BY <1>1, <1>2, <5>1, <5>2 DEF ByRank
      <4>2. g.mem[q].prev = b /\ b # Null
        BY <1>5, <3>3, <3>6
      <4>3. g.mem[b].next = q /\ Mapping(g.mem[b].size) = c
        BY <1>4, <3>6 DEF c
      <4>4. s[b] < s[q]
        BY <1>7, <3>1, <3>2
      <4>5. g.mem[q].next # Null =>
                    /\ g.mem[q].next \in G
                    /\ g.mem[g.mem[q].next].prev = q
        <5>1. SUFFICES ASSUME h.mem[q].next # Null
                       PROVE  h.mem[q].next \in G /\ g.mem[h.mem[q].next].prev = q
          BY <3>3
        <5>2. h.mem[q].next \in F /\ h.mem[h.mem[q].next].prev = q
          BY <3>2, <5>1
        <5>3. h.mem[q].next # old
          BY <1>5, <3>1, <3>6, <4>1, <5>2
        <5> QED BY <1>4, <5>2, <5>3
      <4> QED BY <3>2, <3>3, <3>5, <3>6, <4>1, <4>2, <4>3, <4>4, <4>5
    <3>7. CASE q # old
      <4>1. g.mem[q].prev = h.mem[q].prev
        BY <3>3, <3>7
      <4>2. h.mem[q].prev = Null => g.heads[Mapping(h.mem[q].size)] = q
        <5>1. SUFFICES ASSUME h.mem[q].prev = Null
                       PROVE  g.heads[Mapping(h.mem[q].size)] = q
          OBVIOUS
        <5>2. h.heads[Mapping(h.mem[q].size)] = q
          BY <3>2, <5>1
        <5>3. Mapping(h.mem[q].size) # c
          BY <3>7, <5>2 DEF old
        <5> QED BY <1>8, <3>4, <5>2, <5>3
      <4>3. h.mem[q].prev # Null =>
                    /\ h.mem[q].prev \in G
                    /\ Mapping(g.mem[h.mem[q].prev].size) = Mapping(h.mem[q].size)
                    /\ g.mem[h.mem[q].prev].next = q
                    /\ s[h.mem[q].prev] < s[q]
        BY <1>4, <1>7, <3>1, <3>2
      <4>4. h.mem[q].next # Null =>
                    /\ h.mem[q].next \in G
                    /\ g.mem[h.mem[q].next].prev = q
        <5>1. SUFFICES ASSUME h.mem[q].next # Null
                       PROVE  h.mem[q].next \in G /\ g.mem[h.mem[q].next].prev = q
          OBVIOUS
        <5>2. h.mem[q].next \in F /\ h.mem[h.mem[q].next].prev = q
          BY <3>2, <5>1
        <5>3. h.mem[q].next # old
          <6>1. SUFFICES ASSUME h.mem[q].next = old PROVE FALSE
            OBVIOUS
          <6>2. old # Null /\ old = h.heads[c]
            BY <1>5, <5>2, <6>1 DEF old
          <6>3. h.mem[old].prev = Null
            BY <1>1, <1>2, <6>2 DEF ByRank
          <6> QED BY <1>5, <3>1, <5>2, <6>1, <6>3
        <5> QED BY <1>4, <5>2, <5>3
      <4> QED BY <3>2, <3>3, <3>5, <4>1, <4>2, <4>3, <4>4
    <3> QED BY <3>6, <3>7
  <2> QED BY <2>1, <2>2
<1>11. ByRank(g, G, s, k - 1)
  BY <1>9, <1>10 DEF ByRank
<1>12. Linked(g, G)
  <2>1. k - 1 \in Int
    OBVIOUS
  <2> QED BY <1>6, <1>7, <1>11, <2>1, Zenon DEF Linked
<1>13. Freed(g, h, b)
  BY <1>4 DEF Freed
<1> QED BY <1>4, <1>12, <1>13 DEF g

(* remove_free takes the block off the lists. *)
LEMMA LinkedRemove ==
    ASSUME NEW h, HeapType(h), NEW F \in SUBSET Addrs, Linked(h, F), NEW b \in F
    PROVE  /\ HeapType(RemoveFree(h, b)) /\ Linked(RemoveFree(h, b), F \ {b})
           /\ Taken(RemoveFree(h, b), h, b)
<1> DEFINE c == Mapping(h.mem[b].size)
           p == h.mem[b].prev
           n == h.mem[b].next
           g == RemoveFree(h, b)
           G == F \ {b}
<1>1. PICK r \in [Addrs -> Int], k \in Int : ByRank(h, F, r, k)
  BY DEF Linked
<1>2. /\ c \in Classes /\ p \in Int /\ n \in Int /\ b \in Addrs
      /\ p = Null \/ p \in G
      /\ n = Null \/ n \in G
  BY LinkedNode
<1>3. /\ HeapType(g)
      /\ g.heads = IF p = Null THEN [h.heads EXCEPT ![c] = n] ELSE h.heads
      /\ g.sl_bitmap = IF g.heads[c] = Null THEN h.sl_bitmap \ {c} ELSE h.sl_bitmap
      /\ g.fl_bitmap = IF g.heads[c] = Null /\ \A d \in g.sl_bitmap : d[1] # c[1]
                       THEN h.fl_bitmap \ {c[1]} ELSE h.fl_bitmap
      /\ \A a \in Addrs :
            /\ g.mem[a].size = h.mem[a].size
            /\ g.mem[a].prev_free = h.mem[a].prev_free
            /\ g.mem[a].prev_phys = h.mem[a].prev_phys
            /\ g.mem[a].free <=> a # b /\ h.mem[a].free
            /\ g.mem[a].next = IF a = p THEN n ELSE h.mem[a].next
            /\ g.mem[a].prev = IF a = n THEN p ELSE h.mem[a].prev
  <2>1. p = Null \/ p \in Addrs \ {b}
    BY <1>2
  <2>2. n = Null \/ n \in Addrs \ {b}
    BY <1>2
  <2>3. c \in Classes /\ b \in Addrs
    BY <1>2
  <2>4. Unlinked(g, h, b)
    BY <2>1, <2>2, <2>3, RemoveFields
  <2> HIDE DEF g
  <2> QED BY <2>4, Zenon DEF Unlinked
<1>4. h.heads \in [Classes -> Int] /\ Null \notin Addrs
  BY HeapFields, Layout
<1>5. /\ p = Null => h.heads[c] = b
      /\ p # Null => Mapping(h.mem[p].size) = c /\ h.mem[p].next = b /\ r[p] < r[b]
      /\ n # Null => h.mem[n].prev = b /\ Mapping(h.mem[n].size) = c /\ r[b] < r[n]
  <2>1. /\ p = Null => h.heads[c] = b
        /\ p # Null => Mapping(h.mem[p].size) = c /\ h.mem[p].next = b /\ r[p] < r[b]
        /\ n # Null => h.mem[n].prev = b
    BY <1>1 DEF ByRank
  <2>2. ASSUME n # Null PROVE Mapping(h.mem[n].size) = c /\ r[b] < r[n]
    <3>1. n \in F /\ h.mem[n].prev = b /\ b # Null
      BY <1>2, <1>4, <2>1, <2>2
    <3> HIDE DEF n
    <3> QED BY <1>1, <3>1 DEF ByRank
  <2> QED BY <2>1, <2>2
<1>6. /\ c = Mapping(h.mem[b].size) /\ p = h.mem[b].prev /\ n = h.mem[b].next
  OBVIOUS
<1> HIDE DEF c, p, n, g
<1>7. ASSUME NEW d \in Classes
      PROVE  g.heads[d] = IF p = Null /\ d = c THEN n ELSE h.heads[d]
  BY <1>2, <1>3, <1>4
<1>8. BitsMatch(g)
  <2>1. BitsMatch(h) /\ h.sl_bitmap \in SUBSET Classes
    BY HeapFields DEF Linked
  <2>2. ASSUME NEW d \in Classes PROVE d \in g.sl_bitmap <=> g.heads[d] # Null
    <3>1. d \in h.sl_bitmap <=> h.heads[d] # Null
      BY <2>1 DEF BitsMatch
    <3>2. c \in h.sl_bitmap <=> h.heads[c] # Null
      BY <1>2, <2>1 DEF BitsMatch
    <3>3. d # c => g.heads[d] = h.heads[d]
      BY <1>7
    <3>4. p = Null => h.heads[c] # Null
      BY <1>2, <1>4, <1>5
    <3>5. p # Null => g.heads[c] = h.heads[c]
      BY <1>3
    <3> QED BY <1>3, <3>1, <3>2, <3>3, <3>4, <3>5
  <2>3. h.fl_bitmap = {d[1] : d \in h.sl_bitmap}
    BY <2>1 DEF BitsMatch
  <2>4. g.fl_bitmap = {d[1] : d \in g.sl_bitmap}
    <3>1. CASE g.heads[c] # Null
      BY <1>3, <2>3, <3>1
    <3>2. CASE g.heads[c] = Null
      <4>1. g.sl_bitmap = h.sl_bitmap \ {c}
        BY <1>3, <3>2
      <4>2. CASE \A d \in g.sl_bitmap : d[1] # c[1]
        <5>1. g.fl_bitmap = h.fl_bitmap \ {c[1]}
          BY <1>3, <3>2, <4>2
        <5>2. ASSUME NEW x \in g.fl_bitmap PROVE x \in {d[1] : d \in g.sl_bitmap}
          BY <2>3, <4>1, <5>1
        <5>3. ASSUME NEW x \in {d[1] : d \in g.sl_bitmap} PROVE x \in g.fl_bitmap
          BY <2>3, <4>1, <4>2, <5>1
        <5> QED BY <5>2, <5>3
      <4>3. CASE \E e \in g.sl_bitmap : e[1] = c[1]
        <5>1. g.fl_bitmap = h.fl_bitmap
          BY <1>3, <4>3
        <5>2. ASSUME NEW x \in g.fl_bitmap PROVE x \in {d[1] : d \in g.sl_bitmap}
          BY <2>3, <4>1, <4>3, <5>1
        <5>3. ASSUME NEW x \in {d[1] : d \in g.sl_bitmap} PROVE x \in g.fl_bitmap
          BY <2>3, <4>1, <5>1
        <5> QED BY <5>2, <5>3
      <4> QED BY <4>2, <4>3
    <3> QED BY <3>1, <3>2
  <2> QED BY <2>2, <2>4 DEF BitsMatch
<1>9. ASSUME NEW d \in Classes, g.heads[d] # Null
      PROVE  /\ g.heads[d] \in G
             /\ Mapping(g.mem[g.heads[d]].size) = d
             /\ g.mem[g.heads[d]].prev = Null
  <2>1. CASE p = Null /\ d = c
    <3>1. g.heads[d] = n /\ n # Null
      BY <1>7, <1>9, <2>1
    <3> QED BY <1>2, <1>3, <1>5, <2>1, <3>1
  <2>2. CASE ~(p = Null /\ d = c)
    <3> DEFINE x == h.heads[d]
    <3>1. g.heads[d] = x /\ x # Null
      BY <1>7, <1>9, <2>2
    <3>2. x \in F /\ Mapping(h.mem[x].size) = d /\ h.mem[x].prev = Null
      BY <1>1, <3>1 DEF ByRank
    <3> HIDE DEF x
    <3>3. x # b
      BY <1>6, <2>2, <3>2
    <3>4. x # n
      BY <1>2, <1>4, <1>5, <3>1, <3>2
    <3> QED BY <1>3, <3>1, <3>2, <3>3, <3>4
  <2> QED BY <2>1, <2>2
<1>10. ASSUME NEW q \in G
       PROVE  /\ g.mem[q].size \in Sizes
              /\ r[q] > k
              /\ g.mem[q].prev = Null => g.heads[Mapping(g.mem[q].size)] = q
              /\ g.mem[q].prev # Null =>
                    /\ g.mem[q].prev \in G
                    /\ Mapping(g.mem[g.mem[q].prev].size) = Mapping(g.mem[q].size)
                    /\ g.mem[g.mem[q].prev].next = q
                    /\ r[g.mem[q].prev] < r[q]
              /\ g.mem[q].next # Null =>
                    /\ g.mem[q].next \in G
                    /\ g.mem[g.mem[q].next].prev = q
  <2>1. q \in F /\ q # b /\ q \in Addrs
    OBVIOUS
  <2>2. /\ h.mem[q].size \in Sizes
        /\ r[q] > k
        /\ h.mem[q].prev = Null => h.heads[Mapping(h.mem[q].size)] = q
        /\ h.mem[q].prev # Null =>
              /\ h.mem[q].prev \in F
              /\ Mapping(h.mem[h.mem[q].prev].size) = Mapping(h.mem[q].size)
              /\ h.mem[h.mem[q].prev].next = q
              /\ r[h.mem[q].prev] < r[q]
        /\ h.mem[q].next # Null =>
              /\ h.mem[q].next \in F
              /\ h.mem[h.mem[q].next].prev = q
    BY <1>1, <2>1 DEF ByRank
  <2>3. /\ g.mem[q].size = h.mem[q].size
        /\ g.mem[q].next = IF q = p THEN n ELSE h.mem[q].next
        /\ g.mem[q].prev = IF q = n THEN p ELSE h.mem[q].prev
    BY <1>3, <2>1
  <2>4. Mapping(h.mem[q].size) \in Classes
    BY <2>2, HasClass
  <2>5. /\ g.mem[q].prev = Null => g.heads[Mapping(g.mem[q].size)] = q
        /\ g.mem[q].prev # Null =>
              /\ g.mem[q].prev \in G
              /\ Mapping(g.mem[g.mem[q].prev].size) = Mapping(g.mem[q].size)
              /\ g.mem[g.mem[q].prev].next = q
              /\ r[g.mem[q].prev] < r[q]
    <3>1. CASE q = n
      <4>1. g.mem[q].prev = p /\ n # Null
        BY <1>4, <2>1, <2>3, <3>1
      <4>2. Mapping(h.mem[q].size) = c /\ r[b] < r[q]
        BY <1>5, <3>1, <4>1
      <4>3. p = Null => g.heads[c] = q
        BY <1>2, <1>7, <3>1
      <4>4. ASSUME p # Null
            PROVE  p \in G /\ Mapping(g.mem[p].size) = c /\ g.mem[p].next = q /\ r[p] < r[q]
        <5>1. p \in G /\ p \in Addrs
          BY <1>2, <4>4
        <5>2. Mapping(h.mem[p].size) = c /\ r[p] < r[b]
          BY <1>5, <4>4
        <5>3. r[p] \in Int /\ r[q] \in Int /\ r[b] \in Int
          BY <1>2, <2>1, <5>1
        <5> QED BY <1>3, <3>1, <4>2, <5>1, <5>2, <5>3
      <4> QED BY <2>3, <4>1, <4>2, <4>3, <4>4
    <3>2. CASE q # n
      <4>1. g.mem[q].prev = h.mem[q].prev
        BY <2>3, <3>2
      <4>2. ASSUME h.mem[q].prev = Null PROVE g.heads[Mapping(h.mem[q].size)] = q
        <5>1. h.heads[Mapping(h.mem[q].size)] = q
          BY <2>2, <4>2
        <5>2. ~(p = Null /\ Mapping(h.mem[q].size) = c)
          BY <1>5, <2>1, <5>1
        <5> QED BY <1>7, <2>4, <5>1, <5>2
      <4>3. ASSUME h.mem[q].prev # Null
            PROVE  /\ h.mem[q].prev \in G
                   /\ Mapping(g.mem[h.mem[q].prev].size) = Mapping(h.mem[q].size)
                   /\ g.mem[h.mem[q].prev].next = q
                   /\ r[h.mem[q].prev] < r[q]
        <5> DEFINE x == h.mem[q].prev
        <5>1. /\ x \in F /\ Mapping(h.mem[x].size) = Mapping(h.mem[q].size)
              /\ h.mem[x].next = q /\ r[x] < r[q]
          BY <2>2, <4>3
        <5> HIDE DEF x
        <5>2. x # b
          BY <1>6, <3>2, <5>1
        <5>3. x # p
          BY <1>2, <1>4, <1>5, <2>1, <5>1
        <5>4. x \in G /\ g.mem[x].size = h.mem[x].size /\ g.mem[x].next = q
          BY <1>3, <5>1, <5>2, <5>3
        <5> QED BY <5>1, <5>4 DEF x
      <4> QED BY <2>3, <4>1, <4>2, <4>3
    <3> QED BY <3>1, <3>2
  <2>6. ASSUME g.mem[q].next # Null
        PROVE  g.mem[q].next \in G /\ g.mem[g.mem[q].next].prev = q
    <3>1. CASE q = p
      <4>1. g.mem[q].next = n /\ n \in G /\ n \in Addrs
        BY <1>2, <2>3, <2>6, <3>1
      <4> QED BY <1>3, <3>1, <4>1
    <3>2. CASE q # p
      <4> DEFINE y == h.mem[q].next
      <4>1. g.mem[q].next = y /\ y # Null
        BY <2>3, <2>6, <3>2
      <4>2. y \in F /\ h.mem[y].prev = q
        BY <2>2, <4>1
      <4> HIDE DEF y
      <4>3. y # b
        BY <1>6, <3>2, <4>2
      <4>4. y # n
        BY <1>5, <2>1, <4>1, <4>2
      <4> QED BY <1>3, <4>1, <4>2, <4>3, <4>4
    <3> QED BY <3>1, <3>2
  <2> QED BY <2>2, <2>3, <2>5, <2>6
<1>11. ByRank(g, G, r, k)
  BY <1>9, <1>10 DEF ByRank
<1>12. Linked(g, G)
  BY <1>8, <1>11 DEF Linked
<1>13. Taken(g, h, b)
  BY <1>3 DEF Taken
<1> QED BY <1>3, <1>12, <1>13 DEF g

(* Following a list, step by step: functions that give the first steps exist *)
(* for every number of them, as a least number for which there is none would *)
(* be one more than one for which there is.                                  *)
LEMMA ListLoop ==
    ASSUME NEW c
    PROVE  \E g : /\ g[0] = {heap.heads[c]} \ {Null}
                  /\ \A n \in 1..PoolSize : g[n] = g[n - 1] \cup ({heap.mem[b].next : b \in g[n - 1]} \ {Null})
                  /\ OnList(c) = g[PoolSize]
<1> DEFINE One(x) == x \cup ({heap.mem[b].next : b \in x} \ {Null})
           Upto[n \in 0..PoolSize] ==
               IF n = 0 THEN {heap.heads[c]} \ {Null}
               ELSE LET before == Upto[n - 1]
                    IN  before \cup ({heap.mem[b].next : b \in before} \ {Null})
           Is(g, k) == g = [n \in 0..k |-> IF n = 0 THEN {heap.heads[c]} \ {Null} ELSE One(g[n - 1])]
           Bad == {k \in Nat : ~\E g : Is(g, k)}
<1>1. OnList(c) = Upto[PoolSize]
  BY Zenon DEF OnList
<1>2. PoolSize \in Nat
  BY TlsfAssumption
<1>3. (\E g : Is(g, PoolSize)) => Is(Upto, PoolSize)
  BY Zenon
<1> HIDE DEF Upto, One
<1>4. Bad = {}
  <2> SUFFICES ASSUME Bad # {} PROVE FALSE
    OBVIOUS
  <2>1. PICK k \in Bad : \A j \in Bad : k <= j
    <3>1. Bad \in SUBSET Nat
      OBVIOUS
    <3> HIDE DEF Bad
    <3> QED BY <3>1, LeastOfNat
  <2>2. k \in Nat /\ ~\E g : Is(g, k)
    OBVIOUS
  <2>3. k # 0
    <3> DEFINE g == [n \in 0..0 |-> {heap.heads[c]} \ {Null}]
    <3>1. g = [n \in 0..0 |-> IF n = 0 THEN {heap.heads[c]} \ {Null} ELSE One(g[n - 1])]
      OBVIOUS
    <3> HIDE DEF g
    <3> QED BY <2>2, <3>1
  <2>4. k - 1 \in Nat /\ k - 1 \notin Bad
    <3> HIDE DEF Bad
    <3> QED BY <2>1, <2>2, <2>3
  <2>5. PICK g : Is(g, k - 1)
    BY <2>4
  <2> DEFINE e == [n \in 0..k |-> IF n = k THEN One(g[k - 1]) ELSE g[n]]
  <2>6. \A n \in 0..(k - 1) : g[n] = IF n = 0 THEN {heap.heads[c]} \ {Null} ELSE One(g[n - 1])
    <3>1. g = [n \in 0..(k - 1) |-> IF n = 0 THEN {heap.heads[c]} \ {Null} ELSE One(g[n - 1])]
      BY <2>5
    <3> QED BY <3>1
  <2>7. \A n \in 0..(k - 1) : e[n] = g[n]
    BY <2>2
  <2>8. e[k] = One(g[k - 1])
    BY <2>2
  <2>9. \A n \in 0..k : e[n] = IF n = 0 THEN {heap.heads[c]} \ {Null} ELSE One(e[n - 1])
    <3> TAKE n \in 0..k
    <3> HIDE DEF e
    <3>1. CASE n = k
      BY <2>2, <2>3, <2>4, <2>7, <2>8, <3>1
    <3>2. CASE n # k
      <4>1. n \in 0..(k - 1) /\ (n # 0 => n - 1 \in 0..(k - 1))
        BY <2>2, <3>2
      <4> QED BY <2>6, <2>7, <4>1
    <3> QED BY <3>1, <3>2
  <2>10. e = [n \in 0..k |-> e[n]]
    OBVIOUS
  <2> HIDE DEF e
  <2>11. e = [n \in 0..k |-> IF n = 0 THEN {heap.heads[c]} \ {Null} ELSE One(e[n - 1])]
    BY <2>9, <2>10
  <2> QED BY <2>2, <2>11
<1>5. Is(Upto, PoolSize)
  BY <1>2, <1>3, <1>4
<1>6. Upto[0] = {heap.heads[c]} \ {Null}
  BY <1>2, <1>5
<1>7. \A n \in 1..PoolSize : Upto[n] = One(Upto[n - 1])
  <2> TAKE n \in 1..PoolSize
  <2>1. n \in 0..PoolSize /\ n # 0
    BY <1>2
  <2> QED BY <1>5, <2>1
<1> DEFINE u == Upto
<1>8. /\ u[0] = {heap.heads[c]} \ {Null}
      /\ \A n \in 1..PoolSize : u[n] = One(u[n - 1])
      /\ OnList(c) = u[PoolSize]
  BY <1>1, <1>6, <1>7
<1> HIDE DEF u
<1> QED BY <1>8, Zenon DEF One

(* Walking the pool, step by step. *)
LEMMA WalkLoop ==
    \E g : /\ g[0] = {0}
           /\ \A n \in 1..PoolSize : g[n] = UNION {IF b = Sentinel THEN {b} ELSE {b, NextPhys(heap, b)} : b \in g[n - 1]}
           /\ Walk = g[PoolSize]
<1> DEFINE One(x) == UNION {IF b = Sentinel THEN {b} ELSE {b, NextPhys(heap, b)} : b \in x}
           Upto[n \in 0..PoolSize] ==
               IF n = 0 THEN {0}
               ELSE UNION {IF b = Sentinel THEN {b} ELSE {b, NextPhys(heap, b)} : b \in Upto[n - 1]}
           Is(g, k) == g = [n \in 0..k |-> IF n = 0 THEN {0} ELSE One(g[n - 1])]
           Bad == {k \in Nat : ~\E g : Is(g, k)}
<1>1. Walk = Upto[PoolSize]
  BY Zenon DEF Walk
<1>2. PoolSize \in Nat
  BY TlsfAssumption
<1>3. (\E g : Is(g, PoolSize)) => Is(Upto, PoolSize)
  BY Zenon
<1> HIDE DEF Upto, One
<1>4. Bad = {}
  <2> SUFFICES ASSUME Bad # {} PROVE FALSE
    OBVIOUS
  <2>1. PICK k \in Bad : \A j \in Bad : k <= j
    <3>1. Bad \in SUBSET Nat
      OBVIOUS
    <3> HIDE DEF Bad
    <3> QED BY <3>1, LeastOfNat
  <2>2. k \in Nat /\ ~\E g : Is(g, k)
    OBVIOUS
  <2>3. k # 0
    <3> DEFINE g == [n \in 0..0 |-> {0}]
    <3>1. g = [n \in 0..0 |-> IF n = 0 THEN {0} ELSE One(g[n - 1])]
      OBVIOUS
    <3> HIDE DEF g
    <3> QED BY <2>2, <3>1
  <2>4. k - 1 \in Nat /\ k - 1 \notin Bad
    <3> HIDE DEF Bad
    <3> QED BY <2>1, <2>2, <2>3
  <2>5. PICK g : Is(g, k - 1)
    BY <2>4
  <2> DEFINE e == [n \in 0..k |-> IF n = k THEN One(g[k - 1]) ELSE g[n]]
  <2>6. \A n \in 0..(k - 1) : g[n] = IF n = 0 THEN {0} ELSE One(g[n - 1])
    <3>1. g = [n \in 0..(k - 1) |-> IF n = 0 THEN {0} ELSE One(g[n - 1])]
      BY <2>5
    <3> QED BY <3>1
  <2>7. \A n \in 0..(k - 1) : e[n] = g[n]
    BY <2>2
  <2>8. e[k] = One(g[k - 1])
    BY <2>2
  <2>9. \A n \in 0..k : e[n] = IF n = 0 THEN {0} ELSE One(e[n - 1])
    <3> TAKE n \in 0..k
    <3> HIDE DEF e
    <3>1. CASE n = k
      BY <2>2, <2>3, <2>4, <2>7, <2>8, <3>1
    <3>2. CASE n # k
      <4>1. n \in 0..(k - 1) /\ (n # 0 => n - 1 \in 0..(k - 1))
        BY <2>2, <3>2
      <4> QED BY <2>6, <2>7, <4>1
    <3> QED BY <3>1, <3>2
  <2>10. e = [n \in 0..k |-> e[n]]
    OBVIOUS
  <2> HIDE DEF e
  <2>11. e = [n \in 0..k |-> IF n = 0 THEN {0} ELSE One(e[n - 1])]
    BY <2>9, <2>10
  <2> QED BY <2>2, <2>11
<1>5. Is(Upto, PoolSize)
  BY <1>2, <1>3, <1>4
<1>6. Upto[0] = {0}
  BY <1>2, <1>5
<1>7. \A n \in 1..PoolSize : Upto[n] = One(Upto[n - 1])
  <2> TAKE n \in 1..PoolSize
  <2>1. n \in 0..PoolSize /\ n # 0
    BY <1>2
  <2> QED BY <1>5, <2>1
<1> DEFINE u == Upto
<1>8. /\ u[0] = {0}
      /\ \A n \in 1..PoolSize : u[n] = One(u[n - 1])
      /\ Walk = u[PoolSize]
  BY <1>1, <1>6, <1>7
<1> HIDE DEF u
<1> QED BY <1>8, Zenon DEF One

(* Following the list of a class from its head meets exactly the listed      *)
(* blocks of that class: a block has no more blocks of lower rank before it  *)
(* than the pool has addresses.                                              *)
LEMMA OnListIs ==
    ASSUME HeapType(heap), NEW F \in SUBSET Addrs, Linked(heap, F), NEW c \in Classes
    PROVE  OnList(c) = {b \in F : Mapping(heap.mem[b].size) = c}
<1> DEFINE S == {b \in F : Mapping(heap.mem[b].size) = c}
           x == heap.heads[c]
<1>1. PICK r \in [Addrs -> Int], k \in Int : ByRank(heap, F, r, k)
  BY DEF Linked
<1>2. PICK g : /\ g[0] = {heap.heads[c]} \ {Null}
               /\ \A n \in 1..PoolSize :
                     g[n] = g[n - 1] \cup ({heap.mem[b].next : b \in g[n - 1]} \ {Null})
               /\ OnList(c) = g[PoolSize]
  BY ListLoop, Zenon
<1>3. x # Null => x \in S
  BY <1>1 DEF ByRank
<1>4. ASSUME NEW q \in S, heap.mem[q].next # Null PROVE heap.mem[q].next \in S
  <2> DEFINE y == heap.mem[q].next
  <2>1. y \in F /\ heap.mem[y].prev = q
    BY <1>1, <1>4 DEF ByRank
  <2> HIDE DEF y
  <2>2. q # Null /\ heap.mem[y].prev # Null
    BY <2>1, Layout
  <2>3. Mapping(heap.mem[q].size) = Mapping(heap.mem[y].size)
    BY <1>1, <2>1, <2>2 DEF ByRank
  <2> QED BY <2>1, <2>3 DEF y
<1>5. ASSUME NEW q \in S
      PROVE  /\ heap.mem[q].prev = Null => q = x
             /\ heap.mem[q].prev # Null =>
                   /\ heap.mem[q].prev \in S
                   /\ heap.mem[heap.mem[q].prev].next = q
                   /\ r[heap.mem[q].prev] < r[q]
  BY <1>1 DEF ByRank
<1>6. PoolSize \in Nat /\ Null \notin Addrs /\ S \in SUBSET Addrs
  BY Layout
<1> HIDE DEF S, x
<1>7. g[0] = {x} \ {Null}
  BY <1>2 DEF x
<1>8. g[PoolSize] \subseteq S
  <2> DEFINE Bad == {n \in Nat : n <= PoolSize /\ ~(g[n] \subseteq S)}
  <2>1. SUFFICES ASSUME Bad # {} PROVE FALSE
    BY <1>6
  <2>2. PICK n \in Bad : \A j \in Bad : n <= j
    <3>1. Bad \in SUBSET Nat
      OBVIOUS
    <3> HIDE DEF Bad
    <3> QED BY <2>1, <3>1, LeastOfNat
  <2>3. n \in Nat /\ n <= PoolSize /\ ~(g[n] \subseteq S)
    OBVIOUS
  <2>4. n # 0
    BY <1>3, <1>7, <2>3
  <2>5. n - 1 \in Nat /\ n - 1 \notin Bad
    <3> HIDE DEF Bad
    <3> QED BY <2>2, <2>3, <2>4
  <2>6. g[n - 1] \subseteq S
    BY <1>6, <2>3, <2>5
  <2>7. g[n] = g[n - 1] \cup ({heap.mem[b].next : b \in g[n - 1]} \ {Null})
    BY <1>2, <1>6, <2>3, <2>4
  <2> QED BY <1>4, <2>3, <2>6, <2>7
<1> DEFINE Below(q) == {s \in S : r[s] < r[q]}
<1>9. ASSUME NEW q \in S
      PROVE  /\ IsFiniteSet(Below(q)) /\ Cardinality(Below(q)) \in Nat
             /\ Cardinality(Below(q)) <= PoolSize
  <2>1. IsFiniteSet(Addrs) /\ Cardinality(Addrs) = PoolSize
    BY FS_Interval, TlsfAssumption DEF Addrs
  <2>2. Below(q) \in SUBSET Addrs
    BY <1>6
  <2> HIDE DEF Below
  <2> QED BY <2>1, <2>2, FS_Subset, FS_CardinalityType
<1>10. ASSUME NEW q \in S, heap.mem[q].prev # Null
       PROVE  /\ heap.mem[q].prev \in S
              /\ Cardinality(Below(heap.mem[q].prev)) < Cardinality(Below(q))
  <2> DEFINE p == heap.mem[q].prev
  <2>1. p \in S /\ r[p] < r[q]
    BY <1>5, <1>10
  <2> HIDE DEF p
  <2>2. r[p] \in Int /\ r[q] \in Int /\ \A s \in S : r[s] \in Int
    BY <1>6, <2>1
  <2>3. Below(p) \in SUBSET Below(q) /\ p \in Below(q) /\ p \notin Below(p)
    BY <2>1, <2>2
  <2>4. /\ IsFiniteSet(Below(q)) /\ Cardinality(Below(q)) \in Nat
        /\ IsFiniteSet(Below(p)) /\ Cardinality(Below(p)) \in Nat
    BY <1>9, <2>1
  <2> HIDE DEF Below
  <2>5. /\ Cardinality(Below(p)) <= Cardinality(Below(q))
        /\ Cardinality(Below(q)) = Cardinality(Below(p)) => Below(q) = Below(p)
    BY <2>3, <2>4, FS_Subset
  <2>6. Cardinality(Below(p)) < Cardinality(Below(q))
    BY <2>3, <2>4, <2>5
  <2> QED BY <2>1, <2>6 DEF p
<1> HIDE DEF Below
<1> DEFINE Met(n) == /\ x # Null => x \in g[n]
                     /\ \A q \in S : Cardinality(Below(q)) <= n => q \in g[n]
           Bad == {n \in Nat : n <= PoolSize /\ ~Met(n)}
<1>11. Bad = {}
  <2>1. SUFFICES ASSUME Bad # {} PROVE FALSE
    OBVIOUS
  <2>2. PICK n \in Bad : \A j \in Bad : n <= j
    <3>1. Bad \in SUBSET Nat
      OBVIOUS
    <3> HIDE DEF Bad
    <3> QED BY <2>1, <3>1, LeastOfNat
  <2>3. n \in Nat /\ n <= PoolSize /\ ~Met(n)
    OBVIOUS
  <2>4. CASE n = 0
    <3>1. x # Null => x \in g[0]
      BY <1>7
    <3>2. ASSUME NEW q \in S, Cardinality(Below(q)) <= 0 PROVE q \in g[0]
      <4>1. heap.mem[q].prev = Null
        BY <1>9, <1>10, <3>2
      <4>2. q = x /\ x # Null
        BY <1>5, <1>6, <4>1
      <4> QED BY <3>1, <4>2
    <3> QED BY <2>3, <2>4, <3>1, <3>2
  <2>5. CASE n # 0
    <3>1. n - 1 \in Nat /\ n - 1 \notin Bad
      <4> HIDE DEF Bad
      <4> QED BY <2>2, <2>3, <2>5
    <3>2. Met(n - 1)
      BY <1>6, <2>3, <3>1
    <3>3. g[n] = g[n - 1] \cup ({heap.mem[b].next : b \in g[n - 1]} \ {Null})
      BY <1>2, <1>6, <2>3, <2>5
    <3>4. x # Null => x \in g[n]
      BY <3>2, <3>3
    <3>5. ASSUME NEW q \in S, Cardinality(Below(q)) <= n PROVE q \in g[n]
      <4>1. CASE heap.mem[q].prev = Null
        BY <1>5, <1>6, <3>4, <4>1
      <4>2. CASE heap.mem[q].prev # Null
        <5> DEFINE p == heap.mem[q].prev
        <5>1. p \in S /\ Cardinality(Below(p)) < Cardinality(Below(q)) /\ heap.mem[p].next = q
          BY <1>5, <1>10, <4>2
        <5> HIDE DEF p
        <5>2. Cardinality(Below(p)) <= n - 1
          BY <1>9, <2>3, <3>5, <5>1
        <5>3. p \in g[n - 1]
          BY <3>2, <5>1, <5>2
        <5>4. q # Null
          BY <1>6
        <5> QED BY <3>3, <5>1, <5>3, <5>4
      <4> QED BY <4>1, <4>2
    <3> QED BY <2>3, <3>4, <3>5
  <2> QED BY <2>4, <2>5
<1>12. S \subseteq g[PoolSize]
  <2>1. Met(PoolSize)
    BY <1>6, <1>11
  <2> QED BY <1>9, <2>1
<1>13. OnList(c) = S
  <2>1. OnList(c) = g[PoolSize]
    BY <1>2
  <2>2. g[PoolSize] = S
    BY <1>8, <1>12
  <2> QED BY <2>1, <2>2
<1> QED BY <1>13 DEF S

-----------------------------------------------------------------------------
(* The pool *)

(* The blocks B tile the pool: each ends where the next one begins. *)
Tiles(h, B) ==
    /\ B \in SUBSET Addrs /\ 0 \in B /\ Sentinel \in B
    /\ \A b \in B \ {Sentinel} :
          /\ h.mem[b].size >= 1
          /\ NextPhys(h, b) \in B
          /\ \A a \in B : a <= b \/ NextPhys(h, b) <= a

(* The sizes of blocks, and where they end. *)
LEMMA TileBounds ==
    ASSUME NEW h, HeapType(h), NEW B, Tiles(h, B), NEW b \in B \ {Sentinel}
    PROVE  /\ b \in Nat /\ b < Sentinel
           /\ h.mem[b].size \in Sizes /\ h.mem[b].size \in Nat
           /\ NextPhys(h, b) = b + 1 + h.mem[b].size
           /\ NextPhys(h, b) \in B /\ NextPhys(h, b) \in Addrs
           /\ b < NextPhys(h, b) /\ NextPhys(h, b) <= Sentinel
<1>1. b \in Addrs /\ h.mem[b] \in Header
  BY HeapFields DEF Tiles
<1>2. h.mem[b].size \in Nat /\ h.mem[b].size >= 1
  BY <1>1 DEF Header, Tiles
<1>3. NextPhys(h, b) = b + 1 + h.mem[b].size
  BY DEF NextPhys
<1>4. NextPhys(h, b) \in B /\ NextPhys(h, b) \in Addrs
  BY DEF Tiles
<1> QED BY <1>1, <1>2, <1>3, <1>4, Layout DEF Sizes

(* Two blocks do not overlap. *)
LEMMA TilesApart ==
    ASSUME NEW h, HeapType(h), NEW B, Tiles(h, B),
           NEW b \in B \ {Sentinel}, NEW a \in B \ {Sentinel}, a # b
    PROVE  NextPhys(h, b) <= a \/ NextPhys(h, a) <= b
<1>1. a \in Nat /\ b \in Nat
  BY TileBounds
<1> QED BY <1>1 DEF Tiles

(* Every block but the first has one before it. *)
LEMMA TileBefore ==
    ASSUME NEW h, HeapType(h), NEW B, Tiles(h, B), NEW b \in B, b # 0
    PROVE  \E a \in B \ {Sentinel} : a < b /\ NextPhys(h, a) = b
<1>1. b \in Nat /\ b <= Sentinel /\ 0 \in B /\ B \in SUBSET Nat /\ B \in SUBSET Addrs
  BY Layout DEF Tiles
<1> DEFINE Gaps == {d \in Nat : d <= b /\ d # 0 /\ b - d \in B}
<1>2. PICK d \in Gaps : \A e \in Gaps : d <= e
  <2>1. b \in Gaps
    BY <1>1
  <2>2. Gaps \in SUBSET Nat /\ Gaps # {}
    BY <2>1
  <2> HIDE DEF Gaps
  <2> QED BY <2>2, LeastOfNat
<1>3. d \in Nat /\ d <= b /\ d # 0 /\ b - d \in B
  OBVIOUS
<1> DEFINE a == b - d
<1>4. a \in B \ {Sentinel} /\ a < b /\ a \in Nat
  BY <1>1, <1>3, Layout
<1>5. NextPhys(h, a) \in B /\ a < NextPhys(h, a) /\ NextPhys(h, a) \in Nat
  <2> HIDE DEF a
  <2> QED BY <1>1, <1>4, TileBounds
<1>6. NextPhys(h, a) <= b
  BY <1>1, <1>4 DEF Tiles
<1>7. ~(NextPhys(h, a) < b)
  <2>1. SUFFICES ASSUME NextPhys(h, a) < b PROVE FALSE
    OBVIOUS
  <2> DEFINE e == b - NextPhys(h, a)
  <2>2. e \in Nat /\ e <= b /\ e # 0 /\ b - e = NextPhys(h, a)
    BY <1>1, <1>5, <2>1
  <2>3. e \in Gaps
    BY <1>5, <2>2
  <2>4. d <= e
    <3> HIDE DEF e, Gaps
    <3> QED BY <1>2, <2>3
  <2> QED BY <1>1, <1>3, <1>5, <2>4
<1> QED BY <1>1, <1>4, <1>5, <1>6, <1>7

(* Walking the pool meets exactly its blocks. *)
LEMMA WalkIs ==
    ASSUME HeapType(heap), NEW B, Tiles(heap, B)
    PROVE  Walk = B
<1>1. PICK g : /\ g[0] = {0}
               /\ \A n \in 1..PoolSize :
                     g[n] = UNION {IF b = Sentinel THEN {b} ELSE {b, NextPhys(heap, b)}
                                     : b \in g[n - 1]}
               /\ Walk = g[PoolSize]
  BY WalkLoop, Zenon
<1>2. /\ PoolSize \in Nat /\ B \in SUBSET Addrs /\ 0 \in B
      /\ \A b \in B : b \in Nat /\ b <= PoolSize
  BY Layout DEF Tiles
<1>3. ASSUME NEW n \in 1..PoolSize
      PROVE  /\ \A b \in g[n - 1] : /\ b \in g[n]
                                    /\ b # Sentinel => NextPhys(heap, b) \in g[n]
             /\ \A y \in g[n] : \E b \in g[n - 1] :
                   y = b \/ (b # Sentinel /\ y = NextPhys(heap, b))
  <2> DEFINE Step(b) == IF b = Sentinel THEN {b} ELSE {b, NextPhys(heap, b)}
  <2>1. g[n] = UNION {Step(b) : b \in g[n - 1]}
    BY <1>1
  <2>2. \A b : b \in Step(b) /\ (b # Sentinel => NextPhys(heap, b) \in Step(b))
    OBVIOUS
  <2>3. \A b : \A y \in Step(b) : y = b \/ (b # Sentinel /\ y = NextPhys(heap, b))
    OBVIOUS
  <2> HIDE DEF Step
  <2> QED BY <2>1, <2>2, <2>3
<1> DEFINE Good(n) == g[n] \subseteq B /\ \A b \in B : b <= n => b \in g[n]
           Bad == {n \in Nat : n <= PoolSize /\ ~Good(n)}
<1>4. Bad = {}
  <2>1. SUFFICES ASSUME Bad # {} PROVE FALSE
    OBVIOUS
  <2>2. PICK n \in Bad : \A j \in Bad : n <= j
    <3>1. Bad \in SUBSET Nat
      OBVIOUS
    <3> HIDE DEF Bad
    <3> QED BY <2>1, <3>1, LeastOfNat
  <2>3. n \in Nat /\ n <= PoolSize /\ ~Good(n)
    OBVIOUS
  <2>4. CASE n = 0
    <3>1. Good(0)
      BY <1>1, <1>2
    <3> QED BY <2>3, <2>4, <3>1
  <2>5. CASE n # 0
    <3>1. n - 1 \in Nat /\ n - 1 \notin Bad
      <4> HIDE DEF Bad
      <4> QED BY <2>2, <2>3, <2>5
    <3>2. Good(n - 1)
      BY <1>2, <2>3, <3>1
    <3>3. n \in 1..PoolSize
      BY <1>2, <2>3, <2>5
    <3>4. g[n] \subseteq B
      <4>1. SUFFICES ASSUME NEW y \in g[n] PROVE y \in B
        OBVIOUS
      <4>2. PICK b \in g[n - 1] : y = b \/ (b # Sentinel /\ y = NextPhys(heap, b))
        BY <1>3, <3>3
      <4>3. b \in B
        BY <3>2
      <4> QED BY <4>2, <4>3 DEF Tiles
    <3>5. ASSUME NEW b \in B, b <= n PROVE b \in g[n]
      <4>1. CASE b <= n - 1
        BY <1>3, <3>2, <3>3, <4>1
      <4>2. CASE ~(b <= n - 1)
        <5>1. b # 0 /\ b = n
          BY <1>2, <2>3, <2>5, <3>5, <4>2
        <5>2. PICK a \in B \ {Sentinel} : a < b /\ NextPhys(heap, a) = b
          BY <5>1, TileBefore
        <5>3. a \in g[n - 1]
          BY <1>2, <2>3, <3>2, <5>1, <5>2
        <5> QED BY <1>3, <3>3, <5>2, <5>3
      <4> QED BY <4>1, <4>2
    <3> QED BY <2>3, <3>4, <3>5
  <2> QED BY <2>4, <2>5
<1>5. Good(PoolSize)
  BY <1>2, <1>4
<1> QED BY <1>1, <1>2, <1>5

(* No two blocks end at the same place, and none ends inside another. *)
LEMMA NextDistinct ==
    ASSUME NEW h, HeapType(h), NEW B, Tiles(h, B),
           NEW b \in B \ {Sentinel}, NEW a \in B \ {Sentinel}, a # b
    PROVE  /\ NextPhys(h, a) # NextPhys(h, b)
           /\ NextPhys(h, a) <= b \/ NextPhys(h, b) <= a
<1>1. /\ a \in Nat /\ b \in Nat
      /\ a < NextPhys(h, a) /\ b < NextPhys(h, b)
      /\ NextPhys(h, a) \in Addrs /\ NextPhys(h, b) \in Addrs
  BY TileBounds
<1>2. NextPhys(h, b) <= a \/ NextPhys(h, a) <= b
  BY TilesApart
<1> QED BY <1>1, <1>2, Layout

(* The free blocks among B. *)
Frees(h, B) == {b \in B \ {Sentinel} : h.mem[b].free}

(* What the blocks say of the block before them is true, except perhaps      *)
(* after the blocks X.                                                       *)
Flags(h, B, X) ==
    /\ ~h.mem[0].prev_free /\ ~h.mem[Sentinel].free
    /\ \A b \in (B \ {Sentinel}) \ X : NextPhys(h, b) # Sentinel =>
          /\ h.mem[NextPhys(h, b)].prev_free <=> h.mem[b].free
          /\ h.mem[NextPhys(h, b)].prev_phys = b

(* No free block is followed by another. *)
Coalesced(h, B) == \A b \in Frees(h, B) : NextPhys(h, b) \notin Frees(h, B)

Sound(h, B, X) ==
    /\ HeapType(h) /\ Tiles(h, B) /\ Flags(h, B, X) /\ Coalesced(h, B)
    /\ Linked(h, Frees(h, B))

(* The block a grows over z, the block after it, and neither is free: the    *)
(* block after them keeps what it knew of the second.                        *)
Grown(g, h, B, a, z) ==
    /\ z = NextPhys(h, a) /\ z # Sentinel
    /\ HeapType(g) /\ Linked(g, Frees(h, B) \ {a, z})
    /\ \A x \in Addrs :
          /\ g.mem[x].size = IF x = a THEN h.mem[a].size + 1 + h.mem[z].size
                                      ELSE h.mem[x].size
          /\ g.mem[x].prev_free = h.mem[x].prev_free
          /\ g.mem[x].prev_phys = h.mem[x].prev_phys
    /\ \A x \in Addrs : x # a /\ x # z => (g.mem[x].free <=> h.mem[x].free)
    /\ ~g.mem[a].free

(* The pool stays sound when a block grows over the next. *)
LEMMA GlueSound ==
    ASSUME NEW h, NEW B, NEW X, Sound(h, B, X), NEW a \in B \ {Sentinel},
           NEW z, NEW g, Grown(g, h, B, a, z)
    PROVE  /\ Sound(g, B \ {z}, X \cup {a})
           /\ NextPhys(g, a) = NextPhys(h, z)
<1> USE DEF Grown
<1> DEFINE C == B \ {z}
<1>1. HeapType(h) /\ Tiles(h, B) /\ Flags(h, B, X) /\ Coalesced(h, B)
  BY DEF Sound
<1>2. z \in B \ {Sentinel} /\ z \in Addrs /\ a \in Nat /\ a < z
  BY <1>1, TileBounds
<1>3. /\ h.mem[a].size \in Nat /\ h.mem[z].size \in Nat /\ z \in Nat
      /\ z = a + 1 + h.mem[a].size
      /\ NextPhys(h, z) = z + 1 + h.mem[z].size /\ z < NextPhys(h, z)
      /\ NextPhys(h, z) \in B /\ NextPhys(h, z) \in Addrs
  BY <1>1, <1>2, TileBounds
<1>4. B \in SUBSET Addrs /\ 0 \in B /\ Sentinel \in B
  BY <1>1 DEF Tiles
<1>5. NextPhys(g, a) = NextPhys(h, z)
  <2>1. g.mem[a].size = h.mem[a].size + 1 + h.mem[z].size
    BY <1>4
  <2>2. NextPhys(g, a) = a + 1 + g.mem[a].size
    BY DEF NextPhys
  <2> QED BY <1>2, <1>3, <2>1, <2>2, SMTT(30)
<1>6. ASSUME NEW x \in C \ {Sentinel}, x # a
      PROVE  /\ NextPhys(g, x) = NextPhys(h, x) /\ NextPhys(h, x) # z
             /\ g.mem[x].size = h.mem[x].size
  BY <1>1, <1>2, <1>4, <1>6, NextDistinct DEF NextPhys
<1>7. Tiles(g, C)
  <2>1. C \in SUBSET Addrs /\ 0 \in C /\ Sentinel \in C
    <3>1. z # 0
      BY <1>2, <1>3
    <3> QED BY <1>4, <3>1
  <2>2. ASSUME NEW x \in C \ {Sentinel}
        PROVE  /\ g.mem[x].size >= 1 /\ NextPhys(g, x) \in C
               /\ \A y \in C : y <= x \/ NextPhys(g, x) <= y
    <3>1. CASE x = a
      <4>1. g.mem[a].size >= 1
        BY <1>3, <1>4
      <4>2. NextPhys(h, z) \in C
        BY <1>3, Layout
      <4>3. ASSUME NEW y \in C PROVE y <= a \/ NextPhys(h, z) <= y
        <5>1. y \in Addrs /\ y # z /\ (y <= a \/ z <= y) /\ (y <= z \/ NextPhys(h, z) <= y)
          BY <1>1, <1>2, <1>4 DEF Tiles
        <5> QED BY <1>2, <1>3, <5>1, Layout
      <4> QED BY <1>5, <3>1, <4>1, <4>2, <4>3
    <3>2. CASE x # a
      BY <1>1, <1>6, <3>2 DEF Tiles
    <3> QED BY <3>1, <3>2
  <2> QED BY <2>1, <2>2 DEF Tiles
<1>8. Frees(g, C) = Frees(h, B) \ {a, z}
  BY <1>4 DEF Frees
<1>9. Flags(g, C, X \cup {a})
  <2>1. ~g.mem[0].prev_free /\ ~g.mem[Sentinel].free
    BY <1>1, <1>2, Layout DEF Flags
  <2>2. ASSUME NEW x \in (C \ {Sentinel}) \ (X \cup {a}), NextPhys(g, x) # Sentinel
        PROVE  /\ g.mem[NextPhys(g, x)].prev_free <=> g.mem[x].free
               /\ g.mem[NextPhys(g, x)].prev_phys = x
    <3>1. NextPhys(g, x) = NextPhys(h, x) /\ x \in Addrs
      BY <1>4, <1>6
    <3>2. NextPhys(h, x) \in Addrs
      BY <1>1, TileBounds
    <3>3. /\ h.mem[NextPhys(h, x)].prev_free <=> h.mem[x].free
          /\ h.mem[NextPhys(h, x)].prev_phys = x
      BY <1>1, <2>2, <3>1 DEF Flags
    <3> QED BY <3>1, <3>2, <3>3
  <2> QED BY <2>1, <2>2 DEF Flags
<1>10. Coalesced(g, C)
  BY <1>1, <1>6, <1>8 DEF Coalesced, Frees
<1>11. Linked(g, Frees(g, C))
  BY <1>8
<1> QED BY <1>5, <1>7, <1>9, <1>10, <1>11 DEF Sound

(* A block is put on the lists and the block after it is told.  That one     *)
(* already knew where its neighbour begins.                                  *)
Announced(g, h, B, m) ==
    /\ ~h.mem[m].free
    /\ NextPhys(h, m) \notin Frees(h, B)
    /\ \A x \in B \ {Sentinel} : NextPhys(h, x) = m => ~h.mem[x].free
    /\ NextPhys(h, m) # Sentinel => h.mem[NextPhys(h, m)].prev_phys = m
    /\ HeapType(g) /\ Linked(g, Frees(h, B) \cup {m})
    /\ \A x \in Addrs :
          /\ g.mem[x].size = h.mem[x].size
          /\ x # NextPhys(h, m) => g.mem[x].prev_free = h.mem[x].prev_free
          /\ g.mem[x].prev_phys = h.mem[x].prev_phys
          /\ g.mem[x].free <=> x = m \/ h.mem[x].free
    /\ g.mem[NextPhys(h, m)].prev_free

(* The pool is sound once the block after has been told. *)
LEMMA FinishSound ==
    ASSUME NEW h, NEW B, NEW m \in B \ {Sentinel}, Sound(h, B, {m}),
           NEW g, Announced(g, h, B, m)
    PROVE  Sound(g, B, {})
<1> USE DEF Announced
<1> DEFINE N == NextPhys(h, m)
<1>1. HeapType(h) /\ Tiles(h, B) /\ Flags(h, B, {m}) /\ Coalesced(h, B)
  BY DEF Sound
<1>2. B \in SUBSET Addrs /\ 0 \in B /\ Sentinel \in B
  BY <1>1 DEF Tiles
<1>3. \A x \in B : NextPhys(g, x) = NextPhys(h, x)
  BY <1>2 DEF NextPhys
<1>4. N \in Addrs /\ N # 0 /\ N # m
  BY <1>1, TileBounds, Layout
<1>5. Tiles(g, B)
  BY <1>1, <1>2, <1>3 DEF Tiles
<1>6. Frees(g, B) = Frees(h, B) \cup {m}
  BY <1>2 DEF Frees
<1>7. Flags(g, B, {})
  <2>1. ~g.mem[0].prev_free /\ ~g.mem[Sentinel].free
    BY <1>1, <1>4, Layout DEF Flags
  <2>2. ASSUME NEW x \in B \ {Sentinel}, NextPhys(g, x) # Sentinel
        PROVE  /\ g.mem[NextPhys(g, x)].prev_free <=> g.mem[x].free
               /\ g.mem[NextPhys(g, x)].prev_phys = x
    <3>1. NextPhys(g, x) = NextPhys(h, x) /\ NextPhys(h, x) \in Addrs /\ x \in Addrs
      BY <1>1, <1>2, <1>3, TileBounds
    <3>2. CASE x = m
      BY <1>4, <2>2, <3>1, <3>2
    <3>3. CASE x # m
      <4>1. NextPhys(h, x) # N
        BY <1>1, <3>3, NextDistinct
      <4>2. /\ h.mem[NextPhys(h, x)].prev_free <=> h.mem[x].free
            /\ h.mem[NextPhys(h, x)].prev_phys = x
        BY <1>1, <2>2, <3>1, <3>3 DEF Flags
      <4> QED BY <3>1, <3>3, <4>1, <4>2
    <3> QED BY <3>2, <3>3
  <2> QED BY <2>1, <2>2 DEF Flags
<1>8. Coalesced(g, B)
  <2>1. SUFFICES ASSUME NEW x \in Frees(g, B) PROVE NextPhys(h, x) \notin Frees(g, B)
    BY <1>3 DEF Coalesced, Frees
  <2>2. CASE x = m
    BY <1>4, <1>6, <2>2
  <2>3. CASE x # m
    <3>1. x \in Frees(h, B)
      BY <1>6, <2>3
    <3>2. NextPhys(h, x) # m
      BY <3>1 DEF Frees
    <3>3. NextPhys(h, x) \notin Frees(h, B)
      BY <1>1, <3>1 DEF Coalesced
    <3> QED BY <1>6, <3>2, <3>3
  <2> QED BY <2>2, <2>3
<1> QED BY <1>5, <1>6, <1>7, <1>8 DEF Sound

-----------------------------------------------------------------------------
(* dealloc *)

(* The block a grew and d left the lists; all else is as it was. *)
Glued(g, h, a, d) ==
    \A x \in Addrs : /\ x # a => g.mem[x].size = h.mem[x].size
                     /\ g.mem[x].prev_free = h.mem[x].prev_free
                     /\ g.mem[x].prev_phys = h.mem[x].prev_phys
                     /\ g.mem[x].free <=> x # d /\ h.mem[x].free

(* A free block and its size: what the lists say of it. *)
LEMMA FreeTake ==
    ASSUME NEW h, NEW B, NEW X, Sound(h, B, X), NEW b \in Frees(h, B)
    PROVE  /\ HeapType(RemoveFree(h, b))
           /\ Linked(RemoveFree(h, b), Frees(h, B) \ {b})
           /\ Taken(RemoveFree(h, b), h, b)
<1>1. HeapType(h) /\ Linked(h, Frees(h, B)) /\ Tiles(h, B)
  BY DEF Sound
<1>2. Frees(h, B) \in SUBSET Addrs
  BY <1>1 DEF Frees, Tiles
<1> QED BY <1>1, <1>2, LinkedRemove

(* Merging with the block before: the flag and prev_phys lead to it. *)
LEMMA MergePrevSound ==
    ASSUME NEW h, NEW B, Sound(h, B, {}), NEW b \in B \ {Sentinel},
           ~h.mem[b].free, h.mem[b].prev_free
    PROVE  /\ h.mem[b].prev_phys \in B \ {Sentinel} /\ h.mem[b].prev_phys # b
           /\ h.mem[h.mem[b].prev_phys].free
           /\ NextPhys(h, h.mem[b].prev_phys) = b
           /\ Sound(MergePrev(h, b), B \ {b}, {h.mem[b].prev_phys})
           /\ NextPhys(MergePrev(h, b), h.mem[b].prev_phys) = NextPhys(h, b)
           /\ Glued(MergePrev(h, b), h, h.mem[b].prev_phys, h.mem[b].prev_phys)
<1> DEFINE p == h.mem[b].prev_phys
           k == RemoveFree(h, p)
           g == SetSize(k, p, k.mem[p].size + 1 + k.mem[b].size)
           s == h.mem[p].size + 1 + h.mem[b].size
<1>1. HeapType(h) /\ Tiles(h, B) /\ Flags(h, B, {}) /\ B \in SUBSET Addrs
  BY DEF Sound, Tiles
<1>2. b # 0
  BY <1>1 DEF Flags
<1>3. PICK a \in B \ {Sentinel} : a < b /\ NextPhys(h, a) = b
  BY <1>1, <1>2, TileBefore
<1>4. p = a /\ h.mem[a].free
  BY <1>1, <1>3 DEF Flags
<1>5. p \in Frees(h, B) /\ p \in B \ {Sentinel} /\ p # b /\ p \in Addrs /\ b \in Addrs
      /\ NextPhys(h, p) = b
  BY <1>1, <1>3, <1>4, Layout DEF Frees
<1>6. MergePrev(h, b) = g
  BY DEF MergePrev
<1> HIDE DEF p
<1>7. HeapType(k) /\ Linked(k, Frees(h, B) \ {p}) /\ Taken(k, h, p)
  BY <1>5, FreeTake
<1> HIDE DEF k
<1>8. /\ k.mem[p].size = h.mem[p].size /\ k.mem[b].size = h.mem[b].size
      /\ h.mem[p].size \in Nat /\ h.mem[b].size \in Nat
      /\ s \in Nat
  <2>1. k.mem[p].size = h.mem[p].size /\ k.mem[b].size = h.mem[b].size
    BY <1>5, <1>7 DEF Taken
  <2>2. h.mem[p].size \in Nat /\ h.mem[b].size \in Nat
    BY <1>1, <1>5, TileBounds
  <2> QED BY <2>1, <2>2
<1>9. /\ HeapType(g) /\ SameLists(g, k)
      /\ \A x \in Addrs :
            /\ g.mem[x].size = IF x = p THEN s ELSE k.mem[x].size
            /\ g.mem[x].prev_free = k.mem[x].prev_free
            /\ g.mem[x].prev_phys = k.mem[x].prev_phys
  <2>1. g = SetSize(k, p, s) /\ s \in Nat
    BY <1>8
  <2> HIDE DEF g, s
  <2> QED BY <1>5, <1>7, <2>1, SetSizeProps
<1> HIDE DEF g
<1>10. \A x \in Addrs :
            /\ g.mem[x].size = IF x = p THEN h.mem[p].size + 1 + h.mem[b].size
                                        ELSE h.mem[x].size
            /\ g.mem[x].prev_free = h.mem[x].prev_free
            /\ g.mem[x].prev_phys = h.mem[x].prev_phys
  BY <1>7, <1>9 DEF Taken
<1>11. \A x \in Addrs : g.mem[x].free <=> x # p /\ h.mem[x].free
  <2> TAKE x \in Addrs
  <2>1. g.mem[x].free = k.mem[x].free
    BY <1>9 DEF SameLists
  <2>2. k.mem[x].free <=> x # p /\ h.mem[x].free
    BY <1>7 DEF Taken
  <2> QED BY <2>1, <2>2
<1>12. Linked(g, Frees(h, B) \ {p, b})
  <2>1. Frees(h, B) \ {p, b} = Frees(h, B) \ {p}
    BY DEF Frees
  <2>2. Frees(h, B) \ {p} \in SUBSET Addrs
    BY <1>1 DEF Frees
  <2>3. /\ g.heads = k.heads /\ g.fl_bitmap = k.fl_bitmap /\ g.sl_bitmap = k.sl_bitmap
        /\ \A q \in Frees(h, B) \ {p} : /\ g.mem[q].size = k.mem[q].size
                                        /\ g.mem[q].next = k.mem[q].next
                                        /\ g.mem[q].prev = k.mem[q].prev
    BY <1>9, <2>2 DEF SameLists
  <2>4. Linked(g, Frees(h, B) \ {p})
    BY <1>7, <2>2, <2>3, LinkedFrame
  <2> QED BY <2>1, <2>4
<1>13. /\ \A x \in Addrs : x # p /\ x # b => (g.mem[x].free <=> h.mem[x].free)
       /\ ~g.mem[p].free
  BY <1>5, <1>11
<1>14. Sound(g, B \ {b}, {} \cup {p}) /\ NextPhys(g, p) = NextPhys(h, b)
  <2>1. b = NextPhys(h, p) /\ b # Sentinel /\ HeapType(g) /\ p \in B \ {Sentinel}
    BY <1>5, <1>9
  <2>2. Grown(g, h, B, p, b)
    BY <1>10, <1>12, <1>13, <2>1 DEF Grown
  <2> QED BY <2>1, <2>2, GlueSound
<1>15. Glued(g, h, p, p)
  BY <1>10, <1>11 DEF Glued
<1>16. {} \cup {p} = {p}
  OBVIOUS
<1>17. h.mem[p].free
  BY <1>4
<1>18. Sound(g, B \ {b}, {p})
  BY <1>14, <1>16
<1> QED BY <1>5, <1>6, <1>14, <1>15, <1>17, <1>18 DEF p

(* Merging with the block after. *)
LEMMA MergeNextSound ==
    ASSUME NEW h, NEW B, NEW m \in B \ {Sentinel}, Sound(h, B, {m}),
           ~h.mem[m].free, h.mem[NextPhys(h, m)].free
    PROVE  /\ NextPhys(h, m) \in Frees(h, B) /\ NextPhys(h, m) # m
           /\ Sound(MergeNext(h, m), B \ {NextPhys(h, m)}, {m})
           /\ NextPhys(MergeNext(h, m), m) = NextPhys(h, NextPhys(h, m))
           /\ Glued(MergeNext(h, m), h, m, NextPhys(h, m))
<1> DEFINE n == NextPhys(h, m)
           k == RemoveFree(h, n)
           g == SetSize(k, m, k.mem[m].size + 1 + k.mem[n].size)
           s == h.mem[m].size + 1 + h.mem[n].size
<1>1. HeapType(h) /\ Tiles(h, B) /\ Flags(h, B, {m}) /\ B \in SUBSET Addrs
  BY DEF Sound, Tiles
<1>2. n \in B /\ n # Sentinel /\ n \in Addrs /\ n # m /\ m \in Addrs
  BY <1>1, TileBounds, Layout DEF Flags
<1>3. n \in Frees(h, B)
  BY <1>2 DEF Frees
<1>4. MergeNext(h, m) = g
  BY DEF MergeNext
<1>5. n = NextPhys(h, m)
  OBVIOUS
<1> HIDE DEF n
<1>6. HeapType(k) /\ Linked(k, Frees(h, B) \ {n}) /\ Taken(k, h, n)
  BY <1>3, FreeTake
<1> HIDE DEF k
<1>7. /\ k.mem[m].size = h.mem[m].size /\ k.mem[n].size = h.mem[n].size
      /\ h.mem[m].size \in Nat /\ h.mem[n].size \in Nat
      /\ s \in Nat
  <2>1. k.mem[m].size = h.mem[m].size /\ k.mem[n].size = h.mem[n].size
    BY <1>2, <1>6 DEF Taken
  <2>2. h.mem[m].size \in Nat /\ h.mem[n].size \in Nat
    BY <1>1, <1>2, TileBounds
  <2> QED BY <2>1, <2>2
<1>8. /\ HeapType(g) /\ SameLists(g, k)
      /\ \A x \in Addrs :
            /\ g.mem[x].size = IF x = m THEN s ELSE k.mem[x].size
            /\ g.mem[x].prev_free = k.mem[x].prev_free
            /\ g.mem[x].prev_phys = k.mem[x].prev_phys
  <2>1. g = SetSize(k, m, s) /\ s \in Nat
    BY <1>7
  <2> HIDE DEF g, s
  <2> QED BY <1>2, <1>6, <2>1, SetSizeProps
<1> HIDE DEF g
<1>9. \A x \in Addrs :
            /\ g.mem[x].size = IF x = m THEN h.mem[m].size + 1 + h.mem[n].size
                                        ELSE h.mem[x].size
            /\ g.mem[x].prev_free = h.mem[x].prev_free
            /\ g.mem[x].prev_phys = h.mem[x].prev_phys
  BY <1>6, <1>8 DEF Taken
<1>10. \A x \in Addrs : g.mem[x].free <=> x # n /\ h.mem[x].free
  <2> TAKE x \in Addrs
  <2>1. g.mem[x].free = k.mem[x].free
    BY <1>8 DEF SameLists
  <2>2. k.mem[x].free <=> x # n /\ h.mem[x].free
    BY <1>6 DEF Taken
  <2> QED BY <2>1, <2>2
<1>11. Linked(g, Frees(h, B) \ {m, n})
  <2>1. Frees(h, B) \ {m, n} = Frees(h, B) \ {n}
    BY DEF Frees
  <2>2. Frees(h, B) \ {n} \in SUBSET Addrs /\ m \notin Frees(h, B)
    BY <1>1 DEF Frees
  <2>3. /\ g.heads = k.heads /\ g.fl_bitmap = k.fl_bitmap /\ g.sl_bitmap = k.sl_bitmap
        /\ \A q \in Frees(h, B) \ {n} : /\ g.mem[q].size = k.mem[q].size
                                        /\ g.mem[q].next = k.mem[q].next
                                        /\ g.mem[q].prev = k.mem[q].prev
    BY <1>8, <2>2 DEF SameLists
  <2>4. Linked(g, Frees(h, B) \ {n})
    BY <1>6, <2>2, <2>3, LinkedFrame
  <2> QED BY <2>1, <2>4
<1>12. /\ \A x \in Addrs : x # m /\ x # n => (g.mem[x].free <=> h.mem[x].free)
       /\ ~g.mem[m].free
  BY <1>2, <1>10
<1>13. Sound(g, B \ {n}, {m} \cup {m}) /\ NextPhys(g, m) = NextPhys(h, n)
  <2>1. n # Sentinel /\ HeapType(g)
    BY <1>2, <1>8
  <2>2. Grown(g, h, B, m, n)
    BY <1>5, <1>9, <1>11, <1>12, <2>1 DEF Grown
  <2> QED BY <2>2, GlueSound
<1>14. Glued(g, h, m, n)
  BY <1>9, <1>10 DEF Glued
<1>15. Sound(g, B \ {n}, {m})
  <2>1. {m} \cup {m} = {m}
    OBVIOUS
  <2> QED BY <1>13, <2>1
<1> QED BY <1>2, <1>3, <1>4, <1>13, <1>14, <1>15 DEF n

(* The block m is ready for the lists: it is not free, neither is a block    *)
(* beside it, and the block after it knows where m begins.                   *)
Ready(h, B, m) ==
    /\ m \in B \ {Sentinel} /\ Sound(h, B, {m}) /\ ~h.mem[m].free
    /\ NextPhys(h, m) \notin Frees(h, B)
    /\ \A x \in B \ {Sentinel} : NextPhys(h, x) = m => ~h.mem[x].free
    /\ NextPhys(h, m) # Sentinel => h.mem[NextPhys(h, m)].prev_phys = m

(* The end of dealloc. *)
File(h, m) == SetPrevFree(InsertFree(h, m), NextPhys(InsertFree(h, m), m), TRUE)

(* The end of dealloc files the block and tells the one after it. *)
LEMMA FileSound ==
    ASSUME NEW h, NEW B, NEW m, Ready(h, B, m)
    PROVE  /\ Sound(File(h, m), B, {})
           /\ \A x \in Addrs : File(h, m).mem[x].size = h.mem[x].size
           /\ \A x \in Addrs : File(h, m).mem[x].free <=> x = m \/ h.mem[x].free
<1> DEFINE k == InsertFree(h, m)
           N == NextPhys(h, m)
           g == SetPrevFree(k, N, TRUE)
<1>1. /\ m \in B \ {Sentinel} /\ Sound(h, B, {m}) /\ ~h.mem[m].free
      /\ HeapType(h) /\ Tiles(h, B) /\ Linked(h, Frees(h, B))
  BY DEF Ready, Sound
<1>2. B \in SUBSET Addrs /\ Frees(h, B) \in SUBSET Addrs /\ m \notin Frees(h, B)
  BY <1>1 DEF Tiles, Frees
<1>3. /\ m \in Addrs /\ h.mem[m].size \in Sizes /\ N \in Addrs /\ m # N
  BY <1>1, <1>2, TileBounds, Layout
<1>4. HeapType(k) /\ Linked(k, Frees(h, B) \cup {m}) /\ Freed(k, h, m)
  BY <1>1, <1>2, <1>3, LinkedInsert
<1>5. NextPhys(k, m) = N
  BY <1>3, <1>4 DEF NextPhys, Freed
<1>6. File(h, m) = g
  BY <1>5 DEF File
<1> HIDE DEF k
<1>7. /\ HeapType(g) /\ SameLists(g, k)
      /\ \A x \in Addrs :
            /\ g.mem[x].size = k.mem[x].size
            /\ g.mem[x].prev_free = IF x = N THEN TRUE ELSE k.mem[x].prev_free
            /\ g.mem[x].prev_phys = k.mem[x].prev_phys
  <2> HIDE DEF N
  <2>1. TRUE \in BOOLEAN
    OBVIOUS
  <2> QED BY <1>3, <1>4, <2>1, SetPrevFreeProps
<1> HIDE DEF g
<1>8. Linked(g, Frees(h, B) \cup {m})
  <2>1. Frees(h, B) \cup {m} \in SUBSET Addrs
    BY <1>2, <1>3
  <2>2. /\ g.heads = k.heads /\ g.fl_bitmap = k.fl_bitmap /\ g.sl_bitmap = k.sl_bitmap
        /\ \A q \in Frees(h, B) \cup {m} : /\ g.mem[q].size = k.mem[q].size
                                           /\ g.mem[q].next = k.mem[q].next
                                           /\ g.mem[q].prev = k.mem[q].prev
    BY <1>7, <2>1 DEF SameLists
  <2> QED BY <1>4, <2>1, <2>2, LinkedFrame
<1>9. \A x \in Addrs : /\ g.mem[x].size = h.mem[x].size
                       /\ g.mem[x].prev_phys = h.mem[x].prev_phys
                       /\ x # N => g.mem[x].prev_free = h.mem[x].prev_free
  BY <1>4, <1>7 DEF Freed
<1>10. \A x \in Addrs : g.mem[x].free <=> x = m \/ h.mem[x].free
  <2> TAKE x \in Addrs
  <2>1. g.mem[x].free = k.mem[x].free
    BY <1>7 DEF SameLists
  <2>2. k.mem[x].free <=> x = m \/ h.mem[x].free
    BY <1>4 DEF Freed
  <2> QED BY <2>1, <2>2
<1>11. g.mem[N].prev_free
  BY <1>3, <1>7
<1>12. Announced(g, h, B, m)
  <2>1. /\ ~h.mem[m].free
        /\ NextPhys(h, m) \notin Frees(h, B)
        /\ \A x \in B \ {Sentinel} : NextPhys(h, x) = m => ~h.mem[x].free
        /\ NextPhys(h, m) # Sentinel => h.mem[NextPhys(h, m)].prev_phys = m
    BY DEF Ready
  <2> QED BY <1>7, <1>8, <1>9, <1>10, <1>11, <2>1 DEF Announced
<1>13. Sound(g, B, {})
  BY <1>1, <1>12, FinishSound
<1> QED BY <1>6, <1>9, <1>10, <1>13

(* Blocks in use other than b are blocks in use still, with the same size. *)
Keeps(g, h, B, C, b) ==
    \A a \in B \ {Sentinel} : a # b /\ ~h.mem[a].free =>
        /\ a \in C /\ ~g.mem[a].free
        /\ g.mem[a].size = h.mem[a].size

(* The first half of dealloc of b, up to the merge with the block before:    *)
(* m is the block that grows.                                                *)
Opened(k, h, B, C, b, m) ==
    /\ C \in SUBSET B /\ m \in C \ {Sentinel} /\ (m = b \/ h.mem[m].free)
    /\ Sound(k, C, {m}) /\ ~k.mem[m].free
    /\ NextPhys(k, m) = NextPhys(h, b)
    /\ \A x \in C \ {Sentinel} : NextPhys(k, x) = m => ~k.mem[x].free
    /\ \A x \in Addrs \ {m} : /\ k.mem[x].size = h.mem[x].size
                              /\ k.mem[x].free <=> h.mem[x].free
    /\ NextPhys(h, b) # Sentinel /\ ~h.mem[b].prev_free =>
          k.mem[NextPhys(h, b)].prev_phys = m
    /\ Keeps(k, h, B, C, b)

(* dealloc up to the merge with the block before, if it does. *)
LEMMA OpenSound ==
    ASSUME NEW h, NEW B, Sound(h, B, {}), NEW b \in B \ {Sentinel}, ~h.mem[b].free
    PROVE  /\ ~h.mem[b].prev_free => Opened(h, h, B, B, b, b)
           /\ h.mem[b].prev_free =>
                 Opened(MergePrev(h, b), h, B, B \ {b}, b, h.mem[b].prev_phys)
<1>1. /\ HeapType(h) /\ Tiles(h, B) /\ Flags(h, B, {}) /\ Coalesced(h, B)
      /\ Linked(h, Frees(h, B)) /\ B \in SUBSET Addrs
  BY DEF Sound, Tiles
<1>2. ASSUME ~h.mem[b].prev_free PROVE Opened(h, h, B, B, b, b)
  <2>1. Flags(h, B, {b})
    BY <1>1 DEF Flags
  <2>2. Sound(h, B, {b})
    BY <1>1, <2>1 DEF Sound
  <2>3. ASSUME NEW x \in B \ {Sentinel}, NextPhys(h, x) = b PROVE ~h.mem[x].free
    BY <1>1, <1>2, <2>3 DEF Flags
  <2>4. NextPhys(h, b) # Sentinel => h.mem[NextPhys(h, b)].prev_phys = b
    BY <1>1 DEF Flags
  <2>5. Keeps(h, h, B, B, b)
    BY DEF Keeps
  <2> QED BY <2>2, <2>3, <2>4, <2>5 DEF Opened
<1>3. ASSUME h.mem[b].prev_free
      PROVE  Opened(MergePrev(h, b), h, B, B \ {b}, b, h.mem[b].prev_phys)
  <2> DEFINE p == h.mem[b].prev_phys
             k == MergePrev(h, b)
  <2>1. /\ p \in B \ {Sentinel} /\ p # b /\ h.mem[p].free /\ NextPhys(h, p) = b
        /\ Sound(k, B \ {b}, {p})
        /\ NextPhys(k, p) = NextPhys(h, b)
        /\ Glued(k, h, p, p)
    BY <1>3, MergePrevSound
  <2> HIDE DEF p, k
  <2>2. \A x \in Addrs \ {p} : /\ k.mem[x].size = h.mem[x].size
                               /\ k.mem[x].free <=> h.mem[x].free
    BY <2>1 DEF Glued
  <2>3. ~k.mem[p].free
    BY <1>1, <2>1 DEF Glued
  <2>4. ASSUME NEW x \in (B \ {b}) \ {Sentinel}, NextPhys(k, x) = p PROVE ~k.mem[x].free
    <3>1. HeapType(k) /\ Tiles(k, B \ {b}) /\ p \in Addrs /\ x \in Addrs
      BY <1>1, <2>1 DEF Sound
    <3>2. x # p
      BY <2>4, <3>1, TileBounds
    <3>3. NextPhys(h, x) = p
      BY <2>2, <2>4, <3>1, <3>2 DEF NextPhys
    <3>4. ~h.mem[x].free
      BY <1>1, <2>1, <3>3 DEF Coalesced, Frees
    <3> QED BY <2>2, <3>1, <3>2, <3>4
  <2>5. Keeps(k, h, B, B \ {b}, b)
    <3>1. SUFFICES ASSUME NEW a \in B \ {Sentinel}, a # b, ~h.mem[a].free
                   PROVE  a \in B \ {b} /\ ~k.mem[a].free /\ k.mem[a].size = h.mem[a].size
      BY DEF Keeps
    <3>2. a \in Addrs \ {p}
      BY <1>1, <2>1, <3>1
    <3> QED BY <2>2, <3>1, <3>2
  <2>6. B \ {b} \in SUBSET B /\ p \in (B \ {b}) \ {Sentinel}
    BY <2>1
  <2>7. Opened(k, h, B, B \ {b}, b, p)
    BY <1>3, <2>1, <2>2, <2>3, <2>4, <2>5, <2>6 DEF Opened
  <2> QED BY <2>7 DEF p, k
<1> QED BY <1>2, <1>3

(* The merge with the block after, if that is free: the block is ready. *)
LEMMA CloseReady ==
    ASSUME NEW h, NEW B, Sound(h, B, {}), NEW b \in B \ {Sentinel}, ~h.mem[b].free,
           KeepsNeighbour(h, b), NEW k, NEW C, NEW m, Opened(k, h, B, C, b, m)
    PROVE  LET g == IF k.mem[NextPhys(k, m)].free THEN MergeNext(k, m) ELSE k
           IN  \E D \in SUBSET C : Ready(g, D, m) /\ Keeps(g, h, B, D, b)
<1> DEFINE n == NextPhys(h, b)
<1>1. /\ C \in SUBSET B /\ m \in C \ {Sentinel} /\ (m = b \/ h.mem[m].free)
      /\ Sound(k, C, {m}) /\ ~k.mem[m].free /\ NextPhys(k, m) = n
      /\ \A x \in C \ {Sentinel} : NextPhys(k, x) = m => ~k.mem[x].free
      /\ \A x \in Addrs \ {m} : /\ k.mem[x].size = h.mem[x].size
                                /\ k.mem[x].free <=> h.mem[x].free
      /\ n # Sentinel /\ ~h.mem[b].prev_free => k.mem[n].prev_phys = m
  BY DEF Opened
<1>2. Keeps(k, h, B, C, b)
  BY DEF Opened
<1>3. HeapType(k) /\ Tiles(k, C) /\ C \in SUBSET Addrs /\ ~k.mem[Sentinel].free
  BY <1>1 DEF Sound, Tiles, Flags
<1>4. n \in C /\ n \in Addrs /\ n # m /\ m \in Nat /\ m < n
  BY <1>1, <1>3, TileBounds, Layout
<1>5. /\ h.mem[n].free => NextPhys(h, n) = Sentinel \/ n = Sentinel
      /\ ~h.mem[n].free => n = Sentinel \/ ~h.mem[b].prev_free
  BY DEF KeepsNeighbour
<1>6. k.mem[n].free <=> h.mem[n].free
  BY <1>1, <1>4
<1> HIDE DEF n
<1>7. ASSUME ~k.mem[n].free
      PROVE  Ready(k, C, m)
  <2>1. n \notin Frees(k, C)
    BY <1>7 DEF Frees
  <2>2. n # Sentinel => k.mem[n].prev_phys = m
    BY <1>1, <1>5, <1>6, <1>7
  <2> QED BY <1>1, <2>1, <2>2 DEF Ready
<1>8. ASSUME k.mem[n].free
      PROVE  Ready(MergeNext(k, m), C \ {n}, m) /\ Keeps(MergeNext(k, m), h, B, C \ {n}, b)
  <2> DEFINE g == MergeNext(k, m)
  <2>1. /\ n \in Frees(k, C) /\ Sound(g, C \ {n}, {m})
        /\ NextPhys(g, m) = NextPhys(k, n)
        /\ Glued(g, k, m, n)
    <3>1. /\ m \in C \ {Sentinel} /\ Sound(k, C, {m}) /\ ~k.mem[m].free
          /\ NextPhys(k, m) = n /\ k.mem[NextPhys(k, m)].free
      BY <1>1, <1>8
    <3>2. /\ NextPhys(k, m) \in Frees(k, C) /\ Sound(g, C \ {NextPhys(k, m)}, {m})
          /\ NextPhys(g, m) = NextPhys(k, NextPhys(k, m))
          /\ Glued(g, k, m, NextPhys(k, m))
      BY <3>1, MergeNextSound
    <3> QED BY <3>1, <3>2
  <2> HIDE DEF g
  <2>2. NextPhys(k, n) = Sentinel
    <3>1. k.mem[n].size = h.mem[n].size
      BY <1>1, <1>4
    <3>2. NextPhys(k, n) = NextPhys(h, n)
      BY <3>1 DEF NextPhys
    <3>3. n # Sentinel
      BY <1>3, <1>8
    <3> QED BY <1>5, <1>6, <1>8, <3>2, <3>3
  <2>3. \A x \in Addrs : /\ x # m => g.mem[x].size = k.mem[x].size
                         /\ g.mem[x].free <=> x # n /\ k.mem[x].free
    BY <2>1 DEF Glued
  <2>4. ~g.mem[m].free /\ Sentinel \notin Frees(g, C \ {n})
    BY <1>1, <1>3, <2>3 DEF Frees
  <2>5. ASSUME NEW x \in (C \ {n}) \ {Sentinel}, NextPhys(g, x) = m PROVE ~g.mem[x].free
    <3>1. HeapType(g) /\ Tiles(g, C \ {n}) /\ x \in Addrs
      BY <1>3, <2>1 DEF Sound
    <3>2. x # m
      BY <1>4, <2>5, <3>1, TileBounds
    <3>3. NextPhys(k, x) = m
      BY <2>3, <2>5, <3>1, <3>2 DEF NextPhys
    <3>4. ~k.mem[x].free
      BY <1>1, <3>3
    <3> QED BY <2>3, <3>1, <3>4
  <2>6. m \in (C \ {n}) \ {Sentinel}
    BY <1>1, <1>4
  <2>7. Ready(g, C \ {n}, m)
    BY <2>1, <2>2, <2>4, <2>5, <2>6 DEF Ready
  <2>8. Keeps(g, h, B, C \ {n}, b)
    <3>1. SUFFICES ASSUME NEW a \in B \ {Sentinel}, a # b, ~h.mem[a].free
                   PROVE  a \in C \ {n} /\ ~g.mem[a].free /\ g.mem[a].size = h.mem[a].size
      BY DEF Keeps
    <3>2. a \in C /\ ~k.mem[a].free /\ k.mem[a].size = h.mem[a].size
      BY <1>2, <3>1 DEF Keeps
    <3>3. a \in Addrs /\ a # n
      BY <1>3, <1>8, <3>2
    <3>4. a # m
      BY <1>1, <3>1
    <3>5. ~g.mem[a].free
      BY <2>3, <3>2, <3>3
    <3>6. g.mem[a].size = k.mem[a].size
      BY <2>3, <3>3, <3>4
    <3> QED BY <3>2, <3>3, <3>5, <3>6
  <2> QED BY <2>7, <2>8 DEF g
<1>9. C \in SUBSET C /\ C \ {n} \in SUBSET C
  OBVIOUS
<1>10. CASE k.mem[n].free
  <2>1. MergeNext(k, m) = IF k.mem[NextPhys(k, m)].free THEN MergeNext(k, m) ELSE k
    BY <1>1, <1>10
  <2> QED BY <1>8, <1>9, <1>10, <2>1
<1>11. CASE ~k.mem[n].free
  <2>1. k = IF k.mem[NextPhys(k, m)].free THEN MergeNext(k, m) ELSE k
    BY <1>1, <1>11
  <2> QED BY <1>2, <1>7, <1>9, <1>11, <2>1
<1> QED BY <1>10, <1>11

(* dealloc keeps the pool sound and all other blocks in use. *)
LEMMA ReleaseSound ==
    ASSUME NEW h, NEW B, Sound(h, B, {}), NEW b \in B \ {Sentinel}, ~h.mem[b].free,
           KeepsNeighbour(h, b)
    PROVE  \E C \in SUBSET B : Sound(Release(h, b), C, {}) /\ Keeps(Release(h, b), h, B, C, b)
<1> DEFINE back == h.mem[b].prev_free
           m == IF back THEN h.mem[b].prev_phys ELSE b
           k == IF back THEN MergePrev(h, b) ELSE h
           A == IF back THEN B \ {b} ELSE B
           g == IF k.mem[NextPhys(k, m)].free THEN MergeNext(k, m) ELSE k
<1>1. Release(h, b) = File(g, m)
  BY DEF Release, File
<1>2. Opened(k, h, B, A, b, m)
  BY OpenSound
<1> HIDE DEF k, A, m
<1>3. PICK D \in SUBSET A : Ready(g, D, m) /\ Keeps(g, h, B, D, b)
  BY <1>2, CloseReady
<1> HIDE DEF g
<1>4. /\ Sound(File(g, m), D, {})
      /\ \A x \in Addrs : File(g, m).mem[x].size = g.mem[x].size
      /\ \A x \in Addrs : File(g, m).mem[x].free <=> x = m \/ g.mem[x].free
  BY <1>3, FileSound
<1>5. D \in SUBSET B /\ (m = b \/ h.mem[m].free)
  BY <1>2 DEF Opened
<1>6. Keeps(File(g, m), h, B, D, b)
  <2>1. SUFFICES ASSUME NEW a \in B \ {Sentinel}, a # b, ~h.mem[a].free
                 PROVE  /\ a \in D /\ ~File(g, m).mem[a].free
                        /\ File(g, m).mem[a].size = h.mem[a].size
    BY DEF Keeps
  <2>2. a \in D /\ ~g.mem[a].free /\ g.mem[a].size = h.mem[a].size
    BY <1>3, <2>1 DEF Keeps
  <2>3. a \in Addrs /\ a # m
    BY <1>5, <2>1 DEF Sound, Tiles
  <2>4. ~File(g, m).mem[a].free
    BY <1>4, <2>2, <2>3
  <2>5. File(g, m).mem[a].size = g.mem[a].size
    BY <1>4, <2>3
  <2> QED BY <2>2, <2>4, <2>5
<1> QED BY <1>1, <1>4, <1>5, <1>6

-----------------------------------------------------------------------------
(* alloc *)

(* The whole block b is handed out and the block after it is told. *)
Claimed(g, h, B, b) ==
    /\ HeapType(g) /\ Linked(g, Frees(h, B) \ {b})
    /\ \A x \in Addrs :
          /\ g.mem[x].size = h.mem[x].size
          /\ g.mem[x].prev_phys = h.mem[x].prev_phys
          /\ x # NextPhys(h, b) => g.mem[x].prev_free = h.mem[x].prev_free
          /\ g.mem[x].free <=> x # b /\ h.mem[x].free
    /\ ~g.mem[NextPhys(h, b)].prev_free

(* The pool stays sound when a whole block is handed out. *)
LEMMA ClaimSound ==
    ASSUME NEW h, NEW B, Sound(h, B, {}), NEW b \in Frees(h, B),
           NEW g, Claimed(g, h, B, b)
    PROVE  Sound(g, B, {})
<1> USE DEF Claimed
<1> DEFINE N == NextPhys(h, b)
<1>1. HeapType(h) /\ Tiles(h, B) /\ Flags(h, B, {}) /\ Coalesced(h, B)
  BY DEF Sound
<1>2. B \in SUBSET Addrs /\ 0 \in B /\ Sentinel \in B /\ b \in B \ {Sentinel}
  BY <1>1 DEF Tiles, Frees
<1>3. \A x \in B : NextPhys(g, x) = NextPhys(h, x)
  BY <1>2 DEF NextPhys
<1>4. N \in Addrs /\ N # 0 /\ N # b
  BY <1>1, <1>2, TileBounds, Layout
<1>5. Tiles(g, B)
  BY <1>1, <1>2, <1>3 DEF Tiles
<1>6. Frees(g, B) = Frees(h, B) \ {b}
  BY <1>2 DEF Frees
<1>7. Flags(g, B, {})
  <2>1. ~g.mem[0].prev_free /\ ~g.mem[Sentinel].free
    BY <1>1, <1>4, Layout DEF Flags
  <2>2. ASSUME NEW x \in B \ {Sentinel}, NextPhys(g, x) # Sentinel
        PROVE  /\ g.mem[NextPhys(g, x)].prev_free <=> g.mem[x].free
               /\ g.mem[NextPhys(g, x)].prev_phys = x
    <3>1. NextPhys(g, x) = NextPhys(h, x) /\ NextPhys(h, x) \in Addrs /\ x \in Addrs
      BY <1>1, <1>2, <1>3, TileBounds
    <3>2. /\ h.mem[NextPhys(h, x)].prev_free <=> h.mem[x].free
          /\ h.mem[NextPhys(h, x)].prev_phys = x
      BY <1>1, <2>2, <3>1 DEF Flags
    <3>3. CASE x = b
      BY <1>4, <3>1, <3>2, <3>3
    <3>4. CASE x # b
      <4>1. NextPhys(h, x) # N
        BY <1>1, <1>2, <3>4, NextDistinct
      <4> QED BY <3>1, <3>2, <3>4, <4>1
    <3> QED BY <3>3, <3>4
  <2> QED BY <2>1, <2>2 DEF Flags
<1>8. Coalesced(g, B)
  BY <1>1, <1>2, <1>3, <1>6 DEF Coalesced, Frees
<1> QED BY <1>5, <1>6, <1>7, <1>8 DEF Sound

(* The block b is cut to the size n, and e, what is left, becomes a free     *)
(* block of its own that the block after is told of.                         *)
Split(g, h, B, b, n, e) ==
    /\ n \in Nat \ {0} /\ n + 2 <= h.mem[b].size /\ e = b + 1 + n
    /\ HeapType(g) /\ Linked(g, (Frees(h, B) \ {b}) \cup {e})
    /\ \A x \in Addrs \ {b, e} : g.mem[x].size = h.mem[x].size
    /\ g.mem[b].size = n /\ g.mem[e].size = h.mem[b].size - n - 1
    /\ \A x \in Addrs \ {e} : g.mem[x].prev_free = h.mem[x].prev_free
    /\ ~g.mem[e].prev_free
    /\ \A x \in Addrs \ {e, NextPhys(h, b)} : g.mem[x].prev_phys = h.mem[x].prev_phys
    /\ g.mem[e].prev_phys = b /\ g.mem[NextPhys(h, b)].prev_phys = e
    /\ \A x \in Addrs \ {b, e} : g.mem[x].free <=> h.mem[x].free
    /\ ~g.mem[b].free /\ g.mem[e].free

(* Where the new block lies. *)
LEMMA SplitPlace ==
    ASSUME NEW h, HeapType(h), NEW B, Tiles(h, B), NEW b \in B \ {Sentinel},
           NEW n \in Nat \ {0}, n + 2 <= h.mem[b].size, NEW e, e = b + 1 + n
    PROVE  /\ e \in Addrs /\ e \notin B /\ b < e /\ e < NextPhys(h, b) /\ e \in Nat
           /\ h.mem[b].size - n - 1 \in Sizes
<1>1. /\ b \in Nat /\ b < Sentinel /\ h.mem[b].size \in Sizes /\ h.mem[b].size \in Nat
      /\ NextPhys(h, b) = b + 1 + h.mem[b].size /\ NextPhys(h, b) <= Sentinel
      /\ B \in SUBSET Addrs
  BY TileBounds DEF Tiles
<1>2. e \in Addrs /\ b < e /\ e < NextPhys(h, b) /\ e \in Nat
  BY <1>1, Layout
<1>3. e \notin B
  BY <1>1, <1>2 DEF Tiles
<1>4. ASSUME NEW s \in Sizes, n + 2 <= s
      PROVE  s - n - 1 \in Sizes
  <2>1. PoolSize \in Nat
    BY Layout
  <2> QED BY <1>4, <2>1 DEF Sizes
<1>5. h.mem[b].size - n - 1 \in Sizes
  <2> HIDE DEF Sizes
  <2> QED BY <1>1, <1>4
<1> QED BY <1>2, <1>3, <1>5

(* The pool stays sound when part of a block is handed out. *)
LEMMA SplitSound ==
    ASSUME NEW h, NEW B, Sound(h, B, {}), NEW b \in Frees(h, B),
           NEW n, NEW e, NEW g, Split(g, h, B, b, n, e)
    PROVE  Sound(g, B \cup {e}, {})
<1> USE DEF Split
<1> DEFINE N == NextPhys(h, b)
           C == B \cup {e}
<1>1. HeapType(h) /\ Tiles(h, B) /\ Flags(h, B, {}) /\ Coalesced(h, B)
  BY DEF Sound
<1>2. B \in SUBSET Addrs /\ 0 \in B /\ Sentinel \in B /\ b \in B \ {Sentinel}
      /\ h.mem[b].free
  BY <1>1 DEF Tiles, Frees
<1>3. /\ e \in Addrs /\ e \notin B /\ b < e /\ e < N /\ e \in Nat
      /\ h.mem[b].size - n - 1 \in Sizes
  BY <1>1, <1>2, SplitPlace
<1>4. /\ b \in Nat /\ N \in B /\ N \in Addrs /\ N = b + 1 + h.mem[b].size
      /\ h.mem[b].size \in Nat /\ N <= Sentinel /\ e # Sentinel
  BY <1>1, <1>2, <1>3, TileBounds, Layout
<1>5. NextPhys(g, b) = e /\ NextPhys(g, e) = N
  BY <1>3, <1>4 DEF NextPhys
<1> HIDE DEF N
<1>6. ASSUME NEW x \in B \ {Sentinel}, x # b
      PROVE  /\ NextPhys(g, x) = NextPhys(h, x) /\ NextPhys(h, x) # N
             /\ g.mem[x].size = h.mem[x].size /\ x \in Addrs /\ x # e
             /\ NextPhys(h, x) \in B /\ NextPhys(h, x) \in Addrs \ {e}
  <2>1. x \in Addrs /\ x # e /\ NextPhys(h, x) \in B /\ NextPhys(h, x) \in Addrs \ {e}
    BY <1>1, <1>2, <1>3, TileBounds
  <2>2. NextPhys(h, x) # N
    BY <1>1, <1>2, <1>6, NextDistinct DEF N
  <2>3. g.mem[x].size = h.mem[x].size
    BY <1>6, <2>1
  <2> QED BY <2>1, <2>2, <2>3 DEF NextPhys
<1>7. Tiles(g, C)
  <2>1. C \in SUBSET Addrs /\ 0 \in C /\ Sentinel \in C
    BY <1>2, <1>3
  <2>2. ASSUME NEW x \in C \ {Sentinel}
        PROVE  /\ g.mem[x].size >= 1 /\ NextPhys(g, x) \in C
               /\ \A y \in C : y <= x \/ NextPhys(g, x) <= y
    <3>1. \A y \in B : y \in Nat /\ (y <= b \/ N <= y)
      BY <1>1, <1>2, Layout DEF Tiles, N
    <3>2. N \in Nat
      BY <1>4
    <3>3. CASE x = b
      BY <1>3, <1>4, <1>5, <3>1, <3>2, <3>3
    <3>4. CASE x = e
      <4>1. g.mem[e].size >= 1
        BY <1>3 DEF Sizes
      <4> QED BY <1>3, <1>4, <1>5, <3>1, <3>2, <3>4, <4>1
    <3>5. CASE x # b /\ x # e
      <4>1. x \in B \ {Sentinel}
        BY <3>5
      <4>2. /\ h.mem[x].size >= 1 /\ NextPhys(h, x) \in B
            /\ \A y \in B : y <= x \/ NextPhys(h, x) <= y
        BY <1>1, <4>1 DEF Tiles
      <4>3. e <= x \/ NextPhys(h, x) <= e
        <5>1. x \in Nat /\ (x <= b \/ N <= x) /\ NextPhys(h, x) \in Nat
              /\ (b <= x \/ NextPhys(h, x) <= b)
          BY <1>2, <3>1, <4>1, <4>2
        <5> QED BY <1>3, <1>4, <3>2, <3>5, <5>1
      <4> QED BY <1>6, <3>5, <4>1, <4>2, <4>3
    <3> QED BY <3>3, <3>4, <3>5
  <2> QED BY <2>1, <2>2 DEF Tiles
<1>8. Frees(g, C) = (Frees(h, B) \ {b}) \cup {e}
  <2>1. ASSUME NEW x \in Frees(g, C) PROVE x \in (Frees(h, B) \ {b}) \cup {e}
    BY <1>2 DEF Frees
  <2>2. ASSUME NEW x \in (Frees(h, B) \ {b}) \cup {e} PROVE x \in Frees(g, C)
    BY <1>2, <1>3, <1>4 DEF Frees
  <2> QED BY <2>1, <2>2
<1>9. Flags(g, C, {})
  <2>1. ~g.mem[0].prev_free /\ ~g.mem[Sentinel].free
    BY <1>1, <1>2, <1>3, <1>4, Layout DEF Flags
  <2>2. ASSUME NEW x \in C \ {Sentinel}, NextPhys(g, x) # Sentinel
        PROVE  /\ g.mem[NextPhys(g, x)].prev_free <=> g.mem[x].free
               /\ g.mem[NextPhys(g, x)].prev_phys = x
    <3>1. CASE x = b
      BY <1>5, <3>1
    <3>2. CASE x = e
      <4>1. N # Sentinel /\ N # e
        BY <1>3, <1>4, <1>5, <2>2, <3>2
      <4>2. h.mem[N].prev_free
        BY <1>1, <1>2, <4>1 DEF Flags, N
      <4>3. g.mem[N].prev_free = h.mem[N].prev_free
        BY <1>4, <4>1
      <4>4. g.mem[N].prev_phys = e
        BY DEF N
      <4> QED BY <1>5, <3>2, <4>2, <4>3, <4>4
    <3>3. CASE x # b /\ x # e
      <4>1. x \in B \ {Sentinel}
        BY <3>3
      <4>2. /\ NextPhys(g, x) = NextPhys(h, x) /\ NextPhys(h, x) # N
            /\ x \in Addrs \ {b, e} /\ NextPhys(h, x) \in Addrs \ {e}
        BY <1>6, <3>3, <4>1
      <4>3. /\ h.mem[NextPhys(h, x)].prev_free <=> h.mem[x].free
            /\ h.mem[NextPhys(h, x)].prev_phys = x
        BY <1>1, <2>2, <4>1, <4>2 DEF Flags
      <4>4. g.mem[NextPhys(h, x)].prev_phys = x
        BY <4>2, <4>3 DEF N
      <4>5. g.mem[NextPhys(h, x)].prev_free = h.mem[NextPhys(h, x)].prev_free
        BY <4>2
      <4>6. g.mem[x].free <=> h.mem[x].free
        BY <4>2
      <4> QED BY <4>2, <4>3, <4>4, <4>5, <4>6
    <3> QED BY <3>1, <3>2, <3>3
  <2> QED BY <2>1, <2>2 DEF Flags
<1>10. Coalesced(g, C)
  <2>1. SUFFICES ASSUME NEW x \in Frees(g, C) PROVE NextPhys(g, x) \notin Frees(g, C)
    BY DEF Coalesced
  <2>2. N \notin Frees(h, B)
    BY <1>1 DEF Coalesced, N
  <2>3. CASE x = e
    BY <1>3, <1>4, <1>5, <1>8, <2>2, <2>3
  <2>4. CASE x # e
    <3>1. x \in Frees(h, B) /\ x # b /\ x \in B \ {Sentinel}
      BY <1>8, <2>4 DEF Frees
    <3>2. NextPhys(g, x) = NextPhys(h, x) /\ NextPhys(h, x) # e
      BY <1>6, <3>1
    <3>3. NextPhys(h, x) \notin Frees(h, B)
      BY <1>1, <3>1 DEF Coalesced
    <3> QED BY <1>8, <3>2, <3>3
  <2> QED BY <2>3, <2>4
<1>11. Linked(g, Frees(g, C))
  BY <1>8
<1> QED BY <1>7, <1>9, <1>10, <1>11 DEF Sound

(* What alloc's cut promises: b is a block in use of at least n units, what  *)
(* was a block is one, and nothing else of the blocks changed.               *)
Cut(g, h, B, C, b, n) ==
    /\ Sound(g, C, {}) /\ B \in SUBSET C
    /\ ~g.mem[b].free /\ n <= g.mem[b].size
    /\ \A x \in B \ {b} : /\ g.mem[x].size = h.mem[x].size
                          /\ g.mem[x].free <=> h.mem[x].free

(* alloc hands out the whole block when too little would be left. *)
LEMMA CarveWhole ==
    ASSUME NEW h, NEW B, Sound(h, B, {}), NEW b \in Frees(h, B), NEW n \in Nat \ {0},
           n <= h.mem[b].size, ~(h.mem[b].size - n >= 2)
    PROVE  Cut(Carve(h, b, n), h, B, B, b, n)
<1> DEFINE t == RemoveFree(h, b)
           N == NextPhys(h, b)
           g == SetPrevFree(t, N, FALSE)
<1>1. /\ HeapType(h) /\ Tiles(h, B) /\ B \in SUBSET Addrs
      /\ b \in B \ {Sentinel} /\ b \in Addrs
  BY DEF Sound, Tiles, Frees
<1>2. HeapType(t) /\ Linked(t, Frees(h, B) \ {b}) /\ Taken(t, h, b)
  BY FreeTake
<1>3. N \in Addrs
  BY <1>1, TileBounds
<1>4. t.mem[b].size = h.mem[b].size /\ NextPhys(t, b) = N
  BY <1>1, <1>2 DEF Taken, NextPhys
<1>5. Carve(h, b, n) = g
  BY <1>4 DEF Carve
<1> HIDE DEF t
<1>6. /\ HeapType(g) /\ SameLists(g, t)
      /\ \A x \in Addrs :
            /\ g.mem[x].size = t.mem[x].size
            /\ g.mem[x].prev_free = IF x = N THEN FALSE ELSE t.mem[x].prev_free
            /\ g.mem[x].prev_phys = t.mem[x].prev_phys
  <2> HIDE DEF N
  <2>1. FALSE \in BOOLEAN
    OBVIOUS
  <2> QED BY <1>2, <1>3, <2>1, SetPrevFreeProps
<1> HIDE DEF g
<1>7. Linked(g, Frees(h, B) \ {b})
  <2>1. Frees(h, B) \ {b} \in SUBSET Addrs
    BY <1>1 DEF Frees
  <2>2. /\ g.heads = t.heads /\ g.fl_bitmap = t.fl_bitmap /\ g.sl_bitmap = t.sl_bitmap
        /\ \A q \in Frees(h, B) \ {b} : /\ g.mem[q].size = t.mem[q].size
                                        /\ g.mem[q].next = t.mem[q].next
                                        /\ g.mem[q].prev = t.mem[q].prev
    BY <1>6, <2>1 DEF SameLists
  <2> QED BY <1>2, <2>1, <2>2, LinkedFrame
<1>8. \A x \in Addrs : /\ g.mem[x].size = h.mem[x].size
                       /\ g.mem[x].prev_phys = h.mem[x].prev_phys
                       /\ x # N => g.mem[x].prev_free = h.mem[x].prev_free
  BY <1>2, <1>6 DEF Taken
<1>9. \A x \in Addrs : g.mem[x].free <=> x # b /\ h.mem[x].free
  <2> TAKE x \in Addrs
  <2>1. g.mem[x].free = t.mem[x].free
    BY <1>6 DEF SameLists
  <2>2. t.mem[x].free <=> x # b /\ h.mem[x].free
    BY <1>2 DEF Taken
  <2> QED BY <2>1, <2>2
<1>10. ~g.mem[N].prev_free
  BY <1>3, <1>6
<1>11. Claimed(g, h, B, b)
  BY <1>6, <1>7, <1>8, <1>9, <1>10 DEF Claimed
<1>12. Sound(g, B, {})
  BY <1>11, ClaimSound
<1>13. ~g.mem[b].free /\ n <= g.mem[b].size
  BY <1>1, <1>8, <1>9
<1>14. \A x \in B \ {b} : g.mem[x].size = h.mem[x].size /\ (g.mem[x].free <=> h.mem[x].free)
  BY <1>1, <1>8, <1>9
<1> QED BY <1>5, <1>12, <1>13, <1>14 DEF Cut

(* The header of the new block, before the block is filed. *)
NewHeader(h, b, n, e, s) ==
    SetPrevFree(SetPrevPhys(SetSize(SetSize(h, b, n), e, s), e, b), e, FALSE)

(* What writing that header changes. *)
Headed(g, h, b, n, e, s) ==
    /\ HeapType(g) /\ SameLists(g, h)
    /\ \A x \in Addrs \ {b, e} : g.mem[x].size = h.mem[x].size
    /\ g.mem[b].size = n /\ g.mem[e].size = s
    /\ \A x \in Addrs \ {e} : /\ g.mem[x].prev_free = h.mem[x].prev_free
                              /\ g.mem[x].prev_phys = h.mem[x].prev_phys
    /\ g.mem[e].prev_free = FALSE /\ g.mem[e].prev_phys = b

(* Writing that header changes nothing else. *)
LEMMA NewHeaderProps ==
    ASSUME NEW h, HeapType(h), NEW b \in Addrs, NEW n \in Nat, NEW e \in Addrs, e # b,
           NEW s \in Nat
    PROVE  Headed(NewHeader(h, b, n, e, s), h, b, n, e, s)
<1> DEFINE h1 == SetSize(h, b, n)
           h2 == SetSize(h1, e, s)
           h3 == SetPrevPhys(h2, e, b)
           g == SetPrevFree(h3, e, FALSE)
<1>1. NewHeader(h, b, n, e, s) = g
  BY DEF NewHeader
<1>2. /\ HeapType(h1) /\ SameLists(h1, h)
      /\ \A a \in Addrs : /\ h1.mem[a].size = IF a = b THEN n ELSE h.mem[a].size
                          /\ h1.mem[a].prev_free = h.mem[a].prev_free
                          /\ h1.mem[a].prev_phys = h.mem[a].prev_phys
  BY SetSizeProps
<1> HIDE DEF h1
<1>3. /\ HeapType(h2) /\ SameLists(h2, h1)
      /\ \A a \in Addrs : /\ h2.mem[a].size = IF a = e THEN s ELSE h1.mem[a].size
                          /\ h2.mem[a].prev_free = h1.mem[a].prev_free
                          /\ h2.mem[a].prev_phys = h1.mem[a].prev_phys
  BY <1>2, SetSizeProps
<1> HIDE DEF h2
<1>4. b \in Int
  BY Layout
<1>5. /\ HeapType(h3) /\ SameLists(h3, h2)
      /\ \A a \in Addrs : /\ h3.mem[a].size = h2.mem[a].size
                          /\ h3.mem[a].prev_free = h2.mem[a].prev_free
                          /\ h3.mem[a].prev_phys = IF a = e THEN b ELSE h2.mem[a].prev_phys
  BY <1>3, <1>4, SetPrevPhysProps, ZenonT(40)
<1> HIDE DEF h3
<1>6. /\ HeapType(g) /\ SameLists(g, h3)
      /\ \A a \in Addrs : /\ g.mem[a].size = h3.mem[a].size
                          /\ g.mem[a].prev_free = IF a = e THEN FALSE ELSE h3.mem[a].prev_free
                          /\ g.mem[a].prev_phys = h3.mem[a].prev_phys
  <2>1. FALSE \in BOOLEAN
    OBVIOUS
  <2> QED BY <1>5, <2>1, SetPrevFreeProps
<1> HIDE DEF g
<1>7. SameLists(g, h)
  BY <1>2, <1>3, <1>5, <1>6 DEF SameLists
<1>8. ASSUME NEW a \in Addrs
      PROVE  /\ g.mem[a].size = IF a = e THEN s ELSE IF a = b THEN n ELSE h.mem[a].size
             /\ g.mem[a].prev_phys = IF a = e THEN b ELSE h.mem[a].prev_phys
             /\ a # e => g.mem[a].prev_free = h.mem[a].prev_free
             /\ a = e => g.mem[a].prev_free = FALSE
  <2>1. /\ h1.mem[a].size = IF a = b THEN n ELSE h.mem[a].size
        /\ h1.mem[a].prev_free = h.mem[a].prev_free
        /\ h1.mem[a].prev_phys = h.mem[a].prev_phys
    BY <1>2
  <2>2. /\ h2.mem[a].size = IF a = e THEN s ELSE h1.mem[a].size
        /\ h2.mem[a].prev_free = h1.mem[a].prev_free
        /\ h2.mem[a].prev_phys = h1.mem[a].prev_phys
    BY <1>3
  <2>3. /\ h3.mem[a].size = h2.mem[a].size
        /\ h3.mem[a].prev_free = h2.mem[a].prev_free
        /\ h3.mem[a].prev_phys = IF a = e THEN b ELSE h2.mem[a].prev_phys
    BY <1>5
  <2>4. /\ g.mem[a].size = h3.mem[a].size
        /\ g.mem[a].prev_phys = h3.mem[a].prev_phys
        /\ a # e => g.mem[a].prev_free = h3.mem[a].prev_free
        /\ a = e => g.mem[a].prev_free = FALSE
    BY <1>6
  <2> QED BY <2>1, <2>2, <2>3, <2>4
<1>9. Headed(g, h, b, n, e, s)
  BY <1>6, <1>7, <1>8 DEF Headed
<1> QED BY <1>1, <1>9

(* alloc cuts a block that is larger than what is asked for. *)
LEMMA CarveSplit ==
    ASSUME NEW h, NEW B, Sound(h, B, {}), NEW b \in Frees(h, B), NEW n \in Nat \ {0},
           n + 2 <= h.mem[b].size
    PROVE  Cut(Carve(h, b, n), h, B, B \cup {b + 1 + n}, b, n)
<1> DEFINE t == RemoveFree(h, b)
           F == Frees(h, B) \ {b}
           N == NextPhys(h, b)
           e == b + 1 + n
           s == h.mem[b].size - n - 1
           h1 == NewHeader(t, b, n, e, s)
           h2 == InsertFree(h1, e)
           h3 == SetPrevPhys(h2, N, e)
           g == SetPrevFree(h3, e, FALSE)
<1>1. /\ HeapType(h) /\ Tiles(h, B) /\ B \in SUBSET Addrs
      /\ b \in B \ {Sentinel} /\ b \in Addrs /\ F \in SUBSET Addrs /\ F \in SUBSET B
  BY DEF Sound, Tiles, Frees
<1>2. HeapType(t) /\ Linked(t, F) /\ Taken(t, h, b)
  BY FreeTake
<1>3. /\ N \in Addrs /\ N = b + 1 + h.mem[b].size /\ b \in Nat /\ h.mem[b].size \in Nat
  BY <1>1, TileBounds
<1>4. e \in Addrs /\ e \notin B /\ b < e /\ e < N /\ e \in Nat /\ s \in Sizes
  BY <1>1, SplitPlace
<1>5. s \in Nat /\ e # b /\ e # N /\ b # N /\ n \in Nat /\ e \in Int /\ e \notin F
  BY <1>1, <1>3, <1>4, Layout, SMTT(30) DEF Sizes
<1>6. /\ t.mem[b].size - n >= 2 /\ t.mem[b].size - n - 1 = s /\ (t.mem[b].size - n) - 1 = s
      /\ t.mem[b].size = h.mem[b].size
  BY <1>1, <1>2, <1>3 DEF Taken
<1>7. h1 = SetPrevFree(SetPrevPhys(SetSize(SetSize(t, b, n), e,
                 (t.mem[b].size - n) - 1), e, b), e, FALSE)
  BY <1>6 DEF NewHeader
<1>8. Carve(h, b, n) = LET c == SetPrevPhys(h2, NextPhys(h2, e), e)
                       IN  SetPrevFree(c, NextPhys(c, b), FALSE)
  BY <1>6, <1>7 DEF Carve
<1> HIDE DEF t, s
<1>9. Headed(h1, t, b, n, e, s)
  <2> HIDE DEF e
  <2> QED BY <1>1, <1>2, <1>4, <1>5, NewHeaderProps
<1> HIDE DEF h1, e, N, F
<1>10. /\ HeapType(h1) /\ SameLists(h1, t)
       /\ \A x \in Addrs \ {b, e} : h1.mem[x].size = t.mem[x].size
       /\ h1.mem[b].size = n /\ h1.mem[e].size = s
       /\ \A x \in Addrs \ {e} : /\ h1.mem[x].prev_free = t.mem[x].prev_free
                                 /\ h1.mem[x].prev_phys = t.mem[x].prev_phys
       /\ h1.mem[e].prev_free = FALSE /\ h1.mem[e].prev_phys = b
  BY <1>9 DEF Headed
<1>11. Linked(h1, F)
  <2>1. /\ h1.heads = t.heads /\ h1.fl_bitmap = t.fl_bitmap /\ h1.sl_bitmap = t.sl_bitmap
        /\ \A q \in F : /\ h1.mem[q].next = t.mem[q].next
                        /\ h1.mem[q].prev = t.mem[q].prev
    BY <1>1, <1>10 DEF SameLists
  <2>2. \A q \in F : q \in Addrs \ {b, e}
    BY <1>1, <1>5 DEF F
  <2>3. \A q \in F : h1.mem[q].size = t.mem[q].size
    BY <1>10, <2>2
  <2> QED BY <1>1, <1>2, <2>1, <2>3, LinkedFrame
<1>12. HeapType(h2) /\ Linked(h2, F \cup {e}) /\ Freed(h2, h1, e)
  <2>1. h1.mem[e].size \in Sizes
    BY <1>4, <1>10
  <2>2. HeapType(h1) /\ F \in SUBSET Addrs /\ Linked(h1, F) /\ e \in Addrs /\ e \notin F
    BY <1>1, <1>4, <1>5, <1>10, <1>11
  <2> QED BY <2>1, <2>2, LinkedInsert
<1>13. NextPhys(h2, e) = N
  <2>1. h2.mem[e].size = s
    BY <1>4, <1>10, <1>12 DEF Freed
  <2>2. NextPhys(h2, e) = e + 1 + s
    BY <2>1 DEF NextPhys
  <2> QED BY <1>3, <2>2 DEF e, s, N
<1> HIDE DEF h2
<1>14. /\ HeapType(h3) /\ SameLists(h3, h2)
       /\ \A x \in Addrs : /\ h3.mem[x].size = h2.mem[x].size
                           /\ h3.mem[x].prev_free = h2.mem[x].prev_free
                           /\ h3.mem[x].prev_phys = IF x = N THEN e ELSE h2.mem[x].prev_phys
  <2>1. N \in Addrs /\ e \in Int /\ HeapType(h2)
    BY <1>3, <1>5, <1>12
  <2> QED BY <2>1, SetPrevPhysProps
<1>15. NextPhys(h3, b) = e
  <2>1. h3.mem[b].size = n
    BY <1>1, <1>10, <1>12, <1>14 DEF Freed
  <2> QED BY <2>1 DEF NextPhys, e
<1>16. Carve(h, b, n) = g
  BY <1>8, <1>13, <1>15
<1> HIDE DEF h3
<1>17. /\ HeapType(g) /\ SameLists(g, h3)
       /\ \A x \in Addrs : /\ g.mem[x].size = h3.mem[x].size
                           /\ g.mem[x].prev_free = IF x = e THEN FALSE ELSE h3.mem[x].prev_free
                           /\ g.mem[x].prev_phys = h3.mem[x].prev_phys
  <2>1. FALSE \in BOOLEAN
    OBVIOUS
  <2> QED BY <1>4, <1>14, <2>1, SetPrevFreeProps, ZenonT(40)
<1> HIDE DEF g
<1>18. Linked(g, F \cup {e})
  <2>1. F \cup {e} \in SUBSET Addrs
    BY <1>1, <1>4
  <2>2. /\ g.heads = h2.heads /\ g.fl_bitmap = h2.fl_bitmap /\ g.sl_bitmap = h2.sl_bitmap
        /\ \A q \in F \cup {e} : /\ g.mem[q].size = h2.mem[q].size
                                 /\ g.mem[q].next = h2.mem[q].next
                                 /\ g.mem[q].prev = h2.mem[q].prev
    BY <1>14, <1>17, <2>1, ZenonT(40) DEF SameLists
  <2> QED BY <1>12, <2>1, <2>2, LinkedFrame
<1>19. ASSUME NEW x \in Addrs
       PROVE  /\ g.mem[x].size = h1.mem[x].size
              /\ x # N => g.mem[x].prev_phys = h1.mem[x].prev_phys
              /\ x = N => g.mem[x].prev_phys = e
              /\ x # e => g.mem[x].prev_free = h1.mem[x].prev_free
              /\ x = e => ~g.mem[x].prev_free
              /\ t.mem[x].size = h.mem[x].size
              /\ t.mem[x].prev_phys = h.mem[x].prev_phys
              /\ t.mem[x].prev_free = h.mem[x].prev_free
  <2>1. /\ g.mem[x].size = h3.mem[x].size
        /\ g.mem[x].prev_phys = h3.mem[x].prev_phys
        /\ x # e => g.mem[x].prev_free = h3.mem[x].prev_free
        /\ x = e => ~g.mem[x].prev_free
    BY <1>17
  <2>2. /\ h3.mem[x].size = h2.mem[x].size
        /\ h3.mem[x].prev_free = h2.mem[x].prev_free
        /\ h3.mem[x].prev_phys = IF x = N THEN e ELSE h2.mem[x].prev_phys
    BY <1>14
  <2>3. /\ h2.mem[x].size = h1.mem[x].size
        /\ h2.mem[x].prev_free = h1.mem[x].prev_free
        /\ h2.mem[x].prev_phys = h1.mem[x].prev_phys
    BY <1>12 DEF Freed
  <2>4. /\ t.mem[x].size = h.mem[x].size
        /\ t.mem[x].prev_phys = h.mem[x].prev_phys
        /\ t.mem[x].prev_free = h.mem[x].prev_free
    BY <1>2 DEF Taken
  <2> QED BY <2>1, <2>2, <2>3, <2>4
<1>20. /\ \A x \in Addrs \ {b, e} : g.mem[x].size = h.mem[x].size
       /\ g.mem[b].size = n /\ g.mem[e].size = s
  BY <1>1, <1>4, <1>10, <1>19
<1>21. /\ \A x \in Addrs \ {e} : g.mem[x].prev_free = h.mem[x].prev_free
       /\ ~g.mem[e].prev_free
  BY <1>4, <1>10, <1>19
<1>22. /\ \A x \in Addrs \ {e, N} : g.mem[x].prev_phys = h.mem[x].prev_phys
       /\ g.mem[e].prev_phys = b /\ g.mem[N].prev_phys = e
  BY <1>3, <1>4, <1>5, <1>10, <1>19
<1>23. ASSUME NEW x \in Addrs PROVE g.mem[x].free <=> x = e \/ (x # b /\ h.mem[x].free)
  <2>1. g.mem[x].free = h2.mem[x].free
    BY <1>14, <1>17 DEF SameLists
  <2>2. h2.mem[x].free <=> x = e \/ h1.mem[x].free
    BY <1>12 DEF Freed
  <2>3. h1.mem[x].free = t.mem[x].free
    BY <1>10 DEF SameLists
  <2>4. t.mem[x].free <=> x # b /\ h.mem[x].free
    BY <1>2 DEF Taken
  <2> QED BY <2>1, <2>2, <2>3, <2>4
<1>24. /\ \A x \in Addrs \ {b, e} : g.mem[x].free <=> h.mem[x].free
       /\ ~g.mem[b].free /\ g.mem[e].free
  BY <1>1, <1>4, <1>5, <1>23
<1>25. Split(g, h, B, b, n, e)
  <2>1. n \in Nat \ {0} /\ n + 2 <= h.mem[b].size /\ e = b + 1 + n
    BY DEF e
  <2>2. HeapType(g) /\ Linked(g, (Frees(h, B) \ {b}) \cup {e})
    BY <1>17, <1>18 DEF F
  <2>3. g.mem[e].size = h.mem[b].size - n - 1
    BY <1>20 DEF s
  <2> QED BY <1>20, <1>21, <1>22, <1>24, <2>1, <2>2, <2>3 DEF Split, N
<1>26. Sound(g, B \cup {e}, {})
  BY <1>25, SplitSound
<1>27. \A x \in B \ {b} : x \in Addrs \ {b, e}
  BY <1>1, <1>4
<1>28. \A x \in B \ {b} : g.mem[x].size = h.mem[x].size /\ (g.mem[x].free <=> h.mem[x].free)
  BY <1>20, <1>24, <1>27
<1>29. n <= g.mem[b].size /\ B \in SUBSET (B \cup {e})
  BY <1>20
<1>30. Cut(g, h, B, B \cup {e}, b, n)
  BY <1>24, <1>26, <1>28, <1>29 DEF Cut
<1> QED BY <1>16, <1>30 DEF e

(* What an owner writes into its block does not reach a header. *)
LEMMA OverwriteSound ==
    ASSUME NEW h, NEW B, Sound(h, B, {}), NEW b \in B \ {Sentinel}
    PROVE  /\ Sound(Overwrite(h, b), B, {})
           /\ \A x \in B : Overwrite(h, b).mem[x] = h.mem[x]
<1> DEFINE N == NextPhys(h, b)
           m == [a \in Addrs |-> IF b < a /\ a < N THEN Zero ELSE h.mem[a]]
           g == Overwrite(h, b)
<1>1. /\ HeapType(h) /\ Tiles(h, B) /\ Flags(h, B, {}) /\ Coalesced(h, B)
      /\ Linked(h, Frees(h, B))
  BY DEF Sound
<1>2. B \in SUBSET Addrs /\ 0 \in B /\ Sentinel \in B /\ Frees(h, B) \in SUBSET B
  BY <1>1 DEF Tiles, Frees
<1>3. /\ h.mem \in [Addrs -> Header] /\ h.heads \in [Classes -> Int]
      /\ h.fl_bitmap \in SUBSET Nat /\ h.sl_bitmap \in SUBSET Classes
  BY <1>1, HeapFields
<1>4. Zero \in Header
  BY Layout DEF Zero, Header
<1>5. m \in [Addrs -> Header]
  BY <1>3, <1>4
<1>6. ASSUME NEW x \in B PROVE m[x] = h.mem[x]
  <2>1. x \in Addrs /\ (x <= b \/ N <= x) /\ b \in Addrs /\ N \in Addrs
    BY <1>1, <1>2, TileBounds DEF Tiles
  <2>2. ~(b < x /\ x < N)
    <3> HIDE DEF N
    <3> QED BY <2>1, Layout
  <2> QED BY <2>1, <2>2
<1>7. g = [mem |-> m, heads |-> h.heads, fl_bitmap |-> h.fl_bitmap,
           sl_bitmap |-> h.sl_bitmap]
  BY <1>1, HeapFields DEF Overwrite
<1> HIDE DEF m, g
<1>8. HeapType(g)
  BY <1>3, <1>5, <1>7, HeapMade
<1>9. /\ g.mem = m /\ g.heads = h.heads /\ g.fl_bitmap = h.fl_bitmap
      /\ g.sl_bitmap = h.sl_bitmap
  BY <1>7
<1>10. \A x \in B : g.mem[x] = h.mem[x]
  BY <1>6, <1>9
<1>11. \A x \in B : NextPhys(g, x) = NextPhys(h, x)
  BY <1>10 DEF NextPhys
<1>12. Tiles(g, B)
  BY <1>1, <1>10, <1>11 DEF Tiles
<1>13. Frees(g, B) = Frees(h, B)
  BY <1>10 DEF Frees
<1>14. Flags(g, B, {})
  <2>1. ~g.mem[0].prev_free /\ ~g.mem[Sentinel].free
    BY <1>1, <1>2, <1>10 DEF Flags
  <2>2. ASSUME NEW x \in B \ {Sentinel}, NextPhys(g, x) # Sentinel
        PROVE  /\ g.mem[NextPhys(g, x)].prev_free <=> g.mem[x].free
               /\ g.mem[NextPhys(g, x)].prev_phys = x
    <3>1. NextPhys(g, x) = NextPhys(h, x) /\ NextPhys(h, x) \in B
      BY <1>1, <1>11, TileBounds
    <3>2. /\ h.mem[NextPhys(h, x)].prev_free <=> h.mem[x].free
          /\ h.mem[NextPhys(h, x)].prev_phys = x
      BY <1>1, <2>2, <3>1 DEF Flags
    <3>3. g.mem[NextPhys(h, x)] = h.mem[NextPhys(h, x)] /\ g.mem[x] = h.mem[x]
      BY <1>10, <3>1
    <3> QED BY <3>1, <3>2, <3>3
  <2> QED BY <2>1, <2>2 DEF Flags
<1>15. Coalesced(g, B)
  BY <1>1, <1>2, <1>11, <1>13 DEF Coalesced
<1>16. Linked(g, Frees(h, B))
  <2>1. Frees(h, B) \in SUBSET Addrs
    BY <1>2
  <2>2. \A q \in Frees(h, B) : /\ g.mem[q].size = h.mem[q].size
                               /\ g.mem[q].next = h.mem[q].next
                               /\ g.mem[q].prev = h.mem[q].prev
    BY <1>2, <1>10
  <2> QED BY <1>1, <1>9, <2>1, <2>2, LinkedFrame
<1>17. Sound(g, B, {})
  BY <1>8, <1>12, <1>13, <1>14, <1>15, <1>16 DEF Sound
<1> QED BY <1>10, <1>17 DEF g

(* alloc of a block that is large enough keeps the pool sound. *)
LEMMA CarveSound ==
    ASSUME NEW h, NEW B, Sound(h, B, {}), NEW b \in Frees(h, B), NEW n \in Nat \ {0},
           n <= h.mem[b].size
    PROVE  \E C : Cut(Overwrite(Carve(h, b, n), b), h, B, C, b, n)
<1> DEFINE k == Carve(h, b, n)
           g == Overwrite(k, b)
<1>1. b \in B \ {Sentinel} /\ HeapType(h) /\ Tiles(h, B)
  BY DEF Frees, Sound
<1>2. h.mem[b].size \in Nat
  BY <1>1, TileBounds
<1>3. PICK C : Cut(k, h, B, C, b, n)
  <2>1. CASE h.mem[b].size - n >= 2
    <3>1. n + 2 <= h.mem[b].size
      BY <1>2, <2>1
    <3> QED BY <3>1, CarveSplit
  <2>2. CASE ~(h.mem[b].size - n >= 2)
    BY <2>2, CarveWhole
  <2> QED BY <2>1, <2>2
<1> HIDE DEF k
<1>4. Sound(k, C, {}) /\ B \in SUBSET C /\ b \in C \ {Sentinel}
  BY <1>1, <1>3 DEF Cut
<1>5. Sound(g, C, {}) /\ \A x \in C : g.mem[x] = k.mem[x]
  BY <1>4, OverwriteSound
<1> HIDE DEF g
<1>6. ~g.mem[b].free /\ n <= g.mem[b].size
  BY <1>3, <1>4, <1>5 DEF Cut
<1>7. \A x \in B \ {b} : g.mem[x].size = h.mem[x].size /\ (g.mem[x].free <=> h.mem[x].free)
  BY <1>3, <1>4, <1>5 DEF Cut
<1>8. Cut(g, h, B, C, b, n)
  BY <1>4, <1>5, <1>6, <1>7 DEF Cut
<1> QED BY <1>8 DEF g, k

(* The classes that the bitmaps lead to lie at or after the one searched. *)
LEMMA CandidatesProps ==
    ASSUME NEW h, HeapType(h), BitsMatch(h), NEW c
    PROVE  \A d \in Candidates(h, c) :
              /\ d \in h.sl_bitmap /\ d \in Classes
              /\ c[1] < d[1] \/ (c[1] = d[1] /\ c[2] <= d[2])
<1> DEFINE here == {d \in h.sl_bitmap : d[1] = c[1] /\ d[2] >= c[2]}
           fls  == {f \in h.fl_bitmap : f > c[1]}
           fl   == CHOOSE f \in fls : \A g \in fls : f <= g
<1>1. Candidates(h, c) = IF here # {} THEN here
                         ELSE IF fls = {} THEN {} ELSE {d \in h.sl_bitmap : d[1] = fl}
  BY DEF Candidates
<1>2. h.sl_bitmap \in SUBSET Classes /\ h.fl_bitmap \in SUBSET Nat
  BY HeapFields
<1>3. fls # {} => fl \in fls
  <2>1. SUFFICES ASSUME fls # {} PROVE fl \in fls
    OBVIOUS
  <2>2. fls \in SUBSET Nat
    BY <1>2
  <2>3. \E f \in fls : \A g \in fls : f <= g
    <3> HIDE DEF fls
    <3> QED BY <2>1, <2>2, LeastOfNat
  <2> HIDE DEF fls
  <2> QED BY <2>3
<1>4. fls # {} => fl > c[1]
  BY <1>3
<1> HIDE DEF fl
<1> SUFFICES ASSUME NEW d \in Candidates(h, c)
             PROVE  /\ d \in h.sl_bitmap /\ d \in Classes
                    /\ c[1] < d[1] \/ (c[1] = d[1] /\ c[2] <= d[2])
  OBVIOUS
<1>5. CASE here # {}
  BY <1>1, <1>2, <1>5
<1>6. CASE here = {} /\ fls # {}
  BY <1>1, <1>2, <1>4, <1>6
<1>7. CASE here = {} /\ fls = {}
  BY <1>1, <1>7
<1> QED BY <1>5, <1>6, <1>7

(* find_free comes back with a free block that is large enough. *)
LEMMA FindFreeProps ==
    ASSUME NEW h, NEW B, Sound(h, B, {}), NEW n \in Nat \ {0}, FindFree(h, n) # Null
    PROVE  /\ FindFree(h, n) \in Frees(h, B)
           /\ n <= h.mem[FindFree(h, n)].size /\ h.mem[FindFree(h, n)].size # 0
<1> DEFINE s == MappingSearch(n)
           cs == Candidates(h, s)
           c == CHOOSE x \in cs : \A d \in cs : x[2] <= d[2]
           b == h.heads[c]
<1>1. HeapType(h) /\ Linked(h, Frees(h, B)) /\ BitsMatch(h)
  BY DEF Sound, Linked
<1>2. cs # {} /\ FindFree(h, n) = b
  BY DEF FindFree
<1>3. \A d \in cs : d \in h.sl_bitmap /\ d \in Classes /\ ClassLeq(s, d)
  <2> HIDE DEF s
  <2> QED BY <1>1, CandidatesProps DEF ClassLeq
<1> HIDE DEF cs, s
<1>4. c \in cs
  <2> DEFINE S == {d[2] : d \in cs}
  <2>1. S \in SUBSET Nat
    BY <1>3, Pow2Props DEF Classes
  <2>2. S # {}
    BY <1>2
  <2>3. PICK y \in S : \A z \in S : y <= z
    <3> HIDE DEF S
    <3> QED BY <2>1, <2>2, LeastOfNat
  <2>4. \E x \in cs : \A d \in cs : x[2] <= d[2]
    BY <2>3
  <2> QED BY <2>4
<1>5. c \in Classes /\ h.heads[c] # Null /\ ClassLeq(s, c)
  BY <1>1, <1>3, <1>4 DEF BitsMatch
<1> HIDE DEF c
<1>6. PICK r \in [Addrs -> Int], k \in Int : ByRank(h, Frees(h, B), r, k)
  BY <1>1 DEF Linked
<1>7. b \in Frees(h, B) /\ Mapping(h.mem[b].size) = c
  BY <1>5, <1>6 DEF ByRank
<1>8. h.mem[b].size \in Sizes
  BY <1>6, <1>7 DEF ByRank
<1>9. h.mem[b].size \in Nat \ {0}
  BY <1>8, Layout, SMTT(30) DEF Sizes
<1>10. ClassLeq(MappingSearch(n), Mapping(h.mem[b].size))
  BY <1>5, <1>7 DEF s
<1>11. n <= h.mem[b].size
  <2> HIDE DEF b
  <2> QED BY <1>9, <1>10, SearchFits
<1> QED BY <1>2, <1>7, <1>9, <1>11

-----------------------------------------------------------------------------
(* add_pool *)

(* The pool before its only block is filed. *)
Bare ==
    [mem |-> [a \in Addrs |->
                CASE a = 0        -> [Zero EXCEPT !.size = PoolSize - 2]
                  [] a = Sentinel -> [Zero EXCEPT !.prev_phys = 0]
                  [] OTHER        -> Zero],
     heads |-> [c \in Classes |-> Null], fl_bitmap |-> {}, sl_bitmap |-> {}]

(* A new pool is one free block and the sentinel. *)
LEMMA AddPoolSound == Sound(AddPool, {0, Sentinel}, {})
<1> DEFINE B == {0, Sentinel}
           g == InsertFree(Bare, 0)
<1>1. AddPool = g
  BY DEF AddPool, Bare
<1>2. /\ Bare.heads = [c \in Classes |-> Null] /\ Bare.fl_bitmap = {}
      /\ Bare.sl_bitmap = {}
  BY DEF Bare
<1>3. /\ Bare.mem[0] = [Zero EXCEPT !.size = PoolSize - 2]
      /\ Bare.mem[Sentinel] = [Zero EXCEPT !.prev_phys = 0]
      /\ \A a \in Addrs \ {0, Sentinel} : Bare.mem[a] = Zero
      /\ Bare.mem = [a \in Addrs |-> Bare.mem[a]]
  <2> DEFINE first == [Zero EXCEPT !.size = PoolSize - 2]
             last == [Zero EXCEPT !.prev_phys = 0]
  <2>1. Bare.mem = [a \in Addrs |-> CASE a = 0 -> first [] a = Sentinel -> last
                                       [] OTHER -> Zero]
    BY DEF Bare
  <2> HIDE DEF first, last
  <2>2. \A a \in Addrs : Bare.mem[a] = CASE a = 0 -> first [] a = Sentinel -> last
                                          [] OTHER -> Zero
    BY <2>1
  <2>3. Bare.mem[0] = first /\ Bare.mem[Sentinel] = last
    BY <2>2, Layout
  <2>4. \A a \in Addrs \ {0, Sentinel} : Bare.mem[a] = Zero
    BY <2>2
  <2>5. Bare.mem = [a \in Addrs |-> Bare.mem[a]]
    BY <2>1
  <2> QED BY <2>3, <2>4, <2>5 DEF first, last
<1>4. /\ Zero \in Header /\ [Zero EXCEPT !.size = PoolSize - 2] \in Header
      /\ [Zero EXCEPT !.prev_phys = 0] \in Header
  <2>1. PoolSize - 2 \in Nat /\ 0 \in Int /\ Null \in Int
    BY Layout
  <2>2. Zero \in Header
    BY <2>1 DEF Zero, Header
  <2> QED BY <2>1, <2>2 DEF Header
<1>5. \A a \in Addrs : Bare.mem[a] \in Header
  BY <1>3, <1>4
<1>6. HeapType(Bare)
  <2>1. Bare.mem \in [Addrs -> Header]
    BY <1>3, <1>5
  <2>2. Bare.heads \in [Classes -> Int]
    BY <1>2, Layout
  <2>3. Bare = [mem |-> Bare.mem, heads |-> Bare.heads, fl_bitmap |-> Bare.fl_bitmap,
                sl_bitmap |-> Bare.sl_bitmap]
    BY DEF Bare
  <2>4. Bare.fl_bitmap \in SUBSET Nat /\ Bare.sl_bitmap \in SUBSET Classes
    BY <1>2
  <2> QED BY <2>1, <2>2, <2>3, <2>4, HeapMade
<1>7. Linked(Bare, {})
  <2> DEFINE r == [a \in Addrs |-> 0]
  <2>1. r \in [Addrs -> Int] /\ 0 \in Int
    OBVIOUS
  <2>2. ByRank(Bare, {}, r, 0)
    BY <1>2 DEF ByRank
  <2>3. BitsMatch(Bare)
    BY <1>2 DEF BitsMatch
  <2> HIDE DEF r
  <2> QED BY <2>1, <2>2, <2>3 DEF Linked
<1>8. /\ Bare.mem[0].size = PoolSize - 2 /\ Bare.mem[0].size \in Sizes
      /\ ~Bare.mem[0].prev_free /\ ~Bare.mem[Sentinel].free
  BY <1>3, Layout DEF Zero, Sizes
<1>9. HeapType(g) /\ Linked(g, {} \cup {0}) /\ Freed(g, Bare, 0)
  <2>1. {} \in SUBSET Addrs /\ 0 \in Addrs /\ 0 \notin {}
    BY Layout
  <2> QED BY <1>6, <1>7, <1>8, <2>1, LinkedInsert
<1> HIDE DEF g
<1>10. /\ g.mem[0].size = PoolSize - 2 /\ ~g.mem[0].prev_free
       /\ g.mem[0].free /\ ~g.mem[Sentinel].free
  BY <1>8, <1>9, Layout DEF Freed
<1>11. NextPhys(g, 0) = Sentinel
  BY <1>10, Layout DEF NextPhys
<1>12. Tiles(g, B)
  <2>1. B \in SUBSET Addrs /\ 0 \in B /\ Sentinel \in B /\ B \ {Sentinel} = {0}
    BY Layout
  <2>2. /\ g.mem[0].size >= 1 /\ NextPhys(g, 0) \in B
        /\ \A a \in B : a <= 0 \/ NextPhys(g, 0) <= a
    BY <1>10, <1>11, Layout
  <2> QED BY <2>1, <2>2 DEF Tiles
<1>13. Frees(g, B) = {0}
  BY <1>10, Layout DEF Frees
<1>14. Flags(g, B, {})
  <2>1. B \ {Sentinel} = {0}
    BY Layout
  <2> QED BY <1>10, <1>11, <2>1 DEF Flags
<1>15. Coalesced(g, B)
  BY <1>11, <1>13, Layout DEF Coalesced
<1>16. Linked(g, Frees(g, B))
  <2>1. {} \cup {0} = {0}
    OBVIOUS
  <2> QED BY <1>9, <1>13, <2>1
<1> QED BY <1>1, <1>9, <1>12, <1>14, <1>15, <1>16 DEF Sound

-----------------------------------------------------------------------------
(* The callers *)

(* Each caller holds a block of its own, in use and at least as large as     *)
(* what the caller asked for, and a pointer to the first unit after the      *)
(* header.                                                                   *)
Loan == [ptr : Int, block : Int, size : Nat]

Held(h, B, l) ==
    /\ l \in Seq(Loan)
    /\ \A i \in 1..Len(l) :
          /\ l[i].block \in B \ {Sentinel} /\ ~h.mem[l[i].block].free
          /\ l[i].ptr = l[i].block + 1
          /\ 1 <= l[i].size /\ l[i].size <= h.mem[l[i].block].size
    /\ \A i, j \in 1..Len(l) : i # j => l[i].block # l[j].block

(* alloc gives the caller a block that nobody holds. *)
LEMMA HeldAlloc ==
    ASSUME NEW h, NEW B, Sound(h, B, {}), NEW l, Held(h, B, l), NEW b \in Frees(h, B),
           NEW n \in Nat \ {0}, NEW g, NEW C, Cut(g, h, B, C, b, n)
    PROVE  Held(g, C, Append(l, [ptr |-> b + 1, block |-> b, size |-> n]))
<1> DEFINE e == [ptr |-> b + 1, block |-> b, size |-> n]
           k == Append(l, e)
<1>1. /\ l \in Seq(Loan)
      /\ \A i \in 1..Len(l) :
            /\ l[i].block \in B \ {Sentinel} /\ ~h.mem[l[i].block].free
            /\ l[i].ptr = l[i].block + 1
            /\ 1 <= l[i].size /\ l[i].size <= h.mem[l[i].block].size
      /\ \A i, j \in 1..Len(l) : i # j => l[i].block # l[j].block
  BY DEF Held
<1>2. b \in B \ {Sentinel} /\ h.mem[b].free /\ b \in Int /\ B \in SUBSET C
  <2>1. b \in B \ {Sentinel} /\ h.mem[b].free /\ B \in SUBSET Addrs
    BY DEF Frees, Sound, Tiles
  <2> QED BY <2>1, Layout DEF Cut
<1>3. e \in Loan /\ e.block = b /\ e.ptr = b + 1 /\ e.size = n
  BY <1>2 DEF Loan
<1> HIDE DEF e
<1>4. /\ k \in Seq(Loan) /\ Len(k) = Len(l) + 1 /\ Len(l) \in Nat
      /\ k[Len(l) + 1] = e
      /\ \A i \in 1..Len(l) : k[i] = l[i]
  BY <1>1, <1>3
<1> HIDE DEF k
<1>5. \A i \in 1..Len(l) : l[i].block # b
  BY <1>1, <1>2
<1>6. ASSUME NEW i \in 1..Len(k)
      PROVE  /\ k[i].block \in C \ {Sentinel} /\ ~g.mem[k[i].block].free
             /\ k[i].ptr = k[i].block + 1
             /\ 1 <= k[i].size /\ k[i].size <= g.mem[k[i].block].size
  <2>1. CASE i = Len(l) + 1
    <3>1. k[i] = e
      BY <1>4, <2>1
    <3>2. ~g.mem[b].free /\ n <= g.mem[b].size /\ 1 <= n
      BY DEF Cut
    <3> QED BY <1>2, <1>3, <3>1, <3>2
  <2>2. CASE i # Len(l) + 1
    <3>1. i \in 1..Len(l) /\ k[i] = l[i]
      BY <1>4, <2>2
    <3>2. /\ l[i].block \in B \ {Sentinel} /\ l[i].block \in B \ {b}
          /\ ~h.mem[l[i].block].free
          /\ l[i].ptr = l[i].block + 1
          /\ 1 <= l[i].size /\ l[i].size <= h.mem[l[i].block].size
      BY <1>1, <1>5, <3>1
    <3>3. g.mem[l[i].block].size = h.mem[l[i].block].size
      BY <3>2 DEF Cut
    <3>4. ~g.mem[l[i].block].free
      BY <3>2 DEF Cut
    <3> QED BY <1>2, <3>1, <3>2, <3>3, <3>4
  <2> QED BY <2>1, <2>2
<1>7. ASSUME NEW i \in 1..Len(k), NEW j \in 1..Len(k), i # j
      PROVE  k[i].block # k[j].block
  BY <1>1, <1>3, <1>4, <1>5, <1>7
<1>8. Held(g, C, k)
  BY <1>4, <1>6, <1>7 DEF Held
<1> QED BY <1>8 DEF k, e

(* A sequence without its i-th element. *)
LEMMA RemoveAtProps ==
    ASSUME NEW S, NEW l \in Seq(S), NEW i \in 1..Len(l)
    PROVE  /\ RemoveAt(l, i) \in Seq(S) /\ Len(RemoveAt(l, i)) = Len(l) - 1
           /\ \A j \in 1..(Len(l) - 1) : RemoveAt(l, i)[j] = l[IF j < i THEN j ELSE j + 1]
<1> DEFINE x == SubSeq(l, 1, i - 1)
           y == SubSeq(l, i + 1, Len(l))
<1>1. Len(l) \in Nat /\ i \in Nat /\ 1 <= i /\ i <= Len(l)
  OBVIOUS
<1>2. /\ x \in Seq(S) /\ Len(x) = i - 1
      /\ \A j \in 1..(i - 1) : x[j] = l[j]
  BY <1>1
<1>3. y \in Seq(S) /\ Len(y) = Len(l) - i
  BY <1>1
<1>4. \A j \in 1..(Len(l) - i) : y[j] = l[i + j]
  BY <1>1
<1>5. RemoveAt(l, i) = x \o y
  BY DEF RemoveAt
<1> HIDE DEF x, y
<1>6. /\ x \o y \in Seq(S) /\ Len(x \o y) = Len(l) - 1
      /\ \A j \in 1..(Len(l) - 1) : (x \o y)[j] = IF j <= i - 1 THEN x[j] ELSE y[j - (i - 1)]
  <2>1. x \in Seq(S) /\ y \in Seq(S)
    BY <1>2, <1>3
  <2>2. /\ x \o y \in Seq(S) /\ Len(x \o y) = Len(x) + Len(y)
        /\ \A j \in 1..(Len(x) + Len(y)) :
              (x \o y)[j] = IF j <= Len(x) THEN x[j] ELSE y[j - Len(x)]
    BY <2>1
  <2>3. Len(x) + Len(y) = Len(l) - 1 /\ Len(x) = i - 1
    BY <1>1, <1>2, <1>3
  <2> QED BY <2>2, <2>3
<1>7. ASSUME NEW j \in 1..(Len(l) - 1)
      PROVE  (x \o y)[j] = l[IF j < i THEN j ELSE j + 1]
  <2>1. CASE j < i
    BY <1>1, <1>2, <1>6, <2>1
  <2>2. CASE ~(j < i)
    <3>1. (x \o y)[j] = y[j - (i - 1)]
      BY <1>1, <1>6, <2>2
    <3>2. j - (i - 1) \in 1..(Len(l) - i) /\ i + (j - (i - 1)) = j + 1
      BY <1>1, <2>2
    <3>3. y[j - (i - 1)] = l[i + (j - (i - 1))]
      BY <1>4, <3>2
    <3> QED BY <2>2, <3>1, <3>2, <3>3
  <2> QED BY <2>1, <2>2
<1> QED BY <1>5, <1>6, <1>7

(* dealloc leaves the other callers what they hold. *)
LEMMA HeldDealloc ==
    ASSUME NEW h, NEW B, NEW l, Held(h, B, l), NEW i \in 1..Len(l),
           NEW g, NEW C, Keeps(g, h, B, C, l[i].block)
    PROVE  Held(g, C, RemoveAt(l, i))
<1> DEFINE k == RemoveAt(l, i)
           o(j) == IF j < i THEN j ELSE j + 1
<1>1. /\ l \in Seq(Loan)
      /\ \A j \in 1..Len(l) :
            /\ l[j].block \in B \ {Sentinel} /\ ~h.mem[l[j].block].free
            /\ l[j].ptr = l[j].block + 1
            /\ 1 <= l[j].size /\ l[j].size <= h.mem[l[j].block].size
      /\ \A j, m \in 1..Len(l) : j # m => l[j].block # l[m].block
  BY DEF Held
<1>2. /\ k \in Seq(Loan) /\ Len(k) = Len(l) - 1 /\ Len(l) \in Nat
      /\ \A j \in 1..Len(k) : k[j] = l[o(j)]
  BY <1>1, RemoveAtProps
<1> HIDE DEF k
<1>3. /\ \A j \in 1..Len(k) : o(j) \in 1..Len(l) /\ o(j) # i
      /\ \A j, m \in 1..Len(k) : j # m => o(j) # o(m)
  BY <1>2
<1> HIDE DEF o
<1>4. ASSUME NEW j \in 1..Len(k)
      PROVE  /\ k[j].block \in C \ {Sentinel} /\ ~g.mem[k[j].block].free
             /\ k[j].ptr = k[j].block + 1
             /\ 1 <= k[j].size /\ k[j].size <= g.mem[k[j].block].size
  <2>1. k[j] = l[o(j)] /\ o(j) \in 1..Len(l) /\ o(j) # i
    BY <1>2, <1>3
  <2>2. /\ k[j].block \in B \ {Sentinel} /\ ~h.mem[k[j].block].free
        /\ k[j].ptr = k[j].block + 1
        /\ 1 <= k[j].size /\ k[j].size <= h.mem[k[j].block].size
        /\ k[j].block # l[i].block
    BY <1>1, <2>1
  <2>3. k[j].block \in C /\ g.mem[k[j].block].size = h.mem[k[j].block].size
    BY <2>2 DEF Keeps
  <2>4. ~g.mem[k[j].block].free
    BY <2>2 DEF Keeps
  <2> QED BY <2>2, <2>3, <2>4
<1>5. ASSUME NEW j \in 1..Len(k), NEW m \in 1..Len(k), j # m
      PROVE  k[j].block # k[m].block
  BY <1>1, <1>2, <1>3, <1>5
<1>6. Held(g, C, k)
  BY <1>2, <1>4, <1>5 DEF Held
<1> QED BY <1>6 DEF k

(* What callers hold lies apart from each other and from every header. *)
LEMMA HeldApart ==
    ASSUME NEW h, NEW B, Sound(h, B, {}), NEW l, Held(h, B, l)
    PROVE  /\ \A i \in 1..Len(l) : \A u \in Payload(l[i]) : u \notin B
           /\ \A i, j \in 1..Len(l) : i # j => Payload(l[i]) \cap Payload(l[j]) = {}
<1>1. HeapType(h) /\ Tiles(h, B) /\ B \in SUBSET Addrs /\ l \in Seq(Loan)
  BY DEF Sound, Tiles, Held
<1>2. ASSUME NEW i \in 1..Len(l), NEW u \in Payload(l[i])
      PROVE  /\ l[i].block \in B \ {Sentinel} /\ l[i].block \in Nat
             /\ NextPhys(h, l[i].block) \in Nat /\ u \in Int
             /\ l[i].block < u /\ u < NextPhys(h, l[i].block)
  <2> DEFINE b == l[i].block
  <2>1. b \in B \ {Sentinel} /\ l[i].ptr = b + 1 /\ l[i].size <= h.mem[b].size
    BY DEF Held
  <2>2. l[i] \in Loan
    BY <1>1
  <2>3. l[i].size \in Nat
    BY <2>2 DEF Loan
  <2>4. u \in (b + 1)..(b + 1 + l[i].size - 1)
    BY <2>1 DEF Payload
  <2> HIDE DEF b
  <2>5. /\ b \in Nat /\ h.mem[b].size \in Nat /\ NextPhys(h, b) = b + 1 + h.mem[b].size
    BY <1>1, <2>1, TileBounds
  <2>6. /\ b \in B \ {Sentinel} /\ b \in Nat /\ NextPhys(h, b) \in Nat /\ u \in Int
        /\ b < u /\ u < NextPhys(h, b)
    BY <2>1, <2>3, <2>4, <2>5
  <2> QED BY <2>6 DEF b
<1>3. ASSUME NEW i \in 1..Len(l), NEW u \in Payload(l[i]) PROVE u \notin B
  <2>1. \A a \in B : a <= l[i].block \/ NextPhys(h, l[i].block) <= a
    BY <1>1, <1>2 DEF Tiles
  <2> QED BY <1>2, <2>1
<1>4. ASSUME NEW i \in 1..Len(l), NEW j \in 1..Len(l), i # j
      PROVE  Payload(l[i]) \cap Payload(l[j]) = {}
  <2>1. SUFFICES ASSUME NEW u \in Payload(l[i]), u \in Payload(l[j]) PROVE FALSE
    OBVIOUS
  <2>2. l[i].block # l[j].block
    BY <1>4 DEF Held
  <2>3. /\ l[i].block \in B \ {Sentinel} /\ l[i].block \in Nat
        /\ NextPhys(h, l[i].block) \in Nat /\ u \in Int
        /\ l[i].block < u /\ u < NextPhys(h, l[i].block)
    BY <1>2
  <2>4. /\ l[j].block \in B \ {Sentinel} /\ l[j].block \in Nat
        /\ NextPhys(h, l[j].block) \in Nat
        /\ l[j].block < u /\ u < NextPhys(h, l[j].block)
    BY <1>2, <2>1
  <2>5. NextPhys(h, l[j].block) <= l[i].block \/ NextPhys(h, l[i].block) <= l[j].block
    BY <1>1, <2>2, <2>3, <2>4, TilesApart
  <2> QED BY <2>3, <2>4, <2>5
<1> QED BY <1>3, <1>4

-----------------------------------------------------------------------------
(* The specification *)

(* Frees keep the neighbours' records true, and no alignment above the       *)
(* header's own is asked for: the instance that the passing run checks.  The *)
(* runs tlsf_order and tlsf_align show what happens otherwise.               *)
Restricted == ~AnyOrder /\ Aligns \subseteq {1}

(* The inductive invariant. *)
Safe ==
    /\ \E B : Sound(heap, B, {}) /\ Held(heap, B, live)
    /\ crashed \in {"no", "size"}

(* The pool starts sound, and nobody holds anything. *)
LEMMA InitSafe == Init => Safe
<1> SUFFICES ASSUME Init PROVE Safe
  OBVIOUS
<1>1. Sound(heap, {0, Sentinel}, {})
  BY AddPoolSound DEF Init
<1>2. Held(heap, {0, Sentinel}, live)
  <2>1. live = <<>> /\ live \in Seq(Loan) /\ Len(live) = 0
    BY DEF Init
  <2> QED BY <2>1 DEF Held
<1> QED BY <1>1, <1>2 DEF Safe, Init

(* Without alignment, alloc asks for what the caller asked for, and the      *)
(* pointer is not moved.                                                     *)
LEMMA Unaligned ==
    ASSUME NEW n \in Nat, NEW p \in Int
    PROVE  AskFor(n, 1) = n /\ AlignUp(p, 1) = p
<1>1. p % 1 = 0 /\ (1 - 0) % 1 = 0
  OBVIOUS
<1> QED BY <1>1 DEF AskFor, AlignUp

(* alloc keeps the invariant. *)
LEMMA AllocSafe ==
    ASSUME Safe, Restricted, NEW size \in Requests, NEW align \in Aligns, Alloc(size, align)
    PROVE  Safe'
<1> DEFINE b == FindFree(heap, size)
<1>1. align = 1 /\ size \in Nat \ {0} /\ AskFor(size, align) = size
  <2>1. align = 1 /\ size \in Nat \ {0}
    BY TlsfAssumption DEF Restricted
  <2> QED BY <2>1 DEF AskFor
<1>2. /\ b # Null /\ crashed = "no" /\ crashed' = crashed
      /\ heap' = Overwrite(Carve(heap, b, size), b)
      /\ live' = Append(live, [ptr |-> AlignUp(b + 1, align), block |-> b, size |-> size])
  BY <1>1 DEF Alloc
<1>3. PICK B : Sound(heap, B, {}) /\ Held(heap, B, live)
  BY DEF Safe
<1>4. b \in Frees(heap, B) /\ size <= heap.mem[b].size
  BY <1>1, <1>2, <1>3, FindFreeProps
<1> HIDE DEF b
<1>5. b \in Int
  <2>1. b \in B /\ B \in SUBSET Addrs
    BY <1>3, <1>4 DEF Frees, Sound, Tiles
  <2> QED BY <2>1, Layout
<1>6. AlignUp(b + 1, align) = b + 1
  <2>1. b + 1 \in Int /\ 0 \in Nat
    BY <1>5
  <2> QED BY <1>1, <2>1, Unaligned
<1>7. PICK C : Cut(heap', heap, B, C, b, size)
  BY <1>1, <1>2, <1>3, <1>4, CarveSound
<1>8. live' = Append(live, [ptr |-> b + 1, block |-> b, size |-> size])
  BY <1>2, <1>6
<1>9. Held(heap', C, live')
  <2> DEFINE k == Append(live, [ptr |-> b + 1, block |-> b, size |-> size])
  <2>1. Held(heap', C, k)
    BY <1>1, <1>3, <1>4, <1>7, HeldAlloc
  <2> QED BY <1>8, <2>1
<1>10. Sound(heap', C, {})
  BY <1>7 DEF Cut
<1> QED BY <1>2, <1>9, <1>10 DEF Safe

(* A panic of alloc is over a size: no listed header has the size zero. *)
LEMMA CrashSafe ==
    ASSUME Safe, Restricted, NEW size \in Requests, NEW align \in Aligns,
           AllocCrash(size, align)
    PROVE  Safe'
<1>1. align = 1 /\ size \in Nat \ {0} /\ AskFor(size, align) = size
  <2>1. align = 1 /\ size \in Nat \ {0}
    BY TlsfAssumption DEF Restricted
  <2> QED BY <2>1 DEF AskFor
<1>2. PICK B : Sound(heap, B, {}) /\ Held(heap, B, live)
  BY DEF Safe
<1>3. ~BadHeader(heap, size)
  BY <1>1, <1>2, FindFreeProps DEF BadHeader
<1>4. crashed' = "size" /\ heap' = heap /\ live' = live
  BY <1>1, <1>3 DEF AllocCrash
<1> QED BY <1>2, <1>4 DEF Safe

(* dealloc keeps the invariant, and meets no size of zero. *)
LEMMA DeallocSafe ==
    ASSUME Safe, Restricted, NEW i \in 1..Len(live), Dealloc(i)
    PROVE  Safe'
<1> DEFINE b == live[i].block
<1>1. PICK B : Sound(heap, B, {}) /\ Held(heap, B, live)
  BY DEF Safe
<1>2. b \in B \ {Sentinel} /\ ~heap.mem[b].free /\ live[i].ptr = b + 1
  BY <1>1 DEF Held
<1>3. HeapType(heap) /\ Tiles(heap, B)
  BY <1>1 DEF Sound
<1> HIDE DEF b
<1>4. b \in Nat /\ heap.mem[b].size \in Sizes
  BY <1>2, <1>3, TileBounds
<1>5. live[i].ptr - 1 = b
  BY <1>2, <1>4
<1>6. ~Unmappable(heap, b)
  <2>1. heap.mem[b].size # 0
    BY <1>4, Layout DEF Sizes
  <2>2. ASSUME heap.mem[b].prev_free PROVE heap.mem[heap.mem[b].prev_phys].size # 0
    <3> DEFINE p == heap.mem[b].prev_phys
    <3>1. p \in B \ {Sentinel}
      BY <1>1, <1>2, <2>2, MergePrevSound
    <3> HIDE DEF p
    <3>2. heap.mem[p].size \in Sizes
      BY <1>3, <3>1, TileBounds
    <3>3. heap.mem[p].size # 0
      BY <3>2, Layout DEF Sizes
    <3> QED BY <3>3 DEF p
  <2> QED BY <2>1, <2>2 DEF Unmappable
<1>7. /\ KeepsNeighbour(heap, b) /\ crashed' = "no" /\ heap' = Release(heap, b)
      /\ live' = RemoveAt(live, i)
  BY <1>5, <1>6 DEF Dealloc, Restricted
<1>8. PICK C \in SUBSET B : Sound(heap', C, {}) /\ Keeps(heap', heap, B, C, b)
  BY <1>1, <1>2, <1>7, ReleaseSound
<1>9. Held(heap', C, RemoveAt(live, i))
  BY <1>1, <1>8, HeldDealloc DEF b
<1> QED BY <1>7, <1>8, <1>9 DEF Safe

(* Steps that leave heap and callers alone. *)
LEMMA StutterSafe ==
    ASSUME Safe, UNCHANGED vars
    PROVE  Safe'
BY DEF Safe, vars

(* The invariant is inductive. *)
THEOREM TlsfInvariant == Restricted /\ Spec => []Safe
<1>1. Init => Safe
  BY InitSafe
<1>2. ASSUME Restricted, Safe, [Next]_vars PROVE Safe'
  <2>1. ASSUME NEW size \in Requests, NEW align \in Aligns, Alloc(size, align) PROVE Safe'
    BY <1>2, <2>1, AllocSafe
  <2>2. ASSUME NEW size \in Requests, NEW align \in Aligns, AllocNull(size, align)
        PROVE  Safe'
    <3>1. UNCHANGED vars
      BY <2>2 DEF AllocNull
    <3> QED BY <1>2, <3>1, StutterSafe
  <2>3. ASSUME NEW size \in Requests, NEW align \in Aligns, AllocCrash(size, align)
        PROVE  Safe'
    BY <1>2, <2>3, CrashSafe
  <2>4. ASSUME NEW i \in 1..Len(live), Dealloc(i) PROVE Safe'
    BY <1>2, <2>4, DeallocSafe
  <2>5. CASE Halted \/ UNCHANGED vars
    <3>1. UNCHANGED vars
      BY <2>5 DEF Halted
    <3> QED BY <1>2, <3>1, StutterSafe
  <2> QED BY <1>2, <2>1, <2>2, <2>3, <2>4, <2>5, Zenon DEF Next
<1>3. Restricted => [](Restricted)
  OBVIOUS
<1> QED BY <1>1, <1>2, <1>3, PTL DEF Spec

-----------------------------------------------------------------------------
(* What the invariant says *)

(* The same, of the blocks that a walk of the pool meets. *)
Walked == Sound(heap, Walk, {}) /\ Held(heap, Walk, live)

(* A walk meets exactly the blocks of the invariant. *)
LEMMA SafeWalked == Safe => Walked
<1> SUFFICES ASSUME Safe PROVE Walked
  OBVIOUS
<1>1. PICK B : Sound(heap, B, {}) /\ Held(heap, B, live)
  BY DEF Safe
<1>2. Walk = B
  BY <1>1, WalkIs DEF Sound
<1> QED BY <1>1, <1>2 DEF Walked

(* Walking the pool meets every block that a caller holds, never walks past  *)
(* the sentinel, and every block knows which block lies before it and        *)
(* whether that one is free.                                                 *)
THEOREM TlsfTiled == Restricted /\ Spec => []PoolTiled
<1>1. ASSUME Walked PROVE PoolTiled
  <2>1. HeapType(heap) /\ Tiles(heap, Walk) /\ Flags(heap, Walk, {})
    BY <1>1 DEF Walked, Sound
  <2>2. Walk \subseteq Addrs /\ Sentinel \in Walk
    BY <2>1 DEF Tiles
  <2>3. \A i \in DOMAIN live : live[i].block \in Walk /\ ~heap.mem[live[i].block].free
    <3>1. DOMAIN live = 1..Len(live)
      BY <1>1 DEF Walked, Held
    <3> QED BY <1>1, <3>1 DEF Walked, Held
  <2>4. ASSUME NEW b \in Walk \ {Sentinel}, NextPhys(heap, b) # Sentinel
        PROVE  /\ heap.mem[NextPhys(heap, b)].prev_free <=> heap.mem[b].free
               /\ heap.mem[b].free => heap.mem[NextPhys(heap, b)].prev_phys = b
    <3> HIDE DEF Walk
    <3> QED BY <2>1, <2>4 DEF Flags
  <2> QED BY <2>2, <2>3, <2>4 DEF PoolTiled
<1> QED BY <1>1, SafeWalked, TlsfInvariant, PTL

(* Each free block of the pool is on the list of its size class, nothing     *)
(* else is on a list, the bitmaps name exactly the lists that are not empty, *)
(* and two free blocks never lie side by side.                               *)
THEOREM TlsfLists == Restricted /\ Spec => []ListsMatchPool
<1>1. ASSUME Walked PROVE ListsMatchPool
  <2>1. /\ HeapType(heap) /\ Tiles(heap, Walk) /\ Coalesced(heap, Walk)
        /\ Linked(heap, Frees(heap, Walk))
    BY <1>1 DEF Walked, Sound
  <2>2. FreeInPool = Frees(heap, Walk)
    BY DEF FreeInPool, Frees
  <2>3. FreeInPool \in SUBSET Addrs
    BY <2>1, <2>2 DEF Tiles, Frees
  <2>4. Linked(heap, FreeInPool) /\ BitsMatch(heap)
    BY <2>1, <2>2 DEF Linked
  <2>5. ASSUME NEW c \in Classes
        PROVE  OnList(c) = {b \in FreeInPool : Mapping(heap.mem[b].size) = c}
    BY <2>1, <2>3, <2>4, OnListIs
  <2>6. \A b \in FreeInPool : NextPhys(heap, b) \notin FreeInPool
    BY <2>1, <2>2 DEF Coalesced
  <2> QED BY <2>4, <2>5, <2>6 DEF ListsMatchPool, BitsMatch
<1> QED BY <1>1, SafeWalked, TlsfInvariant, PTL

(* alloc and dealloc panic over the size of a request only. *)
THEOREM TlsfPanics == Restricted /\ Spec => []PanicsOnlyOverSize
<1>1. Safe => PanicsOnlyOverSize
  BY DEF Safe, PanicsOnlyOverSize
<1> QED BY <1>1, TlsfInvariant, PTL

(* Two callers never hold the same memory, and no caller holds the sentinel: *)
(* with frees in this order, what the test                                   *)
(* tlsf_alloc_multiple_non_overlapping_regions says holds.                   *)
THEOREM TlsfCallersDisjoint == Restricted /\ Spec => []CallersDisjoint
<1>1. ASSUME Walked PROVE CallersDisjoint
  <2>1. DOMAIN live = 1..Len(live)
    BY <1>1 DEF Walked, Held
  <2>2. Sentinel \in Walk
    BY <1>1 DEF Walked, Sound, Tiles
  <2>3. /\ \A i \in 1..Len(live) : \A u \in Payload(live[i]) : u \notin Walk
        /\ \A i, j \in 1..Len(live) : i # j => Payload(live[i]) \cap Payload(live[j]) = {}
    BY <1>1, HeldApart DEF Walked
  <2> QED BY <2>1, <2>2, <2>3 DEF CallersDisjoint
<1> QED BY <1>1, SafeWalked, TlsfInvariant, PTL

(* What callers of the pool hold. *)
Lent(l) == {[ptr |-> l[i].ptr, size |-> l[i].size] : i \in DOMAIN l}

(* A unit that somebody holds is in the payload of a caller. *)
LEMMA LentUnits ==
    ASSUME NEW l, NEW u
    PROVE  u \in Pool!Owned(Lent(l)) <=> \E i \in DOMAIN l : u \in Payload(l[i])
<1> DEFINE rec(i) == [ptr |-> l[i].ptr, size |-> l[i].size]
<1>1. \A i : Pool!Extent(rec(i)) = Payload(l[i])
  BY DEF Pool!Extent, Payload
<1>2. Lent(l) = {rec(i) : i \in DOMAIN l}
  BY DEF Lent
<1> HIDE DEF rec
<1>3. u \in Pool!Owned(Lent(l)) <=> \E i \in DOMAIN l : u \in Pool!Extent(rec(i))
  <2> HIDE DEF Pool!Extent
  <2>1. u \in Pool!Owned(Lent(l)) <=> \E x \in Lent(l) : u \in Pool!Extent(x)
    BY DEF Pool!Owned
  <2> QED BY <1>2, <2>1
<1> QED BY <1>1, <1>3

(* One more caller. *)
LEMMA LentAppend ==
    ASSUME NEW l, l \in Seq(Loan), NEW e \in Loan
    PROVE  Lent(Append(l, e)) = Lent(l) \cup {[ptr |-> e.ptr, size |-> e.size]}
<1> DEFINE k == Append(l, e)
           rec(x) == [ptr |-> x.ptr, size |-> x.size]
<1>1. /\ DOMAIN l = 1..Len(l) /\ DOMAIN k = 1..(Len(l) + 1) /\ Len(l) \in Nat
      /\ k[Len(l) + 1] = e /\ \A i \in 1..Len(l) : k[i] = l[i]
  OBVIOUS
<1>2. Lent(k) = {rec(k[i]) : i \in DOMAIN k} /\ Lent(l) = {rec(l[i]) : i \in DOMAIN l}
  BY DEF Lent
<1> HIDE DEF k, rec
<1>3. \A x \in Lent(k) : x \in Lent(l) \cup {rec(e)}
  BY <1>1, <1>2
<1>4. \A x \in Lent(l) \cup {rec(e)} : x \in Lent(k)
  BY <1>1, <1>2
<1>5. Lent(k) = Lent(l) \cup {rec(e)}
  BY <1>3, <1>4
<1> QED BY <1>5 DEF k, rec

(* One caller less. *)
LEMMA LentRemove ==
    ASSUME NEW h, NEW B, NEW l, Sound(h, B, {}), Held(h, B, l), NEW i \in 1..Len(l)
    PROVE  Lent(RemoveAt(l, i)) = Lent(l) \ {[ptr |-> l[i].ptr, size |-> l[i].size]}
<1> DEFINE k == RemoveAt(l, i)
           rec(x) == [ptr |-> x.ptr, size |-> x.size]
           o(j) == IF j < i THEN j ELSE j + 1
<1>1. l \in Seq(Loan) /\ Len(l) \in Nat
  BY DEF Held
<1>2. /\ k \in Seq(Loan) /\ Len(k) = Len(l) - 1
      /\ \A j \in 1..Len(k) : k[j] = l[o(j)]
  BY <1>1, RemoveAtProps
<1>3. /\ \A j \in 1..Len(k) : o(j) \in 1..Len(l) /\ o(j) # i
      /\ \A j \in 1..Len(l) : j # i => \E m \in 1..Len(k) : o(m) = j
  <2> HIDE DEF k
  <2>1. \A j \in 1..Len(k) : o(j) \in 1..Len(l) /\ o(j) # i
    BY <1>1, <1>2
  <2>2. ASSUME NEW j \in 1..Len(l), j # i PROVE \E m \in 1..Len(k) : o(m) = j
    <3>1. CASE j < i
      <4>1. j \in 1..Len(k) /\ o(j) = j
        BY <1>1, <1>2, <3>1
      <4> QED BY <4>1
    <3>2. CASE ~(j < i)
      <4>1. j - 1 \in 1..Len(k) /\ o(j - 1) = j
        BY <1>1, <1>2, <2>2, <3>2
      <4> QED BY <4>1
    <3> QED BY <3>1, <3>2
  <2> QED BY <2>1, <2>2
<1>4. DOMAIN l = 1..Len(l) /\ DOMAIN k = 1..Len(k)
  BY <1>1, <1>2
<1>5. Lent(k) = {rec(k[j]) : j \in DOMAIN k} /\ Lent(l) = {rec(l[j]) : j \in DOMAIN l}
  BY DEF Lent
<1>6. ASSUME NEW j \in 1..Len(l), j # i PROVE rec(l[j]) # rec(l[i])
  <2>1. /\ l[j].ptr = l[j].block + 1 /\ l[i].ptr = l[i].block + 1
        /\ l[i].block # l[j].block /\ l[i].block \in B /\ l[j].block \in B
    BY <1>6 DEF Held
  <2>2. B \in SUBSET Int
    BY Layout DEF Sound, Tiles
  <2>3. l[i].block \in Int /\ l[j].block \in Int
    BY <2>1, <2>2
  <2>4. l[i].block + 1 # l[j].block + 1
    BY <2>1, <2>3
  <2>5. l[i].ptr # l[j].ptr
    BY <2>1, <2>4
  <2>6. rec(l[j]).ptr = l[j].ptr /\ rec(l[i]).ptr = l[i].ptr
    OBVIOUS
  <2> HIDE DEF rec
  <2> QED BY <2>5, <2>6
<1> HIDE DEF k, rec, o
<1>7. \A x \in Lent(k) : x \in Lent(l) \ {rec(l[i])}
  BY <1>2, <1>3, <1>4, <1>5, <1>6
<1>8. \A x \in Lent(l) \ {rec(l[i])} : x \in Lent(k)
  BY <1>2, <1>3, <1>4, <1>5
<1>9. Lent(k) = Lent(l) \ {rec(l[i])}
  BY <1>7, <1>8
<1> QED BY <1>9 DEF k, rec

(* Callers of the heap see a memory pool: what alloc hands out overlaps      *)
(* nothing that a caller holds, and no header is written into it until it is *)
(* given back.                                                               *)
THEOREM TlsfIsPool == Restricted /\ Spec => TlsfImplementsPool
<1>1. Init => Pool!Init
  BY DEF Init, Pool!Init
<1>2. ASSUME Restricted, Walked, Walked', [Next]_vars
      PROVE  Pool!Next
  <2>1. /\ Sound(heap, Walk, {}) /\ Held(heap, Walk, live)
        /\ Sound(heap', Walk', {}) /\ Held(heap', Walk', live')
    BY <1>2 DEF Walked
  <2>2. DOMAIN live = 1..Len(live) /\ DOMAIN live' = 1..Len(live')
    BY <2>1 DEF Held
  <2>3. Pool!Owned(Lent(live')) \cap Walk' = {}
    <3>1. \A i \in DOMAIN live' : \A u \in Payload(live'[i]) : u \notin Walk'
      BY <2>1, <2>2, HeldApart
    <3> QED BY <3>1, LentUnits
  <2>4. Pool!Next <=> /\ \/ \E x \in Lent(live') \ Lent(live) : Pool!Alloc(x)
                         \/ \E x \in Lent(live) \ Lent(live') : Pool!Free(x)
                         \/ Lent(live') = Lent(live)
                      /\ Pool!Owned(Lent(live')) \cap Walk' = {}
    BY DEF Pool!Next, Lent
  <2>5. ASSUME NEW size \in Requests, NEW align \in Aligns, Alloc(size, align)
        PROVE  Pool!Next
    <3>1. PICK e : live' = Append(live, e) /\ e.block = FindFree(heap, size)
                   /\ FindFree(heap, size) # Null
      <4>1. AskFor(size, align) = size
        BY <1>2 DEF Restricted, AskFor
      <4> QED BY <2>5, <4>1 DEF Alloc
    <3> DEFINE n == Len(live) + 1
               x == [ptr |-> e.ptr, size |-> e.size]
    <3>2. live \in Seq(Loan) /\ live' \in Seq(Loan)
      BY <2>1 DEF Held
    <3>3. /\ Len(live) \in Nat /\ n \in 1..Len(live') /\ live'[n] = e
          /\ \A i \in 1..Len(live) : live'[i] = live[i] /\ i \in 1..Len(live') /\ i # n
      BY <3>1, <3>2
    <3>4. e \in Loan
      BY <3>2, <3>3
    <3>5. Lent(live') = Lent(live) \cup {x}
      BY <3>1, <3>2, <3>4, LentAppend
    <3>6. Payload(e) = Pool!Extent(x)
      BY DEF Payload, Pool!Extent
    <3>7. Pool!Extent(x) \cap Pool!Owned(Lent(live)) = {}
      <4>1. ASSUME NEW i \in DOMAIN live PROVE Payload(e) \cap Payload(live[i]) = {}
        <5>1. Payload(live'[n]) \cap Payload(live'[i]) = {}
          BY <2>1, <2>2, <3>3, HeldApart
        <5> QED BY <2>2, <3>3, <5>1
      <4> QED BY <3>6, <4>1, LentUnits
    <3>8. x \notin Lent(live)
      <4>1. 1 <= e.size /\ e.ptr \in Int /\ e.size \in Nat
        BY <2>1, <3>3, <3>4 DEF Held, Loan
      <4>2. e.ptr \in Payload(e)
        BY <4>1 DEF Payload
      <4>3. x \in Lent(live) => e.ptr \in Pool!Owned(Lent(live))
        <5> HIDE DEF x
        <5> QED BY <3>6, <4>2 DEF Pool!Owned
      <4> QED BY <3>6, <3>7, <4>2, <4>3
    <3> HIDE DEF x
    <3>9. Pool!Alloc(x)
      BY <3>5, <3>7 DEF Pool!Alloc, Lent
    <3>10. x \in Lent(live') \ Lent(live)
      BY <3>5, <3>8
    <3> QED BY <2>3, <2>4, <3>9, <3>10
  <2>6. ASSUME NEW j \in 1..Len(live), Dealloc(j) PROVE Pool!Next
    <3>1. PICK x : x = [ptr |-> live[j].ptr, size |-> live[j].size]
      OBVIOUS
    <3>2. Lent(live') = Lent(live) \ {x}
      <4>1. live' = RemoveAt(live, j)
        BY <2>6 DEF Dealloc
      <4>2. Lent(RemoveAt(live, j)) = Lent(live) \ {x}
        BY <2>1, <3>1, LentRemove
      <4> QED BY <4>1, <4>2
    <3>3. x \in Lent(live)
      BY <2>2, <3>1 DEF Lent
    <3>4. Pool!Free(x)
      BY <3>2, <3>3 DEF Pool!Free, Lent
    <3>5. x \in Lent(live) \ Lent(live')
      BY <3>2, <3>3
    <3> QED BY <2>3, <2>4, <3>4, <3>5
  <2>7. ASSUME NEW size \in Requests, NEW align \in Aligns,
               AllocNull(size, align) \/ AllocCrash(size, align)
        PROVE  Pool!Next
    <3>1. live' = live
      BY <2>7 DEF AllocNull, AllocCrash, vars
    <3> QED BY <2>3, <2>4, <3>1
  <2>8. CASE Halted \/ UNCHANGED vars
    <3>1. live' = live
      BY <2>8 DEF Halted, vars
    <3> QED BY <2>3, <2>4, <3>1
  <2> QED BY <1>2, <2>5, <2>6, <2>7, <2>8, Zenon DEF Next
<1>3. Restricted /\ Walked /\ Walked' /\ [Next]_vars
      => [Pool!Next]_<<{[ptr |-> live[i].ptr, size |-> live[i].size] : i \in DOMAIN live}, Walk>>
  BY <1>2
<1>4. Restricted => [](Restricted)
  OBVIOUS
<1> QED BY <1>1, <1>3, <1>4, SafeWalked, TlsfInvariant, PTL
        DEF Spec, TlsfImplementsPool, Pool!Spec

=============================================================================

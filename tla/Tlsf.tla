-------------------------------- MODULE Tlsf --------------------------------
(***************************************************************************)
(* The TLSF heap of abalone/src/tlsf.rs, the kernel's global allocator, at *)
(* the level of its block headers.  Memory is counted in units of one      *)
(* header (32 bytes, also BLOCK_MIN); every word of the pool can hold a    *)
(* header, and what was there stays until something overwrites it.         *)
(*                                                                         *)
(* Every operation runs under the allocator's mutex and is one action.     *)
(***************************************************************************)
EXTENDS Integers, FiniteSets, SequencesExt, TlsfMapping

CONSTANTS
    PoolSize,   \* units in the pool, first header and sentinel included
    FLCount,    \* FL_INDEX_COUNT
    Requests,   \* the sizes asked for, in units
    Aligns,     \* the alignments asked for: 1 (at most 8 bytes) or 2 (64)
    AnyOrder,   \* FALSE: no free coalesces in front of a block in use
    MaxLive     \* bound: how many blocks callers hold

ASSUME TlsfAssumption ==
    /\ PoolSize \in Nat /\ PoolSize > 3
    /\ Requests \subseteq Nat \ {0} /\ Aligns \subseteq {1, 2}
    /\ AnyOrder \in BOOLEAN /\ {FLCount, MaxLive} \subseteq Nat

(* add_pool files the pool's only block, and panics if no list is for its size. *)
ASSUME PoolAssumption == PoolSize - 2 < Pow2[FLCount]

VARIABLES
    heap,       \* mem, heads, fl_bitmap, sl_bitmap
    live,       \* callers: the pointers they hold, oldest first
    crashed     \* "no"; a panic over the "size" of a request, or over a "header"

vars == <<heap, live, crashed>>

Null    == -1
Addrs   == 0..(PoolSize - 1)
Sentinel == PoolSize - 1
Classes == (0..(FLCount - 1)) \X (0..(Pow2[SLI] - 1))

(* A header that nobody wrote, and memory that its owner zeroed. *)
Zero == [size |-> 0, free |-> FALSE, prev_free |-> FALSE, prev_phys |-> Null,
         next |-> Null, prev |-> Null]

NextPhys(h, b) == b + 1 + h.mem[b].size

SetSize(h, b, n)     == [h EXCEPT !.mem[b].size = n]
SetPrevFree(h, b, f) == [h EXCEPT !.mem[b].prev_free = f]
SetPrevPhys(h, b, p) == [h EXCEPT !.mem[b].prev_phys = p]

-----------------------------------------------------------------------------
InsertFree(h, b) ==
    LET c == Mapping(h.mem[b].size)
        old == h.heads[c]
        linked == [h.mem EXCEPT ![b].next = old, ![b].prev = Null, ![b].free = TRUE]
    IN  [mem |-> IF old = Null THEN linked ELSE [linked EXCEPT ![old].prev = b],
         heads |-> [h.heads EXCEPT ![c] = b],
         fl_bitmap |-> h.fl_bitmap \cup {c[1]},
         sl_bitmap |-> h.sl_bitmap \cup {c}]

(* Mutant of RemoveFree: the head of the list stays. *)
RemoveFreeKeepsHead(h, b) == [h EXCEPT !.mem[b].free = FALSE]

(* Mutant of RemoveFree: the bit of a list that became empty stays set. *)
RemoveFreeKeepsBits(h, b) ==
    LET c == Mapping(h.mem[b].size)
        p == h.mem[b].prev
        n == h.mem[b].next
        m1 == IF p = Null THEN h.mem ELSE [h.mem EXCEPT ![p].next = n]
        m2 == IF n = Null THEN m1 ELSE [m1 EXCEPT ![n].prev = p]
    IN  [h EXCEPT !.mem = [m2 EXCEPT ![b].free = FALSE],
                  !.heads = IF p = Null THEN [@ EXCEPT ![c] = n] ELSE @]

RemoveFree(h, b) ==
    LET c == Mapping(h.mem[b].size)
        p == h.mem[b].prev
        n == h.mem[b].next
        m1 == IF p = Null THEN h.mem ELSE [h.mem EXCEPT ![p].next = n]
        m2 == IF n = Null THEN m1 ELSE [m1 EXCEPT ![n].prev = p]
        heads == IF p = Null THEN [h.heads EXCEPT ![c] = n] ELSE h.heads
        sl == IF heads[c] = Null THEN h.sl_bitmap \ {c} ELSE h.sl_bitmap
        fl == IF heads[c] = Null /\ \A d \in sl : d[1] # c[1]
              THEN h.fl_bitmap \ {c[1]} ELSE h.fl_bitmap
    IN  [mem |-> [m2 EXCEPT ![b].free = FALSE], heads |-> heads,
         fl_bitmap |-> fl, sl_bitmap |-> sl]

(* The first class at or after the one searched whose bit is set; the        *)
(* second-level map of this power of two first, then the next power of two   *)
(* that the first-level map names.                                           *)
Candidates(h, c) ==
    LET here == {d \in h.sl_bitmap : d[1] = c[1] /\ d[2] >= c[2]}
        fls  == {f \in h.fl_bitmap : f > c[1]}
        fl   == CHOOSE f \in fls : \A g \in fls : f <= g
    IN  IF here # {} THEN here
        ELSE IF fls = {} THEN {} ELSE {d \in h.sl_bitmap : d[1] = fl}

FindFree(h, size) ==
    LET cs == Candidates(h, MappingSearch(size))
    IN  IF cs = {} THEN Null ELSE h.heads[CHOOSE c \in cs : \A d \in cs : c[2] <= d[2]]

-----------------------------------------------------------------------------
(* alloc takes the block off its list and gives back what it does not need,  *)
(* if that is room for a header and the smallest block.                      *)
Carve(h, b, size) ==
    LET taken == RemoveFree(h, b)
        rest  == taken.mem[b].size - size
        n     == b + 1 + size
        h1    == SetPrevFree(SetPrevPhys(SetSize(SetSize(taken, b, size),
                                                 n, rest - 1), n, b), n, FALSE)
        h2    == InsertFree(h1, n)
        h3    == SetPrevPhys(h2, NextPhys(h2, n), n)
        cut   == IF rest >= 2 THEN h3 ELSE taken
    IN  SetPrevFree(cut, NextPhys(cut, b), FALSE)

(* The caller overwrites the memory it was given. *)
Overwrite(h, b) ==
    [h EXCEPT !.mem = [a \in Addrs |-> IF b < a /\ a < NextPhys(h, b) THEN Zero
                                                                      ELSE @[a]]]

(* dealloc merges with the block before, if the flag says that it is free,   *)
(* and with the block after.                                                 *)
MergePrev(h, b) ==
    LET p == h.mem[b].prev_phys
        h1 == RemoveFree(h, p)
    IN  SetSize(h1, p, h1.mem[p].size + 1 + h1.mem[b].size)

MergeNext(h, b) ==
    LET n == NextPhys(h, b)
        h1 == RemoveFree(h, n)
    IN  SetSize(h1, b, h1.mem[b].size + 1 + h1.mem[n].size)

(* Mutant of Release: the block after is not told that this one is free. *)
ReleaseTellsNobody(h, b) ==
    LET back == h.mem[b].prev_free
        m    == IF back THEN h.mem[b].prev_phys ELSE b
        h1   == IF back THEN MergePrev(h, b) ELSE h
        h2   == IF h1.mem[NextPhys(h1, m)].free THEN MergeNext(h1, m) ELSE h1
    IN  InsertFree(h2, m)

Release(h, b) ==
    LET back == h.mem[b].prev_free
        m    == IF back THEN h.mem[b].prev_phys ELSE b
        h1   == IF back THEN MergePrev(h, b) ELSE h
        h2   == IF h1.mem[NextPhys(h1, m)].free THEN MergeNext(h1, m) ELSE h1
        h3   == InsertFree(h2, m)
    IN  SetPrevFree(h3, NextPhys(h3, m), TRUE)

(* add_pool: one free block, and a sentinel that is never free. *)
AddPool ==
    LET mem == [a \in Addrs |->
                  CASE a = 0        -> [Zero EXCEPT !.size = PoolSize - 2]
                    [] a = Sentinel -> [Zero EXCEPT !.prev_phys = 0]
                    [] OTHER        -> Zero]
    IN  InsertFree([mem |-> mem, heads |-> [c \in Classes |-> Null],
                    fl_bitmap |-> {}, sl_bitmap |-> {}], 0)

-----------------------------------------------------------------------------
Init == heap = AddPool /\ live = <<>> /\ crashed = "no"

(* Mutant of AskFor: sizes are rounded down. *)
AskForRoundsDown(size, align) == IF size = 1 THEN 1 ELSE size - 1

(* GlobalAlloc::alloc: an alignment above 8 bytes is met by asking for more  *)
(* and moving the pointer up.                                                *)
AskFor(size, align) == IF align = 1 THEN size ELSE size + align

AlignUp(p, align) == p + ((align - (p % align)) % align)

(* The panics of alloc: sl_bitmap[fl] is indexed before it is known that     *)
(* fl < FL_INDEX_COUNT, and remove_free cannot map a size of zero, which a   *)
(* listed header has only if someone overwrote it.                           *)
TooLarge(n) == MappingSearch(n)[1] >= FLCount

BadHeader(h, n) == LET b == FindFree(h, n) IN b # Null /\ h.mem[b].size = 0

Alloc(size, align) ==
    LET n == AskFor(size, align)
        b == FindFree(heap, n)
    IN  /\ crashed = "no" /\ Len(live) < MaxLive
        /\ ~TooLarge(n) /\ b # Null /\ ~BadHeader(heap, n)
        /\ LET cut == Carve(heap, b, n)
           IN  /\ heap' = Overwrite(cut, b)
               /\ live' = Append(live, [ptr |-> AlignUp(b + 1, align), block |-> b,
                                        size |-> size])
        /\ UNCHANGED crashed

(* None: a null pointer, and nothing changes. *)
AllocNull(size, align) ==
    LET n == AskFor(size, align)
    IN  /\ crashed = "no"
        /\ ~TooLarge(n) /\ FindFree(heap, n) = Null
        /\ UNCHANGED vars

AllocCrash(size, align) ==
    LET n == AskFor(size, align)
    IN  /\ crashed = "no"
        /\ TooLarge(n) \/ BadHeader(heap, n)
        /\ crashed' = IF TooLarge(n) THEN "size" ELSE "header"
        /\ UNCHANGED <<heap, live>>

(* mapping of a size of zero underflows: dealloc meets one when the header   *)
(* it is led to, or the one before it, has been overwritten.                 *)
Unmappable(h, b) ==
    IF h.mem[b].prev_free THEN h.mem[h.mem[b].prev_phys].size = 0
    ELSE h.mem[b].size = 0 /\ ~h.mem[NextPhys(h, b)].free

(* Freeing b coalesces with nothing, or the coalesced block ends the pool:   *)
(* dealloc leaves the prev_phys of the block after a coalesced one as it was.*)
KeepsNeighbour(h, b) ==
    LET n == NextPhys(h, b)
        after == IF h.mem[n].free THEN NextPhys(h, n) ELSE n
    IN  after = Sentinel \/ ~(h.mem[b].prev_free \/ h.mem[n].free)

(* GlobalAlloc::dealloc: the header is the one just below the pointer. *)
Dealloc(i) ==
    LET b == live[i].ptr - 1
    IN  /\ crashed = "no"
        /\ AnyOrder \/ KeepsNeighbour(heap, b)
        /\ crashed' = IF Unmappable(heap, b) THEN "header" ELSE "no"
        /\ heap' = IF Unmappable(heap, b) THEN heap ELSE Release(heap, b)
        /\ live' = RemoveAt(live, i)

Halted == crashed # "no" /\ UNCHANGED vars

Next ==
    \/ \E size \in Requests, align \in Aligns :
          Alloc(size, align) \/ AllocNull(size, align) \/ AllocCrash(size, align)
    \/ \E i \in 1..Len(live) : Dealloc(i)
    \/ Halted

Spec == Init /\ [][Next]_vars

-----------------------------------------------------------------------------
(* The units a caller may use. *)
Payload(l) == l.ptr..(l.ptr + l.size - 1)

(* The blocks one meets walking the pool from its first header. *)
Walk ==
    LET Reach[n \in 0..PoolSize] ==
            IF n = 0 THEN {0}
            ELSE UNION {IF b = Sentinel THEN {b} ELSE {b, NextPhys(heap, b)} : b \in Reach[n - 1]}
    IN  Reach[PoolSize]

FreeInPool == {b \in Walk \ {Sentinel} : heap.mem[b].free}

(* The blocks of a class, following the list from its head. *)
OnList(c) ==
    LET From[n \in 0..PoolSize] ==
            IF n = 0 THEN {heap.heads[c]} \ {Null}
            ELSE LET before == From[n - 1]
                 IN  before \cup ({heap.mem[b].next : b \in before} \ {Null})
    IN  From[PoolSize]

(* Two callers never hold the same memory, and no caller holds a header of   *)
(* the pool: the test tlsf_alloc_multiple_non_overlapping_regions.           *)
CallersDisjoint ==
    /\ \A i, j \in DOMAIN live : i # j => Payload(live[i]) \cap Payload(live[j]) = {}
    /\ \A i \in DOMAIN live : Sentinel \notin Payload(live[i])

(* Walking the pool meets every block that a caller holds, never walks past  *)
(* the sentinel, and every block knows which block lies before it and        *)
(* whether that one is free.                                                 *)
PoolTiled ==
    /\ Walk \subseteq Addrs /\ Sentinel \in Walk
    /\ \A i \in DOMAIN live : live[i].block \in Walk /\ ~heap.mem[live[i].block].free
    /\ \A b \in Walk \ {Sentinel} :
          LET n == NextPhys(heap, b)
          IN  n # Sentinel => /\ heap.mem[n].prev_free <=> heap.mem[b].free
                              /\ heap.mem[b].free => heap.mem[n].prev_phys = b

(* Each free block of the pool is on the list of its size class, nothing     *)
(* else is on a list, the bitmaps name exactly the lists that are not empty, *)
(* and two free blocks never lie side by side.                               *)
ListsMatchPool ==
    /\ \A c \in Classes :
          /\ OnList(c) = {b \in FreeInPool : Mapping(heap.mem[b].size) = c}
          /\ c \in heap.sl_bitmap <=> heap.heads[c] # Null
    /\ heap.fl_bitmap = {c[1] : c \in heap.sl_bitmap}
    /\ \A b \in FreeInPool : NextPhys(heap, b) \notin FreeInPool

(* alloc and dealloc panic over the size of a request only, one whose class  *)
(* is past the lists: as long as frees keep to that order, no header that a  *)
(* list, a flag or a caller's pointer leads to has been overwritten.         *)
PanicsOnlyOverSize == crashed # "header"

Pool == INSTANCE MemoryPool WITH
    blocks <- {[ptr |-> live[i].ptr, size |-> live[i].size] : i \in DOMAIN live},
    outside <- Walk

(* The heap is a memory pool whose own records are the headers one meets     *)
(* walking it: no alloc or dealloc puts a header into memory that a caller   *)
(* holds, or hands out memory that holds one.                                *)
TlsfImplementsPool == Pool!Spec

(* The pointer a caller gives back leads dealloc to the header of the block  *)
(* it was cut from, so that the pool accepts the memory again: the test      *)
(* tlsf_dealloc_and_realloc_succeeds.                                        *)
PointerLeadsToHeader == \A i \in DOMAIN live : live[i].ptr - 1 = live[i].block

=============================================================================

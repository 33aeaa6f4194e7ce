-------------------------------- MODULE Slab --------------------------------
(***************************************************************************)
(* SlabCache<T> of abalone/src/slab.rs on top of the page allocator.       *)
(*                                                                         *)
(* A slab is a block of 2^Order pages: a header of Stride units, then the  *)
(* slots of ObjSize units each.  Free slots are chained through their own  *)
(* memory, which the caller overwrites while it holds the slot; slabs with *)
(* a free slot are linked through their headers, from `partial`; dealloc   *)
(* finds the header by masking the object's address.  A header's links are *)
(* not cleared when it leaves the list.  Each call runs under the mutex    *)
(* and is one action.  Pages come from PageAllocator, the specification    *)
(* that Buddy implements, and other callers use it at the same time.       *)
(***************************************************************************)
EXTENDS Integers, SequencesExt

CONSTANTS
    Order,      \* slab_order
    Pow2,       \* Pow2[k] is 1 << k
    PageUnits,  \* PAGE_SIZE, in units
    Stride,     \* header_stride::<T>()
    ObjSize,    \* size_of::<T>()
    PageBases,  \* the page numbers that set_base may have been given
    NumPages,   \* pages of the buddy's only region
    MaxAllocs   \* bound: how many slots are ever handed out

ASSUME SlabAssumption ==
    /\ {Order, Stride, NumPages, MaxAllocs} \cup PageBases \subseteq Nat
    /\ {PageUnits, ObjSize} \subseteq Nat \ {0}
    /\ Pow2 \in [0..Order -> Nat \ {0}]
    /\ Pow2[0] = 1 /\ \A k \in 0..(Order - 1) : Pow2[k + 1] = 2 * Pow2[k]

VARIABLES
    base,       \* page number of the base of the buddy's index space
    free,       \* pages: nobody's
    held,       \* pages: the blocks handed out, to this cache or to others
    others,     \* the blocks that other callers hold
    slabs,      \* the headers and links, by first page of the slab
    partial,    \* the head of the list of slabs with a free slot
    live,       \* the addresses of the objects callers hold
    stats,
    result      \* "none" if the call before returned None, else "ok"

vars == <<base, free, held, others, slabs, partial, live, stats, result>>
pool == <<base, free, held, others>>

Region == [start |-> 0, size |-> NumPages]

Pager == INSTANCE PageAllocator WITH
    MaxOrder <- Order + 1, regions <- {Region}, refused <- -1

Block(p) == [page |-> p, order |-> Order]

-----------------------------------------------------------------------------
SlabUnits == PageUnits * Pow2[Order]

Capacity == IF Stride >= SlabUnits THEN 0 ELSE (SlabUnits - Stride) \div ObjSize

(* grow asserts it. *)
ASSUME RoomAssumption == Capacity > 0

SlabBase(p) == (base + p) * PageUnits

Slot(p, i) == SlabBase(p) + Stride + i * ObjSize

(* Mutant of SlabBaseOf: rounding to a page, not to the slab. *)
SlabBaseOfPage(a) == a - (a % PageUnits)

(* obj_ptr & !(slab_bytes - 1), and the slab and the slot found with it. *)
SlabBaseOf(a) == a - (a % SlabUnits)

SlabOf(a) == (SlabBaseOf(a) \div PageUnits) - base

SlotOf(a) == (a - SlabBaseOf(a) - Stride) \div ObjSize

Aligned(p) == SlabBaseOf(SlabBase(p)) = SlabBase(p)

End  == -1  \* usize::MAX
Data == -2  \* a word of an object, where a link was
Null == -1  \* no slab

Fresh == [free_head |-> 0, in_use |-> 0, prev |-> Null, next |-> Null,
          link |-> [i \in 0..(Capacity - 1) |-> IF i + 1 < Capacity THEN i + 1 ELSE End]]

IsFull(h) == h.in_use = Capacity

NoStats == [total |-> 0, used |-> 0, free |-> 0, allocs |-> 0, deallocs |-> 0,
            peak |-> 0]

Init ==
    /\ base \in PageBases
    /\ free = 0..(NumPages - 1) /\ held = {} /\ others = {}
    /\ slabs = [p \in {} |-> Fresh] /\ partial = Null
    /\ live = {} /\ stats = NoStats /\ result = "ok"

-----------------------------------------------------------------------------
(* Mutant of LinkPartial: the slab does not lead on to the old head. *)
LinkPartialAlone(c, p) ==
    LET s == [c.slabs EXCEPT ![p].next = Null, ![p].prev = Null]
    IN  [slabs   |-> IF c.partial = Null THEN s ELSE [s EXCEPT ![c.partial].prev = p],
         partial |-> p]

(* The list, as operators on c = [slabs, partial]. *)
LinkPartial(c, p) ==
    LET s == [c.slabs EXCEPT ![p].next = c.partial, ![p].prev = Null]
    IN  [slabs   |-> IF c.partial = Null THEN s ELSE [s EXCEPT ![c.partial].prev = p],
         partial |-> p]

(* Mutant of UnlinkPartial: the slab after is not told. *)
UnlinkPartialOneWay(c, p) ==
    LET prev == c.slabs[p].prev
        next == c.slabs[p].next
    IN  [slabs   |-> IF prev = Null THEN c.slabs ELSE [c.slabs EXCEPT ![prev].next = next],
         partial |-> IF prev = Null THEN next ELSE c.partial]

UnlinkPartial(c, p) ==
    LET prev == c.slabs[p].prev
        next == c.slabs[p].next
        s    == IF prev = Null THEN c.slabs ELSE [c.slabs EXCEPT ![prev].next = next]
    IN  [slabs   |-> IF next = Null THEN s ELSE [s EXCEPT ![next].prev = prev],
         partial |-> IF prev = Null THEN next ELSE c.partial]

Become(c) == slabs' = c.slabs /\ partial' = c.partial

(* The header after the slot at the head of its chain has been handed out. *)
TakeSlot(h) ==
    [h EXCEPT !.free_head = h.link[h.free_head], !.in_use = @ + 1, !.link[h.free_head] = Data]

(* The first partial slab gives its first free slot, and leaves the list if  *)
(* that was the last.                                                        *)
Taken(c) ==
    LET p == c.partial
        h == TakeSlot(c.slabs[p])
        d == [c EXCEPT !.slabs[p] = h]
    IN  IF IsFull(h) THEN UnlinkPartial(d, p) ELSE d

(* `grown` is 1 if the first partial slab has just been made. *)
Take(c, grown) ==
    LET used == stats.used + ObjSize
    IN  /\ Become(Taken(c))
        /\ live' = live \cup {Slot(c.partial, c.slabs[c.partial].free_head)}
        /\ stats' = [stats EXCEPT !.total = @ + grown * SlabUnits,
                                  !.free = @ + grown * Capacity * ObjSize,
                                  !.used = used, !.allocs = @ + 1,
                                  !.peak = IF used > @ THEN used ELSE @]
        /\ result' = "ok"

Cache == [slabs |-> slabs, partial |-> partial]

Alloc ==
    /\ partial # Null /\ stats.allocs < MaxAllocs
    /\ Take(Cache, 0)
    /\ UNCHANGED pool

(* The cache with a new slab at page p. *)
Grown(p) ==
    [Cache EXCEPT !.slabs = [q \in DOMAIN slabs \cup {p} |-> IF q = p THEN Fresh ELSE slabs[q]]]

(* grow succeeds. *)
AllocGrow(p) ==
    /\ partial = Null /\ stats.allocs < MaxAllocs
    /\ Pager!Alloc(Block(p))
    /\ Aligned(p)
    /\ Take(LinkPartial(Grown(p), p), 1)
    /\ UNCHANGED <<base, others>>

(* The page allocator has no block for grow. *)
AllocNone ==
    /\ partial = Null
    /\ ~Pager!Servable(Order)
    /\ result' = "none"
    /\ UNCHANGED <<pool, slabs, partial, live, stats>>

(* Mutant of AllocMisaligned: the block is not given back. *)
AllocMisalignedLeaks(p) ==
    /\ partial = Null
    /\ Pager!Alloc(Block(p))
    /\ ~Aligned(p)
    /\ result' = "none"
    /\ UNCHANGED <<base, others, slabs, partial, live, stats>>

(* grow is given a misaligned block: it gives it back and fails. *)
AllocMisaligned(p) ==
    /\ partial = Null
    /\ p % Pow2[Order] = 0 /\ Pager!Pages(Block(p)) \subseteq free
    /\ ~Aligned(p)
    /\ result' = "none"
    /\ UNCHANGED <<pool, slabs, partial, live, stats>>

-----------------------------------------------------------------------------
(* Mutant of PutBack: the slot is put at the head but does not lead on. *)
PutBackCutsChain(a) ==
    [slabs[SlabOf(a)] EXCEPT !.link[SlotOf(a)] = End, !.free_head = SlotOf(a),
                             !.in_use = @ - 1]

(* The header after the slot of a has been put back at the head of its chain. *)
PutBack(a) ==
    LET h == slabs[SlabOf(a)]
    IN  [h EXCEPT !.link[SlotOf(a)] = h.free_head, !.free_head = SlotOf(a),
                  !.in_use = @ - 1]

Forget(a) ==
    /\ live' = live \ {a}
    /\ result' = "ok"

CountFree(released) ==
    stats' = [stats EXCEPT !.total = @ - released * SlabUnits,
                           !.free = @ - released * Capacity * ObjSize + ObjSize,
                           !.used = @ - ObjSize, !.deallocs = @ + 1]

(* The slab was full: it has a free slot again. *)
DeallocFull(a) ==
    /\ IsFull(slabs[SlabOf(a)])
    /\ Become(LinkPartial([Cache EXCEPT !.slabs[SlabOf(a)] = PutBack(a)], SlabOf(a)))
    /\ Forget(a) /\ CountFree(0)
    /\ UNCHANGED pool

DeallocPartial(a) ==
    /\ ~IsFull(slabs[SlabOf(a)]) /\ PutBack(a).in_use > 0
    /\ slabs' = [slabs EXCEPT ![SlabOf(a)] = PutBack(a)]
    /\ Forget(a) /\ CountFree(0)
    /\ UNCHANGED <<pool, partial>>

(* The cache without slab p. *)
Dropped(p) ==
    LET c == UnlinkPartial(Cache, p)
    IN  [c EXCEPT !.slabs = [q \in DOMAIN slabs \ {p} |-> c.slabs[q]]]

(* Mutant of DeallocLast: a slab with one object left is released. *)
DeallocLastEarly(a) ==
    /\ ~IsFull(slabs[SlabOf(a)]) /\ PutBack(a).in_use <= 1
    /\ Become(Dropped(SlabOf(a)))
    /\ Pager!Free(Block(SlabOf(a)))
    /\ Forget(a) /\ CountFree(1)
    /\ UNCHANGED <<base, others>>

(* The slab is empty: off the list and back to the page allocator. *)
DeallocLast(a) ==
    /\ ~IsFull(slabs[SlabOf(a)]) /\ PutBack(a).in_use = 0
    /\ Become(Dropped(SlabOf(a)))
    /\ Pager!Free(Block(SlabOf(a)))
    /\ Forget(a) /\ CountFree(1)
    /\ UNCHANGED <<base, others>>

-----------------------------------------------------------------------------
(* Other callers of the page allocator. *)
OtherAlloc(b) ==
    /\ Pager!Alloc(b)
    /\ others' = others \cup {b} /\ result' = "ok"
    /\ UNCHANGED <<base, slabs, partial, live, stats>>

OtherFree(b) ==
    /\ Pager!Free(b)
    /\ others' = others \ {b} /\ result' = "ok"
    /\ UNCHANGED <<base, slabs, partial, live, stats>>

Next ==
    \/ Alloc \/ AllocNone
    \/ \E p \in free : AllocGrow(p) \/ AllocMisaligned(p)
    \/ \E a \in live : DeallocFull(a) \/ DeallocPartial(a) \/ DeallocLast(a)
    \/ \E p \in free : OtherAlloc([page |-> p, order |-> 0])
    \/ \E b \in others : OtherFree(b)

Spec == Init /\ [][Next]_vars

-----------------------------------------------------------------------------
LiveIn(p) == {a \in live : SlabBase(p) <= a /\ a < SlabBase(p) + SlabUnits}

FreeSlots(p) == {i \in 0..(Capacity - 1) : Slot(p, i) \notin live}

(* Following `link` from x meets the slots of c in turn, then the sentinel. *)
Chained(link, x, c) ==
    /\ x = IF c = <<>> THEN End ELSE c[1]
    /\ \A k \in DOMAIN c : link[c[k]] = IF k = Len(c) THEN End ELSE c[k + 1]

(* Following a slab's links from free_head meets each slot that no caller    *)
(* holds exactly once and then ends, never stepping on an object's data; and *)
(* in_use counts the objects.  An alloc that read a caller's word as a link, *)
(* or handed out a slot twice, would break it.                               *)
FreeListSound ==
    \A p \in DOMAIN slabs :
        /\ \E c \in SetToSeqs(FreeSlots(p)) : Chained(slabs[p].link, slabs[p].free_head, c)
        /\ slabs[p].in_use = Cardinality(LiveIn(p))

(* The slabs of l are linked both ways, in that order, from c.partial. *)
Linked(c, l) ==
    /\ c.partial = IF l = <<>> THEN Null ELSE l[1]
    /\ \A k \in DOMAIN l :
          /\ c.slabs[l[k]].next = IF k = Len(l) THEN Null ELSE l[k + 1]
          /\ c.slabs[l[k]].prev = IF k = 1 THEN Null ELSE l[k - 1]

(* The list of partial slabs holds, once each, exactly the slabs with a free *)
(* slot, and can be followed both ways: no full slab is offered to alloc,    *)
(* none with room is forgotten, and no header leads to a slab that has been  *)
(* given back, although the links of a slab off the list are stale.          *)
PartialExact ==
    \E l \in SetToSeqs({p \in DOMAIN slabs : ~IsFull(slabs[p])}) : Linked(Cache, l)

(* Masking the address of any object leads to the header of a slab of this   *)
(* cache, and the object lies in that slab behind its header, so that        *)
(* dealloc never takes somebody else's memory for a header.                  *)
HeaderRecovered ==
    \A a \in live :
        /\ SlabOf(a) \in DOMAIN slabs
        /\ a = Slot(SlabOf(a), SlotOf(a)) /\ SlotOf(a) \in 0..(Capacity - 1)
        /\ a + ObjSize <= SlabBase(SlabOf(a)) + SlabUnits

(* Every page is free, in a slab or with another caller, and in one of these *)
(* only: growing, failing to grow and releasing leak no page and take none.  *)
(* A slab holds an object, as the test slab_empty_slab_is_released has it,   *)
(* or consists of one: such a slab is full until it is empty, and dealloc,   *)
(* which asks was_full first, keeps it.                                      *)
PagesAccounted ==
    /\ held = others \cup {Block(p) : p \in DOMAIN slabs}
    /\ others \cap {Block(p) : p \in DOMAIN slabs} = {}
    /\ \A b, c \in held : b # c => Pager!Pages(b) \cap Pager!Pages(c) = {}
    /\ free = (0..(NumPages - 1)) \ UNION {Pager!Pages(b) : b \in held}
    /\ Capacity > 1 => \A p \in DOMAIN slabs : LiveIn(p) # {}

(* alloc returns None only from an exhausted cache: every slot of every slab *)
(* is with a caller, although alloc only looks at the head of the list, and  *)
(* no free block of pages could become a slab, although on a misaligned base *)
(* there are blocks to be had and grow gives them back.  A slab that had     *)
(* dropped off the list, or one misaligned block among aligned ones, would   *)
(* turn callers away from memory that is there.                              *)
NoneOnlyWhenExhausted ==
    result = "none" =>
        /\ \A p \in DOMAIN slabs : FreeSlots(p) = {}
        /\ \A p \in free :
              p % Pow2[Order] = 0 /\ Pager!Pages(Block(p)) \subseteq free => ~Aligned(p)

(* The units of free pages, of pages of others and of headers. *)
Outside ==
    (UNION {(base + p) * PageUnits..((base + p + 1) * PageUnits - 1) :
            p \in free \cup UNION {Pager!Pages(b) : b \in others}})
    \cup (UNION {SlabBase(p)..(SlabBase(p) + Stride - 1) : p \in DOMAIN slabs})

Pool == INSTANCE MemoryPool WITH
    blocks <- {[ptr |-> a, size |-> ObjSize] : a \in live},
    outside <- Outside

(* The cache is a memory pool: while a caller holds an object, no step of    *)
(* its own or of the page allocator's other callers gives any part of it to  *)
(* somebody else, takes it for a header, or returns its page.                *)
SlabImplementsPool == Pool!Spec

=============================================================================

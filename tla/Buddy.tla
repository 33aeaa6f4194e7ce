------------------------------- MODULE Buddy -------------------------------
(***************************************************************************)
(* The binary buddy allocator of abalone/src/buddy.rs.  Addresses are      *)
(* counted in pages, sizes and statistics too.  Every public operation     *)
(* runs under the one BUDDY mutex, so at most one is in progress; its loop *)
(* is stepped one iteration at a time, with the Rust locals as variables:  *)
(*                                                                         *)
(*   set_base       SetBase                                                *)
(*   add_region     AddRegion, then AddBlock per iteration, then AddEnd    *)
(*   alloc_pages    AllocNone, or AllocPop, then Split per iteration, then *)
(*                  AllocEnd; AllocPanic for an order that does not exist  *)
(*   dealloc_pages  Dealloc, then Merge per iteration, then DeallocEnd     *)
(*                                                                         *)
(* An assertion that fails, and a bitmap index past the words array, end   *)
(* in a panic: the panic handler halts the machine with the lock held, and *)
(* pc says where.                                                          *)
(***************************************************************************)
EXTENDS Integers, Sequences, FiniteSets, ListOps

CONSTANTS
    MaxOrder,    \* BUDDY_MAX_ORDER: the orders are 0..MaxOrder-1
    Pow2,        \* Pow2[k] is 1 << k
    BitmapBits,  \* how many bits each Bitmap's words hold
    Bases,       \* the addresses boot code may pass to set_base
    MaxAddr,     \* bound: every page added lies below this address
    MaxRegions,  \* bound: how many regions are added
    MaxAllocs    \* bound: how many allocations succeed

Orders == 0..(MaxOrder - 1)

ASSUME MaxOrderAssumption == MaxOrder \in Nat \ {0}

ASSUME Pow2Assumption ==
    /\ Pow2 \in [0..MaxOrder -> Nat \ {0}]
    /\ Pow2[0] = 1
    /\ \A k \in Orders : Pow2[k + 1] = 2 * Pow2[k]

ASSUME BoundsAssumption ==
    /\ BitmapBits \in Nat
    /\ Bases \subseteq Nat \ {0}
    /\ {MaxAddr, MaxRegions, MaxAllocs} \subseteq Nat

VARIABLES
    base,         \* address of page index 0; 0 until set_base
    total_pages,
    free_lists,   \* per order, the page indices on the list, head first
    bitmaps,      \* per order, the set of bits that are 1
    stats,
    pc,           \* the loop in progress, or "idle", or where a panic struck
    page,         \* offset_pages, current_page or page_idx
    ord,          \* current_order or ord
    order,        \* the order argument
    remaining,    \* remaining, in add_region
    page_count,   \* the page_count argument
    live,         \* callers: the blocks handed out and not given back
    regions,      \* callers: the regions passed to add_region
    refused       \* order of the last alloc_pages if it returned None, else -1

locals == <<page, ord, order, remaining, page_count>>
heap   == <<free_lists, bitmaps>>
vars   == <<base, total_pages, free_lists, bitmaps, stats, pc, page, ord,
            order, remaining, page_count, live, regions, refused>>

-----------------------------------------------------------------------------
(* Blocks and their buddies.                                               *)

Pages(b) == b.page..(b.page + Pow2[b.order] - 1)

RegionPages(r) == r.start..(r.start + r.size - 1)

AlignedTo(p, k) == p % Pow2[k] = 0

(* page_idx >> (order + 1) *)
PairBit(p, k) == p \div Pow2[k + 1]

(* page_idx ^ (1 << ord) *)
BuddyOf(p, k) == IF (p \div Pow2[k]) % 2 = 0 THEN p + Pow2[k] ELSE p - Pow2[k]

(* Mutant of Min: keep the block being freed, not the lower buddy. *)
MinKeepsFirst(m, n) == m

Min(m, n) == IF m <= n THEN m ELSE n

(* Bitmap::toggle, Bitmap::test; indexing words past the end panics. *)
Toggle(bits, bit) == IF bit \in bits THEN bits \ {bit} ELSE bits \cup {bit}

(* Mutant of InBitmap: a bitmap one bit short. *)
InBitmapShort(bit) == bit < BitmapBits - 1

InBitmap(bit) == bit < BitmapBits

(* Mutant of FreeBlock: the bit is not toggled. *)
FreeBlockNoToggle(p, k) ==
    /\ InBitmap(PairBit(p, k))
    /\ free_lists' = [free_lists EXCEPT ![k] = PushFront(@, p)]
    /\ UNCHANGED bitmaps

FreeBlock(p, k) ==
    /\ InBitmap(PairBit(p, k))
    /\ free_lists' = [free_lists EXCEPT ![k] = PushFront(@, p)]
    /\ bitmaps' = [bitmaps EXCEPT ![k] = Toggle(@, PairBit(p, k))]

(* The list is edited before the toggle panics. *)
FreeBlockPanic(p, k) ==
    /\ ~InBitmap(PairBit(p, k))
    /\ free_lists' = [free_lists EXCEPT ![k] = PushFront(@, p)]
    /\ UNCHANGED bitmaps

Panicked == pc \in {"panic", "panic_add", "panic_split"}

-----------------------------------------------------------------------------
NoStats == [total |-> 0, used |-> 0, free |-> 0, allocs |-> 0, deallocs |-> 0,
            peak |-> 0]

Init ==
    /\ base = 0
    /\ total_pages = 0
    /\ free_lists = [k \in Orders |-> <<>>]
    /\ bitmaps = [k \in Orders |-> {}]
    /\ stats = NoStats
    /\ pc = "idle"
    /\ page = 0 /\ ord = 0 /\ order = 0 /\ remaining = 0 /\ page_count = 0
    /\ live = {}
    /\ regions = {}
    /\ refused = -1

Return ==
    /\ pc' = "idle"
    /\ page' = 0 /\ ord' = 0 /\ order' = 0 /\ remaining' = 0 /\ page_count' = 0

PanicNow == pc' = "panic" /\ UNCHANGED <<base, total_pages, heap, stats, locals,
                                         live, regions, refused>>

SetBase(v) ==
    /\ pc = "idle"
    /\ total_pages = 0
    /\ base' = v
    /\ UNCHANGED <<total_pages, heap, stats, pc, locals, live, regions, refused>>

SetBasePanic == pc = "idle" /\ total_pages # 0 /\ PanicNow

(***************************************************************************)
(* add_region.  Its safety contract: the pages are free RAM that nobody    *)
(* else owns, so no page of an earlier region.                             *)
(***************************************************************************)
AddRegion(v, n) ==
    /\ pc = "idle"
    /\ base # 0 /\ v >= base
    /\ LET r == [start |-> v - base, size |-> n]
       IN  /\ \A q \in regions : RegionPages(q) \cap RegionPages(r) = {}
           /\ regions' = IF n = 0 THEN regions ELSE regions \cup {r}
    /\ pc' = "add"
    /\ page' = v - base
    /\ remaining' = n
    /\ page_count' = n
    /\ UNCHANGED <<base, total_pages, heap, stats, ord, order, live, refused>>

AddRegionPanic(v) == pc = "idle" /\ (base = 0 \/ v < base) /\ PanicNow

(* Mutant of Fits: the alignment is not taken into account. *)
FitsIgnoringAlignment(k) == Pow2[k] <= remaining

(* The order chosen is the smaller of align_order and size_order. *)
Fits(k) == AlignedTo(page, k) /\ Pow2[k] <= remaining

LargestFit(k) == Fits(k) /\ \A j \in Orders : Fits(j) => j <= k

AddBlock ==
    /\ pc = "add" /\ remaining > 0
    /\ \E k \in Orders :
          /\ LargestFit(k)
          /\ FreeBlock(page, k)
          /\ page' = page + Pow2[k]
          /\ remaining' = remaining - Pow2[k]
    /\ UNCHANGED <<base, total_pages, stats, pc, ord, order, page_count, live,
                   regions, refused>>

AddBlockPanic ==
    /\ pc = "add" /\ remaining > 0
    /\ \E k \in Orders : LargestFit(k) /\ FreeBlockPanic(page, k)
    /\ pc' = "panic_add"
    /\ UNCHANGED <<base, total_pages, stats, locals, live, regions, refused>>

AddEnd ==
    /\ pc = "add" /\ remaining = 0
    /\ total_pages' = total_pages + page_count
    /\ stats' = [stats EXCEPT !.total = total_pages',
                              !.free = total_pages' - stats.used]
    /\ Return
    /\ UNCHANGED <<base, heap, live, regions, refused>>

-----------------------------------------------------------------------------
(* alloc_pages: the first order from the one asked for whose list is not   *)
(* empty; its head is popped and halved down to the order asked for, each  *)
(* upper half going back on a list.                                        *)

NonEmpty(k) == free_lists[k] # <<>>

FirstNonEmpty(o, k) ==
    k >= o /\ NonEmpty(k) /\ \A j \in Orders : j >= o /\ NonEmpty(j) => k <= j

(* Mutant of AllocNone: only the list of the order itself is looked at. *)
AllocNoneOwnList(o) ==
    /\ pc = "idle"
    /\ ~NonEmpty(o)
    /\ refused' = o
    /\ UNCHANGED <<base, total_pages, heap, stats, pc, locals, live, regions>>

AllocNone(o) ==
    /\ pc = "idle"
    /\ \A k \in Orders : k >= o => ~NonEmpty(k)
    /\ refused' = o
    /\ UNCHANGED <<base, total_pages, heap, stats, pc, locals, live, regions>>

(* dealloc_pages asserts the same of its order, which callers have from here. *)
AllocPanic(o) == pc = "idle" /\ o >= MaxOrder /\ PanicNow

(* Mutant of AllocPop: the bit of the popped block is not toggled. *)
AllocPopNoToggle(o) ==
    /\ pc = "idle"
    /\ stats.allocs < MaxAllocs
    /\ \E k \in Orders :
          /\ FirstNonEmpty(o, k)
          /\ page' = Head(free_lists[k])
          /\ free_lists' = [free_lists EXCEPT ![k] = PopFront(@)]
          /\ ord' = k
    /\ order' = o
    /\ pc' = "split"
    /\ UNCHANGED <<base, total_pages, bitmaps, stats, remaining, page_count, live,
                   regions, refused>>

AllocPop(o) ==
    /\ pc = "idle"
    /\ stats.allocs < MaxAllocs
    /\ \E k \in Orders :
          /\ FirstNonEmpty(o, k)
          /\ page' = Head(free_lists[k])
          /\ free_lists' = [free_lists EXCEPT ![k] = PopFront(@)]
          /\ bitmaps' = [bitmaps EXCEPT ![k] = Toggle(@, PairBit(page', k))]
          /\ ord' = k
    /\ order' = o
    /\ pc' = "split"
    /\ UNCHANGED <<base, total_pages, stats, remaining, page_count, live,
                   regions, refused>>

(* Mutant of Split: the upper half is not given back. *)
SplitDropsHalf ==
    /\ pc = "split" /\ ord > order
    /\ ord' = ord - 1
    /\ UNCHANGED <<base, total_pages, heap, stats, pc, page, order, remaining,
                   page_count, live, regions, refused>>

Split ==
    /\ pc = "split" /\ ord > order
    /\ ord' = ord - 1
    /\ FreeBlock(page + Pow2[ord'], ord')
    /\ UNCHANGED <<base, total_pages, stats, pc, page, order, remaining,
                   page_count, live, regions, refused>>

SplitPanic ==
    /\ pc = "split" /\ ord > order
    /\ ord' = ord - 1
    /\ FreeBlockPanic(page + Pow2[ord'], ord')
    /\ pc' = "panic_split"
    /\ UNCHANGED <<base, total_pages, stats, page, order, remaining,
                   page_count, live, regions, refused>>

(* Mutant of AllocEnd: the peak is compared before the pages are counted. *)
AllocEndStalePeak ==
    /\ pc = "split" /\ ord = order
    /\ stats' = [stats EXCEPT !.used = @ + Pow2[order],
                              !.free = @ - Pow2[order],
                              !.allocs = @ + 1,
                              !.peak = IF stats.used > @ THEN stats.used ELSE @]
    /\ live' = live \cup {[addr |-> base + page, order |-> order]}
    /\ refused' = -1
    /\ Return
    /\ UNCHANGED <<base, total_pages, heap, regions>>

AllocEnd ==
    /\ pc = "split" /\ ord = order
    /\ LET used == stats.used + Pow2[order]
       IN  stats' = [stats EXCEPT !.used = used,
                                  !.free = @ - Pow2[order],
                                  !.allocs = @ + 1,
                                  !.peak = IF used > @ THEN used ELSE @]
    /\ live' = live \cup {[addr |-> base + page, order |-> order]}
    /\ refused' = -1
    /\ Return
    /\ UNCHANGED <<base, total_pages, heap, regions>>

-----------------------------------------------------------------------------
(* dealloc_pages, called with a block that alloc_pages returned and that   *)
(* has not been given back: as long as the pair's bit says that the buddy  *)
(* is free, unlink the buddy and go on with the block they make together.  *)

Dealloc(b) ==
    /\ pc = "idle"
    /\ b.addr >= base
    /\ live' = live \ {b}
    /\ page' = b.addr - base
    /\ ord' = b.order
    /\ order' = b.order
    /\ pc' = "merge"
    /\ UNCHANGED <<base, total_pages, heap, stats, remaining, page_count,
                   regions, refused>>

(* Mutant of BuddyBitSet: coalescing stops one order early. *)
BuddyBitSetStopsEarly == ord < MaxOrder - 2 /\ PairBit(page, ord) \in bitmaps[ord]

BuddyBitSet == ord < MaxOrder - 1 /\ PairBit(page, ord) \in bitmaps[ord]

(* Mutant of Merge: the loop tests the same pair again and again. *)
MergeStaysPut == pc = "merge" /\ BuddyBitSet /\ UNCHANGED vars

Merge ==
    /\ pc = "merge" /\ BuddyBitSet
    /\ free_lists' = [free_lists EXCEPT ![ord] = Unlink(@, BuddyOf(page, ord))]
    /\ bitmaps' = [bitmaps EXCEPT ![ord] = Toggle(@, PairBit(page, ord))]
    /\ page' = Min(page, BuddyOf(page, ord))
    /\ ord' = ord + 1
    /\ UNCHANGED <<base, total_pages, stats, pc, order, remaining, page_count,
                   live, regions, refused>>

DeallocEnd ==
    /\ pc = "merge" /\ ~BuddyBitSet
    /\ FreeBlock(page, ord)
    /\ stats' = [stats EXCEPT !.used = @ - Pow2[order],
                              !.free = @ + Pow2[order],
                              !.deallocs = @ + 1]
    /\ Return
    /\ UNCHANGED <<base, total_pages, live, regions, refused>>

(* panic_handler: report, then hlt forever. *)
Halted == Panicked /\ UNCHANGED vars

-----------------------------------------------------------------------------
(* The calls the kernel may make.  The bounds are only here.               *)

Call ==
    \/ \E v \in Bases : SetBase(v)
    \/ SetBasePanic
    \/ /\ Cardinality(regions) < MaxRegions
       /\ \E v \in 0..MaxAddr : \E n \in 0..(MaxAddr - v) : AddRegion(v, n)
    \/ \E v \in 0..MaxAddr : AddRegionPanic(v)
    \/ \E o \in Orders : AllocNone(o) \/ AllocPop(o)
    \/ AllocPanic(MaxOrder)
    \/ \E b \in live : Dealloc(b)

Step ==
    \/ AddBlock \/ AddBlockPanic \/ AddEnd
    \/ Split \/ SplitPanic \/ AllocEnd
    \/ Merge \/ DeallocEnd

Next == Call \/ Step \/ Halted

Spec == Init /\ [][Next]_vars

(* Whoever holds the lock keeps running: nothing in an operation blocks. *)
FairSpec == Spec /\ WF_vars(Step)

-----------------------------------------------------------------------------
(* Who has which pages.                                                    *)

BlocksOf(lists) == UNION {{[page |-> p, order |-> k] : p \in Elems(lists[k])} :
                          k \in Orders}

FreeBlocks == BlocksOf(free_lists)

LiveBlocks == {[page |-> b.addr - base, order |-> b.order] : b \in live}

(* The block that the operation in progress has popped or is giving back. *)
HandBlocks == IF pc \in {"split", "merge", "panic_split"}
              THEN {[page |-> page, order |-> ord]} ELSE {}

Blocks == FreeBlocks \cup LiveBlocks \cup HandBlocks

(* The part of a region that add_region has not put on a list yet. *)
Pending == IF pc \in {"add", "panic_add"} THEN page..(page + remaining - 1) ELSE {}

Registered == UNION {RegionPages(r) : r \in regions}

(* The pairs of order k of which exactly one buddy is in L. *)
OneOfPair(L, k) == {PairBit(p, k) : p \in {q \in L : BuddyOf(q, k) \notin L}}

(* The parameters keep the types of the Rust fields. *)
TypeOK ==
    /\ base \in Nat
    /\ total_pages \in Nat
    /\ free_lists \in [Orders -> Seq(Nat)]
    /\ bitmaps \in [Orders -> SUBSET Nat]
    /\ stats \in [total : Int, used : Int, free : Int, allocs : Int,
                  deallocs : Int, peak : Int]
    /\ pc \in {"idle", "add", "split", "merge", "panic", "panic_add",
               "panic_split"}
    /\ page \in Nat
    /\ ord \in Orders /\ order \in Orders
    /\ remaining \in Nat /\ page_count \in Nat
    /\ live \subseteq [addr : Nat, order : Orders]
    /\ regions \subseteq [start : Nat, size : Nat]
    /\ refused \in Orders \cup {-1}

(* Two blocks that are on a list, with a caller or in the allocator's hand   *)
(* never share a page, no block is on its list twice, and what add_region    *)
(* has still to hand over overlaps none of them: alloc_pages cannot give the *)
(* same page to two callers, whatever was split and merged before.           *)
NoOverlap ==
    ~Panicked =>
        /\ \A b, c \in Blocks : b # c => Pages(b) \cap Pages(c) = {}
        /\ \A b \in Blocks : Pages(b) \cap Pending = {}
        /\ \A k \in Orders : NoDup(free_lists[k])
        /\ FreeBlocks \cap LiveBlocks = {}
        /\ HandBlocks \cap (FreeBlocks \cup LiveBlocks) = {}

(* Splitting and merging neither lose a page of a region nor invent one. *)
NoPageLost ==
    ~Panicked => (UNION {Pages(b) : b \in Blocks}) \cup Pending = Registered

(* The comment on line 8 of buddy.rs: bit i of an order's bitmap is 1 exactly *)
(* when one of the two buddies of pair i is on that order's list.             *)
BitIsOneFreeBuddy ==
    ~Panicked =>
        \A k \in Orders : bitmaps[k] = OneOfPair(Elems(free_lists[k]), k)

(* dealloc_pages follows the prev and next words of the buddy only when that *)
(* block is on the list of this order: otherwise they are a caller's data.   *)
UnlinksOnlyFreeBuddy ==
    pc = "merge" /\ BuddyBitSet =>
        BuddyOf(page, ord) \in Elems(free_lists[ord])

(* A caller's address turns back into the page index it was made from: no    *)
(* block is out while set_base may still move the base, and the locals of    *)
(* the loops stay in the ranges that the loops need.                         *)
BaseFixed ==
    /\ \A b \in live : b.addr >= base
    /\ total_pages = 0 => live = {} /\ pc \notin {"split", "merge"}
    /\ total_pages = 0 /\ (pc = "idle" \/ (pc = "add" /\ remaining = page_count))
          => FreeBlocks = {}
    /\ pc = "add" => remaining <= page_count
    /\ pc = "split" => order <= ord

BlocksAligned ==
    ~Panicked => \A b \in Blocks : AlignedTo(b.page, b.order)

(* The inductive invariant: every block is aligned, no page is in two places *)
(* or in none, each bit tells of its pair, and the base does not move under  *)
(* a caller's block.                                                         *)
IndInv ==
    /\ TypeOK
    /\ BaseFixed
    /\ BlocksAligned
    /\ NoOverlap
    /\ NoPageLost
    /\ BitIsOneFreeBuddy

(* Two free buddies are left unmerged only where two regions meet, because   *)
(* add_region does not coalesce with what is already there; dealloc_pages    *)
(* never leaves such a pair.                                                 *)
CoalescedUpToSeams ==
    ~Panicked =>
        \A k \in 0..(MaxOrder - 2) : \A p \in Elems(free_lists[k]) :
            p < BuddyOf(p, k) /\ BuddyOf(p, k) \in Elems(free_lists[k]) =>
                \E r \in regions : r.start = BuddyOf(p, k)

(* The pages that callers hold, and the pages on the lists. *)
LivePages == UNION {Pages(b) : b \in LiveBlocks}

ListedPages == UNION {Pages(b) : b \in FreeBlocks}

(* Between operations the statistics say what the lists and the callers hold. *)
StatsExact ==
    pc = "idle" =>
        /\ stats.used = Cardinality(LivePages)
        /\ stats.free = Cardinality(ListedPages)
        /\ stats.total = total_pages /\ total_pages = stats.used + stats.free
        /\ stats.allocs - stats.deallocs = Cardinality(live)
        /\ stats.peak >= stats.used /\ stats.peak <= stats.total

(* An operation in progress panics on a bitmap index only if some region      *)
(* reaches past the pages the bitmap covers (512 MiB with the real constant). *)
PanicsOnlyPastBitmap ==
    [][pc # "idle" /\ ~Panicked /\ Panicked' =>
           \E r \in regions : r.start + r.size > 2 * BitmapBits]_vars

(* Every operation releases the lock: its loop ends, or the machine halts. *)
OperationsEnd == (pc # "idle") ~> (pc = "idle" \/ Panicked)

(* The allocator implements the abstract one: what is free there is what is   *)
(* on a list here, in the operation's hand or still to be put on a list.      *)
Abstract == INSTANCE PageAllocator WITH
    free <- (UNION {Pages(b) : b \in FreeBlocks \cup HandBlocks}) \cup Pending,
    held <- LiveBlocks

(* Every step of buddy.rs is a step of PageAllocator or none at all: blocks   *)
(* handed out are aligned and free, and a request is refused only when no     *)
(* aligned run of free pages inside a region could have served it.            *)
RefinesPageAllocator == Abstract!Spec

=============================================================================

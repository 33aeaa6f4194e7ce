-------------------------------- MODULE Boot --------------------------------
(***************************************************************************)
(* Who owns which page while the kernel boots: the memory map that         *)
(* limine_data.rs copies from the bootloader, heap::init that donates the  *)
(* usable regions without the kernel's image, LimineData::release that     *)
(* donates what the bootloader used once its page tables are given up, the *)
(* region of the boot stack that waits until the kernel is off that stack, *)
(* and post_stack_state, which carries it across the switch.               *)
(*                                                                         *)
(* Addresses are in units of which PageUnits make a page; pages are their  *)
(* numbers.  Of the buddy allocator (module Buddy) there is what boot can  *)
(* tell: which blocks are on its lists, which of them alloc_pages splits,  *)
(* and when a bit of a pair lies past the words of a bitmap, which is a    *)
(* panic.  Page tables, for the devices and of the kernel's own, take a    *)
(* frame at a time, as many as a bound allows.                             *)
(***************************************************************************)
EXTENDS Integers, Sequences, FiniteSetsExt

CONSTANTS
    PageUnits,    \* 4096
    Maps,         \* the memory maps: sequences of [base, end, type]
    Images,       \* where the kernel may lie: records [start, end]
    MaxRegions,   \* MAX_REGIONS: how many entries of the map harvest keeps
    HugePages,    \* pages in a huge page of 2 MiB
    Low,          \* the first page at or above 1 MiB
    MaxOrder,     \* BUDDY_MAX_ORDER: the orders are 0..MaxOrder-1
    Pow2,         \* Pow2[k] is 1 << k
    BitmapBits,   \* how many bits the words of a Bitmap hold, for every order
    HeapOrder,    \* order of the pool of the TLSF heap
    StackOrder,   \* order of the kernel's stack
    MaxTables     \* bound: tables made for the devices, and of the kernel's own

Orders == 0..(MaxOrder - 1)

ASSUME BootAssumption ==
    /\ {PageUnits, HugePages, MaxRegions, MaxOrder, MaxTables} \subseteq Nat \ {0}
    /\ {Low, BitmapBits} \subseteq Nat
    /\ {HeapOrder, StackOrder} \subseteq Orders /\ StackOrder <= HeapOrder

ASSUME OrderAssumption ==
    /\ Pow2 \in [0..MaxOrder -> Nat \ {0}]
    /\ Pow2[0] = 1
    /\ \A k \in Orders : Pow2[k + 1] = 2 * Pow2[k]

(* What Limine promises of its memory map: the entries that may be used at   *)
(* once or later do not overlap.                                             *)
ASSUME MapsAssumption ==
    /\ \A m \in Maps :
           /\ m \in Seq([base : Nat, end : Nat, type : STRING])
           /\ \A j, k \in DOMAIN m :
                  j # k /\ {m[j].type, m[k].type} \subseteq {"usable", "bootloader", "acpi"}
                      => m[j].end <= m[k].base \/ m[k].end <= m[j].base
    /\ \A im \in Images : im \in [start : Nat, end : Nat] /\ im.start <= im.end

VARIABLES
    map, image, stack,  \* given by the bootloader; the pages of its stack
    kept,               \* the entries of the map that harvest has copied
    pc, i,              \* where kernel_main is, and in which region
    base,               \* of the buddy allocator
    free,               \* its free pages
    regions,            \* what it has been given, as pairs of pages
    total,              \* total_pages
    used,               \* pages handed out
    tables,             \* how many frames the tables now being built have taken
    top,                \* pages that the kernel's own tables map, or 0 before
    sp,                 \* the page of the stack pointer, as release has read it
    deferred, cell      \* boot_stack_region, as a set of at most one region

vars == <<map, image, stack, kept, pc, i, base, free, regions, total, used,
          tables, top, sp, deferred, cell>>
given == <<map, image, stack, kept>>
pool == <<base, free, regions, total, used>>

-----------------------------------------------------------------------------
(* MemoryRegion::aligned_base and aligned_end. *)
AlignedBase(r) == (r.base + PageUnits - 1) \div PageUnits
AlignedEnd(r)  == r.end \div PageUnits

Usable(r)      == r.type = "usable"
Reclaimable(r) == r.type \in {"bootloader", "acpi"}

FullPages(r) == AlignedBase(r)..(AlignedEnd(r) - 1)

ImageStart == image.start \div PageUnits
ImageEnd   == (image.end + PageUnits - 1) \div PageUnits

RegionPages(r) == r.from..(r.to - 1)
Donated == UNION {RegionPages(r) : r \in regions}

(* Limine keeps the image and its stack apart, the image out of what may be  *)
(* reclaimed, and its stack inside one region of that.  harvest copies the entries.  *)
Init ==
    /\ map \in Maps /\ image \in Images
    /\ \A k \in DOMAIN map :
           Reclaimable(map[k]) => image.end <= map[k].base \/ map[k].end <= image.start
    /\ \E k \in DOMAIN map : \E p, q \in FullPages(map[k]) :
           Reclaimable(map[k]) /\ p <= q /\ q <= p + 1 /\ stack = p..q
    /\ kept = SubSeq(map, 1, Min({Len(map), MaxRegions}))
    /\ pc = "heap" /\ i = 1 /\ base = 0 /\ free = {} /\ regions = {} /\ total = 0
    /\ used = {} /\ tables = 0 /\ top = 0 /\ sp = 0 /\ deferred = {} /\ cell = {}

-----------------------------------------------------------------------------
(* How many pages some regions have, a page that lies in two counted twice. *)
PageCount(rs) ==
    Cardinality({x \in rs \X UNION {RegionPages(r) : r \in rs} : x[2] \in RegionPages(x[1])})

Block(p, k) == p..(p + Pow2[k] - 1)

(* The block of an order that a page lies in: offsets are from the base. *)
BlockStart(p, k) == p - ((p - base) % Pow2[k])

(* Of a region's free pages the largest aligned blocks are on the lists.     *)
(* add_region cuts a region into these and a split leaves these; what merges *)
(* blocks, across regions too, is dealloc_pages, and while the kernel boots  *)
(* nothing is given back.                                                    *)
OnList(p, k, ps) ==
    /\ BlockStart(p, k) = p /\ Block(p, k) \subseteq ps
    /\ k + 1 \in Orders => ~(Block(BlockStart(p, k + 1), k + 1) \subseteq ps)

(* The bit of a block's pair is one that the bitmap of its order has. *)
InBitmap(p, k) == (p - base) \div Pow2[k + 1] < BitmapBits

(* BuddyAllocator::add_region for each of some regions, in one go: `next` is *)
(* where the caller goes on.  A region below the base is a panic, and so is  *)
(* a block past the bitmap of its own order.  The machine halts there: what  *)
(* was added before has no reader.                                           *)
AddRegions(rs, next) ==
    LET some == {r \in rs : r.from < r.to}
    IN  IF \E r \in some :
               \/ r.from < base
               \/ \E p \in RegionPages(r), k \in Orders :
                      OnList(p, k, RegionPages(r)) /\ ~InBitmap(p, k)
        THEN pc' = "panic" /\ UNCHANGED pool
        ELSE /\ pc' = next
             /\ regions' = regions \cup some
             /\ free' = free \cup UNION {RegionPages(r) : r \in some}
             /\ total' = total + PageCount(some)
             /\ UNCHANGED <<base, used>>

(* The list of an order. *)
Listed(k) == {p \in free : \E r \in regions : OnList(p, k, free \cap RegionPages(r))}

Take(ps) ==
    /\ free' = free \ ps /\ used' = used \cup ps
    /\ UNCHANGED <<base, regions, total>>

(* alloc_pages(order).expect(...): a block of the first list that has one,   *)
(* whichever is its head.  The upper halves go to the lists of lower orders, *)
(* down to the one asked for, whose bitmap is the first to be too short.     *)
AllocOrPanic(order, next) ==
    LET found == {k \in Orders : order <= k /\ Listed(k) # {}}
    IN  \/ \E k \in found : \E p \in Listed(k) :
               /\ \A j \in found : k <= j
               /\ IF k = order \/ InBitmap(p, order)
                  THEN Take(Block(p, order)) /\ pc' = next
                  ELSE pc' = "panic" /\ UNCHANGED pool
        \/ found = {} /\ pc' = "panic" /\ UNCHANGED pool

-----------------------------------------------------------------------------
(* heap::init. *)
SetBase ==
    LET bases == {AlignedBase(kept[k]) : k \in {k \in DOMAIN kept : Usable(kept[k])}}
    IN  /\ pc = "heap"
        /\ IF bases = {} THEN pc' = "panic" /\ UNCHANGED base
           ELSE pc' = "usable" /\ base' = Min(bases)
        /\ UNCHANGED <<given, i, free, regions, total, used, tables, top, sp, deferred, cell>>

(* Mutant of Punched: the part above the image starts with its last page. *)
PunchedShort(r) ==
    {[from |-> AlignedBase(r), to |-> Min({AlignedEnd(r), ImageStart})],
     [from |-> Max({AlignedBase(r), ImageEnd - 1}), to |-> AlignedEnd(r)]}

(* The parts of a region below and above the image. *)
Punched(r) ==
    {[from |-> AlignedBase(r), to |-> Min({AlignedEnd(r), ImageStart})],
     [from |-> Max({AlignedBase(r), ImageEnd}), to |-> AlignedEnd(r)]}

AddUsable ==
    /\ pc = "usable" /\ i <= Len(kept)
    /\ IF Usable(kept[i]) THEN AddRegions(Punched(kept[i]), pc)
       ELSE UNCHANGED <<pc, pool>>
    /\ i' = i + 1
    /\ UNCHANGED <<given, tables, top, sp, deferred, cell>>

CarveHeap ==
    /\ pc = "usable" /\ i > Len(kept)
    /\ AllocOrPanic(HeapOrder, "devices") /\ i' = 1
    /\ UNCHANGED <<given, tables, top, sp, deferred, cell>>

(* alloc_zero_frame: a frame for one table more.                             *)
NewTable ==
    /\ tables < MaxTables /\ tables' = tables + 1
    /\ AllocOrPanic(0, pc)

(* map_mmio of the local APIC and of the framebuffer, if there are any: none *)
(* or some tables are missing in Limine's.                                   *)
MapDevices ==
    /\ pc = "devices" /\ NewTable
    /\ UNCHANGED <<given, i, top, sp, deferred, cell>>

(* The reclaimable region that holds the stack pointer, from 1 MiB up. *)
HoldsStack(r, s) == Low <= AlignedBase(r) /\ s \in FullPages(r)

FindBootStack ==
    /\ pc = "devices" /\ pc' = "stack" /\ tables' = 0
    /\ \E s \in stack :
           deferred' = {[from |-> AlignedBase(kept[k]), to |-> AlignedEnd(kept[k])] :
                        k \in {k \in DOMAIN kept : Reclaimable(kept[k]) /\ HoldsStack(kept[k], s)}}
    /\ UNCHANGED <<given, i, pool, top, sp, cell>>

AllocStack ==
    /\ pc = "stack" /\ AllocOrPanic(StackOrder, "pml4")
    /\ UNCHANGED <<given, i, tables, top, sp, deferred, cell>>

(* Mutant of HhdmTop: only usable memory counts. *)
HhdmTopUsable ==
    LET end == Max({kept[k].end : k \in {k \in DOMAIN kept : Usable(kept[k])}} \cup {0})
    IN  ((end + PageUnits * HugePages - 1) \div (PageUnits * HugePages)) * HugePages

(* All up to the end of the last region, in huge pages. *)
HhdmTop ==
    LET end == Max({kept[k].end : k \in DOMAIN kept} \cup {0})
    IN  ((end + PageUnits * HugePages - 1) \div (PageUnits * HugePages)) * HugePages

(* install_kernel_pml4 makes the PML4 and every table below it, then loads   *)
(* it.  A stack that the new tables do not map ends in a double fault, which *)
(* has a stack of its own, and in a panic.                                   *)
MakeTable ==
    /\ pc = "pml4" /\ NewTable
    /\ UNCHANGED <<given, i, top, sp, deferred, cell>>

InstallPml4 ==
    /\ pc = "pml4" /\ tables > 0
    /\ tables' = 0 /\ top' = HhdmTop
    /\ \E s \in stack : sp' = s /\ pc' = IF s < HhdmTop THEN "release" ELSE "panic"
    /\ UNCHANGED <<given, i, pool, deferred, cell>>

(* Mutant of Skipped: the stack's region is not skipped. *)
SkippedNoStack(r) == AlignedBase(r) < Low

(* Mutant of Skipped: the memory below 1 MiB is not skipped. *)
SkippedNoLow(r) == sp \in FullPages(r)

(* LimineData::release, a region at a time. *)
Skipped(r) == AlignedBase(r) < Low \/ sp \in FullPages(r)

ReleaseRegion ==
    /\ pc = "release" /\ i <= Len(kept)
    /\ IF Reclaimable(kept[i]) /\ ~Skipped(kept[i])
       THEN AddRegions({[from |-> AlignedBase(kept[i]), to |-> AlignedEnd(kept[i])]}, pc)
       ELSE UNCHANGED <<pc, pool>>
    /\ i' = i + 1
    /\ UNCHANGED <<given, tables, top, sp, deferred, cell>>

(* post_stack_state::store, then switch_stack. *)
Store ==
    /\ pc = "release" /\ i > Len(kept)
    /\ cell' = deferred /\ pc' = "continue"
    /\ UNCHANGED <<given, i, pool, tables, top, sp, deferred>>

(* post_stack_state::take. *)
TakeCell == cell' = {}

(* Mutant of Continue: the region that waited is forgotten. *)
ContinueForgets ==
    /\ pc = "continue" /\ TakeCell /\ pc' = "run"
    /\ UNCHANGED <<given, i, pool, tables, top, sp, deferred>>

(* kernel_main_continue: what was stored, and the region that waited. *)
Continue ==
    /\ pc = "continue" /\ TakeCell
    /\ AddRegions(cell, "run")
    /\ UNCHANGED <<given, i, tables, top, sp, deferred>>

Halted == pc \in {"panic", "run"} /\ UNCHANGED vars

Next ==
    \/ SetBase \/ AddUsable \/ CarveHeap \/ MapDevices \/ FindBootStack \/ AllocStack
    \/ MakeTable \/ InstallPml4 \/ ReleaseRegion \/ Store \/ Continue \/ Halted

Spec == Init /\ [][Next]_vars

-----------------------------------------------------------------------------
OnBootStack == pc \notin {"continue", "run"}
LimineTablesInUse == pc \in {"heap", "usable", "devices", "stack", "pml4"}

(* The pages that lie wholly in one region of a kind. *)
PagesOf(m, kind(_)) == UNION {FullPages(m[k]) : k \in {k \in DOMAIN m : kind(m[k])}}

ImagePages == ImageStart..(ImageEnd - 1)

(* No page in use is ever free: not the image, not the boot stack while the  *)
(* kernel is on it, not what the bootloader's tables may lie in while they   *)
(* are loaded, not a page handed out, and no page that only partly lies in   *)
(* memory that may be used.                                                  *)
NothingInUseFree ==
    /\ free \cap ImagePages = {}
    /\ OnBootStack => free \cap stack = {}
    /\ LimineTablesInUse => free \cap PagesOf(map, Reclaimable) = {}
    /\ free \cap used = {}
    /\ free \subseteq PagesOf(map, Usable) \cup PagesOf(map, Reclaimable)

(* No page is donated twice: total_pages counts the pages.  The region of    *)
(* the boot stack, found once by kernel_main and once more by release from   *)
(* another stack pointer, is the one that could be.                          *)
DonatedOnce == total = Cardinality(Donated)

(* When the kernel is up, every whole page of usable memory but the image's, *)
(* and of the reclaimable regions from 1 MiB up, has been donated: the boot  *)
(* stack's too, which waited for the switch.  What lies in entries past      *)
(* MAX_REGIONS, and only that, is lost.                                      *)
AllReclaimed ==
    pc = "run" =>
        Donated = (PagesOf(kept, Usable) \ ImagePages)
                  \cup PagesOf(kept, LAMBDA r : Reclaimable(r) /\ AlignedBase(r) >= Low)

(* Once the kernel's own tables are loaded they map every page that the      *)
(* allocator has or has handed out: it writes its lists into free pages, and *)
(* heap, stack and tables are reached through the same window.               *)
PoolMapped == top > 0 => free \cup used \subseteq 0..(top - 1)

(* What the map must have for the kernel to come up, of which it checks      *)
(* nothing beforehand: no more entries than harvest keeps, none to donate    *)
(* below the lowest usable one or beyond what the bitmap of single pages     *)
(* covers, a block for the heap, stack-sized blocks that neither the heap    *)
(* nor the devices' tables can use up, and pages for it all.                 *)
Lowest == Min({AlignedBase(map[k]) : k \in {k \in DOMAIN map : Usable(map[k])}})

Fitting(order) ==
    {p \in PagesOf(map, Usable) :
        /\ (p - Lowest) % Pow2[order] = 0
        /\ \E k \in DOMAIN map :
               Usable(map[k]) /\ Block(p, order) \subseteq FullPages(map[k]) \ ImagePages}

Enough ==
    /\ Len(map) <= MaxRegions
    /\ Fitting(HeapOrder) # {}
    /\ Cardinality(Fitting(StackOrder)) > Pow2[HeapOrder - StackOrder] + MaxTables
    /\ Cardinality(PagesOf(map, Usable) \ ImagePages) >=
           Pow2[HeapOrder] + Pow2[StackOrder] + 2 * MaxTables
    /\ PagesOf(map, LAMBDA r : Usable(r) \/ (Reclaimable(r) /\ AlignedBase(r) >= Low))
           \subseteq Lowest..(Lowest + 2 * BitmapBits - 1)

(* With such a map the kernel comes up, wherever the image and the stack     *)
(* lie: no step of boot uses up or splits what a later one needs, and no     *)
(* region reaches the allocator that it cannot take.                         *)
BootSucceeds == Enough => pc # "panic"

=============================================================================

# Verification of crusty_os

TLA+ models of the kernel in this repository: its page, heap and object
allocators (`abalone`), its page tables (`mantle`), its interrupt handling and
the way it takes the machine over from the Limine bootloader. TLC checks the
models on small instances; TLAPS proves, for every size, what the buddy allocator,
the TLSF heap, the slab cache, the page tables and the console promise, the handoff of
memory while booting, and that interrupts are acknowledged, guards nested and masks kept.

`PROJECT.json` lists components, runs, mutants, findings, hazards and theorems,
and for every definition the source lines it models.

## The system

The kernel runs on one CPU. It has one thread, `kernel_main`, which continues
as `kernel_main_continue` on another stack, and interrupt handlers. Concurrency
is therefore a handler or a fault in the middle of the thread's code, and code
that is entered again while a lock is held. Nothing is persisted: a panic prints
and halts.

| Component | State | Operations | Used by |
|---|---|---|---|
| buddy (`abalone/src/buddy.rs`) | base, a free list and a bitmap per order, statistics; one mutex | `set_base`, `add_region`, `alloc_pages`, `dealloc_pages` | slab, TLSF, page tables, stack, boot |
| TLSF heap (`abalone/src/tlsf.rs`) | block headers in the pool, two-level bitmap, list heads; one mutex | `init_from_ptr`, `alloc`, `dealloc` | the global allocator |
| slab (`abalone/src/slab.rs`) | a header per slab, free slots chained through their own memory, partial list, statistics; one mutex | `alloc`, `dealloc`, `grow` | process table |
| page tables (`mantle/src`, `src/memory/vmm.rs`) | four levels of tables in frames of the buddy, CR3, TLB | `map`, `unmap`, `translate`, `map_mmio`, `install_kernel_pml4` | boot, stack |
| interrupts (`src/interrupts`, `src/timer.rs`, `src/arch.rs`, `src/panic.rs`) | the 8259 registers, the interrupt flag, the table of callbacks, the locks PICS and SERIAL1, the tick counter | handlers with `dispatch`, `register`, `unregister`, `mask_irq`, `unmask_irq`, `disable_pic`, guards, `sleep_ms`, panic | everything after `sti` |
| boot (`src/main.rs`, `src/memory/heap.rs`, `src/limine_data.rs`, `src/post_stack_state.rs`) | the memory map, the boot stack's region, a cell that survives the stack switch | `harvest`, `heap::init`, `release`, `store`, `take` | runs once |
| console (`src/writers`) | cursor, pixels, a lock | `_print` | everyone |
| process table (`src/process.rs`) | one `Once` around a table of an external crate | `init`, `get` | nobody yet |

What is hard to test in it: data structures whose damage shows many calls later
(pair bits, `prev_phys`, partial lists); headers computed back from addresses;
boot steps whose order is a matter of life and death (the stack under the
running code, the tables under CR3); device-driven interleavings (spurious
interrupts, an interrupt inside a critical section); failures half-way through a
map or a grow. `PROJECT.json` lists the hazards with their lines and the
properties that would catch each.

## Modules

    ListOps            the buddy's intrusive lists as operations on sequences
    PageAllocator      abstract: what a page allocator promises
      Buddy              buddy.rs, a loop iteration per step; implements PageAllocator
        BuddyProofs        theorems
        MCBuddy            instances
    MemoryPool         abstract: what an allocator of blocks promises
      Slab               slab.rs on top of PageAllocator; implements MemoryPool;  MCSlab
        SlabProofs         theorems
      TlsfMapping        the size classes of tlsf.rs;        MCTlsfMapping
        TlsfMappingProofs  theorems
      Tlsf               tlsf.rs at the level of headers; implements MemoryPool;  MCTlsf
        TlsfProofs         theorems
    AddressSpace       abstract: what page tables promise
      PageTables         walker.rs, pml4.rs and boot's use; implements AddressSpace;  MCPageTables
        PageTablesProofs   theorems
    Interrupts         controllers, handlers, callbacks, thread, locks;  MCInterrupts
      InterruptsProofs   theorems
    Boot               who owns which page while booting;    MCBoot
      BootProofs         theorems
    Console            the framebuffer and VGA writers;      MCConsole
      ConsoleProofs      theorems

An action is one call, under the lock the call holds, except where something
can come between its parts. Then it has a step for each part: the loops of
Buddy, the pages of `map_mmio`, `mask_irq`'s lock, write and unlock, a handler's
body, its callback and its acknowledgement, each region in Boot. A definition named
`<Name><What>` under a comment that begins with "Mutant of" is no part of the
model: it is the faulty variant that shows that a property can fail.

**Buddy.** The Rust fields have their names; `page`, `ord`, `order` and
`remaining` are the locals of the operation in progress, `pc` its loop. Lists are
sequences of page indices, a bitmap is the set of its bits that are one.
`live`, `regions` and `refused` are the callers' view. Callers obey the safety
comments (regions do not overlap, blocks are freed once with their order); a
failed assertion or a bitmap index past its words is a panic with the lock held.
The pointers `next` and `prev` are abstracted to sequences (ListOps).
The constant `Pow2` is the table of powers, here and in Slab, so that the proofs
need no exponentiation.

**PageAllocator.** A set of free pages and the blocks held. Its `Refuse` may
happen only if no aligned run of free pages inside one donated region has the
size: to implement it, the buddy must coalesce.

**MemoryPool.** The blocks that callers hold and the addresses that nobody may be
given. A step hands out one block apart from all others, takes one back, or
does neither, and no block ever meets those addresses. What is outside is, for
Slab, the free pages, the pages of other callers and the headers of slabs; for
Tlsf the headers in the pool. Whether a request is served is left open: that is
`NoneOnlyWhenExhausted` and `SearchMissesLittle`.

**Slab.** Takes its blocks from PageAllocator's actions, so that pages given back
may be somebody else's in the next step. The base of the index space is any page,
aligned to the slab size or not. A slot that a caller holds has arbitrary contents;
the free chain is read out of the slots. The partial list is in the headers as in
the code: a slab that leaves it keeps its `prev` and `next`, and these are stale
from then on. That a chain or the list is sound is said by the existence of an
ordering that the links follow.

**Tlsf.** Memory in units of one header (32 bytes). Every unit can hold a header and
keeps what was written there, so a stale header is still read as one. `AnyOrder =
FALSE` restricts frees to those that do not coalesce in front of a block in use
(see Findings). `crashed` says which panic has happened: an index past the size
classes, or a header whose size cannot be mapped. `PoolAssumption` says that the pool as
a whole has a list: `add_pool` files it as one block and would panic otherwise.
TlsfMapping has the size classes alone; MCTlsfMapping lets a request and a block range
over a grid of sizes (`Pairs`).

**PageTables.** Tables have `Fan` entries instead of 512. A frame holds what was last written and
is read as a table whatever it is, as the hardware does. Limine's own tables are
constants, of which `LimineAssumption` says that they are a tree in frames that Limine
keeps and that nothing in them is global; MCPageTables builds them, with 4 KiB or 2 MiB
pages. `AddressSpace` is a function from pages
to leaves: a successful call changes one page, a failed one none, and the
tables are replaced as a whole once. The check for misaligned arguments is left out:
every caller passes page addresses.

**Interrupts.** Handlers run with interrupts off, so at most one is active (`h`). The thread
and the handler each take their steps; a lock that the thread holds while a
handler wants it is a handler with no step to take. IRQs are level or edge lines
that may fall before they are acknowledged, which gives the spurious vectors. An
exception handler ends in `panic`, as do vectors without an IDT entry; the panic handler
takes the serial lock, prints and halts, and a fault may hit it as well.
`table` is HANDLERS of dispatch.rs. The kernel registers no callback yet; the model
registers the kinds the interface invites, by what they touch: one that prints to the
framebuffer, one that prints to the serial port, one that unregisters itself and
one that masks its line. A port holds the mask of one controller; `unmask_irq`
reads and writes it in two steps, which a handler may come between.

**Boot.** Memory map, image and boot stack are arbitrary; `pc` is the step of
`kernel_main`. Of the buddy allocator it has the free pages. While booting nothing is
given back, so the lists hold, region by region, the largest aligned blocks of the free
pages (`OnList`), and from these follow which block `alloc_pages` splits and both panics over
the bitmap: in `add_region`, for a block whose pair has no bit in the bitmap of its order, and
in a split, for a half that has none in a lower one. Which block is at the head of a list is
left open. The tables of the devices and of the kernel take a frame each (`NewTable`); how
many is left open up to `MaxTables`. The two readings of the
stack pointer, in `kernel_main` and in `release`, come from different frames and
may differ. `kept` is the part of the map that fits harvest's array, and everything
after works on it; `top` is how far the kernel's own tables map memory, in huge
pages, from the end of the last region kept.

**Console.** The framebuffer is memory addressed by offset, so that the padding of a
scanline and the margins are there to be written by mistake. A framebuffer of
another depth than 32 bits is ignored, and what is printed without one is
dropped. It is assumed to hold at least one cell. The VGA writer starts on
the last row of whatever the firmware left; used before `init` it computes the address
of its buffer without the offset of the HHDM, and the page fault ends in a panic.

## Runs

| Run | Instance | States | What it shows |
|---|---|---|---|
| `buddy` | orders 0..2, eight pages in up to two regions, the bitmap covering six, three allocations | 279,135 | blocks never overlap, no page is lost, pair bits are exact, unlinked buddies are on the list, everything is coalesced except across regions that were given separately, statistics are exact, PageAllocator is implemented; every operation ends, and the machine panics only when a region passes the bitmap |
| `tlsf_mapping` | the real SLI = 5, sizes 32 to 2304 in steps of 8, all pairs | 81,225 | a block in a class that is searched always fits; a block larger by a thirty-second of the request is never missed |
| `tlsf` | a pool of eleven units, four live blocks | 143,802 | headers tile the pool, lists and both bitmaps hold exactly the free blocks, the only panic is that of a size past the classes, and MemoryPool is implemented (so callers' memory is disjoint), if frees come in the restricted order |
| `tlsf_order`, `tlsf_align` | sixteen units | violation | findings below |
| `slab` | slabs of three objects, six pages, aligned and misaligned base, other callers taking pages | 63,200 | chains, partial list both ways, header recovery, page ownership with the release of empty slabs, `None` only when no slot and no block that could become a slab is left; MemoryPool is implemented |
| `page_tables` | Fan = 4, 24 frames, LAPIC and framebuffer present or not, a pool that others may drain to 0, 1 or 2 frames | 9,798 | tables are a tree of owned frames, frames are accounted for, the TLB is coherent, AddressSpace is implemented: in particular a map that succeeds takes effect |
| `page_tables_huge`, `page_tables_guard` | as above, the HHDM over the devices with large pages; with small pages | violation | findings below |
| `interrupts` | timer with four kinds of callback, an unhandled line, IRQ 7 and 15, sleeps of one and two ticks | 472,842 | exact acknowledgement; guards nest; a masked line stays masked, but for what the unlocked `unmask_irq` writes back; handlers, callbacks and panics end except when they interrupt the holder of their lock; sleeps end, unless the timer's callback masks the line before the last tick; a registered callback is called again and again |
| `boot` | all maps of five regions of three types, or of six of which the last is dropped, three images, every place of the stack | 359,816 | no page in use is ever free, none is donated twice, all that may be is donated in the end, the new tables map every page of the allocator, with enough memory within the bitmap boot does not panic |
| `console` | framebuffers of 2x1 and 2x3 cells (the latter with margins and padding) and one that is ignored, texts of up to seven bytes, before and after both inits | 71,082 | the screen shows the end of the text, wrapped as a definition without a cursor says; nothing is written past the framebuffer |

**Why the bounds are enough.** Three orders give a block a split of two levels and
a merge of two levels; two regions give a seam inside a pair; six pages make the
last block of a region smaller than its alignment, and the last two lie past the
bitmap of order 0 but not of order 1, so that a split can be what panics. The TLSF pool holds four blocks and
the remainder: prev, block and next free or in use in every combination. A slab
of three objects is empty, partial in two ways and full, and three slabs put
one in the middle of the partial list. Fan = 4 has four levels of tables with shared
and separate prefixes; zero to two frames left make `map` fail at every level.
A sleep of two ticks has a first and a last one, which is all that what happens in between
can depend on, and two guards have an outer and an inner one; the timer is the line with the highest priority and the two spurious lines lie
below it on either controller, so that a mask lost to `unmask_irq` (7 and 0 share a
port) and one that cannot be (15) both occur. The bounds in Boot put region bounds and image bounds inside and on
pages. The last region lies past the bitmap of order 0 when the base is low, in the bitmap of
the higher orders: whole blocks there are accepted, and both kinds of panic over the bitmap
occur, as do maps with `Enough` memory and a boot stack that waits. Heap, stack and tables
have different orders. Seven bytes fill
and scroll three rows of two columns and end in every column, with and without a
newline.

**Fairness.** `buddy` assumes weak fairness of the step of whoever holds the
lock: nothing inside an operation blocks. `interrupts` assumes weak fairness of the
handler and of the PIT, which is periodic; strong fairness of the thread, because a
handler takes much less than a tick and the thread gets the time between; and
strong fairness of delivery, because the line stays requested whenever interrupts
are enabled again. Nothing is assumed about how often the thread enables interrupts:
`CallbackReached` has that as a premise. Nothing is assumed of other devices. The other runs check safety only.
Deadlock is checked in all of them: a halted machine is the explicit step `Halted`.

## Findings

Each is a run that TLC refutes.

* `tlsf_order` (tlsf.rs:206): `dealloc` does not update `prev_phys` of the block behind a
  merged one. If that block is freed later it merges with a header that no longer
  exists, and the same memory is given to two callers.
* `tlsf_align` (tlsf.rs:187): for an alignment above 8 bytes `alloc` moves the pointer and
  `dealloc` cannot find the header again.
* `page_tables_huge` (walker.rs:116): `descend_or_create` follows a large page as if it were
  a table. `map` returns `Ok` and the page keeps Limine's translation and protection.
* `page_tables_guard` (pml4.rs:44): the guard page below the kernel's stack is
  unmapped in Limine's tables, which are replaced in the next step by tables that
  map it.

Divergences that the models contain but that have no run of their own:

* Buddy blocks are aligned relative to the base only, which is page-aligned;
  slab.rs:29 relies on absolute alignment. `grow` notices, gives the block back and
  fails, so a cache of order 1 or more on a misaligned base always returns `None`,
  although the page allocator has blocks: slab.rs:349 says that it cannot satisfy the
  request. `NoneOnlyWhenExhausted` therefore counts only blocks that could become a slab.
* A slab of one object is never released (slab.rs:243, `PagesAccounted`).
* `free_bytes` of the slab statistics grows with every `dealloc` and shrinks with no `alloc` (slab.rs:255; Slab has the
  statistics, no run checks them).
* A TLSF request of 1 GiB or more panics on an index (tlsf.rs:141); `PanicsOnlyOverSize`
  says that nothing else does.
* `install_kernel_pml4` drops the mappings of the device windows: the LAPIC's is
  gone although apic.rs:46 requires it, and the tables made for it are lost
  (`orphans` in PageTables).
* `mask_irq` and the serial writer hold their locks with interrupts enabled; a
  handler, a callback or a panic that wants them spins for ever (the exceptions in
  `HandlersEnd`); so does the panic of a fault inside the panic handler's print.
* `unmask_irq` takes no lock although `mask_irq` does: a line that a callback masks
  between its two port accesses is unmasked again (the exception in `MasksStick`).
* A callback that masks the timer's line while the thread sleeps leaves it spinning in
  `sleep_ms` for ever (timer.rs:49, the exception in `SleepEnds`).
* limine_data.rs:371-372 says that after `release` the boot stack is in the free pool;
  limine_data.rs:398-401 skips its region, which `kernel_main_continue` donates
  (`NothingInUseFree` needs the code's way).
* Nothing checks the memory map against the allocator's reach. A region below the
  lowest usable one, or a block past the bitmap of its order, is a panic in `add_region`; a
  larger block past the bitmap of order 0 is accepted and is a panic when it is
  split (buddy.rs:155, heap.rs:66; `Enough` in `BootSucceeds`).
* `harvest` drops entries after the 512th. If the boot stack lies in one of them, the
  kernel's tables do not map it and the switch to them is the end (`BootSucceeds` has it as a premise).
* The VGA writer used before `init` faults; vga_buffer.rs:10 asks for the order.
* `pic::init` unmasks lines that have no IDT entry.
* `store` after `take` panics, although its message speaks of a missing `take`
  (post_stack_state.rs:73).
* `print!` never falls back to the VGA writer (docs/plan.md:62-63): without a framebuffer
  of 32 bits the output is dropped.
* `rsdp_phys` is kept after `release` may have given its page away (main.rs:143).

## Proofs

All theorems hold for every value of the constants that the named assumptions of the
modules allow; the runs evaluate these assumptions on their instances. An inductive
invariant was checked with TLC on the instance of its run before it was proved.

**Buddy** (BuddyProofs), for every number of orders, every bitmap
size, every set of bases and every value of the bounds:

* `BuddyInvariant`: `Spec => []IndInv`;
* `BuddyNoOverlap`: no page is in two blocks, be they free, held or in the hand of
  the operation in progress;
* `BuddyNoPageLost`: the blocks hold exactly the pages of the regions;
* `BuddyBits`: a pair's bit is one exactly if one of the two is on the list;
* `BuddyUnlink`: `dealloc_pages` unlinks a buddy only if it is on the list;
* `BuddyContract`: `Spec => []ContractInv`;
* `BuddyCoalesced`: two buddies are both free only where a region begins between them;
* `BuddyStats`: between calls the statistics count the pages held and the pages listed;
* `BuddyPanics`: an operation in progress panics only over a region past the bitmap;
* `BuddyRefinesPageAllocator`: the allocator implements PageAllocator.

From `MaxOrderAssumption` (at least one order), `Pow2Assumption` (`Pow2` is the table
of powers of two) and `BoundsAssumption` (the bounds are numbers, a base is not 0:
`add_region` asserts it).

None of the invariants is inductive alone. That the bit tells the truth needs lists without
duplicates and aligned blocks (or a pair would have a third member); that merging
makes no overlap needs the bit; that the buddy is on the list when the bit is
set needs that the block in hand is not, which is `NoOverlap` with the block in hand
counted as a block. `IndInv` is their conjunction with `TypeOK`, `BlocksAligned`
and `BaseFixed` (an address turns back into the index it came from; the locals are in
range); all but `TypeOK` and `BaseFixed` are claimed only short of a panic, since
`free_block` links the node before the bitmap index panics. `Core` is that conjunction
in the form the steps use, with one lemma per action. Arithmetic (`BuddyFacts`,
`HalvesFacts`, `ParentFacts`) and bitmaps (`ToggleOnAdd`, `ToggleOnRemove`) are lemmas of
their own, and so is what push, pop and unlink do to a list (`PushFrontProps`,
`PopFrontProps`, `UnlinkProps`).

`ContractInv` adds what callers are promised. Coalescing is not inductive either: while
`add_region` cuts a region into blocks, the lower of two buddies is listed before the
upper one is reached. `AddInv` says why they never both end up listed: the loop would
have taken the larger block, unless the lower one lies before the region. It also says
that no free block reaches across the region's first page, which is what makes that
page a seam. A refusal is right because aligned blocks are nested or apart: if an
aligned run of free pages inside a region is covered by smaller blocks, two of them
are buddies with no seam between them, which `Coalesced` excludes. In the refinement
the pages that an operation has in hand count as free until it ends.

**Slab** (SlabProofs), for every slab order, object size, header, set of bases and number
of pages, from `SlabAssumption` (sizes are positive, `Pow2` is the table of powers) and
`RoomAssumption` (a slab holds an object; `grow` asserts it):

* `SlabInvariant`: `Spec => []SlabInv`;
* `SlabFreeLists`, `SlabPartialList`, `SlabHeaders`, `SlabPages`, `SlabRefusals`: the
  invariants `FreeListSound`, `PartialExact`, `HeaderRecovered`, `PagesAccounted` and
  `NoneOnlyWhenExhausted` of the run;
* `SlabIsPool`: the cache implements MemoryPool.

`SlabInv` says of each slab that its chain is an ordering of the free slots and that
objects and free slots add up to its capacity; of each object that it is a slot of an
aligned slab; of the partial list that it is an ordering of the slabs that are not
full; and of the pages that the blocks handed out lie apart, each with one owner. The
parts need each other: `alloc` may read the link only because the head of a slab on the
list is a free slot, which needs that the count and the chain agree; `dealloc` writes
the right header only because slabs are aligned and their blocks apart; and a slab may
be dropped only because its count says that no object is left in it. Chains and lists
are handled as finite orderings (`Lists`), with lemmas for putting an element in front
and for taking one out anywhere; `ChainTake`, `ChainPut`, `LinkListed` and
`UnlinkListed` are what the code's pointer writes do to them. That a refusal means
exhaustion needs the list to be exact: `alloc` has seen only that it is empty, and the slots of
the other slabs are in use because every slab with a free one would be on it. MemoryPool follows from
two state predicates of the invariant: `LiveApart` (objects share no unit) and
`OwnedApart` (no unit of an object is a header's or lies in a page of somebody else).

**TLSF size classes** (TlsfMappingProofs), for every number of classes per power of two
(`SLIAssumption`), every request and every block size (`SizesAssumption`: the grid is one of
positive numbers):

* `SearchedClassAlwaysFits`: `SearchedClassFits`;
* `SearchAlwaysMissesLittle`: `SearchMissesLittle`.

The logarithm is the greatest exponent whose power does not exceed the size; that there is
one, and that it grows with the size, is shown by least counterexamples over the table of
powers. Rounding up adds one less than a class width, so it crosses into the next class
exactly when the request is not the first size of its own.

**TLSF** (TlsfProofs), for every size of the pool, every number of lists and every set of
requests, from `TlsfAssumption`, `SLIAssumption` and `PoolAssumption`, and for `Restricted`:
frees keep to the order of the run `tlsf`, and no alignment above 8 bytes is asked for.
Where either is given up the heap is damaged: these are the findings `tlsf_order` and
`tlsf_align`.

* `TlsfInvariant`: `Restricted /\ Spec => []Safe`;
* `TlsfTiled`, `TlsfLists`, `TlsfPanics`: the invariants `PoolTiled`, `ListsMatchPool` and
  `PanicsOnlyOverSize` of the run;
* `TlsfCallersDisjoint`: no two callers hold the same unit, the property that fails in
  `tlsf_order`;
* `TlsfIsPool`: the heap implements MemoryPool.

`Safe` says that there is a set of addresses, the blocks, that is `Sound`, and that each
caller holds a block of its own that is in use and large enough. `Sound` has four parts. The
blocks tile the pool up to the sentinel (`Tiles`). What a header says of the block before it
is true (`Flags`), except of a block that the operation in progress has in hand: a merge
goes to `prev_phys` unseen, so without this part the next free destroys the tiling. No two free blocks touch (`Coalesced`),
which is why one merge on each side is enough. And the lists (`Linked`) hold each free block
once, in the class of its size, `next` and `prev` are inverse and the bitmaps have a bit for
each list that is not empty; that no list has a cycle is said by a rank that falls along
`next`. The parts need each other: `remove_free` finds the list by the size in the header, so a
size may change only while the block is on no list; the block that `find_free` returns is large
enough by the size classes, so the subtraction in `alloc` does not wrap; the header of a
remainder falls on no other header because the blocks tile the pool, and neither does what
a caller writes into its block. An operation is followed through its pointer writes: `dealloc`
opens a gap, closes it to the left or the right and files what results; `alloc` claims a
block, and splits it or not. The walk over the pool and the walk along a list, which the
invariants of the run are made of, are loops; that they meet exactly the blocks, and exactly
the free blocks of a class, is shown by least counterexamples. The refinement of MemoryPool
needs only that the units lent out are apart from each other and from the headers.

**Boot** (BootProofs), for every set of memory maps, every place of image and boot stack and
every size of the bitmap, from `BootAssumption` (sizes are numbers), `OrderAssumption` (`Pow2`
is the table of powers) and `MapsAssumption`
(entries that are usable now or later do not overlap; Limine's protocol promises it for
usable and bootloader-reclaimable entries, for ACPI-reclaimable ones it is assumed):

* `BootInvariant`: `Spec => []IndInv`;
* `BootNothingInUseFree`, `BootDonatedOnce`, `BootAllReclaimed`, `BootPoolMapped`: four
  invariants of the run.

`IndInv` ties the donated pages to the place in `kernel_main`: they are exactly the
shares of the entries in `Given`, a set that is a function of `pc`, of the loop's index
and of the two readings of the stack pointer. The stack's region is in it only at the
end, because both readings lie in the stack and the entries do not overlap, so both find
the same entry. That nothing is donated twice is a count: the total that `add_region` keeps
equals the number of pages donated.

**Interrupts** (InterruptsProofs), for every set of devices, spurious lines, callbacks, masked
lines and any number of guards, from `InterruptsAssumption` (lines are those of two
controllers, callbacks of the four kinds, the timer fires):

* `InterruptsInvariant`: `Spec => []IndInv`;
* `AcknowledgedExactly`, `GuardsNested`, `MasksKept`: `InServiceMatches`, `GuardsNest` and the
  action property `MasksStick`.

`ServiceInv` lists what may be in service at each point of a handler, `GuardInv` what each
level of guards has saved (only the outermost has seen interrupts on), `MaskInv` that what
`mask_irq` has read is still so when it writes, because it has the lock.

**PageTables** (PageTablesProofs), for every fan-out, memory map, place of the devices, set of
pages that the kernel maps and bootloader, from `PageTablesAssumption` (what is mapped fits
the address space; the HHDM fits one entry of the root) and `LimineAssumption` (above), and
for `ClearOfLarge`: no page is mapped where a large page lies. That is true of the run
`page_tables`; what happens otherwise is the finding `page_tables_huge`.

* `PageTablesInvariant`: `Spec => []PTInv`;
* `PageTablesOwned`, `PageTablesAccounted`, `PageTablesTlb`: the invariants `TablesOwned`,
  `FramesAccounted` and `TlbCoherent` of the run;
* `PageTablesEffect`: `MapTakesEffect`, so that large pages are the only reason why it
  fails in `page_tables_huge`;
* `PageTablesRefine`: the tables implement AddressSpace.

`PTInv` says that the tables are a tree by levels (`Tree`): each table of a level is led to
by one entry of the level above, the levels share no frame, and only the middle two have
large pages. A count of tables and entries, as in `TablesOwned`, follows from it but would
not survive a step. The tree has to be apart from the free frames, or `alloc_zero_frame`
would clear a table in use. While booting, the tables lie in Limine's frames or in
`orphans`, which is why Limine's frames may be reclaimed once CR3 has left them; and nothing
in them is global, which is why loading CR3 empties the TLB. Afterwards only pages of
the HHDM are large. A step down is either an entry that is followed or a new empty
table (`Grows`), which changes no translation; so a path that ends early for want of a
frame changes none either. The written leaf changes its own page only because two pages
that reach the same entry of the same table have the same four indices, which makes them
equal (`PathsMeet`, `SameDigits`). The loop of `map_hhdm_2m` is a recursive function; what
it has done after each iteration (`HhdmLoop`) is shown by a least counterexample.

**Console** (ConsoleProofs), for every size of cell, every geometry of the framebuffer, every
size of the VGA buffer and every text, from `ConsoleAssumption` (a framebuffer holds at least
one cell and its scanlines hold their pixels; newline is none of the replaced bytes):

* `ConsoleInvariant`: `Spec => []ConsoleInv`;
* `ConsoleFbShows`, `ConsoleNoWildWrites`, `ConsoleVgaShows`: the invariants `FbShowsText`,
  `NoWildWrites` and `VgaShowsText` of the run.

What a screen shows does not determine where the next byte goes, so `ConsoleInv` adds the
cursors: the column is one past the place of the last byte in its row (`ColOf`), and may
be past the row, because the writers wrap only when the next byte comes. The specification
of the screen looks at the whole text, with a count of rows and a distance to the last
newline; `IntoNext` and `RowNext` say how both grow by one byte, `AddByte` and `AddNewline`
where that byte belongs and that nothing else belongs there (`BeforeCol`). A string is a
loop over its bytes (`FbLoop`, `VgaLoop`), with the invariant after each. The framebuffer's offsets
turn into cells by quotient and remainder (`CellIs`, `RowAtIs`, `Below`), which also gives
that `draw_char`, `scroll_up` and `clear_row` stay inside the memory: whole rows of cells fit the
height, whatever the margins and the pitch.

Only model-checked:

* Liveness and termination (`OperationsEnd`, `HandlersEnd`, `SleepEnds`, `CallbackReached`):
  fairness is beyond the prover.
* `BootSucceeds`: it counts blocks that are left after others are taken, for which the
  prover would need the buddy's whole argument again on sets of blocks.

Where an argument needs induction (powers of two divide each other, a loop does what it
should, a list has an end) it is made by a least counterexample, since the provers cannot
instantiate the library's induction theorems.

## Not modelled

* `seastar`, `pincer` and `bitwise` are submodules without contents. Where a model needs
  them (page-table entries, the interrupt-safe mutex) it uses what their callers rely on.
* `process.rs`: the table is in `seastar`; what is here is one `Once`, and calls
  forwarded to the slab.
* `gdt.rs`: constants loaded once.
* `os_constants.rs`, `dead_code/pmm.rs`, `memory/main.rs` and
  `writers/limine_data.rs`: not in the build.
* The counters of `stats.rs`: nothing in the kernel reads them.
* The registers of the local APIC (`apic.rs`): after `init_lapic` nothing uses them.
  `disable_pic`, the spurious vector and the mapping of the window are modelled.
* Exceptions that return (debug, breakpoint, overflow) only count.
* In `harvest`, what is not the memory map: the framebuffer's description, the RSDP and
  the bootloader's strings are copied and printed, nothing depends on them.
* The keyboard's decoder is an external crate, and what it decodes is dropped.

## Plan

1. Done: Buddy with PageAllocator, TLSF, Slab, PageTables with AddressSpace,
   Interrupts, Boot, Console; the buddy's invariants proved.
2. Done: the callbacks of dispatch.rs, a panic that is hit again and the race of the mask
   ports in Interrupts; MemoryPool, implemented by Slab and Tlsf; the links of the
   partial list in Slab; the limit of the memory map and the reach of the kernel's
   tables in Boot; the VGA writer's `init`.
3. Done: the contract of the buddy allocator, with PageAllocator; Slab with MemoryPool;
   Boot; the safety of Interrupts; PageTables with AddressSpace, for mappings that meet no
   large page.
4. Done: the size classes; Tlsf with MemoryPool, for frees in the restricted order and
   requests without alignment; Console. Every invariant but `BootSucceeds` and every refinement
   that a passing run checks is now a theorem, and so is the action property `MasksStick`.

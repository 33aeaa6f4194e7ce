----------------------------- MODULE PageTables -----------------------------
(***************************************************************************)
(* The four-level page tables: PageTableWalker of mantle/src/walker.rs,    *)
(* install_kernel_pml4 of mantle/src/pml4.rs, and the order in which       *)
(* kernel_main of src/main.rs uses them while it boots.                    *)
(*                                                                         *)
(* Pages and frames are numbers.  The tables have Fan entries; a large     *)
(* page at level 2 maps Fan frames, one at level 3 Fan^2.  A frame holds   *)
(* what was last written to it as a table, and is read as a table whatever *)
(* it is.  The kernel image and the device windows are one page each.      *)
(***************************************************************************)
EXTENDS Integers, FiniteSets, FiniteSetsExt

CONSTANTS
    Fan,         \* entries of a table (512)
    RamFrames,   \* frames of RAM
    MapEnd,      \* the end of the memory map, reserved regions included
    LimineRoot,  \* the frame of the bootloader's root table
    LimineMem,   \* memory with the bootloader's tables in it
    LimineFrames, \* the frames that the bootloader keeps its tables in
    Lapic, Fb,   \* frames of the LAPIC and of the framebuffer
    RunPages,    \* the pages that the running kernel maps and unmaps
    RunFrames,   \* the frames it maps them to
    TlbPages,    \* the pages whose translations the TLB may hold
    MmioLens,    \* the lengths of the windows it maps
    HogSizes     \* how many frames other callers may leave in the pool

(* How many pages an entry of a table of each level stands for. *)
Span == <<1, Fan, Fan * Fan, Fan * Fan * Fan>>

VirtPages == 0..(Fan * Span[4] - 1)

ASSUME PageTablesAssumption ==
    /\ Fan \in Nat \ {0, 1}
    /\ RamFrames \in Nat \ {0} /\ MapEnd \in RamFrames..(Span[4] - Fan)
    /\ {Lapic, Fb} \subseteq RamFrames..(Span[4] - 1)
    /\ RunPages \cup TlbPages \subseteq VirtPages /\ RunFrames \subseteq Nat
    /\ MmioLens \subseteq Nat /\ HogSizes \subseteq Nat
    /\ \A v \in RunPages, n \in MmioLens : v + n - 1 \in VirtPages

VARIABLES
    mem,        \* the frames, as tables
    pool,       \* the free frames of the buddy allocator
    cr3,
    tlb,        \* the translations that the CPU has cached
    pc,         \* where kernel_main is
    lapic,      \* init_lapic has been given its page
    guard,      \* the frame of the stack's guard page, or -1
    mmio,       \* what map_mmio still has to map
    hogged,     \* frames that other callers hold
    orphans,    \* frames of tables made before the kernel's own were installed
    last        \* what the call before has mapped or unmapped

vars == <<mem, pool, cr3, tlb, pc, lapic, guard, mmio, hogged, orphans, last>>

(* map_hhdm_2m maps whole large pages. *)
Rounded == ((MapEnd + Fan - 1) \div Fan) * Fan
Frames == 0..(Rounded - 1)
Ram    == 0..(RamFrames - 1)
Index  == 0..(Fan - 1)
Unmapped == -1

NotPresent == [present |-> FALSE, huge |-> FALSE, frame |-> 0, prot |-> "none"]

Leaf(f, prot) == [present |-> TRUE, huge |-> FALSE, frame |-> f, prot |-> prot]
Huge(f, prot) == [present |-> TRUE, huge |-> TRUE, frame |-> f, prot |-> prot]

(* No call of the walker has changed a page in this step. *)
NoCall == [page |-> Unmapped, leaf |-> NotPresent]

EmptyTable == [i \in Index |-> NotPresent]

(* vaddr_pt_index *)
At(v, level) == (v \div Span[level]) % Fan

(* The page of frame f in the HHDM, and the page of the kernel image. *)
Hhdm(f) == Span[4] + f
Image   == 0

(* Protection: only the kernel's own mappings are global. *)
Global(prot) == prot = "kernel"

-----------------------------------------------------------------------------
(* Walking and building tables: a walk has a memory, the free frames, the    *)
(* table it has come to, and whether it could go on.                         *)

Walk(m, p, root) == [mem |-> m, pool |-> p, at |-> root, ok |-> TRUE]

(* Mutant of DescendOrCreate: the new table is not zeroed. *)
DescendOrCreateUnzeroed(w, v, level) ==
    LET e == w.mem[w.at][At(v, level)]
        f == Min(w.pool)
    IN  IF ~w.ok THEN w
        ELSE IF e.present THEN [w EXCEPT !.at = e.frame]
        ELSE IF w.pool = {} THEN [w EXCEPT !.ok = FALSE]
        ELSE [mem |-> [w.mem EXCEPT ![w.at][At(v, level)] = Leaf(f, "table")],
              pool |-> w.pool \ {f}, at |-> f, ok |-> TRUE]

(* An entry that is present is followed, large page or not. *)
DescendOrCreate(w, v, level) ==
    LET e == w.mem[w.at][At(v, level)]
        f == Min(w.pool)
    IN  IF ~w.ok THEN w
        ELSE IF e.present THEN [w EXCEPT !.at = e.frame]
        ELSE IF w.pool = {} THEN [w EXCEPT !.ok = FALSE]
        ELSE [mem |-> [w.mem EXCEPT ![f] = EmptyTable,
                                    ![w.at][At(v, level)] = Leaf(f, "table")],
              pool |-> w.pool \ {f}, at |-> f, ok |-> TRUE]

ToTable(w, v, level) ==
    LET w3 == DescendOrCreate(w, v, 4)
        w2 == DescendOrCreate(w3, v, 3)
    IN  IF level = 2 THEN w2 ELSE DescendOrCreate(w2, v, 2)

MapPage(w, v, f, prot) ==
    LET t == ToTable(w, v, 1)
    IN  IF t.ok THEN [t EXCEPT !.mem[t.at][At(v, 1)] = Leaf(f, prot)] ELSE t

(* walk_existing: stop at what is not present or is a large page. *)
Existing(m, table, v, level) ==
    LET e == IF table = Unmapped THEN NotPresent ELSE m[table][At(v, level)]
    IN  IF e.present /\ ~e.huge THEN e.frame ELSE Unmapped

LeafTable(v) ==
    Existing(mem, Existing(mem, Existing(mem, cr3, v, 4), v, 3), v, 2)

(* translate, and what the MMU does: the leaf for page v. *)
Lookup(m, root, v) ==
    LET e4 == m[root][At(v, 4)]
        e3 == m[e4.frame][At(v, 3)]
        e2 == m[e3.frame][At(v, 2)]
        e1 == m[e2.frame][At(v, 1)]
    IN  IF ~e4.present \/ ~e3.present THEN NotPresent
        ELSE IF e3.huge THEN Leaf(e3.frame + At(v, 2) * Fan + At(v, 1), e3.prot)
        ELSE IF ~e2.present THEN NotPresent
        ELSE IF e2.huge THEN Leaf(e2.frame + At(v, 1), e2.prot)
        ELSE IF e1.present THEN e1 ELSE NotPresent

Translate(v) == Lookup(mem, cr3, v)

Invlpg(v) == tlb' = {t \in tlb : t.page # v}

UnmapPage(v) ==
    IF LeafTable(v) = Unmapped THEN last' = NoCall /\ UNCHANGED <<mem, tlb>>
    ELSE /\ mem' = [mem EXCEPT ![LeafTable(v)][At(v, 1)] = NotPresent]
         /\ last' = [page |-> v, leaf |-> NotPresent]
         /\ Invlpg(v)

-----------------------------------------------------------------------------
(* map_hhdm_2m of pml4.rs: one large page, and the loop. *)
MapLarge(w, f, prot) ==
    LET t == ToTable(w, Hhdm(f), 2)
    IN  IF t.ok THEN [t EXCEPT !.mem[t.at][At(Hhdm(f), 2)] = Huge(f, prot)] ELSE t

MapHhdm(w, prot) ==
    LET Upto[n \in 0..(Rounded \div Fan)] ==
            IF n = 0 THEN w
            ELSE MapLarge([Upto[n - 1] EXCEPT !.at = w.at], (n - 1) * Fan, prot)
    IN  [Upto[Rounded \div Fan] EXCEPT !.at = w.at]

ImageFrame == RamFrames - 1

BuildTables(w) ==
    LET root == Min(w.pool)       \* alloc_zero_frame
        w1 == [mem |-> [w.mem EXCEPT ![root] = EmptyTable], pool |-> w.pool \ {root},
               at |-> root, ok |-> TRUE]
        w2 == MapPage(MapHhdm(w1, "kernel"), Image, ImageFrame, "kernel")
    IN  IF w.pool = {} THEN [w EXCEPT !.ok = FALSE] ELSE [w2 EXCEPT !.at = root]

-----------------------------------------------------------------------------
(* The entries of some tables that lead to tables, and these. *)
Links(ts, m) == {x \in ts \X Index : m[x[1]][x[2]].present /\ ~m[x[1]][x[2]].huge}
Below(ts, m) == {m[x[1]][x[2]].frame : x \in Links(ts, m)}

Prots   == {"none", "table", "limine", "uc", "wc", "kernel"}
Entries == [present : BOOLEAN, huge : BOOLEAN, frame : Nat, prot : Prots]

(* What the bootloader hands over: a tree of tables in frames that it keeps, *)
(* with large pages only where the CPU allows them, and nothing of it global. *)
ASSUME LimineAssumption ==
    /\ LimineMem \in [Frames -> [Index -> Entries]]
    /\ LimineFrames \subseteq Ram \ {ImageFrame}
    /\ LET t4 == {LimineRoot}
           t3 == Below(t4, LimineMem)
           t2 == Below(t3, LimineMem)
           t1 == Below(t2, LimineMem)
           links == Links(t4 \cup t3 \cup t2, LimineMem)
       IN  /\ t4 \cup t3 \cup t2 \cup t1 \subseteq LimineFrames
           /\ LimineRoot \notin t3 \cup t2 \cup t1
           /\ t3 \cap t2 = {} /\ t3 \cap t1 = {} /\ t2 \cap t1 = {}
           /\ \A x, y \in links :
                  LimineMem[x[1]][x[2]].frame = LimineMem[y[1]][y[2]].frame => x = y
           /\ \A t \in t4 \cup t1, i \in Index : ~LimineMem[t][i].huge
           /\ \A t \in t3 \cup t2 \cup t1, i \in Index : LimineMem[t][i].prot # "kernel"

-----------------------------------------------------------------------------
NoMmio == [page |-> 0, frame |-> 0, left |-> 0]

(* The n lowest frames of a set. *)
Lowest(n, fs) == {f \in fs : Cardinality({g \in fs : g < f}) < n}

Init ==
    /\ mem = LimineMem /\ cr3 = LimineRoot
    /\ LET usable == Ram \ (LimineFrames \cup {ImageFrame})
       IN  \E n \in HogSizes \cup {RamFrames} :
               pool = Lowest(n, usable) /\ hogged = usable \ pool
    /\ tlb = {} /\ pc = "lapic" /\ lapic = FALSE /\ guard = Unmapped
    /\ mmio = NoMmio /\ orphans = {} /\ last = NoCall

(* A device page mapped while booting; without frames kernel_main panics. *)
BootMap(f, prot, next) ==
    LET w == MapPage(Walk(mem, pool, cr3), Hhdm(f), f, prot)
    IN  /\ mem' = w.mem /\ pool' = w.pool
        /\ orphans' = orphans \cup (pool \ w.pool)
        /\ pc' = IF w.ok THEN next ELSE "panic"
        /\ last' = IF w.ok THEN [page |-> Hhdm(f), leaf |-> Leaf(f, prot)] ELSE NoCall
        /\ IF w.ok THEN Invlpg(Hhdm(f)) ELSE UNCHANGED tlb
        /\ UNCHANGED <<cr3, guard, mmio, hogged>>

MapLapic == pc = "lapic" /\ lapic' = TRUE /\ BootMap(Lapic, "uc", "fb")
NoLapic  == pc = "lapic" /\ pc' = "fb" /\ last' = NoCall
            /\ UNCHANGED <<mem, pool, cr3, tlb, lapic, guard, mmio, hogged, orphans>>

MapFb == pc = "fb" /\ BootMap(Fb, "wc", "stack") /\ UNCHANGED lapic
NoFb  == pc = "fb" /\ pc' = "stack" /\ last' = NoCall
         /\ UNCHANGED <<mem, pool, cr3, tlb, lapic, guard, mmio, hogged, orphans>>

(* alloc_kernel_stack: a block of the buddy allocator (here of two frames), *)
(* whose lowest frame is the guard page.                                     *)
StackBlocks == {f \in pool : f % 2 = 0 /\ f + 1 \in pool}

AllocStack ==
    LET f == Min(StackBlocks)
    IN  /\ pc = "stack" /\ StackBlocks # {}
        /\ pool' = pool \ {f, f + 1}
        /\ UnmapPage(Hhdm(f))
        /\ guard' = f
        /\ pc' = "pml4"
        /\ UNCHANGED <<cr3, lapic, mmio, hogged, orphans>>

NoStack ==
    /\ pc = "stack" /\ StackBlocks = {} /\ pc' = "panic" /\ last' = NoCall
    /\ UNCHANGED <<mem, pool, cr3, tlb, lapic, guard, mmio, hogged, orphans>>

(* Mutant of InstallPml4: the TLB is not flushed. *)
InstallPml4NoFlush ==
    LET w == BuildTables(Walk(mem, pool, cr3))
    IN  /\ pc = "pml4"
        /\ mem' = w.mem /\ pool' = w.pool
        /\ pc' = IF w.ok THEN "release" ELSE "panic"
        /\ cr3' = IF w.ok THEN w.at ELSE cr3
        /\ last' = NoCall
        /\ UNCHANGED <<tlb, lapic, guard, mmio, hogged, orphans>>

(* Loading CR3 flushes what is not global. *)
InstallPml4 ==
    LET w == BuildTables(Walk(mem, pool, cr3))
    IN  /\ pc = "pml4"
        /\ mem' = w.mem /\ pool' = w.pool
        /\ pc' = IF w.ok THEN "release" ELSE "panic"
        /\ cr3' = IF w.ok THEN w.at ELSE cr3
        /\ tlb' = {t \in tlb : Global(t.prot)}
        /\ last' = NoCall
        /\ UNCHANGED <<lapic, guard, mmio, hogged, orphans>>

(* Mutant of Release: Limine's frames are reclaimed before its tables are    *)
(* given up.                                                                 *)
ReleaseEarly ==
    /\ pc = "stack"
    /\ pool' = pool \cup LimineFrames
    /\ last' = NoCall
    /\ UNCHANGED <<mem, cr3, tlb, pc, lapic, guard, mmio, hogged, orphans>>

(* LimineData::release: the frames of Limine's tables become free. *)
Release ==
    /\ pc = "release" /\ pc' = "run"
    /\ pool' = pool \cup LimineFrames
    /\ last' = NoCall
    /\ UNCHANGED <<mem, cr3, tlb, lapic, guard, mmio, hogged, orphans>>

-----------------------------------------------------------------------------
(* The running kernel. *)

(* Mutant of Map: a path that could not be finished is not linked.           *)
MapLeaks(v, f, prot) ==
    LET w == MapPage(Walk(mem, pool, cr3), v, f, prot)
    IN  /\ mem' = IF w.ok THEN w.mem ELSE mem
        /\ pool' = w.pool
        /\ IF w.ok THEN Invlpg(v) ELSE UNCHANGED tlb
        /\ last' = IF w.ok THEN [page |-> v, leaf |-> Leaf(f, prot)] ELSE NoCall
        /\ UNCHANGED <<cr3, pc, lapic, guard, hogged, orphans>>

Map(v, f, prot) ==
    LET w == MapPage(Walk(mem, pool, cr3), v, f, prot)
    IN  /\ mem' = w.mem /\ pool' = w.pool
        /\ IF w.ok THEN Invlpg(v) ELSE UNCHANGED tlb
        /\ last' = IF w.ok THEN [page |-> v, leaf |-> Leaf(f, prot)] ELSE NoCall
        /\ UNCHANGED <<cr3, pc, lapic, guard, hogged, orphans>>

MapOne(v, f, prot) ==
    pc = "run" /\ mmio.left = 0 /\ Map(v, f, prot) /\ UNCHANGED mmio

(* map_mmio of n pages, one after the other; an error in one ends it, with   *)
(* the pages before mapped.                                                  *)
MapMmio(v, f, n) ==
    /\ pc = "run" /\ mmio.left = 0 /\ mmio' = [page |-> v, frame |-> f, left |-> n]
    /\ last' = NoCall
    /\ UNCHANGED <<mem, pool, cr3, tlb, pc, lapic, guard, hogged, orphans>>

MmioPage ==
    /\ mmio.left > 0
    /\ Map(mmio.page, mmio.frame, "uc")
    /\ mmio' = IF last' = NoCall \/ mmio.left = 1 THEN NoMmio
               ELSE [page |-> mmio.page + 1, frame |-> mmio.frame + 1, left |-> mmio.left - 1]

Unmap(v) ==
    /\ pc = "run" /\ mmio.left = 0
    /\ UnmapPage(v)
    /\ UNCHANGED <<pool, cr3, pc, lapic, guard, mmio, hogged, orphans>>

(* The CPU uses a page and caches its translation. *)
Access(v) ==
    LET e == Translate(v)
    IN  /\ e.present /\ \A t \in tlb : t.page # v
        /\ tlb' = tlb \cup {[page |-> v, frame |-> e.frame, prot |-> e.prot]}
        /\ UNCHANGED <<mem, pool, cr3, pc, lapic, guard, mmio, hogged, orphans, last>>

(* Other callers of the buddy allocator leave n frames, and give all back. *)
Hog(n) ==
    /\ pc = "run" /\ mmio.left = 0 /\ hogged = {} /\ Cardinality(pool) > n
    /\ pool' = Lowest(n, pool) /\ hogged' = pool \ pool'
    /\ UNCHANGED <<mem, cr3, tlb, pc, lapic, guard, mmio, orphans, last>>

Unhog ==
    /\ pc = "run" /\ mmio.left = 0 /\ hogged # {}
    /\ pool' = pool \cup hogged /\ hogged' = {}
    /\ UNCHANGED <<mem, cr3, tlb, pc, lapic, guard, mmio, orphans, last>>

(* The panic handler halts. *)
Halted == pc = "panic" /\ UNCHANGED vars

Next ==
    \/ MapLapic \/ NoLapic \/ MapFb \/ NoFb \/ AllocStack \/ NoStack \/ InstallPml4 \/ Release
    \/ \E v \in RunPages, f \in RunFrames : MapOne(v, f, "kernel")
    \/ \E v \in RunPages, f \in RunFrames, n \in MmioLens : MapMmio(v, f, n)
    \/ MmioPage
    \/ \E v \in RunPages : Unmap(v)
    \/ \E v \in TlbPages : Access(v)
    \/ \E n \in HogSizes : Hog(n)
    \/ Unhog \/ Halted

Spec == Init /\ [][Next]_vars

-----------------------------------------------------------------------------
(* The pages whose translations the properties follow: those in use, and of  *)
(* the others one that shares each number of tables with a page in use.      *)
Pages ==
    VirtPages \cap ({v + d : v \in RunPages, d \in {0, 1, Fan, Fan * Fan}} \cup {Image}
                   \cup {Hhdm(f) : f \in 0..(MapEnd - 1) \cup {Lapic, Fb}})

(* The tables of each level under CR3. *)
T4 == {cr3}
T3 == Below(T4, mem)
T2 == Below(T3, mem)
T1 == Below(T2, mem)
Tables == T4 \cup T3 \cup T2 \cup T1

(* The frames of the stack that kernel_main has made. *)
Stack == IF guard = Unmapped THEN {} ELSE {guard, guard + 1}

(* The tables form a tree of frames of their own: no two entries lead to the *)
(* same table, and no table is in the pool, with another caller or in the    *)
(* stack.  A table reclaimed while CR3 still leads to it would break it.     *)
TablesOwned ==
    /\ Cardinality(Tables) = 1 + Cardinality(Links(T4 \cup T3 \cup T2, mem))
    /\ Tables \cap (pool \cup hogged \cup Stack) = {}

(* Every frame of RAM is free, with another caller, a table in use, in the   *)
(* stack or the image, or Limine's; besides these only the tables made for   *)
(* device pages before the kernel's own tables were installed are lost.      *)
FramesAccounted ==
    pc # "panic" =>
        Ram \subseteq pool \cup hogged \cup Tables \cup Stack \cup {ImageFrame}
                      \cup orphans
                      \cup (IF pc = "run" THEN {} ELSE LimineFrames)

(* The TLB never holds a translation that the tables do not. *)
TlbCoherent ==
    \A t \in tlb : Translate(t.page) = Leaf(t.frame, t.prot)

Abstract == INSTANCE AddressSpace WITH
    KernelMap <- [v \in Pages |-> IF v = Image THEN Leaf(ImageFrame, "kernel")
                                  ELSE IF v \in {Hhdm(f) : f \in Frames}
                                       THEN Leaf(v - Hhdm(0), "kernel")
                                  ELSE NotPresent],
    mapped <- [v \in Pages |-> Translate(v)],
    installed <- pc \in {"release", "run"}

(* The tables implement the abstract address space: a call maps or unmaps    *)
(* its own page and leaves the translation of every other alone, a call that *)
(* runs out of frames halfway down changes no translation, and the tables    *)
(* that CR3 is loaded with map the HHDM and the image.                       *)
RefinesAddressSpace == Abstract!Spec

(* The documentation of map (walker.rs, line 127): it maps vaddr to phys     *)
(* with prot; so after a call that succeeds vaddr translates to phys with    *)
(* prot, and after an unmap that finds its entry to nothing.                 *)
MapTakesEffect == last # NoCall => Translate(last.page) = last.leaf

(* The documentation of KernelStack::guard_virt (stack.rs, line 10): the     *)
(* page is unmapped while the kernel runs on the stack above it.             *)
GuardUnmapped == pc = "run" => ~Translate(Hhdm(guard)).present

=============================================================================

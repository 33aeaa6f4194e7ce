--------------------------- MODULE PageAllocator ---------------------------
(***************************************************************************)
(* What a page allocator that hands out naturally aligned blocks of 2^k    *)
(* pages promises its callers, with no lists and no bitmaps: a set of free *)
(* pages, the blocks that callers hold, and when a request may be refused. *)
(* Page numbers are relative to the base of the index space.               *)
(*                                                                         *)
(* A refusal is the promise that takes coalescing to keep: a request is    *)
(* refused only when no aligned run of free pages inside one donated       *)
(* region could serve it.                                                  *)
(***************************************************************************)
EXTENDS Integers

CONSTANTS MaxOrder, Pow2

VARIABLES
    free,       \* the pages nobody holds
    held,       \* the blocks that callers hold
    regions,    \* the regions donated so far
    refused     \* order of the last request if it was refused, else -1

vars == <<free, held, regions, refused>>

Orders == 0..(MaxOrder - 1)

Pages(b) == b.page..(b.page + Pow2[b.order] - 1)

RegionPages(r) == r.start..(r.start + r.size - 1)

Aligned(b) == b.page % Pow2[b.order] = 0

Init ==
    /\ free = {}
    /\ held = {}
    /\ regions = {}
    /\ refused = -1

Donate(r) ==
    /\ \A q \in regions : RegionPages(q) \cap RegionPages(r) = {}
    /\ regions' = regions \cup {r}
    /\ free' = free \cup RegionPages(r)
    /\ UNCHANGED <<held, refused>>

Alloc(b) ==
    /\ Aligned(b)
    /\ Pages(b) \subseteq free
    /\ free' = free \ Pages(b)
    /\ held' = held \cup {b}
    /\ refused' = -1
    /\ UNCHANGED regions

Servable(k) ==
    \E r \in regions : \E p \in RegionPages(r) :
        LET b == [page |-> p, order |-> k]
        IN  Aligned(b) /\ Pages(b) \subseteq free \cap RegionPages(r)

Refuse(k) ==
    /\ ~Servable(k)
    /\ refused' = k
    /\ UNCHANGED <<free, held, regions>>

Free(b) ==
    /\ held' = held \ {b}
    /\ free' = free \cup Pages(b)
    /\ UNCHANGED <<regions, refused>>

Next ==
    \/ \E r \in regions' : Donate(r)
    \/ \E b \in held' : Alloc(b)
    \/ \E k \in Orders : Refuse(k)
    \/ \E b \in held : Free(b)

Spec == Init /\ [][Next]_vars

=============================================================================

----------------------------- MODULE MemoryPool -----------------------------
(***************************************************************************)
(* What an allocator promises to its callers: a block that is handed out   *)
(* lies apart from every block in use and from all memory that is not the  *)
(* allocator's to give, or holds its own records, and stays so until it is *)
(* given back.  Whether a request is served is left open.  Slab and Tlsf   *)
(* implement this specification.                                           *)
(***************************************************************************)
EXTENDS Integers

VARIABLES
    blocks,     \* the blocks that callers hold: records [ptr, size]
    outside     \* addresses: nobody may be given them now

Extent(b) == b.ptr..(b.ptr + b.size - 1)

Owned(bs) == UNION {Extent(b) : b \in bs}

Alloc(b) ==
    /\ Extent(b) \cap Owned(blocks) = {}
    /\ blocks' = blocks \cup {b}

Free(b) ==
    /\ b \in blocks
    /\ blocks' = blocks \ {b}

Init == blocks = {}

Next ==
    /\ \/ \E b \in blocks' \ blocks : Alloc(b)
       \/ \E b \in blocks \ blocks' : Free(b)
       \/ UNCHANGED blocks
    /\ Owned(blocks') \cap outside' = {}

Spec == Init /\ [][Next]_<<blocks, outside>>

=============================================================================

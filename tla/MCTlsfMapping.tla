--------------------------- MODULE MCTlsfMapping ---------------------------
(* The size classes, checked for every pair of a request and a block size. *)
EXTENDS TlsfMapping

CONSTANTS MinSize, MaxSize, Grain

ASSUME SizesAssumption == {MinSize, MaxSize, Grain} \subseteq Nat \ {0}

VARIABLES request, block

pair == <<request, block>>

SizesChecked == {n \in MinSize..MaxSize : n % Grain = 0}

FirstPair == request \in SizesChecked /\ block = MinSize

(* Move on to the next block size. *)
NextBlock ==
    /\ block < MaxSize
    /\ block' = block + Grain
    /\ UNCHANGED request

LastBlock == block >= MaxSize /\ UNCHANGED pair

Pairs == FirstPair /\ [][NextBlock \/ LastBlock]_pair

(* Every block filed in the class where find_free starts, or in a later one, *)
(* is large enough for the request: `block_size.wrapping_sub(size)` in alloc *)
(* never wraps.                                                              *)
SearchedClassFits ==
    ClassLeq(MappingSearch(request), Mapping(block)) => block >= request

(* The price of rounding up is bounded: a block that exceeds the request by  *)
(* one part in 2^SLI of it, which is at least the width of its class, is     *)
(* found.                                                                    *)
SearchMissesLittle ==
    block * Pow2[SLI] >= request * (Pow2[SLI] + 1) =>
        ClassLeq(MappingSearch(request), Mapping(block))

=============================================================================

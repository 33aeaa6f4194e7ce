---------------------------- MODULE TlsfMapping ----------------------------
(***************************************************************************)
(* The size classes of abalone/src/tlsf.rs.  A size with leading bit fl    *)
(* falls into one of 2^SLI classes of that power of two; find_free starts  *)
(* at the class of the size rounded up to the next class boundary, so that *)
(* every block of that class is large enough.                              *)
(***************************************************************************)
EXTENDS Integers

CONSTANT SLI    \* SL_INDEX_COUNT: log2 of the classes per power of two

ASSUME SLIAssumption == SLI \in Nat

(* 1 << k. *)
Pow2[k \in Nat] == IF k = 0 THEN 1 ELSE 2 * Pow2[k - 1]

(* The index of the leading bit: BITS - 1 - leading_zeros. *)
Log2(n) == CHOOSE k \in 0..n : Pow2[k] <= n /\ n < Pow2[k + 1]

(* Both branches of the shift are one division by 2^fl after a shift left. *)
Mapping(size) ==
    LET fl == Log2(size)
    IN  <<fl, ((size * Pow2[SLI]) \div Pow2[fl]) % Pow2[SLI]>>

(* Mutant of MappingSearch: no rounding up. *)
MappingSearchUnrounded(size) == Mapping(size)

(* Mutant of MappingSearch: rounding up by a class too many. *)
MappingSearchTwice(size) ==
    Mapping(size + IF size >= Pow2[SLI] THEN 2 * Pow2[Log2(size) - SLI] ELSE 0)

MappingSearch(size) ==
    Mapping(size + IF size >= Pow2[SLI] THEN Pow2[Log2(size) - SLI] - 1 ELSE 0)

(* Classes in the order in which find_free visits them. *)
ClassLeq(c, d) == c[1] < d[1] \/ (c[1] = d[1] /\ c[2] <= d[2])

=============================================================================

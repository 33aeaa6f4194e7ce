------------------------------- MODULE MCSlab -------------------------------
(* Small instances of Slab. *)
EXTENDS Slab

TwoToThe == [k \in 0..Order |-> 2^k]

=============================================================================

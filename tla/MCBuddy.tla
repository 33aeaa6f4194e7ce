------------------------------ MODULE MCBuddy ------------------------------
(* Small instances of Buddy. *)
EXTENDS Buddy

TwoToThe == [k \in 0..MaxOrder |-> 2^k]

=============================================================================

------------------------------- MODULE MCBoot -------------------------------
(* Boot over all memory maps of five regions between fixed bounds, not all   *)
(* of them on a page, or of six, of which the last is one more than harvest  *)
(* keeps; with the image inside a region, in all of its pages, and over      *)
(* pages that it only partly fills.                                          *)
EXTENDS Boot

CONSTANTS Types

Bounds == <<0, 3, 16, 22, 32, 41, 47>>

MCMaps ==
    {[k \in DOMAIN t |-> [base |-> Bounds[k], end |-> Bounds[k + 1], type |-> t[k]]] :
     t \in [1..5 -> Types] \cup {Append(t, "bootloader") : t \in [1..5 -> Types]}}

MCImages == {[start |-> 16, end |-> 21], [start |-> 25, end |-> 26], [start |-> 35, end |-> 36]}

TwoToThe == [k \in 0..MaxOrder |-> 2^k]

=============================================================================

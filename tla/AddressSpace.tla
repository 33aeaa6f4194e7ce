---------------------------- MODULE AddressSpace ----------------------------
(***************************************************************************)
(* What the page-table walker promises: a function from pages to leaves    *)
(* (frame and protection).                                                 *)
(* Mapping or unmapping a page changes that page and no other, a call that *)
(* fails changes none, and the tables are replaced as a whole only once.   *)
(***************************************************************************)
CONSTANTS
    NoCall,     \* `last` when no call has changed a page
    KernelMap   \* the translations of the tables that the kernel installs

VARIABLES mapped, installed, last

vars == <<mapped, installed, last>>

(* `last` is what the call before asked for, if it succeeded. *)
Set ==
    /\ last' # NoCall
    /\ mapped' = [mapped EXCEPT ![last'.page] = last'.leaf]
    /\ UNCHANGED installed

Fail == last' = NoCall /\ UNCHANGED <<mapped, installed>>

Install ==
    /\ ~installed /\ installed' = TRUE
    /\ mapped' = KernelMap
    /\ last' = NoCall

Spec == ~installed /\ last = NoCall /\ [][Set \/ Fail \/ Install]_vars

=============================================================================

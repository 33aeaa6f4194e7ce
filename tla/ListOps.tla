------------------------------ MODULE ListOps ------------------------------
(***************************************************************************)
(* What the intrusive doubly linked lists of abalone/src/buddy.rs do, as   *)
(* operations on duplicate-free sequences with the head first: the linking *)
(* in `free_block`, the unlinking of the head in `alloc_pages` and of a    *)
(* buddy in `dealloc_pages`.  The next and prev pointers themselves are    *)
(* abstracted away.                                                        *)
(***************************************************************************)
EXTENDS Naturals, Sequences

Elems(s) == {s[i] : i \in DOMAIN s}

NoDup(s) == \A i, j \in DOMAIN s : s[i] = s[j] => i = j

PushFront(s, x) == <<x>> \o s

PopFront(s) == Tail(s)

(***************************************************************************)
(* Unlinking a node that is on the list removes it and keeps the order of  *)
(* the others.                                                             *)
(***************************************************************************)
Unlink(s, x) ==
    LET i == CHOOSE i \in DOMAIN s : s[i] = x
    IN  [j \in 1..(Len(s) - 1) |-> IF j < i THEN s[j] ELSE s[j + 1]]

=============================================================================

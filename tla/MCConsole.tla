----------------------------- MODULE MCConsole -----------------------------
(* Console with cells of 2 by 2 pixels, on a framebuffer that is a whole     *)
(* number of cells, on one with margins and padding, and on one that the     *)
(* kernel ignores.                                                           *)
EXTENDS Console

MCGeometries ==
    {[width |-> 4, height |-> 2, pitch |-> 4, bpp |-> 32],
     [width |-> 5, height |-> 7, pitch |-> 6, bpp |-> 32],
     [width |-> 4, height |-> 4, pitch |-> 4, bpp |-> 16]}

Bytes == Printable \cup Other \cup {NL}

MCStrings == {<<b>> : b \in Bytes} \cup {<<b, NL>> : b \in Bytes}

=============================================================================

---------------------------- MODULE MCPageTables ----------------------------
(* PageTables for TLC, with the tables that Limine would build: the HHDM and *)
(* the kernel image, in frames of its own.                                   *)
EXTENDS PageTables

CONSTANTS
    LimineHuge  \* whether Limine maps its HHDM with 2 MiB pages

MapHhdm4k(w, prot) ==
    LET Upto[n \in 0..MapEnd] ==
            IF n = 0 THEN w
            ELSE MapPage([Upto[n - 1] EXCEPT !.at = w.at], Hhdm(n - 1), n - 1, prot)
    IN  [Upto[MapEnd] EXCEPT !.at = w.at]

Limine ==
    LET w == Walk([f \in Frames |-> EmptyTable], Ram \ {0, ImageFrame}, 0)
        h == IF LimineHuge THEN MapHhdm(w, "limine") ELSE MapHhdm4k(w, "limine")
    IN  MapPage(h, Image, ImageFrame, "limine")

MCLimineMem    == Limine.mem
MCLimineFrames == Ram \ (Limine.pool \cup {ImageFrame})

=============================================================================

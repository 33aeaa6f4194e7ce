------------------------------ MODULE Console ------------------------------
(***************************************************************************)
(* The two text writers: FbWriter of src/writers/framebuffer.rs, which     *)
(* print! and println! end in, and Writer of src/writers/vga_buffer.rs.    *)
(*                                                                         *)
(* The framebuffer is memory of Pitch * Height pixels, addressed by        *)
(* offset; a pixel is black or one of the pixels of a glyph.  Colours are  *)
(* left out, except that black is the background.  Each print runs with    *)
(* its lock held and interrupts off (module Interrupts) and is one action. *)
(***************************************************************************)
EXTENDS Integers, Sequences, FiniteSets

CONSTANTS
    CharW, CharH,          \* CHAR_W and CHAR_H
    Geometries,            \* framebuffers: records [width, height, pitch, bpp]
    VgaWidth, VgaHeight,   \* BUFFER_WIDTH and BUFFER_HEIGHT
    Printable, Other,      \* bytes: 0x20..0x7e, and all but these and \n
    Strings,               \* what is printed, as sequences of bytes
    MaxText                \* bound: how many bytes are printed

NL == "\n"

ASSUME ConsoleAssumption ==
    /\ {CharW, CharH, VgaWidth, VgaHeight} \subseteq Nat \ {0} /\ MaxText \in Nat
    /\ Strings \subseteq Seq(Printable \cup Other \cup {NL}) /\ NL \notin Other
    /\ \A g \in Geometries : /\ {g.width, g.height, g.pitch} \subseteq Nat
                             /\ CharW <= g.width /\ CharH <= g.height /\ g.width <= g.pitch

VARIABLES
    info,       \* the framebuffer that Limine has set up
    started,    \* init_from_info has been called
    fb,         \* [on, mem, col, row, wild]: the writer, if on, and its memory
    text,       \* what has been printed since it is on
    vga,        \* [cells, col, hhdm]: the VGA writer, its buffer, HHDM_OFFSET
    vtext,      \* what has been printed with it
    dead        \* a page fault has ended in a panic

vars == <<info, started, fb, text, vga, vtext, dead>>

Black == <<>>
Blank == " "

-----------------------------------------------------------------------------
(* The framebuffer writer, as operators on w = fb. *)

(* Mutant of Rows: a row that fits only in part is counted. *)
RowsUp == (info.height + CharH - 1) \div CharH

Cols == info.width \div CharW
Rows == info.height \div CharH

Memory == 0..(info.height * info.pitch - 1)

(* Write the pixels, a function of offsets; `wild` if one lies outside. *)
Poke(w, pixels) ==
    [w EXCEPT !.mem  = [o \in Memory |-> IF o \in DOMAIN pixels THEN pixels[o] ELSE @[o]],
              !.wild = @ \/ ~(DOMAIN pixels \subseteq Memory)]

(* What is read; outside it is somebody else's. *)
Peek(w, o) == IF o \in Memory THEN w.mem[o] ELSE <<"outside">>

(* The offsets of CharH scanlines, whole with their padding. *)
RowAt(r) == (r * CharH * info.pitch)..((r + 1) * CharH * info.pitch - 1)

Offset(x, y) == y * info.pitch + x

Glyph(c, x, y) == <<c, x, y>>

DrawChar(w, c) ==
    LET x0 == w.col * CharW
        y0 == w.row * CharH
        cell == {Offset(x0 + gx, y0 + gy) : gx \in 0..(CharW - 1), gy \in 0..(CharH - 1)}
    IN  Poke(w, [o \in cell |-> Glyph(c, (o % info.pitch) - x0, (o \div info.pitch) - y0)])

ClearRow(w, r) == Poke(w, [o \in RowAt(r) |-> Black])

(* Mutant of ScrollUp: the last row is not cleared. *)
ScrollUpOnly(w) ==
    Poke(w, [o \in UNION {RowAt(r) : r \in 0..(Rows - 2)} |-> Peek(w, o + CharH * info.pitch)])

(* Each row is copied to the one above, from the top down, so that no row is *)
(* read after it is written.                                                 *)
ScrollUp(w) ==
    LET above == UNION {RowAt(r) : r \in 0..(Rows - 2)}
    IN  ClearRow(Poke(w, [o \in above |-> Peek(w, o + CharH * info.pitch)]), Rows - 1)

NewLine(w) ==
    IF w.row + 1 >= Rows THEN [ScrollUp(w) EXCEPT !.col = 0, !.row = Rows - 1]
    ELSE [w EXCEPT !.col = 0, !.row = @ + 1]

WriteByte(w, b) ==
    IF b = NL THEN NewLine(w)
    ELSE LET v == IF w.col >= Cols THEN NewLine(w) ELSE w
         IN  [DrawChar(v, b) EXCEPT !.col = @ + 1]

(* write_str replaces what is neither printable nor a newline. *)
Shown(b) == IF b \in Other THEN "?" ELSE b

WriteStr(w, s) ==
    LET After[i \in 0..Len(s)] == IF i = 0 THEN w ELSE WriteByte(After[i - 1], Shown(s[i]))
    IN  After[Len(s)]

-----------------------------------------------------------------------------
(* The VGA writer, as operators on v = vga. *)

(* Mutant of VgaNewLine: the last row is not cleared. *)
VgaNewLineOnly(v) ==
    [v EXCEPT !.cells = [p \in DOMAIN @ |->
                             IF p[1] = VgaHeight - 1 THEN @[p] ELSE @[<<p[1] + 1, p[2]>>]],
              !.col = 0]

(* Every row moves up and the last is cleared. *)
VgaNewLine(v) ==
    [v EXCEPT !.cells = [p \in DOMAIN @ |->
                             IF p[1] = VgaHeight - 1 THEN Blank ELSE @[<<p[1] + 1, p[2]>>]],
              !.col = 0]

VgaWriteByte(v, b) ==
    IF b = NL THEN VgaNewLine(v)
    ELSE LET u == IF v.col >= VgaWidth THEN VgaNewLine(v) ELSE v
         IN  [u EXCEPT !.cells[<<VgaHeight - 1, u.col>>] = b, !.col = @ + 1]

(* 0xfe, a square, for what is neither printable nor a newline. *)
VgaShown(b) == IF b \in Other THEN "0xfe" ELSE b

VgaWriteString(v, s) ==
    LET After[i \in 0..Len(s)] == IF i = 0 THEN v ELSE VgaWriteByte(After[i - 1], VgaShown(s[i]))
    IN  After[Len(s)]

-----------------------------------------------------------------------------
(* The VGA buffer still shows what the firmware wrote. *)
Firmware == "firmware"

Init ==
    /\ info \in Geometries /\ started = FALSE
    /\ fb = [on |-> FALSE, mem |-> <<>>, col |-> 0, row |-> 0, wild |-> FALSE]
    /\ vga = [cells |-> [p \in (0..(VgaHeight - 1)) \X (0..(VgaWidth - 1)) |-> Firmware],
              col |-> 0, hhdm |-> FALSE]
    /\ text = <<>> /\ vtext = <<>> /\ dead = FALSE

Room(s) == ~dead /\ Len(text) + Len(vtext) + Len(s) <= MaxText

(* init_from_info: only framebuffers of 32 bits per pixel are used. *)
InitFromInfo ==
    /\ ~dead /\ ~started /\ started' = TRUE
    /\ fb' = IF info.bpp # 32 THEN fb
             ELSE [fb EXCEPT !.on = TRUE, !.mem = [o \in Memory |-> Black]]
    /\ UNCHANGED <<info, text, vga, vtext, dead>>

(* framebuffer::_print; what is printed while there is no writer is dropped. *)
FbPrint(s) ==
    /\ Room(s)
    /\ IF fb.on THEN fb' = WriteStr(fb, s) /\ text' = text \o s
       ELSE UNCHANGED <<fb, text>>
    /\ UNCHANGED <<info, started, vga, vtext, dead>>

(* vga_buffer::init. *)
VgaInit ==
    /\ ~dead /\ ~vga.hhdm /\ vga' = [vga EXCEPT !.hhdm = TRUE]
    /\ UNCHANGED <<info, started, fb, text, vtext, dead>>

(* Writer::write_str; the first use of WRITER takes the address of its       *)
(* buffer from HHDM_OFFSET, and without that nothing is mapped there.        *)
VgaWrite(s) ==
    /\ Room(s)
    /\ IF vga.hhdm THEN vga' = VgaWriteString(vga, s) /\ vtext' = vtext \o s /\ UNCHANGED dead
       ELSE dead' = TRUE /\ UNCHANGED <<vga, vtext>>
    /\ UNCHANGED <<info, started, fb, text>>

(* The bound is reached, or the kernel has panicked. *)
Full == (\A s \in Strings : ~Room(s)) /\ UNCHANGED vars

Next ==
    \/ InitFromInfo \/ VgaInit
    \/ \E s \in Strings : FbPrint(s) \/ VgaWrite(s)
    \/ Full

Spec == Init /\ [][Next]_vars

-----------------------------------------------------------------------------
(* Where a text t belongs on rows of n columns, without a cursor: byte i is  *)
(* so far into its line, and a row starts with every line and with every     *)
(* n-th byte of one.                                                         *)
Into(t, i) == CHOOSE k \in 0..(i - 1) :
    /\ \A j \in (i - k)..(i - 1) : t[j] # NL
    /\ k = i - 1 \/ t[i - k - 1] = NL

RowOf(t, i, n) ==
    Cardinality({j \in 1..i : t[j] = NL \/ (Into(t, j) > 0 /\ Into(t, j) % n = 0)})

(* The bytes that belong in column c of row r: one at most. *)
BytesAt(t, r, c, n) ==
    {i \in 1..Len(t) : t[i] # NL /\ RowOf(t, i, n) = r /\ Into(t, i) % n = c}

(* The framebuffer shows the last rows of the text, the first of them at its *)
(* top, wrapped where a line is too long, with no empty row after a line     *)
(* that just fits; every other pixel is black, in the margins and between    *)
(* the scanlines too.                                                        *)
FbShowsText ==
    fb.on =>
        LET last == RowOf(text, Len(text), Cols)
            top  == IF last < Rows THEN 0 ELSE last - (Rows - 1)
        IN  \A o \in Memory :
                LET x  == o % info.pitch
                    y  == o \div info.pitch
                    at == IF x < Cols * CharW /\ y < Rows * CharH
                          THEN BytesAt(text, top + (y \div CharH), x \div CharW, Cols) ELSE {}
                IN  IF at = {} THEN fb.mem[o] = Black
                    ELSE \A i \in at : fb.mem[o] = Glyph(Shown(text[i]), x % CharW, y % CharH)

(* No byte is ever written past the framebuffer's memory, which is all that  *)
(* kernel_main has mapped.                                                   *)
NoWildWrites == ~fb.wild

(* The VGA buffer shows the last rows of its text, the last of them at the   *)
(* bottom, and above it what the firmware left; in the first row printed the *)
(* firmware's text stays behind the end of the line.                         *)
VgaShowsText ==
    LET last == RowOf(vtext, Len(vtext), VgaWidth)
    IN  \A p \in DOMAIN vga.cells :
            LET r  == last - (VgaHeight - 1) + p[1]
                at == BytesAt(vtext, r, p[2], VgaWidth)
            IN  IF at = {} THEN vga.cells[p] = IF r <= 0 THEN Firmware ELSE Blank
                ELSE \A i \in at : vga.cells[p] = VgaShown(vtext[i])

=============================================================================

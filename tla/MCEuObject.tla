----------------------------- MODULE MCEuObject -----------------------------
(* EuObject on small files.                                                *)
EXTENDS EuObject

File(cells) ==
    [cell |-> [c \in 0..Limit - 1 |-> IF c < Len(cells) THEN cells[c + 1] ELSE Hole],
     size |-> Len(cells)]
H(type, off, size, align) ==
    [ZeroShdr EXCEPT !.type = type, !.off = off, !.size = size, !.align = align]

(* Two sections and no program headers; one section behind one program     *)
(* header; nothing.                                                        *)
Two == File(<< [ZeroEhdr EXCEPT !.ident = TRUE, !.shnum = 3, !.shoff = 4],
               Byte("x"), Byte("y"), Byte("z"),
               ZeroShdr, H("PROGBITS", 1, 1, 1), H("PROGBITS", 2, 2, 1) >>)
Segment == File(<< [ZeroEhdr EXCEPT !.ident = TRUE, !.shnum = 2, !.shoff = 4,
                                    !.phnum = 1, !.phoff = 1],
                   [ZeroPhdr EXCEPT !.v = "old"], Byte("x"), Fill,
                   ZeroShdr, H("PROGBITS", 2, 1, 1) >>)
Empty == File(<< >>)
MCImages == {Two, Segment, Empty}
MCHeaders == {[type |-> "PROGBITS", align |-> 2], [type |-> "SYMTAB", align |-> 1],
              [type |-> "NOBITS", align |-> 1]}
MCContents == {<<Byte("a")>>, <<Byte("b"), Byte("c")>>}
=============================================================================

---------------------------- MODULE MCEuContents ----------------------------
(* EuContents on sections of a few cells.                                  *)
EXTENDS EuContents

a == Char("a")
b == Char("b")
Image(type, z, cells, align) ==
    [type |-> type, alloc |-> FALSE, z |-> z, cells |-> cells, size |-> Len(cells),
     align |-> align, offset |-> 8, new |-> FALSE]
Strings == <<NUL, a, a, NUL>>
Symbols == <<a, a, a, b>>
Zipped == <<Chdr(4, 2), Pad, Stream(Strings)>>

\* Without an alignment, with one above the offset in the file (a power of 2,
\* or not), with one that is kept.
MCImages ==
    { Image("STRTAB", FALSE, Strings, 0),
      [Image("SYMTAB", FALSE, Symbols, 8) EXCEPT !.offset = 4],
      [Image("SYMTAB", FALSE, Symbols, 8) EXCEPT !.offset = 6],
      Image("STRTAB", TRUE, Zipped, 2),
      [Image("STRTAB", FALSE, << >>, 1) EXCEPT !.new = TRUE, !.offset = 0] }
\* Sections that compression refuses: not compressed as they say, loaded,
\* without contents.
MCOddImages ==
    { Image("STRTAB", TRUE, [Zipped EXCEPT ![1].size = 3], 1),
      Image("STRTAB", TRUE, [Zipped EXCEPT ![1].type = "other"], 1),
      Image("STRTAB", TRUE, <<Pad>>, 1),
      [Image("SYMTAB", FALSE, Symbols, 1) EXCEPT !.alloc = TRUE],
      [Image("NOBITS", FALSE, << >>, 1) EXCEPT !.size = 4] }
MCAllImages == MCImages \cup MCOddImages
MCDescriptors ==
    [mapped : {TRUE}, native : BOOLEAN, aligned : BOOLEAN, class : {32}, based : {FALSE}]
    \cup [mapped : {FALSE}, native : BOOLEAN, aligned : {TRUE}, class : {64}, based : {FALSE}]
    \cup [mapped : {TRUE}, native : {TRUE}, aligned : {FALSE}, class : {64}, based : {TRUE}]
MCContents == {<<a, b, NUL>>}
=============================================================================

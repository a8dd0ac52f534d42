------------------------------ MODULE EuObject ------------------------------
(***************************************************************************)
(* One ELF object of elfutils' libelf: what the functions that change it   *)
(* leave in memory, and what elf_update() makes of it in the file.         *)
(*                                                                         *)
(* The file is an array of cells.  A header of any kind takes one cell, a  *)
(* section's contents one cell a byte.  Opened with ELF_C_RDWR_MMAP the    *)
(* file is mapped shared, and the headers and the sections' data are       *)
(* pointers into it: what is stored through them is in the file at once.   *)
(* Opened otherwise they are copies.  Byte order and alignment in memory   *)
(* are those of the host; the conversions are in Translate.                *)
(***************************************************************************)
EXTENDS Integers, Sequences, SequencesExt, FiniteSets

CONSTANTS
    Limit,          \* cells the file may have (a bound)
    Images,         \* the files a program may start with
    Cmds,           \* the ways it opens them
    NSCNSALLOC,     \* sections the first block of a new object has room for
    PN_XNUM, SHN_LORESERVE,
    Contents,       \* what a program puts in a section: sequences of values
    Aligns,         \* the alignments of the data it adds
    Headers,        \* the types and alignments it gives a section
    PhNums,         \* the program header counts it asks for
    Layouts,        \* whether it may lay the file out itself
    MaxScns, MaxPieces, MaxEdits, MaxUpdates, MaxFaults    \* bounds

ASSUME BoundsAssumption ==
    /\ Limit \in Nat /\ NSCNSALLOC \in Nat \ {0}
    /\ PN_XNUM \in Nat \ {0} /\ SHN_LORESERVE \in Nat \ {0}
    /\ {MaxScns, MaxPieces, MaxEdits, MaxUpdates, MaxFaults} \subseteq Nat

VARIABLES
    file,       \* [cell, size]: the file
    elf,        \* the descriptor, or NoElf
    want,       \* what the program put or found: [ph, scn]
    res,        \* the last call: [op, ok, size, whole]
    left        \* what is left of the bounds
vars == <<file, elf, want, res, left>>

NoElf == [fate |-> "closed"]
NULL == [at |-> "null"]
Hole == [k |-> "hole"]
Fill == [k |-> "fill"]
Junk == [k |-> "junk"]
Byte(v) == [k |-> "data", v |-> v]

(* Units of the layout: the sizes of the headers and SHDR_ALIGN. *)
EHSIZE == 1
PHSIZE == 1
SHSIZE == 1
SHDR_ALIGN == 2

ZeroEhdr == [k |-> "ehdr", ident |-> FALSE, shnum |-> 0, phnum |-> 0,
             phoff |-> 0, shoff |-> 0]
ZeroPhdr == [k |-> "phdr", v |-> "zero"]
ZeroShdr == [k |-> "shdr", type |-> "NULL", off |-> 0, size |-> 0,
             align |-> 0, ent |-> 0, info |-> 0]

TypeEnt(type) == IF type = "SYMTAB" THEN 2 ELSE 0

(***************************************************************************)
(* Pointers.  A header or a buffer is in memory of its own, or a place in  *)
(* the mapped file.                                                        *)
(***************************************************************************)
Mem(v) == [at |-> "mem", v |-> v]
Map(p) == [at |-> "map", pos |-> p]
Cells(f, pos, n) == [k \in 1..n |-> IF pos + k - 1 \in 0..Limit - 1
                                    THEN f.cell[pos + k - 1] ELSE Hole]
One(f, p) == IF p.at = "mem" THEN p.v ELSE f.cell[p.pos]
Many(f, p, n) == IF p.at = "mem" THEN p.v ELSE Cells(f, p.pos, n)
Put(f, pos, cells) ==
    [f EXCEPT !.cell = [c \in 0..Limit - 1 |->
        IF c - pos + 1 \in 1..Len(cells) THEN cells[c - pos + 1] ELSE @[c]]]
Filled(n) == [k \in 1..n |-> Fill]
Truncate(f, n) ==
    [cell |-> [c \in 0..Limit - 1 |-> IF c < n /\ c < f.size THEN f.cell[c]
                                      ELSE Hole],
     size |-> n]

(* m is a state of the descriptor and of the file: [elf, file]. *)
Ehdr(m) == One(m.file, m.elf.ehdr)
Shdr(m, i) == One(m.file, m.elf.scn[i].shdr)
NScn(m) == Len(m.elf.scn)

SetEhdr(m, h) == IF m.elf.ehdr.at = "mem" THEN [m EXCEPT !.elf.ehdr = Mem(h)]
                 ELSE [m EXCEPT !.file.cell[m.elf.ehdr.pos] = h]
SetShdr(m, i, h) ==
    IF m.elf.scn[i].shdr.at = "mem"
    THEN [m EXCEPT !.elf.scn[i].shdr = Mem(h)]
    ELSE [m EXCEPT !.file.cell[m.elf.scn[i].shdr.pos] = h]

Fault(m) == [m EXCEPT !.elf.fate = "undefined"]

(* The result of a function, and what is done next only if it succeeded. *)
Ok(m) == [ok |-> TRUE, m |-> m]
Fail(m) == [ok |-> FALSE, m |-> m]
Then(r, Next1(_)) == IF r.ok THEN Next1(r.m) ELSE r

(***************************************************************************)
(* Opening.                                                                *)
(***************************************************************************)

Scn(shdr, new) ==
    [shdr |-> shdr, shD |-> new, D |-> FALSE, own |-> new, read |-> new,
     raw |-> NULL, rawsize |-> 0, rawalign |-> 0, rawver |-> FALSE,
     dl |-> << >>]

(* An Elf_Data of a section; ver says that its d_version is set. *)
Piece(size, align, ver, buf, dirty) ==
    [off |-> 0, size |-> size, align |-> align, ver |-> ver, buf |-> buf,
     D |-> dirty]

(* get_shnum(): a count that does not fit is in section header 0; a table  *)
(* that is not all in the file does not exist.                             *)
get_shnum(f) ==
    LET e == f.cell[0]
        n == IF e.shnum = 0 /\ e.shoff \in 1..f.size - 1
             THEN f.cell[e.shoff].size
             ELSE e.shnum
    IN  IF e.shoff > f.size \/ f.size - e.shoff < n * SHSIZE THEN 0 ELSE n

(* write_file() of elf_begin.c: an object to be built from nothing. *)
write_file_new(cmd) ==
    [fate |-> "open", cmd |-> cmd, map |-> FALSE, maplen |-> 0, max |-> 0,
     ehdr |-> NULL, ehdrD |-> FALSE, phdr |-> NULL, phn |-> 0, phdrD |-> FALSE,
     D |-> TRUE, layout |-> FALSE, tab |-> 0, tabown |-> FALSE, scn |-> << >>,
     blocks |-> << [max |-> NSCNSALLOC, cnt |-> 0] >>, scnincr |-> NSCNSALLOC]

(* file_read_elf(): mapped for writing, the headers are used in place.  The *)
(* section headers of a file that is not mapped are read when needed.       *)
file_read_elf(f, cmd) ==
    LET mapped == cmd = "RDWR_MMAP"
        n == get_shnum(f)
        shoff == f.cell[0].shoff
    IN  [write_file_new(cmd) EXCEPT
            !.map = mapped, !.maplen = IF mapped THEN f.size ELSE 0,
            !.max = f.size, !.D = FALSE,
            !.ehdr = IF mapped THEN Map(0) ELSE Mem(f.cell[0]),
            !.scn = [i \in 1..n |->
                        Scn(IF mapped THEN Map(shoff + i - 1) ELSE NULL, FALSE)],
            !.tab = IF mapped THEN n ELSE 0,
            !.blocks = << [max |-> IF n = 0 THEN 1 ELSE n, cnt |-> n] >>]

(***************************************************************************)
(* Headers and data, read in when first needed.                            *)
(***************************************************************************)

(* load_shdr_wrlock() of elf32_getshdr.c reads as many headers as there are *)
(* sections now, and points every section of the first block at its own:    *)
(* with a section made since the file was opened it reads past the table    *)
(* and writes past the block.                                               *)
load_shdr(m) ==
    LET n == NScn(m)
        shoff == Ehdr(m).shoff
    IN  IF shoff + n * SHSIZE > m.file.size THEN Fail(m)
        ELSE IF n > m.elf.blocks[1].cnt THEN Fail(Fault(m))
        ELSE Ok([m EXCEPT !.elf.tab = n, !.elf.tabown = TRUE,
                    !.elf.scn = [i \in 1..n |-> [@[i] EXCEPT
                        !.shdr = Mem(m.file.cell[shoff + i - 1])]]])

(* elf32_getshdr() *)
getshdr(m, i) == IF m.elf.scn[i].shdr # NULL THEN Ok(m) ELSE load_shdr(m)

(* __libelf_set_rawdata_wrlock(): the file's contents of a section, with    *)
(* the alignment brought down to the section's offset.                      *)
RawData(m, i, h) ==
    LET al == IF h.align = 0 THEN 1 ELSE h.align
        there == h.size # 0 /\ h.type # "NOBITS"
    IN  IF there /\ \/ TypeEnt(h.type) # 0 /\ h.size % TypeEnt(h.type) # 0
                    \/ h.off > m.elf.max
                    \/ m.elf.max - h.off < h.size
        THEN Fail(m)
        ELSE Ok([m EXCEPT !.elf.scn[i] = [@ EXCEPT
                    !.read = TRUE, !.rawsize = h.size, !.rawver = TRUE,
                    !.rawalign = IF h.type # "NOBITS" /\ al > h.off THEN h.off
                                 ELSE al,
                    !.raw = IF ~there THEN NULL
                            ELSE IF m.elf.map THEN Map(h.off)
                            ELSE Mem(Cells(m.file, h.off, h.size))]])
set_rawdata(m, i) ==
    Then(getshdr(m, i), LAMBDA x : RawData(x, i, Shdr(x, i)))
read_rawdata(m, i) ==
    IF m.elf.scn[i].read THEN Ok(m) ELSE set_rawdata(m, i)

(* __libelf_set_data_list_rdlock() with convert_data() *)
set_data_list(m, i) ==
    LET s == m.elf.scn[i]
    IN  [m EXCEPT !.elf.scn[i].dl =
            << Piece(s.rawsize, s.rawalign, s.rawver,
                     IF s.raw = NULL THEN Mem(<< >>) ELSE s.raw, FALSE) >>]

(* __elf_getdata_rdlock(scn, NULL) *)
getdata(m, i) ==
    Then(read_rawdata(m, i), LAMBDA x : IF x.elf.scn[i].dl # << >> THEN Ok(x)
                                        ELSE Ok(set_data_list(x, i)))

(* __elf_getphdrnum_rdlock(): a count that does not fit is in section       *)
(* header 0, once that has been read.                                       *)
getphdrnum(m) ==
    IF Ehdr(m).phnum = PN_XNUM /\ NScn(m) > 0 /\ m.elf.scn[1].shdr # NULL
    THEN Shdr(m, 1).info ELSE Ehdr(m).phnum

(* __elf32_getphdr_wrlock() *)
getphdr(m) ==
    LET e == Ehdr(m)
        n == getphdrnum(m)
    IN  IF \/ m.elf.phdr # NULL
           \/ n = 0 \/ e.phoff = 0
           \/ e.phoff > m.elf.max \/ m.elf.max - e.phoff < n * PHSIZE
        THEN m
        ELSE [m EXCEPT !.elf.phn = n,
                !.elf.phdr = IF m.elf.map THEN Map(e.phoff)
                             ELSE Mem(Cells(m.file, e.phoff, n))]

(***************************************************************************)
(* Layout: elf32_updatenull.c.  A value is changed, and the flag given is  *)
(* set, only when it differs.                                              *)
(***************************************************************************)
PowerOf2(n) == n \in {0, 1, 2, 4, 8}
Up(n, a) == IF a = 0 THEN 0 ELSE ((n + a - 1) \div a) * a
MaxOf(a, b) == IF a > b THEN a ELSE b

(* default_ehdr(): what the library sets in every executable header. *)
default_ehdr(m) ==
    LET e == Ehdr(m)
        n == NScn(m)
        h == [e EXCEPT !.ident = TRUE,
                       !.shnum = IF n >= SHN_LORESERVE THEN 0 ELSE n,
                       !.phoff = IF e.phnum = 0 THEN 0 ELSE @]
    IN  [SetEhdr(m, h) EXCEPT !.elf.ehdrD = @ \/ h # e]

(* Mutant: blocks follow one another without alignment. *)
NullPieceUnaligned(layout, shsize, acc, p) ==
    IF acc.err \/ ~p.ver \/ ~PowerOf2(p.align) THEN [acc EXCEPT !.err = TRUE]
    ELSE LET at == IF layout THEN p.off ELSE acc.off
         IN  [err |-> layout /\ p.off + p.size > shsize,
              align |-> MaxOf(acc.align, p.align),
              off |-> IF layout THEN acc.off ELSE at + p.size,
              changed |-> acc.changed \/ at # p.off,
              dl |-> Append(acc.dl, [p EXCEPT !.off = at])]

(* The blocks of one section: each is placed at its alignment, or checked   *)
(* against the section's size when the program does the layout.             *)
NullPiece(layout, shsize, acc, p) ==
    IF acc.err \/ ~p.ver \/ ~PowerOf2(p.align) THEN [acc EXCEPT !.err = TRUE]
    ELSE LET at == IF layout THEN p.off ELSE Up(acc.off, p.align)
         IN  [err |-> layout /\ p.off + p.size > shsize,
              align |-> MaxOf(acc.align, p.align),
              off |-> IF layout THEN acc.off ELSE at + p.size,
              changed |-> acc.changed \/ at # p.off,
              dl |-> Append(acc.dl, [p EXCEPT !.off = at])]

Refuse(acc, m) == [acc EXCEPT !.m = m, !.err = TRUE]

(* One section: the entry size is put right, the data read in if it is not *)
(* yet, and the section placed.  Once one section has moved or grown, it   *)
(* and every section after it are marked.                                  *)
EntSet(m, i) ==
    LET h == Shdr(m, i)
        ent == IF TypeEnt(h.type) = 0 THEN h.ent ELSE TypeEnt(h.type)
    IN  [SetShdr(m, i, [h EXCEPT !.ent = ent]) EXCEPT
            !.elf.scn[i].shD = @ \/ ent # h.ent]

WholeEntries(h) == h.ent > 1 => h.size % h.ent = 0

(* The program did the layout: d is what was found in the section's blocks. *)
NullKept(acc, m, i, d) ==
    LET h == Shdr(m, i)
    IN  [m |-> [m EXCEPT !.elf.scn[i].dl = d.dl],
         changed |-> d.changed,
         size |-> IF h.type = "NOBITS" THEN acc.size
                  ELSE MaxOf(acc.size, h.off + h.size),
         err |-> ~WholeEntries(h)]

(* A section that moves is read from where it was. *)
NullPlaced(acc, m, i, d) ==
    LET h == Shdr(m, i)
        at == Up(acc.size, d.align)
        moved == at # h.off
        changed == d.changed \/ moved \/ d.off # h.size
        m1 == [m EXCEPT !.elf.scn[i] = [@ EXCEPT
                  !.dl = d.dl, !.shD = @ \/ d.align # h.align]]
        h1 == [h EXCEPT !.align = d.align, !.off = at, !.size = d.off]
    IN  [m |-> [SetShdr(IF moved /\ d.dl = << >> THEN set_data_list(m1, i) ELSE m1,
                        i, h1) EXCEPT !.elf.scn[i].D = @ \/ changed],
         changed |-> changed,
         size |-> IF h.type = "NOBITS" THEN at ELSE at + d.off,
         err |-> ~WholeEntries(h1)]

AlignOf(h) == IF h.align = 0 THEN 1 ELSE h.align

NullData(acc, m, i) ==
    LET s == m.elf.scn[i]
        h == Shdr(m, i)
        Found(d) ==
            IF d.err \/ (m.elf.layout /\ AlignOf(h) < d.align)
            THEN Refuse(acc, [m EXCEPT !.elf.scn[i].dl =
                                  d.dl \o SubSeq(s.dl, Len(d.dl) + 1, Len(s.dl))])
            ELSE IF m.elf.layout THEN NullKept(acc, m, i, d)
            ELSE NullPlaced(acc, m, i, d)
    IN  Found(FoldLeft(LAMBDA a, p : NullPiece(m.elf.layout, h.size, a, p),
                       [err |-> FALSE, align |-> AlignOf(h), dl |-> << >>,
                        off |-> IF s.dl = << >> THEN s.rawsize ELSE 0,
                        changed |-> acc.changed], s.dl))

NullScn(acc, i) ==
    LET Read(r) == IF r.ok THEN NullData(acc, r.m, i) ELSE Refuse(acc, r.m)
    IN  IF acc.err THEN acc
        ELSE IF ~PowerOf2(AlignOf(Shdr(acc.m, i))) THEN Refuse(acc, acc.m)
        ELSE Read(read_rawdata(EntSet(acc.m, i), i))

(* __elf32_updatenull_wrlock(): the program headers come first, then the    *)
(* sections, then the section header table.  moved says that the program    *)
(* headers are somewhere else: that is marked only when all has been done.  *)
PhPlaced(m) == IF m.elf.phdr # NULL /\ ~m.elf.layout
               THEN SetEhdr(m, [Ehdr(m) EXCEPT !.phoff = EHSIZE]) ELSE m
HeadersEnd(m) == IF m.elf.phdr = NULL THEN EHSIZE
                 ELSE MaxOf(EHSIZE, Ehdr(m).phoff + getphdrnum(m) * PHSIZE)
MovedMarked(m, moved) == [m EXCEPT !.elf.ehdrD = @ \/ moved]

(* A count of sections that does not fit goes to section header 0. *)
Counted(m) ==
    LET n == NScn(m)
        h == Shdr(m, 1)
    IN  IF n < SHN_LORESERVE THEN m
        ELSE [SetShdr(m, 1, [h EXCEPT !.size = n]) EXCEPT
                 !.elf.scn[1].shD = @ \/ h.size # n]

(* Mutant: the object is marked whether or not its table moved. *)
LayTableMarked(a, moved) ==
    LET e == Ehdr(a.m)
        shoff == IF a.m.elf.layout THEN e.shoff ELSE Up(a.size, SHDR_ALIGN)
        end == shoff + NScn(a.m) * SHSIZE
    IN  IF a.err THEN [ok |-> FALSE, m |-> a.m, size |-> 0]
        ELSE [ok |-> TRUE,
              m |-> MovedMarked([SetEhdr(a.m, [e EXCEPT !.shoff = shoff]) EXCEPT
                                    !.elf.D = TRUE], moved),
              size |-> IF a.m.elf.layout THEN MaxOf(a.size, end) ELSE end]

LayTable(a, moved) ==
    LET e == Ehdr(a.m)
        shoff == IF a.m.elf.layout THEN e.shoff ELSE Up(a.size, SHDR_ALIGN)
        end == shoff + NScn(a.m) * SHSIZE
    IN  IF a.err THEN [ok |-> FALSE, m |-> a.m, size |-> 0]
        ELSE [ok |-> TRUE,
              m |-> MovedMarked([SetEhdr(a.m, [e EXCEPT !.shoff = shoff]) EXCEPT
                                    !.elf.D = @ \/ shoff # e.shoff], moved),
              size |-> IF a.m.elf.layout THEN MaxOf(a.size, end) ELSE end]

LaySections(m, start, moved) ==
    IF \E i \in 2..NScn(m) : m.elf.scn[i].shdr = NULL
    THEN [ok |-> FALSE, m |-> Fault(m), size |-> 0]
    ELSE LayTable(FoldLeft(NullScn, [m |-> m, size |-> start,
                                     changed |-> FALSE, err |-> FALSE],
                           [i \in 1..NScn(m) - 1 |-> i + 1]), moved)

LayAll(m, moved) ==
    IF NScn(m) = 0
    THEN [ok |-> TRUE, m |-> MovedMarked(m, moved), size |-> HeadersEnd(m)]
    ELSE IF NScn(m) >= SHN_LORESERVE /\ m.elf.scn[1].shdr = NULL
         THEN [ok |-> FALSE, m |-> Fault(m), size |-> 0]
    ELSE IF NScn(m) = 1 THEN LaySections(Counted(m), HeadersEnd(m), moved)
    ELSE LaySections(getshdr(Counted(m), 2).m, HeadersEnd(m), moved)

updatenull(m) ==
    LET Placed(m1) == LayAll(PhPlaced(m1), Ehdr(PhPlaced(m1)) # Ehdr(m1))
    IN  Placed(getphdr(default_ehdr(m)))

(***************************************************************************)
(* Writing: elf32_updatefile.c.                                            *)
(***************************************************************************)

(* compare_sections(), sort_sections(): by offset, size and index. *)
sort_sections(m) ==
    LET Before(i, j) ==
            LET a == Shdr(m, i) b == Shdr(m, j)
            IN  \/ a.off < b.off
                \/ a.off = b.off /\ a.size < b.size
                \/ a.off = b.off /\ a.size = b.size /\ i < j
    IN  SetToSortSeq(1..NScn(m), Before)

(* The sections that have contents in the file, in the file's order. *)
Written(m) == SelectSeq(sort_sections(m),
                        LAMBDA i : i # 1 /\ Shdr(m, i).type # "NOBITS")

(* Mutant: the mark that the layout leaves on a section is not looked at. *)
IsDirtyBlock(m, i, p) == p.D \/ m.elf.D

IsDirty(m, i, p) == m.elf.scn[i].D \/ p.D \/ m.elf.D

Step(what, i, j, pos, cells) ==
    [what |-> what, i |-> i, j |-> j, pos |-> pos, cells |-> cells]

(* One section, not mapped: the calls of pwrite() it takes.  A gap is       *)
(* filled if what is on either side of it is written.                       *)
FileBlock(m, i, prev, a, j) ==
    LET p == m.elf.scn[i].dl[j]
        pos == Shdr(m, i).off + p.off
        dirty == IsDirty(m, i, p)
        gap == pos > a.last /\ ((prev /\ p.off = 0) \/ dirty)
    IN  [steps |-> a.steps
            \o (IF gap THEN << Step("fill", i, j, a.last,
                                    Filled(pos - a.last)) >> ELSE << >>)
            \o (IF dirty THEN << Step("data", i, j, pos,
                                      Many(m.file, p.buf, p.size)) >> ELSE << >>),
         last |-> pos + p.size,
         prev |-> a.prev \/ dirty]

FileScn(m, acc, i) ==
    LET s == m.elf.scn[i]
        h == Shdr(m, i)
    IN  IF s.dl # << >>
        THEN FoldLeft(LAMBDA a, j : FileBlock(m, i, acc.prev, a, j),
                      [acc EXCEPT !.prev = FALSE], [j \in DOMAIN s.dl |-> j])
        ELSE [steps |-> acc.steps \o
                 (IF h.off > acc.last /\ acc.prev
                  THEN << Step("fill", i, 0, acc.last,
                               Filled(h.off - acc.last)) >> ELSE << >>),
              last |-> h.off + h.size, prev |-> FALSE]

(* The section header table that is written: the headers themselves, or the *)
(* table they were read into when nothing asks for a new one.               *)
FileTable(m) ==
    [i \in 1..NScn(m) |-> IF m.elf.tab = 0 \/ m.elf.D \/ i <= m.elf.tab
                          THEN Shdr(m, i) ELSE Junk]

(* The program headers that are written: as many as there are said to be. *)
FilePhdrs(m, f) ==
    [k \in 1..getphdrnum(m) |->
        IF k <= m.elf.phn THEN Many(f, m.elf.phdr, m.elf.phn)[k] ELSE Junk]

(* __elf32_updatefile(): all the calls of pwrite(), in order. *)
HeaderSteps(m) ==
    LET e == Ehdr(m)
        phw == m.elf.phdr # NULL /\ (m.elf.phdrD \/ m.elf.D)
    IN  (IF m.elf.ehdrD \/ m.elf.D
         THEN << Step("ehdr", 0, 0, 0, <<e>>) >> ELSE << >>)
        \o (IF phw /\ e.phoff > EHSIZE
            THEN << Step("gap", 0, 0, EHSIZE, Filled(e.phoff - EHSIZE)) >>
            ELSE << >>)
        \o (IF phw THEN << Step("phdr", 0, 0, e.phoff, FilePhdrs(m, m.file)) >>
            ELSE << >>)

(* Mutant: a table that moved is written only if a header in it changed. *)
TableStepsUnmoved(m, last) ==
    LET shoff == Ehdr(m).shoff
    IN  (IF m.elf.D /\ last < shoff
         THEN << Step("tail", 0, 0, last, Filled(shoff - last)) >> ELSE << >>)
        \o (IF \E i \in 1..NScn(m) : m.elf.scn[i].shD
            THEN << Step("table", 0, 0, shoff, FileTable(m)) >> ELSE << >>)

TableSteps(m, last) ==
    LET shoff == Ehdr(m).shoff
    IN  (IF m.elf.D /\ last < shoff
         THEN << Step("tail", 0, 0, last, Filled(shoff - last)) >> ELSE << >>)
        \o (IF m.elf.D \/ \E i \in 1..NScn(m) : m.elf.scn[i].shD
            THEN << Step("table", 0, 0, shoff, FileTable(m)) >> ELSE << >>)

HeadersChanged(m) == IF m.elf.phdr = NULL THEN m.elf.ehdrD \/ m.elf.D
                     ELSE m.elf.phdrD \/ m.elf.D

updatefile(m) ==
    LET last == IF m.elf.phdr = NULL THEN EHSIZE
                ELSE Ehdr(m).phoff + getphdrnum(m) * PHSIZE
        Rest(r) == r.steps \o TableSteps(m, r.last)
    IN  IF NScn(m) = 0 THEN HeaderSteps(m)
        ELSE Rest(FoldLeft(LAMBDA a, i : FileScn(m, a, i),
                           [steps |-> HeaderSteps(m), last |-> last,
                            prev |-> HeadersChanged(m)], Written(m)))

(* What the first k calls leave, the call after them having failed or there *)
(* being none: the flags are cleared as the code goes, those of the section *)
(* headers before their table is written.                                   *)
AfterWrites(m, steps, k) ==
    LET Did(w) == \E q \in 1..k : steps[q].what = w
        all == k = Len(steps)
        stop == IF all THEN Step("end", 0, 0, 0, << >>) ELSE steps[k + 1]
        order == sort_sections(m)
        Rank(i) == CHOOSE q \in 1..Len(order) : order[q] = i
        late == stop.what \in {"tail", "table", "end"}
        Passed(i) == late \/ (stop.i # 0 /\ Rank(i) < Rank(stop.i))
        f == FoldLeft(LAMBDA g, q : Put(g, steps[q].pos, steps[q].cells),
                      m.file, [q \in 1..k |-> q])
    IN  [file |-> [f EXCEPT !.size =
                      FoldLeft(LAMBDA z, q : MaxOf(z, steps[q].pos + Len(steps[q].cells)),
                               m.file.size, [q \in 1..k |-> q])],
         elf |-> [m.elf EXCEPT
            !.ehdrD = @ /\ ~Did("ehdr"),
            !.phdrD = @ /\ ~Did("phdr"),
            !.D = @ /\ ~all,
            !.scn = [i \in 1..NScn(m) |-> [@[i] EXCEPT
                !.shD = @ /\ ~Passed(i),
                !.dl = [j \in DOMAIN @ |-> [@[j] EXCEPT
                    !.D = @ /\ ~(Passed(i) \/ (stop.i = i /\ j < stop.j))]]]]]]

(***************************************************************************)
(* Writing through the mapping: __elf32_updatemmap().  The sources may lie *)
(* in the file that is being overwritten.                                  *)
(***************************************************************************)

(* fill_mmap(): a gap, around the section header table if it lies there. *)
fill_mmap(f, off, last, start, shstart, shend) ==
    LET to == start + off
        written == IF last >= shstart THEN 0
                   ELSE IF to < shstart THEN to - last ELSE shstart - last
        g == Put(f, last, Filled(written))
        from == MaxOf(shend, start)
    IN  IF last + written # to /\ shend < to
        THEN Put(g, from, Filled(to - from)) ELSE g

(* Before anything moves, headers that will be somewhere else and contents *)
(* that move towards the end of the file are copied out of it.             *)
SavedScn(m, i) ==
    LET s == m.elf.scn[i]
        dest == Ehdr(m).shoff + i - 1
        b == s.dl[1].buf
    IN  [s EXCEPT
            !.shdr = IF @.at = "map" /\ @.pos # dest THEN Mem(Shdr(m, i)) ELSE @,
            !.dl = IF @ # << >> /\ b.at = "map" /\ Shdr(m, i).off > b.pos
                   THEN [@ EXCEPT ![1].buf =
                            Mem(Many(m.file, b, s.dl[1].size))]
                   ELSE @]
Saved(m) == [m EXCEPT !.elf.scn = [i \in 1..NScn(m) |-> SavedScn(m, i)]]

TableEnd(m) == Ehdr(m).shoff + NScn(m) * SHSIZE

(* One section: acc.file is the mapping, acc.last the end of what precedes. *)
MmapBlock(m, i, a, j) ==
    LET p == m.elf.scn[i].dl[j]
        h == Shdr(m, i)
        pos == h.off + p.off
        dirty == IsDirty(m, i, p)
        Copied(f) == IF dirty THEN Put(f, pos, Many(f, p.buf, p.size)) ELSE f
    IN  [file |-> Copied(IF pos > a.last /\ (p.off = 0 \/ dirty)
                         THEN fill_mmap(a.file, p.off, a.last, h.off,
                                        Ehdr(m).shoff, TableEnd(m))
                         ELSE a.file),
         last |-> pos + p.size, prev |-> a.prev \/ dirty]

MmapScn(m, acc, i) ==
    LET s == m.elf.scn[i]
        h == Shdr(m, i)
    IN  IF s.dl # << >>
        THEN FoldLeft(LAMBDA a, j : MmapBlock(m, i, a, j),
                      [acc EXCEPT !.prev = FALSE], [j \in DOMAIN s.dl |-> j])
        ELSE [file |-> IF h.off > acc.last /\ acc.prev
                       THEN fill_mmap(acc.file, 0, acc.last, h.off,
                                      Ehdr(m).shoff, TableEnd(m))
                       ELSE acc.file,
              last |-> h.off + h.size, prev |-> FALSE]

(* The executable header and the program headers are written first. *)
HeadersWritten(m) ==
    LET e == Ehdr(m)
        phw == m.elf.phdr # NULL /\ (m.elf.phdrD \/ m.elf.D)
        f1 == IF m.elf.ehdrD \/ m.elf.D THEN Put(m.file, 0, <<e>>) ELSE m.file
        f2 == IF phw /\ e.phoff > EHSIZE
              THEN Put(f1, EHSIZE, Filled(e.phoff - EHSIZE)) ELSE f1
    IN  IF phw THEN Put(f2, e.phoff, FilePhdrs(m, f2)) ELSE f2

(* Section headers in the map that they are written over: what the code     *)
(* reads there from then on is bytes of another kind.                       *)
Overwritten(m) ==
    \E i \in 1..NScn(m) :
        /\ m.elf.scn[i].shdr.at = "map"
        /\ HeadersWritten(m).cell[m.elf.scn[i].shdr.pos].k # "shdr"

MmapTable(m, a) ==
    LET shoff == Ehdr(m).shoff
        n == NScn(m)
        Rewritten(i) == m.elf.scn[i].shD \/ m.elf.D
        \* a header in place is copied onto itself
        Table(f) == [f EXCEPT !.cell = [c \in 0..Limit - 1 |->
            IF c - shoff + 1 \in 1..n /\ Rewritten(c - shoff + 1)
            THEN One(f, m.elf.scn[c - shoff + 1].shdr) ELSE @[c]]]
    IN  [file |-> Table(IF n > 0 /\ m.elf.D /\ a.last < shoff
                        THEN Put(a.file, a.last, Filled(shoff - a.last)) ELSE a.file),
         elf |-> [m.elf EXCEPT
            !.ehdrD = FALSE, !.D = FALSE,
            !.phdrD = @ /\ m.elf.phdr = NULL,
            !.scn = [i \in 1..n |-> [@[i] EXCEPT
                !.D = FALSE, !.shD = FALSE,
                !.shdr = IF Rewritten(i) /\ ~m.elf.scn[i].own
                         THEN Map(shoff + i - 1) ELSE @,
                !.dl = [j \in DOMAIN @ |-> [@[j] EXCEPT !.D = FALSE]]]]]]

MmapSections(m) ==
    MmapTable(m, FoldLeft(LAMBDA a, i : MmapScn(m, a, i),
        [file |-> m.file,
         last |-> MaxOf(EHSIZE, Ehdr(m).phoff) + getphdrnum(m) * PHSIZE,
         prev |-> HeadersChanged(m)], Written(m)))

updatemmap(m) == MmapSections(Saved([m EXCEPT !.file = HeadersWritten(m)]))

(***************************************************************************)
(* elf_update(), and write_file() of elf_update.c: the file grows first    *)
(* and shrinks last.  A writer that maps the file does so at its first     *)
(* write.                                                                  *)
(***************************************************************************)
Grown(m, size) == IF size > m.elf.max
                  THEN [m EXCEPT !.file = Truncate(m.file, size)] ELSE m
(* Mutant: the size the descriptor knows is not brought down with the file. *)
ShrunkStale(m, size) ==
    [m EXCEPT !.elf.max = MaxOf(@, size),
              !.file = IF size < m.elf.max THEN Truncate(m.file, size) ELSE @]

Shrunk(m, size) ==
    [m EXCEPT !.elf.max = size,
              !.file = IF size < m.elf.max THEN Truncate(m.file, size) ELSE @]

(* The outcomes of a write: all done, or cut off after k calls of pwrite(); *)
(* for a mapped file that has to grow, the mapping may refuse to.           *)
Mapped(m, size) ==
    IF ~m.elf.map THEN [m EXCEPT !.elf.map = TRUE, !.elf.maplen = size]
    ELSE IF m.elf.cmd = "RDWR_MMAP" /\ size > m.elf.max
         THEN [m EXCEPT !.elf.max = size, !.elf.maplen = size]
    ELSE m

Wrote(m) == [ok |-> TRUE, m |-> m, fault |-> FALSE]
Crashed(m) == [ok |-> FALSE, m |-> Fault(m), fault |-> FALSE]
Failed(m) == [ok |-> FALSE, m |-> m, fault |-> TRUE]

MmapOutcome(m, size) == IF size > m.elf.maplen \/ Overwritten(m) THEN Crashed(m)
                        ELSE Wrote(Shrunk(updatemmap(m), size))
FileOutcomes(m, size, faults, steps) ==
    {Wrote(Shrunk(AfterWrites(m, steps, Len(steps)), size))}
    \cup {Failed(AfterWrites(m, steps, k)) :
             k \in IF faults > 0 THEN 0..Len(steps) - 1 ELSE {}}

write_file(m, size, faults) ==
    LET unread == \E i \in 1..NScn(m) : m.elf.scn[i].shdr = NULL
    IN  \* the header of section 0 alone is not read in by the layout
        IF unread THEN {Crashed(Grown(m, size))}
        ELSE IF m.elf.map \/ m.elf.cmd = "WRITE_MMAP"
        THEN {MmapOutcome(Mapped(Grown(m, size), size), size)}
             \cup (IF m.elf.map /\ m.elf.cmd = "RDWR_MMAP" /\ size > m.elf.max
                      /\ faults > 0
                   THEN {Failed(Grown(m, size))} ELSE {})
        ELSE FileOutcomes(Grown(m, size), size, faults, updatefile(Grown(m, size)))

(***************************************************************************)
(* The calls.  A call that fails changes nothing but what it had done.     *)
(***************************************************************************)
Cur == [elf |-> elf, file |-> file]
IsOpen == elf.fate = "open"
Done(op, ok) == [op |-> op, ok |-> ok, size |-> 0, whole |-> FALSE,
                 kept |-> {}]

Becomes(m, op, ok) ==
    /\ elf' = m.elf
    /\ file' = m.file
    /\ res' = Done(op, ok)

Edit == IsOpen /\ left.edits > 0 /\ left' = [left EXCEPT !.edits = @ - 1]

(* What a program finds in a file: its program headers, and the contents of *)
(* each section as a sequence of its blocks that are not empty.             *)
HeaderContents(f, h) ==
    IF h.size = 0 \/ h.type = "NOBITS" THEN << >> ELSE << Cells(f, h.off, h.size) >>
InFile(f) ==
    LET e == f.cell[0]
        n == get_shnum(f)
    IN  [ph |-> Cells(f, e.phoff, IF e.phnum = PN_XNUM /\ n > 0
                                  THEN f.cell[e.shoff].info ELSE e.phnum),
         scn |-> [i \in 1..n |->
            IF i = 1 THEN << >> ELSE HeaderContents(f, f.cell[e.shoff + i - 1])]]

(* elf_begin() of a file that exists, or of one to be written.  A file cut  *)
(* off by a failed write is not opened again: it is neither the old object  *)
(* nor the new one, and no property is about it.  Nor is one whose section  *)
(* header table was written from a block too small for it.                  *)
Readable(f) == \A i \in 1..get_shnum(f) :
                  f.cell[f.cell[0].shoff + i - 1].k = "shdr"

Begin(cmd) ==
    /\ elf.fate = "closed"
    /\ left.edits > 0 /\ left.updates > 0
    /\ IF cmd \in {"RDWR", "RDWR_MMAP"}
       THEN /\ file.size > 0 /\ left.faults = MaxFaults /\ Readable(file)
            /\ elf' = file_read_elf(file, cmd)
            /\ want' = InFile(file)
       ELSE /\ file.size = 0
            /\ elf' = write_file_new(cmd)
            /\ want' = [ph |-> << >>, scn |-> << >>]
    /\ res' = Done("begin", TRUE)
    /\ UNCHANGED <<file, left>>

(* elf_end().  A program that maps its file has changed it with its first   *)
(* call, and closes it only when it has been written.                      *)
End ==
    /\ IsOpen
    /\ elf.cmd = "RDWR_MMAP" => res.op \in {"begin", "WRITE"} /\ res.ok
    /\ elf' = NoElf
    /\ res' = Done("end", TRUE)
    /\ want' = [ph |-> << >>, scn |-> << >>]
    /\ UNCHANGED <<file, left>>

(* elf32_newehdr() *)
newehdr ==
    /\ Edit
    /\ elf.ehdr = NULL
    /\ Becomes([Cur EXCEPT !.elf.ehdr = Mem(ZeroEhdr), !.elf.ehdrD = TRUE],
               "newehdr", TRUE)
    /\ UNCHANGED want

(* elf32_newphdr(): a table of n entries, all clear; of none, no table.  A   *)
(* table in the mapped file is given to realloc().                           *)
newphdr(n) ==
    LET e == Ehdr(Cur)
        zeros == [k \in 1..n |-> ZeroPhdr]
        x == n >= PN_XNUM
        e1 == [e EXCEPT !.phnum = IF x THEN PN_XNUM ELSE n]
        some == Len(elf.scn) > 0
        Count(m) == IF (~x /\ n > 0) \/ ~some THEN m
                    ELSE SetShdr(m, 1, [Shdr(m, 1) EXCEPT !.info = n])
        new == [SetEhdr(Count(Cur), e1) EXCEPT
                   !.elf.phdr = IF n = 0 THEN NULL ELSE Mem(zeros),
                   !.elf.phn = n, !.elf.phdrD = TRUE, !.elf.D = TRUE,
                   !.elf.scn = IF x THEN [@ EXCEPT ![1].shD = TRUE] ELSE @]
        cleared == [Cur EXCEPT !.elf.phdrD = TRUE,
                      !.elf.phdr = IF @.at = "mem" THEN Mem(zeros) ELSE @,
                      !.file = IF elf.phdr.at = "map"
                               THEN Put(@, elf.phdr.pos, zeros) ELSE @]
    IN  /\ Edit
        /\ elf.ehdr # NULL
        /\ \/ /\ n = 0 /\ elf.phdr = NULL
              /\ Becomes(Cur, "newphdr", TRUE) /\ UNCHANGED want
           \/ /\ n = 0 /\ elf.phdr # NULL
              /\ some /\ elf.scn[1].shdr = NULL
              /\ Becomes(Fault(Cur), "newphdr", FALSE) /\ UNCHANGED want
           \/ /\ n = 0 /\ elf.phdr # NULL
              /\ some => elf.scn[1].shdr # NULL
              /\ Becomes(new, "newphdr", TRUE) /\ want' = [want EXCEPT !.ph = zeros]
           \/ /\ n > 0 /\ e.phnum = n /\ n # PN_XNUM /\ elf.phdr # NULL
              /\ Becomes(cleared, "newphdr", TRUE)
              /\ want' = [want EXCEPT !.ph = zeros]
           \/ /\ n > 0 /\ (e.phnum # n \/ n = PN_XNUM \/ elf.phdr = NULL)
              /\ x /\ (some => elf.scn[1].shdr = NULL)
              /\ Becomes(Cur, "newphdr", FALSE) /\ UNCHANGED want
           \/ /\ n > 0 /\ (e.phnum # n \/ n = PN_XNUM \/ elf.phdr = NULL)
              /\ x => some /\ elf.scn[1].shdr # NULL
              /\ IF elf.phdr.at = "map"
                 THEN Becomes(Fault(Cur), "newphdr", FALSE) /\ UNCHANGED want
                 ELSE /\ Becomes(new, "newphdr", TRUE)
                      /\ want' = [want EXCEPT !.ph = zeros]

(* gelf_update_phdr() *)
gelf_update_phdr(k, v) ==
    LET m == getphdr(Cur)
        h == [ZeroPhdr EXCEPT !.v = v]
    IN  /\ Edit
        /\ elf.ehdr # NULL
        /\ IF m.elf.phdr = NULL \/ k > getphdrnum(m)
           THEN Becomes(m, "phdr", FALSE) /\ UNCHANGED want
           ELSE /\ Becomes([m EXCEPT !.elf.phdrD = TRUE,
                      !.elf.phdr = IF @.at = "mem" THEN [@ EXCEPT !.v[k] = h] ELSE @,
                      !.file = IF m.elf.phdr.at = "map"
                               THEN Put(@, m.elf.phdr.pos + k - 1, <<h>>) ELSE @],
                      "phdr", TRUE)
                /\ want' = [want EXCEPT !.ph[k] = h]

(* elf_newscn(): a section at the end of the last block, or in a block of   *)
(* its own; the first one of an object comes with section 0.                *)
AddScn(e, dirty) ==
    LET last == e.blocks[Len(e.blocks)]
        s == [Scn(Mem(ZeroShdr), TRUE) EXCEPT !.D = dirty]
    IN  IF last.cnt < last.max
        THEN [e EXCEPT !.scn = Append(@, s),
                       !.blocks = [@ EXCEPT ![Len(@)].cnt = @ + 1]]
        ELSE [e EXCEPT !.scn = Append(@, s), !.scnincr = 2 * @,
                       !.blocks = Append(@, [max |-> 2 * e.scnincr, cnt |-> 1])]

newscn ==
    LET n == Len(elf.scn)
        e == IF n = 0 THEN AddScn(AddScn(elf, FALSE), TRUE) ELSE AddScn(elf, TRUE)
    IN  /\ Edit
        /\ elf.ehdr # NULL
        /\ n < MaxScns
        /\ Becomes([Cur EXCEPT !.elf = e], "newscn", TRUE)
        /\ want' = [want EXCEPT !.scn = IF n = 0 THEN << << >>, << >> >>
                                        ELSE Append(@, << >>)]

(* elf_getscn(elf, 0) makes section 0 of an object that has none. *)
getscn0 ==
    /\ Edit
    /\ elf.scn = << >>
    /\ Becomes([Cur EXCEPT !.elf = AddScn(elf, FALSE)], "getscn", TRUE)
    /\ want' = [want EXCEPT !.scn = << << >> >>]

(* gelf_update_shdr() after gelf_getshdr(): the header is read in, changed  *)
(* and marked.  Only a section of no data is given a type that has none.    *)
gelf_update_shdr(i, h) ==
    LET g == getshdr(Cur, i)
    IN  /\ Edit
        /\ i \in 2..Len(elf.scn)
        /\ h.type = "NOBITS" => want.scn[i] = << >>
        /\ IF ~g.ok THEN Becomes(g.m, "shdr", FALSE)
           ELSE Becomes([SetShdr(g.m, i, [Shdr(g.m, i) EXCEPT
                                   !.type = h.type, !.align = h.align]) EXCEPT
                             !.elf.scn[i].shD = TRUE], "shdr", TRUE)
        /\ UNCHANGED want

(* elf_getdata() *)
elf_getdata(i) ==
    LET g == getdata(Cur, i)
    IN  /\ Edit
        /\ i \in 2..Len(elf.scn)
        /\ elf.scn[i].dl = << >>
        /\ Becomes(g.m, "getdata", g.ok)
        /\ UNCHANGED want

(* Mutant: contents that are read in are not put before the new block. *)
newdata_list_raw(m, i) ==
    IF m.elf.scn[i].read THEN Ok(m)
    ELSE Then(set_rawdata(m, i), LAMBDA x : Ok(set_data_list(x, i)))

(* elf_newdata(), and the program gives the new block its buffer: what the   *)
(* section has in the file comes first, read in if it was not yet.           *)
newdata_list(m, i) ==
    LET s == m.elf.scn[i]
        based == s.raw # NULL \/ (m.elf.cmd = "RDWR_MMAP" /\ ~s.own)
    IN  IF s.read
        THEN Ok(IF based /\ s.dl = << >> THEN set_data_list(m, i) ELSE m)
        ELSE Then(set_rawdata(m, i), LAMBDA x : Ok(set_data_list(x, i)))

elf_newdata(i, c, align) ==
    LET g == newdata_list(Cur, i)
        dl == g.m.elf.scn[i].dl
        \* a program that lays the file out puts it after the others
        end == IF dl = << >> THEN 0 ELSE dl[Len(dl)].off + dl[Len(dl)].size
        p == [Piece(Len(c), align, TRUE, Mem(c), TRUE) EXCEPT
                 !.off = IF elf.layout THEN end ELSE 0]
    IN  /\ Edit
        /\ i \in 2..Len(elf.scn)
        /\ Len(elf.scn[i].dl) < MaxPieces
        /\ IF ~g.ok THEN Becomes(g.m, "newdata", FALSE) /\ UNCHANGED want
           ELSE /\ Shdr(g.m, i).type # "NOBITS"
                /\ Becomes([g.m EXCEPT !.elf.scn[i].dl = Append(@, p)],
                           "newdata", TRUE)
                /\ want' = [want EXCEPT !.scn[i] = Append(@, c)]

(* The program gives a block that it has another buffer, and marks it with  *)
(* elf_flagdata(), which marks the section.                                 *)
change(i, j, c) ==
    LET dl == elf.scn[i].dl
        k == Cardinality({q \in 1..j : dl[q].size > 0})
    IN  /\ Edit
        /\ i \in 2..Len(elf.scn) /\ j \in DOMAIN dl /\ dl[j].size > 0
        /\ Shdr(Cur, i).type # "NOBITS"
        /\ Becomes([Cur EXCEPT !.elf.scn[i].D = TRUE,
                      !.elf.scn[i].dl[j] = [@ EXCEPT !.buf = Mem(c),
                                                     !.size = Len(c)]],
                   "change", TRUE)
        /\ want' = [want EXCEPT !.scn[i][k] = c]

(* elf_flagelf(): the whole object is to be written again, or the program   *)
(* lays it out.                                                             *)
flagelf(layout) ==
    /\ Edit
    /\ layout \in Layouts
    /\ IF layout THEN ~elf.layout ELSE ~elf.D
    /\ Becomes(IF layout THEN [Cur EXCEPT !.elf.layout = TRUE]
               ELSE [Cur EXCEPT !.elf.D = TRUE], "flagelf", TRUE)
    /\ UNCHANGED want

(* With ELF_F_LAYOUT: the program places a section whose data it has, and   *)
(* the table behind everything, with gelf_update_shdr() and                 *)
(* gelf_update_ehdr().                                                      *)
Extent(dl) == IF dl = << >> THEN 0 ELSE dl[Len(dl)].off + dl[Len(dl)].size

place(i, off) ==
    /\ Edit
    /\ elf.layout
    /\ i \in 2..Len(elf.scn) /\ elf.scn[i].dl # << >>
    /\ off + Extent(elf.scn[i].dl) < Limit
    /\ LET m == SetShdr(Cur, i, [Shdr(Cur, i) EXCEPT
                           !.off = off, !.size = Extent(elf.scn[i].dl)])
       IN  Becomes([SetEhdr(m, [Ehdr(m) EXCEPT !.shoff = MaxOf(@, off + 2)])
                       EXCEPT !.elf.scn[i].shD = TRUE, !.elf.ehdrD = TRUE,
                              !.elf.D = TRUE], "place", TRUE)
    /\ UNCHANGED want

(* The pieces of the object in the file: [from, to). *)
Spans(m) ==
    LET e == Ehdr(m)
        n == NScn(m)
        S(a, z) == [from |-> a, to |-> a + z]
    IN  << S(0, EHSIZE), S(e.phoff, getphdrnum(m) * PHSIZE),
           S(e.shoff, n * SHSIZE) >>
        \o [i \in 1..n |-> IF \/ i = 1 \/ m.elf.scn[i].shdr = NULL
                              \/ Shdr(m, i).type = "NOBITS" THEN S(0, 0)
                           ELSE S(Shdr(m, i).off, Shdr(m, i).size)]
Apart(spans) ==
    \A x, y \in DOMAIN spans : x # y =>
        \/ spans[x].from = spans[x].to \/ spans[y].from = spans[y].to
        \/ spans[x].to <= spans[y].from \/ spans[y].to <= spans[x].from
PieceSpans(m, i) ==
    LET dl == m.elf.scn[i].dl
    IN  [j \in DOMAIN dl |-> [from |-> dl[j].off, to |-> dl[j].off + dl[j].size]]

(* A program that lays the file out itself lays it out without overlaps, and *)
(* places a section without contents behind the headers, too: the code takes *)
(* the end of a section for the end of all that comes before it in the file. *)
SoundLayout(m) ==
    m.elf.layout =>
        LET spans == Spans(m)
        IN  /\ Apart(spans)
            /\ \A i \in 2..NScn(m) :
                /\ Apart(PieceSpans(m, i))
                /\ m.elf.scn[i].shdr # NULL /\ Shdr(m, i).type # "NOBITS" =>
                     /\ Shdr(m, i).off >= spans[1].to
                     /\ Shdr(m, i).off >= spans[2].to
                     /\ \A x \in DOMAIN spans :
                          ~(spans[x].from < Shdr(m, i).off /\ Shdr(m, i).off < spans[x].to)

(* elf_update() *)
MemContents(m, i) ==
    LET s == m.elf.scn[i]
        full == SelectSeq(s.dl, LAMBDA p : p.size > 0)
    IN  IF s.dl # << >>
        THEN [j \in DOMAIN full |-> Many(m.file, full[j].buf, full[j].size)]
        ELSE IF s.raw # NULL THEN << Many(m.file, s.raw, s.rawsize) >>
        ELSE IF s.read THEN << >>
        ELSE IF s.shdr # NULL THEN HeaderContents(m.file, Shdr(m, i))
        ELSE InFile(m.file).scn[i]

Kept(m) == {i \in 2..NScn(m) : MemContents(m, i) = want.scn[i]}

(* One outcome of the layout r, and of the write that followed it. *)
Updates(cmd, r, o) ==
    /\ elf' = o.m.elf
    /\ file' = o.m.file
    /\ res' = [op |-> cmd, ok |-> o.ok, size |-> r.size,
               whole |-> r.m.elf.D, kept |-> Kept(Cur)]
    /\ left' = [left EXCEPT !.updates = @ - 1,
                            !.faults = IF o.fault THEN @ - 1 ELSE @]
    /\ UNCHANGED want

elf_update(cmd) ==
    /\ IsOpen
    /\ elf.ehdr # NULL
    /\ left.updates > 0
    /\ SoundLayout(Cur) = TRUE
    /\ \E r \in {updatenull(Cur)} :
          /\ r.ok => r.size <= Limit
          /\ IF r.ok /\ cmd = "WRITE"
             THEN \E o \in write_file(r.m, r.size, left.faults) : Updates(cmd, r, o)
             ELSE Updates(cmd, r, [ok |-> r.ok, m |-> r.m, fault |-> FALSE])

(***************************************************************************)
(* The specification.                                                      *)
(***************************************************************************)
Init ==
    /\ file \in Images
    /\ elf = NoElf
    /\ want = [ph |-> << >>, scn |-> << >>]
    /\ res = Done("none", TRUE)
    /\ left = [edits |-> MaxEdits, updates |-> MaxUpdates, faults |-> MaxFaults]

Scns == 2..MaxScns
Next ==
    \/ \E cmd \in Cmds : Begin(cmd)
    \/ End
    \/ newehdr
    \/ \E n \in PhNums : newphdr(n)
    \/ \E k \in 1..2 : gelf_update_phdr(k, "set")
    \/ newscn
    \/ getscn0
    \/ \E i \in Scns, h \in Headers : gelf_update_shdr(i, h)
    \/ \E i \in Scns : elf_getdata(i)
    \/ \E i \in Scns, c \in Contents, a \in Aligns : elf_newdata(i, c, a)
    \/ \E i \in Scns, j \in 1..MaxPieces, c \in Contents : change(i, j, c)
    \/ \E layout \in BOOLEAN : flagelf(layout)
    \/ \E i \in Scns, off \in 2..Limit - 2 : place(i, off)
    \/ \E cmd \in {"NULL", "WRITE"} : elf_update(cmd)

Spec == Init /\ [][Next]_vars

(***************************************************************************)
(* Properties.                                                             *)
(***************************************************************************)

Updated == IsOpen /\ res.op \in {"NULL", "WRITE"} /\ res.ok

(* The state of the descriptor is one the code can be in. *)
TypeOK ==
    /\ file.size \in 0..Limit /\ DOMAIN file.cell = 0..Limit - 1
    /\ elf.fate \in {"closed", "open", "undefined"}
    /\ elf.fate # "closed" =>
        /\ elf.cmd \in Cmds /\ elf.max \in 0..Limit
        /\ Len(elf.scn) = Len(want.scn)
        /\ elf.map => elf.maplen > 0
        /\ \A i \in DOMAIN elf.scn :
             elf.scn[i].dl # << >> => elf.scn[i].read

(* The contents of section i were read in with an alignment that the program *)
(* has lowered since: they keep it, as a block too.                          *)
Lowered(i) == elf.scn[i].raw # NULL /\ elf.scn[i].rawalign > Shdr(Cur, i).align

(* After elf_update() has done the layout, the headers, the tables and the *)
(* sections with contents do not overlap, nothing lies behind the size     *)
(* returned, every section and every block is where its alignment wants    *)
(* it, and the blocks of a section do not overlap and lie inside it.       *)
LayoutSound ==
    Updated /\ ~elf.layout =>
        LET m == Cur
        IN  /\ Apart(Spans(m))
            /\ \A x \in DOMAIN Spans(m) :
                 Spans(m)[x].from < Spans(m)[x].to => Spans(m)[x].to <= res.size
            /\ \A i \in 2..NScn(m) :
                /\ Shdr(m, i).off % Shdr(m, i).align = 0
                /\ Apart(PieceSpans(m, i))
                /\ \A j \in DOMAIN elf.scn[i].dl :
                     LET p == elf.scn[i].dl[j]
                     IN  /\ p.off + p.size <= Shdr(m, i).size
                         /\ p.align # 0 /\ ~Lowered(i) =>
                               (Shdr(m, i).off + p.off) % p.align = 0

(* A layout that has been done is not done again: a second elf_update()    *)
(* returns the same size, changes nothing and marks nothing - unless a     *)
(* section without data was given an empty block that has no version, or   *)
(* the alignment of contents that are read in was lowered.                 *)
Stable ==
    /\ Updated /\ ~elf.layout
    /\ \A i \in DOMAIN elf.scn : \A j \in DOMAIN elf.scn[i].dl : elf.scn[i].dl[j].ver
    /\ \A i \in 2..Len(elf.scn) : ~Lowered(i)
    => updatenull(Cur) = [ok |-> TRUE, m |-> Cur, size |-> res.size]

(* The contents of a section are in the file where its header says, block  *)
(* by block.                                                               *)
Delivered(i) ==
    LET h == Shdr(Cur, i)
        full == SelectSeq(elf.scn[i].dl, LAMBDA p : p.size > 0)
    IN  IF elf.scn[i].dl = << >>
        THEN h.size > 0 => << Cells(file, h.off, h.size) >> = want.scn[i]
        ELSE /\ Len(full) = Len(want.scn[i])
             /\ \A j \in DOMAIN full :
                  Cells(file, h.off + full[j].off, full[j].size) = want.scn[i][j]

(* After elf_update() has written, every section whose data in memory was  *)
(* right holds in the file what the program put there or found there,      *)
(* whichever sections were marked, however they moved, and whatever write  *)
(* failed before.                                                          *)
ContentsSaved ==
    Updated /\ res.op = "WRITE" =>
        \A i \in res.kept : Shdr(Cur, i).type # "NOBITS" => Delivered(i)

(* The same, but for a mapped file whose program gave it a new program     *)
(* header table: that is written before the contents are copied out of     *)
(* its way.                                                                *)
ContentsWritten ==
    ~(IsOpen /\ elf.cmd = "RDWR_MMAP" /\ elf.phdr.at = "mem") => ContentsSaved

(* When the object is written as a whole - it is new, the program asked    *)
(* for it, or the section header table moved - the file can be read back:  *)
(* it has the size returned - or is longer, if an earlier write had failed *)
(* after the file had grown - and the headers and tables in it are those   *)
(* in memory.                                                              *)
ReadsBack ==
    Updated /\ res.op = "WRITE" /\ res.whole =>
        /\ file.size >= res.size
        /\ left.faults = MaxFaults => file.size = res.size
        /\ file.cell[0] = Ehdr(Cur)
        /\ get_shnum(file) = Len(elf.scn)
        /\ \A i \in DOMAIN elf.scn :
              file.cell[Ehdr(Cur).shoff + i - 1] = Shdr(Cur, i)
        /\ InFile(file).ph = want.ph

(* The data of a section that the program did not change is what it was:   *)
(* neither the layout nor a write, nor a failed one, loses it, in an       *)
(* object that is not mapped for reading and writing.                      *)
DataKept ==
    IsOpen /\ elf.cmd # "RDWR_MMAP" => Kept(Cur) = 2..Len(elf.scn)

(* The code's search for section idx in the blocks of sections, and its    *)
(* step from one section to the next.                                      *)
elf_getscn(e, idx) ==
    LET Sum(b) == FoldLeft(LAMBDA a, q : a + e.blocks[q].max, 0,
                           [q \in 1..b - 1 |-> q])
        at == {b \in 1..Len(e.blocks) : Sum(b) <= idx /\ idx < Sum(b) + e.blocks[b].max}
    IN  {[b |-> b, k |-> idx - Sum(b)] : b \in {b \in at : idx - Sum(b) < e.blocks[b].cnt}}
elf_nextscn(e, s) ==
    IF s.k + 1 < e.blocks[s.b].cnt THEN {[s EXCEPT !.k = @ + 1]}
    ELSE IF s.k + 1 = e.blocks[s.b].max /\ s.b < Len(e.blocks)
         THEN {[b |-> s.b + 1, k |-> 0]} ELSE {}
Reached ==
    /\ \A idx \in 0..MaxScns : (elf_getscn(elf, idx) # {}) = (idx < Len(elf.scn))
    /\ \A idx \in 0..Len(elf.scn) - 1 : \A s \in elf_getscn(elf, idx) :
          elf_nextscn(elf, s) = elf_getscn(elf, idx + 1)

(* What the descriptor takes to be the size of the file is never more than *)
(* the file has, so that a header or section inside it can be read, also   *)
(* after a write that failed; elf_getscn() and elf_nextscn() reach every   *)
(* section of the object, in order, and no other.                          *)
Consistent == TypeOK /\ (IsOpen => elf.max <= file.size /\ Reached)

=============================================================================

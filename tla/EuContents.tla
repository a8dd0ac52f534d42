----------------------------- MODULE EuContents -----------------------------
(***************************************************************************)
(* The contents of one section of an elfutils descriptor: read in,         *)
(* converted, added to, compressed and expanded, looked into as strings.   *)
(*                                                                         *)
(* A section has up to three buffers of the library's: the bytes as in the *)
(* file (rawbase), the bytes as the host reads them (database), and the    *)
(* expanded bytes of a compressed section (zbase).  Two of them may be the *)
(* same block, and the first may be in the map of the file, so what        *)
(* elf_compress() and elf_end() free depends on all the calls before.      *)
(*                                                                         *)
(* A buffer is a sequence of cells; sw says that a cell is in the other    *)
(* byte order.  zlib makes one cell of contents with few different cells   *)
(* and lengthens the others by one.  The compression header takes HSIZE    *)
(* cells in both formats.                                                  *)
(***************************************************************************)
EXTENDS Integers, Sequences, SequencesExt, FiniteSets

CONSTANTS
    Images,         \* the sections a program may start with, each at its
                    \* offset in the file
    Descriptors,    \* how the file may be open: [mapped, native, aligned, class, based]
    Contents,       \* what it adds with elf_newdata()
    Aligns,         \* the alignments of what it adds
    MaxCalls, MaxPieces, MaxFaults      \* bounds

ASSUME ContentsBounds == {MaxCalls, MaxPieces, MaxFaults} \subseteq Nat
\* A section refers to the file from the start only when the file is in the map.
ASSUME ContentsBased == \A d \in Descriptors : d.based => d.mapped
\* A section has its cells in the file, unless it has none; sw says of each
\* whether it is swapped.
ASSUME ContentsSized ==
    \A image \in Images :
        /\ image.size \in Nat
        /\ image.type # "NOBITS" => image.size = Len(image.cells)
        /\ image.cells \in Seq(Range(image.cells))
        /\ \A c \in Range(image.cells) : c = [c EXCEPT !.sw = @] /\ c.sw \in BOOLEAN

VARIABLES
    elf,    \* the descriptor: [open, mapped, native, class, cells]
    scn,    \* the section
    mem,    \* [heap, top, fault, starved]: blocks in use, the next, the first
            \* fault, and whether a conversion found no memory
    want,   \* what the program means the section to hold: [cells, align]
    str,    \* the last string it was given, or was due: [p, off, s, due]
    ghost,  \* [lost, mixed, behind, twice]: see Accounted, Survives and ContentsKept
    res,    \* the last call: [op, rc]
    left    \* [calls, faults]: the calls that may still change something
vars == <<elf, scn, mem, want, str, ghost, res, left>>
View == <<elf, scn, mem, want, str, ghost, left>>

HSIZE == 2
OVERHEAD == 1       \* the five and six bytes zlib may add
CHDR_ALIGN == 4
NULL == [at |-> "null"]
InMap == [at |-> "map"]
Heap(b) == [at |-> "heap", b |-> b]
User(c) == [at |-> "user", c |-> c]

Char(v) == [k |-> "char", v |-> v, sw |-> FALSE]
NUL == Char("0")
Pad == [k |-> "pad", sw |-> FALSE]
Stream(c) == [k |-> "stream", of |-> c, sw |-> FALSE]
Chdr(size, align) == [k |-> "chdr", type |-> "zlib", size |-> size,
                      align |-> align, sw |-> FALSE]
Gnu(size) == [k |-> "gnu", size |-> size, sw |-> FALSE]
Swap(c) == [c EXCEPT !.sw = ~@]

\* What the conversion functions change: nothing in bytes, every cell of a
\* table, the header of compressed data.
Convert(cells, type) ==
    CASE type = "BYTE" -> cells
      [] type = "CHDR" -> [i \in 1..Len(cells) |-> IF i = 1 THEN Swap(cells[i]) ELSE cells[i]]
      [] OTHER         -> [i \in 1..Len(cells) |-> Swap(cells[i])]
recsize(type) == IF type = "CHDR" THEN HSIZE ELSE 1
data_type(shtype) == IF shtype = "SYMTAB" THEN "SYM" ELSE "BYTE"
AlignOf(align) == IF align = 0 THEN 1 ELSE align
Larger(a, b) == IF a > b THEN a ELSE b
PowerOf2(n) == n = 0 \/ \E k \in 0..n : n = 2 ^ k

\* The program gives its data alignments that elf_update() takes.
ASSUME ContentsAligned == \A align \in Aligns : PowerOf2(align)

-----------------------------------------------------------------------------
(* Memory.  x is [elf, scn, mem], what a call works on.                    *)
Hurt(x, why) == IF x.mem.fault = "" THEN [x EXCEPT !.mem.fault = why] ELSE x
Owns(x, p) == p.at = "heap" /\ p.b \in DOMAIN x.mem.heap
Alloc(x, cells) ==
    [x EXCEPT !.mem.heap = [b \in DOMAIN @ \cup {x.mem.top} |->
                              IF b = x.mem.top THEN cells ELSE @[b]],
              !.mem.top = @ + 1]
Free(x, p) ==
    IF p = NULL THEN x
    ELSE IF Owns(x, p) THEN [x EXCEPT !.mem.heap = [b \in DOMAIN @ \ {p.b} |-> @[b]]]
    ELSE Hurt(x, "free")
Cells(x, p) ==
    CASE p.at = "map"  -> x.elf.cells
      [] p.at = "user" -> p.c
      [] Owns(x, p)    -> x.mem.heap[p.b]
      [] OTHER         -> << >>
\* Some allocated blocks are given up; in no case the same twice.
FreeAll(x, ps) ==
    LET given == {i \in DOMAIN ps : ps[i] # NULL} IN
    IF \A i \in given : Owns(x, ps[i]) /\ \A j \in given : i # j => ps[i] # ps[j]
    THEN [x EXCEPT !.mem.heap = [b \in DOMAIN @ \ {ps[i].b : i \in given} |-> @[b]]]
    ELSE Hurt(x, "free")
\* The first last cells of a buffer are read.
Readable(x, p, last) == last = 0 \/ last <= Len(Cells(x, p))
Reads(x, p, last) ==
    IF Readable(x, p, last) THEN x
    ELSE Hurt(x, IF p.at = "heap" /\ ~Owns(x, p) THEN "freed" ELSE "past")

Ok(x) == [rc |-> 1, x |-> x]
Rc(rc, x) == [rc |-> rc, x |-> x]
Then(r, Step(_)) == IF r.rc = 1 THEN Step(r.x) ELSE r
\* A result with a value for the caller.
Got(x, v) == [rc |-> 1, x |-> x, v |-> v]
With(r, Step(_, _)) == IF r.rc = 1 THEN Step(r.x, r.v) ELSE Rc(r.rc, r.x)

-----------------------------------------------------------------------------
(* Reading a section in.  fail is the allocation that fails, or "".        *)
Block(buf, size, align, type) ==
    [buf |-> buf, off |-> 0, size |-> size, align |-> align, type |-> type, version |-> 1]
NoBlock == [Block(NULL, 0, 0, "BYTE") EXCEPT !.version = 0]

\* The alignment of the bytes in the file: not larger than their offset there.
RawAlign(s) ==
    LET align == IF s.z /\ s.size # 0 /\ s.type # "NOBITS" THEN CHDR_ALIGN
                 ELSE AlignOf(s.align) IN
    IF s.type # "NOBITS" /\ align > s.offset THEN s.offset ELSE align

set_rawdata(x, fail) ==
    LET s == x.scn
        type == IF s.z THEN "CHDR" ELSE data_type(s.type)
        align == RawAlign(s)
        Set(y, p) == Ok([y EXCEPT !.scn.rawbase = IF p = NULL THEN @ ELSE p,
                                  !.scn.raw = Block(p, s.size, align, type),
                                  !.scn.read = TRUE, !.scn.filedata = TRUE]) IN
    IF s.size = 0 \/ s.type = "NOBITS" THEN Set(x, NULL)
    ELSE IF x.elf.mapped THEN Set(x, InMap)
    ELSE IF fail = "raw" THEN Rc(-1, x)
    ELSE Set(Alloc(x, x.elf.cells), Heap(x.mem.top))

\* The rest of the section's blocks stay linked to the first.
First(x, buf) == [x EXCEPT !.scn.database = buf,
                           !.scn.first = [x.scn.raw EXCEPT !.buf = buf]]
convert_data(x, fail) ==
    LET s == x.scn
        raw == Cells(x, s.rawbase)
        bytes == s.raw.type = "BYTE"
        aligned == bytes \/ s.rawbase # InMap \/ x.elf.aligned IN
    IF (x.elf.native \/ bytes) /\ aligned THEN First(x, s.rawbase)
    ELSE IF fail = "convert" THEN [x EXCEPT !.scn.database = NULL, !.mem.starved = TRUE]
    ELSE First(Alloc(x, IF x.elf.native THEN raw ELSE Convert(raw, s.raw.type)),
               Heap(x.mem.top))
set_data_list(x, fail) ==
    LET s == x.scn
        y == IF s.raw.buf # NULL /\ s.raw.size > 0 THEN convert_data(x, fail)
             ELSE [x EXCEPT !.scn.first = s.raw] IN
    [y EXCEPT !.scn.rear = 1]

elf_getdata(x, fail) ==
    LET Listed(y) == Ok(IF y.scn.rear = 0 THEN set_data_list(y, fail) ELSE y) IN
    IF x.scn.read THEN Listed(x) ELSE Then(set_rawdata(x, fail), Listed)

\* elf_rawdata(): only what was read from the file.
elf_rawdata(x, fail) ==
    IF x.scn.read THEN Rc(IF x.scn.filedata THEN 1 ELSE -1, x) ELSE set_rawdata(x, fail)

\* The blocks elf_getdata() returns one after the other.
Pieces(x) == <<x.scn.first>> \o x.scn.rest

\* Mutant: the order of the bytes in the file is left as it is in memory.
FileCellsHost(x, p) == SubSeq(Cells(x, p.buf), 1, Min({p.size, Len(Cells(x, p.buf))}))

\* A block, in the order of the file.
FileCells(x, p) ==
    LET cells == SubSeq(Cells(x, p.buf), 1, Min({p.size, Len(Cells(x, p.buf))})) IN
    IF x.elf.native THEN cells ELSE Convert(cells, p.type)

\* elf_newdata(): an empty block behind the last one.
elf_newdata(x, fail) ==
    LET FirstOne(y) == Ok([y EXCEPT !.scn.first = NoBlock, !.scn.rear = 1])
        Cut(y) == SubSeq(y.scn.rest, 1, y.scn.rear - 1)
        Link(y) == IF fail = "node" THEN Rc(-1, y)
                   ELSE Ok([Alloc(y, << >>) EXCEPT
                              !.scn.rest = Append(Cut(y), NoBlock),
                              !.scn.nodes = Append(SubSeq(@, 1, y.scn.rear - 1),
                                                   Heap(y.mem.top)),
                              !.scn.rear = @ + 1])
        Added(y) == IF y.scn.read /\ y.scn.rear = 0 THEN FirstOne(y)
                    ELSE IF y.scn.read THEN Link(y)
                    ELSE Then(set_rawdata(y, fail),
                              LAMBDA z : Link(set_data_list(z, fail))) IN
    Added(IF x.scn.read /\ x.scn.rawbase # NULL /\ x.scn.rear = 0
          THEN set_data_list(x, fail) ELSE x)

-----------------------------------------------------------------------------
(* Compression.                                                            *)
Deflate(c) == IF Cardinality(Range(c)) > 2
              THEN <<Stream(c)>> \o [i \in 1..Len(c) |-> Pad]
              ELSE <<Stream(c)>>
Concat(x, ps) == FlattenSeq([i \in DOMAIN ps |-> FileCells(x, ps[i])])
Sum(ps) == FoldLeft(LAMBDA n, p : n + p.size, 0, ps)
Aligned(ps) == FoldLeft(LAMBDA n, p : Larger(n, p.align), 0, ps)
\* The blocks are read one after the other.
ReadsAll(x, ps) ==
    LET bad == {i \in DOMAIN ps : ~Readable(x, ps[i].buf, ps[i].size)}
        p == ps[Min(bad)] IN
    IF bad = {} THEN x ELSE Reads(x, p.buf, p.size)

\* __libelf_compress(): the bytes, and the size and the alignment of what
\* they expand to; 0 when it does not pay.
Packed(x, ps, force, fail) ==
    LET content == Concat(x, ps)
        out == Deflate(content) IN
    IF Len(ps) = 1 /\ ~force /\ ps[1].size <= HSIZE + OVERHEAD THEN Rc(0, x)
    ELSE IF \/ fail = "zlib"
            \/ ~x.elf.native /\ \E p \in Range(ps) : p.size % recsize(p.type) # 0
         THEN Rc(-1, ReadsAll(x, ps))
    ELSE IF ~force /\ HSIZE + Len(out) >= Sum(ps) THEN Rc(0, ReadsAll(x, ps))
    ELSE Got(ReadsAll(x, ps), [out |-> out, size |-> Sum(ps), align |-> Aligned(ps)])
compress(x, force, fail) ==
    Then(elf_getdata(x, fail), LAMBDA y : Packed(y, Pieces(y), force, fail))

\* __libelf_decompress(): cells from..size of a buffer expand to out cells.
Inflates(cells, out) ==
    /\ cells # << >> /\ cells[1].k = "stream" /\ ~cells[1].sw
    /\ Len(cells[1].of) = out
decompress(x, p, out, fail) ==
    LET body == SubSeq(Cells(x, p.buf), HSIZE + 1, p.size)
        y == Reads(x, p.buf, p.size) IN
    IF fail = "zlib" \/ ~Inflates(body, out) THEN Rc(-1, y)
    ELSE Got(Alloc(y, body[1].of), Heap(y.mem.top))

getchdr(x, fail) ==
    LET s == x.scn IN
    IF s.alloc \/ s.type \in {"NULL", "NOBITS"} \/ ~s.z THEN Rc(-1, x)
    ELSE Then(elf_getdata(x, fail),
              LAMBDA y : IF y.scn.first.size < HSIZE \/ y.scn.first.buf = NULL THEN Rc(-1, y)
                         ELSE IF Cells(y, y.scn.first.buf) = << >>
                              THEN Got(Reads(y, y.scn.first.buf, HSIZE), Pad)
                         ELSE Got(y, Cells(y, y.scn.first.buf)[1]))

decompress_elf(x, fail) ==
    With(getchdr(x, fail), LAMBDA y, ch :
      IF ch.k # "chdr" \/ ch.sw \/ ch.type # "zlib" \/ ~PowerOf2(ch.align) THEN Rc(-1, y)
      ELSE With(decompress(y, y.scn.first, ch.size, fail), LAMBDA z, p :
             Ok([z EXCEPT !.scn.zbase = p, !.scn.zsize = ch.size, !.scn.zalign = ch.align])))

\* Mutant: what elf_compress() allocated is not told from the map.
OursUnmapped(x) == ~x.elf.mapped \/ x.scn.rawbase = x.scn.zbase

\* __libelf_reset_rawdata(): whether rawbase is a block of its own.
Ours(x) == \/ ~x.elf.mapped \/ x.scn.rawbase = x.scn.zbase \/ x.scn.malloced

\* Mutant: a block that is both is given up twice.
DroppedTwice(x) ==
    LET data == Free(x, x.scn.database) IN
    IF Ours(x) THEN Free(data, x.scn.rawbase) ELSE data

\* The buffers of the section are given up, each once, and buf is its only one;
\* zbase is what the caller leaves of the expanded bytes.
Dropped(x) ==
    LET data == IF x.scn.database # x.scn.rawbase THEN Free(x, x.scn.database) ELSE x IN
    IF Ours(x) THEN Free(data, x.scn.rawbase) ELSE data
reset_rawdata(x, buf, size, align, type, zbase, fail) ==
    set_data_list([Dropped(x) EXCEPT
        !.scn.raw = Block(buf, size, align, type), !.scn.rear = 0,
        !.scn.database = NULL, !.scn.rawbase = buf, !.scn.zbase = zbase, !.scn.malloced = TRUE,
        !.scn.read = TRUE, !.scn.filedata = TRUE], fail)

Refuses(x) == x.scn.alloc \/ x.scn.type \in {"NULL", "NOBITS"}

\* Mutant: the section is marked as compressed before it is.
elf_compress_deflate_marked(x, force, fail) ==
    IF Refuses(x) THEN Rc(-1, x)
    ELSE With(compress([x EXCEPT !.scn.z = TRUE], force, fail), LAMBDA y, z :
      LET cells == << [Chdr(z.size, z.align) EXCEPT !.sw = ~y.elf.native], Pad >> \o z.out IN
      Ok(reset_rawdata([Alloc(y, cells) EXCEPT !.scn.size = Len(cells), !.scn.align = CHDR_ALIGN],
                       Heap(y.mem.top), Len(cells), 1, "CHDR", NULL, fail)))

\* elf_compress(), to SHF_COMPRESSED.
elf_compress_deflate(x, force, fail) ==
    IF Refuses(x) THEN Rc(-1, x)
    ELSE With(compress(x, force, fail), LAMBDA y, z :
      LET cells == << [Chdr(z.size, IF y.elf.class = 32 THEN z.align ELSE y.scn.align)
                         EXCEPT !.sw = ~y.elf.native], Pad >> \o z.out
          w == [Alloc(y, cells) EXCEPT !.scn.size = Len(cells),
                                       !.scn.align = CHDR_ALIGN, !.scn.z = TRUE] IN
      Ok(reset_rawdata(w, Heap(y.mem.top), Len(cells), 1, "CHDR", NULL, fail)))

elf_compress_inflate(x, fail) ==
    IF Refuses(x) \/ ~x.scn.z THEN Rc(-1, x)
    ELSE Then(IF x.scn.zbase # NULL THEN Ok(x) ELSE decompress_elf(x, fail), LAMBDA y :
      Ok(reset_rawdata([y EXCEPT !.scn.size = y.scn.zsize, !.scn.align = y.scn.zalign,
                                 !.scn.z = FALSE],
                       y.scn.zbase, y.scn.zsize, y.scn.zalign, data_type(y.scn.type),
                       y.scn.zbase, fail)))

elf_compress_gnu_deflate(x, force, fail) ==
    IF Refuses(x) \/ x.scn.z THEN Rc(-1, x)
    ELSE With(compress(x, force, fail), LAMBDA y, z :
      LET cells == <<Gnu(z.size), Pad>> \o z.out
          w == [Alloc(y, cells) EXCEPT !.scn.size = Len(cells)] IN
      Ok(reset_rawdata(w, Heap(y.mem.top), Len(cells), 1, "BYTE", NULL, fail)))

IsGnu(y) == /\ y.scn.first.size >= HSIZE
            /\ Cells(y, y.scn.first.buf) # << >>
            /\ Cells(y, y.scn.first.buf)[1].k = "gnu"
            /\ ~Cells(y, y.scn.first.buf)[1].sw
elf_compress_gnu_inflate(x, fail) ==
    IF Refuses(x) \/ x.scn.z THEN Rc(-1, x)
    ELSE Then(elf_getdata(x, fail), LAMBDA y :
      LET size == Cells(y, y.scn.first.buf)[1].size IN
      IF ~IsGnu(y) THEN Rc(-1, Reads(y, y.scn.first.buf, Min({HSIZE, y.scn.first.size})))
      ELSE IF size + HSIZE + OVERHEAD < y.scn.first.size THEN Rc(-1, y)
      ELSE With(decompress(y, y.scn.first, size, fail), LAMBDA z, p :
        Ok(reset_rawdata([z EXCEPT !.scn.size = size], p, size, z.scn.align,
                         data_type(z.scn.type), p, fail))))

-----------------------------------------------------------------------------
(* elf_strptr().                                                           *)
NoStr == [p |-> NULL, off |-> 0, s |-> << >>, due |-> << >>]
\* The string of cells that starts at off, or << >> when none ends there.
StringAt(cells, off) ==
    LET ends == {i \in off + 1..Len(cells) : cells[i] = NUL} IN
    IF ends = {} THEN << >> ELSE SubSeq(cells, off + 1, Min(ends))

\* validate_str() looks for the end from the last cell backwards.
Found(x, p, off, to) ==
    LET y == Reads(x, p, to)
        s == StringAt(SubSeq(Cells(y, p), 1, Min({to, Len(Cells(y, p))})), off) IN
    IF s = << >> THEN Rc(-1, y) ELSE [rc |-> 1, x |-> y, p |-> p, off |-> off]

\* Mutant: the offset is not taken relative to the block it is in.
strptr_at_absolute(x, off, size) ==
    LET ps == Pieces(x)
        in == {i \in DOMAIN ps : off >= ps[i].off /\ off < ps[i].off + ps[i].size} IN
    IF x.scn.zbase # NULL THEN Found(x, x.scn.zbase, off, size)
    ELSE IF x.scn.rear = 0 THEN Found(x, x.scn.rawbase, off, size)
    ELSE IF in = {} THEN Rc(-1, x)
    ELSE Found(x, ps[Min(in)].buf, off, ps[Min(in)].size)

\* The string at off, in the first block that holds it.
strptr_at(x, off, size) ==
    LET ps == Pieces(x)
        in == {i \in DOMAIN ps : off >= ps[i].off /\ off < ps[i].off + ps[i].size}
        p == ps[Min(in)] IN
    IF x.scn.zbase # NULL THEN Found(x, x.scn.zbase, off, size)
    ELSE IF x.scn.rear = 0 THEN Found(x, x.scn.rawbase, off, size)
    ELSE IF in = {} THEN Rc(-1, x)
    ELSE Found(x, p.buf, off - p.off, p.size)

get_zdata(x, fail) == decompress_elf(x, fail)
strptr_in(x, off, fail) ==
    LET size == IF x.scn.z THEN x.scn.zsize ELSE x.scn.size
        Read == IF x.scn.rawbase = NULL /\ ~x.scn.read THEN set_rawdata(x, fail) ELSE Ok(x) IN
    IF off >= size THEN Rc(-1, x) ELSE Then(Read, LAMBDA y : strptr_at(y, off, size))
elf_strptr(x, off, fail) ==
    IF x.scn.type # "STRTAB" THEN Rc(-1, x)
    ELSE IF x.scn.z /\ x.scn.zbase = NULL
         THEN Then(get_zdata(x, fail), LAMBDA y : strptr_in(y, off, fail))
    ELSE strptr_in(x, off, fail)

-----------------------------------------------------------------------------
(* What elf_update(elf, ELF_C_NULL) does to the section, elf_rawfile() to  *)
(* its descriptor, and elf_end() to its memory.                            *)
Up(n, a) == IF a = 0 THEN 0 ELSE ((n + a - 1) \div a) * a
\* Where the blocks end, laid out one behind the other.
Ends(ps) ==
    LET end[i \in 0..Len(ps)] ==
          IF i = 0 THEN 0 ELSE Up(end[i - 1], ps[i].align) + ps[i].size
    IN  end
\* The first block; the raw data stand in for it when it has no buffer.
FirstBlock(y) ==
    IF y.scn.first.buf = NULL /\ y.scn.raw.buf # NULL THEN y.scn.raw ELSE y.scn.first
updatenull_scn(x, moved, fail) ==
    LET Lay(y) == IF y.scn.rear = 0
                  THEN [y EXCEPT !.scn.align = AlignOf(@), !.scn.size = y.scn.raw.size]
                  ELSE LET instead == y.scn.first.buf = NULL /\ y.scn.raw.buf # NULL
                           ps == <<FirstBlock(y)>> \o y.scn.rest
                           end == Ends(ps) IN
                       [y EXCEPT !.scn.first.off = IF instead THEN @ ELSE 0,
                                 !.scn.raw.off = IF instead THEN 0 ELSE @,
                                 !.scn.rest = [i \in DOMAIN @ |->
                                    [@[i] EXCEPT !.off = Up(end[i], y.scn.rest[i].align)]],
                                 !.scn.align = Larger(AlignOf(@), Aligned(ps)),
                                 !.scn.size = end[Len(ps)]] IN
    Then(IF ~PowerOf2(AlignOf(x.scn.align)) THEN Rc(-1, x)
         ELSE IF x.scn.read THEN Ok(x) ELSE set_rawdata(x, fail), LAMBDA y :
      IF /\ y.scn.rear # 0
         /\ LET head == FirstBlock(y) IN head.version = 0 \/ ~PowerOf2(head.align)
      THEN Rc(-1, y) ELSE
      Then(IF moved THEN elf_getdata(Lay(y), fail) ELSE Ok(Lay(y)), LAMBDA z :
        \* The expanded size must be a multiple of the entry size.
        IF z.scn.z /\ z.scn.type = "SYMTAB" THEN getchdr(z, fail)
        ELSE Ok(z)))

readall(x) == IF x.elf.mapped THEN x ELSE [x EXCEPT !.elf.mapped = TRUE]

\* The bytes at the section's place, converted as type.
elf_getdata_rawchunk(x, type, fail) ==
    LET bytes == type = "BYTE"
        copied == ~x.elf.mapped \/ ~(bytes \/ x.elf.aligned \/ ~x.elf.native)
        foreign == ~x.elf.native /\ ~copied    \* BYTE too is copied
        cells == IF x.elf.native THEN x.elf.cells ELSE Convert(x.elf.cells, type)
        Chunk(y, p) == Ok([Alloc(y, << >>) EXCEPT
                             !.elf.chunks = <<[buf |-> p, node |-> Heap(y.mem.top),
                                               due |-> cells]>> \o @]) IN
    IF fail = "raw" THEN Rc(-1, x)
    ELSE IF copied \/ foreign THEN Chunk(Alloc(x, cells), Heap(x.mem.top))
    ELSE Chunk(x, InMap)

ChunkBuffers(x) ==
    [i \in DOMAIN x.elf.chunks |->
       IF x.elf.chunks[i].buf = InMap THEN NULL ELSE x.elf.chunks[i].buf]
ChunkNodes(x) == [i \in DOMAIN x.elf.chunks |-> x.elf.chunks[i].node]
elf_end(x) ==
    LET chunks == FreeAll(FreeAll(x, ChunkBuffers(x)), ChunkNodes(x))
        z == IF x.scn.zbase # x.scn.rawbase THEN Free(chunks, x.scn.zbase) ELSE chunks
        data == IF x.scn.database # x.scn.rawbase THEN Free(z, x.scn.database) ELSE z
        raw == IF Ours(x) THEN Free(data, x.scn.rawbase) ELSE data IN
    FreeAll(raw, x.scn.nodes)

-----------------------------------------------------------------------------
(* The calls.                                                              *)
X == [elf |-> elf, scn |-> scn, mem |-> mem]

\* What would be written of the section.
FileOf(x) ==
    IF x.scn.rear # 0 THEN Concat(x, Pieces(x))
    ELSE IF x.scn.read THEN Cells(x, x.scn.rawbase) ELSE x.elf.cells

Packs(c) == /\ Len(c) > HSIZE /\ c[1].k \in {"chdr", "gnu"} /\ c[HSIZE + 1].k = "stream"
            /\ \A i \in HSIZE + 2..Len(c) : c[i].k = "pad"
\* The contents, however often they are compressed: once in an image, and once
\* more with each call.
Expand(c) ==
    LET opened[n \in 0..MaxCalls + 1] ==
          IF n = 0 THEN c
          ELSE LET packed == opened[n - 1] IN
               IF Packs(packed) THEN packed[HSIZE + 1].of ELSE packed
    IN  opened[MaxCalls + 1]

\* The allocation that fails in a call, if one does.
Fails == {""} \cup IF left.faults > 0 THEN {"raw", "convert"} ELSE {}
FailsOf(more) == Fails \cup IF left.faults > 0 THEN more ELSE {}

\* The effect of a call with result r.
Call(op, fail, r) ==
    /\ elf.open /\ left.calls > 0 /\ mem.fault = ""
    /\ left' = IF r.x = X THEN left
               ELSE [calls |-> left.calls - 1,
                     faults |-> IF fail = "" THEN left.faults ELSE left.faults - 1]
    /\ elf' = r.x.elf /\ scn' = r.x.scn /\ mem' = r.x.mem
    /\ res' = [op |-> op, rc |-> r.rc]
Looks(op, fail, r) == Call(op, fail, r) /\ UNCHANGED <<want, str, ghost>>

GetData(fail) == Looks("getdata", fail, elf_getdata(X, fail))
RawData(fail) == Looks("rawdata", fail, elf_rawdata(X, fail))
GetChdr(fail) == Looks("getchdr", fail, getchdr(X, fail))
UpdateNull(moved, fail) == Looks("update", fail, updatenull_scn(X, moved, fail))
RawChunk(type, fail) ==
    /\ Len(elf.chunks) < 1
    /\ Looks("chunk", fail, elf_getdata_rawchunk(X, type, fail))

\* A new block, filled in by the program.
NewData(c, align, fail) ==
    LET r == elf_newdata(X, fail)
        block == Block(User(c), Len(c), align, "BYTE")
        rear == r.x.scn.rear
        filled == IF rear = 1 THEN [r.x EXCEPT !.scn.first = block]
                  ELSE [r.x EXCEPT !.scn.rest[rear - 1] = block]
        done == IF r.rc = 1 THEN Ok(filled) ELSE r
        cut == SubSeq(scn.nodes, Larger(scn.rear, 1), Len(scn.nodes)) IN
    /\ Len(scn.rest) < MaxPieces
    /\ scn.type # "NOBITS"
    /\ Call("newdata", fail, done)
    /\ IF r.rc = 1
       THEN /\ want' = [want EXCEPT !.cells = @ \o c, !.added = TRUE]
            /\ ghost' = [ghost EXCEPT !.lost = @ \cup {p.b : p \in Range(cut)},
                                  !.behind = @ \/ scn.zbase # NULL,
                                  !.mixed = @ \/ Expand(FileOf(X)) # FileOf(X)
                                             \/ Len(cut) > 0]
       ELSE UNCHANGED <<want, ghost>>
    /\ UNCHANGED str

\* A call that replaces the contents: strings given out before are void.
Replaces(op, fail, r) ==
    /\ Call(op, fail, r)
    /\ IF r.rc = 1
       THEN /\ str' = NoStr
            /\ ghost' = [ghost EXCEPT
                       !.mixed = @ \/ scn.rest # << >>,
                       !.twice = @ \/ (op = "deflate" /\ (scn.z \/ Packs(FileOf(X)))),
                       !.lost = @ \cup IF /\ op \in {"deflate", "gnu_deflate"}
                                          /\ scn.zbase \notin {NULL, scn.rawbase}
                                       THEN {scn.zbase.b} ELSE {}]
       ELSE UNCHANGED <<str, ghost>>
    /\ UNCHANGED want
elf_compress(type, force, fail) ==
    IF type = "ZLIB" THEN Replaces("deflate", fail, elf_compress_deflate(X, force, fail))
    ELSE Replaces("inflate", fail, elf_compress_inflate(X, fail))
elf_compress_gnu(inflate, force, fail) ==
    IF inflate = 1 THEN Replaces("gnu_deflate", fail, elf_compress_gnu_deflate(X, force, fail))
    ELSE Replaces("gnu_inflate", fail, elf_compress_gnu_inflate(X, fail))

\* Where a string of the section is to be looked for: the blocks follow
\* each other, and the header tells their size.
Settled == /\ ~mem.starved /\ ~ghost.mixed /\ ~ghost.behind
           /\ ~Packs(want.cells)
           /\ scn.rear # 0 => \A i \in 1..Len(scn.rest) :
                  scn.rest[i].off = Sum(SubSeq(Pieces(X), 1, i))
           /\ LET file == FileOf(X) IN
              IF scn.z
              THEN /\ Packs(file) /\ file[HSIZE + 1].of = want.cells
                   /\ file[1].type = "zlib" /\ file[1].size = Len(want.cells)
                   /\ PowerOf2(file[1].align)
              ELSE file = want.cells /\ scn.size = Len(want.cells)
StrPtr(off, fail) ==
    LET due == StringAt(want.cells, off)
        r == elf_strptr(X, off, fail)
        given == StringAt(Cells(r.x, r.p), r.off) IN
    /\ Call("strptr", fail, r)
    /\ str' = IF r.rc = 1
              THEN [p |-> r.p, off |-> r.off, s |-> given,
                    due |-> IF Settled THEN due ELSE given]
              ELSE IF fail = "" /\ scn.type = "STRTAB" /\ Settled /\ due # << >>
              THEN [NoStr EXCEPT !.due = due]
              ELSE str
    /\ UNCHANGED <<want, ghost>>

\* elf_rawfile() and elf_cntl(ELF_C_FDREAD) read the whole file in.
ReadAll ==
    /\ ~elf.mapped
    /\ Call("readall", "", Ok(readall(X)))
    /\ ghost' = [ghost EXCEPT !.lost = @ \cup
                   IF scn.rawbase.at = "heap" /\ ~scn.malloced THEN {scn.rawbase.b} ELSE {}]
    /\ UNCHANGED <<want, str>>

End ==
    /\ elf.open /\ mem.fault = ""
    /\ mem' = elf_end(X).mem
    /\ elf' = [elf EXCEPT !.open = FALSE]
    /\ res' = [op |-> "end", rc |-> 1] /\ str' = NoStr
    /\ UNCHANGED <<scn, want, ghost, left>>

\* A section as file_read_elf() or elf_newscn() leaves it.
NewScn(image, base) ==
    [type |-> image.type, alloc |-> image.alloc, z |-> image.z, size |-> image.size,
     align |-> image.align, offset |-> image.offset, read |-> image.new,
     filedata |-> FALSE, malloced |-> FALSE, rawbase |-> base, database |-> base,
     zbase |-> NULL, zsize |-> 0, zalign |-> 0, raw |-> NoBlock, first |-> NoBlock,
     rest |-> << >>, nodes |-> << >>, rear |-> 0]

Init ==
    /\ \E image \in Images, d \in Descriptors :
         LET cells == IF d.native THEN image.cells
                      ELSE Convert(image.cells, IF image.z THEN "CHDR"
                                                ELSE data_type(image.type)) IN
         /\ elf = [open |-> TRUE, mapped |-> d.mapped, native |-> d.native,
                   aligned |-> d.aligned, class |-> d.class, cells |-> cells,
                   chunks |-> << >>]
         /\ scn = NewScn(image, IF d.based /\ ~image.new THEN InMap ELSE NULL)
         /\ want = [cells |-> Expand(cells), align |-> image.align, added |-> FALSE]
    /\ mem = [heap |-> [b \in {} |-> << >>], top |-> 1, fault |-> "", starved |-> FALSE]
    /\ str = NoStr
    /\ ghost = [lost |-> {}, mixed |-> FALSE, twice |-> FALSE, behind |-> FALSE]
    /\ res = [op |-> "begin", rc |-> 1]
    /\ left = [calls |-> MaxCalls, faults |-> MaxFaults]

Next ==
    \/ \E f \in Fails :
         \/ GetData(f) \/ RawData(f) \/ GetChdr(f)
         \/ \E moved \in BOOLEAN : UpdateNull(moved, f)
         \/ \E type \in {"BYTE", "SYM"} : RawChunk(type, f)
    \/ \E f \in FailsOf({"node"}), c \in Contents, a \in Aligns : NewData(c, a, f)
    \/ \E f \in FailsOf({"zlib"}) :
         \/ \E type \in {"ZLIB", "NONE"}, force \in BOOLEAN : elf_compress(type, force, f)
         \/ \E i \in {0, 1}, force \in BOOLEAN : elf_compress_gnu(i, force, f)
         \/ \E off \in 0..Len(want.cells) : StrPtr(off, f)
    \/ ReadAll
    \/ End

Spec == Init /\ [][Next]_vars

-----------------------------------------------------------------------------
(* Properties.                                                             *)
Pointers == {NULL, InMap} \cup {Heap(i) : i \in 1..mem.top - 1}

\* Every buffer is in the map or a block that was allocated, the fields have
\* their types, and the fault is one the accesses can have.
TypeOK ==
    /\ {scn.rawbase, scn.database, scn.zbase, scn.raw.buf} \subseteq Pointers
    /\ Range(scn.nodes) \subseteq Pointers
    /\ DOMAIN mem.heap \subseteq 1..mem.top - 1
    /\ mem.fault \in {"", "free", "freed", "past"}
    /\ scn.rear \in 0..Len(scn.rest) + 1 /\ Len(scn.nodes) = Len(scn.rest)
    /\ {scn.size, scn.align, scn.zsize, scn.zalign} \subseteq Nat
    /\ res.rc \in {-1, 0, 1}

\* No call gives up a block twice, or one that is not its own.
FreesOnce == mem.fault # "free"

\* A block that was given up is read only after a conversion that found no memory,
\* which leaves the section with the buffer elf_compress() freed.
ReadsLive == mem.fault = "freed" => mem.starved

\* Data added after the expanded bytes were kept makes elf_strptr() read past them.
ReadsInside == mem.fault = "past" => ghost.behind \/ ghost.mixed \/ mem.starved

\* No call reads a block that was freed or past the end of one, and none
\* frees what it may not, but in these two cases.
Survives == TypeOK /\ FreesOnce /\ ReadsLive /\ ReadsInside

\* After elf_end() nothing the library allocated for the section is left,
\* and nothing was freed twice, but for what is known to be lost: contents
\* read before the whole file was, expanded bytes kept when the section is
\* compressed again, blocks unlinked from the list.
Accounted == ~elf.open /\ mem.fault = "" => DOMAIN mem.heap = ghost.lost

\* A section that is not compressed any more has its size and alignment back.
\* An alignment 0 may come back as 1, which asks for as little.  The header of
\* 32-bit compressed data takes the alignment of the data, not of the
\* section: one above the offset in the file comes back as the offset.
Restored ==
    ~scn.z /\ ~want.added /\ ~ghost.twice /\ want.cells # << >>
    /\ FileOf(X) = want.cells
    => /\ scn.size = Len(want.cells)
       /\ \/ AlignOf(scn.align) = AlignOf(want.align)
          \/ elf.class = 32 /\ want.align > scn.offset /\ scn.align = scn.offset

\* What elf_compress() wrote it can expand: the header has an alignment that is
\* taken.  The offset of a section, as above, is one that is refused unless
\* it happens to be a power of 2.
Expandable ==
    scn.z /\ scn.malloced /\ FileOf(X)[1].k = "chdr" =>
        LET align == FileOf(X)[1].align IN
        PowerOf2(align) \/ (elf.class = 32 /\ want.align > scn.offset /\ align = scn.offset)

\* Whatever is read, converted, compressed and expanded, in either format,
\* byte order and several times over, the section holds what the program
\* put there, what was compressed can be expanded, and the section has its
\* size and alignment back then, unless one of several blocks was
\* compressed, and but for the alignments Restored and Expandable name.
ContentsKept ==
    elf.open /\ mem.fault = "" /\ ~mem.starved /\ ~ghost.mixed =>
        Expand(FileOf(X)) = want.cells /\ Restored /\ Expandable

\* A string that elf_strptr() gave out stays what it was until the section is
\* compressed or expanded.
StringStays == str.p # NULL /\ mem.fault = "" => StringAt(Cells(X, str.p), str.off) = str.s

\* A chunk elf_getdata_rawchunk() gave out stays until elf_end().
ChunksStay ==
    elf.open => \A i \in DOMAIN elf.chunks : Cells(X, elf.chunks[i].buf) = elf.chunks[i].due

\* elf_strptr() gives out the string at that offset of the section, be the
\* section compressed or not, read in or in blocks, and refuses none that
\* is there; the string and the chunks given out stay what they were.
AnswersRight == str.s = str.due /\ StringStays /\ ChunksStay

\* elf_compress() that fails, or finds that it does not pay, leaves header
\* and contents as they were.
RefusalKeeps ==
    [][res'.op \in {"deflate", "inflate", "gnu_deflate", "gnu_inflate"} /\ res'.rc < 1
       /\ ~mem'.starved =>
        /\ <<scn'.size, scn'.align, scn'.z>> = <<scn.size, scn.align, scn.z>>
        /\ FileOf(X)' = FileOf(X)]_vars

\* "It is an error to request compression for a section that already has
\* SHF_COMPRESSED set" (libelf.h:368).
CompressedOnce == [][res'.op = "deflate" /\ scn.z => res'.rc = -1]_vars
=============================================================================

------------------------ MODULE EuContentsKeepProofs ------------------------
(***************************************************************************)
(* Proofs about what EuContents keeps: whatever sections there are and     *)
(* whatever is called, elf_compress() and elf_compress_gnu() that fail, or *)
(* find that it does not pay, leave the header and the contents of the     *)
(* section as they were, although they may have read it in, converted it   *)
(* and begun its list of data blocks on the way.                           *)
(***************************************************************************)
EXTENDS EuContentsReadProofs

\* A sequence of cells of which each is in one byte order or the other.
IsCell(c) == c = [c EXCEPT !.sw = @] /\ c.sw \in BOOLEAN
Cellular(cells) ==
  cells \in Seq(Range(cells)) /\ \A i \in DOMAIN cells : IsCell(cells[i])

\* A section whose list was not begun is as in the file; once it is read,
\* what was read is all of it.
AsInFile(x) ==
  LET s == x.scn IN
  s.rear = 0 /\ s.type # "NOBITS" =>
    /\ s.rest = << >>
    /\ ~s.read => s.size = Len(x.elf.cells)
    /\ s.read =>
         /\ {"buf", "size", "type"} \subseteq DOMAIN s.raw /\ s.raw.size \in Nat
         /\ \/ /\ s.raw.buf # NULL /\ s.raw.buf = s.rawbase /\ s.raw.size > 0
               /\ Cells(x, s.rawbase) = x.elf.cells /\ s.raw.size = Len(x.elf.cells)
            \/ s.raw.buf = NULL /\ Cells(x, s.rawbase) = << >>

\* From x to y the header and the contents of the section stay, the contents
\* unless a conversion found no memory.
SameContents(x, y) ==
  /\ <<y.scn.size, y.scn.align, y.scn.z>> = <<x.scn.size, x.scn.align, x.scn.z>>
  /\ y.mem.starved \/ FileOf(y) = FileOf(x)

-----------------------------------------------------------------------------
(* Cells.                                                                  *)

LEMMA MinSame ==
  ASSUME NEW n \in Nat
  PROVE  Min({n, n}) = n
  BY MinIn

LEMMA MinZero ==
  ASSUME NEW n \in Nat
  PROVE  Min({n, 0}) = 0
  <1>1. Min({n, 0}) \in {n, 0} /\ \A y \in {n, 0} : Min({n, 0}) <= y
    BY DEF Min
  <1>2. QED  BY <1>1

LEMMA SwapTwice ==
  ASSUME NEW c, IsCell(c)
  PROVE  Swap(Swap(c)) = c
  <1>1. "sw" \in DOMAIN c \/ "sw" \notin DOMAIN c
    OBVIOUS
  <1>2. Swap(Swap(c)) = [c EXCEPT !.sw = @]
    BY <1>1 DEF Swap, IsCell
  <1>3. QED  BY <1>2 DEF IsCell

LEMMA CellularIs ==
  ASSUME NEW cells, Cellular(cells)
  PROVE  /\ Len(cells) \in Nat /\ DOMAIN cells = 1..Len(cells)
         /\ cells = [i \in 1..Len(cells) |-> cells[i]]
         /\ SubSeq(cells, 1, Len(cells)) = cells
         /\ Len(cells) = 0 => cells = << >>
  BY DEF Cellular

LEMMA ConvertLen ==
  ASSUME NEW cells, Cellular(cells), NEW type
  PROVE  LET d == Convert(cells, type) IN
         Len(d) = Len(cells) /\ SubSeq(d, 1, Len(d)) = d /\ DOMAIN d = 1..Len(cells)
  <1>1. /\ Len(cells) \in Nat /\ SubSeq(cells, 1, Len(cells)) = cells
        /\ DOMAIN cells = 1..Len(cells)
    BY CellularIs
  <1>2. CASE type = "BYTE"
    BY <1>1, <1>2 DEF Convert
  <1>3. ASSUME NEW f, f = [i \in 1..Len(cells) |-> f[i]]
        PROVE  Len(f) = Len(cells) /\ SubSeq(f, 1, Len(f)) = f /\ DOMAIN f = 1..Len(cells)
    <2> DEFINE n == Len(cells)
               E == {f[i] : i \in 1..n}
    <2>1. n \in Nat /\ f \in [1..n -> E]
      BY <1>1, <1>3
    <2> HIDE DEF n, E
    <2>2. f \in Seq(E) /\ Len(f) = n
      BY <2>1, FunctionIsSeq
    <2>3. SubSeq(f, 1, Len(f)) = f /\ DOMAIN f = 1..Len(f)
      BY <2>2
    <2>4. QED  BY <2>2, <2>3 DEF n
  <1>4. CASE type # "BYTE"
    <2>1. Convert(cells, type) = [i \in 1..Len(cells) |-> Convert(cells, type)[i]]
      BY <1>4 DEF Convert
    <2>2. QED  BY <1>3, <2>1
  <1>5. QED  BY <1>2, <1>4

\* Converting there and back gives the same cells.
LEMMA ConvertTwice ==
  ASSUME NEW cells, Cellular(cells), NEW type
  PROVE  Convert(Convert(cells, type), type) = cells
  <1>1. /\ Len(cells) \in Nat /\ cells = [i \in 1..Len(cells) |-> cells[i]]
        /\ DOMAIN cells = 1..Len(cells)
    BY CellularIs
  <1>2. \A i \in 1..Len(cells) : Swap(Swap(cells[i])) = cells[i]
    BY <1>1, SwapTwice DEF Cellular
  <1>3. CASE type = "BYTE"
    BY <1>3 DEF Convert
  <1> DEFINE d == Convert(cells, type)
  <1>4. Len(d) = Len(cells)
    BY ConvertLen
  <1>5. CASE type = "CHDR"
    <2>1. d = [i \in 1..Len(cells) |-> IF i = 1 THEN Swap(cells[i]) ELSE cells[i]]
      BY <1>5 DEF Convert
    <2>2. Convert(d, type) = [i \in 1..Len(cells) |-> IF i = 1 THEN Swap(d[i]) ELSE d[i]]
      BY <1>4, <1>5 DEF Convert
    <2> HIDE DEF d
    <2>3. Convert(d, type) = [i \in 1..Len(cells) |-> cells[i]]
      BY <1>2, <2>1, <2>2
    <2>4. QED  BY <1>1, <2>3 DEF d
  <1>6. CASE type \notin {"BYTE", "CHDR"}
    <2>1. d = [i \in 1..Len(cells) |-> Swap(cells[i])]
      BY <1>6 DEF Convert
    <2>2. Convert(d, type) = [i \in 1..Len(cells) |-> Swap(d[i])]
      BY <1>4, <1>6 DEF Convert
    <2> HIDE DEF d
    <2>3. Convert(d, type) = [i \in 1..Len(cells) |-> cells[i]]
      BY <1>2, <2>1, <2>2
    <2>4. QED  BY <1>1, <2>3 DEF d
  <1>7. QED  BY <1>3, <1>5, <1>6

\* A block that begins the list and spans its buffer.
LEMMA FileCellsWhole ==
  ASSUME NEW x, NEW p, NEW cells, Cellular(cells), p.size = Len(cells),
         Cells(x, p.buf) = IF x.elf.native THEN cells ELSE Convert(cells, p.type)
  PROVE  FileCells(x, p) = cells
  <1> DEFINE c == Cells(x, p.buf)
  <1>1. Len(c) = Len(cells) /\ SubSeq(c, 1, Len(c)) = c /\ Len(cells) \in Nat
    BY CellularIs, ConvertLen
  <1>2. Min({p.size, Len(c)}) = Len(c)
    BY <1>1, MinSame
  <1>3. SubSeq(c, 1, Min({p.size, Len(c)})) = c
    BY <1>1, <1>2
  <1>4. FileCells(x, p) = IF x.elf.native THEN c ELSE Convert(c, p.type)
    BY <1>3 DEF FileCells
  <1>5. QED  BY <1>4, ConvertTwice

LEMMA FileCellsNone ==
  ASSUME NEW x, NEW p, p.size \in Nat, Cells(x, p.buf) = << >>
  PROVE  FileCells(x, p) = << >>
  <1>1. Min({p.size, Len(<< >>)}) = 0
    BY MinZero
  <1>2. SubSeq(<< >>, 1, 0) = << >> /\ Len(<< >>) = 0
    OBVIOUS
  <1>3. FileCells(x, p) = IF x.elf.native THEN << >> ELSE Convert(<< >>, p.type)
    BY <1>1, <1>2 DEF FileCells
  <1>4. [i \in 1..0 |-> Swap(<< >>[i])] = << >>
        /\ [i \in 1..0 |-> IF i = 1 THEN Swap(<< >>[i]) ELSE << >>[i]] = << >>
    OBVIOUS
  <1>5. Convert(<< >>, p.type) = << >>
    BY <1>2, <1>4 DEF Convert
  <1>6. QED  BY <1>3, <1>5

\* A list of one block.
LEMMA ConcatOne ==
  ASSUME NEW x, NEW p, NEW ps, ps = <<p>> \o << >>
  PROVE  Concat(x, ps) = FileCells(x, p)
  <1> DEFINE c == FileCells(x, p)
             s == [i \in DOMAIN ps |-> FileCells(x, ps[i])]
  <1>1. ps = <<p>>
    <2>1. <<p>> \in Seq({p})
      OBVIOUS
    <2>2. QED  BY <2>1
  <1>2. s = <<c>>
    BY <1>1
  <1>3. Len(<<c>>) = 1 /\ <<c>>[1] = c
    OBVIOUS
  <1> HIDE DEF c, s
  <1> DEFINE f == [i \in 1..1 |-> c]
             Is(g) == g = [i \in 1..1 |-> IF i = 1 THEN <<c>>[i] ELSE g[i - 1] \o <<c>>[i]]
             flat == CHOOSE g : Is(g)
  <1>4. Is(f)
    BY <1>3
  <1> HIDE DEF f
  <1>5. Is(flat)
    BY <1>4
  <1>6. flat[1] = c
    BY <1>3, <1>5
  <1>7. FlattenSeq(<<c>>) = flat[1]
    BY <1>3 DEF FlattenSeq
  <1>8. QED  BY <1>2, <1>6, <1>7 DEF Concat, s, c

\* What would be written depends on the section and on the blocks in use.
LEMMA FileOfSame ==
  ASSUME NEW x, NEW y, y.scn = x.scn, y.elf = x.elf, y.mem.heap = x.mem.heap
  PROVE  FileOf(y) = FileOf(x)
  <1>1. \A p : Cells(y, p) = Cells(x, p)
    BY DEF Cells, Owns
  <1>2. \A p : FileCells(y, p) = FileCells(x, p)
    BY <1>1 DEF FileCells
  <1>3. \A ps : Concat(y, ps) = Concat(x, ps)
    BY <1>2 DEF Concat
  <1>4. Pieces(y) = Pieces(x)
    BY DEF Pieces
  <1>5. QED  BY <1>1, <1>3, <1>4 DEF FileOf

-----------------------------------------------------------------------------
(* Reading a section in, and beginning its list.                           *)

\* A call that leaves a list that was not begun alone, and what was read.
LEMMA AsInFileStays ==
  ASSUME NEW x, Owned(x), AsInFile(x), NEW y, Frame(x, y), Blocks(x) \subseteq Blocks(y),
         y.scn.rear = x.scn.rear, y.scn.rest = x.scn.rest, y.scn.read = x.scn.read,
         y.scn.raw = x.scn.raw, y.scn.rawbase = x.scn.rawbase, y.scn.type = x.scn.type,
         ~x.scn.read => y.scn.size = x.scn.size
  PROVE  AsInFile(y)
  <1>1. Old(x, x.scn.rawbase)
    BY BuffersLive, LiveOld
  <1>2. Cells(y, x.scn.rawbase) = Cells(x, x.scn.rawbase)
    BY <1>1, CellsStay
  <1>3. y.elf.cells = x.elf.cells
    BY DEF Frame
  <1>4. QED  BY <1>2, <1>3 DEF AsInFile

LEMMA SameContentsTwice ==
  ASSUME NEW x, NEW y, NEW z, SameContents(x, y), SameContents(y, z), Frame(y, z)
  PROVE  SameContents(x, z)
  BY DEF SameContents, Frame

LEMMA SameContentsStays ==
  ASSUME NEW x
  PROVE  SameContents(x, x)
  BY DEF SameContents

LEMMA set_rawdataReads ==
  ASSUME NEW x, Owned(x), AsInFile(x), Cellular(x.elf.cells), ~x.scn.read, NEW fail
  PROVE  LET r == set_rawdata(x, fail) IN
         /\ AsInFile(r.x) /\ r.x.scn.type = x.scn.type
         /\ x.scn.type # "NOBITS" => SameContents(x, r.x)
  <1> DEFINE type == IF x.scn.z THEN "CHDR" ELSE data_type(x.scn.type)
             align == RawAlign(x.scn)
             raw(p) == Block(p, x.scn.size, align, type)
             Set(y, p) == [y EXCEPT !.scn.rawbase = IF p = NULL THEN @ ELSE p,
                                    !.scn.raw = raw(p),
                                    !.scn.read = TRUE, !.scn.filedata = TRUE]
             a == Alloc(x, x.elf.cells)
             r == set_rawdata(x, fail)
             cells == x.elf.cells
  <1>1. \/ r = Ok(Set(x, NULL)) /\ (x.scn.size = 0 \/ x.scn.type = "NOBITS")
        \/ r = Ok(Set(x, InMap)) /\ x.scn.size # 0
        \/ r = Rc(-1, x)
        \/ r = Ok(Set(a, Heap(x.mem.top))) /\ x.scn.size # 0
    BY DEF set_rawdata
  <1>2. x.scn.rear = 0 /\ x.scn.rawbase \in {NULL, InMap}
    BY DEF Owned, Unread
  <1>3. \A p : /\ {"buf", "size", "type"} \subseteq DOMAIN raw(p)
               /\ raw(p).buf = p /\ raw(p).size = x.scn.size
    BY DEF Block
  <1>4. Len(cells) \in Nat /\ (Len(cells) = 0 => cells = << >>)
    BY CellularIs
  <1> HIDE DEF raw, r
  <1>5. ASSUME NEW w, Shape(w), w.scn = x.scn, w.elf = x.elf, NEW p,
               \/ p = NULL /\ (x.scn.size = 0 \/ x.scn.type = "NOBITS")
               \/ p # NULL /\ Cells(w, p) = cells /\ x.scn.size # 0
        PROVE  LET y == Set(w, p) IN
               /\ AsInFile(y) /\ y.scn.type = x.scn.type
               /\ x.scn.type # "NOBITS" => SameContents(x, y)
    <2> DEFINE y == Set(w, p)
    <2>1. /\ y.elf = x.elf /\ y.mem = w.mem
          /\ y.scn.rawbase = (IF p = NULL THEN x.scn.rawbase ELSE p)
          /\ y.scn.raw = raw(p) /\ y.scn.read = TRUE /\ y.scn.rear = 0
          /\ y.scn.rest = x.scn.rest /\ y.scn.type = x.scn.type
          /\ y.scn.size = x.scn.size /\ y.scn.align = x.scn.align /\ y.scn.z = x.scn.z
      BY <1>2, <1>5 DEF Shape, ScnFields
    <2> HIDE DEF y
    <2>2. \A q : Cells(y, q) = Cells(w, q)
      BY <1>5, <2>1, CellsSame
    <2>3. Cells(w, NULL) = << >> /\ Cells(w, InMap) = cells
      BY <1>5, Pointers2 DEF Cells, Owns
    <2>4. ASSUME x.scn.type # "NOBITS"
          PROVE  /\ x.scn.rest = << >> /\ x.scn.size = Len(cells)
                 /\ p = NULL => cells = << >>
      BY <1>2, <1>4, <1>5, <2>4 DEF AsInFile
    <2>5. x.scn.type # "NOBITS" => Cells(y, y.scn.rawbase) = cells
      BY <1>2, <1>5, <2>1, <2>2, <2>3, <2>4
    <2>6. AsInFile(y)
      BY <1>3, <1>4, <1>5, <2>1, <2>4, <2>5 DEF AsInFile
    <2>7. x.scn.type # "NOBITS" => FileOf(y) = FileOf(x)
      BY <1>2, <2>1, <2>5 DEF FileOf
    <2>8. QED  BY <2>1, <2>6, <2>7 DEF SameContents, y
  <1> HIDE DEF Set
  <1>6. /\ Shape(a) /\ a.scn = x.scn /\ a.elf = x.elf
        /\ Cells(a, Heap(x.mem.top)) = cells
    <2>1. /\ Shape(a) /\ a.scn = x.scn /\ a.elf = x.elf
          /\ a.mem.heap[x.mem.top] = cells /\ x.mem.top \in Blocks(a)
      BY AllocFrame, AllocIs DEF Owned
    <2> HIDE DEF a
    <2>2. QED  BY <2>1, Pointers1 DEF Cells
  <1>7. Cells(x, InMap) = cells /\ InMap # NULL /\ Heap(x.mem.top) # NULL /\ Shape(x)
    <2>1. Cells(x, InMap) = cells
      BY Pointers2 DEF Cells, Owns
    <2>2. QED  BY <2>1, Pointers1 DEF Owned
  <1> HIDE DEF a
  <1>8. CASE r = Rc(-1, x)
    BY <1>8, SameContentsStays DEF Rc, r
  <1>9. CASE r = Ok(Set(x, NULL)) /\ (x.scn.size = 0 \/ x.scn.type = "NOBITS")
    <2>1. r.x = Set(x, NULL)
      BY <1>9 DEF Ok
    <2>2. QED  BY <1>5, <1>7, <1>9, <2>1 DEF r
  <1>10. CASE r = Ok(Set(x, InMap)) /\ x.scn.size # 0
    <2>1. r.x = Set(x, InMap)
      BY <1>10 DEF Ok
    <2>2. QED  BY <1>5, <1>7, <1>10, <2>1 DEF r
  <1>11. CASE r = Ok(Set(a, Heap(x.mem.top))) /\ x.scn.size # 0
    <2>1. r.x = Set(a, Heap(x.mem.top))
      BY <1>11 DEF Ok
    <2>2. QED  BY <1>5, <1>6, <1>7, <1>11, <2>1 DEF r
  <1>12. QED  BY <1>1, <1>8, <1>9, <1>10, <1>11

\* The list begins with the whole of what was read, converted back.
LEMMA set_data_listKeepsContents ==
  ASSUME NEW x, Owned(x), AsInFile(x), Cellular(x.elf.cells),
         x.scn.read, x.scn.rear = 0, x.scn.type # "NOBITS", NEW fail
  PROVE  LET y == set_data_list(x, fail) IN SameContents(x, y)
  <1> DEFINE s == x.scn
             y == set_data_list(x, fail)
             Begun(z) == [z EXCEPT !.scn.rear = 1]
             t == x.mem.top
             cells == x.elf.cells
             raw == Cells(x, s.rawbase)
             c == IF x.elf.native THEN raw ELSE Convert(raw, s.raw.type)
             a == Alloc(x, c)
             some == s.raw.buf # NULL /\ s.raw.size > 0
  <1> SUFFICES SameContents(x, y)
    OBVIOUS
  <1>1. \/ ~some /\ y = Begun([x EXCEPT !.scn.first = s.raw])
        \/ some /\ (x.elf.native \/ s.raw.type = "BYTE") /\ y = Begun(First(x, s.rawbase))
        \/ some /\ y = Begun([x EXCEPT !.scn.database = NULL, !.mem.starved = TRUE])
        \/ some /\ y = Begun(First(a, Heap(t)))
    BY DEF set_data_list, convert_data
  <1>2. /\ s.rest = << >> /\ {"buf", "size", "type"} \subseteq DOMAIN s.raw /\ s.raw.size \in Nat
        /\ some => raw = cells /\ s.raw.size = Len(cells)
        /\ ~some => raw = << >> /\ s.raw.buf = NULL
    BY DEF AsInFile
  <1>3. Shape(x) /\ FileOf(x) = raw
    BY DEF Owned, FileOf
  <1> HIDE DEF y
  \* The contents are those of the first block.
  <1>4. ASSUME NEW w, Shape(w), w.scn = s, w.elf = x.elf, NEW first,
               y.scn.first = first, y.scn.rest = s.rest, y.scn.rear = 1,
               y.elf = w.elf, y.mem = w.mem,
               y.scn.size = s.size, y.scn.align = s.align, y.scn.z = s.z,
               \/ some /\ first = [s.raw EXCEPT !.buf = first.buf]
                       /\ Cells(w, first.buf) = IF x.elf.native THEN cells
                                                ELSE Convert(cells, s.raw.type)
               \/ ~some /\ first = s.raw
        PROVE  SameContents(x, y)
    <2>1. FileOf(y) = Concat(y, Pieces(y)) /\ Pieces(y) = <<first>> \o << >>
      BY <1>2, <1>4 DEF FileOf, Pieces
    <2>2. FileOf(y) = FileCells(y, first)
      BY <2>1, ConcatOne
    <2>3. \A q : Cells(y, q) = Cells(w, q)
      BY <1>4, CellsSame
    <2>4. CASE some
      <3>1. first.size = Len(cells) /\ first.type = s.raw.type
        BY <1>2, <1>4, <2>4
      <3>2. Cells(y, first.buf) = IF y.elf.native THEN cells ELSE Convert(cells, first.type)
        BY <1>4, <2>3, <2>4, <3>1
      <3>3. FileCells(y, first) = cells
        BY <3>1, <3>2, FileCellsWhole
      <3>4. FileOf(y) = FileOf(x)
        BY <1>2, <1>3, <2>2, <2>4, <3>3
      <3>5. QED  BY <1>4, <3>4 DEF SameContents
    <2>5. CASE ~some
      <3>1. first.size \in Nat /\ first.buf = NULL
        BY <1>2, <1>4, <2>5
      <3>2. Cells(y, first.buf) = << >>
        BY <3>1, Pointers2 DEF Cells, Owns
      <3>3. FileCells(y, first) = << >>
        BY <3>1, <3>2, FileCellsNone
      <3>4. FileOf(y) = FileOf(x)
        BY <1>2, <1>3, <2>2, <2>5, <3>3
      <3>5. QED  BY <1>4, <3>4 DEF SameContents
    <2>6. QED  BY <2>4, <2>5
  <1>5. CASE ~some /\ y = Begun([x EXCEPT !.scn.first = s.raw])
    <2>1. /\ y.scn.first = s.raw /\ y.scn.rest = s.rest /\ y.scn.rear = 1
          /\ y.elf = x.elf /\ y.mem = x.mem
          /\ y.scn.size = s.size /\ y.scn.align = s.align /\ y.scn.z = s.z
      BY <1>3, <1>5 DEF Shape, ScnFields
    <2>2. QED  BY <1>3, <1>4, <1>5, <2>1
  <1>6. CASE some /\ (x.elf.native \/ s.raw.type = "BYTE") /\ y = Begun(First(x, s.rawbase))
    <2> DEFINE first == [s.raw EXCEPT !.buf = s.rawbase]
    <2>1. /\ y.scn.first = first /\ y.scn.rest = s.rest /\ y.scn.rear = 1
          /\ y.elf = x.elf /\ y.mem = x.mem
          /\ y.scn.size = s.size /\ y.scn.align = s.align /\ y.scn.z = s.z
      BY <1>3, <1>6 DEF Shape, ScnFields, First
    <2>2. first.buf = s.rawbase /\ first = [s.raw EXCEPT !.buf = first.buf]
      BY <1>2
    <2>3. Cells(x, first.buf) = IF x.elf.native THEN cells ELSE Convert(cells, s.raw.type)
      BY <1>2, <1>6, <2>2 DEF Convert
    <2> HIDE DEF first
    <2>4. QED  BY <1>3, <1>4, <1>6, <2>1, <2>2, <2>3
  <1>7. CASE y = Begun([x EXCEPT !.scn.database = NULL, !.mem.starved = TRUE])
    <2>1. /\ y.scn.size = s.size /\ y.scn.align = s.align /\ y.scn.z = s.z
          /\ y.mem.starved
      BY <1>3, <1>7 DEF Shape, ScnFields
    <2>2. QED  BY <2>1 DEF SameContents
  <1>8. CASE some /\ y = Begun(First(a, Heap(t)))
    <2> DEFINE first == [s.raw EXCEPT !.buf = Heap(t)]
    <2>1. /\ Shape(a) /\ a.scn = s /\ a.elf = x.elf
          /\ a.mem.heap[t] = c /\ t \in Blocks(a)
      BY AllocFrame, AllocIs DEF Owned
    <2>2. Cells(a, Heap(t)) = c
      <3> HIDE DEF a, c
      <3>1. QED  BY <2>1, Pointers1 DEF Cells
    <2> HIDE DEF a
    <2>3. /\ y.scn.first = first /\ y.scn.rest = s.rest /\ y.scn.rear = 1
          /\ y.elf = a.elf /\ y.mem = a.mem
          /\ y.scn.size = s.size /\ y.scn.align = s.align /\ y.scn.z = s.z
      BY <1>8, <2>1 DEF Shape, ScnFields, First
    <2>4. first.buf = Heap(t) /\ first = [s.raw EXCEPT !.buf = first.buf]
      BY <1>2
    <2>5. c = IF x.elf.native THEN cells ELSE Convert(cells, s.raw.type)
      BY <1>2, <1>8
    <2> HIDE DEF first, c
    <2>6. QED  BY <1>4, <1>8, <2>1, <2>2, <2>3, <2>4, <2>5
  <1>9. QED  BY <1>1, <1>5, <1>6, <1>7, <1>8

-----------------------------------------------------------------------------
(* The calls.                                                              *)

\* What a call starts from.
Filed(x) == Owned(x) /\ Held(x) /\ AsInFile(x) /\ Cellular(x.elf.cells)

\* A call from x to y that leaves a section to start from, and its contents.
Goes(x, y) == Calm(x, y) /\ Owned(y) /\ AsInFile(y)
Retains(x, y) ==
  /\ Goes(x, y) /\ y.scn.type = x.scn.type
  /\ x.scn.type # "NOBITS" => SameContents(x, y)

LEMMA GoesFiled ==
  ASSUME NEW x, Filed(x), NEW y, Goes(x, y)
  PROVE  Filed(y)
  BY DEF Filed, Goes, Calm, Frame

LEMMA GoesStays ==
  ASSUME NEW x, Filed(x)
  PROVE  Goes(x, x) /\ Retains(x, x)
  BY CalmStays, SameContentsStays DEF Goes, Filed, Retains

LEMMA GoesTwice ==
  ASSUME NEW x, Filed(x), NEW y, Goes(x, y), NEW z, Goes(y, z)
  PROVE  Goes(x, z)
  BY CalmTwice DEF Goes, Filed

LEMMA RetainsTwice ==
  ASSUME NEW x, Filed(x), NEW y, Retains(x, y), NEW z, Retains(y, z)
  PROVE  Retains(x, z)
  <1>1. Goes(x, z)
    BY GoesTwice DEF Retains
  <1>2. Frame(y, z)
    BY DEF Retains, Goes, Calm
  <1>3. x.scn.type # "NOBITS" => SameContents(x, z)
    BY <1>2, SameContentsTwice DEF Retains
  <1>4. QED  BY <1>1, <1>3 DEF Retains

\* A list that has begun.
LEMMA BegunRear ==
  ASSUME NEW y, Shape(y), NEW z, y = [z EXCEPT !.scn.rear = 1]
  PROVE  y.scn.rear = 1
  <1>1. DOMAIN z = {"elf", "scn", "mem"}
    BY DEF Shape
  <1>2. y.scn = [z.scn EXCEPT !.rear = 1]
    BY <1>1
  <1>3. "rear" \in DOMAIN z.scn
    BY <1>2 DEF Shape, ScnFields
  <1>4. QED  BY <1>2, <1>3

LEMMA BegunFiled ==
  ASSUME NEW y, y.scn.rear # 0
  PROVE  AsInFile(y)
  BY DEF AsInFile

LEMMA set_data_listGoes ==
  ASSUME NEW x, Filed(x), x.scn.read, x.scn.rear = 0, NEW fail
  PROVE  LET y == set_data_list(x, fail) IN Retains(x, y) /\ y.scn.rear = 1
  <1> DEFINE y == set_data_list(x, fail)
  <1>1. Owned(y) /\ y.scn.rear = 1
    BY set_data_listKeeps DEF Filed, Steady
  <1>2. Calm(x, y)
    BY set_data_listCalm DEF Filed, Held, HeldFirst
  <1>3. x.scn.type # "NOBITS" => SameContents(x, y)
    BY set_data_listKeepsContents DEF Filed
  <1>4. y.scn.type = x.scn.type
    BY DEF set_data_list, convert_data, First, Alloc, Filed, Owned, Shape, ScnFields
  <1> HIDE DEF y
  <1>5. AsInFile(y)
    BY <1>1, BegunFiled
  <1>6. QED  BY <1>1, <1>2, <1>3, <1>4, <1>5 DEF Retains, Goes, y

LEMMA set_rawdataGoes ==
  ASSUME NEW x, Filed(x), ~x.scn.read, NEW fail
  PROVE  LET r == set_rawdata(x, fail) IN
         /\ Retains(x, r.x) /\ r.rc \in {1, -1} /\ r.x.scn.rear = 0
         /\ r.rc = 1 => r.x.scn.read
  <1> DEFINE r == set_rawdata(x, fail)
  <1>1. /\ Owned(r.x) /\ r.rc \in {1, -1} /\ (r.rc = 1 => r.x.scn.read)
        /\ r.x.scn.rear = 0
    BY set_rawdataKeeps DEF Filed, Steady
  <1>2. Calm(x, r.x)
    BY set_rawdataCalm DEF Filed
  <1>3. /\ AsInFile(r.x) /\ r.x.scn.type = x.scn.type
        /\ x.scn.type # "NOBITS" => SameContents(x, r.x)
    BY set_rawdataReads DEF Filed
  <1> HIDE DEF r
  <1>4. QED  BY <1>1, <1>2, <1>3 DEF Retains, Goes, r

LEMMA elf_getdataGoes ==
  ASSUME NEW x, Filed(x), NEW fail
  PROVE  Retains(x, elf_getdata(x, fail).x)
  <1> DEFINE Listed(y) == Ok(IF y.scn.rear = 0 THEN set_data_list(y, fail) ELSE y)
             s == set_rawdata(x, fail)
             r == elf_getdata(x, fail)
  <1>1. ASSUME NEW y, Filed(y), y.scn.read
        PROVE  Retains(y, Listed(y).x)
    <2>1. Listed(y).x = IF y.scn.rear = 0 THEN set_data_list(y, fail) ELSE y
      BY DEF Ok
    <2> HIDE DEF Listed
    <2>2. CASE y.scn.rear = 0
      BY <1>1, <2>1, <2>2, set_data_listGoes
    <2>3. CASE y.scn.rear # 0
      BY <1>1, <2>1, <2>3, GoesStays
    <2>4. QED  BY <2>2, <2>3
  <1>2. \/ x.scn.read /\ r = Listed(x)
        \/ ~x.scn.read /\ s.rc = 1 /\ r = Listed(s.x)
        \/ ~x.scn.read /\ s.rc # 1 /\ r = s
    BY DEF elf_getdata, Then
  <1>3. ~x.scn.read => Retains(x, s.x) /\ (s.rc = 1 => s.x.scn.read)
    BY set_rawdataGoes
  <1> HIDE DEF Listed, r, s
  <1>4. ASSUME ~x.scn.read, s.rc = 1
        PROVE  Retains(x, Listed(s.x).x)
    <2>1. Filed(s.x)
      BY <1>3, <1>4, GoesFiled DEF Retains
    <2>2. Retains(s.x, Listed(s.x).x)
      BY <1>1, <1>3, <1>4, <2>1
    <2>3. QED  BY <1>3, <1>4, <2>2, RetainsTwice
  <1>5. Retains(x, r.x)
    BY <1>1, <1>2, <1>3, <1>4
  <1>6. QED  BY <1>5 DEF r

LEMMA elf_rawdataGoes ==
  ASSUME NEW x, Filed(x), NEW fail
  PROVE  Goes(x, elf_rawdata(x, fail).x)
  BY GoesStays, set_rawdataGoes DEF elf_rawdata, Rc, Retains

\* Reading alone changes nothing that would be written.
LEMMA ReadsGoes ==
  ASSUME NEW x, Filed(x), NEW y, Calm(x, y), Owned(y), y.scn = x.scn, y.elf = x.elf,
         y.mem.heap = x.mem.heap
  PROVE  Retains(x, y)
  <1>1. FileOf(y) = FileOf(x)
    BY FileOfSame
  <1>2. AsInFile(y)
    BY AsInFileStays DEF Filed, Calm
  <1>3. QED  BY <1>1, <1>2 DEF Retains, Goes, SameContents

LEMMA FirstRead ==
  ASSUME NEW x, Filed(x), NEW n
  PROVE  Retains(x, Reads(x, x.scn.first.buf, n))
  <1> DEFINE y == Reads(x, x.scn.first.buf, n)
             p == x.scn.first.buf
  <1>1. x.mem.starved \/ Live(x, p)
    BY DEF Filed, Held, HeldFirst
  <1>2. /\ Calm(x, y) /\ Owned(y) /\ y.scn = x.scn /\ y.mem.heap = x.mem.heap
        /\ y.elf = x.elf
    BY <1>1, ReadsCalm DEF Filed
  <1> HIDE DEF y, p
  <1>3. Retains(x, y)
    BY <1>2, ReadsGoes
  <1>4. QED  BY <1>3 DEF y, p

LEMMA PiecesRead ==
  ASSUME NEW x, Filed(x)
  PROVE  Retains(x, ReadsAll(x, Pieces(x)))
  <1> DEFINE ps == Pieces(x)
             bad == {i \in DOMAIN ps : ~Readable(x, ps[i].buf, ps[i].size)}
             p == ps[Min(bad)]
             y == Reads(x, p.buf, p.size)
  <1>1. ReadsAll(x, ps) = IF bad = {} THEN x ELSE y
    BY DEF ReadsAll
  <1>2. CASE bad = {}
    BY <1>1, <1>2, GoesStays
  <1>3. CASE bad # {}
    <2>1. bad \subseteq DOMAIN ps /\ DOMAIN ps \subseteq Nat
      BY PiecesLive DEF Filed
    <2> HIDE DEF ps, bad
    <2>2. Min(bad) \in bad
      BY <1>3, <2>1, MinIn
    <2>3. x.mem.starved \/ Live(x, p.buf)
      BY <2>1, <2>2, PiecesLive DEF Filed, ps
    <2> HIDE DEF p
    <2>4. /\ Calm(x, y) /\ Owned(y) /\ y.scn = x.scn /\ y.mem.heap = x.mem.heap
          /\ y.elf = x.elf
      BY <2>3, ReadsCalm DEF Filed
    <2> HIDE DEF y
    <2>5. Retains(x, y)
      BY <2>4, ReadsGoes
    <2>6. QED  BY <1>1, <1>3, <2>5 DEF ps
  <1>4. QED  BY <1>2, <1>3

LEMMA compressGoes ==
  ASSUME NEW x, Filed(x), NEW force, NEW fail
  PROVE  Retains(x, compress(x, force, fail).x)
  <1> DEFINE g == elf_getdata(x, fail)
             y == g.x
             z == ReadsAll(y, Pieces(y))
             q == Packed(y, Pieces(y), force, fail)
             r == compress(x, force, fail)
  <1>1. r = IF g.rc = 1 THEN q ELSE g
    BY DEF compress, Then
  <1>2. q.x \in {y, z}
    BY DEF Packed, Rc, Got
  <1>3. Retains(x, y)
    BY elf_getdataGoes
  <1> HIDE DEF r, g, q
  <1>4. Filed(y)
    BY <1>3, GoesFiled DEF Retains
  <1>5. Retains(y, z)
    BY <1>4, PiecesRead
  <1> HIDE DEF z
  <1>6. Retains(x, z)
    BY <1>3, <1>5, RetainsTwice
  <1>7. r.x \in {y, z}
    BY <1>1, <1>2
  <1>8. QED  BY <1>3, <1>6, <1>7 DEF r

LEMMA getchdrGoes ==
  ASSUME NEW x, Filed(x), NEW fail
  PROVE  Retains(x, getchdr(x, fail).x)
  <1> DEFINE g == elf_getdata(x, fail)
             y == g.x
             z == Reads(y, y.scn.first.buf, HSIZE)
             r == getchdr(x, fail)
  <1>1. \/ r = Rc(-1, x)
        \/ r = g \/ r = Rc(-1, g.x)
        \/ r = Got(z, Pad)
        \/ \E v : r = Got(g.x, v)
    BY DEF getchdr, Then
  <1>2. Retains(x, x) /\ Retains(x, y)
    BY elf_getdataGoes, GoesStays
  <1> HIDE DEF r, g
  <1>3. Filed(y)
    BY <1>2, GoesFiled DEF Retains
  <1>4. Retains(y, z)
    BY <1>3, FirstRead
  <1> HIDE DEF z
  <1>5. Retains(x, z)
    BY <1>2, <1>4, RetainsTwice
  <1>6. r.x \in {x, y, z}
    BY <1>1 DEF Rc, Got
  <1>7. QED  BY <1>2, <1>5, <1>6 DEF r

\* Expanding the first block, which changes something only when it succeeds.
LEMMA decompressGoes ==
  ASSUME NEW x, Filed(x), NEW out, NEW fail
  PROVE  LET r == decompress(x, x.scn.first, out, fail) IN
         Goes(x, r.x) /\ r.x.scn = x.scn /\ (r.rc # 1 => Retains(x, r.x))
  <1> DEFINE p == x.scn.first
             y == Reads(x, p.buf, p.size)
             r == decompress(x, p, out, fail)
  <1>1. r = Rc(-1, y) \/ \E c : r = Got(Alloc(y, c), Heap(y.mem.top))
    BY DEF decompress
  <1>2. x.mem.starved \/ Live(x, p.buf)
    BY DEF Filed, Held, HeldFirst
  <1>3. Calm(x, r.x) /\ Owned(r.x) /\ r.x.scn = x.scn
    BY <1>2, decompressCalm DEF Filed
  <1>4. Retains(x, y)
    BY FirstRead
  <1> HIDE DEF r, y
  <1>5. AsInFile(r.x)
    BY <1>3, AsInFileStays DEF Filed, Calm
  <1>6. r.rc # 1 => r.x = y
    BY <1>1 DEF Rc, Got
  <1>7. QED  BY <1>3, <1>4, <1>5, <1>6 DEF Goes, r

LEMMA decompress_elfGoes ==
  ASSUME NEW x, Filed(x), NEW fail
  PROVE  LET r == decompress_elf(x, fail) IN
         AsInFile(r.x) /\ (r.rc # 1 => Retains(x, r.x))
  <1> DEFINE c == getchdr(x, fail)
             d == decompress(c.x, c.x.scn.first, c.v.size, fail)
             y == [d.x EXCEPT !.scn.zbase = d.v, !.scn.zsize = c.v.size,
                              !.scn.zalign = c.v.align]
             r == decompress_elf(x, fail)
  <1>1. \/ c.rc # 1 /\ r = Rc(c.rc, c.x)
        \/ r = Rc(-1, c.x)
        \/ d.rc # 1 /\ r = Rc(d.rc, d.x)
        \/ r = Ok(y)
    BY DEF decompress_elf, With
  <1>2. Retains(x, c.x)
    BY getchdrGoes
  <1> HIDE DEF r, c
  <1>3. Filed(c.x)
    BY <1>2, GoesFiled DEF Retains
  <1>4. Goes(c.x, d.x) /\ (d.rc # 1 => Retains(c.x, d.x))
    BY <1>3, decompressGoes
  <1> HIDE DEF d
  <1>5. d.rc # 1 => Retains(x, d.x)
    BY <1>2, <1>4, RetainsTwice
  <1>6. AsInFile(y)
    <2>1. Owned(d.x) /\ AsInFile(d.x) /\ Frame(d.x, d.x)
      BY <1>4, FrameStays DEF Goes
    <2>2. /\ y.elf = d.x.elf /\ y.mem = d.x.mem
          /\ y.scn.rear = d.x.scn.rear /\ y.scn.rest = d.x.scn.rest
          /\ y.scn.read = d.x.scn.read /\ y.scn.raw = d.x.scn.raw
          /\ y.scn.rawbase = d.x.scn.rawbase /\ y.scn.type = d.x.scn.type
          /\ y.scn.size = d.x.scn.size
      BY <2>1 DEF Owned, Shape, ScnFields
    <2> HIDE DEF y
    <2>3. Frame(d.x, y) /\ Blocks(y) = Blocks(d.x)
      BY <2>1, <2>2, FrameSame DEF Blocks
    <2>4. QED  BY <2>1, <2>2, <2>3, AsInFileStays
  <1> HIDE DEF y
  <1>7. AsInFile(r.x) /\ (r.rc # 1 => Retains(x, r.x))
    BY <1>1, <1>2, <1>4, <1>5, <1>6 DEF Rc, Ok, Retains, Goes
  <1>8. QED  BY <1>7 DEF r

-----------------------------------------------------------------------------
(* elf_compress() and elf_compress_gnu().                                  *)

\* A call that replaces the contents when it succeeds, and keeps them when not.
AllOrNothing(x, r) == AsInFile(r.x) /\ (r.rc # 1 => Retains(x, r.x))

LEMMA ResetFiled ==
  ASSUME NEW w, NEW buf, NEW size, NEW align, NEW type, NEW zbase, NEW fail, NEW y,
         y = reset_rawdata(w, buf, size, align, type, zbase, fail), Shape(y)
  PROVE  AsInFile(y)
  <1> DEFINE w0 == [Dropped(w) EXCEPT
                      !.scn.raw = Block(buf, size, align, type), !.scn.rear = 0,
                      !.scn.database = NULL, !.scn.rawbase = buf, !.scn.zbase = zbase,
                      !.scn.malloced = TRUE, !.scn.read = TRUE, !.scn.filedata = TRUE]
  <1>1. y = set_data_list(w0, fail)
    BY DEF reset_rawdata
  <1> HIDE DEF w0
  <1>2. \E z : y = [z EXCEPT !.scn.rear = 1]
    BY <1>1 DEF set_data_list
  <1>3. y.scn.rear = 1
    BY <1>2, BegunRear
  <1>4. QED  BY <1>3, BegunFiled

LEMMA deflateAll ==
  ASSUME NEW x, Filed(x), NEW force, NEW fail
  PROVE  AllOrNothing(x, elf_compress_deflate(x, force, fail))
  <1> DEFINE c == compress(x, force, fail)
             y == c.x
             Done(cells) == reset_rawdata([Alloc(y, cells) EXCEPT
                              !.scn.size = Len(cells), !.scn.align = CHDR_ALIGN, !.scn.z = TRUE],
                              Heap(y.mem.top), Len(cells), 1, "CHDR", NULL, fail)
             r == elf_compress_deflate(x, force, fail)
  <1>1. \/ r = Rc(-1, x)
        \/ c.rc # 1 /\ r = Rc(c.rc, y)
        \/ \E cells : r = Ok(Done(cells))
    BY DEF elf_compress_deflate, With
  <1>2. Retains(x, x) /\ Retains(x, y)
    BY compressGoes, GoesStays
  <1>3. Shape(r.x)
    BY deflateKeeps DEF Filed, Renews, Leaks, Owned
  <1> HIDE DEF r, c
  <1>4. ASSUME NEW cells, r = Ok(Done(cells))
        PROVE  r.rc = 1 /\ AsInFile(r.x)
    <2>1. r.rc = 1 /\ r.x = Done(cells)
      BY <1>4 DEF Ok
    <2>2. QED  BY <1>3, <2>1, ResetFiled
  <1> HIDE DEF Done
  <1>5. AllOrNothing(x, r)
    BY <1>1, <1>2, <1>4 DEF AllOrNothing, Rc, Retains, Goes
  <1>6. QED  BY <1>5 DEF r

LEMMA gnu_deflateAll ==
  ASSUME NEW x, Filed(x), NEW force, NEW fail
  PROVE  AllOrNothing(x, elf_compress_gnu_deflate(x, force, fail))
  <1> DEFINE c == compress(x, force, fail)
             y == c.x
             Done(cells) == reset_rawdata([Alloc(y, cells) EXCEPT !.scn.size = Len(cells)],
                              Heap(y.mem.top), Len(cells), 1, "BYTE", NULL, fail)
             r == elf_compress_gnu_deflate(x, force, fail)
  <1>1. \/ r = Rc(-1, x)
        \/ c.rc # 1 /\ r = Rc(c.rc, y)
        \/ \E cells : r = Ok(Done(cells))
    BY DEF elf_compress_gnu_deflate, With
  <1>2. Retains(x, x) /\ Retains(x, y)
    BY compressGoes, GoesStays
  <1>3. Shape(r.x)
    BY gnu_deflateKeeps DEF Filed, Renews, Leaks, Owned
  <1> HIDE DEF r, c
  <1>4. ASSUME NEW cells, r = Ok(Done(cells))
        PROVE  r.rc = 1 /\ AsInFile(r.x)
    <2>1. r.rc = 1 /\ r.x = Done(cells)
      BY <1>4 DEF Ok
    <2>2. QED  BY <1>3, <2>1, ResetFiled
  <1> HIDE DEF Done
  <1>5. AllOrNothing(x, r)
    BY <1>1, <1>2, <1>4 DEF AllOrNothing, Rc, Retains, Goes
  <1>6. QED  BY <1>5 DEF r

LEMMA inflateAll ==
  ASSUME NEW x, Filed(x), NEW fail
  PROVE  AllOrNothing(x, elf_compress_inflate(x, fail))
  <1> DEFINE e == decompress_elf(x, fail)
             Done(y) == reset_rawdata([y EXCEPT !.scn.size = y.scn.zsize,
                                                !.scn.align = y.scn.zalign, !.scn.z = FALSE],
                                      y.scn.zbase, y.scn.zsize, y.scn.zalign,
                                      data_type(y.scn.type), y.scn.zbase, fail)
             r == elf_compress_inflate(x, fail)
  <1>1. \/ r = Rc(-1, x)
        \/ e.rc # 1 /\ r = e
        \/ \E y : r = Ok(Done(y))
    BY DEF elf_compress_inflate, Then, Ok
  <1>2. Retains(x, x) /\ AsInFile(e.x) /\ (e.rc # 1 => Retains(x, e.x))
    BY decompress_elfGoes, GoesStays
  <1>3. Shape(r.x)
    BY inflateKeeps DEF Filed, Renews, Leaks, Owned
  <1> HIDE DEF r, e
  <1>4. ASSUME NEW y, r = Ok(Done(y))
        PROVE  r.rc = 1 /\ AsInFile(r.x)
    <2>1. r.rc = 1 /\ r.x = Done(y)
      BY <1>4 DEF Ok
    <2>2. QED  BY <1>3, <2>1, ResetFiled
  <1> HIDE DEF Done
  <1>5. AllOrNothing(x, r)
    BY <1>1, <1>2, <1>4 DEF AllOrNothing, Rc, Retains, Goes
  <1>6. QED  BY <1>5 DEF r

LEMMA gnu_inflateAll ==
  ASSUME NEW x, Filed(x), NEW fail
  PROVE  AllOrNothing(x, elf_compress_gnu_inflate(x, fail))
  <1> DEFINE g == elf_getdata(x, fail)
             y == g.x
             size == Cells(y, y.scn.first.buf)[1].size
             q == Reads(y, y.scn.first.buf, Min({HSIZE, y.scn.first.size}))
             d == decompress(y, y.scn.first, size, fail)
             z == d.x
             Done == reset_rawdata([z EXCEPT !.scn.size = size], d.v, size, z.scn.align,
                                   data_type(z.scn.type), d.v, fail)
             r == elf_compress_gnu_inflate(x, fail)
  <1>1. \/ r = Rc(-1, x)
        \/ r = Rc(-1, y) \/ r = Rc(-1, q)
        \/ g.rc # 1 /\ r = g
        \/ d.rc # 1 /\ r = Rc(d.rc, z)
        \/ r = Ok(Done)
    BY DEF elf_compress_gnu_inflate, Then, With
  <1>2. Retains(x, x) /\ Retains(x, y)
    BY elf_getdataGoes, GoesStays
  <1>3. Shape(r.x)
    BY gnu_inflateKeeps DEF Filed, Renews, Leaks, Owned
  <1> HIDE DEF r, g, size
  <1>4. Filed(y)
    BY <1>2, GoesFiled DEF Retains
  <1>5. Retains(y, q) /\ (d.rc # 1 => Retains(y, z))
    BY <1>4, FirstRead, decompressGoes
  <1> HIDE DEF q, d
  <1>6. Retains(x, q) /\ (d.rc # 1 => Retains(x, z))
    BY <1>2, <1>4, <1>5, RetainsTwice
  <1>7. ASSUME r = Ok(Done)
        PROVE  r.rc = 1 /\ AsInFile(r.x)
    <2>1. r.rc = 1 /\ r.x = Done
      BY <1>7 DEF Ok
    <2>2. QED  BY <1>3, <2>1, ResetFiled
  <1> HIDE DEF Done
  <1>8. AllOrNothing(x, r)
    BY <1>1, <1>2, <1>6, <1>7 DEF AllOrNothing, Rc, Retains, Goes
  <1>9. QED  BY <1>8 DEF r

-----------------------------------------------------------------------------
(* The other calls.                                                        *)

LEMMA FoundFiled ==
  ASSUME NEW x, Filed(x), NEW p, x.mem.starved \/ Live(x, p), NEW off, NEW to
  PROVE  AsInFile(Found(x, p, off, to).x)
  <1> DEFINE y == Reads(x, p, to)
             r == Found(x, p, off, to)
  <1>1. r.x = y
    BY DEF Found, Rc
  <1>2. /\ Calm(x, y) /\ Owned(y) /\ y.scn = x.scn /\ y.mem.heap = x.mem.heap
        /\ y.elf = x.elf
    BY ReadsCalm DEF Filed
  <1> HIDE DEF r, y
  <1>3. AsInFile(r.x)
    BY <1>1, <1>2, ReadsGoes DEF Retains, Goes
  <1>4. QED  BY <1>3 DEF r

LEMMA strptr_atFiled ==
  ASSUME NEW x, Filed(x), NEW off, NEW size
  PROVE  AsInFile(strptr_at(x, off, size).x)
  <1> DEFINE ps == Pieces(x)
             in == {i \in DOMAIN ps : off >= ps[i].off /\ off < ps[i].off + ps[i].size}
             p == ps[Min(in)]
             r == strptr_at(x, off, size)
  <1>1. \/ r = Rc(-1, x)
        \/ r = Found(x, x.scn.zbase, off, size)
        \/ r = Found(x, x.scn.rawbase, off, size)
        \/ in # {} /\ r = Found(x, p.buf, off - p.off, p.size)
    BY DEF strptr_at
  <1>2. in # {} => x.mem.starved \/ Live(x, p.buf)
    <2>1. in \subseteq DOMAIN ps /\ DOMAIN ps \subseteq Nat
      BY PiecesLive DEF Filed
    <2> HIDE DEF in
    <2>2. in # {} => Min(in) \in in
      BY <2>1, MinIn
    <2>3. QED  BY <2>1, <2>2, PiecesLive DEF Filed
  <1> HIDE DEF r, p, in
  <1>3. Live(x, x.scn.zbase) /\ Live(x, x.scn.rawbase)
    BY BuffersLive DEF Filed
  <1>4. AsInFile(Rc(-1, x).x)
    BY DEF Filed, Rc
  <1>5. AsInFile(r.x)
    BY <1>1, <1>2, <1>3, <1>4, FoundFiled
  <1>6. QED  BY <1>5 DEF r

LEMMA strptr_inFiled ==
  ASSUME NEW x, Filed(x), NEW off, NEW fail
  PROVE  AsInFile(strptr_in(x, off, fail).x)
  <1> DEFINE s == IF x.scn.rawbase = NULL /\ ~x.scn.read THEN set_rawdata(x, fail) ELSE Ok(x)
             r == strptr_in(x, off, fail)
  <1>1. \/ r = Rc(-1, x)
        \/ s.rc # 1 /\ r = s
        \/ \E size : r = strptr_at(s.x, off, size)
    BY DEF strptr_in, Then
  <1>2. Goes(x, s.x)
    BY set_rawdataGoes, GoesStays DEF Ok, Retains
  <1> HIDE DEF r, s
  <1>3. Filed(s.x)
    BY <1>2, GoesFiled
  <1>4. AsInFile(Rc(-1, x).x)
    BY DEF Filed, Rc
  <1>5. AsInFile(r.x)
    BY <1>1, <1>2, <1>3, <1>4, strptr_atFiled DEF Goes
  <1>6. QED  BY <1>5 DEF r

LEMMA elf_strptrFiled ==
  ASSUME NEW x, Filed(x), NEW off, NEW fail
  PROVE  AsInFile(elf_strptr(x, off, fail).x)
  <1> DEFINE e == decompress_elf(x, fail)
             r == elf_strptr(x, off, fail)
  <1>1. \/ r = Rc(-1, x)
        \/ r = strptr_in(x, off, fail)
        \/ /\ x.scn.zbase = NULL
           /\ \/ e.rc # 1 /\ r = e
              \/ r = strptr_in(e.x, off, fail)
    BY DEF elf_strptr, get_zdata, Then
  <1>2. x.scn.zbase = NULL => Goes(x, e.x)
    BY decompress_elfCalm, decompress_elfKeeps, decompress_elfGoes DEF Leaks, Filed, Goes
  <1> HIDE DEF r, e
  <1>3. x.scn.zbase = NULL => Filed(e.x)
    BY <1>2, GoesFiled
  <1>4. AsInFile(Rc(-1, x).x)
    BY DEF Filed, Rc
  <1>5. AsInFile(r.x)
    BY <1>1, <1>2, <1>3, <1>4, strptr_inFiled DEF Goes
  <1>6. QED  BY <1>5 DEF r

LEMMA updatenullFiled ==
  ASSUME NEW x, Filed(x), NEW moved, NEW fail
  PROVE  AsInFile(updatenull_scn(x, moved, fail).x)
  <1> DEFINE Lay(y) ==
               IF y.scn.rear = 0
               THEN [y EXCEPT !.scn.align = AlignOf(@), !.scn.size = y.scn.raw.size]
               ELSE LET instead == y.scn.first.buf = NULL /\ y.scn.raw.buf # NULL
                        ps == <<FirstBlock(y)>> \o y.scn.rest
                        end == Ends(ps) IN
                    [y EXCEPT !.scn.first.off = IF instead THEN @ ELSE 0,
                              !.scn.raw.off = IF instead THEN 0 ELSE @,
                              !.scn.rest = [i \in DOMAIN @ |->
                                 [@[i] EXCEPT !.off = Up(end[i], y.scn.rest[i].align)]],
                              !.scn.align = Larger(AlignOf(@), Aligned(ps)),
                              !.scn.size = end[Len(ps)]]
             s == IF ~PowerOf2(AlignOf(x.scn.align)) THEN Rc(-1, x)
                  ELSE IF x.scn.read THEN Ok(x) ELSE set_rawdata(x, fail)
             y == s.x
             l == Lay(y)
             g == IF moved THEN elf_getdata(l, fail) ELSE Ok(l)
             h == getchdr(g.x, fail)
             r == updatenull_scn(x, moved, fail)
  <1>1. \/ r = s \/ r.x = y
        \/ s.rc = 1 /\ r.x \in {g.x, h.x}
    BY DEF updatenull_scn, Then, Rc, Ok
  <1>2. Goes(x, y) /\ (s.rc = 1 => y.scn.read)
    BY set_rawdataGoes, GoesStays DEF Ok, Rc, Retains
  <1> HIDE DEF r, s
  <1>3. Filed(y)
    BY <1>2, GoesFiled
  <1>4. Calm(y, l) /\ Owned(l)
    <2>1. CASE y.scn.rear = 0
      <3>1. l = [y EXCEPT !.scn.align = AlignOf(@), !.scn.size = y.scn.raw.size]
        BY <2>1
      <3> HIDE DEF l
      <3>2. Given(y.scn.rest)
        BY <1>3 DEF Filed, Held, HeldRest
      <3>3. Moved(y, l) /\ Laid(y, l)
        BY <1>3, <3>1, <3>2, MovedIs, LaidIs DEF Filed
      <3>4. QED  BY <1>3, <3>3, MovedCalm, LaidKeeps DEF Steady, Filed
    <2>2. CASE y.scn.rear # 0
      <3> DEFINE instead == y.scn.first.buf = NULL /\ y.scn.raw.buf # NULL
                 ps == <<FirstBlock(y)>> \o y.scn.rest
                 end == Ends(ps)
                 f == IF instead THEN y.scn.first.off ELSE 0
                 o == IF instead THEN 0 ELSE y.scn.raw.off
                 rest == [i \in DOMAIN y.scn.rest |->
                            [y.scn.rest[i] EXCEPT !.off = Up(end[i], y.scn.rest[i].align)]]
                 a == Larger(AlignOf(y.scn.align), Aligned(ps))
                 n == end[Len(ps)]
                 to == [i \in DOMAIN y.scn.rest |-> Up(end[i], y.scn.rest[i].align)]
      <3>1. l = [y EXCEPT !.scn.first.off = f, !.scn.raw.off = o, !.scn.rest = rest,
                          !.scn.align = a, !.scn.size = n]
        BY <2>2
      <3>2. rest = [i \in DOMAIN y.scn.rest |-> [y.scn.rest[i] EXCEPT !.off = to[i]]]
        OBVIOUS
      <3> HIDE DEF l, f, o, rest, a, n, to
      <3>3. Given(rest) /\ Len(rest) = Len(y.scn.rest)
        <4>1. Given(y.scn.rest)
          BY <1>3 DEF Filed, Held, HeldRest
        <4>2. Given(rest)
          BY <3>2, <4>1, GivenMoved
        <4>3. Len(rest) = Len(y.scn.rest)
          BY <3>2, <4>1, GivenMoved
        <4>4. QED  BY <4>2, <4>3
      <3>4. Moved(y, l) /\ Laid(y, l)
        BY <1>3, <3>1, <3>3, MovedIs, LaidIs DEF Filed
      <3>5. QED  BY <1>3, <3>4, MovedCalm, LaidKeeps DEF Steady, Filed
    <2>3. QED  BY <2>1, <2>2
  <1>5. y.scn.read => AsInFile(l)
    <2>1. CASE y.scn.rear = 0
      <3>1. /\ l.scn.rear = y.scn.rear /\ l.scn.rest = y.scn.rest
            /\ l.scn.read = y.scn.read /\ l.scn.raw = y.scn.raw
            /\ l.scn.rawbase = y.scn.rawbase /\ l.scn.type = y.scn.type
        BY <1>3, <2>1 DEF Filed, Owned, Shape, ScnFields
      <3> HIDE DEF l
      <3>2. QED  BY <1>3, <1>4, <3>1, AsInFileStays DEF Filed, Calm
    <2>2. CASE y.scn.rear # 0
      <3>1. l.scn.rear = y.scn.rear
        BY <1>3, <2>2 DEF Filed, Owned, Shape, ScnFields
      <3> HIDE DEF l
      <3>2. QED  BY <2>2, <3>1, BegunFiled
    <2>3. QED  BY <2>1, <2>2
  <1> HIDE DEF l
  <1>6. y.scn.read => Filed(l)
    BY <1>3, <1>4, <1>5, GoesFiled DEF Goes
  <1>7. y.scn.read => Goes(l, g.x)
    BY <1>6, elf_getdataGoes, GoesStays DEF Ok, Retains
  <1> HIDE DEF g
  <1>8. y.scn.read => Filed(g.x)
    BY <1>6, <1>7, GoesFiled
  <1>9. y.scn.read => AsInFile(h.x)
    BY <1>8, getchdrGoes DEF Retains, Goes
  <1> HIDE DEF h
  <1>10. AsInFile(r.x)
    BY <1>1, <1>2, <1>7, <1>9 DEF Goes
  <1>11. QED  BY <1>10 DEF r

\* A block behind the last one: the list has begun, unless the call fails.
LEMMA elf_newdataFiled ==
  ASSUME NEW x, Filed(x), Linked(x), NEW fail
  PROVE  LET r == elf_newdata(x, fail) IN
         AsInFile(r.x) /\ (r.rc = 1 => r.x.scn.rear # 0)
  <1> DEFINE begin == x.scn.read /\ x.scn.rawbase # NULL /\ x.scn.rear = 0
             x0 == IF begin THEN set_data_list(x, fail) ELSE x
             Linking(y) == [Alloc(y, << >>) EXCEPT
                              !.scn.rest = Append(SubSeq(y.scn.rest, 1, y.scn.rear - 1), NoBlock),
                              !.scn.nodes = Append(SubSeq(@, 1, y.scn.rear - 1),
                                                   Heap(y.mem.top)),
                              !.scn.rear = @ + 1]
             one == [x0 EXCEPT !.scn.first = NoBlock, !.scn.rear = 1]
             s == set_rawdata(x0, fail)
             listed == set_data_list(s.x, fail)
             r == elf_newdata(x, fail)
  <1>1. \/ r.x = one
        \/ x0.scn.read /\ x0.scn.rear # 0 /\ (r = Rc(-1, x0) \/ r.x = Linking(x0))
        \/ ~x0.scn.read /\ s.rc # 1 /\ r = s
        \/ ~x0.scn.read /\ s.rc = 1 /\ (r = Rc(-1, listed) \/ r.x = Linking(listed))
    BY DEF elf_newdata, Then, Ok
  <1>2. Filed(x0)
    BY set_data_listGoes, GoesFiled DEF Retains
  <1> HIDE DEF r, x0
  <1>3. ASSUME NEW y, Filed(y), y.scn.rear # 0
        PROVE  Linking(y).scn.rear # 0
    <2> DEFINE w == Alloc(y, << >>)
    <2>1. Shape(w) /\ w.scn = y.scn
      BY <1>3, AllocIs DEF Filed, Owned
    <2>2. y.scn.rear \in Nat
      <3>1. Lists(y) /\ \E C : y.scn.rest \in Seq(C)
        BY <1>3 DEF Filed, Owned, Held, HeldRest, Given
      <3>2. y.scn.rear \in 0..Len(y.scn.nodes) + 1 /\ Len(y.scn.nodes) \in Nat
        BY <3>1 DEF Lists
      <3>3. QED  BY <3>2
    <2> HIDE DEF w
    <2>3. Linking(y).scn.rear = y.scn.rear + 1
      BY <2>1 DEF Shape, ScnFields, w
    <2>4. QED  BY <2>2, <2>3
  <1>4. one.scn.rear = 1
    BY <1>2 DEF Filed, Owned, Shape, ScnFields
  <1>5. ~x0.scn.read => /\ AsInFile(s.x)
                        /\ s.rc = 1 => Filed(s.x) /\ s.x.scn.read /\ s.x.scn.rear = 0
    BY <1>2, set_rawdataGoes, GoesFiled DEF Retains, Goes
  <1> HIDE DEF s
  <1>6. ~x0.scn.read /\ s.rc = 1 => Filed(listed) /\ listed.scn.rear # 0
    BY <1>5, set_data_listGoes, GoesFiled DEF Retains
  <1> HIDE DEF one, listed
  <1>7. r.x = one => AsInFile(r.x) /\ r.x.scn.rear # 0
    BY <1>4, BegunFiled
  <1>8. \A y : r.x = Linking(y) /\ Filed(y) /\ y.scn.rear # 0
               => AsInFile(r.x) /\ r.x.scn.rear # 0
    <2> TAKE y
    <2> HAVE r.x = Linking(y) /\ Filed(y) /\ y.scn.rear # 0
    <2>1. r.x.scn.rear # 0
      BY <1>3
    <2> HIDE DEF Linking
    <2>2. QED  BY <2>1, BegunFiled
  <1> HIDE DEF Linking
  <1>9. \A y : r = Rc(-1, y) /\ Filed(y) => AsInFile(r.x) /\ r.rc # 1
    BY DEF Rc, Filed
  <1>10. AsInFile(r.x) /\ (r.rc = 1 => r.x.scn.rear # 0)
    BY <1>1, <1>2, <1>5, <1>6, <1>7, <1>8, <1>9
  <1>11. QED  BY <1>10 DEF r

\* A chunk leaves the section alone.
LEMMA rawchunkFiled ==
  ASSUME NEW x, Filed(x), Len(x.elf.chunks) < 1, NEW type, NEW fail
  PROVE  LET r == elf_getdata_rawchunk(x, type, fail) IN
         AsInFile(r.x) /\ r.x.elf.cells = x.elf.cells
  <1> DEFINE cells == IF x.elf.native THEN x.elf.cells ELSE Convert(x.elf.cells, type)
             Chunk(y, p) == [Alloc(y, << >>) EXCEPT
                               !.elf.chunks = <<[buf |-> p, node |-> Heap(y.mem.top),
                                                 due |-> cells]>> \o @]
             a == Alloc(x, cells)
             r == elf_getdata_rawchunk(x, type, fail)
  <1>1. r.x \in {x, Chunk(a, Heap(x.mem.top)), Chunk(x, InMap)}
    BY DEF elf_getdata_rawchunk, Rc, Ok
  <1>2. Shape(x) /\ Shape(a) /\ a.scn = x.scn
    BY AllocIs DEF Filed, Owned
  <1>3. \E w : Calm(x, w) /\ Owned(w) /\ Marks(w, r.x)
    BY rawchunkMarks DEF Filed
  <1> HIDE DEF r, a, cells
  <1>4. ASSUME NEW y, Shape(y), NEW p
        PROVE  Chunk(y, p).scn = y.scn
    <2> DEFINE w == Alloc(y, << >>)
    <2>1. Shape(w) /\ w.scn = y.scn
      BY <1>4, AllocIs
    <2> HIDE DEF w
    <2>2. Chunk(y, p).scn = w.scn
      BY <2>1 DEF Shape, w
    <2>3. QED  BY <2>1, <2>2
  <1> HIDE DEF Chunk
  <1>5. r.x.scn = x.scn
    BY <1>1, <1>2, <1>4
  <1>6. PICK w : Calm(x, w) /\ Owned(w) /\ Marks(w, r.x)
    BY <1>3
  <1>7. w.scn = x.scn /\ AsInFile(w)
    BY <1>5, <1>6, AsInFileStays DEF Filed, Calm, Marks
  <1>8. \A q : Cells(r.x, q) = Cells(w, q)
    BY <1>6, CellsSame DEF Marks
  <1>9. AsInFile(r.x) /\ r.x.elf.cells = x.elf.cells
    BY <1>6, <1>7, <1>8 DEF AsInFile, Marks, Calm, Frame
  <1>10. QED  BY <1>9 DEF r

-----------------------------------------------------------------------------
(* The invariant.                                                          *)
Filing == elf.open => AsInFile(X) /\ Cellular(elf.cells)

LEMMA OpenFiled ==
  ASSUME IInv, Reading, Filing, elf.open
  PROVE  Filed(X) /\ Linked(X)
  BY OpenReading DEF Filing, Filed, X

LEMMA FiledStep ==
  ASSUME Filing, elf.open, NEW CONSTANT x, AsInFile(x), x.elf.cells = elf.cells,
         elf' = x.elf, scn' = x.scn, mem' = x.mem
  PROVE  Filing'
  <1> DEFINE y == [elf |-> x.elf, scn |-> x.scn, mem |-> x.mem]
  <1>1. X' = y /\ elf'.cells = elf.cells
    BY DEF X
  <1>2. y.elf = x.elf /\ y.scn = x.scn /\ y.mem = x.mem
    OBVIOUS
  <1> HIDE DEF y
  <1>3. \A p : Cells(y, p) = Cells(x, p)
    BY <1>2, CellsSame
  <1>4. AsInFile(y)
    BY <1>2, <1>3 DEF AsInFile
  <1>5. AsInFile(X)'
    BY <1>1, <1>4
  <1>6. QED  BY <1>1, <1>5 DEF Filing

\* A call that keeps what it does not replace.
LEMMA CallFiled ==
  ASSUME IInv, Reading, Filing, NEW CONSTANT op, NEW CONSTANT f, NEW CONSTANT r,
         Call(op, f, r), AsInFile(r.x), Frame(X, r.x)
  PROVE  Filing'
  BY FiledStep DEF Call, Frame, X

LEMMA LooksFiled ==
  ASSUME IInv, Reading, Filing, NEW CONSTANT f,
         \/ GetData(f) \/ RawData(f) \/ GetChdr(f) \/ \E moved : UpdateNull(moved, f)
  PROVE  Filing'
  <1>1. CASE GetData(f)
    <2> DEFINE r == elf_getdata(X, f)
    <2>1. elf.open /\ Call("getdata", f, r)
      BY <1>1 DEF GetData, Looks, Call
    <2>2. AsInFile(r.x) /\ Frame(X, r.x)
      BY <2>1, OpenFiled, elf_getdataGoes DEF Retains, Goes, Calm
    <2> HIDE DEF r
    <2>3. QED  BY <2>1, <2>2, CallFiled
  <1>2. CASE RawData(f)
    <2> DEFINE r == elf_rawdata(X, f)
    <2>1. elf.open /\ Call("rawdata", f, r)
      BY <1>2 DEF RawData, Looks, Call
    <2>2. AsInFile(r.x) /\ Frame(X, r.x)
      BY <2>1, OpenFiled, elf_rawdataGoes DEF Goes, Calm
    <2> HIDE DEF r
    <2>3. QED  BY <2>1, <2>2, CallFiled
  <1>3. CASE GetChdr(f)
    <2> DEFINE r == getchdr(X, f)
    <2>1. elf.open /\ Call("getchdr", f, r)
      BY <1>3 DEF GetChdr, Looks, Call
    <2>2. AsInFile(r.x) /\ Frame(X, r.x)
      BY <2>1, OpenFiled, getchdrGoes DEF Retains, Goes, Calm
    <2> HIDE DEF r
    <2>3. QED  BY <2>1, <2>2, CallFiled
  <1>4. ASSUME NEW moved, UpdateNull(moved, f)
        PROVE  Filing'
    <2> DEFINE r == updatenull_scn(X, moved, f)
    <2>1. elf.open /\ Call("update", f, r)
      BY <1>4 DEF UpdateNull, Looks, Call
    <2>2. AsInFile(r.x) /\ Frame(X, r.x)
      BY <2>1, OpenFiled, updatenullFiled, updatenullCalm DEF Filed, Calm
    <2> HIDE DEF r
    <2>3. QED  BY <2>1, <2>2, CallFiled
  <1>5. QED  BY <1>1, <1>2, <1>3, <1>4

LEMMA RawChunkFiled ==
  ASSUME IInv, Reading, Filing, NEW CONSTANT type, NEW CONSTANT f, RawChunk(type, f)
  PROVE  Filing'
  <1> DEFINE r == elf_getdata_rawchunk(X, type, f)
  <1>1. /\ elf.open /\ Len(X.elf.chunks) < 1
        /\ elf' = r.x.elf /\ scn' = r.x.scn /\ mem' = r.x.mem
    BY DEF RawChunk, Looks, Call, X
  <1>2. AsInFile(r.x) /\ r.x.elf.cells = X.elf.cells
    BY <1>1, OpenFiled, rawchunkFiled
  <1> HIDE DEF r
  <1>3. QED  BY <1>1, <1>2, FiledStep DEF X

LEMMA ReadAllFiled ==
  ASSUME IInv, Reading, Filing, ReadAll
  PROVE  Filing'
  <1> DEFINE x == readall(X)
  <1>1. elf.open /\ elf' = x.elf /\ scn' = x.scn /\ mem' = x.mem
    BY DEF ReadAll, Call, Ok
  <1>2. Filed(X)
    BY <1>1, OpenFiled
  <1>3. x.scn = X.scn /\ x.mem = X.mem /\ x.elf.cells = X.elf.cells
    BY <1>2 DEF readall, Filed, Owned, Shape
  <1> HIDE DEF x
  <1>4. \A p : Cells(x, p) = Cells(X, p)
    BY <1>3, CellsSame
  <1>5. AsInFile(x)
    BY <1>2, <1>3, <1>4 DEF Filed, AsInFile
  <1>6. QED  BY <1>1, <1>3, <1>5, FiledStep DEF X

LEMMA NewDataFiled ==
  ASSUME IInv, Reading, Filing, NEW CONSTANT c, NEW CONSTANT align, NEW CONSTANT f,
         NewData(c, align, f)
  PROVE  Filing'
  <1> DEFINE r == elf_newdata(X, f)
             block == Block(User(c), Len(c), align, "BYTE")
             rear == r.x.scn.rear
             filled == IF rear = 1 THEN [r.x EXCEPT !.scn.first = block]
                       ELSE [r.x EXCEPT !.scn.rest[rear - 1] = block]
             done == IF r.rc = 1 THEN Ok(filled) ELSE r
  <1>1. Call("newdata", f, done) /\ elf.open
    BY DEF NewData, Call
  <1>2. Filed(X) /\ Linked(X)
    BY <1>1, OpenFiled
  <1>3. Calm(X, r.x) /\ Owned(r.x)
    BY <1>2, elf_newdataCalm DEF Filed
  <1>4. AsInFile(r.x) /\ (r.rc = 1 => r.x.scn.rear # 0)
    BY <1>2, elf_newdataFiled
  <1> HIDE DEF r, block
  <1>5. filled.elf = r.x.elf /\ filled.mem = r.x.mem /\ filled.scn.rear = r.x.scn.rear
    BY <1>3 DEF Owned, Shape, ScnFields
  <1> HIDE DEF filled
  <1>6. Frame(X, done.x) /\ AsInFile(done.x)
    BY <1>3, <1>4, <1>5, FrameSame, BegunFiled DEF Calm, Ok
  <1> HIDE DEF done
  <1>7. QED  BY <1>1, <1>6, CallFiled

\* A call that fails keeps what would be written, and what the header says.
FailureKeeps ==
  res'.rc < 1 /\ ~mem'.starved =>
    /\ <<scn'.size, scn'.align, scn'.z>> = <<scn.size, scn.align, scn.z>>
    /\ FileOf(X)' = FileOf(X)

LEMMA ReplacesFiled ==
  ASSUME IInv, Reading, Filing, NEW CONSTANT op, NEW CONSTANT f, NEW CONSTANT r,
         Replaces(op, f, r), AllOrNothing(X, r), Frame(X, r.x),
         Refuses(X) => r = Rc(-1, X)
  PROVE  Filing' /\ FailureKeeps
  <1>1. Call(op, f, r) /\ res'.rc = r.rc
    BY DEF Replaces, Call
  <1>2. Filing'
    BY <1>1, CallFiled DEF AllOrNothing
  <1>3. ASSUME r.rc < 1, ~r.x.mem.starved
        PROVE  SameContents(X, r.x)
    <2>1. r.rc # 1
      BY <1>3
    <2>2. CASE X.scn.type = "NOBITS"
      BY <2>2, SameContentsStays DEF Refuses, Rc
    <2>3. CASE X.scn.type # "NOBITS"
      BY <2>1, <2>3 DEF AllOrNothing, Retains
    <2>4. QED  BY <2>2, <2>3
  <1>4. /\ elf' = r.x.elf /\ scn' = r.x.scn /\ mem' = r.x.mem
    BY <1>1 DEF Call
  <1>5. FileOf(X)' = FileOf(r.x)
    <2> DEFINE y == [elf |-> r.x.elf, scn |-> r.x.scn, mem |-> r.x.mem]
    <2>1. X' = y
      BY <1>4 DEF X
    <2>2. y.scn = r.x.scn /\ y.elf = r.x.elf /\ y.mem.heap = r.x.mem.heap
      OBVIOUS
    <2> HIDE DEF y
    <2>3. FileOf(y) = FileOf(r.x)
      BY <2>2, FileOfSame
    <2>4. QED  BY <2>1, <2>3
  <1>6. FailureKeeps
    BY <1>1, <1>3, <1>4, <1>5 DEF FailureKeeps, SameContents, X
  <1>7. QED  BY <1>2, <1>6

LEMMA CompressFiled ==
  ASSUME IInv, Reading, Filing, NEW CONSTANT type, NEW CONSTANT force, NEW CONSTANT f,
         elf_compress(type, force, f)
  PROVE  Filing' /\ FailureKeeps
  <1>1. CASE type = "ZLIB"
    <2> DEFINE r == elf_compress_deflate(X, force, f)
    <2>1. Replaces("deflate", f, r) /\ elf.open
      BY <1>1 DEF elf_compress, Replaces, Call
    <2>2. AllOrNothing(X, r) /\ Frame(X, r.x)
      BY <2>1, OpenFiled, OpenReading, deflateAll, deflateShaken DEF Replacing, Shaken
    <2>3. Refuses(X) => r = Rc(-1, X)
      BY DEF elf_compress_deflate
    <2> HIDE DEF r
    <2>4. QED  BY <2>1, <2>2, <2>3, ReplacesFiled
  <1>2. CASE type # "ZLIB"
    <2> DEFINE r == elf_compress_inflate(X, f)
    <2>1. Replaces("inflate", f, r) /\ elf.open
      BY <1>2 DEF elf_compress, Replaces, Call
    <2>2. AllOrNothing(X, r) /\ Frame(X, r.x)
      BY <2>1, OpenFiled, OpenReading, inflateAll, inflateShaken DEF Replacing, Shaken
    <2>3. Refuses(X) => r = Rc(-1, X)
      BY DEF elf_compress_inflate
    <2> HIDE DEF r
    <2>4. QED  BY <2>1, <2>2, <2>3, ReplacesFiled
  <1>3. QED  BY <1>1, <1>2

LEMMA CompressGnuFiled ==
  ASSUME IInv, Reading, Filing, NEW CONSTANT inflate, NEW CONSTANT force, NEW CONSTANT f,
         elf_compress_gnu(inflate, force, f)
  PROVE  Filing' /\ FailureKeeps
  <1>1. CASE inflate = 1
    <2> DEFINE r == elf_compress_gnu_deflate(X, force, f)
    <2>1. Replaces("gnu_deflate", f, r) /\ elf.open
      BY <1>1 DEF elf_compress_gnu, Replaces, Call
    <2>2. AllOrNothing(X, r) /\ Frame(X, r.x)
      BY <2>1, OpenFiled, OpenReading, gnu_deflateAll, gnu_deflateShaken
         DEF Replacing, Shaken
    <2>3. Refuses(X) => r = Rc(-1, X)
      BY DEF elf_compress_gnu_deflate
    <2> HIDE DEF r
    <2>4. QED  BY <2>1, <2>2, <2>3, ReplacesFiled
  <1>2. CASE inflate # 1
    <2> DEFINE r == elf_compress_gnu_inflate(X, f)
    <2>1. Replaces("gnu_inflate", f, r) /\ elf.open
      BY <1>2 DEF elf_compress_gnu, Replaces, Call
    <2>2. AllOrNothing(X, r) /\ Frame(X, r.x)
      BY <2>1, OpenFiled, OpenReading, gnu_inflateAll, gnu_inflateShaken
         DEF Replacing, Shaken
    <2>3. Refuses(X) => r = Rc(-1, X)
      BY DEF elf_compress_gnu_inflate
    <2> HIDE DEF r
    <2>4. QED  BY <2>1, <2>2, <2>3, ReplacesFiled
  <1>3. QED  BY <1>1, <1>2

LEMMA StrPtrFiled ==
  ASSUME IInv, Reading, Filing, NEW CONSTANT off, NEW CONSTANT f, StrPtr(off, f)
  PROVE  Filing'
  <1> DEFINE r == elf_strptr(X, off, f)
  <1>1. elf.open /\ Call("strptr", f, r)
    BY DEF StrPtr, Call
  <1>2. AsInFile(r.x) /\ Frame(X, r.x)
    BY <1>1, OpenFiled, OpenReading, elf_strptrFiled, elf_strptrFinds DEF Finds, Calm
  <1> HIDE DEF r
  <1>3. QED  BY <1>1, <1>2, CallFiled

LEMMA SwapCell ==
  ASSUME NEW c, IsCell(c)
  PROVE  IsCell(Swap(c))
  <1>1. CASE "sw" \in DOMAIN c
    <2>1. Swap(c).sw = ~c.sw /\ c.sw \in BOOLEAN
      BY <1>1 DEF Swap, IsCell
    <2>2. Swap(c) = [Swap(c) EXCEPT !.sw = @]
      BY DEF Swap
    <2>3. Swap(c).sw \in BOOLEAN
      BY <2>1
    <2>4. QED  BY <2>2, <2>3 DEF IsCell
  <1>2. CASE "sw" \notin DOMAIN c
    <2>1. Swap(c) = c
      BY <1>2 DEF Swap, IsCell
    <2>2. QED  BY <2>1
  <1>3. QED  BY <1>1, <1>2

LEMMA ConvertCellular ==
  ASSUME NEW cells, Cellular(cells), NEW type
  PROVE  Cellular(Convert(cells, type))
  <1> DEFINE d == Convert(cells, type)
             n == Len(cells)
  <1>1. n \in Nat /\ DOMAIN cells = 1..n
    BY CellularIs
  <1>2. \A i \in 1..n : IsCell(cells[i]) /\ IsCell(Swap(cells[i]))
    BY <1>1, SwapCell DEF Cellular
  <1>3. CASE type = "BYTE"
    BY <1>3 DEF Convert
  <1>4. CASE type # "BYTE"
    <2>1. d = [i \in 1..n |-> d[i]] /\ \A i \in 1..n : d[i] \in {cells[i], Swap(cells[i])}
      BY <1>4 DEF Convert
    <2> HIDE DEF d, n
    <2>2. \A i \in 1..n : IsCell(d[i])
      BY <1>2, <2>1
    <2>3. DOMAIN d = 1..n /\ d \in [1..n -> Range(d)]
      BY <2>1 DEF Range
    <2>4. d \in Seq(Range(d))
      BY <1>1, <2>3, FunctionIsSeq
    <2>5. QED  BY <2>2, <2>3, <2>4 DEF Cellular, d
  <1>5. QED  BY <1>3, <1>4

LEMMA InitFiled == Init => Filing
  <1> SUFFICES ASSUME Init PROVE Filing
    OBVIOUS
  <1>1. PICK image, d, type :
          /\ image \in Images /\ d \in Descriptors
          /\ elf = [open |-> TRUE, mapped |-> d.mapped, native |-> d.native,
                    aligned |-> d.aligned, class |-> d.class,
                    cells |-> IF d.native THEN image.cells ELSE Convert(image.cells, type),
                    chunks |-> << >>]
          /\ scn = NewScn(image, IF d.based /\ ~image.new THEN InMap ELSE NULL)
    BY DEF Init
  <1>2. elf.cells = IF d.native THEN image.cells ELSE Convert(image.cells, type)
    BY <1>1
  <1>3. Cellular(image.cells)
    <2>1. \A i \in DOMAIN image.cells : image.cells[i] \in Range(image.cells)
      BY DEF Range
    <2>2. QED  BY <1>1, <2>1, ContentsSized DEF Cellular, IsCell
  <1>4. Cellular(elf.cells) /\ Len(elf.cells) = Len(image.cells)
    BY <1>2, <1>3, ConvertCellular, ConvertLen
  <1>5. /\ scn.type = image.type /\ scn.size = image.size /\ scn.read = image.new
        /\ scn.rest = << >> /\ scn.raw = NoBlock
        /\ image.new => scn.rawbase = NULL
    BY <1>1 DEF NewScn
  <1>6. /\ {"buf", "size", "type"} \subseteq DOMAIN NoBlock
        /\ NoBlock.size = 0 /\ NoBlock.buf = NULL
    BY DEF NoBlock, Block
  <1>7. Cells(X, NULL) = << >>
    BY Pointers2 DEF Cells, Owns
  <1>8. X.scn = scn /\ X.elf = elf
    BY DEF X
  <1>9. scn.type # "NOBITS" => scn.size = Len(elf.cells)
    BY <1>1, <1>4, <1>5, ContentsSized
  <1>10. AsInFile(X)
    BY <1>5, <1>6, <1>7, <1>8, <1>9 DEF AsInFile
  <1>11. QED  BY <1>4, <1>10 DEF Filing

LEMMA NextFiled ==
  ASSUME IInv, Reading, Filing, [Next]_vars
  PROVE  Filing'
  <1>1. CASE UNCHANGED vars
    <2>1. X' = X /\ elf' = elf
      BY <1>1 DEF vars, X
    <2>2. QED  BY <2>1 DEF Filing
  <1>2. ASSUME NEW f, GetData(f) \/ RawData(f) \/ GetChdr(f) PROVE Filing'
    BY <1>2, LooksFiled
  <1>3. ASSUME NEW f, NEW moved, UpdateNull(moved, f) PROVE Filing'
    BY <1>3, LooksFiled
  <1>4. ASSUME NEW f, NEW type, RawChunk(type, f) PROVE Filing'
    BY <1>4, RawChunkFiled
  <1>5. ASSUME NEW f, NEW c, NEW a, NewData(c, a, f) PROVE Filing'
    BY <1>5, NewDataFiled
  <1>6. ASSUME NEW f, NEW type, NEW force, elf_compress(type, force, f) PROVE Filing'
    BY <1>6, CompressFiled
  <1>7. ASSUME NEW f, NEW i, NEW force, elf_compress_gnu(i, force, f) PROVE Filing'
    BY <1>7, CompressGnuFiled
  <1>8. ASSUME NEW f, NEW off, StrPtr(off, f) PROVE Filing'
    BY <1>8, StrPtrFiled
  <1>9. CASE ReadAll
    BY <1>9, ReadAllFiled
  <1>10. CASE End
    <2>1. elf.open /\ elf' = [elf EXCEPT !.open = FALSE]
      BY <1>10 DEF End
    <2>2. ~elf'.open
      BY <2>1, OpenOwned DEF Owned, Shape, X
    <2>3. QED  BY <2>2 DEF Filing
  <1>11. QED
    BY <1>1, <1>2, <1>3, <1>4, <1>5, <1>6, <1>7, <1>8, <1>9, <1>10 DEF Next

\* Until a program has a section's list of data begun, the section is as in the
\* file, whatever was called before: what elf_rawdata() and elf_getdata() read
\* is all of it, and a header that was not read in yet has the size of the file.
THEOREM FilingAlways == Spec => []Filing
  <1>1. IInv /\ Reading /\ Filing /\ [Next]_vars => Filing'
    BY NextFiled
  <1>2. QED  BY <1>1, InitFiled, Ownership, ReadingAlways, PTL DEF Spec

\* No call but the two that compress reports one of their names.
LEMMA OthersNamed ==
  ASSUME Next,
         \A f, type, force : ~elf_compress(type, force, f),
         \A f, i, force : ~elf_compress_gnu(i, force, f)
  PROVE  res'.op \in {"getdata", "rawdata", "getchdr", "update", "chunk", "newdata",
                       "strptr", "readall", "end"}
  <1>1. ASSUME NEW f, GetData(f) \/ RawData(f) \/ GetChdr(f)
        PROVE  \E r : Call("getdata", f, r) \/ Call("rawdata", f, r) \/ Call("getchdr", f, r)
    BY <1>1 DEF GetData, RawData, GetChdr, Looks
  <1>2. ASSUME NEW f, NEW moved, UpdateNull(moved, f) PROVE \E r : Call("update", f, r)
    BY <1>2 DEF UpdateNull, Looks
  <1>3. ASSUME NEW f, NEW type, RawChunk(type, f) PROVE \E r : Call("chunk", f, r)
    BY <1>3 DEF RawChunk, Looks
  <1>4. ASSUME NEW f, NEW c, NEW a, NewData(c, a, f) PROVE \E r : Call("newdata", f, r)
    BY <1>4 DEF NewData
  <1>5. ASSUME NEW f, NEW off, StrPtr(off, f) PROVE \E r : Call("strptr", f, r)
    BY <1>5 DEF StrPtr
  <1>6. ReadAll => \E r : Call("readall", "", r)
    BY DEF ReadAll
  <1>7. \A op, f, r : Call(op, f, r) => res'.op = op
    <2>1. \A op, f, r : Call(op, f, r) => res' = [op |-> op, rc |-> r.rc]
      BY DEF Call
    <2>2. \A op, rc : [op |-> op, rc |-> rc].op = op
      OBVIOUS
    <2>3. QED  BY <2>1, <2>2
  <1>8. End => res'.op = "end"
    <2>1. End => res' = [op |-> "end", rc |-> 1]
      BY DEF End
    <2>2. QED  BY <2>1
  <1>9. QED  BY <1>1, <1>2, <1>3, <1>4, <1>5, <1>6, <1>7, <1>8 DEF Next

\* elf_compress() and elf_compress_gnu() that fail, or find that it does not
\* pay, leave sh_size, sh_addralign and SHF_COMPRESSED as they were, and what
\* elf_update() would write of the section, unless a conversion found no
\* memory: they set them once nothing can fail any more.
THEOREM RefusalKeepsAlways == Spec => RefusalKeeps
  <1> DEFINE Act ==
        res'.op \in {"deflate", "inflate", "gnu_deflate", "gnu_inflate"} /\ res'.rc < 1
        /\ ~mem'.starved =>
          /\ <<scn'.size, scn'.align, scn'.z>> = <<scn.size, scn.align, scn.z>>
          /\ FileOf(X)' = FileOf(X)
  <1>1. ASSUME IInv, Reading, Filing, [Next]_vars
        PROVE  [Act]_vars
    <2>1. CASE UNCHANGED vars
      BY <2>1
    <2>2. ASSUME NEW f, NEW type, NEW force, elf_compress(type, force, f)
          PROVE  Act
      BY <1>1, <2>2, CompressFiled DEF FailureKeeps
    <2>3. ASSUME NEW f, NEW i, NEW force, elf_compress_gnu(i, force, f)
          PROVE  Act
      BY <1>1, <2>3, CompressGnuFiled DEF FailureKeeps
    <2>4. ASSUME Next, \A f, type, force : ~elf_compress(type, force, f),
                 \A f, i, force : ~elf_compress_gnu(i, force, f)
          PROVE  Act
      BY <2>4, OthersNamed
    <2> HIDE DEF Act
    <2>5. QED  BY <1>1, <2>1, <2>2, <2>3, <2>4
  <1>2. IInv /\ Reading /\ Filing /\ [Next]_vars => [Act]_vars
    BY <1>1
  <1>3. Spec => [][Act]_vars
    <2> HIDE DEF Act
    <2>1. QED  BY <1>2, Ownership, ReadingAlways, FilingAlways, PTL DEF Spec
  <1>4. QED  BY <1>3 DEF RefusalKeeps
=============================================================================

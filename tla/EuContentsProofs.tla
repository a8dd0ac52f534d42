-------------------------- MODULE EuContentsProofs --------------------------
(***************************************************************************)
(* Proofs about EuContents: whatever sections there are, whatever is       *)
(* added, and however often a section is read, converted, compressed and   *)
(* expanded, with every allocation failing, no block is given up twice,    *)
(* and elf_end() leaves none but those that are known to be lost.          *)
(***************************************************************************)
EXTENDS EuContents, TLAPS

\* Who is to give block b up: the section, by one of its three buffers or a
\* node of its list, or the list of chunks, by the buffer or the node of one.
Claims(x, k, i, b) ==
  \/ k = "raw" /\ i = 0 /\ x.scn.rawbase = Heap(b) /\ Ours(x)
  \/ k = "data" /\ i = 0 /\ x.scn.database = Heap(b) /\ x.scn.database # x.scn.rawbase
  \/ k = "z" /\ i = 0 /\ x.scn.zbase = Heap(b) /\ x.scn.zbase # x.scn.rawbase
  \/ k = "node" /\ i \in DOMAIN x.scn.nodes /\ x.scn.nodes[i] = Heap(b)
  \/ k = "buffer" /\ i \in DOMAIN x.elf.chunks /\ x.elf.chunks[i].buf = Heap(b)
  \/ k = "chunk" /\ i \in DOMAIN x.elf.chunks /\ x.elf.chunks[i].node = Heap(b)

Blocks(x) == DOMAIN x.mem.heap
Unclaimed(x) == {b \in Blocks(x) : \A k, i : ~Claims(x, k, i, b)}

\* What is claimed is allocated, and claimed once.
Allocated(x) == \A k, i, b : Claims(x, k, i, b) => b \in Blocks(x)
Exclusive(x) ==
  \A k, l, i, j, b : Claims(x, k, i, b) /\ Claims(x, l, j, b) => k = l /\ i = j

InHeap(p) == \E b : p = Heap(b)

\* Where the three buffers may be, and when two of them are the same.
Buffers(x) ==
  LET s == x.scn IN
  /\ s.rawbase \in {NULL, InMap} \/ InHeap(s.rawbase)
  /\ \A b : s.rawbase = Heap(b) => b \in Blocks(x)
  /\ s.rawbase = InMap => x.elf.mapped /\ ~s.malloced
  /\ s.database \in {NULL, s.rawbase} \/ InHeap(s.database)
  /\ s.zbase = NULL \/ InHeap(s.zbase)
  /\ s.zbase # NULL /\ s.zbase = s.rawbase => s.malloced /\ ~s.z
  /\ ~s.z => s.zbase \in {NULL, s.rawbase}

\* What a section that was not read, or has no list of data blocks, lacks.
Unread(x) ==
  LET s == x.scn IN
  /\ s.malloced => s.read
  /\ ~s.read => s.rear = 0 /\ s.rawbase \in {NULL, InMap} /\ s.zbase = NULL
  /\ s.rear = 0 => s.database \in {NULL, InMap}

\* Nothing is linked to a list that has not begun.
Linked(x) == x.scn.rear = 0 => x.scn.nodes = << >>

Node == {Heap(b) : b \in Nat}

\* The nodes of the list and the chunks are allocated.
Lists(x) ==
  /\ x.scn.nodes \in Seq(Node)
  /\ x.scn.rear \in 0..Len(x.scn.nodes) + 1
  /\ \E C : x.elf.chunks \in Seq(C)
  /\ \A i \in DOMAIN x.elf.chunks :
       /\ x.elf.chunks[i].buf = InMap \/ InHeap(x.elf.chunks[i].buf)
       /\ InHeap(x.elf.chunks[i].node)

\* The next block is a new one.
Fresh(x) == x.mem.top \in Nat /\ \A b \in Blocks(x) : b \in Nat /\ b < x.mem.top

\* The records have their fields.
ScnFields ==
  {"type", "alloc", "z", "size", "align", "offset", "read", "filedata", "malloced",
   "rawbase", "database", "zbase", "zsize", "zalign", "raw", "first", "rest", "nodes",
   "rear"}
Shape(x) ==
  /\ DOMAIN x = {"elf", "scn", "mem"}
  /\ DOMAIN x.elf = {"open", "mapped", "native", "aligned", "class", "cells", "chunks"}
  /\ DOMAIN x.scn = ScnFields
  /\ DOMAIN x.mem = {"heap", "top", "fault", "starved"}

Owned(x) ==
  /\ Shape(x) /\ Fresh(x)
  /\ Allocated(x) /\ Exclusive(x)
  /\ Buffers(x) /\ Unread(x) /\ Lists(x)

IInv ==
  /\ mem.fault # "free" /\ DOMAIN ghost = {"lost", "mixed", "behind", "twice"}
  /\ IF elf.open THEN Owned(X) /\ Linked(X) /\ Unclaimed(X) = ghost.lost
     ELSE Blocks(X) = ghost.lost

-----------------------------------------------------------------------------
(* Memory.                                                                 *)

LEMMA Pointers1 ==
  /\ \A b, c : Heap(b) = Heap(c) => b = c
  /\ \A b : Heap(b) # NULL /\ Heap(b) # InMap /\ Heap(b).b = b /\ Heap(b).at = "heap"
  /\ NULL # InMap
  /\ \A x, b : Owns(x, Heap(b)) <=> b \in Blocks(x)
BY DEF Heap, NULL, InMap, Owns, Blocks

LEMMA AllocIs ==
  ASSUME NEW x, Shape(x), NEW c
  PROVE  LET y == Alloc(x, c) IN
         /\ Shape(y) /\ y.elf = x.elf /\ y.scn = x.scn
         /\ Blocks(y) = Blocks(x) \cup {x.mem.top} /\ y.mem.top = x.mem.top + 1
         /\ y.mem.fault = x.mem.fault /\ y.mem.starved = x.mem.starved
  BY DEF Alloc, Shape, Blocks

\* A block that is there is given up.
LEMMA FreeIs ==
  ASSUME NEW x, Shape(x), NEW b \in Blocks(x)
  PROVE  LET y == Free(x, Heap(b)) IN
         /\ Shape(y) /\ y.elf = x.elf /\ y.scn = x.scn
         /\ Blocks(y) = Blocks(x) \ {b} /\ y.mem.top = x.mem.top
         /\ y.mem.fault = x.mem.fault /\ y.mem.starved = x.mem.starved
  <1>1. Free(x, Heap(b)) = [x EXCEPT !.mem.heap = [c \in DOMAIN @ \ {b} |-> @[c]]]
    BY Pointers1 DEF Free
  <1>2. QED  BY <1>1 DEF Shape, Blocks

LEMMA FreeNull ==
  ASSUME NEW x
  PROVE  Free(x, NULL) = x
  BY DEF Free

LEMMA ReadsIs ==
  ASSUME NEW x, Shape(x), NEW p, NEW n
  PROVE  LET y == Reads(x, p, n) IN
         /\ Shape(y) /\ y.elf = x.elf /\ y.scn = x.scn
         /\ Blocks(y) = Blocks(x) /\ y.mem.top = x.mem.top
         /\ y.mem.fault = "free" => x.mem.fault = "free"
         /\ y.mem.starved = x.mem.starved
  BY DEF Reads, Hurt, Shape, Blocks

\* What a call leaves that neither claims nor gives up anything.
SameOwners(x, y) ==
  /\ Shape(y) /\ y.elf = x.elf /\ Blocks(y) = Blocks(x) /\ y.mem.top = x.mem.top
  /\ y.scn.rawbase = x.scn.rawbase /\ y.scn.database = x.scn.database
  /\ y.scn.zbase = x.scn.zbase /\ y.scn.nodes = x.scn.nodes
  /\ (y.scn.malloced <=> x.scn.malloced) /\ (y.scn.z <=> x.scn.z)
  /\ (y.scn.read <=> x.scn.read) /\ y.scn.rear = x.scn.rear

LEMMA SameOwned ==
  ASSUME NEW x, Owned(x), NEW y, SameOwners(x, y)
  PROVE  Owned(y) /\ Unclaimed(y) = Unclaimed(x)
  <1>1. \A k, i, b : Claims(y, k, i, b) <=> Claims(x, k, i, b)
    BY DEF SameOwners, Claims, Ours
  <1>2. Unclaimed(y) = Unclaimed(x)
    BY <1>1 DEF SameOwners, Unclaimed
  <1>3. Allocated(y) /\ Exclusive(y)
    BY <1>1 DEF Owned, SameOwners, Allocated, Exclusive
  <1>4. Shape(y) /\ Fresh(y) /\ Buffers(y) /\ Unread(y) /\ Lists(y)
    BY DEF Owned, SameOwners, Fresh, Buffers, Unread, Lists
  <1>5. QED  BY <1>2, <1>3, <1>4 DEF Owned

LEMMA AllocOwned ==
  ASSUME NEW x, Owned(x), NEW c
  PROVE  LET y == Alloc(x, c) IN
         /\ Owned(y) /\ Unclaimed(y) = Unclaimed(x) \cup {x.mem.top}
         /\ x.mem.top \notin Unclaimed(x)
  <1> DEFINE y == Alloc(x, c)
  <1>1. /\ Shape(y) /\ y.elf = x.elf /\ y.scn = x.scn
        /\ Blocks(y) = Blocks(x) \cup {x.mem.top} /\ y.mem.top = x.mem.top + 1
    BY AllocIs DEF Owned
  <1> HIDE DEF y
  <1>2. \A k, i, b : Claims(y, k, i, b) <=> Claims(x, k, i, b)
    BY <1>1 DEF Claims, Ours
  <1>3. x.mem.top \notin Blocks(x)
    BY DEF Owned, Fresh
  <1>4. \A k, i : ~Claims(x, k, i, x.mem.top)
    BY <1>3 DEF Owned, Allocated
  <1>5. Unclaimed(y) = Unclaimed(x) \cup {x.mem.top}
    BY <1>1, <1>2, <1>4 DEF Unclaimed
  <1>6. Allocated(y) /\ Exclusive(y)
    BY <1>1, <1>2 DEF Owned, Allocated, Exclusive
  <1>7. Fresh(y)
    BY <1>1 DEF Owned, Fresh
  <1>8. Buffers(y) /\ Unread(y) /\ Lists(y)
    BY <1>1 DEF Owned, Buffers, Unread, Lists
  <1>9. QED  BY <1>1, <1>3, <1>5, <1>6, <1>7, <1>8 DEF Owned, Unclaimed, y

\* A block that was nobody's is claimed.
Takes(w, y, k0, i0, b0) ==
  /\ b0 \in Unclaimed(w) /\ Blocks(y) = Blocks(w)
  /\ \A k, i, b : Claims(y, k, i, b) <=> Claims(w, k, i, b) \/ (k = k0 /\ i = i0 /\ b = b0)
  /\ \A b : ~Claims(w, k0, i0, b)

LEMMA ClaimsOne ==
  ASSUME NEW w, Owned(w), NEW y, NEW b0, NEW k0, NEW i0, Takes(w, y, k0, i0, b0)
  PROVE  Allocated(y) /\ Exclusive(y) /\ Unclaimed(y) = Unclaimed(w) \ {b0}
  <1>1. Allocated(y)
    BY DEF Takes, Owned, Allocated, Unclaimed
  <1>2. Exclusive(y)
    BY DEF Takes, Owned, Exclusive, Unclaimed
  <1>3. Unclaimed(y) = Unclaimed(w) \ {b0}
    BY DEF Takes, Unclaimed
  <1>4. QED  BY <1>1, <1>2, <1>3

-----------------------------------------------------------------------------
(* Reading a section in.                                                   *)

\* A call from x to y that leaves what is nobody's as it was.  It may read the
\* section in and begin its list.
Steady(x, y) ==
  /\ Owned(y) /\ Unclaimed(y) = Unclaimed(x)
  /\ y.elf = x.elf /\ (y.mem.fault = "free" => x.mem.fault = "free")
  /\ (y.scn.z <=> x.scn.z) /\ y.scn.zbase = x.scn.zbase /\ y.scn.nodes = x.scn.nodes
  /\ (y.scn.malloced <=> x.scn.malloced)
  /\ x.scn.read => y.scn.read /\ y.scn.rawbase = x.scn.rawbase
  /\ y.scn.rear = x.scn.rear \/ (x.scn.rear = 0 /\ y.scn.rear = 1)

LEMMA SteadyStays ==
  ASSUME NEW x, Owned(x)
  PROVE  Steady(x, x)
  BY DEF Steady

LEMMA SteadyTwice ==
  ASSUME NEW x, NEW y, NEW z, Steady(x, y), Steady(y, z)
  PROVE  Steady(x, z)
  BY DEF Steady

LEMMA SteadySame ==
  ASSUME NEW x, Owned(x), NEW y, SameOwners(x, y),
         y.mem.fault = "free" => x.mem.fault = "free"
  PROVE  Steady(x, y)
  BY SameOwned DEF Steady, SameOwners

ReadIn(x, y) == Steady(x, y) /\ y.scn.read /\ y.scn.rear = 0

\* The section is read in: into a block, or not at all.
LEMMA RawSet ==
  ASSUME NEW x, Owned(x), ~x.scn.read, NEW p, NEW raw, NEW w,
         \/ p = NULL /\ w = x
         \/ p = InMap /\ x.elf.mapped /\ w = x
         \/ \E c : p = Heap(x.mem.top) /\ ~x.elf.mapped /\ w = Alloc(x, c)
  PROVE  LET y == [w EXCEPT !.scn.rawbase = IF p = NULL THEN @ ELSE p,
                            !.scn.raw = raw, !.scn.read = TRUE, !.scn.filedata = TRUE]
         IN  ReadIn(x, y)
  <1> DEFINE y == [w EXCEPT !.scn.rawbase = IF p = NULL THEN @ ELSE p,
                            !.scn.raw = raw, !.scn.read = TRUE, !.scn.filedata = TRUE]
             t == x.mem.top
  <1>1. /\ w.elf = x.elf /\ w.scn = x.scn /\ w.mem.fault = x.mem.fault /\ Owned(w)
        /\ Unclaimed(w) = Unclaimed(x) \cup (IF p = Heap(t) THEN {t} ELSE {})
        /\ p = Heap(t) => t \notin Unclaimed(x) /\ t \in Blocks(w)
    BY AllocIs, AllocOwned, Pointers1 DEF Owned
  <1>2. /\ Shape(y) /\ y.elf = w.elf /\ y.mem = w.mem
        /\ y.scn.rawbase = (IF p = NULL THEN w.scn.rawbase ELSE p)
        /\ y.scn.read = TRUE
        /\ y.scn.database = w.scn.database /\ y.scn.zbase = w.scn.zbase
        /\ y.scn.nodes = w.scn.nodes /\ y.scn.malloced = w.scn.malloced
        /\ y.scn.z = w.scn.z /\ y.scn.rear = w.scn.rear
    BY <1>1 DEF Owned, Shape, ScnFields
  <1> HIDE DEF y
  <1>3. /\ ~w.scn.malloced /\ w.scn.rear = 0 /\ w.scn.rawbase \in {NULL, InMap}
        /\ w.scn.zbase = NULL /\ w.scn.database \in {NULL, w.scn.rawbase}
        /\ w.scn.rawbase = InMap => w.elf.mapped
    BY <1>1, Pointers1 DEF Owned, Unread, Buffers, InHeap
  <1>4. Blocks(y) = Blocks(w)
    BY <1>2 DEF Blocks
  <1>5. /\ Allocated(y) /\ Exclusive(y)
        /\ Unclaimed(y) = Unclaimed(x)
    <2>1. CASE p = Heap(t)
      <3>1. \A k, i, b : Claims(y, k, i, b) <=>
                           Claims(w, k, i, b) \/ (k = "raw" /\ i = 0 /\ b = t)
        BY <1>1, <1>2, <1>3, <2>1, Pointers1 DEF Claims, Ours
      <3>2. \A b : ~Claims(w, "raw", 0, b)
        BY <1>3, Pointers1 DEF Claims
      <3>3. t \in Unclaimed(w) /\ Unclaimed(w) \ {t} = Unclaimed(x)
        BY <1>1, <2>1
      <3> HIDE DEF t
      <3>4. Takes(w, y, "raw", 0, t)
        BY <1>4, <3>1, <3>2, <3>3 DEF Takes
      <3>5. QED  BY <1>1, <3>3, <3>4, ClaimsOne
    <2>2. CASE p # Heap(t)
      <3>1. \A k, i, b : Claims(y, k, i, b) <=> Claims(w, k, i, b)
        BY <1>1, <1>2, <1>3, <2>2, Pointers1 DEF Claims, Ours
      <3>2. QED  BY <1>1, <1>4, <2>2, <3>1 DEF Owned, Allocated, Exclusive, Unclaimed
    <2>3. QED  BY <2>1, <2>2
  <1>6. Fresh(y) /\ Unread(y) /\ Lists(y)
    BY <1>1, <1>2, <1>3, <1>4 DEF Owned, Fresh, Unread, Lists
  <1>7. Buffers(y)
    BY <1>1, <1>2, <1>3, <1>4, Pointers1 DEF Buffers, InHeap
  <1>8. y.scn.read /\ y.scn.rear = 0
    BY <1>2, <1>3
  <1>9. QED  BY <1>1, <1>2, <1>5, <1>6, <1>7, <1>8 DEF Steady, Owned, ReadIn, y

LEMMA set_rawdataKeeps ==
  ASSUME NEW x, Owned(x), ~x.scn.read, NEW fail
  PROVE  LET r == set_rawdata(x, fail) IN
         Steady(x, r.x) /\ r.rc \in {1, -1} /\ (r.rc = 1 => r.x.scn.read) /\ r.x.scn.rear = 0
  <1> DEFINE type == IF x.scn.z THEN "CHDR" ELSE data_type(x.scn.type)
             align == RawAlign(x.scn)
             raw(p) == Block(p, x.scn.size, align, type)
             Set(y, p) == [y EXCEPT !.scn.rawbase = IF p = NULL THEN @ ELSE p,
                                    !.scn.raw = raw(p),
                                    !.scn.read = TRUE, !.scn.filedata = TRUE]
             r == set_rawdata(x, fail)
  <1>1. \/ r = Ok(Set(x, NULL))
        \/ r = Ok(Set(x, InMap)) /\ x.elf.mapped
        \/ r = Rc(-1, x)
        \/ r = Ok(Set(Alloc(x, x.elf.cells), Heap(x.mem.top))) /\ ~x.elf.mapped
    BY DEF set_rawdata
  <1> HIDE DEF r, raw
  <1>2. /\ ReadIn(x, Set(x, NULL))
        /\ x.elf.mapped => ReadIn(x, Set(x, InMap))
        /\ ~x.elf.mapped => ReadIn(x, Set(Alloc(x, x.elf.cells), Heap(x.mem.top)))
    BY RawSet
  <1> HIDE DEF Set
  <1>3. x.scn.rear = 0
    BY DEF Owned, Unread
  <1>4. QED  BY <1>1, <1>2, <1>3, SteadyStays DEF Ok, Rc, r, ReadIn

\* The list of data blocks of w is begun in y.
Begins(w, y) ==
  /\ Shape(y) /\ y.elf = w.elf /\ y.mem.top = w.mem.top /\ Blocks(y) = Blocks(w)
  /\ y.mem.fault = w.mem.fault
  /\ y.scn.rawbase = w.scn.rawbase /\ y.scn.zbase = w.scn.zbase
  /\ y.scn.nodes = w.scn.nodes /\ (y.scn.malloced <=> w.scn.malloced)
  /\ (y.scn.z <=> w.scn.z) /\ (y.scn.read <=> w.scn.read) /\ y.scn.rear = 1

\* It begins with the bytes as they are, or without any.
LEMMA BeginsSame ==
  ASSUME NEW x, Owned(x), x.scn.rear = 0, x.scn.read, NEW y, Begins(x, y),
         y.scn.database \in {NULL, x.scn.database, x.scn.rawbase}
  PROVE  Steady(x, y)
  <1>1. x.scn.database \in {NULL, InMap}
    BY DEF Owned, Unread
  <1>2. x.scn.database = InMap => x.scn.rawbase = InMap
    BY <1>1, Pointers1 DEF Owned, Buffers, InHeap
  <1>3. \A k, i, b : Claims(y, k, i, b) <=> Claims(x, k, i, b)
    BY <1>1, <1>2, Pointers1 DEF Claims, Ours, Begins
  <1>4. Allocated(y) /\ Exclusive(y) /\ Unclaimed(y) = Unclaimed(x)
    BY <1>3 DEF Owned, Allocated, Exclusive, Unclaimed, Begins
  <1>5. Fresh(y) /\ Unread(y) /\ Lists(y)
    BY <1>1 DEF Owned, Fresh, Unread, Lists, Begins
  <1>6. Buffers(y)
    BY <1>1, <1>2, Pointers1 DEF Owned, Buffers, InHeap, Begins
  <1>7. QED  BY <1>4, <1>5, <1>6 DEF Steady, Owned, Begins

\* It begins with the bytes as the host reads them, in a block of their own.
LEMMA BeginsNew ==
  ASSUME NEW x, Owned(x), x.scn.rear = 0, x.scn.read, NEW c, NEW y,
         Begins(Alloc(x, c), y), y.scn.database = Heap(x.mem.top)
  PROVE  Steady(x, y)
  <1> DEFINE w == Alloc(x, c)
             t == x.mem.top
  <1>1. /\ w.elf = x.elf /\ w.scn = x.scn /\ w.mem.fault = x.mem.fault /\ Owned(w)
        /\ Unclaimed(w) = Unclaimed(x) \cup {t} /\ t \notin Unclaimed(x)
        /\ t \notin Blocks(x) /\ t \in Blocks(w)
    BY AllocIs, AllocOwned DEF Owned, Fresh
  <1>2. Begins(w, y) /\ y.scn.database = Heap(t)
    OBVIOUS
  <1> HIDE DEF w, t
  <1>3. x.scn.database \in {NULL, InMap}
    BY DEF Owned, Unread
  <1>4. Heap(t) # x.scn.rawbase
    BY <1>1 DEF Owned, Buffers
  <1>5. \A k, i, b : Claims(y, k, i, b) <=>
                       Claims(w, k, i, b) \/ (k = "data" /\ i = 0 /\ b = t)
    BY <1>1, <1>2, <1>3, <1>4, Pointers1 DEF Claims, Ours, Begins
  <1>6. \A b : ~Claims(w, "data", 0, b)
    BY <1>1, <1>3, Pointers1 DEF Claims
  <1>7. t \in Unclaimed(w) /\ Unclaimed(w) \ {t} = Unclaimed(x)
    BY <1>1
  <1>8. Blocks(y) = Blocks(w)
    BY <1>2 DEF Begins
  <1>9. Allocated(y) /\ Exclusive(y) /\ Unclaimed(y) = Unclaimed(w) \ {t}
    <2>1. Takes(w, y, "data", 0, t)
      BY <1>5, <1>6, <1>7, <1>8 DEF Takes
    <2>2. QED  BY <1>1, <2>1, ClaimsOne
  <1>10. Fresh(y) /\ Unread(y) /\ Lists(y)
    BY <1>1, <1>2, <1>3 DEF Owned, Fresh, Unread, Lists, Begins
  <1>11. Buffers(y)
    BY <1>1, <1>2, <1>3, Pointers1 DEF Owned, Buffers, InHeap, Begins
  <1>12. QED  BY <1>1, <1>2, <1>7, <1>9, <1>10, <1>11 DEF Steady, Owned, Begins

LEMMA set_data_listKeeps ==
  ASSUME NEW x, Owned(x), x.scn.rear = 0, x.scn.read, NEW fail
  PROVE  Steady(x, set_data_list(x, fail)) /\ set_data_list(x, fail).scn.rear = 1
  <1> DEFINE y == set_data_list(x, fail)
             Begun(z) == [z EXCEPT !.scn.rear = 1]
             t == x.mem.top
  <1>1. \/ y = Begun([x EXCEPT !.scn.first = x.scn.raw])
        \/ y = Begun(First(x, x.scn.rawbase))
        \/ y = Begun([x EXCEPT !.scn.database = NULL, !.mem.starved = TRUE])
        \/ \E c : y = Begun(First(Alloc(x, c), Heap(t)))
    BY DEF set_data_list, convert_data
  <1> HIDE DEF y
  <1>2. ASSUME y = Begun([x EXCEPT !.scn.first = x.scn.raw])
        PROVE  Steady(x, y) /\ y.scn.rear = 1
    <2>1. Begins(x, y) /\ y.scn.database = x.scn.database
      BY <1>2 DEF Owned, Shape, ScnFields, Begins, Blocks
    <2>2. QED  BY <2>1, BeginsSame DEF Begins
  <1>3. ASSUME y = Begun(First(x, x.scn.rawbase))
        PROVE  Steady(x, y) /\ y.scn.rear = 1
    <2>1. Begins(x, y) /\ y.scn.database = x.scn.rawbase
      BY <1>3 DEF Owned, Shape, ScnFields, First, Begins, Blocks
    <2>2. QED  BY <2>1, BeginsSame DEF Begins
  <1>4. ASSUME y = Begun([x EXCEPT !.scn.database = NULL, !.mem.starved = TRUE])
        PROVE  Steady(x, y) /\ y.scn.rear = 1
    <2>1. Begins(x, y) /\ y.scn.database = NULL
      BY <1>4 DEF Owned, Shape, ScnFields, Begins, Blocks
    <2>2. QED  BY <2>1, BeginsSame DEF Begins
  <1>5. ASSUME NEW c, y = Begun(First(Alloc(x, c), Heap(t)))
        PROVE  Steady(x, y) /\ y.scn.rear = 1
    <2> DEFINE w == Alloc(x, c)
    <2>1. Shape(w)
      BY AllocIs DEF Owned
    <2> HIDE DEF w
    <2>2. Begins(w, y) /\ y.scn.database = Heap(t)
      BY <1>5, <2>1 DEF Shape, ScnFields, First, Begins, Blocks, w
    <2>3. Begins(Alloc(x, c), y) /\ y.scn.database = Heap(x.mem.top)
      BY <2>2 DEF w
    <2>4. QED  BY <2>3, BeginsNew DEF Begins
  <1>6. Steady(x, y) /\ y.scn.rear = 1
    BY <1>1, <1>2, <1>3, <1>4, <1>5
  <1>7. QED  BY <1>6 DEF y

LEMMA elf_getdataKeeps ==
  ASSUME NEW x, Owned(x), NEW fail
  PROVE  LET r == elf_getdata(x, fail) IN
         /\ Steady(x, r.x) /\ r.rc \in {1, -1}
         /\ r.rc = 1 => r.x.scn.read /\ r.x.scn.rear # 0
  <1> DEFINE Listed(y) == Ok(IF y.scn.rear = 0 THEN set_data_list(y, fail) ELSE y)
             s == set_rawdata(x, fail)
  <1>1. ASSUME NEW y, Owned(y), y.scn.read
        PROVE  /\ Steady(y, Listed(y).x) /\ Listed(y).rc = 1
               /\ Listed(y).x.scn.read /\ Listed(y).x.scn.rear # 0
    <2>1. CASE y.scn.rear = 0
      BY <1>1, <2>1, set_data_listKeeps DEF Ok, Steady
    <2>2. CASE y.scn.rear # 0
      BY <1>1, <2>2, SteadyStays DEF Ok
    <2>3. QED  BY <2>1, <2>2
  <1>2. CASE x.scn.read
    BY <1>1, <1>2 DEF elf_getdata
  <1>3. CASE ~x.scn.read
    <2>1. Steady(x, s.x) /\ s.rc \in {1, -1} /\ (s.rc = 1 => s.x.scn.read)
      BY <1>3, set_rawdataKeeps
    <2>2. elf_getdata(x, fail) = IF s.rc = 1 THEN Listed(s.x) ELSE s
      BY <1>3 DEF elf_getdata, Then
    <2> HIDE DEF s, Listed
    <2>3. CASE s.rc = 1
      <3>1. Owned(s.x)
        BY <2>1 DEF Steady
      <3>2. QED  BY <1>1, <2>1, <2>2, <2>3, <3>1, SteadyTwice
    <2>4. CASE s.rc # 1
      BY <2>1, <2>2, <2>4
    <2>5. QED  BY <2>3, <2>4
  <1>4. QED  BY <1>2, <1>3

LEMMA elf_rawdataKeeps ==
  ASSUME NEW x, Owned(x), NEW fail
  PROVE  Steady(x, elf_rawdata(x, fail).x)
  BY set_rawdataKeeps, SteadyStays DEF elf_rawdata, Rc

-----------------------------------------------------------------------------
(* Adding a block to the list.                                             *)

\* A call from x to y that makes lost, and nothing else, nobody's.
Leaks(x, y, lost) ==
  /\ Owned(y) /\ Unclaimed(y) = Unclaimed(x) \cup lost
  /\ Linked(x) => Linked(y)
  /\ (y.elf.open <=> x.elf.open) /\ (y.mem.fault = "free" => x.mem.fault = "free")

\* The blocks of the list from the first on that is unlinked.
CutBlocks(x) ==
  {b \in Nat : \E i \in Larger(x.scn.rear, 1)..Len(x.scn.nodes) : x.scn.nodes[i] = Heap(b)}

LEMMA SteadyLeaks ==
  ASSUME NEW x, NEW y, Steady(x, y)
  PROVE  Leaks(x, y, {})
  BY DEF Steady, Leaks, Linked

\* A list has its nodes linked to, and those it is cut at are nobody's.
Links(y, w, z) ==
  /\ Shape(z) /\ z.elf = w.elf /\ z.mem = w.mem
  /\ z.scn.rawbase = w.scn.rawbase /\ z.scn.database = w.scn.database
  /\ z.scn.zbase = w.scn.zbase /\ (z.scn.malloced <=> w.scn.malloced)
  /\ (z.scn.z <=> w.scn.z) /\ (z.scn.read <=> w.scn.read)
  /\ z.scn.nodes = Append(SubSeq(y.scn.nodes, 1, y.scn.rear - 1), Heap(y.mem.top))
  /\ z.scn.rear = y.scn.rear + 1

LEMMA LinkNodes ==
  ASSUME NEW y, Owned(y), y.scn.rear # 0, NEW w, NEW z, Links(y, w, z)
  PROVE  /\ z.scn.nodes \in Seq(Node)
         /\ Len(z.scn.nodes) = y.scn.rear /\ y.scn.rear \in 1..Len(y.scn.nodes) + 1
         /\ \A i \in 1..y.scn.rear - 1 : z.scn.nodes[i] = y.scn.nodes[i]
         /\ z.scn.nodes[y.scn.rear] = Heap(y.mem.top)
  <1> DEFINE s == y.scn.nodes
             m == y.scn.rear
             t == y.mem.top
  <1>1. s \in Seq(Node) /\ m \in 1..Len(s) + 1 /\ t \in Nat
    BY DEF Owned, Lists, Fresh
  <1>2. Heap(t) \in Node
    BY <1>1 DEF Node
  <1>3. z.scn.nodes = Append(SubSeq(s, 1, m - 1), Heap(t))
    BY DEF Links
  <1> HIDE DEF s, m, t
  <1>4. /\ SubSeq(s, 1, m - 1) \in Seq(Node) /\ Len(SubSeq(s, 1, m - 1)) = m - 1
        /\ \A i \in 1..m - 1 : SubSeq(s, 1, m - 1)[i] = s[i]
    BY <1>1
  <1>5. /\ z.scn.nodes \in Seq(Node) /\ Len(z.scn.nodes) = m
        /\ \A i \in 1..m - 1 : z.scn.nodes[i] = s[i]
        /\ z.scn.nodes[m] = Heap(t)
    BY <1>1, <1>2, <1>3, <1>4
  <1>6. QED  BY <1>1, <1>5 DEF s, m, t

LEMMA LinkKeeps ==
  ASSUME NEW y, Owned(y), y.scn.rear # 0, NEW c, NEW z, Links(y, Alloc(y, c), z)
  PROVE  Leaks(y, z, CutBlocks(y))
  <1> DEFINE w == Alloc(y, c)
             t == y.mem.top
             m == y.scn.rear
             n == Len(y.scn.nodes)
  <1>1. /\ w.elf = y.elf /\ w.scn = y.scn /\ w.mem.fault = y.mem.fault /\ Owned(w)
        /\ Unclaimed(w) = Unclaimed(y) \cup {t} /\ t \notin Unclaimed(y)
        /\ t \notin Blocks(y) /\ Blocks(w) = Blocks(y) \cup {t} /\ t \in Nat
    BY AllocIs, AllocOwned DEF Owned, Fresh
  <1>2. Links(y, w, z)
    OBVIOUS
  <1> HIDE DEF w
  <1>3. /\ z.scn.nodes \in Seq(Node) /\ Len(z.scn.nodes) = m
        /\ m \in 1..n + 1 /\ n \in Nat
        /\ DOMAIN z.scn.nodes = 1..m /\ DOMAIN y.scn.nodes = 1..n
        /\ \A i \in 1..m - 1 : z.scn.nodes[i] = y.scn.nodes[i]
        /\ z.scn.nodes[m] = Heap(t)
    <2>1. /\ z.scn.nodes \in Seq(Node) /\ Len(z.scn.nodes) = m
          /\ m \in 1..n + 1
          /\ \A i \in 1..m - 1 : z.scn.nodes[i] = y.scn.nodes[i]
          /\ z.scn.nodes[m] = Heap(t)
      BY <1>2, LinkNodes
    <2>2. y.scn.nodes \in Seq(Node)
      BY DEF Owned, Lists
    <2>3. QED  BY <2>1, <2>2
  <1>4. \A b : b \in CutBlocks(y) <=> \E i \in m..n : y.scn.nodes[i] = Heap(b) /\ b \in Nat
    BY <1>3 DEF CutBlocks, Larger
  <1> HIDE DEF t, m, n
  <1>5. \A k, i, b : Claims(z, k, i, b) <=>
          \/ Claims(w, k, i, b) /\ ~(k = "node" /\ i \in m..n)
          \/ k = "node" /\ i = m /\ b = t
    BY <1>1, <1>2, <1>3, Pointers1 DEF Claims, Ours, Links
  <1>6. Blocks(z) = Blocks(w)
    BY <1>2 DEF Links, Blocks
  <1>7. \A k, i : ~Claims(w, k, i, t)
    BY <1>1 DEF Unclaimed
  <1>8. Allocated(z) /\ Exclusive(z)
    BY <1>1, <1>5, <1>6, <1>7 DEF Owned, Allocated, Exclusive
  <1>9. \A b : b \in CutBlocks(y) <=> \E i \in m..n : Claims(w, "node", i, b)
    <2>1. ASSUME NEW b, b \in CutBlocks(y)
          PROVE  \E i \in m..n : Claims(w, "node", i, b)
      <3>1. PICK i \in m..n : y.scn.nodes[i] = Heap(b)
        BY <1>4, <2>1
      <3>2. i \in DOMAIN w.scn.nodes
        BY <1>1, <1>3, <3>1
      <3>3. QED  BY <1>1, <3>1, <3>2 DEF Claims
    <2>2. ASSUME NEW b, NEW i \in m..n, Claims(w, "node", i, b)
          PROVE  b \in CutBlocks(y)
      <3>1. y.scn.nodes[i] = Heap(b) /\ b \in Nat
        BY <1>1, <2>2 DEF Claims, Owned, Allocated, Fresh
      <3>2. QED  BY <1>4, <2>2, <3>1
    <2>3. QED  BY <2>1, <2>2
  <1>10. Unclaimed(z) = Unclaimed(y) \cup CutBlocks(y)
    <2>1. ASSUME NEW b, b \in CutBlocks(y)
          PROVE  b \in Unclaimed(z)
      <3>1. PICK i \in m..n : Claims(w, "node", i, b)
        BY <1>9, <2>1
      <3>2. b \in Blocks(z) /\ b # t
        BY <1>1, <1>6, <1>7, <3>1 DEF Owned, Allocated
      <3>3. \A l, j : Claims(w, l, j, b) => l = "node" /\ j = i
        BY <1>1, <3>1 DEF Owned, Exclusive
      <3>4. QED  BY <1>5, <3>2, <3>3 DEF Unclaimed
    <2>2. ASSUME NEW b \in Unclaimed(y)
          PROVE  b \in Unclaimed(z)
      BY <1>1, <1>5, <1>6, <2>2 DEF Unclaimed
    <2>3. ASSUME NEW b \in Unclaimed(z), b \notin CutBlocks(y)
          PROVE  b \in Unclaimed(y)
      <3>1. b \in Blocks(w) /\ b # t
        BY <1>5, <1>6 DEF Unclaimed
      <3>2. \A k, i : ~Claims(w, k, i, b)
        BY <1>5, <1>9, <2>3 DEF Unclaimed
      <3>3. QED  BY <1>1, <3>1, <3>2 DEF Unclaimed
    <2>4. QED  BY <2>1, <2>2, <2>3
  <1>11. Fresh(z)
    BY <1>1, <1>2, <1>6 DEF Owned, Fresh, Links
  <1>12. Unread(z)
    BY <1>1, <1>2, <1>3 DEF Owned, Unread, Links, m
  <1>13. Lists(z)
    <2>1. z.scn.rear \in 0..Len(z.scn.nodes) + 1
      BY <1>2, <1>3 DEF Links, m
    <2>2. Lists(w) /\ z.elf = w.elf
      BY <1>1, <1>2 DEF Owned, Links
    <2>3. QED  BY <1>3, <2>1, <2>2 DEF Lists
  <1>14. Buffers(z)
    BY <1>1, <1>2, <1>6 DEF Owned, Buffers, Links
  <1>15. Linked(z)
    BY <1>2, <1>3 DEF Linked, Links, m
  <1>16. QED  BY <1>1, <1>2, <1>8, <1>10, <1>11, <1>12, <1>13, <1>14, <1>15 DEF Owned, Leaks, Links

LEMMA elf_newdataKeeps ==
  ASSUME NEW x, Owned(x), Linked(x), NEW fail
  PROVE  LET r == elf_newdata(x, fail) IN
         /\ r.rc \in {1, -1}
         /\ Leaks(x, r.x, IF r.rc = 1 THEN CutBlocks(x) ELSE {})
         /\ r.rc = 1 => r.x.scn.read
  <1> DEFINE begin == x.scn.read /\ x.scn.rawbase # NULL /\ x.scn.rear = 0
             x0 == IF begin THEN set_data_list(x, fail) ELSE x
             Link(y) == IF fail = "node" THEN Rc(-1, y)
                        ELSE Ok([Alloc(y, << >>) EXCEPT
                                   !.scn.rest = Append(SubSeq(y.scn.rest, 1, y.scn.rear - 1), NoBlock),
                                   !.scn.nodes = Append(SubSeq(@, 1, y.scn.rear - 1),
                                                        Heap(y.mem.top)),
                                   !.scn.rear = @ + 1])
             one == [x0 EXCEPT !.scn.first = NoBlock, !.scn.rear = 1]
             s == set_rawdata(x0, fail)
             listed == set_data_list(s.x, fail)
             r == elf_newdata(x, fail)
  <1>1. r = IF x0.scn.read /\ x0.scn.rear = 0 THEN Ok(one)
            ELSE IF x0.scn.read THEN Link(x0)
            ELSE IF s.rc = 1 THEN Link(listed) ELSE s
    BY DEF elf_newdata, Then
  <1>2. /\ Steady(x, x0) /\ (x0.scn.read <=> x.scn.read)
        /\ CutBlocks(x0) = CutBlocks(x)
    <2>1. CASE begin
      <3>1. Steady(x, x0) /\ x0.scn.rear = 1
        BY <2>1, set_data_listKeeps
      <3>2. x0.scn.nodes = x.scn.nodes /\ x0.scn.read
        BY <2>1, <3>1 DEF Steady
      <3> HIDE DEF x0
      <3>3. QED  BY <2>1, <3>1, <3>2 DEF CutBlocks, Larger
    <2>2. CASE ~begin
      BY <2>2, SteadyStays
    <2>3. QED  BY <2>1, <2>2
  <1> HIDE DEF r, x0
  <1>3. Owned(x0) /\ Linked(x0)
    BY <1>2 DEF Steady, Linked
  <1>4. ASSUME NEW y, Owned(y), y.scn.rear # 0, y.scn.read
        PROVE  LET l == Link(y) IN
               \/ l = Rc(-1, y)
               \/ l.rc = 1 /\ Leaks(y, l.x, CutBlocks(y)) /\ l.x.scn.read
    <2>1. CASE fail = "node"
      BY <2>1
    <2>2. CASE fail # "node"
      <3> DEFINE w == Alloc(y, << >>)
                 z == [w EXCEPT
                         !.scn.rest = Append(SubSeq(y.scn.rest, 1, y.scn.rear - 1), NoBlock),
                         !.scn.nodes = Append(SubSeq(@, 1, y.scn.rear - 1), Heap(y.mem.top)),
                         !.scn.rear = @ + 1]
      <3>1. Shape(w) /\ w.scn = y.scn
        BY <1>4, AllocIs DEF Owned
      <3> HIDE DEF w
      <3>2. Links(y, w, z) /\ z.scn.read = y.scn.read
        BY <3>1 DEF Links, Shape, ScnFields
      <3> HIDE DEF z
      <3>3. Links(y, Alloc(y, << >>), z)
        BY <3>2 DEF w
      <3>4. Leaks(y, z, CutBlocks(y)) /\ z.scn.read
        BY <1>4, <3>2, <3>3, LinkKeeps
      <3>5. Link(y) = Ok(z)
        BY <2>2 DEF z, w
      <3> HIDE DEF Link
      <3>6. QED  BY <3>4, <3>5 DEF Ok
    <2>3. QED  BY <2>1, <2>2
  <1> HIDE DEF Link
  <1>5. CASE x0.scn.read /\ x0.scn.rear = 0
    <2>1. Begins(x0, one) /\ one.scn.database = x0.scn.database /\ one.scn.read
      BY <1>3, <1>5 DEF Owned, Shape, ScnFields, Begins, Blocks
    <2> HIDE DEF one
    <2>2. Steady(x0, one)
      BY <1>3, <1>5, <2>1, BeginsSame
    <2>3. Leaks(x, one, {})
      BY <1>2, <2>2, SteadyTwice, SteadyLeaks
    <2>4. CutBlocks(x) = {}
      BY <1>2, <1>3, <1>5 DEF CutBlocks, Owned, Linked, Larger
    <2>5. QED  BY <1>1, <1>5, <2>1, <2>3, <2>4 DEF Ok, r
  <1>6. CASE x0.scn.read /\ x0.scn.rear # 0
    <2>1. \/ r = Rc(-1, x0)
          \/ r.rc = 1 /\ Leaks(x0, r.x, CutBlocks(x0)) /\ r.x.scn.read
      BY <1>1, <1>3, <1>4, <1>6
    <2>2. QED  BY <1>2, <2>1 DEF Rc, Leaks, Steady, Linked, r
  <1>7. CASE ~x0.scn.read
    <2>1. /\ Steady(x0, s.x) /\ s.rc \in {1, -1} /\ (s.rc = 1 => s.x.scn.read)
          /\ s.x.scn.rear = 0 /\ x0.scn.rear = 0
      BY <1>3, <1>7, set_rawdataKeeps DEF Owned, Unread
    <2> HIDE DEF s
    <2>2. CASE s.rc = 1
      <3>1. Owned(s.x) /\ s.x.scn.read
        BY <2>1, <2>2 DEF Steady
      <3>2. Steady(s.x, listed) /\ listed.scn.rear = 1
        BY <2>1, <3>1, set_data_listKeeps
      <3> HIDE DEF listed
      <3>3. Steady(x0, listed) /\ Owned(listed) /\ listed.scn.read
        BY <2>1, <3>1, <3>2, SteadyTwice DEF Steady
      <3>4. CutBlocks(listed) = {} /\ CutBlocks(x0) = {}
        BY <1>3, <2>1, <3>2, <3>3 DEF CutBlocks, Owned, Linked, Unread, Larger, Steady
      <3>5. \/ r = Rc(-1, listed)
            \/ r.rc = 1 /\ Leaks(listed, r.x, CutBlocks(listed)) /\ r.x.scn.read
        BY <1>1, <1>4, <1>7, <2>2, <3>2, <3>3
      <3>6. QED  BY <1>2, <3>3, <3>4, <3>5 DEF Rc, Leaks, Steady, Linked, r
    <2>3. CASE s.rc # 1
      BY <1>1, <1>2, <1>7, <2>1, <2>3 DEF Leaks, Steady, Linked, r
    <2>4. QED  BY <2>2, <2>3
  <1>8. QED  BY <1>5, <1>6, <1>7

-----------------------------------------------------------------------------
(* Compression: what it reads, and what it allocates.                      *)

LEMMA ReadsKeeps ==
  ASSUME NEW x, Owned(x), NEW p, NEW n
  PROVE  Steady(x, Reads(x, p, n)) /\ Reads(x, p, n).scn = x.scn
  <1> DEFINE y == Reads(x, p, n)
  <1>1. /\ Shape(y) /\ y.elf = x.elf /\ y.scn = x.scn /\ Blocks(y) = Blocks(x)
        /\ y.mem.top = x.mem.top /\ (y.mem.fault = "free" => x.mem.fault = "free")
    BY ReadsIs DEF Owned
  <1> HIDE DEF y
  <1>2. SameOwners(x, y)
    BY <1>1 DEF SameOwners
  <1>3. Steady(x, y) /\ y.scn = x.scn
    BY <1>1, <1>2, SteadySame
  <1>4. QED  BY <1>3 DEF y

LEMMA ReadsAllKeeps ==
  ASSUME NEW x, Owned(x), NEW ps
  PROVE  Steady(x, ReadsAll(x, ps)) /\ ReadsAll(x, ps).scn = x.scn
  BY ReadsKeeps, SteadyStays DEF ReadsAll

LEMMA PackedKeeps ==
  ASSUME NEW x, Owned(x), NEW ps, NEW force, NEW fail
  PROVE  LET r == Packed(x, ps, force, fail) IN
         Steady(x, r.x) /\ r.rc \in {1, 0, -1} /\ r.x.scn = x.scn
  <1> DEFINE r == Packed(x, ps, force, fail)
  <1>1. \/ r = Rc(0, x)
        \/ r = Rc(-1, ReadsAll(x, ps))
        \/ r = Rc(0, ReadsAll(x, ps))
        \/ \E v : r = Got(ReadsAll(x, ps), v)
    BY DEF Packed
  <1> HIDE DEF r
  <1>2. r.x \in {x, ReadsAll(x, ps)} /\ r.rc \in {1, 0, -1}
    BY <1>1 DEF Rc, Got
  <1>3. QED  BY <1>2, ReadsAllKeeps, SteadyStays DEF r

LEMMA compressKeeps ==
  ASSUME NEW x, Owned(x), NEW force, NEW fail
  PROVE  LET r == compress(x, force, fail) IN
         Steady(x, r.x) /\ r.rc \in {1, 0, -1} /\ (r.rc = 1 => r.x.scn.read)
  <1> DEFINE g == elf_getdata(x, fail)
             q == Packed(g.x, Pieces(g.x), force, fail)
             r == compress(x, force, fail)
  <1>1. r = IF g.rc = 1 THEN q ELSE g
    BY DEF compress, Then
  <1>2. Steady(x, g.x) /\ g.rc \in {1, -1} /\ (g.rc = 1 => g.x.scn.read)
    BY elf_getdataKeeps
  <1> HIDE DEF r, g
  <1>3. Steady(g.x, q.x) /\ q.rc \in {1, 0, -1} /\ q.x.scn = g.x.scn
    BY <1>2, PackedKeeps DEF Steady
  <1> HIDE DEF q
  <1>4. Steady(x, q.x)
    BY <1>2, <1>3, SteadyTwice
  <1>5. QED  BY <1>1, <1>2, <1>3, <1>4 DEF r

\* Call from x to z that brings p, a new block that is nobody's yet.
Fetches(x, z, p, t) ==
  /\ p = Heap(t) /\ t \in Blocks(z) /\ t \notin Blocks(x)
  /\ Owned(z) /\ Unclaimed(z) = Unclaimed(x) \cup {t}
  /\ z.elf = x.elf /\ z.scn = x.scn /\ (z.mem.fault = "free" => x.mem.fault = "free")

LEMMA AllocFetches ==
  ASSUME NEW x, Owned(x), NEW c
  PROVE  Fetches(x, Alloc(x, c), Heap(x.mem.top), x.mem.top)
  BY AllocIs, AllocOwned DEF Owned, Fresh, Fetches

LEMMA decompressKeeps ==
  ASSUME NEW x, Owned(x), NEW p, NEW out, NEW fail
  PROVE  LET r == decompress(x, p, out, fail) IN
         \/ r.rc = -1 /\ Steady(x, r.x)
         \/ r.rc = 1 /\ \E t : Fetches(x, r.x, r.v, t)
  <1> DEFINE y == Reads(x, p.buf, p.size)
             r == decompress(x, p, out, fail)
  <1>1. r = Rc(-1, y) \/ \E c : r = Got(Alloc(y, c), Heap(y.mem.top))
    BY DEF decompress
  <1>2. Steady(x, y) /\ y.scn = x.scn
    BY ReadsKeeps
  <1>3. y.mem.top = x.mem.top /\ Blocks(y) = Blocks(x)
    BY ReadsIs DEF Owned
  <1> HIDE DEF y, r
  <1>4. CASE r = Rc(-1, y)
    BY <1>2, <1>4 DEF Rc, r
  <1>5. ASSUME NEW c, r = Got(Alloc(y, c), Heap(y.mem.top))
        PROVE  r.rc = 1 /\ Fetches(x, r.x, r.v, y.mem.top)
    <2> DEFINE z == Alloc(y, c)
    <2>1. Fetches(y, z, Heap(y.mem.top), y.mem.top)
      BY <1>2, AllocFetches DEF Steady
    <2>2. r.rc = 1 /\ r.x = z /\ r.v = Heap(y.mem.top)
      BY <1>5 DEF Got
    <2> HIDE DEF z
    <2>3. QED  BY <1>2, <1>3, <2>1, <2>2 DEF Fetches, Steady
  <1>6. QED  BY <1>1, <1>4, <1>5 DEF r

LEMMA getchdrKeeps ==
  ASSUME NEW x, Owned(x), NEW fail
  PROVE  LET r == getchdr(x, fail) IN
         /\ Steady(x, r.x) /\ r.rc \in {1, -1}
         /\ r.rc = 1 => x.scn.z /\ r.x.scn.read
  <1> DEFINE g == elf_getdata(x, fail)
             r == getchdr(x, fail)
             p == g.x.scn.first.buf
  <1>1. \/ r = Rc(-1, x)
        \/ /\ x.scn.z
           /\ \/ g.rc # 1 /\ r = g
              \/ g.rc = 1 /\ r = Rc(-1, g.x)
              \/ g.rc = 1 /\ r = Got(Reads(g.x, p, HSIZE), Pad)
              \/ g.rc = 1 /\ \E v : r = Got(g.x, v)
    BY DEF getchdr, Then
  <1>2. Steady(x, g.x) /\ g.rc \in {1, -1} /\ (g.rc = 1 => g.x.scn.read)
    BY elf_getdataKeeps
  <1> HIDE DEF r, g, p
  <1>3. Steady(g.x, Reads(g.x, p, HSIZE)) /\ Reads(g.x, p, HSIZE).scn = g.x.scn
    BY <1>2, ReadsKeeps DEF Steady
  <1>4. Steady(x, Reads(g.x, p, HSIZE))
    BY <1>2, <1>3, SteadyTwice
  <1>5. QED  BY <1>1, <1>2, <1>3, <1>4, SteadyStays DEF Rc, Got, r

\* The expanded bytes are kept.
Keeps(z, y, p) ==
  /\ Shape(y) /\ y.elf = z.elf /\ y.mem = z.mem
  /\ y.scn.rawbase = z.scn.rawbase /\ y.scn.database = z.scn.database
  /\ y.scn.zbase = p /\ y.scn.nodes = z.scn.nodes
  /\ (y.scn.malloced <=> z.scn.malloced) /\ (y.scn.z <=> z.scn.z)
  /\ (y.scn.read <=> z.scn.read) /\ y.scn.rear = z.scn.rear

LEMMA ExpandedKept ==
  ASSUME NEW x, Owned(x), x.scn.zbase = NULL, x.scn.z, x.scn.read,
         NEW z, NEW t, NEW p, Fetches(x, z, p, t), NEW y, Keeps(z, y, p)
  PROVE  Leaks(x, y, {}) /\ Claims(y, "z", 0, t) /\ y.scn.zbase = Heap(t)
  <1>1. /\ z.elf = x.elf /\ z.scn = x.scn /\ Owned(z) /\ p = Heap(t)
        /\ Unclaimed(z) = Unclaimed(x) \cup {t} /\ t \notin Unclaimed(x)
        /\ t \notin Blocks(x) /\ t \in Blocks(z)
    BY DEF Fetches, Unclaimed
  <1>2. Heap(t) # x.scn.rawbase
    BY <1>1 DEF Owned, Buffers
  <1>3. Takes(z, y, "z", 0, t)
    <2>1. \A k, i, b : Claims(y, k, i, b) <=>
                         Claims(z, k, i, b) \/ (k = "z" /\ i = 0 /\ b = t)
      BY <1>1, <1>2, Pointers1 DEF Claims, Ours, Keeps
    <2>2. \A b : ~Claims(z, "z", 0, b)
      BY <1>1, Pointers1 DEF Claims
    <2>3. Blocks(y) = Blocks(z)
      BY DEF Keeps, Blocks
    <2>4. QED  BY <1>1, <2>1, <2>2, <2>3 DEF Takes
  <1>4. Allocated(y) /\ Exclusive(y) /\ Unclaimed(y) = Unclaimed(x)
    BY <1>1, <1>3, ClaimsOne
  <1>5. Fresh(y) /\ Unread(y) /\ Lists(y) /\ (Linked(x) => Linked(y))
    BY <1>1, <1>3 DEF Owned, Fresh, Unread, Lists, Linked, Keeps, Takes
  <1>6. Buffers(y)
    BY <1>1, <1>2, <1>3, Pointers1 DEF Owned, Buffers, InHeap, Keeps, Takes
  <1>7. Claims(y, "z", 0, t)
    BY <1>3 DEF Takes
  <1>8. y.mem.fault = "free" => x.mem.fault = "free"
    BY DEF Keeps, Fetches
  <1>9. QED  BY <1>1, <1>4, <1>5, <1>6, <1>7, <1>8 DEF Owned, Leaks, Keeps

LEMMA decompress_elfKeeps ==
  ASSUME NEW x, Owned(x), x.scn.zbase = NULL, NEW fail
  PROVE  LET r == decompress_elf(x, fail) IN
         /\ Leaks(x, r.x, {}) /\ r.rc \in {1, -1}
         /\ r.rc = 1 => /\ r.x.scn.read /\ r.x.scn.z
                        /\ \E t : Claims(r.x, "z", 0, t) /\ r.x.scn.zbase = Heap(t)
  <1> DEFINE c == getchdr(x, fail)
             d == decompress(c.x, c.x.scn.first, c.v.size, fail)
             y == [d.x EXCEPT !.scn.zbase = d.v, !.scn.zsize = c.v.size,
                              !.scn.zalign = c.v.align]
             r == decompress_elf(x, fail)
  <1>1. \/ c.rc # 1 /\ r = Rc(c.rc, c.x)
        \/ c.rc = 1 /\ r = Rc(-1, c.x)
        \/ c.rc = 1 /\ d.rc # 1 /\ r = Rc(d.rc, d.x)
        \/ c.rc = 1 /\ d.rc = 1 /\ r = Ok(y)
    BY DEF decompress_elf, With
  <1>2. /\ Steady(x, c.x) /\ c.rc \in {1, -1}
        /\ c.rc = 1 => x.scn.z /\ c.x.scn.read
    BY getchdrKeeps
  <1> HIDE DEF r, c
  <1>3. \/ d.rc = -1 /\ Steady(c.x, d.x)
        \/ d.rc = 1 /\ \E t : Fetches(c.x, d.x, d.v, t)
    BY <1>2, decompressKeeps DEF Steady
  <1> HIDE DEF d
  <1>4. Leaks(x, c.x, {})
    BY <1>2, SteadyLeaks
  <1>5. CASE c.rc # 1 \/ r = Rc(-1, c.x)
    BY <1>1, <1>2, <1>4, <1>5 DEF r, Rc
  <1>6. CASE c.rc = 1 /\ d.rc # 1 /\ r = Rc(d.rc, d.x)
    <2>1. Steady(x, d.x)
      BY <1>2, <1>3, <1>6, SteadyTwice
    <2>2. QED  BY <1>3, <1>6, <2>1, SteadyLeaks DEF r, Rc
  <1>7. CASE c.rc = 1 /\ d.rc = 1 /\ r = Ok(y)
    <2>1. PICK t : Fetches(c.x, d.x, d.v, t)
      BY <1>3, <1>7
    <2>2. Keeps(d.x, y, d.v)
      BY <2>1 DEF Keeps, Fetches, Owned, Shape, ScnFields
    <2> HIDE DEF y
    <2>3. /\ Owned(c.x) /\ c.x.scn.zbase = NULL /\ c.x.scn.z /\ c.x.scn.read
      BY <1>2, <1>7 DEF Steady
    <2>4. Leaks(c.x, y, {}) /\ Claims(y, "z", 0, t) /\ y.scn.zbase = Heap(t)
      BY <2>1, <2>2, <2>3, ExpandedKept
    <2>5. Leaks(x, y, {})
      BY <1>4, <2>4 DEF Leaks
    <2>6. y.scn.read /\ y.scn.z
      BY <2>1, <2>2, <2>3 DEF Keeps, Fetches
    <2>7. QED  BY <1>7, <2>4, <2>5, <2>6 DEF r, Ok
  <1>8. QED  BY <1>1, <1>5, <1>6, <1>7

-----------------------------------------------------------------------------
(* __libelf_reset_rawdata().                                               *)

\* The header of a section is changed, not its buffers.
Headed(x, w) ==
  /\ Shape(w) /\ w.elf = x.elf /\ w.mem = x.mem
  /\ w.scn.rawbase = x.scn.rawbase /\ w.scn.database = x.scn.database
  /\ w.scn.zbase = x.scn.zbase /\ w.scn.nodes = x.scn.nodes
  /\ (w.scn.malloced <=> x.scn.malloced) /\ w.scn.rear = x.scn.rear

ZBlock(x) == {b \in Blocks(x) : Claims(x, "z", 0, b)}
DataBlock(x) == {b \in Blocks(x) : Claims(x, "data", 0, b)}
RawBlock(x) == {b \in Blocks(x) : Claims(x, "raw", 0, b)}

\* Both buffers that may be given up are, each once.
LEMMA DroppedIs ==
  ASSUME NEW x, Owned(x), NEW w, Headed(x, w)
  PROVE  LET y == Dropped(w) IN
         /\ Shape(y) /\ y.elf = x.elf /\ y.scn = w.scn /\ y.mem.top = x.mem.top
         /\ y.mem.fault = x.mem.fault
         /\ Blocks(y) = (Blocks(x) \ DataBlock(x)) \ RawBlock(x)
  <1> DEFINE v == IF w.scn.database # w.scn.rawbase THEN Free(w, w.scn.database) ELSE w
             y == Dropped(w)
  <1>1. y = IF Ours(w) THEN Free(v, w.scn.rawbase) ELSE v
    BY DEF Dropped
  <1>2. Blocks(w) = Blocks(x) /\ (Ours(w) <=> Ours(x))
    BY DEF Headed, Blocks, Ours
  <1>3. /\ Shape(v) /\ v.elf = x.elf /\ v.scn = w.scn /\ v.mem.top = x.mem.top
        /\ v.mem.fault = x.mem.fault /\ Blocks(v) = Blocks(x) \ DataBlock(x)
    <2>1. CASE w.scn.database # w.scn.rawbase /\ InHeap(w.scn.database)
      <3>1. PICK b : w.scn.database = Heap(b)
        BY <2>1 DEF InHeap
      <3>2. Claims(x, "data", 0, b)
        BY <2>1, <3>1 DEF Claims, Headed
      <3>3. b \in Blocks(x) /\ DataBlock(x) = {b}
        BY <3>1, <3>2, Pointers1 DEF DataBlock, Owned, Allocated, Claims, Headed
      <3>4. v = Free(w, Heap(b))
        BY <2>1, <3>1
      <3> HIDE DEF v
      <3>5. QED  BY <1>2, <3>3, <3>4, FreeIs DEF Headed
    <2>2. CASE w.scn.database = w.scn.rawbase \/ ~InHeap(w.scn.database)
      <3>1. v = w
        BY <2>2, FreeNull DEF Owned, Buffers, Headed
      <3>2. DataBlock(x) = {}
        BY <2>2, Pointers1 DEF DataBlock, Claims, Headed, InHeap
      <3> HIDE DEF v
      <3>3. QED  BY <1>2, <3>1, <3>2 DEF Headed
    <2>3. QED  BY <2>1, <2>2
  <1> HIDE DEF v, y
  <1>4. CASE Ours(x) /\ InHeap(w.scn.rawbase)
    <2>1. PICK b : w.scn.rawbase = Heap(b)
      BY <1>4 DEF InHeap
    <2>2. Claims(x, "raw", 0, b)
      BY <1>4, <2>1 DEF Claims, Headed
    <2>3. b \in Blocks(x) /\ RawBlock(x) = {b}
      BY <2>1, <2>2, Pointers1 DEF RawBlock, Owned, Allocated, Claims, Headed
    <2>4. b \in Blocks(v)
      BY <1>3, <2>2, <2>3 DEF DataBlock, Owned, Exclusive
    <2>5. y = Free(v, Heap(b))
      BY <1>1, <1>2, <1>4, <2>1
    <2>6. /\ Shape(y) /\ y.elf = v.elf /\ y.scn = v.scn /\ Blocks(y) = Blocks(v) \ {b}
          /\ y.mem.top = v.mem.top /\ y.mem.fault = v.mem.fault
      BY <1>3, <2>4, <2>5, FreeIs
    <2>7. QED  BY <1>3, <2>3, <2>6 DEF y
  <1>5. CASE ~Ours(x) \/ ~InHeap(w.scn.rawbase)
    <2>1. Ours(x) => x.scn.rawbase = NULL
      BY <1>5, Pointers1 DEF Owned, Buffers, Ours, Headed, InHeap
    <2>2. y = v
      BY <1>1, <1>2, <2>1, FreeNull DEF Headed
    <2>3. RawBlock(x) = {}
      BY <1>5, Pointers1 DEF RawBlock, Claims, Headed, InHeap
    <2>4. QED  BY <1>3, <2>2, <2>3 DEF y
  <1>6. QED  BY <1>4, <1>5

\* The state of a section between the buffers given up and the new list begun.
Replaced(w, y, p, zbase) ==
  /\ Shape(y) /\ y.elf = w.elf
  /\ y.scn.rawbase = p /\ y.scn.database = NULL /\ y.scn.zbase = zbase
  /\ y.scn.malloced /\ y.scn.read /\ y.scn.rear = 0
  /\ (y.scn.z <=> w.scn.z) /\ y.scn.nodes = w.scn.nodes

LEMMA ReplacedOwned ==
  ASSUME NEW x, Owned(x), NEW w, Headed(x, w), NEW t \in Blocks(x),
         t \in Unclaimed(x) \/ Claims(x, "z", 0, t),
         NEW zbase \in {NULL, Heap(t)}, zbase # NULL => ~w.scn.z,
         NEW y, Replaced(w, y, Heap(t), zbase),
         Blocks(y) = (Blocks(x) \ DataBlock(x)) \ RawBlock(x), y.mem.top = x.mem.top
  PROVE  Owned(y) /\ Unclaimed(y) = (Unclaimed(x) \cup ZBlock(x)) \ {t}
  <1> DEFINE Lasting(k) == k = "node" \/ k = "buffer" \/ k = "chunk"
  <1>1. \A k, i, b : Claims(y, k, i, b) <=>
          (Claims(x, k, i, b) /\ Lasting(k)) \/ (k = "raw" /\ i = 0 /\ b = t)
    BY Pointers1 DEF Claims, Ours, Replaced, Headed
  <1>2. \A k, i, b : Claims(x, k, i, b) =>
          Lasting(k) \/ (i = 0 /\ (k = "raw" \/ k = "data" \/ k = "z"))
    BY DEF Claims
  <1>3. ~Lasting("raw") /\ ~Lasting("data") /\ ~Lasting("z") /\ "data" # "raw" /\ "z" # "raw" /\ "data" # "z"
    OBVIOUS
  <1> HIDE DEF Lasting
  <1>4. \A k, i : Claims(x, k, i, t) => k = "z"
    BY DEF Unclaimed, Owned, Exclusive
  <1>5. t \in Blocks(y)
    BY <1>3, <1>4 DEF DataBlock, RawBlock
  <1>6. \A k, i, b : Claims(x, k, i, b) /\ (Lasting(k) \/ k = "z") => b \in Blocks(y)
    BY <1>3 DEF DataBlock, RawBlock, Owned, Allocated, Exclusive
  <1>7. Allocated(y)
    BY <1>1, <1>5, <1>6 DEF Allocated
  <1>8. Exclusive(y)
    BY <1>1, <1>3, <1>4 DEF Owned, Exclusive
  <1>9. Unclaimed(y) = (Unclaimed(x) \cup ZBlock(x)) \ {t}
    <2>1. ASSUME NEW b \in Unclaimed(y)
          PROVE  b \in (Unclaimed(x) \cup ZBlock(x)) \ {t}
      <3>1. b # t /\ b \in Blocks(x) /\ ~Claims(x, "data", 0, b) /\ ~Claims(x, "raw", 0, b)
        BY <1>1 DEF Unclaimed, DataBlock, RawBlock
      <3>2. \A k, i : Claims(x, k, i, b) => k = "z" /\ i = 0
        BY <1>1, <1>2, <3>1 DEF Unclaimed
      <3>3. QED  BY <3>1, <3>2 DEF Unclaimed, ZBlock
    <2>2. ASSUME NEW b \in Unclaimed(x), b # t
          PROVE  b \in Unclaimed(y)
      BY <1>1, <2>2 DEF Unclaimed, DataBlock, RawBlock
    <2>3. ASSUME NEW b \in ZBlock(x), b # t
          PROVE  b \in Unclaimed(y)
      <3>1. Claims(x, "z", 0, b)
        BY DEF ZBlock
      <3>2. b \in Blocks(y)
        BY <1>6, <3>1
      <3>3. \A k, i : ~(Claims(x, k, i, b) /\ Lasting(k))
        BY <1>3, <3>1 DEF Owned, Exclusive
      <3>4. QED  BY <1>1, <2>3, <3>2, <3>3 DEF Unclaimed
    <2>4. QED  BY <2>1, <2>2, <2>3
  <1>10. Fresh(y)
    BY DEF Owned, Fresh
  <1>11. Unread(y)
    BY DEF Unread, Replaced
  <1>12. Lists(y)
    <2>1. Lists(x) /\ y.elf = x.elf /\ y.scn.nodes = x.scn.nodes /\ y.scn.rear = 0
      BY DEF Owned, Replaced, Headed
    <2>2. QED  BY <2>1 DEF Lists
  <1>13. Buffers(y)
    BY <1>5, Pointers1 DEF Buffers, InHeap, Replaced
  <1>14. QED  BY <1>7, <1>8, <1>9, <1>10, <1>11, <1>12, <1>13 DEF Owned, Replaced

\* The section before its new list is begun.
Emptied(w, buf, size, align, type, zbase) ==
  [Dropped(w) EXCEPT
     !.scn.raw = Block(buf, size, align, type), !.scn.rear = 0,
     !.scn.database = NULL, !.scn.rawbase = buf, !.scn.zbase = zbase, !.scn.malloced = TRUE,
     !.scn.read = TRUE, !.scn.filedata = TRUE]

LEMMA EmptiedKeeps ==
  ASSUME NEW x, Owned(x), NEW w, Headed(x, w), NEW t \in Blocks(x),
         t \in Unclaimed(x) \/ Claims(x, "z", 0, t),
         NEW zbase \in {NULL, Heap(t)}, zbase # NULL => ~w.scn.z,
         NEW size, NEW align, NEW type
  PROVE  LET v == Emptied(w, Heap(t), size, align, type, zbase) IN
         /\ Owned(v) /\ v.elf = x.elf /\ v.mem = Dropped(w).mem
         /\ Unclaimed(v) = (Unclaimed(x) \cup ZBlock(x)) \ {t}
         /\ v.mem.fault = x.mem.fault
         /\ v.scn.rear = 0 /\ v.scn.read /\ v.scn.rawbase = Heap(t)
         /\ v.scn.raw = Block(Heap(t), size, align, type)
         /\ v.scn.first = w.scn.first /\ v.scn.rest = w.scn.rest
  <1> DEFINE d == Dropped(w)
             raw == Block(Heap(t), size, align, type)
             v == Emptied(w, Heap(t), size, align, type, zbase)
  <1>1. /\ Shape(d) /\ d.elf = x.elf /\ d.scn = w.scn /\ d.mem.top = x.mem.top
        /\ d.mem.fault = x.mem.fault
        /\ Blocks(d) = (Blocks(x) \ DataBlock(x)) \ RawBlock(x)
    BY DroppedIs
  <1>2. v = [d EXCEPT !.scn.raw = raw, !.scn.rear = 0,
                      !.scn.database = NULL, !.scn.rawbase = Heap(t), !.scn.zbase = zbase,
                      !.scn.malloced = TRUE, !.scn.read = TRUE, !.scn.filedata = TRUE]
    BY DEF Emptied
  <1> HIDE DEF d, v, raw
  <1>3. /\ Shape(v) /\ v.elf = d.elf /\ v.mem = d.mem
        /\ v.scn.rawbase = Heap(t) /\ v.scn.database = NULL /\ v.scn.zbase = zbase
        /\ v.scn.malloced = TRUE /\ v.scn.read = TRUE /\ v.scn.rear = 0
        /\ v.scn.z = d.scn.z /\ v.scn.nodes = d.scn.nodes /\ v.scn.raw = raw
        /\ v.scn.first = d.scn.first /\ v.scn.rest = d.scn.rest
    <2> DEFINE s == [d.scn EXCEPT !.raw = raw, !.rear = 0,
                    !.database = NULL, !.rawbase = Heap(t), !.zbase = zbase,
                    !.malloced = TRUE, !.read = TRUE, !.filedata = TRUE]
    <2>1. v = [d EXCEPT !.scn = s]
      BY <1>1, <1>2 DEF Shape
    <2>2. /\ DOMAIN s = ScnFields
          /\ s.rawbase = Heap(t) /\ s.database = NULL /\ s.zbase = zbase
          /\ s.malloced = TRUE /\ s.read = TRUE /\ s.rear = 0
          /\ s.z = d.scn.z /\ s.nodes = d.scn.nodes /\ s.raw = raw
          /\ s.first = d.scn.first /\ s.rest = d.scn.rest
      BY <1>1 DEF Shape, ScnFields
    <2> HIDE DEF s
    <2>3. QED  BY <1>1, <2>1, <2>2 DEF Shape
  <1>4. Replaced(w, v, Heap(t), zbase)
    BY <1>1, <1>3 DEF Replaced, Headed
  <1>5. Blocks(v) = (Blocks(x) \ DataBlock(x)) \ RawBlock(x) /\ v.mem.top = x.mem.top
    BY <1>1, <1>3 DEF Blocks
  <1>6. Owned(v) /\ Unclaimed(v) = (Unclaimed(x) \cup ZBlock(x)) \ {t}
    BY <1>4, <1>5, ReplacedOwned
  <1>7. v.scn.raw = Block(Heap(t), size, align, type) /\ v.mem = Dropped(w).mem
    BY <1>3 DEF raw, d
  <1>8. QED  BY <1>1, <1>3, <1>6, <1>7 DEF v

LEMMA reset_rawdataKeeps ==
  ASSUME NEW x, Owned(x), NEW w, Headed(x, w), NEW t \in Blocks(x),
         t \in Unclaimed(x) \/ Claims(x, "z", 0, t),
         NEW zbase \in {NULL, Heap(t)}, zbase # NULL => ~w.scn.z,
         NEW size, NEW align, NEW type, NEW fail
  PROVE  LET y == reset_rawdata(w, Heap(t), size, align, type, zbase, fail) IN
         /\ Owned(y) /\ Linked(y) /\ y.elf = x.elf
         /\ Unclaimed(y) = (Unclaimed(x) \cup ZBlock(x)) \ {t}
         /\ y.mem.fault = "free" => x.mem.fault = "free"
  <1> DEFINE v == Emptied(w, Heap(t), size, align, type, zbase)
             y == reset_rawdata(w, Heap(t), size, align, type, zbase, fail)
  <1>1. /\ Owned(v) /\ v.elf = x.elf /\ v.mem.fault = x.mem.fault
        /\ Unclaimed(v) = (Unclaimed(x) \cup ZBlock(x)) \ {t}
        /\ v.scn.rear = 0 /\ v.scn.read
    BY EmptiedKeeps
  <1>2. y = set_data_list(v, fail)
    BY DEF reset_rawdata, Emptied
  <1> HIDE DEF v, y
  <1>3. Steady(v, y) /\ y.scn.rear = 1
    BY <1>1, <1>2, set_data_listKeeps
  <1>4. /\ Owned(y) /\ Linked(y) /\ y.elf = x.elf
        /\ Unclaimed(y) = (Unclaimed(x) \cup ZBlock(x)) \ {t}
        /\ y.mem.fault = "free" => x.mem.fault = "free"
    BY <1>1, <1>3 DEF Steady, Linked
  <1>5. QED  BY <1>4 DEF y

-----------------------------------------------------------------------------
(* elf_compress() and elf_compress_gnu().                                  *)

\* The expanded bytes that nothing refers to when the section is compressed again.
ZLost(x) == IF x.scn.zbase \notin {NULL, x.scn.rawbase} THEN {x.scn.zbase.b} ELSE {}

LEMMA ZBlockIs ==
  ASSUME NEW x, Owned(x)
  PROVE  ZBlock(x) = ZLost(x)
  <1>1. x.scn.zbase = NULL \/ \E b : x.scn.zbase = Heap(b)
    BY DEF Owned, Buffers, InHeap
  <1>2. CASE x.scn.zbase = NULL
    BY <1>2, Pointers1 DEF ZBlock, ZLost, Claims
  <1>3. ASSUME NEW b, x.scn.zbase = Heap(b)
        PROVE  ZBlock(x) = ZLost(x)
    <2>1. Claims(x, "z", 0, b) => b \in Blocks(x)
      BY DEF Owned, Allocated
    <2>2. \A c : Claims(x, "z", 0, c) <=> c = b /\ x.scn.zbase # x.scn.rawbase
      BY <1>3, Pointers1 DEF Claims
    <2>3. x.scn.zbase.b = b /\ x.scn.zbase # NULL
      BY <1>3, Pointers1
    <2>4. QED  BY <2>1, <2>2, <2>3 DEF ZBlock, ZLost
  <1>4. QED  BY <1>1, <1>2, <1>3

LEMMA SteadyLost ==
  ASSUME NEW x, Owned(x), NEW y, Steady(x, y)
  PROVE  ZLost(y) = ZLost(x)
  BY DEF Steady, ZLost, Owned, Unread

\* The contents are replaced by what is in a new block.
LEMMA NewContents ==
  ASSUME NEW x, Owned(x), NEW z, NEW p, NEW t, Fetches(x, z, p, t),
         NEW w, Headed(z, w), NEW zbase \in {NULL, p}, zbase # NULL => ~w.scn.z,
         NEW size, NEW align, NEW type, NEW fail
  PROVE  Leaks(x, reset_rawdata(w, p, size, align, type, zbase, fail), ZLost(x))
  <1> DEFINE y == reset_rawdata(w, p, size, align, type, zbase, fail)
  <1>1. /\ p = Heap(t) /\ t \in Blocks(z) /\ t \notin Blocks(x) /\ Owned(z)
        /\ Unclaimed(z) = Unclaimed(x) \cup {t} /\ t \in Unclaimed(z)
        /\ z.elf = x.elf /\ z.scn = x.scn /\ (z.mem.fault = "free" => x.mem.fault = "free")
    BY DEF Fetches
  <1>2. /\ Owned(y) /\ Linked(y) /\ y.elf = z.elf
        /\ Unclaimed(y) = (Unclaimed(z) \cup ZBlock(z)) \ {t}
        /\ y.mem.fault = "free" => z.mem.fault = "free"
    BY <1>1, reset_rawdataKeeps
  <1> HIDE DEF y
  <1>3. ZBlock(z) = ZLost(x) /\ ZBlock(x) = ZLost(x)
    BY <1>1, ZBlockIs DEF ZLost
  <1>4. t \notin ZLost(x) /\ t \notin Unclaimed(x)
    BY <1>1, <1>3 DEF ZBlock, Unclaimed
  <1>5. Unclaimed(y) = Unclaimed(x) \cup ZLost(x)
    BY <1>1, <1>2, <1>3, <1>4
  <1>6. QED  BY <1>1, <1>2, <1>5 DEF Leaks, y

\* What a call does that replaces the contents: when it does, lost is nobody's.
Renews(x, r, lost) ==
  r.rc \in {1, 0, -1} /\ Leaks(x, r.x, IF r.rc = 1 THEN lost ELSE {})

LEMMA CompressedKeeps ==
  ASSUME NEW x, Owned(x), NEW y, Steady(x, y), NEW c, NEW w, Headed(Alloc(y, c), w),
         NEW size, NEW align, NEW type, NEW fail
  PROVE  Leaks(x, reset_rawdata(w, Heap(y.mem.top), size, align, type, NULL, fail), ZLost(x))
  <1> DEFINE v == reset_rawdata(w, Heap(y.mem.top), size, align, type, NULL, fail)
  <1>1. Owned(y)
    BY DEF Steady
  <1>2. Fetches(y, Alloc(y, c), Heap(y.mem.top), y.mem.top)
    BY <1>1, AllocFetches
  <1>3. Leaks(y, v, ZLost(y))
    BY <1>1, <1>2, NewContents
  <1> HIDE DEF v
  <1>4. Leaks(x, v, ZLost(x))
    BY <1>3, SteadyLost, SteadyLeaks DEF Leaks
  <1>5. QED  BY <1>4 DEF v

LEMMA HeadedAlloc ==
  ASSUME NEW y, Owned(y), NEW c, NEW size, NEW align, NEW z
  PROVE  /\ Headed(Alloc(y, c), [Alloc(y, c) EXCEPT !.scn.size = size])
         /\ Headed(Alloc(y, c), [Alloc(y, c) EXCEPT !.scn.size = size, !.scn.align = align,
                                                    !.scn.z = z])
  <1> DEFINE a == Alloc(y, c)
  <1>1. Shape(a)
    BY AllocIs DEF Owned
  <1> HIDE DEF a
  <1>2. /\ Headed(a, [a EXCEPT !.scn.size = size])
        /\ Headed(a, [a EXCEPT !.scn.size = size, !.scn.align = align, !.scn.z = z])
    BY <1>1 DEF Headed, Shape, ScnFields
  <1>3. QED  BY <1>2 DEF a

LEMMA deflateKeeps ==
  ASSUME NEW x, Owned(x), NEW force, NEW fail
  PROVE  Renews(x, elf_compress_deflate(x, force, fail), ZLost(x))
  <1> DEFINE c == compress(x, force, fail)
             y == c.x
             t == y.mem.top
             r == elf_compress_deflate(x, force, fail)
             Done(cells) == reset_rawdata([Alloc(y, cells) EXCEPT
                              !.scn.size = Len(cells), !.scn.align = CHDR_ALIGN, !.scn.z = TRUE],
                              Heap(t), Len(cells), 1, "CHDR", NULL, fail)
  <1>1. \/ r = Rc(-1, x)
        \/ c.rc # 1 /\ r = Rc(c.rc, c.x)
        \/ c.rc = 1 /\ \E cells : r = Ok(Done(cells))
    BY DEF elf_compress_deflate, With
  <1>2. Steady(x, y) /\ c.rc \in {1, 0, -1}
    BY compressKeeps
  <1> HIDE DEF r, c
  <1>3. ASSUME NEW cells
        PROVE  Leaks(x, Done(cells), ZLost(x))
    <2>1. Headed(Alloc(y, cells), [Alloc(y, cells) EXCEPT
                    !.scn.size = Len(cells), !.scn.align = CHDR_ALIGN, !.scn.z = TRUE])
      BY <1>2, HeadedAlloc DEF Steady
    <2>2. QED  BY <1>2, <2>1, CompressedKeeps
  <1> HIDE DEF Done
  <1>4. Leaks(x, x, {}) /\ Leaks(x, y, {})
    BY <1>2, SteadyStays, SteadyLeaks
  <1>5. QED  BY <1>1, <1>2, <1>3, <1>4 DEF Renews, Rc, Ok, r

LEMMA gnu_deflateKeeps ==
  ASSUME NEW x, Owned(x), NEW force, NEW fail
  PROVE  Renews(x, elf_compress_gnu_deflate(x, force, fail), ZLost(x))
  <1> DEFINE c == compress(x, force, fail)
             y == c.x
             t == y.mem.top
             r == elf_compress_gnu_deflate(x, force, fail)
             Done(cells) == reset_rawdata([Alloc(y, cells) EXCEPT !.scn.size = Len(cells)],
                              Heap(t), Len(cells), 1, "BYTE", NULL, fail)
  <1>1. \/ r = Rc(-1, x)
        \/ c.rc # 1 /\ r = Rc(c.rc, c.x)
        \/ c.rc = 1 /\ \E cells : r = Ok(Done(cells))
    BY DEF elf_compress_gnu_deflate, With
  <1>2. Steady(x, y) /\ c.rc \in {1, 0, -1}
    BY compressKeeps
  <1> HIDE DEF r, c
  <1>3. ASSUME NEW cells
        PROVE  Leaks(x, Done(cells), ZLost(x))
    <2>1. Headed(Alloc(y, cells), [Alloc(y, cells) EXCEPT !.scn.size = Len(cells)])
      BY <1>2, HeadedAlloc DEF Steady
    <2>2. QED  BY <1>2, <2>1, CompressedKeeps
  <1> HIDE DEF Done
  <1>4. Leaks(x, x, {}) /\ Leaks(x, y, {})
    BY <1>2, SteadyStays, SteadyLeaks
  <1>5. QED  BY <1>1, <1>2, <1>3, <1>4 DEF Renews, Rc, Ok, r

LEMMA inflateKeeps ==
  ASSUME NEW x, Owned(x), NEW fail
  PROVE  Renews(x, elf_compress_inflate(x, fail), {})
  <1> DEFINE e == IF x.scn.zbase # NULL THEN Ok(x) ELSE decompress_elf(x, fail)
             y == e.x
             w == [y EXCEPT !.scn.size = y.scn.zsize, !.scn.align = y.scn.zalign, !.scn.z = FALSE]
             v == reset_rawdata(w, y.scn.zbase, y.scn.zsize, y.scn.zalign,
                                data_type(y.scn.type), y.scn.zbase, fail)
             r == elf_compress_inflate(x, fail)
  <1>1. \/ r = Rc(-1, x)
        \/ x.scn.z /\ e.rc # 1 /\ r = e
        \/ x.scn.z /\ e.rc = 1 /\ r = Ok(v)
    BY DEF elf_compress_inflate, Then
  <1>2. x.scn.z => /\ Leaks(x, y, {}) /\ e.rc \in {1, -1}
                   /\ e.rc = 1 => \E t : Claims(y, "z", 0, t) /\ y.scn.zbase = Heap(t)
    <2>1. CASE x.scn.z /\ x.scn.zbase # NULL
      <3>1. PICK t : x.scn.zbase = Heap(t)
        BY <2>1 DEF Owned, Buffers, InHeap
      <3>2. x.scn.zbase # x.scn.rawbase
        BY <2>1 DEF Owned, Buffers
      <3>3. Claims(x, "z", 0, t)
        BY <3>1, <3>2 DEF Claims
      <3>4. e.rc = 1 /\ y = x
        BY <2>1 DEF Ok
      <3> HIDE DEF e
      <3>5. QED  BY <3>1, <3>3, <3>4, SteadyStays, SteadyLeaks
    <2>2. CASE x.scn.zbase = NULL
      BY <2>2, decompress_elfKeeps
    <2>3. QED  BY <2>1, <2>2
  <1> HIDE DEF e, r
  <1>3. CASE x.scn.z /\ e.rc = 1 /\ r = Ok(v)
    <2>1. PICK t : Claims(y, "z", 0, t) /\ y.scn.zbase = Heap(t)
      BY <1>2, <1>3
    <2>2. Owned(y)
      BY <1>2, <1>3 DEF Leaks
    <2>3. t \in Blocks(y)
      BY <2>1, <2>2 DEF Owned, Allocated
    <2>4. Headed(y, w) /\ ~w.scn.z
      BY <2>2 DEF Headed, Owned, Shape, ScnFields
    <2>5. v = reset_rawdata(w, Heap(t), y.scn.zsize, y.scn.zalign,
                            data_type(y.scn.type), Heap(t), fail)
      BY <2>1
    <2> HIDE DEF v, w
    <2>6. /\ Owned(v) /\ Linked(v) /\ v.elf = y.elf
          /\ Unclaimed(v) = (Unclaimed(y) \cup ZBlock(y)) \ {t}
          /\ v.mem.fault = "free" => y.mem.fault = "free"
      BY <2>1, <2>2, <2>3, <2>4, <2>5, reset_rawdataKeeps
    <2>7. ZBlock(y) = {t} /\ t \notin Unclaimed(y)
      BY <2>1, <2>3, Pointers1 DEF ZBlock, Unclaimed, Claims
    <2>8. Unclaimed(v) = Unclaimed(y)
      BY <2>6, <2>7
    <2>9. Leaks(x, v, {})
      BY <1>2, <1>3, <2>6, <2>8 DEF Leaks
    <2>10. QED  BY <1>3, <2>9 DEF Renews, Ok, r
  <1>4. Leaks(x, x, {})
    BY SteadyStays, SteadyLeaks
  <1>5. QED  BY <1>1, <1>2, <1>3, <1>4 DEF Renews, Rc, r

LEMMA gnu_inflateKeeps ==
  ASSUME NEW x, Owned(x), NEW fail
  PROVE  Renews(x, elf_compress_gnu_inflate(x, fail), {})
  <1> DEFINE g == elf_getdata(x, fail)
             y == g.x
             size == Cells(y, y.scn.first.buf)[1].size
             m == Min({HSIZE, y.scn.first.size})
             d == decompress(y, y.scn.first, size, fail)
             z == d.x
             p == d.v
             w == [z EXCEPT !.scn.size = size]
             v == reset_rawdata(w, p, size, z.scn.align, data_type(z.scn.type), p, fail)
             r == elf_compress_gnu_inflate(x, fail)
  <1>1. \/ r = Rc(-1, x)
        \/ ~x.scn.z /\ g.rc # 1 /\ r = g
        \/ ~x.scn.z /\ g.rc = 1 /\ \/ r = Rc(-1, Reads(y, y.scn.first.buf, m))
                                   \/ r = Rc(-1, y)
                                   \/ d.rc # 1 /\ r = Rc(d.rc, d.x)
                                   \/ d.rc = 1 /\ r = Ok(v)
    BY DEF elf_compress_gnu_inflate, Then, With
  <1>2. Steady(x, y) /\ g.rc \in {1, -1}
    BY elf_getdataKeeps
  <1> HIDE DEF r, g, size, m
  <1>3. \/ d.rc = -1 /\ Steady(y, z)
        \/ d.rc = 1 /\ \E t : Fetches(y, z, p, t)
    BY <1>2, decompressKeeps DEF Steady
  <1> HIDE DEF d
  <1>4. Leaks(x, x, {}) /\ Leaks(x, y, {})
    BY <1>2, SteadyStays, SteadyLeaks
  <1>5. Leaks(x, Reads(y, y.scn.first.buf, m), {})
    <2>1. Steady(y, Reads(y, y.scn.first.buf, m))
      BY <1>2, ReadsKeeps DEF Steady
    <2>2. QED  BY <1>2, <2>1, SteadyTwice, SteadyLeaks
  <1>6. d.rc # 1 => Leaks(x, z, {})
    BY <1>2, <1>3, SteadyTwice, SteadyLeaks
  <1>7. CASE ~x.scn.z /\ d.rc = 1 /\ r = Ok(v)
    <2>1. PICK t : Fetches(y, z, p, t)
      BY <1>3, <1>7
    <2>2. Headed(z, w) /\ ~w.scn.z
      BY <1>2, <1>7, <2>1 DEF Headed, Fetches, Steady, Owned, Shape, ScnFields
    <2>3. ZLost(y) = {}
      BY <1>2, <1>7 DEF Steady, Owned, Buffers, ZLost
    <2>4. Leaks(y, v, ZLost(y))
      BY <1>2, <2>1, <2>2, NewContents DEF Steady
    <2> HIDE DEF v
    <2>5. Leaks(x, v, {})
      BY <1>4, <2>3, <2>4 DEF Leaks
    <2>6. QED  BY <1>7, <2>5 DEF Renews, Ok, r
  <1>8. QED  BY <1>1, <1>2, <1>3, <1>4, <1>5, <1>6, <1>7 DEF Renews, Rc, r

-----------------------------------------------------------------------------
(* The other calls.                                                        *)

LEMMA LeaksTwice ==
  ASSUME NEW x, NEW y, NEW z, Leaks(x, y, {}), Leaks(y, z, {})
  PROVE  Leaks(x, z, {})
  BY DEF Leaks

LEMMA FoundKeeps ==
  ASSUME NEW x, Owned(x), NEW p, NEW off, NEW to
  PROVE  Leaks(x, Found(x, p, off, to).x, {})
  <1>1. Found(x, p, off, to).x = Reads(x, p, to)
    BY DEF Found, Rc
  <1>2. QED  BY <1>1, ReadsKeeps, SteadyLeaks

LEMMA strptr_atKeeps ==
  ASSUME NEW x, Owned(x), NEW off, NEW size
  PROVE  Leaks(x, strptr_at(x, off, size).x, {})
  <1> DEFINE r == strptr_at(x, off, size)
  <1>1. r = Rc(-1, x) \/ \E p, o, to : r = Found(x, p, o, to)
    BY DEF strptr_at, Rc
  <1>2. Leaks(x, x, {})
    BY SteadyStays, SteadyLeaks
  <1> HIDE DEF r
  <1>3. Leaks(x, r.x, {})
    BY <1>1, <1>2, FoundKeeps DEF Rc
  <1>4. QED  BY <1>3 DEF r

LEMMA strptr_inKeeps ==
  ASSUME NEW x, Owned(x), NEW off, NEW fail
  PROVE  Leaks(x, strptr_in(x, off, fail).x, {})
  <1> DEFINE s == IF x.scn.rawbase = NULL /\ ~x.scn.read THEN set_rawdata(x, fail) ELSE Ok(x)
             r == strptr_in(x, off, fail)
  <1>1. \/ r = Rc(-1, x)
        \/ s.rc # 1 /\ r = s
        \/ \E size : r = strptr_at(s.x, off, size)
    BY DEF strptr_in, Then
  <1>2. Steady(x, s.x)
    BY set_rawdataKeeps, SteadyStays DEF Ok
  <1> HIDE DEF r, s
  <1>3. Leaks(x, x, {}) /\ Leaks(x, s.x, {})
    BY <1>2, SteadyStays, SteadyLeaks
  <1>4. ASSUME NEW size
        PROVE  Leaks(x, strptr_at(s.x, off, size).x, {})
    BY <1>2, <1>3, strptr_atKeeps, LeaksTwice DEF Steady
  <1>5. Leaks(x, r.x, {})
    BY <1>1, <1>3, <1>4 DEF Rc
  <1>6. QED  BY <1>5 DEF r

LEMMA elf_strptrKeeps ==
  ASSUME NEW x, Owned(x), NEW off, NEW fail
  PROVE  Leaks(x, elf_strptr(x, off, fail).x, {})
  <1> DEFINE e == decompress_elf(x, fail)
             r == elf_strptr(x, off, fail)
  <1>1. \/ r = Rc(-1, x)
        \/ r = strptr_in(x, off, fail)
        \/ /\ x.scn.zbase = NULL
           /\ \/ e.rc # 1 /\ r = e
              \/ r = strptr_in(e.x, off, fail)
    BY DEF elf_strptr, get_zdata, Then
  <1>2. x.scn.zbase = NULL => Leaks(x, e.x, {})
    BY decompress_elfKeeps
  <1> HIDE DEF r, e
  <1>3. Leaks(x, x, {}) /\ Leaks(x, strptr_in(x, off, fail).x, {})
    BY SteadyStays, SteadyLeaks, strptr_inKeeps
  <1>4. x.scn.zbase = NULL => Leaks(x, strptr_in(e.x, off, fail).x, {})
    BY <1>2, strptr_inKeeps, LeaksTwice DEF Leaks
  <1>5. Leaks(x, r.x, {})
    BY <1>1, <1>2, <1>3, <1>4 DEF Rc
  <1>6. QED  BY <1>5 DEF r

\* The sizes and places of the blocks are settled.
Laid(y, l) ==
  /\ Shape(l) /\ l.elf = y.elf /\ l.mem = y.mem
  /\ l.scn.rawbase = y.scn.rawbase /\ l.scn.database = y.scn.database
  /\ l.scn.zbase = y.scn.zbase /\ l.scn.nodes = y.scn.nodes
  /\ l.scn.malloced = y.scn.malloced /\ l.scn.z = y.scn.z
  /\ l.scn.read = y.scn.read /\ l.scn.rear = y.scn.rear

LEMMA LaidKeeps ==
  ASSUME NEW y, Owned(y), NEW l, Laid(y, l)
  PROVE  Steady(y, l)
  <1>1. SameOwners(y, l)
    BY DEF SameOwners, Laid, Blocks
  <1>2. l.mem.fault = y.mem.fault
    BY DEF Laid
  <1>3. QED  BY <1>1, <1>2, SteadySame

LEMMA LaidIs ==
  ASSUME NEW y, Owned(y), NEW a, NEW n, NEW f, NEW o, NEW rest
  PROVE  /\ Laid(y, [y EXCEPT !.scn.align = a, !.scn.size = n])
         /\ Laid(y, [y EXCEPT !.scn.first.off = f, !.scn.raw.off = o, !.scn.rest = rest,
                              !.scn.align = a, !.scn.size = n])
  <1>1. Laid(y, [y EXCEPT !.scn.align = a, !.scn.size = n])
    BY DEF Laid, Owned, Shape, ScnFields
  <1>2. Laid(y, [y EXCEPT !.scn.first.off = f, !.scn.raw.off = o, !.scn.rest = rest,
                          !.scn.align = a, !.scn.size = n])
    <2> DEFINE l1 == [y EXCEPT !.scn.first.off = f]
               l2 == [l1 EXCEPT !.scn.raw.off = o]
               l3 == [l2 EXCEPT !.scn.rest = rest, !.scn.align = a, !.scn.size = n]
    <2>1. Laid(y, l1)
      BY DEF Laid, Owned, Shape, ScnFields
    <2> HIDE DEF l1
    <2>2. Laid(l1, l2)
      BY <2>1 DEF Laid, Shape, ScnFields
    <2> HIDE DEF l2
    <2>3. Laid(l2, l3)
      BY <2>2 DEF Laid, Shape, ScnFields
    <2> HIDE DEF l3
    <2>4. Laid(y, l3)
      BY <2>1, <2>2, <2>3 DEF Laid
    <2>5. QED  BY <2>4 DEF l1, l2, l3
  <1>3. QED  BY <1>1, <1>2

LEMMA updatenullKeeps ==
  ASSUME NEW x, Owned(x), NEW moved, NEW fail
  PROVE  Leaks(x, updatenull_scn(x, moved, fail).x, {})
  <1> DEFINE Lay(y) ==
               IF y.scn.rear = 0
               THEN [y EXCEPT !.scn.align = AlignOf(@), !.scn.size = y.scn.raw.size]
               ELSE LET instead == y.scn.first.buf = NULL /\ y.scn.raw.buf # NULL
                        ps == <<FirstBlock(y)>> \o y.scn.rest
                        end == Ends(ps) IN
                    [y EXCEPT !.scn.first.off = IF instead THEN @ ELSE 0,
                              !.scn.raw.off = IF instead THEN 0 ELSE @,
                              !.scn.rest = [i \in DOMAIN @ |->
                                 [@[i] EXCEPT !.off = Up(end[i], y.scn.rest[i].align)]],
                              !.scn.align = Larger(AlignOf(@), Aligned(ps)),
                              !.scn.size = end[Len(ps)]]
             s == IF ~PowerOf2(AlignOf(x.scn.align)) THEN Rc(-1, x)
                  ELSE IF x.scn.read THEN Ok(x) ELSE set_rawdata(x, fail)
             y == s.x
             l == Lay(y)
             g == IF moved THEN elf_getdata(l, fail) ELSE Ok(l)
             r == updatenull_scn(x, moved, fail)
  <1>1. r.x \in {s.x, y, g.x, getchdr(g.x, fail).x}
    BY DEF updatenull_scn, Then, Rc, Ok
  <1>2. Steady(x, y)
    BY set_rawdataKeeps, SteadyStays DEF Ok, Rc
  <1> HIDE DEF r, s
  <1>3. Steady(y, l)
    <2>1. Owned(y)
      BY <1>2 DEF Steady
    <2>2. \A a, n, f, o, rest :
            /\ Laid(y, [y EXCEPT !.scn.align = a, !.scn.size = n])
            /\ Laid(y, [y EXCEPT !.scn.first.off = f, !.scn.raw.off = o, !.scn.rest = rest,
                                 !.scn.align = a, !.scn.size = n])
      BY <2>1, LaidIs
    <2>3. Laid(y, l)
      BY <2>2
    <2> HIDE DEF l
    <2>4. QED  BY <2>1, <2>3, LaidKeeps
  <1> HIDE DEF l
  <1>4. Steady(l, g.x)
    BY <1>3, elf_getdataKeeps, SteadyStays DEF Ok, Steady
  <1> HIDE DEF g
  <1>5. Steady(g.x, getchdr(g.x, fail).x)
    BY <1>4, getchdrKeeps DEF Steady
  <1>6. Steady(x, g.x) /\ Steady(x, getchdr(g.x, fail).x)
    BY <1>2, <1>3, <1>4, <1>5, SteadyTwice
  <1>7. Leaks(x, r.x, {})
    BY <1>1, <1>2, <1>6, SteadyLeaks
  <1>8. QED  BY <1>7 DEF r

\* A chunk is linked to the list of them, which was empty.
Chunks(w, z, p, t) ==
  /\ Shape(z) /\ z.scn = w.scn /\ z.mem = w.mem
  /\ z.elf.open = w.elf.open /\ z.elf.mapped = w.elf.mapped
  /\ \E d : z.elf.chunks = <<[buf |-> p, node |-> Heap(t), due |-> d]>>

LEMMA ChunkLinked ==
  ASSUME NEW x, Owned(x), x.elf.chunks = << >>, NEW y, NEW p,
         (y = x /\ p = InMap) \/ \E t : Fetches(x, y, p, t),
         NEW w, NEW t1, Fetches(y, w, Heap(t1), t1), NEW z, Chunks(w, z, p, t1)
  PROVE  Leaks(x, z, {})
  <1>1. /\ Owned(w) /\ w.scn = x.scn /\ w.elf = x.elf /\ t1 \in Blocks(w)
        /\ t1 \notin Blocks(y) /\ Unclaimed(w) = Unclaimed(y) \cup {t1}
        /\ (w.mem.fault = "free" => x.mem.fault = "free")
    BY DEF Fetches
  <1>2. \/ p = InMap /\ y = x
        \/ \E t0 : /\ p = Heap(t0) /\ Unclaimed(y) = Unclaimed(x) \cup {t0}
                   /\ t0 \in Blocks(y) /\ t0 \notin Blocks(x)
    BY DEF Fetches
  <1>3. \A b : p = Heap(b) => b # t1 /\ b \in Unclaimed(w)
    BY <1>1, <1>2, Pointers1 DEF Unclaimed
  <1>4. \A b : b \in Unclaimed(w) <=> b \in Unclaimed(x) \/ b = t1 \/ p = Heap(b)
    BY <1>1, <1>2, Pointers1
  <1>5. \A b : b \in Unclaimed(x) => b # t1 /\ p # Heap(b)
    BY <1>1, <1>2, Pointers1 DEF Unclaimed, Fetches
  <1>6. /\ DOMAIN z.elf.chunks = {1} /\ z.elf.chunks[1].buf = p
        /\ z.elf.chunks[1].node = Heap(t1) /\ \E C : z.elf.chunks \in Seq(C)
    <2>1. PICK d : z.elf.chunks = <<[buf |-> p, node |-> Heap(t1), due |-> d]>>
      BY DEF Chunks
    <2>2. z.elf.chunks \in Seq({[buf |-> p, node |-> Heap(t1), due |-> d]})
      BY <2>1
    <2>3. DOMAIN z.elf.chunks = {1} /\ z.elf.chunks[1] = [buf |-> p, node |-> Heap(t1), due |-> d]
      BY <2>1
    <2>4. QED  BY <2>2, <2>3
  <1>7. DOMAIN w.elf.chunks = {}
    BY <1>1
  <1>8. \A k, i, b : Claims(z, k, i, b) <=>
          \/ Claims(w, k, i, b)
          \/ k = "buffer" /\ i = 1 /\ p = Heap(b)
          \/ k = "chunk" /\ i = 1 /\ b = t1
    BY <1>6, <1>7, Pointers1 DEF Claims, Ours, Chunks
  <1>9. \A i, b : ~Claims(w, "buffer", i, b) /\ ~Claims(w, "chunk", i, b)
    BY <1>7 DEF Claims
  <1>10. Blocks(z) = Blocks(w)
    BY DEF Chunks, Blocks
  <1>11. Allocated(z)
    BY <1>1, <1>3, <1>8, <1>10 DEF Owned, Allocated, Unclaimed
  <1>12. Exclusive(z)
    <2>1. t1 \in Unclaimed(w)
      BY <1>1
    <2>2. \A b, c : p = Heap(b) /\ p = Heap(c) => b = c
      BY Pointers1
    <2>3. QED  BY <1>1, <1>3, <1>8, <1>9, <2>1, <2>2 DEF Owned, Exclusive, Unclaimed
  <1>13. Unclaimed(z) = Unclaimed(x)
    <2>1. \A b : b \in Unclaimed(z) <=> b \in Unclaimed(w) /\ b # t1 /\ p # Heap(b)
      BY <1>8, <1>10 DEF Unclaimed
    <2>2. QED  BY <1>4, <1>5, <2>1
  <1>14. Fresh(z) /\ Unread(z) /\ (Linked(x) => Linked(z))
    BY <1>1, <1>10 DEF Owned, Fresh, Unread, Linked, Chunks
  <1>15. Lists(z)
    BY <1>1, <1>2, <1>6 DEF Owned, Lists, InHeap, Chunks
  <1>16. Buffers(z)
    BY <1>1, <1>10 DEF Owned, Buffers, Chunks
  <1>17. /\ Shape(z) /\ z.elf.open = x.elf.open
         /\ (z.mem.fault = "free" => x.mem.fault = "free")
    BY <1>1 DEF Chunks
  <1>18. QED  BY <1>11, <1>12, <1>13, <1>14, <1>15, <1>16, <1>17 DEF Owned, Leaks

LEMMA rawchunkKeeps ==
  ASSUME NEW x, Owned(x), Len(x.elf.chunks) < 1, NEW type, NEW fail
  PROVE  Leaks(x, elf_getdata_rawchunk(x, type, fail).x, {})
  <1> DEFINE cells == IF x.elf.native THEN x.elf.cells ELSE Convert(x.elf.cells, type)
             Chunk(y, p) == [Alloc(y, << >>) EXCEPT
                               !.elf.chunks = <<[buf |-> p, node |-> Heap(y.mem.top),
                                                 due |-> cells]>> \o @]
             a == Alloc(x, cells)
             r == elf_getdata_rawchunk(x, type, fail)
  <1>1. r.x \in {x, Chunk(a, Heap(x.mem.top)), Chunk(x, InMap)}
    BY DEF elf_getdata_rawchunk, Rc, Ok
  <1>2. x.elf.chunks = << >>
    BY DEF Owned, Lists
  <1>3. Fetches(x, a, Heap(x.mem.top), x.mem.top)
    BY AllocFetches
  <1> HIDE DEF r, cells, a
  <1>4. ASSUME NEW y, NEW p, Owned(y), y.elf = x.elf,
               (y = x /\ p = InMap) \/ \E t : Fetches(x, y, p, t)
        PROVE  Leaks(x, Chunk(y, p), {})
    <2> DEFINE w == Alloc(y, << >>)
               t1 == y.mem.top
               z == [w EXCEPT !.elf.chunks = <<[buf |-> p, node |-> Heap(t1), due |-> cells]>> \o @]
    <2>1. Fetches(y, w, Heap(t1), t1)
      BY <1>4, AllocFetches
    <2>2. Shape(w) /\ w.elf.chunks = << >>
      BY <1>2, <1>4, <2>1 DEF Fetches, Owned
    <2> HIDE DEF w, t1
    <2>3. <<[buf |-> p, node |-> Heap(t1), due |-> cells]>> \o << >>
            = <<[buf |-> p, node |-> Heap(t1), due |-> cells]>>
      OBVIOUS
    <2>4. Chunks(w, z, p, t1)
      BY <2>2, <2>3 DEF Chunks, Shape
    <2> HIDE DEF z
    <2>5. Leaks(x, z, {})
      BY <1>2, <1>4, <2>1, <2>4, ChunkLinked
    <2>6. QED  BY <2>5 DEF z, w, t1
  <1>5. Leaks(x, Chunk(x, InMap), {})
    BY <1>4
  <1>6. Leaks(x, Chunk(a, Heap(x.mem.top)), {})
    BY <1>3, <1>4 DEF Fetches
  <1> HIDE DEF Chunk
  <1>7. Leaks(x, r.x, {})
    BY <1>1, <1>5, <1>6, SteadyStays, SteadyLeaks
  <1>8. QED  BY <1>7 DEF r

\* Contents read before the whole file was, which nobody gives up any more.
RawLost(x) ==
  IF x.scn.rawbase.at = "heap" /\ ~x.scn.malloced THEN {x.scn.rawbase.b} ELSE {}

LEMMA readallKeeps ==
  ASSUME NEW x, Owned(x), ~x.elf.mapped
  PROVE  Leaks(x, readall(x), RawLost(x))
  <1> DEFINE y == readall(x)
  <1>1. /\ Shape(y) /\ y.scn = x.scn /\ y.mem = x.mem
        /\ y.elf.open = x.elf.open /\ y.elf.chunks = x.elf.chunks /\ y.elf.mapped = TRUE
    BY DEF Owned, Shape, readall
  <1> HIDE DEF y
  <1>2. Blocks(y) = Blocks(x)
    BY <1>1 DEF Blocks
  <1>3. x.scn.rawbase = NULL \/ InHeap(x.scn.rawbase)
    BY DEF Owned, Buffers
  <1>4. \A b : x.scn.rawbase = Heap(b) => (Ours(y) <=> x.scn.malloced)
    BY <1>1, Pointers1 DEF Owned, Buffers, Ours
  <1>5. \A b : b \in RawLost(x) <=> x.scn.rawbase = Heap(b) /\ ~x.scn.malloced
    BY <1>3, Pointers1 DEF RawLost, InHeap, NULL
  <1>6. \A k, i, b : Claims(y, k, i, b) <=>
          Claims(x, k, i, b) /\ ~(k = "raw" /\ ~x.scn.malloced)
    BY <1>1, <1>4 DEF Claims, Ours
  <1>7. \A b : b \in RawLost(x) <=> Claims(x, "raw", 0, b) /\ ~x.scn.malloced
    BY <1>5 DEF Claims, Ours
  <1>8. Allocated(y) /\ Exclusive(y)
    BY <1>2, <1>6 DEF Owned, Allocated, Exclusive
  <1>9. Unclaimed(y) = Unclaimed(x) \cup RawLost(x)
    <2>1. ASSUME NEW b \in Unclaimed(y)
          PROVE  b \in Unclaimed(x) \/ b \in RawLost(x)
      <3>1. \A k, i : Claims(x, k, i, b) => k = "raw" /\ i = 0 /\ ~x.scn.malloced
        BY <1>6 DEF Unclaimed, Claims
      <3>2. QED  BY <1>2, <1>7, <3>1 DEF Unclaimed
    <2>2. ASSUME NEW b \in RawLost(x)
          PROVE  b \in Unclaimed(y)
      <3>1. Claims(x, "raw", 0, b) /\ ~x.scn.malloced
        BY <1>7
      <3>2. QED  BY <1>2, <1>6, <3>1 DEF Unclaimed, Owned, Allocated, Exclusive
    <2>3. Unclaimed(x) \subseteq Unclaimed(y)
      BY <1>2, <1>6 DEF Unclaimed
    <2>4. QED  BY <2>1, <2>2, <2>3
  <1>10. Fresh(y) /\ Unread(y) /\ Lists(y) /\ (Linked(x) => Linked(y))
    BY <1>1, <1>2 DEF Owned, Fresh, Unread, Lists, Linked
  <1>11. Buffers(y)
    BY <1>1, <1>2 DEF Owned, Buffers
  <1>12. QED  BY <1>1, <1>8, <1>9, <1>10, <1>11 DEF Owned, Leaks, y

-----------------------------------------------------------------------------
(* elf_end().                                                              *)

\* Of what x claimed, that of the kinds K is given up.
Freed(x, y, K) ==
  /\ Shape(y) /\ y.mem.fault = x.mem.fault
  /\ Blocks(y) = {b \in Blocks(x) : \A k \in K : \A i : ~Claims(x, k, i, b)}

LEMMA FreeOne ==
  ASSUME NEW x, Owned(x), NEW y, NEW K, Freed(x, y, K), NEW k, k \notin K,
         NEW p, p = NULL \/ InHeap(p),
         \A i, b : Claims(x, k, i, b) <=> i = 0 /\ p = Heap(b)
  PROVE  Freed(x, Free(y, p), K \cup {k})
  <1> DEFINE z == Free(y, p)
  <1>1. CASE InHeap(p)
    <2>1. PICK b : p = Heap(b)
      BY <1>1 DEF InHeap
    <2>2. Claims(x, k, 0, b)
      BY <2>1
    <2>3. b \in Blocks(y)
      BY <2>2 DEF Owned, Allocated, Exclusive, Freed
    <2>4. z = Free(y, Heap(b))
      BY <2>1
    <2>5. \A i, c : Claims(x, k, i, c) <=> i = 0 /\ c = b
      BY <2>1, Pointers1
    <2> HIDE DEF z
    <2>6. Shape(z) /\ z.mem.fault = y.mem.fault /\ Blocks(z) = Blocks(y) \ {b}
      BY <2>3, <2>4, FreeIs DEF Freed
    <2>7. Freed(x, z, K \cup {k})
      BY <2>5, <2>6 DEF Freed
    <2>8. QED  BY <2>7 DEF z
  <1>2. CASE p = NULL
    <2>1. z = y
      BY <1>2, FreeNull
    <2>2. \A i, b : ~Claims(x, k, i, b)
      BY <1>2, Pointers1
    <2> HIDE DEF z
    <2>3. Freed(x, z, K \cup {k})
      BY <2>1, <2>2 DEF Freed
    <2>4. QED  BY <2>3 DEF z
  <1>3. QED  BY <1>1, <1>2

LEMMA FreeNone ==
  ASSUME NEW x, NEW y, NEW K, Freed(x, y, K), NEW k, \A i, b : ~Claims(x, k, i, b)
  PROVE  Freed(x, y, K \cup {k})
  BY DEF Freed

LEMMA FreeMany ==
  ASSUME NEW x, Owned(x), NEW y, NEW K, Freed(x, y, K), NEW k, k \notin K,
         NEW ps, \A i \in DOMAIN ps : ps[i] = NULL \/ InHeap(ps[i]),
         \A i, b : Claims(x, k, i, b) <=> i \in DOMAIN ps /\ ps[i] = Heap(b)
  PROVE  Freed(x, FreeAll(y, ps), K \cup {k})
  <1> DEFINE given == {i \in DOMAIN ps : ps[i] # NULL}
             gone == {ps[i].b : i \in given}
             z == FreeAll(y, ps)
  <1>1. \A i \in given : Owns(y, ps[i]) /\ Claims(x, k, i, ps[i].b)
    <2>1. ASSUME NEW i \in given
          PROVE  Owns(y, ps[i]) /\ Claims(x, k, i, ps[i].b)
      <3>1. PICK b : ps[i] = Heap(b)
        BY DEF InHeap
      <3>2. Claims(x, k, i, b)
        BY <3>1
      <3>3. b \in Blocks(y)
        BY <3>2 DEF Owned, Allocated, Exclusive, Freed
      <3>4. QED  BY <3>1, <3>2, <3>3, Pointers1
    <2>2. QED  BY <2>1
  <1>2. \A i, j \in given : i # j => ps[i] # ps[j]
    BY <1>1 DEF Owned, Exclusive
  <1>3. z = [y EXCEPT !.mem.heap = [b \in DOMAIN @ \ gone |-> @[b]]]
    BY <1>1, <1>2 DEF FreeAll
  <1>4. \A b : b \in gone <=> \E i : Claims(x, k, i, b)
    <2>1. ASSUME NEW b \in gone
          PROVE  \E i : Claims(x, k, i, b)
      BY <1>1
    <2>2. ASSUME NEW b, NEW i, Claims(x, k, i, b)
          PROVE  b \in gone
      <3>1. i \in given /\ ps[i].b = b
        BY <2>2, Pointers1
      <3>2. QED  BY <3>1
    <2>3. QED  BY <2>1, <2>2
  <1> HIDE DEF gone, given, z
  <1>5. Shape(z) /\ z.mem.fault = y.mem.fault /\ Blocks(z) = Blocks(y) \ gone
    BY <1>3 DEF Freed, Shape, Blocks
  <1>6. Freed(x, z, K \cup {k})
    BY <1>4, <1>5 DEF Freed
  <1>7. QED  BY <1>6 DEF z

LEMMA elf_endFrees ==
  ASSUME NEW x, Owned(x)
  PROVE  LET y == elf_end(x) IN
         Blocks(y) = Unclaimed(x) /\ y.mem.fault = x.mem.fault
  <1> DEFINE s == x.scn
             bufs == FreeAll(x, ChunkBuffers(x))
             chunks == FreeAll(bufs, ChunkNodes(x))
             z == IF s.zbase # s.rawbase THEN Free(chunks, s.zbase) ELSE chunks
             data == IF s.database # s.rawbase THEN Free(z, s.database) ELSE z
             raw == IF Ours(x) THEN Free(data, s.rawbase) ELSE data
             y == FreeAll(raw, s.nodes)
  <1>1. elf_end(x) = y
    BY DEF elf_end
  <1>2. Freed(x, x, {})
    BY DEF Freed, Owned, Blocks
  <1>3. Freed(x, bufs, {"buffer"})
    <2> DEFINE ps == ChunkBuffers(x)
    <2>1. \A i, b : Claims(x, "buffer", i, b) <=> i \in DOMAIN ps /\ ps[i] = Heap(b)
      BY Pointers1 DEF Claims, ChunkBuffers
    <2>2. \A i \in DOMAIN ps : ps[i] = NULL \/ InHeap(ps[i])
      BY DEF Owned, Lists, ChunkBuffers
    <2>3. Freed(x, bufs, {} \cup {"buffer"})
      BY <1>2, <2>1, <2>2, FreeMany
    <2> HIDE DEF bufs
    <2>4. {} \cup {"buffer"} = {"buffer"}
      OBVIOUS
    <2>5. QED  BY <2>3, <2>4
  <1> HIDE DEF bufs
  <1>4. Freed(x, chunks, {"buffer", "chunk"})
    <2> DEFINE ps == ChunkNodes(x)
    <2>1. \A i, b : Claims(x, "chunk", i, b) <=> i \in DOMAIN ps /\ ps[i] = Heap(b)
      BY DEF Claims, ChunkNodes
    <2>2. \A i \in DOMAIN ps : ps[i] = NULL \/ InHeap(ps[i])
      BY DEF Owned, Lists, ChunkNodes
    <2>3. Freed(x, chunks, {"buffer"} \cup {"chunk"})
      BY <1>3, <2>1, <2>2, FreeMany
    <2> HIDE DEF chunks
    <2>4. {"buffer"} \cup {"chunk"} = {"buffer", "chunk"}
      OBVIOUS
    <2>5. QED  BY <2>3, <2>4
  <1> HIDE DEF chunks
  <1>5. Freed(x, z, {"buffer", "chunk", "z"})
    <2>1. CASE s.zbase # s.rawbase
      <3>1. \A i, b : Claims(x, "z", i, b) <=> i = 0 /\ s.zbase = Heap(b)
        BY <2>1 DEF Claims
      <3>2. s.zbase = NULL \/ InHeap(s.zbase)
        BY <2>1 DEF Owned, Buffers
      <3>3. Freed(x, Free(chunks, s.zbase), {"buffer", "chunk"} \cup {"z"})
        BY <1>4, <3>1, <3>2, FreeOne
      <3>4. {"buffer", "chunk"} \cup {"z"} = {"buffer", "chunk", "z"}
        OBVIOUS
      <3>5. QED  BY <2>1, <3>3, <3>4
    <2>2. CASE ~(s.zbase # s.rawbase)
      <3>1. \A i, b : ~Claims(x, "z", i, b)
        BY <2>2 DEF Claims
      <3>2. Freed(x, chunks, {"buffer", "chunk"} \cup {"z"})
        BY <1>4, <3>1, FreeNone
      <3>3. {"buffer", "chunk"} \cup {"z"} = {"buffer", "chunk", "z"}
        OBVIOUS
      <3>4. QED  BY <2>2, <3>2, <3>3
    <2>3. QED  BY <2>1, <2>2
  <1> HIDE DEF z
  <1>6. Freed(x, data, {"buffer", "chunk", "z", "data"})
    <2>1. CASE s.database # s.rawbase
      <3>1. \A i, b : Claims(x, "data", i, b) <=> i = 0 /\ s.database = Heap(b)
        BY <2>1 DEF Claims
      <3>2. s.database = NULL \/ InHeap(s.database)
        BY <2>1 DEF Owned, Buffers
      <3>3. Freed(x, Free(z, s.database), {"buffer", "chunk", "z"} \cup {"data"})
        BY <1>5, <3>1, <3>2, FreeOne
      <3>4. {"buffer", "chunk", "z"} \cup {"data"} = {"buffer", "chunk", "z", "data"}
        OBVIOUS
      <3>5. QED  BY <2>1, <3>3, <3>4
    <2>2. CASE ~(s.database # s.rawbase)
      <3>1. \A i, b : ~Claims(x, "data", i, b)
        BY <2>2 DEF Claims
      <3>2. Freed(x, z, {"buffer", "chunk", "z"} \cup {"data"})
        BY <1>5, <3>1, FreeNone
      <3>3. {"buffer", "chunk", "z"} \cup {"data"} = {"buffer", "chunk", "z", "data"}
        OBVIOUS
      <3>4. QED  BY <2>2, <3>2, <3>3
    <2>3. QED  BY <2>1, <2>2
  <1> HIDE DEF data
  <1>7. Freed(x, raw, {"buffer", "chunk", "z", "data", "raw"})
    <2>1. CASE Ours(x)
      <3>1. \A i, b : Claims(x, "raw", i, b) <=> i = 0 /\ s.rawbase = Heap(b)
        BY <2>1 DEF Claims
      <3>2. s.rawbase = NULL \/ InHeap(s.rawbase)
        BY <2>1, Pointers1 DEF Owned, Buffers, Ours, InHeap
      <3>3. Freed(x, Free(data, s.rawbase), {"buffer", "chunk", "z", "data"} \cup {"raw"})
        BY <1>6, <3>1, <3>2, FreeOne
      <3>4. {"buffer", "chunk", "z", "data"} \cup {"raw"} = {"buffer", "chunk", "z", "data", "raw"}
        OBVIOUS
      <3>5. QED  BY <2>1, <3>3, <3>4
    <2>2. CASE ~(Ours(x))
      <3>1. \A i, b : ~Claims(x, "raw", i, b)
        BY <2>2 DEF Claims
      <3>2. Freed(x, data, {"buffer", "chunk", "z", "data"} \cup {"raw"})
        BY <1>6, <3>1, FreeNone
      <3>3. {"buffer", "chunk", "z", "data"} \cup {"raw"} = {"buffer", "chunk", "z", "data", "raw"}
        OBVIOUS
      <3>4. QED  BY <2>2, <3>2, <3>3
    <2>3. QED  BY <2>1, <2>2
  <1> HIDE DEF raw
  <1>8. Freed(x, y, {"buffer", "chunk", "z", "data", "raw", "node"})
    <2> DEFINE ps == s.nodes
    <2>1. \A i, b : Claims(x, "node", i, b) <=> i \in DOMAIN ps /\ ps[i] = Heap(b)
      BY DEF Claims
    <2>2. \A i \in DOMAIN ps : ps[i] = NULL \/ InHeap(ps[i])
      BY DEF Owned, Lists, Node, InHeap
    <2>3. Freed(x, y, {"buffer", "chunk", "z", "data", "raw"} \cup {"node"})
      BY <1>7, <2>1, <2>2, FreeMany
    <2> HIDE DEF y
    <2>4. {"buffer", "chunk", "z", "data", "raw"} \cup {"node"} = {"buffer", "chunk", "z", "data", "raw", "node"}
      OBVIOUS
    <2>5. QED  BY <2>3, <2>4
  <1> HIDE DEF y
  <1>9. \A k, i, b : Claims(x, k, i, b) => k \in {"buffer", "chunk", "z", "data", "raw", "node"}
    BY DEF Claims
  <1>10. Blocks(y) = Unclaimed(x) /\ y.mem.fault = x.mem.fault
    BY <1>8, <1>9 DEF Freed, Unclaimed
  <1>11. QED  BY <1>1, <1>10

-----------------------------------------------------------------------------
(* The actions.                                                            *)

LEMMA Rebuilt ==
  ASSUME NEW x, Owned(x)
  PROVE  LET y == [elf |-> x.elf, scn |-> x.scn, mem |-> x.mem] IN
         Owned(y) /\ Unclaimed(y) = Unclaimed(x) /\ (Linked(x) <=> Linked(y))
  <1> DEFINE y == [elf |-> x.elf, scn |-> x.scn, mem |-> x.mem]
  <1>1. DOMAIN y = {"elf", "scn", "mem"} /\ y.elf = x.elf /\ y.scn = x.scn /\ y.mem = x.mem
    OBVIOUS
  <1> HIDE DEF y
  <1>2. SameOwners(x, y)
    BY <1>1 DEF SameOwners, Owned, Shape, Blocks
  <1>3. Owned(y) /\ Unclaimed(y) = Unclaimed(x)
    BY <1>2, SameOwned
  <1>4. Linked(x) <=> Linked(y)
    BY <1>1 DEF Linked
  <1>5. QED  BY <1>3, <1>4 DEF y

\* The state is what a call with result r leaves.
Becomes(r) == elf' = r.x.elf /\ scn' = r.x.scn /\ mem' = r.x.mem

LEMMA StepKeeps ==
  ASSUME IInv, elf.open, NEW CONSTANT x, NEW CONSTANT lost,
         Leaks(X, x, lost), elf' = x.elf, scn' = x.scn, mem' = x.mem,
         DOMAIN ghost' = DOMAIN ghost, ghost'.lost = ghost.lost \cup lost
  PROVE  IInv'
  <1>1. /\ Owned(X) /\ Linked(X) /\ Unclaimed(X) = ghost.lost
        /\ X.elf.open /\ X.mem.fault # "free"
    BY DEF IInv, X
  <1>2. /\ Owned(x) /\ Linked(x) /\ Unclaimed(x) = ghost'.lost
        /\ x.elf.open /\ x.mem.fault # "free"
    BY <1>1 DEF Leaks
  <1>3. X' = [elf |-> x.elf, scn |-> x.scn, mem |-> x.mem]
    BY DEF X
  <1>4. Owned(X') /\ Unclaimed(X') = Unclaimed(x) /\ Linked(X')
    BY <1>2, <1>3, Rebuilt
  <1>5. QED  BY <1>2, <1>4 DEF IInv

\* An action that calls with result r, and leaves in ghost what lost says.
LEMMA CallKeeps ==
  ASSUME IInv, NEW CONSTANT op, NEW CONSTANT fail, NEW CONSTANT r, NEW CONSTANT lost,
         Call(op, fail, r), Leaks(X, r.x, lost),
         DOMAIN ghost' = DOMAIN ghost, ghost'.lost = ghost.lost \cup lost
  PROVE  IInv'
  <1>1. elf.open /\ elf' = r.x.elf /\ scn' = r.x.scn /\ mem' = r.x.mem
    BY DEF Call
  <1>2. QED  BY <1>1, StepKeeps

LEMMA LooksKeeps ==
  ASSUME IInv, NEW CONSTANT op, NEW CONSTANT fail, NEW CONSTANT r,
         Looks(op, fail, r), Leaks(X, r.x, {})
  PROVE  IInv'
  <1>1. Call(op, fail, r) /\ ghost' = ghost
    BY DEF Looks
  <1>2. QED  BY <1>1, CallKeeps

LEMMA OpenOwned ==
  ASSUME IInv, elf.open
  PROVE  Owned(X) /\ Linked(X) /\ Unclaimed(X) = ghost.lost
  BY DEF IInv

LEMMA GetDataKeeps ==
  ASSUME IInv, NEW CONSTANT f, GetData(f)
  PROVE  IInv'
  <1>1. elf.open
    BY DEF GetData, Looks, Call
  <1>2. Leaks(X, elf_getdata(X, f).x, {})
    BY <1>1, OpenOwned, elf_getdataKeeps, SteadyLeaks
  <1>3. QED  BY <1>2, LooksKeeps DEF GetData

LEMMA RawDataKeeps ==
  ASSUME IInv, NEW CONSTANT f, RawData(f)
  PROVE  IInv'
  <1>1. elf.open
    BY DEF RawData, Looks, Call
  <1>2. Leaks(X, elf_rawdata(X, f).x, {})
    BY <1>1, OpenOwned, elf_rawdataKeeps, SteadyLeaks
  <1>3. QED  BY <1>2, LooksKeeps DEF RawData

LEMMA GetChdrKeeps ==
  ASSUME IInv, NEW CONSTANT f, GetChdr(f)
  PROVE  IInv'
  <1>1. elf.open
    BY DEF GetChdr, Looks, Call
  <1>2. Leaks(X, getchdr(X, f).x, {})
    BY <1>1, OpenOwned, getchdrKeeps, SteadyLeaks
  <1>3. QED  BY <1>2, LooksKeeps DEF GetChdr

LEMMA UpdateNullKeeps ==
  ASSUME IInv, NEW CONSTANT moved, NEW CONSTANT f, UpdateNull(moved, f)
  PROVE  IInv'
  <1>1. elf.open
    BY DEF UpdateNull, Looks, Call
  <1>2. Leaks(X, updatenull_scn(X, moved, f).x, {})
    BY <1>1, OpenOwned, updatenullKeeps
  <1>3. QED  BY <1>2, LooksKeeps DEF UpdateNull

LEMMA RawChunkKeeps ==
  ASSUME IInv, NEW CONSTANT type, NEW CONSTANT f, RawChunk(type, f)
  PROVE  IInv'
  <1>1. elf.open /\ Len(X.elf.chunks) < 1
    BY DEF RawChunk, Looks, Call, X
  <1>2. Leaks(X, elf_getdata_rawchunk(X, type, f).x, {})
    BY <1>1, OpenOwned, rawchunkKeeps
  <1>3. QED  BY <1>2, LooksKeeps DEF RawChunk

LEMMA StrPtrKeeps ==
  ASSUME IInv, NEW CONSTANT off, NEW CONSTANT f, StrPtr(off, f)
  PROVE  IInv'
  <1>1. Call("strptr", f, elf_strptr(X, off, f)) /\ ghost' = ghost /\ elf.open
    BY DEF StrPtr, Call
  <1>2. Leaks(X, elf_strptr(X, off, f).x, {})
    BY <1>1, OpenOwned, elf_strptrKeeps
  <1>3. QED  BY <1>1, <1>2, CallKeeps

LEMMA ReadAllKeeps ==
  ASSUME IInv, ReadAll
  PROVE  IInv'
  <1>1. /\ elf.open /\ ~X.elf.mapped /\ Call("readall", "", Ok(readall(X)))
        /\ DOMAIN ghost' = DOMAIN ghost /\ ghost'.lost = ghost.lost \cup RawLost(X)
    BY DEF ReadAll, Call, X, RawLost, IInv
  <1>2. Leaks(X, Ok(readall(X)).x, RawLost(X))
    BY <1>1, OpenOwned, readallKeeps DEF Ok
  <1>3. QED  BY <1>1, <1>2, CallKeeps

\* A call that replaces the contents.
LEMMA ReplacesKeeps ==
  ASSUME IInv, NEW CONSTANT op, NEW CONSTANT f, NEW CONSTANT r, Replaces(op, f, r),
         NEW CONSTANT lost, Renews(X, r, lost),
         lost = IF op = "deflate" \/ op = "gnu_deflate" THEN ZLost(X) ELSE {}
  PROVE  IInv'
  <1>1. CASE r.rc = 1
    <2>1. /\ Call(op, f, r) /\ DOMAIN ghost' = DOMAIN ghost
          /\ ghost'.lost = ghost.lost \cup lost
      BY <1>1 DEF Replaces, ZLost, X, IInv
    <2>2. Leaks(X, r.x, lost)
      BY <1>1 DEF Renews
    <2>3. QED  BY <2>1, <2>2, CallKeeps
  <1>2. CASE r.rc # 1
    <2>1. Call(op, f, r) /\ ghost' = ghost
      BY <1>2 DEF Replaces
    <2>2. Leaks(X, r.x, {})
      BY <1>2 DEF Renews
    <2>3. QED  BY <2>1, <2>2, CallKeeps
  <1>3. QED  BY <1>1, <1>2

LEMMA CompressKeeps ==
  ASSUME IInv, NEW CONSTANT type, NEW CONSTANT force, NEW CONSTANT f,
         elf_compress(type, force, f)
  PROVE  IInv'
  <1>1. CASE type = "ZLIB"
    <2> DEFINE r == elf_compress_deflate(X, force, f)
    <2>1. Replaces("deflate", f, r) /\ elf.open
      BY <1>1 DEF elf_compress, Replaces, Call
    <2>2. Renews(X, r, ZLost(X))
      BY <2>1, OpenOwned, deflateKeeps
    <2> HIDE DEF r
    <2>3. QED  BY <2>1, <2>2, ReplacesKeeps
  <1>2. CASE type # "ZLIB"
    <2> DEFINE r == elf_compress_inflate(X, f)
    <2>1. Replaces("inflate", f, r) /\ elf.open
      BY <1>2 DEF elf_compress, Replaces, Call
    <2>2. Renews(X, r, {})
      BY <2>1, OpenOwned, inflateKeeps
    <2> HIDE DEF r
    <2>3. QED  BY <2>1, <2>2, ReplacesKeeps
  <1>3. QED  BY <1>1, <1>2

LEMMA CompressGnuKeeps ==
  ASSUME IInv, NEW CONSTANT inflate, NEW CONSTANT force, NEW CONSTANT f,
         elf_compress_gnu(inflate, force, f)
  PROVE  IInv'
  <1>1. CASE inflate = 1
    <2> DEFINE r == elf_compress_gnu_deflate(X, force, f)
    <2>1. Replaces("gnu_deflate", f, r) /\ elf.open
      BY <1>1 DEF elf_compress_gnu, Replaces, Call
    <2>2. Renews(X, r, ZLost(X))
      BY <2>1, OpenOwned, gnu_deflateKeeps
    <2> HIDE DEF r
    <2>3. QED  BY <2>1, <2>2, ReplacesKeeps
  <1>2. CASE inflate # 1
    <2> DEFINE r == elf_compress_gnu_inflate(X, f)
    <2>1. Replaces("gnu_inflate", f, r) /\ elf.open
      BY <1>2 DEF elf_compress_gnu, Replaces, Call
    <2>2. Renews(X, r, {})
      BY <2>1, OpenOwned, gnu_inflateKeeps
    <2> HIDE DEF r
    <2>3. QED  BY <2>1, <2>2, ReplacesKeeps
  <1>3. QED  BY <1>1, <1>2

LEMMA CutIs ==
  ASSUME NEW x, Owned(x)
  PROVE  LET cut == SubSeq(x.scn.nodes, Larger(x.scn.rear, 1), Len(x.scn.nodes)) IN
         {p.b : p \in Range(cut)} = CutBlocks(x)
  <1> DEFINE s == x.scn.nodes
             m == Larger(x.scn.rear, 1)
             n == Len(s)
             cut == SubSeq(s, m, n)
  <1>1. s \in Seq(Node) /\ m \in 1..n + 1 /\ n \in Nat
    BY DEF Owned, Lists, Larger
  <1>2. CutBlocks(x) = {b \in Nat : \E i \in m..n : s[i] = Heap(b)}
    BY DEF CutBlocks
  <1> HIDE DEF s, m
  <1>3. /\ DOMAIN cut = 1..n - m + 1
        /\ \A j \in 1..n - m + 1 : cut[j] = s[j + m - 1]
    BY <1>1
  <1>4. \A i \in 1..n : \E b \in Nat : s[i] = Heap(b)
    BY <1>1 DEF Node
  <1> HIDE DEF cut, n
  <1>5. \A p : p \in Range(cut) <=> \E i \in m..n : p = s[i]
    <2>1. ASSUME NEW p \in Range(cut)
          PROVE  \E i \in m..n : p = s[i]
      <3>1. PICK j \in 1..n - m + 1 : p = cut[j]
        BY <1>3 DEF Range
      <3>2. j + m - 1 \in m..n /\ p = s[j + m - 1]
        BY <1>1, <1>3, <3>1
      <3>3. QED  BY <3>2
    <2>2. ASSUME NEW i \in m..n
          PROVE  s[i] \in Range(cut)
      <3>1. i - m + 1 \in 1..n - m + 1 /\ (i - m + 1) + m - 1 = i
        BY <1>1
      <3>2. cut[i - m + 1] = s[i]
        BY <1>3, <3>1
      <3>3. QED  BY <1>3, <3>1, <3>2 DEF Range
    <2>3. QED  BY <2>1, <2>2
  <1>6. m..n \subseteq 1..n
    BY <1>1
  <1>7. ASSUME NEW p \in Range(cut)
        PROVE  p.b \in CutBlocks(x)
    <2>1. PICK i \in m..n : p = s[i]
      BY <1>5
    <2>2. PICK b \in Nat : s[i] = Heap(b)
      BY <1>4, <1>6
    <2>3. p.b = b
      BY <2>1, <2>2, Pointers1
    <2>4. QED  BY <1>2, <2>2, <2>3
  <1>8. ASSUME NEW b \in CutBlocks(x)
        PROVE  b \in {p.b : p \in Range(cut)}
    <2>1. PICK i \in m..n : s[i] = Heap(b)
      BY <1>2
    <2>2. s[i] \in Range(cut) /\ s[i].b = b
      BY <1>5, <2>1, Pointers1
    <2>3. QED  BY <2>2
  <1>9. {p.b : p \in Range(cut)} = CutBlocks(x)
    BY <1>7, <1>8
  <1>10. QED  BY <1>9 DEF cut, n, s, m

\* The program fills a block in, which is none of the section's.
LEMMA FilledKeeps ==
  ASSUME NEW x, Owned(x), NEW block, NEW i
  PROVE  /\ Laid(x, [x EXCEPT !.scn.first = block])
         /\ Laid(x, [x EXCEPT !.scn.rest[i] = block])
  <1>1. Laid(x, [x EXCEPT !.scn.first = block])
    BY DEF Laid, Owned, Shape, ScnFields
  <1>2. Laid(x, [x EXCEPT !.scn.rest[i] = block])
    BY DEF Laid, Owned, Shape, ScnFields
  <1>3. QED  BY <1>1, <1>2

LEMMA NewDataKeeps ==
  ASSUME IInv, NEW CONSTANT c, NEW CONSTANT align, NEW CONSTANT f, NewData(c, align, f)
  PROVE  IInv'
  <1> DEFINE r == elf_newdata(X, f)
             block == Block(User(c), Len(c), align, "BYTE")
             rear == r.x.scn.rear
             filled == IF rear = 1 THEN [r.x EXCEPT !.scn.first = block]
                       ELSE [r.x EXCEPT !.scn.rest[rear - 1] = block]
             done == IF r.rc = 1 THEN Ok(filled) ELSE r
             cut == SubSeq(scn.nodes, Larger(scn.rear, 1), Len(scn.nodes))
  <1>1. /\ Call("newdata", f, done) /\ elf.open
        /\ r.rc = 1 => /\ DOMAIN ghost' = DOMAIN ghost
                       /\ ghost'.lost = ghost.lost \cup {p.b : p \in Range(cut)}
        /\ r.rc # 1 => ghost' = ghost
    BY DEF NewData, Call, IInv
  <1>2. Owned(X) /\ Linked(X)
    BY <1>1, OpenOwned
  <1>3. {p.b : p \in Range(cut)} = CutBlocks(X)
    BY <1>2, CutIs DEF X
  <1>4. Leaks(X, r.x, IF r.rc = 1 THEN CutBlocks(X) ELSE {})
    BY <1>2, elf_newdataKeeps
  <1> HIDE DEF r, cut
  <1>5. CASE r.rc = 1
    <2>1. Laid(r.x, filled)
      BY <1>4, FilledKeeps DEF Leaks
    <2>2. done.x = filled
      BY <1>5 DEF Ok
    <2> HIDE DEF filled, done
    <2>3. Leaks(X, done.x, CutBlocks(X))
      BY <1>4, <1>5, <2>1, <2>2, LaidKeeps DEF Leaks, Steady, Linked, Laid
    <2>4. QED  BY <1>1, <1>3, <1>5, <2>3, CallKeeps
  <1>6. CASE r.rc # 1
    <2>1. Leaks(X, done.x, {})
      BY <1>4, <1>6
    <2> HIDE DEF done
    <2>2. QED  BY <1>1, <1>6, <2>1, CallKeeps
  <1>7. QED  BY <1>5, <1>6

LEMMA EndKeeps ==
  ASSUME IInv, End
  PROVE  IInv'
  <1>1. elf.open /\ mem' = elf_end(X).mem /\ elf' = [elf EXCEPT !.open = FALSE] /\ ghost' = ghost
    BY DEF End
  <1>2. Owned(X) /\ Unclaimed(X) = ghost.lost
    BY <1>1, OpenOwned
  <1>3. Blocks(elf_end(X)) = Unclaimed(X) /\ elf_end(X).mem.fault = X.mem.fault
    BY <1>2, elf_endFrees
  <1>4. Blocks(X') = Blocks(elf_end(X)) /\ X.mem.fault = mem.fault
    BY <1>1 DEF Blocks, X
  <1>5. ~elf'.open
    BY <1>1, <1>2 DEF Owned, Shape, X
  <1>6. QED  BY <1>1, <1>2, <1>3, <1>4, <1>5 DEF IInv

-----------------------------------------------------------------------------
(* The invariant.                                                          *)

LEMMA InitInv == Init => IInv
  <1> SUFFICES ASSUME Init PROVE IInv
    OBVIOUS
  <1>1. \E image \in Images, d \in Descriptors :
          /\ elf.open = TRUE /\ elf.mapped = d.mapped /\ elf.chunks = << >>
          /\ DOMAIN elf = {"open", "mapped", "native", "aligned", "class", "cells", "chunks"}
          /\ scn = NewScn(image, IF d.based /\ ~image.new THEN InMap ELSE NULL)
    <2>1. ASSUME NEW image, NEW d, NEW cells,
                 elf = [open |-> TRUE, mapped |-> d.mapped, native |-> d.native,
                        aligned |-> d.aligned, class |-> d.class, cells |-> cells,
                        chunks |-> << >>]
          PROVE  /\ elf.open = TRUE /\ elf.mapped = d.mapped /\ elf.chunks = << >>
                 /\ DOMAIN elf = {"open", "mapped", "native", "aligned", "class", "cells",
                                  "chunks"}
      BY <2>1
    <2>2. QED  BY <2>1 DEF Init
  <1> PICK image \in Images, d \in Descriptors :
          /\ elf.open = TRUE /\ elf.mapped = d.mapped /\ elf.chunks = << >>
          /\ DOMAIN elf = {"open", "mapped", "native", "aligned", "class", "cells", "chunks"}
          /\ scn = NewScn(image, IF d.based /\ ~image.new THEN InMap ELSE NULL)
    BY <1>1
  <1>2. /\ DOMAIN scn = ScnFields
        /\ scn.rawbase = IF d.based /\ ~image.new THEN InMap ELSE NULL
        /\ scn.database = scn.rawbase /\ scn.zbase = NULL /\ scn.nodes = << >>
        /\ scn.malloced = FALSE /\ scn.rear = 0
    BY <1>1 DEF NewScn, ScnFields
  <1>3. /\ DOMAIN mem = {"heap", "top", "fault", "starved"}
        /\ DOMAIN mem.heap = {} /\ mem.top = 1 /\ mem.fault # "free"
    <2>1. mem = [heap |-> [b \in {} |-> << >>], top |-> 1, fault |-> "", starved |-> FALSE]
      BY DEF Init
    <2>2. "" # "free"
      BY Zenon
    <2>3. /\ DOMAIN mem = {"heap", "top", "fault", "starved"}
          /\ DOMAIN mem.heap = {} /\ mem.top = 1 /\ mem.fault = ""
      BY <2>1
    <2>4. QED  BY <2>2, <2>3
  <1>4. /\ DOMAIN ghost = {"lost", "mixed", "behind", "twice"} /\ ghost.lost = {}
    BY DEF Init
  <1>5. /\ DOMAIN X = {"elf", "scn", "mem"} /\ X.elf = elf /\ X.scn = scn /\ X.mem = mem
    BY DEF X
  <1> DEFINE x == X
  <1>6. x.scn.rawbase = InMap => x.elf.mapped
    BY <1>1, <1>2, <1>5, Pointers1, ContentsBased
  <1> HIDE DEF x
  <1>7. \A k, i, b : ~Claims(X, k, i, b)
    BY <1>1, <1>2, <1>5, Pointers1 DEF Claims
  <1>8. Shape(X) /\ Fresh(X) /\ Allocated(X) /\ Exclusive(X)
    BY <1>1, <1>2, <1>3, <1>5, <1>7 DEF Shape, Fresh, Allocated, Exclusive, Blocks
  <1>9. Buffers(X)
    BY <1>2, <1>5, <1>6, Pointers1 DEF Buffers, InHeap, x
  <1>10. Unread(X) /\ Linked(X)
    BY <1>2, <1>5 DEF Unread, Linked
  <1>11. Lists(X)
    <2>1. /\ << >> \in Seq(Node) /\ Len(<< >>) = 0
          /\ << >> \in Seq({}) /\ DOMAIN << >> = {}
      OBVIOUS
    <2>2. /\ X.scn.nodes = << >> /\ X.scn.rear = 0 /\ X.elf.chunks = << >>
      BY <1>1, <1>2, <1>5
    <2>3. QED  BY <2>1, <2>2 DEF Lists
  <1>12. Unclaimed(X) = {}
    BY <1>3, <1>5 DEF Unclaimed, Blocks
  <1>13. QED  BY <1>1, <1>3, <1>4, <1>8, <1>9, <1>10, <1>11, <1>12 DEF IInv, Owned

LEMMA NextInv ==
  ASSUME IInv, [Next]_vars
  PROVE  IInv'
  <1>1. CASE UNCHANGED vars
    BY <1>1 DEF vars, IInv, X
  <1>2. ASSUME NEW f, GetData(f) PROVE IInv'
    BY <1>2, GetDataKeeps
  <1>3. ASSUME NEW f, RawData(f) PROVE IInv'
    BY <1>3, RawDataKeeps
  <1>4. ASSUME NEW f, GetChdr(f) PROVE IInv'
    BY <1>4, GetChdrKeeps
  <1>5. ASSUME NEW f, NEW moved, UpdateNull(moved, f) PROVE IInv'
    BY <1>5, UpdateNullKeeps
  <1>6. ASSUME NEW f, NEW type, RawChunk(type, f) PROVE IInv'
    BY <1>6, RawChunkKeeps
  <1>7. ASSUME NEW f, NEW c, NEW a, NewData(c, a, f) PROVE IInv'
    BY <1>7, NewDataKeeps
  <1>8. ASSUME NEW f, NEW type, NEW force, elf_compress(type, force, f) PROVE IInv'
    BY <1>8, CompressKeeps
  <1>9. ASSUME NEW f, NEW i, NEW force, elf_compress_gnu(i, force, f) PROVE IInv'
    BY <1>9, CompressGnuKeeps
  <1>10. ASSUME NEW f, NEW off, StrPtr(off, f) PROVE IInv'
    BY <1>10, StrPtrKeeps
  <1>11. CASE ReadAll
    BY <1>11, ReadAllKeeps
  <1>12. CASE End
    BY <1>12, EndKeeps
  <1>13. QED
    BY <1>1, <1>2, <1>3, <1>4, <1>5, <1>6, <1>7, <1>8, <1>9, <1>10, <1>11, <1>12 DEF Next

\* What is allocated is claimed once or known to be lost, and no call gives up
\* what is not, or not any more, allocated: the buffers of the section that
\* elf_compress() and elf_end() free, the nodes and the chunks.
THEOREM Ownership == Spec => []IInv
  <1>1. IInv /\ [Next]_vars => IInv'
    BY NextInv
  <1>2. QED  BY <1>1, InitInv, PTL DEF Spec

\* elf_end() leaves no block but those that are known to be lost, whatever
\* calls there were and whichever allocations failed.
THEOREM AccountedAlways == Spec => []Accounted
  <1>1. IInv => Accounted
    BY DEF IInv, Accounted, Blocks, X
  <1>2. QED  BY <1>1, Ownership, PTL

\* No call gives up a block twice, or one it does not own.
THEOREM FreesOnceAlways == Spec => []FreesOnce
  <1>1. IInv => FreesOnce
    BY DEF IInv, FreesOnce
  <1>2. QED  BY <1>1, Ownership, PTL
=============================================================================

------------------------ MODULE EuContentsReadProofs ------------------------
(***************************************************************************)
(* Proofs about what EuContents reads: whatever sections there are and     *)
(* whatever is called, a block that was given up is read only after a      *)
(* conversion that found no memory, and the strings and the chunks that    *)
(* were given out stay what they were.                                     *)
(*                                                                         *)
(* A block is never written to twice, so that it is enough to follow which *)
(* of them the section refers to, and that it is still allocated.          *)
(***************************************************************************)
EXTENDS EuContentsProofs, WellFoundedInduction

\* Where a pointer may point to that can be read, and where it can point at all.
IsUser(p) == \E c : p = User(c)
Live(x, p) ==
  \/ p \in {NULL, InMap} \/ IsUser(p)
  \/ \E b : p = Heap(b) /\ b \in Blocks(x)
Old(x, p) ==
  \/ p \in {NULL, InMap} \/ IsUser(p)
  \/ \E b \in Nat : p = Heap(b) /\ b < x.mem.top

\* The blocks of data refer to what can be read, those that were added to what
\* the program gave; the first may not when a conversion found no memory.
HeldRaw(x) == "buf" \in DOMAIN x.scn.raw /\ Live(x, x.scn.raw.buf)
Given(s) ==
  /\ \E C : s \in Seq(C)
  /\ \A i \in DOMAIN s : "buf" \in DOMAIN s[i] /\ (s[i].buf = NULL \/ IsUser(s[i].buf))
HeldRest(x) == Given(x.scn.rest) /\ x.scn.rear \in 0..Len(x.scn.rest) + 1
OldFirst(x) == "buf" \in DOMAIN x.scn.first /\ Old(x, x.scn.first.buf)
HeldFirst(x) ==
  OldFirst(x) /\ (x.mem.starved \/ Live(x, x.scn.first.buf))
Held(x) == HeldRaw(x) /\ HeldRest(x) /\ HeldFirst(x)

\* From x to y blocks may be allocated and given up; none is written to again.
\* The chunks stay, and no block that was given up is read.
Frame(x, y) ==
  /\ x.mem.top <= y.mem.top
  /\ \A b \in Blocks(y) : b < x.mem.top => b \in Blocks(x) /\ y.mem.heap[b] = x.mem.heap[b]
  /\ y.elf.cells = x.elf.cells
  /\ y.elf.chunks = x.elf.chunks
  /\ x.mem.starved => y.mem.starved
  /\ y.mem.fault = "freed" => x.mem.fault = "freed" \/ y.mem.starved

\* None is given up either.
Calm(x, y) == Held(y) /\ Frame(x, y) /\ Blocks(x) \subseteq Blocks(y)

-----------------------------------------------------------------------------
LEMMA Pointers2 ==
  /\ NULL.at = "null" /\ InMap.at = "map" /\ \A c : User(c).at = "user"
  /\ \A b : Heap(b).at = "heap" /\ Heap(b).b = b
BY DEF NULL, InMap, User, Heap

LEMMA MinIn ==
  ASSUME NEW S, S \subseteq Nat, S # {}
  PROVE  Min(S) \in S
  <1>1. PICK m \in S : \A y \in S : ~(<<y, m>> \in OpToRel(<, Nat))
    BY NatLessThanWellFounded, WFMin
  <1>2. ASSUME NEW y \in S
        PROVE  m <= y
    <2>1. y \in Nat /\ m \in Nat /\ <<y, m>> \in Nat \X Nat
      OBVIOUS
    <2>2. y < m => <<y, m>> \in OpToRel(<, Nat)
      BY <2>1 DEF OpToRel
    <2>3. ~(y < m)
      BY <1>1, <2>2
    <2>4. QED  BY <2>1, <2>3
  <1>3. QED  BY <1>2 DEF Min

LEMMA FrameStays ==
  ASSUME NEW x, Owned(x)
  PROVE  Frame(x, x)
  BY DEF Frame, Owned, Fresh

LEMMA FrameTwice ==
  ASSUME NEW x, Owned(x), NEW y, Owned(y), NEW z, Owned(z), Frame(x, y), Frame(y, z)
  PROVE  Frame(x, z)
  <1>1. x.mem.top \in Nat /\ y.mem.top \in Nat /\ z.mem.top \in Nat
        /\ \A b \in Blocks(z) : b \in Nat
    BY DEF Owned, Fresh
  <1>2. \A b \in Blocks(z) : b < x.mem.top => b \in Blocks(x) /\ z.mem.heap[b] = x.mem.heap[b]
    BY <1>1 DEF Frame
  <1>3. x.mem.top <= z.mem.top
    BY <1>1 DEF Frame
  <1>4. QED  BY <1>2, <1>3 DEF Frame

LEMMA CalmStays ==
  ASSUME NEW x, Owned(x), Held(x)
  PROVE  Calm(x, x)
  BY FrameStays DEF Calm

LEMMA CalmTwice ==
  ASSUME NEW x, Owned(x), NEW y, Owned(y), NEW z, Owned(z), Calm(x, y), Calm(y, z)
  PROVE  Calm(x, z)
  BY FrameTwice DEF Calm

LEMMA LiveOld ==
  ASSUME NEW x, Owned(x), NEW p, Live(x, p)
  PROVE  Old(x, p)
  BY Pointers1, Pointers2 DEF Live, Old, IsUser, Owned, Fresh

\* What can be read stays so while no block is given up.
LEMMA LiveStays ==
  ASSUME NEW x, NEW y, Blocks(x) \subseteq Blocks(y), NEW p, Live(x, p)
  PROVE  Live(y, p)
  BY DEF Live

LEMMA HeldStays ==
  ASSUME NEW x, Owned(x), Held(x), NEW y, Owned(y), Blocks(x) \subseteq Blocks(y),
         x.mem.top <= y.mem.top, x.mem.starved => y.mem.starved,
         y.scn.raw = x.scn.raw, y.scn.rest = x.scn.rest, y.scn.rear = x.scn.rear,
         y.scn.first = x.scn.first
  PROVE  Held(y)
  <1>1. HeldRaw(y) /\ HeldRest(y)
    <2>1. HeldRaw(y)
      BY LiveStays DEF Held, HeldRaw
    <2>2. HeldRest(y)
      BY DEF Held, HeldRest
    <2>3. QED  BY <2>1, <2>2
  <1>2. y.mem.starved \/ Live(y, y.scn.first.buf)
    BY LiveStays DEF Held, HeldFirst
  <1>3. Old(y, y.scn.first.buf)
    BY DEF Held, HeldFirst, OldFirst, Old, Owned, Fresh
  <1>4. QED  BY <1>1, <1>2, <1>3 DEF Held, HeldFirst, OldFirst

\* The buffers of the section can be read.
LEMMA BuffersLive ==
  ASSUME NEW x, Owned(x)
  PROVE  Live(x, x.scn.rawbase) /\ Live(x, x.scn.database) /\ Live(x, x.scn.zbase)
  <1>1. Live(x, x.scn.rawbase)
    BY DEF Owned, Buffers, InHeap, Live
  <1>2. Live(x, x.scn.database)
    <2>1. \A b : x.scn.database = Heap(b) /\ x.scn.database # x.scn.rawbase => b \in Blocks(x)
      <3>1. \A b : x.scn.database = Heap(b) /\ x.scn.database # x.scn.rawbase
                     => Claims(x, "data", 0, b)
        BY DEF Claims
      <3>2. QED  BY <3>1 DEF Owned, Allocated
    <2>2. QED  BY <1>1, <2>1 DEF Owned, Buffers, InHeap, Live
  <1>3. Live(x, x.scn.zbase)
    <2>1. \A b : x.scn.zbase = Heap(b) /\ x.scn.zbase # x.scn.rawbase => b \in Blocks(x)
      <3>1. \A b : x.scn.zbase = Heap(b) /\ x.scn.zbase # x.scn.rawbase
                     => Claims(x, "z", 0, b)
        BY DEF Claims
      <3>2. QED  BY <3>1 DEF Owned, Allocated
    <2>2. QED  BY <1>1, <2>1 DEF Owned, Buffers, InHeap, Live
  <1>4. QED  BY <1>1, <1>2, <1>3

-----------------------------------------------------------------------------
(* Memory.                                                                 *)

LEMMA AllocFrame ==
  ASSUME NEW x, Owned(x), NEW c
  PROVE  LET y == Alloc(x, c) IN
         /\ Frame(x, y) /\ Owned(y)
         /\ y.mem.top = x.mem.top + 1 /\ y.mem.starved = x.mem.starved
         /\ y.scn = x.scn /\ y.elf = x.elf
         /\ y.mem.heap[x.mem.top] = c /\ x.mem.top \in Blocks(y)
  <1> DEFINE y == Alloc(x, c)
  <1>1. /\ Shape(x) /\ x.mem.top \in Nat /\ \A b \in Blocks(x) : b \in Nat /\ b < x.mem.top
    BY DEF Owned, Fresh
  <1>2. /\ y.scn = x.scn /\ y.elf = x.elf /\ y.mem.top = x.mem.top + 1
        /\ y.mem.starved = x.mem.starved /\ y.mem.fault = x.mem.fault
        /\ Blocks(y) = Blocks(x) \cup {x.mem.top} /\ Owned(y)
    BY <1>1, AllocIs, AllocOwned
  <1>3. /\ y.mem.heap[x.mem.top] = c
        /\ \A b \in Blocks(x) : b # x.mem.top => y.mem.heap[b] = x.mem.heap[b]
    BY <1>1 DEF Alloc, Shape, Blocks
  <1> HIDE DEF y
  <1>4. Frame(x, y)
    BY <1>1, <1>2, <1>3 DEF Frame
  <1>5. QED  BY <1>2, <1>3, <1>4 DEF y

LEMMA AllocCalm ==
  ASSUME NEW x, Owned(x), Held(x), NEW c
  PROVE  LET y == Alloc(x, c) IN Calm(x, y) /\ Owned(y) /\ y.scn = x.scn
  <1> DEFINE y == Alloc(x, c)
  <1>1. /\ Frame(x, y) /\ Owned(y) /\ y.scn = x.scn /\ y.mem.starved = x.mem.starved
        /\ y.mem.top = x.mem.top + 1 /\ Blocks(x) \subseteq Blocks(y)
    BY AllocFrame, AllocIs DEF Owned
  <1> HIDE DEF y
  <1>2. x.mem.top <= y.mem.top
    BY <1>1 DEF Frame
  <1>3. Held(y)
    BY <1>1, <1>2, HeldStays
  <1>4. QED  BY <1>1, <1>3 DEF Calm, y

LEMMA ReadsCalm ==
  ASSUME NEW x, Owned(x), Held(x), NEW p, x.mem.starved \/ Live(x, p), NEW n
  PROVE  LET y == Reads(x, p, n) IN
         /\ Calm(x, y) /\ Owned(y) /\ y.scn = x.scn /\ y.mem.heap = x.mem.heap
         /\ y.elf = x.elf /\ y.mem.top = x.mem.top
  <1> DEFINE y == Reads(x, p, n)
  <1>1. Owned(y) /\ y.scn = x.scn /\ y.elf = x.elf
    BY ReadsKeeps DEF Steady
  <1>2. /\ y.mem.top = x.mem.top /\ y.mem.starved = x.mem.starved
    BY ReadsIs DEF Owned
  <1>3. y.mem.heap = x.mem.heap
    BY DEF Reads, Hurt, Owned, Shape
  <1>4. y.mem.fault = "freed" => x.mem.fault = "freed" \/ x.mem.starved
    <2>1. Live(x, p) => ~(p.at = "heap" /\ ~Owns(x, p))
      BY Pointers2 DEF Live, IsUser, Owns, Blocks
    <2>2. Live(x, p) => y = x \/ y = Hurt(x, "past")
      BY <2>1 DEF Reads
    <2>3. Live(x, p) => y.mem.fault = x.mem.fault \/ y.mem.fault = "past"
      BY <2>2 DEF Hurt, Owned, Shape
    <2> HIDE DEF y
    <2>4. QED  BY <2>3
  <1> HIDE DEF y
  <1>5. Frame(x, y)
    BY <1>1, <1>2, <1>3, <1>4 DEF Frame, Blocks, Owned, Fresh
  <1>6. Blocks(x) \subseteq Blocks(y)
    BY <1>3 DEF Blocks
  <1>7. Held(y)
    BY <1>1, <1>2, <1>5, <1>6, HeldStays DEF Frame
  <1>8. QED  BY <1>1, <1>2, <1>3, <1>5, <1>6, <1>7 DEF Calm, y

LEMMA FrameSame ==
  ASSUME NEW x, NEW w, Frame(x, w), NEW y, y.elf = w.elf, y.mem = w.mem
  PROVE  Frame(x, y)
  BY DEF Frame, Blocks

-----------------------------------------------------------------------------
(* Reading a section in.                                                   *)

\* A section is read in from p.
Sets(w, y, p) ==
  /\ y.elf = w.elf /\ y.mem = w.mem
  /\ y.scn.raw.buf = p /\ "buf" \in DOMAIN y.scn.raw
  /\ y.scn.first = w.scn.first /\ y.scn.rest = w.scn.rest /\ y.scn.rear = w.scn.rear

LEMMA RawCalm ==
  ASSUME NEW x, Owned(x), NEW w, Calm(x, w), NEW p, Live(w, p), NEW y, Sets(w, y, p)
  PROVE  Calm(x, y)
  <1>1. Frame(x, y)
    BY FrameSame DEF Calm, Sets
  <1>2. Blocks(y) = Blocks(w)
    BY DEF Sets, Blocks
  <1>3. HeldRaw(y)
    BY <1>2, LiveStays DEF HeldRaw, Sets
  <1>4. HeldRest(y)
    BY DEF Calm, Held, HeldRest, Sets
  <1>5. HeldFirst(y)
    BY <1>2, LiveStays DEF Calm, Held, HeldFirst, OldFirst, Old, Sets
  <1>6. QED  BY <1>1, <1>2, <1>3, <1>4, <1>5 DEF Calm, Held

LEMMA set_rawdataCalm ==
  ASSUME NEW x, Owned(x), Held(x), NEW fail
  PROVE  Calm(x, set_rawdata(x, fail).x)
  <1> DEFINE type == IF x.scn.z THEN "CHDR" ELSE data_type(x.scn.type)
             align == RawAlign(x.scn)
             raw(p) == Block(p, x.scn.size, align, type)
             Set(y, p) == [y EXCEPT !.scn.rawbase = IF p = NULL THEN @ ELSE p,
                                    !.scn.raw = raw(p),
                                    !.scn.read = TRUE, !.scn.filedata = TRUE]
             r == set_rawdata(x, fail)
             a == Alloc(x, x.elf.cells)
  <1>1. r.x \in {Set(x, NULL), Set(x, InMap), x, Set(a, Heap(x.mem.top))}
    BY DEF set_rawdata, Ok, Rc
  <1>2. Calm(x, x) /\ Calm(x, a) /\ Owned(a)
    BY CalmStays, AllocCalm
  <1>3. Live(x, NULL) /\ Live(x, InMap) /\ Live(a, Heap(x.mem.top))
    BY AllocFrame DEF Live
  <1> HIDE DEF r, a
  <1>4. \A p : raw(p).buf = p /\ "buf" \in DOMAIN raw(p)
    BY DEF Block
  <1> HIDE DEF raw
  <1>5. ASSUME NEW w, Owned(w), NEW p
        PROVE  Sets(w, Set(w, p), p)
    BY <1>4, <1>5 DEF Sets, Owned, Shape, ScnFields
  <1> HIDE DEF Set
  <1>6. Calm(x, Set(x, NULL)) /\ Calm(x, Set(x, InMap)) /\ Calm(x, Set(a, Heap(x.mem.top)))
    BY <1>2, <1>3, <1>5, RawCalm
  <1>7. Calm(x, r.x)
    BY <1>1, <1>2, <1>6
  <1>8. QED  BY <1>7 DEF r

\* The list of data blocks begins with p, or the old block when nothing could be had.
Opens(w, y, p) ==
  /\ y.elf = w.elf /\ y.mem.heap = w.mem.heap /\ y.mem.top = w.mem.top
  /\ y.mem.fault = w.mem.fault /\ (w.mem.starved => y.mem.starved)
  /\ y.scn.raw = w.scn.raw /\ y.scn.rest = w.scn.rest /\ y.scn.rear = 1
  /\ y.scn.first.buf = p /\ "buf" \in DOMAIN y.scn.first
  /\ y.mem.starved \/ Live(w, p)

\* That the first block can be read is not asked of x: elf_compress() leaves the
\* old one until then.
LEMMA OpensCalm ==
  ASSUME NEW x, Owned(x), HeldRaw(x), HeldRest(x),
         NEW w, Owned(w), Frame(x, w), Blocks(x) \subseteq Blocks(w), w.scn = x.scn,
         NEW p, Old(w, p), NEW y, Opens(w, y, p)
  PROVE  Calm(x, y)
  <1>1. Blocks(y) = Blocks(w)
    BY DEF Opens, Blocks
  <1>2. Frame(x, y)
    BY <1>1 DEF Frame, Opens
  <1>3. HeldRaw(y)
    BY <1>1, LiveStays DEF HeldRaw, Opens
  <1>4. HeldRest(y)
    <2>1. PICK C : x.scn.rest \in Seq(C)
      BY DEF HeldRest, Given
    <2>2. Len(x.scn.rest) \in Nat
      BY <2>1
    <2> HIDE <2>1
    <2>3. 1 \in 0..Len(x.scn.rest) + 1
      BY <2>2
    <2>4. QED  BY <2>3 DEF HeldRest, Opens
  <1>5. HeldFirst(y)
    BY <1>1, LiveStays DEF HeldFirst, OldFirst, Opens, Old
  <1>6. QED  BY <1>1, <1>2, <1>3, <1>4, <1>5 DEF Calm, Held

LEMMA set_data_listCalm ==
  ASSUME NEW x, Owned(x), HeldRaw(x), HeldRest(x), OldFirst(x), NEW fail
  PROVE  Calm(x, set_data_list(x, fail))
  <1> DEFINE y == set_data_list(x, fail)
             Begun(z) == [z EXCEPT !.scn.rear = 1]
             t == x.mem.top
  <1>1. \/ y = Begun([x EXCEPT !.scn.first = x.scn.raw])
        \/ y = Begun(First(x, x.scn.rawbase))
        \/ y = Begun([x EXCEPT !.scn.database = NULL, !.mem.starved = TRUE])
        \/ \E c : y = Begun(First(Alloc(x, c), Heap(t)))
    BY DEF set_data_list, convert_data
  <1> HIDE DEF y
  <1>2. Frame(x, x)
    BY FrameStays
  <1>3. ASSUME y = Begun([x EXCEPT !.scn.first = x.scn.raw]) PROVE Calm(x, y)
    <2>1. Opens(x, y, x.scn.raw.buf)
      BY <1>3 DEF Owned, Shape, ScnFields, Opens, HeldRaw
    <2>2. Old(x, x.scn.raw.buf)
      BY LiveOld DEF HeldRaw
    <2>3. QED  BY <1>2, <2>1, <2>2, OpensCalm
  <1>4. ASSUME y = Begun(First(x, x.scn.rawbase)) PROVE Calm(x, y)
    <2>1. Live(x, x.scn.rawbase) /\ Old(x, x.scn.rawbase)
      BY BuffersLive, LiveOld
    <2>2. Opens(x, y, x.scn.rawbase)
      BY <1>4, <2>1 DEF Owned, Shape, ScnFields, Opens, First, HeldRaw
    <2>3. QED  BY <1>2, <2>1, <2>2, OpensCalm
  <1>5. ASSUME y = Begun([x EXCEPT !.scn.database = NULL, !.mem.starved = TRUE])
        PROVE  Calm(x, y)
    <2>1. Opens(x, y, x.scn.first.buf)
      BY <1>5 DEF Owned, Shape, ScnFields, Opens, OldFirst
    <2>2. QED  BY <1>2, <2>1, OpensCalm DEF OldFirst
  <1>6. ASSUME NEW c, y = Begun(First(Alloc(x, c), Heap(t))) PROVE Calm(x, y)
    <2> DEFINE w == Alloc(x, c)
    <2>1. /\ Shape(w) /\ w.scn = x.scn /\ Frame(x, w) /\ Owned(w)
          /\ Blocks(x) \subseteq Blocks(w) /\ t \in Blocks(w)
      BY AllocIs, AllocFrame DEF Owned
    <2> HIDE DEF w
    <2>2. Live(w, Heap(t))
      BY <2>1 DEF Live
    <2>3. Opens(w, y, Heap(t))
      BY <1>6, <2>1, <2>2 DEF Shape, ScnFields, Opens, First, HeldRaw, w
    <2>4. Old(w, Heap(t))
      BY <2>1, <2>2, LiveOld
    <2>5. QED  BY <2>1, <2>3, <2>4, OpensCalm
  <1>7. Calm(x, y)
    BY <1>1, <1>3, <1>4, <1>5, <1>6
  <1>8. QED  BY <1>7 DEF y

LEMMA elf_getdataCalm ==
  ASSUME NEW x, Owned(x), Held(x), NEW fail
  PROVE  LET r == elf_getdata(x, fail) IN Owned(r.x) /\ Calm(x, r.x)
  <1> DEFINE Listed(y) == Ok(IF y.scn.rear = 0 THEN set_data_list(y, fail) ELSE y)
             s == set_rawdata(x, fail)
             r == elf_getdata(x, fail)
  <1>1. ASSUME NEW y, Owned(y), Held(y)
        PROVE  Calm(y, Listed(y).x)
    BY <1>1, set_data_listCalm, CalmStays DEF Ok, Held, HeldFirst
  <1>2. \/ x.scn.read /\ r = Listed(x)
        \/ ~x.scn.read /\ s.rc = 1 /\ r = Listed(s.x)
        \/ ~x.scn.read /\ s.rc # 1 /\ r = s
    BY DEF elf_getdata, Then
  <1>3. Owned(r.x)
    BY elf_getdataKeeps DEF Steady
  <1> HIDE DEF Listed, r
  <1>4. ~x.scn.read => Calm(x, s.x) /\ Owned(s.x)
    BY set_rawdataCalm, set_rawdataKeeps DEF Steady
  <1> HIDE DEF s
  <1>5. Calm(x, r.x)
    BY <1>1, <1>2, <1>3, <1>4, CalmTwice DEF Calm
  <1>6. QED  BY <1>3, <1>5 DEF r

LEMMA elf_rawdataCalm ==
  ASSUME NEW x, Owned(x), Held(x), NEW fail
  PROVE  Calm(x, elf_rawdata(x, fail).x)
  BY set_rawdataCalm, CalmStays DEF elf_rawdata, Rc

-----------------------------------------------------------------------------
(* Adding a block to the list.                                             *)

LEMMA CutAppended ==
  ASSUME NEW E, NEW q, q \in Seq(E), NEW e, e \in E, NEW n, n \in 1..Len(q) + 1,
         NEW r, r = Append(SubSeq(q, 1, n - 1), e)
  PROVE  /\ r \in Seq(E) /\ Len(r) = n /\ DOMAIN r = 1..n
         /\ \A i \in 1..n - 1 : r[i] = q[i]
         /\ r[n] = e
  <1> DEFINE cut == SubSeq(q, 1, n - 1)
  <1>1. /\ cut \in Seq(E) /\ Len(cut) = n - 1
        /\ \A i \in 1..n - 1 : cut[i] = q[i]
    OBVIOUS
  <1>2. n \in Nat /\ n >= 1 /\ r = Append(cut, e)
    OBVIOUS
  <1> HIDE DEF cut
  <1>3. r \in Seq(E) /\ Len(r) = n /\ r[n] = e /\ \A i \in 1..n - 1 : r[i] = cut[i]
    BY <1>1, <1>2
  <1>4. QED  BY <1>1, <1>2, <1>3 DEF cut

LEMMA CutHeld ==
  ASSUME NEW s, Given(s), NEW m, m \in 1..Len(s) + 1, NEW rest,
         rest = Append(SubSeq(s, 1, m - 1), NoBlock)
  PROVE  Given(rest) /\ Len(rest) = m
  <1>0. PICK C : s \in Seq(C)
    BY DEF Given
  <1>1. NoBlock \in C \cup {NoBlock} /\ s \in Seq(C \cup {NoBlock}) /\ m \in Nat
    BY <1>0
  <1>2. NoBlock.buf = NULL /\ "buf" \in DOMAIN NoBlock
    BY DEF NoBlock, Block
  <1>3. /\ rest \in Seq(C \cup {NoBlock}) /\ Len(rest) = m /\ DOMAIN rest = 1..m
        /\ \A i \in 1..m - 1 : rest[i] = s[i]
        /\ rest[m] = NoBlock
    BY <1>1, CutAppended
  <1>4. ASSUME NEW i \in 1..m
        PROVE  "buf" \in DOMAIN rest[i] /\ (rest[i].buf = NULL \/ IsUser(rest[i].buf))
    <2>1. CASE i = m
      BY <1>2, <1>3, <2>1
    <2>2. CASE i # m
      <3>1. i \in 1..m - 1 /\ i \in DOMAIN s
        BY <1>1, <2>2
      <3>2. QED  BY <1>3, <3>1 DEF Given
    <2>3. QED  BY <2>1, <2>2
  <1>5. QED  BY <1>3, <1>4 DEF Given

LEMMA RestLinked ==
  ASSUME NEW x, HeldRest(x), x.scn.rear # 0, NEW rest,
         rest = Append(SubSeq(x.scn.rest, 1, x.scn.rear - 1), NoBlock)
  PROVE  Given(rest) /\ Len(rest) = x.scn.rear /\ x.scn.rear \in Nat
  <1>1. PICK C : x.scn.rest \in Seq(C)
    BY DEF HeldRest, Given
  <1>2. x.scn.rear \in 1..Len(x.scn.rest) + 1 /\ x.scn.rear \in Nat
    BY <1>1 DEF HeldRest
  <1>3. Given(x.scn.rest)
    BY DEF HeldRest
  <1>4. Given(rest)
    BY <1>2, <1>3, CutHeld
  <1>5. Len(rest) = x.scn.rear
    BY <1>2, <1>3, CutHeld
  <1>6. QED  BY <1>2, <1>4, <1>5

LEMMA elf_newdataCalm ==
  ASSUME NEW x, Owned(x), Linked(x), Held(x), NEW fail
  PROVE  LET r == elf_newdata(x, fail) IN Owned(r.x) /\ Calm(x, r.x)
  <1> DEFINE begin == x.scn.read /\ x.scn.rawbase # NULL /\ x.scn.rear = 0
             x0 == IF begin THEN set_data_list(x, fail) ELSE x
             Linking(y) == [Alloc(y, << >>) EXCEPT
                              !.scn.rest = Append(SubSeq(y.scn.rest, 1, y.scn.rear - 1), NoBlock),
                              !.scn.nodes = Append(SubSeq(@, 1, y.scn.rear - 1),
                                                   Heap(y.mem.top)),
                              !.scn.rear = @ + 1]
             one == [x0 EXCEPT !.scn.first = NoBlock, !.scn.rear = 1]
             s == set_rawdata(x0, fail)
             listed == set_data_list(s.x, fail)
             r == elf_newdata(x, fail)
  <1>1. \/ x0.scn.read /\ x0.scn.rear = 0 /\ r.x = one
        \/ x0.scn.read /\ x0.scn.rear # 0 /\ r.x \in {x0, Linking(x0)}
        \/ ~x0.scn.read /\ s.rc # 1 /\ r.x = s.x
        \/ ~x0.scn.read /\ s.rc = 1 /\ r.x \in {listed, Linking(listed)}
    BY DEF elf_newdata, Then, Ok, Rc
  <1>2. Owned(r.x)
    BY elf_newdataKeeps DEF Leaks
  <1>3. Owned(x0) /\ Calm(x, x0)
    BY set_data_listKeeps, set_data_listCalm, CalmStays DEF Steady, Held, HeldFirst
  <1> HIDE DEF r, x0
  <1>4. ASSUME NEW y, Owned(y), Held(y), y.scn.rear # 0
        PROVE  Calm(y, Linking(y))
    <2> DEFINE w == Alloc(y, << >>)
               z == Linking(y)
               rest == Append(SubSeq(y.scn.rest, 1, y.scn.rear - 1), NoBlock)
    <2>1. Shape(w) /\ Calm(y, w) /\ w.scn = y.scn
      BY <1>4, AllocCalm DEF Owned
    <2> HIDE DEF w
    <2>2. /\ z.elf = w.elf /\ z.mem = w.mem
          /\ z.scn.rawbase = w.scn.rawbase /\ z.scn.database = w.scn.database
          /\ z.scn.zbase = w.scn.zbase /\ z.scn.raw = w.scn.raw
          /\ z.scn.first = w.scn.first /\ z.scn.rest = rest
          /\ z.scn.rear = w.scn.rear + 1
      BY <2>1 DEF Shape, ScnFields, w
    <2>3. Given(rest) /\ Len(rest) = y.scn.rear /\ y.scn.rear \in Nat
      BY <1>4, RestLinked DEF Held
    <2> HIDE DEF z, rest
    <2>4. HeldRest(z)
      BY <2>1, <2>2, <2>3 DEF HeldRest
    <2>5. Frame(y, z)
      BY <2>1, <2>2, FrameSame DEF Calm
    <2>6. Blocks(z) = Blocks(w)
      BY <2>2 DEF Blocks
    <2>7. HeldRaw(z) /\ HeldFirst(z)
      BY <2>1, <2>2, <2>6, LiveStays DEF Calm, Held, HeldRaw, HeldFirst, OldFirst, Old
    <2>8. Calm(y, z)
      BY <2>1, <2>4, <2>5, <2>6, <2>7 DEF Calm, Held
    <2>9. QED  BY <2>8 DEF z
  <1> HIDE DEF Linking
  <1>5. ASSUME x0.scn.read, x0.scn.rear = 0, r.x = one
        PROVE  Calm(x, r.x)
    <2>1. /\ one.elf = x0.elf /\ one.mem = x0.mem
          /\ one.scn.rawbase = x0.scn.rawbase /\ one.scn.database = x0.scn.database
          /\ one.scn.zbase = x0.scn.zbase /\ one.scn.raw = x0.scn.raw
          /\ one.scn.first.buf = NULL /\ "buf" \in DOMAIN one.scn.first
          /\ one.scn.rest = x0.scn.rest /\ one.scn.rear = 1
      BY <1>3 DEF Owned, Shape, ScnFields, NoBlock, Block
    <2> HIDE DEF one
    <2>2. Frame(x0, one)
      BY <1>3, <2>1, FrameSame, FrameStays
    <2>3. HeldRest(one)
      BY <1>3, <2>1 DEF Calm, Held, HeldRest
    <2>4. Blocks(one) = Blocks(x0) /\ Live(one, NULL) /\ Old(one, NULL)
      BY <2>1, Pointers1 DEF Blocks, Live, Old
    <2>5. HeldRaw(one) /\ HeldFirst(one)
      BY <1>3, <2>1, <2>4, LiveStays DEF Calm, Held, HeldRaw, HeldFirst, OldFirst
    <2>6. Calm(x0, one)
      BY <2>2, <2>3, <2>4, <2>5 DEF Calm, Held
    <2>7. QED  BY <1>2, <1>3, <1>5, <2>6, CalmTwice
  <1>6. ASSUME x0.scn.rear # 0, r.x \in {x0, Linking(x0)}
        PROVE  Calm(x, r.x)
    <2>1. Calm(x0, Linking(x0))
      BY <1>3, <1>4, <1>6 DEF Calm
    <2>2. QED  BY <1>2, <1>3, <1>6, <2>1, CalmTwice
  <1>7. ASSUME ~x0.scn.read,
               (s.rc # 1 /\ r.x = s.x) \/ (s.rc = 1 /\ r.x \in {listed, Linking(listed)})
        PROVE  Calm(x, r.x)
    <2>1. /\ Owned(s.x) /\ s.x.scn.rear = 0 /\ (s.rc = 1 => s.x.scn.read)
          /\ Calm(x0, s.x)
      BY <1>3, <1>7, set_rawdataKeeps, set_rawdataCalm DEF Calm, Steady
    <2> HIDE DEF s
    <2>2. Calm(x, s.x)
      BY <1>3, <2>1, CalmTwice
    <2>3. ASSUME s.rc = 1, r.x \in {listed, Linking(listed)}
          PROVE  Calm(x, r.x)
      <3>1. Owned(listed) /\ listed.scn.rear = 1 /\ Calm(s.x, listed)
        BY <2>1, <2>3, set_data_listKeeps, set_data_listCalm DEF Steady, Calm, Held, HeldFirst
      <3> HIDE DEF listed
      <3>2. Calm(x, listed)
        BY <2>1, <2>2, <3>1, CalmTwice
      <3>3. Calm(listed, Linking(listed))
        BY <3>1, <3>2, <1>4 DEF Calm
      <3>4. QED  BY <1>2, <2>3, <3>1, <3>2, <3>3, CalmTwice
    <2>4. QED  BY <1>7, <2>2, <2>3
  <1>8. Calm(x, r.x)
    BY <1>1, <1>3, <1>5, <1>6, <1>7
  <1>9. QED  BY <1>2, <1>8 DEF r

-----------------------------------------------------------------------------
(* Compression: what it reads, and what it allocates.                      *)

\* The blocks that begin with the first one can be read.
LEMMA PiecesLive ==
  ASSUME NEW x, Held(x)
  PROVE  /\ DOMAIN Pieces(x) \subseteq Nat
         /\ \A i \in DOMAIN Pieces(x) :
              (x.mem.starved \/ Live(x, Pieces(x)[i].buf)) /\ Old(x, Pieces(x)[i].buf)
  <1> DEFINE s == x.scn.rest
             f == x.scn.first
             ps == Pieces(x)
  <1>1. PICK C : s \in Seq(C)
    BY DEF Held, HeldRest, Given
  <1>2. /\ x.mem.starved \/ Live(x, f.buf)
        /\ Old(x, f.buf)
        /\ \A i \in DOMAIN s : s[i].buf = NULL \/ IsUser(s[i].buf)
    BY DEF Held, HeldFirst, OldFirst, HeldRest, Given
  <1>3. \A p : p = NULL \/ IsUser(p) => Live(x, p) /\ Old(x, p)
    BY Pointers1, Pointers2 DEF Live, Old, IsUser
  <1>4. ps = <<f>> \o s
    BY DEF Pieces
  <1>5. s \in Seq(C \cup {f}) /\ <<f>> \in Seq(C \cup {f})
    BY <1>1
  <1> HIDE DEF s, f, ps
  <1>6. /\ DOMAIN ps = 1..Len(s) + 1 /\ DOMAIN s = 1..Len(s) /\ Len(s) \in Nat
        /\ \A i \in 1..Len(s) + 1 : ps[i] = IF i = 1 THEN f ELSE s[i - 1]
    BY <1>4, <1>5
  <1>7. ASSUME NEW i \in 1..Len(s) + 1
        PROVE  (x.mem.starved \/ Live(x, ps[i].buf)) /\ Old(x, ps[i].buf)
    <2>1. CASE i = 1
      BY <1>2, <1>6, <2>1
    <2>2. CASE i # 1
      <3>1. i - 1 \in DOMAIN s /\ ps[i] = s[i - 1]
        BY <1>6, <2>2
      <3>2. QED  BY <1>2, <1>3, <3>1
    <2>3. QED  BY <2>1, <2>2
  <1>8. DOMAIN ps \subseteq Nat
    BY <1>6
  <1>9. QED  BY <1>6, <1>7, <1>8 DEF ps

LEMMA ReadsAllCalm ==
  ASSUME NEW x, Owned(x), Held(x), NEW ps, DOMAIN ps \subseteq Nat,
         \A i \in DOMAIN ps : x.mem.starved \/ Live(x, ps[i].buf)
  PROVE  LET y == ReadsAll(x, ps) IN Calm(x, y) /\ Owned(y) /\ y.scn = x.scn
  <1> DEFINE bad == {i \in DOMAIN ps : ~Readable(x, ps[i].buf, ps[i].size)}
             p == ps[Min(bad)]
  <1>1. ReadsAll(x, ps) = IF bad = {} THEN x ELSE Reads(x, p.buf, p.size)
    BY DEF ReadsAll
  <1>2. CASE bad = {}
    BY <1>1, <1>2, CalmStays
  <1>3. CASE bad # {}
    <2>1. Min(bad) \in bad
      BY <1>3, MinIn
    <2>2. x.mem.starved \/ Live(x, p.buf)
      BY <2>1
    <2> HIDE DEF p
    <2>3. ReadsAll(x, ps) = Reads(x, p.buf, p.size)
      BY <1>1, <1>3
    <2>4. QED  BY <2>2, <2>3, ReadsCalm
  <1>4. QED  BY <1>2, <1>3

LEMMA compressCalm ==
  ASSUME NEW x, Owned(x), Held(x), NEW force, NEW fail
  PROVE  LET r == compress(x, force, fail) IN Calm(x, r.x) /\ Owned(r.x)
  <1> DEFINE g == elf_getdata(x, fail)
             y == g.x
             z == ReadsAll(y, Pieces(y))
             r == compress(x, force, fail)
             q == Packed(y, Pieces(y), force, fail)
  <1>1. r = IF g.rc = 1 THEN q ELSE g
    BY DEF compress, Then
  <1>2. q.x \in {y, z}
    BY DEF Packed, Rc, Got
  <1>3. Calm(x, y) /\ Owned(y)
    BY elf_getdataCalm
  <1> HIDE DEF r, g, q
  <1>4. Calm(y, z) /\ Owned(z)
    BY <1>3, PiecesLive, ReadsAllCalm DEF Calm
  <1> HIDE DEF z
  <1>5. Calm(x, z)
    BY <1>3, <1>4, CalmTwice
  <1>6. r.x \in {y, z}
    BY <1>1, <1>2
  <1>7. QED  BY <1>3, <1>4, <1>5, <1>6 DEF r

LEMMA decompressCalm ==
  ASSUME NEW x, Owned(x), Held(x), NEW p, x.mem.starved \/ Live(x, p.buf), NEW out, NEW fail
  PROVE  LET r == decompress(x, p, out, fail) IN Calm(x, r.x) /\ Owned(r.x) /\ r.x.scn = x.scn
  <1> DEFINE y == Reads(x, p.buf, p.size)
             r == decompress(x, p, out, fail)
  <1>1. r = Rc(-1, y) \/ \E c : r = Got(Alloc(y, c), Heap(y.mem.top))
    BY DEF decompress
  <1>2. Calm(x, y) /\ Owned(y) /\ y.scn = x.scn
    BY ReadsCalm
  <1> HIDE DEF y, r
  <1>3. CASE r = Rc(-1, y)
    BY <1>2, <1>3 DEF Rc, r
  <1>4. ASSUME NEW c, r = Got(Alloc(y, c), Heap(y.mem.top))
        PROVE  Calm(x, r.x) /\ Owned(r.x) /\ r.x.scn = x.scn
    <2>1. r.x = Alloc(y, c)
      BY <1>4 DEF Got
    <2>2. Calm(y, r.x) /\ Owned(r.x) /\ r.x.scn = y.scn
      BY <1>2, <2>1, AllocCalm DEF Calm
    <2>3. Calm(x, r.x)
      BY <1>2, <2>2, CalmTwice
    <2>4. QED  BY <1>2, <2>2, <2>3
  <1>5. QED  BY <1>1, <1>3, <1>4 DEF r

LEMMA getchdrCalm ==
  ASSUME NEW x, Owned(x), Held(x), NEW fail
  PROVE  LET r == getchdr(x, fail) IN Calm(x, r.x) /\ Owned(r.x)
  <1> DEFINE g == elf_getdata(x, fail)
             y == g.x
             p == y.scn.first.buf
             z == Reads(y, p, HSIZE)
             r == getchdr(x, fail)
  <1>1. \/ r = Rc(-1, x)
        \/ r = g \/ r = Rc(-1, g.x)
        \/ r = Got(z, Pad)
        \/ \E v : r = Got(g.x, v)
    BY DEF getchdr, Then
  <1>2. Calm(x, y) /\ Owned(y)
    BY elf_getdataCalm
  <1>3. Calm(x, x)
    BY CalmStays
  <1> HIDE DEF r, g, p
  <1>4. y.mem.starved \/ Live(y, p)
    BY <1>2 DEF Calm, Held, HeldFirst, p
  <1>5. Calm(y, z) /\ Owned(z)
    BY <1>2, <1>4, ReadsCalm DEF Calm
  <1> HIDE DEF z
  <1>6. Calm(x, z)
    BY <1>2, <1>5, CalmTwice
  <1>7. r.x \in {x, y, z}
    BY <1>1 DEF Rc, Got
  <1>8. QED  BY <1>2, <1>3, <1>5, <1>6, <1>7 DEF r

LEMMA decompress_elfCalm ==
  ASSUME NEW x, Owned(x), Held(x), NEW fail
  PROVE  Calm(x, decompress_elf(x, fail).x)
  <1> DEFINE c == getchdr(x, fail)
             d == decompress(c.x, c.x.scn.first, c.v.size, fail)
             y == [d.x EXCEPT !.scn.zbase = d.v, !.scn.zsize = c.v.size,
                              !.scn.zalign = c.v.align]
             r == decompress_elf(x, fail)
  <1>1. r.x \in {c.x, d.x, y}
    BY DEF decompress_elf, With, Rc, Ok
  <1>2. Calm(x, c.x) /\ Owned(c.x)
    BY getchdrCalm
  <1> HIDE DEF r, c
  <1>3. c.x.mem.starved \/ Live(c.x, c.x.scn.first.buf)
    BY <1>2 DEF Calm, Held, HeldFirst
  <1>4. Calm(c.x, d.x) /\ Owned(d.x)
    BY <1>2, <1>3, decompressCalm DEF Calm
  <1> HIDE DEF d
  <1>5. Calm(x, d.x)
    BY <1>2, <1>4, CalmTwice
  <1>6. Calm(x, y)
    <2>1. /\ y.elf = d.x.elf /\ y.mem = d.x.mem
          /\ y.scn.raw = d.x.scn.raw /\ y.scn.first = d.x.scn.first
          /\ y.scn.rest = d.x.scn.rest /\ y.scn.rear = d.x.scn.rear
      BY <1>4 DEF Owned, Shape, ScnFields
    <2> HIDE DEF y
    <2>2. Frame(x, y) /\ Blocks(y) = Blocks(d.x)
      BY <1>5, <2>1, FrameSame DEF Calm, Blocks
    <2>3. HeldRaw(y) /\ HeldFirst(y)
      BY <1>5, <2>1, <2>2, LiveStays DEF Calm, Held, HeldRaw, HeldFirst, OldFirst, Old
    <2>4. HeldRest(y)
      BY <1>5, <2>1 DEF Calm, Held, HeldRest
    <2>5. QED  BY <1>5, <2>2, <2>3, <2>4 DEF Calm, Held
  <1>7. Calm(x, r.x)
    BY <1>1, <1>2, <1>5, <1>6
  <1>8. QED  BY <1>7 DEF r

-----------------------------------------------------------------------------
(* __libelf_reset_rawdata(), elf_compress() and elf_compress_gnu().        *)

\* From x to y blocks are given up, and nothing else changes.
Gives(x, y) ==
  /\ Shape(y) /\ y.elf = x.elf /\ y.scn = x.scn
  /\ y.mem.top = x.mem.top /\ y.mem.starved = x.mem.starved
  /\ \A b \in Blocks(y) : b \in Blocks(x) /\ y.mem.heap[b] = x.mem.heap[b]
  /\ y.mem.fault = "freed" => x.mem.fault = "freed"

LEMMA FreeGives ==
  ASSUME NEW x, Shape(x), NEW p
  PROVE  Gives(x, Free(x, p))
  <1> DEFINE y == Free(x, p)
             z == [x EXCEPT !.mem.heap = [b \in DOMAIN @ \ {p.b} |-> @[b]]]
  <1>1. y \in {x, z, Hurt(x, "free")}
    BY DEF Free
  <1>2. Gives(x, x)
    BY DEF Gives
  <1>3. Gives(x, z)
    BY DEF Gives, Shape, Blocks
  <1>4. Gives(x, Hurt(x, "free"))
    BY <1>2 DEF Gives, Hurt, Shape, Blocks
  <1> HIDE DEF y, z
  <1>5. Gives(x, y)
    BY <1>1, <1>2, <1>3, <1>4
  <1>6. QED  BY <1>5 DEF y

LEMMA DroppedGives ==
  ASSUME NEW w, Shape(w)
  PROVE  Gives(w, Dropped(w))
  <1> DEFINE v == IF w.scn.database # w.scn.rawbase THEN Free(w, w.scn.database) ELSE w
  <1>1. Gives(w, v)
    BY FreeGives DEF Gives
  <1>2. Dropped(w) \in {v, Free(v, w.scn.rawbase)}
    BY DEF Dropped
  <1> HIDE DEF v
  <1>3. Gives(v, Free(v, w.scn.rawbase))
    BY <1>1, FreeGives DEF Gives
  <1> DEFINE u == Free(v, w.scn.rawbase)
  <1>4. Gives(v, u) /\ Dropped(w) \in {v, u}
    BY <1>2, <1>3
  <1> HIDE DEF u
  <1>5. Gives(w, u)
    BY <1>1, <1>4 DEF Gives
  <1>6. QED  BY <1>1, <1>4, <1>5

\* Blocks may be given up too.
Shaken(x, y) == Held(y) /\ Frame(x, y)

\* The blocks of data are not changed.
SameData(x, w) == w.scn.first = x.scn.first /\ w.scn.rest = x.scn.rest

LEMMA EmptiedHeld ==
  ASSUME NEW x, Owned(x), Held(x), NEW w, Headed(x, w), SameData(x, w), NEW t \in Blocks(x),
         t \in Unclaimed(x) \/ Claims(x, "z", 0, t),
         NEW zbase \in {NULL, Heap(t)}, zbase # NULL => ~w.scn.z,
         NEW size, NEW align, NEW type
  PROVE  LET v == Emptied(w, Heap(t), size, align, type, zbase) IN
         /\ Owned(v) /\ Frame(x, v)
         /\ HeldRaw(v) /\ HeldRest(v) /\ OldFirst(v)
  <1> DEFINE v == Emptied(w, Heap(t), size, align, type, zbase)
             raw == Block(Heap(t), size, align, type)
             d == Dropped(w)
  <1>1. /\ Owned(v) /\ v.elf = x.elf /\ v.mem = d.mem
        /\ v.scn.rear = 0 /\ v.scn.raw = raw /\ v.scn.rawbase = Heap(t)
        /\ v.scn.first = x.scn.first /\ v.scn.rest = x.scn.rest
    BY EmptiedKeeps DEF SameData
  <1>2. Gives(w, d)
    BY DroppedGives DEF Headed
  <1>3. raw.buf = Heap(t) /\ "buf" \in DOMAIN raw
    BY DEF Block
  <1> HIDE DEF v, raw, d
  <1>4. Frame(x, v)
    BY <1>1, <1>2 DEF Frame, Gives, Headed, Blocks, Owned, Fresh
  <1>5. HeldRaw(v)
    BY <1>1, <1>3, BuffersLive DEF HeldRaw
  <1>6. HeldRest(v)
    <2>1. PICK C : x.scn.rest \in Seq(C)
      BY DEF Held, HeldRest, Given
    <2>2. Len(x.scn.rest) \in Nat
      BY <2>1
    <2> HIDE <2>1
    <2>3. 0 \in 0..Len(x.scn.rest) + 1
      BY <2>2
    <2>4. QED  BY <1>1, <2>3 DEF Held, HeldRest
  <1>7. OldFirst(v)
    BY <1>1, <1>2 DEF Held, HeldFirst, OldFirst, Old, Gives, Headed
  <1>8. QED  BY <1>1, <1>4, <1>5, <1>6, <1>7 DEF v

LEMMA reset_rawdataShaken ==
  ASSUME NEW x, Owned(x), NEW z, Owned(z), Calm(x, z),
         NEW w, Headed(z, w), SameData(z, w), NEW t \in Blocks(z),
         t \in Unclaimed(z) \/ Claims(z, "z", 0, t),
         NEW zbase \in {NULL, Heap(t)}, zbase # NULL => ~w.scn.z,
         NEW size, NEW align, NEW type, NEW fail
  PROVE  Shaken(x, reset_rawdata(w, Heap(t), size, align, type, zbase, fail))
  <1> DEFINE v == Emptied(w, Heap(t), size, align, type, zbase)
             y == reset_rawdata(w, Heap(t), size, align, type, zbase, fail)
  <1>1. Held(z)
    BY DEF Calm
  <1>2. /\ Owned(v) /\ Frame(z, v)
        /\ HeldRaw(v) /\ HeldRest(v) /\ OldFirst(v)
    BY <1>1, EmptiedHeld
  <1>3. y = set_data_list(v, fail)
    BY DEF reset_rawdata, Emptied
  <1>4. Owned(y)
    BY reset_rawdataKeeps
  <1> HIDE DEF v, y
  <1>5. Calm(v, y)
    BY <1>2, <1>3, set_data_listCalm
  <1>6. Frame(z, y)
    BY <1>2, <1>4, <1>5, FrameTwice DEF Calm
  <1>7. Frame(x, y)
    BY <1>4, <1>6, FrameTwice DEF Calm
  <1>8. QED  BY <1>5, <1>7 DEF Calm, Shaken, y

LEMMA SameDataAlloc ==
  ASSUME NEW y, Owned(y), NEW c, NEW size, NEW align, NEW z
  PROVE  /\ SameData(Alloc(y, c), [Alloc(y, c) EXCEPT !.scn.size = size])
         /\ SameData(Alloc(y, c), [Alloc(y, c) EXCEPT !.scn.size = size, !.scn.align = align,
                                                      !.scn.z = z])
  <1> DEFINE a == Alloc(y, c)
  <1>1. Shape(a)
    BY AllocIs DEF Owned
  <1> HIDE DEF a
  <1>2. /\ SameData(a, [a EXCEPT !.scn.size = size])
        /\ SameData(a, [a EXCEPT !.scn.size = size, !.scn.align = align, !.scn.z = z])
    BY <1>1 DEF SameData, Shape, ScnFields
  <1>3. QED  BY <1>2 DEF a

\* The contents are replaced by what is in a new block.
LEMMA CompressedShaken ==
  ASSUME NEW x, Owned(x), NEW y, Owned(y), Calm(x, y), NEW c,
         NEW w, Headed(Alloc(y, c), w), SameData(Alloc(y, c), w),
         NEW size, NEW align, NEW type, NEW fail
  PROVE  Shaken(x, reset_rawdata(w, Heap(y.mem.top), size, align, type, NULL, fail))
  <1> DEFINE z == Alloc(y, c)
             t == y.mem.top
  <1>1. Calm(y, z) /\ Owned(z)
    BY AllocCalm DEF Calm
  <1>2. t \in Blocks(z) /\ t \in Unclaimed(z)
    BY AllocFetches DEF Fetches
  <1> HIDE DEF z, t
  <1>3. Calm(x, z)
    BY <1>1, CalmTwice
  <1>4. Headed(z, w) /\ SameData(z, w)
    BY DEF z
  <1>5. Shaken(x, reset_rawdata(w, Heap(t), size, align, type, NULL, fail))
    BY <1>1, <1>2, <1>3, <1>4, reset_rawdataShaken
  <1>6. QED  BY <1>5 DEF t

\* A call that does not replace the contents gives no block up.
Replacing(x, r) == Shaken(x, r.x) /\ (r.rc # 1 => Blocks(x) \subseteq Blocks(r.x))

LEMMA deflateShaken ==
  ASSUME NEW x, Owned(x), Held(x), NEW force, NEW fail
  PROVE  Replacing(x, elf_compress_deflate(x, force, fail))
  <1> DEFINE c == compress(x, force, fail)
             y == c.x
             t == y.mem.top
             r == elf_compress_deflate(x, force, fail)
             Done(cells) == reset_rawdata([Alloc(y, cells) EXCEPT
                              !.scn.size = Len(cells), !.scn.align = CHDR_ALIGN, !.scn.z = TRUE],
                              Heap(t), Len(cells), 1, "CHDR", NULL, fail)
  <1>1. \/ r = Rc(-1, x)
        \/ c.rc # 1 /\ r = Rc(c.rc, c.x)
        \/ c.rc = 1 /\ \E cells : r = Ok(Done(cells))
    BY DEF elf_compress_deflate, With
  <1>2. Calm(x, y) /\ Owned(y)
    BY compressCalm
  <1> HIDE DEF r, c
  <1>3. ASSUME NEW cells
        PROVE  Shaken(x, Done(cells))
    BY <1>2, HeadedAlloc, SameDataAlloc, CompressedShaken
  <1> HIDE DEF Done
  <1>4. Calm(x, x)
    BY CalmStays
  <1>5. QED  BY <1>1, <1>2, <1>3, <1>4 DEF Replacing, Shaken, Calm, Rc, Ok, r

LEMMA gnu_deflateShaken ==
  ASSUME NEW x, Owned(x), Held(x), NEW force, NEW fail
  PROVE  Replacing(x, elf_compress_gnu_deflate(x, force, fail))
  <1> DEFINE c == compress(x, force, fail)
             y == c.x
             t == y.mem.top
             r == elf_compress_gnu_deflate(x, force, fail)
             Done(cells) == reset_rawdata([Alloc(y, cells) EXCEPT !.scn.size = Len(cells)],
                              Heap(t), Len(cells), 1, "BYTE", NULL, fail)
  <1>1. \/ r = Rc(-1, x)
        \/ c.rc # 1 /\ r = Rc(c.rc, c.x)
        \/ c.rc = 1 /\ \E cells : r = Ok(Done(cells))
    BY DEF elf_compress_gnu_deflate, With
  <1>2. Calm(x, y) /\ Owned(y)
    BY compressCalm
  <1> HIDE DEF r, c
  <1>3. ASSUME NEW cells
        PROVE  Shaken(x, Done(cells))
    BY <1>2, HeadedAlloc, SameDataAlloc, CompressedShaken
  <1> HIDE DEF Done
  <1>4. Calm(x, x)
    BY CalmStays
  <1>5. QED  BY <1>1, <1>2, <1>3, <1>4 DEF Replacing, Shaken, Calm, Rc, Ok, r

LEMMA inflateShaken ==
  ASSUME NEW x, Owned(x), Held(x), NEW fail
  PROVE  Replacing(x, elf_compress_inflate(x, fail))
  <1> DEFINE e == IF x.scn.zbase # NULL THEN Ok(x) ELSE decompress_elf(x, fail)
             y == e.x
             w == [y EXCEPT !.scn.size = y.scn.zsize, !.scn.align = y.scn.zalign, !.scn.z = FALSE]
             v == reset_rawdata(w, y.scn.zbase, y.scn.zsize, y.scn.zalign,
                                data_type(y.scn.type), y.scn.zbase, fail)
             r == elf_compress_inflate(x, fail)
  <1>1. \/ r = Rc(-1, x)
        \/ x.scn.z /\ e.rc # 1 /\ r = e
        \/ x.scn.z /\ e.rc = 1 /\ r = Ok(v)
    BY DEF elf_compress_inflate, Then
  <1>2. x.scn.z => /\ Owned(y)
                   /\ e.rc = 1 => \E t : Claims(y, "z", 0, t) /\ y.scn.zbase = Heap(t)
    <2>1. CASE x.scn.z /\ x.scn.zbase # NULL
      <3>1. PICK t : x.scn.zbase = Heap(t)
        BY <2>1 DEF Owned, Buffers, InHeap
      <3>2. x.scn.zbase # x.scn.rawbase
        BY <2>1 DEF Owned, Buffers
      <3>3. Claims(x, "z", 0, t)
        BY <3>1, <3>2 DEF Claims
      <3>4. y = x
        BY <2>1 DEF Ok
      <3> HIDE DEF e
      <3>5. QED  BY <3>1, <3>3, <3>4
    <2>2. CASE x.scn.zbase = NULL
      BY <2>2, decompress_elfKeeps DEF Leaks
    <2>3. QED  BY <2>1, <2>2
  <1>3. Calm(x, y)
    BY decompress_elfCalm, CalmStays DEF Ok
  <1> HIDE DEF e, r
  <1>4. CASE x.scn.z /\ e.rc = 1 /\ r = Ok(v)
    <2>1. PICK t : Claims(y, "z", 0, t) /\ y.scn.zbase = Heap(t)
      BY <1>2, <1>4
    <2>2. Owned(y) /\ t \in Blocks(y)
      BY <1>2, <1>4, <2>1 DEF Owned, Allocated
    <2>3. Headed(y, w) /\ ~w.scn.z /\ SameData(y, w)
      BY <2>2 DEF Headed, SameData, Owned, Shape, ScnFields
    <2>4. v = reset_rawdata(w, Heap(t), y.scn.zsize, y.scn.zalign,
                            data_type(y.scn.type), Heap(t), fail)
      BY <2>1
    <2> HIDE DEF v, w
    <2>5. Shaken(x, v)
      BY <1>3, <2>1, <2>2, <2>3, <2>4, reset_rawdataShaken
    <2>6. QED  BY <1>4, <2>5 DEF Replacing, Ok, r
  <1>5. Calm(x, x)
    BY CalmStays
  <1>6. QED  BY <1>1, <1>3, <1>4, <1>5 DEF Replacing, Shaken, Calm, Rc, r

LEMMA gnu_inflateShaken ==
  ASSUME NEW x, Owned(x), Held(x), NEW fail
  PROVE  Replacing(x, elf_compress_gnu_inflate(x, fail))
  <1> DEFINE g == elf_getdata(x, fail)
             y == g.x
             size == Cells(y, y.scn.first.buf)[1].size
             m == Min({HSIZE, y.scn.first.size})
             d == decompress(y, y.scn.first, size, fail)
             z == d.x
             p == d.v
             w == [z EXCEPT !.scn.size = size]
             v == reset_rawdata(w, p, size, z.scn.align, data_type(z.scn.type), p, fail)
             q == Reads(y, y.scn.first.buf, m)
             r == elf_compress_gnu_inflate(x, fail)
  <1>1. \/ r = Rc(-1, x)
        \/ r = Rc(-1, y) \/ r = Rc(-1, q)
        \/ g.rc # 1 /\ r = g
        \/ d.rc # 1 /\ r = Rc(d.rc, z)
        \/ ~x.scn.z /\ d.rc = 1 /\ r = Ok(v)
    BY DEF elf_compress_gnu_inflate, Then, With
  <1>2. Calm(x, y) /\ Owned(y) /\ Steady(x, y)
    BY elf_getdataCalm, elf_getdataKeeps
  <1> HIDE DEF r, g, size, m
  <1>3. Held(y) /\ (y.mem.starved \/ Live(y, y.scn.first.buf))
    BY <1>2 DEF Calm, Held, HeldFirst
  <1>4. Calm(y, z) /\ Owned(z) /\ Calm(y, q) /\ Owned(q)
    BY <1>2, <1>3, decompressCalm, ReadsCalm
  <1>5. \/ d.rc = -1 /\ Steady(y, z)
        \/ d.rc = 1 /\ \E t : Fetches(y, z, p, t)
    BY <1>2, decompressKeeps DEF Steady
  <1> HIDE DEF d, q
  <1>6. Calm(x, z) /\ Calm(x, q) /\ Calm(x, x)
    BY <1>2, <1>4, CalmTwice, CalmStays
  <1>7. ASSUME ~x.scn.z, d.rc = 1
        PROVE  Shaken(x, v)
    <2>1. PICK t : Fetches(y, z, p, t)
      BY <1>5, <1>7
    <2>2. Headed(z, w) /\ ~w.scn.z /\ SameData(z, w)
      BY <1>2, <1>7, <2>1 DEF Headed, SameData, Fetches, Steady, Owned, Shape, ScnFields
    <2>3. p = Heap(t) /\ t \in Blocks(z) /\ t \in Unclaimed(z)
      BY <2>1 DEF Fetches
    <2>4. v = reset_rawdata(w, Heap(t), size, z.scn.align, data_type(z.scn.type),
                            Heap(t), fail)
      BY <2>3
    <2> HIDE DEF v, w
    <2>5. QED  BY <1>4, <1>6, <2>2, <2>3, <2>4, reset_rawdataShaken
  <1> HIDE DEF v
  <1>8. QED  BY <1>1, <1>2, <1>6, <1>7 DEF Replacing, Shaken, Calm, Rc, Ok, r

-----------------------------------------------------------------------------
(* The other calls.                                                        *)

\* What a string is found in, when it is.
Finds(x, r) == Calm(x, r.x) /\ Owned(r.x) /\ (r.rc = 1 => Old(r.x, r.p))

LEMMA FindsCalm ==
  ASSUME NEW x, Owned(x), Held(x)
  PROVE  Finds(x, Rc(-1, x))
  BY CalmStays DEF Finds, Rc

LEMMA FoundFinds ==
  ASSUME NEW x, Owned(x), Held(x), NEW p, x.mem.starved \/ Live(x, p), Old(x, p),
         NEW off, NEW to
  PROVE  Finds(x, Found(x, p, off, to))
  <1> DEFINE r == Found(x, p, off, to)
             y == Reads(x, p, to)
  <1>1. r.x = y /\ (r.rc = 1 => r.p = p)
    BY DEF Found, Rc
  <1>2. Calm(x, y) /\ Owned(y) /\ y.mem.top = x.mem.top
    BY ReadsCalm
  <1> HIDE DEF y, r
  <1>3. Finds(x, r)
    BY <1>1, <1>2 DEF Finds, Old
  <1>4. QED  BY <1>3 DEF r

LEMMA strptr_atFinds ==
  ASSUME NEW x, Owned(x), Held(x), NEW off, NEW size
  PROVE  Finds(x, strptr_at(x, off, size))
  <1> DEFINE ps == Pieces(x)
             in == {i \in DOMAIN ps : off >= ps[i].off /\ off < ps[i].off + ps[i].size}
             p == ps[Min(in)]
             r == strptr_at(x, off, size)
  <1>1. \/ r = Rc(-1, x)
        \/ r = Found(x, x.scn.zbase, off, size)
        \/ r = Found(x, x.scn.rawbase, off, size)
        \/ in # {} /\ r = Found(x, p.buf, off - p.off, p.size)
    BY DEF strptr_at
  <1>2. in # {} => Min(in) \in DOMAIN ps
    <2>1. in \subseteq DOMAIN ps /\ DOMAIN ps \subseteq Nat
      BY PiecesLive
    <2> HIDE DEF in
    <2>2. in # {} => Min(in) \in in
      BY <2>1, MinIn
    <2>3. QED  BY <2>1, <2>2
  <1>3. in # {} => (x.mem.starved \/ Live(x, p.buf)) /\ Old(x, p.buf)
    BY <1>2, PiecesLive
  <1> HIDE DEF r, p, in
  <1>4. Live(x, x.scn.zbase) /\ Live(x, x.scn.rawbase)
    BY BuffersLive
  <1>5. Old(x, x.scn.zbase) /\ Old(x, x.scn.rawbase)
    BY <1>4, LiveOld
  <1>6. Finds(x, r)
    BY <1>1, <1>3, <1>4, <1>5, FindsCalm, FoundFinds
  <1>7. QED  BY <1>6 DEF r

LEMMA FindsTwice ==
  ASSUME NEW x, Owned(x), NEW y, Owned(y), Calm(x, y), NEW r, Finds(y, r)
  PROVE  Finds(x, r)
  BY CalmTwice DEF Finds

LEMMA strptr_inFinds ==
  ASSUME NEW x, Owned(x), Held(x), NEW off, NEW fail
  PROVE  Finds(x, strptr_in(x, off, fail))
  <1> DEFINE s == IF x.scn.rawbase = NULL /\ ~x.scn.read THEN set_rawdata(x, fail) ELSE Ok(x)
             r == strptr_in(x, off, fail)
  <1>1. \/ r = Rc(-1, x)
        \/ s.rc # 1 /\ r = s
        \/ \E size : r = strptr_at(s.x, off, size)
    BY DEF strptr_in, Then
  <1>2. Calm(x, s.x) /\ Owned(s.x)
    BY set_rawdataCalm, set_rawdataKeeps, CalmStays DEF Ok, Steady
  <1> HIDE DEF r, s
  <1>3. ASSUME NEW size
        PROVE  Finds(x, strptr_at(s.x, off, size))
    <2>1. Finds(s.x, strptr_at(s.x, off, size))
      BY <1>2, strptr_atFinds DEF Calm
    <2> DEFINE q == strptr_at(s.x, off, size)
    <2> HIDE DEF q
    <2>2. Finds(s.x, q)
      BY <2>1 DEF q
    <2>3. Finds(x, q)
      BY <1>2, <2>2, FindsTwice
    <2>4. QED  BY <2>3 DEF q
  <1>4. s.rc # 1 => Finds(x, s)
    BY <1>2 DEF Finds
  <1>5. Finds(x, r)
    BY <1>1, <1>3, <1>4, FindsCalm
  <1>6. QED  BY <1>5 DEF r

LEMMA elf_strptrFinds ==
  ASSUME NEW x, Owned(x), Held(x), NEW off, NEW fail
  PROVE  Finds(x, elf_strptr(x, off, fail))
  <1> DEFINE e == decompress_elf(x, fail)
             r == elf_strptr(x, off, fail)
  <1>1. \/ r = Rc(-1, x)
        \/ r = strptr_in(x, off, fail)
        \/ /\ x.scn.zbase = NULL
           /\ \/ e.rc # 1 /\ r = e
              \/ r = strptr_in(e.x, off, fail)
    BY DEF elf_strptr, get_zdata, Then
  <1>2. x.scn.zbase = NULL => Calm(x, e.x) /\ Owned(e.x)
    BY decompress_elfCalm, decompress_elfKeeps DEF Leaks
  <1> HIDE DEF r, e
  <1>3. Finds(x, strptr_in(x, off, fail))
    BY strptr_inFinds
  <1> DEFINE q == strptr_in(e.x, off, fail)
  <1>4. x.scn.zbase = NULL => Finds(e.x, q)
    BY <1>2, strptr_inFinds DEF Calm
  <1> HIDE DEF q
  <1>5. x.scn.zbase = NULL => Finds(x, q)
    BY <1>2, <1>4, FindsTwice
  <1>6. Finds(x, r)
    BY <1>1, <1>2, <1>3, <1>5, FindsCalm DEF Finds, q
  <1>7. QED  BY <1>6 DEF r

\* The blocks that were added are put in other places.
LEMMA GivenMoved ==
  ASSUME NEW s, Given(s), NEW o, NEW rest,
         rest = [i \in DOMAIN s |-> [s[i] EXCEPT !.off = o[i]]]
  PROVE  Given(rest) /\ Len(rest) = Len(s)
  <1>1. PICK C : s \in Seq(C)
    BY DEF Given
  <1>2. DOMAIN s = 1..Len(s) /\ Len(s) \in Nat
    BY <1>1
  <1>3. \A i \in DOMAIN s : "buf" \in DOMAIN rest[i] /\ rest[i].buf = s[i].buf
    BY DEF Given
  <1>4. rest = [i \in 1..Len(s) |-> rest[i]]
    BY <1>2
  <1>5. rest \in [1..Len(s) -> {rest[i] : i \in 1..Len(s)}]
    BY <1>4
  <1>6. rest \in Seq({rest[i] : i \in 1..Len(s)}) /\ Len(rest) = Len(s) /\ DOMAIN rest = 1..Len(s)
    BY <1>2, <1>5
  <1>7. QED  BY <1>2, <1>3, <1>6 DEF Given

\* The sizes and places of the blocks are changed, not where they are.
Moved(y, l) ==
  /\ l.elf = y.elf /\ l.mem = y.mem
  /\ "buf" \in DOMAIN l.scn.raw /\ l.scn.raw.buf = y.scn.raw.buf
  /\ "buf" \in DOMAIN l.scn.first /\ l.scn.first.buf = y.scn.first.buf
  /\ l.scn.rear = y.scn.rear
  /\ Given(l.scn.rest) /\ Len(l.scn.rest) = Len(y.scn.rest)

LEMMA MovedCalm ==
  ASSUME NEW y, Owned(y), Held(y), NEW l, Moved(y, l)
  PROVE  Calm(y, l)
  <1>1. Frame(y, l)
    BY FrameStays, FrameSame DEF Moved
  <1>2. Blocks(l) = Blocks(y)
    BY DEF Moved, Blocks
  <1>3. HeldRaw(l)
    BY <1>2, LiveStays DEF Held, HeldRaw, Moved
  <1>4. HeldRest(l)
    BY DEF Held, HeldRest, Moved
  <1>5. HeldFirst(l)
    BY <1>2, LiveStays DEF Held, HeldFirst, OldFirst, Old, Moved
  <1>6. QED  BY <1>1, <1>2, <1>3, <1>4, <1>5 DEF Calm, Held

LEMMA MovedIs ==
  ASSUME NEW y, Owned(y), Held(y), NEW a, NEW n, NEW f, NEW o, NEW rest,
         Given(rest), Len(rest) = Len(y.scn.rest)
  PROVE  /\ Moved(y, [y EXCEPT !.scn.align = a, !.scn.size = n])
         /\ Moved(y, [y EXCEPT !.scn.first.off = f, !.scn.raw.off = o, !.scn.rest = rest,
                               !.scn.align = a, !.scn.size = n])
  <1>1. DOMAIN y = {"elf", "scn", "mem"} /\ DOMAIN y.scn = ScnFields
    BY DEF Owned, Shape
  <1>2. /\ "buf" \in DOMAIN y.scn.raw /\ "buf" \in DOMAIN y.scn.first /\ Given(y.scn.rest)
    BY DEF Held, HeldRaw, HeldFirst, OldFirst, HeldRest
  <1>3. Moved(y, [y EXCEPT !.scn.align = a, !.scn.size = n])
    BY <1>1, <1>2 DEF Moved, ScnFields
  <1>4. Moved(y, [y EXCEPT !.scn.first.off = f, !.scn.raw.off = o, !.scn.rest = rest,
                           !.scn.align = a, !.scn.size = n])
    <2> DEFINE first == [y.scn.first EXCEPT !.off = f]
               raw == [y.scn.raw EXCEPT !.off = o]
               s == [y.scn EXCEPT !.first = first, !.raw = raw, !.rest = rest,
                                  !.align = a, !.size = n]
    <2>1. /\ "buf" \in DOMAIN raw /\ raw.buf = y.scn.raw.buf
          /\ "buf" \in DOMAIN first /\ first.buf = y.scn.first.buf
      BY <1>2
    <2>2. [y EXCEPT !.scn.first.off = f, !.scn.raw.off = o, !.scn.rest = rest,
                    !.scn.align = a, !.scn.size = n] = [y EXCEPT !.scn = s]
      BY <1>1 DEF ScnFields
    <2> HIDE DEF first, raw
    <2>3. s.first = first /\ s.raw = raw /\ s.rest = rest /\ s.rear = y.scn.rear
      BY <1>1 DEF ScnFields
    <2> HIDE DEF s
    <2>4. Moved(y, [y EXCEPT !.scn = s])
      BY <1>1, <2>1, <2>3 DEF Moved
    <2>5. QED  BY <2>2, <2>4
  <1>5. QED  BY <1>3, <1>4

LEMMA updatenullCalm ==
  ASSUME NEW x, Owned(x), Held(x), NEW moved, NEW fail
  PROVE  LET r == updatenull_scn(x, moved, fail) IN Calm(x, r.x) /\ Owned(r.x)
  <1> DEFINE Lay(y) ==
               IF y.scn.rear = 0
               THEN [y EXCEPT !.scn.align = AlignOf(@), !.scn.size = y.scn.raw.size]
               ELSE LET instead == y.scn.first.buf = NULL /\ y.scn.raw.buf # NULL
                        ps == <<FirstBlock(y)>> \o y.scn.rest
                        end == Ends(ps) IN
                    [y EXCEPT !.scn.first.off = IF instead THEN @ ELSE 0,
                              !.scn.raw.off = IF instead THEN 0 ELSE @,
                              !.scn.rest = [i \in DOMAIN @ |->
                                 [@[i] EXCEPT !.off = Up(end[i], y.scn.rest[i].align)]],
                              !.scn.align = Larger(AlignOf(@), Aligned(ps)),
                              !.scn.size = end[Len(ps)]]
             s == IF ~PowerOf2(AlignOf(x.scn.align)) THEN Rc(-1, x)
                  ELSE IF x.scn.read THEN Ok(x) ELSE set_rawdata(x, fail)
             y == s.x
             l == Lay(y)
             g == IF moved THEN elf_getdata(l, fail) ELSE Ok(l)
             h == getchdr(g.x, fail)
             r == updatenull_scn(x, moved, fail)
  <1>1. r.x \in {y, g.x, h.x}
    BY DEF updatenull_scn, Then, Rc, Ok
  <1>2. Calm(x, y) /\ Owned(y)
    BY set_rawdataCalm, set_rawdataKeeps, CalmStays DEF Ok, Rc, Steady
  <1> HIDE DEF r, s
  <1>3. Held(y)
    BY <1>2 DEF Calm
  <1>4. Calm(y, l) /\ Owned(l)
    <2>1. CASE y.scn.rear = 0
      <3>1. l = [y EXCEPT !.scn.align = AlignOf(@), !.scn.size = y.scn.raw.size]
        BY <2>1
      <3> HIDE DEF l
      <3>2. Given(y.scn.rest)
        BY <1>3 DEF Held, HeldRest
      <3>3. Moved(y, l) /\ Laid(y, l)
        BY <1>2, <1>3, <3>1, <3>2, MovedIs, LaidIs
      <3>4. QED  BY <1>2, <1>3, <3>3, MovedCalm, LaidKeeps DEF Steady
    <2>2. CASE y.scn.rear # 0
      <3> DEFINE instead == y.scn.first.buf = NULL /\ y.scn.raw.buf # NULL
                 ps == <<FirstBlock(y)>> \o y.scn.rest
                 end == Ends(ps)
                 f == IF instead THEN y.scn.first.off ELSE 0
                 o == IF instead THEN 0 ELSE y.scn.raw.off
                 rest == [i \in DOMAIN y.scn.rest |->
                            [y.scn.rest[i] EXCEPT !.off = Up(end[i], y.scn.rest[i].align)]]
                 a == Larger(AlignOf(y.scn.align), Aligned(ps))
                 n == end[Len(ps)]
                 to == [i \in DOMAIN y.scn.rest |-> Up(end[i], y.scn.rest[i].align)]
      <3>1. l = [y EXCEPT !.scn.first.off = f, !.scn.raw.off = o, !.scn.rest = rest,
                          !.scn.align = a, !.scn.size = n]
        BY <2>2
      <3>2. rest = [i \in DOMAIN y.scn.rest |-> [y.scn.rest[i] EXCEPT !.off = to[i]]]
        OBVIOUS
      <3> HIDE DEF l, f, o, rest, a, n, to
      <3>3. Given(rest) /\ Len(rest) = Len(y.scn.rest)
        <4>1. Given(y.scn.rest)
          BY <1>3 DEF Held, HeldRest
        <4>2. Given(rest)
          BY <3>2, <4>1, GivenMoved
        <4>3. Len(rest) = Len(y.scn.rest)
          BY <3>2, <4>1, GivenMoved
        <4>4. QED  BY <4>2, <4>3
      <3>4. Moved(y, l) /\ Laid(y, l)
        BY <1>2, <1>3, <3>1, <3>3, MovedIs, LaidIs
      <3>5. QED  BY <1>2, <1>3, <3>4, MovedCalm, LaidKeeps DEF Steady
    <2>3. QED  BY <2>1, <2>2
  <1> HIDE DEF l
  <1>5. Calm(l, g.x) /\ Owned(g.x)
    BY <1>4, elf_getdataCalm, CalmStays DEF Ok, Calm
  <1> HIDE DEF g
  <1>6. Calm(g.x, h.x) /\ Owned(h.x)
    BY <1>5, getchdrCalm DEF Calm
  <1> HIDE DEF h
  <1>7. Calm(x, l)
    BY <1>2, <1>4, CalmTwice
  <1>8. Calm(x, g.x)
    BY <1>4, <1>5, <1>7, CalmTwice
  <1>9. Calm(x, h.x)
    BY <1>5, <1>6, <1>8, CalmTwice
  <1>10. QED  BY <1>1, <1>2, <1>5, <1>6, <1>8, <1>9 DEF r

\* A chunk is linked to the list of them, and holds what it is to hold.
ChunksRight(x) ==
  \A i \in DOMAIN x.elf.chunks : Cells(x, x.elf.chunks[i].buf) = x.elf.chunks[i].due
Marks(w, z) ==
  /\ z.scn = w.scn /\ z.mem = w.mem /\ z.elf.cells = w.elf.cells
  /\ z.elf.chunks = w.elf.chunks \/ ChunksRight(z)

LEMMA CellsAt ==
  ASSUME NEW x, NEW p
  PROVE  /\ p.at = "map" => Cells(x, p) = x.elf.cells
         /\ p.at = "user" => Cells(x, p) = p.c
  <1>1. ASSUME p.at = "map"
        PROVE  Cells(x, p) = x.elf.cells
    <2>1. p.at # "user" /\ ~Owns(x, p)
      BY <1>1 DEF Owns
    <2>2. QED  BY <1>1, <2>1 DEF Cells
  <1>2. ASSUME p.at = "user"
        PROVE  Cells(x, p) = p.c
    <2>1. p.at # "map" /\ ~Owns(x, p)
      BY <1>2 DEF Owns
    <2>2. QED  BY <1>2, <2>1 DEF Cells
  <1>3. QED  BY <1>1, <1>2

LEMMA rawchunkMarks ==
  ASSUME NEW x, Owned(x), Held(x), Len(x.elf.chunks) < 1, NEW type, NEW fail
  PROVE  \E w : Calm(x, w) /\ Owned(w) /\ Marks(w, elf_getdata_rawchunk(x, type, fail).x)
  <1> DEFINE cells == IF x.elf.native THEN x.elf.cells ELSE Convert(x.elf.cells, type)
             Chunk(y, p) == [Alloc(y, << >>) EXCEPT
                               !.elf.chunks = <<[buf |-> p, node |-> Heap(y.mem.top),
                                                 due |-> cells]>> \o @]
             a == Alloc(x, cells)
             t == x.mem.top
             r == elf_getdata_rawchunk(x, type, fail)
  <1>1. \/ r.x = x
        \/ r.x = Chunk(a, Heap(t))
        \/ r.x = Chunk(x, InMap) /\ cells = x.elf.cells
    BY DEF elf_getdata_rawchunk, Rc, Ok
  <1>2. x.elf.chunks = << >>
    BY DEF Owned, Lists
  <1>3. /\ Calm(x, a) /\ Owned(a) /\ a.elf = x.elf /\ a.mem.heap[t] = cells /\ t \in Blocks(a)
        /\ a.mem.top = t + 1 /\ t \in Nat
    BY AllocCalm, AllocFrame DEF Owned, Fresh
  <1> HIDE DEF r, cells, a
  <1>4. ASSUME NEW y, Owned(y), Calm(x, y), y.elf = x.elf, NEW p,
               (p = InMap /\ cells = x.elf.cells)
                 \/ (p = Heap(t) /\ t \in Blocks(y) /\ y.mem.heap[t] = cells /\ t < y.mem.top)
        PROVE  \E w : Calm(x, w) /\ Owned(w) /\ Marks(w, Chunk(y, p))
    <2> DEFINE w == Alloc(y, << >>)
               chunk == [buf |-> p, node |-> Heap(y.mem.top), due |-> cells]
               z == Chunk(y, p)
    <2>1. /\ Calm(y, w) /\ Owned(w) /\ Frame(y, w) /\ Shape(w) /\ w.elf = y.elf
          /\ Blocks(y) \subseteq Blocks(w)
      BY <1>4, AllocCalm, AllocFrame, AllocIs DEF Calm, Owned
    <2>2. z = [w EXCEPT !.elf.chunks = <<chunk>> \o @]
      OBVIOUS
    <2>3. chunk.buf = p /\ chunk.due = cells
      OBVIOUS
    <2>4. <<chunk>> \o << >> = <<chunk>>
      OBVIOUS
    <2>5. DOMAIN <<chunk>> = {1} /\ <<chunk>>[1] = chunk
      OBVIOUS
    <2> HIDE DEF w, chunk, z
    <2>6. /\ z.scn = w.scn /\ z.mem = w.mem /\ z.elf.cells = w.elf.cells
          /\ z.elf.chunks = <<chunk>>
      BY <1>2, <1>4, <2>1, <2>2, <2>4 DEF Shape
    <2>7. Cells(z, p) = cells
      <3>1. CASE p = InMap /\ cells = x.elf.cells
        <4>1. p.at = "map"
          BY <3>1, Pointers2
        <4>2. Cells(z, p) = z.elf.cells
          BY <4>1, CellsAt
        <4>3. z.elf.cells = x.elf.cells
          BY <1>4, <2>1, <2>6
        <4>4. QED  BY <3>1, <4>2, <4>3
      <3>2. CASE p = Heap(t) /\ t \in Blocks(y) /\ y.mem.heap[t] = cells /\ t < y.mem.top
        <4>1. t \in Blocks(w) /\ w.mem.heap[t] = cells
          BY <2>1, <3>2 DEF Frame
        <4>2. Owns(z, p) /\ p.at = "heap" /\ p.b = t
          BY <2>6, <3>2, <4>1, Pointers2 DEF Owns, Blocks
        <4>3. QED  BY <2>6, <4>1, <4>2 DEF Cells
      <3>3. QED  BY <1>4, <3>1, <3>2
    <2>8. ChunksRight(z)
      BY <2>3, <2>5, <2>6, <2>7 DEF ChunksRight
    <2>9. Calm(x, w)
      BY <1>4, <2>1, CalmTwice
    <2>10. QED  BY <2>1, <2>6, <2>8, <2>9 DEF Marks, z
  <1>5. Calm(x, x)
    BY CalmStays
  <1>6. CASE r.x = x
    BY <1>5, <1>6 DEF Marks, r
  <1>7. CASE r.x = Chunk(a, Heap(t))
    <2>1. \E w : Calm(x, w) /\ Owned(w) /\ Marks(w, Chunk(a, Heap(t)))
      BY <1>3, <1>4
    <2>2. QED  BY <1>7, <2>1 DEF r
  <1>8. CASE r.x = Chunk(x, InMap) /\ cells = x.elf.cells
    <2>1. \E w : Calm(x, w) /\ Owned(w) /\ Marks(w, Chunk(x, InMap))
      BY <1>4, <1>5, <1>8
    <2>2. QED  BY <1>8, <2>1 DEF r
  <1>9. QED  BY <1>1, <1>6, <1>7, <1>8

\* What is read at a pointer stays while the block is not given up.
LEMMA CellsStay ==
  ASSUME NEW x, Owned(x), NEW y, Frame(x, y), NEW p, Old(x, p),
         \A b : p = Heap(b) /\ b \in Blocks(x) => b \in Blocks(y)
  PROVE  Cells(y, p) = Cells(x, p)
  <1>1. y.elf.cells = x.elf.cells
    BY DEF Frame
  <1>2. CASE p = NULL
    BY <1>2, Pointers2 DEF Cells, Owns
  <1>3. CASE p = InMap
    BY <1>1, <1>3, Pointers2 DEF Cells
  <1>4. CASE IsUser(p)
    <2>1. p.at = "user"
      BY <1>4, Pointers2 DEF IsUser
    <2>2. Cells(y, p) = p.c /\ Cells(x, p) = p.c
      BY <2>1, CellsAt
    <2>3. QED  BY <2>2
  <1>5. ASSUME NEW b \in Nat, p = Heap(b), b < x.mem.top
        PROVE  Cells(y, p) = Cells(x, p)
    <2>1. p.at = "heap" /\ p.b = b /\ (Owns(x, p) <=> b \in Blocks(x))
          /\ (Owns(y, p) <=> b \in Blocks(y))
      BY <1>5, Pointers1
    <2>2. CASE b \in Blocks(x)
      <3>1. b \in Blocks(y)
        BY <1>5, <2>2
      <3>2. y.mem.heap[b] = x.mem.heap[b]
        BY <1>5, <3>1 DEF Frame
      <3>3. QED  BY <2>1, <2>2, <3>1, <3>2 DEF Cells
    <2>3. CASE b \notin Blocks(x)
      <3>1. b \notin Blocks(y)
        BY <1>5, <2>3 DEF Frame
      <3>2. QED  BY <2>1, <2>3, <3>1 DEF Cells
    <2>4. QED  BY <2>2, <2>3
  <1>6. QED  BY <1>2, <1>3, <1>4, <1>5 DEF Old

LEMMA ChunksKept ==
  ASSUME NEW x, Owned(x), ChunksRight(x), NEW y, Owned(y), Frame(x, y)
  PROVE  ChunksRight(y)
  <1>1. y.elf.chunks = x.elf.chunks
    BY DEF Frame
  <1>2. ASSUME NEW i \in DOMAIN x.elf.chunks
        PROVE  Cells(y, x.elf.chunks[i].buf) = x.elf.chunks[i].due
    <2> DEFINE p == x.elf.chunks[i].buf
    <2>1. p = InMap \/ \E b : p = Heap(b)
      BY DEF Owned, Lists, InHeap
    <2>2. \A b : p = Heap(b) => Claims(x, "buffer", i, b) /\ Claims(y, "buffer", i, b)
      BY <1>1 DEF Claims
    <2>3. \A b : p = Heap(b) => b \in Blocks(x) /\ b \in Blocks(y)
      BY <2>2 DEF Owned, Allocated
    <2>4. \A b : p = Heap(b) => b \in Nat /\ b < x.mem.top
      BY <2>3 DEF Owned, Fresh
    <2> HIDE DEF p
    <2>5. Old(x, p)
      BY <2>1, <2>4 DEF Old
    <2>6. Cells(y, p) = Cells(x, p)
      BY <2>3, <2>5, CellsStay
    <2>7. QED  BY <2>6 DEF p, ChunksRight
  <1>3. QED  BY <1>1, <1>2 DEF ChunksRight

-----------------------------------------------------------------------------
(* The actions.                                                            *)

\* The blocks can be read, what was given out is what it is to be, and no
\* block that was given up is read.
Reading ==
  /\ elf.open => Held(X) /\ ChunksRight(X)
  /\ Old(X, str.p)
  /\ ReadsLive /\ StringStays

LEMMA CellsSame ==
  ASSUME NEW w, NEW z, z.mem = w.mem, z.elf.cells = w.elf.cells
  PROVE  \A p : Cells(z, p) = Cells(w, p)
  BY DEF Cells, Owns

LEMMA HeldSame ==
  ASSUME NEW w, NEW z, z.scn = w.scn, z.mem = w.mem
  PROVE  /\ Held(w) <=> Held(z)
         /\ \A p : Old(w, p) <=> Old(z, p)
  <1>1. \A p : (Old(w, p) <=> Old(z, p)) /\ (Live(w, p) <=> Live(z, p))
    BY DEF Old, Live, Blocks
  <1>2. HeldRaw(w) <=> HeldRaw(z)
    BY <1>1 DEF HeldRaw
  <1>3. HeldRest(w) <=> HeldRest(z)
    BY DEF HeldRest
  <1>4. HeldFirst(w) <=> HeldFirst(z)
    BY <1>1 DEF HeldFirst, OldFirst
  <1>5. QED  BY <1>1, <1>2, <1>3, <1>4 DEF Held

LEMMA OldStays ==
  ASSUME NEW x, Owned(x), NEW w, Owned(w), Frame(x, w), NEW p, Old(x, p)
  PROVE  Old(w, p)
  BY DEF Old, Frame, Owned, Fresh

\* A call leaves x, which is w but for a chunk, and a string that is void, the
\* one before, or one that is read in w.
LEMMA ReadsStep ==
  ASSUME IInv, Reading, elf.open, mem.fault = "",
         NEW CONSTANT w, Owned(w), Shaken(X, w), NEW CONSTANT x, Marks(w, x),
         elf' = x.elf, scn' = x.scn, mem' = x.mem,
         \/ str'.p = NULL
         \/ str' = str /\ Blocks(X) \subseteq Blocks(w)
         \/ Old(w, str'.p) /\ str'.s = StringAt(Cells(w, str'.p), str'.off)
  PROVE  Reading'
  <1> DEFINE y == [elf |-> x.elf, scn |-> x.scn, mem |-> x.mem]
  <1>1. X' = y
    BY DEF X
  <1>2. /\ y.elf = x.elf /\ y.scn = w.scn /\ y.mem = w.mem
        /\ y.elf.cells = w.elf.cells
    BY DEF Marks
  <1> HIDE DEF y
  <1>3. Owned(X) /\ Held(X) /\ ChunksRight(X)
    BY OpenOwned DEF Reading
  <1>4. Held(y) /\ \A p : Cells(y, p) = Cells(w, p)
    BY <1>2, HeldSame, CellsSame DEF Shaken
  <1>5. ChunksRight(y)
    <2>1. CASE x.elf.chunks = w.elf.chunks
      <3>1. ChunksRight(w)
        BY <1>3, ChunksKept DEF Shaken
      <3>2. QED  BY <1>2, <1>4, <2>1, <3>1 DEF ChunksRight
    <2>2. CASE ChunksRight(x)
      <3>1. \A p : Cells(y, p) = Cells(x, p)
        BY <1>2, CellsSame DEF Marks
      <3>2. QED  BY <1>2, <2>2, <3>1 DEF ChunksRight
    <2>3. QED  BY <2>1, <2>2 DEF Marks
  <1>6. mem'.fault = "freed" => mem'.starved
    <2>1. X.mem.fault # "freed"
      <3>1. "" # "freed"
        BY Zenon
      <3>2. QED  BY <3>1 DEF X
    <2>2. w.mem.fault = "freed" => w.mem.starved
      BY <2>1 DEF Shaken, Frame
    <2>3. mem' = w.mem
      BY DEF Marks
    <2>4. QED  BY <2>2, <2>3
  <1>7. Old(y, str'.p) /\ (str'.p # NULL => StringAt(Cells(y, str'.p), str'.off) = str'.s)
    <2>1. CASE str'.p = NULL
      BY <2>1 DEF Old
    <2>2. CASE str' = str /\ Blocks(X) \subseteq Blocks(w)
      <3>1. Old(X, str.p) /\ Frame(X, w)
        BY DEF Reading, Shaken
      <3>2. Old(y, str.p)
        BY <1>2, <1>3, <3>1, OldStays, HeldSame
      <3>3. Cells(y, str.p) = Cells(X, str.p)
        <4>1. \A b : str.p = Heap(b) /\ b \in Blocks(X) => b \in Blocks(w)
          BY <2>2
        <4> DEFINE p == str.p
                   v == X
        <4> HIDE DEF p, v
        <4>2. Owned(v) /\ Frame(v, w) /\ Old(v, p)
          BY <1>3, <3>1 DEF p, v
        <4>3. \A b : p = Heap(b) /\ b \in Blocks(v) => b \in Blocks(w)
          BY <4>1 DEF p, v
        <4>4. Cells(w, p) = Cells(v, p)
          BY <4>2, <4>3, CellsStay
        <4>5. Cells(y, p) = Cells(w, p)
          BY <1>4
        <4>6. QED  BY <4>4, <4>5 DEF p, v
      <3>4. str.p # NULL => StringAt(Cells(X, str.p), str.off) = str.s
        BY DEF Reading, StringStays
      <3>5. QED  BY <2>2, <3>2, <3>3, <3>4
    <2>3. CASE Old(w, str'.p) /\ str'.s = StringAt(Cells(w, str'.p), str'.off)
      BY <1>2, <1>4, <2>3, HeldSame
    <2>4. QED  BY <2>1, <2>2, <2>3
  <1>8. ReadsLive' /\ StringStays'
    <2>1. ReadsLive'
      BY <1>6 DEF ReadsLive
    <2>2. StringStays'
      BY <1>1, <1>7 DEF StringStays
    <2>3. QED  BY <2>1, <2>2
  <1>9. Old(X, str.p)'
    BY <1>1, <1>7
  <1>10. Held(X)' /\ ChunksRight(X)'
    BY <1>1, <1>4, <1>5
  <1>11. QED  BY <1>8, <1>9, <1>10 DEF Reading

\* A call that leaves the string and gives no block up.
LEMMA QuietStep ==
  ASSUME IInv, Reading, NEW CONSTANT op, NEW CONSTANT fail, NEW CONSTANT r,
         Call(op, fail, r), str' = str, Calm(X, r.x), Owned(r.x)
  PROVE  Reading'
  <1>1. elf.open /\ mem.fault = "" /\ elf' = r.x.elf /\ scn' = r.x.scn /\ mem' = r.x.mem
    BY DEF Call
  <1>2. Shaken(X, r.x) /\ Blocks(X) \subseteq Blocks(r.x) /\ Marks(r.x, r.x)
    BY DEF Calm, Shaken, Marks
  <1>3. QED  BY <1>1, <1>2, ReadsStep

LEMMA OpenReading ==
  ASSUME IInv, Reading, elf.open
  PROVE  Owned(X) /\ Linked(X) /\ Held(X) /\ ChunksRight(X)
  BY OpenOwned DEF Reading

LEMMA GetDataReads ==
  ASSUME IInv, Reading, NEW CONSTANT f, GetData(f)
  PROVE  Reading'
  <1> DEFINE r == elf_getdata(X, f)
  <1>1. elf.open /\ Call("getdata", f, r) /\ str' = str
    BY DEF GetData, Looks, Call
  <1>2. Calm(X, r.x) /\ Owned(r.x)
    BY <1>1, OpenReading, elf_getdataCalm
  <1> HIDE DEF r
  <1>3. QED  BY <1>1, <1>2, QuietStep

LEMMA RawDataReads ==
  ASSUME IInv, Reading, NEW CONSTANT f, RawData(f)
  PROVE  Reading'
  <1> DEFINE r == elf_rawdata(X, f)
  <1>1. elf.open /\ Call("rawdata", f, r) /\ str' = str
    BY DEF RawData, Looks, Call
  <1>2. Calm(X, r.x) /\ Owned(r.x)
    BY <1>1, OpenReading, elf_rawdataCalm, elf_rawdataKeeps DEF Steady
  <1> HIDE DEF r
  <1>3. QED  BY <1>1, <1>2, QuietStep

LEMMA GetChdrReads ==
  ASSUME IInv, Reading, NEW CONSTANT f, GetChdr(f)
  PROVE  Reading'
  <1> DEFINE r == getchdr(X, f)
  <1>1. elf.open /\ Call("getchdr", f, r) /\ str' = str
    BY DEF GetChdr, Looks, Call
  <1>2. Calm(X, r.x) /\ Owned(r.x)
    BY <1>1, OpenReading, getchdrCalm
  <1> HIDE DEF r
  <1>3. QED  BY <1>1, <1>2, QuietStep

LEMMA UpdateNullReads ==
  ASSUME IInv, Reading, NEW CONSTANT moved, NEW CONSTANT f, UpdateNull(moved, f)
  PROVE  Reading'
  <1> DEFINE r == updatenull_scn(X, moved, f)
  <1>1. elf.open /\ Call("update", f, r) /\ str' = str
    BY DEF UpdateNull, Looks, Call
  <1>2. Calm(X, r.x) /\ Owned(r.x)
    BY <1>1, OpenReading, updatenullCalm
  <1> HIDE DEF r
  <1>3. QED  BY <1>1, <1>2, QuietStep

LEMMA RawChunkReads ==
  ASSUME IInv, Reading, NEW CONSTANT type, NEW CONSTANT f, RawChunk(type, f)
  PROVE  Reading'
  <1> DEFINE r == elf_getdata_rawchunk(X, type, f)
  <1>1. /\ elf.open /\ mem.fault = "" /\ Len(X.elf.chunks) < 1 /\ str' = str
        /\ elf' = r.x.elf /\ scn' = r.x.scn /\ mem' = r.x.mem
    BY DEF RawChunk, Looks, Call, X
  <1>2. \E w : Calm(X, w) /\ Owned(w) /\ Marks(w, r.x)
    BY <1>1, OpenReading, rawchunkMarks
  <1> HIDE DEF r
  <1>3. PICK w : Calm(X, w) /\ Owned(w) /\ Marks(w, r.x)
    BY <1>2
  <1>4. Shaken(X, w) /\ Blocks(X) \subseteq Blocks(w)
    BY <1>3 DEF Calm, Shaken
  <1>5. QED  BY <1>1, <1>3, <1>4, ReadsStep

\* The whole file is read in: the section stays as it is.
LEMMA ReadAllReads ==
  ASSUME IInv, Reading, ReadAll
  PROVE  Reading'
  <1> DEFINE x == readall(X)
  <1>1. /\ elf.open /\ mem.fault = "" /\ str' = str
        /\ elf' = x.elf /\ scn' = x.scn /\ mem' = x.mem
    BY DEF ReadAll, Call, Ok
  <1>2. Owned(X) /\ Calm(X, X)
    BY <1>1, OpenReading, CalmStays
  <1>3. x = X \/ x = [X EXCEPT !.elf.mapped = TRUE]
    BY DEF readall
  <1> HIDE DEF x
  <1>4. Marks(X, x)
    BY <1>2, <1>3 DEF Marks, Owned, Shape
  <1>5. Shaken(X, X)
    BY <1>2 DEF Calm, Shaken
  <1>6. QED  BY <1>1, <1>2, <1>4, <1>5, ReadsStep

\* A call that replaces the contents, unless it fails.
LEMMA ReplacesReads ==
  ASSUME IInv, Reading, NEW CONSTANT op, NEW CONSTANT f, NEW CONSTANT r, Replaces(op, f, r),
         Replacing(X, r), Owned(r.x)
  PROVE  Reading'
  <1>1. /\ elf.open /\ mem.fault = "" /\ elf' = r.x.elf /\ scn' = r.x.scn /\ mem' = r.x.mem
    BY DEF Replaces, Call
  <1>2. str' = NoStr \/ (str' = str /\ r.rc # 1)
    BY DEF Replaces
  <1>3. str'.p = NULL \/ (str' = str /\ Blocks(X) \subseteq Blocks(r.x))
    BY <1>2 DEF NoStr, Replacing
  <1>4. Shaken(X, r.x) /\ Marks(r.x, r.x)
    BY DEF Replacing, Marks
  <1>5. QED  BY <1>1, <1>3, <1>4, ReadsStep

LEMMA CompressReads ==
  ASSUME IInv, Reading, NEW CONSTANT type, NEW CONSTANT force, NEW CONSTANT f,
         elf_compress(type, force, f)
  PROVE  Reading'
  <1>1. CASE type = "ZLIB"
    <2> DEFINE r == elf_compress_deflate(X, force, f)
    <2>1. Replaces("deflate", f, r) /\ elf.open
      BY <1>1 DEF elf_compress, Replaces, Call
    <2>2. Replacing(X, r)
      BY <2>1, OpenReading, deflateShaken
    <2>3. Owned(r.x)
      BY <2>1, OpenReading, deflateKeeps DEF Renews, Leaks
    <2> HIDE DEF r
    <2>4. QED  BY <2>1, <2>2, <2>3, ReplacesReads
  <1>2. CASE type # "ZLIB"
    <2> DEFINE r == elf_compress_inflate(X, f)
    <2>1. Replaces("inflate", f, r) /\ elf.open
      BY <1>2 DEF elf_compress, Replaces, Call
    <2>2. Replacing(X, r)
      BY <2>1, OpenReading, inflateShaken
    <2>3. Owned(r.x)
      BY <2>1, OpenReading, inflateKeeps DEF Renews, Leaks
    <2> HIDE DEF r
    <2>4. QED  BY <2>1, <2>2, <2>3, ReplacesReads
  <1>3. QED  BY <1>1, <1>2

LEMMA CompressGnuReads ==
  ASSUME IInv, Reading, NEW CONSTANT inflate, NEW CONSTANT force, NEW CONSTANT f,
         elf_compress_gnu(inflate, force, f)
  PROVE  Reading'
  <1>1. CASE inflate = 1
    <2> DEFINE r == elf_compress_gnu_deflate(X, force, f)
    <2>1. Replaces("gnu_deflate", f, r) /\ elf.open
      BY <1>1 DEF elf_compress_gnu, Replaces, Call
    <2>2. Replacing(X, r)
      BY <2>1, OpenReading, gnu_deflateShaken
    <2>3. Owned(r.x)
      BY <2>1, OpenReading, gnu_deflateKeeps DEF Renews, Leaks
    <2> HIDE DEF r
    <2>4. QED  BY <2>1, <2>2, <2>3, ReplacesReads
  <1>2. CASE inflate # 1
    <2> DEFINE r == elf_compress_gnu_inflate(X, f)
    <2>1. Replaces("gnu_inflate", f, r) /\ elf.open
      BY <1>2 DEF elf_compress_gnu, Replaces, Call
    <2>2. Replacing(X, r)
      BY <2>1, OpenReading, gnu_inflateShaken
    <2>3. Owned(r.x)
      BY <2>1, OpenReading, gnu_inflateKeeps DEF Renews, Leaks
    <2> HIDE DEF r
    <2>4. QED  BY <2>1, <2>2, <2>3, ReplacesReads
  <1>3. QED  BY <1>1, <1>2

LEMMA StrPtrReads ==
  ASSUME IInv, Reading, NEW CONSTANT off, NEW CONSTANT f, StrPtr(off, f)
  PROVE  Reading'
  <1> DEFINE r == elf_strptr(X, off, f)
             given == StringAt(Cells(r.x, r.p), r.off)
  <1>1. /\ elf.open /\ mem.fault = "" /\ elf' = r.x.elf /\ scn' = r.x.scn /\ mem' = r.x.mem
    BY DEF StrPtr, Call
  <1>2. \/ r.rc = 1 /\ str'.p = r.p /\ str'.off = r.off /\ str'.s = given
        \/ str'.p = NULL
        \/ str' = str
    BY DEF StrPtr, NoStr
  <1>3. Finds(X, r)
    BY <1>1, OpenReading, elf_strptrFinds
  <1> HIDE DEF r
  <1>4. /\ Shaken(X, r.x) /\ Owned(r.x) /\ Blocks(X) \subseteq Blocks(r.x)
        /\ Marks(r.x, r.x)
    BY <1>3 DEF Finds, Calm, Shaken, Marks
  <1>5. r.rc = 1 => Old(r.x, r.p)
    BY <1>3 DEF Finds
  <1>6. \/ str'.p = NULL
        \/ str' = str /\ Blocks(X) \subseteq Blocks(r.x)
        \/ Old(r.x, str'.p) /\ str'.s = StringAt(Cells(r.x, str'.p), str'.off)
    BY <1>2, <1>4, <1>5
  <1>7. QED  BY <1>1, <1>4, <1>6, ReadsStep

LEMMA FunctionIsSeq ==
  ASSUME NEW n \in Nat, NEW E, NEW r \in [1..n -> E]
  PROVE  r \in Seq(E) /\ Len(r) = n
  OBVIOUS

LEMMA ExceptIs ==
  ASSUME NEW C, NEW q, q \in Seq(C), NEW e, NEW i, NEW r, r = [q EXCEPT ![i] = e]
  PROVE  r \in Seq(C \cup {e}) /\ Len(r) = Len(q)
  <1>1. /\ DOMAIN q = 1..Len(q) /\ Len(q) \in Nat
        /\ \A j \in 1..Len(q) : q[j] \in C
    OBVIOUS
  <1>2. DOMAIN r = 1..Len(q) /\ \A j \in 1..Len(q) : r[j] \in C \cup {e}
    BY <1>1
  <1> DEFINE E == C \cup {e}
             n == Len(q)
  <1>3. n \in Nat /\ DOMAIN r = 1..n /\ (\A j \in 1..n : r[j] \in E)
        /\ r = [j \in 1..n |-> r[j]]
    BY <1>1, <1>2
  <1> HIDE DEF E, n
  <1>4. r \in [1..n -> E]
    BY <1>3
  <1>5. r \in Seq(E) /\ Len(r) = n
    <2>1. n \in Nat
      BY <1>3
    <2>2. QED  BY <1>4, <2>1, FunctionIsSeq
  <1>6. QED  BY <1>5 DEF E, n

\* The program fills a block in with what it has.
LEMMA FilledCalm ==
  ASSUME NEW x, Owned(x), Held(x), NEW block, "buf" \in DOMAIN block, IsUser(block.buf), NEW i
  PROVE  /\ Calm(x, [x EXCEPT !.scn.first = block])
         /\ Calm(x, [x EXCEPT !.scn.rest[i] = block])
  <1>1. Frame(x, x)
    BY FrameStays
  <1>2. ASSUME NEW y, y.elf = x.elf, y.mem = x.mem, y.scn.raw = x.scn.raw, HeldRest(y),
               HeldFirst(y)
        PROVE  Calm(x, y)
    <2>1. Frame(x, y) /\ Blocks(x) \subseteq Blocks(y)
      BY <1>1, <1>2 DEF Frame, Blocks
    <2>2. HeldRaw(y)
      BY <1>2 DEF Held, HeldRaw, Live, Blocks
    <2>3. QED  BY <1>2, <2>1, <2>2 DEF Calm, Held
  <1>3. Calm(x, [x EXCEPT !.scn.first = block])
    <2> DEFINE y == [x EXCEPT !.scn.first = block]
    <2>1. /\ y.elf = x.elf /\ y.mem = x.mem /\ y.scn.raw = x.scn.raw /\ y.scn.rest = x.scn.rest
          /\ y.scn.rear = x.scn.rear /\ y.scn.first = block
      BY DEF Owned, Shape, ScnFields
    <2> HIDE DEF y
    <2>2. HeldRest(y)
      BY <2>1 DEF Held, HeldRest
    <2>3. HeldFirst(y)
      BY <2>1 DEF HeldFirst, OldFirst, Old, Live
    <2>4. QED  BY <1>2, <2>1, <2>2, <2>3 DEF y
  <1>4. Calm(x, [x EXCEPT !.scn.rest[i] = block])
    <2> DEFINE y == [x EXCEPT !.scn.rest[i] = block]
               rest == [x.scn.rest EXCEPT ![i] = block]
    <2>1. /\ y.elf = x.elf /\ y.mem = x.mem /\ y.scn.raw = x.scn.raw /\ y.scn.rest = rest
          /\ y.scn.rear = x.scn.rear /\ y.scn.first = x.scn.first
      BY DEF Owned, Shape, ScnFields
    <2>2. Given(x.scn.rest)
      BY DEF Held, HeldRest
    <2>3. PICK C : x.scn.rest \in Seq(C)
      BY <2>2 DEF Given
    <2>4. rest \in Seq(C \cup {block}) /\ Len(rest) = Len(x.scn.rest)
      <3>1. \A r : r = rest => r \in Seq(C \cup {block})
        BY <2>3, ExceptIs
      <3>2. \A r : r = rest => Len(r) = Len(x.scn.rest)
        BY <2>3, ExceptIs
      <3>3. QED  BY <3>1, <3>2
    <2>5. \A j \in DOMAIN rest :
            rest[j] = block \/ (j \in DOMAIN x.scn.rest /\ rest[j] = x.scn.rest[j])
      BY <2>3
    <2> HIDE DEF y, rest
    <2>6. Given(rest)
      BY <2>2, <2>4, <2>5 DEF Given
    <2>7. HeldRest(y)
      BY <2>1, <2>4, <2>6 DEF Held, HeldRest
    <2>8. HeldFirst(y)
      BY <2>1 DEF Held, HeldFirst, OldFirst, Old, Live, Blocks
    <2>9. QED  BY <1>2, <2>1, <2>7, <2>8 DEF y
  <1>5. QED  BY <1>3, <1>4

LEMMA NewDataReads ==
  ASSUME IInv, Reading, NEW CONSTANT c, NEW CONSTANT align, NEW CONSTANT f,
         NewData(c, align, f)
  PROVE  Reading'
  <1> DEFINE r == elf_newdata(X, f)
             block == Block(User(c), Len(c), align, "BYTE")
             rear == r.x.scn.rear
             filled == IF rear = 1 THEN [r.x EXCEPT !.scn.first = block]
                       ELSE [r.x EXCEPT !.scn.rest[rear - 1] = block]
             done == IF r.rc = 1 THEN Ok(filled) ELSE r
  <1>1. Call("newdata", f, done) /\ elf.open /\ str' = str
    BY DEF NewData, Call
  <1>2. Calm(X, r.x) /\ Owned(r.x) /\ Owned(X)
    BY <1>1, OpenReading, elf_newdataCalm
  <1>3. "buf" \in DOMAIN block /\ IsUser(block.buf)
    BY DEF Block, IsUser
  <1> HIDE DEF r, block
  <1>4. Held(r.x)
    BY <1>2 DEF Calm
  <1>5. Calm(r.x, filled)
    BY <1>2, <1>3, <1>4, FilledCalm
  <1>6. Owned(filled)
    <2>1. Laid(r.x, filled)
      BY <1>2, FilledKeeps
    <2> HIDE DEF filled
    <2>2. QED  BY <1>2, <2>1, LaidKeeps DEF Steady
  <1> HIDE DEF filled
  <1>7. Calm(X, filled)
    BY <1>2, <1>5, <1>6, CalmTwice
  <1>8. Calm(X, done.x) /\ Owned(done.x)
    BY <1>2, <1>6, <1>7 DEF Ok
  <1> HIDE DEF done
  <1>9. QED  BY <1>1, <1>8, QuietStep

\* elf_end() reads nothing, and voids the string.
LEMMA EndReads ==
  ASSUME IInv, Reading, End
  PROVE  Reading'
  <1>1. /\ elf.open /\ mem.fault = "" /\ mem' = elf_end(X).mem
        /\ elf' = [elf EXCEPT !.open = FALSE] /\ str' = NoStr
    BY DEF End
  <1>2. Owned(X)
    BY <1>1, OpenOwned
  <1>3. mem'.fault = mem.fault
    BY <1>1, <1>2, elf_endFrees DEF X
  <1>4. ~elf'.open
    BY <1>1, <1>2 DEF Owned, Shape, X
  <1>5. str'.p = NULL
    BY <1>1 DEF NoStr
  <1>6. mem'.fault # "freed"
    <2>1. "" # "freed"
      BY Zenon
    <2>2. QED  BY <1>1, <1>3, <2>1
  <1>7. ReadsLive' /\ StringStays'
    BY <1>5, <1>6 DEF ReadsLive, StringStays
  <1>8. Old(X, str.p)'
    BY <1>5 DEF Old
  <1>9. QED  BY <1>4, <1>7, <1>8 DEF Reading

-----------------------------------------------------------------------------
(* The invariant.                                                          *)

LEMMA InitReading == Init => Reading
  <1> SUFFICES ASSUME Init PROVE Reading
    OBVIOUS
  <1>1. \E image, base : scn = NewScn(image, base) /\ elf.chunks = << >>
    <2>1. \E image, d : scn = NewScn(image, IF d.based /\ ~image.new THEN InMap ELSE NULL)
      BY DEF Init
    <2>2. ASSUME NEW d, NEW cells,
                 elf = [open |-> TRUE, mapped |-> d.mapped, native |-> d.native,
                        aligned |-> d.aligned, class |-> d.class, cells |-> cells,
                        chunks |-> << >>]
          PROVE  elf.chunks = << >>
      BY <2>2
    <2>3. elf.chunks = << >>
      BY <2>2 DEF Init
    <2>4. QED  BY <2>1, <2>3
  <1>2. PICK image, base : scn = NewScn(image, base) /\ elf.chunks = << >>
    BY <1>1
  <1>3. /\ scn.raw = NoBlock /\ scn.first = NoBlock /\ scn.rest = << >> /\ scn.rear = 0
    BY <1>2 DEF NewScn
  <1>4. "buf" \in DOMAIN NoBlock /\ NoBlock.buf = NULL
    BY DEF NoBlock, Block
  <1>5. str.p = NULL
    BY DEF Init, NoStr
  <1>6. mem.fault # "freed"
    <2>1. mem = [heap |-> [b \in {} |-> << >>], top |-> 1, fault |-> "", starved |-> FALSE]
      BY DEF Init
    <2>2. "" # "freed"
      BY Zenon
    <2>3. mem.fault = ""
      BY <2>1
    <2>4. QED  BY <2>2, <2>3
  <1>7. X.scn = scn /\ X.elf = elf /\ X.mem = mem
    BY DEF X
  <1>8. HeldRaw(X) /\ HeldFirst(X)
    BY <1>3, <1>4, <1>7 DEF HeldRaw, HeldFirst, OldFirst, Old, Live
  <1>9. HeldRest(X)
    <2>1. << >> \in Seq({}) /\ DOMAIN << >> = {} /\ Len(<< >>) = 0
      OBVIOUS
    <2>2. Given(<< >>)
      BY <2>1 DEF Given
    <2>3. QED  BY <1>3, <1>7, <2>1, <2>2 DEF HeldRest
  <1>10. ChunksRight(X)
    BY <1>2, <1>7 DEF ChunksRight
  <1>11. Old(X, str.p) /\ ReadsLive /\ StringStays
    BY <1>5, <1>6 DEF Old, ReadsLive, StringStays
  <1>12. QED  BY <1>8, <1>9, <1>10, <1>11 DEF Reading, Held

LEMMA NextReading ==
  ASSUME IInv, Reading, [Next]_vars
  PROVE  Reading'
  <1>1. CASE UNCHANGED vars
    <2>1. X' = X /\ str' = str /\ elf' = elf /\ mem' = mem
      BY <1>1 DEF vars, X
    <2>2. QED  BY <2>1 DEF Reading, ReadsLive, StringStays
  <1>2. ASSUME NEW f, GetData(f) PROVE Reading'
    BY <1>2, GetDataReads
  <1>3. ASSUME NEW f, RawData(f) PROVE Reading'
    BY <1>3, RawDataReads
  <1>4. ASSUME NEW f, GetChdr(f) PROVE Reading'
    BY <1>4, GetChdrReads
  <1>5. ASSUME NEW f, NEW moved, UpdateNull(moved, f) PROVE Reading'
    BY <1>5, UpdateNullReads
  <1>6. ASSUME NEW f, NEW type, RawChunk(type, f) PROVE Reading'
    BY <1>6, RawChunkReads
  <1>7. ASSUME NEW f, NEW c, NEW a, NewData(c, a, f) PROVE Reading'
    BY <1>7, NewDataReads
  <1>8. ASSUME NEW f, NEW type, NEW force, elf_compress(type, force, f) PROVE Reading'
    BY <1>8, CompressReads
  <1>9. ASSUME NEW f, NEW i, NEW force, elf_compress_gnu(i, force, f) PROVE Reading'
    BY <1>9, CompressGnuReads
  <1>10. ASSUME NEW f, NEW off, StrPtr(off, f) PROVE Reading'
    BY <1>10, StrPtrReads
  <1>11. CASE ReadAll
    BY <1>11, ReadAllReads
  <1>12. CASE End
    BY <1>12, EndReads
  <1>13. QED
    BY <1>1, <1>2, <1>3, <1>4, <1>5, <1>6, <1>7, <1>8, <1>9, <1>10, <1>11, <1>12 DEF Next

\* Which blocks the section refers to, what the string and the chunks the
\* program was given point to, and that they are still what they were.
THEOREM ReadingAlways == Spec => []Reading
  <1>1. IInv /\ Reading /\ [Next]_vars => Reading'
    BY NextReading
  <1>2. QED  BY <1>1, InitReading, Ownership, PTL DEF Spec

\* No call reads a block that was given up, unless a conversion found no
\* memory: elf_compress(), elf_getdata() and elf_strptr() never go on using a
\* buffer that __libelf_reset_rawdata() freed.
THEOREM ReadsLiveAlways == Spec => []ReadsLive
  <1>1. Reading => ReadsLive
    BY DEF Reading
  <1>2. QED  BY <1>1, ReadingAlways, PTL

\* A string elf_strptr() gave out stays what it was, whatever is read,
\* converted, expanded, added or laid out, until elf_compress() replaces the
\* contents.
THEOREM StringStaysAlways == Spec => []StringStays
  <1>1. Reading => StringStays
    BY DEF Reading
  <1>2. QED  BY <1>1, ReadingAlways, PTL

\* A chunk elf_getdata_rawchunk() gave out stays what it was until elf_end(),
\* even when the section is compressed or expanded.
THEOREM ChunksStayAlways == Spec => []ChunksStay
  <1>1. Reading => ChunksStay
    BY DEF Reading, ChunksRight, ChunksStay, X
  <1>2. QED  BY <1>1, ReadingAlways, PTL
=============================================================================

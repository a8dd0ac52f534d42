------------------------- MODULE EuDescriptorProofs -------------------------
(***************************************************************************)
(* Proofs about EuDescriptor: whatever the file, however deep its archives *)
(* nest, and in whatever order descriptors are opened, moved, read in and  *)
(* closed, nothing that is gone is used, nothing is left behind, members   *)
(* are where they should be, and descriptors live as Lifetime promises.    *)
(***************************************************************************)
EXTENDS EuDescriptor, TLAPS

\* The descriptors that are in the tree of archives and members.
Node(h) == Alive(h) /\ ~elf[h].clone

\* What is gone has no field left and nobody holds it.
GoneIsFreed == \A h \in Handle : ~Alive(h) => elf[h] = Freed /\ held[h] = 0

\* The process has not died.
Working == fault = ""

\* ref_count is how often the application holds a descriptor.
Counted == Working => \A h \in Handle : Alive(h) => elf[h].refs = held[h]

\* elf_end() goes on with an archive that nobody holds any more.
ClosingWaits ==
  closing # NULL => /\ Alive(closing) /\ elf[closing].kind = "AR"
                    /\ elf[closing].refs = 0

\* Clones are no archives, and one that is a member of one dies badly.
ClonesApart == \A h \in Handle : elf[h].clone => elf[h].kind # "AR" /\ elf[h].children = {}
FaultKnown == fault \in {"", "assert"} \/ \E h \in Handle : Orphan(h)

\* The lists of children and the parents agree, and only archives have members.
Enrolled ==
  \A h \in Handle : Node(h) /\ elf[h].parent # NULL =>
    LET p == elf[h].parent IN Alive(p) /\ elf[p].kind = "AR" /\ h \in elf[p].children
ListsAgree ==
  \A p \in Handle : \A c \in elf[p].children : Node(c) /\ elf[c].parent = p

\* No descriptor is above itself: any set of nodes has one at its top.
Acyclic ==
  \A S \in SUBSET {h \in Handle : Node(h)} :
    S # {} => \E c \in S : elf[c].parent \notin S

\* Whose memory a node uses: its own, its archive's or the application's.
MapOrigin ==
  \A h \in Handle : Node(h) /\ Mapped(elf[h]) =>
    \/ elf[h].map.block = User
    \/ elf[h].map.block \in {<<"mmap", h>>, <<"copy", h>>} \cap heap
    \/ /\ elf[h].parent # NULL
       /\ elf[h].map.block = elf[elf[h].parent].map.block
\* Only a copy has positions of its own, and only roots map the file.
MapBase ==
  \A h \in Handle :
    elf[h].map.base # 0 => Mapped(elf[h]) /\ elf[h].map.block[1] = "copy"
MmapOfRoot == \A h \in Handle : <<"mmap", h>> \in heap => elf[h].parent = NULL

\* Positions in an archive are behind its beginning, also those of a member.
Ordered ==
  \A h \in Handle : Alive(h) =>
    /\ elf[h].kind = "AR" => elf[h].offset >= elf[h].start
    /\ LET p == elf[h].parent IN
       Node(h) /\ p # NULL /\ ~Mapped(elf[h]) /\ ~Mapped(elf[p]) =>
         elf[h].start >= elf[p].start

\* An archive that is the whole file, or is mapped with it.
OfFile(h) ==
  elf[h].parent = NULL \/ (Mapped(elf[h]) /\ elf[h].map.block[1] # "copy")
FileInPlace == \A h \in Handle : Node(h) /\ OfFile(h) => InPlace(h)
RootsWhole ==
  \A h \in Handle : Alive(h) /\ elf[h].kind = "AR" /\ elf[h].parent = NULL =>
    elf[h].start = 0 /\ elf[h].size = FileSize /\ elf[h].map.base = 0

\* The member that the header of such an archive tells of fits into it.
HeaderFits(e) ==
  \/ e.offset + HDR + e.hdr.size <= e.start + e.size
  \/ HdrAt[FileOffset(e, e.offset)].size = -1
HeadersFit ==
  \A h \in Handle : Alive(h) /\ elf[h].kind = "AR" /\ elf[h].hdr.valid /\ OfFile(h) =>
    HeaderFits(elf[h])

\* What HeaderFresh and HeadersFit say of the fields e of archive h.
HeaderGood(h, e) ==
  /\ e.offset >= e.start
  /\ e.hdr.valid =>
       /\ FileOffset(e, e.offset) \in DOMAIN HdrAt
       /\ \/ e.hdr.size <= HdrAt[FileOffset(e, e.offset)].size
          \/ HdrAt[FileOffset(e, e.offset)].size = -1
       /\ OfFile(h) => HeaderFits(e)

\* The tree, the blocks and the positions.
Tree == ClonesApart /\ Enrolled /\ ListsAgree /\ Acyclic
Memory == MapOrigin /\ MapBase /\ MmapOfRoot /\ MapsLive /\ Accounted
Places == Ordered /\ FileInPlace /\ RootsWhole /\ HeaderFresh /\ HeadersFit /\ Placed

\* The inductive invariant.
IInv ==
  /\ TypeOK
  /\ GoneIsFreed /\ Counted /\ ClosingWaits /\ FaultKnown
  /\ Tree /\ Memory /\ Places

-----------------------------------------------------------------------------
(* What steps leave alone.                                                 *)

\* The same descriptors in the same tree.
SameTree ==
  \A h \in Handle :
    /\ Alive(h)' <=> Alive(h)
    /\ elf'[h].kind = elf[h].kind /\ elf'[h].parent = elf[h].parent
    /\ elf'[h].children = elf[h].children /\ (elf'[h].clone <=> elf[h].clone)

\* The same mappings and copies, and no block that is nobody's.
SameMemory ==
  /\ \A h \in Handle : elf'[h].map = elf[h].map
  /\ \A h \in Handle : /\ <<"mmap", h>> \in heap' <=> <<"mmap", h>> \in heap
                       /\ <<"copy", h>> \in heap' <=> <<"copy", h>> \in heap
  /\ \A b \in heap' : b \in heap \/ Alive(b[2])

\* Everything begins and ends where it did.
SameExtent ==
  /\ home' = home
  /\ \A h \in Handle : elf'[h].start = elf[h].start /\ elf'[h].size = elf[h].size

SameHeader(h) == elf'[h].offset = elf[h].offset /\ elf'[h].hdr = elf[h].hdr

-----------------------------------------------------------------------------
LEMMA FreedFields ==
  /\ Freed.kind = "NONE" /\ Freed.parent = NULL /\ Freed.children = {} /\ ~Freed.clone
  /\ Freed.map = NoMap /\ Freed.map.block = NULL /\ Freed.map.base = 0
  /\ ~Freed.fd /\ Freed.refs = 0 /\ Freed.hdr = NoHdr /\ ~Freed.hdr.valid /\ Freed.names = NULL
BY DEF Freed, NoMap, NoHdr

LEMMA NatSums ==
  /\ 0 + 0 = 0 /\ \A n \in Nat : n >= 0
  /\ \A m, n \in Nat : m + n \in Nat /\ m + n >= m
  /\ \A k, l, m, n \in Nat : k + l + m \in Nat /\ (k >= n => k + l + m >= n)
  /\ \A n \in Nat : Even(n) \in Nat
BY DEF Even

LEMMA Counts ==
  /\ 0 \in 0..MaxRefs /\ 1 \in 0..MaxRefs
  /\ \A n \in 0..MaxRefs : /\ n < MaxRefs => n + 1 \in 0..MaxRefs
                           /\ n > 0 => n - 1 \in 0..MaxRefs
                           /\ n > 0 /\ ~(n > 1) => n - 1 = 0
BY BoundAssumption

LEMMA FieldTypes ==
  ASSUME TypeOK, NEW h \in Handle
  PROVE  /\ elf[h].parent \in Handle \cup {NULL} /\ elf[h].children \subseteq Handle
         /\ elf[h].start \in Nat /\ elf[h].size \in Nat /\ elf[h].offset \in Nat
         /\ elf[h].map.block \in Maps \cup {NULL, User} /\ elf[h].map.base \in Nat
         /\ elf[h].hdr.size \in Nat /\ elf[h].refs \in 0..MaxRefs
BY DEF TypeOK, Descriptors

LEMMA MapTypes ==
  ASSUME TypeOK, NEW h \in Handle, Mapped(elf[h]), elf[h].map.block # User
  PROVE  \E g \in Handle : elf[h].map.block = <<"mmap", g>> \/ elf[h].map.block = <<"copy", g>>
<1>1. elf[h].map.block \in Maps
  BY FieldTypes DEF Mapped
<1> QED  BY <1>1 DEF Maps

LEMMA TreeStays ==
  ASSUME TypeOK, Tree, SameTree
  PROVE  Tree'
<1>1. ClonesApart' /\ Enrolled' /\ ListsAgree'
  BY FieldTypes DEF Tree, SameTree, ClonesApart, Enrolled, ListsAgree, Node
<1>2. Acyclic'
  BY DEF Tree, SameTree, Acyclic, Node
<1> QED  BY <1>1, <1>2 DEF Tree

LEMMA MemoryStays ==
  ASSUME TypeOK, TypeOK', Tree, Memory, SameTree, SameMemory
  PROVE  Memory'
<1>1. MapOrigin'
  <2> SUFFICES ASSUME NEW h \in Handle, Node(h)', Mapped(elf[h])'
               PROVE  \/ elf'[h].map.block = User
                      \/ elf'[h].map.block \in {<<"mmap", h>>, <<"copy", h>>} \cap heap'
                      \/ /\ elf'[h].parent # NULL
                         /\ elf'[h].map.block = elf'[elf'[h].parent].map.block
    BY DEF MapOrigin
  <2>1. Node(h) /\ Mapped(elf[h]) /\ elf'[h].map = elf[h].map /\ elf'[h].parent = elf[h].parent
    BY DEF SameTree, SameMemory, Node, Mapped
  <2>2. CASE elf[h].map.block = User
    BY <2>1, <2>2
  <2>3. CASE elf[h].map.block \in {<<"mmap", h>>, <<"copy", h>>} \cap heap
    BY <2>1, <2>3 DEF SameMemory
  <2>4. CASE elf[h].parent # NULL /\ elf[h].map.block = elf[elf[h].parent].map.block
    BY <2>1, <2>4, FieldTypes DEF SameMemory
  <2> QED  BY <2>1, <2>2, <2>3, <2>4 DEF Memory, MapOrigin
<1>2. MapBase' /\ MmapOfRoot'
  BY DEF Memory, SameTree, SameMemory, MapBase, MmapOfRoot, Mapped
<1>3. MapsLive'
  <2> SUFFICES ASSUME NEW h \in Handle, Node(h)', Mapped(elf[h])', elf'[h].map.block # User
               PROVE  elf'[h].map.block \in heap'
    BY DEF MapsLive, Node
  <2>1. elf'[h].map = elf[h].map /\ elf[h].map.block \in heap
    BY DEF Memory, MapsLive, SameTree, SameMemory, Node, Mapped
  <2>2. PICK g \in Handle : \/ elf[h].map.block = <<"mmap", g>>
                            \/ elf[h].map.block = <<"copy", g>>
    BY <2>1, MapTypes DEF Mapped
  <2> QED  BY <2>1, <2>2 DEF SameMemory
<1>4. Accounted'
  BY DEF Memory, SameTree, SameMemory, Accounted, TypeOK, Blocks
<1> QED  BY <1>1, <1>2, <1>3, <1>4 DEF Memory

\* Positions and headers stay good in a step that moves archives at most.
LEMMA PlacesStay ==
  ASSUME TypeOK, TypeOK', Tree, Places, SameTree, SameExtent,
         \A h \in Handle : elf'[h].map = elf[h].map,
         \A h \in Handle : SameHeader(h) \/ (Alive(h) /\ elf[h].kind = "AR" => HeaderGood(h, elf'[h]))
  PROVE  Places'
<1>1. \A h \in Handle : /\ Node(h)' <=> Node(h)
                        /\ OfFile(h)' <=> OfFile(h)
                        /\ InPlace(h)' <=> InPlace(h)
  BY DEF SameTree, SameExtent, Node, OfFile, InPlace, FileOffset, Mapped
<1>2. Ordered'
  <2> SUFFICES ASSUME NEW h \in Handle, Alive(h)'
               PROVE  /\ elf'[h].kind = "AR" => elf'[h].offset >= elf'[h].start
                      /\ (/\ Node(h)' /\ elf'[h].parent # NULL /\ ~Mapped(elf[h])'
                          /\ ~Mapped(elf'[elf'[h].parent]))
                          => elf'[h].start >= elf'[elf'[h].parent].start
    BY DEF Ordered
  <2>1. elf'[h].kind = "AR" => elf'[h].offset >= elf'[h].start
    BY DEF Places, Ordered, SameTree, SameExtent, SameHeader, HeaderGood
  <2>2. (/\ Node(h)' /\ elf'[h].parent # NULL /\ ~Mapped(elf[h])'
                          /\ ~Mapped(elf'[elf'[h].parent]))
                          => elf'[h].start >= elf'[elf'[h].parent].start
    BY <1>1, FieldTypes DEF Places, Ordered, SameTree, SameExtent, Mapped
  <2> QED  BY <2>1, <2>2
<1>3. FileInPlace' /\ RootsWhole'
  BY <1>1 DEF Places, FileInPlace, RootsWhole, SameTree, SameExtent
<1>4. HeaderFresh' /\ HeadersFit'
  <2> SUFFICES ASSUME NEW h \in Handle, Alive(h)', elf'[h].kind = "AR", elf'[h].hdr.valid
               PROVE  HeaderGood(h, elf[h])'
    BY DEF HeaderFresh, HeadersFit, HeaderGood
  <2>1. CASE SameHeader(h)
    BY <1>1, <2>1 DEF Places, Ordered, HeaderFresh, HeadersFit, HeaderGood, SameTree, SameExtent, SameHeader,
       FileOffset, HeaderFits
  <2>2. CASE HeaderGood(h, elf'[h])
    BY <1>1, <2>2 DEF HeaderGood, HeaderFits, FileOffset
  <2> QED  BY <2>1, <2>2 DEF SameTree
<1>5. Placed'
  <2> SUFFICES ASSUME NEW h \in Handle, Alive(h)'
               PROVE  /\ InPlace(h)' \/ Misplaced(h)' \/ elf'[h].clone
                      /\ elf'[h].parent # NULL /\ ~Orphan(h)' => Contained(h)'
    BY DEF Placed
  <2>1. Misplaced(h) => Misplaced(h)'
    BY FieldTypes DEF Misplaced, FileOffset, SameTree, SameExtent
  <2>2. Contained(h) /\ elf'[h].parent # NULL => Contained(h)'
    BY FieldTypes DEF Contained, Within, SameTree, SameExtent, Mapped
  <2> QED  BY <1>1, <2>1, <2>2 DEF Places, Placed, SameTree, Orphan
<1> QED  BY <1>2, <1>3, <1>4, <1>5 DEF Places

-----------------------------------------------------------------------------
(* A new descriptor: of the file, of a member, or a clone.                 *)

\* h is new; a member is in the list of its archive.
GrownTree(h) ==
  /\ Free(h) /\ Alive(h)'
  /\ \A g \in Handle \ {h} :
       /\ Alive(g)' <=> Alive(g)
       /\ elf'[g].kind = elf[g].kind /\ elf'[g].parent = elf[g].parent
       /\ elf'[g].clone <=> elf[g].clone
       /\ elf'[g].children =
            IF ~elf'[h].clone /\ g = elf'[h].parent
            THEN elf[g].children \cup {h} ELSE elf[g].children
  /\ elf'[h].children = {}
  /\ elf'[h].clone => elf'[h].kind # "AR"
  /\ ~elf'[h].clone /\ elf'[h].parent # NULL =>
       LET p == elf'[h].parent IN Node(p) /\ elf[p].kind = "AR"

\* The new descriptor maps the file itself, or shares memory that is there.
GrownMemory(h) ==
  /\ \A g \in Handle \ {h} :
       /\ elf'[g].map = elf[g].map
       /\ <<"mmap", g>> \in heap' <=> <<"mmap", g>> \in heap
       /\ <<"copy", g>> \in heap' <=> <<"copy", g>> \in heap
  /\ \A b \in heap' : b \in heap \/ Alive(b[2])'
  /\ <<"copy", h>> \notin heap'
  /\ <<"mmap", h>> \in heap' => elf'[h].parent = NULL
  /\ elf'[h].map.base # 0 => Mapped(elf[h])' /\ elf'[h].map.block[1] = "copy"
  /\ Node(h)' /\ Mapped(elf[h])' =>
       \/ elf'[h].map.block = User
       \/ elf'[h].map.block = <<"mmap", h>> /\ <<"mmap", h>> \in heap'
       \/ elf'[h].parent # NULL /\ elf'[h].map = elf[elf'[h].parent].map

\* The new descriptor is where its image is.
GrownPlaces(h) ==
  /\ \A g \in Handle \ {h} :
       /\ home'[g] = home[g] /\ elf'[g].map = elf[g].map
       /\ elf'[g].start = elf[g].start /\ elf'[g].size = elf[g].size
       /\ SameHeader(g) \/ (Alive(g) /\ elf[g].kind = "AR" => HeaderGood(g, elf'[g]))
  /\ elf'[h].kind = "AR" => elf'[h].offset >= elf'[h].start
  /\ elf'[h].kind = "AR" /\ elf'[h].parent = NULL =>
       elf'[h].start = 0 /\ elf'[h].size = FileSize /\ elf'[h].map.base = 0
  /\ ~elf'[h].hdr.valid
  /\ InPlace(h)' \/ Misplaced(h)' \/ elf'[h].clone
  /\ Node(h)' /\ OfFile(h)' => InPlace(h)'
  /\ Node(h)' /\ elf'[h].parent # NULL =>
       /\ Contained(h)'
       /\ ~Mapped(elf[h])' => elf'[h].start >= elf[elf'[h].parent].start

LEMMA TreeGrows ==
  ASSUME TypeOK, TypeOK', Tree, NEW h \in Handle, GrownTree(h), NULL \notin Handle
  PROVE  Tree'
<1>1. ~Alive(h) /\ ~Node(h) /\ Alive(h)' /\ elf'[h].children = {}
  BY DEF GrownTree, Free, Alive, Node
<1>2. \A g \in Handle \ {h} :
        /\ Alive(g)' <=> Alive(g)
        /\ Node(g)' <=> Node(g)
        /\ elf'[g].clone <=> elf[g].clone
        /\ elf'[g].kind = elf[g].kind /\ elf'[g].parent = elf[g].parent
        /\ elf[g].children \subseteq elf'[g].children
  BY DEF GrownTree, Node
<1>3. \A g \in Handle \ {h} : \A c \in elf'[g].children :
        \/ c \in elf[g].children /\ c # h
        \/ c = h /\ Node(h)' /\ elf'[h].parent = g /\ Node(g) /\ elf[g].kind = "AR"
  <2> SUFFICES ASSUME NEW g \in Handle \ {h}, NEW c \in elf'[g].children
               PROVE  \/ c \in elf[g].children /\ c # h
                      \/ c = h /\ Node(h)' /\ elf'[h].parent = g /\ Node(g) /\ elf[g].kind = "AR"
    OBVIOUS
  <2>1. h \notin elf[g].children
    BY <1>1 DEF Tree, ListsAgree
  <2>2. CASE ~elf'[h].clone /\ g = elf'[h].parent
    <3>1. elf'[g].children = elf[g].children \cup {h}
      BY <2>2 DEF GrownTree
    <3>2. Node(h)' /\ Node(g) /\ elf[g].kind = "AR"
      BY <1>1, <2>2 DEF GrownTree, Node
    <3> QED  BY <2>1, <2>2, <3>1, <3>2
  <2>3. CASE ~(~elf'[h].clone /\ g = elf'[h].parent)
    BY <2>1, <2>3 DEF GrownTree
  <2> QED  BY <2>2, <2>3
<1>4. Node(h)' /\ elf'[h].parent # NULL =>
        LET p == elf'[h].parent IN
        p \in Handle \ {h} /\ Node(p) /\ elf[p].kind = "AR" /\ h \in elf'[p].children
  <2> HAVE Node(h)' /\ elf'[h].parent # NULL
  <2>1. elf'[h].parent \in Handle
    BY TypeOK' DEF TypeOK, Descriptors
  <2>2. Node(elf'[h].parent) /\ elf[elf'[h].parent].kind = "AR"
    BY DEF GrownTree, Node
  <2>3. elf'[h].parent # h
    BY <1>1, <2>2
  <2>4. h \in elf'[elf'[h].parent].children
    BY <2>1, <2>3 DEF GrownTree, Node
  <2> QED  BY <2>1, <2>2, <2>3, <2>4
<1>5. ClonesApart'
  <2> SUFFICES ASSUME NEW g \in Handle, elf'[g].clone
               PROVE  elf'[g].kind # "AR" /\ elf'[g].children = {}
    BY DEF ClonesApart
  <2>1. CASE g = h
    BY <2>1 DEF GrownTree
  <2>2. CASE g # h
    BY <1>2, <1>3, <2>2 DEF Tree, ClonesApart, Node
  <2> QED  BY <2>1, <2>2
<1>6. Enrolled'
  <2> SUFFICES ASSUME NEW g \in Handle, Node(g)', elf'[g].parent # NULL
               PROVE  /\ Alive(elf[g].parent)' /\ elf'[elf'[g].parent].kind = "AR"
                      /\ g \in elf'[elf'[g].parent].children
    BY DEF Enrolled
  <2>1. CASE g = h
    BY <1>2, <1>4, <2>1 DEF Node
  <2>2. CASE g # h
    <3>1. /\ Node(g) /\ elf'[g].parent = elf[g].parent /\ elf[g].parent \in Handle
      BY <1>2, <2>2, FieldTypes
    <3>2. /\ Alive(elf[g].parent) /\ elf[elf[g].parent].kind = "AR"
          /\ g \in elf[elf[g].parent].children
      BY <3>1 DEF Tree, Enrolled
    <3> QED  BY <1>1, <1>2, <3>1, <3>2
  <2> QED  BY <2>1, <2>2
<1>7. ListsAgree'
  <2> SUFFICES ASSUME NEW p \in Handle, NEW c \in elf'[p].children
               PROVE  Node(c)' /\ elf'[c].parent = p
    BY DEF ListsAgree
  <2>1. p # h
    BY <1>1
  <2>2. CASE c = h
    BY <1>3, <2>1, <2>2
  <2>3. CASE c # h
    <3>1. c \in elf[p].children /\ c \in Handle
      BY <1>3, <2>1, <2>3, FieldTypes
    <3> QED  BY <1>2, <2>3, <3>1 DEF Tree, ListsAgree
  <2> QED  BY <2>2, <2>3
<1>8. Acyclic'
  <2> SUFFICES ASSUME NEW S \in SUBSET {g \in Handle : Node(g)'}, S # {}
               PROVE  \E c \in S : elf'[c].parent \notin S
    BY DEF Acyclic
  <2>1. \A c \in S \ {h} : Node(c) /\ elf'[c].parent = elf[c].parent
    BY <1>2
  <2>2. \A c \in S \ {h} : elf[c].parent # h
    BY <1>1, <2>1 DEF Tree, Enrolled
  <2>3. CASE S \ {h} = {}
    BY <1>4, <2>3
  <2>4. CASE S \ {h} # {}
    <3>1. PICK c \in S \ {h} : elf[c].parent \notin S \ {h}
      BY <2>1, <2>4 DEF Tree, Acyclic
    <3> QED  BY <2>1, <2>2, <3>1
  <2> QED  BY <2>3, <2>4
<1> QED  BY <1>5, <1>6, <1>7, <1>8 DEF Tree

\* What the new descriptor does not touch.
LEMMA OthersStay ==
  ASSUME TypeOK, NEW h \in Handle, GrownTree(h), NULL \notin Handle
  PROVE  /\ ~Alive(h) /\ Alive(h)'
         /\ \A g \in Handle \ {h} : /\ Alive(g)' <=> Alive(g)
                                    /\ Node(g)' <=> Node(g)
                                    /\ elf'[g].clone <=> elf[g].clone
                                    /\ elf'[g].parent = elf[g].parent
                                    /\ elf'[g].kind = elf[g].kind
BY DEF GrownTree, Free, Alive, Node

LEMMA ParentsAreOthers ==
  ASSUME TypeOK, Tree, NEW h \in Handle, ~Alive(h),
         NEW g \in Handle, Node(g), elf[g].parent # NULL
  PROVE  elf[g].parent \in Handle \ {h}
BY FieldTypes DEF Tree, Enrolled

LEMMA MemoryGrows ==
  ASSUME TypeOK, TypeOK', Tree, Memory, NEW h \in Handle, GrownTree(h), GrownMemory(h),
         NULL \notin Handle
  PROVE  Memory'
<1> DEFINE q == elf'[h].parent
<1>1. /\ ~Alive(h) /\ Alive(h)'
      /\ \A g \in Handle \ {h} : /\ Alive(g)' <=> Alive(g)
                                 /\ Node(g)' <=> Node(g)
                                 /\ elf'[g].clone <=> elf[g].clone
                                 /\ elf'[g].parent = elf[g].parent
                                 /\ elf'[g].map = elf[g].map
  BY OthersStay DEF GrownMemory
<1>2. Node(h)' /\ q # NULL => q \in Handle \ {h} /\ Node(q) /\ elf'[q].map = elf[q].map
  <2> HAVE Node(h)' /\ q # NULL
  <2>1. q \in Handle
    BY TypeOK' DEF TypeOK, Descriptors
  <2>2. Node(q)
    BY DEF GrownTree, Node
  <2> QED  BY <1>1, <2>1, <2>2 DEF Node
<1>3. \A g \in Handle : Node(g) /\ Mapped(elf[g]) /\ elf[g].map.block # User =>
        elf[g].map.block \in heap'
  <2> SUFFICES ASSUME NEW g \in Handle, Node(g), Mapped(elf[g]), elf[g].map.block # User
               PROVE  elf[g].map.block \in heap'
    OBVIOUS
  <2>1. PICK f \in Handle : \/ elf[g].map.block = <<"mmap", f>>
                            \/ elf[g].map.block = <<"copy", f>>
    BY MapTypes
  <2>2. elf[g].map.block \in heap
    BY DEF Memory, MapsLive, Node
  <2>3. f # h
    BY <2>1, <2>2 DEF GrownTree, Free
  <2> QED  BY <2>1, <2>2, <2>3 DEF GrownMemory
<1>4. MapOrigin'
  <2> SUFFICES ASSUME NEW g \in Handle, Node(g)', Mapped(elf[g])', elf'[g].map.block # User
               PROVE  \/ elf'[g].map.block \in {<<"mmap", g>>, <<"copy", g>>} \cap heap'
                      \/ /\ elf'[g].parent # NULL
                         /\ elf'[g].map.block = elf'[elf'[g].parent].map.block
    BY DEF MapOrigin
  <2>1. CASE g = h
    BY <1>2, <2>1 DEF GrownMemory
  <2>2. CASE g # h
    <3>1. Node(g) /\ Mapped(elf[g]) /\ elf[g].map.block # User
      BY <1>1, <2>2 DEF Mapped
    <3>2. CASE elf[g].map.block \in {<<"mmap", g>>, <<"copy", g>>} \cap heap
      BY <1>1, <2>2, <3>1, <3>2 DEF GrownMemory
    <3>3. CASE elf[g].parent # NULL /\ elf[g].map.block = elf[elf[g].parent].map.block
      BY <1>1, <2>2, <3>1, <3>3, ParentsAreOthers
    <3> QED  BY <3>1, <3>2, <3>3 DEF Memory, MapOrigin
  <2> QED  BY <2>1, <2>2
<1>5. MapBase'
  <2> SUFFICES ASSUME NEW g \in Handle, elf'[g].map.base # 0
               PROVE  Mapped(elf[g])' /\ elf'[g].map.block[1] = "copy"
    BY DEF MapBase
  <2> QED  BY <1>1 DEF GrownMemory, Memory, MapBase, Mapped
<1>6. MmapOfRoot'
  <2> SUFFICES ASSUME NEW g \in Handle, <<"mmap", g>> \in heap'
               PROVE  elf'[g].parent = NULL
    BY DEF MmapOfRoot
  <2>1. CASE g = h
    BY <2>1 DEF GrownMemory
  <2>2. CASE g # h
    <3>1. <<"mmap", g>> \in heap
      BY <2>2 DEF GrownMemory
    <3> QED  BY <1>1, <2>2, <3>1 DEF Memory, MmapOfRoot
  <2> QED  BY <2>1, <2>2
<1>7. MapsLive'
  <2> SUFFICES ASSUME NEW g \in Handle, Node(g)', Mapped(elf[g])', elf'[g].map.block # User
               PROVE  elf'[g].map.block \in heap'
    BY DEF MapsLive, Node
  <2>1. CASE g = h
    BY <1>2, <1>3, <2>1 DEF GrownMemory, Mapped
  <2>2. CASE g # h
    BY <1>1, <1>3, <2>2 DEF Mapped
  <2> QED  BY <2>1, <2>2
<1>8. Accounted'
  <2> SUFFICES ASSUME NEW b \in heap', b \in heap
               PROVE  Alive(b[2])' \/ b[1] = "copy"
    BY DEF Accounted, GrownMemory
  <2>1. b[2] \in Handle \ {h}
    BY DEF TypeOK, Blocks, GrownTree, Free
  <2> QED  BY <1>1, <2>1 DEF Memory, Accounted
<1> QED  BY <1>4, <1>5, <1>6, <1>7, <1>8 DEF Memory

LEMMA PlacesGrow ==
  ASSUME TypeOK, TypeOK', Tree, Places, NEW h \in Handle, GrownTree(h), GrownPlaces(h),
         NULL \notin Handle
  PROVE  Places'
<1>1. /\ ~Alive(h) /\ Alive(h)'
      /\ \A g \in Handle \ {h} : /\ Alive(g)' <=> Alive(g)
                                 /\ Node(g)' <=> Node(g)
                                 /\ elf'[g].clone <=> elf[g].clone
                                 /\ elf'[g].parent = elf[g].parent
                                 /\ elf'[g].kind = elf[g].kind
  BY OthersStay
<1>2. \A g \in Handle \ {h} :
        /\ home'[g] = home[g] /\ elf'[g].map = elf[g].map
        /\ elf'[g].start = elf[g].start /\ elf'[g].size = elf[g].size
        /\ SameHeader(g) \/ (Alive(g) /\ elf[g].kind = "AR" => HeaderGood(g, elf'[g]))
  BY DEF GrownPlaces
<1>3. \A g \in Handle \ {h} : /\ OfFile(g)' <=> OfFile(g)
                              /\ InPlace(g)' <=> InPlace(g)
  BY <1>1, <1>2 DEF OfFile, InPlace, FileOffset, Mapped
<1>4. Ordered'
  <2> SUFFICES ASSUME NEW g \in Handle, Alive(g)'
               PROVE  /\ elf'[g].kind = "AR" => elf'[g].offset >= elf'[g].start
                      /\ (/\ Node(g)' /\ elf'[g].parent # NULL /\ ~Mapped(elf[g])'
                          /\ ~Mapped(elf'[elf'[g].parent]))
                          => elf'[g].start >= elf'[elf'[g].parent].start
    BY DEF Ordered
  <2>1. CASE g = h
    <3>1. Node(h)' /\ elf'[h].parent # NULL => elf'[h].parent \in Handle \ {h}
      <4> HAVE Node(h)' /\ elf'[h].parent # NULL
      <4>1. elf'[h].parent \in Handle
        BY TypeOK' DEF TypeOK, Descriptors
      <4>2. Node(elf'[h].parent)
        BY DEF GrownTree, Node
      <4> QED  BY <1>1, <4>1, <4>2 DEF Node
    <3> QED  BY <1>2, <2>1, <3>1 DEF GrownPlaces
  <2>2. CASE g # h
    <3>1. elf'[g].kind = "AR" => elf'[g].offset >= elf'[g].start
      BY <1>1, <1>2, <2>2 DEF Places, Ordered, SameHeader, HeaderGood
    <3>2. (/\ Node(g)' /\ elf'[g].parent # NULL /\ ~Mapped(elf[g])'
           /\ ~Mapped(elf'[elf'[g].parent])) => elf'[g].start >= elf'[elf'[g].parent].start
      BY <1>1, <1>2, <2>2, ParentsAreOthers DEF Places, Ordered, Mapped
    <3> QED  BY <3>1, <3>2
  <2> QED  BY <2>1, <2>2
<1>5. FileInPlace' /\ RootsWhole'
  BY <1>1, <1>2, <1>3 DEF GrownPlaces, Places, FileInPlace, RootsWhole
<1>6. HeaderFresh' /\ HeadersFit'
  <2> SUFFICES ASSUME NEW g \in Handle, Alive(g)', elf'[g].kind = "AR", elf'[g].hdr.valid
               PROVE  HeaderGood(g, elf[g])'
    BY DEF HeaderFresh, HeadersFit, HeaderGood
  <2>1. g # h
    BY DEF GrownPlaces
  <2>2. CASE SameHeader(g)
    BY <1>1, <1>2, <1>3, <2>1, <2>2 DEF Places, Ordered, HeaderFresh, HeadersFit, HeaderGood,
       SameHeader, FileOffset, HeaderFits
  <2>3. CASE HeaderGood(g, elf'[g])
    BY <1>3, <2>1, <2>3 DEF HeaderGood, HeaderFits, FileOffset
  <2> QED  BY <1>1, <1>2, <2>1, <2>2, <2>3
<1>7. Placed'
  <2> SUFFICES ASSUME NEW g \in Handle, Alive(g)'
               PROVE  /\ InPlace(g)' \/ Misplaced(g)' \/ elf'[g].clone
                      /\ elf'[g].parent # NULL /\ ~Orphan(g)' => Contained(g)'
    BY DEF Placed
  <2>1. CASE g = h
    BY <1>1, <2>1 DEF GrownPlaces, Orphan, Node
  <2>2. CASE g # h /\ Node(g) /\ elf[g].parent # NULL
    <3>1. elf[g].parent \in Handle \ {h}
      BY <1>1, <2>2, ParentsAreOthers
    <3>2. Misplaced(g) => Misplaced(g)'
      BY <1>1, <1>2, <2>2, <3>1 DEF Misplaced, FileOffset
    <3>3. Contained(g) => Contained(g)'
      BY <1>1, <1>2, <2>2, <3>1 DEF Contained, Within, Mapped
    <3> QED  BY <1>1, <1>3, <2>2, <3>2, <3>3 DEF Places, Placed, Orphan, Node
  <2>3. CASE g # h /\ ~(Node(g) /\ elf[g].parent # NULL)
    BY <1>1, <1>3, <2>3 DEF Places, Placed, Misplaced, Orphan, Node
  <2> QED  BY <2>1, <2>2, <2>3
<1> QED  BY <1>4, <1>5, <1>6, <1>7 DEF Places

-----------------------------------------------------------------------------
(* The end of a descriptor.                                                *)

\* Destroy(h) where it finds what it looks for.
Gone(h) ==
  /\ Alive(h) /\ elf[h].children = {}
  /\ elf[h].parent # NULL => Node(h)
  /\ heap' = heap \ Owned(h)
  /\ elf' = [g \in Handle |->
               IF g = h THEN Freed
               ELSE IF g = elf[h].parent THEN [elf[g] EXCEPT !.children = @ \ {h}]
               ELSE elf[g]]
  /\ home' = [home EXCEPT ![h] = 0]

LEMMA OthersRemain ==
  ASSUME TypeOK, Tree, NEW h \in Handle, Gone(h)
  PROVE  /\ ~Alive(h)' /\ elf'[h] = Freed
         /\ \A g \in Handle \ {h} :
              /\ Alive(g)' <=> Alive(g)
              /\ Node(g)' <=> Node(g)
              /\ elf'[g].kind = elf[g].kind /\ elf'[g].parent = elf[g].parent
              /\ elf'[g].children = elf[g].children \ {h}
              /\ elf'[g].clone <=> elf[g].clone
              /\ elf'[g].map = elf[g].map /\ home'[g] = home[g]
              /\ elf'[g].start = elf[g].start /\ elf'[g].size = elf[g].size
              /\ SameHeader(g) /\ elf'[g].refs = elf[g].refs
         /\ \A g \in Handle : Node(g) => elf[g].parent # h
<1>1. <<"elf", h>> \in Owned(h) /\ ~Alive(h)' /\ elf'[h] = Freed
  BY DEF Gone, Owned, Alive
<1>2. ASSUME NEW g \in Handle \ {h}
      PROVE  /\ Alive(g)' <=> Alive(g)
             /\ elf'[g].kind = elf[g].kind /\ elf'[g].parent = elf[g].parent
             /\ elf'[g].children = elf[g].children \ {h}
             /\ elf'[g].clone <=> elf[g].clone
             /\ elf'[g].map = elf[g].map /\ home'[g] = home[g]
             /\ elf'[g].start = elf[g].start /\ elf'[g].size = elf[g].size
             /\ SameHeader(g) /\ elf'[g].refs = elf[g].refs
  <2>1. (Alive(g)' <=> Alive(g)) /\ home'[g] = home[g]
    BY DEF Gone, Owned, Alive, TypeOK
  <2>2. CASE g = elf[h].parent
    <3>1. elf'[g] = [elf[g] EXCEPT !.children = @ \ {h}]
      BY <2>2 DEF Gone
    <3>2. elf[g] \in Descriptors
      BY DEF TypeOK
    <3>3. /\ elf'[g].kind = elf[g].kind /\ elf'[g].parent = elf[g].parent
          /\ elf'[g].children = elf[g].children \ {h}
          /\ elf'[g].clone = elf[g].clone /\ elf'[g].map = elf[g].map
          /\ elf'[g].start = elf[g].start /\ elf'[g].size = elf[g].size
          /\ elf'[g].offset = elf[g].offset /\ elf'[g].hdr = elf[g].hdr
          /\ elf'[g].refs = elf[g].refs
      BY <3>1, <3>2 DEF Descriptors
    <3> QED  BY <2>1, <3>3 DEF SameHeader
  <2>3. CASE g # elf[h].parent
    <3>1. elf'[g] = elf[g]
      BY <2>3 DEF Gone
    <3>2. h \notin elf[g].children
      BY <2>3 DEF Tree, ListsAgree
    <3> QED  BY <2>1, <3>1, <3>2 DEF SameHeader
  <2> QED  BY <2>2, <2>3
<1>3. \A g \in Handle \ {h} : Node(g)' <=> Node(g)
  BY <1>2 DEF Node
<1>4. \A g \in Handle : Node(g) => elf[g].parent # h
  BY NullAssumption, FieldTypes DEF Gone, Tree, Enrolled
<1> QED  BY <1>1, <1>2, <1>3, <1>4

LEMMA TreeShrinks ==
  ASSUME TypeOK, Tree, NEW h \in Handle, Gone(h), NULL \notin Handle
  PROVE  Tree'
<1>1. /\ ~Alive(h)' /\ elf'[h].children = {} /\ ~elf'[h].clone
      /\ \A g \in Handle \ {h} :
              /\ Alive(g)' <=> Alive(g)
              /\ Node(g)' <=> Node(g)
              /\ elf'[g].kind = elf[g].kind /\ elf'[g].parent = elf[g].parent
              /\ elf'[g].children = elf[g].children \ {h}
              /\ elf'[g].clone <=> elf[g].clone
      /\ \A g \in Handle : Node(g) => elf[g].parent # h
  BY OthersRemain DEF Freed
<1>2. ClonesApart'
  BY <1>1 DEF Tree, ClonesApart
<1>3. Enrolled'
  <2> SUFFICES ASSUME NEW g \in Handle, Node(g)', elf'[g].parent # NULL
               PROVE  /\ Alive(elf[g].parent)' /\ elf'[elf'[g].parent].kind = "AR"
                      /\ g \in elf'[elf'[g].parent].children
    BY DEF Enrolled
  <2>1. g # h /\ Node(g) /\ elf'[g].parent = elf[g].parent
    BY <1>1 DEF Node
  <2>2. elf[g].parent \in Handle \ {h}
    BY <1>1, <2>1, FieldTypes
  <2> QED  BY <1>1, <2>1, <2>2 DEF Tree, Enrolled
<1>4. ListsAgree'
  <2> SUFFICES ASSUME NEW p \in Handle, NEW c \in elf'[p].children
               PROVE  Node(c)' /\ elf'[c].parent = p
    BY DEF ListsAgree
  <2>1. p # h /\ c \in elf[p].children \ {h} /\ c \in Handle
    BY <1>1, FieldTypes
  <2> QED  BY <1>1, <2>1 DEF Tree, ListsAgree
<1>5. Acyclic'
  <2> SUFFICES ASSUME NEW S \in SUBSET {g \in Handle : Node(g)'}, S # {}
               PROVE  \E c \in S : elf'[c].parent \notin S
    BY DEF Acyclic
  <2>1. \A c \in S : c # h /\ Node(c) /\ elf'[c].parent = elf[c].parent
    BY <1>1 DEF Node
  <2> QED  BY <2>1 DEF Tree, Acyclic
<1> QED  BY <1>2, <1>3, <1>4, <1>5 DEF Tree

\* The memory of a descriptor without members is nobody else's: whoever shares
\* it has it from its archive, and a set of such descriptors has one at its top.
LEMMA NobodyShares ==
  ASSUME TypeOK, Tree, Memory, NEW h \in Handle, elf[h].children = {}, NULL \notin Handle,
         NEW f \in Handle \ {h}, Node(f)
  PROVE  elf[f].map.block \notin {<<"mmap", h>>, <<"copy", h>>}
<1> DEFINE B == {<<"mmap", h>>, <<"copy", h>>}
           S == {g \in Handle \ {h} : Node(g) /\ elf[g].map.block \in B}
<1> SUFFICES ASSUME S # {} PROVE FALSE
  OBVIOUS
<1>1. PICK c \in S : elf[c].parent \notin S
  BY DEF Tree, Acyclic
<1>2. Mapped(elf[c]) /\ elf[c].map.block # User
  BY NullAssumption DEF Mapped, Blocks, User
<1>3. elf[c].map.block \notin {<<"mmap", c>>, <<"copy", c>>}
  OBVIOUS
<1>4. /\ elf[c].parent # NULL
      /\ elf[c].map.block = elf[elf[c].parent].map.block
  BY <1>2, <1>3 DEF Memory, MapOrigin
<1>5. /\ elf[c].parent \in Handle /\ Alive(elf[c].parent)
      /\ elf[elf[c].parent].kind = "AR" /\ c \in elf[elf[c].parent].children
  BY <1>4, FieldTypes DEF Tree, Enrolled
<1>6. Node(elf[c].parent) /\ elf[c].parent # h
  BY <1>5 DEF Tree, ClonesApart, Node
<1> QED  BY <1>1, <1>4, <1>5, <1>6

LEMMA MemoryShrinks ==
  ASSUME TypeOK, Tree, Memory, NEW h \in Handle, Gone(h), NULL \notin Handle
  PROVE  Memory'
<1>1. /\ ~Alive(h)' /\ elf'[h] = Freed /\ ~Node(h)'
      /\ \A g \in Handle \ {h} :
              /\ Alive(g)' <=> Alive(g)
              /\ Node(g)' <=> Node(g)
              /\ elf'[g].parent = elf[g].parent /\ elf'[g].map = elf[g].map
      /\ \A g \in Handle : Node(g) => elf[g].parent # h
  BY OthersRemain DEF Node
<1>2. heap' = heap \ Owned(h) /\ elf[h].children = {}
  BY DEF Gone
<1>3. \A g \in Handle \ {h} : Node(g) /\ Mapped(elf[g]) /\ elf[g].map.block # User =>
        elf[g].map.block \in heap'
  <2> SUFFICES ASSUME NEW g \in Handle \ {h}, Node(g), Mapped(elf[g]), elf[g].map.block # User
               PROVE  elf[g].map.block \in heap'
    OBVIOUS
  <2>1. PICK f \in Handle : \/ elf[g].map.block = <<"mmap", f>>
                            \/ elf[g].map.block = <<"copy", f>>
    BY MapTypes
  <2>2. elf[g].map.block \in heap
    BY DEF Memory, MapsLive, Node
  <2>3. f # h
    BY <1>2, <2>1, NobodyShares
  <2> QED  BY <1>2, <2>1, <2>2, <2>3 DEF Owned
<1>4. MapOrigin'
  <2> SUFFICES ASSUME NEW g \in Handle, Node(g)', Mapped(elf[g])', elf'[g].map.block # User
               PROVE  \/ elf'[g].map.block \in {<<"mmap", g>>, <<"copy", g>>} \cap heap'
                      \/ /\ elf'[g].parent # NULL
                         /\ elf'[g].map.block = elf'[elf'[g].parent].map.block
    BY DEF MapOrigin
  <2>1. g # h /\ Node(g) /\ Mapped(elf[g]) /\ elf[g].map.block # User
    BY <1>1 DEF Mapped
  <2>2. elf[g].map.block \in heap'
    BY <1>3, <2>1
  <2>3. CASE elf[g].map.block \in {<<"mmap", g>>, <<"copy", g>>} \cap heap
    BY <1>1, <2>1, <2>2, <2>3
  <2>4. CASE elf[g].parent # NULL /\ elf[g].map.block = elf[elf[g].parent].map.block
    <3>1. elf[g].parent \in Handle \ {h}
      BY <1>1, <2>1, <2>4, FieldTypes
    <3> QED  BY <1>1, <2>1, <2>4, <3>1
  <2> QED  BY <2>1, <2>3, <2>4 DEF Memory, MapOrigin
<1>5. MapBase'
  <2> SUFFICES ASSUME NEW g \in Handle, elf'[g].map.base # 0
               PROVE  Mapped(elf[g])' /\ elf'[g].map.block[1] = "copy"
    BY DEF MapBase
  <2>1. g # h
    BY <1>1 DEF Freed, NoMap
  <2> QED  BY <1>1, <2>1 DEF Memory, MapBase, Mapped
<1>6. MmapOfRoot'
  <2> SUFFICES ASSUME NEW g \in Handle, <<"mmap", g>> \in heap'
               PROVE  elf'[g].parent = NULL
    BY DEF MmapOfRoot
  <2>1. CASE g = h
    BY <1>1, <2>1 DEF Freed
  <2>2. CASE g # h
    BY <1>1, <1>2, <2>2 DEF Memory, MmapOfRoot
  <2> QED  BY <2>1, <2>2
<1>7. MapsLive'
  <2> SUFFICES ASSUME NEW g \in Handle, Node(g)', Mapped(elf[g])', elf'[g].map.block # User
               PROVE  elf'[g].map.block \in heap'
    BY DEF MapsLive, Node
  <2> QED  BY <1>1, <1>3 DEF Mapped
<1>8. Accounted'
  <2> SUFFICES ASSUME NEW b \in heap'
               PROVE  Alive(b[2])' \/ b[1] = "copy"
    BY DEF Accounted
  <2>1. PICK w \in {"elf", "mmap", "copy", "names", "arsym"}, g \in Handle : b = <<w, g>>
    <3>1. b \in Blocks
      BY <1>2 DEF TypeOK
    <3> QED  BY <3>1 DEF Blocks
  <2>2. b \in heap /\ b \notin Owned(h)
    BY <1>2
  <2>3. CASE g = h
    <3>1. w \in {"mmap", "copy"} /\ elf[h].parent # NULL
      BY <2>1, <2>2, <2>3 DEF Owned
    <3> QED  BY <2>1, <2>2, <2>3, <3>1 DEF Memory, MmapOfRoot
  <2>4. CASE g # h
    BY <1>1, <2>1, <2>2, <2>4 DEF Memory, Accounted
  <2> QED  BY <2>3, <2>4
<1> QED  BY <1>4, <1>5, <1>6, <1>7, <1>8 DEF Memory

LEMMA PlacesShrink ==
  ASSUME TypeOK, Tree, Places, NEW h \in Handle, Gone(h), NULL \notin Handle
  PROVE  Places'
<1>1. /\ ~Alive(h)' /\ ~Node(h)'
      /\ \A g \in Handle \ {h} :
              /\ Alive(g)' <=> Alive(g)
              /\ Node(g)' <=> Node(g)
              /\ elf'[g].clone <=> elf[g].clone
              /\ elf'[g].kind = elf[g].kind /\ elf'[g].parent = elf[g].parent
              /\ elf'[g].map = elf[g].map /\ home'[g] = home[g]
              /\ elf'[g].start = elf[g].start /\ elf'[g].size = elf[g].size
              /\ SameHeader(g)
      /\ \A g \in Handle : Node(g) => elf[g].parent # h
  BY OthersRemain DEF Node
<1>2. \A g \in Handle \ {h} : /\ OfFile(g)' <=> OfFile(g)
                              /\ InPlace(g)' <=> InPlace(g)
  BY <1>1 DEF OfFile, InPlace, FileOffset, Mapped
<1>3. \A g \in Handle \ {h} : Node(g) /\ elf[g].parent # NULL => elf[g].parent \in Handle \ {h}
  BY <1>1, FieldTypes
<1>4. Ordered'
  <2> SUFFICES ASSUME NEW g \in Handle, Alive(g)'
               PROVE  /\ elf'[g].kind = "AR" => elf'[g].offset >= elf'[g].start
                      /\ (/\ Node(g)' /\ elf'[g].parent # NULL /\ ~Mapped(elf[g])'
                          /\ ~Mapped(elf'[elf'[g].parent]))
                          => elf'[g].start >= elf'[elf'[g].parent].start
    BY DEF Ordered
  <2>1. g # h
    BY <1>1
  <2>2. elf'[g].kind = "AR" => elf'[g].offset >= elf'[g].start
    BY <1>1, <2>1 DEF Places, Ordered, SameHeader
  <2>3. (/\ Node(g)' /\ elf'[g].parent # NULL /\ ~Mapped(elf[g])'
         /\ ~Mapped(elf'[elf'[g].parent])) => elf'[g].start >= elf'[elf'[g].parent].start
    BY <1>1, <1>3, <2>1 DEF Places, Ordered, Mapped
  <2> QED  BY <2>2, <2>3
<1>5. FileInPlace' /\ RootsWhole'
  BY <1>1, <1>2 DEF Places, FileInPlace, RootsWhole
<1>6. HeaderFresh' /\ HeadersFit'
  <2> SUFFICES ASSUME NEW g \in Handle, Alive(g)', elf'[g].kind = "AR", elf'[g].hdr.valid
               PROVE  HeaderGood(g, elf[g])'
    BY DEF HeaderFresh, HeadersFit, HeaderGood
  <2>1. g # h
    BY <1>1
  <2> QED  BY <1>1, <1>2, <2>1 DEF Places, Ordered, HeaderFresh, HeadersFit, HeaderGood,
           SameHeader, FileOffset, HeaderFits
<1>7. Placed'
  <2> SUFFICES ASSUME NEW g \in Handle, Alive(g)'
               PROVE  /\ InPlace(g)' \/ Misplaced(g)' \/ elf'[g].clone
                      /\ elf'[g].parent # NULL /\ ~Orphan(g)' => Contained(g)'
    BY DEF Placed
  <2>1. g # h
    BY <1>1
  <2>2. CASE Node(g) /\ elf[g].parent # NULL
    <3>1. elf[g].parent \in Handle \ {h}
      BY <1>3, <2>1, <2>2
    <3>2. Misplaced(g) => Misplaced(g)'
      BY <1>1, <2>1, <2>2, <3>1 DEF Misplaced, FileOffset
    <3>3. Contained(g) => Contained(g)'
      BY <1>1, <2>1, <2>2, <3>1 DEF Contained, Within, Mapped
    <3> QED  BY <1>1, <1>2, <2>1, <2>2, <3>2, <3>3 DEF Places, Placed, Orphan, Node
  <2>3. CASE ~(Node(g) /\ elf[g].parent # NULL)
    BY <1>1, <1>2, <2>1, <2>3 DEF Places, Placed, Misplaced, Orphan, Node
  <2> QED  BY <2>2, <2>3
<1> QED  BY <1>4, <1>5, <1>6, <1>7 DEF Places

-----------------------------------------------------------------------------
(* Reading the file in.                                                    *)

\* What set_address() reaches: it stops at no descriptor that needs the copy,
\* touches none that does not, and finds only positions behind the copy's start.
LEMMA BelowClosed ==
  ASSUME NEW h \in Handle, TypeOK
  PROVE  ClosedBelow(h, Below(h))
<1> SUFFICES ASSUME NEW p \in Below(h) \cup {h}, NEW c \in elf[p].children, ~Mapped(elf[c])
             PROVE  c \in Below(h)
  BY DEF ClosedBelow
<1>1. p \in Handle
  BY DEF Below
<1>2. c \in Handle
  BY <1>1, FieldTypes
<1>3. ASSUME NEW S \in SUBSET Handle, ClosedBelow(h, S)
      PROVE  c \in S
  <2>1. p \in S \cup {h}
    BY <1>3 DEF Below
  <2> QED  BY <1>3, <2>1 DEF ClosedBelow
<1> QED  BY <1>2, <1>3 DEF Below

LEMMA BelowUnmapped ==
  ASSUME NEW h \in Handle, TypeOK, Tree, Ordered, ~Mapped(elf[h])
  PROVE  \A c \in Below(h) :
           /\ ~Mapped(elf[c]) /\ elf[c].start >= elf[h].start
           /\ Node(c) /\ elf[c].parent \in Below(h) \cup {h}
<1> DEFINE S == {c \in Below(h) : /\ ~Mapped(elf[c]) /\ elf[c].start >= elf[h].start
                                  /\ Node(c) /\ elf[c].parent \in Below(h) \cup {h}}
<1>1. S \in SUBSET Handle /\ Below(h) \subseteq Handle
  BY DEF Below
<1>2. ClosedBelow(h, S)
  <2> SUFFICES ASSUME NEW p \in S \cup {h}, NEW c \in elf[p].children, ~Mapped(elf[c])
               PROVE  c \in S
    BY DEF ClosedBelow
  <2>1. p \in Handle /\ p \in Below(h) \cup {h} /\ ~Mapped(elf[p]) /\ elf[p].start >= elf[h].start
    BY <1>1, FieldTypes
  <2>2. c \in Handle /\ c \in Below(h)
    BY <2>1, BelowClosed, FieldTypes DEF ClosedBelow
  <2>3. Node(c) /\ elf[c].parent = p /\ p # NULL
    BY <2>1, NullAssumption DEF Tree, ListsAgree
  <2>4. elf[c].start >= elf[p].start
    BY <2>1, <2>2, <2>3 DEF Ordered, Node
  <2>5. elf[c].start >= elf[h].start
    BY <2>1, <2>2, <2>4, FieldTypes
  <2> QED  BY <2>1, <2>2, <2>3, <2>5
<1>3. Below(h) \subseteq S
  BY <1>1, <1>2 DEF Below
<1> QED  BY <1>3

\* h and those below it are in the copy of h now, everything else is as it was.
Copied(h, M) ==
  /\ h \in M /\ M \subseteq Handle
  /\ \A g \in M : /\ ~Mapped(elf[g]) /\ elf[g].start >= elf[h].start
                  /\ elf'[g].map = [block |-> <<"copy", h>>, base |-> elf[h].start]
                  /\ elf'[g].start = elf[g].start - elf[h].start
                  /\ elf'[g].offset = IF elf[g].kind = "AR" THEN elf[g].offset - elf[h].start
                                      ELSE elf[g].offset
                  /\ g # h => Node(g) /\ elf[g].parent \in M
                  /\ \A c \in elf[g].children : ~Mapped(elf[c]) => c \in M
  /\ \A g \in Handle \ M : elf'[g].map = elf[g].map /\ elf'[g].start = elf[g].start
                           /\ elf'[g].offset = elf[g].offset
  /\ \A g \in Handle : elf'[g].size = elf[g].size /\ elf'[g].hdr = elf[g].hdr
                       /\ elf'[g].refs = elf[g].refs
  /\ heap' = heap \cup {<<"copy", h>>}
  /\ home' = home

LEMMA RelocatedFields ==
  ASSUME NEW e \in Descriptors, NEW by \in Nat,
         NEW map \in [block : Maps \cup {NULL, User}, base : Nat],
         e.start >= by, e.kind = "AR" => e.offset >= by
  PROVE  LET r == Relocated(e, map, by) IN
         /\ r \in Descriptors /\ r.map = map
         /\ r.start = e.start - by
         /\ r.offset = IF e.kind = "AR" THEN e.offset - by ELSE e.offset
         /\ r.kind = e.kind /\ r.parent = e.parent
         /\ r.children = e.children /\ r.clone = e.clone
         /\ r.size = e.size /\ r.hdr = e.hdr /\ r.refs = e.refs
<1> DEFINE at == IF e.kind = "AR" THEN e.offset - by ELSE e.offset
<1>1. e.start - by \in Nat /\ at \in Nat
  BY DEF Descriptors
<1> DEFINE e1 == [e EXCEPT !.map = map]
           e2 == [e1 EXCEPT !.start = e.start - by]
           e3 == [e2 EXCEPT !.offset = at]
<1>2. Relocated(e, map, by) = e3
  BY DEF Relocated, Descriptors
<1> HIDE DEF at
<1>3. e1 \in Descriptors
  BY DEF Descriptors
<1>4. e2 \in Descriptors
  <2> HIDE DEF e1
  <2> QED  BY <1>1, <1>3 DEF Descriptors
<1>5. e3 \in Descriptors
  <2> HIDE DEF e2
  <2> QED  BY <1>1, <1>4 DEF Descriptors
<1>6. /\ e3.map = map /\ e3.start = e.start - by /\ e3.offset = at
      /\ e3.kind = e.kind /\ e3.parent = e.parent
      /\ e3.children = e.children /\ e3.clone = e.clone
      /\ e3.size = e.size /\ e3.hdr = e.hdr /\ e3.refs = e.refs
  BY DEF Descriptors
<1> QED  BY <1>2, <1>5, <1>6 DEF at

LEMMA ReadInEffect ==
  ASSUME NEW h \in Handle, NEW fd \in BOOLEAN, TypeOK, Tree, Ordered, Alive(h),
         ~Mapped(elf[h]), ReadIn(h, fd)
  PROVE  TypeOK' /\ SameTree /\ \E M : Copied(h, M)
<1> DEFINE M == Below(h) \cup {h}
           map == [block |-> <<"copy", h>>, base |-> elf[h].start]
<1>1. M \subseteq Handle
  BY DEF Below
<1>2. \A g \in M : /\ ~Mapped(elf[g]) /\ elf[g].start >= elf[h].start
                   /\ g # h => Node(g) /\ elf[g].parent \in M
                   /\ \A c \in elf[g].children : ~Mapped(elf[c]) => c \in M
  BY <1>1, BelowUnmapped, BelowClosed, FieldTypes DEF ClosedBelow
<1>3. \A g \in M : Alive(g)
  BY <1>2 DEF Node
<1>4. \A g \in M : elf[g].kind = "AR" => elf[g].offset >= elf[g].start
  BY <1>1, <1>3 DEF Ordered
<1>5. \A g \in Handle \ M : elf'[g] = elf[g]
  BY DEF ReadIn
<1>6. map \in [block : Maps \cup {NULL, User}, base : Nat]
  BY FieldTypes DEF Maps
<1>7. ASSUME NEW g \in M
      PROVE  /\ elf'[g] \in Descriptors
             /\ elf'[g].map = map
             /\ elf'[g].start = elf[g].start - elf[h].start
             /\ elf'[g].offset = IF elf[g].kind = "AR" THEN elf[g].offset - elf[h].start
                                 ELSE elf[g].offset
             /\ elf'[g].kind = elf[g].kind /\ elf'[g].parent = elf[g].parent
             /\ elf'[g].children = elf[g].children /\ elf'[g].clone = elf[g].clone
             /\ elf'[g].size = elf[g].size /\ elf'[g].hdr = elf[g].hdr
             /\ elf'[g].refs = elf[g].refs
  <2> DEFINE r == Relocated(elf[g], map, elf[h].start)
  <2>1. elf[g] \in Descriptors /\ elf[h].start \in Nat
    BY <1>1, FieldTypes DEF TypeOK
  <2>2. elf[g].start >= elf[h].start /\ (elf[g].kind = "AR" => elf[g].offset >= elf[h].start)
    BY <1>1, <1>2, <1>4, <2>1, FieldTypes
  <2>3. /\ r \in Descriptors /\ r.map = map
        /\ r.start = elf[g].start - elf[h].start
        /\ r.offset = IF elf[g].kind = "AR" THEN elf[g].offset - elf[h].start
                      ELSE elf[g].offset
        /\ r.kind = elf[g].kind /\ r.parent = elf[g].parent
        /\ r.children = elf[g].children /\ r.clone = elf[g].clone
        /\ r.size = elf[g].size /\ r.hdr = elf[g].hdr
        /\ r.refs = elf[g].refs
    BY <1>6, <2>1, <2>2, RelocatedFields
  <2>4. CASE g = h
    <3> HIDE DEF r
    <3>1. elf'[g] = [r EXCEPT !.fd = fd]
      BY <2>4 DEF ReadIn, r
    <3> QED  BY <2>3, <3>1 DEF Descriptors
  <2>5. CASE g # h
    <3>1. elf'[g] = r
      BY <1>1, <2>5 DEF ReadIn
    <3> QED  BY <2>3, <3>1
  <2> QED  BY <2>4, <2>5
<1>8. TypeOK'
  <2>1. elf' \in [Handle -> Descriptors]
    BY <1>1, <1>5, <1>7 DEF ReadIn, TypeOK
  <2>2. heap' \subseteq Blocks
    <3>1. <<"copy", h>> \in Blocks
      BY DEF Blocks
    <3> QED  BY <3>1 DEF ReadIn, TypeOK
  <2> QED  BY <2>1, <2>2 DEF ReadIn, TypeOK
<1>9. SameTree
  <2>1. \A g \in Handle : Alive(g)' <=> Alive(g)
    BY DEF ReadIn, Alive
  <2> QED  BY <1>5, <1>7, <2>1 DEF SameTree
<1>10. Copied(h, M)
  BY <1>1, <1>2, <1>5, <1>7 DEF Copied, ReadIn
<1> QED  BY <1>8, <1>9, <1>10

LEMMA CopiedMemory ==
  ASSUME NEW h \in Handle, NEW M, TypeOK, TypeOK', Tree, Memory, SameTree, Alive(h), Copied(h, M)
  PROVE  Memory'
<1>1. /\ h \in M /\ M \subseteq Handle /\ heap' = heap \cup {<<"copy", h>>}
      /\ \A g \in M : /\ ~Mapped(elf[g]) /\ elf'[g].map.block = <<"copy", h>>
                      /\ g # h => Node(g) /\ elf[g].parent \in M
      /\ \A g \in Handle \ M : elf'[g].map = elf[g].map
  BY DEF Copied
<1>2. \A g \in Handle : /\ Alive(g)' <=> Alive(g)
                        /\ Node(g)' <=> Node(g)
                        /\ elf'[g].parent = elf[g].parent
  BY DEF SameTree, Node
<1>3. MapOrigin'
  <2> SUFFICES ASSUME NEW g \in Handle, Node(g)', Mapped(elf[g])', elf'[g].map.block # User
               PROVE  \/ elf'[g].map.block \in {<<"mmap", g>>, <<"copy", g>>} \cap heap'
                      \/ /\ elf'[g].parent # NULL
                         /\ elf'[g].map.block = elf'[elf'[g].parent].map.block
    BY DEF MapOrigin
  <2>1. CASE g = h
    BY <1>1, <2>1
  <2>2. CASE g \in M \ {h}
    BY <1>1, <1>2, <2>2, NullAssumption
  <2>3. CASE g \notin M
    <3>1. Node(g) /\ Mapped(elf[g]) /\ elf[g].map.block # User
      BY <1>1, <1>2, <2>3 DEF Mapped
    <3>2. CASE elf[g].map.block \in {<<"mmap", g>>, <<"copy", g>>} \cap heap
      BY <1>1, <2>3, <3>2
    <3>3. CASE elf[g].parent # NULL /\ elf[g].map.block = elf[elf[g].parent].map.block
      <4>1. elf[g].parent \in Handle \ M
        BY <1>1, <3>1, <3>3, FieldTypes DEF Mapped
      <4> QED  BY <1>1, <1>2, <2>3, <3>3, <4>1
    <3> QED  BY <3>1, <3>2, <3>3 DEF Memory, MapOrigin
  <2> QED  BY <2>1, <2>2, <2>3
<1>4. MapBase'
  <2> SUFFICES ASSUME NEW g \in Handle, elf'[g].map.base # 0
               PROVE  Mapped(elf[g])' /\ elf'[g].map.block[1] = "copy"
    BY DEF MapBase
  <2>1. CASE g \in M
    BY <1>1, <2>1, NullAssumption DEF Mapped, Blocks
  <2>2. CASE g \notin M
    BY <1>1, <2>2 DEF Memory, MapBase, Mapped
  <2> QED  BY <2>1, <2>2
<1>5. MmapOfRoot'
  <2> SUFFICES ASSUME NEW g \in Handle, <<"mmap", g>> \in heap'
               PROVE  elf'[g].parent = NULL
    BY DEF MmapOfRoot
  <2>1. <<"mmap", g>> \in heap
    BY <1>1
  <2> QED  BY <1>2, <2>1 DEF Memory, MmapOfRoot
<1>6. MapsLive'
  <2> SUFFICES ASSUME NEW g \in Handle, Node(g)', Mapped(elf[g])', elf'[g].map.block # User
               PROVE  elf'[g].map.block \in heap'
    BY DEF MapsLive, Node
  <2>1. CASE g \in M
    BY <1>1, <2>1
  <2>2. CASE g \notin M
    BY <1>1, <1>2, <2>2 DEF Memory, MapsLive, Mapped, Node
  <2> QED  BY <2>1, <2>2
<1>7. Accounted'
  <2> SUFFICES ASSUME NEW b \in heap'
               PROVE  Alive(b[2])' \/ b[1] = "copy"
    BY DEF Accounted
  <2>1. CASE b = <<"copy", h>>
    BY <2>1
  <2>2. CASE b \in heap
    <3>1. b[2] \in Handle
      BY <2>2 DEF TypeOK, Blocks
    <3> QED  BY <1>2, <2>2, <3>1 DEF Memory, Accounted
  <2> QED  BY <1>1, <2>1, <2>2
<1> QED  BY <1>3, <1>4, <1>5, <1>6, <1>7 DEF Memory

LEMMA CopiedPlaces ==
  ASSUME NEW h \in Handle, NEW M, TypeOK, TypeOK', Tree, MapBase, Places, SameTree, Copied(h, M)
  PROVE  Places'
<1> DEFINE by == elf[h].start
<1>1. /\ M \subseteq Handle /\ home' = home /\ by \in Nat
      /\ \A g \in Handle : elf'[g].size = elf[g].size /\ elf'[g].hdr = elf[g].hdr
      /\ \A g \in Handle \ M : elf'[g].map = elf[g].map /\ elf'[g].start = elf[g].start
                               /\ elf'[g].offset = elf[g].offset
  BY FieldTypes DEF Copied
<1>2. \A g \in M : /\ ~Mapped(elf[g]) /\ elf[g].map.base = 0
                   /\ elf'[g].map = [block |-> <<"copy", h>>, base |-> by]
                   /\ elf'[g].start = elf[g].start - by
                   /\ elf[g].kind = "AR" => elf'[g].offset = elf[g].offset - by
  BY <1>1 DEF Copied, MapBase
<1>3. \A g \in Handle : /\ Alive(g)' <=> Alive(g)
                        /\ Node(g)' <=> Node(g)
                        /\ elf'[g].kind = elf[g].kind /\ elf'[g].parent = elf[g].parent
                        /\ elf'[g].clone <=> elf[g].clone
  BY DEF SameTree, Node
<1>4. \A g \in Handle : InPlace(g)' <=> InPlace(g)
  BY <1>1, <1>2, FieldTypes DEF InPlace, FileOffset
<1>5. \A g \in Handle : OfFile(g)' => OfFile(g)
  <2> SUFFICES ASSUME NEW g \in Handle, OfFile(g)'
               PROVE  OfFile(g)
    OBVIOUS
  <2>1. CASE g \in M
    BY <1>2, <1>3, <2>1 DEF OfFile
  <2>2. CASE g \notin M
    BY <1>1, <1>3, <2>2 DEF OfFile, Mapped
  <2> QED  BY <2>1, <2>2
<1>6. Ordered'
  <2> SUFFICES ASSUME NEW g \in Handle, Alive(g)'
               PROVE  /\ elf'[g].kind = "AR" => elf'[g].offset >= elf'[g].start
                      /\ (/\ Node(g)' /\ elf'[g].parent # NULL /\ ~Mapped(elf[g])'
                          /\ ~Mapped(elf'[elf'[g].parent]))
                          => elf'[g].start >= elf'[elf'[g].parent].start
    BY DEF Ordered
  <2>1. elf'[g].kind = "AR" => elf'[g].offset >= elf'[g].start
    BY <1>1, <1>2, <1>3, FieldTypes DEF Places, Ordered
  <2>2. \A f \in Handle : ~Mapped(elf[f])' => f \notin M /\ ~Mapped(elf[f])
    BY <1>1, <1>2, NullAssumption DEF Mapped, Blocks
  <2>3. ASSUME Node(g)', elf'[g].parent # NULL, ~Mapped(elf[g])', ~Mapped(elf'[elf'[g].parent])
        PROVE  elf'[g].start >= elf'[elf'[g].parent].start
    <3>1. elf[g].parent \in Handle /\ elf'[g].parent = elf[g].parent
      BY <1>3, <2>3, FieldTypes
    <3>2. /\ ~Mapped(elf[g]) /\ ~Mapped(elf[elf[g].parent])
          /\ g \notin M /\ elf[g].parent \notin M
      BY <2>2, <2>3, <3>1 DEF Mapped
    <3> QED  BY <1>1, <1>3, <2>3, <3>1, <3>2 DEF Places, Ordered
  <2> QED  BY <2>1, <2>3
<1>7. FileInPlace'
  BY <1>3, <1>4, <1>5 DEF Places, FileInPlace
<1>8. RootsWhole'
  <2> SUFFICES ASSUME NEW g \in Handle, Alive(g)', elf'[g].kind = "AR", elf'[g].parent = NULL
               PROVE  elf'[g].start = 0 /\ elf'[g].size = FileSize /\ elf'[g].map.base = 0
    BY DEF RootsWhole
  <2>1. elf[g].start = 0 /\ elf[g].size = FileSize /\ elf[g].map.base = 0
    BY <1>3 DEF Places, RootsWhole
  <2>2. g \in M => by = 0
    BY <2>1, <1>1 DEF Copied
  <2> QED  BY <1>1, <1>2, <2>1, <2>2
<1>9. HeaderFresh' /\ HeadersFit'
  <2> SUFFICES ASSUME NEW g \in Handle, Alive(g)', elf'[g].kind = "AR", elf'[g].hdr.valid
               PROVE  HeaderGood(g, elf[g])'
    BY DEF HeaderFresh, HeadersFit, HeaderGood
  <2>1. HeaderGood(g, elf[g])
    BY <1>1, <1>3 DEF Places, Ordered, HeaderFresh, HeadersFit, HeaderGood
  <2>2. /\ elf'[g].map.base + elf'[g].offset = elf[g].map.base + elf[g].offset
        /\ elf'[g].offset - elf'[g].start = elf[g].offset - elf[g].start
    BY <1>1, <1>2, <1>3, FieldTypes
  <2> HIDE DEF by
  <2>3. elf'[g].offset >= elf'[g].start
    BY <1>6, <1>3 DEF Ordered
  <2>4. HeaderFits(elf[g]) => HeaderFits(elf[g])'
    <3>1. /\ elf'[g].offset \in Int /\ elf'[g].start \in Int /\ elf[g].offset \in Int
          /\ elf[g].start \in Int /\ elf[g].size \in Int /\ HDR \in Int
          /\ elf[g].hdr.size \in Int
      <4>1. elf'[g].offset \in Nat /\ elf'[g].start \in Nat
        BY TypeOK' DEF TypeOK, Descriptors
      <4>2. HDR \in Nat
        BY FileAssumption
      <4> QED  BY <4>1, <4>2, FieldTypes
    <3> QED  BY <1>1, <2>2, <3>1 DEF HeaderFits, FileOffset
  <2> QED  BY <1>1, <1>3, <1>5, <2>1, <2>2, <2>3, <2>4 DEF HeaderGood, FileOffset
<1>10. Placed'
  <2> SUFFICES ASSUME NEW g \in Handle, Alive(g)'
               PROVE  /\ InPlace(g)' \/ Misplaced(g)' \/ elf'[g].clone
                      /\ elf'[g].parent # NULL /\ ~Orphan(g)' => Contained(g)'
    BY DEF Placed
  <2>1. Misplaced(g) => Misplaced(g)' \/ InPlace(g)
    <3> SUFFICES ASSUME Misplaced(g) PROVE Misplaced(g)' \/ InPlace(g)
      OBVIOUS
    <3>1. elf[g].parent \in Handle /\ elf'[g].parent = elf[g].parent
      BY <1>3, FieldTypes DEF Misplaced
    <3>2. CASE elf[g].parent \in M
      BY <1>2, <3>2, FieldTypes DEF Misplaced, InPlace, FileOffset
    <3>3. CASE elf[g].parent \notin M
      <4>1. FileOffset(elf[g], elf[g].start)' = FileOffset(elf[g], elf[g].start)
        BY <1>1, <1>2, FieldTypes DEF FileOffset
      <4> QED  BY <1>1, <3>1, <3>3, <4>1 DEF Misplaced
    <3> QED  BY <3>2, <3>3
  <2>2. Contained(g) /\ elf[g].parent # NULL => Contained(g)'
    <3> SUFFICES ASSUME Contained(g), elf[g].parent # NULL PROVE Contained(g)'
      OBVIOUS
    <3>1. elf[g].parent \in Handle /\ elf'[g].parent = elf[g].parent
      BY <1>3, FieldTypes
    <3>2. ~Mapped(elf[elf[g].parent]) \/ elf[elf[g].parent].map.block[1] = "copy" =>
          ~Mapped(elf'[elf[g].parent]) \/ elf'[elf[g].parent].map.block[1] = "copy"
      BY <1>1, <1>2, <3>1 DEF Mapped
    <3> QED  BY <1>1, <1>3, <3>1, <3>2 DEF Contained, Within
  <2> QED  BY <1>3, <1>4, <2>1, <2>2 DEF Places, Placed, Orphan
<1> QED  BY <1>6, <1>7, <1>8, <1>9, <1>10 DEF Places

-----------------------------------------------------------------------------
(* The calls that change one descriptor, and neither tree nor positions.   *)

\* The fields of one descriptor change, but not where it is; a block of names or
\* symbols may come or go.
Alike(e, d) ==
  /\ e.kind = d.kind /\ e.parent = d.parent /\ e.children = d.children
  /\ e.clone = d.clone /\ e.map = d.map /\ e.start = d.start /\ e.size = d.size
Changes(h, e) ==
  /\ elf' = [elf EXCEPT ![h] = e] /\ home' = home
  /\ e \in Descriptors /\ Alike(e, elf[h])
  /\ heap' \subseteq heap \cup {<<"names", h>>, <<"arsym", h>>}
  /\ heap \ {<<"arsym", h>>} \subseteq heap'
  /\ Alive(h) \/ heap' = heap

LEMMA OneChanges ==
  ASSUME TypeOK, NEW h \in Handle, NEW e, Changes(h, e)
  PROVE  /\ elf' \in [Handle -> Descriptors] /\ heap' \subseteq Blocks /\ home' \in [Handle -> Nat]
         /\ SameTree /\ SameMemory /\ SameExtent
         /\ \A g \in Handle \ {h} : elf'[g] = elf[g]
         /\ elf'[h] = e
<1>1. elf'[h] = e /\ \A g \in Handle \ {h} : elf'[g] = elf[g]
  BY DEF Changes, TypeOK
<1>2. elf' \in [Handle -> Descriptors] /\ home' \in [Handle -> Nat]
  BY DEF Changes, TypeOK
<1>3. heap' \subseteq Blocks
  <2>1. <<"names", h>> \in Blocks /\ <<"arsym", h>> \in Blocks
    BY DEF Blocks
  <2> QED  BY <2>1 DEF Changes, TypeOK
<1>4. \A g \in Handle : /\ Alive(g)' <=> Alive(g)
                        /\ <<"mmap", g>> \in heap' <=> <<"mmap", g>> \in heap
                        /\ <<"copy", g>> \in heap' <=> <<"copy", g>> \in heap
  BY DEF Changes, Alive
<1>5. \A g \in Handle : Alike(elf'[g], elf[g])
  BY <1>1 DEF Changes, Alike
<1>6. SameTree /\ SameExtent
  BY <1>4, <1>5 DEF SameTree, SameExtent, Alike, Changes
<1>7. \A b \in heap' : b \in heap \/ Alive(b[2])
  BY DEF Changes
<1>8. SameMemory
  BY <1>4, <1>5, <1>7 DEF SameMemory, Alike
<1> QED  BY <1>1, <1>2, <1>3, <1>6, <1>8

\* Such a change keeps the invariant if the counts and the header stay right.
LEMMA ChangesKeep ==
  ASSUME IInv, NEW h \in Handle, NEW e, Changes(h, e),
         version' \in BOOLEAN, held' \in [Handle -> 0..MaxRefs], fault' = fault,
         closing' \in {NULL, closing},
         Alive(h) => Working /\ e.refs = held'[h],
         ~Alive(h) => e = Freed /\ held'[h] = 0,
         closing' = h => e.refs = 0,
         \A g \in Handle \ {h} : held'[g] = held[g],
         \/ e.offset = elf[h].offset /\ e.hdr = elf[h].hdr
         \/ Alive(h) /\ elf[h].kind = "AR" => HeaderGood(h, e)
  PROVE  IInv' /\ SameTree
<1>1. TypeOK /\ GoneIsFreed /\ Counted /\ ClosingWaits /\ FaultKnown /\ Tree /\ Memory /\ Places
  BY DEF IInv
<1>2. /\ elf' \in [Handle -> Descriptors] /\ heap' \subseteq Blocks /\ home' \in [Handle -> Nat]
      /\ SameTree /\ SameMemory /\ SameExtent
      /\ \A g \in Handle \ {h} : elf'[g] = elf[g]
      /\ elf'[h] = e
  BY <1>1, OneChanges
<1>3. TypeOK'
  BY <1>1, <1>2 DEF TypeOK
<1>4. \A g \in Handle : (Alive(g)' <=> Alive(g)) /\ elf'[g].map = elf[g].map
  BY <1>2 DEF SameTree, SameMemory
<1>5. Tree' /\ Memory'
  BY <1>1, <1>2, <1>3, TreeStays, MemoryStays
<1>6. \A g \in Handle : SameHeader(g) \/ (Alive(g) /\ elf[g].kind = "AR" => HeaderGood(g, elf'[g]))
  BY <1>2 DEF SameHeader
<1>7. Places'
  BY <1>1, <1>2, <1>3, <1>4, <1>6, PlacesStay
<1>8. GoneIsFreed'
  <2> SUFFICES ASSUME NEW g \in Handle, ~Alive(g)'
               PROVE  elf'[g] = Freed /\ held'[g] = 0
    BY DEF GoneIsFreed
  <2>1. CASE g = h
    BY <1>2, <1>4, <2>1
  <2>2. CASE g # h
    BY <1>1, <1>2, <1>4, <2>2 DEF GoneIsFreed
  <2> QED  BY <2>1, <2>2
<1>9. Counted'
  BY <1>1, <1>2, <1>4 DEF Counted, Working
<1>10. ClosingWaits'
  <2> SUFFICES ASSUME closing' # NULL
               PROVE  /\ Alive(closing)' /\ elf'[closing'].kind = "AR" /\ elf'[closing'].refs = 0
    BY DEF ClosingWaits
  <2>1. closing' = closing /\ closing \in Handle
    BY <1>1 DEF TypeOK
  <2>2. Alive(closing) /\ elf[closing].kind = "AR" /\ elf[closing].refs = 0
    BY <1>1, <2>1 DEF ClosingWaits
  <2>3. elf'[closing].kind = "AR"
    BY <1>2, <2>1, <2>2 DEF SameTree
  <2>4. elf'[closing].refs = 0
    BY <1>2, <2>1, <2>2
  <2> QED  BY <1>4, <2>1, <2>2, <2>3, <2>4
<1>11. FaultKnown'
  BY <1>1, <1>2 DEF FaultKnown, Orphan, SameTree
<1> QED  BY <1>2, <1>3, <1>5, <1>7, <1>8, <1>9, <1>10, <1>11 DEF IInv

LEMMA HeldIsAlive ==
  ASSUME IInv, NEW h \in Handle, held[h] > 0
  PROVE  Alive(h)
BY DEF IInv, GoneIsFreed

LEMMA HeldIsCounted ==
  ASSUME IInv, Working, NEW h \in Handle, Alive(h)
  PROVE  elf[h].refs = held[h]
BY DEF IInv, Counted

\* A call that dies changes nothing but what the application holds.
LEMMA CrashKeeps ==
  ASSUME IInv, NEW why \in {"assert", "freed parent", "not in the list"}, Crash(why),
         why = "assert" \/ \E h \in Handle : Orphan(h),
         held' \in [Handle -> 0..MaxRefs], \A h \in Handle : ~Alive(h) => held'[h] = 0
  PROVE  IInv' /\ SameTree
<1>1. /\ version' = version /\ elf' = elf /\ heap' = heap /\ home' = home
      /\ closing' = closing /\ fault' = why
  BY DEF Crash
<1>2. TypeOK /\ GoneIsFreed /\ ClosingWaits /\ Tree /\ Memory /\ Places
  BY DEF IInv
<1>3. TypeOK'
  BY <1>1, <1>2 DEF TypeOK
<1>4. SameTree /\ SameMemory /\ SameExtent /\ \A h \in Handle : SameHeader(h)
  BY <1>1 DEF SameTree, SameMemory, SameExtent, SameHeader, Alive
<1>5. Tree' /\ Memory' /\ Places'
  BY <1>1, <1>2, <1>3, <1>4, TreeStays, MemoryStays, PlacesStay
<1>6. GoneIsFreed' /\ ClosingWaits'
  BY <1>1, <1>2 DEF GoneIsFreed, ClosingWaits, Alive
<1>7. Counted' /\ FaultKnown'
  BY <1>1 DEF Counted, FaultKnown, Orphan, Working
<1> QED  BY <1>3, <1>4, <1>5, <1>6, <1>7 DEF IInv

\* A step that leaves the descriptors alone.
LEMMA QuietKeeps ==
  ASSUME IInv, UNCHANGED <<elf, heap, held, home, closing, fault>>, version' \in BOOLEAN
  PROVE  IInv' /\ SameTree
<1>1. TypeOK /\ GoneIsFreed /\ Counted /\ ClosingWaits /\ FaultKnown /\ Tree /\ Memory /\ Places
  BY DEF IInv
<1>2. TypeOK'
  BY <1>1 DEF TypeOK
<1>3. SameTree /\ SameMemory /\ SameExtent /\ \A h \in Handle : SameHeader(h)
  BY DEF SameTree, SameMemory, SameExtent, SameHeader, Alive
<1>4. Tree' /\ Memory' /\ Places'
  BY <1>1, <1>2, <1>3, TreeStays, MemoryStays, PlacesStay
<1>5. GoneIsFreed' /\ Counted' /\ ClosingWaits' /\ FaultKnown'
  BY <1>1 DEF GoneIsFreed, Counted, Working, ClosingWaits, FaultKnown, Orphan, Alive
<1> QED  BY <1>2, <1>3, <1>4, <1>5 DEF IInv

LEMMA BeginAgainKeeps ==
  ASSUME IInv, Working, closing = NULL, NEW ref \in Handle, NEW cmd, BeginAgain(ref, cmd)
  PROVE  IInv' /\ SameTree
<1> DEFINE e == [elf[ref] EXCEPT !.refs = elf[ref].refs + 1]
<1>1. TypeOK /\ elf[ref] \in Descriptors /\ Alive(ref) /\ elf[ref].refs = held[ref]
  BY HeldIsAlive, HeldIsCounted DEF IInv, TypeOK, BeginAgain
<1>2. elf[ref].refs + 1 \in 0..MaxRefs
  <2>1. elf[ref].refs < MaxRefs
    BY DEF BeginAgain
  <2>2. elf[ref].refs \in 0..MaxRefs
    BY <1>1, FieldTypes
  <2> QED  BY <2>1, <2>2, BoundAssumption
<1>3. /\ e \in Descriptors /\ Alike(e, elf[ref]) /\ e.refs = elf[ref].refs + 1
      /\ e.offset = elf[ref].offset /\ e.hdr = elf[ref].hdr
  BY <1>1, <1>2 DEF Descriptors, Alike
<1>4. Changes(ref, e)
  BY <1>1, <1>3 DEF Changes, BeginAgain
<1>5. /\ held' \in [Handle -> 0..MaxRefs] /\ held'[ref] = e.refs
      /\ \A g \in Handle \ {ref} : held'[g] = held[g]
  BY <1>1, <1>2, <1>3 DEF TypeOK, BeginAgain
<1>6. version' \in BOOLEAN /\ fault' = fault /\ closing' = NULL
  BY <1>1 DEF TypeOK, BeginAgain
<1> HIDE DEF e
<1> QED  BY <1>1, <1>3, <1>4, <1>5, <1>6, ChangesKeep, NullAssumption

LEMMA getarsymKeeps ==
  ASSUME IInv, Working, closing = NULL, NEW h \in Handle, elf_getarsym(h)
  PROVE  IInv' /\ SameTree
<1>1. TypeOK /\ elf[h] \in Descriptors /\ Alive(h) /\ elf[h].refs = held[h]
  BY HeldIsAlive, HeldIsCounted DEF IInv, TypeOK, elf_getarsym
<1>2. CASE ~Mapped(elf[h]) /\ ~elf[h].fd
  <2>1. Crash("assert") /\ held' = held
    BY <1>2 DEF elf_getarsym
  <2> QED  BY <1>1, <2>1, CrashKeeps DEF IInv, TypeOK, GoneIsFreed
<1>3. CASE Mapped(elf[h]) \/ elf[h].fd
  <2> DEFINE found == FileOffset(elf[h], elf[h].start) \in IndexAt
             e == [elf[h] EXCEPT !.arsym = IF found THEN "table" ELSE "none"]
  <2>1. /\ e \in Descriptors /\ Alike(e, elf[h]) /\ e.refs = elf[h].refs
        /\ e.offset = elf[h].offset /\ e.hdr = elf[h].hdr
    BY <1>1 DEF Descriptors, Alike
  <2>2. /\ elf' = [elf EXCEPT ![h] = e]
        /\ heap' = heap \cup (IF found THEN {<<"arsym", h>>} ELSE {})
        /\ UNCHANGED <<version, held, home, closing, fault>>
    BY <1>3 DEF elf_getarsym
  <2> HIDE DEF e
  <2>3. Changes(h, e)
    BY <1>1, <2>1, <2>2 DEF Changes
  <2> QED  BY <1>1, <2>1, <2>2, <2>3, ChangesKeep, NullAssumption DEF TypeOK
<1> QED  BY <1>2, <1>3

-----------------------------------------------------------------------------
(* Moving in an archive.                                                   *)

\* The archive stands at a header, and a member of the file fits into it.
AtHeader(e) ==
  LET at == FileOffset(e, e.offset) IN
  /\ at \in DOMAIN HdrAt
  /\ e.hdr.size <= HdrAt[at].size \/ HdrAt[at].size = -1
  /\ Mapped(e) \/ (e.start = 0 /\ e.size = FileSize /\ e.map.base = 0) => HeaderFits(e)

LEMMA NextArhdr ==
  ASSUME NEW e \in Descriptors
  PROVE  LET n == next_arhdr(e) IN
         /\ n.e \in Descriptors /\ Alike(n.e, e)
         /\ n.e.refs = e.refs /\ n.e.offset = e.offset /\ n.e.fd = e.fd
         /\ n.ok => n.e.hdr.valid /\ AtHeader(n.e)
         /\ n.e.hdr = e.hdr \/ AtHeader(n.e)
         /\ ~Mapped(e) /\ ~e.fd => n.e = e /\ ~n.ok
<1> DEFINE at   == FileOffset(e, e.offset)
           size == HdrAt[at].size
           tab  == IF e.names # NULL THEN e.names ELSE read_long_names(e)
           room == (e.start + e.size) - e.offset - HDR
           e1   == [e EXCEPT !.names = IF HdrAt[at].name = "long" THEN tab ELSE @]
           away == IF Mapped(e) THEN room < 0 ELSE ~e.fd \/ at + HDR > FileSize
           some == [valid |-> TRUE, size |-> IF 0 <= room /\ room < size THEN room ELSE size]
           e2   == [e1 EXCEPT !.hdr.valid = TRUE]
           e3   == [e1 EXCEPT !.hdr = some]
           n    == next_arhdr(e)
<1>1. /\ HDR \in Nat /\ FileSize \in Nat
      /\ \A o \in DOMAIN HdrAt : HdrAt[o].size \in Nat \cup {-1}
  BY FileAssumption
<1>2. e1 \in Descriptors /\ Alike(e1, e) /\ e1.refs = e.refs /\ e1.offset = e.offset
      /\ e1.fd = e.fd /\ e1.hdr = e.hdr
  <2>1. tab \in NamesAt \cup {NULL}
    BY DEF read_long_names, Descriptors
  <2> HIDE DEF tab
  <2>2. (IF HdrAt[at].name = "long" THEN tab ELSE e.names) \in NamesAt \cup {NULL}
    BY <2>1 DEF Descriptors
  <2> QED  BY <2>2 DEF Descriptors, Alike
<1>3. n = IF away \/ at \notin DOMAIN HdrAt THEN [ok |-> FALSE, e |-> e]
          ELSE IF HdrAt[at].name = "unknown" \/ (HdrAt[at].name = "long" /\ tab = NULL)
          THEN [ok |-> FALSE, e |-> e1]
          ELSE IF size = -1 THEN [ok |-> FALSE, e |-> e2]
          ELSE [ok |-> TRUE, e |-> e3]
  BY DEF next_arhdr
<1> HIDE DEF n, e1, tab
<1>4. CASE away \/ at \notin DOMAIN HdrAt
  <2>1. n.e = e /\ ~n.ok
    BY <1>3, <1>4
  <2> QED  BY <2>1 DEF Alike, n
<1>5. CASE ~(away \/ at \notin DOMAIN HdrAt) /\ n = [ok |-> FALSE, e |-> e1]
  <2>1. n.e = e1 /\ ~n.ok
    BY <1>5
  <2>2. Mapped(e) \/ e.fd
    BY <1>5
  <2> QED  BY <1>2, <2>1, <2>2 DEF n
<1>6. CASE ~(away \/ at \notin DOMAIN HdrAt) /\ n = [ok |-> FALSE, e |-> e2] /\ size = -1
  <2>1. n.e = e2 /\ ~n.ok
    BY <1>6
  <2>2. Mapped(e) \/ e.fd
    BY <1>6
  <2>3. e2 \in Descriptors /\ Alike(e2, e1) /\ e2.refs = e1.refs /\ e2.offset = e1.offset
        /\ e2.fd = e1.fd
    BY <1>2 DEF Descriptors, Alike
  <2>4. AtHeader(e2)
    BY <1>2, <1>6, <2>3 DEF AtHeader, Alike, FileOffset, HeaderFits
  <2> QED  BY <1>2, <2>1, <2>2, <2>3, <2>4 DEF n, Alike
<1>7. CASE ~(away \/ at \notin DOMAIN HdrAt) /\ n = [ok |-> TRUE, e |-> e3] /\ size # -1
  <2>1. n.e = e3 /\ n.ok
    BY <1>7
  <2>2. Mapped(e) \/ e.fd
    BY <1>7
  <2>3. e.start \in Nat /\ e.size \in Nat /\ e.offset \in Nat /\ e.map.base \in Nat /\ size \in Nat
    BY <1>1, <1>7 DEF Descriptors
  <2>4. some \in [valid : BOOLEAN, size : Nat]
    BY <1>1, <2>3
  <2>5. e3 \in Descriptors /\ Alike(e3, e1) /\ e3.refs = e1.refs /\ e3.offset = e1.offset
        /\ e3.fd = e1.fd /\ e3.hdr = some
    <3> HIDE DEF some
    <3> QED  BY <1>2, <2>4 DEF Descriptors, Alike
  <2>6. /\ e3.offset = e.offset /\ e3.start = e.start /\ e3.size = e.size /\ e3.map = e.map
        /\ FileOffset(e3, e3.offset) = at /\ e3.hdr = some /\ e3.hdr.size = some.size
    BY <1>2, <2>5 DEF Alike, FileOffset
  <2>7. some.size <= size /\ (room >= 0 => some.size <= room) /\ some.valid
    BY <1>1, <2>3
  <2>8. Mapped(e3) \/ (e3.start = 0 /\ e3.size = FileSize /\ e3.map.base = 0) => room >= 0
    BY <1>1, <1>7, <2>3, <2>6 DEF Mapped, FileOffset
  <2>9. room >= 0 => e3.offset + HDR + e3.hdr.size <= e3.start + e3.size
    BY <1>1, <2>3, <2>4, <2>6, <2>7
  <2>10. AtHeader(e3) /\ e3.hdr.valid
    <3> HIDE DEF some, e3, room
    <3> QED  BY <1>7, <2>6, <2>7, <2>8, <2>9 DEF AtHeader, HeaderFits
  <2> QED  BY <1>2, <2>1, <2>2, <2>5, <2>10 DEF n, Alike
<1> QED  BY <1>3, <1>4, <1>5, <1>6, <1>7

\* An archive that moves keeps the invariant if it is at the header it holds.
LEMMA MovedKeeps ==
  ASSUME IInv, Working, closing = NULL, NEW p \in Handle, NEW e \in Descriptors, Moved(p, e),
         Alike(e, elf[p]), e.refs = elf[p].refs, ~Alive(p) => e = Freed,
         \/ e.offset = elf[p].offset /\ e.hdr = elf[p].hdr
         \/ Alive(p) /\ elf[p].kind = "AR" =>
              e.offset >= e.start /\ (e.hdr.valid => AtHeader(e))
  PROVE  IInv' /\ SameTree
<1>1. TypeOK /\ GoneIsFreed /\ RootsWhole
  BY DEF IInv, Places
<1>2. elf' = [elf EXCEPT ![p] = e] /\ heap' = heap \cup NamesBlock(p, e)
      /\ version' = version /\ held' = held /\ home' = home /\ closing' = closing /\ fault' = fault
  BY DEF Moved
<1>3. Alive(p) \/ heap' = heap
  BY <1>2, FreedFields DEF NamesBlock
<1>4. Changes(p, e)
  BY <1>2, <1>3 DEF Changes, NamesBlock
<1>5. ASSUME Alive(p), elf[p].kind = "AR", e.offset >= e.start, e.hdr.valid => AtHeader(e)
      PROVE  HeaderGood(p, e)
  <2>1. OfFile(p) => Mapped(e) \/ (e.start = 0 /\ e.size = FileSize /\ e.map.base = 0)
    BY <1>1, <1>5 DEF OfFile, RootsWhole, Alike, Mapped
  <2> QED  BY <1>5, <2>1 DEF HeaderGood, AtHeader
<1>6. Alive(p) => e.refs = held[p]
  BY HeldIsCounted
<1> QED  BY <1>1, <1>2, <1>4, <1>5, <1>6, ChangesKeep, NullAssumption DEF TypeOK, GoneIsFreed

\* The archive that a failed search leaves without a header.
LEMMA NoHeader ==
  ASSUME NEW e \in Descriptors
  PROVE  LET d == [e EXCEPT !.hdr.valid = FALSE] IN
         /\ d \in Descriptors /\ Alike(d, e) /\ d.refs = e.refs /\ d.offset = e.offset
         /\ ~d.hdr.valid
BY DEF Descriptors, Alike

\* The archive advances to another position and looks there.
LEMMA SeekKeeps ==
  ASSUME IInv, Working, closing = NULL, NEW p \in Handle, NEW o \in Nat, Alive(p),
         elf[p].kind = "AR" => o >= elf[p].start,
         LET n == next_arhdr([elf[p] EXCEPT !.offset = o]) IN
         Moved(p, IF n.ok THEN n.e ELSE [n.e EXCEPT !.hdr.valid = FALSE])
  PROVE  IInv' /\ SameTree
<1> DEFINE e == [elf[p] EXCEPT !.offset = o]
           n == next_arhdr(e)
           d == IF n.ok THEN n.e ELSE [n.e EXCEPT !.hdr.valid = FALSE]
<1>1. elf[p] \in Descriptors
  BY DEF IInv, TypeOK
<1>2. e \in Descriptors /\ Alike(e, elf[p]) /\ e.refs = elf[p].refs /\ e.offset = o
  BY <1>1 DEF Descriptors, Alike
<1> HIDE DEF e
<1>3. /\ n.e \in Descriptors /\ Alike(n.e, e)
      /\ n.e.refs = e.refs /\ n.e.offset = e.offset
      /\ n.ok => n.e.hdr.valid /\ AtHeader(n.e)
  BY <1>2, NextArhdr
<1> HIDE DEF n
<1>4. /\ d \in Descriptors /\ Alike(d, e) /\ d.refs = e.refs /\ d.offset = e.offset
      /\ d.hdr.valid => AtHeader(d)
  <2>1. CASE n.ok
    BY <1>3, <2>1
  <2>2. CASE ~n.ok
    <3>1. d = [n.e EXCEPT !.hdr.valid = FALSE]
      BY <2>2
    <3> QED  BY <1>3, <3>1, NoHeader DEF Alike
  <2> QED  BY <2>1, <2>2
<1>5. Moved(p, d)
  BY DEF n, e
<1> HIDE DEF d
<1>6. Alike(d, elf[p]) /\ d.refs = elf[p].refs /\ d.offset = o
  BY <1>2, <1>4 DEF Alike
<1>7. elf[p].kind = "AR" => d.offset >= d.start
  BY <1>6 DEF Alike
<1> QED  BY <1>4, <1>5, <1>6, <1>7, MovedKeeps

LEMMA randKeeps ==
  ASSUME IInv, Working, closing = NULL, NEW h \in Handle, NEW o \in Offsets, elf_rand(h, o)
  PROVE  IInv' /\ SameTree
<1>1. Alive(h) /\ elf[h].start \in Nat
  BY HeldIsAlive, FieldTypes DEF elf_rand, IInv
<1>2. o \in Nat
  BY CallAssumption
<1>3. elf[h].start + o \in Nat /\ elf[h].start + o >= elf[h].start
  BY <1>1, <1>2, NatSums
<1> QED  BY <1>1, <1>3, SeekKeeps DEF elf_rand

LEMMA nextKeeps ==
  ASSUME IInv, Working, closing = NULL, NEW h \in Handle, elf_next(h)
  PROVE  IInv' /\ SameTree
<1> DEFINE p == elf[h].parent
<1>1. p \in Handle /\ TypeOK
  BY FieldTypes DEF elf_next, IInv
<1>2. Alive(p)
  <2>1. elf[p].hdr.valid
    BY DEF elf_next
  <2> QED  BY <1>1, <2>1, FreedFields DEF IInv, GoneIsFreed
<1>3. /\ elf[p].offset \in Nat /\ elf[p].hdr.size \in Nat /\ elf[p].start \in Nat /\ HDR \in Nat
      /\ elf[p].kind = "AR" => elf[p].offset >= elf[p].start
  BY <1>1, <1>2, FieldTypes, FileAssumption DEF IInv, Places, Ordered
<1> DEFINE o == elf[p].offset + HDR + Even(elf[p].hdr.size)
<1>4. Even(elf[p].hdr.size) \in Nat
  BY <1>3, NatSums
<1>5. o \in Nat /\ (elf[p].kind = "AR" => o >= elf[p].start)
  BY <1>3, <1>4, NatSums
<1>6. LET n == next_arhdr([elf[p] EXCEPT !.offset = o]) IN
      Moved(p, IF n.ok THEN n.e ELSE [n.e EXCEPT !.hdr.valid = FALSE])
  BY DEF elf_next
<1> HIDE DEF o, p
<1> QED  BY <1>1, <1>2, <1>5, <1>6, SeekKeeps

LEMMA getarhdrKeeps ==
  ASSUME IInv, Working, closing = NULL, NEW h \in Handle, elf_getarhdr(h)
  PROVE  IInv' /\ SameTree
<1> DEFINE p == elf[h].parent
           n == next_arhdr(elf[p])
           m == next_arhdr(n.e)
           d == IF n.ok THEN n.e ELSE m.e
<1>1. p \in Handle /\ elf[p] \in Descriptors
  BY FieldTypes DEF elf_getarhdr, IInv, TypeOK
<1>2. ~elf[p].hdr.valid /\ Moved(p, d)
  BY DEF elf_getarhdr
<1> HIDE DEF p
<1>3. /\ n.e \in Descriptors /\ Alike(n.e, elf[p])
      /\ n.e.refs = elf[p].refs /\ n.e.offset = elf[p].offset
      /\ n.ok => n.e.hdr.valid /\ AtHeader(n.e)
      /\ n.e.hdr = elf[p].hdr \/ AtHeader(n.e)
      /\ ~Mapped(elf[p]) /\ ~elf[p].fd => n.e = elf[p] /\ ~n.ok
  BY <1>1, NextArhdr
<1> HIDE DEF n
<1>4. /\ m.e \in Descriptors /\ Alike(m.e, n.e)
      /\ m.e.refs = n.e.refs /\ m.e.offset = n.e.offset
      /\ m.e.hdr = n.e.hdr \/ AtHeader(m.e)
      /\ ~Mapped(n.e) /\ ~n.e.fd => m.e = n.e
  BY <1>3, NextArhdr
<1> HIDE DEF m
<1>5. AtHeader(n.e) /\ m.e.hdr = n.e.hdr => AtHeader(m.e)
  BY <1>4 DEF AtHeader, Alike, FileOffset, HeaderFits, Mapped
<1>6. /\ d \in Descriptors /\ Alike(d, elf[p]) /\ d.refs = elf[p].refs
      /\ d.offset = elf[p].offset
      /\ d.hdr = elf[p].hdr \/ AtHeader(d)
  BY <1>3, <1>4, <1>5 DEF Alike
<1>7. ~Alive(p) => d = Freed
  <2> HAVE ~Alive(p)
  <2>1. elf[p] = Freed
    BY <1>1 DEF IInv, GoneIsFreed
  <2>2. ~Mapped(elf[p]) /\ ~elf[p].fd
    BY <2>1, FreedFields DEF Mapped
  <2> QED  BY <1>3, <1>4, <2>1, <2>2
<1> HIDE DEF d
<1>8. Alive(p) /\ elf[p].kind = "AR" => d.offset >= d.start
  BY <1>1, <1>6 DEF IInv, Places, Ordered, Alike
<1> QED  BY <1>1, <1>2, <1>6, <1>7, <1>8, MovedKeeps

-----------------------------------------------------------------------------
(* Reading in, and giving up the file descriptor.                          *)

LEMMA ReadInKeeps ==
  ASSUME IInv, Working, closing = NULL, NEW h \in Handle, NEW fd \in BOOLEAN, Alive(h),
         ~Mapped(elf[h]), ReadIn(h, fd)
  PROVE  IInv' /\ SameTree
<1>1. TypeOK /\ GoneIsFreed /\ Counted /\ Tree /\ Memory /\ Places /\ Ordered /\ MapBase
  BY DEF IInv, Places, Memory
<1>2. TypeOK' /\ SameTree
  BY <1>1, ReadInEffect
<1>3. PICK M : Copied(h, M)
  BY <1>1, ReadInEffect
<1>4. Tree' /\ Memory' /\ Places'
  BY <1>1, <1>2, <1>3, TreeStays, CopiedMemory, CopiedPlaces
<1>5. held' = held /\ closing' = closing /\ fault' = fault
  BY DEF ReadIn
<1>6. GoneIsFreed'
  <2> SUFFICES ASSUME NEW g \in Handle, ~Alive(g)'
               PROVE  elf'[g] = Freed /\ held'[g] = 0
    BY DEF GoneIsFreed
  <2>1. ~Alive(g) /\ g # h
    BY <1>2 DEF SameTree
  <2>2. g \notin Below(h)
    BY <1>1, <2>1, BelowUnmapped DEF Node
  <2> QED  BY <1>1, <1>5, <2>1, <2>2 DEF ReadIn, GoneIsFreed
<1>7. Counted'
  BY <1>1, <1>2, <1>3, <1>5 DEF Counted, Copied, SameTree
<1>8. ClosingWaits' /\ FaultKnown'
  BY <1>5 DEF ClosingWaits, FaultKnown, Working
<1> QED  BY <1>2, <1>4, <1>6, <1>7, <1>8 DEF IInv

LEMMA rawfileKeeps ==
  ASSUME IInv, Working, closing = NULL, NEW h \in Handle, elf_rawfile(h)
  PROVE  IInv' /\ SameTree
BY HeldIsAlive, ReadInKeeps DEF elf_rawfile

LEMMA cntlKeeps ==
  ASSUME IInv, Working, closing = NULL, NEW h \in Handle, NEW cmd, elf_cntl(h, cmd)
  PROVE  IInv' /\ SameTree
<1>1. Alive(h) /\ TypeOK /\ elf[h] \in Descriptors
  BY HeldIsAlive DEF elf_cntl, IInv, TypeOK
<1>2. CASE cmd = "FDREAD" /\ ~Mapped(elf[h])
  BY <1>1, <1>2, ReadInKeeps DEF elf_cntl
<1>3. CASE ~(cmd = "FDREAD" /\ ~Mapped(elf[h]))
  <2> DEFINE e == [elf[h] EXCEPT !.fd = FALSE]
  <2>1. /\ e \in Descriptors /\ Alike(e, elf[h]) /\ e.refs = elf[h].refs
        /\ e.offset = elf[h].offset /\ e.hdr = elf[h].hdr
    BY <1>1 DEF Descriptors, Alike
  <2>2. /\ elf' = [elf EXCEPT ![h] = e]
        /\ UNCHANGED <<version, heap, held, home, closing, fault>>
    BY <1>3 DEF elf_cntl
  <2> HIDE DEF e
  <2>3. Changes(h, e)
    BY <1>1, <2>1, <2>2 DEF Changes
  <2>4. elf[h].refs = held[h]
    BY <1>1, HeldIsCounted
  <2> QED  BY <1>1, <2>1, <2>2, <2>3, <2>4, ChangesKeep, NullAssumption DEF TypeOK
<1> QED  BY <1>2, <1>3

-----------------------------------------------------------------------------
(* The calls that make a descriptor.                                       *)

LEMMA GrowKeeps ==
  ASSUME IInv, Working, closing = NULL, NEW h \in Handle,
         elf' \in [Handle -> Descriptors], heap' \subseteq Blocks, home' \in [Handle -> Nat],
         GrownTree(h), GrownMemory(h), GrownPlaces(h), elf'[h].refs = 1,
         \A g \in Handle \ {h} : /\ elf'[g].refs = elf[g].refs
                                 /\ ~Alive(g) => elf'[g] = elf[g],
         held' = [held EXCEPT ![h] = 1], UNCHANGED <<version, closing, fault>>
  PROVE  IInv' /\ GrownTree(h)
<1>1. TypeOK /\ GoneIsFreed /\ Counted /\ Tree /\ Memory /\ Places /\ NULL \notin Handle
  BY NullAssumption DEF IInv
<1>2. 1 \in 0..MaxRefs
  BY Counts
<1>3. TypeOK'
  BY <1>1, <1>2 DEF TypeOK
<1>4. Tree' /\ Memory' /\ Places'
  BY <1>1, <1>3, TreeGrows, MemoryGrows, PlacesGrow
<1>5. Alive(h)' /\ \A g \in Handle \ {h} : Alive(g)' <=> Alive(g)
  BY <1>1, OthersStay
<1>6. held'[h] = 1 /\ \A g \in Handle \ {h} : held'[g] = held[g]
  BY <1>1 DEF TypeOK
<1>7. GoneIsFreed' /\ Counted'
  BY <1>1, <1>5, <1>6 DEF GoneIsFreed, Counted
<1>8. ClosingWaits' /\ FaultKnown'
  BY DEF ClosingWaits, FaultKnown, Working
<1> QED  BY <1>3, <1>4, <1>7, <1>8 DEF IInv

\* The descriptor of a whole file.
LEMMA RootKeeps ==
  ASSUME IInv, Working, closing = NULL, NEW h \in Handle, NEW r \in Descriptors, Give(h, r, 0),
         r.refs = 1, r.parent = NULL, r.children = {}, ~r.clone, r.start = 0, r.map.base = 0,
         ~r.hdr.valid, r.kind = "AR" => r.size = FileSize,
         Mapped(r) => r.map.block \in {User, <<"mmap", h>>},
         heap' = heap \cup {<<"elf", h>>}
                      \cup (IF r.map.block = <<"mmap", h>> THEN {<<"mmap", h>>} ELSE {})
  PROVE  IInv' /\ GrownTree(h) /\ elf'[h].parent = NULL
<1>1. TypeOK /\ Free(h)
  BY DEF IInv, Give, Unused
<1>2. elf'[h] = r /\ \A g \in Handle \ {h} : elf'[g] = elf[g]
  BY <1>1 DEF Give, TypeOK
<1>3. home'[h] = 0 /\ \A g \in Handle \ {h} : home'[g] = home[g]
  BY <1>1 DEF Give, TypeOK
<1>4. /\ elf' \in [Handle -> Descriptors] /\ home' \in [Handle -> Nat]
  BY <1>1 DEF Give, TypeOK
<1>5. heap' \subseteq Blocks
  <2>1. <<"elf", h>> \in Blocks /\ <<"mmap", h>> \in Blocks
    BY DEF Blocks
  <2> QED  BY <1>1, <2>1 DEF TypeOK
<1>6. Alive(h)' /\ \A g \in Handle \ {h} : /\ Alive(g)' <=> Alive(g)
                                           /\ <<"mmap", g>> \in heap' <=> <<"mmap", g>> \in heap
                                           /\ <<"copy", g>> \in heap' <=> <<"copy", g>> \in heap
  BY DEF Alive
<1>7. GrownTree(h)
  BY <1>1, <1>2, <1>6, NullAssumption DEF GrownTree
<1>8. GrownMemory(h)
  <2>1. <<"copy", h>> \notin heap'
    BY <1>1 DEF Free
  <2>2. \A b \in heap' : b \in heap \/ Alive(b[2])'
    <3>1. heap' \subseteq heap \cup {<<"elf", h>>, <<"mmap", h>>}
      OBVIOUS
    <3>2. <<"elf", h>>[2] = h /\ <<"mmap", h>>[2] = h
      OBVIOUS
    <3> QED  BY <1>6, <3>1, <3>2
  <2>3. r.map.block = <<"mmap", h>> => <<"mmap", h>> \in heap'
    OBVIOUS
  <2> QED  BY <1>2, <1>6, <2>1, <2>2, <2>3 DEF GrownMemory, Node, Mapped
<1>9. GrownPlaces(h)
  <2>1. InPlace(h)'
    BY <1>2, <1>3, NatSums DEF InPlace, FileOffset
  <2>2. r.offset >= r.start
    BY DEF Descriptors
  <2>3. \A g \in Handle \ {h} : SameHeader(g)
    BY <1>2 DEF SameHeader
  <2> QED  BY <1>2, <1>3, <2>1, <2>2, <2>3 DEF GrownPlaces
<1> QED  BY <1>2, <1>4, <1>5, <1>7, <1>8, <1>9, GrowKeeps DEF Give

\* The commands that make a descriptor.
Making == {"READ", "READ_MMAP", "READ_MMAP_PRIVATE", "RDWR", "RDWR_MMAP", "WRITE"}
MapType == [block : Maps \cup {NULL, User}, base : Nat]

LEMMA FreedType == Freed \in Descriptors
<1>1. NoMap \in MapType /\ NoHdr \in [valid : BOOLEAN, size : Nat]
  BY DEF NoMap, NoHdr, MapType
<1>2. 0 \in 0..MaxRefs
  BY Counts
<1> QED  BY <1>1, <1>2 DEF Freed, Descriptors, MapType

\* A new descriptor r for an image.
Read(r, map, start, size, parent) ==
  /\ r \in Descriptors
  /\ r.map = map /\ r.start = start /\ r.size = size
  /\ r.parent = parent /\ r.refs = 1 /\ r.children = {} /\ ~r.clone /\ ~r.hdr.valid
  /\ r.kind = "AR" => r.offset >= start

LEMMA Allocated ==
  ASSUME NEW kind \in {"NONE", "ELF", "AR"}, NEW cmd \in Making, NEW fd \in BOOLEAN,
         NEW map \in MapType, NEW start \in Nat, NEW size \in Nat,
         NEW parent \in Handle \cup {NULL}
  PROVE  LET r == allocate_elf(kind, cmd, fd, map, start, size, parent) IN
         Read(r, map, start, size, parent) /\ r.kind = kind
<1> DEFINE offset == IF kind = "AR" THEN start + SARMAG ELSE 0
           mode == Mode(cmd)
           r == allocate_elf(kind, cmd, fd, map, start, size, parent)
<1>1. offset \in Nat /\ (kind = "AR" => offset >= start)
  BY FileAssumption, NatSums
<1>2. mode \in {"READ", "PRIVATE", "RDWR", "WRITE"}
  BY DEF Mode, Making
<1>3. r = [kind |-> kind, mode |-> mode, fd |-> fd, start |-> start, size |-> size,
           map |-> map, refs |-> 1, parent |-> parent, children |-> {}, offset |-> offset,
           hdr |-> NoHdr, arsym |-> "unread", names |-> NULL, clone |-> FALSE]
  <2>1. r = [Freed EXCEPT !.kind = kind, !.mode = mode, !.fd = fd, !.map = map, !.start = start,
               !.size = size, !.refs = 1, !.parent = parent, !.offset = offset]
    BY DEF allocate_elf
  <2> HIDE DEF r, mode, offset
  <2> QED  BY <2>1, Zenon DEF Freed
<1> HIDE DEF offset, mode, r
<1>4. NoHdr \in [valid : BOOLEAN, size : Nat] /\ ~NoHdr.valid
  BY DEF NoHdr
<1>5. 1 \in 0..MaxRefs
  BY Counts
<1>6. r \in Descriptors
  BY <1>1, <1>2, <1>3, <1>4, <1>5 DEF Descriptors, MapType
<1>7. /\ r.kind = kind /\ r.map = map /\ r.start = start /\ r.size = size
      /\ r.parent = parent /\ r.refs = 1 /\ r.children = {} /\ ~r.clone /\ ~r.hdr.valid
      /\ kind = "AR" => r.offset >= start
  BY <1>1, <1>3, <1>4
<1> QED  BY <1>6, <1>7 DEF r, Read

LEMMA KindsKnown ==
  \A at, n : determine_kind(at, n) \in {"NONE", "ELF", "AR", "BADELF"}
BY FileAssumption DEF determine_kind

LEMMA ReadMapped ==
  ASSUME NEW cmd \in Making, NEW fd \in BOOLEAN,
         NEW map \in MapType, NEW start \in Nat, NEW size \in Nat,
         NEW parent \in Handle \cup {NULL},
         read_mmaped_file(cmd, fd, map, start, size, parent) # NULL
  PROVE  Read(read_mmaped_file(cmd, fd, map, start, size, parent), map, start, size, parent)
<1>1. PICK kind \in {"NONE", "ELF", "AR"} :
        read_mmaped_file(cmd, fd, map, start, size, parent)
        = allocate_elf(kind, cmd, fd, map, start, size, parent)
  BY KindsKnown DEF read_mmaped_file
<1> QED  BY <1>1, Allocated

LEMMA ReadUnmapped ==
  ASSUME NEW cmd \in Making, NEW fd \in BOOLEAN, NEW start \in Nat, NEW size \in Nat,
         NEW parent \in Handle \cup {NULL},
         read_unmmaped_file(cmd, fd, start, size, parent) # NULL
  PROVE  Read(read_unmmaped_file(cmd, fd, start, size, parent), NoMap, start, size, parent)
<1>1. PICK kind \in {"NONE", "ELF", "AR"} :
        read_unmmaped_file(cmd, fd, start, size, parent)
        = allocate_elf(kind, cmd, fd, NoMap, start, size, parent)
  BY KindsKnown DEF read_unmmaped_file
<1>2. NoMap \in MapType
  BY DEF NoMap, MapType
<1> QED  BY <1>1, <1>2, Allocated

LEMMA BeginFileKeeps ==
  ASSUME IInv, Working, closing = NULL, NEW h \in Handle, NEW cmd \in Cmds, BeginFile(h, cmd)
  PROVE  IInv' /\ GrownTree(h) /\ elf'[h].parent = NULL
<1> DEFINE r == ReadWhole(h, cmd)
           map == [block |-> <<"mmap", h>>, base |-> 0]
<1>1. cmd \in Making
  BY CallAssumption DEF Making, BeginFile
<1>2. /\ r # NULL /\ Give(h, r, 0)
      /\ heap' = heap \cup {<<"elf", h>>} \cup (IF Mapped(r) THEN {<<"mmap", h>>} ELSE {})
  BY DEF BeginFile
<1>3. 0 \in Nat /\ FileSize \in Nat /\ TRUE \in BOOLEAN /\ NULL \in Handle \cup {NULL}
  BY FileAssumption
<1>4. map \in MapType /\ map.base = 0 /\ map.block = <<"mmap", h>>
  BY DEF MapType, Maps
<1>5. NoMap.base = 0 /\ NoMap.block = NULL
  BY DEF NoMap
<1>6. CASE UsesMmap(cmd)
  <2>1. r = read_mmaped_file(cmd, TRUE, map, 0, FileSize, NULL)
    BY <1>6 DEF ReadWhole
  <2> HIDE DEF r, map
  <2>2. Read(r, map, 0, FileSize, NULL)
    BY <1>1, <1>2, <1>3, <1>4, <2>1, ReadMapped
  <2>3. Mapped(r)
    BY <1>4, <2>2, NullAssumption DEF Read, Mapped, Blocks
  <2> QED  BY <1>2, <1>4, <2>2, <2>3, RootKeeps DEF Read
<1>7. CASE ~UsesMmap(cmd)
  <2>1. r = read_unmmaped_file(cmd, TRUE, 0, FileSize, NULL)
    BY <1>7 DEF ReadWhole
  <2> HIDE DEF r
  <2>2. Read(r, NoMap, 0, FileSize, NULL)
    BY <1>1, <1>2, <1>3, <2>1, ReadUnmapped
  <2>3. ~Mapped(r) /\ r.map.block # <<"mmap", h>>
    BY <1>5, <2>2, NullAssumption DEF Read, Mapped, Blocks
  <2> QED  BY <1>2, <1>5, <2>2, <2>3, RootKeeps DEF Read
<1> QED  BY <1>6, <1>7

LEMMA BeginWriteKeeps ==
  ASSUME IInv, Working, closing = NULL, NEW h \in Handle, BeginWrite(h)
  PROVE  IInv' /\ GrownTree(h) /\ elf'[h].parent = NULL
<1> DEFINE r == allocate_elf("ELF", "WRITE", TRUE, NoMap, 0, 0, NULL)
<1>1. NoMap \in MapType /\ "WRITE" \in Making /\ NoMap.base = 0 /\ NoMap.block = NULL
  BY DEF NoMap, MapType, Making
<1>2. 0 \in Nat /\ TRUE \in BOOLEAN /\ NULL \in Handle \cup {NULL} /\ "ELF" \in {"NONE", "ELF", "AR"}
  OBVIOUS
<1>3. Read(r, NoMap, 0, 0, NULL) /\ r.kind = "ELF"
  <2>1. ASSUME NEW kind \in {"NONE", "ELF", "AR"}, NEW cmd \in Making, NEW fd \in BOOLEAN,
               NEW n \in Nat
        PROVE  LET e == allocate_elf(kind, cmd, fd, NoMap, n, n, NULL) IN
               Read(e, NoMap, n, n, NULL) /\ e.kind = kind
    BY <1>1, <1>2, Allocated
  <2> QED  BY <1>1, <1>2, <2>1
<1>4. Give(h, r, 0) /\ heap' = heap \cup {<<"elf", h>>}
  BY DEF BeginWrite
<1> HIDE DEF r
<1>5. r.map.base = 0 /\ ~Mapped(r) /\ r.map.block # <<"mmap", h>>
  BY <1>1, <1>3, NullAssumption DEF Mapped, Blocks, Read
<1> QED  BY <1>3, <1>4, <1>5, RootKeeps DEF Read

LEMMA memoryKeeps ==
  ASSUME IInv, Working, closing = NULL, NEW h \in Handle, elf_memory(h)
  PROVE  IInv' /\ GrownTree(h) /\ elf'[h].parent = NULL
<1> DEFINE map == [block |-> User, base |-> 0]
           r == read_mmaped_file("READ", FALSE, map, 0, FileSize, NULL)
<1>1. map \in MapType /\ "READ" \in Making /\ map.block = User /\ map.base = 0
  BY DEF MapType, Making
<1>2. r # NULL /\ Give(h, r, 0) /\ heap' = heap \cup {<<"elf", h>>}
  BY DEF elf_memory
<1>3. 0 \in Nat /\ FileSize \in Nat /\ FALSE \in BOOLEAN /\ NULL \in Handle \cup {NULL}
  BY FileAssumption
<1> HIDE DEF map
<1>4. Read(r, map, 0, FileSize, NULL)
  BY <1>1, <1>2, <1>3, ReadMapped
<1> HIDE DEF r
<1>5. r.map.base = 0 /\ r.map.block = User /\ r.map.block # <<"mmap", h>>
  BY <1>1, <1>4 DEF Read, User
<1> QED  BY <1>2, <1>4, <1>5, RootKeeps DEF Read

\* A member is read where its archive stands.
LEMMA MemberRead ==
  ASSUME NEW e \in Descriptors, NEW p \in Handle, NEW cmd \in Making,
         ReadMember(e, p, cmd) # NULL
  PROVE  LET r == ReadMember(e, p, cmd) IN
         \/ Read(r, e.map, e.offset + HDR, e.hdr.size, p) /\ Mapped(e)
         \/ Read(r, NoMap, e.offset + HDR, e.hdr.size, p)
<1>1. /\ e.map \in MapType /\ e.offset + HDR \in Nat /\ e.hdr.size \in Nat /\ e.fd \in BOOLEAN
      /\ p \in Handle \cup {NULL}
  BY FileAssumption, NatSums DEF Descriptors, MapType
<1>2. CASE UsesMmap(cmd) /\ Mapped(e)
  <2>1. ReadMember(e, p, cmd) = read_mmaped_file(cmd, e.fd, e.map, e.offset + HDR, e.hdr.size, p)
    BY <1>2 DEF ReadMember
  <2> QED  BY <1>1, <1>2, <2>1, ReadMapped
<1>3. CASE ~(UsesMmap(cmd) /\ Mapped(e))
  <2>1. ReadMember(e, p, cmd) = read_unmmaped_file(cmd, e.fd, e.offset + HDR, e.hdr.size, p)
    BY <1>3 DEF ReadMember
  <2> QED  BY <1>1, <2>1, ReadUnmapped
<1> QED  BY <1>2, <1>3

\* The positions of the new member r of archive p, which has become e.
LEMMA MemberPlaced ==
  ASSUME IInv, NEW h \in Handle, NEW p \in Handle \ {h}, Node(p), elf[p].kind = "AR",
         NEW e \in Descriptors, Alike(e, elf[p]), HeaderGood(p, e), e.hdr.valid,
         NEW r, \/ Read(r, e.map, e.offset + HDR, e.hdr.size, p) /\ Mapped(e)
                \/ Read(r, NoMap, e.offset + HDR, e.hdr.size, p),
         elf'[h] = r, home'[h] = FileOffset(e, e.offset + HDR),
         elf'[p].map = e.map, elf'[p].size = e.size, elf'[p].parent = elf[p].parent,
         home'[p] = home[p]
  PROVE  /\ InPlace(h)' \/ Misplaced(h)'
         /\ OfFile(h)' => InPlace(h)'
         /\ Contained(h)'
         /\ elf'[h].start >= elf[p].start
<1>1. /\ e.map.base \in Nat /\ e.offset \in Nat /\ e.start \in Nat /\ e.size \in Nat
      /\ e.hdr.size \in Nat /\ HDR \in Nat /\ home[p] \in Nat
  BY FileAssumption DEF Descriptors, IInv, TypeOK
<1>2. r.start = e.offset + HDR /\ r.size = e.hdr.size /\ r.parent = p
  BY DEF Read
<1>3. p # NULL
  BY NullAssumption
<1>4. /\ r.map = e.map /\ Mapped(e) => InPlace(h)'
      /\ r.map = NoMap => Misplaced(h)'
  <2>1. FileOffset(e, e.offset + HDR) = e.map.base + (e.offset + HDR)
    BY DEF FileOffset
  <2>2. r.map = NoMap => 0 + (e.offset + HDR) + e.map.base = e.map.base + (e.offset + HDR)
    BY <1>1
  <2> QED  BY <1>2, <1>3, <2>1, <2>2 DEF InPlace, Misplaced, FileOffset, NoMap
<1>5. InPlace(h)' \/ Misplaced(h)'
  BY <1>4 DEF Read
<1>6. OfFile(h)' => InPlace(h)'
  <2>1. OfFile(h)' => r.map # NoMap
    BY <1>2, <1>3 DEF OfFile, Mapped, NoMap
  <2> QED  BY <1>4, <2>1 DEF Read
<1>7. r.start >= elf[p].start
  BY <1>1, <1>2 DEF HeaderGood, Alike
<1>8. Contained(h)'
  <2>1. CASE OfFile(p)
    <3>1. e.map.base + e.start = home[p]
      BY <2>1 DEF IInv, Places, FileInPlace, InPlace, FileOffset, Alike
    <3>2. home'[h] = e.map.base + (e.offset + HDR)
      BY DEF FileOffset
    <3>3. HeaderFits(e) /\ e.offset >= e.start /\ e.map.base + e.offset \in DOMAIN HdrAt
      BY <2>1 DEF HeaderGood, FileOffset
    <3>4. CASE e.offset + HDR + e.hdr.size <= e.start + e.size
      <4>1. home'[h] >= home[p] /\ home'[h] + e.hdr.size <= home[p] + e.size
        BY <1>1, <3>1, <3>2, <3>3, <3>4
      <4>2. Within(h, p)'
        BY <1>2, <4>1 DEF Within
      <4> QED  BY <1>2, <4>2 DEF Contained
    <3>5. CASE HdrAt[e.map.base + e.offset].size = -1
      <4>1. home'[h] - HDR = e.map.base + e.offset
        BY <1>1, <3>2
      <4> QED  BY <3>3, <3>5, <4>1 DEF Contained
    <3> QED  BY <3>3, <3>4, <3>5 DEF HeaderFits, FileOffset
  <2>2. CASE ~OfFile(p)
    <3>1. /\ elf[p].parent # NULL
          /\ ~Mapped(elf[p]) \/ elf[p].map.block[1] = "copy"
      BY <2>2 DEF OfFile
    <3>2. elf'[p].map = elf[p].map
      BY DEF Alike
    <3> QED  BY <1>2, <3>1, <3>2 DEF Contained, Mapped
  <2> QED  BY <2>1, <2>2
<1> QED  BY <1>5, <1>6, <1>7, <1>8

\* h is a new member of the archive ref.
NewMember(h, ref) ==
  /\ GrownTree(h) /\ elf'[h].parent = ref /\ ~elf'[h].clone
  /\ held' = [held EXCEPT ![h] = 1]

LEMMA BeginMemberKeeps ==
  ASSUME IInv, Working, closing = NULL, NEW h \in Handle, NEW ref \in Handle, NEW cmd,
         BeginMember(h, ref, cmd)
  PROVE  IInv' /\ ((SameTree /\ held' = held) \/ NewMember(h, ref))
<1> DEFINE n == IF elf[ref].hdr.valid THEN [ok |-> TRUE, e |-> elf[ref]]
                ELSE next_arhdr(elf[ref])
           e == n.e
           r == ReadMember(e, ref, cmd)
           made == n.ok /\ r # NULL
<1>1. /\ TypeOK /\ Alive(ref) /\ elf[ref].kind = "AR" /\ Free(h) /\ ref # h /\ ~Alive(h)
      /\ elf[ref] \in Descriptors /\ Node(ref)
  <2>1. TypeOK /\ Alive(ref) /\ elf[ref].kind = "AR" /\ Free(h)
    BY HeldIsAlive DEF BeginMember, IInv, Unused
  <2>2. ~Alive(h)
    BY <2>1 DEF Free, Alive
  <2> QED  BY <2>1, <2>2 DEF TypeOK, IInv, Tree, ClonesApart, Node
<1>2. /\ elf' = [elf EXCEPT ![ref] = IF made THEN Enlisted(ref, h, e) ELSE e,
                            ![h] = IF made THEN r ELSE @]
      /\ held' = [held EXCEPT ![h] = IF made THEN 1 ELSE 0]
      /\ home' = [home EXCEPT ![h] = IF made THEN FileOffset(e, e.offset + HDR) ELSE @]
      /\ heap' = heap \cup NamesBlock(ref, e) \cup (IF made THEN {<<"elf", h>>} ELSE {})
      /\ UNCHANGED <<version, closing, fault>>
  BY DEF BeginMember
<1>3. cmd \in Making
  BY DEF BeginMember, Compatible, Making
<1>4. /\ e \in Descriptors /\ Alike(e, elf[ref])
      /\ e.refs = elf[ref].refs /\ e.offset = elf[ref].offset
      /\ e.hdr = elf[ref].hdr \/ AtHeader(e)
      /\ n.ok => e.hdr.valid
  <2>1. CASE elf[ref].hdr.valid
    BY <1>1, <2>1 DEF Alike
  <2>2. CASE ~elf[ref].hdr.valid
    BY <1>1, <2>2, NextArhdr
  <2> QED  BY <2>1, <2>2
<1> HIDE DEF n
<1>5. elf[ref].offset >= elf[ref].start
  BY <1>1 DEF IInv, Places, Ordered
<1>6. CASE ~made
  <2>1. elf' = [elf EXCEPT ![ref] = e]
    BY <1>1, <1>2, <1>6 DEF TypeOK
  <2>2. held' = held
    BY <1>1, <1>2, <1>6 DEF IInv, GoneIsFreed, TypeOK
  <2>3. home' = home
    BY <1>1, <1>2, <1>6 DEF TypeOK
  <2>4. Moved(ref, e)
    BY <1>2, <1>6, <2>1, <2>2, <2>3 DEF Moved
  <2> HIDE DEF e, made
  <2>5. e.offset >= e.start
    BY <1>4, <1>5 DEF Alike
  <2> QED  BY <1>1, <1>4, <2>2, <2>4, <2>5, MovedKeeps
<1>7. CASE made
  <2>1. r # NULL /\ e.hdr.valid
    BY <1>4, <1>7
  <2>2. \/ Read(r, e.map, e.offset + HDR, e.hdr.size, ref) /\ Mapped(e)
        \/ Read(r, NoMap, e.offset + HDR, e.hdr.size, ref)
    BY <1>3, <1>4, <2>1, MemberRead
  <2> DEFINE a == Enlisted(ref, h, e)
  <2>3. /\ a \in Descriptors /\ a.children = elf[ref].children \cup {h}
        /\ a.kind = e.kind /\ a.parent = e.parent /\ a.clone = e.clone /\ a.map = e.map
        /\ a.start = e.start /\ a.size = e.size /\ a.refs = e.refs
        /\ a.offset = e.offset /\ a.hdr = e.hdr
    <3>1. a = [e EXCEPT !.children = elf[ref].children \cup {h}]
      BY <1>4 DEF Enlisted, Alike
    <3>2. elf[ref].children \cup {h} \in SUBSET Handle
      BY <1>1, FieldTypes
    <3> HIDE DEF e, a
    <3> QED  BY <1>4, <3>1, <3>2 DEF Descriptors
  <2>4. HeaderGood(ref, e)
    <3>1. CASE e.hdr = elf[ref].hdr
      BY <1>1, <1>4, <1>5, <3>1 DEF HeaderGood, HeaderFits, FileOffset, Alike,
         IInv, Places, HeaderFresh, HeadersFit
    <3>2. CASE AtHeader(e)
      <4>1. OfFile(ref) => Mapped(e) \/ (e.start = 0 /\ e.size = FileSize /\ e.map.base = 0)
        BY <1>1, <1>4 DEF IInv, Places, OfFile, RootsWhole, Alike, Mapped
      <4>2. e.offset >= e.start
        BY <1>4, <1>5 DEF Alike
      <4> QED  BY <3>2, <4>1, <4>2 DEF HeaderGood, AtHeader
    <3> QED  BY <1>4, <3>1, <3>2
  <2>5. HeaderGood(ref, a)
    <3> HIDE DEF a, e
    <3> QED  BY <2>3, <2>4 DEF HeaderGood, HeaderFits, FileOffset
  <2>6. /\ elf'[h] = r /\ elf'[ref] = a /\ \A g \in Handle \ {h, ref} : elf'[g] = elf[g]
        /\ home'[h] = FileOffset(e, e.offset + HDR)
        /\ \A g \in Handle \ {h} : home'[g] = home[g]
        /\ heap' = heap \cup NamesBlock(ref, e) \cup {<<"elf", h>>}
        /\ held' = [held EXCEPT ![h] = 1]
    BY <1>1, <1>2, <1>7 DEF TypeOK
  <2>7. elf' \in [Handle -> Descriptors] /\ heap' \subseteq Blocks /\ home' \in [Handle -> Nat]
    <3>1. r \in Descriptors
      BY <2>2 DEF Read
    <3>2. elf' \in [Handle -> Descriptors]
      BY <1>1, <1>2, <1>7, <2>3, <3>1 DEF TypeOK
    <3>3. FileOffset(e, e.offset + HDR) \in Nat
      BY <1>4, FileAssumption, NatSums DEF FileOffset, Descriptors
    <3>4. home' \in [Handle -> Nat]
      BY <1>1, <1>2, <1>7, <3>3 DEF TypeOK
    <3>5. <<"elf", h>> \in Blocks /\ <<"names", ref>> \in Blocks
      BY DEF Blocks
    <3> QED  BY <1>1, <2>6, <3>2, <3>4, <3>5 DEF TypeOK, NamesBlock
  <2> HIDE DEF a, r, made
  <2>8. /\ Alive(h)'
        /\ \A g \in Handle \ {h} : /\ Alive(g)' <=> Alive(g)
                                   /\ <<"mmap", g>> \in heap' <=> <<"mmap", g>> \in heap
                                   /\ <<"copy", g>> \in heap' <=> <<"copy", g>> \in heap
    BY <2>6 DEF Alive, NamesBlock
  <2>9. /\ r.parent = ref /\ r.children = {} /\ ~r.clone /\ r.refs = 1 /\ ~r.hdr.valid
        /\ r.kind = "AR" => r.offset >= r.start
        /\ r.map = elf[ref].map \/ r.map = NoMap
    BY <1>4, <2>2 DEF Read, Alike
  <2>10. \A g \in Handle \ {h} :
           /\ elf'[g].kind = elf[g].kind /\ elf'[g].parent = elf[g].parent
           /\ elf'[g].clone = elf[g].clone /\ elf'[g].map = elf[g].map
           /\ elf'[g].start = elf[g].start /\ elf'[g].size = elf[g].size
           /\ elf'[g].refs = elf[g].refs
           /\ elf'[g].children = IF g = ref THEN elf[g].children \cup {h} ELSE elf[g].children
           /\ SameHeader(g) \/ (Alive(g) /\ elf[g].kind = "AR" => HeaderGood(g, elf'[g]))
    <3> SUFFICES ASSUME NEW g \in Handle \ {h}
                 PROVE  /\ elf'[g].kind = elf[g].kind /\ elf'[g].parent = elf[g].parent
                        /\ elf'[g].clone = elf[g].clone /\ elf'[g].map = elf[g].map
                        /\ elf'[g].start = elf[g].start /\ elf'[g].size = elf[g].size
                        /\ elf'[g].refs = elf[g].refs
                        /\ elf'[g].children = IF g = ref THEN elf[g].children \cup {h}
                                              ELSE elf[g].children
                        /\ SameHeader(g) \/ (Alive(g) /\ elf[g].kind = "AR" => HeaderGood(g, elf'[g]))
      OBVIOUS
    <3>1. CASE g = ref
      BY <1>4, <2>3, <2>5, <2>6, <3>1 DEF Alike
    <3>2. CASE g # ref
      BY <2>6, <3>2 DEF SameHeader
    <3> QED  BY <3>1, <3>2
  <2>11. GrownTree(h)
    BY <1>1, <2>6, <2>8, <2>9, <2>10 DEF GrownTree
  <2>12. GrownMemory(h)
    <3>1. <<"copy", h>> \notin heap' /\ <<"mmap", h>> \notin heap'
      BY <1>1, <2>6 DEF Free, NamesBlock
    <3>2. \A b \in heap' : b \in heap \/ Alive(b[2])'
      <4>1. heap' \subseteq heap \cup {<<"elf", h>>, <<"names", ref>>}
        BY <2>6 DEF NamesBlock
      <4>2. <<"elf", h>>[2] = h /\ <<"names", ref>>[2] = ref
        OBVIOUS
      <4> QED  BY <1>1, <2>8, <4>1, <4>2
    <3>3. elf'[h].map.base # 0 => Mapped(elf[h])' /\ elf'[h].map.block[1] = "copy"
      BY <1>1, <2>6, <2>9 DEF IInv, Memory, MapBase, Mapped, NoMap
    <3>4. Mapped(elf[h])' => elf'[h].parent # NULL /\ elf'[h].map = elf[elf'[h].parent].map
      BY <2>6, <2>9, NullAssumption DEF Mapped, NoMap
    <3> QED  BY <2>8, <2>10, <3>1, <3>2, <3>3, <3>4 DEF GrownMemory
  <2>13. GrownPlaces(h)
    <3>1. elf'[ref].map = e.map /\ elf'[ref].size = e.size /\ elf'[ref].parent = elf[ref].parent
      BY <2>3, <2>6, <1>4 DEF Alike
    <3>2. /\ InPlace(h)' \/ Misplaced(h)'
          /\ OfFile(h)' => InPlace(h)'
          /\ Contained(h)'
          /\ elf'[h].start >= elf[ref].start
      <4> HIDE DEF e
      <4> QED  BY <1>1, <1>4, <2>1, <2>2, <2>4, <2>6, <3>1, MemberPlaced
    <3> QED  BY <2>6, <2>9, <2>10, <3>2, NullAssumption DEF GrownPlaces
  <2>14. \A g \in Handle \ {h} : ~Alive(g) => elf'[g] = elf[g]
    BY <1>1, <2>6
  <2> QED  BY <1>2, <2>6, <2>7, <2>9, <2>10, <2>11, <2>12, <2>13, <2>14, GrowKeeps DEF NewMember
<1> QED  BY <1>6, <1>7

LEMMA cloneKeeps ==
  ASSUME IInv, Working, closing = NULL, NEW h \in Handle, NEW h0 \in Handle, elf_clone(h, h0)
  PROVE  IInv' /\ GrownTree(h) /\ elf'[h].clone
<1> DEFINE d == elf[h0]
           r == [Freed EXCEPT !.kind = d.kind, !.mode = d.mode, !.fd = d.fd, !.map = d.map,
                   !.start = d.start, !.size = d.size, !.refs = 1, !.parent = d.parent,
                   !.clone = TRUE]
<1>1. /\ TypeOK /\ d \in Descriptors /\ d.kind # "AR" /\ Free(h)
      /\ Give(h, r, home[h0]) /\ heap' = heap \cup {<<"elf", h>>}
  BY DEF IInv, TypeOK, elf_clone, Give, Unused
<1>2. NoHdr \in [valid : BOOLEAN, size : Nat] /\ ~NoHdr.valid
  BY DEF NoHdr
<1>3. 1 \in 0..MaxRefs
  BY Counts
<1>4. r = [kind |-> d.kind, mode |-> d.mode, fd |-> d.fd, start |-> d.start, size |-> d.size,
           map |-> d.map, refs |-> 1, parent |-> d.parent, children |-> {}, offset |-> 0,
           hdr |-> NoHdr, arsym |-> "unread", names |-> NULL, clone |-> TRUE]
  <2>1. r = [Freed EXCEPT !.kind = d.kind, !.mode = d.mode, !.fd = d.fd, !.map = d.map,
               !.start = d.start, !.size = d.size, !.refs = 1, !.parent = d.parent, !.clone = TRUE]
    OBVIOUS
  <2> HIDE DEF d, r
  <2> QED  BY <2>1, Zenon DEF Freed
<1> HIDE DEF r
<1>5. r \in Descriptors
  BY <1>1, <1>2, <1>3, <1>4 DEF Descriptors
<1>6. /\ r.kind # "AR" /\ r.map = d.map /\ r.refs = 1 /\ r.children = {} /\ r.clone
      /\ ~r.hdr.valid
  BY <1>1, <1>2, <1>4
<1>7. /\ elf'[h] = r /\ \A g \in Handle \ {h} : elf'[g] = elf[g] /\ home'[g] = home[g]
      /\ held' = [held EXCEPT ![h] = 1] /\ UNCHANGED <<version, closing, fault>>
  BY <1>1 DEF Give, TypeOK
<1>8. elf' \in [Handle -> Descriptors] /\ home' \in [Handle -> Nat]
  BY <1>1, <1>5 DEF Give, TypeOK
<1>9. heap' \subseteq Blocks
  <2>1. <<"elf", h>> \in Blocks
    BY DEF Blocks
  <2> QED  BY <1>1, <2>1 DEF TypeOK
<1>10. Alive(h)' /\ \A g \in Handle \ {h} :
         /\ Alive(g)' <=> Alive(g)
         /\ <<"mmap", g>> \in heap' <=> <<"mmap", g>> \in heap
         /\ <<"copy", g>> \in heap' <=> <<"copy", g>> \in heap
  BY <1>1 DEF Alive
<1>11. GrownTree(h)
  BY <1>1, <1>6, <1>7, <1>10 DEF GrownTree
<1>12. GrownMemory(h)
  <2>1. <<"copy", h>> \notin heap' /\ <<"mmap", h>> \notin heap'
    BY <1>1 DEF Free
  <2>2. \A b \in heap' : b \in heap \/ Alive(b[2])'
    <3>1. <<"elf", h>>[2] = h
      OBVIOUS
    <3> QED  BY <1>1, <1>10, <3>1
  <2>3. elf'[h].map.base # 0 => Mapped(elf[h])' /\ elf'[h].map.block[1] = "copy"
    BY <1>6, <1>7 DEF IInv, Memory, MapBase, Mapped
  <2>4. ~Node(h)'
    BY <1>6, <1>7 DEF Node
  <2> QED  BY <1>7, <1>10, <2>1, <2>2, <2>3, <2>4 DEF GrownMemory
<1>13. GrownPlaces(h)
  <2>1. ~Node(h)'
    BY <1>6, <1>7 DEF Node
  <2>2. \A g \in Handle \ {h} : SameHeader(g)
    BY <1>7 DEF SameHeader
  <2> QED  BY <1>6, <1>7, <2>1, <2>2 DEF GrownPlaces
<1> QED  BY <1>6, <1>7, <1>8, <1>9, <1>11, <1>12, <1>13, GrowKeeps

-----------------------------------------------------------------------------
(* elf_end().                                                              *)

LEMMA DestroyKeeps ==
  ASSUME IInv, Working, NEW h \in Handle, Alive(h), elf[h].children = {}, Destroy(h),
         held' \in [Handle -> 0..MaxRefs], held'[h] = 0,
         \A g \in Handle \ {h} : held'[g] = held[g]
  PROVE  IInv' /\ (SameTree \/ Gone(h))
<1> DEFINE p == elf[h].parent
<1>1. TypeOK /\ GoneIsFreed /\ Counted /\ Tree /\ Memory /\ Places /\ NULL \notin Handle
  BY NullAssumption DEF IInv
<1>2. CASE p # NULL /\ (~Alive(p) \/ h \notin elf[p].children)
  <2>1. Orphan(h)
    BY <1>1, <1>2 DEF Tree, Enrolled, Node, Orphan
  <2>2. Crash("freed parent") \/ Crash("not in the list")
    BY <1>2 DEF Destroy
  <2>3. \A g \in Handle : ~Alive(g) => held'[g] = 0
    BY <1>1 DEF GoneIsFreed
  <2> QED  BY <2>1, <2>2, <2>3, CrashKeeps
<1>3. CASE ~(p # NULL /\ (~Alive(p) \/ h \notin elf[p].children))
  <2>1. /\ heap' = heap \ Owned(h)
        /\ elf' = [g \in Handle |->
                     IF g = h THEN Freed
                     ELSE IF g = p THEN [elf[p] EXCEPT !.children = @ \ {h}]
                     ELSE elf[g]]
        /\ home' = [home EXCEPT ![h] = 0]
        /\ closing' = IF p # NULL /\ elf[p].refs = 0 THEN p ELSE NULL
        /\ UNCHANGED <<version, fault>>
    BY <1>3 DEF Destroy
  <2>2. p # NULL => Alive(p) /\ Node(h) /\ p \in Handle
    BY <1>1, <1>3, FieldTypes DEF Tree, ListsAgree
  <2>3. Gone(h)
    BY <2>1, <2>2 DEF Gone
  <2>4. Tree' /\ Memory' /\ Places'
    BY <1>1, <2>3, TreeShrinks, MemoryShrinks, PlacesShrink
  <2>5. /\ ~Alive(h)' /\ elf'[h] = Freed
        /\ \A g \in Handle \ {h} :
             /\ Alive(g)' <=> Alive(g)
             /\ elf'[g].kind = elf[g].kind /\ elf'[g].refs = elf[g].refs
    BY <1>1, <2>3, OthersRemain
  <2>6. TypeOK'
    <3>1. \A g \in Handle \ {h} : elf'[g] \in Descriptors
      <4> SUFFICES ASSUME NEW g \in Handle \ {h}
                   PROVE  elf'[g] \in Descriptors
        OBVIOUS
      <4>1. elf[g] \in Descriptors /\ elf[g].children \ {h} \in SUBSET Handle
        BY <1>1, FieldTypes DEF TypeOK
      <4>2. elf'[g] = [elf[g] EXCEPT !.children = elf[g].children \ {h}] \/ elf'[g] = elf[g]
        BY <2>1
      <4> QED  BY <4>1, <4>2 DEF Descriptors
    <3>2. elf' \in [Handle -> Descriptors]
      BY <2>1, <2>5, <3>1, FreedType
    <3>3. home' \in [Handle -> Nat] /\ closing' \in Handle \cup {NULL} /\ heap' \subseteq Blocks
      BY <1>1, <2>1, <2>2 DEF TypeOK
    <3> QED  BY <1>1, <2>1, <3>2, <3>3 DEF TypeOK
  <2>7. GoneIsFreed'
    <3> SUFFICES ASSUME NEW g \in Handle \ {h}, ~Alive(g)'
                 PROVE  elf'[g] = Freed /\ held'[g] = 0
      BY <2>5 DEF GoneIsFreed
    <3>1. elf[g] = Freed /\ held[g] = 0
      BY <1>1, <2>5 DEF GoneIsFreed
    <3>2. g # p
      BY <2>2, <2>5, NullAssumption
    <3> QED  BY <2>1, <3>1, <3>2
  <2>8. Counted'
    BY <1>1, <2>1, <2>5 DEF Counted, Working
  <2>9. ClosingWaits'
    <3> SUFFICES ASSUME closing' # NULL
                 PROVE  /\ Alive(closing)' /\ elf'[closing'].kind = "AR" /\ elf'[closing'].refs = 0
      BY DEF ClosingWaits
    <3>1. p # NULL /\ p \in Handle /\ Alive(p) /\ Node(h) /\ closing' = p /\ elf[p].refs = 0
      BY <2>1, <2>2
    <3>2. PICK q \in Handle : q = elf[h].parent
      BY <3>1
    <3>3. elf[q].kind = "AR" /\ Alive(q) /\ q # h /\ elf[q].refs = 0 /\ closing' = q
      BY <1>1, <3>1, <3>2 DEF Tree, Enrolled
    <3>4. /\ Alive(q)' <=> Alive(q)
          /\ elf'[q].kind = elf[q].kind /\ elf'[q].refs = elf[q].refs
      BY <2>5, <3>3
    <3>5. Alive(closing)' <=> Alive(q)'
      BY <3>3 DEF Alive
    <3> QED  BY <3>3, <3>4, <3>5
  <2>10. FaultKnown'
    BY <2>1 DEF FaultKnown, Working
  <2> QED  BY <2>3, <2>4, <2>6, <2>7, <2>8, <2>9, <2>10 DEF IInv
<1> QED  BY <1>2, <1>3

LEMMA EndLastKeeps ==
  ASSUME IInv, Working, NEW h \in Handle, Alive(h), EndLast(h),
         held' \in [Handle -> 0..MaxRefs], held'[h] = 0,
         \A g \in Handle \ {h} : held'[g] = held[g]
  PROVE  IInv' /\ (SameTree \/ Gone(h))
<1>1. TypeOK /\ elf[h] \in Descriptors
  BY DEF IInv, TypeOK
<1>2. CASE elf[h].kind = "AR" /\ elf[h].children # {}
  <2> DEFINE e == [elf[h] EXCEPT !.refs = 0, !.arsym = "unread"]
  <2>1. 0 \in 0..MaxRefs
    BY Counts
  <2>2. /\ e \in Descriptors /\ Alike(e, elf[h]) /\ e.refs = 0
        /\ e.offset = elf[h].offset /\ e.hdr = elf[h].hdr
    BY <1>1, <2>1 DEF Descriptors, Alike
  <2>3. /\ elf' = [elf EXCEPT ![h] = e] /\ heap' = heap \ {<<"arsym", h>>}
        /\ closing' = NULL /\ UNCHANGED <<version, home, fault>>
    BY <1>2 DEF EndLast
  <2> HIDE DEF e
  <2>4. Changes(h, e)
    BY <2>2, <2>3 DEF Changes
  <2> QED  BY <1>1, <2>2, <2>3, <2>4, ChangesKeep DEF TypeOK
<1>3. CASE ~(elf[h].kind = "AR" /\ elf[h].children # {})
  <2>1. elf[h].children = {}
    <3> SUFFICES ASSUME NEW c \in elf[h].children
                 PROVE  elf[h].kind = "AR"
      BY <1>3
    <3>1. Node(c) /\ elf[c].parent = h /\ c \in Handle
      BY <1>1, FieldTypes DEF IInv, Tree, ListsAgree
    <3> QED  BY <3>1, NullAssumption DEF IInv, Tree, Enrolled
  <2>2. Destroy(h)
    BY <1>3 DEF EndLast
  <2> QED  BY <2>1, <2>2, DestroyKeeps
<1> QED  BY <1>2, <1>3

LEMMA endKeeps ==
  ASSUME IInv, Working, closing = NULL, NEW h \in Handle, elf_end(h)
  PROVE  IInv' /\ (SameTree \/ (Gone(h) /\ held'[h] = 0))
<1>1. TypeOK /\ Alive(h) /\ elf[h] \in Descriptors /\ elf[h].refs = held[h] /\ held[h] > 0
  BY HeldIsAlive, HeldIsCounted DEF elf_end, IInv, TypeOK
<1>2. /\ held[h] \in 0..MaxRefs /\ held[h] - 1 \in 0..MaxRefs
      /\ ~(elf[h].refs > 1) => held[h] - 1 = 0
  <2>1. held[h] \in 0..MaxRefs
    BY <1>1 DEF TypeOK
  <2> QED  BY <1>1, <2>1, Counts
<1>3. /\ held' \in [Handle -> 0..MaxRefs] /\ held'[h] = held[h] - 1
      /\ \A g \in Handle \ {h} : held'[g] = held[g]
  BY <1>1, <1>2 DEF elf_end, TypeOK
<1>4. CASE elf[h].refs > 1
  <2> DEFINE e == [elf[h] EXCEPT !.refs = elf[h].refs - 1]
  <2>1. /\ e \in Descriptors /\ Alike(e, elf[h]) /\ e.refs = elf[h].refs - 1
        /\ e.offset = elf[h].offset /\ e.hdr = elf[h].hdr
    BY <1>1, <1>2 DEF Descriptors, Alike
  <2>2. elf' = [elf EXCEPT ![h] = e] /\ UNCHANGED <<version, heap, home, closing, fault>>
    BY <1>4 DEF elf_end
  <2> HIDE DEF e
  <2>3. Changes(h, e)
    BY <1>1, <2>1, <2>2 DEF Changes
  <2> QED  BY <1>1, <1>3, <2>1, <2>2, <2>3, ChangesKeep, NullAssumption DEF TypeOK
<1>5. CASE ~(elf[h].refs > 1)
  <2>1. EndLast(h) /\ held'[h] = 0
    BY <1>2, <1>3, <1>5 DEF elf_end
  <2> QED  BY <1>1, <1>3, <2>1, EndLastKeeps
<1> QED  BY <1>4, <1>5

LEMMA EndParentKeeps ==
  ASSUME IInv, Working, EndParent
  PROVE  IInv' /\ (SameTree \/ Gone(closing))
<1>1. closing \in Handle /\ Alive(closing) /\ elf[closing].refs = 0 /\ EndLast(closing)
      /\ held' = held /\ TypeOK
  BY DEF EndParent, IInv, TypeOK, ClosingWaits
<1>2. held[closing] = 0 /\ held \in [Handle -> 0..MaxRefs]
  BY <1>1, HeldIsCounted DEF TypeOK
<1> QED  BY <1>1, <1>2, EndLastKeeps

-----------------------------------------------------------------------------
(* What the steps are to the application.                                  *)

Living == {h \in Handle : Alive(h)}
Parents == [h \in Handle |-> ParentOf(h)]

LEMMA NothingOpens ==
  ASSUME SameTree, held' = held
  PROVE  UNCHANGED <<Living, held, Parents>>
<1>1. \A h \in Handle : ParentOf(h)' = ParentOf(h)
  BY DEF SameTree, ParentOf
<1> QED  BY <1>1 DEF SameTree, Living, Parents

LEMMA Opens ==
  ASSUME IInv, NEW h \in Handle, GrownTree(h), held' = [held EXCEPT ![h] = 1],
         \/ elf'[h].clone \/ elf'[h].parent = NULL
         \/ elf'[h].parent \in Handle /\ held[elf'[h].parent] > 0
  PROVE  Promise!Open(h)
<1> DEFINE p == IF elf'[h].clone THEN NULL ELSE elf'[h].parent
<1>1. h \notin Living /\ Living' = Living \cup {h}
  BY DEF GrownTree, Living, Free, Alive
<1>2. Parents' = [Parents EXCEPT ![h] = p]
  <2>1. \A g \in Handle \ {h} : ParentOf(g)' = ParentOf(g)
    BY DEF GrownTree, ParentOf
  <2>2. ParentOf(h)' = p
    BY DEF ParentOf
  <2> QED  BY <2>1, <2>2 DEF Parents
<1>3. p \in {NULL} \cup {a \in Living : held[a] > 0}
  BY HeldIsAlive DEF Living
<1> HIDE DEF p
<1> QED  BY <1>1, <1>2, <1>3 DEF Promise!Open, Living, Parents

\* The end of h leaves nobody who is a member of it.
LEMMA Reclaims ==
  ASSUME IInv, NEW h \in Handle, Gone(h)
  PROVE  /\ h \in Living /\ Living' = Living \ {h}
         /\ Parents' = [Parents EXCEPT ![h] = NULL]
         /\ \A c \in Living : Parents[c] # h
<1>1. /\ ~Alive(h)' /\ elf'[h] = Freed
      /\ \A g \in Handle \ {h} : /\ Alive(g)' <=> Alive(g)
                                 /\ elf'[g].parent = elf[g].parent
                                 /\ elf'[g].clone <=> elf[g].clone
      /\ \A g \in Handle : Node(g) => elf[g].parent # h
  BY OthersRemain DEF IInv
<1>2. h \in Living /\ Living' = Living \ {h}
  BY <1>1 DEF Gone, Living
<1>3. Parents' = [Parents EXCEPT ![h] = NULL]
  <2>1. \A g \in Handle \ {h} : ParentOf(g)' = ParentOf(g)
    BY <1>1 DEF ParentOf
  <2>2. ParentOf(h)' = NULL
    BY <1>1, FreedFields DEF ParentOf
  <2> QED  BY <2>1, <2>2 DEF Parents
<1>4. \A c \in Living : Parents[c] # h
  BY <1>1, NullAssumption DEF Living, Parents, ParentOf, Node
<1> QED  BY <1>2, <1>3, <1>4

LEMMA Closes ==
  ASSUME IInv, NEW h \in Handle, held[h] > 0, held' = [held EXCEPT ![h] = @ - 1],
         \/ SameTree
         \/ Gone(h) /\ held'[h] = 0
  PROVE  Promise!Close(h)
<1>1. h \in Living
  BY HeldIsAlive DEF Living
<1>2. CASE SameTree
  <2>1. Living' = Living /\ Parents' = Parents
    <3>1. \A g \in Handle : ParentOf(g)' = ParentOf(g)
      BY <1>2 DEF SameTree, ParentOf
    <3> QED  BY <1>2, <3>1 DEF SameTree, Living, Parents
  <2> QED  BY <1>1, <2>1 DEF Promise!Close, Living, Parents
<1>3. CASE Gone(h) /\ held'[h] = 0
  <2>1. /\ Living' = Living \ {h} /\ Parents' = [Parents EXCEPT ![h] = NULL]
        /\ \A c \in Living : Parents[c] # h
    BY <1>3, Reclaims
  <2> QED  BY <1>1, <1>3, <2>1 DEF Promise!Close, Promise!Reclaim, Living, Parents
<1> QED  BY <1>2, <1>3

\* Every step keeps the parts of the invariant, and is a step of Lifetime or
\* none at all.
Allowed == Promise!Next \/ UNCHANGED Promise!vars

LEMMA QuietAllowed ==
  ASSUME SameTree, held' = held
  PROVE  Allowed
BY NothingOpens DEF Allowed, Promise!vars, Living, Parents

LEMMA OpenAllowed ==
  ASSUME NEW h \in Handle, Promise!Open(h)
  PROVE  Allowed
BY DEF Allowed, Promise!Next

LEMMA CallKeeps ==
  ASSUME IInv, Working, closing = NULL, Call
  PROVE  IInv' /\ Allowed
<1>1. CASE elf_version
  <2>1. UNCHANGED <<elf, heap, held, home, closing, fault>> /\ version' \in BOOLEAN
    BY <1>1 DEF elf_version
  <2> QED  BY <2>1, QuietKeeps, QuietAllowed
<1>2. ASSUME NEW h \in Handle, NEW cmd \in Cmds, BeginFile(h, cmd)
      PROVE  IInv' /\ Allowed
  <2>1. IInv' /\ GrownTree(h) /\ elf'[h].parent = NULL
    BY <1>2, BeginFileKeeps
  <2>2. held' = [held EXCEPT ![h] = 1]
    BY <1>2 DEF BeginFile, Give
  <2> QED  BY <2>1, <2>2, Opens, OpenAllowed
<1>3. ASSUME NEW h \in Handle, NEW cmd \in Cmds, NEW ref \in Handle, BeginMember(h, ref, cmd)
      PROVE  IInv' /\ Allowed
  <2>1. IInv' /\ ((SameTree /\ held' = held) \/ NewMember(h, ref)) /\ held[ref] > 0
    BY <1>3, BeginMemberKeeps DEF BeginMember
  <2> QED  BY <2>1, QuietAllowed, Opens, OpenAllowed DEF NewMember
<1>4. ASSUME NEW h \in Handle, NEW cmd \in Cmds, BeginAgain(h, cmd)
      PROVE  IInv' /\ Allowed
  <2>1. IInv' /\ SameTree /\ held[h] > 0 /\ held' = [held EXCEPT ![h] = @ + 1]
    BY <1>4, BeginAgainKeeps DEF BeginAgain
  <2>2. UNCHANGED <<Living, Parents>>
    <3>1. \A g \in Handle : ParentOf(g)' = ParentOf(g)
      BY <2>1 DEF SameTree, ParentOf
    <3> QED  BY <2>1, <3>1 DEF SameTree, Living, Parents
  <2>3. Promise!Again(h)
    BY <2>1, <2>2, HeldIsAlive DEF Promise!Again, Living, Parents
  <2> QED  BY <2>1, <2>3 DEF Allowed, Promise!Next
<1>5. ASSUME NEW h \in Handle, BeginWrite(h) \/ elf_memory(h)
      PROVE  IInv' /\ Allowed
  <2>1. IInv' /\ GrownTree(h) /\ elf'[h].parent = NULL
    BY <1>5, BeginWriteKeeps, memoryKeeps
  <2>2. held' = [held EXCEPT ![h] = 1]
    BY <1>5 DEF BeginWrite, elf_memory, Give
  <2> QED  BY <2>1, <2>2, Opens, OpenAllowed
<1>6. ASSUME NEW h \in Handle, NEW h0 \in Handle, elf_clone(h, h0)
      PROVE  IInv' /\ Allowed
  <2>1. IInv' /\ GrownTree(h) /\ elf'[h].clone
    BY <1>6, cloneKeeps
  <2>2. held' = [held EXCEPT ![h] = 1]
    BY <1>6 DEF elf_clone, Give
  <2> QED  BY <2>1, <2>2, Opens, OpenAllowed
<1>7. ASSUME NEW h \in Handle, elf_end(h)
      PROVE  IInv' /\ Allowed
  <2>1. /\ IInv' /\ held[h] > 0 /\ held' = [held EXCEPT ![h] = @ - 1]
        /\ SameTree \/ (Gone(h) /\ held'[h] = 0)
    BY <1>7, endKeeps DEF elf_end
  <2>2. Promise!Close(h)
    BY <2>1, Closes
  <2> QED  BY <2>1, <2>2 DEF Allowed, Promise!Next
<1>8. ASSUME NEW h \in Handle, elf_next(h) \/ elf_getarhdr(h) \/ elf_getarsym(h)
      PROVE  IInv' /\ Allowed
  <2>1. IInv' /\ SameTree
    BY <1>8, nextKeeps, getarhdrKeeps, getarsymKeeps
  <2>2. held' = held
    BY <1>8 DEF elf_next, elf_getarhdr, elf_getarsym, Moved
  <2> QED  BY <2>1, <2>2, QuietAllowed
<1>9. ASSUME NEW h \in Handle, NEW o \in Offsets, elf_rand(h, o)
      PROVE  IInv' /\ Allowed
  <2>1. IInv' /\ SameTree /\ held' = held
    BY <1>9, randKeeps DEF elf_rand, Moved
  <2> QED  BY <2>1, QuietAllowed
<1>10. ASSUME NEW h \in Handle, elf_rawfile(h)
       PROVE  IInv' /\ Allowed
  <2>1. IInv' /\ SameTree /\ held' = held
    BY <1>10, rawfileKeeps DEF elf_rawfile, ReadIn
  <2> QED  BY <2>1, QuietAllowed
<1>11. ASSUME NEW h \in Handle, NEW cmd \in {"FDREAD", "FDDONE"}, elf_cntl(h, cmd)
       PROVE  IInv' /\ Allowed
  <2>1. IInv' /\ SameTree
    BY <1>11, cntlKeeps
  <2>2. held' = held
    BY <1>11 DEF elf_cntl, ReadIn
  <2> QED  BY <2>1, <2>2, QuietAllowed
<1> QED  BY <1>1, <1>2, <1>3, <1>4, <1>5, <1>6, <1>7, <1>8, <1>9, <1>10, <1>11 DEF Call

LEMMA StepKeeps ==
  ASSUME IInv, [Next]_vars
  PROVE  IInv' /\ Allowed
<1>1. CASE UNCHANGED vars
  <2>1. /\ UNCHANGED <<elf, heap, held, home, closing, fault>> /\ version' = version
        /\ version \in BOOLEAN
    BY <1>1 DEF vars, IInv, TypeOK
  <2> QED  BY <2>1, QuietKeeps, QuietAllowed
<1>2. CASE Next /\ closing # NULL
  <2>1. EndParent /\ Working /\ closing \in Handle
    BY <1>2 DEF Next, Working, IInv, TypeOK
  <2>2. IInv' /\ (SameTree \/ Gone(closing)) /\ held' = held
    BY <2>1, EndParentKeeps DEF EndParent
  <2>3. held[closing] = 0
    BY <2>1, HeldIsCounted DEF IInv, ClosingWaits, EndParent
  <2>4. CASE Gone(closing)
    <3>1. /\ closing \in Living /\ Living' = Living \ {closing}
          /\ Parents' = [Parents EXCEPT ![closing] = NULL]
          /\ \A c \in Living : Parents[c] # closing
      BY <2>1, <2>4, Reclaims
    <3>2. Promise!Collect(closing)
      BY <2>2, <2>3, <3>1 DEF Promise!Collect, Promise!Reclaim, Living, Parents
    <3> QED  BY <2>1, <2>2, <3>2 DEF Allowed, Promise!Next
  <2> QED  BY <2>2, <2>4, QuietAllowed
<1>3. CASE Next /\ closing = NULL
  <2>1. Call /\ Working
    BY <1>3 DEF Next, Working
  <2> QED  BY <1>3, <2>1, CallKeeps
<1> QED  BY <1>1, <1>2, <1>3

-----------------------------------------------------------------------------
\* The parts make an inductive invariant: each call, and each step of elf_end()
\* up through the archives, leaves all of them true.
THEOREM Invariance == Spec => []IInv
<1>1. Init => IInv
  <2> SUFFICES ASSUME Init PROVE IInv
    OBVIOUS
  <2>1. \A h \in Handle : elf[h] = Freed /\ held[h] = 0 /\ home[h] = 0 /\ ~Alive(h)
    BY DEF Init, Alive
  <2>2. TypeOK
    <3>1. 0 \in 0..MaxRefs
      BY Counts
    <3> QED  BY <3>1, FreedType DEF Init, TypeOK
  <2>3. GoneIsFreed /\ Counted /\ ClosingWaits /\ FaultKnown
    BY <2>1 DEF Init, GoneIsFreed, Counted, ClosingWaits, FaultKnown
  <2>4. Tree
    BY <2>1, FreedFields DEF Tree, ClonesApart, Enrolled, ListsAgree, Acyclic, Node
  <2>5. Memory
    BY <2>1, FreedFields DEF Init, Memory, MapOrigin, MapBase, MmapOfRoot, MapsLive, Accounted, Node
  <2>6. Places
    BY <2>1 DEF Places, Ordered, FileInPlace, RootsWhole, HeaderFresh, HeadersFit, Placed, Node
  <2> QED  BY <2>2, <2>3, <2>4, <2>5, <2>6 DEF IInv
<1>2. IInv /\ [Next]_vars => IInv'
  BY StepKeeps
<1> QED  BY <1>1, <1>2, PTL DEF Spec

-----------------------------------------------------------------------------
\* Nothing that is gone is used, for any file and any number of descriptors:
\* elf_end() finds the archive of a member and the member in its list, and no
\* descriptor but a clone of a member uses memory that was released.
THEOREM NothingGoneIsUsed == Spec => []Survives
<1>1. IInv => Survives
  BY DEF IInv, FaultKnown, Memory, Survives
<1> QED  BY <1>1, Invariance, PTL

\* Nothing is left behind by elf_end() but copies that were made for members:
\* every other block is one of a descriptor that is there.
THEOREM NothingLeftBehind == Spec => []Accounted
<1>1. IInv => Accounted
  BY DEF IInv, Memory
<1> QED  BY <1>1, Invariance, PTL

\* A descriptor shows the member it was opened for, whatever was mapped, copied
\* and relocated in between, apart from the one conversion that elf_begin()
\* misses, and nothing outside its archive where the archive has an end.
THEOREM MembersArePlaced == Spec => []Placed
<1>1. IInv => Placed
  BY DEF IInv, Places
<1> QED  BY <1>1, Invariance, PTL

\* The header that an archive holds is the one at its position, through
\* elf_next(), elf_rand(), elf_getarhdr() and the copies of __libelf_readall().
THEOREM HeadersAreFresh == Spec => []HeaderFresh
<1>1. IInv => HeaderFresh
  BY DEF IInv, Places
<1> QED  BY <1>1, Invariance, PTL

\* Descriptors live as Lifetime promises: elf_begin(), elf_clone() and elf_end()
\* with their counts and lists implement it, however the calls are mixed with
\* those that move in archives, read files in and give up file descriptors.
THEOREM DescriptorsLive == Spec => Lives
<1>1. Init => Promise!Init
  BY FreedFields DEF Init, Promise!Init, Alive, ParentOf
<1>2. IInv /\ [Next]_vars => [Promise!Next]_(Promise!vars)
  BY StepKeeps DEF Allowed
<1> QED  BY <1>1, <1>2, Invariance, PTL DEF Spec, Lives, Promise!Spec
=============================================================================

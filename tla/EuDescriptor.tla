---------------------------- MODULE EuDescriptor ----------------------------
(***************************************************************************)
(* The life of descriptors (struct Elf) in elfutils' libelf, over one file *)
(* that may be an archive of archives.                                     *)
(*                                                                         *)
(* elftoolchain keeps a whole file in memory; here a descriptor reads what *)
(* it needs with pread(), or uses a mapping of the file, or a copy that    *)
(* __libelf_readall() made later.  A position is therefore a number of     *)
(* bytes from the beginning of the file, or from the beginning of what a   *)
(* mapping or copy holds, and the code converts between the two.  The file *)
(* is given by the headers and images that begin at its offsets.           *)
(*                                                                         *)
(* The library is built without USE_LOCKS: a call runs to completion, only *)
(* the recursion of elf_end() to the archive is a step of its own.         *)
(***************************************************************************)
EXTENDS Integers, FiniteSets

CONSTANTS
  Handle,     \* addresses calloc() can return for a struct Elf: numbers
  NULL,       \* the null pointer
  SARMAG,     \* the size of the archive magic
  HDR,        \* sizeof (struct ar_hdr)
  EI_NIDENT,  \* the bytes that tell an ELF file
  EHDR,       \* the size of an ELF header
  FileSize,   \* the size of the file
  HdrAt,      \* the member headers: offset |-> [name, size], size -1 when blank
  KindAt,     \* what begins at an offset of the file, "NONE" elsewhere
  NamesAt,    \* the offsets of archives with a table of long names
  IndexAt,    \* the offsets of archives with a symbol table
  Cmds,       \* the commands the application passes to elf_begin()
  Offsets,    \* the offsets it passes to elf_rand()
  MaxRefs,    \* bound on the references to one descriptor
  MaxRoots,   \* bound on the descriptors of the file itself
  MaxDone     \* bound on the descriptors that gave up the file descriptor

Blocks == {"elf", "mmap", "copy", "names", "arsym"} \X Handle
Maps == {"mmap", "copy"} \X Handle
User == <<"user">>          \* the memory given to elf_memory()

ASSUME HandleAssumption == IsFiniteSet(Handle) /\ Handle \subseteq Nat
ASSUME NullAssumption == NULL \notin Handle \cup Blocks \cup {User}
ASSUME FileAssumption ==
  /\ \A n \in {SARMAG, HDR, EI_NIDENT, EHDR, FileSize} : n \in Nat
  /\ SARMAG % 2 = 0 /\ HDR % 2 = 0
  /\ DOMAIN HdrAt \subseteq 0..FileSize /\ DOMAIN KindAt \subseteq 0..FileSize
  /\ \A o \in DOMAIN HdrAt :
       /\ HdrAt[o].name \in {"plain", "long", "special", "unknown"}
       /\ HdrAt[o].size \in Nat \cup {-1}
  /\ \A o \in DOMAIN KindAt : KindAt[o] \in {"ELF", "BADELF", "AR"}
ASSUME CallAssumption ==
  /\ Cmds \subseteq {"READ", "READ_MMAP", "READ_MMAP_PRIVATE", "RDWR", "RDWR_MMAP",
                    "WRITE", "NULL"}
  /\ Offsets \subseteq Nat
ASSUME BoundAssumption == MaxRefs \in Nat \ {0} /\ MaxRoots \in Nat /\ MaxDone \in Nat

VARIABLES
  version,  \* __libelf_version_initialized
  elf,      \* the fields of each struct Elf
  heap,     \* the allocated blocks: <<what, the descriptor it is for>>
  held,     \* how often the application holds a descriptor it was given
  home,     \* where in the file the image of a descriptor really is
  closing,  \* the archive that elf_end() goes on with, NULL outside
  fault     \* why the process died, "" while it lives

vars == <<version, elf, heap, held, home, closing, fault>>

NoMap == [block |-> NULL, base |-> 0]
NoHdr == [valid |-> FALSE, size |-> 0]

Freed ==
  [kind |-> "NONE", mode |-> "READ", fd |-> FALSE, start |-> 0, size |-> 0,
   map |-> NoMap, refs |-> 0, parent |-> NULL, children |-> {},
   offset |-> 0, hdr |-> NoHdr, arsym |-> "unread", names |-> NULL, clone |-> FALSE]

Alive(h) == <<"elf", h>> \in heap
\* calloc() returns the lowest address that is free: which one it is makes no
\* difference to the code.
Free(h) == \A b \in heap : b[2] # h
Unused(h) == Free(h) /\ \A g \in Handle : Free(g) => h <= g
Mapped(e) == e.map.block # NULL
Even(n) == n + (n % 2)

\* The offset in the file of what descriptor e calls position o.
FileOffset(e, o) == e.map.base + o

Init ==
  /\ version = FALSE
  /\ elf = [h \in Handle |-> Freed]
  /\ heap = {}
  /\ held = [h \in Handle |-> 0]
  /\ home = [h \in Handle |-> 0]
  /\ closing = NULL
  /\ fault = ""

Crash(why) == fault' = why /\ UNCHANGED <<version, elf, heap, home, closing>>

-----------------------------------------------------------------------------
(* Reading the head of an image.                                           *)

\* What determine_kind() says of an image of size bytes at an offset.
determine_kind(at, size) ==
  IF at \notin DOMAIN KindAt THEN "NONE"
  ELSE IF KindAt[at] = "AR" THEN IF size >= SARMAG THEN "AR" ELSE "NONE"
  ELSE IF size >= EI_NIDENT THEN KindAt[at] ELSE "NONE"

\* What elf_begin() tells apart of the command a descriptor was made with.
Mode(cmd) ==
  CASE cmd \in {"READ", "READ_MMAP"} -> "READ"
    [] cmd = "READ_MMAP_PRIVATE" -> "PRIVATE"
    [] cmd \in {"RDWR", "RDWR_MMAP"} -> "RDWR"
    [] cmd = "WRITE" -> "WRITE"

\* A descriptor as allocate_elf() and file_read_ar() make it.
allocate_elf(kind, cmd, fd, map, start, size, parent) ==
  [Freed EXCEPT !.kind = kind, !.mode = Mode(cmd), !.fd = fd, !.map = map, !.start = start,
     !.size = size, !.refs = 1, !.parent = parent,
     !.offset = IF kind = "AR" THEN start + SARMAG ELSE 0]

\* __libelf_read_mmaped_file(): NULL when file_read_elf() refuses the file.
read_mmaped_file(cmd, fd, map, start, size, parent) ==
  LET kind == determine_kind(map.base + start, size) IN
  IF kind = "BADELF" THEN NULL
  ELSE allocate_elf(kind, cmd, fd, map, start, size, parent)

\* An ELF header that is not all there makes the file of no known kind.
read_unmmaped_file(cmd, fd, start, size, parent) ==
  LET kind == determine_kind(start, size) IN
  IF ~fd THEN NULL
  ELSE IF kind \in {"ELF", "BADELF"} /\ size < EHDR
  THEN allocate_elf("NONE", cmd, fd, NoMap, start, size, parent)
  ELSE IF kind = "BADELF" THEN NULL
  ELSE allocate_elf(kind, cmd, fd, NoMap, start, size, parent)

UsesMmap(cmd) == cmd \in {"READ_MMAP", "RDWR_MMAP", "READ_MMAP_PRIVATE"}

\* read_file() for the file itself, which h is to map if the command says so.
ReadWhole(h, cmd) ==
  IF UsesMmap(cmd)
  THEN read_mmaped_file(cmd, TRUE, [block |-> <<"mmap", h>>, base |-> 0], 0, FileSize, NULL)
  ELSE read_unmmaped_file(cmd, TRUE, 0, FileSize, NULL)

\* read_file() for the member that archive p, with fields e, stands at.
ReadMember(e, p, cmd) ==
  IF UsesMmap(cmd) /\ Mapped(e)
  THEN read_mmaped_file(cmd, e.fd, e.map, e.offset + HDR, e.hdr.size, p)
  ELSE read_unmmaped_file(cmd, e.fd, e.offset + HDR, e.hdr.size, p)

\* read_long_names(): the archive whose table is found, NULL when none is.
\* A mapping is searched from its beginning.
read_long_names(e) ==
  LET at == IF Mapped(e) THEN e.map.base ELSE e.start IN
  IF at \in NamesAt /\ (Mapped(e) \/ e.fd) THEN at ELSE NULL

\* __libelf_next_arhdr_wrlock(): whether the header at e.offset was read, and the
\* archive afterwards.  The name is stored before the size is looked at.
next_arhdr(e) ==
  LET at   == FileOffset(e, e.offset)
      end  == e.start + e.size
      name == HdrAt[at].name
      size == HdrAt[at].size
      tab  == IF e.names # NULL THEN e.names ELSE read_long_names(e)
      room == end - e.offset - HDR
      e1   == [e EXCEPT !.names = IF name = "long" THEN tab ELSE @]
      away == IF Mapped(e) THEN room < 0 ELSE ~e.fd \/ at + HDR > FileSize
  IN  IF away \/ at \notin DOMAIN HdrAt
      THEN [ok |-> FALSE, e |-> e]
      ELSE IF name = "unknown" \/ (name = "long" /\ tab = NULL)
      THEN [ok |-> FALSE, e |-> e1]
      ELSE IF size = -1
      THEN [ok |-> FALSE, e |-> [e1 EXCEPT !.hdr.valid = TRUE]]
      \* (size_t) room is huge when the header is behind the end
      ELSE [ok |-> TRUE,
            e |-> [e1 EXCEPT !.hdr = [valid |-> TRUE,
                     size |-> IF 0 <= room /\ room < size THEN room ELSE size]]]

\* A long name table is a block of its archive.
NamesBlock(h, e) == IF e.names # NULL THEN {<<"names", h>>} ELSE {}

-----------------------------------------------------------------------------
(* elf_begin(), elf_memory(), elf_clone()                                  *)

elf_version ==
  /\ ~version
  /\ version' = TRUE
  /\ UNCHANGED <<elf, heap, held, home, closing, fault>>

\* A new descriptor r for the application at h; at is where its image is.
Give(h, r, at) ==
  /\ Unused(h)
  /\ elf' = [elf EXCEPT ![h] = r]
  /\ held' = [held EXCEPT ![h] = 1]
  /\ home' = [home EXCEPT ![h] = at]
  /\ UNCHANGED <<version, closing, fault>>

RootsLeft == Cardinality({h \in Handle : Alive(h) /\ elf[h].parent = NULL}) < MaxRoots

\* read_file() maps the file before it knows what it is, and unmaps it when
\* the descriptor was not made.
BeginFile(h, cmd) ==
  /\ version /\ RootsLeft
  /\ cmd \notin {"WRITE", "NULL"}
  /\ LET r == ReadWhole(h, cmd) IN
     /\ r # NULL
     /\ Give(h, r, 0)
     /\ heap' = heap \cup {<<"elf", h>>} \cup (IF Mapped(r) THEN {<<"mmap", h>>} ELSE {})

\* write_file(): the descriptor of a new file, whatever ref was.
BeginWrite(h) ==
  /\ version /\ RootsLeft
  /\ "WRITE" \in Cmds
  /\ Give(h, allocate_elf("ELF", "WRITE", TRUE, NoMap, 0, 0, NULL), 0)
  /\ heap' = heap \cup {<<"elf", h>>}

\* The commands that elf_begin() lets pass with a descriptor.
Compatible(cmd, ref) ==
  CASE cmd = "READ_MMAP_PRIVATE" -> elf[ref].mode = "PRIVATE"
    [] cmd \in {"RDWR", "RDWR_MMAP"} -> elf[ref].mode \in {"RDWR", "WRITE"}
    [] OTHER -> cmd \in {"READ", "READ_MMAP"}

\* Mutant: only a new member is enlisted, not a descriptor made for it again.
EnlistedFirst(p, h, e) ==
  IF e.children = {} THEN [e EXCEPT !.children = {h}] ELSE e

\* The end of dup_elf(): the new descriptor is one of the children.  Their order
\* makes no difference to the code.
Enlisted(p, h, e) == [e EXCEPT !.children = @ \cup {h}]

\* Mutant: the reference is not counted.
BeginUncounted(ref, cmd) ==
  /\ version /\ held[ref] > 0
  /\ Compatible(cmd, ref) /\ elf[ref].kind # "AR"
  /\ held[ref] < MaxRefs
  /\ held' = [held EXCEPT ![ref] = @ + 1]
  /\ UNCHANGED <<version, elf, heap, home, closing, fault>>

\* dup_elf() of anything but an archive.
BeginAgain(ref, cmd) ==
  /\ version /\ held[ref] > 0
  /\ Compatible(cmd, ref) /\ elf[ref].kind # "AR"
  /\ elf[ref].refs < MaxRefs
  /\ elf' = [elf EXCEPT ![ref].refs = @ + 1]
  /\ held' = [held EXCEPT ![ref] = @ + 1]
  /\ UNCHANGED <<version, heap, home, closing, fault>>

\* dup_elf() of an archive: the header the archive stands at is read, unless
\* there is one, and a descriptor for that member is made.
BeginMember(h, ref, cmd) ==
  /\ version /\ held[ref] > 0
  /\ elf[ref].kind = "AR" /\ Compatible(cmd, ref)
  /\ Unused(h)
  /\ LET n == IF elf[ref].hdr.valid THEN [ok |-> TRUE, e |-> elf[ref]]
              ELSE next_arhdr(elf[ref])
         r == ReadMember(n.e, ref, cmd)
         made == n.ok /\ r # NULL
     IN  /\ elf' = [elf EXCEPT ![ref] = IF made THEN Enlisted(ref, h, n.e) ELSE n.e,
                               ![h] = IF made THEN r ELSE @]
         /\ held' = [held EXCEPT ![h] = IF made THEN 1 ELSE 0]
         /\ home' = [home EXCEPT ![h] =
                       IF made THEN FileOffset(n.e, n.e.offset + HDR) ELSE @]
         /\ heap' = heap \cup NamesBlock(ref, n.e) \cup (IF made THEN {<<"elf", h>>} ELSE {})
         /\ UNCHANGED <<version, closing, fault>>

\* elf_memory() on an image of the file.
elf_memory(h) ==
  /\ RootsLeft
  /\ LET r == read_mmaped_file("READ", FALSE, [block |-> User, base |-> 0], 0, FileSize, NULL) IN
     r # NULL /\ Give(h, r, 0)
  /\ heap' = heap \cup {<<"elf", h>>}

\* elf_clone(): the fields of the original, its parent too, but the clone is not
\* in the list of that parent.  Clones of archives are left out: their fields are
\* set as those of an ELF object, in a union with the archive's.
elf_clone(h, h0) ==
  /\ held[h0] > 0 /\ elf[h0].kind # "AR"
  /\ elf[h0].parent = NULL => RootsLeft
  /\ \A g \in Handle : ~elf[g].clone    \* bound: one clone at a time
  /\ LET e == elf[h0] IN
     Give(h, [Freed EXCEPT !.kind = e.kind, !.mode = e.mode, !.fd = e.fd, !.map = e.map,
                !.start = e.start, !.size = e.size, !.refs = 1, !.parent = e.parent,
                !.clone = TRUE],
          home[h0])
  /\ heap' = heap \cup {<<"elf", h>>}

-----------------------------------------------------------------------------
(* elf_end()                                                               *)

\* Mutant: the long names are not released.
OwnedNoNames(h) ==
  {b \in heap : b[2] = h /\ b[1] # "names" /\ (b[1] \in {"mmap", "copy"} => elf[h].parent = NULL)}

\* The blocks that elf_end() frees with h.  The copy that was read in for a
\* member is not among them.
Owned(h) ==
  {b \in heap : b[2] = h /\ (b[1] \in {"mmap", "copy"} => elf[h].parent = NULL)}

\* The end of the last reference to h, once archives have no member left: h leaves
\* the list of its parent, and everything is freed.
Destroy(h) ==
  LET p == elf[h].parent IN
  IF p # NULL /\ ~Alive(p) THEN Crash("freed parent")
  ELSE IF p # NULL /\ h \notin elf[p].children THEN Crash("not in the list")
  ELSE /\ heap' = heap \ Owned(h)
       /\ elf' = [g \in Handle |->
                    IF g = h THEN Freed
                    ELSE IF g = p THEN [elf[p] EXCEPT !.children = @ \ {h}]
                    ELSE elf[g]]
       /\ home' = [home EXCEPT ![h] = 0]
       /\ closing' = IF p # NULL /\ elf[p].refs = 0 THEN p ELSE NULL
       /\ UNCHANGED <<version, fault>>

\* An archive without references gives up its symbol table; with members left
\* that is all.
EndLast(h) ==
  IF elf[h].kind = "AR" /\ elf[h].children # {}
  THEN /\ elf' = [elf EXCEPT ![h].refs = 0, ![h].arsym = "unread"]
       /\ heap' = heap \ {<<"arsym", h>>}
       /\ closing' = NULL
       /\ UNCHANGED <<version, home, fault>>
  ELSE Destroy(h)

elf_end(h) ==
  /\ held[h] > 0
  /\ held' = [held EXCEPT ![h] = @ - 1]
  /\ IF elf[h].refs > 1
     THEN /\ elf' = [elf EXCEPT ![h].refs = @ - 1]
          /\ UNCHANGED <<version, heap, home, closing, fault>>
     ELSE EndLast(h)

\* The recursive call for an archive that waited for its last member.
EndParent ==
  /\ closing # NULL
  /\ EndLast(closing)
  /\ UNCHANGED held

-----------------------------------------------------------------------------
(* Moving in an archive.                                                   *)

\* The archive p has become e.
Moved(p, e) ==
  /\ elf' = [elf EXCEPT ![p] = e]
  /\ heap' = heap \cup NamesBlock(p, e)
  /\ UNCHANGED <<version, held, home, closing, fault>>

\* Mutant: the header of the member before stays when there is no next one.
elf_next_kept(h) ==
  /\ held[h] > 0 /\ elf[h].parent # NULL
  /\ elf[elf[h].parent].hdr.valid
  /\ LET p == elf[h].parent
         e == [elf[p] EXCEPT !.offset = @ + HDR + Even(elf[p].hdr.size)]
     IN  Moved(p, next_arhdr(e).e)

\* elf_next() of a member: the archive advances from where it stands, which need
\* not be at this member.  The application stops when there is no next one.
elf_next(h) ==
  /\ held[h] > 0 /\ elf[h].parent # NULL
  /\ elf[elf[h].parent].hdr.valid
  /\ LET p == elf[h].parent
         e == [elf[p] EXCEPT !.offset = @ + HDR + Even(elf[p].hdr.size)]
         n == next_arhdr(e)
     IN  Moved(p, IF n.ok THEN n.e ELSE [n.e EXCEPT !.hdr.valid = FALSE])

elf_rand(h, o) ==
  /\ held[h] > 0 /\ elf[h].kind = "AR"
  /\ LET n == next_arhdr([elf[h] EXCEPT !.offset = elf[h].start + o]) IN
     Moved(h, IF n.ok THEN n.e ELSE [n.e EXCEPT !.hdr.valid = FALSE])

\* elf_getarhdr() reads the header of the parent if there is none, and once more
\* if that failed.
elf_getarhdr(h) ==
  /\ held[h] > 0 /\ elf[h].parent # NULL
  /\ ~elf[elf[h].parent].hdr.valid
  /\ LET p == elf[h].parent
         n == next_arhdr(elf[p])
     IN  Moved(p, IF n.ok THEN n.e ELSE next_arhdr(n.e).e)

\* elf_getarsym() of an archive whose symbol table was not asked for before.
elf_getarsym(h) ==
  /\ held[h] > 0 /\ elf[h].kind = "AR"
  /\ elf[h].arsym = "unread"
  /\ IF ~Mapped(elf[h]) /\ ~elf[h].fd THEN Crash("assert") /\ UNCHANGED held
     ELSE LET found == FileOffset(elf[h], elf[h].start) \in IndexAt IN
          /\ elf' = [elf EXCEPT ![h].arsym = IF found THEN "table" ELSE "none"]
          /\ heap' = heap \cup (IF found THEN {<<"arsym", h>>} ELSE {})
          /\ UNCHANGED <<version, held, home, closing, fault>>

-----------------------------------------------------------------------------
(* Reading the file in.                                                    *)

\* S has, with a descriptor, those of its children that are not in memory yet.
ClosedBelow(h, S) ==
  \A p \in S \cup {h} : \A c \in elf[p].children : ~Mapped(elf[c]) => c \in S

\* The descriptors that set_address() reaches from h: down the lists of children,
\* past none that has its bytes in memory already.
Below(h) ==
  {c \in Handle : \A S \in SUBSET Handle : ClosedBelow(h, S) => c \in S}

\* Mutant: the positions of the descriptors below are left as they are.
NotRelocated(e, map, by) == [e EXCEPT !.map = map]

\* set_address() and the end of __libelf_readall() for one descriptor: positions
\* count from the beginning of the copy now.
Relocated(e, map, by) ==
  [e EXCEPT !.map = map, !.start = @ - by,
            !.offset = IF e.kind = "AR" THEN @ - by ELSE @]

\* __libelf_readall() of h that has no mapping; fd is whether h keeps the file
\* descriptor.
ReadIn(h, fd) ==
  LET by  == elf[h].start
      map == [block |-> <<"copy", h>>, base |-> by]
  IN  /\ elf' = [g \in Handle |->
                   IF g = h THEN [Relocated(elf[h], map, by) EXCEPT !.fd = fd]
                   ELSE IF g \in Below(h) THEN Relocated(elf[g], map, by)
                   ELSE elf[g]]
      /\ heap' = heap \cup {<<"copy", h>>}
      /\ UNCHANGED <<version, held, home, closing, fault>>

\* elf_rawfile()
elf_rawfile(h) ==
  /\ held[h] > 0 /\ ~Mapped(elf[h]) /\ elf[h].fd
  /\ elf[h].mode # "WRITE"
  /\ ReadIn(h, TRUE)

\* elf_cntl(): ELF_C_FDREAD reads the file in before it forgets the descriptor.
elf_cntl(h, cmd) ==
  /\ held[h] > 0 /\ elf[h].fd
  /\ Cardinality({g \in Handle : Alive(g) /\ ~elf[g].fd}) < MaxDone
  /\ IF cmd = "FDREAD" /\ ~Mapped(elf[h])
     THEN ReadIn(h, FALSE)
     ELSE /\ elf' = [elf EXCEPT ![h].fd = FALSE]
          /\ UNCHANGED <<version, heap, held, home, closing, fault>>

-----------------------------------------------------------------------------
Call ==
  \/ elf_version
  \/ \E h \in Handle :
       \/ \E cmd \in Cmds :
            \/ BeginFile(h, cmd)
            \/ \E ref \in Handle : BeginMember(h, ref, cmd)
            \/ BeginAgain(h, cmd)
       \/ BeginWrite(h)
       \/ elf_memory(h)
       \/ \E h0 \in Handle : elf_clone(h, h0)
       \/ elf_end(h)
       \/ elf_next(h)
       \/ \E o \in Offsets : elf_rand(h, o)
       \/ elf_getarhdr(h)
       \/ elf_getarsym(h)
       \/ elf_rawfile(h)
       \/ \E cmd \in {"FDREAD", "FDDONE"} : elf_cntl(h, cmd)

Next ==
  /\ fault = ""
  /\ IF closing = NULL THEN Call ELSE EndParent

Spec == Init /\ [][Next]_vars

-----------------------------------------------------------------------------
Descriptors ==
  [kind : {"NONE", "ELF", "AR"}, mode : {"READ", "PRIVATE", "RDWR", "WRITE"}, fd : BOOLEAN,
   start : Nat, size : Nat, map : [block : Maps \cup {NULL, User}, base : Nat],
   refs : 0..MaxRefs, parent : Handle \cup {NULL}, children : SUBSET Handle,
   offset : Nat, hdr : [valid : BOOLEAN, size : Nat],
   arsym : {"unread", "none", "table"}, names : NamesAt \cup {NULL}, clone : BOOLEAN]

TypeOK ==
  /\ version \in BOOLEAN
  /\ elf \in [Handle -> Descriptors]
  /\ heap \subseteq Blocks
  /\ held \in [Handle -> 0..MaxRefs]
  /\ home \in [Handle -> Nat]
  /\ closing \in Handle \cup {NULL}
  /\ fault \in {"", "assert", "freed parent", "not in the list"}

\* A clone of a member is nobody's child.
Orphan(h) == elf[h].clone /\ elf[h].parent # NULL

(***************************************************************************)
(* Nothing that is gone is used.  The archive is there when elf_end()      *)
(* takes a member out of its list, and the member is in it (elf_end.c:84,  *)
(* dup_elf() in elf_begin.c:1020), whatever was opened and closed in       *)
(* between.  A descriptor never uses a mapping or a copy that is released: *)
(* members share the memory of their archive (elf_begin.c:687), which      *)
(* elf_end() gives up with the descriptor it was made for (elf_end.c:218). *)
(* Known ways to make the process die: a clone of a member                 *)
(* (elf_clone.c:57), which is in no list and keeps the memory of its       *)
(* original without a claim to it, and the symbol table of an archive      *)
(* whose file descriptor was given up before it was in memory              *)
(* (elf_getarsym.c:113).                                                   *)
(***************************************************************************)
MapsLive ==
  \A h \in Handle : Alive(h) /\ ~elf[h].clone /\ Mapped(elf[h]) =>
    elf[h].map.block = User \/ elf[h].map.block \in heap
Survives ==
  /\ TypeOK
  /\ fault \in {"", "assert"} \/ \E h \in Handle : Orphan(h)
  /\ MapsLive

(***************************************************************************)
(* Nothing is left behind: every block belongs to a descriptor, but for    *)
(* the copy that __libelf_readall() made for a member, which elf_end()     *)
(* does not free (elf_end.c:218 asks for parent == NULL).                  *)
(***************************************************************************)
Accounted ==
  \A b \in heap : Alive(b[2]) \/ b[1] = "copy"

(***************************************************************************)
(* A descriptor shows the bytes of the member it was opened for, through   *)
(* mappings, copies made before and after (elf_readall.c:43, :111) and the *)
(* conversion of positions these need, and no bytes outside its archive.   *)
(* One conversion is missing: a member of an archive that stands in a copy *)
(* is looked for in the file at its position in the copy, and is that much *)
(* too low (elf_begin.c:1050).  And nothing tells the end of an archive within an  *)
(* archive that is read with pread() (elf_begin.c:834), or of a member     *)
(* whose header has no size (HeaderFresh).                                 *)
(***************************************************************************)
InPlace(h) == FileOffset(elf[h], elf[h].start) = home[h]
Misplaced(h) ==
  /\ elf[h].parent # NULL
  /\ FileOffset(elf[h], elf[h].start) + elf[elf[h].parent].map.base = home[h]
Within(h, p) ==
  home[h] >= home[p] /\ home[h] + elf[h].size <= home[p] + elf[p].size
Contained(h) ==
  LET p == elf[h].parent IN
  \/ Within(h, p)
  \/ /\ elf[p].parent # NULL
     /\ ~Mapped(elf[p]) \/ elf[p].map.block[1] = "copy"
  \/ home[h] - HDR \in DOMAIN HdrAt /\ HdrAt[home[h] - HDR].size = -1
Placed ==
  \A h \in Handle : Alive(h) =>
    /\ InPlace(h) \/ Misplaced(h) \/ elf[h].clone
    /\ elf[h].parent # NULL /\ ~Orphan(h) => Contained(h)

(***************************************************************************)
(* The header an archive holds is the one at its position, so that the     *)
(* next elf_begin() uses the right size and the next elf_next() advances   *)
(* by it (elf_begin.c:1005, elf_next.c:55).  A header without a size is    *)
(* taken for read when its name was stored (elf_begin.c:915).              *)
(***************************************************************************)
HeaderFresh ==
  \A h \in Handle : Alive(h) /\ elf[h].kind = "AR" /\ elf[h].hdr.valid =>
    LET at == FileOffset(elf[h], elf[h].offset) IN
    /\ at \in DOMAIN HdrAt
    /\ elf[h].hdr.size <= HdrAt[at].size \/ HdrAt[at].size = -1

\* What Lifetime calls the parent of a descriptor: a clone has none.
ParentOf(h) == IF elf[h].clone THEN NULL ELSE elf[h].parent
Promise == INSTANCE Lifetime WITH
  alive  <- {h \in Handle : Alive(h)},
  held   <- held,
  parent <- [h \in Handle |-> ParentOf(h)]

(***************************************************************************)
(* Descriptors live as Lifetime promises, apart from clones, which do not  *)
(* keep the archive of their original: elf_begin() and elf_end() with the  *)
(* counts and lists of elf_begin.c:998-1025 and elf_end.c:52-107 implement *)
(* it.                                                                     *)
(***************************************************************************)
Lives == Promise!Spec
=============================================================================

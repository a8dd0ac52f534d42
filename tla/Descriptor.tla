----------------------------- MODULE Descriptor -----------------------------
(***************************************************************************)
(* The life of ELF descriptors (struct _Elf) in elftoolchain's libelf:     *)
(* elf_begin(), elf_memory(), elf_open() and elf_openmemory() create them, *)
(* elf_begin() on an open descriptor adds an activation or opens a member  *)
(* of an ar(1) archive, elf_end() drops an activation and reclaims.        *)
(*                                                                         *)
(* A member borrows the bytes of its archive, so an archive whose last     *)
(* activation is gone stays allocated until its last open member goes;     *)
(* archives nest.  The model keeps an explicit heap: which blocks exist,   *)
(* and which descriptor they were allocated for.                           *)
(*                                                                         *)
(* File contents are abstracted to what _libelf_memory() tells apart (the  *)
(* Shape of an image) and, for an archive, to the list of its members: an  *)
(* offset e_next into an archive is the index of a member, 0 is "no more". *)
(* The library is single-threaded; a call runs to completion, except that  *)
(* each turn of the reclaiming loop in elf_end() is a step of its own.     *)
(***************************************************************************)
EXTENDS Naturals, Sequences, FiniteSets

CONSTANTS
  Handle,     \* addresses malloc() can return for a struct _Elf
  Fd,         \* file descriptors of the application
  NoFd,       \* the value -1 of e_fd
  NULL,       \* the null pointer
  Image,      \* byte images: files, memory buffers, archive members
  Buffer,     \* the images the application has in memory
  FileImage,  \* the image an open file holds
  Shape,      \* what the first bytes of an image are
  Members,    \* the ordinary members of an archive image, in file order
  Symtab,     \* the state of an archive's symbol table
  MaxActs     \* bound on the activations of one descriptor

Shapes == {"elf", "badversion", "badident", "ar", "badar", "other",
           "empty", "directory", "badheader"}

Errors == {"NONE", "ARGUMENT", "SEQUENCE", "ARCHIVE", "VERSION", "HEADER",
           "RESOURCE", "IO", "MODE"}

ASSUME HandleAssumption == IsFiniteSet(Handle) /\ NULL \notin Handle
ASSUME FdAssumption == NoFd \notin Fd
\* An archive has an ordinary member: behind the special members of one that has
\* none, the first elf_begin() reads a header past the end of the image
\* (libelf_ar.c:215).
ASSUME ImageAssumption ==
  /\ FileImage \in [Fd -> Image]
  /\ Buffer \subseteq Image
  /\ Shape \in [Image -> Shapes]
  /\ Members \in [Image -> Seq(Image)]
  /\ Symtab \in [Image -> {"absent", "good", "malformed"}]
  /\ \A i \in Image : Shape[i] = "ar" => Len(Members[i]) > 0
  /\ \A f \in Fd : Shape[FileImage[f]] # "badheader"
  /\ \A i \in Buffer : Shape[i] \notin {"badheader", "directory"}
ASSUME MaxActsAssumption == MaxActs \in Nat \ {0}

VARIABLES
  version,  \* _libelf.libelf_version
  err,      \* _libelf.libelf_error
  elf,      \* the fields of each struct _Elf
  heap,     \* the allocated blocks: <<what, the descriptor it is for>>
  held,     \* how often the application holds a descriptor it was given
  closing   \* the descriptor the loop of elf_end() looks at, NULL outside

vars == <<version, err, elf, heap, held, closing>>

Descriptors ==
  [kind: {"NONE", "ELF", "AR"},        \* e_kind
   cmd: {"READ", "RDWR", "WRITE"},     \* e_cmd
   fd: Fd \cup {NoFd},                 \* e_fd
   img: Image \cup {NULL},             \* what e_rawfile points at
   raw: {"none", "malloc", "mmap"},    \* LIBELF_F_RAWFILE_MALLOC, _MMAP
   acts: Nat,                          \* e_activations
   parent: Handle \cup {NULL},         \* e_parent
   pos: Nat,                           \* which member of its parent
   nchildren: Nat,                     \* e_u.e_ar.e_nchildren
   next: Nat]                          \* e_u.e_ar.e_next

Blocks == {"elf", "raw", "arhdr", "symtab"} \X Handle

\* The contents of memory no descriptor lives in.
Freed == [kind |-> "NONE", cmd |-> "READ", fd |-> NoFd, img |-> NULL,
          raw |-> "none", acts |-> 0, parent |-> NULL, pos |-> 0,
          nchildren |-> 0, next |-> 0]

Alive(h) == <<"elf", h>> \in heap
Unused(h) == \A b \in Blocks : b[2] = h => b \notin heap
Children(p) == {h \in Handle : Alive(h) /\ elf[h].parent = p}

TypeOK ==
  /\ version \in {"NONE", "CURRENT"}
  /\ err \in Errors
  /\ elf \in [Handle -> Descriptors]
  /\ heap \in SUBSET Blocks
  /\ held \in [Handle -> Nat]
  /\ closing \in Handle \cup {NULL}

Init ==
  /\ version = "NONE"
  /\ err = "NONE"
  /\ elf = [h \in Handle |-> Freed]
  /\ heap = {}
  /\ held = [h \in Handle |-> 0]
  /\ closing = NULL

-----------------------------------------------------------------------------
(* Outcomes shared by the calls.                                           *)

\* LIBELF_SET_ERROR() followed by an early return.
Fail(e) == err' = e /\ UNCHANGED <<version, elf, heap, held, closing>>

\* The application passes a descriptor it still holds.
Valid(h) == held[h] > 0

\* The ELF_E_* code for the ident bytes _libelf_memory() rejects.
ParseError(i) ==
  CASE Shape[i] = "badversion" -> "VERSION"
    [] Shape[i] = "badident"   -> "HEADER"
    [] Shape[i] = "badar"      -> "ARCHIVE"
    [] OTHER                   -> "NONE"

Kind(i) == CASE Shape[i] = "elf" -> "ELF"
             [] Shape[i] = "ar"  -> "AR"
             [] OTHER            -> "NONE"

\* A descriptor as _libelf_allocate_elf(), _libelf_init_elf() and
\* _libelf_ar_open() leave it for image i.
Fresh(i) ==
  [kind |-> Kind(i), cmd |-> "READ", fd |-> NoFd, img |-> i, raw |-> "none",
   acts |-> 1, parent |-> NULL, pos |-> 0, nchildren |-> 0,
   next |-> IF Shape[i] = "ar" THEN 1 ELSE 0]

\* h is allocated, with the image in the library's hands if raw says so,
\* and the application is given it.
Give(h, raw) ==
  /\ Unused(h)
  /\ heap' = heap \cup {<<"elf", h>>}
                  \cup (IF raw = "none" THEN {} ELSE {<<"raw", h>>})
  /\ held' = [held EXCEPT ![h] = 1]
  /\ UNCHANGED <<version, err, closing>>

\* Mutant: the refused descriptor is released and returned all the same.
RefuseReturned(h, i) ==
  /\ Unused(h)
  /\ err' = ParseError(i)
  /\ held' = [held EXCEPT ![h] = 1]
  /\ UNCHANGED <<version, elf, heap, closing>>

\* The error exit of _libelf_memory().  The descriptor is released again,
\* but for the error exit of _libelf_ar_open(), which only returns NULL:
\* there h stays allocated, with kind ELF_K_AR.
Refuse(h, i) ==
  /\ Unused(h)
  /\ err' = ParseError(i)
  /\ IF Shape[i] = "badar"
     THEN /\ heap' = heap \cup {<<"elf", h>>}
          /\ elf' = [elf EXCEPT ![h] = [Fresh(i) EXCEPT !.kind = "AR"]]
     ELSE UNCHANGED <<heap, elf>>
  /\ UNCHANGED <<version, held, closing>>

-----------------------------------------------------------------------------
(* elf_version(), elf_errno()                                              *)

elf_version(v) ==
  /\ closing = NULL
  /\ \/ v = "NONE" /\ UNCHANGED vars
     \/ v = "UNKNOWN" /\ Fail("VERSION")
     \/ /\ v = "CURRENT"
        /\ version' = v
        /\ UNCHANGED <<err, elf, heap, held, closing>>

elf_errno ==
  /\ closing = NULL
  /\ err' = "NONE"
  /\ UNCHANGED <<version, elf, heap, held, closing>>

-----------------------------------------------------------------------------
(* Opening.                                                                *)

\* _libelf_open_object(): the exits before any descriptor exists.
Openable(fd) == Shape[FileImage[fd]] # "directory"

OpenFails(fd, cmd) ==
  LET empty == cmd # "WRITE" /\ Shape[FileImage[fd]] = "empty"
  IN  \/ Fail("IO")                                     \* fstat(), read()
      \/ ~Openable(fd) /\ Fail("ARGUMENT")
      \/ Openable(fd) /\ empty /\ Fail("ARGUMENT")
      \/ Openable(fd) /\ ~empty /\ Fail("RESOURCE")     \* malloc()

\* _libelf_open_object() for ELF_C_WRITE: no content is looked at.
OpenWrite(fd, h) ==
  /\ Openable(fd)
  /\ Give(h, "none")
  /\ elf' = [elf EXCEPT ![h] = [Freed EXCEPT !.kind = "ELF",
                                  !.cmd = "WRITE", !.fd = fd, !.acts = 1]]

\* _libelf_open_object() for ELF_C_READ and ELF_C_RDWR.  The image is
\* mapped, or read into malloc()ed memory when that fails or when the file
\* is not a regular one.  An archive opened ELF_C_RDWR is given up again
\* with elf_end(), before the raw-file flag that elf_end() looks at is set.
OpenObject(fd, cmd, report, raw, h) ==
  LET i == FileImage[fd]
      e == [Fresh(i) EXCEPT !.cmd = cmd, !.fd = fd, !.raw = raw]
  IN  /\ Openable(fd) /\ Shape[i] # "empty"
      /\ \/ report /\ ParseError(i) # "NONE" /\ Refuse(h, i)
         \/ /\ ~(report /\ ParseError(i) # "NONE")
            /\ cmd = "RDWR" /\ e.kind = "AR"
            /\ Unused(h)
            /\ err' = "ARGUMENT"
            /\ heap' = heap \cup {<<"raw", h>>}
            /\ UNCHANGED <<version, elf, held, closing>>
         \/ /\ ~(report /\ ParseError(i) # "NONE")
            /\ ~(cmd = "RDWR" /\ e.kind = "AR")
            /\ Give(h, raw)
            /\ elf' = [elf EXCEPT ![h] = e]

\* elf_memory() (report) and elf_openmemory() (~report).
elf_memory(i, report, h) ==
  /\ closing = NULL
  /\ \/ version = "NONE" /\ Fail("SEQUENCE")
     \/ version # "NONE" /\ Shape[i] = "empty" /\ Fail("ARGUMENT")
     \/ version # "NONE" /\ Shape[i] # "empty" /\ Fail("RESOURCE")
     \/ /\ version # "NONE"
        /\ Shape[i] # "empty"
        /\ \/ report /\ ParseError(i) # "NONE" /\ Refuse(h, i)
           \/ /\ ~(report /\ ParseError(i) # "NONE")
              /\ Give(h, "none")
              /\ elf' = [elf EXCEPT ![h] = Fresh(i)]

\* elf_open()
elf_open(fd, raw, h) ==
  /\ closing = NULL
  /\ \/ version = "NONE" /\ Fail("SEQUENCE")
     \/ version # "NONE" /\ OpenFails(fd, "READ")
     \/ version # "NONE" /\ OpenObject(fd, "READ", FALSE, raw, h)

\* Mutant: the member is not counted.
AdoptUncounted(a, h, e) == elf' = [elf EXCEPT ![h] = e]

\* Descriptor e at h becomes a member of archive a.
Adopt(a, h, e) == elf' = [elf EXCEPT ![h] = e, ![a].nchildren = @ + 1]

\* _libelf_ar_open_member(): the member e_next points at becomes descriptor
\* h.  e_next itself only moves with elf_next() and elf_rand().
OpenMember(a, h) ==
  LET n == elf[a].next
      i == Members[elf[a].img][n]
      e == [Fresh(i) EXCEPT !.fd = elf[a].fd, !.parent = a, !.pos = n]
  IN  \/ n = 0 /\ UNCHANGED vars
      \/ n # 0 /\ Shape[i] = "badheader" /\ Fail("ARCHIVE")
      \/ n # 0 /\ Shape[i] = "empty" /\ Fail("ARGUMENT")
      \/ n # 0 /\ Shape[i] \notin {"badheader", "empty"} /\ Fail("RESOURCE")
      \/ n # 0 /\ ParseError(i) # "NONE" /\ Refuse(h, i)
      \/ /\ n # 0 /\ ParseError(i) = "NONE"
         /\ Shape[i] \notin {"badheader", "empty"}
         /\ Give(h, "none")
         /\ Adopt(a, h, e)

\* elf_begin() with a null descriptor, and with ELF_C_WRITE, which ignores
\* the descriptor argument.
elf_begin(fd, c, raw, h) ==
  /\ closing = NULL
  /\ \/ version = "NONE" /\ Fail("SEQUENCE")
     \/ version # "NONE" /\ c = "NULL" /\ UNCHANGED vars
     \/ version # "NONE" /\ c = "OTHER" /\ Fail("ARGUMENT")
     \/ version # "NONE" /\ c \in {"READ", "RDWR", "WRITE"} /\ OpenFails(fd, c)
     \/ version # "NONE" /\ c = "WRITE" /\ OpenWrite(fd, h)
     \/ /\ version # "NONE" /\ c \in {"READ", "RDWR"}
        /\ OpenObject(fd, c, TRUE, raw, h)

\* Mutant: the activation is not counted.
ActivateUncounted(a) ==
  /\ elf[a].acts < MaxActs
  /\ held[a] < MaxActs
  /\ held' = [held EXCEPT ![a] = @ + 1]
  /\ UNCHANGED <<version, err, elf, heap, closing>>

\* One more activation of a.
Activate(a) ==
  /\ elf[a].acts < MaxActs
  /\ elf' = [elf EXCEPT ![a].acts = @ + 1]
  /\ held' = [held EXCEPT ![a] = @ + 1]
  /\ UNCHANGED <<version, err, heap, closing>>

\* elf_begin() on an open descriptor a.
elf_begin_again(fd, c, a, h) ==
  /\ closing = NULL
  /\ Valid(a) /\ version # "NONE"
  /\ \/ c = "RDWR" /\ Fail("ARGUMENT")
     \/ /\ c = "READ"
        /\ (elf[a].fd # NoFd /\ elf[a].fd # fd) \/ elf[a].cmd # c
        /\ Fail("ARGUMENT")
     \/ /\ c = "READ" /\ elf[a].cmd = c /\ elf[a].fd \in {NoFd, fd}
        /\ \/ elf[a].kind = "AR" /\ OpenMember(a, h)
           \/ elf[a].kind # "AR" /\ Activate(a)

-----------------------------------------------------------------------------
(* Closing.                                                                *)

\* Mutant: the descriptor goes whatever its activations.
LastActivationAny(h) == elf[h].acts >= 1

LastActivation(h) == elf[h].acts = 1

\* elf_end(): the activation count; at zero, the reclaiming loop starts.
elf_end(h) ==
  /\ closing = NULL
  /\ Valid(h)
  /\ elf' = [elf EXCEPT ![h].acts = @ - 1]
  /\ held' = [held EXCEPT ![h] = @ - 1]
  /\ closing' = IF LastActivation(h) THEN h ELSE NULL
  /\ UNCHANGED <<version, err, heap>>

\* Mutant: the symbol table is kept.
ReleasedButSymtab(h) ==
  {<<"elf", h>>, <<"arhdr", h>>}
    \cup (IF elf[h].raw = "none" THEN {} ELSE {<<"raw", h>>})

\* What one turn of the loop frees: the image if the flags say the library
\* owns it, and the blocks _libelf_release_elf() frees for this kind.
ReleasedBlocks(h) ==
  {<<"elf", h>>}
    \cup (IF elf[h].raw = "none" THEN {} ELSE {<<"raw", h>>})
    \cup (CASE elf[h].kind = "AR"  -> {<<"symtab", h>>}
            [] elf[h].kind = "ELF" -> {<<"arhdr", h>>}
            [] OTHER               -> {})

\* Mutant: an archive does not wait for its members.
NoOpenMembers(h) == FALSE

HasOpenMembers(h) == elf[h].kind = "AR" /\ elf[h].nchildren > 0

\* Mutant: the enclosing archive is never looked at.
AfterReleaseNever(p) == NULL

\* What the loop looks at after a member of p is gone.
AfterRelease(p) == IF p # NULL /\ elf[p].acts = 0 THEN p ELSE NULL

\* Mutant: the loop goes round instead of returning.
EndSpins == closing # NULL /\ UNCHANGED vars

\* One turn of the loop of elf_end(): an archive with open members is left
\* for later, any other descriptor goes and its parent is looked at next.
EndDeferred ==
  /\ closing # NULL
  /\ HasOpenMembers(closing)
  /\ closing' = NULL
  /\ UNCHANGED <<version, err, elf, heap, held>>

EndRelease ==
  LET h == closing
      p == elf[h].parent
  IN  /\ h # NULL
      /\ ~HasOpenMembers(h)
      /\ heap' = heap \ ReleasedBlocks(h)
      /\ elf' = IF p = NULL
                THEN [elf EXCEPT ![h] = Freed]
                ELSE [elf EXCEPT ![h] = Freed, ![p].nchildren = @ - 1]
      /\ closing' = AfterRelease(p)
      /\ UNCHANGED <<version, err, held>>

-----------------------------------------------------------------------------
(* Moving in an archive, and what descriptors cache of one.                *)

\* elf_next(): the archive's e_next moves past this member.
elf_next(h) ==
  LET p == elf[h].parent
  IN  /\ closing = NULL
      /\ Valid(h)
      /\ \/ p = NULL /\ Fail("ARGUMENT")
         \/ /\ p # NULL
            /\ elf' = [elf EXCEPT ![p].next =
                         IF elf[h].pos = Len(Members[elf[p].img])
                         THEN 0 ELSE elf[h].pos + 1]
            /\ UNCHANGED <<version, err, heap, held, closing>>

\* elf_rand(): an offset outside the archive, one that is not at a header,
\* or the header of member n.
elf_rand(h, n) ==
  /\ closing = NULL
  /\ Valid(h)
  /\ \/ Fail("ARGUMENT")
     \/ elf[h].kind = "AR" /\ Fail("ARCHIVE")
     \/ /\ elf[h].kind = "AR" /\ n \in 1 .. Len(Members[elf[h].img])
        /\ elf' = [elf EXCEPT ![h].next = n]
        /\ UNCHANGED <<version, err, heap, held, closing>>

\* elf_cntl()
elf_cntl(h, c) ==
  /\ closing = NULL
  /\ Valid(h)
  /\ \/ c = "OTHER" /\ Fail("ARGUMENT")
     \/ c # "OTHER" /\ elf[h].parent # NULL /\ Fail("ARCHIVE")
     \/ /\ c = "FDREAD" /\ elf[h].parent = NULL
        /\ \/ elf[h].cmd = "WRITE" /\ Fail("MODE")
           \/ elf[h].cmd # "WRITE" /\ UNCHANGED vars
     \/ /\ c = "FDDONE" /\ elf[h].parent = NULL
        /\ elf' = [elf EXCEPT ![h].fd = NoFd]
        /\ UNCHANGED <<version, err, heap, held, closing>>

\* elf_getarhdr(): the translated header is kept in the descriptor, and
\* LIBELF_F_AR_HEADER says so.  A name that cannot be translated fails with
\* ELF_E_ARCHIVE, a malformed number fails and sets no error.
elf_getarhdr(h) ==
  /\ closing = NULL
  /\ Valid(h)
  /\ \/ <<"arhdr", h>> \in heap /\ UNCHANGED vars
     \/ /\ <<"arhdr", h>> \notin heap
        /\ \/ elf[h].parent = NULL /\ Fail("ARGUMENT")
           \/ elf[h].parent # NULL /\ Fail("RESOURCE")
           \/ elf[h].parent # NULL /\ Fail("ARCHIVE")
           \/ elf[h].parent # NULL /\ UNCHANGED vars
           \/ /\ elf[h].parent # NULL
              /\ heap' = heap \cup {<<"arhdr", h>>}
              /\ UNCHANGED <<version, err, elf, held, closing>>

\* elf_getarsym(): the processed symbol table is kept in the descriptor.
elf_getarsym(h) ==
  /\ closing = NULL
  /\ Valid(h)
  /\ \/ elf[h].kind # "AR" /\ Fail("ARGUMENT")
     \/ elf[h].kind = "AR" /\ <<"symtab", h>> \in heap /\ UNCHANGED vars
     \/ /\ elf[h].kind = "AR" /\ <<"symtab", h>> \notin heap
        /\ \/ Symtab[elf[h].img] # "good" /\ Fail("ARCHIVE")
           \/ Symtab[elf[h].img] # "absent" /\ Fail("RESOURCE")
           \/ /\ Symtab[elf[h].img] = "good"
              /\ heap' = heap \cup {<<"symtab", h>>}
              /\ UNCHANGED <<version, err, elf, held, closing>>

-----------------------------------------------------------------------------
Next ==
  \/ \E v \in {"NONE", "CURRENT", "UNKNOWN"} : elf_version(v)
  \/ elf_errno
  \/ \E fd \in Fd, c \in {"NULL", "READ", "RDWR", "WRITE", "OTHER"},
        raw \in {"malloc", "mmap"}, h \in Handle : elf_begin(fd, c, raw, h)
  \/ \E fd \in Fd, c \in {"READ", "RDWR"}, a, h \in Handle :
        elf_begin_again(fd, c, a, h)
  \/ \E fd \in Fd, raw \in {"malloc", "mmap"}, h \in Handle :
        elf_open(fd, raw, h)
  \/ \E i \in Buffer, report \in BOOLEAN, h \in Handle :
        elf_memory(i, report, h)
  \/ \E h \in Handle : elf_end(h)
  \/ EndDeferred
  \/ EndRelease
  \/ \E h \in Handle : elf_next(h)
  \/ \E h \in Handle, i \in Image :
        \E n \in 1 .. Len(Members[i]) : elf_rand(h, n)
  \/ \E h \in Handle, c \in {"FDDONE", "FDREAD", "OTHER"} : elf_cntl(h, c)
  \/ \E h \in Handle : elf_getarhdr(h)
  \/ \E h \in Handle : elf_getarsym(h)

\* A call that has started returns: the loop of elf_end() is never left in
\* the middle.  Nothing is assumed of the application.
Fairness == WF_vars(EndDeferred) /\ WF_vars(EndRelease)

Spec == Init /\ [][Next]_vars /\ Fairness
-----------------------------------------------------------------------------
(* Properties.                                                             *)

\* A member's bytes lie in its archive's image (e_rawfile of the member
\* points into e_rawfile of the archive).  As long as a member is allocated,
\* its archive is too, and so is the image the archive owns: closing an
\* archive before its members, in any order and at any nesting, frees
\* nothing a member still points at (elf_end()).
MemberSafe ==
  \A h \in Handle : Alive(h) /\ elf[h].parent # NULL =>
    \E p \in Handle : /\ p = elf[h].parent
                      /\ Alive(p) /\ elf[p].kind = "AR"
                      /\ elf[p].raw # "none" => <<"raw", p>> \in heap

\* e_nchildren, which elf_end() trusts to decide whether an archive may go,
\* is the number of members that are really allocated.
ChildCount ==
  \A p \in Handle : Alive(p) => elf[p].nchildren = Cardinality(Children(p))

\* A descriptor the application may still pass is allocated, and has exactly
\* as many activations as the application has pending calls of elf_end().
HandlesLive ==
  \A h \in Handle : held[h] > 0 => Alive(h) /\ elf[h].acts = held[h]

\* Outside elf_end(), a descriptor with no activations is allocated only
\* because a member of it is: deferred reclamation is never forgotten.
Reclaimed ==
  \A h \in Handle :
    Alive(h) /\ h # closing =>
      elf[h].acts > 0 \/ (elf[h].kind = "AR" /\ elf[h].nchildren > 0)

\* The loop of elf_end() only ever looks at an allocated descriptor with no
\* activations left (it follows e_parent after freeing the child).
LoopSafe == closing # NULL => Alive(closing) /\ elf[closing].acts = 0

\* When elf_end() gives a descriptor up, the image it owned and the symbol
\* table it cached go with it, and no other descriptor's blocks do.
ReleaseExact ==
  [][\A h \in Handle :
       Alive(h) /\ ~Alive(h)' =>
         /\ <<"raw", h>> \notin heap' /\ <<"symtab", h>> \notin heap'
         /\ \A b \in heap \ heap' : b[2] = h]_vars

\* Lifetime speaks of the descriptors the application was given, not of one
\* that was leaked with a refused image.
Known(h) == Alive(h) /\ elf[h].acts = held[h]
Promise == INSTANCE Lifetime WITH
  alive  <- {h \in Handle : Known(h)},
  held   <- held,
  parent <- [h \in Handle |-> elf[h].parent]

\* Descriptors live as Lifetime promises: e_activations, e_nchildren and the
\* loop of elf_end() implement it, errors and leaks on the way included.
Lives == Promise!Spec

\* Once members are given up with elf_end() the walk of the archives that
\* enclose them comes to an end: elf_end() returns.
EndReturns == closing # NULL ~> closing = NULL
=============================================================================

------------------------------ MODULE ElfObject ------------------------------
(***************************************************************************)
(* One descriptor of an ELF object: its header, program headers, sections  *)
(* and data as the library caches and edits them, the layout elf_update()  *)
(* computes and the file it writes.                                        *)
(*                                                                         *)
(* A file is a sequence of cells, a cell being the smallest object that    *)
(* can be placed.  A cell <<form, value>> of data has the form "byte" or,  *)
(* for a part of an object of several bytes, the byte order of the object. *)
(* The executable header takes EhdrSize cells, an entry of a header table  *)
(* one.  Header records are kept beside the cells, by their offsets.       *)
(*                                                                         *)
(* A call is one step.  Helpers map a descriptor to an outcome [e, err],   *)
(* where err is "NONE", an ELF_E_* code, or a fatal end: a failed assert() *)
(* or a memory error, after which nothing more is modelled.  Memory        *)
(* exhaustion is left out here, and so are special files.                  *)
(***************************************************************************)
EXTENDS ExtentList

CONSTANTS
  NULL,        \* the null pointer
  Programs,    \* what applications do, by name: the fields of may below
  LORESERVE,   \* SHN_LORESERVE
  XNUM         \* PN_XNUM and SHN_XINDEX

ASSUME NumberingAssumption ==
  LORESERVE \in Nat /\ XNUM \in Nat /\ 0 < LORESERVE /\ LORESERVE <= XNUM

VARIABLES
  program,  \* the application, which stays the same
  e,        \* the descriptor
  file,     \* the file it was opened on
  result,   \* the last call: [op, arg, err]
  writes    \* how many times the file was written

vars == <<program, e, file, result, writes>>

\* What the application does:
\*   calls   the calls it makes
\*   opened  how it opens the object: [cmd, mem, file]
\*   class   the classes it gives to gelf_newehdr()
\*   ehdr, shdr, data    the fields it sets in the executable header, in a
\*           section header, in a data descriptor
\*   strndx  the indices it gives to elf_setshstrndx()
\*   layout  the values it gives ELF_F_LAYOUT
\*   io      what can happen to the system calls of elf_update()
\*   scns, datas, phdrs, writes    the bounds on its sections, the data
\*           descriptors of each, its program headers and its writes
may == Programs[program]

EhdrSize == 2      \* in cells
TabAlign == 2      \* the alignment of a header table in the file
Fill == <<"fill", "">>
Junk == <<"junk", "">>     \* memory malloc() returned and nobody wrote

\* Ends a call does not return from, or after which memory is undefined;
\* "junk" is bytes nobody wrote as a header being taken for one.
Fatal == {"assert e_scn", "assert e_nscn", "assert fsz", "assert ec",
          "assert elftype", "assert d_buf", "assert phoff", "assert shoff",
          "assert sh_off", "assert nrc",
          "SIGSEGV", "SIGFPE", "overrun", "junk"}

\* A new Elf_Scn, a new executable header, and what elf_newdata() returns.
NoShdr == [type |-> "NULL", off |-> 0, size |-> 0, align |-> 0,
           link |-> 0, info |-> 0]
NewEhdr == [phoff |-> 0, shoff |-> 0, phnum |-> 0, shnum |-> 0,
            shstrndx |-> 0, shentsize |-> 0, data |-> "NONE",
            version |-> "CURRENT", class |-> "same"]
NewData == [type |-> "BYTE", version |-> "CURRENT", size |-> 0, align |-> 1,
            off |-> Word - 1, buf |-> NULL]

\* An Elf_Scn at its place in the list, which is s_ndx + 1.  soff and ssize
\* are s_offset and s_size, rawoff where the content is in the file read.
Scn(sh) == [sh |-> sh, soff |-> sh.off, ssize |-> sh.size,
            rawoff |-> sh.off, dirty |-> FALSE, data |-> <<>>, raw |-> <<>>]

Empty == [ehdr |-> NewEhdr, phtab |-> <<>>, shtab |-> <<>>, bytes |-> <<>>]

\* The records above, and what is well formed: a data descriptor has a
\* buffer of its size, or none yet.
Cell == ({"byte", "reversed", "LSB", "MSB", "header"} \X STRING)
        \cup ({"fill", "junk", "ehdr", "phdr", "shdr"} \X {""})
Shdr == [type: {"NULL", "PROGBITS", "SYMTAB", "NOBITS", "UNKNOWN"},
         off: Nat, size: Nat, align: Nat, link: Nat, info: Nat]
Header == [phoff: Nat, shoff: Nat, phnum: Nat, shnum: Nat, shstrndx: Nat,
           shentsize: Nat, data: {"NONE", "LSB", "MSB"},
           version: {"CURRENT", "OTHER"}, class: {"same", "other"}]
Data == {d \in [type: {"BYTE", "SYM", "BAD", "INVALID"},
                version: {"CURRENT", "OTHER"}, size: Nat, align: Nat,
                off: Nat, buf: Seq(Cell) \cup {NULL}] :
           d.buf # NULL => Len(d.buf) = d.size}
Section == [sh: Shdr, soff: Nat, ssize: Nat, rawoff: Nat, dirty: BOOLEAN,
            data: Seq(Data), raw: Seq([size: Nat, null: BOOLEAN])]
IsFile(f) == /\ f.ehdr \in Header /\ f.bytes \in Seq(Cell)
             /\ \A o \in DOMAIN f.shtab : f.shtab[o] \in Shdr

\* Record d after the application has set the fields of x in it.
Changed(d, x) == [k \in DOMAIN d |-> IF k \in DOMAIN x THEN x[k] ELSE d[k]]

\* What applications do keeps records well formed.  One that sets a buffer
\* sets its size, and the other way round.
ASSUME ProgramsAssumption ==
  /\ NULL \notin Header
  /\ \A p \in DOMAIN Programs :
       /\ \A o \in Programs[p].opened :
            /\ o.cmd \in {"READ", "RDWR", "WRITE"}
            /\ o.mem \in {"none", "malloc", "mmap"}
            /\ IsFile(o.file)
       /\ Programs[p].class \subseteq {"32", "64"}
       /\ \A x \in Programs[p].ehdr : Changed(NewEhdr, x) \in Header
       /\ \A x \in Programs[p].shdr : Changed(NoShdr, x) \in Shdr
       /\ \A x \in Programs[p].data :
            /\ Changed(NewData, x) \in Data
            /\ "buf" \in DOMAIN x <=> "size" \in DOMAIN x
       /\ Programs[p].strndx \subseteq Nat
       /\ Programs[p].layout \subseteq BOOLEAN
       /\ Programs[p].io \subseteq {"ok", "ftruncate", "write", "mmap"}
       /\ Programs[p].scns \in Nat /\ Programs[p].phdrs \in Nat
       /\ Programs[p].datas \in Nat /\ Programs[p].writes \in Nat

\* elf_begin(): the descriptor of file image f.
Open(cmd, mem, f) ==
  [cmd |-> cmd, fd |-> TRUE, mem |-> mem,
   raw |-> IF cmd = "WRITE" THEN NULL ELSE f,
   class |-> IF cmd = "WRITE" THEN "NONE" ELSE "64",
   order |-> IF cmd = "WRITE" THEN "LSB" ELSE f.ehdr.data,
   ehdr |-> NULL, phdr |-> NULL, nphdr |-> 0, nscn |-> 0, strndx |-> 0,
   scns |-> <<>>, loaded |-> FALSE, layout |-> FALSE]

Init ==
  /\ program \in DOMAIN Programs
  /\ \E o \in may.opened : e = Open(o.cmd, o.mem, o.file) /\ file = o.file
  /\ result = [op |-> "elf_begin", arg |-> 0, err |-> "NONE"]
  /\ writes = 0

-----------------------------------------------------------------------------
(* Outcomes.                                                               *)

Ok(d) == [e |-> d, err |-> "NONE"]
Fail(d, code) == [e |-> d, err |-> code]
Then(r, Op(_)) == IF r.err = "NONE" THEN Op(r.e) ELSE r

\* The first condition of a list of <<condition, code>> that holds.
FirstError(checks) ==
  LET failed == {k \in DOMAIN checks : checks[k][1]}
  IN  IF failed = {} THEN "NONE"
      ELSE checks[CHOOSE k \in failed : \A j \in failed : k <= j][2]

\* Mutant: offsets are not brought to their alignment.
Unaligned(n, a) == n

\* The macro roundup().
Roundup(n, a) == ((n + a - 1) \div a) * a
PowersOf2 == {1, 2, 4, 8, 16}

\* _libelf_xlate_shtype(), _libelf_fsize() of one object, _libelf_falign().
XlateShtype(t) == CASE t \in {"PROGBITS", "NOBITS"} -> "BYTE"
                    [] t = "SYMTAB" -> "SYM"
                    [] OTHER -> "INVALID"
Fsize(t) == IF t = "SYM" THEN 2 ELSE 1
Falign(t) == CASE t = "SYM" -> 2 [] t = "BYTE" -> 1 [] OTHER -> 0

\* e_rawfile points at memory that is no longer there, or is MAP_FAILED.
Lost(d) == d.mem \in {"gone", "failed"}

RawSize(d) == IF d.raw = NULL THEN 0 ELSE Len(d.raw.bytes)

\* What swapping the bytes of an object does to the form of its cells.
Swap(form) == CASE form = "LSB" -> "MSB" [] form = "MSB" -> "LSB"
                [] form = "byte" -> "reversed" [] form = "reversed" -> "byte"
                [] OTHER -> form
\* Mutant: nothing is swapped.
XlateNever(t, order, cells) == cells

\* The translators of libelf_convert.m4, to memory and to a file: objects of
\* several bytes are swapped when the file is not in the order of the host,
\* which is "LSB".
Xlate(t, order, cells) ==
  IF t = "BYTE" \/ order # "MSB" THEN cells
  ELSE [k \in DOMAIN cells |-> <<Swap(cells[k][1]), cells[k][2]>>]

-----------------------------------------------------------------------------
(* Reading the headers in.                                                 *)

\* _libelf_load_extended(): the counts are in section header 0, which
\* becomes a section of the descriptor, even when it is refused.
LoadExtended(d) ==
  LET h == d.ehdr
      sh == d.raw.shtab[h.shoff]
      d1 == [d EXCEPT !.scns = <<[Scn(NoShdr) EXCEPT !.sh = sh]>>]
  IN  IF d.scns # <<>> THEN Fail(d, "assert e_scn")
      ELSE IF RawSize(d) < h.shoff + 1 THEN Fail(d, "HEADER")
      ELSE IF h.shoff \notin DOMAIN d.raw.shtab THEN Fail(d, "junk")
      ELSE IF sh.type # "NULL" THEN Fail(d1, "SECTION")
      ELSE Ok([d1 EXCEPT
             !.nscn = sh.size,
             !.nphdr = IF h.phnum # XNUM THEN h.phnum ELSE sh.info,
             !.strndx = IF h.shstrndx # XNUM THEN h.shstrndx ELSE sh.link])

\* _libelf_ehdr(): the header is translated once.  It stays cached when the
\* checks refuse it.
Ehdr(d) ==
  LET h == d.raw.ehdr
      d1 == [d EXCEPT !.ehdr = h]
  IN  IF d.ehdr # NULL THEN Ok(d)
      ELSE IF d.cmd = "WRITE" THEN Ok([d EXCEPT !.ehdr = NewEhdr])
      ELSE IF RawSize(d) < EhdrSize THEN Fail(d, "HEADER")
      ELSE IF Lost(d) THEN Fail(d, "SIGSEGV")
      ELSE IF \/ h.shnum >= LORESERVE
              \/ /\ h.shoff = 0
                 /\ h.shnum # 0 \/ h.phnum = XNUM \/ h.shstrndx = XNUM
           THEN Fail(d1, "HEADER")
      ELSE IF \/ h.shnum = 0 /\ h.shoff # 0
              \/ h.phnum = XNUM \/ h.shstrndx = XNUM
           THEN LoadExtended(d1)
      ELSE Ok([d1 EXCEPT !.nphdr = h.phnum, !.nscn = h.shnum,
                         !.strndx = h.shstrndx])

\* _libelf_load_section_headers(): section 0 may be there already.
LoadSections(d) ==
  LET h == d.ehdr
      more == [i \in 1 .. d.nscn |-> Scn(d.raw.shtab[h.shoff + i - 1])]
  IN  IF \/ h.shoff > RawSize(d) \/ h.shentsize # 1
         \/ d.nscn > RawSize(d) - h.shoff
      THEN Fail(d, "HEADER")
      ELSE IF Len(d.scns) > 1 THEN Fail(d, "assert e_scn")
      ELSE IF Lost(d) /\ d.nscn > Len(d.scns) THEN Fail(d, "SIGSEGV")
      ELSE IF \E i \in Len(d.scns) + 1 .. d.nscn :
                h.shoff + i - 1 \notin DOMAIN d.raw.shtab
           THEN Fail(d, "junk")
      ELSE Ok([d EXCEPT !.loaded = TRUE,
                 !.scns = @ \o SubSeq(more, Len(@) + 1, d.nscn)])

Sections(d) ==
  IF d.cmd = "WRITE" \/ d.loaded THEN Ok(d) ELSE LoadSections(d)

\* _libelf_getphdr()
Phdrs(d0) ==
  Then(IF d0.phdr # NULL THEN Ok(d0) ELSE Ehdr(d0), LAMBDA d :
    IF d.phdr # NULL THEN Ok(d)
    ELSE IF d.nphdr = 0 THEN Fail(d, "assert fsz")
    ELSE IF RawSize(d) < d.ehdr.phoff + d.nphdr THEN Fail(d, "HEADER")
    ELSE IF Lost(d) THEN Fail(d, "SIGSEGV")
    ELSE IF \E i \in 1 .. d.nphdr : d.ehdr.phoff + i - 1 \notin DOMAIN d.raw.phtab
         THEN Fail(d, "junk")
    ELSE Ok([d EXCEPT !.phdr =
           [i \in 1 .. d.nphdr |-> d.raw.phtab[d.ehdr.phoff + i - 1]]]))

-----------------------------------------------------------------------------
(* Section data.  i is the place of the section in the list.               *)

\* The range of the section header lies inside the file that was read.
InRaw(d, sh) ==
  sh.type = "NOBITS" \/ (sh.off <= RawSize(d) /\ sh.size <= RawSize(d) - sh.off)

\* elf_getdata(s, NULL)
GetData(d, i) ==
  LET s == d.scns[i]
      t == XlateShtype(s.sh.type)
      none == s.sh.type = "NOBITS" \/ s.sh.size = 0
      new == [type |-> t, version |-> "CURRENT", size |-> s.sh.size,
              align |-> s.sh.align, off |-> 0, buf |->
                IF none THEN NULL
                ELSE Xlate(t, d.order,
                       SubSeq(d.raw.bytes, s.sh.off + 1, s.sh.off + s.sh.size))]
  IN  IF s.data # <<>> THEN Ok(d)
      ELSE IF d.raw = NULL THEN Fail(d, "ARGUMENT")
      ELSE IF t = "INVALID" \/ ~InRaw(d, s.sh) \/ s.sh.size % Fsize(t) # 0
           THEN Fail(d, "SECTION")
      ELSE IF ~none /\ Lost(d) THEN Fail(d, "SIGSEGV")
      ELSE Ok([d EXCEPT !.scns[i].data = <<new>>])

\* elf_rawdata(s, NULL): the descriptor points into the file that was read.
RawData(d, i) ==
  LET s == d.scns[i]
      null == s.sh.type = "NOBITS" \/ s.sh.size = 0
  IN  IF d.raw = NULL THEN Fail(d, "ARGUMENT")
      ELSE IF s.raw # <<>> THEN Ok(d)
      ELSE IF s.sh.type = "NULL" \/ ~InRaw(d, s.sh) THEN Fail(d, "SECTION")
      ELSE Ok([d EXCEPT !.scns[i].raw = <<[size |-> s.sh.size, null |-> null]>>])

-----------------------------------------------------------------------------
(* elf_update(): the layout.  An outcome also has rc, the size so far, and *)
(* ext, the list of extents.                                               *)

\* _libelf_insert_extent()
AddExtent(r, type, start, size, scn) ==
  LET x == [type |-> type, start |-> start, size |-> size, scn |-> scn]
      k == CHOOSE n \in 0 .. Len(r.ext) : StopsAt(r.ext, start, n)
  IN  IF IsUnused(r.ext, x, k) THEN [r EXCEPT !.ext = InsertAfter(@, k, x)]
      ELSE [r EXCEPT !.err = "LAYOUT"]

\* The checks on one data descriptor.
DataError(d, layout) ==
  FirstError(<< <<d.type \notin {"BYTE", "SYM"}, "DATA">>,
                <<d.version # "CURRENT", "VERSION">>,
                <<d.align \notin PowersOf2, "DATA">>,
                <<d.size % Fsize(d.type) # 0, "DATA">>,
                <<layout /\ d.align > 0 /\ d.off % d.align # 0, "LAYOUT">> >>)

\* The loop over the data descriptors of a section: they are checked, the
\* library lays them out one after the other, and the size and alignment
\* of the section come out.
MeasureOne(m, d, layout) ==
  LET code == DataError(d, layout)
      off == IF layout THEN d.off ELSE Roundup(m.size, d.align)
      end == (off + d.size) % Word
  IN  IF m.err # "NONE" THEN [m EXCEPT !.data = Append(@, d)]
      ELSE IF code # "NONE" THEN [m EXCEPT !.err = code, !.data = Append(@, d)]
      ELSE [err |-> "NONE",
            size |-> IF end > m.size \/ ~layout THEN end ELSE m.size,
            align |-> IF d.align > m.align THEN d.align ELSE m.align,
            data |-> Append(m.data, [d EXCEPT !.off = off])]
Measure(data, layout) ==
  LET m[j \in 0 .. Len(data)] ==
        IF j = 0 THEN [err |-> "NONE", size |-> 0, align |-> 0, data |-> <<>>]
        ELSE MeasureOne(m[j - 1], data[j], layout)
  IN  m[Len(data)]

\* Mutant: the size computed is added to the one from the time before.
PlaceGrowing(d, i, sh) ==
  Ok([d EXCEPT !.scns[i].sh = [sh EXCEPT !.size = @ + d.scns[i].sh.size],
               !.scns[i].soff = sh.off, !.scns[i].ssize = sh.size + d.scns[i].sh.size])

\* Mutant: s_offset and s_size keep their old values.
PlaceStale(d, i, sh) == Ok([d EXCEPT !.scns[i].sh = sh])

\* The header of a section and its descriptor after the computation.
Place(d, i, sh) ==
  Ok([d EXCEPT !.scns[i].sh = sh, !.scns[i].soff = sh.off,
               !.scns[i].ssize = sh.size])

\* The end of _libelf_compute_section_extents(), with m measured of the data
\* of section i; keep is a section that is not loaded and not dirty.  An
\* unknown section type gets past the test (elftype > ELF_T_LAST), as it is
\* translated to -1.
SetSection(d, i, rc, keep, m) ==
  LET s == d.scns[i]
      falign == Falign(XlateShtype(s.sh.type))
      align == IF s.sh.align = 0 THEN falign ELSE s.sh.align
      sh == IF keep THEN [s.sh EXCEPT !.align = align]
            ELSE [s.sh EXCEPT !.size = m.size, !.align =
                    IF m.align > align THEN m.align ELSE align]
      sane == FirstError(<<
        <<m.align > align, "LAYOUT">>,
        <<align = 0, "SIGFPE">>,
        <<align > 0 /\ s.sh.off % align # 0, "LAYOUT">>,
        <<s.sh.size < m.size, "LAYOUT">>,
        <<falign = 0, "SIGFPE">>,
        <<falign > 0 /\ s.sh.off % falign # 0, "LAYOUT">> >>)
      d1 == [d EXCEPT !.scns[i].data = m.data]
  IN  IF m.err # "NONE" THEN Fail(d1, m.err)
      ELSE IF d.layout /\ ~keep /\ sane # "NONE" THEN Fail(d1, sane)
      ELSE IF d.layout THEN Place(d1, i, s.sh)
      ELSE IF sh.align = 0 THEN Fail(d1, "SIGFPE")
      ELSE Place(d1, i, [sh EXCEPT !.off = Roundup(rc, sh.align)])

\* _libelf_compute_section_extents()
ComputeSection(d0, i, rc) ==
  LET keep == d0.scns[i].data = <<>> /\ ~d0.scns[i].dirty
      load == d0.scns[i].data = <<>> /\ ~keep /\ d0.cmd # "WRITE"
  IN  Then(IF load THEN GetData(d0, i) ELSE Ok(d0), LAMBDA d :
        SetSection(d, i, rc, keep, Measure(d.scns[i].data, d.layout)))

\* Section i, computed with outcome c, joins the layout unless it is empty.
AddSection(r, i, c) ==
  LET s == c.e.scns[i]
      end == (s.soff + s.ssize) % Word
      r1 == [r EXCEPT !.e = c.e, !.err = c.err]
  IN  IF c.err # "NONE" \/ s.ssize = 0 THEN r1
      ELSE [AddExtent(r1, "SECTION", s.soff, s.ssize, i) EXCEPT
              !.rc = IF @ < end THEN end ELSE @]

\* _libelf_resync_sections()
ResyncOne(r, i) ==
  IF r.err # "NONE" \/ r.e.scns[i].sh.type \in {"NOBITS", "NULL"} THEN r
  ELSE AddSection(r, i, ComputeSection(r.e, i, r.rc))
AddSections(r0) ==
  LET r[i \in 0 .. Len(r0.e.scns)] ==
        IF i = 0 THEN r0 ELSE ResyncOne(r[i - 1], i)
  IN  r[Len(r0.e.scns)]

\* Mutant: section header 0 is left alone.
SetCountShort(d, field, limit, sfield, n, escape) ==
  [d EXCEPT !.ehdr[field] = IF n < limit THEN n ELSE escape]

\* _libelf_setphnum(), _libelf_setshnum(), _libelf_setshstrndx(): a number
\* too large for the executable header goes into section header 0, which
\* _libelf_getscn0() makes if there is none.
SetCount(d, field, limit, sfield, n, escape) ==
  LET d1 == IF d.scns = <<>> THEN [d EXCEPT !.scns = <<Scn(NoShdr)>>] ELSE d
  IN  IF n < limit THEN [d EXCEPT !.ehdr[field] = n]
      ELSE [d1 EXCEPT !.ehdr[field] = escape, !.scns[1].sh[sfield] = n,
                      !.scns[1].dirty = TRUE]
SetPhnum(d, n) == SetCount(d, "phnum", XNUM, "info", n, XNUM)
SetShnum(d, n) == SetCount(d, "shnum", LORESERVE, "size", n, 0)
SetShstrndx(d, n) == SetCount(d, "shstrndx", LORESERVE, "link", n, XNUM)

\* The executable header of _libelf_resync_elf(): checked, made part of the
\* layout.
AddEhdr(d) ==
  LET h == d.ehdr
      code == FirstError(<< <<h.version = "OTHER", "VERSION">>,
                            <<h.class # "same", "CLASS">>,
                            <<d.cmd # "WRITE" /\ h.data # d.order, "HEADER">> >>)
      d1 == [d EXCEPT !.order = h.data, !.ehdr.shentsize = 1]
      r == [e |-> d1, err |-> "NONE", rc |-> EhdrSize, ext |-> <<>>]
  IN  IF code = "NONE" THEN AddExtent(r, "EHDR", 0, EhdrSize, 0)
      ELSE [e |-> d, err |-> code, rc |-> 0, ext |-> <<>>]

\* The program header table, read with outcome p.  That it cannot be read
\* is not noticed here.
AddPhdr(r, p) ==
  LET d == r.e
      off == IF d.layout THEN d.ehdr.phoff ELSE Roundup(r.rc, TabAlign)
  IN  IF r.err # "NONE" \/ d.nphdr = 0 THEN r
      ELSE IF d.layout /\ (r.rc > off \/ off % TabAlign # 0)
           THEN [r EXCEPT !.err = "LAYOUT"]
      ELSE IF p.err \in Fatal THEN [r EXCEPT !.err = p.err]
      ELSE AddExtent([r EXCEPT !.e = p.e, !.rc = off + d.nphdr],
                     "PHDR", off, d.nphdr, 0)

\* The section header table, after the sections.
AddShdr(r, shnum) ==
  LET off == IF r.e.layout THEN r.e.ehdr.shoff ELSE Roundup(r.rc, TabAlign)
      rc == IF off + shnum > r.rc THEN off + shnum ELSE r.rc
  IN  IF r.err # "NONE" \/ shnum = 0 THEN r
      ELSE IF r.e.layout /\ off % TabAlign # 0 THEN [r EXCEPT !.err = "LAYOUT"]
      ELSE AddExtent([r EXCEPT !.rc = rc], "SHDR", off, shnum, 0)

\* Where a table of the layout starts, 0 if there is none.
StartOf(r, type) ==
  LET at == {k \in DOMAIN r.ext : r.ext[k].type = type}
  IN  IF at = {} THEN 0 ELSE r.ext[CHOOSE k \in at : TRUE].start

\* The steps of _libelf_resync_elf(): the executable header h has been read,
\* the program header table has been added to r, sections are at hand in s,
\* everything has been added to r.
ResyncTables(r) == AddPhdr(r, Phdrs(r.e))
ResyncSections(r, s) == AddSections([r EXCEPT !.e = s.e, !.err = s.err])
ResyncCounts(r, nphdr, nscn) ==
  LET d == SetShnum(SetPhnum(r.e, nphdr), nscn)
  IN  IF r.err # "NONE" THEN r
      ELSE IF r.e.layout THEN [r EXCEPT !.e = d]
      ELSE [r EXCEPT !.e = [d EXCEPT !.ehdr.phoff = StartOf(r, "PHDR"),
                                     !.ehdr.shoff = StartOf(r, "SHDR")]]
ResyncBody(r, h) ==
  IF r.err # "NONE" THEN r
  ELSE ResyncCounts(AddShdr(ResyncSections(r, Sections(r.e)), h.nscn),
                    h.nphdr, h.nscn)
ResyncHeader(h) ==
  IF h.err # "NONE" THEN [e |-> h.e, err |-> h.err, rc |-> 0, ext |-> <<>>]
  ELSE ResyncBody(ResyncTables(AddEhdr(h.e)), h.e)

\* _libelf_resync_elf()
Resync(d) == ResyncHeader(Ehdr(d))

-----------------------------------------------------------------------------
(* elf_update(): the file.  The image is built in malloc()ed memory; an    *)
(* outcome has its cells and rc, the offset up to which they are written.  *)

Put(cells, off, new) ==
  [k \in DOMAIN cells |->
     IF k > off /\ k <= off + Len(new) THEN new[k - off] ELSE cells[k]]
Cells(n, c) == [k \in 1 .. n |-> c]

\* Cells new at offset off, with the gap since w.rc filled.
WriteAt(w, off, new) ==
  [w EXCEPT !.rc = off + Len(new),
     !.cells = Put(IF off > w.rc THEN Put(@, w.rc, Cells(off - w.rc, Fill))
                   ELSE @, off, new)]

\* Mutant: the content is taken from where the section will be.
NewOffset(s) == s.soff

\* Where the content of a section that was never read is copied from.
RawOffset(s) == s.rawoff

\* The data descriptors of section s, one after the other.
WriteOne(v, s, order, p) ==
  IF v.err # "NONE" THEN v
  ELSE IF p.buf = NULL THEN [v EXCEPT !.err = "assert d_buf"]
  ELSE WriteAt(v, s.soff + p.off, Xlate(p.type, order, p.buf))
WriteData(w, s, order) ==
  LET v[j \in 0 .. Len(s.data)] ==
        IF j = 0 THEN w ELSE WriteOne(v[j - 1], s, order, s.data[j])
  IN  v[Len(s.data)]

\* _libelf_write_scn()
WriteScn(w, x) ==
  LET d == w.e
      s == d.scns[x.scn]
      raw == RawData(d, x.scn)
      d1 == raw.e.scns[x.scn].raw[1]
      from == RawOffset(s)
      w1 == WriteAt(w, x.start, <<>>)
  IN  IF s.sh.size = 0 THEN w1
      ELSE IF XlateShtype(s.sh.type) = "INVALID"
           THEN [w EXCEPT !.err = "assert elftype"]
      ELSE IF s.soff % Falign(XlateShtype(s.sh.type)) # 0
           THEN [w EXCEPT !.err = "assert sh_off"]
      ELSE IF s.data = <<>>
      THEN IF raw.err # "NONE" THEN [w EXCEPT !.err = raw.err]
           ELSE IF d1.null THEN [w EXCEPT !.err = "assert d_buf"]
           ELSE IF Lost(d) \/ from + d1.size > RawSize(d)
                THEN [w EXCEPT !.err = "SIGSEGV"]
           ELSE [WriteAt(w1, x.start, SubSeq(d.raw.bytes, from + 1, from + d1.size))
                   EXCEPT !.e = raw.e]
      ELSE WriteData(w1, s, d.order)

\* _libelf_write_phdr(), with p the table it gets; _libelf_write_shdr(): the
\* entries of the sections in the list, each at its index.
WritePhdr(w, x, p) ==
  IF w.e.ehdr.phoff = 0 \/ w.e.ehdr.phoff # x.start \/ x.start % TabAlign # 0
  THEN [w EXCEPT !.err = "assert phoff"]
  ELSE IF p.err \in Fatal THEN [w EXCEPT !.err = p.err]
  ELSE IF p.err # "NONE" THEN [w EXCEPT !.err = "DATA"]
  ELSE [WriteAt(w, x.start, Cells(x.size, <<"phdr", "">>)) EXCEPT !.e = p.e]
WriteShdr(w, x) ==
  IF w.e.ehdr.shoff # x.start \/ x.start % TabAlign # 0
  THEN [w EXCEPT !.err = "assert shoff"]
  ELSE [WriteAt(w, x.start, Cells(Len(w.e.scns), <<"shdr", "">>))
          EXCEPT !.rc = x.start + w.e.nscn]

\* The assertions on the offset reached after extent x: v is w with it.
Reached(w, x, v) ==
  IF v.err = "NONE" /\ (v.rc # x.start + x.size \/ v.rc <= w.rc)
  THEN [v EXCEPT !.err = "assert nrc"] ELSE v

\* One extent.
WriteExtent(w, x) ==
  IF w.err # "NONE" THEN w
  ELSE Reached(w, x,
         CASE x.type = "EHDR" -> WriteAt(w, 0, Cells(EhdrSize, <<"ehdr", "">>))
           [] x.type = "PHDR" -> WritePhdr(w, x, Phdrs(w.e))
           [] x.type = "SECTION" -> WriteScn(w, x)
           [] x.type = "SHDR" -> WriteShdr(w, x))

\* The file with the cells of w and the headers of its descriptor.
ImageOf(w, ph, sh) ==
  [ehdr |-> w.e.ehdr, bytes |-> w.cells,
   phtab |-> [o \in ph .. ph + w.e.nphdr - 1 |-> w.e.phdr[o - ph + 1]],
   shtab |-> [o \in IF sh = 0 THEN {} ELSE sh .. sh + Len(w.e.scns) - 1 |->
                w.e.scns[o - sh + 1].sh]]

\* The image of _libelf_write_elf(), as [e, err, file]: w is what writing
\* the extents of r has given.
Assembled(r, w) ==
  LET code == IF w.err = "NONE" /\ w.rc # r.rc THEN "assert nrc" ELSE w.err
  IN  [e |-> w.e, err |-> code,
       file |-> IF code # "NONE" THEN Empty
                ELSE ImageOf(w, StartOf(r, "PHDR"), StartOf(r, "SHDR"))]
WriteExtents(r) ==
  LET w[k \in 0 .. Len(r.ext)] ==
        IF k = 0 THEN [e |-> r.e, err |-> "NONE", rc |-> 0, cells |-> Cells(r.rc, Junk)]
        ELSE WriteExtent(w[k - 1], r.ext[k])
  IN  w[Len(r.ext)]
Assemble(r) == Assembled(r, WriteExtents(r))

\* Mutant: sections and headers are released before the file is written.
CommitReleased(a, io) ==
  [e |-> [a.e EXCEPT !.scns = <<>>, !.ehdr = NULL, !.phdr = NULL],
   err |-> IF io = "ok" THEN "NONE" ELSE "IO",
   file |-> IF io = "ok" THEN a.file ELSE Empty]

\* The rest of _libelf_write_elf() for a regular file, as [e, err, file].
\* The old mapping goes before the new content is written ("write" is the
\* failure of munmap(), lseek() or write(), which end alike).  At the end
\* the sections and headers are released, but not their numbers, nor
\* LIBELF_F_SHDRS_LOADED.
Commit(a, io) ==
  LET mapped == a.e.mem \in {"mmap", "gone", "failed"}
      lost == IF a.e.mem = "mmap" THEN [a.e EXCEPT !.mem = "gone"] ELSE a.e
      junk == \E k \in DOMAIN a.file.bytes : a.file.bytes[k] = Junk
      done == [a.e EXCEPT !.raw = IF a.e.cmd = "RDWR" THEN a.file ELSE NULL,
                          !.mem = IF mapped THEN "mmap" ELSE @,
                          !.scns = <<>>, !.ehdr = NULL, !.phdr = NULL]
  IN  CASE io = "ftruncate" -> [e |-> a.e, err |-> "IO", file |-> file]
        [] io = "write" -> [e |-> lost, err |-> "IO", file |-> Empty]
        [] io = "mmap" -> [e |-> [a.e EXCEPT !.mem = "failed"], err |-> "IO",
                           file |-> a.file]
        [] io = "ok" -> [e |-> done, err |-> IF junk THEN "junk" ELSE "NONE",
                         file |-> a.file]

\* Which system calls can fail: mmap() only if it is called, and munmap()
\* always does for a mapping that was never made.
Possible(d, io) ==
  /\ io = "mmap" => d.mem \in {"mmap", "gone"}
  /\ d.mem = "failed" => io \in {"ftruncate", "write"}

-----------------------------------------------------------------------------
(* The calls.                                                              *)

\* The program is alive, and within the bound on writes.
Running == result.err \notin Fatal /\ writes < may.writes

Call(op, arg, r) ==
  /\ op \in may.calls
  /\ Running
  /\ e' = r.e
  /\ result' = [op |-> op, arg |-> arg, err |-> r.err]
  /\ UNCHANGED <<program, file, writes>>

HasScn(i) == i + 1 \in DOMAIN e.scns

gelf_newehdr(c) ==
  Call("gelf_newehdr", 0,
       IF e.class \notin {"NONE", c} THEN Fail(e, "CLASS")
       ELSE Ehdr([e EXCEPT !.class = c]))

\* gelf_getehdr(), the fields of x changed, gelf_update_ehdr()
gelf_update_ehdr(x) ==
  Call("gelf_update_ehdr", 0,
       IF e.class = "NONE" THEN Fail(e, "ARGUMENT")
       ELSE IF e.cmd = "READ" THEN Fail(e, "MODE")
       ELSE Then(Ehdr(e), LAMBDA d : Ok([d EXCEPT !.ehdr = Changed(@, x)])))

\* The new table of _libelf_newphdr().
NewTable(d, n) ==
  [d EXCEPT !.nphdr = n,
            !.phdr = IF n = 0 THEN NULL ELSE [i \in 1 .. n |-> "zero"]]

\* gelf_newphdr(): e_class is handed to _libelf_ehdr(), which asserts it.
\* elf_flagphdr() complains when there is no table left to flag.
gelf_newphdr(n) ==
  LET h == Ehdr(e)
  IN  Call("gelf_newphdr", n,
        IF e.class = "NONE" THEN Fail(e, "assert ec")
        ELSE IF h.err \in Fatal THEN h
        ELSE IF h.err # "NONE" THEN Fail(h.e, "SEQUENCE")
        ELSE Fail(NewTable(h.e, n), IF n = 0 THEN "SEQUENCE" ELSE "NONE"))

\* gelf_getphdr(), and elf64_getphdr(), which has no index to check.
gelf_getphdr(n) ==
  Call("gelf_getphdr", n,
       IF e.class = "NONE" THEN Fail(e, "ARGUMENT")
       ELSE LET h == Ehdr(e)
            IN  IF h.err \in Fatal THEN h
                ELSE IF h.err # "NONE" \/ n >= h.e.nphdr THEN Fail(h.e, "ARGUMENT")
                ELSE Phdrs(h.e))
elf64_getphdr ==
  Call("elf64_getphdr", 0,
       IF e.class = "NONE" THEN Fail(e, "assert fsz")
       ELSE IF e.class = "32" /\ e.phdr = NULL THEN Fail(e, "CLASS")
       ELSE Phdrs(e))

\* gelf_update_phdr(): the index is compared with > and the table is not
\* read in first.
gelf_update_phdr(n) ==
  Call("gelf_update_phdr", n,
       IF e.class = "NONE" THEN Fail(e, "ARGUMENT")
       ELSE LET h == Ehdr(e)
            IN  IF h.err \in Fatal THEN h
                ELSE IF h.err # "NONE" THEN Fail(h.e, "ARGUMENT")
                ELSE IF e.cmd = "READ" THEN Fail(h.e, "MODE")
                ELSE IF n > h.e.nphdr THEN Fail(h.e, "ARGUMENT")
                ELSE IF h.e.phdr = NULL THEN Fail(h.e, "SIGSEGV")
                ELSE IF n = h.e.nphdr THEN Fail(h.e, "overrun")
                ELSE Ok([h.e EXCEPT !.phdr[n + 1] = "set"]))

\* elf_getscn(), which elf_nextscn(e, NULL) calls
elf_getscn(i) ==
  Call("elf_getscn", i,
       IF e.class = "NONE" THEN Fail(e, "ARGUMENT")
       ELSE Then(Then(Ehdr(e), Sections), LAMBDA d :
              IF i + 1 \in DOMAIN d.scns THEN Ok(d) ELSE Fail(d, "ARGUMENT")))

\* elf_newscn()
NewScn(d) ==
  LET d1 == IF d.scns = <<>> THEN [d EXCEPT !.scns = <<Scn(NoShdr)>>, !.nscn = 1]
            ELSE d
  IN  IF \/ d.scns = <<>> /\ d.nscn # 0
         \/ d.scns # <<>> /\ d.nscn = 0
      THEN Fail(d, "assert e_nscn")
      ELSE Ok([d1 EXCEPT !.nscn = @ + 1,
                 !.scns = Append(@, [Scn(NoShdr) EXCEPT !.dirty = TRUE])])
elf_newscn ==
  LET r == IF e.class = "NONE" THEN Fail(e, "CLASS")
           ELSE Then(Then(Ehdr(e), Sections), NewScn)
  IN  r.e.nscn <= may.scns /\ Call("elf_newscn", 0, r)

\* gelf_getshdr(), the fields of x changed, gelf_update_shdr()
gelf_update_shdr(i, x) ==
  /\ HasScn(i)
  /\ Call("gelf_update_shdr", i,
          IF e.cmd = "READ" THEN Fail(e, "MODE")
          ELSE Ok([e EXCEPT !.scns[i + 1].sh = Changed(@, x),
                            !.scns[i + 1].dirty = TRUE]))

elf_flagscn(i, set) ==
  HasScn(i) /\ Call("elf_flagscn", i, Ok([e EXCEPT !.scns[i + 1].dirty = set]))

elf_getdata(i) == HasScn(i) /\ Call("elf_getdata", i, GetData(e, i + 1))
elf_rawdata(i) == HasScn(i) /\ Call("elf_rawdata", i, RawData(e, i + 1))

\* elf_newdata()
elf_newdata(i) ==
  /\ HasScn(i) /\ Len(e.scns[i + 1].data) < may.datas
  /\ LET s == e.scns[i + 1]
         load == e.raw # NULL /\ s.ssize > 0 /\ s.data = <<>>
     IN  Call("elf_newdata", i,
           Then(IF load THEN GetData(e, i + 1) ELSE Ok(e), LAMBDA d :
             Ok([d EXCEPT !.scns[i + 1].data = Append(@, NewData),
                          !.scns[i + 1].dirty = TRUE])))

\* The application fills in a data descriptor it was given, and says so
\* with elf_flagdata(), which layout does not look at.
EditData(i, j, x) ==
  /\ HasScn(i) /\ j \in DOMAIN e.scns[i + 1].data
  /\ Call("edit", i, Ok([e EXCEPT !.scns[i + 1].data[j] = Changed(@, x)]))

elf_setshstrndx(n) ==
  LET h == Ehdr(e)
  IN  Call("elf_setshstrndx", n,
        IF e.class = "NONE" THEN Fail(e, "ARGUMENT")
        ELSE IF h.err \in Fatal THEN h
        ELSE IF h.err # "NONE" THEN Fail(h.e, "ARGUMENT")
        ELSE Ok(SetShstrndx(h.e, n)))

\* elf_flagelf() for ELF_F_LAYOUT, elf_cntl(e, ELF_C_FDDONE)
elf_flagelf(set) == Call("elf_flagelf", 0, Ok([e EXCEPT !.layout = set]))
elf_cntl == Call("elf_cntl", 0, Ok([e EXCEPT !.fd = FALSE]))

\* elf_update(e, ELF_C_NULL): r is the layout.
UpdateNull(r) == Call("elf_update NULL", r.rc, r)
elf_update_null ==
  UpdateNull(IF e.class = "NONE"
             THEN [e |-> e, err |-> "CLASS", rc |-> 0, ext |-> <<>>]
             ELSE Resync(e))

\* The file is replaced, with outcome c.
Replace(rc, c) ==
  /\ "elf_update" \in may.calls /\ Running
  /\ e' = c.e /\ file' = c.file /\ writes' = writes + 1
  /\ result' = [op |-> "elf_update", arg |-> rc, err |-> c.err]
  /\ UNCHANGED program

\* elf_update(e, ELF_C_WRITE) with layout r and image a.
UpdateWrite(r, a, io) ==
  \/ r.err # "NONE" /\ Call("elf_update", 0, r)
  \/ r.err = "NONE" /\ ~e.fd /\ Call("elf_update", 0, Fail(r.e, "SEQUENCE"))
  \/ r.err = "NONE" /\ e.fd /\ a.err # "NONE" /\ Call("elf_update", 0, a)
  \/ /\ r.err = "NONE" /\ e.fd /\ a.err = "NONE" /\ Possible(e, io)
     /\ Replace(r.rc, Commit(a, io))
WriteLayout(r, io) == UpdateWrite(r, Assemble(r), io)

elf_update_write(io) ==
  LET early == FirstError(<< <<e.class = "NONE", "CLASS">>,
                             <<e.cmd = "READ", "MODE">> >>)
  IN  \/ early # "NONE" /\ Call("elf_update", 0, Fail(e, early))
      \/ early = "NONE" /\ WriteLayout(Resync(e), io)

\* A call that did not return is the end, and so is the bound.
Stopped == ~Running /\ UNCHANGED vars

Next ==
  \/ \E c \in may.class : gelf_newehdr(c)
  \/ \E x \in may.ehdr : gelf_update_ehdr(x)
  \/ \E n \in 0 .. may.phdrs : gelf_newphdr(n) \/ gelf_getphdr(n) \/ gelf_update_phdr(n)
  \/ elf64_getphdr
  \/ elf_newscn
  \/ \E i \in 0 .. may.scns : elf_getscn(i)
  \/ \E i \in 1 .. may.scns : \/ elf_getdata(i) \/ elf_rawdata(i) \/ elf_newdata(i)
                              \/ \E x \in may.shdr : gelf_update_shdr(i, x)
                              \/ \E set \in BOOLEAN : elf_flagscn(i, set)
                              \/ \E j \in 1 .. may.datas, x \in may.data : EditData(i, j, x)
  \/ \E n \in may.strndx : elf_setshstrndx(n)
  \/ \E set \in may.layout : elf_flagelf(set)
  \/ elf_cntl
  \/ elf_update_null
  \/ \E io \in may.io : elf_update_write(io)
  \/ Stopped

Spec == Init /\ [][Next]_vars
-----------------------------------------------------------------------------
(* Properties.                                                             *)

\* A well-formed descriptor: a header before a program header table, a
\* table of as many entries as are counted, a file unless it is being made.
IsElf(d) ==
  /\ DOMAIN d = {"cmd", "fd", "mem", "raw", "class", "order", "ehdr", "phdr",
                 "nphdr", "nscn", "strndx", "scns", "loaded", "layout"}
  /\ d.cmd \in {"READ", "RDWR", "WRITE"}
  /\ d.mem \in {"none", "malloc", "mmap", "gone", "failed"}
  /\ d.class \in {"NONE", "32", "64"} /\ d.order \in {"NONE", "LSB", "MSB"}
  /\ d.fd \in BOOLEAN /\ d.loaded \in BOOLEAN /\ d.layout \in BOOLEAN
  /\ d.nphdr \in Nat /\ d.nscn \in Nat /\ d.strndx \in Nat
  /\ d.cmd # "WRITE" \/ d.raw # NULL => IsFile(d.raw)
  /\ d.ehdr # NULL => d.ehdr \in Header
  /\ d.phdr # NULL => d.ehdr # NULL /\ DOMAIN d.phdr = 1 .. d.nphdr
  /\ d.scns \in Seq(Section)

TypeOK == IsElf(e) /\ program \in DOMAIN Programs /\ writes \in 0 .. may.writes

\* What elf_update() computes is final: computing it again, without any
\* change in between, moves nothing and gives the same size.
LayoutStable ==
  LET r == Resync(e)
      q == Resync(r.e)
  IN  Running /\ e.class # "NONE" /\ r.err = "NONE" =>
        q.err = "NONE" /\ q.rc = r.rc /\ q.ext = r.ext /\ q.e = r.e

\* A section whose content nobody asked for and that nobody flagged: under
\* ELF_F_LAYOUT its alignment is not looked at (elf_update.c:175).
Kept(i) == i \in DOMAIN e.scns => e.scns[i].data = <<>> /\ ~e.scns[i].dirty

\* A layout that elf_update() computes: extents in ascending order that
\* share no cell, each inside the size returned, the last one reaching it,
\* sections at multiples of their alignment.  The descriptor is well formed.
LayoutSound ==
  LET r == Resync(e)
      n == Len(r.ext)
  IN  /\ TypeOK
      /\ Running /\ e.class # "NONE" /\ r.err = "NONE" =>
           /\ \A j \in 1 .. n - 1 : r.ext[j].start + r.ext[j].size <= r.ext[j + 1].start
           /\ r.ext[n].start + r.ext[n].size = r.rc
           /\ \A j \in 1 .. n : r.ext[j].type = "SECTION" =>
                LET sh == r.e.scns[r.ext[j].scn].sh
                IN  sh.align > 0 /\ ~(e.layout /\ Kept(r.ext[j].scn)) =>
                      sh.off % sh.align = 0

\* What a new descriptor of the file finds in it.
Reload(f) == Then(Ehdr(Open("READ", "malloc", f)), LoadSections)

Content(f, sh) == SubSeq(f.bytes, sh.off + 1, sh.off + sh.size)

\* What the file holds of a data descriptor: objects of several bytes are in
\* the byte order of the file; bytes that were swapped as they were read,
\* because their section had been given another type, are bytes again.
Encoded(d, order) ==
  LET form(f) == CASE d.type # "BYTE" /\ f \in {"LSB", "MSB"} ->
                        IF order = "MSB" THEN "MSB" ELSE "LSB"
                   [] d.type # "BYTE" /\ f = "reversed" -> "byte"
                   [] OTHER -> f
  IN  [k \in DOMAIN d.buf |-> <<form(d.buf[k][1]), d.buf[k][2]>>]

\* The data descriptors lie in the content in their order, each at a
\* multiple of its alignment and with nothing but fill between them.
Arranged(content, data, order) ==
  \E pos \in [1 .. Len(data) -> 0 .. Len(content)] :
    LET end(j) == pos[j] + data[j].size
    IN  /\ \A j \in 1 .. Len(data) :
             /\ pos[j] % data[j].align = 0
             /\ end(j) <= Len(content)
             /\ data[j].size > 0 => SubSeq(content, pos[j] + 1, end(j)) =
                                      Encoded(data[j], order)
             /\ j > 1 => end(j - 1) <= pos[j]
        /\ \A k \in 1 .. Len(content) :
             \/ content[k] = Fill
             \/ \E j \in 1 .. Len(data) : pos[j] < k /\ k <= end(j)

\* The section still points at its content in the file that was read.
InPlace(s) == s.sh.off = s.rawoff \/ s.data # <<>> \/ ~s.dirty

\* The sections of f, from index 1 on, are those of the descriptor d: their
\* data, or else the bytes they have in the file that was read.
SameSections(d, f, q) ==
  \A i \in 2 .. d.nscn :
    LET s == d.scns[i]
        sh == q.scns[i].sh
        c == Content(f, sh)
    IN  /\ sh.type = s.sh.type
        /\ \/ sh.type \in {"NULL", "NOBITS"}
           \/ s.data # <<>> /\ Arranged(c, s.data, d.ehdr.data)
           \/ /\ s.data = <<>>
              /\ c = IF d.raw = NULL THEN <<>>
                     ELSE SubSeq(d.raw.bytes, s.rawoff + 1, s.rawoff + s.ssize)

\* A successful elf_update(ELF_C_WRITE) writes a file in which a new
\* descriptor finds what the old one had: as many sections and program
\* headers, of the same types and values, the string table index, and in
\* every section the data of its descriptors, or the old content if the
\* application never asked for it.  Left out: descriptors that were written
\* before and have lost their sections (GetscnWorks), program headers and
\* indices beyond the limits of extended numbering, which go into a section
\* header 0 that may not be written, sections that the application moved
\* before they were read, whose content elf_getdata() looks for at the new
\* offset in the old file (elf_data.c:156), and the offset of a section
\* header table that an application using ELF_F_LAYOUT sets without having one.
ReadsBack ==
  [][LET w == Then(Ehdr(e), Sections)
         q == Reload(file')
         written == /\ writes' # writes /\ result'.err = "NONE"
                    /\ Len(w.e.scns) = w.e.nscn
                    /\ w.e.nscn > 0 \/ file'.ehdr.shoff = 0
                    /\ w.e.nphdr < XNUM /\ w.e.ehdr.shstrndx # XNUM
                    /\ \A i \in DOMAIN w.e.scns : InPlace(w.e.scns[i])
     IN  written =>
           /\ q.err = "NONE"
           /\ q.e.nscn = w.e.nscn /\ q.e.nphdr = w.e.nphdr
           /\ w.e.nphdr > 0 => Phdrs(q.e).e.phdr = Phdrs(w.e).e.phdr
           /\ q.e.strndx = w.e.ehdr.shstrndx
           /\ SameSections(w.e, file', q.e)]_vars

\* A failed elf_update(ELF_C_WRITE) can be repeated: as long as the memory
\* of the file that was read is there, the image a second attempt would
\* write is the one the first could not.
RetrySame ==
  [][result'.op = "elf_update" /\ result'.err = "IO" /\ ~Lost(e') =>
       Assemble(Resync(e')).file = Assemble(Resync(e)).file]_vars

\* A data descriptor the application has not filled in.
Unfilled(s) == \E j \in DOMAIN s.data : s.data[j].buf = NULL

\* An application in control of the layout has made the section larger than
\* its data.
Oversized(s) == s.sh.size > Measure(s.data, TRUE).size

\* The application asks for less than the alignment of the section's type.
Underaligned(s) ==
  LET a == Falign(XlateShtype(s.sh.type))
  IN  s.sh.align # 0 /\ a # 0 /\ s.sh.align % a # 0

\* elf_update() returns: no assertion on the way fails and no memory is read
\* that is not there.  What it does not survive are data without a buffer,
\* a section larger than its data or aligned to less than its type, a file
\* whose mapping an elf_update() that failed has taken away, and a
\* descriptor that has been written and so has lost its sections, but not
\* their number.
UpdateReturns ==
  [][result'.op \in {"elf_update", "elf_update NULL"} /\ result'.err \in Fatal =>
       \/ Lost(e)
       \/ writes > 0 /\ Len(e.scns) # e.nscn
       \/ \E i \in DOMAIN e.scns : \/ Unfilled(e.scns[i]) \/ Underaligned(e.scns[i])
                                   \/ e.layout /\ Oversized(e.scns[i])]_vars
=============================================================================

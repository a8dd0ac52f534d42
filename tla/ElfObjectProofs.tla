--------------------------- MODULE ElfObjectProofs ---------------------------
(***************************************************************************)
(* Proofs about ElfObject.                                                 *)
(***************************************************************************)
EXTENDS ElfObject, SequenceTheorems, WellFoundedInduction, TLAPS

-----------------------------------------------------------------------------
(* Numbers and sequences.                                                  *)

\* A set of numbers has a least one.
LEMMA MinNat ==
  ASSUME NEW S, S \subseteq Nat, S # {}
  PROVE  \E m \in S : \A y \in S : m <= y
  <1>1. PICK m \in S : \A y \in S : ~(<<y, m>> \in OpToRel(<, Nat))
    BY NatLessThanWellFounded, WFMin
  <1>2. ASSUME NEW y \in S
        PROVE  m <= y
    <2>1. y \in Nat /\ m \in Nat /\ <<y, m>> \in Nat \X Nat
      OBVIOUS
    <2>2. y < m => <<y, m>> \in OpToRel(<, Nat)
      BY <2>1 DEF OpToRel
    <2>3. ~(y < m)
      BY <1>1, <2>2
    <2>4. QED  BY <2>1, <2>3
  <1>3. QED  BY <1>2

\* Induction: a set of numbers that has 0, and the next of each it has.
LEMMA NatSet ==
  ASSUME NEW S, 0 \in S, \A k \in Nat : k \in S => k + 1 \in S
  PROVE  Nat \subseteq S
  <1> DEFINE T == Nat \ S
  <1>1. T = {}
    <2> SUFFICES ASSUME T # {} PROVE FALSE
      OBVIOUS
    <2>1. PICK m \in T : \A y \in T : m <= y
      BY MinNat
    <2>2. m \in Nat /\ m \notin S /\ m # 0
      OBVIOUS
    <2>3. m - 1 \in Nat /\ (m - 1) + 1 = m /\ m - 1 \notin T
      BY <2>1, <2>2
    <2> QED  BY <2>2, <2>3
  <1> QED  BY <1>1

\* roundup() brings a number up to a multiple.
LEMMA RoundupIs ==
  ASSUME NEW n \in Nat, NEW a \in Nat, a > 0
  PROVE  Roundup(n, a) \in Nat /\ n <= Roundup(n, a) /\ Roundup(n, a) % a = 0
  <1> DEFINE q == (n + a - 1) \div a
  <1>1. q \in Nat /\ n + a - 1 = a * q + ((n + a - 1) % a) /\ (n + a - 1) % a \in 0 .. a - 1
    OBVIOUS
  <1>2. Roundup(n, a) = q * a
    BY DEF Roundup
  <1> HIDE DEF q
  <1>3. q * a \in Nat /\ q * a = a * q
    BY <1>1
  <1>4. n <= q * a
    BY <1>1, <1>3
  <1>5. (q * a) % a = 0
    BY <1>1
  <1> QED  BY <1>2, <1>3, <1>4, <1>5

\* A function on 1 .. n is a sequence of n elements.
LEMMA FunctionIsSeq ==
  ASSUME NEW n \in Nat, NEW S, NEW f, f \in [1 .. n -> S]
  PROVE  f \in Seq(S) /\ Len(f) = n
  OBVIOUS

\* No error is found where every condition is false.
LEMMA NoError ==
  ASSUME NEW n \in Nat, NEW checks, DOMAIN checks = 1 .. n,
         \A k \in 1 .. n : checks[k][2] # "NONE",
         FirstError(checks) = "NONE"
  PROVE  \A k \in 1 .. n : ~checks[k][1]
  <1> DEFINE failed == {k \in DOMAIN checks : checks[k][1]}
  <1>1. failed = {}
    <2> SUFFICES ASSUME failed # {} PROVE FALSE
      OBVIOUS
    <2>0. failed \subseteq Nat /\ failed # {}
      OBVIOUS
    <2>1. \E k \in failed : \A j \in failed : k <= j
      BY <2>0, MinNat
    <2>2. FirstError(checks) = checks[CHOOSE k \in failed : \A j \in failed : k <= j][2]
      BY DEF FirstError
    <2> HIDE DEF failed
    <2>3. (CHOOSE k \in failed : \A j \in failed : k <= j) \in failed
      BY <2>1
    <2> QED  BY <2>2, <2>3 DEF failed
  <1> QED  BY <1>1

-----------------------------------------------------------------------------
(* What was read in.                                                       *)

\* q is d after more of the file was read in.
Reads(d, q) ==
  /\ IsElf(q) /\ q.layout = d.layout /\ q.cmd = d.cmd
  /\ \A i \in DOMAIN d.scns : i \in DOMAIN q.scns /\ q.scns[i] = d.scns[i]

LEMMA NewSection ==
  ASSUME NEW sh \in Shdr
  PROVE  Scn(sh) \in Section /\ [Scn(NoShdr) EXCEPT !.sh = sh] \in Section
         /\ Scn(NoShdr) \in Section /\ [Scn(NoShdr) EXCEPT !.dirty = TRUE] \in Section
  <1>1. NoShdr \in Shdr /\ sh.off \in Nat /\ sh.size \in Nat
        /\ <<>> \in Seq(Data) /\ <<>> \in Seq([size: Nat, null: BOOLEAN])
    BY DEF NoShdr, Shdr
  <1>2. NoShdr.off = 0 /\ NoShdr.size = 0
    BY DEF NoShdr
  <1>3. ASSUME NEW x \in Shdr, x.off \in Nat, x.size \in Nat
        PROVE  Scn(x) \in Section
    BY <1>1, <1>3 DEF Scn, Section
  <1>4. Scn(sh) \in Section /\ Scn(NoShdr) \in Section
    BY <1>1, <1>2, <1>3
  <1>5. [Scn(NoShdr) EXCEPT !.sh = sh] \in Section
    BY <1>4 DEF Section
  <1>6. [Scn(NoShdr) EXCEPT !.dirty = TRUE] \in Section
    BY <1>4 DEF Section
  <1> QED  BY <1>4, <1>5, <1>6

LEMMA LoadExtendedReads ==
  ASSUME NEW d, IsElf(d), d.cmd # "WRITE", d.ehdr # NULL, d.phdr = NULL
  PROVE  LET q == LoadExtended(d) IN Reads(d, q.e) /\ q.e.ehdr = d.ehdr
  <1> DEFINE h == d.ehdr
             sh == d.raw.shtab[h.shoff]
             s == <<[Scn(NoShdr) EXCEPT !.sh = sh]>>
             d1 == [d EXCEPT !.scns = s]
             q == LoadExtended(d)
  <1>1. h \in Header /\ h.shoff \in Nat /\ h.phnum \in Nat /\ h.shstrndx \in Nat
    BY DEF IsElf, Header
  <1>2. CASE q.e = d
    BY <1>2 DEF Reads
  <1>3. CASE d.scns = <<>> /\ h.shoff \in DOMAIN d.raw.shtab /\ q.e # d
    <2>1. sh \in Shdr
      BY <1>3 DEF IsElf, IsFile
    <2>0. [Scn(NoShdr) EXCEPT !.sh = sh] \in Section
      BY <2>1, NewSection
    <2>2. s \in Seq(Section)
      BY <2>0
    <2>3. sh.size \in Nat /\ sh.info \in Nat /\ sh.link \in Nat
      BY <2>1 DEF Shdr
    <2> HIDE DEF s
    <2>4. IsElf(d1) /\ d1.ehdr = d.ehdr /\ d1.layout = d.layout /\ d1.cmd = d.cmd
      BY <2>2 DEF IsElf
    <2>5. q.e = d1 \/ q.e = [d1 EXCEPT
             !.nscn = sh.size,
             !.nphdr = IF h.phnum # XNUM THEN h.phnum ELSE sh.info,
             !.strndx = IF h.shstrndx # XNUM THEN h.shstrndx ELSE sh.link]
      <3> DEFINE d2 == [d1 EXCEPT
             !.nscn = sh.size,
             !.nphdr = IF h.phnum # XNUM THEN h.phnum ELSE sh.info,
             !.strndx = IF h.shstrndx # XNUM THEN h.shstrndx ELSE sh.link]
      <3>1. q = IF d.scns # <<>> THEN Fail(d, "assert e_scn")
                ELSE IF RawSize(d) < h.shoff + 1 THEN Fail(d, "HEADER")
                ELSE IF h.shoff \notin DOMAIN d.raw.shtab THEN Fail(d, "junk")
                ELSE IF sh.type # "NULL" THEN Fail(d1, "SECTION")
                ELSE Ok(d2)
        BY DEF LoadExtended, s
      <3> HIDE DEF d1, d2, q
      <3>2. q.e \in {d, d1, d2}
        BY <3>1 DEF Ok, Fail
      <3> QED  BY <3>2, <1>3 DEF d2
    <2>6. d1.phdr = NULL
      BY DEF IsElf
    <2> HIDE DEF d1, sh, h, q
    <2>7. IsElf(q.e) /\ q.e.ehdr = d1.ehdr /\ q.e.layout = d1.layout /\ q.e.cmd = d1.cmd
      <3> DEFINE nphdr == IF h.phnum # XNUM THEN h.phnum ELSE sh.info
                 strndx == IF h.shstrndx # XNUM THEN h.shstrndx ELSE sh.link
                 d2 == [d1 EXCEPT !.nscn = sh.size, !.nphdr = nphdr, !.strndx = strndx]
      <3>1. nphdr \in Nat /\ strndx \in Nat /\ sh.size \in Nat
        BY <2>3, <1>1
      <3>2. q.e \in {d1, d2}
        BY <2>5
      <3> HIDE DEF nphdr, strndx
      <3>3. IsElf(d2) /\ d2.ehdr = d1.ehdr /\ d2.layout = d1.layout /\ d2.cmd = d1.cmd
        BY <3>1, <2>4, <2>6, SMTT(30) DEF IsElf
      <3> HIDE DEF d2
      <3> QED  BY <3>2, <3>3, <2>4
    <2>8. \A i \in DOMAIN d.scns : FALSE
      BY <1>3
    <2> QED  BY <2>4, <2>7, <2>8 DEF Reads, q
  <1>4. q.e = d \/ (d.scns = <<>> /\ h.shoff \in DOMAIN d.raw.shtab)
    BY DEF LoadExtended, Ok, Fail
  <1> QED  BY <1>2, <1>3, <1>4

LEMMA EhdrReads ==
  ASSUME NEW d, IsElf(d)
  PROVE  LET q == Ehdr(d)
         IN  /\ Reads(d, q.e)
             /\ q.err = "NONE" => q.e.ehdr # NULL
             /\ d.ehdr # NULL => q = Ok(d)
  <1> DEFINE h == d.raw.ehdr
             d1 == [d EXCEPT !.ehdr = h]
             q == Ehdr(d)
  <1>1. CASE d.ehdr # NULL
    BY <1>1 DEF Ehdr, Ok, Reads
  <1>2. CASE d.ehdr = NULL /\ d.cmd = "WRITE"
    <2>1. NewEhdr \in Header /\ NewEhdr # NULL
      <3>1. NewEhdr \in Header
        BY DEF NewEhdr, Header
      <3> QED  BY <3>1, ProgramsAssumption
    <2>2. q.e = [d EXCEPT !.ehdr = NewEhdr] /\ q.err = "NONE"
      BY <1>2 DEF Ehdr, Ok
    <2> HIDE DEF q
    <2>3. IsElf(q.e) /\ q.e.ehdr = NewEhdr /\ q.e.cmd = d.cmd /\ q.e.layout = d.layout
          /\ q.e.scns = d.scns
      BY <2>1, <2>2, <1>2 DEF IsElf
    <2> QED  BY <2>1, <2>3, <1>2 DEF Reads, q
  <1>3. CASE d.ehdr = NULL /\ d.cmd # "WRITE"
    <2>1. h \in Header /\ h # NULL /\ h.phnum \in Nat /\ h.shnum \in Nat /\ h.shstrndx \in Nat
      BY <1>3, ProgramsAssumption DEF IsElf, IsFile, Header
    <2> HIDE DEF h
    <2>2. IsElf(d1) /\ d1.ehdr = h /\ d1.cmd = d.cmd /\ d1.layout = d.layout
          /\ d1.scns = d.scns /\ d1.phdr = NULL
      BY <2>1, <1>3 DEF IsElf
    <2>3. \/ q.e = d /\ q.err # "NONE"
          \/ q.e = d1 /\ q.err # "NONE"
          \/ q = LoadExtended(d1)
          \/ q.e = [d1 EXCEPT !.nphdr = h.phnum, !.nscn = h.shnum, !.strndx = h.shstrndx]
      BY <1>3 DEF Ehdr, Ok, Fail, h
    <2> HIDE DEF d1, q
    <2>4. CASE q.e = d /\ q.err # "NONE"
      BY <2>4, <1>3 DEF Reads, q
    <2>5. CASE q.e = d1 /\ q.err # "NONE"
      BY <2>5, <2>2, <1>3 DEF Reads, q
    <2>6. CASE q = LoadExtended(d1)
      <3>1. Reads(d1, q.e) /\ q.e.ehdr = d1.ehdr
        BY <2>6, <2>2, <2>1, <1>3, LoadExtendedReads
      <3> QED  BY <3>1, <2>1, <2>2, <1>3 DEF Reads, q
    <2>7. CASE q.e = [d1 EXCEPT !.nphdr = h.phnum, !.nscn = h.shnum, !.strndx = h.shstrndx]
      <3>1. IsElf(q.e) /\ q.e.ehdr = h /\ q.e.cmd = d.cmd /\ q.e.layout = d.layout
            /\ q.e.scns = d.scns
        BY <2>7, <2>1, <2>2 DEF IsElf
      <3> QED  BY <3>1, <2>1, <1>3 DEF Reads, q
    <2> QED  BY <2>3, <2>4, <2>5, <2>6, <2>7
  <1> QED  BY <1>1, <1>2, <1>3

LEMMA SectionsRead ==
  ASSUME NEW d, IsElf(d), d.ehdr # NULL
  PROVE  LET q == Sections(d) IN Reads(d, q.e) /\ q.e.ehdr = d.ehdr
  <1> DEFINE h == d.ehdr
             more == [i \in 1 .. d.nscn |-> Scn(d.raw.shtab[h.shoff + i - 1])]
             rest == SubSeq(more, Len(d.scns) + 1, d.nscn)
             q == Sections(d)
             d1 == [d EXCEPT !.loaded = TRUE, !.scns = d.scns \o rest]
  <1>1. q.e = d \/ (/\ d.cmd # "WRITE"
                    /\ \A i \in Len(d.scns) + 1 .. d.nscn :
                         h.shoff + i - 1 \in DOMAIN d.raw.shtab
                    /\ q.e = d1)
    BY DEF Sections, LoadSections, Ok, Fail
  <1>2. CASE q.e = d
    BY <1>2 DEF Reads
  <1>3. CASE /\ d.cmd # "WRITE"
             /\ \A i \in Len(d.scns) + 1 .. d.nscn :
                  h.shoff + i - 1 \in DOMAIN d.raw.shtab
             /\ q.e = d1
    <2>1. \A i \in Len(d.scns) + 1 .. d.nscn : d.raw.shtab[h.shoff + i - 1] \in Shdr
      BY <1>3 DEF IsElf, IsFile
    <2>2. \A i \in Len(d.scns) + 1 .. d.nscn : Scn(d.raw.shtab[h.shoff + i - 1]) \in Section
      BY <2>1, NewSection
    <2>3. d.scns \in Seq(Section) /\ d.nscn \in Nat /\ Len(d.scns) \in Nat
      BY DEF IsElf
    <2>4. rest \in Seq(Section)
      <3> HIDE DEF h
      <3>1. \A i \in Len(d.scns) + 1 .. d.nscn : more[i] \in Section
        BY <2>2, <2>3
      <3> HIDE DEF more
      <3> QED  BY <2>3, <3>1, SubSeqProperties
    <2> HIDE DEF rest
    <2>5. d.scns \o rest \in Seq(Section)
          /\ \A i \in DOMAIN d.scns : i \in DOMAIN (d.scns \o rest) /\ (d.scns \o rest)[i] = d.scns[i]
      BY <2>3, <2>4
    <2>6. IsElf(d1) /\ d1.scns = d.scns \o rest /\ d1.ehdr = d.ehdr /\ d1.cmd = d.cmd
          /\ d1.layout = d.layout
      BY <2>5 DEF IsElf
    <2> QED  BY <1>3, <2>5, <2>6 DEF Reads
  <1> QED  BY <1>1, <1>2, <1>3

LEMMA PhdrsRead ==
  ASSUME NEW d, IsElf(d)
  PROVE  LET q == Phdrs(d)
         IN  /\ Reads(d, q.e)
             /\ d.ehdr # NULL => q.e.ehdr = d.ehdr /\ q.e.nphdr = d.nphdr /\ q.e.scns = d.scns
  <1> DEFINE r == IF d.phdr # NULL THEN Ok(d) ELSE Ehdr(d)
             b == r.e
             tab == [i \in 1 .. b.nphdr |-> b.raw.phtab[b.ehdr.phoff + i - 1]]
             q == Phdrs(d)
  <1>1. Reads(d, b) /\ (r.err = "NONE" => b.ehdr # NULL) /\ (d.ehdr # NULL => b = d)
    <2>1. d.phdr # NULL => d.ehdr # NULL
      BY DEF IsElf
    <2> QED  BY <2>1, EhdrReads DEF Ok, Reads
  <1>2. q.e = b \/ (r.err = "NONE" /\ q.e = [b EXCEPT !.phdr = tab])
    BY DEF Phdrs, Then, Ok, Fail
  <1>3. CASE q.e = b
    BY <1>1, <1>3
  <1>4. CASE r.err = "NONE" /\ q.e = [b EXCEPT !.phdr = tab]
    <2> HIDE DEF r, q
    <2>1. b.nphdr \in Nat /\ IsElf(b)
      BY <1>1 DEF IsElf, Reads
    <2>2. DOMAIN tab = 1 .. b.nphdr
      OBVIOUS
    <2> HIDE DEF b, tab
    <2>3. IsElf(q.e) /\ q.e.layout = b.layout /\ q.e.cmd = b.cmd /\ q.e.scns = b.scns
          /\ q.e.ehdr = b.ehdr /\ q.e.nphdr = b.nphdr
      BY <2>1, <2>2, <1>1, <1>4 DEF IsElf, b
    <2> QED  BY <2>3, <1>1 DEF Reads, b, q, r
  <1> QED  BY <1>2, <1>3, <1>4

-----------------------------------------------------------------------------
(* Sections and their data.                                                *)

\* q is d but for section i, of which the header is where it was.
OneScn(d, q, i) ==
  /\ IsElf(q) /\ q.cmd = d.cmd /\ q.layout = d.layout /\ q.ehdr = d.ehdr
  /\ q.phdr = d.phdr /\ q.nphdr = d.nphdr /\ q.nscn = d.nscn /\ q.raw = d.raw
  /\ q.order = d.order /\ q.loaded = d.loaded
  /\ Len(q.scns) = Len(d.scns)
  /\ \A j \in 1 .. Len(d.scns) : j # i => q.scns[j] = d.scns[j]

LEMMA SetScn ==
  ASSUME NEW d, IsElf(d), NEW i \in DOMAIN d.scns, NEW s \in Section
  PROVE  LET q == [d EXCEPT !.scns[i] = s] IN OneScn(d, q, i) /\ q.scns[i] = s
  <1> DEFINE q == [d EXCEPT !.scns[i] = s]
             ss == [d.scns EXCEPT ![i] = s]
  <1>1. d.scns \in Seq(Section) /\ i \in 1 .. Len(d.scns)
    BY DEF IsElf
  <1>2. ss \in Seq(Section) /\ Len(ss) = Len(d.scns) /\ ss[i] = s
        /\ \A j \in 1 .. Len(d.scns) : j # i => ss[j] = d.scns[j]
    BY <1>1
  <1> HIDE DEF ss
  <1>3. q = [d EXCEPT !.scns = ss]
    BY DEF ss
  <1> HIDE DEF q
  <1>4. IsElf(q) /\ q.scns = ss /\ q.cmd = d.cmd /\ q.layout = d.layout /\ q.ehdr = d.ehdr
        /\ q.phdr = d.phdr /\ q.nphdr = d.nphdr /\ q.nscn = d.nscn /\ q.raw = d.raw
        /\ q.order = d.order /\ q.loaded = d.loaded
    BY <1>2, <1>3 DEF IsElf
  <1> QED  BY <1>2, <1>4 DEF OneScn, q

LEMMA XlateCells ==
  ASSUME NEW t, NEW order, NEW cells \in Seq(Cell)
  PROVE  Xlate(t, order, cells) \in Seq(Cell) /\ Len(Xlate(t, order, cells)) = Len(cells)
  <1>1. ASSUME NEW c \in Cell
        PROVE  <<Swap(c[1]), c[2]>> \in Cell
    BY DEF Cell, Swap
  <1> DEFINE new == [k \in DOMAIN cells |-> <<Swap(cells[k][1]), cells[k][2]>>]
  <1>2. new \in [1 .. Len(cells) -> Cell]
    BY <1>1
  <1>3. new \in Seq(Cell) /\ Len(new) = Len(cells)
    BY <1>2, FunctionIsSeq
  <1> HIDE DEF new
  <1>4. Xlate(t, order, cells) = cells \/ Xlate(t, order, cells) = new
    BY DEF Xlate, new
  <1> QED  BY <1>3, <1>4

LEMMA SectionFields ==
  ASSUME NEW d, IsElf(d), NEW i \in DOMAIN d.scns
  PROVE  /\ i \in 1 .. Len(d.scns) /\ Len(d.scns) \in Nat
         /\ d.scns[i] \in Section /\ d.scns[i].sh \in Shdr
         /\ d.scns[i].sh.off \in Nat /\ d.scns[i].sh.size \in Nat /\ d.scns[i].sh.align \in Nat
         /\ d.scns[i].soff \in Nat /\ d.scns[i].ssize \in Nat /\ d.scns[i].rawoff \in Nat
         /\ d.scns[i].data \in Seq(Data)
         /\ d.scns[i].raw \in Seq([size: Nat, null: BOOLEAN])
  <1>1. d.scns \in Seq(Section)
    BY DEF IsElf
  <1>2. i \in 1 .. Len(d.scns) /\ Len(d.scns) \in Nat /\ d.scns[i] \in Section
    BY <1>1
  <1> QED  BY <1>2 DEF Section, Shdr

LEMMA GetDataOne ==
  ASSUME NEW d, IsElf(d), NEW i \in DOMAIN d.scns
  PROVE  LET q == GetData(d, i)
         IN  /\ OneScn(d, q.e, i)
             /\ q.e.scns[i] = [d.scns[i] EXCEPT !.data = q.e.scns[i].data]
             /\ q.err = "NONE" => q.e.scns[i].data # <<>>
  <1> DEFINE s == d.scns[i]
             t == XlateShtype(s.sh.type)
             none == s.sh.type = "NOBITS" \/ s.sh.size = 0
             part == SubSeq(d.raw.bytes, s.sh.off + 1, s.sh.off + s.sh.size)
             buf == IF none THEN NULL ELSE Xlate(t, d.order, part)
             new == [type |-> t, version |-> "CURRENT", size |-> s.sh.size,
                     align |-> s.sh.align, off |-> 0, buf |-> buf]
             s1 == [s EXCEPT !.data = <<new>>]
             q == GetData(d, i)
  <1>1. s \in Section /\ s.sh \in Shdr /\ s.sh.off \in Nat /\ s.sh.size \in Nat /\ s.sh.align \in Nat
    BY SectionFields
  <1>2. /\ OneScn(d, d, i) /\ d.scns[i] = [d.scns[i] EXCEPT !.data = d.scns[i].data]
    <2>1. s = [s EXCEPT !.data = s.data]
      BY <1>1 DEF Section
    <2> QED  BY <2>1 DEF OneScn
  <1>3. \/ q.e = d /\ (q.err = "NONE" => d.scns[i].data # <<>>)
        \/ /\ d.raw # NULL /\ t # "INVALID" /\ InRaw(d, s.sh)
           /\ q.e = [d EXCEPT !.scns[i].data = <<new>>]
    BY DEF GetData, Ok, Fail
  <1>4. CASE q.e = d /\ (q.err = "NONE" => d.scns[i].data # <<>>)
    BY <1>2, <1>4
  <1>5. CASE /\ d.raw # NULL /\ t # "INVALID" /\ InRaw(d, s.sh)
             /\ q.e = [d EXCEPT !.scns[i].data = <<new>>]
    <2>1. t \in {"BYTE", "SYM"}
      BY <1>5 DEF XlateShtype
    <2>2. buf \in Seq(Cell) \cup {NULL} /\ (buf # NULL => Len(buf) = s.sh.size)
      <3>1. CASE none
        BY <3>1
      <3>2. CASE ~none
        <4>1. d.raw.bytes \in Seq(Cell) /\ s.sh.off <= Len(d.raw.bytes)
              /\ s.sh.size <= Len(d.raw.bytes) - s.sh.off
          <5>1. d.raw.bytes \in Seq(Cell)
            BY <1>5 DEF IsElf, IsFile
          <5>2. s.sh.off <= RawSize(d) /\ s.sh.size <= RawSize(d) - s.sh.off
            BY <1>5, <3>2 DEF InRaw
          <5> QED  BY <5>1, <5>2, <1>5 DEF RawSize
        <4>2. part \in Seq(Cell) /\ Len(part) = s.sh.size
          <5> DEFINE first == s.sh.off + 1
                     last == s.sh.off + s.sh.size
          <5>1. \A k \in first .. last : d.raw.bytes[k] \in Cell
            BY <4>1, <1>1, SMTT(30)
          <5>2. /\ first \in Int /\ last \in Int /\ first <= last
                /\ last - first + 1 = s.sh.size /\ part = SubSeq(d.raw.bytes, first, last)
            BY <1>1, <3>2
          <5> HIDE DEF first, last, part
          <5> QED  BY <5>1, <5>2, SubSeqProperties
        <4> HIDE DEF part, none
        <4> QED  BY <4>2, <3>2, XlateCells
      <3> QED  BY <3>1, <3>2
    <2> HIDE DEF buf, t, s
    <2>3. new \in Data
      BY <2>1, <2>2, <1>1 DEF Data
    <2> HIDE DEF new
    <2>4. <<new>> \in Seq(Data) /\ <<new>> # <<>>
      BY <2>3
    <2>5. s1 \in Section
      BY <2>4, <1>1 DEF Section
    <2>6. q.e = [d EXCEPT !.scns[i] = s1]
      BY <1>5 DEF s
    <2>7. s1.data = <<new>> /\ s1 = [s EXCEPT !.data = s1.data]
      BY <1>1 DEF Section
    <2> HIDE DEF q, s1
    <2>8. OneScn(d, q.e, i) /\ q.e.scns[i] = s1
      BY <2>5, <2>6, SetScn
    <2> QED  BY <2>4, <2>7, <2>8 DEF s, q
  <1> QED  BY <1>3, <1>4, <1>5

LEMMA RawDataOne ==
  ASSUME NEW d, IsElf(d), NEW i \in DOMAIN d.scns
  PROVE  LET q == RawData(d, i)
         IN  /\ OneScn(d, q.e, i)
             /\ q.e.scns[i] = [d.scns[i] EXCEPT !.raw = q.e.scns[i].raw]
             /\ q.err = "NONE" => q.e.scns[i].raw # <<>> /\ d.raw # NULL
  <1> DEFINE s == d.scns[i]
             null == s.sh.type = "NOBITS" \/ s.sh.size = 0
             new == [size |-> s.sh.size, null |-> null]
             s1 == [s EXCEPT !.raw = <<new>>]
             q == RawData(d, i)
  <1>1. s \in Section /\ s.sh.size \in Nat
    BY SectionFields
  <1>2. OneScn(d, d, i) /\ d.scns[i] = [d.scns[i] EXCEPT !.raw = d.scns[i].raw]
    <2>1. s = [s EXCEPT !.raw = s.raw]
      BY <1>1 DEF Section
    <2> QED  BY <2>1 DEF OneScn
  <1>3. \/ q.e = d /\ (q.err = "NONE" => d.scns[i].raw # <<>> /\ d.raw # NULL)
        \/ d.raw # NULL /\ q.e = [d EXCEPT !.scns[i].raw = <<new>>]
    BY DEF RawData, Ok, Fail
  <1>4. CASE q.e = d /\ (q.err = "NONE" => d.scns[i].raw # <<>> /\ d.raw # NULL)
    BY <1>2, <1>4
  <1>5. CASE d.raw # NULL /\ q.e = [d EXCEPT !.scns[i].raw = <<new>>]
    <2>1. null \in BOOLEAN
      OBVIOUS
    <2> HIDE DEF null, s
    <2>2. new \in [size: Nat, null: BOOLEAN]
      BY <1>1, <2>1
    <2> HIDE DEF new
    <2>3. <<new>> \in Seq([size: Nat, null: BOOLEAN]) /\ <<new>> # <<>>
      BY <2>2
    <2>4. s1 \in Section /\ s1.raw = <<new>> /\ s1 = [s EXCEPT !.raw = s1.raw]
      BY <2>3, <1>1 DEF Section
    <2>5. q.e = [d EXCEPT !.scns[i] = s1]
      BY <1>5 DEF s
    <2> HIDE DEF q, s1
    <2>6. OneScn(d, q.e, i) /\ q.e.scns[i] = s1
      BY <2>4, <2>5, SetScn DEF s
    <2> QED  BY <2>3, <2>4, <2>6, <1>5 DEF s, q
  <1> QED  BY <1>3, <1>4, <1>5

-----------------------------------------------------------------------------
(* Measuring the data of a section.                                        *)

IsMeasure(m) == /\ DOMAIN m = {"err", "size", "align", "data"}
                /\ m.size \in Nat /\ m.align \in Nat /\ m.data \in Seq(Data)

LEMMA DataChecked ==
  ASSUME NEW d \in Data, NEW layout \in BOOLEAN, DataError(d, layout) = "NONE"
  PROVE  d.align \in PowersOf2
  <1> DEFINE checks == << <<d.type \notin {"BYTE", "SYM"}, "DATA">>,
                <<d.version # "CURRENT", "VERSION">>,
                <<d.align \notin PowersOf2, "DATA">>,
                <<d.size % Fsize(d.type) # 0, "DATA">>,
                <<layout /\ d.align > 0 /\ d.off % d.align # 0, "LAYOUT">> >>
  <1>1. DOMAIN checks = 1 .. 5
    OBVIOUS
  <1>2. \A k \in 1 .. 5 : checks[k][2] # "NONE"
    OBVIOUS
  <1>3. checks[3][1] = (d.align \notin PowersOf2)
    OBVIOUS
  <1>4. FirstError(checks) = "NONE"
    BY DEF DataError
  <1> HIDE DEF checks
  <1>5. \A k \in 1 .. 5 : ~checks[k][1]
    <2>1. 5 \in Nat
      OBVIOUS
    <2> QED  BY <1>1, <1>2, <1>4, <2>1, NoError
  <1>6. ~checks[3][1]
    BY <1>5
  <1> QED  BY <1>3, <1>6

LEMMA MeasureOneIs ==
  ASSUME NEW m, IsMeasure(m), NEW d \in Data, NEW layout \in BOOLEAN
  PROVE  IsMeasure(MeasureOne(m, d, layout))
  <1> DEFINE code == DataError(d, layout)
             off == IF layout THEN d.off ELSE Roundup(m.size, d.align)
             end == (off + d.size) % Word
             q == MeasureOne(m, d, layout)
  <1>1. d.off \in Nat /\ d.size \in Nat /\ d.align \in Nat
    BY DEF Data
  <1>2. \/ q = [m EXCEPT !.data = Append(m.data, d)]
        \/ q = [m EXCEPT !.err = code, !.data = Append(m.data, d)]
        \/ code = "NONE" /\
           q = [err |-> "NONE",
                size |-> IF end > m.size \/ ~layout THEN end ELSE m.size,
                align |-> IF d.align > m.align THEN d.align ELSE m.align,
                data |-> Append(m.data, [d EXCEPT !.off = off])]
    BY DEF MeasureOne
  <1>3. CASE q = [m EXCEPT !.data = Append(m.data, d)]
    BY <1>3 DEF IsMeasure
  <1>4. CASE q = [m EXCEPT !.err = code, !.data = Append(m.data, d)]
    <2> HIDE DEF code
    <2> QED  BY <1>4 DEF IsMeasure
  <1>5. CASE code = "NONE" /\
           q = [err |-> "NONE",
                size |-> IF end > m.size \/ ~layout THEN end ELSE m.size,
                align |-> IF d.align > m.align THEN d.align ELSE m.align,
                data |-> Append(m.data, [d EXCEPT !.off = off])]
    <2>1. d.align \in PowersOf2
      BY <1>5, DataChecked
    <2>2. off \in Nat
      <3>1. d.align > 0 /\ m.size \in Nat
        BY <2>1 DEF PowersOf2, IsMeasure
      <3> QED  BY <1>1, <3>1, RoundupIs
    <2> HIDE DEF off, code
    <2>3. end \in Nat
      BY <2>2, <1>1, WordAssumption
    <2> HIDE DEF end
    <2>4. [d EXCEPT !.off = off] \in Data
      BY <2>2 DEF Data
    <2>5. Append(m.data, [d EXCEPT !.off = off]) \in Seq(Data)
      BY <2>4 DEF IsMeasure
    <2> DEFINE size == IF end > m.size \/ ~layout THEN end ELSE m.size
               align == IF d.align > m.align THEN d.align ELSE m.align
               data == Append(m.data, [d EXCEPT !.off = off])
    <2>6. size \in Nat /\ align \in Nat
      BY <2>3, <1>1 DEF IsMeasure
    <2>7. q = [err |-> "NONE", size |-> size, align |-> align, data |-> data]
      BY <1>5
    <2>8. data \in Seq(Data)
      BY <2>5
    <2> HIDE DEF q, size, align, data
    <2>9. IsMeasure(q)
      BY <2>6, <2>7, <2>8 DEF IsMeasure
    <2> QED  BY <2>9 DEF q
  <1> QED  BY <1>2, <1>3, <1>4, <1>5

\* The loop over the data is a loop: the recursive function satisfies its
\* equation.
LEMMA MeasureLoop ==
  ASSUME NEW data \in Seq(Data), NEW layout
  PROVE  \E m : /\ Measure(data, layout) = m[Len(data)]
                /\ m[0] = [err |-> "NONE", size |-> 0, align |-> 0, data |-> <<>>]
                /\ \A j \in 1 .. Len(data) : m[j] = MeasureOne(m[j - 1], data[j], layout)
  <1> DEFINE m0 == [err |-> "NONE", size |-> 0, align |-> 0, data |-> <<>>]
             Next1(f, j) == IF j = 0 THEN m0 ELSE MeasureOne(f[j - 1], data[j], layout)
             Has(n) == \E f : f = [j \in 0 .. n |-> Next1(f, j)]
             S == {n \in Nat : Has(n)}
             m == CHOOSE f : f = [j \in 0 .. Len(data) |-> Next1(f, j)]
  <1>1. 0 \in S
    <2> DEFINE f == [j \in 0 .. 0 |-> m0]
    <2>1. f = [j \in 0 .. 0 |-> Next1(f, j)]
      OBVIOUS
    <2> QED  BY <2>1
  <1>2. ASSUME NEW n \in Nat, n \in S PROVE n + 1 \in S
    <2>1. PICK f : f = [j \in 0 .. n |-> Next1(f, j)]
      BY <1>2
    <2> DEFINE g == [j \in 0 .. n + 1 |-> IF j <= n THEN f[j] ELSE MeasureOne(f[n], data[n + 1], layout)]
    <2>2. ASSUME NEW j \in 0 .. n + 1 PROVE g[j] = Next1(g, j)
      <3>1. CASE j = 0
        BY <2>1, <3>1
      <3>2. CASE j \in 1 .. n
        <4>1. g[j] = f[j] /\ g[j - 1] = f[j - 1] /\ f[j] = Next1(f, j)
          BY <2>1, <3>2
        <4> QED  BY <4>1, <3>2
      <3>3. CASE j = n + 1
        <4>1. g[j] = MeasureOne(f[n], data[n + 1], layout) /\ g[n] = f[n] /\ j - 1 = n /\ j # 0
          BY <3>3
        <4> QED  BY <4>1, <3>3
      <3> QED  BY <3>1, <3>2, <3>3
    <2>3. g = [j \in 0 .. n + 1 |-> Next1(g, j)]
      <3>1. g = [j \in 0 .. n + 1 |-> g[j]]
        OBVIOUS
      <3> HIDE DEF g, Next1
      <3> QED  BY <2>2, <3>1
    <2> HIDE DEF g
    <2> QED  BY <2>3
  <1> HIDE DEF Has
  <1>3. Has(Len(data))
    <2>1. Nat \subseteq S
      BY <1>1, <1>2, NatSet
    <2> QED  BY <2>1
  <1>4. m = [j \in 0 .. Len(data) |-> Next1(m, j)]
    BY <1>3 DEF Has
  <1>5. Measure(data, layout) = m[Len(data)]
    BY DEF Measure
  <1> HIDE DEF m
  <1>6. m[0] = m0 /\ \A j \in 1 .. Len(data) : m[j] = MeasureOne(m[j - 1], data[j], layout)
    BY <1>4
  <1> QED  BY <1>5, <1>6

LEMMA MeasureIs ==
  ASSUME NEW data \in Seq(Data), NEW layout \in BOOLEAN
  PROVE  IsMeasure(Measure(data, layout))
  <1>1. PICK m : /\ Measure(data, layout) = m[Len(data)]
                 /\ m[0] = [err |-> "NONE", size |-> 0, align |-> 0, data |-> <<>>]
                 /\ \A j \in 1 .. Len(data) : m[j] = MeasureOne(m[j - 1], data[j], layout)
    BY MeasureLoop
  <1> DEFINE S == {n \in Nat : n <= Len(data) => IsMeasure(m[n])}
  <1>2. 0 \in S
    <2>1. <<>> \in Seq(Data)
      OBVIOUS
    <2>2. IsMeasure([err |-> "NONE", size |-> 0, align |-> 0, data |-> <<>>])
      BY <2>1 DEF IsMeasure
    <2> QED  BY <1>1, <2>2
  <1>3. ASSUME NEW n \in Nat, n \in S PROVE n + 1 \in S
    <2> SUFFICES ASSUME n + 1 <= Len(data) PROVE IsMeasure(m[n + 1])
      OBVIOUS
    <2>1. IsMeasure(m[n]) /\ data[n + 1] \in Data
      BY <1>3
    <2>2. m[n + 1] = MeasureOne(m[n], data[n + 1], layout)
      BY <1>1
    <2> QED  BY <2>1, <2>2, MeasureOneIs
  <1>4. Nat \subseteq S
    <2> HIDE DEF S
    <2> QED  BY <1>2, <1>3, NatSet
  <1> QED  BY <1>1, <1>4

-----------------------------------------------------------------------------
(* Placing a section.                                                      *)

\* Where a section was put, starting from rc; keep is one left as it was.
Placed(s, layout, keep, rc) ==
  /\ s.soff = s.sh.off /\ s.ssize = s.sh.size
  /\ s.sh.align > 0 /\ ~(layout /\ keep) => s.sh.off % s.sh.align = 0
  /\ layout \/ rc <= s.sh.off

LEMMA PlaceIs ==
  ASSUME NEW d, IsElf(d), NEW i \in DOMAIN d.scns, NEW sh \in Shdr, NEW data \in Seq(Data)
  PROVE  LET q == Place([d EXCEPT !.scns[i].data = data], i, sh).e
         IN  /\ OneScn(d, q, i)
             /\ q.scns[i].sh = sh /\ q.scns[i].soff = sh.off /\ q.scns[i].ssize = sh.size
             /\ q.scns[i].data = data /\ q.scns[i].dirty = d.scns[i].dirty
  <1> DEFINE s == d.scns[i]
             s1 == [s EXCEPT !.data = data]
             s2 == [s1 EXCEPT !.sh = sh, !.soff = sh.off, !.ssize = sh.size]
             d1 == [d EXCEPT !.scns[i].data = data]
             d2 == [d1 EXCEPT !.scns[i] = s2]
             q == Place(d1, i, sh).e
  <1>1. s \in Section
    BY SectionFields
  <1>2. s1 \in Section
    BY <1>1 DEF Section
  <1>3. OneScn(d, d1, i) /\ d1.scns[i] = s1
    <2>1. d1 = [d EXCEPT !.scns[i] = s1]
      OBVIOUS
    <2> HIDE DEF s1, d1
    <2> QED  BY <1>2, <2>1, SetScn
  <1>4. IsElf(d1) /\ i \in DOMAIN d1.scns
    <2>1. i \in 1 .. Len(d.scns) /\ Len(d1.scns) = Len(d.scns)
      BY <1>3, SectionFields DEF OneScn
    <2>2. IsElf(d1) /\ d1.scns \in Seq(Section)
      BY <1>3 DEF OneScn, IsElf
    <2> HIDE DEF d1
    <2> QED  BY <2>1, <2>2
  <1>5. sh.off \in Nat /\ sh.size \in Nat
    BY DEF Shdr
  <1>6. s2 \in Section /\ s2.sh = sh /\ s2.soff = sh.off /\ s2.ssize = sh.size
        /\ s2.data = data /\ s2.dirty = s.dirty
    BY <1>2, <1>1, <1>5 DEF Section
  <1>7. q = [d1 EXCEPT !.scns[i].sh = sh, !.scns[i].soff = sh.off, !.scns[i].ssize = sh.size]
    BY DEF Place, Ok
  <1> HIDE DEF d1
  <1>8. q = d2
    <2> DEFINE ss == d1.scns
               t == ss[i]
               a == [ss EXCEPT ![i] = [t EXCEPT !.sh = sh]]
               b == [ss EXCEPT ![i] = [t EXCEPT !.sh = sh, !.soff = sh.off]]
               c == [ss EXCEPT ![i] = [t EXCEPT !.sh = sh, !.soff = sh.off, !.ssize = sh.size]]
    <2>1. "scns" \in DOMAIN d1 /\ i \in DOMAIN ss /\ t = s1
      BY <1>4, <1>3 DEF IsElf
    <2>2. [d1 EXCEPT !.scns[i].sh = sh] = [d1 EXCEPT !.scns = a]
      BY <2>1
    <2>3. [[d1 EXCEPT !.scns = a] EXCEPT !.scns[i].soff = sh.off] = [d1 EXCEPT !.scns = b]
      BY <2>1
    <2>4. [[d1 EXCEPT !.scns = b] EXCEPT !.scns[i].ssize = sh.size] = [d1 EXCEPT !.scns = c]
      BY <2>1
    <2>5. q = [[[d1 EXCEPT !.scns[i].sh = sh] EXCEPT !.scns[i].soff = sh.off]
                  EXCEPT !.scns[i].ssize = sh.size]
      BY <1>7
    <2>6. d2 = [d1 EXCEPT !.scns = c]
      <3> HIDE DEF s1
      <3> QED  BY <2>1
    <2> HIDE DEF a, b, c, q, d2
    <2> QED  BY <2>2, <2>3, <2>4, <2>5, <2>6
  <1> HIDE DEF s2, q
  <1>9. OneScn(d1, q, i) /\ q.scns[i] = s2
    BY <1>4, <1>6, <1>8, SetScn
  <1>10. OneScn(d, q, i)
    BY <1>3, <1>9 DEF OneScn
  <1> QED  BY <1>6, <1>9, <1>10 DEF q, d1

LEMMA SetSectionIs ==
  ASSUME NEW d, IsElf(d), NEW i \in DOMAIN d.scns, NEW rc \in Nat,
         NEW keep \in BOOLEAN, NEW m, IsMeasure(m)
  PROVE  LET q == SetSection(d, i, rc, keep, m)
         IN  /\ OneScn(d, q.e, i)
             /\ q.err = "NONE" => Placed(q.e.scns[i], d.layout, keep, rc)
  <1> DEFINE s == d.scns[i]
             falign == Falign(XlateShtype(s.sh.type))
             align == IF s.sh.align = 0 THEN falign ELSE s.sh.align
             sh == IF keep THEN [s.sh EXCEPT !.align = align]
                   ELSE [s.sh EXCEPT !.size = m.size, !.align =
                           IF m.align > align THEN m.align ELSE align]
             checks == <<
        <<m.align > align, "LAYOUT">>,
        <<align = 0, "SIGFPE">>,
        <<align > 0 /\ s.sh.off % align # 0, "LAYOUT">>,
        <<s.sh.size < m.size, "LAYOUT">>,
        <<falign = 0, "SIGFPE">>,
        <<falign > 0 /\ s.sh.off % falign # 0, "LAYOUT">> >>
             sane == FirstError(checks)
             d1 == [d EXCEPT !.scns[i].data = m.data]
             sh1 == [sh EXCEPT !.off = Roundup(rc, sh.align)]
             q == SetSection(d, i, rc, keep, m)
  <1>1. s \in Section /\ s.sh \in Shdr /\ s.sh.align \in Nat /\ s.sh.off \in Nat
    BY SectionFields
  <1>2. falign \in Nat
    BY DEF Falign
  <1>3. m.data \in Seq(Data) /\ m.size \in Nat /\ m.align \in Nat /\ d.layout \in BOOLEAN
    BY DEF IsMeasure, IsElf
  <1>4. OneScn(d, d1, i)
    <2>1. [s EXCEPT !.data = m.data] \in Section
      BY <1>1, <1>3 DEF Section
    <2>2. d1 = [d EXCEPT !.scns[i] = [s EXCEPT !.data = m.data]]
      OBVIOUS
    <2> HIDE DEF d1, s
    <2> QED  BY <2>1, <2>2, SetScn
  <1>5. \/ q.e = d1 /\ q.err # "NONE"
        \/ d.layout /\ (keep \/ sane = "NONE") /\ q = Place(d1, i, s.sh)
        \/ ~d.layout /\ sh.align # 0 /\ q = Place(d1, i, sh1)
    BY DEF SetSection, Ok, Fail
  <1>6. CASE q.e = d1 /\ q.err # "NONE"
    BY <1>4, <1>6
  <1>7. CASE d.layout /\ (keep \/ sane = "NONE") /\ q = Place(d1, i, s.sh)
    <2>1. OneScn(d, q.e, i) /\ q.e.scns[i].sh = s.sh
          /\ q.e.scns[i].soff = s.sh.off /\ q.e.scns[i].ssize = s.sh.size
      <3> DEFINE h == s.sh
                 data == m.data
      <3>1. h \in Shdr /\ data \in Seq(Data) /\ q = Place([d EXCEPT !.scns[i].data = data], i, h)
        BY <1>7, <1>1, <1>3
      <3> HIDE DEF h, data, q
      <3>2. /\ OneScn(d, q.e, i)
            /\ q.e.scns[i].sh = h /\ q.e.scns[i].soff = h.off /\ q.e.scns[i].ssize = h.size
        BY <3>1, PlaceIs
      <3> QED  BY <3>2 DEF h, q
    <2>2. ~keep /\ s.sh.align > 0 => s.sh.off % s.sh.align = 0
      <3> SUFFICES ASSUME ~keep, s.sh.align > 0 PROVE s.sh.off % s.sh.align = 0
        OBVIOUS
      <3>1. DOMAIN checks = 1 .. 6 /\ \A k \in 1 .. 6 : checks[k][2] # "NONE"
        OBVIOUS
      <3>2. checks[3][1] = (align > 0 /\ s.sh.off % align # 0)
        OBVIOUS
      <3>3. align = s.sh.align
        BY <1>1
      <3>4. FirstError(checks) = "NONE"
        BY <1>7
      <3> HIDE DEF checks, align
      <3>5. \A k \in 1 .. 6 : ~checks[k][1]
        <4>1. 6 \in Nat
          OBVIOUS
        <4> QED  BY <3>1, <3>4, <4>1, NoError
      <3>6. ~checks[3][1]
        BY <3>5
      <3>7. ~(align > 0 /\ s.sh.off % align # 0)
        BY <3>2, <3>6
      <3> QED  BY <3>3, <3>7
    <2> HIDE DEF q, sane
    <2>3. Placed(q.e.scns[i], d.layout, keep, rc)
      BY <2>1, <2>2, <1>7 DEF Placed
    <2> QED  BY <2>1, <2>3 DEF q
  <1>8. CASE ~d.layout /\ sh.align # 0 /\ q = Place(d1, i, sh1)
    <2>1. align \in Nat
      BY <1>1, <1>2
    <2>2. sh \in Shdr /\ sh.align \in Nat /\ sh.align > 0
      <3> HIDE DEF align
      <3>1. sh \in Shdr
        BY <1>1, <1>3, <2>1 DEF Shdr
      <3> HIDE DEF sh
      <3> QED  BY <3>1, <1>8 DEF Shdr
    <2> HIDE DEF sh
    <2>3. Roundup(rc, sh.align) \in Nat /\ rc <= Roundup(rc, sh.align)
          /\ Roundup(rc, sh.align) % sh.align = 0
      BY <2>2, RoundupIs
    <2>4. sh1 \in Shdr /\ sh1.off = Roundup(rc, sh.align) /\ sh1.align = sh.align
      BY <2>2, <2>3 DEF Shdr
    <2> HIDE DEF sh1
    <2>5. OneScn(d, q.e, i) /\ q.e.scns[i].sh = sh1
          /\ q.e.scns[i].soff = sh1.off /\ q.e.scns[i].ssize = sh1.size
      BY <1>8, <2>4, <1>3, PlaceIs
    <2> HIDE DEF q
    <2>6. Placed(q.e.scns[i], d.layout, keep, rc)
      BY <2>3, <2>4, <2>5, <1>8 DEF Placed
    <2> QED  BY <2>5, <2>6 DEF q
  <1> QED  BY <1>5, <1>6, <1>7, <1>8

\* _libelf_compute_section_extents(): only its section changes, which ends up
\* placed.
LEMMA ComputeSectionIs ==
  ASSUME NEW d, IsElf(d), NEW i \in DOMAIN d.scns, NEW rc \in Nat
  PROVE  LET q == ComputeSection(d, i, rc)
             keep == d.scns[i].data = <<>> /\ ~d.scns[i].dirty
         IN  /\ OneScn(d, q.e, i)
             /\ q.err = "NONE" => Placed(q.e.scns[i], d.layout, keep, rc)
  <1> DEFINE keep == d.scns[i].data = <<>> /\ ~d.scns[i].dirty
             load == d.scns[i].data = <<>> /\ ~keep /\ d.cmd # "WRITE"
             r == IF load THEN GetData(d, i) ELSE Ok(d)
             q == ComputeSection(d, i, rc)
             q1 == SetSection(r.e, i, rc, keep, Measure(r.e.scns[i].data, r.e.layout))
  <1>1. OneScn(d, r.e, i)
    <2>1. OneScn(d, d, i)
      BY DEF OneScn
    <2> QED  BY <2>1, GetDataOne DEF Ok
  <1>2. IsElf(r.e) /\ i \in DOMAIN r.e.scns /\ r.e.layout = d.layout
    <2>1. IsElf(r.e) /\ r.e.scns \in Seq(Section) /\ i \in 1 .. Len(d.scns)
          /\ Len(r.e.scns) = Len(d.scns) /\ r.e.layout = d.layout
      BY <1>1, SectionFields DEF OneScn, IsElf
    <2> HIDE DEF r
    <2> QED  BY <2>1
  <1>3. IsMeasure(Measure(r.e.scns[i].data, r.e.layout))
    <2>1. r.e.scns[i].data \in Seq(Data) /\ r.e.layout \in BOOLEAN
      BY <1>2, SectionFields DEF IsElf
    <2> QED  BY <2>1, MeasureIs
  <1>4. keep \in BOOLEAN
    OBVIOUS
  <1>5. \/ q = r /\ q.err # "NONE"
        \/ q = q1
    BY DEF ComputeSection, Then
  <1> HIDE DEF r, keep
  <1>6. OneScn(r.e, q1.e, i) /\ (q1.err = "NONE" => Placed(q1.e.scns[i], d.layout, keep, rc))
    BY <1>2, <1>3, <1>4, SetSectionIs
  <1> HIDE DEF q1, q
  <1>7. OneScn(d, q.e, i) /\ (q.err = "NONE" => Placed(q.e.scns[i], d.layout, keep, rc))
    BY <1>1, <1>5, <1>6 DEF OneScn
  <1> QED  BY <1>7 DEF q, keep

-----------------------------------------------------------------------------
(* The list of extents.                                                    *)

Extent == [type: {"EHDR", "PHDR", "SECTION", "SHDR"}, start: Nat,
           size: Nat \ {0}, scn: Nat]
Reach(x) == x.start + x.size
Exact(list) == \A j \in 1 .. Len(list) : Reach(list[j]) < Word
Ascending(list) ==
  \A i, j \in 1 .. Len(list) : i < j => Reach(list[i]) <= list[j].start

LEMMA InsertShape ==
  ASSUME NEW list \in Seq(Extent), NEW x \in Extent, NEW k \in 0 .. Len(list)
  PROVE  LET new == InsertAfter(list, k, x)
         IN  /\ new \in Seq(Extent) /\ Len(new) = Len(list) + 1
             /\ \A i \in 1 .. Len(list) + 1 :
                  /\ i <= k => new[i] = list[i]
                  /\ i = k + 1 => new[i] = x
                  /\ i > k + 1 => new[i] = list[i - 1]
  <1> DEFINE n == Len(list) + 1
             new == InsertAfter(list, k, x)
  <1>1. n \in Nat /\ Len(list) \in Nat
    OBVIOUS
  <1>2. \A i \in 1 .. Len(list) : list[i] \in Extent
    OBVIOUS
  <1>3. ASSUME NEW i \in 1 .. n
        PROVE  (IF i <= k THEN list[i] ELSE IF i = k + 1 THEN x ELSE list[i - 1]) \in Extent
    <2>1. CASE i <= k
      BY <2>1, <1>2
    <2>2. CASE i = k + 1
      BY <2>2
    <2>3. CASE i > k + 1
      <3>1. i - 1 \in 1 .. Len(list)
        BY <2>3
      <3> QED  BY <2>3, <3>1, <1>2
    <2> QED  BY <2>1, <2>2, <2>3
  <1>4. new \in [1 .. n -> Extent]
    BY <1>3 DEF InsertAfter
  <1>5. new \in Seq(Extent) /\ Len(new) = n
    BY <1>1, <1>4, FunctionIsSeq
  <1>6. ASSUME NEW i \in 1 .. n
        PROVE  /\ i <= k => new[i] = list[i]
               /\ i = k + 1 => new[i] = x
               /\ i > k + 1 => new[i] = list[i - 1]
    BY DEF InsertAfter
  <1> QED  BY <1>5, <1>6

\* An extent put where it is free: the list stays in order, as long as no
\* extent wraps round, and reaches as far as the last extent or the new one.
LEMMA InsertOrdered ==
  ASSUME NEW list \in Seq(Extent), NEW x \in Extent, NEW k,
         IsUnused(list, x, k), Ascending(list),
         Exact(InsertAfter(list, k, x))
  PROVE  LET new == InsertAfter(list, k, x)
         IN  /\ Exact(list) /\ Reach(x) < Word /\ Ascending(new)
             /\ Len(list) = 0 => Reach(new[Len(new)]) = Reach(x)
             /\ Len(list) > 0 =>
                  Reach(new[Len(new)]) = IF Reach(list[Len(list)]) < Reach(x) THEN Reach(x)
                                         ELSE Reach(list[Len(list)])
  <1> DEFINE n == Len(list)
             new == InsertAfter(list, k, x)
  <1>1. k \in 0 .. n /\ n \in Nat
    BY DEF IsUnused, StopsAt
  <1>2. /\ Len(new) = n + 1
        /\ \A i \in 1 .. n + 1 : /\ i <= k => new[i] = list[i]
                                 /\ i = k + 1 => new[i] = x
                                 /\ i > k + 1 => new[i] = list[i - 1]
    BY <1>1, InsertShape
  <1>3. \A i \in 1 .. n : list[i] \in Extent
    OBVIOUS
  <1>4. \A y \in Extent : /\ y.start \in Nat /\ y.size \in Nat /\ y.size > 0
                          /\ Reach(y) \in Nat /\ Reach(y) = y.start + y.size
                          /\ (Reach(y) < Word => End(y) = Reach(y))
    <2> TAKE y \in Extent
    <2>1. y.start \in Nat /\ y.size \in Nat /\ y.size > 0
      BY DEF Extent
    <2>2. y.start + y.size < Word => (y.start + y.size) % Word = y.start + y.size
      <3> DEFINE v == y.start + y.size
      <3>1. v \in Nat
        BY <2>1
      <3> HIDE DEF v
      <3>2. v < Word => v % Word = v
        BY <3>1, WordAssumption
      <3> QED  BY <3>2 DEF v
    <2> QED  BY <2>1, <2>2 DEF Reach, End
  <1>5. Reach(x) < Word
    <2>1. k + 1 \in 1 .. n + 1 /\ new[k + 1] = x
      BY <1>1, <1>2
    <2> HIDE DEF new
    <2> QED  BY <2>1, <1>2 DEF Exact, new
  <1>6. Exact(list)
    <2>1. ASSUME NEW i \in 1 .. n PROVE \E j \in 1 .. n + 1 : new[j] = list[i]
      <3>1. CASE i <= k
        BY <3>1, <1>1, <1>2
      <3>2. CASE i > k
        <4>1. i + 1 \in 1 .. n + 1 /\ i + 1 > k + 1 /\ (i + 1) - 1 = i
          BY <3>2, <1>1
        <4> HIDE DEF new
        <4> QED  BY <4>1, <1>2
      <3> QED  BY <3>1, <3>2, <1>1
    <2> QED  BY <2>1, <1>2 DEF Exact
  <1>7. \A i \in 1 .. k : Reach(list[i]) <= x.start
    <2> TAKE i \in 1 .. k
    <2>1. End(list[i]) <= x.start /\ i \in 1 .. n
      BY <1>1 DEF IsUnused, StopsAt
    <2>2. list[i] \in Extent /\ Reach(list[i]) < Word
      BY <2>1, <1>3, <1>6 DEF Exact
    <2> QED  BY <2>1, <2>2, <1>4
  <1>8. \A j \in k + 1 .. n : Reach(x) <= list[j].start
    <2> TAKE j \in k + 1 .. n
    <2>1. k < n /\ k + 1 \in 1 .. n
      BY <1>1
    <2>2. End(x) <= list[k + 1].start
      BY <2>1 DEF IsUnused
    <2>3. Reach(x) <= list[k + 1].start
      BY <2>2, <1>4, <1>5
    <2>4. CASE j = k + 1
      BY <2>3, <2>4
    <2>5. CASE j > k + 1
      <3>1. Reach(list[k + 1]) <= list[j].start
        BY <2>1, <2>5, <1>1 DEF Ascending
      <3>2. list[k + 1] \in Extent /\ list[j] \in Extent
        BY <2>1, <1>3, <1>1
      <3>3. list[k + 1].start <= Reach(list[k + 1])
        BY <3>2, <1>4
      <3>4. Reach(x) \in Nat /\ list[k + 1].start \in Nat /\ list[j].start \in Nat
            /\ Reach(list[k + 1]) \in Nat
        BY <3>2, <1>4
      <3> QED  BY <3>1, <3>3, <3>4, <2>3
    <2> QED  BY <2>4, <2>5, <1>1
  <1> HIDE DEF new
  <1>9. ASSUME NEW i \in 1 .. n + 1, NEW j \in 1 .. n + 1, i < j
        PROVE  Reach(new[i]) <= new[j].start
    <2>1. CASE j <= k
      BY <1>2, <2>1, <1>9, <1>1 DEF Ascending
    <2>2. CASE j = k + 1
      BY <1>2, <2>2, <1>9, <1>7, <1>1
    <2>3. CASE j > k + 1 /\ i <= k
      <3>1. i \in 1 .. n /\ j - 1 \in 1 .. n /\ i < j - 1
        BY <2>3, <1>1
      <3> QED  BY <1>2, <2>3, <3>1 DEF Ascending
    <2>4. CASE j > k + 1 /\ i = k + 1
      <3>1. j - 1 \in k + 1 .. n
        BY <2>4, <1>1
      <3> QED  BY <1>2, <2>4, <3>1, <1>8
    <2>5. CASE j > k + 1 /\ i > k + 1
      <3>1. i - 1 \in 1 .. n /\ j - 1 \in 1 .. n /\ i - 1 < j - 1
        BY <2>5, <1>9, <1>1
      <3> QED  BY <1>2, <2>5, <3>1 DEF Ascending
    <2> QED  BY <2>1, <2>2, <2>3, <2>4, <2>5, <1>1
  <1>10. Ascending(new)
    BY <1>2, <1>9 DEF Ascending
  <1>11. CASE n = 0
    <2>1. new[n + 1] = x
      BY <1>1, <1>2, <1>11
    <2> QED  BY <2>1, <1>2, <1>5, <1>6, <1>10, <1>11 DEF new
  <1>12. CASE n > 0 /\ k = n
    <2>1. new[n + 1] = x /\ Reach(list[n]) <= x.start
      BY <1>1, <1>2, <1>7, <1>12
    <2>2. Reach(list[n]) < Reach(x)
      BY <2>1, <1>3, <1>4, <1>12
    <2> QED  BY <2>1, <2>2, <1>2, <1>5, <1>6, <1>10, <1>12 DEF new
  <1>13. CASE n > 0 /\ k < n
    <2>1. new[n + 1] = list[n] /\ Reach(x) <= list[n].start
      <3>1. n + 1 > k + 1 /\ n + 1 \in 1 .. n + 1 /\ n \in k + 1 .. n /\ (n + 1) - 1 = n
        BY <1>1, <1>13
      <3> QED  BY <3>1, <1>2, <1>8
    <2>2. ~(Reach(list[n]) < Reach(x))
      BY <2>1, <1>3, <1>4, <1>13, <1>1
    <2> QED  BY <2>1, <2>2, <1>2, <1>5, <1>6, <1>10, <1>13 DEF new
  <1> QED  BY <1>1, <1>11, <1>12, <1>13

-----------------------------------------------------------------------------
(* Outcomes of the layout.                                                 *)

Ordered(r) == /\ Len(r.ext) > 0 /\ Ascending(r.ext)
              /\ r.rc = Reach(r.ext[Len(r.ext)])

IsLayout(r) ==
  /\ DOMAIN r = {"e", "err", "rc", "ext"}
  /\ IsElf(r.e) /\ r.rc \in Nat /\ r.ext \in Seq(Extent)
  /\ \A j \in 1 .. Len(r.ext) :
       r.ext[j].type = "SECTION" => r.ext[j].scn \in 1 .. Len(r.e.scns)
  /\ r.err = "NONE" => r.e.ehdr # NULL
  /\ r.err = "NONE" /\ Exact(r.ext) => Ordered(r)

\* q has the extents of r and perhaps one more.
Adds(r, q, type, scn) ==
  \A j \in 1 .. Len(q.ext) :
    \/ q.ext[j].type = type /\ q.ext[j].scn = scn
    \/ \E i \in 1 .. Len(r.ext) : q.ext[j] = r.ext[i]

LEMMA SetElf ==
  ASSUME NEW r, IsLayout(r), NEW d, IsElf(d), NEW err, err = "NONE" => r.err = "NONE",
         Len(d.scns) >= Len(r.e.scns), d.ehdr = r.e.ehdr
  PROVE  /\ IsLayout([r EXCEPT !.e = d, !.err = err])
         /\ err = r.err => [r EXCEPT !.e = d, !.err = err] = [r EXCEPT !.e = d]
  <1> DEFINE q == [r EXCEPT !.e = d, !.err = err]
  <1>0. err = r.err => q = [r EXCEPT !.e = d]
    <2>1. DOMAIN r = {"e", "err", "rc", "ext"}
      BY DEF IsLayout
    <2> QED  BY <2>1
  <1>1. DOMAIN q = {"e", "err", "rc", "ext"} /\ q.e = d /\ q.err = err /\ q.rc = r.rc /\ q.ext = r.ext
    BY DEF IsLayout
  <1>2. Len(d.scns) \in Nat /\ Len(r.e.scns) \in Nat
    <2>1. d.scns \in Seq(Section) /\ r.e.scns \in Seq(Section)
      BY DEF IsElf, IsLayout
    <2> QED  BY <2>1
  <1> HIDE DEF q
  <1>3. \A j \in 1 .. Len(q.ext) : q.ext[j].type = "SECTION" => q.ext[j].scn \in 1 .. Len(q.e.scns)
    BY <1>1, <1>2 DEF IsLayout
  <1>4. IsLayout(q)
    BY <1>1, <1>3 DEF IsLayout, Ordered
  <1> QED  BY <1>0, <1>4 DEF q

\* The insertion does not look at the size so far.
LEMMA AddExtentSize ==
  ASSUME NEW r, DOMAIN r = {"e", "err", "rc", "ext"},
         NEW type, NEW start, NEW size, NEW scn, NEW rc
  PROVE  [AddExtent(r, type, start, size, scn) EXCEPT !.rc = rc]
           = AddExtent([r EXCEPT !.rc = rc], type, start, size, scn)
  <1> DEFINE x == [type |-> type, start |-> start, size |-> size, scn |-> scn]
             r1 == [r EXCEPT !.rc = rc]
             k == CHOOSE n \in 0 .. Len(r.ext) : StopsAt(r.ext, start, n)
             new == InsertAfter(r.ext, k, x)
  <1>1. r1.ext = r.ext
    OBVIOUS
  <1>2. AddExtent(r1, type, start, size, scn)
          = (IF IsUnused(r.ext, x, k) THEN [r1 EXCEPT !.ext = new] ELSE [r1 EXCEPT !.err = "LAYOUT"])
    BY <1>1 DEF AddExtent
  <1>3. AddExtent(r, type, start, size, scn)
          = (IF IsUnused(r.ext, x, k) THEN [r EXCEPT !.ext = new] ELSE [r EXCEPT !.err = "LAYOUT"])
    BY DEF AddExtent
  <1> HIDE DEF x, k, new
  <1>4. [r1 EXCEPT !.ext = new] = [[r EXCEPT !.ext = new] EXCEPT !.rc = rc]
    OBVIOUS
  <1>5. [r1 EXCEPT !.err = "LAYOUT"] = [[r EXCEPT !.err = "LAYOUT"] EXCEPT !.rc = rc]
    OBVIOUS
  <1> HIDE DEF r1
  <1> QED  BY <1>2, <1>3, <1>4, <1>5 DEF r1

LEMMA AddExtentKeepsSize ==
  ASSUME NEW r, DOMAIN r = {"e", "err", "rc", "ext"},
         NEW type, NEW start, NEW size, NEW scn
  PROVE  AddExtent(r, type, start, size, scn).rc = r.rc
  BY DEF AddExtent

LEMMA AddExtentIs ==
  ASSUME NEW r, IsLayout(r), r.err = "NONE",
         NEW type, NEW start, NEW size, NEW scn, NEW rc \in Nat,
         [type |-> type, start |-> start, size |-> size, scn |-> scn] \in Extent,
         type = "SECTION" => scn \in 1 .. Len(r.e.scns),
         start + size < Word => rc = IF r.rc < start + size THEN start + size ELSE r.rc
  PROVE  LET q == AddExtent([r EXCEPT !.rc = rc], type, start, size, scn)
         IN  IsLayout(q) /\ q.e = r.e /\ Adds(r, q, type, scn)
  <1> DEFINE x == [type |-> type, start |-> start, size |-> size, scn |-> scn]
             r1 == [r EXCEPT !.rc = rc]
             k == CHOOSE n \in 0 .. Len(r.ext) : StopsAt(r.ext, start, n)
             new == InsertAfter(r.ext, k, x)
             q == AddExtent(r1, type, start, size, scn)
  <1>1. DOMAIN r1 = {"e", "err", "rc", "ext"} /\ r1.e = r.e /\ r1.err = "NONE" /\ r1.rc = rc
        /\ r1.ext = r.ext
    BY DEF IsLayout
  <1>2. q = (IF IsUnused(r.ext, x, k) THEN [r1 EXCEPT !.ext = new] ELSE [r1 EXCEPT !.err = "LAYOUT"])
    BY <1>1 DEF AddExtent
  <1>4. x \in Extent /\ x.start = start /\ x.size = size /\ x.type = type /\ x.scn = scn
    OBVIOUS
  <1> HIDE DEF x, k, new
  <1> HIDE DEF q, r1
  <1>6. CASE ~IsUnused(r.ext, x, k)
    <2>1. DOMAIN q = {"e", "err", "rc", "ext"} /\ q.e = r.e /\ q.err = "LAYOUT" /\ q.rc = rc
          /\ q.ext = r.ext
      BY <1>1, <1>2, <1>6
    <2>2. IsLayout(q)
      BY <2>1 DEF IsLayout
    <2>3. Adds(r, q, type, scn)
      BY <2>1 DEF Adds
    <2> QED  BY <2>1, <2>2, <2>3 DEF q, r1, x
  <1>7. CASE IsUnused(r.ext, x, k)
    <2>1. DOMAIN q = {"e", "err", "rc", "ext"} /\ q.e = r.e /\ q.err = "NONE" /\ q.rc = rc
          /\ q.ext = new
      BY <1>1, <1>2, <1>7
    <2>2. r.ext \in Seq(Extent) /\ k \in 0 .. Len(r.ext)
      BY <1>7 DEF IsLayout, IsUnused, StopsAt
    <2>3. /\ new \in Seq(Extent) /\ Len(new) = Len(r.ext) + 1
          /\ \A i \in 1 .. Len(r.ext) + 1 :
               /\ i <= k => new[i] = r.ext[i]
               /\ i = k + 1 => new[i] = x
               /\ i > k + 1 => new[i] = r.ext[i - 1]
      BY <2>2, <1>4, InsertShape DEF new
    <2>4. Adds(r, q, type, scn)
      <3>1. ASSUME NEW j \in 1 .. Len(r.ext) + 1
            PROVE  new[j] = x \/ \E i \in 1 .. Len(r.ext) : new[j] = r.ext[i]
        <4>1. CASE j <= k
          <5>1. j \in 1 .. Len(r.ext) /\ new[j] = r.ext[j]
            BY <4>1, <2>2, <2>3
          <5> QED  BY <5>1
        <4>2. CASE j = k + 1
          BY <4>2, <2>3
        <4>3. CASE j > k + 1
          <5>1. j - 1 \in 1 .. Len(r.ext) /\ new[j] = r.ext[j - 1]
            BY <4>3, <2>2, <2>3
          <5> QED  BY <5>1
        <4> QED  BY <4>1, <4>2, <4>3, <2>2
      <3> QED  BY <3>1, <2>1, <2>3, <1>4 DEF Adds
    <2>5. \A j \in 1 .. Len(q.ext) : q.ext[j].type = "SECTION" => q.ext[j].scn \in 1 .. Len(q.e.scns)
      BY <2>4, <2>1, <1>4 DEF Adds, IsLayout
    <2>6. ASSUME Exact(q.ext) PROVE Ordered(q)
      <3>1. Exact(InsertAfter(r.ext, k, x))
        BY <2>6, <2>1 DEF new
      <3>2. Exact(r.ext)
        <4>1. \A i \in 1 .. Len(r.ext) : \E j \in 1 .. Len(new) : new[j] = r.ext[i]
          <5> TAKE i \in 1 .. Len(r.ext)
          <5>1. CASE i <= k
            BY <5>1, <2>2, <2>3
          <5>2. CASE i > k
            <6>1. i + 1 \in 1 .. Len(r.ext) + 1 /\ i + 1 > k + 1 /\ (i + 1) - 1 = i
              BY <5>2, <2>2
            <6> QED  BY <6>1, <2>3
          <5> QED  BY <5>1, <5>2, <2>2
        <4> QED  BY <4>1, <3>1 DEF Exact, new
      <3>3. Ordered(r)
        BY <3>2 DEF IsLayout
      <3>4. /\ Reach(x) < Word /\ Ascending(new)
            /\ Reach(new[Len(new)]) = IF Reach(r.ext[Len(r.ext)]) < Reach(x) THEN Reach(x)
                                      ELSE Reach(r.ext[Len(r.ext)])
        BY <3>1, <3>3, <2>2, <1>4, <1>7, InsertOrdered DEF Ordered, new
      <3>5. rc = IF r.rc < Reach(x) THEN Reach(x) ELSE r.rc
        BY <3>4, <1>4 DEF Reach
      <3> QED  BY <3>3, <3>4, <3>5, <2>1, <2>2, <2>3 DEF Ordered
    <2>7. IsLayout(q)
      BY <2>1, <2>3, <2>5, <2>6 DEF IsLayout
    <2> QED  BY <2>1, <2>4, <2>7 DEF q, r1, x
  <1> QED  BY <1>6, <1>7

-----------------------------------------------------------------------------
(* The steps of the layout.                                                *)

LEMMA AddEhdrIs ==
  ASSUME NEW d, IsElf(d), d.ehdr # NULL
  PROVE  LET q == AddEhdr(d)
         IN  /\ IsLayout(q) /\ q.e.scns = d.scns /\ q.e.layout = d.layout
             /\ q.e.cmd = d.cmd
             /\ \A j \in 1 .. Len(q.ext) : q.ext[j].type # "SECTION"
  <1> DEFINE h == d.ehdr
             d1 == [d EXCEPT !.order = h.data, !.ehdr.shentsize = 1]
             r == [e |-> d1, err |-> "NONE", rc |-> EhdrSize, ext |-> <<>>]
             x == [type |-> "EHDR", start |-> 0, size |-> EhdrSize, scn |-> 0]
             k == CHOOSE n \in 0 .. Len(r.ext) : StopsAt(r.ext, 0, n)
             new == InsertAfter(r.ext, k, x)
             q == AddEhdr(d)
  <1>1. h \in Header
    BY DEF IsElf
  <1>2. IsElf(d1) /\ d1.ehdr # NULL /\ d1.scns = d.scns /\ d1.layout = d.layout
        /\ d1.cmd = d.cmd
    <2>1. [h EXCEPT !.shentsize = 1] \in Header /\ h.data \in {"NONE", "LSB", "MSB"}
      BY <1>1 DEF Header
    <2>2. [h EXCEPT !.shentsize = 1] # NULL
      BY <2>1, ProgramsAssumption
    <2> DEFINE h1 == [h EXCEPT !.shentsize = 1]
    <2>3. d1 = [d EXCEPT !.order = h.data, !.ehdr = h1]
      OBVIOUS
    <2> HIDE DEF h1, h, d1
    <2>4. h1 \in Header /\ h1 # NULL /\ h.data \in {"NONE", "LSB", "MSB"}
      BY <2>1, <2>2 DEF h1
    <2> QED  BY <2>3, <2>4 DEF IsElf
  <1> HIDE DEF d1
  <1>3. x \in Extent /\ r.ext \in Seq(Extent) /\ Len(r.ext) = 0
    BY DEF EhdrSize, Extent
  <1>4. \/ q.e = d /\ q.err # "NONE" /\ q.ext = <<>> /\ q.rc = 0 /\ DOMAIN q = {"e", "err", "rc", "ext"}
        \/ q = [r EXCEPT !.err = "LAYOUT"]
        \/ IsUnused(r.ext, x, k) /\ q = [r EXCEPT !.ext = new]
    BY DEF AddEhdr, AddExtent, d1
  <1>5. CASE q.e = d /\ q.err # "NONE" /\ q.ext = <<>> /\ q.rc = 0 /\ DOMAIN q = {"e", "err", "rc", "ext"}
    BY <1>5 DEF IsLayout
  <1>6. CASE q = [r EXCEPT !.err = "LAYOUT"]
    <2>1. q.e = d1 /\ q.err = "LAYOUT" /\ q.ext = <<>> /\ q.rc = 2 /\ DOMAIN q = {"e", "err", "rc", "ext"}
      BY <1>6 DEF EhdrSize
    <2> HIDE DEF q
    <2>2. IsLayout(q)
      BY <2>1, <1>2 DEF IsLayout
    <2> QED  BY <2>1, <2>2, <1>2 DEF q
  <1>7. CASE IsUnused(r.ext, x, k) /\ q = [r EXCEPT !.ext = new]
    <2>1. q.e = d1 /\ q.err = "NONE" /\ q.ext = new /\ q.rc = 2 /\ DOMAIN q = {"e", "err", "rc", "ext"}
      BY <1>7 DEF EhdrSize
    <2>2. k = 0
      BY <1>7, <1>3 DEF IsUnused, StopsAt
    <2> HIDE DEF k
    <2>3. new \in Seq(Extent) /\ Len(new) = 1 /\ new[1] = x
      <3> DEFINE list == r.ext
      <3>1. list \in Seq(Extent) /\ Len(list) = 0 /\ k \in 0 .. Len(list)
            /\ new = InsertAfter(list, k, x)
        BY <1>3, <2>2
      <3> HIDE DEF list, x, new
      <3>2. /\ new \in Seq(Extent) /\ Len(new) = Len(list) + 1
            /\ \A i \in 1 .. Len(list) + 1 : i = k + 1 => new[i] = x
        BY <1>3, <3>1, InsertShape
      <3> QED  BY <2>2, <3>1, <3>2
    <2> HIDE DEF q, new
    <2>4. Ordered(q)
      BY <2>1, <2>3 DEF Ordered, Ascending, Reach, EhdrSize
    <2>5. \A j \in 1 .. Len(q.ext) : q.ext[j].type # "SECTION"
      BY <2>1, <2>3
    <2>6. IsLayout(q)
      BY <2>1, <2>3, <2>4, <2>5, <1>2 DEF IsLayout
    <2> QED  BY <2>1, <2>5, <2>6, <1>2 DEF q
  <1> QED  BY <1>4, <1>5, <1>6, <1>7

LEMMA AddPhdrIs ==
  ASSUME NEW r, IsLayout(r), \A j \in 1 .. Len(r.ext) : r.ext[j].type # "SECTION"
  PROVE  LET q == ResyncTables(r)
         IN  /\ IsLayout(q) /\ q.e.scns = r.e.scns /\ q.e.layout = r.e.layout
             /\ q.e.cmd = r.e.cmd
             /\ \A j \in 1 .. Len(q.ext) : q.ext[j].type # "SECTION"
  <1> DEFINE d == r.e
             p == Phdrs(r.e)
             n == d.nphdr
             off == IF d.layout THEN d.ehdr.phoff ELSE Roundup(r.rc, TabAlign)
             r1 == [r EXCEPT !.e = p.e]
             r2 == [r1 EXCEPT !.rc = off + n]
             x == [type |-> "PHDR", start |-> off, size |-> n, scn |-> 0]
             q == ResyncTables(r)
  <1>1. /\ IsElf(d) /\ r.rc \in Nat /\ DOMAIN r = {"e", "err", "rc", "ext"}
        /\ (r.err = "NONE" => d.ehdr # NULL) /\ n \in Nat
    BY DEF IsLayout, IsElf
  <1>2. \/ q = r
        \/ \E code : code # "NONE" /\ q = [r EXCEPT !.err = code]
        \/ /\ r.err = "NONE" /\ n # 0 /\ (d.layout => r.rc <= off)
           /\ q = AddExtent(r2, "PHDR", off, n, 0)
    <2>1. \A code \in Fatal : code # "NONE"
      BY DEF Fatal
    <2>2. \/ q = r
          \/ q = [r EXCEPT !.err = "LAYOUT"]
          \/ p.err \in Fatal /\ q = [r EXCEPT !.err = p.err]
          \/ /\ r.err = "NONE" /\ n # 0 /\ (d.layout => ~(r.rc > off))
             /\ q = AddExtent([r EXCEPT !.e = p.e, !.rc = off + n], "PHDR", off, n, 0)
      BY DEF ResyncTables, AddPhdr
    <2>3. [r EXCEPT !.e = p.e, !.rc = off + n] = r2
      OBVIOUS
    <2>4. d.layout /\ d.ehdr # NULL => off \in Nat
      BY <1>1 DEF IsElf, Header
    <2> HIDE DEF p, off, q, d, n, r2
    <2> QED  BY <2>1, <2>2, <2>3, <2>4, <1>1
  <1>3. CASE q = r
    BY <1>3
  <1>4. CASE \E code : code # "NONE" /\ q = [r EXCEPT !.err = code]
    <2>1. PICK code : code # "NONE" /\ q = [r EXCEPT !.err = code]
      BY <1>4
    <2> HIDE DEF q
    <2>2. DOMAIN q = DOMAIN r /\ q.e = r.e /\ q.rc = r.rc /\ q.ext = r.ext /\ q.err = code
      BY <2>1, <1>1
    <2>3. IsLayout(q)
      BY <2>1, <2>2 DEF IsLayout
    <2> QED  BY <2>2, <2>3 DEF q
  <1>5. CASE /\ r.err = "NONE" /\ n # 0 /\ (d.layout => r.rc <= off)
             /\ q = AddExtent(r2, "PHDR", off, n, 0)
    <2>1. IsElf(p.e) /\ p.e.ehdr = d.ehdr /\ p.e.scns = d.scns /\ p.e.layout = d.layout
          /\ p.e.cmd = d.cmd
      BY <1>1, <1>5, PhdrsRead DEF Reads
    <2>2. Len(p.e.scns) >= Len(r.e.scns)
      <3>1. d.scns \in Seq(Section)
        BY <1>1 DEF IsElf
      <3> QED  BY <2>1, <3>1
    <2> DEFINE err == r.err
    <2>3. IsLayout(r1) /\ r1.e = p.e /\ r1.err = "NONE" /\ r1.rc = r.rc /\ r1.ext = r.ext
      <3> HIDE DEF p
      <3>1. IsLayout([r EXCEPT !.e = p.e, !.err = r.err])
            /\ [r EXCEPT !.e = p.e, !.err = r.err] = r1
        BY <2>1, <2>2, SetElf
      <3> QED  BY <3>1, <1>1, <1>5
    <2>4. off \in Nat /\ r.rc <= off
      <3>1. CASE d.layout
        BY <3>1, <1>1, <1>5 DEF IsElf, Header
      <3>2. CASE ~d.layout
        <4>1. TabAlign \in Nat /\ TabAlign > 0
          BY DEF TabAlign
        <4> QED  BY <3>2, <4>1, <1>1, RoundupIs
      <3> QED  BY <3>1, <3>2
    <2> HIDE DEF off, r1, p, n, d, q
    <2>5. /\ off + n \in Nat /\ x \in Extent
          /\ off + n = IF r1.rc < off + n THEN off + n ELSE r1.rc
      <3>1. n \in Nat \ {0}
        BY <1>1, <1>5
      <3>2. x \in Extent
        BY <3>1, <2>4 DEF Extent
      <3> QED  BY <3>1, <3>2, <2>3, <2>4, <1>1
    <2>6. IsLayout(q) /\ q.e = r1.e /\ Adds(r1, q, "PHDR", 0)
      <3>1. q = AddExtent([r1 EXCEPT !.rc = off + n], "PHDR", off, n, 0)
        BY <1>5
      <3> DEFINE type == "PHDR"
                 scn == 0
                 rc == off + n
      <3>2. /\ rc \in Nat /\ [type |-> type, start |-> off, size |-> n, scn |-> scn] \in Extent
            /\ (off + n < Word => rc = IF r1.rc < off + n THEN off + n ELSE r1.rc)
            /\ type # "SECTION"
        BY <2>5
      <3>4. /\ q = AddExtent([r1 EXCEPT !.rc = rc], type, off, n, scn)
        BY <3>1
      <3> HIDE DEF type, scn, rc, x
      <3>3. /\ IsLayout(AddExtent([r1 EXCEPT !.rc = rc], type, off, n, scn))
            /\ AddExtent([r1 EXCEPT !.rc = rc], type, off, n, scn).e = r1.e
            /\ Adds(r1, AddExtent([r1 EXCEPT !.rc = rc], type, off, n, scn), type, scn)
        BY <2>3, <3>2, AddExtentIs
      <3> QED  BY <3>3, <3>4 DEF type, scn
    <2>7. \A j \in 1 .. Len(q.ext) : q.ext[j].type # "SECTION"
      BY <2>6, <2>3 DEF Adds
    <2>8. q.e.scns = r.e.scns /\ q.e.layout = r.e.layout /\ q.e.cmd = r.e.cmd
      BY <2>1, <2>3, <2>6 DEF d
    <2> QED  BY <2>6, <2>7, <2>8 DEF q
  <1> QED  BY <1>2, <1>3, <1>4, <1>5

\* A section header that elf_update() computed or checked.
Aligned(sh, layout, keep) ==
  sh.align > 0 /\ ~(layout /\ keep) => sh.off % sh.align = 0

LEMMA ResyncOneIs ==
  ASSUME NEW r, IsLayout(r), NEW i \in DOMAIN r.e.scns
  PROVE  LET q == ResyncOne(r, i)
             keep == r.e.scns[i].data = <<>> /\ ~r.e.scns[i].dirty
         IN  /\ IsLayout(q) /\ OneScn(r.e, q.e, i) /\ Adds(r, q, "SECTION", i)
             /\ q.ext = r.ext \/ Aligned(q.e.scns[i].sh, r.e.layout, keep)
  <1> DEFINE d == r.e
             keep == d.scns[i].data = <<>> /\ ~d.scns[i].dirty
             c == ComputeSection(d, i, r.rc)
             s == c.e.scns[i]
             end == (s.soff + s.ssize) % Word
             r1 == [r EXCEPT !.e = c.e, !.err = c.err]
             rc == IF r.rc < end THEN end ELSE r.rc
             q1 == AddExtent(r1, "SECTION", s.soff, s.ssize, i)
             q == ResyncOne(r, i)
  <1>1. IsElf(d) /\ r.rc \in Nat /\ DOMAIN r = {"e", "err", "rc", "ext"}
    BY DEF IsLayout
  <1>2. OneScn(d, d, i) /\ Adds(r, r, "SECTION", i)
    BY <1>1 DEF OneScn, Adds
  <1>3. OneScn(d, c.e, i) /\ (c.err = "NONE" => Placed(s, d.layout, keep, r.rc))
    BY <1>1, ComputeSectionIs
  <1>4. \/ q = r
        \/ r.err = "NONE" /\ q = r1
        \/ /\ r.err = "NONE" /\ c.err = "NONE" /\ s.ssize # 0
           /\ q = [q1 EXCEPT !.rc = IF @ < end THEN end ELSE @]
    BY DEF ResyncOne, AddSection
  <1>5. CASE q = r
    BY <1>2, <1>5
  <1> HIDE DEF c
  <1>6. ASSUME r.err = "NONE" PROVE IsLayout(r1)
    <2>1. Len(c.e.scns) >= Len(d.scns) /\ IsElf(c.e) /\ c.e.ehdr = d.ehdr
      <3>1. Len(d.scns) \in Nat
        BY <1>1, SectionFields
      <3> QED  BY <3>1, <1>3 DEF OneScn
    <2> QED  BY <2>1, <1>6, SetElf
  <1>7. r1.e = c.e /\ r1.err = c.err /\ r1.rc = r.rc /\ r1.ext = r.ext
        /\ DOMAIN r1 = {"e", "err", "rc", "ext"}
    BY <1>1
  <1>8. CASE r.err = "NONE" /\ q = r1
    <2>1. Adds(r, r1, "SECTION", i)
      BY <1>7 DEF Adds
    <2> HIDE DEF r1
    <2> QED  BY <2>1, <1>3, <1>6, <1>7, <1>8
  <1>9. CASE /\ r.err = "NONE" /\ c.err = "NONE" /\ s.ssize # 0
             /\ q = [q1 EXCEPT !.rc = IF @ < end THEN end ELSE @]
    <2>1. i \in 1 .. Len(c.e.scns) /\ i \in DOMAIN c.e.scns /\ Len(c.e.scns) = Len(d.scns)
      <3>1. i \in 1 .. Len(d.scns) /\ Len(c.e.scns) = Len(d.scns) /\ c.e.scns \in Seq(Section)
        BY <1>1, <1>3, SectionFields DEF OneScn, IsElf
      <3> QED  BY <3>1
    <2>2. s.soff \in Nat /\ s.ssize \in Nat \ {0} /\ i \in Nat
      <3>1. IsElf(c.e)
        BY <1>3 DEF OneScn
      <3>2. s.soff \in Nat /\ s.ssize \in Nat
        BY <3>1, <2>1, SectionFields, SMTT(30)
      <3> QED  BY <3>2, <2>1, <1>9, SMTT(30)
    <2> DEFINE start == s.soff
               size == s.ssize
               type == "SECTION"
    <2>3. [type |-> type, start |-> start, size |-> size, scn |-> i] \in Extent
      BY <2>2 DEF Extent
    <2>4. end \in Nat /\ (start + size < Word => end = start + size)
      <3> DEFINE v == start + size
      <3>1. v \in Nat
        BY <2>2
      <3> HIDE DEF v
      <3>2. v % Word \in Nat /\ (v < Word => v % Word = v)
        BY <3>1, WordAssumption
      <3> QED  BY <3>2 DEF v
    <2> HIDE DEF end, start, size, type, r1
    <2>5. q = AddExtent([r1 EXCEPT !.rc = rc], type, start, size, i)
      <3>1. /\ [AddExtent(r1, type, start, size, i) EXCEPT !.rc = rc]
                 = AddExtent([r1 EXCEPT !.rc = rc], type, start, size, i)
            /\ AddExtent(r1, type, start, size, i).rc = r1.rc
        <4> HIDE DEF rc
        <4>1. DOMAIN r1 = {"e", "err", "rc", "ext"}
          BY <1>7
        <4>2. [AddExtent(r1, type, start, size, i) EXCEPT !.rc = rc]
                 = AddExtent([r1 EXCEPT !.rc = rc], type, start, size, i)
          BY <4>1, AddExtentSize
        <4>3. AddExtent(r1, type, start, size, i).rc = r1.rc
          BY <4>1, AddExtentKeepsSize
        <4> QED  BY <4>2, <4>3
      <3>2. q = [AddExtent(r1, type, start, size, i) EXCEPT
                   !.rc = IF AddExtent(r1, type, start, size, i).rc < end THEN end
                          ELSE AddExtent(r1, type, start, size, i).rc]
        BY <1>9 DEF start, size, type
      <3> QED  BY <3>1, <3>2, <1>7
    <2>6. rc \in Nat /\ (start + size < Word => rc = IF r1.rc < start + size THEN start + size ELSE r1.rc)
      BY <2>4, <1>1, <1>7
    <2> HIDE DEF rc, q, s
    <2>7. /\ IsLayout(AddExtent([r1 EXCEPT !.rc = rc], type, start, size, i))
          /\ AddExtent([r1 EXCEPT !.rc = rc], type, start, size, i).e = r1.e
          /\ Adds(r1, AddExtent([r1 EXCEPT !.rc = rc], type, start, size, i), type, i)
      <3>1. IsLayout(r1) /\ r1.err = "NONE" /\ i \in 1 .. Len(r1.e.scns)
        BY <1>6, <1>7, <1>9, <2>1
      <3> QED  BY <3>1, <2>3, <2>6, AddExtentIs
    <2>8. IsLayout(q) /\ q.e = c.e /\ Adds(r, q, "SECTION", i)
      BY <2>5, <2>7, <1>7 DEF Adds, type
    <2>9. Aligned(q.e.scns[i].sh, d.layout, keep)
      BY <2>8, <1>3, <1>9 DEF Placed, Aligned, s
    <2> QED  BY <2>8, <2>9, <1>3 DEF q
  <1> QED  BY <1>4, <1>5, <1>8, <1>9

LEMMA AddSectionsLoop ==
  ASSUME NEW r0, Len(r0.e.scns) \in Nat
  PROVE  \E r : /\ AddSections(r0) = r[Len(r0.e.scns)]
                /\ r[0] = r0
                /\ \A i \in 1 .. Len(r0.e.scns) : r[i] = ResyncOne(r[i - 1], i)
  <1> DEFINE len == Len(r0.e.scns)
             Next1(f, i) == IF i = 0 THEN r0 ELSE ResyncOne(f[i - 1], i)
             Has(n) == \E f : f = [i \in 0 .. n |-> Next1(f, i)]
             S == {n \in Nat : Has(n)}
             r == CHOOSE f : f = [i \in 0 .. len |-> Next1(f, i)]
  <1>1. 0 \in S
    <2> DEFINE f == [i \in 0 .. 0 |-> r0]
    <2>1. f = [i \in 0 .. 0 |-> Next1(f, i)]
      OBVIOUS
    <2> QED  BY <2>1
  <1>2. ASSUME NEW n \in Nat, n \in S PROVE n + 1 \in S
    <2>1. PICK f : f = [i \in 0 .. n |-> Next1(f, i)]
      BY <1>2
    <2> DEFINE g == [i \in 0 .. n + 1 |-> IF i <= n THEN f[i] ELSE ResyncOne(f[n], n + 1)]
    <2>2. ASSUME NEW i \in 0 .. n + 1 PROVE g[i] = Next1(g, i)
      <3>1. CASE i = 0
        BY <2>1, <3>1
      <3>2. CASE i \in 1 .. n
        <4>1. g[i] = f[i] /\ g[i - 1] = f[i - 1] /\ f[i] = Next1(f, i)
          BY <2>1, <3>2
        <4> QED  BY <4>1, <3>2
      <3>3. CASE i = n + 1
        <4>1. g[i] = ResyncOne(f[n], n + 1) /\ g[n] = f[n] /\ i - 1 = n /\ i # 0
          BY <3>3
        <4> QED  BY <4>1, <3>3
      <3> QED  BY <3>1, <3>2, <3>3
    <2>3. g = [i \in 0 .. n + 1 |-> Next1(g, i)]
      <3>1. g = [i \in 0 .. n + 1 |-> g[i]]
        OBVIOUS
      <3> HIDE DEF g, Next1
      <3> QED  BY <2>2, <3>1
    <2> HIDE DEF g
    <2> QED  BY <2>3
  <1> HIDE DEF Has
  <1>3. Has(len)
    <2>1. Nat \subseteq S
      BY <1>1, <1>2, NatSet
    <2> QED  BY <2>1
  <1>4. r = [i \in 0 .. len |-> Next1(r, i)]
    BY <1>3 DEF Has
  <1>5. AddSections(r0) = r[len]
    BY DEF AddSections
  <1> HIDE DEF r
  <1>6. len \in Nat
    OBVIOUS
  <1> HIDE DEF len
  <1>7. r[0] = r0
    BY <1>4, <1>6
  <1>8. ASSUME NEW i \in 1 .. len PROVE r[i] = ResyncOne(r[i - 1], i)
    <2>1. i \in 0 .. len /\ i # 0
      BY <1>6
    <2> QED  BY <1>4, <2>1
  <1> QED  BY <1>5, <1>7, <1>8 DEF len

\* The layout r is of the descriptor d: the sections that are in it are
\* aligned, unless d had them kept.
AllAligned(r, d) ==
  /\ r.e.cmd = d.cmd
  /\ \A j \in 1 .. Len(r.ext) :
       LET i == r.ext[j].scn
       IN  r.ext[j].type = "SECTION" =>
             Aligned(r.e.scns[i].sh, d.layout, d.scns[i].data = <<>> /\ ~d.scns[i].dirty)

LEMMA AddSectionsIs ==
  ASSUME NEW r0, IsLayout(r0), \A j \in 1 .. Len(r0.ext) : r0.ext[j].type # "SECTION"
  PROVE  LET q == AddSections(r0) IN IsLayout(q) /\ AllAligned(q, r0.e)
  <1> DEFINE d == r0.e
             len == Len(d.scns)
             keep(i) == d.scns[i].data = <<>> /\ ~d.scns[i].dirty
             Inv(q, n) ==
               /\ IsLayout(q) /\ Len(q.e.scns) = len /\ q.e.layout = d.layout
               /\ q.e.cmd = d.cmd
               /\ \A i \in n + 1 .. len : q.e.scns[i] = d.scns[i]
               /\ \A j \in 1 .. Len(q.ext) : q.ext[j].type = "SECTION" =>
                    /\ q.ext[j].scn \in 1 .. n
                    /\ Aligned(q.e.scns[q.ext[j].scn].sh, d.layout, keep(q.ext[j].scn))
  <1>1. len \in Nat /\ d.scns \in Seq(Section)
    <2>1. d.scns \in Seq(Section)
      BY DEF IsLayout, IsElf
    <2> QED  BY <2>1
  <1>2. PICK r : /\ AddSections(r0) = r[len]
                 /\ r[0] = r0
                 /\ \A i \in 1 .. len : r[i] = ResyncOne(r[i - 1], i)
    BY <1>1, AddSectionsLoop
  <1> DEFINE S == {n \in Nat : n <= len => Inv(r[n], n)}
  <1>3. 0 \in S
    BY <1>2, <1>1
  <1>4. ASSUME NEW n \in Nat, n \in S PROVE n + 1 \in S
    <2> SUFFICES ASSUME n + 1 <= len PROVE Inv(r[n + 1], n + 1)
      <3> HIDE DEF Inv
      <3> QED  OBVIOUS
    <2> DEFINE p == r[n]
               q == ResyncOne(p, n + 1)
    <2>1. Inv(p, n)
      <3>1. n <= len
        <4> HIDE DEF len
        <4> QED  BY <1>1
      <3> HIDE DEF Inv, len
      <3> QED  BY <3>1, <1>4
    <2>2. r[n + 1] = q /\ n + 1 \in 1 .. len /\ n + 1 \in n + 1 .. len
      BY <1>1, <1>2
    <2>3. n + 1 \in DOMAIN p.e.scns /\ p.e.scns[n + 1] = d.scns[n + 1]
      <3>1. p.e.scns \in Seq(Section) /\ Len(p.e.scns) = len
        BY <2>1 DEF IsLayout, IsElf
      <3>2. n + 1 \in DOMAIN p.e.scns
        BY <2>2, <3>1
      <3>3. p.e.scns[n + 1] = d.scns[n + 1]
        <4> HIDE DEF keep
        <4> QED  BY <2>1, <2>2
      <3> QED  BY <3>2, <3>3
    <2> HIDE DEF p
    <2>4. /\ IsLayout(q) /\ OneScn(p.e, q.e, n + 1) /\ Adds(p, q, "SECTION", n + 1)
          /\ q.ext = p.ext \/ Aligned(q.e.scns[n + 1].sh, d.layout, keep(n + 1))
      BY <2>1, <2>3, ResyncOneIs
    <2> HIDE DEF q
    <2>5. Len(q.e.scns) = len /\ q.e.layout = d.layout /\ q.e.cmd = d.cmd
          /\ \A i \in 1 .. len : i # n + 1 => q.e.scns[i] = p.e.scns[i]
      BY <2>1, <2>4 DEF OneScn
    <2>6. \A i \in n + 2 .. len : q.e.scns[i] = d.scns[i]
      BY <2>5, <2>1
    <2>7. ASSUME NEW j \in 1 .. Len(q.ext), q.ext[j].type = "SECTION"
          PROVE  /\ q.ext[j].scn \in 1 .. n + 1
                 /\ Aligned(q.e.scns[q.ext[j].scn].sh, d.layout, keep(q.ext[j].scn))
      <3> HIDE DEF keep
      <3>1. ASSUME NEW i \in 1 .. Len(p.ext), q.ext[j] = p.ext[i]
            PROVE  /\ q.ext[j].scn \in 1 .. n + 1
                   /\ Aligned(q.e.scns[q.ext[j].scn].sh, d.layout, keep(q.ext[j].scn))
        <4>0. p.ext[i].type = "SECTION"
          BY <2>7, <3>1
        <4>1. p.ext[i].scn \in 1 .. n
              /\ Aligned(p.e.scns[p.ext[i].scn].sh, d.layout, keep(p.ext[i].scn))
          BY <2>1, <4>0
        <4>2. p.ext[i].scn \in 1 .. len /\ p.ext[i].scn # n + 1
          <5> DEFINE k == p.ext[i].scn
          <5>1. k \in 1 .. n
            BY <4>1
          <5> HIDE DEF k, len
          <5>2. k \in 1 .. len /\ k # n + 1
            BY <5>1, <1>1
          <5> QED  BY <5>2 DEF k
        <4>3. q.e.scns[p.ext[i].scn] = p.e.scns[p.ext[i].scn]
          BY <4>2, <2>5
        <4> QED  BY <4>1, <4>3, <3>1, SMTT(30)
      <3>2. CASE \E i \in 1 .. Len(p.ext) : q.ext[j] = p.ext[i]
        BY <3>1, <3>2
      <3>3. CASE ~\E i \in 1 .. Len(p.ext) : q.ext[j] = p.ext[i]
        <4>1. q.ext[j].scn = n + 1
          BY <2>4, <3>3 DEF Adds
        <4>2. q.ext # p.ext
          BY <3>3
        <4> QED  BY <4>1, <4>2, <2>4
      <3> QED  BY <3>2, <3>3
    <2>8. Inv(q, n + 1)
      <3>1. \A i \in (n + 1) + 1 .. len : q.e.scns[i] = d.scns[i]
        BY <2>6
      <3> HIDE DEF keep
      <3> QED  BY <2>4, <2>5, <2>7, <3>1
    <2> QED  BY <2>2, <2>8
  <1>5. Inv(r[len], len)
    <2>1. Nat \subseteq S
      <3> HIDE DEF S
      <3> QED  BY <1>3, <1>4, NatSet
    <2> HIDE DEF Inv
    <2>2. len \in S
      <3> HIDE DEF S, len
      <3> QED  BY <2>1, <1>1
    <2> QED  BY <2>2, <1>1
  <1> DEFINE q == r[len]
  <1>6. Inv(q, len) /\ AddSections(r0) = q
    BY <1>2, <1>5
  <1> HIDE DEF q
  <1>7. ASSUME NEW j \in 1 .. Len(q.ext), q.ext[j].type = "SECTION"
        PROVE  Aligned(q.e.scns[q.ext[j].scn].sh, d.layout, keep(q.ext[j].scn))
    <2> HIDE DEF keep
    <2> QED  BY <1>6, <1>7
  <1>8. AllAligned(q, d)
    BY <1>6, <1>7 DEF AllAligned
  <1> QED  BY <1>6, <1>8

-----------------------------------------------------------------------------
(* The counts in the headers.                                              *)

LEMMA HeaderField ==
  ASSUME NEW h \in Header, NEW n \in Nat,
         NEW f \in {"phoff", "shoff", "phnum", "shnum", "shstrndx", "shentsize"}
  PROVE  [h EXCEPT ![f] = n] \in Header
  <1>1. CASE f = "phoff"
    BY <1>1 DEF Header
  <1>2. CASE f = "shoff"
    BY <1>2 DEF Header
  <1>3. CASE f = "phnum"
    BY <1>3 DEF Header
  <1>4. CASE f = "shnum"
    BY <1>4 DEF Header
  <1>5. CASE f = "shstrndx"
    BY <1>5 DEF Header
  <1>6. CASE f = "shentsize"
    BY <1>6 DEF Header
  <1> QED  BY <1>1, <1>2, <1>3, <1>4, <1>5, <1>6

LEMMA ShdrField ==
  ASSUME NEW sh \in Shdr, NEW n \in Nat, NEW f \in {"size", "info", "link"}
  PROVE  LET q == [sh EXCEPT ![f] = n]
         IN  q \in Shdr /\ q.off = sh.off /\ q.align = sh.align /\ q.type = sh.type
  <1>1. CASE f = "size"
    BY <1>1 DEF Shdr
  <1>2. CASE f = "info"
    BY <1>2 DEF Shdr
  <1>3. CASE f = "link"
    BY <1>3 DEF Shdr
  <1> QED  BY <1>1, <1>2, <1>3

\* A new executable header of a descriptor that has one.
LEMMA SetEhdr ==
  ASSUME NEW d, IsElf(d), NEW h \in Header
  PROVE  LET q == [d EXCEPT !.ehdr = h]
         IN  /\ IsElf(q) /\ q.ehdr = h /\ q.scns = d.scns /\ q.layout = d.layout
             /\ q.cmd = d.cmd /\ q.phdr = d.phdr /\ q.nphdr = d.nphdr
             /\ q.nscn = d.nscn /\ q.raw = d.raw
  <1>1. h # NULL
    BY ProgramsAssumption
  <1> QED  BY <1>1 DEF IsElf

\* Numbers of q differ from those of d, in headers, and section header 0 may
\* be new.
Counted(d, q) ==
  /\ IsElf(q) /\ q.layout = d.layout /\ q.cmd = d.cmd /\ q.ehdr # NULL
  /\ Len(q.scns) >= Len(d.scns)
  /\ \A i \in 1 .. Len(d.scns) : /\ q.scns[i].sh.off = d.scns[i].sh.off
                                 /\ q.scns[i].sh.align = d.scns[i].sh.align

\* A record, and not just any value with the fields of one.
IsRecord(d) == d = [f \in DOMAIN d |-> d[f]]

\* Number n is in the headers of d: in the executable header, or behind the
\* escape value in section header 0.
HasCount(d, f, limit, sf, n, escape) ==
  IF n < limit THEN d.ehdr[f] = n
  ELSE d.ehdr[f] = escape /\ d.scns # <<>> /\ d.scns[1].sh[sf] = n /\ d.scns[1].dirty = TRUE

\* q is d but for field f of the executable header and field sf of section
\* header 0, which may be new.
OneCount(d, q, f, sf) ==
  /\ q.cmd = d.cmd /\ q.layout = d.layout /\ q.phdr = d.phdr /\ q.nphdr = d.nphdr
  /\ q.nscn = d.nscn /\ q.raw = d.raw /\ q.order = d.order /\ q.loaded = d.loaded
  /\ \A g \in DOMAIN NewEhdr : g # f => q.ehdr[g] = d.ehdr[g]
  /\ Len(q.scns) = Len(d.scns) \/ (Len(d.scns) = 0 /\ Len(q.scns) = 1)
  /\ \A i \in 2 .. Len(d.scns) : q.scns[i] = d.scns[i]
  /\ d.scns # <<>> => /\ \A g \in DOMAIN NoShdr : g # sf => q.scns[1].sh[g] = d.scns[1].sh[g]
                      /\ d.scns[1].dirty => q.scns[1].dirty

\* _libelf_setphnum() and the others: the number is where it is looked for,
\* and nothing else has changed.
LEMMA SetCountDoes ==
  ASSUME NEW d, IsElf(d), d.ehdr # NULL, NEW n \in Nat, NEW escape \in Nat, NEW limit,
         NEW f \in {"phnum", "shnum", "shstrndx"}, NEW sf \in {"size", "info", "link"}
  PROVE  LET q == SetCount(d, f, limit, sf, n, escape)
         IN  /\ IsElf(q) /\ q.ehdr # NULL /\ IsRecord(q)
             /\ HasCount(q, f, limit, sf, n, escape) /\ OneCount(d, q, f, sf)
  <1> DEFINE d1 == IF d.scns = <<>> THEN [d EXCEPT !.scns = <<Scn(NoShdr)>>] ELSE d
             h == [d.ehdr EXCEPT ![f] = n]
             g == [d.ehdr EXCEPT ![f] = escape]
             q == SetCount(d, f, limit, sf, n, escape)
             s == d1.scns[1]
             sh == [s.sh EXCEPT ![sf] = n]
             s1 == [s EXCEPT !.sh = sh, !.dirty = TRUE]
             e1 == [d1 EXCEPT !.ehdr = g]
  <1>1. d.ehdr \in Header /\ d.scns \in Seq(Section) /\ Len(d.scns) \in Nat
    BY DEF IsElf
  <1>2. /\ h \in Header /\ g \in Header /\ h # NULL /\ g # NULL
        /\ h[f] = n /\ g[f] = escape
        /\ \A k \in DOMAIN NewEhdr : k # f => h[k] = d.ehdr[k] /\ g[k] = d.ehdr[k]
    <2>1. f \in {"phoff", "shoff", "phnum", "shnum", "shstrndx", "shentsize"}
      OBVIOUS
    <2>2. h \in Header /\ g \in Header
      BY <1>1, <2>1, HeaderField
    <2>3. f \in DOMAIN d.ehdr /\ DOMAIN NewEhdr = DOMAIN d.ehdr
      BY <1>1 DEF Header, NewEhdr
    <2>4. /\ h[f] = n /\ g[f] = escape
          /\ \A k \in DOMAIN NewEhdr : k # f => h[k] = d.ehdr[k] /\ g[k] = d.ehdr[k]
      BY <2>3
    <2> HIDE DEF h, g
    <2> QED  BY <2>2, <2>4, ProgramsAssumption
  <1>3. /\ IsElf(d1) /\ d1.layout = d.layout /\ d1.cmd = d.cmd /\ 1 \in DOMAIN d1.scns
        /\ d1.phdr = d.phdr /\ d1.nphdr = d.nphdr /\ d1.nscn = d.nscn /\ d1.raw = d.raw
        /\ d1.order = d.order /\ d1.loaded = d.loaded /\ d1.ehdr = d.ehdr
        /\ d1.scns = d.scns \/ (Len(d.scns) = 0 /\ Len(d1.scns) = 1 /\ d.scns = <<>>)
    <2>1. CASE d.scns = <<>>
      <3>1. Scn(NoShdr) \in Section
        <4>1. NoShdr \in Shdr
          BY DEF NoShdr, Shdr
        <4> QED  BY <4>1, NewSection
      <3> DEFINE t == Scn(NoShdr)
      <3> HIDE DEF t
      <3>2. <<t>> \in Seq(Section) /\ Len(<<t>>) = 1 /\ DOMAIN <<t>> = 1 .. 1
        BY <3>1 DEF t
      <3>3. d1 = [d EXCEPT !.scns = <<t>>] /\ Len(d.scns) = 0
        BY <2>1 DEF t
      <3> HIDE DEF d1
      <3>4. /\ IsElf(d1) /\ d1.scns = <<t>> /\ d1.layout = d.layout /\ d1.cmd = d.cmd
            /\ d1.phdr = d.phdr /\ d1.nphdr = d.nphdr /\ d1.nscn = d.nscn /\ d1.raw = d.raw
            /\ d1.order = d.order /\ d1.loaded = d.loaded /\ d1.ehdr = d.ehdr
        BY <3>2, <3>3 DEF IsElf
      <3> QED  BY <3>2, <3>3, <3>4, <2>1
    <2>2. CASE d.scns # <<>>
      <3>1. d1 = d /\ Len(d.scns) >= 1 /\ DOMAIN d.scns = 1 .. Len(d.scns)
        BY <2>2, <1>1
      <3> HIDE DEF d1
      <3> QED  BY <3>1, <1>1
    <2> QED  BY <2>1, <2>2
  <1>4. q = IF n < limit THEN [d EXCEPT !.ehdr = h] ELSE [e1 EXCEPT !.scns[1] = s1]
    <2>1. /\ "ehdr" \in DOMAIN d /\ "ehdr" \in DOMAIN d1 /\ "scns" \in DOMAIN d1
          /\ d1.ehdr = d.ehdr /\ 1 \in DOMAIN d1.scns /\ d1.scns[1] \in Section
      <3>1. d1.scns[1] \in Section /\ 1 \in DOMAIN d1.scns
        <4> HIDE DEF d1
        <4> QED  BY <1>3, SectionFields
      <3> HIDE DEF SetCount
      <3> QED  BY <3>1 DEF IsElf
    <2>2. q = IF n < limit THEN [d EXCEPT !.ehdr[f] = n]
              ELSE [d1 EXCEPT !.ehdr[f] = escape, !.scns[1].sh[sf] = n, !.scns[1].dirty = TRUE]
      BY DEF SetCount
    <2>3. [d EXCEPT !.ehdr[f] = n] = [d EXCEPT !.ehdr = h]
      BY <2>1
    <2> HIDE DEF d1
    <2>4. [d1 EXCEPT !.ehdr[f] = escape, !.scns[1].sh[sf] = n, !.scns[1].dirty = TRUE]
            = [e1 EXCEPT !.scns[1] = s1]
      <3>1. "sh" \in DOMAIN s /\ "dirty" \in DOMAIN s
        BY <2>1 DEF Section
      <3>2. e1.scns = d1.scns /\ "scns" \in DOMAIN e1
        BY <2>1
      <3>3. [s EXCEPT !.sh[sf] = n, !.dirty = TRUE] = s1
        BY <3>1
      <3>4. [d1 EXCEPT !.ehdr[f] = escape] = e1
        BY <2>1
      <3>5. [d1 EXCEPT !.ehdr[f] = escape, !.scns[1].sh[sf] = n, !.scns[1].dirty = TRUE]
              = [e1 EXCEPT !.scns[1].sh[sf] = n, !.scns[1].dirty = TRUE]
        BY <3>4
      <3> HIDE DEF e1
      <3>6. [e1 EXCEPT !.scns[1].sh[sf] = n, !.scns[1].dirty = TRUE]
              = [e1 EXCEPT !.scns[1] = [s EXCEPT !.sh[sf] = n, !.dirty = TRUE]]
        BY <3>1, <3>2, <2>1
      <3> QED  BY <3>3, <3>5, <3>6
    <2> HIDE DEF e1, s1, h
    <2> QED  BY <2>2, <2>3, <2>4
  <1>5. CASE n < limit
    <2> HIDE DEF h, q
    <2>1. q = [d EXCEPT !.ehdr = h]
      BY <1>4, <1>5
    <2>2. /\ IsElf(q) /\ q.ehdr = h /\ q.scns = d.scns /\ q.layout = d.layout /\ q.cmd = d.cmd
          /\ q.phdr = d.phdr /\ q.nphdr = d.nphdr /\ q.nscn = d.nscn /\ q.raw = d.raw
      BY <1>2, <2>1, SetEhdr
    <2>3. q.order = d.order /\ q.loaded = d.loaded /\ IsRecord(q)
      BY <2>1 DEF IsElf, IsRecord
    <2>4. HasCount(q, f, limit, sf, n, escape)
      BY <2>2, <1>2, <1>5 DEF HasCount
    <2>5. OneCount(d, q, f, sf)
      BY <2>2, <2>3, <1>2 DEF OneCount
    <2> QED  BY <2>2, <2>3, <2>4, <2>5, <1>2 DEF q
  <1>6. CASE ~(n < limit)
    <2> HIDE DEF d1, h, g, q
    <2>1. q = [e1 EXCEPT !.scns[1] = s1]
      BY <1>4, <1>6
    <2>2. /\ IsElf(e1) /\ e1.ehdr = g /\ e1.scns = d1.scns /\ e1.layout = d1.layout
          /\ e1.cmd = d1.cmd /\ e1.phdr = d1.phdr /\ e1.nphdr = d1.nphdr
          /\ e1.nscn = d1.nscn /\ e1.raw = d1.raw
      BY <1>3, <1>2, SetEhdr
    <2>3. s \in Section /\ s.sh \in Shdr
      BY <1>3, SectionFields
    <2>4. /\ sh \in Shdr /\ sh[sf] = n
          /\ \A k \in DOMAIN NoShdr : k # sf => sh[k] = s.sh[k]
      <3>1. sh \in Shdr
        BY <2>3, ShdrField
      <3>2. DOMAIN s.sh = DOMAIN NoShdr /\ sf \in DOMAIN s.sh
        BY <2>3 DEF Shdr, NoShdr
      <3> HIDE DEF s
      <3> QED  BY <3>1, <3>2
    <2>5. e1.order = d1.order /\ e1.loaded = d1.loaded
      BY <1>3 DEF IsElf
    <2>6. IsRecord(q)
      <3> HIDE DEF e1, s1
      <3> QED  BY <2>1 DEF IsRecord
    <2> HIDE DEF sh, e1, s
    <2>7. s1 \in Section /\ s1.sh = sh /\ s1.dirty = TRUE
      BY <2>3, <2>4 DEF Section
    <2> HIDE DEF s1
    <2>8. OneScn(e1, q, 1) /\ q.scns[1] = s1
      BY <1>3, <2>1, <2>2, <2>7, SetScn
    <2>9. IsElf(q) /\ q.ehdr = g /\ Len(q.scns) = Len(d1.scns) /\ q.scns \in Seq(Section)
      BY <2>8, <2>2 DEF OneScn, IsElf
    <2>10. q.scns # <<>>
      <3>1. Len(d1.scns) # 0
        BY <1>3, SectionFields
      <3> QED  BY <2>9, <3>1
    <2>11. HasCount(q, f, limit, sf, n, escape)
      BY <2>4, <2>7, <2>8, <2>9, <2>10, <1>2, <1>6 DEF HasCount
    <2>12. OneCount(d, q, f, sf)
      <3>1. /\ q.cmd = d.cmd /\ q.layout = d.layout /\ q.phdr = d.phdr /\ q.nphdr = d.nphdr
            /\ q.nscn = d.nscn /\ q.raw = d.raw /\ q.order = d.order /\ q.loaded = d.loaded
        BY <2>2, <2>5, <2>8, <1>3 DEF OneScn
      <3>2. Len(q.scns) = Len(d.scns) \/ (Len(d.scns) = 0 /\ Len(q.scns) = 1)
        BY <2>9, <1>3
      <3>3. \A i \in 2 .. Len(d.scns) : q.scns[i] = d.scns[i]
        <4> TAKE i \in 2 .. Len(d.scns)
        <4>1. d1.scns = d.scns /\ i \in 1 .. Len(e1.scns) /\ i # 1
          BY <1>1, <1>3, <2>2
        <4> QED  BY <4>1, <2>2, <2>8 DEF OneScn
      <3>4. d.scns # <<>> => /\ \A k \in DOMAIN NoShdr : k # sf => q.scns[1].sh[k] = d.scns[1].sh[k]
                             /\ d.scns[1].dirty => q.scns[1].dirty
        BY <1>3, <2>4, <2>7, <2>8 DEF s
      <3> QED  BY <3>1, <3>2, <3>3, <3>4, <2>9, <1>2 DEF OneCount
    <2> QED  BY <2>6, <2>9, <2>11, <2>12, <1>2 DEF q
  <1> QED  BY <1>5, <1>6

LEMMA SetCountIs ==
  ASSUME NEW d, IsElf(d), d.ehdr # NULL, NEW n \in Nat, NEW escape \in Nat,
         NEW f \in {"phnum", "shnum", "shstrndx"}, NEW sf \in {"size", "info", "link"},
         NEW limit
  PROVE  Counted(d, SetCount(d, f, limit, sf, n, escape))
  <1> DEFINE q == SetCount(d, f, limit, sf, n, escape)
  <1>1. IsElf(q) /\ q.ehdr # NULL /\ OneCount(d, q, f, sf)
    BY SetCountDoes
  <1>2. Len(d.scns) \in Nat /\ "off" \in DOMAIN NoShdr /\ "align" \in DOMAIN NoShdr
        /\ d.scns \in Seq(Section)
    BY DEF IsElf, NoShdr
  <1> HIDE DEF q
  <1>3. ASSUME NEW i \in 1 .. Len(d.scns)
        PROVE  q.scns[i].sh.off = d.scns[i].sh.off /\ q.scns[i].sh.align = d.scns[i].sh.align
    <2>1. CASE i = 1
      <3>1. d.scns # <<>>
        BY <1>2
      <3> QED  BY <2>1, <3>1, <1>1, <1>2 DEF OneCount
    <2>2. CASE i # 1
      BY <2>2, <1>1, <1>2 DEF OneCount
    <2> QED  BY <2>1, <2>2
  <1>4. Len(q.scns) >= Len(d.scns)
    BY <1>1, <1>2 DEF OneCount
  <1> QED  BY <1>1, <1>3, <1>4 DEF Counted, OneCount, q

-----------------------------------------------------------------------------
(* The layout.                                                             *)

\* The section header table takes its place after the sections, or where
\* the application puts it.
LEMMA AddShdrIs ==
  ASSUME NEW r, IsLayout(r), NEW n \in Nat
  PROVE  LET q == AddShdr(r, n)
         IN  IsLayout(q) /\ q.e = r.e /\ Adds(r, q, "SHDR", 0)
  <1> DEFINE off == IF r.e.layout THEN r.e.ehdr.shoff ELSE Roundup(r.rc, TabAlign)
             rc == IF off + n > r.rc THEN off + n ELSE r.rc
             type == "SHDR"
             q == AddShdr(r, n)
  <1>1. /\ DOMAIN r = {"e", "err", "rc", "ext"} /\ r.rc \in Nat
        /\ r.err = "NONE" => r.e.ehdr \in Header
    BY DEF IsLayout, IsElf
  <1>2. Adds(r, r, "SHDR", 0)
    BY DEF Adds
  <1>3. \/ q = r
        \/ r.err = "NONE" /\ q = [r EXCEPT !.err = "LAYOUT"]
        \/ r.err = "NONE" /\ n # 0 /\ q = AddExtent([r EXCEPT !.rc = rc], type, off, n, 0)
    BY DEF AddShdr
  <1>4. CASE q = r
    BY <1>2, <1>4
  <1>5. CASE r.err = "NONE" /\ q = [r EXCEPT !.err = "LAYOUT"]
    <2>1. q.e = r.e /\ q.ext = r.ext /\ q.rc = r.rc /\ q.err = "LAYOUT"
          /\ DOMAIN q = {"e", "err", "rc", "ext"}
      BY <1>1, <1>5
    <2> HIDE DEF q
    <2> QED  BY <2>1 DEF IsLayout, Adds, q
  <1>6. CASE r.err = "NONE" /\ n # 0 /\ q = AddExtent([r EXCEPT !.rc = rc], type, off, n, 0)
    <2>1. off \in Nat
      <3>1. Roundup(r.rc, TabAlign) \in Nat
        BY <1>1, RoundupIs DEF TabAlign
      <3>2. r.e.ehdr.shoff \in Nat
        BY <1>1, <1>6 DEF Header
      <3> QED  BY <3>1, <3>2
    <2> HIDE DEF off
    <2>2. rc \in Nat /\ (off + n < Word => rc = IF r.rc < off + n THEN off + n ELSE r.rc)
      BY <2>1, <1>1
    <2>3. [type |-> type, start |-> off, size |-> n, scn |-> 0] \in Extent
      BY <2>1, <1>6 DEF Extent
    <2>4. type # "SECTION"
      OBVIOUS
    <2> HIDE DEF rc, type, q
    <2>5. r.err = "NONE"
      BY <1>6
    <2> DEFINE p == AddExtent([r EXCEPT !.rc = rc], type, off, n, 0)
    <2>6. IsLayout(p) /\ p.e = r.e /\ Adds(r, p, type, 0)
      BY <2>1, <2>2, <2>3, <2>4, <2>5, AddExtentIs
    <2>7. q = p
      BY <1>6
    <2> HIDE DEF p
    <2> QED  BY <2>6, <2>7 DEF q, type
  <1> QED  BY <1>3, <1>4, <1>5, <1>6

\* Another descriptor under the layout, with sections at the same offsets.
LEMMA CountedLayout ==
  ASSUME NEW r, IsLayout(r), NEW d, Counted(r.e, d), NEW b, AllAligned(r, b)
  PROVE  IsLayout([r EXCEPT !.e = d]) /\ AllAligned([r EXCEPT !.e = d], b)
  <1> DEFINE q == [r EXCEPT !.e = d]
  <1>1. /\ DOMAIN q = {"e", "err", "rc", "ext"} /\ q.e = d /\ q.err = r.err
        /\ q.rc = r.rc /\ q.ext = r.ext
    BY DEF IsLayout
  <1>2. Len(r.e.scns) \in Nat /\ Len(d.scns) \in Nat
    BY DEF IsLayout, Counted, IsElf
  <1>3. \A i \in 1 .. Len(r.e.scns) : i \in 1 .. Len(d.scns)
    BY <1>2 DEF Counted
  <1> HIDE DEF q
  <1>4. IsLayout(q)
    <2>1. \A j \in 1 .. Len(q.ext) : q.ext[j].type = "SECTION" => q.ext[j].scn \in 1 .. Len(q.e.scns)
      BY <1>1, <1>3 DEF IsLayout
    <2>2. IsElf(q.e) /\ q.e.ehdr # NULL /\ q.rc \in Nat /\ q.ext \in Seq(Extent)
      BY <1>1 DEF IsLayout, Counted
    <2>3. q.err = "NONE" /\ Exact(q.ext) => Ordered(q)
      BY <1>1 DEF IsLayout, Ordered
    <2> QED  BY <1>1, <2>1, <2>2, <2>3 DEF IsLayout
  <1>5. AllAligned(q, b)
    <2>0. q.e.cmd = b.cmd
      BY <1>1 DEF Counted, AllAligned
    <2> SUFFICES ASSUME NEW j \in 1 .. Len(q.ext), q.ext[j].type = "SECTION"
                 PROVE  LET i == q.ext[j].scn
                        IN  Aligned(q.e.scns[i].sh, b.layout, b.scns[i].data = <<>> /\ ~b.scns[i].dirty)
      BY <2>0 DEF AllAligned
    <2> DEFINE i == q.ext[j].scn
               keep == b.scns[i].data = <<>> /\ ~b.scns[i].dirty
    <2>1. Aligned(r.e.scns[i].sh, b.layout, keep) /\ i \in 1 .. Len(r.e.scns)
      BY <1>1 DEF AllAligned, IsLayout
    <2> HIDE DEF keep, i
    <2>2. q.e.scns[i].sh.off = r.e.scns[i].sh.off /\ q.e.scns[i].sh.align = r.e.scns[i].sh.align
      BY <2>1, <1>1 DEF Counted
    <2>3. Aligned(q.e.scns[i].sh, b.layout, keep)
      BY <2>1, <2>2 DEF Aligned
    <2> QED  BY <2>3 DEF keep, i
  <1> QED  BY <1>4, <1>5 DEF q

LEMMA CountedTwice ==
  ASSUME NEW d, NEW p, NEW q, Counted(d, p), Counted(p, q), IsElf(d)
  PROVE  Counted(d, q)
  <1>1. Len(d.scns) \in Nat /\ Len(p.scns) \in Nat /\ Len(q.scns) \in Nat
    BY DEF Counted, IsElf
  <1>2. \A i \in 1 .. Len(d.scns) : i \in 1 .. Len(p.scns)
    BY <1>1 DEF Counted
  <1> QED  BY <1>1, <1>2 DEF Counted

LEMMA StartOfIs ==
  ASSUME NEW r, r.ext \in Seq(Extent), NEW type
  PROVE  StartOf(r, type) \in Nat
  <1> DEFINE at == {k \in DOMAIN r.ext : r.ext[k].type = type}
             k == CHOOSE n \in at : TRUE
  <1>1. CASE at = {}
    BY <1>1 DEF StartOf
  <1>2. CASE at # {}
    <2>1. k \in DOMAIN r.ext
      BY <1>2
    <2>2. r.ext[k] \in Extent
      <3> HIDE DEF k
      <3> QED  BY <2>1
    <2>3. StartOf(r, type) = r.ext[k].start
      BY <1>2 DEF StartOf
    <2> HIDE DEF k
    <2> QED  BY <2>2, <2>3 DEF Extent
  <1> QED  BY <1>1, <1>2

LEMMA ResyncCountsIs ==
  ASSUME NEW r, IsLayout(r), NEW b, AllAligned(r, b), NEW nphdr \in Nat, NEW nscn \in Nat
  PROVE  LET q == ResyncCounts(r, nphdr, nscn) IN IsLayout(q) /\ AllAligned(q, b)
  <1> DEFINE d1 == SetPhnum(r.e, nphdr)
             d == SetShnum(d1, nscn)
             h1 == [d.ehdr EXCEPT !.phoff = StartOf(r, "PHDR")]
             h2 == [h1 EXCEPT !.shoff = StartOf(r, "SHDR")]
             d2 == [d EXCEPT !.ehdr = h2]
             q == ResyncCounts(r, nphdr, nscn)
  <1>1. CASE r.err # "NONE"
    BY <1>1 DEF ResyncCounts
  <1>2. CASE r.err = "NONE"
    <2>1. IsElf(r.e) /\ r.e.ehdr # NULL
      BY <1>2 DEF IsLayout
    <2>2. XNUM \in Nat /\ LORESERVE \in Nat
      BY NumberingAssumption
    <2>3. Counted(r.e, d1)
      BY <2>1, <2>2, SetCountIs DEF SetPhnum
    <2> HIDE DEF d1
    <2>4. Counted(d1, d)
      <3>1. IsElf(d1) /\ d1.ehdr # NULL /\ 0 \in Nat
        BY <2>3 DEF Counted
      <3> QED  BY <3>1, <2>2, SetCountIs DEF SetShnum
    <2>5. Counted(r.e, d)
      BY <2>1, <2>3, <2>4, CountedTwice
    <2>6. \/ q = [r EXCEPT !.e = d]
          \/ q = [r EXCEPT !.e = [d EXCEPT !.ehdr.phoff = StartOf(r, "PHDR"),
                                           !.ehdr.shoff = StartOf(r, "SHDR")]]
      BY <1>2 DEF ResyncCounts, d1
    <2> HIDE DEF d
    <2>7. [d EXCEPT !.ehdr.phoff = StartOf(r, "PHDR"), !.ehdr.shoff = StartOf(r, "SHDR")] = d2
      <3>1. "ehdr" \in DOMAIN d
        BY <2>5 DEF Counted, IsElf
      <3> QED  BY <3>1
    <2>8. Counted(r.e, d2)
      <3>1. d.ehdr \in Header /\ IsElf(d)
        BY <2>5 DEF Counted, IsElf
      <3>2. StartOf(r, "PHDR") \in Nat /\ StartOf(r, "SHDR") \in Nat
        BY StartOfIs DEF IsLayout
      <3>3. h2 \in Header
        BY <3>1, <3>2 DEF Header
      <3> HIDE DEF h2
      <3>4. h2 # NULL
        BY <3>3, ProgramsAssumption
      <3> HIDE DEF d2
      <3>5. IsElf(d2) /\ d2.ehdr = h2 /\ d2.scns = d.scns /\ d2.layout = d.layout /\ d2.cmd = d.cmd
        BY <3>1, <3>3, SetEhdr DEF d2
      <3> QED  BY <3>4, <3>5, <2>5 DEF Counted
    <2> HIDE DEF d2, q
    <2>9. q = [r EXCEPT !.e = d] \/ q = [r EXCEPT !.e = d2]
      BY <2>6, <2>7
    <2>10. IsLayout(q) /\ AllAligned(q, b)
      BY <2>5, <2>8, <2>9, CountedLayout
    <2> QED  BY <2>10 DEF q
  <1> QED  BY <1>1, <1>2

\* What _libelf_resync_elf() computes, whatever it was given.
LEMMA ResyncIs ==
  ASSUME NEW d, IsElf(d)
  PROVE  LET r == Resync(d)
         IN  /\ IsLayout(r) /\ r.e.cmd = d.cmd
             /\ \A j \in 1 .. Len(r.ext) : r.ext[j].type = "SECTION" =>
                  LET i == r.ext[j].scn
                  IN  Aligned(r.e.scns[i].sh, d.layout,
                              i \in DOMAIN d.scns => d.scns[i].data = <<>> /\ ~d.scns[i].dirty)
  <1> DEFINE h == Ehdr(d)
             a == AddEhdr(h.e)
             t == ResyncTables(a)
             s == Sections(t.e)
             u == [t EXCEPT !.e = s.e, !.err = s.err]
             v == AddSections(u)
             w == AddShdr(v, h.e.nscn)
             q == ResyncCounts(w, h.e.nphdr, h.e.nscn)
             r == Resync(d)
             Good(x) == /\ x.e.cmd = d.cmd
                        /\ \A j \in 1 .. Len(x.ext) : x.ext[j].type = "SECTION" =>
                          LET i == x.ext[j].scn
                          IN  Aligned(x.e.scns[i].sh, d.layout,
                                i \in DOMAIN d.scns => d.scns[i].data = <<>> /\ ~d.scns[i].dirty)
  <1>1. Reads(d, h.e) /\ (h.err = "NONE" => h.e.ehdr # NULL)
    BY EhdrReads
  <1>2. r = IF h.err # "NONE" THEN [e |-> h.e, err |-> h.err, rc |-> 0, ext |-> <<>>]
            ELSE ResyncBody(t, h.e)
    BY DEF Resync, ResyncHeader
  <1> HIDE DEF h
  <1>3. CASE h.err # "NONE"
    <2> DEFINE x == [e |-> h.e, err |-> h.err, rc |-> 0, ext |-> <<>>]
    <2>1. /\ DOMAIN x = {"e", "err", "rc", "ext"} /\ x.e = h.e /\ x.err = h.err /\ x.rc = 0
          /\ x.ext = <<>>
      OBVIOUS
    <2>2. r = x
      BY <1>2, <1>3
    <2> HIDE DEF x, r
    <2>3. Len(x.ext) = 0 /\ x.ext \in Seq(Extent) /\ IsElf(x.e) /\ x.rc \in Nat
      BY <2>1, <1>1 DEF Reads
    <2>4. IsLayout(x) /\ Good(x)
      BY <2>1, <2>3, <1>1, <1>3 DEF IsLayout, Reads
    <2> QED  BY <2>2, <2>4 DEF r
  <1>4. CASE h.err = "NONE"
    <2>1. IsElf(h.e) /\ h.e.ehdr # NULL /\ h.e.nphdr \in Nat /\ h.e.nscn \in Nat
      BY <1>1, <1>4 DEF Reads, IsElf
    <2>2. IsLayout(a) /\ a.e.scns = h.e.scns /\ a.e.layout = h.e.layout
          /\ a.e.cmd = h.e.cmd
          /\ \A j \in 1 .. Len(a.ext) : a.ext[j].type # "SECTION"
      BY <2>1, AddEhdrIs
    <2> HIDE DEF a
    <2>3. IsLayout(t) /\ t.e.scns = a.e.scns /\ t.e.layout = a.e.layout
          /\ t.e.cmd = a.e.cmd
          /\ \A j \in 1 .. Len(t.ext) : t.ext[j].type # "SECTION"
      BY <2>2, AddPhdrIs
    <2>4. r = IF t.err # "NONE" THEN t ELSE q
      BY <1>2, <1>4 DEF ResyncBody, ResyncSections
    <2> HIDE DEF t, r
    <2>5. CASE t.err # "NONE"
      <3>1. t.e.cmd = d.cmd
        BY <1>1, <2>2, <2>3 DEF Reads
      <3> QED  BY <3>1, <2>3, <2>4, <2>5 DEF r
    <2>6. CASE t.err = "NONE"
      <3>1. Reads(t.e, s.e) /\ s.e.ehdr = t.e.ehdr
        <4>1. IsElf(t.e) /\ t.e.ehdr # NULL
          BY <2>3, <2>6 DEF IsLayout
        <4> QED  BY <4>1, SectionsRead
      <3> HIDE DEF s
      <3>2. Len(s.e.scns) >= Len(t.e.scns)
        <4>1. t.e.scns \in Seq(Section) /\ s.e.scns \in Seq(Section)
          BY <3>1, <2>3 DEF Reads, IsLayout, IsElf
        <4>2. \A i \in DOMAIN t.e.scns : i \in DOMAIN s.e.scns
          BY <3>1 DEF Reads
        <4> DEFINE x == t.e.scns
                   y == s.e.scns
        <4> HIDE DEF x, y
        <4>3. x \in Seq(Section) /\ y \in Seq(Section) /\ \A i \in DOMAIN x : i \in DOMAIN y
          BY <4>1, <4>2 DEF x, y
        <4>4. Len(y) >= Len(x)
          <5>1. Len(x) \in Nat /\ Len(y) \in Nat /\ DOMAIN x = 1 .. Len(x) /\ DOMAIN y = 1 .. Len(y)
            BY <4>3
          <5>2. CASE Len(x) = 0
            BY <5>1, <5>2
          <5>3. CASE Len(x) # 0
            <6>1. Len(x) \in 1 .. Len(y)
              BY <5>1, <5>3, <4>3
            <6> QED  BY <6>1, <5>1
          <5> QED  BY <5>2, <5>3
        <4> QED  BY <4>4 DEF x, y
      <3>3. IsLayout(u)
        <4>1. IsElf(s.e)
          BY <3>1 DEF Reads
        <4> QED  BY <4>1, <3>1, <3>2, <2>3, <2>6, SetElf
      <3>4. u.e = s.e /\ u.ext = t.ext
        BY <2>3 DEF IsLayout
      <3> HIDE DEF u
      <3>5. IsLayout(v) /\ AllAligned(v, s.e)
        BY <3>3, <3>4, <2>3, AddSectionsIs
      <3> HIDE DEF v
      <3>6. IsLayout(w) /\ w.e = v.e /\ Adds(v, w, "SHDR", 0)
        BY <3>5, <2>1, AddShdrIs
      <3> HIDE DEF w
      <3>7. AllAligned(w, s.e)
        <4>1. ASSUME NEW j \in 1 .. Len(w.ext), w.ext[j].type = "SECTION"
              PROVE  LET i == w.ext[j].scn
                     IN  Aligned(w.e.scns[i].sh, s.e.layout,
                                 s.e.scns[i].data = <<>> /\ ~s.e.scns[i].dirty)
          <5>1. PICK k \in 1 .. Len(v.ext) : w.ext[j] = v.ext[k]
            BY <3>6, <4>1 DEF Adds
          <5> QED  BY <5>1, <4>1, <3>5, <3>6 DEF AllAligned
        <4> QED  BY <4>1, <3>5, <3>6 DEF AllAligned
      <3>8. IsLayout(q) /\ AllAligned(q, s.e)
        BY <3>6, <3>7, <2>1, ResyncCountsIs
      <3> HIDE DEF q
      <3>9. /\ s.e.layout = d.layout /\ s.e.cmd = d.cmd
            /\ \A i \in DOMAIN d.scns : s.e.scns[i] = d.scns[i]
        BY <3>1, <2>2, <2>3, <1>1 DEF Reads
      <3>10. Good(q)
        <4> SUFFICES ASSUME NEW j \in 1 .. Len(q.ext), q.ext[j].type = "SECTION"
                     PROVE  Aligned(q.e.scns[q.ext[j].scn].sh, d.layout,
                              q.ext[j].scn \in DOMAIN d.scns =>
                                d.scns[q.ext[j].scn].data = <<>> /\ ~d.scns[q.ext[j].scn].dirty)
          BY <3>8, <3>9 DEF AllAligned
        <4> DEFINE i == q.ext[j].scn
        <4>1. Aligned(q.e.scns[i].sh, s.e.layout, s.e.scns[i].data = <<>> /\ ~s.e.scns[i].dirty)
          BY <3>8 DEF AllAligned
        <4> HIDE DEF i
        <4>2. Aligned(q.e.scns[i].sh, d.layout,
                      i \in DOMAIN d.scns => d.scns[i].data = <<>> /\ ~d.scns[i].dirty)
          BY <4>1, <3>9 DEF Aligned
        <4> QED  BY <4>2 DEF i
      <3>11. r = q
        BY <2>4, <2>6
      <3> QED  BY <3>8, <3>10, <3>11 DEF r
    <2> QED  BY <2>5, <2>6
  <1> QED  BY <1>3, <1>4

\* What wraps around is out of reach: the extents of the layout, as the
\* application's numbers make them, end within an unsigned 64-bit integer.
Fits == Exact(Resync(e).ext)

\* The layout is sound in every well-formed state where the sum of an
\* offset and a size does not wrap around.
LEMMA LayoutIsSound ==
  ASSUME TypeOK, Fits
  PROVE  LayoutSound
  <1> DEFINE r == Resync(e)
             n == Len(r.ext)
  <1>1. IsElf(e)
    BY DEF TypeOK
  <1>2. /\ IsLayout(r)
        /\ \A j \in 1 .. n : r.ext[j].type = "SECTION" =>
             LET i == r.ext[j].scn
             IN  Aligned(r.e.scns[i].sh, e.layout,
                         i \in DOMAIN e.scns => e.scns[i].data = <<>> /\ ~e.scns[i].dirty)
    BY <1>1, ResyncIs
  <1>3. Exact(r.ext)
    BY DEF Fits
  <1> HIDE DEF r
  <1>4. ASSUME r.err = "NONE"
        PROVE  /\ \A j \in 1 .. n - 1 : r.ext[j].start + r.ext[j].size <= r.ext[j + 1].start
               /\ r.ext[n].start + r.ext[n].size = r.rc
    <2>1. Ordered(r) /\ n \in Nat
      BY <1>2, <1>3, <1>4 DEF IsLayout
    <2>2. \A j \in 1 .. n - 1 : j \in 1 .. n /\ j + 1 \in 1 .. n /\ j < j + 1
      BY <2>1
    <2> QED  BY <2>1, <2>2 DEF Ordered, Ascending, Reach
  <1>5. ASSUME NEW j \in 1 .. n, r.ext[j].type = "SECTION"
        PROVE  LET sh == r.e.scns[r.ext[j].scn].sh
               IN  sh.align > 0 /\ ~(e.layout /\ Kept(r.ext[j].scn)) => sh.off % sh.align = 0
    BY <1>2, <1>5 DEF Aligned, Kept
  <1> QED  BY <1>4, <1>5 DEF LayoutSound, r

-----------------------------------------------------------------------------
(* A layout computed again.                                                *)

\* An outcome that has an error keeps it.
LEMMA ErrorStays ==
  ASSUME NEW len \in Nat, NEW f, \A n \in 1 .. len : f[n - 1].err # "NONE" => f[n].err # "NONE",
         f[len].err = "NONE"
  PROVE  \A n \in 0 .. len : f[n].err = "NONE"
  <1> SUFFICES ASSUME NEW n \in 0 .. len, f[n].err # "NONE" PROVE FALSE
    OBVIOUS
  <1> DEFINE S == {k \in Nat : n + k <= len => f[n + k].err # "NONE"}
  <1>1. 0 \in S
    OBVIOUS
  <1>2. ASSUME NEW k \in Nat, k \in S PROVE k + 1 \in S
    <2> SUFFICES ASSUME n + (k + 1) <= len PROVE f[n + (k + 1)].err # "NONE"
      OBVIOUS
    <2>1. f[n + k].err # "NONE"
      BY <1>2
    <2>2. n + (k + 1) \in 1 .. len /\ (n + (k + 1)) - 1 = n + k
      OBVIOUS
    <2> QED  BY <2>1, <2>2
  <1>3. len - n \in S
    <2>1. Nat \subseteq S
      <3> HIDE DEF S
      <3> QED  BY <1>1, <1>2, NatSet
    <2>2. len - n \in Nat
      OBVIOUS
    <2> HIDE DEF S
    <2> QED  BY <2>1, <2>2
  <1>4. n + (len - n) = len
    OBVIOUS
  <1> QED  BY <1>3, <1>4

\* A data descriptor that has been placed is placed where it is.
LEMMA MeasureOneTwice ==
  ASSUME NEW m, IsMeasure(m), m.err = "NONE", NEW d \in Data, NEW layout \in BOOLEAN,
         MeasureOne(m, d, layout).err = "NONE"
  PROVE  LET q == MeasureOne(m, d, layout)
         IN  /\ Len(q.data) = Len(m.data) + 1 /\ Len(m.data) \in Nat
             /\ \A j \in 1 .. Len(m.data) : q.data[j] = m.data[j]
             /\ MeasureOne(m, q.data[Len(q.data)], layout) = q
  <1> DEFINE code == DataError(d, layout)
             off == IF layout THEN d.off ELSE Roundup(m.size, d.align)
             x == [d EXCEPT !.off = off]
             out(o, y) ==
               LET end == (o + y.size) % Word
               IN  [err |-> "NONE",
                    size |-> IF end > m.size \/ ~layout THEN end ELSE m.size,
                    align |-> IF y.align > m.align THEN y.align ELSE m.align,
                    data |-> Append(m.data, [y EXCEPT !.off = o])]
             q == MeasureOne(m, d, layout)
  <1>1. code = "NONE" /\ q = out(off, d)
    <2>1. q = IF code # "NONE" THEN [m EXCEPT !.err = code, !.data = Append(@, d)]
              ELSE out(off, d)
      BY DEF MeasureOne
    <2>2. [m EXCEPT !.err = code, !.data = Append(@, d)].err = code
      BY DEF IsMeasure
    <2> HIDE DEF code, out, q
    <2> QED  BY <2>1, <2>2 DEF q
  <1>2. m.data \in Seq(Data)
    BY DEF IsMeasure
  <1>3. x.type = d.type /\ x.version = d.version /\ x.align = d.align /\ x.size = d.size
        /\ x.off = off /\ (layout => x = d) /\ [x EXCEPT !.off = off] = x
    BY DEF Data
  <1>4. q.data = Append(m.data, x)
    BY <1>1
  <1>5. /\ Len(q.data) = Len(m.data) + 1 /\ Len(m.data) \in Nat
        /\ \A j \in 1 .. Len(m.data) : q.data[j] = m.data[j]
        /\ q.data[Len(q.data)] = x
    <2> HIDE DEF q, x
    <2> QED  BY <1>2, <1>4, AppendProperties
  <1>6. DataError(x, layout) = "NONE"
    <2>1. CASE layout
      BY <2>1, <1>1, <1>3
    <2>2. CASE ~layout
      <3>1. DataError(x, layout) = DataError(d, layout)
        <4> HIDE DEF x
        <4> QED  BY <2>2, <1>3 DEF DataError
      <3> QED  BY <3>1, <1>1
    <2> QED  BY <2>1, <2>2
  <1>7. (IF layout THEN x.off ELSE Roundup(m.size, x.align)) = off
    <2>1. x.align = d.align /\ x.off = off
      BY <1>3
    <2> HIDE DEF x
    <2> QED  BY <2>1
  <1>8. MeasureOne(m, x, layout) = out(off, x)
    <2> HIDE DEF x, off
    <2> QED  BY <1>6, <1>7 DEF MeasureOne
  <1>9. out(off, x) = out(off, d)
    <2>1. [x EXCEPT !.off = off] = x /\ x = [d EXCEPT !.off = off]
      BY <1>3
    <2>2. x.size = d.size /\ x.align = d.align
      BY <1>3
    <2> HIDE DEF x, off
    <2> QED  BY <2>1, <2>2
  <1> QED  BY <1>1, <1>5, <1>8, <1>9

\* And so are all of a section.
LEMMA MeasureTwice ==
  ASSUME NEW data \in Seq(Data), NEW layout \in BOOLEAN, Measure(data, layout).err = "NONE"
  PROVE  LET m == Measure(data, layout)
         IN  Len(m.data) = Len(data) /\ Measure(m.data, layout) = m
  <1> DEFINE len == Len(data)
             new == Measure(data, layout).data
             m0 == [err |-> "NONE", size |-> 0, align |-> 0, data |-> <<>>]
  <1>1. PICK f : /\ Measure(data, layout) = f[len]
                 /\ f[0] = m0
                 /\ \A j \in 1 .. len : f[j] = MeasureOne(f[j - 1], data[j], layout)
    BY MeasureLoop
  <1>2. len \in Nat
    OBVIOUS
  <1>3. new \in Seq(Data)
    BY MeasureIs DEF IsMeasure
  <1>4. PICK g : /\ Measure(new, layout) = g[Len(new)]
                 /\ g[0] = m0
                 /\ \A j \in 1 .. Len(new) : g[j] = MeasureOne(g[j - 1], new[j], layout)
    BY <1>3, MeasureLoop
  <1>5. \A n \in 0 .. len : IsMeasure(f[n])
    <2> DEFINE S == {n \in Nat : n <= len => IsMeasure(f[n])}
    <2>1. 0 \in S
      <3>1. <<>> \in Seq(Data)
        OBVIOUS
      <3>2. IsMeasure(m0)
        BY <3>1 DEF IsMeasure
      <3> QED  BY <1>1, <3>2
    <2>2. ASSUME NEW n \in Nat, n \in S PROVE n + 1 \in S
      <3> SUFFICES ASSUME n + 1 <= len PROVE IsMeasure(f[n + 1])
        OBVIOUS
      <3>1. IsMeasure(f[n]) /\ data[n + 1] \in Data /\ n + 1 \in 1 .. len
        BY <2>2
      <3>2. f[n + 1] = MeasureOne(f[n], data[n + 1], layout)
        BY <1>1, <3>1
      <3> QED  BY <3>1, <3>2, MeasureOneIs
    <2>3. Nat \subseteq S
      <3> HIDE DEF S
      <3> QED  BY <2>1, <2>2, NatSet
    <2> QED  BY <2>3, <1>2
  <1>6. \A n \in 0 .. len : f[n].err = "NONE"
    <2>1. ASSUME NEW n \in 1 .. len, f[n - 1].err # "NONE" PROVE f[n].err # "NONE"
      <3>1. IsMeasure(f[n - 1])
        BY <1>5
      <3>2. f[n] = [f[n - 1] EXCEPT !.data = Append(@, data[n])]
        BY <1>1, <2>1 DEF MeasureOne
      <3> QED  BY <3>1, <3>2, <2>1 DEF IsMeasure
    <2>2. f[len].err = "NONE"
      BY <1>1
    <2> HIDE DEF len
    <2> QED  BY <1>2, <2>1, <2>2, ErrorStays
  <1>7. ASSUME NEW n \in Nat, n + 1 <= len
        PROVE  /\ Len(f[n + 1].data) = Len(f[n].data) + 1 /\ Len(f[n].data) \in Nat
               /\ \A j \in 1 .. Len(f[n].data) : f[n + 1].data[j] = f[n].data[j]
               /\ MeasureOne(f[n], f[n + 1].data[Len(f[n + 1].data)], layout) = f[n + 1]
    <2>1. IsMeasure(f[n]) /\ f[n].err = "NONE" /\ f[n + 1].err = "NONE" /\ data[n + 1] \in Data
      BY <1>5, <1>6, <1>7
    <2>2. f[n + 1] = MeasureOne(f[n], data[n + 1], layout)
      BY <1>1, <1>7
    <2> QED  BY <2>1, <2>2, MeasureOneTwice
  <1>8. \A n \in 0 .. len : Len(f[n].data) = n /\ \A j \in 1 .. n : f[n].data[j] = f[j].data[j]
    <2> DEFINE S == {n \in Nat : n <= len => Len(f[n].data) = n
                                  /\ \A j \in 1 .. n : f[n].data[j] = f[j].data[j]}
    <2>1. 0 \in S
      BY <1>1
    <2>2. ASSUME NEW n \in Nat, n \in S PROVE n + 1 \in S
      <3> SUFFICES ASSUME n + 1 <= len
                   PROVE  Len(f[n + 1].data) = n + 1
                          /\ \A j \in 1 .. n + 1 : f[n + 1].data[j] = f[j].data[j]
        OBVIOUS
      <3>1. Len(f[n].data) = n /\ \A j \in 1 .. n : f[n].data[j] = f[j].data[j]
        BY <2>2, <1>2
      <3>2. Len(f[n + 1].data) = n + 1 /\ \A j \in 1 .. n : f[n + 1].data[j] = f[n].data[j]
        BY <1>7, <3>1
      <3> QED  BY <3>1, <3>2
    <2>3. Nat \subseteq S
      <3> HIDE DEF S
      <3> QED  BY <2>1, <2>2, NatSet
    <2> QED  BY <2>3, <1>2
  <1>9. Len(new) = len /\ \A j \in 1 .. len : new[j] = f[j].data[j]
    BY <1>1, <1>2, <1>8
  <1>10. \A n \in 0 .. len : g[n] = f[n]
    <2> DEFINE S == {n \in Nat : n <= len => g[n] = f[n]}
    <2>1. 0 \in S
      BY <1>1, <1>4
    <2>2. ASSUME NEW n \in Nat, n \in S PROVE n + 1 \in S
      <3> SUFFICES ASSUME n + 1 <= len PROVE g[n + 1] = f[n + 1]
        OBVIOUS
      <3>1. n + 1 \in 1 .. len /\ (n + 1) - 1 = n /\ g[n] = f[n] /\ n + 1 \in 0 .. len
        BY <2>2, <1>2
      <3>2. g[n + 1] = MeasureOne(f[n], new[n + 1], layout)
        <4> HIDE DEF new
        <4> QED  BY <3>1, <1>4, <1>9
      <3>3. new[n + 1] = f[n + 1].data[Len(f[n + 1].data)]
        <4> HIDE DEF new
        <4> QED  BY <3>1, <1>8, <1>9
      <3> HIDE DEF new
      <3> QED  BY <3>2, <3>3, <1>7
    <2>3. Nat \subseteq S
      <3> HIDE DEF S
      <3> QED  BY <2>1, <2>2, NatSet
    <2> QED  BY <2>3, <1>2
  <1> HIDE DEF new, len
  <1>11. Measure(new, layout) = Measure(data, layout)
    BY <1>1, <1>2, <1>4, <1>9, <1>10
  <1> QED  BY <1>9, <1>11 DEF new, len

\* A section set to what it is.
LEMMA ScnSame ==
  ASSUME NEW D, IsElf(D), IsRecord(D), NEW i \in DOMAIN D.scns, NEW s, s = D.scns[i]
  PROVE  [D EXCEPT !.scns[i] = s] = D
  <1> DEFINE ss == D.scns
  <1>1. [ss EXCEPT ![i] = s] = ss
    <2>1. ss \in Seq(Section)
      BY DEF IsElf
    <2> HIDE DEF ss
    <2>2. ss = [k \in DOMAIN ss |-> ss[k]]
      BY <2>1
    <2> QED  BY <2>2 DEF ss
  <1>2. [D EXCEPT !.scns = ss] = D
    BY DEF IsRecord
  <1>3. [D EXCEPT !.scns[i] = s] = [D EXCEPT !.scns = [ss EXCEPT ![i] = s]]
    OBVIOUS
  <1> QED  BY <1>1, <1>2, <1>3

\* A section placed where it is.
LEMMA PlaceSame ==
  ASSUME NEW D, IsElf(D), IsRecord(D), NEW i \in DOMAIN D.scns, NEW sh, NEW data,
         D.scns[i].data = data, D.scns[i].sh = sh,
         D.scns[i].soff = sh.off, D.scns[i].ssize = sh.size
  PROVE  Place([D EXCEPT !.scns[i].data = data], i, sh) = [e |-> D, err |-> "NONE"]
  <1> DEFINE s == D.scns[i]
  <1>1. s \in Section
    BY SectionFields
  <1>2. /\ [s EXCEPT !.data = data] = s /\ [s EXCEPT !.sh = sh] = s
        /\ [s EXCEPT !.soff = sh.off] = s /\ [s EXCEPT !.ssize = sh.size] = s
    <2> DEFINE off == sh.off
               size == sh.size
    <2>1. s.data = data /\ s.sh = sh /\ s.soff = off /\ s.ssize = size
      OBVIOUS
    <2> HIDE DEF s, off, size
    <2>2. /\ [s EXCEPT !.data = data] = s /\ [s EXCEPT !.sh = sh] = s
          /\ [s EXCEPT !.soff = off] = s /\ [s EXCEPT !.ssize = size] = s
      BY <1>1, <2>1 DEF Section
    <2> QED  BY <2>2 DEF off, size
  <1>3. [D EXCEPT !.scns[i].data = data] = D
    <2>1. [D EXCEPT !.scns[i].data = data] = [D EXCEPT !.scns[i] = [s EXCEPT !.data = data]]
      OBVIOUS
    <2> QED  BY <1>2, <2>1, ScnSame
  <1>4. [D EXCEPT !.scns[i].sh = sh] = D
    <2>1. [D EXCEPT !.scns[i].sh = sh] = [D EXCEPT !.scns[i] = [s EXCEPT !.sh = sh]]
      OBVIOUS
    <2> QED  BY <1>2, <2>1, ScnSame
  <1>5. [D EXCEPT !.scns[i].soff = sh.off] = D
    <2>1. [D EXCEPT !.scns[i].soff = sh.off] = [D EXCEPT !.scns[i] = [s EXCEPT !.soff = sh.off]]
      OBVIOUS
    <2> QED  BY <1>2, <2>1, ScnSame
  <1>6. [D EXCEPT !.scns[i].ssize = sh.size] = D
    <2>1. [D EXCEPT !.scns[i].ssize = sh.size] = [D EXCEPT !.scns[i] = [s EXCEPT !.ssize = sh.size]]
      OBVIOUS
    <2> QED  BY <1>2, <2>1, ScnSame
  <1>7. Place(D, i, sh) = Ok([[[D EXCEPT !.scns[i].sh = sh]
                                  EXCEPT !.scns[i].soff = sh.off]
                                  EXCEPT !.scns[i].ssize = sh.size])
    BY DEF Place
  <1>8. Place(D, i, sh) = Ok(D)
    BY <1>4, <1>5, <1>6, <1>7
  <1> QED  BY <1>3, <1>8 DEF Ok

\* A section that has been placed is placed where it is.
LEMMA SetSectionTwice ==
  ASSUME NEW d, IsElf(d), NEW i \in DOMAIN d.scns, NEW rc \in Nat,
         NEW keep \in BOOLEAN, NEW m, IsMeasure(m),
         SetSection(d, i, rc, keep, m).err = "NONE",
         NEW D, IsElf(D), IsRecord(D), i \in DOMAIN D.scns, D.layout = d.layout,
         D.scns[i] = SetSection(d, i, rc, keep, m).e.scns[i]
  PROVE  /\ m.err = "NONE" /\ D.scns[i].data = m.data /\ D.scns[i].dirty = d.scns[i].dirty
         /\ D.scns[i].sh.type = d.scns[i].sh.type
         /\ SetSection(D, i, rc, keep, m) = [e |-> D, err |-> "NONE"]
  <1> DEFINE Al(h) == IF h.align = 0 THEN Falign(XlateShtype(h.type)) ELSE h.align
             Sh(h) == IF keep THEN [h EXCEPT !.align = Al(h)]
                      ELSE [h EXCEPT !.size = m.size, !.align =
                              IF m.align > Al(h) THEN m.align ELSE Al(h)]
             Off(h) == [h EXCEPT !.off = Roundup(rc, h.align)]
             Sane(h) == FirstError(<<
        <<m.align > Al(h), "LAYOUT">>,
        <<Al(h) = 0, "SIGFPE">>,
        <<Al(h) > 0 /\ h.off % Al(h) # 0, "LAYOUT">>,
        <<h.size < m.size, "LAYOUT">>,
        <<Falign(XlateShtype(h.type)) = 0, "SIGFPE">>,
        <<Falign(XlateShtype(h.type)) > 0 /\ h.off % Falign(XlateShtype(h.type)) # 0, "LAYOUT">> >>)
             D0(x) == [x EXCEPT !.scns[i].data = m.data]
             Out(x) ==
               IF m.err # "NONE" THEN Fail(D0(x), m.err)
               ELSE IF x.layout /\ ~keep /\ Sane(x.scns[i].sh) # "NONE"
                    THEN Fail(D0(x), Sane(x.scns[i].sh))
               ELSE IF x.layout THEN Place(D0(x), i, x.scns[i].sh)
               ELSE IF Sh(x.scns[i].sh).align = 0 THEN Fail(D0(x), "SIGFPE")
               ELSE Place(D0(x), i, Off(Sh(x.scns[i].sh)))
             s == d.scns[i]
             S == D.scns[i]
             q == SetSection(d, i, rc, keep, m)
  <1>1. q = Out(d) /\ SetSection(D, i, rc, keep, m) = Out(D)
    BY DEF SetSection
  <1>2. s.sh \in Shdr /\ m.data \in Seq(Data) /\ m.size \in Nat /\ m.align \in Nat
    BY SectionFields DEF IsMeasure
  <1>3. m.err = "NONE"
    <2>1. m.err # "NONE" => q = Fail(D0(d), m.err)
      BY <1>1
    <2>2. Fail(D0(d), m.err).err = m.err
      BY DEF Fail
    <2> HIDE DEF q, D0
    <2> QED  BY <2>1, <2>2 DEF q
  <1>4. CASE d.layout
    <2>1. keep \/ Sane(s.sh) = "NONE"
      <3>1. ~keep /\ Sane(s.sh) # "NONE" => q = Fail(D0(d), Sane(s.sh))
        BY <1>1, <1>3, <1>4
      <3> HIDE DEF Sane
      <3> QED  BY <3>1 DEF Fail
    <2>2. q = Place(D0(d), i, s.sh)
      BY <1>1, <1>3, <1>4, <2>1
    <2> HIDE DEF Sane, q
    <2>3. S.sh = s.sh /\ S.soff = s.sh.off /\ S.ssize = s.sh.size /\ S.data = m.data
          /\ S.dirty = s.dirty
      <3> DEFINE h == s.sh
                 data == m.data
      <3>1. h \in Shdr /\ data \in Seq(Data) /\ q = Place([d EXCEPT !.scns[i].data = data], i, h)
        BY <1>2, <2>2
      <3> HIDE DEF h, data
      <3>2. /\ q.e.scns[i].sh = h /\ q.e.scns[i].soff = h.off /\ q.e.scns[i].ssize = h.size
            /\ q.e.scns[i].data = data /\ q.e.scns[i].dirty = d.scns[i].dirty
        BY <3>1, PlaceIs
      <3> QED  BY <3>2 DEF h, data, q
    <2>4. Out(D) = Place(D0(D), i, S.sh)
      BY <1>3, <1>4, <2>1, <2>3
    <2>5. Place(D0(D), i, S.sh) = [e |-> D, err |-> "NONE"]
      BY <2>3, PlaceSame
    <2> QED  BY <1>1, <1>3, <2>3, <2>4, <2>5
  <1>5. CASE ~d.layout
    <2> DEFINE h == Sh(s.sh)
    <2>1. h.align # 0 /\ q = Place(D0(d), i, Off(h))
      <3>1. q = IF h.align = 0 THEN Fail(D0(d), "SIGFPE") ELSE Place(D0(d), i, Off(h))
        BY <1>1, <1>3, <1>5
      <3>2. q.err = "NONE"
        OBVIOUS
      <3> HIDE DEF q, h, D0, Off
      <3> QED  BY <3>1, <3>2 DEF Fail
    <2>2. Al(s.sh) \in Nat
      BY <1>2 DEF Falign, Shdr
    <2>3. h \in Shdr /\ h.type = s.sh.type /\ (keep \/ h.size = m.size)
          /\ h.align \in Nat /\ h.align > 0 /\ (keep \/ h.align >= m.align)
      <3>1. h \in Shdr /\ h.type = s.sh.type /\ (keep \/ h.size = m.size)
            /\ (keep \/ h.align >= m.align)
        <4> DEFINE al == Al(s.sh)
                   big == IF m.align > al THEN m.align ELSE al
        <4>1. h = IF keep THEN [s.sh EXCEPT !.align = al]
                  ELSE [s.sh EXCEPT !.size = m.size, !.align = big]
          OBVIOUS
        <4>2. al \in Nat
          BY <2>2
        <4> HIDE DEF al, h
        <4>3. big \in Nat /\ big >= m.align
          BY <1>2, <4>2
        <4> HIDE DEF big
        <4> QED  BY <1>2, <4>1, <4>2, <4>3 DEF Shdr
      <3> HIDE DEF h
      <3> QED  BY <3>1, <2>1 DEF Shdr
    <2> HIDE DEF h
    <2>4. Roundup(rc, h.align) \in Nat
      BY <2>3, RoundupIs
    <2> DEFINE h1 == Off(h)
    <2>5. h1 \in Shdr /\ h1.off = Roundup(rc, h.align) /\ h1.align = h.align /\ h1.size = h.size
          /\ h1.type = h.type
      BY <2>3, <2>4 DEF Shdr
    <2>6. Sh(h1) = h1 /\ Off(h1) = h1
      <3>1. Al(h1) = h1.align
        BY <2>3, <2>5
      <3>2. Off(h1) = h1
        <4>1. h1 = [h1 EXCEPT !.off = h1.off]
          BY <2>5 DEF Shdr
        <4> HIDE DEF h1
        <4> QED  BY <2>5, <4>1
      <3>3. [h1 EXCEPT !.align = h1.align] = h1 /\ [h1 EXCEPT !.size = h1.size, !.align = h1.align] = h1
        <4> HIDE DEF h1
        <4> QED  BY <2>5 DEF Shdr
      <3>4. ~keep => m.size = h1.size /\ ~(m.align > h1.align)
        BY <1>2, <2>3, <2>5
      <3> HIDE DEF h1, Al, Off
      <3> QED  BY <3>1, <3>2, <3>3, <3>4
    <2> HIDE DEF h1, Sane, q
    <2>7. S.sh = h1 /\ S.soff = h1.off /\ S.ssize = h1.size /\ S.data = m.data
          /\ S.dirty = s.dirty
      <3> DEFINE data == m.data
      <3>1. data \in Seq(Data) /\ q = Place([d EXCEPT !.scns[i].data = data], i, h1)
        BY <1>2, <2>1 DEF h1
      <3> HIDE DEF data
      <3>2. /\ q.e.scns[i].sh = h1 /\ q.e.scns[i].soff = h1.off /\ q.e.scns[i].ssize = h1.size
            /\ q.e.scns[i].data = data /\ q.e.scns[i].dirty = d.scns[i].dirty
        BY <3>1, <2>5, PlaceIs
      <3> QED  BY <3>2 DEF data, q
    <2>8. Out(D) = Place(D0(D), i, h1)
      <3>1. ~D.layout /\ Sh(S.sh) = h1 /\ Off(Sh(S.sh)) = h1 /\ h1.align # 0
        <4>1. h1.align # 0 /\ ~D.layout
          BY <1>5, <2>3, <2>5
        <4> HIDE DEF Sh, Off
        <4> QED  BY <4>1, <2>6, <2>7
      <3> HIDE DEF Sh, Off, D0
      <3> QED  BY <3>1, <1>3
    <2>9. Place(D0(D), i, h1) = [e |-> D, err |-> "NONE"]
      BY <2>7, PlaceSame
    <2> QED  BY <1>1, <1>3, <2>3, <2>5, <2>7, <2>8, <2>9
  <1> QED  BY <1>4, <1>5

\* A section that has been computed is computed to be what it is.
LEMMA ComputeTwice ==
  ASSUME NEW d, IsElf(d), NEW i \in DOMAIN d.scns, NEW rc \in Nat,
         ComputeSection(d, i, rc).err = "NONE",
         NEW D, IsElf(D), IsRecord(D), i \in DOMAIN D.scns,
         D.layout = d.layout, D.cmd = d.cmd,
         D.scns[i] = ComputeSection(d, i, rc).e.scns[i]
  PROVE  /\ D.scns[i].sh.type = d.scns[i].sh.type
         /\ ComputeSection(D, i, rc) = [e |-> D, err |-> "NONE"]
  <1> DEFINE Keep(x) == x.scns[i].data = <<>> /\ ~x.scns[i].dirty
             Load(x) == x.scns[i].data = <<>> /\ ~Keep(x) /\ x.cmd # "WRITE"
             keep == Keep(d)
             g == IF Load(d) THEN GetData(d, i) ELSE Ok(d)
             m == Measure(g.e.scns[i].data, g.e.layout)
             q == ComputeSection(d, i, rc)
             M == Measure(D.scns[i].data, D.layout)
             Q == ComputeSection(D, i, rc)
  <1>1. q = Then(g, LAMBDA x : SetSection(x, i, rc, keep, Measure(x.scns[i].data, x.layout)))
    BY DEF ComputeSection
  <1>2. g.err = "NONE" /\ q = SetSection(g.e, i, rc, keep, m)
    <2>1. q = IF g.err = "NONE" THEN SetSection(g.e, i, rc, keep, m) ELSE g
      BY <1>1 DEF Then
    <2> HIDE DEF q, g
    <2> QED  BY <2>1 DEF q
  <1>3. OneScn(d, g.e, i)
    <2>1. OneScn(d, d, i)
      BY DEF OneScn
    <2> QED  BY <2>1, GetDataOne DEF Ok
  <1>4. IsElf(g.e) /\ i \in DOMAIN g.e.scns /\ g.e.layout = d.layout /\ d.layout \in BOOLEAN
    <2>1. IsElf(g.e) /\ g.e.scns \in Seq(Section) /\ i \in 1 .. Len(d.scns)
          /\ Len(g.e.scns) = Len(d.scns) /\ g.e.layout = d.layout
      BY <1>3, SectionFields DEF OneScn, IsElf
    <2>2. d.layout \in BOOLEAN
      BY DEF IsElf
    <2> HIDE DEF g
    <2> QED  BY <2>1, <2>2
  <1>5. /\ g.e.scns[i].sh = d.scns[i].sh /\ g.e.scns[i].dirty = d.scns[i].dirty
        /\ g.e.scns[i].data # <<>> \/ (g.e.scns[i].data = d.scns[i].data /\ ~Load(d))
    <2>1. CASE Load(d)
      <3>1. g = GetData(d, i)
        BY <2>1
      <3>2. GetData(d, i).err = "NONE"
        BY <1>2, <3>1
      <3>3. d.scns[i] \in Section
        BY SectionFields
      <3> DEFINE s == d.scns[i]
                 x == g.e.scns[i]
                 data == x.data
      <3> HIDE DEF g
      <3>4. x = [s EXCEPT !.data = data] /\ data # <<>>
        BY <3>1, <3>2, GetDataOne
      <3>5. s \in Section
        BY <3>3
      <3> HIDE DEF s, x, data
      <3>6. x.sh = s.sh /\ x.dirty = s.dirty
        BY <3>4, <3>5 DEF Section
      <3> QED  BY <3>4, <3>6 DEF s, x, data
    <2>2. CASE ~Load(d)
      BY <2>2 DEF Ok
    <2> QED  BY <2>1, <2>2
  <1>6. keep => g.e.scns[i].data = <<>> /\ ~g.e.scns[i].dirty
    <2>1. keep => g.e = d
      BY DEF Ok
    <2> QED  BY <2>1
  <1>7. g.e.scns[i].data \in Seq(Data) /\ IsMeasure(m)
    <2>1. g.e.scns[i].data \in Seq(Data) /\ g.e.layout \in BOOLEAN
      BY <1>4, SectionFields
    <2> HIDE DEF g
    <2> QED  BY <2>1, MeasureIs
  <1> HIDE DEF q
  <1>8. keep \in BOOLEAN
    OBVIOUS
  <1> HIDE DEF g, m, keep
  <1>9. /\ m.err = "NONE" /\ D.scns[i].data = m.data /\ D.scns[i].dirty = g.e.scns[i].dirty
        /\ D.scns[i].sh.type = g.e.scns[i].sh.type
        /\ SetSection(D, i, rc, keep, m) = [e |-> D, err |-> "NONE"]
    <2>1. SetSection(g.e, i, rc, keep, m).err = "NONE"
          /\ D.scns[i] = SetSection(g.e, i, rc, keep, m).e.scns[i] /\ D.layout = g.e.layout
      BY <1>2, <1>4 DEF q
    <2> QED  BY <1>4, <1>7, <1>8, <2>1, SetSectionTwice
  <1>10. M = m /\ (m.data = <<>> <=> g.e.scns[i].data = <<>>)
    <2> DEFINE data == g.e.scns[i].data
    <2>1. Len(m.data) = Len(data) /\ Measure(m.data, d.layout) = m
      <3>1. data \in Seq(Data) /\ m = Measure(data, d.layout)
        BY <1>4, <1>7 DEF m
      <3> HIDE DEF data
      <3> QED  BY <1>4, <1>9, <3>1, MeasureTwice
    <2>2. m.data \in Seq(Data) /\ data \in Seq(Data)
      BY <1>7 DEF IsMeasure
    <2> HIDE DEF data
    <2>3. m.data = <<>> <=> data = <<>>
      BY <2>1, <2>2, EmptySeq
    <2> QED  BY <1>9, <2>1, <2>3 DEF data
  <1>11. Keep(D) = keep /\ ~Load(D)
    <2>1. D.scns[i].data = <<>> <=> g.e.scns[i].data = <<>>
      BY <1>9, <1>10
    <2>2. D.scns[i].dirty = d.scns[i].dirty
      BY <1>5, <1>9
    <2> QED  BY <1>5, <1>6, <2>1, <2>2 DEF keep
  <1>12. Q = SetSection(D, i, rc, Keep(D), M)
    <2>1. Q = Then(IF Load(D) THEN GetData(D, i) ELSE Ok(D),
                LAMBDA x : SetSection(x, i, rc, Keep(D), Measure(x.scns[i].data, x.layout)))
      BY DEF ComputeSection
    <2>2. Q = Then(Ok(D), LAMBDA x : SetSection(x, i, rc, Keep(D), Measure(x.scns[i].data, x.layout)))
      <3> HIDE DEF Keep, Load, Q
      <3> QED  BY <2>1, <1>11
    <2>3. Ok(D).err = "NONE" /\ Ok(D).e = D
      BY DEF Ok
    <2> HIDE DEF Q, Keep
    <2> QED  BY <2>2, <2>3 DEF Then
  <1> HIDE DEF Q, M, Keep
  <1>13. Q = [e |-> D, err |-> "NONE"]
    BY <1>9, <1>10, <1>11, <1>12
  <1> QED  BY <1>5, <1>9, <1>13 DEF Q

\* The insertion does not look at the descriptor.
LEMMA AddExtentElf ==
  ASSUME NEW r, DOMAIN r = {"e", "err", "rc", "ext"},
         NEW type, NEW start, NEW size, NEW scn, NEW D
  PROVE  AddExtent([r EXCEPT !.e = D], type, start, size, scn)
           = [AddExtent(r, type, start, size, scn) EXCEPT !.e = D]
  <1> DEFINE x == [type |-> type, start |-> start, size |-> size, scn |-> scn]
             r1 == [r EXCEPT !.e = D]
             k == CHOOSE n \in 0 .. Len(r.ext) : StopsAt(r.ext, start, n)
             new == InsertAfter(r.ext, k, x)
  <1>1. r1.ext = r.ext
    OBVIOUS
  <1>2. AddExtent(r1, type, start, size, scn)
          = (IF IsUnused(r.ext, x, k) THEN [r1 EXCEPT !.ext = new] ELSE [r1 EXCEPT !.err = "LAYOUT"])
    BY <1>1 DEF AddExtent
  <1>3. AddExtent(r, type, start, size, scn)
          = (IF IsUnused(r.ext, x, k) THEN [r EXCEPT !.ext = new] ELSE [r EXCEPT !.err = "LAYOUT"])
    BY DEF AddExtent
  <1> HIDE DEF x, k, new
  <1>4. [r1 EXCEPT !.ext = new] = [[r EXCEPT !.ext = new] EXCEPT !.e = D]
    OBVIOUS
  <1>5. [r1 EXCEPT !.err = "LAYOUT"] = [[r EXCEPT !.err = "LAYOUT"] EXCEPT !.e = D]
    OBVIOUS
  <1> HIDE DEF r1
  <1> QED  BY <1>2, <1>3, <1>4, <1>5 DEF r1

\* The insertion leaves the descriptor alone, and an error there is.
LEMMA AddExtentFields ==
  ASSUME NEW r, DOMAIN r = {"e", "err", "rc", "ext"},
         NEW type, NEW start, NEW size, NEW scn
  PROVE  LET q == AddExtent(r, type, start, size, scn)
         IN  /\ DOMAIN q = {"e", "err", "rc", "ext"} /\ q.e = r.e /\ IsRecord(q)
             /\ r.err # "NONE" => q.err # "NONE"
  BY DEF AddExtent, IsRecord

\* Sections of a kind that has no place in the layout.
Skipped(s) == s.sh.type \in {"NOBITS", "NULL"}

\* One turn of the loop over the sections, again: r is what came before, q
\* what came of it, D the descriptor in the end.
LEMMA ResyncOneTwice ==
  ASSUME NEW r, IsLayout(r), r.err = "NONE", NEW i \in DOMAIN r.e.scns,
         ResyncOne(r, i).err = "NONE",
         NEW D, IsElf(D), IsRecord(D), i \in DOMAIN D.scns,
         D.layout = r.e.layout, D.cmd = r.e.cmd,
         \/ D.scns[i] = ResyncOne(r, i).e.scns[i]
         \/ Skipped(D.scns[i]) /\ Skipped(ResyncOne(r, i).e.scns[i])
  PROVE  ResyncOne([r EXCEPT !.e = D], i) = [ResyncOne(r, i) EXCEPT !.e = D]
  <1> DEFINE q == ResyncOne(r, i)
             rD == [r EXCEPT !.e = D]
             c == ComputeSection(r.e, i, r.rc)
             C == ComputeSection(D, i, r.rc)
  <1>1. IsElf(r.e) /\ r.rc \in Nat /\ DOMAIN r = {"e", "err", "rc", "ext"}
    BY DEF IsLayout
  <1>2. /\ rD.e = D /\ rD.err = "NONE" /\ rD.rc = r.rc /\ rD.ext = r.ext
        /\ DOMAIN rD = {"e", "err", "rc", "ext"}
    BY <1>1
  <1>3. CASE Skipped(r.e.scns[i])
    <2>1. q = r
      BY <1>3 DEF ResyncOne, Skipped
    <2>2. Skipped(D.scns[i])
      BY <1>3, <2>1
    <2>3. ResyncOne(rD, i) = rD
      <3> HIDE DEF rD
      <3> QED  BY <2>2, <1>2 DEF ResyncOne, Skipped
    <2> QED  BY <2>1, <2>3
  <1>4. CASE ~Skipped(r.e.scns[i])
    <2>1. q = AddSection(r, i, c)
      BY <1>4 DEF ResyncOne, Skipped
    <2>2. c.err = "NONE" /\ q.e = c.e
      <3> DEFINE r1 == [r EXCEPT !.e = c.e, !.err = c.err]
                 s == c.e.scns[i]
                 q1 == AddExtent(r1, "SECTION", s.soff, s.ssize, i)
      <3>1. q = r1 \/ \E n : q = [q1 EXCEPT !.rc = n]
        BY <2>1 DEF AddSection
      <3> HIDE DEF c
      <3>2. DOMAIN r1 = {"e", "err", "rc", "ext"} /\ r1.e = c.e /\ r1.err = c.err
        BY <1>1
      <3> HIDE DEF r1, s, q
      <3>3. DOMAIN q1 = {"e", "err", "rc", "ext"} /\ q1.e = c.e
            /\ (c.err # "NONE" => q1.err # "NONE")
        BY <3>2, AddExtentFields
      <3> HIDE DEF q1
      <3>4. q.e = c.e /\ (c.err # "NONE" => q.err # "NONE")
        BY <3>1, <3>2, <3>3
      <3> QED  BY <3>4 DEF q
    <2>3. OneScn(r.e, c.e, i)
      BY <1>1, ComputeSectionIs
    <2>4. D.scns[i] = c.e.scns[i] /\ D.scns[i].sh.type = r.e.scns[i].sh.type
          /\ C = [e |-> D, err |-> "NONE"]
      <3>1. c.e.scns[i].sh.type = r.e.scns[i].sh.type
        <4> DEFINE d == [f \in DOMAIN c.e |-> c.e[f]]
        <4>1. IsElf(c.e) /\ i \in DOMAIN c.e.scns /\ c.e.layout = r.e.layout /\ c.e.cmd = r.e.cmd
          <5>1. i \in 1 .. Len(r.e.scns) /\ Len(c.e.scns) = Len(r.e.scns)
                /\ IsElf(c.e) /\ c.e.scns \in Seq(Section)
            BY <1>1, <2>3, SectionFields DEF OneScn, IsElf
          <5> HIDE DEF c
          <5> QED  BY <5>1, <2>3 DEF OneScn
        <4> HIDE DEF c
        <4>2. IsElf(d) /\ IsRecord(d) /\ d.scns = c.e.scns /\ d.layout = c.e.layout /\ d.cmd = c.e.cmd
          BY <4>1 DEF IsElf, IsRecord
        <4> HIDE DEF d
        <4>3. i \in DOMAIN d.scns /\ d.layout = r.e.layout /\ d.cmd = r.e.cmd
              /\ d.scns[i] = c.e.scns[i]
          BY <4>1, <4>2
        <4>4. d.scns[i].sh.type = r.e.scns[i].sh.type
          BY <4>2, <4>3, <1>1, <2>2, ComputeTwice DEF c
        <4> QED  BY <4>2, <4>4
      <3>2. D.scns[i] = c.e.scns[i]
        BY <3>1, <2>2, <1>4 DEF Skipped
      <3>3. C = [e |-> D, err |-> "NONE"]
        BY <3>2, <1>1, <2>2, ComputeTwice
      <3> QED  BY <3>1, <3>2, <3>3
    <2>5. ResyncOne(rD, i) = AddSection(rD, i, C)
      <3>1. ~Skipped(D.scns[i])
        BY <2>4, <1>4 DEF Skipped
      <3> HIDE DEF rD
      <3> QED  BY <3>1, <1>2 DEF ResyncOne, Skipped
    <2> DEFINE s == D.scns[i]
               end == (s.soff + s.ssize) % Word
               x == AddExtent(r, "SECTION", s.soff, s.ssize, i)
               B(y) == [y EXCEPT !.rc = IF @ < end THEN end ELSE @]
               Out(r1) == IF s.ssize = 0 THEN r1
                          ELSE B(AddExtent(r1, "SECTION", s.soff, s.ssize, i))
               r2 == [r EXCEPT !.e = c.e, !.err = c.err]
               rD2 == [rD EXCEPT !.e = C.e, !.err = C.err]
    <2>6. q = Out(r2)
      BY <2>1, <2>2, <2>4 DEF AddSection
    <2>7. AddSection(rD, i, C) = Out(rD2)
      <3> HIDE DEF C, rD
      <3> QED  BY <2>4 DEF AddSection
    <2> HIDE DEF c, C
    <2>8. rD2 = [r2 EXCEPT !.e = D] /\ DOMAIN r2 = {"e", "err", "rc", "ext"}
      <3>1. C.e = D /\ C.err = "NONE" /\ c.err = "NONE"
        BY <2>2, <2>4
      <3> QED  BY <3>1, <1>1
    <2> HIDE DEF r2, rD2, s, end, q, rD
    <2>9. Out([r2 EXCEPT !.e = D]) = [Out(r2) EXCEPT !.e = D]
      <3> DEFINE y == AddExtent(r2, "SECTION", s.soff, s.ssize, i)
                 yD == AddExtent([r2 EXCEPT !.e = D], "SECTION", s.soff, s.ssize, i)
      <3>1. yD = [y EXCEPT !.e = D]
        <4> DEFINE type == "SECTION"
        <4> HIDE DEF type
        <4>1. AddExtent([r2 EXCEPT !.e = D], type, s.soff, s.ssize, i)
                = [AddExtent(r2, type, s.soff, s.ssize, i) EXCEPT !.e = D]
          BY <2>8, AddExtentElf
        <4> QED  BY <4>1 DEF type
      <3>2. DOMAIN y = {"e", "err", "rc", "ext"}
        BY <2>8, AddExtentFields
      <3> HIDE DEF y, yD
      <3>3. B([y EXCEPT !.e = D]) = [B(y) EXCEPT !.e = D]
        BY <3>2
      <3> HIDE DEF B
      <3> QED  BY <3>1, <3>3 DEF y, yD
    <2> HIDE DEF Out
    <2> QED  BY <2>5, <2>6, <2>7, <2>8, <2>9 DEF q, rD
  <1> QED  BY <1>3, <1>4

\* q is d but for its sections, of which there are as many.
Others(d, q) ==
  /\ q.cmd = d.cmd /\ q.layout = d.layout /\ q.ehdr = d.ehdr /\ q.phdr = d.phdr
  /\ q.nphdr = d.nphdr /\ q.nscn = d.nscn /\ q.raw = d.raw
  /\ q.order = d.order /\ q.loaded = d.loaded /\ Len(q.scns) = Len(d.scns)

\* f[n] is what n turns of the loop over the sections have given.
Turns(u, f) ==
  /\ AddSections(u) = f[Len(u.e.scns)]
  /\ f[0] = u
  /\ \A i \in 1 .. Len(u.e.scns) : f[i] = ResyncOne(f[i - 1], i)
  /\ AddSections(u).err = "NONE" => \A n \in 0 .. Len(u.e.scns) : f[n].err = "NONE"
  /\ \A n \in 0 .. Len(u.e.scns) :
       /\ IsLayout(f[n]) /\ Others(u.e, f[n].e)
       /\ \A j \in 1 .. n : f[n].e.scns[j] = f[j].e.scns[j]

\* The loop over the sections, turn by turn.
LEMMA AddSectionsFrame ==
  ASSUME NEW u, IsLayout(u)
  PROVE  \E f : Turns(u, f)
  <1> DEFINE len == Len(u.e.scns)
             v == AddSections(u)
  <1>1. len \in Nat
    BY DEF IsLayout, IsElf
  <1>2. PICK f : v = f[len] /\ f[0] = u /\ \A i \in 1 .. len : f[i] = ResyncOne(f[i - 1], i)
    <2>1. Len(u.e.scns) \in Nat
      BY <1>1
    <2> QED  BY <2>1, AddSectionsLoop
  <1> HIDE DEF len, v
  <1>3. ASSUME v.err = "NONE" PROVE \A n \in 0 .. len : f[n].err = "NONE"
    <2>1. \A n \in 1 .. len : f[n - 1].err # "NONE" => f[n].err # "NONE"
      BY <1>2 DEF ResyncOne
    <2>2. f[len].err = "NONE"
      BY <1>2, <1>3
    <2> QED  BY <1>1, <2>1, <2>2, ErrorStays
  <1> DEFINE Inv(n) == /\ IsLayout(f[n]) /\ Others(u.e, f[n].e)
                       /\ \A j \in 1 .. n : f[n].e.scns[j] = f[j].e.scns[j]
  <1>4. \A n \in 0 .. len : Inv(n)
    <2> DEFINE S == {n \in Nat : n <= len => Inv(n)}
    <2>1. 0 \in S
      BY <1>2 DEF Others
    <2>2. ASSUME NEW n \in Nat, n \in S PROVE n + 1 \in S
      <3> SUFFICES ASSUME n + 1 <= len PROVE Inv(n + 1)
        OBVIOUS
      <3>1. Inv(n)
        BY <2>2, <1>1
      <3>2. n + 1 \in 1 .. len /\ (n + 1) - 1 = n /\ f[n + 1] = ResyncOne(f[n], n + 1)
        BY <1>1, <1>2
      <3>3. n + 1 \in DOMAIN f[n].e.scns /\ Len(f[n].e.scns) = len
        <4>1. f[n].e.scns \in Seq(Section)
          BY <3>1 DEF IsLayout, IsElf
        <4> QED  BY <4>1, <3>1, <3>2 DEF Others, len
      <3>4. IsLayout(f[n + 1]) /\ OneScn(f[n].e, f[n + 1].e, n + 1)
        BY <3>1, <3>2, <3>3, ResyncOneIs
      <3>5. Others(u.e, f[n + 1].e)
        BY <3>1, <3>4 DEF OneScn, Others
      <3>6. \A j \in 1 .. n : f[n + 1].e.scns[j] = f[n].e.scns[j]
        BY <3>3, <3>4, <3>2, <1>1 DEF OneScn
      <3>7. \A j \in 1 .. n + 1 : f[n + 1].e.scns[j] = f[j].e.scns[j]
        BY <3>1, <3>6
      <3> QED  BY <3>4, <3>5, <3>7
    <2>3. Nat \subseteq S
      <3> HIDE DEF S
      <3> QED  BY <2>1, <2>2, NatSet
    <2> QED  BY <2>3, <1>1
  <1>5. Turns(u, f)
    BY <1>2, <1>3, <1>4 DEF v, len, Turns
  <1> HIDE DEF Inv
  <1> QED  BY <1>5

\* The loop over the sections, again.
LEMMA AddSectionsTwice ==
  ASSUME NEW u, IsLayout(u), AddSections(u).err = "NONE",
         NEW D, IsElf(D), IsRecord(D), D.layout = u.e.layout, D.cmd = u.e.cmd,
         Len(D.scns) >= Len(u.e.scns),
         \A i \in 1 .. Len(u.e.scns) :
           \/ D.scns[i] = AddSections(u).e.scns[i]
           \/ Skipped(D.scns[i]) /\ Skipped(AddSections(u).e.scns[i]),
         \A i \in Len(u.e.scns) + 1 .. Len(D.scns) : Skipped(D.scns[i])
  PROVE  /\ AddSections([u EXCEPT !.e = D]) = [AddSections(u) EXCEPT !.e = D]
         /\ Others(u.e, AddSections(u).e)
  <1> DEFINE len == Len(u.e.scns)
             v == AddSections(u)
             uD == [u EXCEPT !.e = D]
             N == Len(D.scns)
  <1>1. len \in Nat /\ N \in Nat /\ N >= len /\ DOMAIN D.scns = 1 .. N
    <2>1. u.e.scns \in Seq(Section) /\ D.scns \in Seq(Section)
      BY DEF IsLayout, IsElf
    <2> QED  BY <2>1
  <1>2. DOMAIN u = {"e", "err", "rc", "ext"} /\ uD.e = D
    BY DEF IsLayout
  <1>0. PICK f : Turns(u, f)
    BY AddSectionsFrame
  <1> DEFINE Inv(n) == /\ IsLayout(f[n]) /\ Others(u.e, f[n].e)
                       /\ \A j \in 1 .. n : f[n].e.scns[j] = f[j].e.scns[j]
  <1>3. /\ v = f[len] /\ f[0] = u /\ \A i \in 1 .. len : f[i] = ResyncOne(f[i - 1], i)
        /\ \A n \in 0 .. len : f[n].err = "NONE"
        /\ \A n \in 0 .. len : Inv(n)
    <2>1. \A n \in 0 .. len : Inv(n)
      BY <1>0 DEF Turns
    <2>2. \A n \in 0 .. len : f[n].err = "NONE"
      BY <1>0 DEF Turns
    <2>3. v = f[len] /\ f[0] = u /\ \A i \in 1 .. len : f[i] = ResyncOne(f[i - 1], i)
      BY <1>0 DEF Turns
    <2> HIDE DEF Inv, len, v
    <2> QED  BY <2>1, <2>2, <2>3
  <1>4. PICK g : AddSections(uD) = g[N] /\ g[0] = uD /\ \A i \in 1 .. N : g[i] = ResyncOne(g[i - 1], i)
    <2>1. Len(uD.e.scns) = N /\ Len(uD.e.scns) \in Nat
      BY <1>1, <1>2
    <2> HIDE DEF uD, N
    <2> QED  BY <2>1, AddSectionsLoop
  <1> HIDE DEF N, len, uD, v
  <1>5. \A n \in 0 .. len : g[n] = [f[n] EXCEPT !.e = D]
    <2> DEFINE S == {n \in Nat : n <= len => g[n] = [f[n] EXCEPT !.e = D]}
    <2>1. 0 \in S
      BY <1>3, <1>4 DEF uD
    <2>2. ASSUME NEW n \in Nat, n \in S PROVE n + 1 \in S
      <3> SUFFICES ASSUME n + 1 <= len PROVE g[n + 1] = [f[n + 1] EXCEPT !.e = D]
        OBVIOUS
      <3>1. g[n] = [f[n] EXCEPT !.e = D] /\ Inv(n) /\ f[n].err = "NONE" /\ f[n + 1].err = "NONE"
        BY <2>2, <1>1, <1>3
      <3>2. n + 1 \in 1 .. len /\ n + 1 \in 1 .. N /\ (n + 1) - 1 = n
            /\ f[n + 1] = ResyncOne(f[n], n + 1) /\ g[n + 1] = ResyncOne(g[n], n + 1)
        BY <1>1, <1>3, <1>4
      <3>3. n + 1 \in DOMAIN f[n].e.scns /\ n + 1 \in DOMAIN D.scns
        <4>1. f[n].e.scns \in Seq(Section) /\ Len(f[n].e.scns) = len
          BY <3>1 DEF IsLayout, IsElf, Others, len
        <4> QED  BY <4>1, <3>2, <1>1
      <3>4. \/ D.scns[n + 1] = f[n + 1].e.scns[n + 1]
            \/ Skipped(D.scns[n + 1]) /\ Skipped(f[n + 1].e.scns[n + 1])
        <4>1. v.e.scns[n + 1] = f[n + 1].e.scns[n + 1]
          BY <1>1, <1>3, <3>2
        <4> QED  BY <3>2, <4>1 DEF v, len
      <3>5. D.layout = f[n].e.layout /\ D.cmd = f[n].e.cmd
        BY <3>1 DEF Others
      <3>6. ResyncOne([f[n] EXCEPT !.e = D], n + 1) = [ResyncOne(f[n], n + 1) EXCEPT !.e = D]
        BY <3>1, <3>2, <3>3, <3>4, <3>5, ResyncOneTwice
      <3> QED  BY <3>1, <3>2, <3>6
    <2>3. Nat \subseteq S
      <3> HIDE DEF S
      <3> QED  BY <2>1, <2>2, NatSet
    <2> QED  BY <2>3, <1>1
  <1>6. \A n \in len .. N : g[n] = [v EXCEPT !.e = D]
    <2> DEFINE S == {n \in Nat : len + n <= N => g[len + n] = [v EXCEPT !.e = D]}
    <2>1. 0 \in S
      <3>1. len \in 0 .. len /\ len + 0 = len
        BY <1>1
      <3> QED  BY <1>3, <1>5, <3>1
    <2>2. ASSUME NEW n \in Nat, n \in S PROVE n + 1 \in S
      <3> SUFFICES ASSUME len + (n + 1) <= N PROVE g[len + (n + 1)] = [v EXCEPT !.e = D]
        OBVIOUS
      <3> DEFINE k == len + (n + 1)
      <3>1. g[len + n] = [v EXCEPT !.e = D] /\ k - 1 = len + n /\ k \in 1 .. N /\ k \in len + 1 .. N
        BY <2>2, <1>1
      <3>2. g[k] = ResyncOne([v EXCEPT !.e = D], k)
        <4> HIDE DEF k
        <4> QED  BY <3>1, <1>4
      <3>3. Skipped(D.scns[k])
        <4> HIDE DEF k
        <4> QED  BY <3>1 DEF len, N
      <3>4. [v EXCEPT !.e = D].e = D
        <4>1. DOMAIN v = {"e", "err", "rc", "ext"}
          BY <1>1, <1>3 DEF IsLayout
        <4> QED  BY <4>1
      <3> HIDE DEF k
      <3>5. g[k] = [v EXCEPT !.e = D]
        <4> DEFINE vD == [v EXCEPT !.e = D]
        <4>1. g[k] = ResyncOne(vD, k) /\ vD.e = D
          BY <3>2, <3>4
        <4> HIDE DEF vD
        <4>2. g[k] = vD
          BY <4>1, <3>3 DEF ResyncOne, Skipped
        <4> QED  BY <4>2 DEF vD
      <3> QED  BY <3>5 DEF k
    <2>3. Nat \subseteq S
      <3> HIDE DEF S
      <3> QED  BY <2>1, <2>2, NatSet
    <2> SUFFICES ASSUME NEW n \in len .. N PROVE g[n] = [v EXCEPT !.e = D]
      OBVIOUS
    <2>4. n - len \in Nat /\ len + (n - len) = n /\ n <= N
      BY <1>1
    <2>5. n - len \in S
      <3> HIDE DEF S
      <3> QED  BY <2>3, <2>4
    <2> QED  BY <2>4, <2>5
  <1>7. AddSections(uD) = [v EXCEPT !.e = D] /\ Others(u.e, v.e)
    BY <1>1, <1>3, <1>4, <1>6
  <1> QED  BY <1>7 DEF uD, v

\* The executable header that has passed the checks.
LEMMA AddEhdrGives ==
  ASSUME NEW d, AddEhdr(d).err = "NONE"
  PROVE  AddEhdr(d).e = [d EXCEPT !.order = d.ehdr.data, !.ehdr.shentsize = 1]
  <1> DEFINE d1 == [d EXCEPT !.order = d.ehdr.data, !.ehdr.shentsize = 1]
             r == [e |-> d1, err |-> "NONE", rc |-> EhdrSize, ext |-> <<>>]
             type == "EHDR"
             zero == 0
             size == EhdrSize
             q == AddEhdr(d)
  <1>1. q = AddExtent(r, type, zero, size, zero) \/ \E code : code # "NONE" /\ q.err = code
    BY DEF AddEhdr
  <1>2. DOMAIN r = {"e", "err", "rc", "ext"} /\ r.e = d1
    <2> HIDE DEF d1
    <2> QED  OBVIOUS
  <1>3. q.err = "NONE"
    OBVIOUS
  <1> HIDE DEF q, r, type, zero, size, d1
  <1>4. q.e = d1
    BY <1>1, <1>2, <1>3, AddExtentFields
  <1> QED  BY <1>4 DEF q, d1

\* The executable header, again.
LEMMA AddEhdrTwice ==
  ASSUME NEW d, IsElf(d), d.ehdr # NULL, AddEhdr(d).err = "NONE",
         NEW D, IsElf(D), IsRecord(D), D.cmd = d.cmd, D.ehdr # NULL,
         D.ehdr.version = d.ehdr.version, D.ehdr.class = d.ehdr.class,
         D.ehdr.data = d.ehdr.data, D.ehdr.shentsize = 1, D.order = d.ehdr.data
  PROVE  AddEhdr(D) = [AddEhdr(d) EXCEPT !.e = D]
  <1> DEFINE checks(x) == << <<x.ehdr.version = "OTHER", "VERSION">>,
                            <<x.ehdr.class # "same", "CLASS">>,
                            <<x.cmd # "WRITE" /\ x.ehdr.data # x.order, "HEADER">> >>
             d1(x) == [x EXCEPT !.order = x.ehdr.data, !.ehdr.shentsize = 1]
             r(x) == [e |-> d1(x), err |-> "NONE", rc |-> EhdrSize, ext |-> <<>>]
             type == "EHDR"
             zero == 0
             Out(x) == IF FirstError(checks(x)) = "NONE" THEN AddExtent(r(x), type, zero, EhdrSize, zero)
                       ELSE [e |-> x, err |-> FirstError(checks(x)), rc |-> 0, ext |-> <<>>]
  <1>1. AddEhdr(d) = Out(d) /\ AddEhdr(D) = Out(D)
    BY DEF AddEhdr
  <1>2. FirstError(checks(d)) = "NONE"
    <2> HIDE DEF checks, d1, r
    <2> QED  BY <1>1
  <1>3. ~(d.ehdr.version = "OTHER") /\ ~(d.ehdr.class # "same")
    <2> DEFINE c == checks(d)
    <2>1. DOMAIN c = 1 .. 3 /\ \A k \in 1 .. 3 : c[k][2] # "NONE"
      OBVIOUS
    <2>2. FirstError(c) = "NONE" /\ 3 \in Nat
      BY <1>2
    <2>3. (c[1][1] <=> d.ehdr.version = "OTHER") /\ (c[2][1] <=> d.ehdr.class # "same")
      OBVIOUS
    <2> HIDE DEF c, checks
    <2>4. \A k \in 1 .. 3 : ~c[k][1]
      BY <2>1, <2>2, NoError
    <2> QED  BY <2>3, <2>4
  <1>4. FirstError(checks(D)) = "NONE"
    <2> DEFINE c == checks(D)
    <2>0. /\ c[1][1] = (D.ehdr.version = "OTHER")
          /\ c[2][1] = (D.ehdr.class # "same")
          /\ c[3][1] = (D.cmd # "WRITE" /\ D.ehdr.data # D.order)
          /\ DOMAIN c = 1 .. 3
      OBVIOUS
    <2> HIDE DEF c, checks
    <2>1. DOMAIN c = 1 .. 3 /\ \A k \in 1 .. 3 : ~c[k][1]
      <3>1. ~c[1][1] /\ ~c[2][1] /\ ~c[3][1]
        BY <1>3, <2>0
      <3> QED  BY <2>0, <3>1
    <2>2. {k \in DOMAIN c : c[k][1]} = {}
      BY <2>1
    <2>3. FirstError(c) = "NONE"
      BY <2>2 DEF FirstError
    <2> QED  BY <2>3 DEF c
  <1> HIDE DEF checks
  <1>5. d1(D) = D
    <2>1. D.ehdr \in Header
      BY DEF IsElf
    <2> DEFINE h == D.ehdr
    <2>2. [h EXCEPT !.shentsize = 1] = h
      <3>1. h.shentsize = 1 /\ h \in Header
        BY <2>1
      <3> HIDE DEF h
      <3> QED  BY <3>1 DEF Header
    <2>3. d1(D) = [D EXCEPT !.order = D.order, !.ehdr = h]
      BY <2>2
    <2> HIDE DEF h, d1
    <2>4. [D EXCEPT !.order = D.order, !.ehdr = D.ehdr] = D
      BY DEF IsRecord
    <2> QED  BY <2>3, <2>4 DEF h
  <1> DEFINE rd == r(d)
  <1>6. r(D) = [rd EXCEPT !.e = D] /\ DOMAIN rd = {"e", "err", "rc", "ext"} /\ rd.e = d1(d)
    <2> HIDE DEF d1
    <2> QED  BY <1>5
  <1>7. AddEhdr(d) = AddExtent(rd, type, zero, EhdrSize, zero)
        /\ AddEhdr(D) = AddExtent([rd EXCEPT !.e = D], type, zero, EhdrSize, zero)
    <2> HIDE DEF d1
    <2>1. AddEhdr(d) = AddExtent(rd, type, zero, EhdrSize, zero)
      BY <1>1, <1>2
    <2>2. AddEhdr(D) = AddExtent(r(D), type, zero, EhdrSize, zero)
      BY <1>1, <1>4
    <2> HIDE DEF r, rd
    <2> QED  BY <2>1, <2>2, <1>6
  <1> HIDE DEF type, zero, rd, r, d1
  <1>8. AddExtent([rd EXCEPT !.e = D], type, zero, EhdrSize, zero)
          = [AddExtent(rd, type, zero, EhdrSize, zero) EXCEPT !.e = D]
    <2>1. DOMAIN rd = {"e", "err", "rc", "ext"}
      BY <1>6
    <2> DEFINE size == EhdrSize
    <2> HIDE DEF Out, size
    <2>2. AddExtent([rd EXCEPT !.e = D], type, zero, size, zero)
            = [AddExtent(rd, type, zero, size, zero) EXCEPT !.e = D]
      BY <2>1, AddExtentElf
    <2> QED  BY <2>2 DEF size
  <1> QED  BY <1>7, <1>8

\* What reading the program header table leaves of a descriptor.
LEMMA PhdrsFrame ==
  ASSUME NEW d, IsElf(d), d.ehdr # NULL
  PROVE  LET q == Phdrs(d).e
         IN  /\ q.cmd = d.cmd /\ q.layout = d.layout /\ q.ehdr = d.ehdr /\ q.nphdr = d.nphdr
             /\ q.nscn = d.nscn /\ q.raw = d.raw /\ q.order = d.order /\ q.scns = d.scns
             /\ d.phdr # NULL => q = d
  <1> DEFINE tab == [i \in 1 .. d.nphdr |-> d.raw.phtab[d.ehdr.phoff + i - 1]]
             q == Phdrs(d).e
  <1>1. Ehdr(d) = Ok(d)
    BY EhdrReads
  <1>2. q = d \/ (d.phdr = NULL /\ q = [d EXCEPT !.phdr = tab])
    <2>1. (IF d.phdr # NULL THEN Ok(d) ELSE Ehdr(d)) = Ok(d)
          /\ Ok(d).e = d /\ Ok(d).err = "NONE"
      BY <1>1 DEF Ok
    <2>2. \/ Phdrs(d) = Ok(d)
          \/ \E code : Phdrs(d) = Fail(d, code)
          \/ d.phdr = NULL /\ Phdrs(d) = Ok([d EXCEPT !.phdr = tab])
      BY <2>1 DEF Phdrs, Then
    <2> HIDE DEF tab
    <2> QED  BY <2>2 DEF Ok, Fail
  <1> HIDE DEF tab, q
  <1>3. /\ q.cmd = d.cmd /\ q.layout = d.layout /\ q.ehdr = d.ehdr /\ q.nphdr = d.nphdr
        /\ q.nscn = d.nscn /\ q.raw = d.raw /\ q.order = d.order /\ q.scns = d.scns
        /\ d.phdr # NULL => q = d
    BY <1>2 DEF IsElf
  <1> QED  BY <1>3 DEF q

\* What adding the table leaves of a descriptor.
LEMMA AddPhdrFrame ==
  ASSUME NEW a, IsLayout(a), a.err = "NONE"
  PROVE  LET q == ResyncTables(a).e
         IN  /\ q.cmd = a.e.cmd /\ q.layout = a.e.layout /\ q.ehdr = a.e.ehdr
             /\ q.nphdr = a.e.nphdr /\ q.nscn = a.e.nscn /\ q.order = a.e.order
  <1> DEFINE t == ResyncTables(a)
             p == Phdrs(a.e)
             off == IF a.e.layout THEN a.e.ehdr.phoff ELSE Roundup(a.rc, TabAlign)
             b == [a EXCEPT !.e = p.e, !.rc = off + a.e.nphdr]
             type == "PHDR"
             zero == 0
  <1>1. IsElf(a.e) /\ a.e.ehdr # NULL /\ DOMAIN a = {"e", "err", "rc", "ext"}
    BY DEF IsLayout
  <1>2. \/ t = a
        \/ \E code : t = [a EXCEPT !.err = code]
        \/ t = AddExtent(b, type, off, a.e.nphdr, zero)
    BY DEF ResyncTables, AddPhdr
  <1>3. DOMAIN b = {"e", "err", "rc", "ext"} /\ b.e = p.e
    <2> HIDE DEF p, off
    <2> QED  BY <1>1
  <1>4. /\ p.e.cmd = a.e.cmd /\ p.e.layout = a.e.layout /\ p.e.ehdr = a.e.ehdr
        /\ p.e.nphdr = a.e.nphdr /\ p.e.nscn = a.e.nscn /\ p.e.order = a.e.order
    BY <1>1, PhdrsFrame
  <1> HIDE DEF b, type, zero, off, p, t
  <1>5. t.e = a.e \/ t.e = p.e
    BY <1>1, <1>2, <1>3, AddExtentFields
  <1> QED  BY <1>4, <1>5 DEF t

\* The program header table, again.
LEMMA AddPhdrTwice ==
  ASSUME NEW a, IsLayout(a), a.err = "NONE", ResyncTables(a).err = "NONE",
         NEW D, IsElf(D), D.ehdr # NULL, D.layout = a.e.layout, D.nphdr = a.e.nphdr,
         D.layout => D.ehdr.phoff = a.e.ehdr.phoff,
         D.nphdr # 0 => D.phdr # NULL \/ D.raw = NULL
  PROVE  ResyncTables([a EXCEPT !.e = D]) = [ResyncTables(a) EXCEPT !.e = D]
  <1> DEFINE n == a.e.nphdr
             off == IF a.e.layout THEN a.e.ehdr.phoff ELSE Roundup(a.rc, TabAlign)
             aD == [a EXCEPT !.e = D]
             p == Phdrs(a.e)
             P == Phdrs(D)
             t == ResyncTables(a)
             T == ResyncTables(aD)
             type == "PHDR"
             r1 == [a EXCEPT !.e = p.e, !.rc = off + n]
  <1>1. DOMAIN a = {"e", "err", "rc", "ext"} /\ IsElf(a.e) /\ a.e.ehdr # NULL
    BY DEF IsLayout
  <1>2. aD.e = D /\ aD.err = "NONE" /\ aD.rc = a.rc /\ DOMAIN aD = {"e", "err", "rc", "ext"}
    BY <1>1
  <1>3. CASE n = 0
    <2>1. t = a
      BY <1>3 DEF ResyncTables, AddPhdr
    <2>2. T = aD
      <3> HIDE DEF aD
      <3> QED  BY <1>2, <1>3 DEF ResyncTables, AddPhdr
    <2> QED  BY <2>1, <2>2
  <1>4. CASE n # 0
    <2>1. P.e = D /\ P.err \notin Fatal
      <3>1. CASE D.phdr # NULL
        BY <3>1 DEF Phdrs, Then, Ok, Fatal
      <3>2. CASE D.phdr = NULL
        <4>1. Ehdr(D) = Ok(D)
          BY EhdrReads
        <4>2. D.raw = NULL /\ D.nphdr # 0
          BY <1>4, <3>2
        <4>3. RawSize(D) < D.ehdr.phoff + D.nphdr
          <5>1. D.ehdr.phoff \in Nat /\ D.nphdr \in Nat
            BY DEF IsElf, Header
          <5>2. RawSize(D) = 0
            BY <4>2 DEF RawSize
          <5>3. D.nphdr > 0
            BY <5>1, <4>2
          <5> QED  BY <5>1, <5>2, <5>3
        <4>4. P = Fail(D, "HEADER")
          <5>1. Ok(D).err = "NONE" /\ Ok(D).e = D
            BY DEF Ok
          <5> HIDE DEF P
          <5>2. P = IF D.phdr # NULL THEN Ok(D)
                    ELSE IF D.nphdr = 0 THEN Fail(D, "assert fsz")
                    ELSE IF RawSize(D) < D.ehdr.phoff + D.nphdr THEN Fail(D, "HEADER") ELSE P
            BY <3>2, <4>1, <4>2, <4>3, <5>1 DEF Phdrs, Then, P
          <5> QED  BY <5>2, <3>2, <4>2, <4>3
        <4> QED  BY <4>4 DEF Fail, Fatal
      <3> QED  BY <3>1, <3>2
    <2>2. ~(a.e.layout /\ (a.rc > off \/ off % TabAlign # 0)) /\ p.err \notin Fatal
      <3> DEFINE stop == a.e.layout /\ (a.rc > off \/ off % TabAlign # 0)
                 last == AddExtent(r1, "PHDR", off, n, 0)
      <3>1. t = IF stop THEN [a EXCEPT !.err = "LAYOUT"]
                ELSE IF p.err \in Fatal THEN [a EXCEPT !.err = p.err] ELSE last
        BY <1>4 DEF ResyncTables, AddPhdr
      <3>2. [a EXCEPT !.err = "LAYOUT"].err = "LAYOUT" /\ [a EXCEPT !.err = p.err].err = p.err
        BY <1>1
      <3>3. t.err = "NONE" /\ "NONE" \notin Fatal
        BY DEF Fatal
      <3> HIDE DEF stop, last, t, p
      <3>4. ~stop /\ p.err \notin Fatal
        BY <3>1, <3>2, <3>3
      <3> QED  BY <3>4 DEF stop
    <2>3. t = AddExtent(r1, type, off, n, 0)
      BY <1>4, <2>2 DEF ResyncTables, AddPhdr
    <2>4. T = AddExtent([aD EXCEPT !.e = P.e, !.rc = off + n], type, off, n, 0)
      <3> DEFINE O(x) == IF x.e.layout THEN x.e.ehdr.phoff ELSE Roundup(x.rc, TabAlign)
      <3>1. O(aD) = off /\ aD.e.nphdr = n /\ aD.e.layout = a.e.layout /\ Phdrs(aD.e) = P
        <4> HIDE DEF aD, P
        <4> QED  BY <1>2 DEF P
      <3>2. T = IF aD.err # "NONE" \/ aD.e.nphdr = 0 THEN aD
                ELSE IF aD.e.layout /\ (aD.rc > O(aD) \/ O(aD) % TabAlign # 0)
                     THEN [aD EXCEPT !.err = "LAYOUT"]
                ELSE IF Phdrs(aD.e).err \in Fatal THEN [aD EXCEPT !.err = Phdrs(aD.e).err]
                ELSE AddExtent([aD EXCEPT !.e = Phdrs(aD.e).e, !.rc = O(aD) + aD.e.nphdr],
                               "PHDR", O(aD), aD.e.nphdr, 0)
        BY DEF ResyncTables, AddPhdr
      <3> HIDE DEF O, aD, P, T, off, n
      <3>3. aD.err = "NONE" /\ n # 0 /\ aD.rc = a.rc
        BY <1>2, <1>4
      <3> QED  BY <3>1, <3>2, <3>3, <2>1, <2>2
    <2>5. [aD EXCEPT !.e = P.e, !.rc = off + n] = [r1 EXCEPT !.e = D]
          /\ DOMAIN r1 = {"e", "err", "rc", "ext"} /\ r1.e = p.e
      <3> HIDE DEF P, off, n, p
      <3> QED  BY <1>1, <2>1
    <2> HIDE DEF r1, type, off, n, t, T, aD
    <2>6. T = [t EXCEPT !.e = D]
      <3> DEFINE scn == 0
      <3> HIDE DEF scn
      <3>0. AddExtent([r1 EXCEPT !.e = D], type, off, n, scn)
              = [AddExtent(r1, type, off, n, scn) EXCEPT !.e = D]
        BY <2>5, AddExtentElf
      <3>1. AddExtent([r1 EXCEPT !.e = D], type, off, n, 0)
              = [AddExtent(r1, type, off, n, 0) EXCEPT !.e = D]
        BY <3>0 DEF scn
      <3> QED  BY <3>1, <2>3, <2>4, <2>5
    <2> QED  BY <2>6 DEF t, T, aD
  <1> QED  BY <1>3, <1>4

\* The sections are at hand after they have been read.
LEMMA SectionsTwice ==
  ASSUME NEW d, IsElf(d), Sections(d).err = "NONE"
  PROVE  LET q == Sections(d).e
         IN  /\ q.cmd = "WRITE" \/ q.loaded
             /\ q.cmd = d.cmd /\ q.layout = d.layout /\ q.ehdr = d.ehdr
             /\ q.nphdr = d.nphdr /\ q.nscn = d.nscn /\ q.order = d.order
  <1> DEFINE q == Sections(d)
             more == [i \in 1 .. d.nscn |-> Scn(d.raw.shtab[d.ehdr.shoff + i - 1])]
             ss == d.scns \o SubSeq(more, Len(d.scns) + 1, d.nscn)
  <1>1. \/ q.e = d /\ (d.cmd = "WRITE" \/ d.loaded)
        \/ q.e = [d EXCEPT !.loaded = TRUE, !.scns = ss]
    BY DEF Sections, LoadSections, Ok, Fail
  <1> HIDE DEF q, ss
  <1>2. /\ q.e.cmd = "WRITE" \/ q.e.loaded
        /\ q.e.cmd = d.cmd /\ q.e.layout = d.layout /\ q.e.ehdr = d.ehdr
        /\ q.e.nphdr = d.nphdr /\ q.e.nscn = d.nscn /\ q.e.order = d.order
    BY <1>1 DEF IsElf
  <1> QED  BY <1>2 DEF q

\* The section header table, again.
LEMMA AddShdrTwice ==
  ASSUME NEW v, IsLayout(v), NEW n \in Nat, AddShdr(v, n).err = "NONE",
         NEW D, D.layout = v.e.layout, D.layout => D.ehdr.shoff = v.e.ehdr.shoff
  PROVE  /\ AddShdr([v EXCEPT !.e = D], n) = [AddShdr(v, n) EXCEPT !.e = D]
         /\ v.err = "NONE"
  <1> DEFINE O(x) == IF x.e.layout THEN x.e.ehdr.shoff ELSE Roundup(x.rc, TabAlign)
             rc(x) == IF O(x) + n > x.rc THEN O(x) + n ELSE x.rc
             Out(x) == IF x.err # "NONE" \/ n = 0 THEN x
                       ELSE IF x.e.layout /\ O(x) % TabAlign # 0 THEN [x EXCEPT !.err = "LAYOUT"]
                       ELSE AddExtent([x EXCEPT !.rc = rc(x)], "SHDR", O(x), n, 0)
             vD == [v EXCEPT !.e = D]
  <1>1. DOMAIN v = {"e", "err", "rc", "ext"}
    BY DEF IsLayout
  <1>2. vD.e = D /\ vD.err = v.err /\ vD.rc = v.rc
    BY <1>1
  <1>3. AddShdr(v, n) = Out(v) /\ AddShdr(vD, n) = Out(vD)
    BY DEF AddShdr
  <1>4. v.err = "NONE"
    BY DEF AddShdr
  <1>5. O(vD) = O(v) /\ rc(vD) = rc(v)
    <2> HIDE DEF vD
    <2> QED  BY <1>2
  <1> DEFINE off == O(v)
             c == rc(v)
             type == "SHDR"
             r1 == [v EXCEPT !.rc = c]
  <1>6. CASE n = 0
    BY <1>3, <1>4, <1>6
  <1>7. CASE n # 0
    <2>1. Out(v) = IF v.e.layout /\ off % TabAlign # 0 THEN [v EXCEPT !.err = "LAYOUT"]
                   ELSE AddExtent(r1, type, off, n, 0)
      BY <1>4, <1>7
    <2>2. ~(v.e.layout /\ off % TabAlign # 0)
      <3>1. [v EXCEPT !.err = "LAYOUT"].err = "LAYOUT"
        BY <1>1
      <3> HIDE DEF off, Out, r1
      <3> QED  BY <2>1, <3>1, <1>3
    <2>3. Out(vD) = AddExtent([vD EXCEPT !.rc = c], type, off, n, 0)
      <3>1. vD.err = "NONE" /\ vD.e.layout = v.e.layout
        BY <1>2, <1>4
      <3> HIDE DEF O, vD, rc
      <3> QED  BY <1>5, <1>7, <2>2, <3>1
    <2>4. [vD EXCEPT !.rc = c] = [r1 EXCEPT !.e = D] /\ DOMAIN r1 = {"e", "err", "rc", "ext"}
      <3> HIDE DEF c
      <3> QED  BY <1>1
    <2> HIDE DEF r1, type, off, c, vD, Out
    <2>5. AddExtent([r1 EXCEPT !.e = D], type, off, n, 0)
            = [AddExtent(r1, type, off, n, 0) EXCEPT !.e = D]
      BY <2>4, AddExtentElf
    <2> QED  BY <1>3, <1>4, <2>1, <2>2, <2>3, <2>4, <2>5 DEF vD
  <1> QED  BY <1>6, <1>7

\* A number that is there is put where it is.
LEMMA SetCountSame ==
  ASSUME NEW D, IsElf(D), IsRecord(D), D.ehdr # NULL, NEW n, NEW escape, NEW limit,
         NEW f \in {"phnum", "shnum", "shstrndx"}, NEW sf \in {"size", "info", "link"},
         HasCount(D, f, limit, sf, n, escape)
  PROVE  SetCount(D, f, limit, sf, n, escape) = D
  <1> DEFINE h == D.ehdr
             q == SetCount(D, f, limit, sf, n, escape)
  <1>1. h \in Header
    BY DEF IsElf
  <1>2. ASSUME NEW x, D.ehdr[f] = x
        PROVE  [D EXCEPT !.ehdr[f] = x] = D
    <2>1. [h EXCEPT ![f] = x] = h
      <3>1. h[f] = x
        BY <1>2
      <3> HIDE DEF h
      <3> QED  BY <1>1, <3>1 DEF Header
    <2>2. [D EXCEPT !.ehdr[f] = x] = [D EXCEPT !.ehdr = [h EXCEPT ![f] = x]]
      OBVIOUS
    <2>3. [D EXCEPT !.ehdr = h] = D
      BY DEF IsRecord
    <2> QED  BY <2>1, <2>2, <2>3
  <1>3. CASE n < limit
    BY <1>2, <1>3 DEF SetCount, HasCount
  <1>4. CASE ~(n < limit)
    <2>1. /\ D.ehdr[f] = escape /\ D.scns # <<>> /\ D.scns[1].sh[sf] = n
          /\ D.scns[1].dirty = TRUE
      BY <1>4 DEF HasCount
    <2>2. q = [[D EXCEPT !.ehdr[f] = escape] EXCEPT !.scns[1].sh[sf] = n, !.scns[1].dirty = TRUE]
      BY <2>1, <1>4 DEF SetCount
    <2>3. q = [D EXCEPT !.scns[1].sh[sf] = n, !.scns[1].dirty = TRUE]
      <3> HIDE DEF q
      <3> QED  BY <2>1, <2>2, <1>2
    <2> DEFINE s == D.scns[1]
               sh == s.sh
    <2>4. 1 \in DOMAIN D.scns
      BY <2>1 DEF IsElf
    <2>5. s \in Section /\ sh \in Shdr
      BY <2>4, SectionFields
    <2>6. [sh EXCEPT ![sf] = n] = sh
      <3>1. sh[sf] = n
        BY <2>1
      <3> HIDE DEF sh
      <3> QED  BY <2>5, <3>1 DEF Shdr
    <2>7. [D EXCEPT !.scns[1].sh[sf] = n] = D
      <3>1. [s EXCEPT !.sh = sh] = s
        <4> DEFINE x == sh
        <4>1. s.sh = x
          OBVIOUS
        <4> HIDE DEF s, x
        <4>2. [s EXCEPT !.sh = x] = s
          BY <2>5, <4>1 DEF Section
        <4> QED  BY <4>2 DEF x
      <3>2. [D EXCEPT !.scns[1].sh[sf] = n] = [D EXCEPT !.scns[1] = [s EXCEPT !.sh = [sh EXCEPT ![sf] = n]]]
        OBVIOUS
      <3>3. [D EXCEPT !.scns[1] = s] = D
        BY <2>4, ScnSame
      <3> HIDE DEF sh, s
      <3> QED  BY <2>6, <3>1, <3>2, <3>3
    <2>8. [D EXCEPT !.scns[1].dirty = TRUE] = D
      <3>1. [s EXCEPT !.dirty = TRUE] = s
        <4>1. s.dirty = TRUE
          BY <2>1
        <4> HIDE DEF s
        <4> QED  BY <2>5, <4>1 DEF Section
      <3>2. [D EXCEPT !.scns[1].dirty = TRUE] = [D EXCEPT !.scns[1] = [s EXCEPT !.dirty = TRUE]]
        OBVIOUS
      <3>3. [D EXCEPT !.scns[1] = s] = D
        BY <2>4, ScnSame
      <3> HIDE DEF s
      <3> QED  BY <3>1, <3>2, <3>3
    <2>9. q = [[D EXCEPT !.scns[1].sh[sf] = n] EXCEPT !.scns[1].dirty = TRUE]
      BY <2>3
    <2> HIDE DEF q
    <2> QED  BY <2>7, <2>8, <2>9 DEF q
  <1> QED  BY <1>3, <1>4

\* A number that is there stays when another is put in.
LEMMA CountStays ==
  ASSUME NEW d, IsElf(d), NEW q, IsElf(q), OneCount(d, q, "shnum", "size"), NEW n, NEW limit, NEW escape,
         HasCount(d, "phnum", limit, "info", n, escape)
  PROVE  HasCount(q, "phnum", limit, "info", n, escape)
  <1>1. "phnum" \in DOMAIN NewEhdr /\ "info" \in DOMAIN NoShdr
        /\ d.scns \in Seq(Section) /\ q.scns \in Seq(Section)
    BY DEF NewEhdr, NoShdr, IsElf
  <1>2. q.ehdr["phnum"] = d.ehdr["phnum"]
    BY <1>1 DEF OneCount
  <1>3. ASSUME d.scns # <<>>, d.scns[1].sh["info"] = n, d.scns[1].dirty = TRUE
        PROVE  q.scns # <<>> /\ q.scns[1].sh["info"] = n /\ q.scns[1].dirty = TRUE
    <2>1. Len(q.scns) # 0
      BY <1>1, <1>3 DEF OneCount
    <2>2. 1 \in DOMAIN q.scns
      BY <1>1, <2>1
    <2>3. q.scns[1] \in Section
      BY <1>1, <2>2
    <2>4. q.scns[1].dirty \in BOOLEAN /\ q.scns[1].dirty
      BY <2>3, <1>3 DEF OneCount, Section
    <2> QED  BY <1>1, <1>3, <2>2, <2>4 DEF OneCount
  <1> QED  BY <1>2, <1>3 DEF HasCount

\* D has the sections of d, but for numbers in section header 0.
SameScns(d, D) ==
  /\ Len(D.scns) = Len(d.scns) \/ (Len(d.scns) = 0 /\ Len(D.scns) = 1)
  /\ \A i \in 2 .. Len(d.scns) : D.scns[i] = d.scns[i]
  /\ d.scns # <<>> => D.scns[1].sh.type = d.scns[1].sh.type

\* The counts, again.
LEMMA CountsTwice ==
  ASSUME NEW w, IsLayout(w), w.err = "NONE", NEW nphdr \in Nat, NEW nscn \in Nat
  PROVE  LET x == ResyncCounts(w, nphdr, nscn)
             d == w.e
             D == x.e
         IN  /\ x = [w EXCEPT !.e = D] /\ IsElf(D) /\ IsRecord(D) /\ D.ehdr # NULL
             /\ ResyncCounts([w EXCEPT !.e = D], nphdr, nscn) = x
             /\ D.cmd = d.cmd /\ D.layout = d.layout /\ D.nphdr = d.nphdr /\ D.nscn = d.nscn
             /\ D.order = d.order /\ D.loaded = d.loaded
             /\ D.ehdr.version = d.ehdr.version /\ D.ehdr.class = d.ehdr.class
             /\ D.ehdr.data = d.ehdr.data /\ D.ehdr.shentsize = d.ehdr.shentsize
             /\ D.layout => D.ehdr.phoff = d.ehdr.phoff /\ D.ehdr.shoff = d.ehdr.shoff
             /\ SameScns(d, D)
  <1> DEFINE d == w.e
             p == SetPhnum(d, nphdr)
             q == SetShnum(p, nscn)
             po == StartOf(w, "PHDR")
             so == StartOf(w, "SHDR")
             h == [q.ehdr EXCEPT !.phoff = po, !.shoff = so]
             D == IF d.layout THEN q ELSE [q EXCEPT !.ehdr = h]
             x == ResyncCounts(w, nphdr, nscn)
             wD == [w EXCEPT !.e = D]
  <1>1. IsElf(d) /\ d.ehdr # NULL /\ DOMAIN w = {"e", "err", "rc", "ext"}
    BY DEF IsLayout
  <1>2. XNUM \in Nat /\ LORESERVE \in Nat /\ 0 \in Nat
    BY NumberingAssumption
  <1>3. IsElf(p) /\ p.ehdr # NULL /\ HasCount(p, "phnum", XNUM, "info", nphdr, XNUM)
        /\ OneCount(d, p, "phnum", "info")
    BY <1>1, <1>2, SetCountDoes DEF SetPhnum
  <1> HIDE DEF p
  <1>4. IsElf(q) /\ q.ehdr # NULL /\ IsRecord(q)
        /\ HasCount(q, "shnum", LORESERVE, "size", nscn, 0) /\ OneCount(p, q, "shnum", "size")
    BY <1>2, <1>3, SetCountDoes DEF SetShnum
  <1>5. HasCount(q, "phnum", XNUM, "info", nphdr, XNUM)
    BY <1>3, <1>4, CountStays
  <1>6. po \in Nat /\ so \in Nat
    BY StartOfIs DEF IsLayout
  <1>7. x = wD
    <2>0. "ehdr" \in DOMAIN q
      BY <1>4 DEF IsElf
    <2>1. [q EXCEPT !.ehdr.phoff = po, !.ehdr.shoff = so] = [q EXCEPT !.ehdr = h]
      <3> HIDE DEF q, po, so
      <3> QED  BY <2>0
    <2>2. x = IF d.layout THEN [w EXCEPT !.e = q]
              ELSE [w EXCEPT !.e = [q EXCEPT !.ehdr.phoff = po, !.ehdr.shoff = so]]
      BY DEF ResyncCounts, p
    <2> HIDE DEF q, h, x, po, so
    <2> QED  BY <2>1, <2>2
  <1> HIDE DEF q, po, so
  <1>8. q.ehdr \in Header
    BY <1>4 DEF IsElf
  <1>9. /\ h \in Header /\ h # NULL /\ h.phoff = po /\ h.shoff = so
        /\ \A k \in DOMAIN NewEhdr : k # "phoff" /\ k # "shoff" => h[k] = q.ehdr[k]
    <2>1. h \in Header /\ h.phoff = po /\ h.shoff = so
      BY <1>6, <1>8 DEF Header
    <2>2. \A k \in DOMAIN NewEhdr : k # "phoff" /\ k # "shoff" => h[k] = q.ehdr[k]
      BY <1>8 DEF Header, NewEhdr
    <2> HIDE DEF h
    <2> QED  BY <2>1, <2>2, ProgramsAssumption
  <1> HIDE DEF h
  <1>10. /\ IsElf(D) /\ IsRecord(D) /\ D.ehdr # NULL
         /\ D.ehdr = IF d.layout THEN q.ehdr ELSE h
         /\ D.scns = q.scns /\ D.layout = q.layout /\ D.cmd = q.cmd
         /\ D.nphdr = q.nphdr /\ D.nscn = q.nscn /\ D.order = q.order /\ D.loaded = q.loaded
    <2>1. CASE d.layout
      BY <2>1, <1>4
    <2>2. CASE ~d.layout
      <3> DEFINE b == [q EXCEPT !.ehdr = h]
      <3>1. /\ IsElf(b) /\ b.ehdr = h /\ b.scns = q.scns /\ b.layout = q.layout /\ b.cmd = q.cmd
            /\ b.nphdr = q.nphdr /\ b.nscn = q.nscn
        BY <1>4, <1>9, SetEhdr
      <3>2. b.order = q.order /\ b.loaded = q.loaded /\ IsRecord(b)
        BY <1>4 DEF IsElf, IsRecord
      <3>3. D = b
        BY <2>2
      <3> HIDE DEF b, D
      <3> QED  BY <2>2, <3>1, <3>2, <3>3, <1>9
    <2> QED  BY <2>1, <2>2
  <1> HIDE DEF D
  <1>11. D.layout = d.layout
    BY <1>3, <1>4, <1>10 DEF OneCount
  <1>12. \A k \in DOMAIN NewEhdr : (k # "phoff" /\ k # "shoff") \/ D.layout => D.ehdr[k] = q.ehdr[k]
    BY <1>9, <1>10, <1>11
  <1>13. HasCount(D, "phnum", XNUM, "info", nphdr, XNUM) /\ HasCount(D, "shnum", LORESERVE, "size", nscn, 0)
    <2>1. D.ehdr["phnum"] = q.ehdr["phnum"] /\ D.ehdr["shnum"] = q.ehdr["shnum"]
      BY <1>12 DEF NewEhdr
    <2> QED  BY <2>1, <1>4, <1>5, <1>10 DEF HasCount
  <1>14. SetPhnum(D, nphdr) = D /\ SetShnum(D, nscn) = D
    <2>1. SetPhnum(D, nphdr) = D
      BY <1>10, <1>13, SetCountSame DEF SetPhnum
    <2>2. SetShnum(D, nscn) = D
      BY <1>10, <1>13, SetCountSame DEF SetShnum
    <2> QED  BY <2>1, <2>2
  <1>15. ResyncCounts(wD, nphdr, nscn) = wD
    <2>1. wD.e = D /\ wD.err = "NONE" /\ wD.ext = w.ext /\ [wD EXCEPT !.e = D] = wD
      BY <1>1
    <2>2. StartOf(wD, "PHDR") = po /\ StartOf(wD, "SHDR") = so
      <3> HIDE DEF wD
      <3> QED  BY <2>1 DEF StartOf, po, so
    <2> HIDE DEF wD
    <2>3. CASE D.layout
      BY <2>1, <2>3, <1>14 DEF ResyncCounts
    <2>4. CASE ~D.layout
      <3>1. ResyncCounts(wD, nphdr, nscn)
              = [wD EXCEPT !.e = [D EXCEPT !.ehdr.phoff = po, !.ehdr.shoff = so]]
        BY <2>1, <2>2, <2>4, <1>14 DEF ResyncCounts
      <3>2. D.ehdr = h /\ D.ehdr \in Header
        BY <2>4, <1>9, <1>10, <1>11
      <3> DEFINE k == D.ehdr
      <3>3. [k EXCEPT !.phoff = po, !.shoff = so] = k
        <4>1. k \in Header /\ k.phoff = po /\ k.shoff = so
          BY <3>2, <1>9
        <4> HIDE DEF k
        <4> QED  BY <4>1 DEF Header
      <3>4. [D EXCEPT !.ehdr.phoff = po, !.ehdr.shoff = so]
              = [D EXCEPT !.ehdr = [k EXCEPT !.phoff = po, !.shoff = so]]
        <4>1. "ehdr" \in DOMAIN D
          BY <1>10 DEF IsElf
        <4> QED  BY <4>1
      <3>5. [D EXCEPT !.ehdr = k] = D
        BY <1>10 DEF IsRecord
      <3> HIDE DEF k
      <3> QED  BY <2>1, <3>1, <3>3, <3>4, <3>5
    <2> QED  BY <2>3, <2>4
  <1>16. wD.e = D
    BY <1>1
  <1> HIDE DEF wD
  <1>17. /\ D.cmd = d.cmd /\ D.layout = d.layout /\ D.nphdr = d.nphdr /\ D.nscn = d.nscn
         /\ D.order = d.order /\ D.loaded = d.loaded
    BY <1>3, <1>4, <1>10 DEF OneCount
  <1>18. \A k \in DOMAIN NewEhdr :
           k # "phnum" /\ k # "shnum" /\ ((k # "phoff" /\ k # "shoff") \/ D.layout)
             => D.ehdr[k] = d.ehdr[k]
    BY <1>3, <1>4, <1>12 DEF OneCount
  <1>19. /\ D.ehdr.version = d.ehdr.version /\ D.ehdr.class = d.ehdr.class
         /\ D.ehdr.data = d.ehdr.data /\ D.ehdr.shentsize = d.ehdr.shentsize
         /\ D.layout => D.ehdr.phoff = d.ehdr.phoff /\ D.ehdr.shoff = d.ehdr.shoff
    BY <1>18 DEF NewEhdr
  <1>20. SameScns(d, D)
    <2>1. d.scns \in Seq(Section) /\ p.scns \in Seq(Section) /\ q.scns \in Seq(Section)
          /\ "type" \in DOMAIN NoShdr
      BY <1>1, <1>3, <1>4 DEF IsElf, NoShdr
    <2>2. Len(D.scns) = Len(d.scns) \/ (Len(d.scns) = 0 /\ Len(D.scns) = 1)
      BY <1>3, <1>4, <1>10 DEF OneCount
    <2>3. \A i \in 2 .. Len(d.scns) : D.scns[i] = d.scns[i]
      <3> TAKE i \in 2 .. Len(d.scns)
      <3>1. Len(p.scns) = Len(d.scns)
        BY <2>1, <1>3 DEF OneCount
      <3> QED  BY <3>1, <1>3, <1>4, <1>10 DEF OneCount
    <2>4. ASSUME d.scns # <<>> PROVE D.scns[1].sh.type = d.scns[1].sh.type
      <3>1. Len(d.scns) # 0 /\ Len(d.scns) \in Nat
        BY <2>1, <2>4
      <3>2. Len(p.scns) # 0
        BY <3>1, <1>3 DEF OneCount
      <3>3. p.scns # <<>>
        BY <2>1, <3>2
      <3>4. p.scns[1].sh["type"] = d.scns[1].sh["type"] /\ q.scns[1].sh["type"] = p.scns[1].sh["type"]
        BY <2>1, <2>4, <3>3, <1>3, <1>4 DEF OneCount
      <3> QED  BY <3>4, <1>10
    <2> QED  BY <2>2, <2>3, <2>4 DEF SameScns
  <1> HIDE DEF x
  <1> QED  BY <1>7, <1>10, <1>15, <1>16, <1>17, <1>19, <1>20 DEF x, wD

\* What the loop over the sections leaves alone.
LEMMA AddSectionsKeeps ==
  ASSUME NEW u, IsLayout(u)
  PROVE  /\ IsLayout(AddSections(u)) /\ Others(u.e, AddSections(u).e)
         /\ AddSections(u).err = "NONE" => u.err = "NONE"
  <1>1. Len(u.e.scns) \in Nat
    BY DEF IsLayout, IsElf
  <1>2. 0 \in 0 .. Len(u.e.scns) /\ Len(u.e.scns) \in 0 .. Len(u.e.scns)
    BY <1>1
  <1>3. PICK f : Turns(u, f)
    BY AddSectionsFrame
  <1> QED  BY <1>2, <1>3 DEF Turns

\* A descriptor whose layout does not depend on what computing it changes.
\* Section header 0, where the numbers go that the executable header has no
\* room for (elf_update.c:688), is not of a section in the layout: the size
\* written there would be its size the next time.  And the program header
\* table of the file read could be read, from where the executable header
\* had it: e_phoff is set after that, and another place tried the next time.
Settled(d) ==
  /\ d.scns # <<>> => Skipped(d.scns[1])
  /\ d.nphdr # 0 /\ d.raw # NULL => d.phdr # NULL

\* _libelf_resync_elf() on what it has computed computes the same.
LEMMA ResyncTwice ==
  ASSUME NEW d, IsElf(d), Resync(d).err = "NONE", Settled(Resync(d).e)
  PROVE  Resync(Resync(d).e) = Resync(d)
  <1> DEFINE H == Ehdr(d)
             h == H.e
             a == AddEhdr(h)
             t == ResyncTables(a)
             s == Sections(t.e)
             u == [t EXCEPT !.e = s.e, !.err = s.err]
             v == AddSections(u)
             w == AddShdr(v, h.nscn)
             x == ResyncCounts(w, h.nphdr, h.nscn)
             D == x.e
             r == Resync(d)
  <1>1. IsElf(h) /\ (H.err = "NONE" => h.ehdr # NULL)
    BY EhdrReads DEF Reads
  <1>2. r = IF H.err # "NONE" THEN [e |-> h, err |-> H.err, rc |-> 0, ext |-> <<>>]
            ELSE IF t.err # "NONE" THEN t ELSE x
    BY DEF Resync, ResyncHeader, ResyncBody, ResyncSections
  <1> HIDE DEF H
  <1>3. H.err = "NONE" /\ t.err = "NONE" /\ r = x
    <2>1. r.err = "NONE"
      OBVIOUS
    <2> HIDE DEF r, t, x, h
    <2>2. H.err = "NONE"
      BY <1>2, <2>1
    <2>3. t.err = "NONE"
      BY <1>2, <2>1, <2>2
    <2> QED  BY <1>2, <2>2, <2>3
  <1>4. h.ehdr # NULL /\ h.ehdr \in Header /\ h.nphdr \in Nat /\ h.nscn \in Nat
    BY <1>1, <1>3 DEF IsElf
  <1>5. a.err = "NONE"
    <2> HIDE DEF a
    <2> QED  BY <1>3 DEF ResyncTables, AddPhdr
  <1>6. IsLayout(a) /\ \A j \in 1 .. Len(a.ext) : a.ext[j].type # "SECTION"
    BY <1>1, <1>4, AddEhdrIs
  <1>7. IsLayout(t) /\ t.e.ehdr # NULL
    <2>1. IsLayout(t)
      <3> HIDE DEF a
      <3> QED  BY <1>6, AddPhdrIs
    <2> HIDE DEF t
    <2> QED  BY <2>1, <1>3 DEF IsLayout
  <1> HIDE DEF h, a
  <1>8. IsLayout(u) /\ u.e = s.e /\ u.err = s.err /\ Len(u.e.scns) \in Nat
    <2>1. Reads(t.e, s.e) /\ s.e.ehdr = t.e.ehdr /\ IsElf(t.e)
      <3>1. IsElf(t.e)
        BY <1>7 DEF IsLayout
      <3> HIDE DEF t
      <3> QED  BY <3>1, <1>7, SectionsRead
    <2> HIDE DEF s, t
    <2>2. IsElf(s.e) /\ Len(s.e.scns) \in Nat
      BY <2>1 DEF Reads, IsElf
    <2>3. Len(s.e.scns) >= Len(t.e.scns)
      <3>1. t.e.scns \in Seq(Section) /\ s.e.scns \in Seq(Section)
            /\ \A i \in DOMAIN t.e.scns : i \in DOMAIN s.e.scns
        BY <2>1, <2>2 DEF Reads, IsElf
      <3> DEFINE y == t.e.scns
                 z == s.e.scns
      <3>2. y \in Seq(Section) /\ z \in Seq(Section) /\ \A i \in DOMAIN y : i \in DOMAIN z
        BY <3>1
      <3> HIDE DEF y, z
      <3>3. Len(y) \in Nat /\ Len(z) \in Nat /\ DOMAIN y = 1 .. Len(y) /\ DOMAIN z = 1 .. Len(z)
        BY <3>2
      <3>4. CASE Len(y) = 0
        BY <3>3, <3>4 DEF y, z
      <3>5. CASE Len(y) # 0
        <4>1. Len(y) \in 1 .. Len(z)
          BY <3>2, <3>3, <3>5
        <4> QED  BY <4>1, <3>3 DEF y, z
      <3> QED  BY <3>4, <3>5
    <2>4. IsLayout(u)
      BY <1>3, <1>7, <2>1, <2>2, <2>3, SetElf
    <2>5. u.e = s.e /\ u.err = s.err
      BY <1>7 DEF IsLayout
    <2> HIDE DEF u
    <2> QED  BY <2>2, <2>4, <2>5
  <1> HIDE DEF u, t
  <1>9. IsLayout(v) /\ Others(u.e, v.e) /\ (v.err = "NONE" => u.err = "NONE")
    BY <1>8, AddSectionsKeeps
  <1> HIDE DEF v
  <1>10. IsLayout(w) /\ w.e = v.e
    BY <1>4, <1>9, AddShdrIs
  <1>11. w.err = "NONE"
    <2>1. x.err = "NONE"
      BY <1>3
    <2> HIDE DEF w
    <2> QED  BY <2>1 DEF ResyncCounts
  <1> HIDE DEF w
  <1>12. /\ x = [w EXCEPT !.e = D] /\ IsElf(D) /\ IsRecord(D) /\ D.ehdr # NULL
         /\ ResyncCounts([w EXCEPT !.e = D], h.nphdr, h.nscn) = x
         /\ D.cmd = w.e.cmd /\ D.layout = w.e.layout /\ D.nphdr = w.e.nphdr /\ D.nscn = w.e.nscn
         /\ D.order = w.e.order /\ D.loaded = w.e.loaded
         /\ D.ehdr.version = w.e.ehdr.version /\ D.ehdr.class = w.e.ehdr.class
         /\ D.ehdr.data = w.e.ehdr.data /\ D.ehdr.shentsize = w.e.ehdr.shentsize
         /\ D.layout => D.ehdr.phoff = w.e.ehdr.phoff /\ D.ehdr.shoff = w.e.ehdr.shoff
         /\ SameScns(w.e, D)
    BY <1>4, <1>10, <1>11, CountsTwice
  <1>13. Settled(D)
    BY <1>3
  <1> HIDE DEF x, D
  <1>14. AddShdr([v EXCEPT !.e = D], h.nscn) = [w EXCEPT !.e = D] /\ v.err = "NONE"
    <2>1. AddShdr(v, h.nscn).err = "NONE"
      BY <1>11 DEF w
    <2>2. D.layout = v.e.layout /\ (D.layout => D.ehdr.shoff = v.e.ehdr.shoff)
      BY <1>10, <1>12
    <2> QED  BY <2>1, <2>2, <1>4, <1>9, AddShdrTwice DEF w
  <1>15. AddSections([u EXCEPT !.e = D]) = [v EXCEPT !.e = D] /\ u.err = "NONE"
    <2>1. D.layout = u.e.layout /\ D.cmd = u.e.cmd /\ Len(v.e.scns) = Len(u.e.scns)
      BY <1>9, <1>10, <1>12 DEF Others
    <2>2. SameScns(v.e, D) /\ IsElf(v.e) /\ Len(v.e.scns) \in Nat /\ v.e.scns \in Seq(Section)
          /\ D.scns \in Seq(Section)
      BY <1>9, <1>10, <1>12 DEF IsLayout, IsElf
    <2>3. Len(D.scns) >= Len(u.e.scns)
      BY <2>1, <2>2 DEF SameScns
    <2>4. ASSUME NEW i \in 1 .. Len(u.e.scns)
          PROVE  D.scns[i] = v.e.scns[i] \/ (Skipped(D.scns[i]) /\ Skipped(v.e.scns[i]))
      <3>1. CASE i = 1
        <4>1. v.e.scns # <<>> /\ D.scns # <<>>
          <5>1. Len(v.e.scns) # 0 /\ Len(D.scns) # 0
            BY <2>1, <2>2, <2>3, <2>4
          <5> QED  BY <5>1
        <4>2. Skipped(D.scns[1]) /\ D.scns[1].sh.type = v.e.scns[1].sh.type
          BY <4>1, <2>2, <1>13 DEF Settled, SameScns
        <4> QED  BY <3>1, <4>2 DEF Skipped
      <3>2. CASE i # 1
        BY <3>2, <2>1, <2>2 DEF SameScns
      <3> QED  BY <3>1, <3>2
    <2>5. ASSUME NEW i \in Len(u.e.scns) + 1 .. Len(D.scns) PROVE Skipped(D.scns[i])
      <3>1. i = 1 /\ Len(D.scns) = 1
        <4> DEFINE m == Len(u.e.scns)
                   n == Len(D.scns)
        <4>1. m \in Nat /\ (n = m \/ (m = 0 /\ n = 1)) /\ i \in m + 1 .. n
          BY <2>1, <2>2, <2>5 DEF SameScns
        <4> HIDE DEF m, n
        <4>2. CASE n = m
          <5>1. m + 1 <= i /\ i <= m /\ i \in Int
            BY <4>1, <4>2
          <5> QED  BY <4>1, <5>1
        <4>3. CASE m = 0 /\ n = 1
          <5>1. i = 1
            BY <4>1, <4>3
          <5> QED  BY <4>3, <5>1 DEF n
        <4> QED  BY <4>1, <4>2, <4>3
      <3>2. D.scns # <<>>
        <4>1. Len(D.scns) # 0 /\ D.scns \in Seq(Section)
          BY <2>2, <3>1
        <4> QED  BY <4>1
      <3> QED  BY <3>1, <3>2, <1>13 DEF Settled
    <2>6. AddSections(u).err = "NONE"
      BY <1>14 DEF v
    <2>7. AddSections([u EXCEPT !.e = D]) = [AddSections(u) EXCEPT !.e = D]
      BY <2>1, <2>3, <2>4, <2>5, <2>6, <1>8, <1>12, AddSectionsTwice DEF v
    <2> QED  BY <2>7, <1>9, <1>14 DEF v
  <1>16. /\ s.e.cmd = "WRITE" \/ s.e.loaded
         /\ s.e.cmd = t.e.cmd /\ s.e.layout = t.e.layout /\ s.e.ehdr = t.e.ehdr
         /\ s.e.nphdr = t.e.nphdr /\ s.e.nscn = t.e.nscn /\ s.e.order = t.e.order
    <2>1. IsElf(t.e) /\ s.err = "NONE"
      BY <1>7, <1>8, <1>15 DEF IsLayout
    <2> QED  BY <2>1, SectionsTwice
  <1> HIDE DEF s
  \* D and t.e, which came before the sections.
  <1>17. /\ D.cmd = t.e.cmd /\ D.layout = t.e.layout /\ D.nphdr = t.e.nphdr
         /\ D.nscn = t.e.nscn /\ D.order = t.e.order
         /\ D.ehdr.version = t.e.ehdr.version /\ D.ehdr.class = t.e.ehdr.class
         /\ D.ehdr.data = t.e.ehdr.data /\ D.ehdr.shentsize = t.e.ehdr.shentsize
         /\ D.layout => D.ehdr.phoff = t.e.ehdr.phoff
         /\ D.cmd = "WRITE" \/ D.loaded
    BY <1>8, <1>9, <1>10, <1>12, <1>16 DEF Others
  <1>18. Sections(D) = Ok(D)
    BY <1>17 DEF Sections
  \* t.e and a.e.
  <1>19. /\ t.e.cmd = a.e.cmd /\ t.e.layout = a.e.layout /\ t.e.ehdr = a.e.ehdr
         /\ t.e.nphdr = a.e.nphdr /\ t.e.nscn = a.e.nscn /\ t.e.order = a.e.order
    BY <1>5, <1>6, AddPhdrFrame DEF t
  <1>20. ResyncTables([a EXCEPT !.e = D]) = [t EXCEPT !.e = D]
    <2>1. D.layout = a.e.layout /\ D.nphdr = a.e.nphdr
          /\ (D.layout => D.ehdr.phoff = a.e.ehdr.phoff)
      BY <1>17, <1>19
    <2>2. D.nphdr # 0 => D.phdr # NULL \/ D.raw = NULL
      BY <1>13 DEF Settled
    <2>3. ResyncTables(a).err = "NONE"
      BY <1>3 DEF t
    <2> QED  BY <2>1, <2>2, <2>3, <1>5, <1>6, <1>12, AddPhdrTwice DEF t
  <1>21. AddEhdr(D) = [a EXCEPT !.e = D] /\ D.nphdr = h.nphdr /\ D.nscn = h.nscn
    <2> DEFINE b == [h EXCEPT !.order = h.ehdr.data, !.ehdr.shentsize = 1]
    <2>0. a = AddEhdr(h)
      BY DEF a
    <2>1. a.e = b
      BY <1>5, AddEhdrGives DEF a
    <2>2. /\ b.cmd = h.cmd /\ b.nphdr = h.nphdr /\ b.nscn = h.nscn /\ b.order = h.ehdr.data
          /\ b.ehdr.version = h.ehdr.version /\ b.ehdr.class = h.ehdr.class
          /\ b.ehdr.data = h.ehdr.data /\ b.ehdr.shentsize = 1
      <3> DEFINE g == [h.ehdr EXCEPT !.shentsize = 1]
      <3>1. g.version = h.ehdr.version /\ g.class = h.ehdr.class /\ g.data = h.ehdr.data
            /\ g.shentsize = 1
        BY <1>4 DEF Header
      <3>2. b = [h EXCEPT !.order = h.ehdr.data, !.ehdr = g]
        OBVIOUS
      <3> HIDE DEF g, b
      <3>3. /\ b.cmd = h.cmd /\ b.nphdr = h.nphdr /\ b.nscn = h.nscn /\ b.order = h.ehdr.data
            /\ b.ehdr = g
        BY <3>2, <1>1 DEF IsElf
      <3> QED  BY <3>1, <3>3
    <2> HIDE DEF b
    <2>3. AddEhdr(h).err = "NONE"
      BY <1>5, <2>0
    <2>4. /\ D.cmd = h.cmd /\ D.ehdr.version = h.ehdr.version /\ D.ehdr.class = h.ehdr.class
          /\ D.ehdr.data = h.ehdr.data /\ D.ehdr.shentsize = 1 /\ D.order = h.ehdr.data
          /\ D.nphdr = h.nphdr /\ D.nscn = h.nscn
      BY <1>17, <1>19, <2>1, <2>2
    <2> QED  BY <2>0, <2>3, <2>4, <1>1, <1>4, <1>12, AddEhdrTwice
  <1>22. Resync(D) = x
    <2> DEFINE aD == [a EXCEPT !.e = D]
               tD == [t EXCEPT !.e = D]
               uD == [u EXCEPT !.e = D]
               vD == [v EXCEPT !.e = D]
               wD == [w EXCEPT !.e = D]
    <2>1. Ehdr(D) = Ok(D)
      BY <1>12, EhdrReads
    <2>2. Resync(D) = ResyncBody(ResyncTables(AddEhdr(D)), D)
      <3>1. Ok(D).e = D /\ Ok(D).err = "NONE"
        BY DEF Ok
      <3> QED  BY <2>1, <3>1 DEF Resync, ResyncHeader
    <2>3. ResyncTables(AddEhdr(D)) = tD
      BY <1>20, <1>21
    <2>4. tD.err = "NONE" /\ tD.e = D
      BY <1>3, <1>7 DEF IsLayout
    <2>5. ResyncSections(tD, Ok(D)) = vD
      <3>1. [tD EXCEPT !.e = Ok(D).e, !.err = Ok(D).err] = uD
        <4>1. u = [t EXCEPT !.e = s.e, !.err = s.err] /\ s.err = "NONE"
          BY <1>8, <1>15 DEF u
        <4> QED  BY <4>1, <1>7 DEF IsLayout, Ok
      <3> HIDE DEF tD, uD
      <3>2. AddSections(uD) = vD
        BY <1>15 DEF uD
      <3> QED  BY <3>1, <3>2 DEF ResyncSections
    <2> HIDE DEF tD, vD
    <2>6. Resync(D) = ResyncCounts(AddShdr(vD, D.nscn), D.nphdr, D.nscn)
      BY <2>2, <2>3, <2>4, <2>5, <1>18 DEF ResyncBody
    <2>7. AddShdr(vD, D.nscn) = wD
      BY <1>14, <1>21 DEF vD
    <2> HIDE DEF wD
    <2> QED  BY <2>6, <2>7, <1>12, <1>21 DEF wD
  <1>23. Resync(r.e) = r
    BY <1>3, <1>22 DEF D
  <1> QED  BY <1>23 DEF r

-----------------------------------------------------------------------------
(* The image of the file.                                                  *)

LEMMA CellsAre ==
  ASSUME NEW n \in Nat, NEW c \in Cell
  PROVE  Cells(n, c) \in Seq(Cell) /\ Len(Cells(n, c)) = n
  <1>1. Cells(n, c) \in [1 .. n -> Cell]
    BY DEF Cells
  <1> QED  BY <1>1, FunctionIsSeq

LEMMA Marks ==
  /\ Fill \in Cell /\ Junk \in Cell
  /\ <<"ehdr", "">> \in Cell /\ <<"phdr", "">> \in Cell /\ <<"shdr", "">> \in Cell
  BY DEF Cell, Fill, Junk

LEMMA PutCells ==
  ASSUME NEW cells \in Seq(Cell), NEW off \in Nat, NEW new \in Seq(Cell)
  PROVE  Put(cells, off, new) \in Seq(Cell)
  <1>1. ASSUME NEW k \in DOMAIN cells
        PROVE  (IF k > off /\ k <= off + Len(new) THEN new[k - off] ELSE cells[k]) \in Cell
    <2>1. k \in Nat /\ cells[k] \in Cell
      OBVIOUS
    <2>2. CASE k > off /\ k <= off + Len(new)
      <3>1. k - off \in 1 .. Len(new)
        BY <2>1, <2>2
      <3>2. new[k - off] \in Cell
        BY <3>1
      <3> QED  BY <3>2, <2>2
    <2> QED  BY <2>1, <2>2
  <1>2. Put(cells, off, new) \in [1 .. Len(cells) -> Cell]
    <2>1. DOMAIN cells = 1 .. Len(cells)
      OBVIOUS
    <2> QED  BY <1>1, <2>1 DEF Put
  <1> QED  BY <1>2, FunctionIsSeq

\* An image that is being written for the descriptor d.
IsImage(w, d) ==
  /\ DOMAIN w = {"e", "err", "rc", "cells"}
  /\ IsElf(w.e) /\ w.e.cmd = d.cmd /\ w.e.ehdr = d.ehdr /\ Len(w.e.scns) = Len(d.scns)
  /\ w.rc \in Nat /\ w.cells \in Seq(Cell)

LEMMA WriteAtIs ==
  ASSUME NEW d, NEW w, IsImage(w, d), NEW off \in Nat, NEW new \in Seq(Cell)
  PROVE  LET q == WriteAt(w, off, new) IN IsImage(q, d) /\ q.e = w.e /\ q.err = w.err
  <1> DEFINE cells == IF off > w.rc THEN Put(w.cells, w.rc, Cells(off - w.rc, Fill)) ELSE w.cells
             to == Put(cells, off, new)
             q == WriteAt(w, off, new)
  <1>1. w.rc \in Nat /\ w.cells \in Seq(Cell) /\ DOMAIN w = {"e", "err", "rc", "cells"}
    BY DEF IsImage
  <1>2. cells \in Seq(Cell)
    <2>1. CASE off > w.rc
      <3>1. off - w.rc \in Nat
        BY <1>1, <2>1
      <3>2. Cells(off - w.rc, Fill) \in Seq(Cell)
        BY <3>1, Marks, CellsAre
      <3>3. Put(w.cells, w.rc, Cells(off - w.rc, Fill)) \in Seq(Cell)
        BY <3>2, <1>1, PutCells
      <3> QED  BY <3>3, <2>1
    <2> QED  BY <2>1, <1>1
  <1> HIDE DEF cells
  <1>3. to \in Seq(Cell)
    BY <1>2, PutCells
  <1>4. q = [w EXCEPT !.rc = off + Len(new), !.cells = to]
    <2>1. q = [w EXCEPT !.rc = off + Len(new),
                 !.cells = Put(IF off > w.rc THEN Put(@, w.rc, Cells(off - w.rc, Fill))
                               ELSE @, off, new)]
      BY DEF WriteAt
    <2>2. [w EXCEPT !.rc = off + Len(new),
                 !.cells = Put(IF off > w.rc THEN Put(@, w.rc, Cells(off - w.rc, Fill))
                               ELSE @, off, new)]
            = [w EXCEPT !.rc = off + Len(new), !.cells = to]
      BY <1>1 DEF cells
    <2> QED  BY <2>1, <2>2
  <1> HIDE DEF to, q
  <1>5. /\ DOMAIN q = {"e", "err", "rc", "cells"} /\ q.e = w.e /\ q.err = w.err
        /\ q.rc = off + Len(new) /\ q.cells = to
    BY <1>1, <1>4
  <1>6. off + Len(new) \in Nat
    OBVIOUS
  <1> QED  BY <1>3, <1>5, <1>6 DEF IsImage, q

\* An error, or another descriptor, in place of what an image had.
LEMMA ImageWith ==
  ASSUME NEW d, NEW w, IsImage(w, d)
  PROVE  /\ \A err : LET q == [w EXCEPT !.err = err] IN IsImage(q, d) /\ q.e = w.e
         /\ \A x : IsElf(x) /\ x.cmd = d.cmd /\ x.ehdr = d.ehdr /\ Len(x.scns) = Len(d.scns)
                     => IsImage([w EXCEPT !.e = x], d)
         /\ \A rc \in Nat : IsImage([w EXCEPT !.rc = rc], d)
  BY DEF IsImage

LEMMA WriteOneIs ==
  ASSUME NEW d, NEW v, IsImage(v, d), NEW s \in Section, NEW order, NEW p \in Data
  PROVE  IsImage(WriteOne(v, s, order, p), d)
  <1>1. CASE v.err # "NONE" \/ p.buf = NULL
    BY <1>1, ImageWith DEF WriteOne
  <1>2. CASE v.err = "NONE" /\ p.buf # NULL
    <2>1. p.buf \in Seq(Cell) /\ p.off \in Nat /\ s.soff \in Nat
      BY <1>2 DEF Data, Section
    <2>2. Xlate(p.type, order, p.buf) \in Seq(Cell) /\ s.soff + p.off \in Nat
      BY <2>1, XlateCells
    <2>3. WriteOne(v, s, order, p) = WriteAt(v, s.soff + p.off, Xlate(p.type, order, p.buf))
      BY <1>2 DEF WriteOne
    <2> QED  BY <2>2, <2>3, WriteAtIs
  <1> QED  BY <1>1, <1>2

LEMMA WriteDataLoop ==
  ASSUME NEW w, NEW s, NEW order, Len(s.data) \in Nat
  PROVE  \E v : /\ WriteData(w, s, order) = v[Len(s.data)]
                /\ v[0] = w
                /\ \A j \in 1 .. Len(s.data) : v[j] = WriteOne(v[j - 1], s, order, s.data[j])
  <1> DEFINE len == Len(s.data)
             Next1(f, j) == IF j = 0 THEN w ELSE WriteOne(f[j - 1], s, order, s.data[j])
             Has(n) == \E f : f = [j \in 0 .. n |-> Next1(f, j)]
             S == {n \in Nat : Has(n)}
             v == CHOOSE f : f = [j \in 0 .. len |-> Next1(f, j)]
  <1>1. 0 \in S
    <2> DEFINE f == [j \in 0 .. 0 |-> w]
    <2>1. f = [j \in 0 .. 0 |-> Next1(f, j)]
      OBVIOUS
    <2> QED  BY <2>1
  <1>2. ASSUME NEW n \in Nat, n \in S PROVE n + 1 \in S
    <2>1. PICK f : f = [j \in 0 .. n |-> Next1(f, j)]
      BY <1>2
    <2> DEFINE g == [j \in 0 .. n + 1 |-> IF j <= n THEN f[j]
                                          ELSE WriteOne(f[n], s, order, s.data[n + 1])]
    <2>2. ASSUME NEW j \in 0 .. n + 1 PROVE g[j] = Next1(g, j)
      <3>1. CASE j = 0
        BY <2>1, <3>1
      <3>2. CASE j \in 1 .. n
        <4>1. j \in 0 .. n /\ j - 1 \in 0 .. n + 1 /\ j <= n /\ j - 1 <= n
          BY <3>2
        <4>2. g[j] = f[j] /\ g[j - 1] = f[j - 1]
          BY <4>1
        <4>3. f[j] = Next1(f, j)
          <5> HIDE DEF Next1
          <5> QED  BY <2>1, <4>1
        <4> QED  BY <4>2, <4>3, <3>2
      <3>3. CASE j = n + 1
        <4>1. /\ g[j] = WriteOne(f[n], s, order, s.data[n + 1])
              /\ g[n] = f[n] /\ j - 1 = n /\ j # 0
          BY <3>3
        <4> QED  BY <4>1, <3>3
      <3> QED  BY <3>1, <3>2, <3>3
    <2>3. g = [j \in 0 .. n + 1 |-> Next1(g, j)]
      <3>1. g = [j \in 0 .. n + 1 |-> g[j]]
        OBVIOUS
      <3> HIDE DEF g, Next1
      <3> QED  BY <2>2, <3>1
    <2> HIDE DEF g
    <2> QED  BY <2>3
  <1> HIDE DEF Has
  <1>3. Has(len)
    <2>1. Nat \subseteq S
      BY <1>1, <1>2, NatSet
    <2> QED  BY <2>1
  <1>4. v = [j \in 0 .. len |-> Next1(v, j)]
    BY <1>3 DEF Has
  <1>5. WriteData(w, s, order) = v[len]
    BY DEF WriteData
  <1> HIDE DEF v
  <1>6. len \in Nat
    OBVIOUS
  <1> HIDE DEF len
  <1>7. v[0] = w
    BY <1>4, <1>6
  <1>8. ASSUME NEW j \in 1 .. len PROVE v[j] = WriteOne(v[j - 1], s, order, s.data[j])
    <2>1. j \in 0 .. len /\ j # 0
      BY <1>6
    <2> QED  BY <1>4, <2>1
  <1> QED  BY <1>5, <1>7, <1>8 DEF len

LEMMA WriteDataIs ==
  ASSUME NEW d, NEW w, IsImage(w, d), NEW s \in Section, NEW order
  PROVE  IsImage(WriteData(w, s, order), d)
  <1> DEFINE data == s.data
             len == Len(data)
  <1>1. data \in Seq(Data)
    BY DEF Section
  <1>2. len \in Nat
    BY <1>1
  <1>3. PICK v : /\ WriteData(w, s, order) = v[len]
                 /\ v[0] = w
                 /\ \A j \in 1 .. len : v[j] = WriteOne(v[j - 1], s, order, data[j])
    BY <1>2, WriteDataLoop
  <1> HIDE DEF data
  <1> DEFINE S == {n \in Nat : n <= len => IsImage(v[n], d)}
  <1>4. 0 \in S
    BY <1>3
  <1>5. ASSUME NEW n \in Nat, n \in S PROVE n + 1 \in S
    <2> SUFFICES ASSUME n + 1 <= len PROVE IsImage(v[n + 1], d)
      OBVIOUS
    <2>1. IsImage(v[n], d)
      BY <1>2, <1>5
    <2>2. data[n + 1] \in Data
      BY <1>1
    <2>3. v[n + 1] = WriteOne(v[n], s, order, data[n + 1])
      BY <1>3, <1>2
    <2> QED  BY <2>1, <2>2, <2>3, WriteOneIs
  <1>6. Nat \subseteq S
    <2> HIDE DEF S
    <2> QED  BY <1>4, <1>5, NatSet
  <1> QED  BY <1>2, <1>3, <1>6

LEMMA WriteScnIs ==
  ASSUME NEW d, NEW w, IsImage(w, d), NEW x \in Extent, x.scn \in 1 .. Len(d.scns)
  PROVE  IsImage(WriteScn(w, x), d)
  <1> DEFINE s == w.e.scns[x.scn]
             raw == RawData(w.e, x.scn)
             d1 == raw.e.scns[x.scn].raw[1]
             w1 == WriteAt(w, x.start, <<>>)
             part == SubSeq(w.e.raw.bytes, s.rawoff + 1, s.rawoff + d1.size)
             w2 == WriteAt(w1, x.start, part)
             q == WriteScn(w, x)
  <1>1. IsElf(w.e) /\ x.scn \in DOMAIN w.e.scns
    <2>1. w.e.scns \in Seq(Section) /\ Len(w.e.scns) = Len(d.scns) /\ IsElf(w.e)
      BY DEF IsImage, IsElf
    <2> QED  BY <2>1
  <1>2. s \in Section /\ s.rawoff \in Nat
    BY <1>1, SectionFields
  <1>3. x.start \in Nat /\ <<>> \in Seq(Cell)
    BY DEF Extent
  <1>4. IsImage(w1, d)
    BY <1>3, WriteAtIs
  <1>5. /\ OneScn(w.e, raw.e, x.scn)
        /\ raw.err = "NONE" => raw.e.scns[x.scn].raw # <<>> /\ w.e.raw # NULL
    BY <1>1, RawDataOne
  <1>6. \/ q = w1
        \/ \E err : q = [w EXCEPT !.err = err]
        \/ q = WriteData(w1, s, w.e.order)
        \/ /\ raw.err = "NONE" /\ ~(s.rawoff + d1.size > RawSize(w.e))
           /\ q = [w2 EXCEPT !.e = raw.e]
    <2>1. \/ q \in {w1, [w EXCEPT !.err = "assert elftype"], [w EXCEPT !.err = "assert sh_off"],
                   [w EXCEPT !.err = raw.err], [w EXCEPT !.err = "assert d_buf"],
                   [w EXCEPT !.err = "SIGSEGV"], WriteData(w1, s, w.e.order)}
          \/ /\ raw.err = "NONE" /\ ~(s.rawoff + d1.size > RawSize(w.e))
             /\ q = [w2 EXCEPT !.e = raw.e]
      BY DEF WriteScn, RawOffset
    <2> HIDE DEF q, w1, w2, raw, d1, s
    <2> QED  BY <2>1
  <1>7. CASE \E err : q = [w EXCEPT !.err = err]
    <2> HIDE DEF q
    <2>1. PICK err : q = [w EXCEPT !.err = err]
      BY <1>7
    <2>2. IsImage([w EXCEPT !.err = err], d)
      BY ImageWith
    <2> QED  BY <2>1, <2>2 DEF q
  <1>8. CASE q = WriteData(w1, s, w.e.order)
    <2> HIDE DEF q, s, w1
    <2>1. IsImage(q, d)
      BY <1>2, <1>4, <1>8, WriteDataIs
    <2> QED  BY <2>1 DEF q
  <1>9. CASE /\ raw.err = "NONE" /\ ~(s.rawoff + d1.size > RawSize(w.e))
             /\ q = [w2 EXCEPT !.e = raw.e]
    <2>1. d1.size \in Nat
      <3>1. IsElf(raw.e) /\ x.scn \in DOMAIN raw.e.scns
        <4>1. IsElf(raw.e) /\ Len(raw.e.scns) = Len(w.e.scns)
          BY <1>5 DEF OneScn
        <4>2. raw.e.scns \in Seq(Section) /\ w.e.scns \in Seq(Section)
          BY <4>1, <1>1 DEF IsElf
        <4> QED  BY <4>1, <4>2, <1>1
      <3> DEFINE rr == raw.e.scns[x.scn].raw
      <3>2. rr \in Seq([size: Nat, null: BOOLEAN]) /\ rr # <<>>
        BY <3>1, <1>5, <1>9, SectionFields
      <3> HIDE DEF rr
      <3> DEFINE T == [size: Nat, null: BOOLEAN]
      <3> HIDE DEF T
      <3>3. rr \in Seq(T) /\ rr # <<>>
        BY <3>2 DEF T
      <3>4. rr[1] \in T
        BY <3>3
      <3>5. rr[1].size \in Nat
        BY <3>4 DEF T
      <3> QED  BY <3>5 DEF rr
    <2> HIDE DEF d1
    <2>2. part \in Seq(Cell)
      <3>1. w.e.raw.bytes \in Seq(Cell) /\ RawSize(w.e) = Len(w.e.raw.bytes)
        BY <1>1, <1>5, <1>9 DEF IsElf, IsFile, RawSize
      <3> DEFINE bytes == w.e.raw.bytes
                 from == s.rawoff
                 size == d1.size
      <3>2. bytes \in Seq(Cell) /\ from \in Nat /\ size \in Nat /\ from + size <= Len(bytes)
        BY <3>1, <1>2, <1>9, <2>1
      <3> HIDE DEF bytes, from, size
      <3>3. SubSeq(bytes, from + 1, from + size) \in Seq(Cell)
        BY <3>2
      <3> QED  BY <3>3 DEF bytes, from, size
    <2> HIDE DEF part, w1
    <2>3. IsImage(w2, d)
      BY <1>3, <1>4, <2>2, WriteAtIs
    <2> HIDE DEF w2, raw, q
    <2>4. IsElf(raw.e) /\ raw.e.cmd = d.cmd /\ raw.e.ehdr = d.ehdr /\ Len(raw.e.scns) = Len(d.scns)
      BY <1>5 DEF OneScn, IsImage
    <2>5. IsImage([w2 EXCEPT !.e = raw.e], d)
      BY <2>3, <2>4, ImageWith
    <2> QED  BY <2>5, <1>9 DEF q
  <1>10. CASE q = w1
    BY <1>4, <1>10
  <1> QED  BY <1>6, <1>7, <1>8, <1>9, <1>10

LEMMA WriteTablesAre ==
  ASSUME NEW d, NEW w, IsImage(w, d), NEW x \in Extent, w.e.ehdr # NULL
  PROVE  /\ IsImage(WriteAt(w, 0, Cells(EhdrSize, <<"ehdr", "">>)), d)
         /\ IsImage(WritePhdr(w, x, Phdrs(w.e)), d)
         /\ IsImage(WriteShdr(w, x), d)
  <1>1. x.start \in Nat /\ x.size \in Nat
    BY DEF Extent
  <1>2. IsElf(w.e)
    BY DEF IsImage
  <1>3. IsImage(WriteAt(w, 0, Cells(EhdrSize, <<"ehdr", "">>)), d)
    <2>1. Cells(EhdrSize, <<"ehdr", "">>) \in Seq(Cell)
      BY Marks, CellsAre DEF EhdrSize
    <2> QED  BY <2>1, WriteAtIs
  <1>4. IsImage(WritePhdr(w, x, Phdrs(w.e)), d)
    <2> DEFINE p == Phdrs(w.e)
               w1 == WriteAt(w, x.start, Cells(x.size, <<"phdr", "">>))
               q == WritePhdr(w, x, p)
    <2>1. (\E err : q = [w EXCEPT !.err = err]) \/ q = [w1 EXCEPT !.e = p.e]
      BY DEF WritePhdr
    <2>2. IsImage(w1, d)
      <3>1. Cells(x.size, <<"phdr", "">>) \in Seq(Cell)
        BY <1>1, Marks, CellsAre
      <3> QED  BY <3>1, <1>1, WriteAtIs
    <2>3. IsElf(p.e) /\ p.e.cmd = d.cmd /\ p.e.ehdr = d.ehdr /\ Len(p.e.scns) = Len(d.scns)
      <3>1. Reads(w.e, p.e) /\ p.e.ehdr = w.e.ehdr /\ p.e.scns = w.e.scns
        BY <1>2, PhdrsRead
      <3> QED  BY <3>1 DEF Reads, IsImage
    <2> HIDE DEF w1, p, q
    <2>4. IsImage([w1 EXCEPT !.e = p.e], d)
      BY <2>2, <2>3, ImageWith
    <2>5. \A err : IsImage([w EXCEPT !.err = err], d)
      BY ImageWith
    <2>6. IsImage(q, d)
      BY <2>1, <2>4, <2>5
    <2> QED  BY <2>6 DEF q, p
  <1>5. IsImage(WriteShdr(w, x), d)
    <2> DEFINE n == Len(w.e.scns)
               w1 == WriteAt(w, x.start, Cells(n, <<"shdr", "">>))
               q == WriteShdr(w, x)
    <2>1. (\E err : q = [w EXCEPT !.err = err]) \/ q = [w1 EXCEPT !.rc = x.start + w.e.nscn]
      BY DEF WriteShdr
    <2>2. IsImage(w1, d)
      <3>1. n \in Nat
        BY <1>2 DEF IsElf
      <3>2. Cells(n, <<"shdr", "">>) \in Seq(Cell)
        BY <3>1, Marks, CellsAre
      <3> QED  BY <3>2, <1>1, WriteAtIs
    <2>3. x.start + w.e.nscn \in Nat
      BY <1>1, <1>2 DEF IsElf
    <2> HIDE DEF w1, q
    <2>4. IsImage([w1 EXCEPT !.rc = x.start + w.e.nscn], d)
      BY <2>2, <2>3, ImageWith
    <2>5. \A err : IsImage([w EXCEPT !.err = err], d)
      BY ImageWith
    <2>6. IsImage(q, d)
      BY <2>1, <2>4, <2>5
    <2> QED  BY <2>6 DEF q
  <1> QED  BY <1>3, <1>4, <1>5

LEMMA WriteExtentIs ==
  ASSUME NEW d, NEW w, IsImage(w, d), NEW x \in Extent, d.ehdr # NULL,
         x.type = "SECTION" => x.scn \in 1 .. Len(d.scns)
  PROVE  IsImage(WriteExtent(w, x), d)
  <1> DEFINE v == CASE x.type = "EHDR" -> WriteAt(w, 0, Cells(EhdrSize, <<"ehdr", "">>))
                    [] x.type = "PHDR" -> WritePhdr(w, x, Phdrs(w.e))
                    [] x.type = "SECTION" -> WriteScn(w, x)
                    [] x.type = "SHDR" -> WriteShdr(w, x)
  <1>1. w.e.ehdr # NULL
    BY DEF IsImage
  <1>2. /\ IsImage(WriteAt(w, 0, Cells(EhdrSize, <<"ehdr", "">>)), d)
        /\ IsImage(WritePhdr(w, x, Phdrs(w.e)), d)
        /\ IsImage(WriteShdr(w, x), d)
    BY <1>1, WriteTablesAre
  <1>3. x.type = "SECTION" => IsImage(WriteScn(w, x), d)
    BY WriteScnIs
  <1>4. x.type \in {"EHDR", "PHDR", "SECTION", "SHDR"}
    BY DEF Extent
  <1>5. IsImage(v, d)
    BY <1>2, <1>3, <1>4
  <1>6. WriteExtent(w, x) = w \/ WriteExtent(w, x) = Reached(w, x, v)
    BY DEF WriteExtent
  <1> HIDE DEF v
  <1>7. IsImage(Reached(w, x, v), d)
    BY <1>5, ImageWith DEF Reached
  <1> QED  BY <1>6, <1>7

LEMMA WriteExtentsLoop ==
  ASSUME NEW r, Len(r.ext) \in Nat
  PROVE  \E w : /\ WriteExtents(r) = w[Len(r.ext)]
                /\ w[0] = [e |-> r.e, err |-> "NONE", rc |-> 0, cells |-> Cells(r.rc, Junk)]
                /\ \A k \in 1 .. Len(r.ext) : w[k] = WriteExtent(w[k - 1], r.ext[k])
  <1> DEFINE len == Len(r.ext)
             w0 == [e |-> r.e, err |-> "NONE", rc |-> 0, cells |-> Cells(r.rc, Junk)]
             Next1(f, k) == IF k = 0 THEN w0 ELSE WriteExtent(f[k - 1], r.ext[k])
             Has(n) == \E f : f = [k \in 0 .. n |-> Next1(f, k)]
             S == {n \in Nat : Has(n)}
             w == CHOOSE f : f = [k \in 0 .. len |-> Next1(f, k)]
  <1>1. WriteExtents(r) = w[len]
    BY DEF WriteExtents
  <1> HIDE DEF w0
  <1>2. 0 \in S
    <2> DEFINE f == [k \in 0 .. 0 |-> w0]
    <2>1. f = [k \in 0 .. 0 |-> Next1(f, k)]
      OBVIOUS
    <2> QED  BY <2>1
  <1>3. ASSUME NEW n \in Nat, n \in S PROVE n + 1 \in S
    <2>1. PICK f : f = [k \in 0 .. n |-> Next1(f, k)]
      BY <1>3
    <2> DEFINE g == [k \in 0 .. n + 1 |-> IF k <= n THEN f[k] ELSE WriteExtent(f[n], r.ext[n + 1])]
    <2>2. ASSUME NEW k \in 0 .. n + 1 PROVE g[k] = Next1(g, k)
      <3>1. CASE k = 0
        BY <2>1, <3>1
      <3>2. CASE k \in 1 .. n
        <4>1. k \in 0 .. n /\ k - 1 \in 0 .. n + 1 /\ k <= n /\ k - 1 <= n
          BY <3>2
        <4>2. g[k] = f[k] /\ g[k - 1] = f[k - 1]
          BY <4>1
        <4>3. f[k] = Next1(f, k)
          <5> HIDE DEF Next1
          <5> QED  BY <2>1, <4>1
        <4> QED  BY <4>2, <4>3, <3>2
      <3>3. CASE k = n + 1
        <4>1. g[k] = WriteExtent(f[n], r.ext[n + 1]) /\ g[n] = f[n] /\ k - 1 = n /\ k # 0
          BY <3>3
        <4> QED  BY <4>1, <3>3
      <3> QED  BY <3>1, <3>2, <3>3
    <2>3. g = [k \in 0 .. n + 1 |-> Next1(g, k)]
      <3>1. g = [k \in 0 .. n + 1 |-> g[k]]
        OBVIOUS
      <3> HIDE DEF g, Next1
      <3> QED  BY <2>2, <3>1
    <2> HIDE DEF g
    <2> QED  BY <2>3
  <1> HIDE DEF Has
  <1>4. Has(len)
    <2>1. Nat \subseteq S
      BY <1>2, <1>3, NatSet
    <2> QED  BY <2>1
  <1>5. w = [k \in 0 .. len |-> Next1(w, k)]
    BY <1>4 DEF Has
  <1> HIDE DEF w
  <1>6. len \in Nat
    OBVIOUS
  <1> HIDE DEF len
  <1>7. w[0] = w0
    BY <1>5, <1>6
  <1>8. ASSUME NEW k \in 1 .. len PROVE w[k] = WriteExtent(w[k - 1], r.ext[k])
    <2>1. k \in 0 .. len /\ k # 0
      BY <1>6
    <2> QED  BY <1>5, <2>1
  <1> QED  BY <1>1, <1>7, <1>8 DEF len, w0

-----------------------------------------------------------------------------
(* Records that an application changes.                                    *)

LEMMA HeaderMerge ==
  ASSUME NEW x, Changed(NewEhdr, x) \in Header, NEW h \in Header
  PROVE  Changed(h, x) \in Header
  <1> DEFINE F == {"phoff", "shoff", "phnum", "shnum", "shstrndx", "shentsize",
                   "data", "version", "class"}
             g == Changed(NewEhdr, x)
             f == Changed(h, x)
  <1>1. DOMAIN h = F /\ DOMAIN NewEhdr = F
    BY DEF Header, NewEhdr
  <1>2. f = [k \in F |-> IF k \in DOMAIN x THEN x[k] ELSE h[k]]
    BY <1>1 DEF Changed
  <1>3. \A k \in F : k \in DOMAIN x => g[k] = x[k]
    BY <1>1 DEF Changed
  <1>4. f = [k \in F |-> IF k \in DOMAIN x THEN g[k] ELSE h[k]]
    BY <1>2, <1>3
  <1> HIDE DEF g, f
  <1>5. g \in Header
    BY DEF g
  <1> QED  BY <1>4, <1>5 DEF f, Header

LEMMA ShdrMerge ==
  ASSUME NEW x, Changed(NoShdr, x) \in Shdr, NEW sh \in Shdr
  PROVE  Changed(sh, x) \in Shdr
  <1> DEFINE F == {"type", "off", "size", "align", "link", "info"}
             g == Changed(NoShdr, x)
             f == Changed(sh, x)
  <1>1. DOMAIN sh = F /\ DOMAIN NoShdr = F
    BY DEF Shdr, NoShdr
  <1>2. f = [k \in F |-> IF k \in DOMAIN x THEN x[k] ELSE sh[k]]
    BY <1>1 DEF Changed
  <1>3. \A k \in F : k \in DOMAIN x => g[k] = x[k]
    BY <1>1 DEF Changed
  <1>4. f = [k \in F |-> IF k \in DOMAIN x THEN g[k] ELSE sh[k]]
    BY <1>2, <1>3
  <1> HIDE DEF g, f
  <1>5. g \in Shdr
    BY DEF g
  <1> QED  BY <1>4, <1>5 DEF f, Shdr

LEMMA DataMerge ==
  ASSUME NEW x, Changed(NewData, x) \in Data, NEW d \in Data,
         "buf" \in DOMAIN x <=> "size" \in DOMAIN x
  PROVE  Changed(d, x) \in Data
  <1> DEFINE F == {"type", "version", "size", "align", "off", "buf"}
             g == Changed(NewData, x)
             f == Changed(d, x)
  <1>1. DOMAIN d = F /\ DOMAIN NewData = F
    BY DEF Data, NewData
  <1>2. f = [k \in F |-> IF k \in DOMAIN x THEN x[k] ELSE d[k]]
    BY <1>1 DEF Changed
  <1>3. \A k \in F : k \in DOMAIN x => g[k] = x[k]
    BY <1>1 DEF Changed
  <1>4. f = [k \in F |-> IF k \in DOMAIN x THEN g[k] ELSE d[k]]
    BY <1>2, <1>3
  <1> HIDE DEF g, f
  <1>5. g \in Data
    BY DEF g
  <1>6. f.buf # NULL => Len(f.buf) = f.size
    <2>1. CASE "buf" \in DOMAIN x
      <3>1. f.buf = g.buf /\ f.size = g.size
        BY <1>4, <2>1
      <3> QED  BY <3>1, <1>5 DEF Data
    <2>2. CASE "buf" \notin DOMAIN x
      <3>1. f.buf = d.buf /\ f.size = d.size
        BY <1>4, <2>2
      <3> QED  BY <3>1 DEF Data
    <2> QED  BY <2>1, <2>2
  <1>7. f \in [type: {"BYTE", "SYM", "BAD", "INVALID"},
                version: {"CURRENT", "OTHER"}, size: Nat, align: Nat,
                off: Nat, buf: Seq(Cell) \cup {NULL}]
    BY <1>4, <1>5 DEF Data
  <1> QED  BY <1>6, <1>7 DEF f, Data

-----------------------------------------------------------------------------
(* The file that is written.                                               *)

LEMMA WriteExtentsIs ==
  ASSUME NEW r, IsLayout(r), r.err = "NONE"
  PROVE  IsImage(WriteExtents(r), r.e)
  <1> DEFINE d == r.e
             ext == r.ext
             len == Len(ext)
             w0 == [e |-> d, err |-> "NONE", rc |-> 0, cells |-> Cells(r.rc, Junk)]
  <1>1. /\ ext \in Seq(Extent) /\ len \in Nat /\ r.rc \in Nat /\ IsElf(d) /\ d.ehdr # NULL
        /\ \A j \in 1 .. len : ext[j].type = "SECTION" => ext[j].scn \in 1 .. Len(d.scns)
    BY DEF IsLayout
  <1>2. PICK w : /\ WriteExtents(r) = w[len]
                 /\ w[0] = w0
                 /\ \A k \in 1 .. len : w[k] = WriteExtent(w[k - 1], ext[k])
    BY <1>1, WriteExtentsLoop
  <1>3. IsImage(w0, d)
    <2>1. Cells(r.rc, Junk) \in Seq(Cell)
      BY <1>1, Marks, CellsAre
    <2> QED  BY <2>1, <1>1 DEF IsImage
  <1> HIDE DEF w0, d, ext
  <1> DEFINE S == {n \in Nat : n <= len => IsImage(w[n], d)}
  <1>4. 0 \in S
    BY <1>2, <1>3
  <1>5. ASSUME NEW n \in Nat, n \in S PROVE n + 1 \in S
    <2> SUFFICES ASSUME n + 1 <= len PROVE IsImage(w[n + 1], d)
      OBVIOUS
    <2>1. IsImage(w[n], d)
      BY <1>1, <1>5
    <2>2. n + 1 \in 1 .. len
      BY <1>1
    <2>3. ext[n + 1] \in Extent
      BY <1>1, <2>2
    <2>4. w[n + 1] = WriteExtent(w[n], ext[n + 1])
      BY <1>2, <2>2
    <2> QED  BY <1>1, <2>1, <2>2, <2>3, <2>4, WriteExtentIs
  <1>6. Nat \subseteq S
    <2> HIDE DEF S
    <2> QED  BY <1>4, <1>5, NatSet
  <1>7. IsImage(w[len], d)
    BY <1>1, <1>6
  <1> QED  BY <1>2, <1>7 DEF d

LEMMA EmptyFile == IsFile(Empty)
  <1>1. NewEhdr \in Header
    BY DEF NewEhdr, Header
  <1>2. <<>> \in Seq(Cell) /\ DOMAIN <<>> = {}
    OBVIOUS
  <1> QED  BY <1>1, <1>2 DEF IsFile, Empty

LEMMA AssembleIs ==
  ASSUME NEW r, IsLayout(r), r.err = "NONE"
  PROVE  LET a == Assemble(r) IN IsElf(a.e) /\ a.e.cmd = r.e.cmd /\ IsFile(a.file)
  <1> DEFINE w == WriteExtents(r)
             ph == StartOf(r, "PHDR")
             sh == StartOf(r, "SHDR")
             f == ImageOf(w, ph, sh)
             a == Assemble(r)
  <1>1. IsImage(w, r.e)
    BY WriteExtentsIs
  <1>2. a.e = w.e /\ (a.file = Empty \/ a.file = f)
    BY DEF Assemble, Assembled
  <1>3. sh \in Nat
    BY StartOfIs DEF IsLayout
  <1> HIDE DEF w, sh, a
  <1>4. IsFile(f)
    <2>1. w.e.ehdr \in Header /\ w.cells \in Seq(Cell)
      <3>1. r.e.ehdr # NULL
        BY DEF IsLayout
      <3> QED  BY <1>1, <3>1 DEF IsImage, IsElf
    <2> DEFINE D == IF sh = 0 THEN {} ELSE sh .. sh + Len(w.e.scns) - 1
    <2>2. DOMAIN f.shtab = D /\ \A o \in D : f.shtab[o] = w.e.scns[o - sh + 1].sh
      BY DEF ImageOf
    <2>3. ASSUME NEW o \in D PROVE w.e.scns[o - sh + 1].sh \in Shdr
      <3>1. w.e.scns \in Seq(Section) /\ IsElf(w.e)
        BY <1>1 DEF IsImage, IsElf
      <3>2. o - sh + 1 \in DOMAIN w.e.scns
        <4> DEFINE scns == w.e.scns
        <4>1. scns \in Seq(Section) /\ o \in sh .. sh + Len(scns) - 1
          BY <3>1
        <4> HIDE DEF scns, D
        <4>2. o - sh + 1 \in 1 .. Len(scns)
          BY <4>1, <1>3
        <4>3. o - sh + 1 \in DOMAIN scns
          BY <4>1, <4>2
        <4> QED  BY <4>3 DEF scns
      <3> QED  BY <3>1, <3>2, SectionFields
    <2>4. f.ehdr = w.e.ehdr /\ f.bytes = w.cells
      BY DEF ImageOf
    <2> HIDE DEF D, f
    <2> QED  BY <2>1, <2>2, <2>3, <2>4 DEF IsFile
  <1> HIDE DEF f
  <1>5. IsElf(a.e) /\ a.e.cmd = r.e.cmd
    BY <1>1, <1>2 DEF IsImage
  <1>6. IsFile(a.file)
    BY <1>2, <1>4, EmptyFile
  <1> QED  BY <1>5, <1>6 DEF a

LEMMA CommitIs ==
  ASSUME NEW a, IsElf(a.e), IsFile(a.file), a.e.cmd # "READ",
         NEW io \in {"ok", "ftruncate", "write", "mmap"}
  PROVE  IsElf(Commit(a, io).e)
  <1> DEFINE d == a.e
             mapped == d.mem \in {"mmap", "gone", "failed"}
             lost == IF d.mem = "mmap" THEN [d EXCEPT !.mem = "gone"] ELSE d
             failed == [d EXCEPT !.mem = "failed"]
             raw == IF d.cmd = "RDWR" THEN a.file ELSE NULL
             mem == IF mapped THEN "mmap" ELSE d.mem
             done == [d EXCEPT !.raw = raw, !.mem = mem, !.scns = <<>>, !.ehdr = NULL, !.phdr = NULL]
  <1>1. DOMAIN d = {"cmd", "fd", "mem", "raw", "class", "order", "ehdr", "phdr",
                    "nphdr", "nscn", "strndx", "scns", "loaded", "layout"}
    BY DEF IsElf
  <1>2. Commit(a, io).e \in {d, lost, failed, done}
    BY <1>1 DEF Commit
  <1>3. IsElf(lost) /\ IsElf(failed)
    BY DEF IsElf
  <1>4. IsElf(done)
    <2>1. mem \in {"none", "malloc", "mmap", "gone", "failed"}
      BY DEF IsElf
    <2>2. d.cmd # "WRITE" \/ raw # NULL => IsFile(raw)
      BY DEF IsElf
    <2>3. <<>> \in Seq(Section)
      OBVIOUS
    <2> HIDE DEF mem, raw
    <2> QED  BY <2>1, <2>2, <2>3 DEF IsElf
  <1> QED  BY <1>2, <1>3, <1>4

-----------------------------------------------------------------------------
(* The calls keep descriptors well formed.                                 *)

LEMMA OpenIs ==
  ASSUME NEW cmd \in {"READ", "RDWR", "WRITE"}, NEW mem \in {"none", "malloc", "mmap"},
         NEW f, IsFile(f)
  PROVE  IsElf(Open(cmd, mem, f))
  <1>1. f.ehdr.data \in {"NONE", "LSB", "MSB"}
    BY DEF IsFile, Header
  <1>2. <<>> \in Seq(Section)
    OBVIOUS
  <1>3. Open(cmd, mem, f).raw = IF cmd = "WRITE" THEN NULL ELSE f
    BY DEF Open
  <1> QED  BY <1>1, <1>2 DEF IsElf, Open

\* A descriptor that still is one, after a call.
LEMMA CallKeeps ==
  ASSUME TypeOK, NEW op, NEW arg, NEW r, Call(op, arg, r), IsElf(r.e)
  PROVE  TypeOK'
  BY DEF TypeOK, Call, IsElf, IsFile, may

LEMMA NewTableIs ==
  ASSUME NEW d, IsElf(d), d.ehdr # NULL, NEW n \in Nat
  PROVE  IsElf(NewTable(d, n))
  <1> DEFINE tab == [i \in 1 .. n |-> "zero"]
  <1>1. DOMAIN tab = 1 .. n
    OBVIOUS
  <1>2. NewTable(d, n) = [d EXCEPT !.nphdr = n, !.phdr = IF n = 0 THEN NULL ELSE tab]
    BY DEF NewTable
  <1> HIDE DEF tab
  <1> QED  BY <1>1, <1>2 DEF IsElf

LEMMA NewScnIs ==
  ASSUME NEW d, IsElf(d)
  PROVE  IsElf(NewScn(d).e)
  <1> DEFINE none == Scn(NoShdr)
             s == [Scn(NoShdr) EXCEPT !.dirty = TRUE]
             d1 == IF d.scns = <<>> THEN [d EXCEPT !.scns = <<none>>, !.nscn = 1] ELSE d
             d2 == [d1 EXCEPT !.nscn = d1.nscn + 1, !.scns = Append(d1.scns, s)]
  <1>1. none \in Section /\ s \in Section
    <2>1. NoShdr \in Shdr
      BY DEF NoShdr, Shdr
    <2> QED  BY <2>1, NewSection
  <1>2. NewScn(d).e = d \/ NewScn(d).e = d2
    <2>1. \/ NewScn(d).e = d
          \/ NewScn(d).e = [d1 EXCEPT !.nscn = @ + 1, !.scns = Append(@, s)]
      BY DEF NewScn, Ok, Fail
    <2>2. [d1 EXCEPT !.nscn = @ + 1, !.scns = Append(@, s)] = d2
      <3>1. "nscn" \in DOMAIN d1 /\ "scns" \in DOMAIN d1
        BY DEF IsElf
      <3> HIDE DEF d1, s
      <3> QED  BY <3>1
    <2> QED  BY <2>1, <2>2
  <1> HIDE DEF none, s
  <1>3. IsElf(d1)
    <2>1. <<none>> \in Seq(Section)
      BY <1>1
    <2> QED  BY <2>1 DEF IsElf
  <1> HIDE DEF d1
  <1>4. IsElf(d2)
    <2>1. Append(d1.scns, s) \in Seq(Section) /\ d1.nscn + 1 \in Nat
      BY <1>1, <1>3 DEF IsElf
    <2> QED  BY <2>1, <1>3 DEF IsElf
  <1> QED  BY <1>2, <1>4

\* The calls on headers and tables.
LEMMA HeaderCalls ==
  ASSUME TypeOK
  PROVE  /\ \A c \in may.class : gelf_newehdr(c) => TypeOK'
         /\ \A x \in may.ehdr : gelf_update_ehdr(x) => TypeOK'
         /\ \A n \in Nat : gelf_newphdr(n) \/ gelf_getphdr(n) \/ gelf_update_phdr(n) => TypeOK'
         /\ elf64_getphdr => TypeOK'
         /\ \A n \in may.strndx : elf_setshstrndx(n) => TypeOK'
  <1> DEFINE h == Ehdr(e)
  <1>1. IsElf(e) /\ program \in DOMAIN Programs
    BY DEF TypeOK
  <1>2. IsElf(h.e) /\ (h.err = "NONE" => h.e.ehdr # NULL)
    BY <1>1, EhdrReads DEF Reads
  <1>3. ASSUME NEW c \in may.class, gelf_newehdr(c) PROVE TypeOK'
    <2>1. c \in {"32", "64"}
      BY <1>1, ProgramsAssumption DEF may
    <2> DEFINE d == [e EXCEPT !.class = c]
               r == IF e.class \notin {"NONE", c} THEN Fail(e, "CLASS") ELSE Ehdr(d)
    <2>2. IsElf(d)
      BY <2>1, <1>1 DEF IsElf
    <2>3. IsElf(Ehdr(d).e)
      BY <2>2, EhdrReads DEF Reads
    <2> HIDE DEF d
    <2>4. IsElf(r.e)
      BY <2>3, <1>1 DEF Fail
    <2>5. Call("gelf_newehdr", 0, r)
      BY <1>3 DEF gelf_newehdr, d
    <2> HIDE DEF r
    <2> QED  BY <2>4, <2>5, CallKeeps
  <1>4. ASSUME NEW x \in may.ehdr, gelf_update_ehdr(x) PROVE TypeOK'
    <2>1. Changed(NewEhdr, x) \in Header
      BY <1>1, ProgramsAssumption DEF may
    <2> DEFINE d == [h.e EXCEPT !.ehdr = Changed(h.e.ehdr, x)]
               r == IF e.class = "NONE" THEN Fail(e, "ARGUMENT")
                    ELSE IF e.cmd = "READ" THEN Fail(e, "MODE")
                    ELSE Then(Ehdr(e), LAMBDA b : Ok([b EXCEPT !.ehdr = Changed(@, x)]))
    <2>2. h.err = "NONE" => IsElf(d)
      <3> SUFFICES ASSUME h.err = "NONE" PROVE IsElf(d)
        OBVIOUS
      <3>1. h.e.ehdr \in Header
        BY <1>2 DEF IsElf
      <3>2. Changed(h.e.ehdr, x) \in Header
        BY <2>1, <3>1, HeaderMerge
      <3> QED  BY <3>2, <1>2, SetEhdr
    <2>3. r.e \in {e, h.e} \/ (h.err = "NONE" /\ r.e = d)
      <3>1. [h.e EXCEPT !.ehdr = Changed(@, x)] = d
        BY <1>2 DEF IsElf
      <3> QED  BY <3>1 DEF Then, Ok, Fail
    <2>4. Call("gelf_update_ehdr", 0, r)
      BY <1>4 DEF gelf_update_ehdr
    <2> HIDE DEF r, d, h
    <2> QED  BY <2>2, <2>3, <2>4, <1>1, <1>2, CallKeeps
  <1>5. ASSUME NEW n \in Nat, gelf_newphdr(n) PROVE TypeOK'
    <2> DEFINE r == IF e.class = "NONE" THEN Fail(e, "assert ec")
                    ELSE IF h.err \in Fatal THEN h
                    ELSE IF h.err # "NONE" THEN Fail(h.e, "SEQUENCE")
                    ELSE Fail(NewTable(h.e, n), IF n = 0 THEN "SEQUENCE" ELSE "NONE")
    <2>1. Call("gelf_newphdr", n, r)
      BY <1>5 DEF gelf_newphdr
    <2>2. r.e \in {e, h.e} \/ (h.err = "NONE" /\ r.e = NewTable(h.e, n))
      BY DEF Fail
    <2> HIDE DEF r, h
    <2>3. IsElf(r.e)
      BY <2>2, <1>1, <1>2, NewTableIs
    <2> QED  BY <2>1, <2>3, CallKeeps
  <1>6. ASSUME NEW n \in Nat, gelf_getphdr(n) PROVE TypeOK'
    <2> DEFINE p == Phdrs(h.e)
               r == IF e.class = "NONE" THEN Fail(e, "ARGUMENT")
                    ELSE IF h.err \in Fatal THEN h
                    ELSE IF h.err # "NONE" \/ n >= h.e.nphdr THEN Fail(h.e, "ARGUMENT")
                    ELSE p
    <2>1. Call("gelf_getphdr", n, r)
      BY <1>6 DEF gelf_getphdr
    <2>2. IsElf(p.e)
      BY <1>2, PhdrsRead DEF Reads
    <2>3. r.e \in {e, h.e, p.e}
      BY DEF Fail
    <2> HIDE DEF r, p, h
    <2> QED  BY <2>1, <2>2, <2>3, <1>1, <1>2, CallKeeps
  <1>7. ASSUME elf64_getphdr PROVE TypeOK'
    <2> DEFINE p == Phdrs(e)
               r == IF e.class = "NONE" THEN Fail(e, "assert fsz")
                    ELSE IF e.class = "32" /\ e.phdr = NULL THEN Fail(e, "CLASS")
                    ELSE p
    <2>1. Call("elf64_getphdr", 0, r)
      BY <1>7 DEF elf64_getphdr
    <2>2. IsElf(p.e)
      BY <1>1, PhdrsRead DEF Reads
    <2>3. r.e \in {e, p.e}
      BY DEF Fail
    <2> HIDE DEF r, p
    <2> QED  BY <2>1, <2>2, <2>3, <1>1, CallKeeps
  <1>8. ASSUME NEW n \in Nat, gelf_update_phdr(n) PROVE TypeOK'
    <2> DEFINE d == [h.e EXCEPT !.phdr = [@ EXCEPT ![n + 1] = "set"]]
               r == IF e.class = "NONE" THEN Fail(e, "ARGUMENT")
                    ELSE IF h.err \in Fatal THEN h
                    ELSE IF h.err # "NONE" THEN Fail(h.e, "ARGUMENT")
                    ELSE IF e.cmd = "READ" THEN Fail(h.e, "MODE")
                    ELSE IF n > h.e.nphdr THEN Fail(h.e, "ARGUMENT")
                    ELSE IF h.e.phdr = NULL THEN Fail(h.e, "SIGSEGV")
                    ELSE IF n = h.e.nphdr THEN Fail(h.e, "overrun")
                    ELSE Ok([h.e EXCEPT !.phdr[n + 1] = "set"])
    <2>1. Call("gelf_update_phdr", n, r)
      BY <1>8 DEF gelf_update_phdr
    <2>2. r.e \in {e, h.e} \/ (h.err = "NONE" /\ h.e.phdr # NULL /\ r.e = d)
      BY DEF Fail, Ok
    <2>3. h.err = "NONE" /\ h.e.phdr # NULL => IsElf(d)
      <3> DEFINE tab == [h.e.phdr EXCEPT ![n + 1] = "set"]
      <3>1. DOMAIN tab = DOMAIN h.e.phdr
        OBVIOUS
      <3>2. d = [h.e EXCEPT !.phdr = tab]
        BY <1>2 DEF IsElf
      <3> HIDE DEF tab, d, h
      <3> QED  BY <3>1, <3>2, <1>2 DEF IsElf
    <2> HIDE DEF r, d, h
    <2> QED  BY <2>1, <2>2, <2>3, <1>1, <1>2, CallKeeps
  <1>9. ASSUME NEW n \in may.strndx, elf_setshstrndx(n) PROVE TypeOK'
    <2>1. n \in Nat
      BY <1>1, ProgramsAssumption DEF may
    <2> DEFINE d == SetShstrndx(h.e, n)
               r == IF e.class = "NONE" THEN Fail(e, "ARGUMENT")
                    ELSE IF h.err \in Fatal THEN h
                    ELSE IF h.err # "NONE" THEN Fail(h.e, "ARGUMENT")
                    ELSE Ok(d)
    <2>2. Call("elf_setshstrndx", n, r)
      BY <1>9 DEF elf_setshstrndx
    <2>3. h.err = "NONE" => IsElf(d)
      BY <1>2, <2>1, NumberingAssumption, SetCountIs DEF SetShstrndx, Counted
    <2>4. r.e \in {e, h.e} \/ (h.err = "NONE" /\ r.e = d)
      BY DEF Fail, Ok
    <2> HIDE DEF r, d, h
    <2> QED  BY <2>2, <2>3, <2>4, <1>1, <1>2, CallKeeps
  <1> QED  BY <1>3, <1>4, <1>5, <1>6, <1>7, <1>8, <1>9

\* The calls on sections and their data.
LEMMA SectionCalls ==
  ASSUME TypeOK
  PROVE  /\ elf_newscn => TypeOK'
         /\ \A i \in Nat : elf_getscn(i) \/ elf_getdata(i) \/ elf_rawdata(i) \/ elf_newdata(i)
                             => TypeOK'
         /\ \A i \in Nat, x \in may.shdr : gelf_update_shdr(i, x) => TypeOK'
         /\ \A i \in Nat, set \in BOOLEAN : elf_flagscn(i, set) => TypeOK'
         /\ \A i \in Nat, j \in Nat, x \in may.data : EditData(i, j, x) => TypeOK'
  <1> DEFINE h == Ehdr(e)
             all == Then(h, Sections)
  <1>1. IsElf(e) /\ program \in DOMAIN Programs
    BY DEF TypeOK
  <1>2. IsElf(all.e)
    <2>1. IsElf(h.e) /\ (h.err = "NONE" => h.e.ehdr # NULL)
      BY <1>1, EhdrReads DEF Reads
    <2> HIDE DEF h
    <2>2. h.err = "NONE" => IsElf(Sections(h.e).e)
      BY <2>1, SectionsRead DEF Reads
    <2> QED  BY <2>1, <2>2 DEF Then
  <1>3. ASSUME elf_newscn PROVE TypeOK'
    <2> DEFINE new == NewScn(all.e)
               r == IF e.class = "NONE" THEN Fail(e, "CLASS")
                    ELSE Then(Then(Ehdr(e), Sections), NewScn)
    <2>1. Call("elf_newscn", 0, r)
      BY <1>3 DEF elf_newscn
    <2>2. IsElf(new.e)
      BY <1>2, NewScnIs
    <2>3. r.e \in {e, all.e, new.e}
      <3> HIDE DEF h
      <3>1. Then(Then(Ehdr(e), Sections), NewScn) \in {all, new}
        <4>1. Then(all, NewScn) \in {all, new}
          BY DEF Then
        <4> QED  BY <4>1 DEF h
      <3> HIDE DEF all, new
      <3> QED  BY <3>1 DEF Fail
    <2> HIDE DEF r, new, all
    <2> QED  BY <2>1, <2>2, <2>3, <1>1, <1>2, CallKeeps
  <1>4. ASSUME NEW i \in Nat, elf_getscn(i) PROVE TypeOK'
    <2> DEFINE r == IF e.class = "NONE" THEN Fail(e, "ARGUMENT")
                    ELSE Then(Then(Ehdr(e), Sections), LAMBDA d :
                           IF i + 1 \in DOMAIN d.scns THEN Ok(d) ELSE Fail(d, "ARGUMENT"))
    <2>1. Call("elf_getscn", i, r)
      BY <1>4 DEF elf_getscn
    <2>2. r.e \in {e, all.e}
      <3> HIDE DEF h
      <3>1. Then(all, LAMBDA d : IF i + 1 \in DOMAIN d.scns THEN Ok(d) ELSE Fail(d, "ARGUMENT")).e
              = all.e
        <4> HIDE DEF all
        <4> QED  BY DEF Then, Ok, Fail
      <3> QED  BY <3>1 DEF Fail, h
    <2> HIDE DEF r, all
    <2> QED  BY <2>1, <2>2, <1>1, <1>2, CallKeeps
  <1> HIDE DEF h, all
  <1>5. ASSUME NEW i \in Nat, elf_getdata(i) PROVE TypeOK'
    <2>1. Call("elf_getdata", i, GetData(e, i + 1)) /\ i + 1 \in DOMAIN e.scns
      BY <1>5 DEF elf_getdata, HasScn
    <2>2. IsElf(GetData(e, i + 1).e)
      BY <1>1, <2>1, GetDataOne DEF OneScn
    <2> QED  BY <2>1, <2>2, CallKeeps
  <1>6. ASSUME NEW i \in Nat, elf_rawdata(i) PROVE TypeOK'
    <2>1. Call("elf_rawdata", i, RawData(e, i + 1)) /\ i + 1 \in DOMAIN e.scns
      BY <1>6 DEF elf_rawdata, HasScn
    <2>2. IsElf(RawData(e, i + 1).e)
      BY <1>1, <2>1, RawDataOne DEF OneScn
    <2> QED  BY <2>1, <2>2, CallKeeps
  <1>7. ASSUME NEW i \in Nat, elf_newdata(i) PROVE TypeOK'
    <2> DEFINE k == i + 1
               s == e.scns[k]
               load == e.raw # NULL /\ s.ssize > 0 /\ s.data = <<>>
               g == IF load THEN GetData(e, k) ELSE Ok(e)
               new == [g.e EXCEPT !.scns[k].data = Append(@, NewData), !.scns[k].dirty = TRUE]
               r == Then(g, LAMBDA d : Ok([d EXCEPT !.scns[k].data = Append(@, NewData),
                                                    !.scns[k].dirty = TRUE]))
    <2>1. Call("elf_newdata", i, r) /\ k \in DOMAIN e.scns
      BY <1>7 DEF elf_newdata, HasScn
    <2>2. IsElf(g.e) /\ k \in DOMAIN g.e.scns
      <3>1. OneScn(e, g.e, k)
        <4>1. OneScn(e, e, k)
          BY <1>1 DEF OneScn
        <4> QED  BY <4>1, <1>1, <2>1, GetDataOne DEF Ok
      <3>2. e.scns \in Seq(Section) /\ g.e.scns \in Seq(Section) /\ Len(g.e.scns) = Len(e.scns)
        BY <3>1, <1>1 DEF OneScn, IsElf
      <3> QED  BY <2>1, <3>1, <3>2 DEF OneScn
    <2> HIDE DEF k, g
    <2>3. IsElf(new)
      <3> DEFINE t == g.e.scns[k]
                 s1 == [t EXCEPT !.data = Append(t.data, NewData), !.dirty = TRUE]
      <3>1. t \in Section /\ t.data \in Seq(Data)
        BY <2>2, SectionFields
      <3>2. NewData \in Data
        <4>1. Word - 1 \in Nat
          BY WordAssumption
        <4> QED  BY <4>1 DEF NewData, Data
      <3>3. s1 \in Section
        <4>1. Append(t.data, NewData) \in Seq(Data)
          BY <3>1, <3>2
        <4> HIDE DEF t
        <4> QED  BY <4>1, <3>1 DEF Section
      <3>4. new = [g.e EXCEPT !.scns[k] = s1]
        <4>1. "scns" \in DOMAIN g.e /\ "data" \in DOMAIN t
          BY <2>2, <3>1 DEF IsElf, Section
        <4> QED  BY <4>1, <2>2
      <3> HIDE DEF s1, new
      <3> QED  BY <2>2, <3>3, <3>4, SetScn DEF OneScn
    <2>4. r.e \in {g.e, new}
      BY DEF Then, Ok
    <2> HIDE DEF new, r
    <2> QED  BY <2>1, <2>2, <2>3, <2>4, CallKeeps
  <1>8. ASSUME NEW i \in Nat, NEW x \in may.shdr, gelf_update_shdr(i, x) PROVE TypeOK'
    <2> DEFINE k == i + 1
               s == e.scns[k]
               s1 == [s EXCEPT !.sh = Changed(s.sh, x), !.dirty = TRUE]
               new == [e EXCEPT !.scns[k].sh = Changed(@, x), !.scns[k].dirty = TRUE]
               r == IF e.cmd = "READ" THEN Fail(e, "MODE") ELSE Ok(new)
    <2>1. Call("gelf_update_shdr", i, r) /\ k \in DOMAIN e.scns
      BY <1>8 DEF gelf_update_shdr, HasScn
    <2>2. Changed(NoShdr, x) \in Shdr
      BY <1>1, ProgramsAssumption DEF may
    <2>3. s \in Section /\ s.sh \in Shdr
      BY <1>1, <2>1, SectionFields
    <2>4. Changed(s.sh, x) \in Shdr
      BY <2>2, <2>3, ShdrMerge
    <2> HIDE DEF k
    <2>5. new = [e EXCEPT !.scns[k] = s1]
      <3>1. "scns" \in DOMAIN e /\ "sh" \in DOMAIN s
        BY <1>1, <2>3 DEF IsElf, Section
      <3> QED  BY <3>1, <2>1
    <2>6. s1 \in Section
      <3> HIDE DEF s
      <3> QED  BY <2>3, <2>4 DEF Section
    <2> HIDE DEF s1, new
    <2>7. IsElf(new)
      BY <1>1, <2>1, <2>5, <2>6, SetScn DEF OneScn
    <2>8. r.e \in {e, new}
      BY DEF Fail, Ok
    <2> HIDE DEF r
    <2> QED  BY <2>1, <2>7, <2>8, <1>1, CallKeeps
  <1>9. ASSUME NEW i \in Nat, NEW set \in BOOLEAN, elf_flagscn(i, set) PROVE TypeOK'
    <2> DEFINE k == i + 1
               s == e.scns[k]
               s1 == [s EXCEPT !.dirty = set]
               new == [e EXCEPT !.scns[k].dirty = set]
    <2>1. Call("elf_flagscn", i, Ok(new)) /\ k \in DOMAIN e.scns
      BY <1>9 DEF elf_flagscn, HasScn
    <2>2. s \in Section
      BY <1>1, <2>1, SectionFields
    <2> HIDE DEF k
    <2>3. s1 \in Section
      <3> HIDE DEF s
      <3> QED  BY <2>2 DEF Section
    <2>4. new = [e EXCEPT !.scns[k] = s1]
      BY <1>1 DEF IsElf
    <2> HIDE DEF s1, new
    <2>5. IsElf(Ok(new).e)
      BY <1>1, <2>1, <2>3, <2>4, SetScn DEF OneScn, Ok
    <2> QED  BY <2>1, <2>5, CallKeeps
  <1>10. ASSUME NEW i \in Nat, NEW j \in Nat, NEW x \in may.data, EditData(i, j, x) PROVE TypeOK'
    <2> DEFINE k == i + 1
               s == e.scns[k]
               p == s.data[j]
               data == [s.data EXCEPT ![j] = Changed(p, x)]
               s1 == [s EXCEPT !.data = data]
               new == [e EXCEPT !.scns[k].data[j] = Changed(@, x)]
    <2>1. Call("edit", i, Ok(new)) /\ k \in DOMAIN e.scns /\ j \in DOMAIN s.data
      BY <1>10 DEF EditData, HasScn
    <2>2. Changed(NewData, x) \in Data /\ ("buf" \in DOMAIN x <=> "size" \in DOMAIN x)
      BY <1>1, ProgramsAssumption DEF may
    <2>3. s \in Section /\ s.data \in Seq(Data)
      BY <1>1, <2>1, SectionFields
    <2>4. p \in Data
      BY <2>1, <2>3
    <2>5. Changed(p, x) \in Data
      BY <2>2, <2>4, DataMerge
    <2> HIDE DEF k
    <2>6. new = [e EXCEPT !.scns[k] = s1]
      <3>1. "scns" \in DOMAIN e /\ "data" \in DOMAIN s
        BY <1>1, <2>3 DEF IsElf, Section
      <3> QED  BY <3>1, <2>1
    <2>7. data \in Seq(Data)
      <3> DEFINE old == s.data
                 v == Changed(p, x)
      <3>1. old \in Seq(Data) /\ v \in Data /\ j \in DOMAIN old
        BY <2>1, <2>3, <2>5
      <3>2. data = [old EXCEPT ![j] = v]
        OBVIOUS
      <3> HIDE DEF old, v, data
      <3>3. [old EXCEPT ![j] = v] \in Seq(Data)
        <4>1. j \in 1 .. Len(old)
          BY <3>1
        <4> QED  BY <3>1, <4>1
      <3> QED  BY <3>2, <3>3
    <2>8. s1 \in Section
      <3> HIDE DEF s, data
      <3> QED  BY <2>3, <2>7 DEF Section
    <2> HIDE DEF s1, new
    <2>9. IsElf(Ok(new).e)
      BY <1>1, <2>1, <2>6, <2>8, SetScn DEF OneScn, Ok
    <2> QED  BY <2>1, <2>9, CallKeeps
  <1> QED  BY <1>3, <1>4, <1>5, <1>6, <1>7, <1>8, <1>9, <1>10

\* elf_update(), the flags and the end.
LEMMA UpdateCalls ==
  ASSUME TypeOK
  PROVE  /\ \A set \in may.layout : elf_flagelf(set) => TypeOK'
         /\ elf_cntl => TypeOK'
         /\ elf_update_null => TypeOK'
         /\ \A io \in may.io : elf_update_write(io) => TypeOK'
         /\ UNCHANGED vars => TypeOK'
  <1>1. IsElf(e) /\ program \in DOMAIN Programs /\ writes \in 0 .. may.writes
    BY DEF TypeOK
  <1>2. may.writes \in Nat
    BY <1>1, ProgramsAssumption DEF may
  <1>3. ASSUME NEW set \in may.layout, elf_flagelf(set) PROVE TypeOK'
    <2>1. set \in BOOLEAN
      BY <1>1, ProgramsAssumption DEF may
    <2>2. IsElf([e EXCEPT !.layout = set])
      BY <1>1, <2>1 DEF IsElf
    <2>3. Call("elf_flagelf", 0, Ok([e EXCEPT !.layout = set]))
      BY <1>3 DEF elf_flagelf
    <2>4. IsElf(Ok([e EXCEPT !.layout = set]).e)
      BY <2>2 DEF Ok
    <2> QED  BY <2>3, <2>4, CallKeeps
  <1>4. ASSUME elf_cntl PROVE TypeOK'
    <2>1. IsElf([e EXCEPT !.fd = FALSE])
      BY <1>1 DEF IsElf
    <2>2. Call("elf_cntl", 0, Ok([e EXCEPT !.fd = FALSE]))
      BY <1>4 DEF elf_cntl
    <2>3. IsElf(Ok([e EXCEPT !.fd = FALSE]).e)
      BY <2>1 DEF Ok
    <2> QED  BY <2>2, <2>3, CallKeeps
  <1> DEFINE r == Resync(e)
  <1>5. IsLayout(r) /\ IsElf(r.e) /\ r.e.cmd = e.cmd
    <2>1. IsLayout(r) /\ r.e.cmd = e.cmd
      BY <1>1, ResyncIs
    <2> HIDE DEF r
    <2> QED  BY <2>1 DEF IsLayout
  <1>6. ASSUME elf_update_null PROVE TypeOK'
    <2> DEFINE q == IF e.class = "NONE"
                    THEN [e |-> e, err |-> "CLASS", rc |-> 0, ext |-> <<>>]
                    ELSE Resync(e)
    <2>1. Call("elf_update NULL", q.rc, q)
      BY <1>6 DEF elf_update_null, UpdateNull
    <2>2. q.e \in {e, r.e}
      OBVIOUS
    <2> HIDE DEF q, r
    <2>3. IsElf(q.e)
      BY <2>2, <1>1, <1>5
    <2> QED  BY <2>1, <2>3, CallKeeps
  <1>7. ASSUME NEW io \in may.io, elf_update_write(io) PROVE TypeOK'
    <2> DEFINE early == FirstError(<< <<e.class = "NONE", "CLASS">>, <<e.cmd = "READ", "MODE">> >>)
               a == Assemble(r)
               c == Commit(a, io)
    <2>1. \/ Call("elf_update", 0, Fail(e, early))
          \/ early = "NONE" /\ UpdateWrite(r, a, io)
      BY <1>7 DEF elf_update_write, WriteLayout
    <2>2. CASE Call("elf_update", 0, Fail(e, early))
      <3>1. IsElf(Fail(e, early).e)
        BY <1>1 DEF Fail
      <3> HIDE DEF early
      <3> QED  BY <2>2, <3>1, CallKeeps
    <2>3. CASE early = "NONE" /\ UpdateWrite(r, a, io)
      <3>1. e.cmd # "READ"
        <4> DEFINE checks == << <<e.class = "NONE", "CLASS">>, <<e.cmd = "READ", "MODE">> >>
        <4>1. DOMAIN checks = 1 .. 2 /\ 2 \in Nat
          OBVIOUS
        <4>2. \A k \in 1 .. 2 : checks[k][2] # "NONE"
          OBVIOUS
        <4>3. checks[2][1] = (e.cmd = "READ") /\ 2 \in 1 .. 2
          OBVIOUS
        <4> HIDE DEF checks
        <4>4. FirstError(checks) = "NONE"
          BY <2>3 DEF checks
        <4>5. \A k \in 1 .. 2 : ~checks[k][1]
          BY <4>1, <4>2, <4>4, NoError
        <4> QED  BY <4>3, <4>5
      <3> HIDE DEF early, r
      <3>2. \/ Call("elf_update", 0, r)
            \/ Call("elf_update", 0, Fail(r.e, "SEQUENCE"))
            \/ r.err = "NONE" /\ Call("elf_update", 0, a)
            \/ r.err = "NONE" /\ Replace(r.rc, c)
        BY <2>3 DEF UpdateWrite
      <3>3. r.err = "NONE" => IsElf(a.e) /\ a.e.cmd # "READ" /\ IsFile(a.file)
        BY <1>5, <3>1, AssembleIs
      <3> HIDE DEF a
      <3>4. CASE Call("elf_update", 0, r)
        BY <3>4, <1>5, CallKeeps
      <3>5. CASE Call("elf_update", 0, Fail(r.e, "SEQUENCE"))
        <4>1. IsElf(Fail(r.e, "SEQUENCE").e)
          BY <1>5 DEF Fail
        <4> QED  BY <3>5, <4>1, CallKeeps
      <3>6. CASE r.err = "NONE" /\ Call("elf_update", 0, a)
        BY <3>6, <3>3, CallKeeps
      <3>7. CASE r.err = "NONE" /\ Replace(r.rc, c)
        <4>1. io \in {"ok", "ftruncate", "write", "mmap"}
          BY <1>1, ProgramsAssumption DEF may
        <4>2. IsElf(c.e)
          BY <3>3, <3>7, <4>1, CommitIs
        <4> HIDE DEF c
        <4>3. e' = c.e /\ program' = program /\ writes' = writes + 1 /\ writes < may.writes
          BY <3>7 DEF Replace, Running
        <4>4. writes' \in 0 .. may.writes
          BY <4>3, <1>1, <1>2
        <4>5. may' = may
          BY <4>3 DEF may
        <4>6. IsElf(e)'
          BY <4>2, <4>3 DEF IsElf, IsFile
        <4> QED  BY <4>3, <4>4, <4>5, <4>6, <1>1 DEF TypeOK
      <3> QED  BY <3>2, <3>4, <3>5, <3>6, <3>7
    <2> QED  BY <2>1, <2>2, <2>3
  <1>8. ASSUME UNCHANGED vars PROVE TypeOK'
    BY <1>8 DEF vars, TypeOK, IsElf, IsFile, may
  <1> QED  BY <1>3, <1>4, <1>6, <1>7, <1>8

-----------------------------------------------------------------------------
(* The theorems.                                                           *)

LEMMA TypeInit == Init => TypeOK
  <1> SUFFICES ASSUME Init PROVE TypeOK
    OBVIOUS
  <1>1. program \in DOMAIN Programs /\ writes = 0
    BY DEF Init
  <1>2. PICK o \in may.opened : e = Open(o.cmd, o.mem, o.file)
    BY DEF Init
  <1>3. /\ o.cmd \in {"READ", "RDWR", "WRITE"} /\ o.mem \in {"none", "malloc", "mmap"}
        /\ IsFile(o.file) /\ may.writes \in Nat
    BY <1>1, <1>2, ProgramsAssumption DEF may
  <1>4. IsElf(e)
    BY <1>2, <1>3, OpenIs
  <1> QED  BY <1>1, <1>3, <1>4 DEF TypeOK

LEMMA TypeNext == TypeOK /\ [Next]_vars => TypeOK'
  <1> SUFFICES ASSUME TypeOK, [Next]_vars PROVE TypeOK'
    OBVIOUS
  <1>1. /\ may.scns \in Nat /\ may.phdrs \in Nat /\ may.datas \in Nat
    BY ProgramsAssumption DEF TypeOK, may
  <1>2. CASE \E c \in may.class : gelf_newehdr(c)
    BY <1>2, HeaderCalls
  <1>3. CASE \E x \in may.ehdr : gelf_update_ehdr(x)
    BY <1>3, HeaderCalls
  <1>4. CASE \E n \in 0 .. may.phdrs : gelf_newphdr(n) \/ gelf_getphdr(n) \/ gelf_update_phdr(n)
    BY <1>1, <1>4, HeaderCalls
  <1>5. CASE elf64_getphdr
    BY <1>5, HeaderCalls
  <1>6. CASE elf_newscn
    BY <1>6, SectionCalls
  <1>7. CASE \E i \in 0 .. may.scns : elf_getscn(i)
    BY <1>1, <1>7, SectionCalls
  <1>8. CASE \E i \in 1 .. may.scns :
               \/ elf_getdata(i) \/ elf_rawdata(i) \/ elf_newdata(i)
               \/ \E x \in may.shdr : gelf_update_shdr(i, x)
               \/ \E set \in BOOLEAN : elf_flagscn(i, set)
               \/ \E j \in 1 .. may.datas, x \in may.data : EditData(i, j, x)
    <2>1. PICK i \in 1 .. may.scns :
               \/ elf_getdata(i) \/ elf_rawdata(i) \/ elf_newdata(i)
               \/ \E x \in may.shdr : gelf_update_shdr(i, x)
               \/ \E set \in BOOLEAN : elf_flagscn(i, set)
               \/ \E j \in 1 .. may.datas, x \in may.data : EditData(i, j, x)
      BY <1>8
    <2>2. i \in Nat /\ \A j \in 1 .. may.datas : j \in Nat
      BY <1>1
    <2> QED  BY <2>1, <2>2, SectionCalls
  <1>9. CASE \E n \in may.strndx : elf_setshstrndx(n)
    BY <1>9, HeaderCalls
  <1>10. CASE \/ \E set \in may.layout : elf_flagelf(set)
              \/ elf_cntl
              \/ elf_update_null
              \/ \E io \in may.io : elf_update_write(io)
              \/ Stopped
              \/ UNCHANGED vars
    BY <1>10, UpdateCalls DEF Stopped
  <1> QED  BY <1>2, <1>3, <1>4, <1>5, <1>6, <1>7, <1>8, <1>9, <1>10 DEF Next

\* Whatever the calls, in whatever order, and whichever of them fail: the
\* descriptor stays well formed.  Its headers hold numbers of their types,
\* a program header table has as many entries as e_phnum counts and is never
\* without an executable header, every data descriptor that has a buffer has
\* one of its d_size bytes, and a descriptor that was not opened for writing
\* a new file has the file it was opened on.
THEOREM TypeCorrect == Spec => []TypeOK
  <1>1. Init => TypeOK
    BY TypeInit
  <1>2. TypeOK /\ [Next]_vars => TypeOK'
    BY TypeNext
  <1> QED  BY <1>1, <1>2, PTL DEF Spec

\* What elf_update() computes, in every state that calls can lead to: extents
\* in ascending order that share no byte, the last one ending at the size
\* that is returned, and sections at multiples of their alignment, as long
\* as no offset plus size wraps around.
THEOREM LayoutSafe == Spec => [](Fits => LayoutSound)
  <1>1. TypeOK /\ Fits => LayoutSound
    BY LayoutIsSound
  <1> QED  BY <1>1, TypeCorrect, PTL

\* Computing the layout again moves nothing, in every state that calls can
\* lead to where the layout does not depend on what it changes (Settled).
LEMMA LayoutIsFinal ==
  ASSUME TypeOK, Settled(Resync(e).e)
  PROVE  LayoutStable
  <1> DEFINE r == Resync(e)
  <1>1. IsElf(e)
    BY DEF TypeOK
  <1>2. r.err = "NONE" => Resync(r.e) = r
    BY <1>1, ResyncTwice
  <1> HIDE DEF r
  <1> QED  BY <1>2 DEF LayoutStable, r

\* What elf_update() computes is final: a second call, without any change in
\* between, places every extent where it was, gives the same size and
\* leaves every header as it is.
THEOREM LayoutFinal == Spec => [](Settled(Resync(e).e) => LayoutStable)
  <1>1. TypeOK /\ Settled(Resync(e).e) => LayoutStable
    BY LayoutIsFinal
  <1> QED  BY <1>1, TypeCorrect, PTL
=============================================================================

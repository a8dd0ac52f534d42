----------------------------- MODULE EuEntries -----------------------------
(***************************************************************************)
(* elfutils: the same accessors, and those of the types that only elfutils *)
(* knows.  The type of an entry is the one of the data descriptor.  Every  *)
(* call holds the lock of the object from the first look at its class to   *)
(* the last assignment, so a call is one step.  A successful update marks  *)
(* the section as changed.                                                 *)
(***************************************************************************)
EXTENDS EntryData

\* An index is compared as an unsigned int with the number of whole entries.
INVALID_NDX(d, ndx, kind, class) == d.d_size \div sizeof(kind, class) <= UInt(ndx)
\* The older form of the test, which wraps round at -1.
PastEnd(d, ndx, size) == UInt(ndx + 1) * size > d.d_size

Narrow(v) == v <= UINT32_MAX
NarrowInt(v) == INT32_MIN <= v /\ v <= INT32_MAX
NarrowInfo(v) == ELF64_R_SYM(v) <= 1 /\ ELF64_R_TYPE(v) <= 1

\* Whether the value can be kept in a 32-bit object.
Fits(kind, v) ==
  CASE kind = "SYM" -> Narrow(v.st_value) /\ Narrow(v.st_size)
    [] kind = "REL" -> Narrow(v.r_offset) /\ NarrowInfo(v.r_info)
    [] kind = "RELA" -> Narrow(v.r_offset) /\ NarrowInfo(v.r_info) /\ NarrowInt(v.r_addend)
    [] kind = "DYN" -> NarrowInt(v.d_tag) /\ Narrow(v.d_val)
    [] kind = "AUXV" -> Narrow(v.a_type) /\ Narrow(v.a_val)
    [] OTHER -> TRUE

FromRel32(v) == ELF64_R_INFO(ELF32_R_SYM(v.r_info), ELF32_R_TYPE(v.r_info))
ToRel32(v) == ELF32_R_INFO(ELF64_R_SYM(v.r_info), ELF64_R_TYPE(v.r_info))
IsRel(kind, class) == class = 32 /\ kind \in {"REL", "RELA"}

GetAt(d, kind, class, base) ==
  IF ~Inside(d, base, sizeof(kind, class)) THEN Fail("bounds", d)
  ELSE LET v == Load(d, kind, base)
       IN  Got(IF IsRel(kind, class) /\ v # Garbage THEN [v EXCEPT !.r_info = FromRel32(v)] ELSE v, d)

PutAt(d, kind, class, base, v) ==
  IF ~Inside(d, base, sizeof(kind, class)) THEN Fail("bounds", d)
  ELSE LET w == IF IsRel(kind, class) THEN [v EXCEPT !.r_info = ToRel32(v)] ELSE v
       IN  Got(v, [StoreAll(d, kind, base, w) EXCEPT !.dirty = TRUE])

\* Entries whose form depends on the class.
EuGet(d, ndx, kind, invalid) ==
  CASE d.d_type # kind -> Fail("INVALID_HANDLE", d)
    [] d.d_type = kind /\ invalid -> Fail("INVALID_INDEX", d)
    [] OTHER -> GetAt(d, kind, d.class, ndx * sizeof(kind, d.class))

\* Mutant: the value is stored before it is checked.
EuUpdateEager(d, ndx, kind, invalid, v) ==
  IF d.d_type # kind THEN Fail("DATA_MISMATCH", d)
  ELSE IF invalid THEN Fail("INVALID_INDEX", d)
  ELSE LET r == PutAt(d, kind, d.class, ndx * sizeof(kind, d.class), v)
       IN  IF d.class = 32 /\ ~Fits(kind, v) THEN [r EXCEPT !.err = "INVALID_DATA"] ELSE r

EuUpdate(d, ndx, kind, invalid, v) ==
  CASE d.d_type # kind -> Fail("DATA_MISMATCH", d)
    [] d.d_type = kind /\ d.class = 32 /\ ~Fits(kind, v) -> Fail("INVALID_DATA", d)
    [] d.d_type = kind /\ ~(d.class = 32 /\ ~Fits(kind, v)) ->
         IF invalid THEN Fail("INVALID_INDEX", d)
         ELSE PutAt(d, kind, d.class, ndx * sizeof(kind, d.class), v)

Eu_getsym(d, ndx) == EuGet(d, ndx, "SYM", INVALID_NDX(d, ndx, "SYM", d.class))
Eu_update_sym(d, ndx, v) ==
  EuUpdate(d, ndx, "SYM", INVALID_NDX(d, ndx, "SYM", d.class), v)
Eu_getrel(d, ndx) == EuGet(d, ndx, "REL", INVALID_NDX(d, ndx, "REL", d.class))
Eu_update_rel(d, ndx, v) ==
  EuUpdate(d, ndx, "REL", INVALID_NDX(d, ndx, "REL", d.class), v)
Eu_getrela(d, ndx) == EuGet(d, ndx, "RELA", INVALID_NDX(d, ndx, "RELA", d.class))
Eu_update_rela(d, ndx, v) ==
  EuUpdate(d, ndx, "RELA", INVALID_NDX(d, ndx, "RELA", d.class), v)
Eu_getdyn(d, ndx) == EuGet(d, ndx, "DYN", INVALID_NDX(d, ndx, "DYN", d.class))
Eu_update_dyn(d, ndx, v) ==
  EuUpdate(d, ndx, "DYN", INVALID_NDX(d, ndx, "DYN", d.class), v)

Eu_getauxv(d, ndx) ==
  EuGet(d, ndx, "AUXV", PastEnd(d, ndx, sizeof("AUXV", d.class)))
Eu_update_auxv(d, ndx, v) ==
  IF ndx < 0 THEN Fail("INVALID_INDEX", d)
  ELSE EuUpdate(d, ndx, "AUXV", PastEnd(d, ndx, sizeof("AUXV", d.class)), v)

\* Entries that have one form, which is the one of the 64-bit class (GElf_*).
Eu_getsyminfo(d, ndx) == EuGet(d, ndx, "SYMINFO", INVALID_NDX(d, ndx, "SYMINFO", 64))
Eu_update_syminfo(d, ndx, v) ==
  EuUpdate(d, ndx, "SYMINFO", INVALID_NDX(d, ndx, "SYMINFO", 64), v)
Eu_getlib(d, ndx) == EuGet(d, ndx, "LIB", INVALID_NDX(d, ndx, "LIB", 64))
Eu_update_lib(d, ndx, v) == EuUpdate(d, ndx, "LIB", INVALID_NDX(d, ndx, "LIB", 64), v)
Eu_getversym(d, ndx) == EuGet(d, ndx, "HALF", INVALID_NDX(d, ndx, "HALF", 64))

\* The type is looked at after the index.
IndexFirst(d, ndx, kind, v) ==
  CASE INVALID_NDX(d, ndx, kind, 64) -> Fail("INVALID_INDEX", d)
    [] ~INVALID_NDX(d, ndx, kind, 64) /\ d.d_type # kind -> Fail("DATA_MISMATCH", d)
    [] OTHER -> PutAt(d, kind, 64, ndx * sizeof(kind, 64), v)
Eu_update_versym(d, ndx, v) == IndexFirst(d, ndx, "HALF", v)

\* Both assert that the two classes have the same form, which they have not.
SameForm(kind) == sizeof(kind, 32) = sizeof(kind, 64)
Eu_getmove(d, ndx) ==
  CASE d.d_type # "MOVE" -> Fail("INVALID_HANDLE", d)
    [] d.d_type = "MOVE" /\ ~SameForm("MOVE") -> Fail("assert", d)
    [] OTHER -> EuGet(d, ndx, "MOVE", INVALID_NDX(d, ndx, "MOVE", 64))
Eu_update_move(d, ndx, v) ==
  IF ~SameForm("MOVE") THEN Fail("assert", d) ELSE IndexFirst(d, ndx, "MOVE", v)

\* Version records are found by offset.  type is the data type, kind the record.
GetVersion(d, offset, type, kind, align) ==
  CASE d.d_type # type -> Fail("INVALID_HANDLE", d)
    [] d.d_type = type /\ (\/ offset < 0
                           \/ offset + sizeof(kind, 64) > d.d_size
                           \/ offset % align # 0) -> Fail("OFFSET_RANGE", d)
    [] OTHER -> GetAt(d, kind, 64, offset)

\* Mutant: the type of the data does not matter.
PutVersionAny(d, offset, type, kind, v) ==
  IF offset < 0 \/ offset + sizeof(kind, 64) > d.d_size THEN Fail("INVALID_INDEX", d)
  ELSE PutAt(d, kind, 64, offset, v)

PutVersion(d, offset, type, kind, v) ==
  CASE offset < 0 \/ offset + sizeof(kind, 64) > d.d_size -> Fail("INVALID_INDEX", d)
    [] ~(offset < 0 \/ offset + sizeof(kind, 64) > d.d_size) /\ d.d_type # type ->
         Fail("DATA_MISMATCH", d)
    [] OTHER -> PutAt(d, kind, 64, offset, v)

Eu_getverdef(d, o) == GetVersion(d, o, "VDEF", "VDEF", 4)
Eu_getverdaux(d, o) == GetVersion(d, o, "VDEF", "VDAUX", 4)
\* Here the offset must be a multiple of the size, not of the alignment.
Eu_getverneed(d, o) == GetVersion(d, o, "VNEED", "VNEED", sizeof("VNEED", 64))
Eu_getvernaux(d, o) == GetVersion(d, o, "VNEED", "VNAUX", sizeof("VNAUX", 64))
Eu_update_verdef(d, o, v) == PutVersion(d, o, "VDEF", "VDEF", v)
Eu_update_verdaux(d, o, v) == PutVersion(d, o, "VDEF", "VDAUX", v)
Eu_update_verneed(d, o, v) == PutVersion(d, o, "VNEED", "VNEED", v)
Eu_update_vernaux(d, o, v) == PutVersion(d, o, "VNEED", "VNAUX", v)

\* x is the extended index table, or NoTable.
NoTable == [none |-> TRUE]
Eu_getsymshndx(d, x, ndx) ==
  IF d.d_type # "SYM" \/ (x # NoTable /\ x.d_type # "WORD")
  THEN Fail("INVALID_HANDLE", d)
  ELSE IF x # NoTable /\ INVALID_NDX(x, ndx, "WORD", 64) THEN Fail("INVALID_INDEX", d)
  ELSE IF INVALID_NDX(d, ndx, "SYM", d.class) THEN Fail("INVALID_INDEX", d)
  ELSE IF x # NoTable /\ ~Inside(x, ndx * Word, Word) THEN Fail("bounds", d)
  ELSE LET w == IF x = NoTable THEN 0
                ELSE Load(x, "WORD", ndx * Word).word
           s == GetAt(d, "SYM", d.class, ndx * sizeof("SYM", d.class))
       IN  [s EXCEPT !.val = <<s.val, w>>]

\* The type of the table is not looked at.
Eu_update_symshndx(d, x, ndx, v, w) ==
  LET s == PutAt(d, "SYM", d.class, ndx * sizeof("SYM", d.class), v) IN
  IF d.d_type # "SYM" THEN Also(Fail("DATA_MISMATCH", d), x)
  ELSE IF x # NoTable /\ PastEnd(x, ndx, Word) THEN Also(Fail("INVALID_INDEX", d), x)
  ELSE IF x = NoTable /\ w # 0 THEN Also(Fail("INVALID_INDEX", d), x)
  ELSE IF d.class = 32 /\ ~Fits("SYM", v) THEN Also(Fail("INVALID_DATA", d), x)
  ELSE IF INVALID_NDX(d, ndx, "SYM", d.class) THEN Also(Fail("INVALID_INDEX", d), x)
  ELSE IF x # NoTable /\ ~Inside(x, ndx * Word, Word) THEN Also(Fail("bounds", d), x)
  ELSE Also(s, IF x = NoTable THEN x ELSE StoreAll(x, "WORD", ndx * Word, [word |-> w]))
=============================================================================

---------------------------- MODULE GelfEntries ----------------------------
(***************************************************************************)
(* elftoolchain: gelf_getsym(), gelf_update_sym() and their kind.  The     *)
(* type of an entry is the one that the header of the section gives        *)
(* (shtype), not the one of the data descriptor (d_type).                  *)
(***************************************************************************)
EXTENDS EntryData

\* Mutant: one entry too many.
RefusedPast(d, ndx, kind) ==
  \/ ndx < 0
  \/ d.shtype # kind
  \/ sizeof(kind, d.class) * ndx > d.d_size

\* The checks that all accessors share: index, section type, size.
Refused(d, ndx, kind) ==
  \/ ndx < 0
  \/ d.shtype # kind
  \/ sizeof(kind, d.class) * ndx >= d.d_size

\* A 32-bit relocation keeps its symbol and type packed more tightly.
Widen(kind, class, v) ==
  IF class = 32 /\ kind \in {"REL", "RELA"} /\ v # Garbage
  THEN [v EXCEPT !.r_info = ELF64_R_INFO(ELF32_R_SYM(@), ELF32_R_TYPE(@))]
  ELSE v

GetEntry(d, ndx, kind) ==
  LET base == ndx * sizeof(kind, d.class) IN
  CASE Refused(d, ndx, kind) -> Fail("ARGUMENT", d)
    [] ~Refused(d, ndx, kind) /\ ~Inside(d, base, sizeof(kind, d.class)) ->
         Fail("bounds", d)
    [] OTHER -> Got(Widen(kind, d.class, Load(d, kind, base)), d)

\* One assignment of a 32-bit update: plain, or with a range check that returns
\* at once.
LIBELF_COPY_U32(v) == v <= UINT32_MAX
\* Mutant: only the upper bound is looked at.
CopyS32Upper(v) == v <= INT32_MAX
LIBELF_COPY_S32(v) == v <= INT32_MAX /\ v >= INT32_MIN
\* ~0UL has 64 bits, so that a symbol index is compared with a number it cannot
\* exceed.
InfoInRange(v) == /\ ELF64_R_SYM(v) <= ELF32_R_SYM(15)
                  /\ ELF64_R_TYPE(v) <= ELF32_R_TYPE(UINT32_MAX)

\* Whether an assignment, <<check, field>>, is made.
InRange(step, v) ==
  CASE step[1] = "U32" -> LIBELF_COPY_U32(v[step[2]])
    [] step[1] = "S32" -> LIBELF_COPY_S32(v[step[2]])
    [] step[1] = "INFO" -> InfoInRange(v[step[2]])
    [] step[1] = "=" -> TRUE

\* The assignments before the first that is refused, and what they assign.
Made(steps, v) == {i \in DOMAIN steps : \A j \in 1..i : InRange(steps[j], v)}
Assigned(steps, v) ==
  [f \in {steps[i][2] : i \in Made(steps, v)} |->
     IF <<"INFO", f>> \in Range(steps)
     THEN ELF32_R_INFO(ELF64_R_SYM(v[f]), ELF64_R_TYPE(v[f])) ELSE v[f]]

\* The assignments of a 32-bit update, in their order.
Steps == [
  SYM |-> << <<"=", "st_name">>, <<"=", "st_info">>, <<"=", "st_other">>,
             <<"=", "st_shndx">>, <<"U32", "st_value">>, <<"U32", "st_size">> >>,
  REL |-> << <<"U32", "r_offset">>, <<"INFO", "r_info">> >>,
  RELA |-> << <<"U32", "r_offset">>, <<"INFO", "r_info">>, <<"S32", "r_addend">> >>,
  DYN |-> << <<"S32", "d_tag">>, <<"U32", "d_val">> >>,
  MOVE |-> << <<"=", "m_value">>, <<"U32", "m_info">>, <<"U32", "m_poffset">>,
              <<"=", "m_repeat">>, <<"=", "m_stride">> >>,
  CAP |-> << <<"U32", "c_tag">>, <<"U32", "c_val">> >>,
  SYMINFO |-> << <<"=", "si_boundto">>, <<"=", "si_flags">> >>]

UpdateEntry(d, ndx, kind, v) ==
  LET base == ndx * sizeof(kind, d.class)
      steps == Steps[kind] IN
  CASE Refused(d, ndx, kind) -> Fail("ARGUMENT", d)
    [] ~Refused(d, ndx, kind) /\ ~Inside(d, base, sizeof(kind, d.class)) ->
         Fail("bounds", d)
    [] OTHER ->
         IF d.class = 64 THEN Got(v, StoreAll(d, kind, base, v))
         ELSE [val |-> v,
               err |-> IF Made(steps, v) = DOMAIN steps THEN "" ELSE "RANGE",
               d |-> StoreFields(d, kind, base, Assigned(steps, v))]

gelf_getsym(d, ndx) == GetEntry(d, ndx, "SYM")
gelf_update_sym(d, ndx, v) == UpdateEntry(d, ndx, "SYM", v)

gelf_getrel(d, ndx) == GetEntry(d, ndx, "REL")
gelf_update_rel(d, ndx, v) == UpdateEntry(d, ndx, "REL", v)

gelf_getrela(d, ndx) == GetEntry(d, ndx, "RELA")
gelf_update_rela(d, ndx, v) == UpdateEntry(d, ndx, "RELA", v)

gelf_getdyn(d, ndx) == GetEntry(d, ndx, "DYN")
gelf_update_dyn(d, ndx, v) == UpdateEntry(d, ndx, "DYN", v)

gelf_getmove(d, ndx) == GetEntry(d, ndx, "MOVE")
gelf_update_move(d, ndx, v) == UpdateEntry(d, ndx, "MOVE", v)

gelf_getcap(d, ndx) == GetEntry(d, ndx, "CAP")
gelf_update_cap(d, ndx, v) == UpdateEntry(d, ndx, "CAP", v)

gelf_getsyminfo(d, ndx) == GetEntry(d, ndx, "SYMINFO")
gelf_update_syminfo(d, ndx, v) == UpdateEntry(d, ndx, "SYMINFO", v)

\* The symbol and its word in the extended index table x.  The last conjunct of
\* the update looks at the type of the symbols' data, which is WORD only for an
\* application that calls its symbols words.
gelf_getsymshndx(d, x, ndx) ==
  LET s == gelf_getsym(d, ndx)
      base == ndx * sizeof("WORD", x.class) IN
  CASE ~Accepted(s) -> s
    [] Accepted(s) /\ (Refused(x, ndx, "WORD") \/ x.d_type # "WORD") -> Fail("ARGUMENT", d)
    [] Accepted(s) /\ ~(Refused(x, ndx, "WORD") \/ x.d_type # "WORD") ->
         IF ~Inside(x, base, Word) THEN Fail("bounds", d)
         ELSE Got(<<s.val, Load(x, "WORD", base).word>>, d)

gelf_update_symshndx(d, x, ndx, v, w) ==
  LET s == gelf_update_sym(d, ndx, v)
      base == ndx * sizeof("WORD", x.class) IN
  CASE ~Accepted(s) -> Also(s, x)
    [] Accepted(s) /\ (Refused(x, ndx, "WORD") \/ d.d_type # "WORD") ->
         Also(Fail("ARGUMENT", s.d), x)
    [] Accepted(s) /\ ~(Refused(x, ndx, "WORD") \/ d.d_type # "WORD") ->
         IF ~Inside(x, base, Word) THEN Also(Fail("bounds", s.d), x)
         ELSE Also(Got(v, s.d), StoreAll(x, "WORD", base, [word |-> w]))
=============================================================================

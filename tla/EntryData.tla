----------------------------- MODULE EntryData -----------------------------
(***************************************************************************)
(* A data descriptor as the accessors of single entries see it: a buffer   *)
(* of d_size bytes that holds records; d_buf gives for the offsets at      *)
(* which a record was stored its kind and fields.  Storing a record where others    *)
(* are in part destroys these; an entry that is no record of its type is   *)
(* Garbage.                                                                *)
(*                                                                         *)
(* Words are small: a 32-bit number is below 4, a 64-bit number below 16,  *)
(* and the two parts of the r_info of a relocation have half the bits.     *)
(***************************************************************************)
EXTENDS Formats

Classes == {32, 64}
Garbage == [garbage |-> TRUE]

UINT32_MAX == 3
INT32_MIN == -2
INT32_MAX == 1

\* A C int has 16 bits here; one converted to an unsigned type.
IsInt(n) == n \in Int /\ -32768 <= n /\ n <= 32767
UINT_MAX == 65535
UInt(n) == n % (UINT_MAX + 1)

ELF32_R_SYM(i) == i \div 2
ELF32_R_TYPE(i) == i % 2
ELF32_R_INFO(s, t) == (s * 2 + (t % 2)) % (UINT32_MAX + 1)
ELF64_R_SYM(i) == i \div 4
ELF64_R_TYPE(i) == i % 4
ELF64_R_INFO(s, t) == s * 4 + (t % 4)

\* The sizes in memory that the accessors work with, in the two classes.
Sizes == [SYM |-> <<16, 24>>, REL |-> <<8, 16>>, RELA |-> <<12, 24>>,
          DYN |-> <<8, 16>>, CAP |-> <<8, 16>>, MOVE |-> <<24, 32>>,
          SYMINFO |-> <<4, 4>>, LIB |-> <<20, 20>>, AUXV |-> <<8, 16>>,
          VDEF |-> <<20, 20>>, VDAUX |-> <<8, 8>>, VNEED |-> <<16, 16>>,
          VNAUX |-> <<16, 16>>, HALF |-> <<2, 2>>, WORD |-> <<4, 4>>]
sizeof(kind, class) == Sizes[kind][class \div 32]

\* They are what C makes of the declarations.
ASSUME SizesAssumption ==
  \A k \in DOMAIN Sizes, c \in Classes : sizeof(k, c) = msize(k, c)

Inside(d, base, size) == base >= 0 /\ base + size <= d.d_size

Load(d, kind, base) ==
  IF base \in DOMAIN d.d_buf /\ d.d_buf[base].kind = kind
  THEN d.d_buf[base].val ELSE Garbage

\* Structure assignment: records that overlap the new one are gone.
StoreAll(d, kind, base, v) ==
  LET kept == {o \in DOMAIN d.d_buf :
                 \/ o + sizeof(d.d_buf[o].kind, d.class) <= base
                 \/ base + sizeof(kind, d.class) <= o}
  IN  [d EXCEPT !.d_buf = [o \in kept \cup {base} |->
         IF o = base THEN [kind |-> kind, val |-> v] ELSE @[o]]]

\* The assignment of the fields of v, one after the other, to the record at
\* base: its other fields stay.
StoreFields(d, kind, base, v) ==
  LET r == Load(d, kind, base)
      others == IF r = Garbage THEN {} ELSE DOMAIN r \ DOMAIN v IN
  IF DOMAIN v = {} THEN d
  ELSE StoreAll(d, kind, base,
         [f \in others \cup DOMAIN v |-> IF f \in DOMAIN v THEN v[f] ELSE r[f]])

\* The names of the fields, which are the same in the two classes.
Fields == [
  SYM |-> {"st_name", "st_info", "st_other", "st_shndx", "st_value", "st_size"},
  REL |-> {"r_offset", "r_info"}, RELA |-> {"r_offset", "r_info", "r_addend"},
  DYN |-> {"d_tag", "d_val"}, CAP |-> {"c_tag", "c_val"},
  MOVE |-> {"m_value", "m_info", "m_poffset", "m_repeat", "m_stride"},
  SYMINFO |-> {"si_boundto", "si_flags"}, AUXV |-> {"a_type", "a_val"},
  LIB |-> {"l_name", "l_time_stamp", "l_checksum", "l_version", "l_flags"},
  VDEF |-> {"vd_version", "vd_flags", "vd_ndx", "vd_cnt", "vd_hash", "vd_aux", "vd_next"},
  VDAUX |-> {"vda_name", "vda_next"},
  VNEED |-> {"vn_version", "vn_cnt", "vn_file", "vn_aux", "vn_next"},
  VNAUX |-> {"vna_hash", "vna_flags", "vna_other", "vna_name", "vna_next"},
  HALF |-> {"half"}, WORD |-> {"word"}]
ASSUME FieldsAssumption ==
  \A k \in DOMAIN Sizes, c \in Classes :
    Fields[k] = {Format(k, c)[i][1] : i \in DOMAIN Format(k, c)}

\* An entry with all its fields.
IsEntry(kind, v) == v = [f \in Fields[kind] |-> v[f]]

\* A data descriptor: its buffer is no larger than an unsigned int can tell,
\* and holds records with fields of their type, if not all of them.
DataOK(d) ==
  /\ d = [class |-> d.class, shtype |-> d.shtype, d_type |-> d.d_type,
          d_size |-> d.d_size, dirty |-> d.dirty, d_buf |-> d.d_buf]
  /\ d.class \in Classes /\ d.d_size \in Nat /\ d.d_size <= UINT_MAX
  /\ \A o \in DOMAIN d.d_buf :
       /\ o \in Int /\ d.d_buf[o].kind \in DOMAIN Sizes
       /\ DOMAIN d.d_buf[o].val \subseteq Fields[d.d_buf[o].kind]

\* What an accessor returns: the value got (<< >> when none), the error and the
\* descriptor afterwards.  The errors "bounds" (an access outside the buffer)
\* and "assert" (a failed assertion) are not errors of the interface.
Got(v, d) == [val |-> v, err |-> "", d |-> d]
Fail(e, d) == [val |-> << >>, err |-> e, d |-> d]
Accepted(r) == r.err = ""
\* With the table x of extended section indices.
Also(r, x) == [val |-> r.val, err |-> r.err, d |-> r.d, x |-> x]
=============================================================================

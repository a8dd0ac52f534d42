------------------------------ MODULE Formats ------------------------------
(***************************************************************************)
(* The records of the ELF format, as the headers of the two libraries      *)
(* declare them.  A record is a sequence of fields, each with its name,    *)
(* the width of an element in bytes and the number of elements.  Both      *)
(* headers declare the same records; elfutils writes them a second time,   *)
(* as arrays of bytes, for the form in the file (abstract.h).              *)
(***************************************************************************)
EXTENDS Integers, Sequences, SequencesExt

Half == 2
Word == 4
Xword == 8

\* Addr, Off and the fields that are a Word in one class and an Xword in the
\* other.
Natural(class) == IF class = 32 THEN Word ELSE Xword

F(name, width) == <<name, width, 1>>

Ehdr(class) == << <<"e_ident", 1, 16>>, F("e_type", Half), F("e_machine", Half),
  F("e_version", Word), F("e_entry", Natural(class)), F("e_phoff", Natural(class)),
  F("e_shoff", Natural(class)), F("e_flags", Word), F("e_ehsize", Half),
  F("e_phentsize", Half), F("e_phnum", Half), F("e_shentsize", Half),
  F("e_shnum", Half), F("e_shstrndx", Half) >>

Phdr(class) ==
  LET flags == <<F("p_flags", Word)>> IN
  <<F("p_type", Word)>> \o (IF class = 64 THEN flags ELSE << >>)
  \o <<F("p_offset", Natural(class)), F("p_vaddr", Natural(class)),
       F("p_paddr", Natural(class)), F("p_filesz", Natural(class)),
       F("p_memsz", Natural(class))>>
  \o (IF class = 32 THEN flags ELSE << >>) \o <<F("p_align", Natural(class))>>

Shdr(class) == <<F("sh_name", Word), F("sh_type", Word), F("sh_flags", Natural(class)),
  F("sh_addr", Natural(class)), F("sh_offset", Natural(class)),
  F("sh_size", Natural(class)), F("sh_link", Word), F("sh_info", Word),
  F("sh_addralign", Natural(class)), F("sh_entsize", Natural(class))>>

Sym(class) ==
  LET small == <<F("st_info", 1), F("st_other", 1), F("st_shndx", Half)>>
      large == <<F("st_value", Natural(class)), F("st_size", Natural(class))>> IN
  <<F("st_name", Word)>>
  \o IF class = 32 THEN large \o small ELSE small \o large

Rel(class) == <<F("r_offset", Natural(class)), F("r_info", Natural(class))>>

Rela(class) == Append(Rel(class), F("r_addend", Natural(class)))

Dyn(class) == <<F("d_tag", Natural(class)), F("d_val", Natural(class))>>

Cap(class) == <<F("c_tag", Natural(class)), F("c_val", Natural(class))>>

\* m_value is eight bytes in both classes.
Move(class) == <<F("m_value", Xword), F("m_info", Natural(class)),
  F("m_poffset", Natural(class)), F("m_repeat", Half), F("m_stride", Half)>>

Syminfo(class) == <<F("si_boundto", Half), F("si_flags", Half)>>

Lib(class) == <<F("l_name", Word), F("l_time_stamp", Word), F("l_checksum", Word),
  F("l_version", Word), F("l_flags", Word)>>

auxv_t(class) == <<F("a_type", Natural(class)), F("a_val", Natural(class))>>

Chdr(class) == <<F("ch_type", Word)>>
  \o (IF class = 64 THEN <<F("ch_reserved", Word)>> ELSE << >>)
  \o <<F("ch_size", Natural(class)), F("ch_addralign", Natural(class))>>

Nhdr(class) == <<F("n_namesz", Word), F("n_descsz", Word), F("n_type", Word)>>

Verdef(class) == <<F("vd_version", Half), F("vd_flags", Half), F("vd_ndx", Half),
  F("vd_cnt", Half), F("vd_hash", Word), F("vd_aux", Word), F("vd_next", Word)>>

Verdaux(class) == <<F("vda_name", Word), F("vda_next", Word)>>

Verneed(class) == <<F("vn_version", Half), F("vn_cnt", Half), F("vn_file", Word),
  F("vn_aux", Word), F("vn_next", Word)>>

Vernaux(class) == <<F("vna_hash", Word), F("vna_flags", Half), F("vna_other", Half),
  F("vna_name", Word), F("vna_next", Word)>>

Format(kind, class) ==
  CASE kind = "EHDR" -> Ehdr(class)       [] kind = "PHDR" -> Phdr(class)
    [] kind = "SHDR" -> Shdr(class)       [] kind = "SYM" -> Sym(class)
    [] kind = "REL" -> Rel(class)         [] kind = "RELA" -> Rela(class)
    [] kind = "DYN" -> Dyn(class)         [] kind = "CAP" -> Cap(class)
    [] kind = "MOVE" -> Move(class)       [] kind = "SYMINFO" -> Syminfo(class)
    [] kind = "LIB" -> Lib(class)         [] kind = "AUXV" -> auxv_t(class)
    [] kind = "CHDR" -> Chdr(class)       [] kind = "NHDR" -> Nhdr(class)
    [] kind = "VDEF" -> Verdef(class)     [] kind = "VDAUX" -> Verdaux(class)
    [] kind = "VNEED" -> Verneed(class)   [] kind = "VNAUX" -> Vernaux(class)
    [] kind = "HALF" -> <<F("half", Half)>>
    [] kind = "WORD" -> <<F("word", Word)>>
    [] kind = "BYTE" -> <<F("byte", 1)>>

Kinds == {"EHDR", "PHDR", "SHDR", "SYM", "REL", "RELA", "DYN", "CAP", "MOVE",
          "SYMINFO", "LIB", "AUXV", "CHDR", "NHDR", "VDEF", "VDAUX", "VNEED",
          "VNAUX", "HALF", "WORD", "BYTE"}

Up(n, align) == ((n + align - 1) \div align) * align

\* The size of the record in the file: its fields, one after the other.
fsize(kind, class) ==
  FoldLeft(LAMBDA n, f : n + f[2] * f[3], 0, Format(kind, class))

\* Where C puts field i: every field at a multiple of its width.
OffsetAfter(fields, i) ==
  FoldLeft(LAMBDA n, f : Up(n, f[2]) + f[2] * f[3], 0, SubSeq(fields, 1, i))
FieldOffset(kind, class, i) ==
  Up(OffsetAfter(Format(kind, class), i - 1), Format(kind, class)[i][2])

\* The size of the record in memory, sizeof in C.
alignof(kind, class) ==
  FoldLeft(LAMBDA n, f : IF f[2] > n THEN f[2] ELSE n, 1, Format(kind, class))
msize(kind, class) ==
  Up(OffsetAfter(Format(kind, class), Len(Format(kind, class))), alignof(kind, class))

\* No record has padding, so that file and memory form differ only in byte
\* order: every record but the move entry, which both libraries pad.
Unpadded == {k \in Kinds : \A c \in {32, 64} : msize(k, c) = fsize(k, c)}
=============================================================================

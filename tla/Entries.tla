------------------------------ MODULE Entries ------------------------------
(***************************************************************************)
(* An application that gets and updates single entries of a data           *)
(* descriptor d, and of the table x of extended section indices beside it, *)
(* with one of the two libraries.                                          *)
(***************************************************************************)
EXTENDS GelfEntries, EuEntries

CONSTANTS
  Tables,     \* the descriptors an application may have: [d |-> ..., x |-> ...]
  Values(_, _), \* Values(kind, class): the entries it may want to store
  Words,      \* the extended section indices it may want to store
  Places,     \* the indices it uses
  Offsets,    \* the offsets it uses, with types that have no index
  MaxCalls    \* bound on the number of updates

ASSUME CallsAssumption == MaxCalls \in Nat
\* An index and an offset are ints.
ASSUME PlacesAssumption == \A i \in Places \cup Offsets : IsInt(i)
ASSUME TablesAssumption ==
  \A t \in Tables : DataOK(t.d) /\ (t.x = NoTable \/ DataOK(t.x))
\* An entry has all its fields, and that of a relocation is no negative number.
ASSUME ValuesAssumption ==
  \A k \in DOMAIN Fields, c \in Classes : \A v \in Values(k, c) :
    /\ IsEntry(k, v)
    /\ "r_info" \in Fields[k] => v.r_info \in Nat

VARIABLES
  lib,    \* the library that is used
  d, x,   \* the data descriptors
  out,    \* the last call and what it returned
  calls   \* how many updates there were

vars == <<lib, d, x, out, calls>>

Both == {"SYM", "REL", "RELA", "DYN", "MOVE", "SYMINFO"}
Tc == Both \cup {"CAP"}
Eu == Both \cup {"AUXV", "LIB", "HALF"}
Versions == {"VDEF", "VDAUX", "VNEED", "VNAUX"}

TcGets(k, dd, i) ==
  CASE k = "SYM" -> gelf_getsym(dd, i)   [] k = "REL" -> gelf_getrel(dd, i)
    [] k = "RELA" -> gelf_getrela(dd, i) [] k = "DYN" -> gelf_getdyn(dd, i)
    [] k = "MOVE" -> gelf_getmove(dd, i) [] k = "CAP" -> gelf_getcap(dd, i)
    [] k = "SYMINFO" -> gelf_getsyminfo(dd, i)

TcUpdates(k, dd, i, v) ==
  CASE k = "SYM" -> gelf_update_sym(dd, i, v)   [] k = "REL" -> gelf_update_rel(dd, i, v)
    [] k = "RELA" -> gelf_update_rela(dd, i, v) [] k = "DYN" -> gelf_update_dyn(dd, i, v)
    [] k = "MOVE" -> gelf_update_move(dd, i, v) [] k = "CAP" -> gelf_update_cap(dd, i, v)
    [] k = "SYMINFO" -> gelf_update_syminfo(dd, i, v)

EuGets(k, dd, i) ==
  CASE k = "SYM" -> Eu_getsym(dd, i)     [] k = "REL" -> Eu_getrel(dd, i)
    [] k = "RELA" -> Eu_getrela(dd, i)   [] k = "DYN" -> Eu_getdyn(dd, i)
    [] k = "MOVE" -> Eu_getmove(dd, i)   [] k = "SYMINFO" -> Eu_getsyminfo(dd, i)
    [] k = "AUXV" -> Eu_getauxv(dd, i)   [] k = "LIB" -> Eu_getlib(dd, i)
    [] k = "HALF" -> Eu_getversym(dd, i)
    [] k = "VDEF" -> Eu_getverdef(dd, i) [] k = "VDAUX" -> Eu_getverdaux(dd, i)
    [] k = "VNEED" -> Eu_getverneed(dd, i) [] k = "VNAUX" -> Eu_getvernaux(dd, i)

EuUpdates(k, dd, i, v) ==
  CASE k = "SYM" -> Eu_update_sym(dd, i, v)     [] k = "REL" -> Eu_update_rel(dd, i, v)
    [] k = "RELA" -> Eu_update_rela(dd, i, v)   [] k = "DYN" -> Eu_update_dyn(dd, i, v)
    [] k = "MOVE" -> Eu_update_move(dd, i, v)   [] k = "SYMINFO" -> Eu_update_syminfo(dd, i, v)
    [] k = "AUXV" -> Eu_update_auxv(dd, i, v)   [] k = "LIB" -> Eu_update_lib(dd, i, v)
    [] k = "HALF" -> Eu_update_versym(dd, i, v)
    [] k = "VDEF" -> Eu_update_verdef(dd, i, v) [] k = "VDAUX" -> Eu_update_verdaux(dd, i, v)
    [] k = "VNEED" -> Eu_update_verneed(dd, i, v) [] k = "VNAUX" -> Eu_update_vernaux(dd, i, v)

Gets(k, dd, i) == IF lib = "elftoolchain" THEN TcGets(k, dd, i) ELSE EuGets(k, dd, i)
Updates(k, dd, i, v) ==
  IF lib = "elftoolchain" THEN TcUpdates(k, dd, i, v) ELSE EuUpdates(k, dd, i, v)

\* The accessors of the types that the descriptor and the section are said to
\* have, and those of one other type.
Tempting == {d.d_type, d.shtype, "DYN"}
            \cup (IF d.d_type = "VDEF" THEN {"VDAUX"} ELSE {})
            \cup (IF d.d_type = "VNEED" THEN {"VNAUX"} ELSE {})
KindsOf == Tempting \cap (IF lib = "elftoolchain" THEN Tc ELSE Eu \cup Versions)
At(k) == IF k \in Versions THEN Offsets ELSE Places

Quiet == [op |-> "none", kind |-> "none", at |-> 0, v |-> << >>, err |-> ""]

Init ==
  /\ lib \in {"elftoolchain", "elfutils"}
  /\ \E t \in Tables : d = t.d /\ x = t.x
  /\ out = Quiet
  /\ calls = 0

\* gelf_get...(): k is the accessor the application chose, rightly or not.
Get(k, i) ==
  /\ \E r \in {Gets(k, d, i)} :
       out' = [op |-> "get", kind |-> k, at |-> i, v |-> r.val, err |-> r.err]
  /\ UNCHANGED <<lib, d, x, calls>>

Update(k, i, v) ==
  /\ calls < MaxCalls
  /\ calls' = calls + 1
  /\ \E r \in {Updates(k, d, i, v)} :
       /\ out' = [op |-> "update", kind |-> k, at |-> i, v |-> v, err |-> r.err]
       /\ d' = r.d
  /\ UNCHANGED <<lib, x>>

GetX(i) ==
  /\ x # NoTable \/ lib = "elfutils"
  /\ \E r \in {IF lib = "elftoolchain" THEN gelf_getsymshndx(d, x, i)
               ELSE Eu_getsymshndx(d, x, i)} :
       out' = [op |-> "getx", kind |-> "SYM", at |-> i, v |-> r.val, err |-> r.err]
  /\ UNCHANGED <<lib, d, x, calls>>

UpdateX(i, v, w) ==
  /\ calls < MaxCalls
  /\ x # NoTable \/ lib = "elfutils"
  /\ calls' = calls + 1
  /\ \E r \in {IF lib = "elftoolchain" THEN gelf_update_symshndx(d, x, i, v, w)
               ELSE Eu_update_symshndx(d, x, i, v, w)} :
       /\ out' = [op |-> "updatex", kind |-> "SYM", at |-> i, v |-> <<v, w>>,
                  err |-> r.err]
       /\ d' = r.d /\ x' = r.x
  /\ UNCHANGED lib

Next ==
     \/ \E k \in KindsOf : \E i \in At(k) :
          \/ Get(k, i)
          \/ \E v \in Values(k, d.class) : Update(k, i, v)
     \/ \E i \in Places :
          \/ GetX(i)
          \/ \E v \in Values("SYM", d.class), w \in Words : UpdateX(i, v, w)

\* The last result decides nothing.
View == <<lib, d, x, calls>>

Spec == Init /\ [][Next]_vars

-----------------------------------------------------------------------------
\* Whole entries of the type that section and descriptor agree on.
Sane(k) == d.d_type = k /\ d.shtype = k /\ d.d_size % sizeof(k, d.class) = 0

(***************************************************************************)
(* No accessor reaches outside the buffer, whatever the index, the type    *)
(* and the size.  Two situations are known in which one does: the          *)
(* elftoolchain accessors take the beginning of an entry that the buffer   *)
(* holds only a part of for an entry (gelf_sym.c:75), and gelf_getauxv()   *)
(* of elfutils adds 1 to the index before it compares (gelf_getauxv.c:69). *)
(***************************************************************************)
InBoundsStep ==
  out'.err = "bounds" =>
    \/ lib = "elftoolchain" /\ d.d_size % sizeof(out'.kind, d.class) # 0
    \/ lib = "elftoolchain" /\ x # NoTable /\ x.d_size % Word # 0
    \/ lib = "elfutils" /\ out'.kind = "AUXV" /\ out'.at = -1
InBounds == [][InBoundsStep]_vars

(***************************************************************************)
(* An update that elfutils refuses has changed nothing: all its checks     *)
(* come before its first assignment (gelf_update_sym.c:60 and the others). *)
(* One that changed the entries has marked the section, so that            *)
(* elf_update() writes it (gelf_update_sym.c:109).  elftoolchain stops in  *)
(* the middle (LIBELF_COPY_U32 in _libelf.h:175).                          *)
(***************************************************************************)
RefusalKeepsStep ==
  lib = "elfutils" =>
    /\ out'.op \in {"update", "updatex"} /\ ~Accepted(out') => UNCHANGED <<d, x>>
    /\ d'.d_buf # d.d_buf => d'.dirty
RefusalKeeps == [][RefusalKeepsStep]_vars

\* The entries beside the one at i: whole records that do not overlap it.
Beside(k, i) ==
  IF k \in Versions THEN {}
  ELSE {j \in 0..d.d_size \div sizeof(k, d.class) - 1 : j # i}

(***************************************************************************)
(* What an update accepted is what the next get at that place returns, and *)
(* the other entries are as before.  Not so for a symbol index that is too *)
(* large for a 32-bit relocation in elftoolchain (gelf_rel.c:143), and for *)
(* version records at offsets that only the update takes.                  *)
(***************************************************************************)
ReadsBackStep ==
  out'.op = "update" /\ Accepted(out') =>
    LET k == out'.kind
        i == out'.at IN
    /\ \/ Gets(k, d', i).val = out'.v
       \/ k \in Versions /\ Gets(k, d', i).err = "OFFSET_RANGE"
       \/ /\ lib = "elftoolchain" /\ IsRel(k, d.class)
          /\ ~NarrowInfo(out'.v.r_info)
    /\ \A j \in Beside(k, i) : Gets(k, d', j) = [Gets(k, d, j) EXCEPT !.d = d']
ReadsBack == [][ReadsBackStep]_vars

(***************************************************************************)
(* The two libraries read the same entries out of the same buffer, and     *)
(* accept the same updates with the same effect, for the types they both   *)
(* know.  Apart from move entries, which elfutils cannot read, and the     *)
(* relocation of ReadsBack.                                                *)
(***************************************************************************)
Agree ==
  \A k \in Both \ {"MOVE"} : Sane(k) =>
    \A i \in Places :
      /\ TcGets(k, d, i).val = EuGets(k, d, i).val
      /\ \A v \in Values(k, d.class) :
           LET t == TcUpdates(k, d, i, v)
               e == EuUpdates(k, d, i, v) IN
           \/ /\ Accepted(t) <=> Accepted(e)
              /\ Accepted(e) => t.d.d_buf = e.d.d_buf
           \/ IsRel(k, d.class) /\ ~NarrowInfo(v.r_info)
=============================================================================

--------------------------- MODULE EntriesProofs ---------------------------
(***************************************************************************)
(* Proofs about Entries: for any tables, values, indices and offsets, and  *)
(* any number of calls, an access stays in the buffer, a refusal of        *)
(* elfutils changes nothing, what was stored is what is read, and the two  *)
(* libraries agree.                                                        *)
(***************************************************************************)
EXTENDS Entries, TLAPS

-----------------------------------------------------------------------------
(* The buffer.                                                             *)

\* The sizes there are.
LEMMA SizeRange ==
  ASSUME NEW k \in DOMAIN Sizes, NEW c \in Classes
  PROVE  sizeof(k, c) \in {2, 4, 8, 12, 16, 20, 24, 32}
  BY DEF sizeof, Sizes, Classes

\* What storing a record leaves of a data descriptor.
LEMMA StoreKeeps ==
  ASSUME NEW d0, DataOK(d0), NEW k \in DOMAIN Sizes, NEW base \in Int,
         NEW v, DOMAIN v \subseteq Fields[k]
  PROVE  LET e == StoreAll(d0, k, base, v) IN
         /\ DataOK(e)
         /\ e.class = d0.class /\ e.shtype = d0.shtype /\ e.d_type = d0.d_type
         /\ e.d_size = d0.d_size /\ e.dirty = d0.dirty
  <1> DEFINE kept == {o \in DOMAIN d0.d_buf :
                        \/ o + sizeof(d0.d_buf[o].kind, d0.class) <= base
                        \/ base + sizeof(k, d0.class) <= o}
             buf == [o \in kept \cup {base} |->
                       IF o = base THEN [kind |-> k, val |-> v] ELSE d0.d_buf[o]]
             e == StoreAll(d0, k, base, v)
  <1>1. e = [class |-> d0.class, shtype |-> d0.shtype, d_type |-> d0.d_type,
             d_size |-> d0.d_size, dirty |-> d0.dirty, d_buf |-> buf]
    BY DEF StoreAll, DataOK
  <1>2. \A o \in DOMAIN buf : /\ o \in Int /\ buf[o].kind \in DOMAIN Sizes
                              /\ DOMAIN buf[o].val \subseteq Fields[buf[o].kind]
    BY DEF DataOK
  <1> HIDE DEF buf, e
  <1>3. QED  BY <1>1, <1>2 DEF DataOK, e

\* What was stored is there.
LEMMA LoadStored ==
  ASSUME NEW d0, DataOK(d0), NEW k, NEW base, NEW v
  PROVE  Load(StoreAll(d0, k, base, v), k, base) = v
  <1>1. StoreAll(d0, k, base, v).d_buf
          = [o \in {o \in DOMAIN d0.d_buf :
                      \/ o + sizeof(d0.d_buf[o].kind, d0.class) <= base
                      \/ base + sizeof(k, d0.class) <= o} \cup {base} |->
               IF o = base THEN [kind |-> k, val |-> v] ELSE d0.d_buf[o]]
    BY DEF StoreAll, DataOK
  <1>2. QED  BY <1>1 DEF Load

\* A record of the same type that does not overlap the new one is as before.
LEMMA LoadBeside ==
  ASSUME NEW d0, DataOK(d0), NEW k \in DOMAIN Sizes, NEW base \in Int, NEW v,
         NEW at \in Int,
         at + sizeof(k, d0.class) <= base \/ base + sizeof(k, d0.class) <= at
  PROVE  Load(StoreAll(d0, k, base, v), k, at) = Load(d0, k, at)
  <1>1. StoreAll(d0, k, base, v).d_buf
          = [o \in {o \in DOMAIN d0.d_buf :
                      \/ o + sizeof(d0.d_buf[o].kind, d0.class) <= base
                      \/ base + sizeof(k, d0.class) <= o} \cup {base} |->
               IF o = base THEN [kind |-> k, val |-> v] ELSE d0.d_buf[o]]
    BY DEF StoreAll, DataOK
  <1>2. sizeof(k, d0.class) \in {2, 4, 8, 12, 16, 20, 24, 32}
    BY SizeRange DEF DataOK
  <1>3. at # base
    BY <1>2
  <1>4. QED  BY <1>1, <1>2, <1>3 DEF Load

\* The mark leaves the records alone.
LEMMA MarkKeeps ==
  ASSUME NEW d0, DataOK(d0), NEW b
  PROVE  LET e == [d0 EXCEPT !.dirty = b] IN
         /\ DataOK(e) /\ e.dirty = b /\ e.d_buf = d0.d_buf
         /\ e.class = d0.class /\ e.shtype = d0.shtype /\ e.d_type = d0.d_type
         /\ e.d_size = d0.d_size
         /\ \A k, at : Load(e, k, at) = Load(d0, k, at)
  <1> DEFINE e == [d0 EXCEPT !.dirty = b]
  <1>1. e = [class |-> d0.class, shtype |-> d0.shtype, d_type |-> d0.d_type,
             d_size |-> d0.d_size, dirty |-> b, d_buf |-> d0.d_buf]
    BY DEF DataOK
  <1> HIDE DEF e
  <1>2. QED  BY <1>1 DEF DataOK, Load, e

-----------------------------------------------------------------------------
(* Indices.                                                                *)

\* As an unsigned int, an index is itself or larger than half of them.
LEMMA Unsigned ==
  ASSUME NEW n \in Int, -32768 <= n, n <= 32768
  PROVE  /\ n >= 0 => UInt(n) = n
         /\ n < 0 => UInt(n) >= 32768
         /\ UInt(n) \in Nat
  BY DEF UInt, UINT_MAX

\* Entries at different indices do not overlap.
LEMMA Apart ==
  ASSUME NEW i \in Int, NEW j \in Int, NEW s \in Nat, i < j
  PROVE  i * s + s <= j * s
  <1>1. (j - i - 1) * s >= 0
    <2> j - i - 1 \in Nat  OBVIOUS
    <2> QED  OBVIOUS
  <1>2. (j - i - 1) * s = j * s - i * s - s  OBVIOUS
  <1>3. j * s \in Int /\ i * s \in Int  OBVIOUS
  <1>4. QED  BY <1>1, <1>2, <1>3
\* The number of whole entries, without the division.
LEMMA Whole ==
  ASSUME NEW n \in Nat, NEW i \in Nat, NEW s \in {2, 4, 8, 12, 16, 20, 24, 32}
  PROVE  /\ n \div s <= i <=> i * s + s > n
         /\ i * s \in Nat
  <1>1. CASE s = 2   BY <1>1
  <1>2. CASE s = 4   BY <1>2
  <1>3. CASE s = 8   BY <1>3
  <1>4. CASE s = 12  BY <1>4
  <1>5. CASE s = 16  BY <1>5
  <1>6. CASE s = 20  BY <1>6
  <1>7. CASE s = 24  BY <1>7
  <1>8. CASE s = 32  BY <1>8
  <1>9. QED  BY <1>1, <1>2, <1>3, <1>4, <1>5, <1>6, <1>7, <1>8

\* The test of elfutils finds the whole entries of the buffer, and no others.
LEMMA ValidIndex ==
  ASSUME NEW d0, DataOK(d0), NEW k \in DOMAIN Sizes, NEW c \in Classes,
         NEW i, IsInt(i)
  PROVE  LET s == sizeof(k, c) IN
         ~INVALID_NDX(d0, i, k, c) <=> i >= 0 /\ Inside(d0, i * s, s)
  <1> DEFINE s == sizeof(k, c)
  <1>1. s \in {2, 4, 8, 12, 16, 20, 24, 32}
    BY SizeRange
  <1>2. i \in Int /\ d0.d_size \in Nat /\ d0.d_size <= 65535
    BY DEF DataOK, IsInt, UINT_MAX
  <1>3. CASE i >= 0
    <2>1. UInt(i) = i
      BY <1>3, Unsigned DEF IsInt
    <2> HIDE DEF s
    <2>2. d0.d_size \div s <= i <=> i * s + s > d0.d_size
      BY <1>1, <1>2, <1>3, Whole
    <2>3. i * s \in Nat
      BY <1>1, <1>2, <1>3, Whole
    <2>4. QED  BY <1>1, <1>2, <1>3, <2>1, <2>2, <2>3 DEF INVALID_NDX, Inside, s
  <1>4. CASE i < 0
    <2>1. UInt(i) >= 32768 /\ UInt(i) \in Nat
      BY <1>4, Unsigned DEF IsInt
    <2> HIDE DEF s
    <2>2. d0.d_size \div s <= 32768 <=> 32768 * s + s > d0.d_size
      BY <1>1, <1>2, Whole
    <2>3. 32768 * s + s > d0.d_size /\ d0.d_size \div s \in Int
      BY <1>1, <1>2
    <2>4. QED  BY <1>2, <1>4, <2>1, <2>2, <2>3 DEF INVALID_NDX, s
  <1>5. QED  BY <1>2, <1>3, <1>4

\* The older form of the test lets -1 pass, and nothing else outside.
LEMMA OlderTest ==
  ASSUME NEW d0, DataOK(d0), NEW i, IsInt(i), NEW s \in {2, 4, 8, 12, 16, 20, 24, 32}
  PROVE  /\ i >= 0 => (~PastEnd(d0, i, s) <=> Inside(d0, i * s, s))
         /\ i < -1 => PastEnd(d0, i, s)
         /\ i = -1 => ~PastEnd(d0, i, s)
  <1>1. i \in Int /\ d0.d_size \in Nat /\ d0.d_size <= 65535
    BY DEF DataOK, IsInt, UINT_MAX
  <1>2. CASE i >= 0
    <2>1. UInt(i + 1) = i + 1
      BY <1>1, <1>2, Unsigned DEF IsInt
    <2>2. (i + 1) * s = i * s + s /\ i * s \in Nat
      BY <1>1, <1>2
    <2>3. QED  BY <1>1, <1>2, <2>1, <2>2 DEF PastEnd, Inside
  <1>3. CASE i < -1
    <2>1. UInt(i + 1) >= 32768 /\ UInt(i + 1) \in Nat
      BY <1>1, <1>3, Unsigned DEF IsInt
    <2>2. UInt(i + 1) * s > d0.d_size
      BY <1>1, <2>1
    <2>3. QED  BY <1>1, <1>3, <2>2 DEF PastEnd
  <1>4. CASE i = -1
    <2>1. UInt(i + 1) = 0
      BY <1>4, Unsigned
    <2>2. QED  BY <1>1, <1>4, <2>1 DEF PastEnd
  <1>5. QED  BY <1>1, <1>2, <1>3, <1>4

-----------------------------------------------------------------------------
(* What the accessors of elfutils do.                                      *)

\* Where an entry is, what of a value is kept there and what is shown of it.
Base(k, i, c) == IF k \in Versions THEN i ELSE i * sizeof(k, c)
Kept(k, c, v) == IF IsRel(k, c) THEN [v EXCEPT !.r_info = ToRel32(v)] ELSE v
Shown(k, c, v) ==
  IF IsRel(k, c) /\ v # Garbage THEN [v EXCEPT !.r_info = FromRel32(v)] ELSE v

There(d0, k, i) ==
  /\ k \notin Versions => i >= 0
  /\ Inside(d0, Base(k, i, d0.class), sizeof(k, d0.class))
TypeOf(k) == CASE k = "VDAUX" -> "VDEF" [] k = "VNAUX" -> "VNEED" [] OTHER -> k
Accessible(d0, k, i) == d0.d_type = TypeOf(k) /\ There(d0, k, i) /\ k # "MOVE"

Stored(d0, k, i, v) ==
  [StoreAll(d0, k, Base(k, i, d0.class), Kept(k, d0.class, v)) EXCEPT !.dirty = TRUE]
Entry(d0, k, i) == Shown(k, d0.class, Load(d0, k, Base(k, i, d0.class)))
Refusals == {"INVALID_HANDLE", "INVALID_INDEX", "OFFSET_RANGE", "DATA_MISMATCH",
             "INVALID_DATA", "assert", "ARGUMENT", "RANGE"}

OneForm == Versions \cup {"SYMINFO", "LIB", "HALF"}
LEMMA SameSize ==
  ASSUME NEW k \in OneForm, NEW c \in Classes
  PROVE  sizeof(k, c) = sizeof(k, 64) /\ ~IsRel(k, c)
  BY DEF OneForm, Versions, sizeof, Sizes, Classes, IsRel

LEMMA KindsKnown ==
  /\ Eu \cup Versions \subseteq DOMAIN Sizes /\ Tc \subseteq DOMAIN Sizes
  /\ \A k \in DOMAIN Sizes : k \in DOMAIN Fields
  BY DEF Eu, Tc, Both, Versions, Sizes, Fields

\* An update of elfutils, in one form for all types.
EuDoes(r, d0, k, i, v) ==
  \/ /\ Accessible(d0, k, i) /\ (d0.class = 32 => Fits(k, v))
     /\ r = Got(v, Stored(d0, k, i, v))
  \/ /\ ~Accessible(d0, k, i) \/ ~(d0.class = 32 => Fits(k, v))
     /\ r.err \in Refusals /\ r.d = d0

LEMMA PutThere ==
  ASSUME NEW d0, DataOK(d0), NEW k \in Eu \cup Versions, NEW i, NEW v, There(d0, k, i)
  PROVE  PutAt(d0, k, d0.class, Base(k, i, d0.class), v) = Got(v, Stored(d0, k, i, v))
  BY DEF PutAt, There, Stored, Kept

LEMMA GetThere ==
  ASSUME NEW d0, DataOK(d0), NEW k \in Eu \cup Versions, NEW i, There(d0, k, i)
  PROVE  GetAt(d0, k, d0.class, Base(k, i, d0.class)) = Got(Entry(d0, k, i), d0)
  BY DEF GetAt, There, Entry, Shown

\* The class does not matter where the two forms are the same.
LEMMA AnyClass ==
  ASSUME NEW d0, DataOK(d0), NEW k \in OneForm, NEW base, NEW v
  PROVE  /\ PutAt(d0, k, 64, base, v) = PutAt(d0, k, d0.class, base, v)
         /\ GetAt(d0, k, 64, base) = GetAt(d0, k, d0.class, base)
  <1>1. d0.class \in Classes /\ 64 \in Classes
    BY DEF DataOK, Classes
  <1>2. QED  BY <1>1, SameSize DEF PutAt, GetAt

\* EuUpdate() with a test that finds the entries of the buffer.
LEMMA UpdateIs ==
  ASSUME NEW d0, DataOK(d0), NEW k \in Eu \ {"MOVE"}, NEW i, NEW v, NEW invalid \in BOOLEAN,
         ~invalid <=> There(d0, k, i)
  PROVE  EuDoes(EuUpdate(d0, i, k, invalid, v), d0, k, i, v)
  <1>1. k \notin Versions /\ TypeOf(k) = k /\ Base(k, i, d0.class) = i * sizeof(k, d0.class)
    BY DEF Eu, Both, Versions, TypeOf, Base
  <1>2. There(d0, k, i) =>
          PutAt(d0, k, d0.class, i * sizeof(k, d0.class), v) = Got(v, Stored(d0, k, i, v))
    BY <1>1, PutThere
  <1>3. QED  BY <1>1, <1>2 DEF EuUpdate, EuDoes, Accessible, Fail, Refusals
\* The tests by index.
LEMMA IndexTest ==
  ASSUME NEW d0, DataOK(d0), NEW k \in Eu, NEW i, IsInt(i)
  PROVE  /\ ~INVALID_NDX(d0, i, k, d0.class) <=> There(d0, k, i)
         /\ k \in OneForm => (~INVALID_NDX(d0, i, k, 64) <=> There(d0, k, i))
  <1>1. k \notin Versions /\ k \in DOMAIN Sizes
    BY KindsKnown DEF Eu, Both, Versions
  <1>2. d0.class \in Classes
    BY DEF DataOK
  <1>3. ~INVALID_NDX(d0, i, k, d0.class) <=> There(d0, k, i)
    BY <1>1, <1>2, ValidIndex DEF There, Base
  <1>4. k \in OneForm => sizeof(k, d0.class) = sizeof(k, 64)
    BY <1>2, SameSize
  <1>5. QED  BY <1>3, <1>4 DEF INVALID_NDX

LEMMA OffsetTest ==
  ASSUME NEW d0, DataOK(d0), NEW k \in Versions, NEW i, IsInt(i)
  PROVE  /\ ~(i < 0 \/ i + sizeof(k, 64) > d0.d_size) <=> There(d0, k, i)
         /\ Base(k, i, d0.class) = i
  <1>1. sizeof(k, d0.class) = sizeof(k, 64) /\ sizeof(k, 64) \in Int
    BY SameSize, SizeRange, KindsKnown DEF DataOK, OneForm, Classes
  <1>2. i \in Int /\ d0.d_size \in Int
    BY DEF DataOK, IsInt
  <1>3. QED  BY <1>1, <1>2 DEF There, Base, Inside

\* PutVersion() for any of the version records.
LEMMA PutVersionIs ==
  ASSUME NEW d0, DataOK(d0), NEW k \in Versions, NEW i, IsInt(i), NEW v
  PROVE  EuDoes(PutVersion(d0, i, TypeOf(k), k, v), d0, k, i, v)
  <1>1. There(d0, k, i) => PutAt(d0, k, 64, i, v) = Got(v, Stored(d0, k, i, v))
    BY PutThere, AnyClass, OffsetTest DEF OneForm
  <1>2. Fits(k, v) /\ k # "MOVE"
    BY DEF Fits, Versions
  <1> DEFINE out_of_range == i < 0 \/ i + sizeof(k, 64) > d0.d_size
  <1>3. ~out_of_range <=> There(d0, k, i)
    BY OffsetTest
  <1>4. PutVersion(d0, i, TypeOf(k), k, v)
          = CASE out_of_range -> Fail("INVALID_INDEX", d0)
              [] ~out_of_range /\ d0.d_type # TypeOf(k) -> Fail("DATA_MISMATCH", d0)
              [] OTHER -> PutAt(d0, k, 64, i, v)
    BY DEF PutVersion
  <1> HIDE DEF out_of_range
  <1>5. QED  BY <1>1, <1>2, <1>3, <1>4 DEF EuDoes, Accessible, Fail, Refusals

LEMMA IndexFirstIs ==
  ASSUME NEW d0, DataOK(d0), NEW i, IsInt(i), NEW v
  PROVE  EuDoes(IndexFirst(d0, i, "HALF", v), d0, "HALF", i, v)
  <1>1. "HALF" \in Eu /\ "HALF" \in OneForm /\ "HALF" \notin Versions
    BY DEF Eu, OneForm, Versions
  <1>2. ~INVALID_NDX(d0, i, "HALF", 64) <=> There(d0, "HALF", i)
    BY <1>1, IndexTest
  <1>3. Fits("HALF", v) /\ TypeOf("HALF") = "HALF"
    BY DEF Fits, TypeOf
  <1>4. There(d0, "HALF", i) =>
          PutAt(d0, "HALF", 64, i * sizeof("HALF", 64), v) = Got(v, Stored(d0, "HALF", i, v))
    BY <1>1, PutThere, AnyClass, SameSize DEF Base, DataOK
  <1>5. QED  BY <1>2, <1>3, <1>4 DEF IndexFirst, EuDoes, Accessible, Fail, Refusals

\* Every update of elfutils: it stores the entry and marks the section, or
\* it says what is wrong and changes nothing.
LEMMA EuUpdated ==
  ASSUME NEW d0, DataOK(d0), NEW k \in Eu \cup Versions, NEW i, IsInt(i), NEW v
  PROVE  EuDoes(EuUpdates(k, d0, i, v), d0, k, i, v)
  <1>1. CASE k \in {"SYM", "REL", "RELA", "DYN"}
    <2>1. EuUpdates(k, d0, i, v) = EuUpdate(d0, i, k, INVALID_NDX(d0, i, k, d0.class), v)
      BY <1>1 DEF EuUpdates, Eu_update_sym, Eu_update_rel, Eu_update_rela, Eu_update_dyn
    <2>2. INVALID_NDX(d0, i, k, d0.class) \in BOOLEAN
      BY DEF INVALID_NDX
    <2>3. QED  BY <1>1, <2>1, <2>2, IndexTest, UpdateIs DEF Eu, Both
  <1>2. CASE k \in {"SYMINFO", "LIB"}
    <2>1. EuUpdates(k, d0, i, v) = EuUpdate(d0, i, k, INVALID_NDX(d0, i, k, 64), v)
      BY <1>2 DEF EuUpdates, Eu_update_syminfo, Eu_update_lib
    <2>2. INVALID_NDX(d0, i, k, 64) \in BOOLEAN
      BY DEF INVALID_NDX
    <2>3. QED  BY <1>2, <2>1, <2>2, IndexTest, UpdateIs DEF Eu, Both, OneForm
  <1>3. CASE k = "AUXV"
    <2> DEFINE invalid == PastEnd(d0, i, sizeof("AUXV", d0.class))
    <2>1. /\ i < 0 => EuUpdates(k, d0, i, v) = Fail("INVALID_INDEX", d0)
          /\ ~(i < 0) => EuUpdates(k, d0, i, v) = EuUpdate(d0, i, "AUXV", invalid, v)
      BY <1>3 DEF EuUpdates, Eu_update_auxv
    <2>2. k \notin Versions /\ i \in Int /\ invalid \in BOOLEAN
      BY <1>3 DEF Versions, IsInt, PastEnd
    <2>3. i >= 0 => (~invalid <=> There(d0, k, i))
      BY <1>3, <2>2, OlderTest, SizeRange, KindsKnown DEF There, Base, DataOK
    <2> HIDE DEF invalid
    <2>4. CASE i < 0
      <3>1. ~There(d0, k, i)
        BY <2>2, <2>4 DEF There
      <3>2. QED  BY <2>1, <2>4, <3>1 DEF EuDoes, Accessible, Fail, Refusals
    <2>5. CASE ~(i < 0)
      <3>1. ~invalid <=> There(d0, "AUXV", i)
        BY <1>3, <2>2, <2>3, <2>5
      <3>2. "AUXV" \in Eu \ {"MOVE"}
        BY DEF Eu
      <3>3. QED  BY <1>3, <2>1, <2>2, <2>5, <3>1, <3>2, UpdateIs
    <2>6. QED  BY <2>4, <2>5
  <1>4. CASE k = "HALF"
    BY <1>4, IndexFirstIs DEF EuUpdates, Eu_update_versym
  <1>5. CASE k = "MOVE"
    <2>1. ~SameForm("MOVE")
      BY DEF SameForm, sizeof, Sizes
    <2>2. EuUpdates(k, d0, i, v) = Fail("assert", d0)
      BY <1>5, <2>1 DEF EuUpdates, Eu_update_move
    <2>3. QED  BY <1>5, <2>2 DEF EuDoes, Accessible, Fail, Refusals
  <1>6. CASE k \in Versions
    <2>1. EuUpdates(k, d0, i, v) = PutVersion(d0, i, TypeOf(k), k, v)
      BY <1>6 DEF Versions, TypeOf, EuUpdates, Eu_update_verdef, Eu_update_verdaux,
                  Eu_update_verneed, Eu_update_vernaux
    <2>2. QED  BY <1>6, <2>1, PutVersionIs
  <1>7. QED  BY <1>1, <1>2, <1>3, <1>4, <1>5, <1>6 DEF Eu, Both
\* A get of elfutils: the entry, or what is wrong.
EuTells(r, d0, k, i) ==
  \/ Accessible(d0, k, i) /\ r = Got(Entry(d0, k, i), d0)
  \/ Accessible(d0, k, i) /\ k \in Versions /\ r = Fail("OFFSET_RANGE", d0)
  \/ ~Accessible(d0, k, i) /\ \E e \in Refusals : r = Fail(e, d0)
  \/ ~Accessible(d0, k, i) /\ k = "AUXV" /\ i = -1 /\ r = Fail("bounds", d0)

LEMMA GetIs ==
  ASSUME NEW d0, DataOK(d0), NEW k \in Eu \ {"MOVE"}, NEW i, NEW invalid \in BOOLEAN,
         ~invalid <=> There(d0, k, i)
  PROVE  EuTells(EuGet(d0, i, k, invalid), d0, k, i)
  <1>1. k \notin Versions /\ TypeOf(k) = k /\ Base(k, i, d0.class) = i * sizeof(k, d0.class)
    BY DEF Eu, Both, Versions, TypeOf, Base
  <1>2. There(d0, k, i) =>
          GetAt(d0, k, d0.class, i * sizeof(k, d0.class)) = Got(Entry(d0, k, i), d0)
    BY <1>1, GetThere
  <1>3. {"INVALID_HANDLE", "INVALID_INDEX"} \subseteq Refusals
    BY DEF Refusals
  <1>4. QED  BY <1>1, <1>2, <1>3 DEF EuGet, EuTells, Accessible

LEMMA GetVersionIs ==
  ASSUME NEW d0, DataOK(d0), NEW k \in Versions, NEW i, IsInt(i), NEW align
  PROVE  EuTells(GetVersion(d0, i, TypeOf(k), k, align), d0, k, i)
  <1> DEFINE out_of_range == i < 0 \/ i + sizeof(k, 64) > d0.d_size
             odd == i % align # 0
  <1>1. ~out_of_range <=> There(d0, k, i)
    BY OffsetTest
  <1>2. There(d0, k, i) => GetAt(d0, k, 64, i) = Got(Entry(d0, k, i), d0)
    BY GetThere, AnyClass, OffsetTest DEF OneForm
  <1>3. GetVersion(d0, i, TypeOf(k), k, align)
          = CASE d0.d_type # TypeOf(k) -> Fail("INVALID_HANDLE", d0)
              [] d0.d_type = TypeOf(k) /\ (out_of_range \/ odd) -> Fail("OFFSET_RANGE", d0)
              [] OTHER -> GetAt(d0, k, 64, i)
    BY DEF GetVersion
  <1>4. k # "MOVE" /\ {"INVALID_HANDLE", "OFFSET_RANGE"} \subseteq Refusals
    BY DEF Versions, Refusals
  <1> HIDE DEF out_of_range, odd
  <1>5. QED  BY <1>1, <1>2, <1>3, <1>4 DEF EuTells, Accessible

LEMMA EuGot ==
  ASSUME NEW d0, DataOK(d0), NEW k \in Eu \cup Versions, NEW i, IsInt(i)
  PROVE  EuTells(EuGets(k, d0, i), d0, k, i)
  <1>1. CASE k \in {"SYM", "REL", "RELA", "DYN"}
    <2>1. EuGets(k, d0, i) = EuGet(d0, i, k, INVALID_NDX(d0, i, k, d0.class))
      BY <1>1 DEF EuGets, Eu_getsym, Eu_getrel, Eu_getrela, Eu_getdyn
    <2>2. INVALID_NDX(d0, i, k, d0.class) \in BOOLEAN
      BY DEF INVALID_NDX
    <2>3. QED  BY <1>1, <2>1, <2>2, IndexTest, GetIs DEF Eu, Both
  <1>2. CASE k \in {"SYMINFO", "LIB", "HALF"}
    <2>1. EuGets(k, d0, i) = EuGet(d0, i, k, INVALID_NDX(d0, i, k, 64))
      BY <1>2 DEF EuGets, Eu_getsyminfo, Eu_getlib, Eu_getversym
    <2>2. INVALID_NDX(d0, i, k, 64) \in BOOLEAN
      BY DEF INVALID_NDX
    <2>3. QED  BY <1>2, <2>1, <2>2, IndexTest, GetIs DEF Eu, Both, OneForm
  <1>3. CASE k = "AUXV"
    <2> DEFINE invalid == PastEnd(d0, i, sizeof("AUXV", d0.class))
    <2>1. EuGets(k, d0, i) = EuGet(d0, i, "AUXV", invalid)
      BY <1>3 DEF EuGets, Eu_getauxv
    <2>2. k \notin Versions /\ i \in Int /\ invalid \in BOOLEAN /\ "AUXV" \in Eu \ {"MOVE"}
      BY <1>3 DEF Versions, IsInt, PastEnd, Eu
    <2>3. /\ i >= 0 => (~invalid <=> There(d0, k, i))
          /\ i < -1 => invalid
      BY <1>3, <2>2, OlderTest, SizeRange, KindsKnown DEF There, Base, DataOK
    <2>4. i < 0 => ~There(d0, k, i)
      BY <2>2 DEF There
    <2>5. CASE i # -1
      <3>1. ~invalid <=> There(d0, "AUXV", i)
        BY <1>3, <2>2, <2>3, <2>4, <2>5
      <3> HIDE DEF invalid
      <3>2. QED  BY <1>3, <2>1, <2>2, <3>1, GetIs
    <2>6. CASE i = -1
      <3>1. ~Inside(d0, i * sizeof("AUXV", d0.class), sizeof("AUXV", d0.class))
        BY <2>6, SizeRange, KindsKnown DEF DataOK, Inside, Eu
      <3>2. GetAt(d0, "AUXV", d0.class, i * sizeof("AUXV", d0.class)) = Fail("bounds", d0)
        BY <3>1 DEF GetAt
      <3>3. ~There(d0, k, i)
        BY <2>4, <2>6
      <3> HIDE DEF invalid
      <3>4. EuGets(k, d0, i) \in {Fail("INVALID_HANDLE", d0), Fail("INVALID_INDEX", d0),
                                 Fail("bounds", d0)}
        BY <2>1, <2>2, <3>2 DEF EuGet
      <3>5. {"INVALID_HANDLE", "INVALID_INDEX"} \subseteq Refusals
        BY DEF Refusals
      <3>6. QED  BY <1>3, <2>6, <3>3, <3>4, <3>5 DEF EuTells, Accessible
    <2>7. QED  BY <2>5, <2>6
  <1>4. CASE k = "MOVE"
    <2>1. ~SameForm("MOVE") /\ {"INVALID_HANDLE", "assert"} \subseteq Refusals
      BY DEF SameForm, sizeof, Sizes, Refusals
    <2>2. EuGets(k, d0, i) \in {Fail("INVALID_HANDLE", d0), Fail("assert", d0)}
      BY <1>4, <2>1 DEF EuGets, Eu_getmove
    <2>3. QED  BY <1>4, <2>1, <2>2 DEF EuTells, Accessible
  <1>5. CASE k \in Versions
    <2>1. \E align : EuGets(k, d0, i) = GetVersion(d0, i, TypeOf(k), k, align)
      BY <1>5 DEF Versions, TypeOf, EuGets, Eu_getverdef, Eu_getverdaux,
                  Eu_getverneed, Eu_getvernaux
    <2>2. QED  BY <1>5, <2>1, GetVersionIs
  <1>6. QED  BY <1>1, <1>2, <1>3, <1>4, <1>5 DEF Eu, Both

-----------------------------------------------------------------------------
(* What the accessors of elftoolchain do.                                  *)
TcAccessible(d0, k, i) ==
  d0.shtype = k /\ i >= 0 /\ Inside(d0, Base(k, i, d0.class), sizeof(k, d0.class))

TcStored(d0, k, i, v) == StoreAll(d0, k, Base(k, i, d0.class), Kept(k, d0.class, v))

\* Every assignment of the update is made.
AllInRange(k, v) == \A n \in DOMAIN Steps[k] : InRange(Steps[k][n], v)

\* The beginning of an entry that the buffer holds a part of.
Partial(d0, k) == d0.d_size % sizeof(k, d0.class) # 0

TcTells(r, d0, k, i) ==
  \/ TcAccessible(d0, k, i) /\ r = Got(Entry(d0, k, i), d0)
  \/ ~TcAccessible(d0, k, i) /\ r = Fail("ARGUMENT", d0)
  \/ ~TcAccessible(d0, k, i) /\ Partial(d0, k) /\ r = Fail("bounds", d0)

\* An update: after a refusal the fields before the wrong one are assigned.
TcDoes(r, d0, k, i, v) ==
  \/ /\ TcAccessible(d0, k, i) /\ (d0.class = 32 => AllInRange(k, v))
     /\ r = Got(v, TcStored(d0, k, i, v))
  \/ /\ TcAccessible(d0, k, i) /\ d0.class = 32 /\ ~AllInRange(k, v)
     /\ r.err = "RANGE" /\ DataOK(r.d)
     /\ r.d.class = d0.class /\ r.d.shtype = d0.shtype /\ r.d.d_type = d0.d_type
     /\ r.d.d_size = d0.d_size
  \/ ~TcAccessible(d0, k, i) /\ r = Fail("ARGUMENT", d0)
  \/ ~TcAccessible(d0, k, i) /\ Partial(d0, k) /\ r = Fail("bounds", d0)

LEMMA Multiple ==
  ASSUME NEW n \in Nat, NEW i \in Nat, NEW s \in {2, 4, 8, 12, 16, 20, 24, 32},
         i * s < n, i * s + s > n
  PROVE  n % s # 0
  <1>1. CASE s = 2   BY <1>1
  <1>2. CASE s = 4   BY <1>2
  <1>3. CASE s = 8   BY <1>3
  <1>4. CASE s = 12  BY <1>4
  <1>5. CASE s = 16  BY <1>5
  <1>6. CASE s = 20  BY <1>6
  <1>7. CASE s = 24  BY <1>7
  <1>8. CASE s = 32  BY <1>8
  <1>9. QED  BY <1>1, <1>2, <1>3, <1>4, <1>5, <1>6, <1>7, <1>8

LEMMA RefusedIs ==
  ASSUME NEW d0, DataOK(d0), NEW k \in Tc, NEW i, IsInt(i)
  PROVE  LET in == Inside(d0, i * sizeof(k, d0.class), sizeof(k, d0.class)) IN
         /\ Base(k, i, d0.class) = i * sizeof(k, d0.class)
         /\ TcAccessible(d0, k, i) <=> ~Refused(d0, i, k) /\ in
         /\ ~Refused(d0, i, k) /\ ~in => Partial(d0, k)
  <1> DEFINE s == sizeof(k, d0.class)
  <1>1. s \in {2, 4, 8, 12, 16, 20, 24, 32}
    BY SizeRange, KindsKnown DEF DataOK
  <1>2. i \in Int /\ d0.d_size \in Nat
    BY DEF IsInt, DataOK
  <1>3. Base(k, i, d0.class) = i * s
    BY DEF Base, Tc, Both, Versions
  <1> HIDE DEF s
  <1>4. i >= 0 => i * s \in Nat /\ s * i = i * s
    BY <1>1, <1>2
  <1>5. i >= 0 /\ i * s < d0.d_size /\ i * s + s > d0.d_size => d0.d_size % s # 0
    BY <1>1, <1>2, Multiple
  <1>6. QED
    BY <1>1, <1>2, <1>3, <1>4, <1>5 DEF s, TcAccessible, Refused, Inside, Partial
\* A get of elftoolchain.
LEMMA TcGot ==
  ASSUME NEW d0, DataOK(d0), NEW k \in Tc, NEW i, IsInt(i)
  PROVE  TcTells(TcGets(k, d0, i), d0, k, i)
  <1>1. TcGets(k, d0, i) = GetEntry(d0, i, k)
    BY DEF Tc, Both, TcGets, gelf_getsym, gelf_getrel, gelf_getrela, gelf_getdyn,
           gelf_getmove, gelf_getcap, gelf_getsyminfo
  <1> DEFINE base == i * sizeof(k, d0.class)
             in == Inside(d0, base, sizeof(k, d0.class))
  <1>2. /\ Base(k, i, d0.class) = base
        /\ TcAccessible(d0, k, i) <=> ~Refused(d0, i, k) /\ in
        /\ ~Refused(d0, i, k) /\ ~in => Partial(d0, k)
    BY RefusedIs
  <1>3. \A w : Widen(k, d0.class, w) = Shown(k, d0.class, w)
    BY DEF Widen, Shown, IsRel, FromRel32
  <1>4. GetEntry(d0, i, k)
          = CASE Refused(d0, i, k) -> Fail("ARGUMENT", d0)
              [] ~Refused(d0, i, k) /\ ~in -> Fail("bounds", d0)
              [] OTHER -> Got(Shown(k, d0.class, Load(d0, k, base)), d0)
    BY <1>3 DEF GetEntry
  <1> HIDE DEF base, in
  <1>5. QED  BY <1>1, <1>2, <1>4 DEF TcTells, Entry

\* The assignments of an update cover the fields, and the packed one is r_info.
LEMMA StepsCover ==
  ASSUME NEW k \in Tc
  PROVE  /\ \E n \in Nat : DOMAIN Steps[k] = 1..n
         /\ {Steps[k][n][2] : n \in DOMAIN Steps[k]} = Fields[k]
         /\ \A f : <<"INFO", f>> \in Range(Steps[k])
                     <=> k \in {"REL", "RELA"} /\ f = "r_info"
         /\ Fields[k] # {}
  <1>1. CASE k = "SYM"      BY <1>1 DEF Steps, Fields, Range
  <1>2. CASE k = "REL"      BY <1>2 DEF Steps, Fields, Range
  <1>3. CASE k = "RELA"     BY <1>3 DEF Steps, Fields, Range
  <1>4. CASE k = "DYN"      BY <1>4 DEF Steps, Fields, Range
  <1>5. CASE k = "MOVE"     BY <1>5 DEF Steps, Fields, Range
  <1>6. CASE k = "CAP"      BY <1>6 DEF Steps, Fields, Range
  <1>7. CASE k = "SYMINFO"  BY <1>7 DEF Steps, Fields, Range
  <1>8. QED  BY <1>1, <1>2, <1>3, <1>4, <1>5, <1>6, <1>7 DEF Tc, Both

\* An entry whose fields are assigned one after the other.
LEMMA FieldsStored ==
  ASSUME NEW d0, DataOK(d0), NEW k \in DOMAIN Sizes, NEW base \in Int,
         NEW w, DOMAIN w \subseteq Fields[k]
  PROVE  LET e == StoreFields(d0, k, base, w) IN
         /\ DataOK(e)
         /\ e.class = d0.class /\ e.shtype = d0.shtype /\ e.d_type = d0.d_type
         /\ e.d_size = d0.d_size
         /\ IsEntry(k, w) /\ Fields[k] # {} => e = StoreAll(d0, k, base, w)
  <1> DEFINE r == Load(d0, k, base)
             others == IF r = Garbage THEN {} ELSE DOMAIN r \ DOMAIN w
             u == [f \in others \cup DOMAIN w |-> IF f \in DOMAIN w THEN w[f] ELSE r[f]]
  <1>1. others \subseteq Fields[k]
    BY DEF Load, DataOK
  <1>2. StoreFields(d0, k, base, w)
          = IF DOMAIN w = {} THEN d0 ELSE StoreAll(d0, k, base, u)
    BY DEF StoreFields
  <1>3. DOMAIN u \subseteq Fields[k]
    BY <1>1
  <1>4. IsEntry(k, w) => u = w
    BY <1>1 DEF IsEntry
  <1> HIDE DEF u
  <1>5. QED  BY <1>2, <1>3, <1>4, StoreKeeps DEF IsEntry

\* An update of elftoolchain.
LEMMA TcUpdated ==
  ASSUME NEW d0, DataOK(d0), NEW k \in Tc, NEW i, IsInt(i),
         NEW v, IsEntry(k, v)
  PROVE  TcDoes(TcUpdates(k, d0, i, v), d0, k, i, v)
  <1>1. TcUpdates(k, d0, i, v) = UpdateEntry(d0, i, k, v)
    BY DEF Tc, Both, TcUpdates, gelf_update_sym, gelf_update_rel, gelf_update_rela,
           gelf_update_dyn, gelf_update_move, gelf_update_cap, gelf_update_syminfo
  <1> DEFINE base == i * sizeof(k, d0.class)
             in == Inside(d0, base, sizeof(k, d0.class))
             a == Assigned(Steps[k], v)
             all == Made(Steps[k], v) = DOMAIN Steps[k]
             e == StoreFields(d0, k, base, a)
  <1>2. /\ Base(k, i, d0.class) = base
        /\ TcAccessible(d0, k, i) <=> ~Refused(d0, i, k) /\ in
        /\ ~Refused(d0, i, k) /\ ~in => Partial(d0, k)
    BY RefusedIs
  <1>3. all <=> AllInRange(k, v)
    <2>1. PICK n \in Nat : DOMAIN Steps[k] = 1..n
      BY StepsCover
    <2>2. \A j \in 1..n : j \in 1..j /\ 1..j \subseteq 1..n
      OBVIOUS
    <2>3. Made(Steps[k], v) = {j \in 1..n : \A m \in 1..j : InRange(Steps[k][m], v)}
      BY <2>1 DEF Made
    <2>4. QED  BY <2>1, <2>2, <2>3 DEF AllInRange
  <1>4. DOMAIN a \subseteq Fields[k]
    <2>1. Made(Steps[k], v) \subseteq DOMAIN Steps[k]
      BY DEF Made
    <2>2. QED  BY <2>1, StepsCover DEF Assigned
  <1>5. all /\ d0.class = 32 => a = Kept(k, d0.class, v)
    <2>1. HAVE all /\ d0.class = 32
    <2>2. a = [f \in Fields[k] |->
                 IF k \in {"REL", "RELA"} /\ f = "r_info"
                 THEN ELF32_R_INFO(ELF64_R_SYM(v[f]), ELF64_R_TYPE(v[f])) ELSE v[f]]
      BY <2>1, StepsCover DEF Assigned
    <2>3. QED  BY <2>1, <2>2 DEF IsEntry, Kept, IsRel, ToRel32
  <1>6. k \in DOMAIN Sizes /\ base \in Int
    BY KindsKnown, SizeRange DEF DataOK, IsInt
  <1>7. /\ DataOK(e)
        /\ e.class = d0.class /\ e.shtype = d0.shtype /\ e.d_type = d0.d_type
        /\ e.d_size = d0.d_size
        /\ IsEntry(k, a) => e = StoreAll(d0, k, base, a)
    BY <1>4, <1>6, FieldsStored, StepsCover
  <1>8. IsEntry(k, Kept(k, d0.class, v))
    BY DEF Kept, IsEntry
  <1>9. d0.class \in {32, 64} /\ (d0.class = 64 => Kept(k, d0.class, v) = v)
    BY DEF DataOK, Classes, Kept, IsRel
  <1>10. UpdateEntry(d0, i, k, v)
          = CASE Refused(d0, i, k) -> Fail("ARGUMENT", d0)
              [] ~Refused(d0, i, k) /\ ~in -> Fail("bounds", d0)
              [] OTHER -> IF d0.class = 64 THEN Got(v, StoreAll(d0, k, base, v))
                          ELSE [val |-> v, err |-> IF all THEN "" ELSE "RANGE", d |-> e]
    BY DEF UpdateEntry
  <1> HIDE DEF base, in, a, all, e
  <1>11. CASE TcAccessible(d0, k, i) /\ d0.class = 64
    BY <1>1, <1>2, <1>9, <1>10, <1>11 DEF TcDoes, TcStored
  <1>12. CASE TcAccessible(d0, k, i) /\ d0.class = 32 /\ all
    <2>1. e = TcStored(d0, k, i, v)
      BY <1>2, <1>5, <1>7, <1>8, <1>12 DEF TcStored
    <2>2. UpdateEntry(d0, i, k, v) = Got(v, e)
      <3>1. ~Refused(d0, i, k) /\ in /\ d0.class # 64 /\ all
        BY <1>2, <1>12
      <3>2. UpdateEntry(d0, i, k, v) = [val |-> v, err |-> "", d |-> e]
        BY <1>10, <3>1
      <3>3. QED  BY <3>2 DEF Got
    <2>3. QED  BY <1>1, <1>3, <1>12, <2>1, <2>2 DEF TcDoes
  <1>13. CASE TcAccessible(d0, k, i) /\ d0.class = 32 /\ ~all
    BY <1>1, <1>2, <1>3, <1>7, <1>10, <1>13 DEF TcDoes
  <1>14. CASE ~TcAccessible(d0, k, i)
    BY <1>1, <1>2, <1>10, <1>14 DEF TcDoes
  <1>15. QED  BY <1>9, <1>11, <1>12, <1>13, <1>14
-----------------------------------------------------------------------------
(* What was stored.                                                        *)

\* Places of two entries of a type.
Disjoint(d0, k, at, base) ==
  at + sizeof(k, d0.class) <= base \/ base + sizeof(k, d0.class) <= at

\* e is d0 with v stored in its form at place i.
StoresTo(e, d0, k, i, v) ==
  /\ DataOK(e)
  /\ e.class = d0.class /\ e.shtype = d0.shtype /\ e.d_type = d0.d_type
  /\ e.d_size = d0.d_size
  /\ Load(e, k, Base(k, i, d0.class)) = Kept(k, d0.class, v)
  /\ \A at \in Int :
       Disjoint(d0, k, at, Base(k, i, d0.class)) => Load(e, k, at) = Load(d0, k, at)

\* The descriptor after an entry was stored, with and without the mark.
LEMMA StoredIs ==
  ASSUME NEW d0, DataOK(d0), NEW k \in DOMAIN Sizes, NEW i \in Int,
         NEW v, IsEntry(k, v),
         NEW e, e = Stored(d0, k, i, v) \/ e = TcStored(d0, k, i, v)
  PROVE  StoresTo(e, d0, k, i, v) /\ (e = Stored(d0, k, i, v) => e.dirty)
  <1> DEFINE base == Base(k, i, d0.class)
             w == Kept(k, d0.class, v)
             t == StoreAll(d0, k, base, w)
  <1>1. base \in Int
    BY SizeRange DEF Base, DataOK
  <1>2. DOMAIN w = Fields[k]
    BY DEF Kept, IsEntry
  <1>3. /\ DataOK(t)
        /\ t.class = d0.class /\ t.shtype = d0.shtype /\ t.d_type = d0.d_type
        /\ t.d_size = d0.d_size
    <2> HIDE DEF base, w
    <2>1. QED  BY <1>1, <1>2, StoreKeeps
  <1>4. Load(t, k, base) = w
    BY LoadStored
  <1>5. \A at \in Int :
          Disjoint(d0, k, at, base) => Load(t, k, at) = Load(d0, k, at)
    <2> HIDE DEF base, w
    <2>1. QED  BY <1>1, LoadBeside DEF Disjoint
  <1>6. e \in {t, [t EXCEPT !.dirty = TRUE]} /\ (e = Stored(d0, k, i, v) => e = [t EXCEPT !.dirty = TRUE])
    BY DEF Stored, TcStored
  <1> HIDE DEF base, w, t
  <1>7. CASE e = t /\ e # [t EXCEPT !.dirty = TRUE]
    BY <1>3, <1>4, <1>5, <1>6, <1>7 DEF base, w, StoresTo
  <1>8. CASE e = [t EXCEPT !.dirty = TRUE]
    <2>1. /\ DataOK(e) /\ e.dirty = TRUE
          /\ e.class = t.class /\ e.shtype = t.shtype /\ e.d_type = t.d_type
          /\ e.d_size = t.d_size
          /\ \A at : Load(e, k, at) = Load(t, k, at)
      BY <1>3, <1>8, MarkKeeps
    <2>2. QED  BY <1>3, <1>4, <1>5, <2>1 DEF base, w, StoresTo
  <1>9. QED  BY <1>6, <1>7, <1>8

\* Packing and unpacking the symbol and the type of a relocation.
LEMMA PackedInfo ==
  ASSUME NEW n \in Nat, NarrowInfo(n)
  PROVE  LET p == ELF32_R_INFO(ELF64_R_SYM(n), ELF64_R_TYPE(n)) IN
         ELF64_R_INFO(ELF32_R_SYM(p), ELF32_R_TYPE(p)) = n
  <1> DEFINE s == n \div 4
             t == n % 4
  <1>1. s \in {0, 1} /\ t \in {0, 1} /\ n = s * 4 + t
    BY DEF NarrowInfo, ELF64_R_SYM, ELF64_R_TYPE
  <1> HIDE DEF s, t
  <1>2. ELF32_R_INFO(s, t) = s * 2 + t
    BY <1>1 DEF ELF32_R_INFO, UINT32_MAX
  <1>3. (s * 2 + t) \div 2 = s /\ (s * 2 + t) % 2 = t
    BY <1>1
  <1>4. ELF64_R_INFO(s, t) = n
    BY <1>1 DEF ELF64_R_INFO
  <1>5. QED
    BY <1>2, <1>3, <1>4 DEF ELF64_R_SYM, ELF64_R_TYPE, ELF32_R_SYM, ELF32_R_TYPE, s, t

LEMMA ShownKept ==
  ASSUME NEW k \in DOMAIN Sizes, NEW c, NEW v, IsEntry(k, v),
         IsRel(k, c) => v.r_info \in Nat /\ NarrowInfo(v.r_info)
  PROVE  Shown(k, c, Kept(k, c, v)) = v
  <1>1. CASE ~IsRel(k, c)
    BY <1>1 DEF Shown, Kept
  <1>2. CASE IsRel(k, c)
    <2> DEFINE w == [v EXCEPT !.r_info = ToRel32(v)]
    <2>1. "r_info" \in Fields[k]
      BY <1>2 DEF IsRel, Fields
    <2>2. w.r_info = ToRel32(v) /\ w # Garbage
      BY <2>1 DEF Garbage, IsEntry
    <2>3. FromRel32(w) = v.r_info
      BY <1>2, <2>2, PackedInfo DEF FromRel32, ToRel32
    <2>4. [w EXCEPT !.r_info = v.r_info] = v
      BY <2>1 DEF IsEntry
    <2>5. QED  BY <1>2, <2>2, <2>3, <2>4 DEF Shown, Kept
  <1>3. QED  BY <1>1, <1>2

\* The entries beside the one at i are whole, and do not overlap it.
LEMMA BesideApart ==
  ASSUME NEW d0, DataOK(d0), NEW k \in DOMAIN Sizes \ Versions, NEW i, IsInt(i), i >= 0,
         NEW j \in 0..d0.d_size \div sizeof(k, d0.class) - 1, j # i
  PROVE  /\ IsInt(j) /\ There(d0, k, j) /\ Base(k, j, d0.class) \in Int
         /\ Disjoint(d0, k, Base(k, j, d0.class), Base(k, i, d0.class))
  <1> DEFINE s == sizeof(k, d0.class)
  <1>1. s \in {2, 4, 8, 12, 16, 20, 24, 32}
    BY SizeRange DEF DataOK
  <1>2. d0.d_size \in Nat /\ d0.d_size <= 65535 /\ i \in Nat
    BY DEF DataOK, UINT_MAX, IsInt
  <1>3. Base(k, j, d0.class) = j * s /\ Base(k, i, d0.class) = i * s
    BY DEF Base
  <1>4. j \in 0..d0.d_size \div s - 1
    OBVIOUS
  <1> HIDE DEF s
  <1>5. j \in Nat /\ ~(d0.d_size \div s <= j)
    BY <1>1, <1>2, <1>4
  <1>6. j * s + s <= d0.d_size /\ j * s \in Nat /\ i * s \in Nat
    BY <1>1, <1>2, <1>5, Whole
  <1>7. j <= 32767
    BY <1>1, <1>2, <1>5, <1>6
  <1>8. j * s + s <= i * s \/ i * s + s <= j * s
    BY <1>1, <1>2, <1>5, Apart
  <1>9. QED  BY <1>1, <1>2, <1>3, <1>5, <1>6, <1>7, <1>8 DEF s, There, Inside, IsInt, Disjoint
\* What tells a call that went well from a refusal.
LEMMA Answers ==
  /\ \A v, d0 : /\ Accepted(Got(v, d0))
                /\ Got(v, d0).val = v /\ Got(v, d0).d = d0
  /\ \A v, d0, e : [Got(v, d0) EXCEPT !.d = e] = Got(v, e)
  /\ \A r : r.err \in Refusals \cup {"bounds"} => ~Accepted(r)
  /\ \A e, d0 : /\ Fail(e, d0).err = e /\ Fail(e, d0).d = d0
                /\ e \in Refusals \cup {"bounds"} => ~Accepted(Fail(e, d0))
  <1>0. \A v, w, d0 : LET r == [val |-> v, err |-> w, d |-> d0] IN
          /\ r.err = w /\ r.val = v /\ r.d = d0
          /\ \A e : [r EXCEPT !.d = e] = [val |-> v, err |-> w, d |-> e]
    OBVIOUS
  <1>1. \A v, d0 : /\ Got(v, d0).err = "" /\ Got(v, d0).val = v /\ Got(v, d0).d = d0
                  /\ \A e : [Got(v, d0) EXCEPT !.d = e] = Got(v, e)
    BY <1>0, Zenon DEF Got
  <1>2. \A e, d0 : Fail(e, d0).err = e /\ Fail(e, d0).d = d0
    BY DEF Fail
  <1>3. "" \notin Refusals \cup {"bounds"}
    BY DEF Refusals
  <1>4. /\ \A v, d0 : Accepted(Got(v, d0))
        /\ \A r : r.err \in Refusals \cup {"bounds"} => ~Accepted(r)
    BY <1>1, <1>3, Zenon DEF Accepted
  <1>5. \A e, d0 : e \in Refusals \cup {"bounds"} => ~Accepted(Fail(e, d0))
    BY <1>2, <1>4
  <1>6. QED  BY <1>1, <1>2, <1>4, <1>5

\* A descriptor with other records, as far as the accessors are concerned.
LEMMA SameAccess ==
  ASSUME NEW d0, NEW e, NEW k, NEW i,
         e.class = d0.class /\ e.shtype = d0.shtype /\ e.d_type = d0.d_type,
         e.d_size = d0.d_size
  PROVE  /\ Accessible(e, k, i) <=> Accessible(d0, k, i)
         /\ TcAccessible(e, k, i) <=> TcAccessible(d0, k, i)
         /\ There(e, k, i) <=> There(d0, k, i)
  BY DEF Accessible, TcAccessible, There, Inside

\* elfutils: what an update accepted is what the next get returns, and the
\* other entries are as before.
LEMMA EuReadsBack ==
  ASSUME NEW d0, DataOK(d0), NEW k \in Eu \cup Versions, NEW i, IsInt(i),
         NEW v, IsEntry(k, v),
         "r_info" \in Fields[k] => v.r_info \in Nat,
         NEW e, Accepted(EuUpdates(k, d0, i, v)), e = EuUpdates(k, d0, i, v).d
  PROVE  /\ \/ EuGets(k, e, i).val = v
            \/ k \in Versions /\ EuGets(k, e, i).err = "OFFSET_RANGE"
         /\ k \notin Versions =>
              \A j \in 0..d0.d_size \div sizeof(k, d0.class) - 1 : j # i =>
                EuGets(k, e, j) = [EuGets(k, d0, j) EXCEPT !.d = e]
  <1>2. /\ Accessible(d0, k, i) /\ (d0.class = 32 => Fits(k, v))
        /\ e = Stored(d0, k, i, v)
    BY Answers, EuUpdated DEF EuDoes
  <1>3. k \in DOMAIN Sizes /\ i \in Int /\ There(d0, k, i)
    BY <1>2, KindsKnown DEF IsInt, Accessible
  <1>4. /\ DataOK(e)
        /\ e.class = d0.class /\ e.shtype = d0.shtype /\ e.d_type = d0.d_type
        /\ e.d_size = d0.d_size
        /\ Load(e, k, Base(k, i, d0.class)) = Kept(k, d0.class, v)
        /\ \A at \in Int :
             Disjoint(d0, k, at, Base(k, i, d0.class)) => Load(e, k, at) = Load(d0, k, at)
    <2>1. StoresTo(e, d0, k, i, v)
      BY <1>2, <1>3, StoredIs
    <2>2. QED  BY <2>1 DEF StoresTo
  <1>5. Entry(e, k, i) = v
    <2>1. IsRel(k, d0.class) => "r_info" \in Fields[k] /\ NarrowInfo(v.r_info)
      BY <1>2 DEF IsRel, Fits, Fields
    <2>2. Shown(k, d0.class, Kept(k, d0.class, v)) = v
      BY <1>3, <2>1, ShownKept
    <2>3. QED  BY <1>4, <2>2 DEF Entry
  <1>6. Accessible(e, k, i)
    BY <1>2, <1>4, SameAccess
  <1>7. EuTells(EuGets(k, e, i), e, k, i)
    BY <1>4, EuGot
  <1>8. EuGets(k, e, i).val = v \/ (k \in Versions /\ EuGets(k, e, i).err = "OFFSET_RANGE")
    BY <1>5, <1>6, <1>7, Answers DEF EuTells
  <1>9. ASSUME k \notin Versions,
               NEW j \in 0..d0.d_size \div sizeof(k, d0.class) - 1, j # i
        PROVE  EuGets(k, e, j) = [EuGets(k, d0, j) EXCEPT !.d = e]
    <2>1. i >= 0
      BY <1>3, <1>9 DEF There
    <2>2. /\ IsInt(j) /\ There(d0, k, j) /\ Base(k, j, d0.class) \in Int
          /\ Disjoint(d0, k, Base(k, j, d0.class), Base(k, i, d0.class))
      BY <1>3, <1>9, <2>1, BesideApart
    <2>3. Entry(e, k, j) = Entry(d0, k, j)
      BY <1>4, <2>2 DEF Entry
    <2>4. Accessible(d0, k, j) /\ Accessible(e, k, j)
      BY <1>2, <1>4, <2>2, SameAccess DEF Accessible
    <2>5. EuTells(EuGets(k, e, j), e, k, j) /\ EuTells(EuGets(k, d0, j), d0, k, j)
      BY <1>4, <2>2, EuGot
    <2>6. EuGets(k, e, j) = Got(Entry(e, k, j), e) /\ EuGets(k, d0, j) = Got(Entry(d0, k, j), d0)
      BY <1>9, <2>4, <2>5 DEF EuTells
    <2>7. QED  BY <2>3, <2>6, Answers
  <1>10. QED  BY <1>8, <1>9

\* elftoolchain: the same, but for what a 32-bit relocation cannot hold.
LEMMA TcReadsBack ==
  ASSUME NEW d0, DataOK(d0), NEW k \in Tc, NEW i, IsInt(i),
         NEW v, IsEntry(k, v),
         "r_info" \in Fields[k] => v.r_info \in Nat,
         NEW e, Accepted(TcUpdates(k, d0, i, v)), e = TcUpdates(k, d0, i, v).d
  PROVE  /\ TcGets(k, e, i).val = v \/ (IsRel(k, d0.class) /\ ~NarrowInfo(v.r_info))
         /\ \A j \in 0..d0.d_size \div sizeof(k, d0.class) - 1 : j # i =>
                TcGets(k, e, j) = [TcGets(k, d0, j) EXCEPT !.d = e]
  <1>1. TcAccessible(d0, k, i) /\ e = TcStored(d0, k, i, v)
    <2>1. "RANGE" \in Refusals /\ "ARGUMENT" \in Refusals
      BY DEF Refusals
    <2>2. QED  BY <2>1, Answers, TcUpdated DEF TcDoes
  <1>2. k \in DOMAIN Sizes /\ k \notin Versions /\ i \in Int /\ i >= 0
    BY <1>1, KindsKnown DEF IsInt, TcAccessible, Tc, Both, Versions
  <1>3. /\ DataOK(e)
        /\ e.class = d0.class /\ e.shtype = d0.shtype /\ e.d_type = d0.d_type
        /\ e.d_size = d0.d_size
        /\ Load(e, k, Base(k, i, d0.class)) = Kept(k, d0.class, v)
        /\ \A at \in Int :
             Disjoint(d0, k, at, Base(k, i, d0.class)) => Load(e, k, at) = Load(d0, k, at)
    <2>1. StoresTo(e, d0, k, i, v)
      BY <1>1, <1>2, StoredIs
    <2>2. QED  BY <2>1 DEF StoresTo
  <1>4. ASSUME ~(IsRel(k, d0.class) /\ ~NarrowInfo(v.r_info))
        PROVE  TcGets(k, e, i).val = v
    <2>1. IsRel(k, d0.class) => "r_info" \in Fields[k]
      BY DEF IsRel, Fields
    <2>2. Shown(k, d0.class, Kept(k, d0.class, v)) = v
      BY <1>2, <1>4, <2>1, ShownKept
    <2>3. Entry(e, k, i) = v
      BY <1>3, <2>2 DEF Entry
    <2>4. TcAccessible(e, k, i)
      BY <1>1, <1>3, SameAccess
    <2>5. TcTells(TcGets(k, e, i), e, k, i)
      BY <1>3, TcGot
    <2>6. QED  BY <2>3, <2>4, <2>5, Answers DEF TcTells
  <1>5. ASSUME NEW j \in 0..d0.d_size \div sizeof(k, d0.class) - 1, j # i
        PROVE  TcGets(k, e, j) = [TcGets(k, d0, j) EXCEPT !.d = e]
    <2>1. /\ IsInt(j) /\ There(d0, k, j) /\ Base(k, j, d0.class) \in Int
          /\ Disjoint(d0, k, Base(k, j, d0.class), Base(k, i, d0.class))
      BY <1>2, <1>5, BesideApart
    <2>2. Entry(e, k, j) = Entry(d0, k, j)
      BY <1>3, <2>1 DEF Entry
    <2>3. TcAccessible(d0, k, j) /\ TcAccessible(e, k, j)
      BY <1>1, <1>2, <1>3, <2>1, SameAccess DEF TcAccessible, There
    <2>4. TcTells(TcGets(k, e, j), e, k, j) /\ TcTells(TcGets(k, d0, j), d0, k, j)
      BY <1>3, <2>1, TcGot
    <2>5. TcGets(k, e, j) = Got(Entry(e, k, j), e) /\ TcGets(k, d0, j) = Got(Entry(d0, k, j), d0)
      BY <2>3, <2>4 DEF TcTells
    <2>6. QED  BY <2>2, <2>5, Answers
  <1>6. QED  BY <1>4, <1>5
-----------------------------------------------------------------------------
(* Symbols with the table of extended section indices.                     *)
IndexTable(x0) == x0 = NoTable \/ DataOK(x0)

LEMMA WordStored ==
  ASSUME NEW x0, DataOK(x0), NEW base \in Int, NEW w
  PROVE  DataOK(StoreAll(x0, "WORD", base, [word |-> w]))
  <1>1. "WORD" \in DOMAIN Sizes /\ DOMAIN [word |-> w] \subseteq Fields["WORD"]
    BY DEF Sizes, Fields
  <1>2. QED  BY <1>1, StoreKeeps

LEMMA EuUpdatedX ==
  ASSUME NEW d0, DataOK(d0), NEW x0, IndexTable(x0), NEW i, IsInt(i),
         NEW v, IsEntry("SYM", v), NEW w
  PROVE  LET r == Eu_update_symshndx(d0, x0, i, v, w) IN
         /\ DataOK(r.d) /\ IndexTable(r.x) /\ r.err # "bounds"
         /\ \/ Accepted(r) /\ r.d.dirty
            \/ ~Accepted(r) /\ r.d = d0 /\ r.x = x0
  <1> DEFINE r == Eu_update_symshndx(d0, x0, i, v, w)
             s == PutAt(d0, "SYM", d0.class, i * sizeof("SYM", d0.class), v)
             y == IF x0 = NoTable THEN x0
                  ELSE StoreAll(x0, "WORD", i * Word, [word |-> w])
             refusals == {Also(Fail(e, d0), x0) : e \in Refusals}
  <1>1. "SYM" \in Eu /\ "SYM" \in DOMAIN Sizes /\ "SYM" \notin Versions /\ Word = 4
    BY DEF Eu, Both, Sizes, Versions, Word
  <1>2. {"DATA_MISMATCH", "INVALID_INDEX", "INVALID_DATA"} \subseteq Refusals
    BY DEF Refusals
  <1>3. \/ r \in refusals
        \/ /\ ~INVALID_NDX(d0, i, "SYM", d0.class)
           /\ x0 # NoTable /\ ~PastEnd(x0, i, Word) /\ ~Inside(x0, i * Word, Word)
           /\ r = Also(Fail("bounds", d0), x0)
        \/ ~INVALID_NDX(d0, i, "SYM", d0.class) /\ r = Also(s, y)
    BY <1>2 DEF Eu_update_symshndx
  <1>4. ~INVALID_NDX(d0, i, "SYM", d0.class) => There(d0, "SYM", i) /\ i \in Int /\ i >= 0
    BY <1>1, IndexTest DEF There, IsInt
  <1>5. x0 # NoTable /\ i \in Int /\ i >= 0 /\ ~PastEnd(x0, i, Word) => Inside(x0, i * Word, Word)
    BY <1>1, OlderTest DEF IndexTable
  <1>6. There(d0, "SYM", i) => s = Got(v, Stored(d0, "SYM", i, v))
    BY <1>1, PutThere DEF Base
  <1>7. i \in Int => DataOK(Stored(d0, "SYM", i, v)) /\ Stored(d0, "SYM", i, v).dirty
    BY <1>1, StoredIs DEF StoresTo
  <1>8. i \in Int => IndexTable(y)
    BY <1>1, WordStored DEF IndexTable
  <1>9. /\ \A e : Also(Fail(e, d0), x0).err = e
        /\ \A e : Also(Fail(e, d0), x0).d = d0 /\ Also(Fail(e, d0), x0).x = x0
    BY DEF Also, Fail
  <1>10. \A q, z : /\ Also(q, z).err = q.err /\ Also(q, z).d = q.d /\ Also(q, z).x = z
                   /\ Accepted(Also(q, z)) <=> Accepted(q)
    BY DEF Also, Accepted
  <1>11. "bounds" \notin Refusals
    BY DEF Refusals
  <1> HIDE DEF r, s, y
  <1>12. CASE r \in refusals
    <2>1. PICK e \in Refusals : r = Also(Fail(e, d0), x0)
      BY <1>12
    <2>2. r.err = e /\ r.d = d0 /\ r.x = x0
      BY <2>1, <1>9
    <2>3. ~Accepted(r) /\ r.err # "bounds"
      BY <2>2, <1>11, Answers
    <2>4. QED  BY <2>2, <2>3 DEF r
  <1>13. CASE ~INVALID_NDX(d0, i, "SYM", d0.class) /\ r = Also(s, y)
    <2>1. s = Got(v, Stored(d0, "SYM", i, v)) /\ i \in Int
      BY <1>4, <1>6, <1>13
    <2>2. Accepted(r) /\ r.d = Stored(d0, "SYM", i, v) /\ r.x = y
      BY <1>10, <1>13, <2>1, Answers
    <2>3. r.err # "bounds"
      BY <2>2, Answers
    <2>4. QED  BY <1>7, <1>8, <2>1, <2>2, <2>3 DEF r
  <1>14. QED  BY <1>3, <1>4, <1>5, <1>12, <1>13

LEMMA EuGotX ==
  ASSUME NEW d0, DataOK(d0), NEW x0, IndexTable(x0), NEW i, IsInt(i)
  PROVE  Eu_getsymshndx(d0, x0, i).err # "bounds"
  <1> DEFINE r == Eu_getsymshndx(d0, x0, i)
             at == GetAt(d0, "SYM", d0.class, i * sizeof("SYM", d0.class))
  <1>1. "SYM" \in Eu /\ "SYM" \notin Versions /\ "WORD" \in DOMAIN Sizes
        /\ sizeof("WORD", 64) = Word /\ 64 \in Classes
    BY DEF Eu, Both, Sizes, Versions, Word, Classes, sizeof
  <1>2. x0 # NoTable /\ ~INVALID_NDX(x0, i, "WORD", 64) => Inside(x0, i * Word, Word)
    BY <1>1, ValidIndex DEF IndexTable
  <1>3. ~INVALID_NDX(d0, i, "SYM", d0.class) => There(d0, "SYM", i)
    BY <1>1, IndexTest
  <1>4. There(d0, "SYM", i) => at = Got(Entry(d0, "SYM", i), d0)
    BY <1>1, GetThere DEF Base
  <1>5. \/ r.err \in {"INVALID_HANDLE", "INVALID_INDEX"}
        \/ /\ ~INVALID_NDX(d0, i, "SYM", d0.class)
           /\ \E u : r = [at EXCEPT !.val = u]
    BY <1>2 DEF Eu_getsymshndx, Fail
  <1> HIDE DEF r, at
  <1>6. ASSUME NEW u, at = Got(Entry(d0, "SYM", i), d0), r = [at EXCEPT !.val = u]
        PROVE  r.err # "bounds"
    <2>1. \A e, w, q : [[val |-> w, err |-> e, d |-> q] EXCEPT !.val = u].err = e
      OBVIOUS
    <2>2. r.err = "" /\ "" # "bounds"
      BY <1>6, <2>1 DEF Got
    <2>3. QED  BY <2>2
  <1>7. QED  BY <1>3, <1>4, <1>5, <1>6 DEF r

LEMMA TcGotX ==
  ASSUME NEW d0, DataOK(d0), NEW x0, DataOK(x0), NEW i, IsInt(i),
         gelf_getsymshndx(d0, x0, i).err = "bounds"
  PROVE  Partial(d0, "SYM") \/ Partial(x0, "WORD")
  <1> DEFINE s == gelf_getsym(d0, i)
             base == i * sizeof("WORD", x0.class)
             refused == Refused(x0, i, "WORD")
  <1>1. "SYM" \in Tc /\ TcGets("SYM", d0, i) = s
    BY DEF Tc, Both, TcGets
  <1>2. s.err = "bounds" => Partial(d0, "SYM")
    BY <1>1, TcGot, Answers DEF TcTells
  <1>3. ~refused /\ ~Inside(x0, base, Word) => Partial(x0, "WORD")
    <2>1. sizeof("WORD", x0.class) = Word /\ Word = 4
      BY DEF DataOK, Classes, sizeof, Sizes, Word
    <2>2. i \in Int /\ x0.d_size \in Nat
      BY DEF IsInt, DataOK
    <2>3. ~refused /\ ~Inside(x0, i * 4, 4) => x0.d_size % 4 # 0
      BY <2>1, <2>2 DEF Refused, Inside
    <2>4. QED  BY <2>1, <2>3 DEF Partial
  <1>4. gelf_getsymshndx(d0, x0, i)
          = CASE ~Accepted(s) -> s
              [] Accepted(s) /\ (refused \/ x0.d_type # "WORD") -> Fail("ARGUMENT", d0)
              [] Accepted(s) /\ ~(refused \/ x0.d_type # "WORD") ->
                   IF ~Inside(x0, base, Word) THEN Fail("bounds", d0)
                   ELSE Got(<<s.val, Load(x0, "WORD", base).word>>, d0)
    BY DEF gelf_getsymshndx
  <1>5. Fail("ARGUMENT", d0).err # "bounds" /\ \A u : Got(u, d0).err # "bounds"
    BY DEF Fail, Got
  <1> HIDE DEF s, base, refused
  <1>6. QED  BY <1>2, <1>3, <1>4, <1>5

LEMMA TcUpdatedX ==
  ASSUME NEW d0, DataOK(d0), NEW x0, DataOK(x0), NEW i, IsInt(i),
         NEW v, IsEntry("SYM", v), NEW w
  PROVE  LET r == gelf_update_symshndx(d0, x0, i, v, w) IN
         /\ DataOK(r.d) /\ DataOK(r.x)
         /\ r.err = "bounds" => Partial(d0, "SYM") \/ Partial(x0, "WORD")
  <1> DEFINE s == gelf_update_sym(d0, i, v)
             base == i * sizeof("WORD", x0.class)
             refused == Refused(x0, i, "WORD") \/ d0.d_type # "WORD"
             y == StoreAll(x0, "WORD", base, [word |-> w])
             r == gelf_update_symshndx(d0, x0, i, v, w)
  <1>1. "SYM" \in Tc /\ TcUpdates("SYM", d0, i, v) = s /\ "SYM" \in DOMAIN Sizes
    BY DEF Tc, Both, TcUpdates, Sizes
  <1>2. TcDoes(s, d0, "SYM", i, v)
    BY <1>1, TcUpdated
  <1>3. DataOK(TcStored(d0, "SYM", i, v))
    BY <1>1, StoredIs DEF StoresTo, IsInt
  <1>4. DataOK(s.d) /\ (s.err = "bounds" => Partial(d0, "SYM"))
    BY <1>2, <1>3, Answers DEF TcDoes
  <1>5. ~refused /\ ~Inside(x0, base, Word) => Partial(x0, "WORD")
    <2>1. sizeof("WORD", x0.class) = Word /\ Word = 4
      BY DEF DataOK, Classes, sizeof, Sizes, Word
    <2>2. i \in Int /\ x0.d_size \in Nat
      BY DEF IsInt, DataOK
    <2>3. ~Refused(x0, i, "WORD") /\ ~Inside(x0, i * 4, 4) => x0.d_size % 4 # 0
      BY <2>1, <2>2 DEF Refused, Inside
    <2>4. QED  BY <2>1, <2>3 DEF Partial
  <1>6. DataOK(y)
    <2>1. base \in Int
      BY SizeRange DEF DataOK, IsInt, Sizes
    <2> HIDE DEF base
    <2>2. QED  BY <2>1, WordStored
  <1>7. r = CASE ~Accepted(s) -> Also(s, x0)
              [] Accepted(s) /\ refused -> Also(Fail("ARGUMENT", s.d), x0)
              [] Accepted(s) /\ ~refused ->
                   IF ~Inside(x0, base, Word) THEN Also(Fail("bounds", s.d), x0)
                   ELSE Also(Got(v, s.d), y)
    BY DEF gelf_update_symshndx
  <1>8. \A q, z : Also(q, z).err = q.err /\ Also(q, z).d = q.d /\ Also(q, z).x = z
    BY DEF Also
  <1>9. Fail("ARGUMENT", s.d).err # "bounds" /\ Got(v, s.d).err # "bounds"
    BY DEF Fail, Got
  <1> HIDE DEF s, base, refused, y, r
  <1>10. DataOK(r.d) /\ DataOK(r.x)
    BY <1>4, <1>6, <1>7, <1>8, Answers
  <1>11. r.err = "bounds" => Partial(d0, "SYM") \/ Partial(x0, "WORD")
    BY <1>4, <1>5, <1>7, <1>8, <1>9
  <1>12. QED  BY <1>10, <1>11 DEF r

-----------------------------------------------------------------------------
(* The inductive invariant: the buffers hold records of their types.       *)
IInv ==
  /\ lib \in {"elftoolchain", "elfutils"}
  /\ DataOK(d) /\ IndexTable(x)

\* An update of either library.
LEMMA Updated ==
  ASSUME NEW d0, DataOK(d0), lib \in {"elftoolchain", "elfutils"},
         NEW k, k \in IF lib = "elftoolchain" THEN Tc ELSE Eu \cup Versions,
         NEW i, IsInt(i), NEW v, IsEntry(k, v)
  PROVE  LET r == Updates(k, d0, i, v) IN
         /\ DataOK(r.d)
         /\ r.err = "bounds" => lib = "elftoolchain" /\ Partial(d0, k)
         /\ lib = "elfutils" => \/ Accepted(r) /\ r.d.dirty
                                \/ ~Accepted(r) /\ r.d = d0
  <1> DEFINE r == Updates(k, d0, i, v)
  <1>1. k \in DOMAIN Sizes /\ i \in Int
    BY KindsKnown DEF IsInt
  <1>2. /\ DataOK(Stored(d0, k, i, v)) /\ Stored(d0, k, i, v).dirty
        /\ DataOK(TcStored(d0, k, i, v))
    BY <1>1, StoredIs DEF StoresTo
  <1>3. CASE lib = "elftoolchain"
    <2>1. r = TcUpdates(k, d0, i, v) /\ k \in Tc
      BY <1>3 DEF Updates
    <2>2. TcDoes(r, d0, k, i, v)
      BY <2>1, TcUpdated
    <2> HIDE DEF r
    <2>3. DataOK(r.d) /\ (r.err = "bounds" => Partial(d0, k))
      BY <1>2, <2>2, Answers DEF TcDoes
    <2>4. QED  BY <1>3, <2>3 DEF r
  <1>4. CASE lib = "elfutils"
    <2>1. r = EuUpdates(k, d0, i, v) /\ k \in Eu \cup Versions
      BY <1>4 DEF Updates
    <2>2. EuDoes(r, d0, k, i, v)
      BY <2>1, EuUpdated
    <2>3. "bounds" \notin Refusals
      BY DEF Refusals
    <2> HIDE DEF r
    <2>4. QED  BY <1>2, <1>4, <2>2, <2>3, Answers DEF EuDoes, r
  <1>5. QED  BY <1>3, <1>4

\* What the choices of the application are.
LEMMA Offered ==
  ASSUME IInv
  PROVE  /\ \A k \in KindsOf : k \in IF lib = "elftoolchain" THEN Tc ELSE Eu \cup Versions
         /\ \A k : \A i \in At(k) : IsInt(i)
         /\ \A i \in Places : IsInt(i)
         /\ \A k \in DOMAIN Fields : \A v \in Values(k, d.class) :
              IsEntry(k, v) /\ ("r_info" \in Fields[k] => v.r_info \in Nat)
         /\ "SYM" \in DOMAIN Fields
         /\ Tc \cup Eu \cup Versions \subseteq DOMAIN Fields
  <1>1. \A k \in KindsOf : k \in IF lib = "elftoolchain" THEN Tc ELSE Eu \cup Versions
    BY DEF KindsOf
  <1>2. /\ \A k : \A i \in At(k) : IsInt(i)
        /\ \A i \in Places : IsInt(i)
    BY PlacesAssumption DEF At
  <1>3. d.class \in Classes
    BY DEF IInv, DataOK
  <1>4. \A k \in DOMAIN Fields : \A v \in Values(k, d.class) :
          IsEntry(k, v) /\ ("r_info" \in Fields[k] => v.r_info \in Nat)
    BY <1>3, ValuesAssumption
  <1>5. "SYM" \in DOMAIN Fields
    BY DEF Fields
  <1>6. Tc \cup Eu \cup Versions \subseteq DOMAIN Fields
    BY KindsKnown
  <1>7. QED  BY <1>1, <1>2, <1>4, <1>5, <1>6

\* What every step does: the invariant, and the three action properties.
Steady == IInv' /\ InBoundsStep /\ RefusalKeepsStep /\ ReadsBackStep

\* A step that leaves the buffers alone and was no update.
LEMMA NothingStored ==
  ASSUME IInv, UNCHANGED <<lib, d, x>>, out'.op \notin {"update", "updatex"}, InBoundsStep
  PROVE  Steady
  BY DEF Steady, IInv, RefusalKeepsStep, ReadsBackStep

LEMMA GetSteady ==
  ASSUME IInv, NEW k \in KindsOf, NEW i \in At(k), Get(k, i)
  PROVE  Steady
  <1>1. PICK r : /\ r = Gets(k, d, i)
                 /\ out' = [op |-> "get", kind |-> k, at |-> i, v |-> r.val, err |-> r.err]
                 /\ UNCHANGED <<lib, d, x>>
    BY DEF Get
  <1>2. IsInt(i) /\ DataOK(d)
    BY Offered DEF IInv
  <1>3. out'.err = r.err /\ out'.kind = k /\ out'.at = i /\ out'.op = "get"
    BY <1>1
  <1>4. r.err = "bounds" =>
          \/ lib = "elftoolchain" /\ Partial(d, k)
          \/ lib = "elfutils" /\ k = "AUXV" /\ i = -1
    <2>1. CASE lib = "elftoolchain"
      <3>1. TcTells(r, d, k, i)
        BY <1>1, <1>2, <2>1, Offered, TcGot DEF Gets
      <3>2. QED  BY <2>1, <3>1, Answers DEF TcTells
    <2>2. CASE lib = "elfutils"
      <3>1. EuTells(r, d, k, i)
        BY <1>1, <1>2, <2>2, Offered, EuGot DEF Gets
      <3>2. "bounds" \notin Refusals /\ "OFFSET_RANGE" # "bounds"
        BY DEF Refusals
      <3>3. QED  BY <2>2, <3>1, <3>2, Answers DEF EuTells
    <2>3. QED  BY <2>1, <2>2 DEF IInv
  <1>5. InBoundsStep
    BY <1>3, <1>4 DEF InBoundsStep, Partial
  <1>6. QED  BY <1>1, <1>3, <1>5, NothingStored

LEMMA GetXSteady ==
  ASSUME IInv, NEW i \in Places, GetX(i)
  PROVE  Steady
  <1>1. PICK r : /\ r = IF lib = "elftoolchain" THEN gelf_getsymshndx(d, x, i)
                        ELSE Eu_getsymshndx(d, x, i)
                 /\ out' = [op |-> "getx", kind |-> "SYM", at |-> i, v |-> r.val, err |-> r.err]
                 /\ UNCHANGED <<lib, d, x>>
    BY DEF GetX
  <1>2. IsInt(i) /\ DataOK(d) /\ IndexTable(x) /\ (lib = "elftoolchain" => DataOK(x) /\ x # NoTable)
    BY Offered DEF IInv, GetX, IndexTable
  <1>3. out'.err = r.err /\ out'.kind = "SYM" /\ out'.op = "getx"
    BY <1>1
  <1>4. r.err = "bounds" =>
          lib = "elftoolchain" /\ (Partial(d, "SYM") \/ Partial(x, "WORD"))
    BY <1>1, <1>2, TcGotX, EuGotX DEF IInv
  <1>5. DataOK(x) => sizeof("WORD", x.class) = Word
    BY DEF DataOK, Classes, sizeof, Sizes, Word
  <1>6. InBoundsStep
    BY <1>2, <1>3, <1>4, <1>5 DEF InBoundsStep, Partial
  <1>7. QED  BY <1>1, <1>3, <1>6, NothingStored

LEMMA UpdateXSteady ==
  ASSUME IInv, NEW i \in Places, NEW v \in Values("SYM", d.class), NEW w, UpdateX(i, v, w)
  PROVE  Steady
  <1>1. PICK r : /\ r = IF lib = "elftoolchain" THEN gelf_update_symshndx(d, x, i, v, w)
                        ELSE Eu_update_symshndx(d, x, i, v, w)
                 /\ out' = [op |-> "updatex", kind |-> "SYM", at |-> i, v |-> <<v, w>>,
                            err |-> r.err]
                 /\ d' = r.d /\ x' = r.x /\ lib' = lib
    BY DEF UpdateX
  <1>2. IsInt(i) /\ IsEntry("SYM", v) /\ DataOK(d) /\ IndexTable(x)
        /\ (lib = "elftoolchain" => DataOK(x) /\ x # NoTable)
    BY Offered DEF IInv, UpdateX, IndexTable
  <1>3. out'.err = r.err /\ out'.kind = "SYM" /\ out'.op = "updatex"
    BY <1>1
  <1>4. CASE lib = "elftoolchain"
    <2>1. /\ DataOK(r.d) /\ DataOK(r.x)
          /\ r.err = "bounds" => Partial(d, "SYM") \/ Partial(x, "WORD")
      BY <1>1, <1>2, <1>4, TcUpdatedX
    <2>2. sizeof("WORD", x.class) = Word
      BY <1>2, <1>4 DEF DataOK, Classes, sizeof, Sizes, Word
    <2>3. InBoundsStep
      BY <1>2, <1>3, <1>4, <2>1, <2>2 DEF InBoundsStep, Partial
    <2>4. IInv' /\ RefusalKeepsStep /\ ReadsBackStep
      BY <1>1, <1>3, <1>4, <2>1 DEF IInv, IndexTable, RefusalKeepsStep, ReadsBackStep
    <2>5. QED  BY <2>3, <2>4 DEF Steady
  <1>5. CASE lib = "elfutils"
    <2>1. /\ DataOK(r.d) /\ IndexTable(r.x) /\ r.err # "bounds"
          /\ \/ Accepted(r) /\ r.d.dirty
             \/ ~Accepted(r) /\ r.d = d /\ r.x = x
      BY <1>1, <1>2, <1>5, EuUpdatedX
    <2>2. Accepted(out') <=> Accepted(r)
      BY <1>3 DEF Accepted
    <2>3. InBoundsStep /\ ReadsBackStep
      BY <1>3, <2>1 DEF InBoundsStep, ReadsBackStep
    <2>4. IInv' /\ RefusalKeepsStep
      BY <1>1, <1>5, <2>1, <2>2 DEF IInv, IndexTable, RefusalKeepsStep
    <2>5. QED  BY <2>3, <2>4 DEF Steady
  <1>6. QED  BY <1>4, <1>5 DEF IInv

LEMMA UpdateSteady ==
  ASSUME IInv, NEW k \in KindsOf, NEW i \in At(k), NEW v \in Values(k, d.class),
         Update(k, i, v)
  PROVE  Steady
  <1>1. PICK r : /\ r = Updates(k, d, i, v)
                 /\ out' = [op |-> "update", kind |-> k, at |-> i, v |-> v, err |-> r.err]
                 /\ d' = r.d /\ UNCHANGED <<lib, x>>
    BY DEF Update
  <1>2. /\ IsInt(i) /\ IsEntry(k, v) /\ DataOK(d)
        /\ k \in IF lib = "elftoolchain" THEN Tc ELSE Eu \cup Versions
        /\ "r_info" \in Fields[k] => v.r_info \in Nat
    BY Offered DEF IInv
  <1>3. out'.err = r.err /\ out'.kind = k /\ out'.at = i /\ out'.v = v /\ out'.op = "update"
    BY <1>1
  <1>4. Accepted(out') <=> Accepted(r)
    BY <1>3 DEF Accepted
  <1>5. /\ DataOK(r.d)
        /\ r.err = "bounds" => lib = "elftoolchain" /\ Partial(d, k)
        /\ lib = "elfutils" => \/ Accepted(r) /\ r.d.dirty
                               \/ ~Accepted(r) /\ r.d = d
    BY <1>1, <1>2, Updated DEF IInv
  <1>6. IInv' /\ InBoundsStep /\ RefusalKeepsStep
    BY <1>1, <1>3, <1>4, <1>5 DEF IInv, InBoundsStep, Partial, RefusalKeepsStep
  <1>7. ASSUME Accepted(r)
        PROVE  /\ \/ Gets(k, r.d, i).val = v
                  \/ k \in Versions /\ Gets(k, r.d, i).err = "OFFSET_RANGE"
                  \/ lib = "elftoolchain" /\ IsRel(k, d.class) /\ ~NarrowInfo(v.r_info)
               /\ \A j \in Beside(k, i) : Gets(k, r.d, j) = [Gets(k, d, j) EXCEPT !.d = r.d]
    <2>1. CASE lib = "elftoolchain"
      <3>1. /\ TcGets(k, r.d, i).val = v \/ (IsRel(k, d.class) /\ ~NarrowInfo(v.r_info))
            /\ \A j \in 0..d.d_size \div sizeof(k, d.class) - 1 : j # i =>
                 TcGets(k, r.d, j) = [TcGets(k, d, j) EXCEPT !.d = r.d]
        BY <1>1, <1>2, <1>7, <2>1, TcReadsBack DEF Updates
      <3>2. k \notin Versions
        BY <1>2, <2>1 DEF Tc, Both, Versions
      <3>3. QED  BY <2>1, <3>1, <3>2 DEF Gets, Beside
    <2>2. CASE lib = "elfutils"
      <3>1. /\ \/ EuGets(k, r.d, i).val = v
               \/ k \in Versions /\ EuGets(k, r.d, i).err = "OFFSET_RANGE"
            /\ k \notin Versions =>
                 \A j \in 0..d.d_size \div sizeof(k, d.class) - 1 : j # i =>
                   EuGets(k, r.d, j) = [EuGets(k, d, j) EXCEPT !.d = r.d]
        BY <1>1, <1>2, <1>7, <2>2, EuReadsBack DEF Updates
      <3>2. QED  BY <2>2, <3>1 DEF Gets, Beside
    <2>3. QED  BY <2>1, <2>2 DEF IInv
  <1>8. ReadsBackStep
    BY <1>1, <1>3, <1>4, <1>7 DEF ReadsBackStep
  <1>9. QED  BY <1>6, <1>8 DEF Steady

LEMMA Invariance == Spec => []IInv
  <1>1. Init => IInv
    BY TablesAssumption DEF Init, IInv, IndexTable
  <1>2. IInv /\ [Next]_vars => IInv'
    <2>1. ASSUME IInv, Next PROVE IInv'
      BY <2>1, GetSteady, UpdateSteady, GetXSteady, UpdateXSteady DEF Next, Steady
    <2>2. CASE UNCHANGED vars
      BY <2>2 DEF vars, IInv
    <2>3. QED  BY <2>1, <2>2
  <1>3. QED  BY <1>1, <1>2, PTL DEF Spec

LEMMA StepSteady ==
  ASSUME IInv, Next
  PROVE  Steady
  BY GetSteady, UpdateSteady, GetXSteady, UpdateXSteady DEF Next

\* No accessor of either library reaches outside its buffers, whatever the
\* index, the type and the size, but for the partial entries of elftoolchain
\* (gelf_sym.c:75) and the index -1 of gelf_getauxv() (gelf_getauxv.c:69).
THEOREM AccessesStayInside == Spec => InBounds
  <1>1. IInv /\ [Next]_vars => [InBoundsStep]_vars
    BY StepSteady DEF Steady
  <1>2. QED  BY <1>1, Invariance, PTL DEF Spec, InBounds

\* An update that elfutils refuses changed nothing, and one that it accepted
\* marked the section (gelf_update_sym.c:60 and :109, and the others).
THEOREM RefusalsKeep == Spec => RefusalKeeps
  <1>1. IInv /\ [Next]_vars => [RefusalKeepsStep]_vars
    BY StepSteady DEF Steady
  <1>2. QED  BY <1>1, Invariance, PTL DEF Spec, RefusalKeeps

\* What an update accepted is what the next get at that place returns, and the
\* entries beside it are as before, in both libraries, but for the relocations
\* that elftoolchain cuts off (gelf_rel.c:143).
THEOREM UpdatesReadBack == Spec => ReadsBack
  <1>1. IInv /\ [Next]_vars => [ReadsBackStep]_vars
    BY StepSteady DEF Steady
  <1>2. QED  BY <1>1, Invariance, PTL DEF Spec, ReadsBack

-----------------------------------------------------------------------------
(* The two libraries.                                                      *)

\* The three checks of elftoolchain, in the words of elfutils.
LEMMA ChecksAre ==
  ASSUME NEW f, NEW v
  PROVE  /\ InRange(<<"=", f>>, v)
         /\ InRange(<<"U32", f>>, v) <=> Narrow(v[f])
         /\ InRange(<<"S32", f>>, v) <=> NarrowInt(v[f])
         /\ InRange(<<"INFO", f>>, v) <=> InfoInRange(v[f])
  <1>1. InRange(<<"=", f>>, v)
    BY DEF InRange
  <1>2. InRange(<<"U32", f>>, v) <=> Narrow(v[f])
    BY DEF InRange, LIBELF_COPY_U32, Narrow
  <1>3. InRange(<<"S32", f>>, v) <=> NarrowInt(v[f])
    BY DEF InRange, LIBELF_COPY_S32, NarrowInt
  <1>4. InRange(<<"INFO", f>>, v) <=> InfoInRange(v[f])
    BY DEF InRange
  <1>5. QED  BY <1>1, <1>2, <1>3, <1>4

\* An info that elfutils accepts passes the weaker checks of elftoolchain.
LEMMA InfoPasses ==
  ASSUME NEW n \in Nat, NarrowInfo(n)
  PROVE  InfoInRange(n)
  <1>1. ELF32_R_SYM(15) = 7 /\ ELF32_R_TYPE(UINT32_MAX) = 1
    BY DEF ELF32_R_SYM, ELF32_R_TYPE, UINT32_MAX
  <1>2. ELF64_R_SYM(n) \in Int /\ ELF64_R_TYPE(n) \in Int
    BY DEF ELF64_R_SYM, ELF64_R_TYPE
  <1>3. QED  BY <1>1, <1>2 DEF NarrowInfo, InfoInRange

\* They make the same checks of what is kept in a 32-bit object, but for the
\* symbol of a relocation.
LEMMA SameChecks ==
  ASSUME NEW k \in Both \ {"MOVE"}, NEW v,
         k \in {"REL", "RELA"} => v.r_info \in Nat /\ NarrowInfo(v.r_info)
  PROVE  AllInRange(k, v) <=> Fits(k, v)
  <1>1. CASE k = "SYM"
    <2>1. DOMAIN Steps[k] = 1..6
          /\ Steps[k][1] = <<"=", "st_name">> /\ Steps[k][2] = <<"=", "st_info">>
          /\ Steps[k][3] = <<"=", "st_other">> /\ Steps[k][4] = <<"=", "st_shndx">>
          /\ Steps[k][5] = <<"U32", "st_value">> /\ Steps[k][6] = <<"U32", "st_size">>
      BY <1>1 DEF Steps
    <2>2. AllInRange(k, v) <=>
            InRange(Steps[k][1], v) /\ InRange(Steps[k][2], v) /\ InRange(Steps[k][3], v)
            /\ InRange(Steps[k][4], v) /\ InRange(Steps[k][5], v) /\ InRange(Steps[k][6], v)
      <3>1. \A n : n \in 1..6 <=> n \in {1, 2, 3, 4, 5, 6}
        OBVIOUS
      <3>2. QED  BY <2>1, <3>1 DEF AllInRange
    <2>3. Fits(k, v) <=> Narrow(v.st_value) /\ Narrow(v.st_size)
      BY <1>1 DEF Fits
    <2>4. QED  BY <2>1, <2>2, <2>3, ChecksAre
  <1>2. CASE k = "REL"
    <2>1. DOMAIN Steps[k] = 1..2
          /\ Steps[k][1] = <<"U32", "r_offset">> /\ Steps[k][2] = <<"INFO", "r_info">>
      BY <1>2 DEF Steps
    <2>2. AllInRange(k, v) <=> InRange(Steps[k][1], v) /\ InRange(Steps[k][2], v)
      <3>1. \A n : n \in 1..2 <=> n \in {1, 2}
        OBVIOUS
      <3>2. QED  BY <2>1, <3>1 DEF AllInRange
    <2>3. Fits(k, v) <=> Narrow(v.r_offset) /\ NarrowInfo(v.r_info)
      BY <1>2 DEF Fits
    <2>4. QED  BY <1>2, <2>1, <2>2, <2>3, ChecksAre, InfoPasses
  <1>3. CASE k = "RELA"
    <2>1. DOMAIN Steps[k] = 1..3
          /\ Steps[k][1] = <<"U32", "r_offset">> /\ Steps[k][2] = <<"INFO", "r_info">>
          /\ Steps[k][3] = <<"S32", "r_addend">>
      BY <1>3 DEF Steps
    <2>2. AllInRange(k, v) <=> /\ InRange(Steps[k][1], v) /\ InRange(Steps[k][2], v)
                               /\ InRange(Steps[k][3], v)
      <3>1. \A n : n \in 1..3 <=> n \in {1, 2, 3}
        OBVIOUS
      <3>2. QED  BY <2>1, <3>1 DEF AllInRange
    <2>3. Fits(k, v) <=> /\ Narrow(v.r_offset) /\ NarrowInfo(v.r_info)
                         /\ NarrowInt(v.r_addend)
      BY <1>3 DEF Fits
    <2>4. QED  BY <1>3, <2>1, <2>2, <2>3, ChecksAre, InfoPasses
  <1>4. CASE k = "DYN"
    <2>1. DOMAIN Steps[k] = 1..2
          /\ Steps[k][1] = <<"S32", "d_tag">> /\ Steps[k][2] = <<"U32", "d_val">>
      BY <1>4 DEF Steps
    <2>2. AllInRange(k, v) <=> InRange(Steps[k][1], v) /\ InRange(Steps[k][2], v)
      <3>1. \A n : n \in 1..2 <=> n \in {1, 2}
        OBVIOUS
      <3>2. QED  BY <2>1, <3>1 DEF AllInRange
    <2>3. Fits(k, v) <=> NarrowInt(v.d_tag) /\ Narrow(v.d_val)
      BY <1>4 DEF Fits
    <2>4. QED  BY <2>1, <2>2, <2>3, ChecksAre
  <1>5. CASE k = "SYMINFO"
    <2>1. DOMAIN Steps[k] = 1..2
          /\ Steps[k][1] = <<"=", "si_boundto">> /\ Steps[k][2] = <<"=", "si_flags">>
      BY <1>5 DEF Steps
    <2>2. AllInRange(k, v) <=> InRange(Steps[k][1], v) /\ InRange(Steps[k][2], v)
      <3>1. \A n : n \in 1..2 <=> n \in {1, 2}
        OBVIOUS
      <3>2. QED  BY <2>1, <3>1 DEF AllInRange
    <2>3. Fits(k, v)
      BY <1>5 DEF Fits
    <2>4. QED  BY <2>1, <2>2, <2>3, ChecksAre
  <1>6. QED  BY <1>1, <1>2, <1>3, <1>4, <1>5 DEF Both

\* Both libraries read the same entries out of the same buffer, and accept the
\* same updates with the same effect (Agree).
THEOREM LibrariesAgree == Spec => []Agree
  <1>1. ASSUME IInv, NEW k \in Both \ {"MOVE"}, Sane(k), NEW i \in Places
        PROVE  /\ TcGets(k, d, i).val = EuGets(k, d, i).val
               /\ \A v \in Values(k, d.class) :
                    \/ /\ Accepted(TcUpdates(k, d, i, v)) <=> Accepted(EuUpdates(k, d, i, v))
                       /\ Accepted(EuUpdates(k, d, i, v)) =>
                            TcUpdates(k, d, i, v).d.d_buf = EuUpdates(k, d, i, v).d.d_buf
                    \/ IsRel(k, d.class) /\ ~NarrowInfo(v.r_info)
    <2>1. k \in Tc /\ k \in Eu \cup Versions /\ k \notin Versions /\ k # "AUXV"
          /\ TypeOf(k) = k /\ k \in DOMAIN Sizes
      BY KindsKnown DEF Tc, Eu, Both, Versions, TypeOf
    <2>2. DataOK(d) /\ IsInt(i) /\ i \in Int
      BY <1>1, Offered DEF IInv, IsInt
    <2>3. TcAccessible(d, k, i) <=> Accessible(d, k, i)
      BY <1>1, <2>1 DEF Sane, TcAccessible, Accessible, There
    <2>4. ~Partial(d, k)
      BY <1>1 DEF Sane, Partial
    <2>5. TcGets(k, d, i).val = EuGets(k, d, i).val
      <3>1. \A e : Fail(e, d).val = << >>
        BY DEF Fail
      <3>2. TcTells(TcGets(k, d, i), d, k, i) /\ EuTells(EuGets(k, d, i), d, k, i)
        BY <2>1, <2>2, TcGot, EuGot
      <3>3. QED  BY <2>1, <2>3, <2>4, <3>1, <3>2 DEF TcTells, EuTells
    <2>6. ASSUME NEW v \in Values(k, d.class), ~(IsRel(k, d.class) /\ ~NarrowInfo(v.r_info))
          PROVE  /\ Accepted(TcUpdates(k, d, i, v)) <=> Accepted(EuUpdates(k, d, i, v))
                 /\ Accepted(EuUpdates(k, d, i, v)) =>
                      TcUpdates(k, d, i, v).d.d_buf = EuUpdates(k, d, i, v).d.d_buf
      <3>1. IsEntry(k, v) /\ ("r_info" \in Fields[k] => v.r_info \in Nat)
        BY <1>1, <2>1, Offered
      <3>2. TcDoes(TcUpdates(k, d, i, v), d, k, i, v) /\ EuDoes(EuUpdates(k, d, i, v), d, k, i, v)
        BY <2>1, <2>2, <3>1, TcUpdated, EuUpdated
      <3>3. d.class = 32 => (AllInRange(k, v) <=> Fits(k, v))
        <4>1. k \in {"REL", "RELA"} => "r_info" \in Fields[k]
          BY DEF Fields
        <4>2. QED  BY <2>6, <3>1, <4>1, SameChecks DEF IsRel
      <3>4. Stored(d, k, i, v).d_buf = TcStored(d, k, i, v).d_buf
        <4>1. DataOK(TcStored(d, k, i, v))
          BY <2>1, <2>2, <3>1, StoredIs DEF StoresTo
        <4>2. Stored(d, k, i, v) = [TcStored(d, k, i, v) EXCEPT !.dirty = TRUE]
          BY DEF Stored, TcStored
        <4>3. QED  BY <4>1, <4>2, MarkKeeps
      <3>5. "ARGUMENT" \in Refusals /\ "RANGE" \in Refusals
        BY DEF Refusals
      <3>6. QED  BY <2>3, <3>2, <3>3, <3>4, <3>5, Answers DEF TcDoes, EuDoes
    <2>7. QED  BY <2>5, <2>6
  <1>2. IInv => Agree
    BY <1>1 DEF Agree
  <1>3. QED  BY <1>2, Invariance, PTL
=============================================================================

----------------------------- MODULE Translate ------------------------------
(***************************************************************************)
(* The conversion of tables between the byte order of a file and that of   *)
(* the host, a little endian one, in elfutils: elf32_xlatetom(),           *)
(* elf32_xlatetof(), and the functions of __elf_xfctstom that they,        *)
(* elf_getdata() and elf_update() call.                                    *)
(*                                                                         *)
(* Memory is a sequence of bytes with two buffers, A and B, that may       *)
(* overlap.  Arrays are converted record by record; notes, versions, GNU   *)
(* hash tables and compressed sections have to be read on the way to find  *)
(* where the next word is, and so the functions must know which of their   *)
(* two buffers is in the order of the host, at each moment.                *)
(***************************************************************************)
EXTENDS Integers, Sequences, SequencesExt, FiniteSets

CONSTANTS
    Images,     \* the tables: [type, class, bytes], bytes as the host has them
    Shifts,     \* where B starts after A
    MaxCalls    \* bound

ASSUME TranslateBounds == MaxCalls \in Nat /\ Shifts \subseteq Nat

VARIABLES
    image,  \* the table
    shift,  \* where B is
    mem,    \* memory, from address 0 on
    form,   \* what A and B hold: the table as the host or as the file has it,
            \* or neither
    res,    \* the last call: [op, dest, rc]
    calls   \* calls made
vars == <<image, shift, mem, form, res, calls>>
View == <<image, shift, mem, form, calls>>

FENCE == 4          \* bytes before, between and after the buffers
Size == Len(image.bytes)
Base(b) == IF b = "A" THEN FENCE + 1 ELSE FENCE + 1 + shift
Buffer(m, b) == SubSeq(m, Base(b), Base(b) + Size - 1)
Junk == 99

\* An unsigned number of w bytes at a, or Huge; and as the signed number that
\* sums modulo 2^32 can be told from.
Huge == 1000000
Signed(m, a) == m[a] + 256 * m[a + 1] + 65536 * m[a + 2]
                + 16777216 * (m[a + 3] - IF m[a + 3] > 127 THEN 256 ELSE 0)
Word(m, a) == IF Signed(m, a) \in 0..Huge THEN Signed(m, a) ELSE Huge
Align(n, to) == ((n + to - 1) \div to) * to
Offsets(widths) == [i \in DOMAIN widths |->
                      FoldLeft(LAMBDA n, w : n + w, 0, SubSeq(widths, 1, i - 1))]
Total(widths) == FoldLeft(LAMBDA n, w : n + w, 0, widths)

-----------------------------------------------------------------------------
(* The fields of the records (gelf_xlate.h, abstract.h).                   *)
Nhdr == <<4, 4, 4>>
Verdef == [def |-> <<2, 2, 2, 2, 4, 4, 4>>, aux_at |-> 12, next_at |-> 16,
           aux |-> <<4, 4>>, anext_at |-> 4]
Verneed == [def |-> <<2, 2, 4, 4, 4>>, aux_at |-> 8, next_at |-> 12,
            aux |-> <<4, 2, 2, 4, 4>>, anext_at |-> 12]
Chdr(class) == IF class = 32 THEN <<4, 4, 4>> ELSE <<4, 4, 8, 8>>
Record(type, class) ==
    CASE type = "BYTE" -> <<1>>
      [] type = "HALF" -> <<2>>
      [] type \in {"WORD", "GNUHASH"} -> <<4>>
      [] type = "ADDR" -> IF class = 32 THEN <<4>> ELSE <<8>>
      [] type = "SYM"  -> IF class = 32 THEN <<4, 4, 4, 1, 1, 2>> ELSE <<4, 1, 1, 2, 8, 8>>
      [] type = "REL"  -> IF class = 32 THEN <<4, 4>> ELSE <<8, 8>>
      [] type = "CHDR" -> Chdr(class)
      [] type \in {"NHDR", "NHDR8"} -> Nhdr
      [] type = "VDEF"  -> Verdef.def
      [] type = "VNEED" -> Verneed.def
recsize(type, class) == Total(Record(type, class))

-----------------------------------------------------------------------------
(* The conversion functions.  d and s are addresses in m.                  *)
bswap(m, d, s, w) ==
    [i \in DOMAIN m |-> IF i \in d..d + w - 1 THEN m[s + w - 1 - (i - d)] ELSE m[i]]
memmove_past(m, d, s, n) == [i \in DOMAIN m |-> IF i \in d..d + n THEN m[s + i - d] ELSE m[i]]
memmove(m, d, s, n) == [i \in DOMAIN m |-> IF i \in d..d + n - 1 THEN m[s + i - d] ELSE m[i]]

\* One record, field by field.
cvt_record(m, d, s, widths) ==
    LET o == Offsets(widths) IN
    FoldLeft(LAMBDA n, i : bswap(n, d + o[i], s + o[i], widths[i]),
             m, [i \in 1..Len(widths) |-> i])

\* FUNDAMENTAL: from the end when the destination is behind the source.
cvt_words_forward(m, d, s, len, w) ==
    FoldLeft(LAMBDA n, i : bswap(n, d + w * (i - 1), s + w * (i - 1), w),
             m, [i \in 1..len \div w |-> i])
cvt_words(m, d, s, len, w) ==
    LET n == len \div w
        order == [i \in 1..n |-> IF d < s THEN i ELSE n + 1 - i]
        end == len - w * n IN   \* counted from the end, then
    FoldLeft(LAMBDA k, i : LET at == w * (i - 1) + IF d < s THEN 0 ELSE end IN
                           bswap(k, d + at, s + at, w),
             m, order)
cvt_records(m, d, s, len, widths) ==
    LET w == Total(widths) IN
    FoldLeft(LAMBDA n, i : cvt_record(n, d + w * (i - 1), s + w * (i - 1), widths),
             m, [i \in 1..len \div w |-> i])

\* elf_cvt_note(): a header that does not fit its note, and what is left, is
\* copied as it is.
RECURSIVE cvt_note(_, _, _, _, _, _)
cvt_note_rest(m, d, s, len) == IF d = s THEN m ELSE memmove(m, d, s, len)
cvt_note_one(m, d, s, len, encode, al) ==
    LET n == IF encode THEN s ELSE d
        named == Align(12 + Signed(m, n), al)
        whole == Align(named + Signed(m, n + 4), al)
        Bad(size) == size > len \/ size < 12 IN
    IF Bad(named) \/ Bad(whole) THEN cvt_note_rest(m, d, s, len)
    ELSE cvt_note(cvt_note_rest(m, d + 12, s + 12, whole - 12),
                  d + whole, s + whole, len - whole, encode, al)
cvt_note(m, d, s, len, encode, al) ==
    IF len < 12 THEN cvt_note_rest(m, d, s, len)
    ELSE cvt_note_one(cvt_record(m, d, s, Nhdr), d, s, len, encode, al)

\* elf_cvt_Verdef() and elf_cvt_Verneed(): c tells their records.
RECURSIVE cvt_aux(_, _, _, _, _, _, _)
Misses(off, size, len) == off > len \/ len - off < size
\* Go on with r.m, unless an offset was wrong.
cvt_aux(m, d, s, len, encode, c, off) ==
    IF Misses(off, Total(c.aux), len) THEN [m |-> m, ok |-> FALSE]
    ELSE LET n == cvt_record(m, d + off, s + off, c.aux)
             to == off + IF encode THEN Word(m, s + off + c.anext_at)
                         ELSE Word(n, d + off + c.anext_at) IN
         IF \A i \in 0..3 : n[s + off + c.anext_at + i] = 0 THEN [m |-> n, ok |-> TRUE]
         ELSE cvt_aux(n, d, s, len, encode, c, to)

RECURSIVE cvt_def(_, _, _, _, _, _, _)
cvt_def_encoded(r, d, s, len, c, off) ==
    IF ~r.ok THEN r.m
    ELSE LET next == Word(r.m, s + off + c.next_at)
             n == cvt_record(r.m, d + off, s + off, c.def) IN
         IF next = 0 THEN n ELSE cvt_def(n, d, s, len, TRUE, c, off + next)
cvt_def_decoded(r, d, s, len, c, off) ==
    IF ~r.ok \/ (\A i \in 0..3 : r.m[s + off + c.next_at + i] = 0) THEN r.m
    ELSE cvt_def(r.m, d, s, len, FALSE, c, off + Word(r.m, d + off + c.next_at))
cvt_def_checked(m, d, s, len, encode, c, off) ==
    LET n == cvt_record(m, d + off, s + off, c.def)
        aux == off + Word(IF encode THEN m ELSE n, c.aux_at + off + IF encode THEN s ELSE d) IN
    IF Misses(off, Total(c.def), len) \/ Misses(aux, Total(c.aux), len) THEN m
    ELSE IF encode THEN cvt_def_encoded(cvt_aux(m, d, s, len, TRUE, c, aux), d, s, len, c, off)
    ELSE cvt_def_decoded(cvt_aux(n, d, s, len, FALSE, c, aux), d, s, len, c, off)
cvt_def(m, d, s, len, encode, c, off) ==
    IF Misses(off, Total(c.def), len) THEN m
    ELSE IF encode
    THEN cvt_def_encoded(cvt_aux(m, d, s, len, TRUE, c, off + Word(m, s + off + c.aux_at)),
                         d, s, len, c, off)
    ELSE LET n == cvt_record(m, d + off, s + off, c.def) IN
         cvt_def_decoded(cvt_aux(n, d, s, len, FALSE, c, off + Word(n, d + off + c.aux_at)),
                         d, s, len, c, off)
cvt_versions(m, d, s, len, encode, c) ==
    IF len = 0 THEN m ELSE cvt_def(memmove(m, d, s, len), d, s, len, encode, c, 0)

\* elf_cvt_gnuhash(): four words, as many of eight bytes as the third says,
\* and words again.
cvt_gnuhash(m, d, s, len, encode) ==
    LET Words(n, from, count, w) == FoldLeft(
            LAMBDA k, i : bswap(k, d + from + w * (i - 1), s + from + w * (i - 1), w),
            n, [i \in 1..count |-> i])
        head == Words(m, 0, Min({4, len \div 4}), 4)
        bitmask_words == Word(head, 8 + IF encode THEN s ELSE d)
        fit == (len - 16) \div 8 IN
    IF len < 16 THEN head
    ELSE IF fit < bitmask_words THEN Words(head, 16, fit, 8)
    ELSE LET from == 16 + 8 * bitmask_words IN
         Words(Words(head, 16, bitmask_words, 8), from, (len - from) \div 4, 4)

\* Elf32_cvt_chdr() and Elf64_cvt_chdr()
cvt_chdr(m, d, s, len, class) ==
    LET n == IF d = s THEN m ELSE memmove(m, d, s, len) IN
    IF len < Total(Chdr(class)) THEN n ELSE cvt_record(n, d, s, Chdr(class))

\* __elf_xfctstom[][][class][type]
xfct(m, d, s, len, encode, type, class) ==
    CASE type = "BYTE"  -> memmove(m, d, s, len)
      [] type = "NHDR"  -> cvt_note(m, d, s, len, encode, 4)
      [] type = "NHDR8" -> cvt_note(m, d, s, len, encode, 8)
      [] type = "VDEF"  -> cvt_versions(m, d, s, len, encode, Verdef)
      [] type = "VNEED" -> cvt_versions(m, d, s, len, encode, Verneed)
      [] type = "CHDR"  -> cvt_chdr(m, d, s, len, class)
      [] type = "GNUHASH" /\ class = 64 -> cvt_gnuhash(m, d, s, len, encode)
      [] type \in {"SYM", "REL"} -> cvt_records(m, d, s, len, Record(type, class))
      [] OTHER -> cvt_words(m, d, s, len, recsize(type, class))

-----------------------------------------------------------------------------
(* What a table is, read on the host's side only.                          *)

\* gelf_getnote() at offset off of n bytes at a: where the next note is, or 0.
gelf_getnote(m, a, n, off, al) ==
    LET named == off + 12 + Word(m, a + off)
        descsz == Align(Signed(m, a + off + 4), al)
        desc == Align(named, al) IN
    IF n - off < 12 \/ named > n \/ desc > n THEN 0
    ELSE IF descsz < 0 \/ n - desc < descsz THEN 0
    ELSE IF descsz = 0 /\ Signed(m, a + off + 4) # 0 THEN 0
    ELSE desc + descsz
RECURSIVE Notes(_, _, _)
\* Where the notes of the table are, and where the walk ends.
Notes(bytes, off, al) ==
    LET next == IF off >= Len(bytes) THEN 0
                ELSE gelf_getnote(bytes, 1, Len(bytes), off, al) IN
    IF next = 0 THEN [at |-> {}, end |-> off]
    ELSE LET r == Notes(bytes, next, al) IN [at |-> r.at \cup {off}, end |-> r.end]

\* The records of a chain: each at off, the next one as far away as it says.
RECURSIVE Chain(_, _, _, _)
Chain(bytes, off, next_at, size) ==
    IF Misses(off, size, Len(bytes)) THEN [at |-> {}, ok |-> FALSE]
    ELSE IF Word(bytes, 1 + off + next_at) = 0 THEN [at |-> {off}, ok |-> TRUE]
    ELSE LET r == Chain(bytes, off + Word(bytes, 1 + off + next_at), next_at, size) IN
         [at |-> r.at \cup {off}, ok |-> r.ok]
AuxChain(bytes, c, def) ==
    Chain(bytes, def + Word(bytes, 1 + def + c.aux_at), c.anext_at, Total(c.aux))

\* The words of a table, as the offset and the width of each.
FieldsAt(off, widths) == {<<off + Offsets(widths)[i], widths[i]>> : i \in DOMAIN widths}
Records(n, widths) ==
    UNION {FieldsAt(Total(widths) * (i - 1), widths) : i \in 1..n \div Total(widths)}
VersionFields(bytes, c) ==
    LET defs == Chain(bytes, 0, c.next_at, Total(c.def)).at IN
    UNION {FieldsAt(o, c.def) : o \in defs}
    \cup UNION {UNION {FieldsAt(o, c.aux) : o \in AuxChain(bytes, c, d).at} : d \in defs}
HashFields(bytes) ==
    LET n == Len(bytes)
        bitmask_words == IF n < 12 THEN 0 ELSE Word(bytes, 9) IN
    {<<o, w>> \in (0..n - 1) \X {4, 8} :
       /\ o + w <= n
       /\ \/ o < 16 /\ w = 4 /\ o % 4 = 0
          \/ o >= 16 /\ o < 16 + 8 * bitmask_words /\ w = 8 /\ o % 8 = 0
          \/ o >= 16 + 8 * bitmask_words /\ w = 4 /\ o % 4 = 0}
NoteFields(bytes, al) ==
    LET r == Notes(bytes, 0, al)
        torn == IF Len(bytes) - r.end >= 12 THEN {r.end} ELSE {} IN
    UNION {FieldsAt(o, Nhdr) : o \in r.at \cup torn}
Fields(i) ==
    CASE i.type = "NHDR"  -> NoteFields(i.bytes, 4)
      [] i.type = "NHDR8" -> NoteFields(i.bytes, 8)
      [] i.type = "VDEF"  -> VersionFields(i.bytes, Verdef)
      [] i.type = "VNEED" -> VersionFields(i.bytes, Verneed)
      [] i.type = "CHDR"  -> IF Len(i.bytes) < Total(Chdr(i.class)) THEN {}
                             ELSE FieldsAt(0, Chdr(i.class))
      [] i.type = "GNUHASH" /\ i.class = 64 -> HashFields(i.bytes)
      [] OTHER -> Records(Len(i.bytes), Record(i.type, i.class))

Covers(f, k) == f[1] < k /\ k <= f[1] + f[2]
\* The table as the file has it: every word the other way round.
Foreign(i) ==
    [k \in DOMAIN i.bytes |->
       IF \E f \in Fields(i) : Covers(f, k)
       THEN LET f == CHOOSE f \in Fields(i) : Covers(f, k) IN
            i.bytes[2 * f[1] + f[2] + 1 - k]
       ELSE i.bytes[k]]

\* No word is in two records, or in two of the same.
Disjoint(i) ==
    /\ \A f, g \in Fields(i) : f # g => f[1] + f[2] <= g[1] \/ g[1] + g[2] <= f[1]
    /\ i.type \in {"VDEF", "VNEED"} =>
         LET c == IF i.type = "VDEF" THEN Verdef ELSE Verneed
             defs == Chain(i.bytes, 0, c.next_at, Total(c.def)).at IN
         \A d, e \in defs : d # e => AuxChain(i.bytes, c, d).at \cap AuxChain(i.bytes, c, e).at = {}

\* The table can be read to its end, and no word of it in two ways.
VersionsWhole(bytes, c) ==
    LET defs == Chain(bytes, 0, c.next_at, Total(c.def)) IN
    /\ defs.ok
    /\ \A d \in defs.at : AuxChain(bytes, c, d).ok
WellFormed(i) ==
    /\ CASE i.type = "NHDR"  -> Notes(i.bytes, 0, 4).end = Len(i.bytes)
         [] i.type = "NHDR8" -> Notes(i.bytes, 0, 8).end = Len(i.bytes)
         [] i.type = "VDEF"  -> VersionsWhole(i.bytes, Verdef)
         [] i.type = "VNEED" -> VersionsWhole(i.bytes, Verneed)
         [] i.type = "CHDR"  -> Len(i.bytes) >= Total(Chdr(i.class))
         [] i.type = "GNUHASH" /\ i.class = 64 ->
              /\ Len(i.bytes) >= 16 /\ Len(i.bytes) % 4 = 0
              /\ 16 + 8 * Word(i.bytes, 9) <= Len(i.bytes)
         [] OTHER -> Len(i.bytes) % recsize(i.type, i.class) = 0
    /\ Disjoint(i)

-----------------------------------------------------------------------------
(* The calls.                                                              *)
Apart == shift >= Size
\* Conversions that may have buffers that overlap without being the same:
\* those of single words, and copying.
Moves(d, s) == \/ Apart \/ d = s
               \/ /\ Len(Record(image.type, image.class)) = 1
                  /\ ~(image.type = "GNUHASH" /\ image.class = 64)

\* What both buffers hold when d was given form f.
Held(d, s, f) ==
    IF Apart THEN [form EXCEPT ![d] = f]
    ELSE [b \in {"A", "B"} |-> IF b = d THEN (IF Moves(d, s) THEN f ELSE "none")
                               ELSE "none"]

\* What does not give the form asked for: notes and hash tables encoded in
\* place, because the functions look into the source for what they have
\* replaced by then; damaged versions encoded, because a definition is left
\* as it is when one of its auxiliary records is missing; and records that
\* two others share, which are converted twice in place.
Spoils(d, s, encode) ==
    \/ encode /\ d = s /\ image.type \in {"NHDR", "NHDR8"}
    \/ encode /\ d = s /\ image.type = "GNUHASH" /\ image.class = 64
    \/ encode /\ image.type \in {"VDEF", "VNEED"} /\ ~WellFormed(image)
    \/ d = s /\ ~Disjoint(image)
Converted(encode) == IF encode THEN "file" ELSE "host"
Convert(d, s, encode) ==
    /\ mem' = xfct(mem, Base(d), Base(s), Size, encode, image.type, image.class)
    /\ form' = Held(d, s, IF Spoils(d, s, encode) THEN "none" ELSE Converted(encode))

Call(op, d, rc) == /\ calls < MaxCalls /\ calls' = calls + 1
                   /\ res' = [op |-> op, dest |-> d, rc |-> rc]
                   /\ UNCHANGED <<image, shift>>

Notelike(type) == type \in {"NHDR", "NHDR8"}
Unfit(op, dsize, data) ==
    \/ /\ Size % recsize(image.type, image.class) # 0
       /\ ~(op = "xlatetom" /\ Notelike(image.type))
    \/ Size > dsize
    \/ data \notin {"LSB", "MSB"}
xlate(op, d, s, dsize, data) ==
    /\ form[s] = IF op = "xlatetof" THEN "host" ELSE "file"
    /\ \/ /\ Unfit(op, dsize, data)
          /\ Call(op, d, "refused") /\ UNCHANGED <<mem, form>>
       \/ /\ ~Unfit(op, dsize, data) /\ data = "LSB" /\ Call(op, d, "ok")
          /\ mem' = memmove(mem, Base(d), Base(s), Size)
          /\ form' = [Held(d, s, form[s]) EXCEPT ![d] = form[s]]
       \/ /\ ~Unfit(op, dsize, data) /\ data = "MSB" /\ Call(op, d, "ok")
          /\ Convert(d, s, op = "xlatetof")
elfw2_xlatetom(d, s, dsize, data) == xlate("xlatetom", d, s, dsize, data)
elfw2_xlatetof(d, s, dsize, data) == xlate("xlatetof", d, s, dsize, data)

\* elf_getdata() and elf_update() call the functions themselves, from one
\* block to another.
convert_data(d, s) ==
    /\ Apart /\ d # s /\ form[s] = "file"
    /\ Convert(d, s, FALSE) /\ Call("getdata", d, "ok")
write_data(d, s) ==
    /\ Apart /\ d # s /\ form[s] = "host"
    /\ Convert(d, s, TRUE) /\ Call("update", d, "ok")

Init ==
    /\ image \in Images /\ shift \in {n \in Shifts : n <= Len(image.bytes)}
                                      \cup {Len(image.bytes) + FENCE}
    /\ \E f \in {"host", "file"} :
         LET bytes == IF f = "host" THEN image.bytes ELSE Foreign(image) IN
         /\ form = [A |-> f, B |-> "none"]
         /\ mem = [k \in 1..2 * (Size + 2 * FENCE) |->
                     IF k - FENCE \in 1..Size THEN bytes[k - FENCE] ELSE Junk]
    /\ res = [op |-> "none", dest |-> "B", rc |-> "ok"] /\ calls = 0

Next == \E d, s \in {"A", "B"} :
    \/ \E dsize \in {Size - 1, Size}, data \in {"LSB", "MSB", "NONE"} :
         \/ elfw2_xlatetom(d, s, dsize, data)
         \/ elfw2_xlatetof(d, s, dsize, data)
    \/ convert_data(d, s)
    \/ write_data(d, s)

Spec == Init /\ [][Next]_vars

-----------------------------------------------------------------------------
(* Properties.                                                             *)

\* A table that is whole is, after any conversions in any buffers, byte for
\* byte what the program or the file has.
Translated ==
    WellFormed(image) => \A b \in {"A", "B"} :
        /\ form[b] = "host" => Buffer(mem, b) = image.bytes
        /\ form[b] = "file" => Buffer(mem, b) = Foreign(image)

\* In a table that is not whole the records before the damage are right:
\* gelf_getnote() finds the same notes, and every definition is right up to
\* the first one that lacks an auxiliary record.
SameNotes(bytes, al) ==
    LET due == Notes(image.bytes, 0, al).at IN
    /\ due \subseteq Notes(bytes, 0, al).at
    /\ \A o \in due, k \in 1..12 : bytes[o + k] = image.bytes[o + k]
SameVersions(bytes, c) ==
    LET defs == Chain(image.bytes, 0, c.next_at, Total(c.def)).at
        before == {d \in defs : \A p \in defs : p < d => AuxChain(image.bytes, c, p).ok}
        due == UNION {FieldsAt(d, c.def) \cup
                      UNION {FieldsAt(o, c.aux) : o \in AuxChain(image.bytes, c, d).at} :
                      d \in before} IN
    \A f \in due, k \in DOMAIN bytes : Covers(f, k) => bytes[k] = image.bytes[k]
WalksAgree ==
    \A b \in {"A", "B"} : form[b] = "host" =>
        CASE image.type = "NHDR"  -> SameNotes(Buffer(mem, b), 4)
          [] image.type = "NHDR8" -> SameNotes(Buffer(mem, b), 8)
          [] image.type = "VDEF"  -> SameVersions(Buffer(mem, b), Verdef)
          [] image.type = "VNEED" -> SameVersions(Buffer(mem, b), Verneed)
          [] OTHER -> TRUE

\* A conversion that is refused changes nothing, and one that is made
\* nothing outside its destination, be the table damaged as it may.
Confined ==
    [][\A k \in DOMAIN mem : mem'[k] # mem[k] =>
         res'.rc = "ok" /\ k \in Base(res'.dest)..Base(res'.dest) + Size - 1]_vars
=============================================================================

---------------------------- MODULE MCTranslate -----------------------------
(* Translate on small tables of every kind, whole and damaged.             *)
EXTENDS Translate

\* A number in w bytes, the low one first.
Le(v, w) == [i \in 1..w |-> IF v = -1 THEN 255 ELSE IF i = 1 THEN v % 256 ELSE IF i = 2 THEN v \div 256 ELSE 0]
Flat(fields) == FoldLeft(LAMBDA acc, f : acc \o Le(f[1], f[2]), << >>, fields)
T(type, class, bytes) == [type |-> type, class |-> class, bytes |-> bytes]
Count(n) == [i \in 1..n |-> i]

Arrays ==
    { T("BYTE", 32, Count(3)), T("HALF", 32, Count(6)), T("HALF", 64, Count(5)),
      T("WORD", 64, Count(12)), T("WORD", 32, Count(10)), T("ADDR", 64, Count(16)),
      T("SYM", 32, Count(32)), T("SYM", 64, Count(24)), T("SYM", 32, Count(20)),
      T("REL", 32, Count(16)),
      T("CHDR", 32, Count(15)), T("CHDR", 64, Count(24)), T("CHDR", 64, Count(10)),
      T("GNUHASH", 32, Count(8)) }

Hash(words, n) == Flat(<< <<1, 4>>, <<1, 4>>, <<words, 4>>, <<6, 4>> >>) \o Count(n)
Hashes == { T("GNUHASH", 64, Hash(w, n)) : w \in {0, 1, -1}, n \in {0, 8, 14, 16} }
          \cup {T("GNUHASH", 64, Count(10))}

\* A note with that name and description, padded.
Note(namesz, descsz, n) == Flat(<< <<namesz, 4>>, <<descsz, 4>>, <<3, 4>> >>) \o Count(n)
NoteTables ==
    { Note(4, 4, 8), Note(0, 0, 0), Note(5, 0, 8), Note(4, 4, 8) \o Note(1, 3, 8),
      Note(4, 4, 8) \o Note(4, 8, 4), Note(4, 1, 5), Note(-1, 4, 8), Note(4, -1, 8),
      Note(0, 0, 0) \o <<0, 0, 0, 1>> \o Note(0, 0, 0), Note(4, 4, 8) \o Count(7) }
Notes8 == { Note(4, 4, 12), Note(4, 8, 12) \o Note(4, 4, 12), Note(4, 4, 8) }
NoteImages == {T("NHDR", 64, n) : n \in NoteTables} \cup {T("NHDR8", 64, n) : n \in Notes8}

Def(aux, next) == Flat(<< <<1, 2>>, <<2, 2>>, <<3, 2>>, <<1, 2>>, <<77, 4>>, <<aux, 4>>, <<next, 4>> >>)
DefAux(next) == Flat(<< <<9, 4>>, <<next, 4>> >>)
Defs ==
    { Def(20, 0) \o DefAux(0),
      Def(20, 28) \o DefAux(0) \o Def(20, 0) \o DefAux(0),
      Def(20, 0) \o DefAux(8) \o DefAux(0),
      Def(40, 20) \o Def(28, 0) \o DefAux(0) \o DefAux(0),
      Def(40, 20) \o Def(20, 0) \o DefAux(0),           \* one for two
      Def(300, 0) \o DefAux(0), Def(20, 28) \o DefAux(300) \o Def(20, 0) \o DefAux(0),
      Def(20, -1) \o DefAux(0), Count(16) }
Need(aux, next) == Flat(<< <<1, 2>>, <<1, 2>>, <<5, 4>>, <<aux, 4>>, <<next, 4>> >>)
NeedAux(next) == Flat(<< <<88, 4>>, <<0, 2>>, <<4, 2>>, <<9, 4>>, <<next, 4>> >>)
Needs ==
    { Need(16, 0) \o NeedAux(0), Need(16, 0) \o NeedAux(16) \o NeedAux(0),
      Need(16, 32) \o NeedAux(0) \o Need(16, 0) \o NeedAux(0),
      Need(16, 32) \o NeedAux(0) \o Need(200, 0) \o NeedAux(0) }
Versions == {T("VDEF", 64, x) : x \in Defs} \cup {T("VNEED", 32, x) : x \in Needs}

MCAll == Arrays \cup Hashes \cup NoteImages \cup Versions
=============================================================================

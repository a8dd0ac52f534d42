----------------------------- MODULE ExtentList -----------------------------
(***************************************************************************)
(* The list of extents elf_update() builds while it lays an object out     *)
(* (struct _Elf_Extent and its list): the search for a free place, and the *)
(* insertion.  An extent covers the offsets start .. start + size - 1.     *)
(* Offsets are uint64_t in the code: sums are taken modulo Word.           *)
(***************************************************************************)
EXTENDS Integers, Sequences

CONSTANT Word    \* 2^64, or a small stand-in

ASSUME WordAssumption == Word \in Nat \ {0}

\* ex_start + ex_size, the way the code computes it.
End(x) == (x.start + x.size) % Word

\* Mutant: a neighbour is skipped when it only starts before s does.
StopsAtStart(list, start, k) ==
  /\ k \in 0 .. Len(list)
  /\ \A i \in 1 .. k : list[i].start <= start
  /\ k < Len(list) => list[k + 1].start > start

\* The loop of _libelf_extent_is_unused() passes the first k extents, which
\* lie before start, and no more; list[k] is what it calls pt.
StopsAt(list, start, k) ==
  /\ k \in 0 .. Len(list)
  /\ \A i \in 1 .. k : End(list[i]) <= start
  /\ k < Len(list) => End(list[k + 1]) > start

\* Mutant: touching extents are taken to overlap.
IsUnusedStrict(list, x, k) ==
  StopsAt(list, x.start, k) /\ (k < Len(list) => End(x) < list[k + 1].start)

\* The loop ends with the range of x free, k extents before it.
IsUnused(list, x, k) ==
  /\ StopsAt(list, x.start, k)
  /\ k < Len(list) => End(x) <= list[k + 1].start

\* SLIST_INSERT_AFTER() the k-th extent; k = 0 is SLIST_INSERT_HEAD().
InsertAfter(list, k, x) ==
  [i \in 1 .. Len(list) + 1 |->
     IF i <= k THEN list[i] ELSE IF i = k + 1 THEN x ELSE list[i - 1]]
=============================================================================

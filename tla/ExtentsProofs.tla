--------------------------- MODULE ExtentsProofs ----------------------------
(***************************************************************************)
(* Proofs about Extents: as long as no range wraps round, the list of      *)
(* extents is sorted and disjoint and only overlaps are refused, whatever  *)
(* the ranges and the order of the insertions.                             *)
(***************************************************************************)
EXTENDS Extents, TLAPS

IInv == TypeOK /\ SortedDisjoint /\ RefusalJustified

\* The wrapped end of a range that does not wrap is its end.
LEMMA EndExact ==
  ASSUME NoWrap, NEW r \in Request
  PROVE  /\ r.start \in Nat /\ r.size \in Nat /\ 0 < r.size
         /\ End(r) = r.start + r.size
  <1>1. r \in [start: Nat, size: Nat] /\ 0 < r.size
    BY RequestAssumption
  <1>2. r.start \in Nat /\ r.size \in Nat
    BY <1>1
  <1>3. r.start + r.size < Word
    BY DEF NoWrap
  <1>4. (r.start + r.size) % Word = r.start + r.size
    BY <1>2, <1>3, WordAssumption
  <1> QED  BY <1>1, <1>2, <1>4 DEF End

\* The list after an insertion: its length, its elements, its type.
LEMMA InsertShape ==
  ASSUME NEW list \in Seq(Request), NEW x \in Request,
         NEW k \in 0 .. Len(list)
  PROVE  /\ InsertAfter(list, k, x) \in Seq(Request)
         /\ Len(InsertAfter(list, k, x)) = Len(list) + 1
         /\ \A i \in 1 .. Len(list) + 1 :
              /\ i <= k => InsertAfter(list, k, x)[i] = list[i]
              /\ i = k + 1 => InsertAfter(list, k, x)[i] = x
              /\ i > k + 1 => InsertAfter(list, k, x)[i] = list[i - 1]
  <1> DEFINE n == Len(list) + 1
             new == InsertAfter(list, k, x)
  <1>1. n \in Nat /\ Len(list) \in Nat
    OBVIOUS
  <1>2. \A i \in 1 .. Len(list) : list[i] \in Request
    OBVIOUS
  <1>3. ASSUME NEW i \in 1 .. n
        PROVE  (IF i <= k THEN list[i] ELSE IF i = k + 1 THEN x
                ELSE list[i - 1]) \in Request
    <2>1. CASE i <= k
      BY <2>1, <1>2
    <2>2. CASE i = k + 1
      BY <2>2
    <2>3. CASE i > k + 1
      <3>1. i - 1 \in 1 .. Len(list)
        BY <2>3
      <3> QED  BY <2>3, <3>1, <1>2
    <2> QED  BY <2>1, <2>2, <2>3
  <1>4. new \in [1 .. n -> Request]
    BY <1>3 DEF InsertAfter
  <1>5. new \in Seq(Request) /\ Len(new) = n
    BY <1>1, <1>4
  <1>6. ASSUME NEW i \in 1 .. n
        PROVE  /\ i <= k => new[i] = list[i]
               /\ i = k + 1 => new[i] = x
               /\ i > k + 1 => new[i] = list[i - 1]
    BY DEF InsertAfter
  <1> QED  BY <1>5, <1>6

\* _libelf_insert_extent() into a free place keeps the list sorted.
LEMMA InsertSorted ==
  ASSUME NoWrap, TypeOK, SortedDisjoint,
         NEW x \in Request, NEW k \in 0 .. Len(extents),
         IsUnused(extents, x, k),
         extents' = InsertAfter(extents, k, x)
  PROVE  SortedDisjoint'
  <1>1. extents \in Seq(Request)
    BY DEF TypeOK
  <1>2. Len(extents') = Len(extents) + 1
    BY <1>1, InsertShape
  <1>3. \A i \in 1 .. Len(extents) : extents[i] \in Request
    BY <1>1
  <1>4. \A i \in 1 .. k : extents[i].start + extents[i].size <= x.start
    <2> TAKE i \in 1 .. k
    <2>1. End(extents[i]) <= x.start
      BY DEF IsUnused, StopsAt
    <2>2. extents[i] \in Request
      BY <1>3, <1>1
    <2> QED  BY <2>1, <2>2, EndExact
  <1>5. \A j \in k + 1 .. Len(extents) :
           x.start + x.size <= extents[j].start
    <2> TAKE j \in k + 1 .. Len(extents)
    <2>1. k < Len(extents) /\ k + 1 \in 1 .. Len(extents)
      BY <1>1
    <2>2. End(x) <= extents[k + 1].start
      BY <2>1 DEF IsUnused
    <2>3. x.start + x.size <= extents[k + 1].start
      BY <2>2, EndExact
    <2>4. CASE j = k + 1
      BY <2>3, <2>4
    <2>5. CASE j > k + 1
      <3>1. extents[k + 1].start + extents[k + 1].size <= extents[j].start
        BY <2>1, <2>5, <1>1 DEF SortedDisjoint
      <3>2. extents[k + 1] \in Request /\ extents[j] \in Request
        BY <2>1, <1>3, <1>1
      <3>3. /\ extents[k + 1].start \in Nat /\ extents[k + 1].size \in Nat
            /\ extents[j].start \in Nat /\ x.start \in Nat /\ x.size \in Nat
        BY <3>2, EndExact
      <3> QED  BY <3>1, <3>3, <2>3
    <2> QED  BY <2>4, <2>5, <1>1
  <1>6. ASSUME NEW i \in 1 .. Len(extents) + 1,
               NEW j \in 1 .. Len(extents) + 1, i < j
        PROVE  extents'[i].start + extents'[i].size <= extents'[j].start
    <2>0. /\ i <= k => extents'[i] = extents[i]
          /\ i = k + 1 => extents'[i] = x
          /\ i > k + 1 => extents'[i] = extents[i - 1]
          /\ j <= k => extents'[j] = extents[j]
          /\ j = k + 1 => extents'[j] = x
          /\ j > k + 1 => extents'[j] = extents[j - 1]
      BY <1>1, InsertShape
    <2>1. CASE j <= k
      BY <2>0, <2>1, <1>6, <1>1 DEF SortedDisjoint
    <2>2. CASE j = k + 1
      BY <2>0, <2>2, <1>6, <1>4
    <2>3. CASE j > k + 1 /\ i <= k
      <3>1. /\ i \in 1 .. Len(extents) /\ j - 1 \in 1 .. Len(extents)
            /\ i < j - 1
        BY <2>3, <1>1
      <3> QED  BY <2>0, <2>3, <3>1 DEF SortedDisjoint
    <2>4. CASE j > k + 1 /\ i = k + 1
      <3>1. j - 1 \in k + 1 .. Len(extents)
        BY <2>4, <1>1
      <3> QED  BY <2>0, <2>4, <3>1, <1>5
    <2>5. CASE j > k + 1 /\ i > k + 1
      <3>1. /\ i - 1 \in 1 .. Len(extents) /\ j - 1 \in 1 .. Len(extents)
            /\ i - 1 < j - 1
        BY <2>5, <1>6, <1>1
      <3> QED  BY <2>0, <2>5, <3>1 DEF SortedDisjoint
    <2> QED  BY <2>1, <2>2, <2>3, <2>4, <2>5, <1>1
  <1> QED  BY <1>2, <1>6 DEF SortedDisjoint

\* A range _libelf_extent_is_unused() refuses does overlap an extent.
LEMMA RefusedOverlaps ==
  ASSUME NoWrap, TypeOK, NEW x \in Request, NEW k \in 0 .. Len(extents),
         StopsAt(extents, x.start, k), ~IsUnused(extents, x, k)
  PROVE  \E i \in 1 .. Len(extents) : Overlap(x, extents[i])
  <1>1. extents \in Seq(Request) /\ Len(extents) \in Nat
    BY DEF TypeOK
  <1>2. k < Len(extents) /\ ~(End(x) <= extents[k + 1].start)
    BY DEF IsUnused
  <1>3. k + 1 \in 1 .. Len(extents) /\ extents[k + 1] \in Request
    BY <1>1, <1>2
  <1>4. End(extents[k + 1]) > x.start
    BY <1>2 DEF StopsAt
  <1>5. Overlap(x, extents[k + 1])
    BY <1>2, <1>3, <1>4, EndExact DEF Overlap
  <1> QED  BY <1>3, <1>5

\* IInv is inductive.
LEMMA Step ==
  ASSUME NoWrap, IInv, [Next]_vars
  PROVE  IInv'
  <1> USE DEF IInv
  <1>0. extents \in Seq(Request)
    BY DEF TypeOK
  <1>1. ASSUME NEW x \in Request, insert_extent(x)
        PROVE  IInv'
    <2>1. PICK k \in 0 .. Len(extents) :
            /\ StopsAt(extents, x.start, k)
            /\ \/ /\ ~IsUnused(extents, x, k)
                  /\ status' = "LAYOUT" /\ UNCHANGED extents
               \/ /\ IsUnused(extents, x, k)
                  /\ status' = "RESOURCE" /\ UNCHANGED extents
               \/ /\ IsUnused(extents, x, k)
                  /\ extents' = InsertAfter(extents, k, x)
                  /\ UNCHANGED status
      BY <1>1 DEF insert_extent
    <2>2. last' = x /\ status = "building"
      BY <1>1 DEF insert_extent
    <2>3. CASE ~IsUnused(extents, x, k) /\ status' = "LAYOUT"
               /\ UNCHANGED extents
      <3>1. \E i \in 1 .. Len(extents) : Overlap(x, extents[i])
        BY <2>1, <2>3, RefusedOverlaps
      <3>2. RefusalJustified'
        BY <3>1, <2>2, <2>3 DEF RefusalJustified
      <3>3. SortedDisjoint'
        BY <2>3 DEF SortedDisjoint
      <3> QED  BY <3>2, <3>3, <2>2, <2>3 DEF TypeOK
    <2>4. CASE status' = "RESOURCE" /\ UNCHANGED extents
      BY <2>2, <2>4 DEF TypeOK, SortedDisjoint, RefusalJustified
    <2>5. CASE IsUnused(extents, x, k)
               /\ extents' = InsertAfter(extents, k, x) /\ UNCHANGED status
      <3>1. SortedDisjoint'
        BY <2>5, InsertSorted
      <3>2. extents' \in Seq(Request)
        BY <2>5, <1>0, InsertShape
      <3>3. RefusalJustified'
        BY <2>2, <2>5 DEF RefusalJustified
      <3> QED  BY <3>1, <3>2, <3>3, <2>2, <2>5 DEF TypeOK
    <2> QED  BY <2>1, <2>3, <2>4, <2>5
  <1>2. CASE release_extents
    BY <1>2 DEF release_extents, TypeOK, SortedDisjoint, RefusalJustified
  <1>3. CASE UNCHANGED vars
    BY <1>3 DEF vars, TypeOK, SortedDisjoint, RefusalJustified
  <1> QED  BY <1>1, <1>2, <1>3 DEF Next

\* The invariant holds of every behaviour, as long as no range wraps round.
LEMMA Invariance ==
  ASSUME NoWrap
  PROVE  Spec => []IInv
  <1>1. Init => IInv
    BY DEF Init, IInv, TypeOK, SortedDisjoint, RefusalJustified
  <1>2. IInv /\ [Next]_vars => IInv'
    BY Step
  <1> QED  BY <1>1, <1>2, PTL DEF Spec

\* Whatever the ranges elf_update() asks for, as long as none wraps round: the
\* list it writes the file from is sorted and disjoint.
THEOREM ExtentsCorrect ==
  ASSUME NoWrap
  PROVE  Spec => []SortedDisjoint
  <1>1. IInv => SortedDisjoint
    BY DEF IInv
  <1> QED  BY <1>1, Invariance, PTL

\* ELF_E_LAYOUT is only reported for a range that overlaps an extent of the
\* list: a range that fits a gap is never refused.
THEOREM RefusalsJustified ==
  ASSUME NoWrap
  PROVE  Spec => []RefusalJustified
  <1>1. IInv => RefusalJustified
    BY DEF IInv
  <1> QED  BY <1>1, Invariance, PTL
=============================================================================

------------------------------ MODULE Extents -------------------------------
(***************************************************************************)
(* One call of elf_update() seen from its list of extents: requests to     *)
(* insert the extents of the object in any order, until one is refused or  *)
(* the call ends, when the list is released.                               *)
(***************************************************************************)
EXTENDS ExtentList

CONSTANTS
  Request,     \* the ranges the layout may ask for: [start, size]
  MaxExtents   \* bound on the length of the list

\* resync_elf() and resync_sections() never ask for an empty extent.
ASSUME RequestAssumption ==
  \A r \in Request : /\ r \in [start: Nat, size: Nat]
                     /\ r.start < Word /\ 0 < r.size /\ r.size < Word
ASSUME MaxExtentsAssumption == MaxExtents \in Nat

VARIABLES
  extents,   \* the list
  status,    \* "building", or why the last insertion was refused
  last       \* the last request

vars == <<extents, status, last>>

TypeOK ==
  /\ extents \in Seq(Request)
  /\ status \in {"building", "LAYOUT", "RESOURCE"}
  /\ last \in Request

Init == extents = <<>> /\ status = "building" /\ last \in Request

\* _libelf_insert_extent(), with its three exits.
insert_extent(x) ==
  /\ status = "building"
  /\ Len(extents) < MaxExtents
  /\ last' = x
  /\ \E k \in 0 .. Len(extents) :
       /\ StopsAt(extents, x.start, k)
       /\ \/ /\ ~IsUnused(extents, x, k)
             /\ status' = "LAYOUT" /\ UNCHANGED extents
          \/ /\ IsUnused(extents, x, k)
             /\ status' = "RESOURCE" /\ UNCHANGED extents
          \/ /\ IsUnused(extents, x, k)
             /\ extents' = InsertAfter(extents, k, x) /\ UNCHANGED status

\* elf_update() ends, whatever happened, in _libelf_release_extents().
release_extents ==
  /\ extents' = <<>>
  /\ status' = "building"
  /\ UNCHANGED last

Next == (\E x \in Request : insert_extent(x)) \/ release_extents

Spec == Init /\ [][Next]_vars
-----------------------------------------------------------------------------
(* Properties.                                                             *)

\* No request runs past the end of the offsets: start + size < 2^64.
NoWrap == \A r \in Request : r.start + r.size < Word

Overlap(x, y) == x.start < y.start + y.size /\ y.start < x.start + x.size

\* The list is in the order of ascending addresses and no two extents share
\* an offset, in whatever order they were inserted: _libelf_write_elf()
\* writes them in list order and each extent begins where it left off or
\* later (assert(rc < nrc)).
SortedDisjoint ==
  \A i, j \in 1 .. Len(extents) : i < j =>
    extents[i].start + extents[i].size <= extents[j].start

\* ELF_E_LAYOUT means what it says: the refused range does overlap an
\* extent of the list.  A range that fits a gap is never refused.
RefusalJustified ==
  status = "LAYOUT" =>
    \E i \in 1 .. Len(extents) : Overlap(last, extents[i])
=============================================================================

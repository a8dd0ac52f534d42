----------------------------- MODULE MCExtents ------------------------------
(* Instances of Extents over a small range of offsets.                     *)
EXTENDS Extents

\* Every range inside 0 .. Word - 1.
MCRequest ==
  {r \in [start: 0 .. Word - 1, size: 1 .. Word - 1] :
     r.start + r.size < Word}
=============================================================================

--------------------------- MODULE ElfObjectDocs ---------------------------
(***************************************************************************)
(* What a comment of the library says of an object and its code does not   *)
(* keep: a short sequence of legal calls violates it.                      *)
(***************************************************************************)
EXTENDS ElfObject

\* elf_update() releases sections and headers so that a subsequent
\* elf_getscn() functions correctly: it fails only for an index that the
\* object does not have.
GetscnWorks ==
  result.op = "elf_getscn" /\ result.err = "ARGUMENT" =>
    e.class = "NONE" \/ result.arg >= e.nscn
============================================================================

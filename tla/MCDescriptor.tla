---------------------------- MODULE MCDescriptor ----------------------------
(***************************************************************************)
(* Instances of Descriptor: a few descriptors, and a small world of files. *)
(* "lib" is an archive whose members are an ELF object, an archive and     *)
(* bytes of no known kind; "inner" is that archive.                        *)
(***************************************************************************)
EXTENDS Descriptor, TLC

CONSTANTS f1, f2, h1, h2, h3, none, null

MCShape ==
  [lib |-> "ar", inner |-> "ar", obj |-> "elf", text |-> "other",
   torn |-> "badar", future |-> "badversion", ident |-> "badident",
   nil |-> "empty", dir |-> "directory", stub |-> "badheader"]

MCImage == DOMAIN MCShape

\* The archives of the safety runs.
MCMembers ==
  [i \in MCImage |-> CASE i = "lib"   -> <<"inner", "text">>
                       [] i = "inner" -> <<"obj">>
                       [] OTHER       -> <<>>]

\* An archive of members that elf_begin() refuses.
MCBadMembers ==
  [i \in MCImage |-> CASE i = "lib"   -> <<"torn", "stub", "nil", "inner">>
                       [] i = "inner" -> <<"text">>
                       [] OTHER       -> <<>>]

MCSymtab ==
  [i \in MCImage |-> CASE i = "lib"   -> "good"
                       [] i = "inner" -> "malformed"
                       [] OTHER       -> "absent"]

MCFiles == (f1 :> "lib") @@ (f2 :> "obj")
MCOddFiles == (f1 :> "torn") @@ (f2 :> "dir")

\* No action reads err, so states that differ in it only have the same
\* future.
NoErr == <<version, elf, heap, held, closing>>
Symmetry == Permutations({h1, h2, h3})
=============================================================================

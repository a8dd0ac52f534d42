--------------------------- MODULE MCEuDescriptor ---------------------------
(* An archive with an archive in it, which has an object that is truncated, *)
(* and with a table of long names whose header lacks a size.  The magic, a  *)
(* header and the ELF ident are 2 bytes here, an ELF header is 4.           *)
(*                                                                          *)
(*    0 magic                                                               *)
(*    2 header   4 archive, 10 bytes: 4 magic   6 header   8 object         *)
(*   14 "//" header, blank                                                  *)
EXTENDS EuDescriptor, TLC

Hdr(n, s) == [name |-> n, size |-> s]
MCHdrAt == 2 :> Hdr("long", 10) @@ 6 :> Hdr("plain", 9) @@ 14 :> Hdr("special", -1)
MCKindAt == 0 :> "AR" @@ 4 :> "AR" @@ 8 :> "ELF"
=============================================================================

---------------------------- MODULE MCElfObject -----------------------------
(* Instances of ElfObject.                                                 *)
EXTENDS ElfObjectDocs, TLC

FormOf(form, names) == [k \in DOMAIN names |-> <<form, names[k]>>]
HeaderCells(n) == Cells(n, <<"header", "">>)

\* A file with a program header, a section of bytes and one of objects that
\* are two cells long.
MCFile ==
  [ehdr |-> [NewEhdr EXCEPT !.phoff = 2, !.phnum = 1, !.shoff = 8,
               !.shnum = 3, !.shstrndx = 1, !.shentsize = 1, !.data = "MSB"],
   phtab |-> (2 :> "set"),
   shtab |-> (8 :> NoShdr)
        @@ (9 :> [NoShdr EXCEPT !.type = "PROGBITS", !.off = 3, !.size = 2,
                                !.align = 1])
        @@ (10 :> [NoShdr EXCEPT !.type = "SYMTAB", !.off = 6, !.size = 2,
                                 !.align = 2]),
   bytes |-> HeaderCells(3) \o FormOf("byte", <<"x", "y">>) \o <<Fill>>
        \o FormOf("MSB", <<"s", "t">>) \o HeaderCells(3)]

New == {[cmd |-> "WRITE", mem |-> "none", file |-> Empty]}
Existing(cmds, mems) == [cmd: cmds, mem: mems, file: {MCFile}]

\* Data descriptors as an application fills them in.
Bytes(names, align, off) ==
  [type |-> "BYTE", size |-> Len(names), align |-> align, off |-> off,
   buf |-> FormOf("byte", names)]
Syms(names, align, off) ==
  [type |-> "SYM", size |-> Len(names), align |-> align, off |-> off,
   buf |-> FormOf("LSB", names)]

BuildCalls == {"gelf_newehdr", "gelf_update_ehdr", "elf_newscn", "elf_newdata",
               "gelf_update_shdr", "edit", "elf_update", "gelf_newphdr",
               "elf_setshstrndx"}
BuildEhdr == {[data |-> "MSB"]}
BuildShdr == {[type |-> "PROGBITS"], [type |-> "NOBITS"]}
BuildData == {Bytes(<<"a">>, 1, 0), Syms(<<"b", "c">>, 2, 0),
              Bytes(<<"d">>, 4, 0)}

\* An object that exists is opened, looked at, edited and written again,
\* with the system calls of elf_update() failing now and then.
EditCalls == {"elf_getscn", "elf_getdata", "elf_newdata", "edit", "elf_flagscn",
              "elf_update", "elf_update NULL", "gelf_getphdr", "elf_cntl"}
EditOpened == Existing({"RDWR"}, {"malloc", "mmap"})
EditNew == {Bytes(<<"a", "b">>, 1, 0)}
AllIo == {"ok", "ftruncate", "write", "mmap"}

\* ... and sections and program headers are added to it.
GrowCalls == {"elf_getscn", "elf_getdata", "elf_rawdata", "elf_newscn", "elf_newdata",
              "edit", "gelf_update_shdr", "gelf_newphdr", "gelf_getphdr",
              "gelf_update_phdr", "elf64_getphdr", "elf_update"}
GrowOpened == Existing({"READ", "RDWR"}, {"malloc"})
GrowShdr == {[type |-> "SYMTAB"]}
GrowNew == {Syms(<<"u", "v">>, 2, 0)}

\* The application places everything itself.
LayoutCalls == {"gelf_newehdr", "gelf_update_ehdr", "elf_flagelf", "elf_newscn",
                "gelf_update_shdr", "elf_newdata", "edit", "elf_update",
                "gelf_newphdr"}
LayoutEhdr == {[data |-> "LSB", phoff |-> 2, shoff |-> o] : o \in {6, 7, 8}}
LayoutShdr == {[type |-> "PROGBITS", align |-> 2, off |-> o, size |-> 2] :
                 o \in {3, 4, 6}}
LayoutData == {Bytes(<<"a", "b">>, 2, 1), Bytes(<<"b">>, 1, 1),
               Bytes(<<"a", "b">>, 2, 0)}

\* A short scenario, for the property of ElfObjectDocs.
ReadCalls == {"elf_getscn", "elf_update"}
RdwrOpened == Existing({"RDWR"}, {"malloc"})

\* Everything an application may do, of which each program does a part.
Program == [calls |-> {}, opened |-> New, class |-> {"64"}, ehdr |-> {}, shdr |-> {},
            data |-> {}, strndx |-> {}, layout |-> {}, io |-> {"ok"},
            scns |-> 2, datas |-> 1, phdrs |-> 1, writes |-> 1]
Build == [Program EXCEPT !.calls = BuildCalls, !.class = {"32", "64"},
            !.ehdr = BuildEhdr, !.shdr = BuildShdr, !.data = BuildData,
            !.strndx = {1}, !.scns = 3, !.datas = 2]
Layout == [Program EXCEPT !.calls = LayoutCalls, !.ehdr = LayoutEhdr,
            !.shdr = LayoutShdr, !.data = LayoutData, !.layout = {TRUE}, !.scns = 3]
Edit == [Program EXCEPT !.calls = EditCalls, !.opened = EditOpened, !.data = EditNew,
            !.io = AllIo, !.datas = 2, !.writes = 2]
Grow == [Program EXCEPT !.calls = GrowCalls, !.opened = GrowOpened, !.shdr = GrowShdr,
            !.data = GrowNew, !.scns = 4]
NewPrograms == [build |-> Build, layout |-> Layout]
OldPrograms == [edit |-> Edit, grow |-> Grow]

Get == [Program EXCEPT !.calls = ReadCalls, !.opened = RdwrOpened, !.writes = 2]
GetPrograms == [get |-> Get]

\* No action but Stopped reads result.
NoResult == <<program, e, file, writes, Running>>
=============================================================================

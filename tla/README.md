# TLA+ models of two libelf implementations

libelf reads, builds and rewrites ELF objects and reads ar(1) archives. The
repository holds two implementations of the interface: the one of elftoolchain
under `src/elftoolchain_libelf/libelf/` and the one of elfutils under
`src/elfutils_libelf/libelf/`. This directory models both: the modules, the TLC
configurations that check them on small instances, and TLAPS proofs. A file
name below is one of the library that its section is about; manual pages are
the `.3` files beside elftoolchain's code.

Both libraries are sequential (elfutils is built without `USE_LOCKS`,
`config.h:108`) and keep no state on disk but the file they write. What is hard
about them is not concurrency but *sequences of calls*: descriptors that are
reference counted and nested, headers and data that are read lazily and cached,
several pointers that may or may not be the same block, a layout that is
computed in place and may be computed again, a file that is written in pieces or
truncated first, and failures in the middle of all that.

## 1. The system

### elftoolchain

| Part | State | Operations | Interacts with |
|---|---|---|---|
| Descriptors (`elf_begin.c`, `elf_end.c`, `elf_memory.c`, `elf_open.c`, `elf_cntl.c`, `libelf_allocate.c`, `libelf_memory.c`, `libelf_open.c`) | `struct _Elf`: kind, command, file descriptor, image and who owns it, activation count, parent, number of open members; library version and error | create, activate, close, give up the file descriptor | members borrow the bytes of their archive |
| Archives (`libelf_ar.c`, `libelf_ar_util.c`, `elf_next.c`, `elf_rand.c`, `elf_getarhdr.c`, `elf_getarsym.c`) | position `e_next`; cached archive header and symbol table | open a member, move on, jump | descriptors |
| Header caches (`libelf_ehdr.c`, `libelf_phdr.c`, `libelf_shdr.c`, `libelf_extended.c`, `gelf_*hdr.c`, `elf_phnum.c`, `elf_shnum.c`, `elf_shstrndx.c`) | executable header, program header table, the numbers `e_nphdr`, `e_nscn`, `e_strndx` | load, create, update; extended numbering in section header 0 | read by everything below |
| Sections and data (`elf_scn.c`, `elf_data.c`, `libelf_data.c`, `elf_flag.c`) | list of `Elf_Scn` with header, offset, size, original offset, dirty flag, translated and raw data descriptors | load, append, read data, add data, flag | lazily read from the image |
| `elf_update()` (`elf_update.c`) | list of extents during a call; the file | check and lay out, assemble the image, replace the file | rewrites the section headers and data offsets, releases sections afterwards |
| Translation (`libelf_xlate.c`, `gelf_xlate.c`, `libelf_convert.m4`, size tables) | none | swap and copy between file and memory form | data, headers |
| Entry accessors (`gelf_sym.c`, `gelf_rel.c`, ...) | none of their own | get or put one entry | data descriptors |
| `elf_strptr.c`, checksum, hash, error messages, getters | none of their own | compute a value | data descriptors |

### elfutils

| Part | State | Operations | Interacts with |
|---|---|---|---|
| Descriptors and archives (`elf_begin.c`, `elf_end.c`, `elf_next.c`, `elf_rand.c`, `elf_readall.c`, `elf_clone.c`, `elf_memory.c`, `elf_getarhdr.c`, `elf_getarsym.c`, `elf_rawfile.c`) | `struct Elf`: reference count, parent and list of children, start, size, where the bytes come from (a map of the file, a copy, `pread()`), position and header of the walk, long names, symbol index | create, duplicate, clone, read in whole, walk, close | a member takes its bytes from its archive's map or copy; closing one may close the archive |
| Headers, sections, `elf_update()` (`elf_getscn.c`, `elf_newscn.c`, `elf*_getshdr.c`, `elf*_newehdr.c`, `elf*_newphdr.c`, `elf*_updatenull.c`, `elf*_updatefile.c`, `elf_update.c`, `elf_flag*.c`, ...) | headers (a copy or a pointer into the map), blocks of sections, the data blocks of each, a dirty flag on every part, the size the file is known to have; the file | read in, create, change, lay out, write what is dirty, with `pwrite()` or through the map | contents |
| Contents (`elf_getdata.c`, `elf_rawdata.c`, `elf_newdata.c`, `elf_compress.c`, `elf_compress_gnu.c`, `elf_strptr.c`, `elf_getdata_rawchunk.c`, ...) | three buffers of a section: as in the file, as in memory, expanded; the list of data blocks; chunks | read in, convert, add, compress, expand, find a string | conversion; `elf_end()` frees what is the library's |
| Conversion (`gelf_xlate.c`, `elf32_xlatetom.c`, `elf32_xlatetof.c`, `note_xlate.h`, `version_xlate.h`, `gnuhash_xlate.h`, `chdr_xlate.h`) | none | convert a buffer in place, or into another one that may overlap it | called by the two above |
| Entry accessors (`gelf_getsym.c`, `gelf_update_sym.c`, ...) | none of their own | get or put one entry, mark the section | data blocks |
| checksum, hash, getters, constants of `elf.h` | none | | |

`src/example/` holds a few short clients.

### What makes each part correct

* **Descriptors and archives.** Nothing that a descriptor in use points at is
  freed, at any nesting and in any order of closing; nothing is forgotten;
  counts agree with the application's handles; a member shows its own bytes,
  however its archive comes by them; walking an archive is not disturbed by a
  header that cannot be read.
* **Extents.** The list stays sorted and free of overlap whatever the order of
  insertion, and only ranges that do overlap are refused.
* **Objects.** Everything laid out is disjoint, aligned and inside the size
  returned; computing a layout again changes nothing; a written file, opened
  again, holds what the descriptor held, whichever parts were written; a failed
  write can be repeated.
* **Contents.** Whatever is converted, added, compressed and expanded, the
  section means the same; every block is freed once; a pointer that was given
  out stays good as long as it is meant to.
* **Conversion.** To the file and back is the identity, in place, apart and
  overlapping, also for tables that tell themselves how long they are; nothing
  outside the destination is touched.
* **Entries.** Any index, offset and type is answered or refused without a look
  outside the buffer; what was put is what is got.

## 2. Modules

| Module | What it is |
|---|---|
| `Descriptor` | elftoolchain's descriptors and archives: one action per call, each turn of the loop in `elf_end()` a step of its own, over an explicit heap |
| `DescriptorProofs` | its inductive invariant and theorems |
| `MCDescriptor` | instances: a nested archive, plain objects, damaged images |
| `ExtentList` | the search and insertion of `elf_update.c`'s extent list, as operators with 64-bit wrap-around |
| `Extents`, `ExtentsProofs`, `MCExtents` | one call of `elf_update()` seen from that list, its theorem, its instances |
| `ElfObject` | one elftoolchain object: caches, sections, data, layout, image, file; uses `ExtentList` |
| `ElfObjectDocs` | what a manual page says of an object and the code does not keep |
| `ElfObjectProofs` | its inductive invariant and the theorems about its layouts |
| `MCElfObject` | instances of both: the programs `build`, `layout`, `edit`, `grow` |
| `Formats`, `EntryData` | the records of the ELF format; a data descriptor as the accessors see it |
| `GelfEntries`, `EuEntries` | the accessors of elftoolchain and of elfutils |
| `Entries`, `EntriesProofs`, `MCEntries` | an application that uses either; its theorems; instances |
| `Lifetime` | the abstract promise about descriptors: what is held is there, and an archive is there as long as one of its members; `Descriptor` and `EuDescriptor` implement it |
| `EuDescriptor`, `MCEuDescriptor` | elfutils' descriptors and archives; an instance |
| `EuDescriptorProofs` | their inductive invariant and theorems, with the refinement of `Lifetime` |
| `EuObject`, `MCEuObject` | one elfutils object with its headers, sections, layout and file; instances |
| `EuContents`, `MCEuContents` | the contents of one elfutils section; instances |
| `EuContentsProofs` | who owns which block of a section: the inductive invariant and its theorems |
| `EuContentsReadProofs` | what calls on a section read, and that strings and chunks stay |
| `EuContentsKeepProofs` | what compression that fails leaves as it was |
| `Translate`, `MCTranslate` | elfutils' conversion of tables; instances |

### Descriptor

`elf[h]` holds the fields of the `struct _Elf` at address `h`; `heap` the
allocated blocks as pairs of what it is and which descriptor it is for
(`"elf"` the struct, `"raw"` an image the library mapped or read, `"arhdr"` the
cached archive header, `"symtab"` the cached symbol table); `held[h]` how often
the application was given `h` and has not yet closed it; `closing` the variable
`e` of the loop in `elf_end()`. An application passes only descriptors it
holds. Images are abstracted to a `Shape`, what `_libelf_memory()` and
`_libelf_open_object()` tell apart (an ELF object, one of a future version, one
with a bad identification, an archive, a damaged one, ...), and archives to the
list of their members; an offset into an archive is the index of a member.
Memory exhaustion and failing system calls are alternatives of each call. The
error exits are the code's own: an archive that is refused by
`_libelf_ar_open()` leaves its descriptor behind, and one that is opened
`ELF_C_RDWR` leaves its image behind.

### ExtentList and Extents

`StopsAt` is the search loop of `_libelf_extent_is_unused()`, `IsUnused` its
verdict, `InsertAfter` the two list insertions; sums are taken modulo `Word`
(2^64 in the code). `Extents` inserts any requests in any order until one is
refused; the list is released at the end of the call. Empty extents are never
asked for: `_libelf_resync_sections()` skips them.

### ElfObject

The descriptor is the record `e`; `program` names what the application may do
(`may == Programs[program]`: its calls, headers, data, bounds). A file is a
sequence of cells, with the header records kept beside them by offset; a header
table entry takes one cell, the executable header two, an object of type `SYM`
two, and tables are aligned to two. A cell of data is a byte or a part of an
object in some byte order, so that a missing or superfluous byte swap is seen.
`Cell`, `Shdr`, `Header`, `Data` and `Section` are the types of these records, and
`ProgramsAssumption` says that what applications hand in is of them. A loop over
sections, data or extents is a function on an interval whose value at `k` is the
state after `k` turns, with the turn as an operator of its own (`ResyncOne`,
`MeasureOne`, `WriteOne`, `WriteExtent`). `Changed(d, x)` is the record `d` with the
fields that `x` sets.
Helpers carry the names of what they stand for: `Ehdr`, `LoadExtended`,
`LoadSections`, `Phdrs`, `GetData`, `RawData` load; `ComputeSection`,
`AddSections`, `AddEhdr`, `AddPhdr`, `AddShdr`, `Resync` lay out; `WriteScn`,
`WritePhdr`, `WriteShdr`, `Assemble` build the image; `Commit` replaces the file.
Each returns the new descriptor and an error; errors in `Fatal` are failed
assertions and memory errors, after which only stuttering is modelled.
`elf_update_write` is the whole of `elf_update(ELF_C_WRITE)`, with a choice of
which system call fails (a partial write leaves a file the model shows as
empty).

The two classes differ in the model only where the code treats them apart
(`gelf_newehdr()`, `elf64_getphdr()`).

### Formats, EntryData, GelfEntries, EuEntries, Entries

`Formats` lists the fields of each record with their widths, so that sizes,
and with them every index computation, are those of the code. A data descriptor
`d` has the class of the object, the type of the data and that of the section's
header, its size in bytes, the records stored at byte offsets, and the mark of
the section; `x` is the table of extended section indices beside a symbol table.
Storing a record over part of another destroys it. Numbers are small: 32-bit
words are below 4, and 64-bit ones below 16, so that the checks of the range of
single fields have both outcomes. `TcGets`, `TcUpdates`, `EuGets`, `EuUpdates` are the
calls, one operator of each library per group of accessors with the same code,
with the order of the checks, the assertions that fail and the
updates that stop in the middle. `Steps` is the order of the assignments of an
update of a 32-bit object in elftoolchain, `Made` how many of them are reached.
A record may have lost fields that were never stored (`DataOK`); an entry that an
application hands in has them all (`IsEntry`).

### EuDescriptor and Lifetime

The file is given by the headers and the images that begin at its offsets
(`HdrAt`, `KindAt`); offsets are numbers of units. `elf[h]` has `start`, `size`,
`offset` (the position of a walk) and `map`: where the bytes come from, and what
of the file that block begins with. A position counts from the beginning of the
file when `pread()` is used and from the beginning of the map or copy otherwise;
`FileOffset` converts, and `Relocated` is what `set_address()` does to every
descriptor below (`Below`, the least set with the children that is closed under
children) when `__libelf_readall()` makes a copy. `home[h]` is where the
image of `h` really is, which the code does not keep. `Destroy` is the end of
the last reference; the recursion of `elf_end()` to the archive is a step of its
own (`closing`). `fault` says how the process died: a failed assertion, a freed
parent, a walk of a list that does not have the member.

`Lifetime` knows only which descriptors there are, how often they are held and
which archive each belongs to. `Promise == INSTANCE Lifetime WITH ...` in
`EuDescriptor` maps a descriptor to alive when its struct is allocated, and a
clone to one without an archive, since a clone does not keep it. In `Descriptor` a
descriptor is alive when it is `Known`: allocated, and held by the application or
kept for open members. The struct of an archive that `_libelf_ar_open()` refused stays
allocated for ever and is no descriptor of the abstract system; the turns of the
loop in `elf_end()` that only look are stutters of it.

### EuObject

The file is an array of cells; a header of any kind takes one, a section's
contents one each byte. Headers and contents are either copies or
pointers into a map of the file (`ELF_C_RDWR_MMAP`), through which a change is in
the file at once. Every part has its dirty flag. `updatenull` is
`__elfw2(LIBELFBITS,updatenull_wrlock)()`, `NullPiece` one data block of it;
`updatefile` and `updatemmap` write what is dirty, the first with a choice of
the call of `pwrite()` that fails, after which the file holds what was
written before. `want` is what the program put in each section and table.
`elf_newscn()`'s blocks of sections have their own sizes and counts, so
that `elf_getscn()` and `elf_nextscn()` are modelled as the search they are. When the
code uses a section header that was not read, follows a null pointer or passes
the end of the map, the descriptor's `fate` is `"undefined"`, after which
nothing is modelled.

### EuContents

A section has `rawbase`, `database` and `zbase`, each a null pointer, a pointer into
the map, or a block of `mem.heap`; the first data block (`first`), the
others (`rest`, with their list nodes), and `rear`, the end of the list. Each
call takes the allocation that fails, if any. The cells of a buffer carry their
byte order. zlib is abstracted: contents with few different cells shrink to
one cell, others grow by one, so that compression both pays and does not; it is the
one external part. `ghost` keeps which of the known defects has happened, so
that the properties can name them. The alignment of what is read from the file
(`RawAlign`) is brought down to the section's `offset`, as `elf_getdata.c:390` does; it
goes into the header of 32-bit compressed data and from there into the section
header, and `elf_update()` refuses it when it is no power of 2. The offset is the one
the section was opened with: a layout moves a section only after it was read.

### Translate

Memory is a sequence of bytes with two buffers A and B that may overlap. The
functions convert byte by byte or word by word in the order of the loops; the
walks along notes, version definitions, GNU hash tables and compression headers read
the next length from the source or from the destination as the code does.
`form` is what a buffer holds, as a caller may assume.

## 3. Runs

| Run | Instance | Checks |
|---|---|---|
| `descriptors` | 3 descriptors (symmetric), an archive of an archive and a text, a plain object, a memory buffer; at most 2 activations each; 137884 states | `TypeOK`, `MemberSafe`, `ChildCount`, `Reclaimed`, `ReleaseExact`, `Lives` |
| `descriptors_odd` | 2 descriptors; damaged archive and members, directory, empty image, unknown version and identification | `HandlesLive`: what is refused is never handed out; `EndReturns` (liveness) |
| `extents` | every range below 8, up to 4 extents; 11818 states | `SortedDisjoint`, `RefusalJustified` |
| `build` | two programs on a new object: `build`, either class, up to 2 sections beside section 0, up to 2 data descriptors each of three kinds and alignments, a program header, `SHN_LORESERVE` 3; `layout`, `ELF_F_LAYOUT` with two sections and both tables at offsets that fit, overlap or are misaligned; 166161 states | `LayoutSound`, `ReadsBack`, `UpdateReturns` |
| `edit` | two programs on an existing big-endian object with a program header, a section of bytes and one of symbols, mapped or read in: `edit`, data added and replaced, up to two writes with every system call failing; `grow`, sections and program headers added until the section count needs extended numbering, section types changed; 136564 states | `LayoutStable`, `ReadsBack`, `UpdateReturns`, `RetrySame` |
| `entries` | tables of two entries (one for some) of every type and class, whole or with part of an entry at the end, of the right type or another; indices from -1 to past the end, offsets on and off an entry; 3066 states | `Agree`, `InBounds`, `RefusalKeeps`, `ReadsBack` |
| `eu_descriptors` | 3 descriptors of one file of 16 units: an archive with an archive in it, which holds a truncated object, and a table of long names with a header that lacks its size; READ, READ_MMAP and WRITE; one `elf_begin()` on the file, 2 references each, 365451 states | `Survives`, `Accounted`, `Placed`, `HeaderFresh`, `Lives` |
| `eu_object` | a new object, one of two sections, one of a section and a program header, in a file of up to 16 cells; 3 edits, 2 calls of `elf_update()`, 1 failed `pwrite()`; `NSCNSALLOC` 2, `PN_XNUM` 2, `SHN_LORESERVE` 4; 303193 states | `Consistent`, `LayoutSound`, `Stable`, `ContentsWritten`, `ReadsBack`, `DataKept` |
| `eu_contents` | a string table with the alignment 0, a symbol table with one above its offset (4 or 6), a compressed and a new section, and five that compression refuses; mapped, read in or based on the map, either byte order, aligned or not, either class (not in every combination); 4 calls that change something, 2 data blocks, 1 failed allocation; 222712 states | `Survives`, `Accounted`, `ContentsKept`, `AnswersRight`, `RefusalKeeps` |
| `translate` | a table of every kind of conversion, whole, cut off, and damaged in its lengths; 3 conversions in place, between buffers apart, and overlapping by all but 1 and 4 bytes; 3602 states | `Translated`, `WalksAgree`, `Confined` |

Three descriptors are the least with which an archive, an archive inside it and
a member of that are open at once, which is where the reclaiming loop turns
three times and a copy relocates a child of a child. Two sections and two data
descriptors are the least with gaps between data and between sections; the
alignments 1, 2 and 4 make gaps of every size that an object of two cells sees.
`SHN_LORESERVE` is set to 3 or 4, and `PN_XNUM` and `NSCNSALLOC` to 2 in
`eu_object`, so that one section or program header more changes the numbering
and the block. Two calls of `elf_update()` with edits before and between them
are what shows stale flags, and with one failure, a retry. Four calls on a
section are enough to compress, add, expand and look again; the alignment 8 at the
offsets 4 and 6 stands for any above an offset that is a power of 2 or is not. A `VIEW` leaves
out the last result where no action reads it and every property is about a step
or does not mention it. `CHECK_DEADLOCK FALSE` is said where the number of
calls is bounded: an application may stop.

The properties in words (each is stated in full beside its definition):

* `MemberSafe`: an open member's archive and its image are there.
  `ChildCount`: `e_nchildren` is the number of open members. `HandlesLive`: what
  the application holds is allocated, with as many activations as it is held.
  `Reclaimed`: a descriptor without activations exists only for its open
  members. `ReleaseExact`: a descriptor that goes takes its image and symbol
  table along, and nothing of any other. `HandlesLive` is checked on the damaged images and
  proved; on the others `Lives` says more.
* `EndReturns`: `elf_end()` returns. Fairness is weak fairness of the two turns
  of its loop, which are steps of one running call; nothing is assumed of the
  application. No other module needs fairness: every other call is one step or,
  in `EuDescriptor`, climbs a finite nesting that `TypeOK` bounds.
* `LayoutSound`, `LayoutStable`, `Stable`: see section 1; `LayoutSound` of
  `ElfObject` and `Consistent` and `Survives` of the elfutils modules contain the
  module's type invariant. In `ElfObject` one kind of section may lie at an address
  that is no multiple of its alignment: with `ELF_F_LAYOUT`, one whose content nobody
  asked for and that nobody flagged (`Kept`), which `elf_update.c:175` takes as it is.
* `ReadsBack` (`ElfObject`, `EuObject`): a successful write gives a file in which
  a new descriptor finds the headers, tables and data of the old one. Its
  comment lists what it leaves out, and why.
* `RetrySame`: after a failed write, as long as the image that was read is still
  there, trying again would write the same file. `UpdateReturns`:
  `elf_update()` ends in no failed assertion or memory error, except in the
  situations that its definition lists.
* `Agree`: both libraries read the same entries out of the same buffer and
  accept the same updates. `InBounds`, `RefusalKeeps`, `ReadsBack` (`Entries`):
  no look outside the buffer; a refused update has no effect and an accepted one
  marks the section; what was put is got, and the neighbours are as before.
* `Survives`: no freed parent, map, copy or buffer is used. `Accounted`: nothing
  is left behind, but for the known leaks. `Placed`: a descriptor shows
  the bytes of its member, and none outside the archive. `HeaderFresh`: the
  header in hand is the one at the position. `Lives`, of both libraries: the refinement
  of `Lifetime`.
* `Consistent`: the size the descriptor knows is within the file, also after a
  failed write, and every section is reached through the blocks.
  `ContentsWritten`: after a write every section has in the file what the
  program put there, whichever were marked and whatever failed before.
  `DataKept`: the data in memory is not lost by a layout or a write.
* `ContentsKept`: the section means what the program put there, what was compressed
  can be expanded (`Expandable`), and it then has its size and alignment back
  (`Restored`), but for alignments that are 0 or, in the 32-bit class, above the
  section's offset; these come back as 1 and as the offset, and an offset that is
  no power of 2 makes expanding fail. `AnswersRight`: strings are the ones at the
  offset, and they (`StringStays`) and the chunks (`ChunksStay`) stay what they were.
  `Survives` of this module says that nothing is freed that may not be (`FreesOnce`),
  nothing read that was freed (`ReadsLive`), and nothing past the end of a buffer
  (`ReadsInside`), each but for the defects it names. `RefusalKeeps`
  (`EuContents`): compression that fails or does not pay changes nothing.
* `Translated`: to and fro is the identity. `WalksAgree`: in a damaged table the
  records before the damage are right. `Confined`: nothing outside the
  destination is written, nothing outside the source is read.

Two runs are expected to fail, each with a finding in `PROJECT.json`:

* `getscn_after_update` (`GetscnWorks`, elftoolchain): after a write
  `elf_getscn()` finds no section, because `LIBELF_F_SHDRS_LOADED` stays set.
* `compressed_twice` (`CompressedOnce`, elfutils): `libelf.h:368` calls it an error to
  compress a section that is compressed already, but `elf_compress.c:399`
  compares the flag with 1, and the section is compressed once more.

### What the models show of the code

Every exception that a property's definition names is something the code does;
the model keeps it, and the property says how far its effect goes.

elftoolchain: an archive opened `ELF_C_RDWR` is given up before the flag is set
that makes `elf_end()` release its image (`libelf_open.c:239`); the descriptor
of a damaged archive (`libelf_ar_util.c:358`) and the archive header of a member that
is no ELF object (`libelf_allocate.c:116`) stay allocated. Ranges whose end passes
2^64 are accepted although they overlap (`elf_update.c:365`), which is why the
theorem assumes `NoWrap`. An application in control of the layout that makes a
section larger than its data fails an assertion (`elf_update.c:1056`). A section
given a new offset before its data was read gets the bytes at the new offset
(`elf_data.c:156`). A second write of a new object reserves a table that it does
not fill (`elf_update.c:1133`); an unknown section type is not refused (`:145`); a
`SHT_NOBITS` section keeps the size 0 (`:461`); a section aligned to less than its
type fails an assertion (`:748`). `elf64_getphdr()` fails an assertion when
there are no program headers (`libelf_phdr.c:79`); `gelf_update_phdr()` accepts the
index one past the table and does not read the table in (`gelf_phdr.c:146`);
`gelf_newphdr()` before `gelf_newehdr()` fails an assertion (`libelf_ehdr.c:110`);
`elf_setshstrndx()` is not seen by `elf_getshdrstrndx()` (`elf_shstrndx.c:49`);
program header counts of `PN_XNUM` and more do not read back when there are few
sections (`libelf_extended.c:107`). The accessors take the beginning of an entry
that the data holds only a part of for an entry (`gelf_sym.c:75`,
`gelf_symshndx.c:119`) and cut off what a 32-bit relocation cannot hold
(`gelf_rel.c:143`).

elfutils, descriptors: an archive within an archive that is not mapped is walked
past its end (`elf_begin.c:835`); a header without a size is taken for read
(`elf_begin.c:915`, `:1044`); members of an archive that was itself read in
as a member are looked for at the wrong place (`elf_begin.c:1050`), and the copy
made for a member is not freed (`elf_end.c:221`); the long names of a nested archive
are looked for with its start counted in (`elf_begin.c:731`); a clone of a member
brings `elf_end()` down (`elf_clone.c:57`), and so does `elf_getarsym()` of an archive
that gave up its file descriptor (`elf_getarsym.c:114`).

elfutils, objects: some changes of the layout mark the wrong part
(`elf32_updatenull.c:161`, `:357`), so that a write of the rest leaves an old header;
marks are cleared although the tables still have to be written
(`elf32_updatefile.c:848`), so that a retry leaves them out; the file stays longer
after a failed write (`elf_update.c:138`); the section header table is
written from a block that may be older than the list of sections
(`elf32_updatefile.c:692`) and copied from a null pointer (`:844`); section header 0
is used unread (`elf32_updatenull.c:184`, `elf32_newphdr.c:98`); with
`ELF_C_WRITE_MMAP` a second, larger write passes the end of the map, and in a
mapped file new program headers are written over what has not been moved yet;
a data block with the alignment 0 overlaps the one before.

elfutils, contents: compressing a section of several data blocks loses blocks
(`elf_compress.c:318`); a second compression forgets the expanded bytes; contents read
before the whole file was are not freed (`elf_end.c:168`); a conversion that
finds no memory leaves a dangling buffer (`elf_getdata.c:173`); `elf_strptr()` looks
past the expanded bytes when data was added since; `inflateEnd()` is left out when
data is damaged (`elf_compress.c:248`); a 32-bit compression header gets its
alignment from the data (`elf_compress.c:426`), a 64-bit one from the section, and the
data's is not larger than the section's offset (`elf_getdata.c:390`), so that in the
32-bit class `sh_addralign` 128 at the offset 64 comes back as 64 after compressing and
expanding, and at the offset 52 the section cannot be expanded at all, nor its
strings be found (`elf_compress.c:276`); `elf_update()` refuses such a section in either
class once `elf_getdata()` has begun its list of data (`elf32_updatenull.c:290`).

elfutils, conversion and entries: a note or GNU hash table converted in place
to the order of the file has its lengths read after they were converted
(`note_xlate.h:42`, `gnuhash_xlate.h:53`); a damaged chain of version definitions stops half
converted (`version_xlate.h:99`); `gelf_getauxv()` takes the index -1
(`gelf_getauxv.c:69`); `gelf_getmove()` fails an assertion (`gelf_getmove.c:58`).

## 4. Proofs

Every theorem is proved for all values of the constants that satisfy the named
assumptions of the module it is about; the assumptions are evaluated by TLC in
every run. No theorem uses a bound of a run.

### DescriptorProofs

For every finite set of descriptors, every set of files, any nesting of archives
and any bound on activations (`HandleAssumption`, `FdAssumption`,
`ImageAssumption`, `MaxActsAssumption`): `TypeOK`, `MemberSafe`, `ChildCount`,
`HandlesLive`, `Reclaimed` and `LoopSafe` (the loop of `elf_end()` never looks at
freed memory) are invariants, `ReleaseExact` holds of every step, and `Lives`: the
module implements `Lifetime`.

None of the invariants is inductive alone. `MemberSafe` needs that an archive with
open members is not reclaimed, so that `e_nchildren` is exact (`ChildCount`), and
`ChildCount` that the parent of an open member is an open archive (`ParentOpen`);
that the count never drops below zero needs both. `HandlesLive` keeps a
descriptor in use from being the one the loop frees, `LoopSafe` and `Reclaimed`
say what the loop may look at and what it leaves, `RawPresent` that an owned image
goes only with its owner, and `NextAtMember` that `e_next` always is at a
member, so that opening one is defined. `ReleaseExact` needs in addition that only
archives have a symbol table and that every block has the kind its descriptor
accounts for (`BlocksKnown`), and that a descriptor that is not allocated owns
nothing that a new one at the same address would inherit (`AbsentAlone`). `IInv` is
the conjunction. The proof reduces every call to one of a few kinds of step
(nothing but a cached block changes; a descriptor appears; a member appears;
`e_next` or `e_fd` changes; an activation more; one less; the loop defers; the
loop releases), proves that each kind preserves `IInv`, respects `ReleaseExact` and
maps to a step or a stutter of `Lifetime`, and then shows which kind each
disjunct of `Next` is. The cardinality of the set of children is handled with
`FiniteSetTheorems`.

### EuDescriptorProofs

For every finite set of descriptors, every file (headers and images at any
offsets, archives nested to any depth, headers that lack a size or lie), any number
of references, calls and roots (`HandleAssumption`, `NullAssumption`,
`FileAssumption`, `CallAssumption`, `BoundAssumption`): `Survives`, `Accounted`,
`Placed` and `HeaderFresh` are invariants, and `Lives` holds. The inductive
invariant `IInv` has four groups of conjuncts.

* What the counts mean: `ref_count` is the number of handles as long as the process
  lives (`Counted`); what is gone is held by nobody (`GoneIsFreed`); the archive
  that `elf_end()` goes on with has no reference left (`ClosingWaits`); clones are no
  archives and the only ones a fault is due to (`FaultKnown`).
* `Tree`: parents and lists of children agree (`Enrolled`, `ListsAgree`), and no
  descriptor is above itself (`Acyclic`, stated with sets: every set of descriptors
  has one whose parent is not in it). Without `Acyclic` a copy could be made of an
  archive whose own parent gets relocated with it.
* `Memory`: a descriptor uses its own map or copy, its archive's, or the
  application's (`MapOrigin`); only roots map files and only copies have another base
  than the file (`MmapOfRoot`, `MapBase`). This is the strengthening that `Survives`
  needs: an archive outlives its members by `Tree`, so what they share with it is
  there.
* `Places`: archives begin before the position of their walk and before their
  members (`Ordered`), a root is the whole file (`RootsWhole`), an archive that stands
  in the file is where its fields say (`FileInPlace`), and the member its header
  promises fits into it (`HeadersFit`). `Placed` and `HeaderFresh` need each other:
  `elf_begin()` places a member by the header in hand, and the header is read at the
  position that the last member left.

`__libelf_readall()` changes every descriptor below an archive in one step. `Below` is
defined as the intersection of the sets closed under children, so that no
induction is needed: to show that something holds of all that is relocated, one gives
a closed set. The attempt to prove `Placed` as it stood failed for a good reason:
it excused whatever was open below an archive that stands in a copy, which is no
invariant to build on. The proof shows what is wrong with such a member exactly: it
is taken to lie too low by the base of its archive's copy (`Misplaced`), never more.

### EntriesProofs

For all tables of entries of any size that an unsigned int can count, with and without
part of an entry at the end, of the right type or another (`TablesAssumption`), all
entries an application may store (`ValuesAssumption`: it fills in every field), all
indices and offsets that are ints (`PlacesAssumption`), and any number of calls:
`InBounds`, `RefusalKeeps` and `ReadsBack` hold of every step, and `Agree` is an
invariant. The inductive invariant is only that both data descriptors are well
formed (`DataOK`); what carries the weight are the lemmas about the operators:
`StoreKeeps`, `LoadStored` and `LoadBeside` (a stored record is found again and what does
not overlap it is as before), `TcGot`, `EuGot`, `TcUpdated`, `EuUpdated` (the outcomes of
an accessor of either library, in one formula each), and `SameChecks` (both
libraries make the same checks of the fields of a 32-bit entry). An int has 16 bits in
these modules; the comparison of a negative index, which C converts to unsigned,
with the number of entries is right only because a buffer is not larger than an
unsigned int can count. In the code an index has 32 bits and a size 64, so that the
assumption excludes buffers of 4 GiB and more.

### EuContentsProofs, EuContentsReadProofs and EuContentsKeepProofs

For every set of sections a program may start with, every way the file may be open in
which a section refers to the map only if there is one (`ContentsBased`), any contents
added, and any number of calls, blocks and failed allocations (`ContentsBounds`).
The last of the three modules also uses that a section of a file has the size of its
contents there, and that each cell is in one byte order or the other
(`ContentsSized`). `ContentsAligned` (a program's alignments are powers of 2) is only
evaluated by the runs. Sections that lie outside the file or have a size that is no
multiple of their entry size, which `elf_getdata()` refuses, are not among those the
module starts from.

Ownership. `rawbase`, `database` and `zbase` may be one block or three, be in the map
or on the heap, and `elf_end()` and `__libelf_reset_rawdata()` decide by comparing
them, by `map_address` and by `ELF_F_MALLOCED` what they free. The
inductive invariant (`IInv`) says what those comparisons must mean: each of the three
buffers, every list node, and every chunk and its node *claims* a block under the
condition under which `elf_end()` frees it (`Claims`); what is claimed is allocated
(`Allocated`), no block is claimed twice (`Exclusive`), and what no one claims is
exactly what is known to be lost. `Accounted` and `FreesOnce` follow at once, but
neither is inductive: whether `rawbase` is freed depends on where it came from. What
that takes is in `Buffers` (`rawbase` is in the map only if the file is, and is then not
marked as allocated; `zbase` is kept beside `rawbase` only while the section is
compressed), `Unread` (a section that was not read has no block on the heap, and one
without a list of data none that was converted) and `Linked` (a list that was not
begun has no nodes). Each operation gets a lemma that says how it changes the
claims (`Steady`: none is lost; `Leaks`: those known to be lost; `Replaced`: the claims of
the old contents go, those of the new come), so that `elf_compress()` is proved as the
composition the code is.

Reads. A block is never written to twice, so that it is enough to follow where
pointers go. `Frame` says of a call that it changes no block that was there, whatever it
allocates and frees; `Calm`, that it also frees none; `Shaken`, that it may. Only
`elf_compress()` and `elf_compress_gnu()` that succeed free anything. `Held` says that the
raw data and the first data block have a buffer that can be read, the latter unless a
conversion found no memory (`starved`), and that the blocks added have only the program's
buffers. With the invariant `Reading`: `ReadsLive`; `StringStays`, since a string's
block is not freed before the string is void; and `ChunksStay`, since a chunk's block
is claimed by the chunk alone. The exception is real: when the conversion after
`elf_compress()` finds no memory, the first data block keeps the address that was freed.

Failure. `elf_compress()` that does not succeed has still done something: it may have
read the section in, converted it, and begun its list, and what `elf_update()`
would write is then computed from a data block, in the host's order, and no longer from the
file. `RefusalKeeps` says that this makes no difference. It is not inductive: that the
first block converts back to the same bytes holds because the whole of the raw
contents was taken, of the size the header says. `AsInFile` is what that needs: until
the list is begun nothing is linked to it, a section that was not read has the size of
the file's contents, and one that was has all of them in `rawbase`. With `Filing` (that,
and that the cells of the file are cells) as a further invariant, `Retains` says of a
call that header and contents are the same before and after, unless a conversion found no
memory. Every step before the point of no return retains (`set_rawdata` by definition,
`set_data_list` by `ConvertTwice`: converting twice is the identity), it
composes (`RetainsTwice`), and so each of the four operations is `AllOrNothing`: it
succeeds, or it retains. Sections without contents in the file (SHT_NOBITS) are refused
before anything is read, which the proof needs: their blocks would not be kept.

### ElfObjectProofs

For every word size, every value of the escape numbers, and every set of programs with
any headers, data and bounds on their calls (`WordAssumption`, `NumberingAssumption`,
`ProgramsAssumption`): `TypeOK` is an invariant, and `LayoutSound` in every
state in which no offset plus size wraps around (`Fits`). That is needed:
`_libelf_extent_is_unused()` compares such sums (`elf_update.c:363`, `:368`), and one that
wrapped is small, so that a range looks free in front of extents that it runs into.
`LayoutStable` is proved for every state whose layout is `Settled`, which excludes two
kinds of descriptor. Extended numbering writes the counts into section header 0
(`elf_update.c:688`); if an application has made that the header of a section with contents,
the count is the section's size when the layout is computed again. And a program header table of
the file that could not be read where `e_phoff` had it gets a place all the same, and is looked
for there the second time. Neither happens in the run `edit`, where every layout is `Settled`.

The invariant. A layout is computed from everything the descriptor has cached, and a cache
is filled by other calls, some of which fail half way. `IsElf` is therefore about the
descriptor that each helper returns, whether it failed or not. What the layout needs
of it and what is not a matter of types: a program header table has as many entries as
`e_phnum` counts, and there is none without an executable header; a buffer has as
many cells as its data descriptor says; a descriptor that was not opened to write
a new file has the file it was opened on. `TypeInit` and `TypeNext` are the two facts of the induction; under
`TypeNext` there is one lemma per kind of call (`HeaderCalls`, `SectionCalls`,
`UpdateCalls`), and under these one per helper (`EhdrReads`, `SectionsRead`,
`PhdrsRead`, `GetDataOne`, `RawDataOne`, `SetCountIs`, `ResyncIs`, `AssembleIs`,
`CommitIs`).

The loops. `NatSet` is induction for a given set of numbers: it follows from `WFMin`,
which takes no operator. For each loop the set is that of the turns after which the
loop's invariant holds, so that no induction over an operator is needed.

The layout. `IsLayout` says of a list under construction that it is in ascending order,
disjoint, and reaches the size so far. `InsertOrdered`: an insertion where
`StopsAt` stops keeps the order, as in `ExtentsProofs`. `AddExtentIs` carries it over to
`AddExtent`. `MeasureIs` says that a section's size and alignment are numbers and that a data
descriptor's offset is; `ComputeSectionIs` that the library's placement is
a multiple of the alignment, and that under `ELF_F_LAYOUT` one that is not is refused
unless the section is `Kept`. `ResyncOneIs` is one turn, `AddSectionsIs` the loop,
`AddShdrIs` the section header table, `ResyncCountsIs` the numbers, which move
nothing; `ResyncIs` puts them together and `LayoutIsSound` reads `LayoutSound` off it.

The layout again. That a second computation gives the same needs what every loop computes, not
only what it keeps. Let `D` be the descriptor the first one ends with. The steps
of the second are given outcomes that differ from those of the first in nothing but their
descriptor, which is `D` from the beginning: this is the shape of `AddEhdrTwice`, `AddPhdrTwice`,
`AddSectionsTwice`, `AddShdrTwice` and `CountsTwice`, and `ResyncTwice` puts them together.
Under them: a data descriptor that has been measured is measured the same (`MeasureTwice`), a
section that has been placed is placed where it is (`SetSectionTwice`, `ComputeTwice`),
a number that has been put into the headers is put where it is (`SetCountDoes`,
`SetCountSame`), and later steps do not touch what earlier ones look at
(`AddSectionsFrame`, `AddPhdrFrame`, `SectionsTwice`).

### ExtentsProofs

For every word size, every set of requests and every length of the list: if no
request wraps round (`NoWrap`), the list is well typed, sorted and disjoint
(`SortedDisjoint`) and every refusal justified (`RefusalJustified`). Insertion at the
place the search returns preserves the order because everything before it ends
before the new range and the first one after it, and with it all the others,
begins after.

### Only model-checked

`EndReturns` (liveness is out of the prover's reach) and `UpdateReturns` with
`ReadsBack` and `RetrySame` of `ElfObject`: they say that no assertion of the image's
writer fails, or compare two files or two descriptors, and so need what the loops
that write compute cell by cell; `EuObject`, whose
layouts and images are folds over sections; of `EuContents`, `ReadsInside`, `ContentsKept`, and that a string is the one
at its offset, which all depend on sizes and cells that are summed and joined along
a list of any number of blocks (`RefusalKeeps` needs only the list of one); `Translate`,
whose walks along tables are RECURSIVE.

## 5. What is not modelled, and the plan

Left out for good: archives without an ordinary member, where elftoolchain's
`elf_begin()` reads past the image (`libelf_ar.c:215`); elfutils built with locks; special files (pipes and devices,
read in pieces); exhaustion of memory inside `ElfObject` and `EuObject`;
`sh_entsize`; memory sizes that differ from file sizes; the numbers and names
in archive headers and the two formats of archive symbol tables, which are
abstracted to members and indices; elftoolchain's conversion functions, which
m4 generates and are not in the repository (that they swap is part of
`ElfObject`); `elf_strptr()` of elftoolchain; checksums, hashes, getters and error
messages; zlib itself; lists of named constants; the third-party containers in
`common/`; the example programs.

Next, in this order:

1. `UpdateReturns` of `ElfObject` (the assertions of `_libelf_write_elf()`: each extent
   is written to its end) on top of `LayoutSafe`, and then `RetrySame`, which
   compares two layouts as `LayoutFinal` does.
2. `LayoutSound` and `Consistent` of `EuObject` in the way of `ElfObjectProofs`, and
   `ContentsKept` of `EuContents` by way of `Ends` and `Concat`.
3. `ElfObject` on damaged headers: `_libelf_ehdr()` keeps a header it refused, so
   the next call succeeds; `ELF_F_LAYOUT` on an existing object with header
   tables moved before they are read; `elf_setshstrndx()` with a large index
   before the first section.
4. An archive module: numbers, names and offsets as the parsers see them
   (`libelf_ar_util.c`, `elf_begin.c`), checked against a reference reading; it
   refines the member lists of `Descriptor`.
5. An abstract object store (sections with contents, a file) that `ElfObject` and
   `EuObject` both implement, so that `ReadsBack` becomes a refinement.

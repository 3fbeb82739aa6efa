------------------------------ MODULE VersionInfo ------------------------------
(***************************************************************************)
(* Version information of a binary (config/version_info): the constructor  *)
(* reads it from the sections of an ELF file, or on Windows from the       *)
(* VERSIONINFO resource; version_info objects own what was read and pass   *)
(* it on by moves.  The file may still be being written, by a linker or an *)
(* installer, while it is read.                                            *)
(*                                                                         *)
(* A file is a sequence of cells.  A cell is a field of a header, a byte   *)
(* of the version number, a character, or one of the null-terminated       *)
(* section names; 0 is what zeroed memory holds where nothing was read.    *)
(* Fields that are read but never looked at have no cell of their own,     *)
(* except the last of a section header, which ends the read.               *)
(***************************************************************************)
EXTENDS Integers, Sequences, FiniteSetsExt

CONSTANTS
    InfoObjects,        \* objects of class version_info
    Addresses,      \* what new gives out
    Files,          \* files: their cells, and what was embedded in them
    Lengths(_),     \* those of a file's lengths at which it may be seen
    Platforms,      \* the builds: "ELF", "Windows"
    MaxMoves,       \* bound: moves and assignments of objects
    None            \* nullptr

\* The sections of version_elf.cpp, in the order they are looked up.  A name
\* cell k is the name of Sections[k], 0 is the empty name, and any other
\* number the name of some other section.
Sections == <<"company", "description", "filename", "product", "version", "version_num">>
VersionNum == Len(Sections)
NumSize == 8        \* sizeof version_num_

ASSUME ConstantsAssumption ==
    /\ Files \subseteq [cells : Seq(Nat), says : [DOMAIN Sections -> Seq(Nat)]]
    /\ Platforms \subseteq {"ELF", "Windows"}
    /\ \A f \in Files :
          /\ Lengths(Len(f.cells)) \subseteq 0 .. Len(f.cells)
          /\ Len(f.says[VersionNum]) \in {0, NumSize}
    /\ MaxMoves \in Nat
    /\ None \notin Addresses

\* What version_elf.cpp puts into the sections: strings with their terminator,
\* and 16 bits each of the version's parts, from the least significant byte.
Word(n) == <<n % 256, n \div 256>>
Embedded(texts, major, minor, patch) ==
    [k \in DOMAIN Sections |->
        IF k = VersionNum THEN Word(0) \o Word(patch) \o Word(minor) \o Word(major)
        ELSE Append(texts[k], 0)]

VARIABLES
    platform,
    file, written,  \* the file, and how many of its cells are there; -1: no file
    heap,           \* what is allocated
    impl,           \* impl_ of each object
    info,           \* each impl_type that is constructed: its strings, its data_
    pc, target,     \* where the constructor is, and the object its result is for
    new, data,      \* the impl_type under construction; the unique_ptr of Windows
    fail,           \* failbit of in_: it stays, and every read then does nothing
    ehdr, nhdr,     \* the header of the file, and of the section names
    next,           \* the section to look up or to read next
    found, strings, \* the headers of the sections, and what they hold
    moves,
    undefined
files == <<platform, file, written>>
objects == <<impl, info, moves>>
pointers == <<target, new, data>>
reading == <<fail, ehdr, nhdr, next, found, strings>>
infoVars == <<files, objects, pointers, reading, heap, pc, undefined>>

Nothing == [k \in DOMAIN Sections |-> <<>>]

InfoInit ==
    /\ platform \in Platforms
    /\ file \in Files /\ written \in {-1, Len(file.cells)}
    /\ heap = {}
    /\ impl = [o \in InfoObjects |-> None]
    /\ info = [i \in {} |-> [strings |-> Nothing, data |-> None]]
    /\ pc = "idle" /\ target = None /\ new = None /\ data = None
    /\ fail = FALSE /\ ehdr = <<>> /\ nhdr = <<>>
    /\ next = 1 /\ found = Nothing /\ strings = Nothing
    /\ moves = 0
    /\ undefined = "no"

\* The file comes into being, and grows to what it will be.
Write ==
    /\ written < Len(file.cells)
    /\ written' \in Lengths(Len(file.cells)) /\ written' > written
    /\ UNCHANGED <<platform, file, objects, pointers, reading, heap, pc, undefined>>

-----------------------------------------------------------------------------
(* Streams *)

\* seekg and read: n cells from an offset, zeros where nothing could be read.
Cells(f, seen, offset, n) ==
    [i \in 1 .. n |-> IF offset + i =< seen THEN f.cells[offset + i] ELSE 0]
Read(failed, offset, n) == Cells(file, IF failed THEN 0 ELSE written, offset, n)
\* A stream whose failbit is cleared before each seek.
FailsAnew(failed, offset, n) == n > 0 /\ offset + n > written
Fails(failed, offset, n) == failed \/ (n > 0 /\ offset + n > written)

-----------------------------------------------------------------------------
(* ELF headers *)

\* The cells of an Elf64_Ehdr, an Elf64_Shdr and an Elf64_Phdr, and elf.h.
Ehdr == <<"EI_MAG", "EI_CLASS", "EI_DATA", "EI_VERSION", "e_type", "e_version", "e_shoff",
          "e_ehsize", "e_phentsize", "e_shentsize", "e_shnum", "e_shstrndx">>
Shdr == <<"sh_name", "sh_type", "sh_offset", "sh_size", "sh_entsize">>
PhdrSize == 7
Elf == [MAG |-> 1, CLASS64 |-> 2, DATA2LSB |-> 1, DATA2MSB |-> 2, CURRENT |-> 1,
        EXEC |-> 2, DYN |-> 3, STRTAB |-> 3]

\* A header from its cells.
Fields(names, cells) ==
    [f \in {names[i] : i \in DOMAIN names} |-> cells[CHOOSE i \in DOMAIN names : names[i] = f]]

is_64(hdr) == hdr.EI_CLASS = Elf.CLASS64
is_little_endian(hdr) == hdr.EI_DATA = Elf.DATA2LSB
is_big_endian(hdr) == hdr.EI_DATA = Elf.DATA2MSB
is_native_endian(hdr) == is_little_endian(hdr)      \* on a little-endian host
is_exe(hdr) == hdr.e_type = Elf.EXEC
is_dyn(hdr) == hdr.e_type = Elf.DYN

\* Where the header of the section names is.
NamesAt(hdr) == hdr.e_shoff + hdr.e_shstrndx * hdr.e_shentsize

\* A look-up ends at a header that has the name of the section, or at one whose
\* index is beyond the names, and finds it in the first case.
Outside(names, hdr) == hdr.sh_name >= Len(names)
Stops(names, table, k) ==
    {i \in DOMAIN table :
        Outside(names, table[i]) \/ names[table[i].sh_name + 1] = k}
Finds(names, table, k) ==
    /\ Stops(names, table, k) # {}
    /\ ~Outside(names, table[Min(Stops(names, table, k))])

\* What elf_header lets pass.
Accepted(hdr) ==
    /\ hdr.EI_MAG = Elf.MAG
    /\ is_64(hdr)
    /\ is_big_endian(hdr) \/ is_little_endian(hdr)
    /\ hdr.EI_VERSION = Elf.CURRENT
    /\ is_native_endian(hdr)
    /\ is_exe(hdr) \/ is_dyn(hdr)
    /\ hdr.e_version = Elf.CURRENT
    /\ hdr.e_ehsize = Len(Ehdr)
    /\ hdr.e_phentsize = PhdrSize
    /\ hdr.e_shentsize = Len(Shdr)

-----------------------------------------------------------------------------
(* Objects *)

\* What goes when impl_ of an object is deleted: on Windows its data_, too.
Freed(o) == IF impl[o] = None THEN {} ELSE {impl[o], info[impl[o]].data} \ {None}
Erased(i, f) == [j \in DOMAIN f \ {i} |-> f[j]]

\* A from() that leaves the other its pointer.
MoveIntoShares(a, b) ==
    /\ pc = "idle" /\ moves < MaxMoves
    /\ heap' = heap \ Freed(a)
    /\ info' = Erased(impl[a], info)
    /\ impl' = [impl EXCEPT ![a] = impl[b]]
    /\ moves' = moves + 1
    /\ UNCHANGED <<files, pointers, reading, pc, undefined>>

\* Move assignment: destroy(), then from(), which an object survives that is
\* assigned to itself, without what it held.
MoveInto(a, b) ==
    /\ pc = "idle" /\ moves < MaxMoves
    /\ heap' = heap \ Freed(a)
    /\ info' = Erased(impl[a], info)
    /\ impl' = [impl EXCEPT ![a] = impl[b], ![b] = None]
    /\ moves' = moves + 1
    /\ UNCHANGED <<files, pointers, reading, pc, undefined>>

\* The destructor.
destroy(o) ==
    /\ pc = "idle" /\ impl[o] # None
    /\ heap' = heap \ Freed(o)
    /\ info' = Erased(impl[o], info)
    /\ impl' = [impl EXCEPT ![o] = None]
    /\ UNCHANGED <<files, moves, pointers, reading, pc, undefined>>

\* version_info(path), whose result is moved into an object.
Construct(o) ==
    /\ pc = "idle" /\ moves < MaxMoves
    /\ \E a \in Addresses \ heap : heap' = heap \cup {a} /\ new' = a
    /\ target' = o
    /\ pc' = "exists"
    /\ fail' = FALSE /\ ehdr' = <<>> /\ nhdr' = <<>>
    /\ next' = 1 /\ found' = Nothing /\ strings' = Nothing
    /\ moves' = moves + 1
    /\ UNCHANGED <<files, impl, info, data, undefined>>

\* The constructor returns; the object gives up what it had.
Constructed(result) ==
    /\ heap' = heap \ Freed(target)
    /\ info' = [i \in (DOMAIN info \cup {new}) \ {impl[target]} |->
                    IF i = new THEN result ELSE info[i]]
    /\ impl' = [impl EXCEPT ![target] = new]
    /\ target' = None /\ new' = None /\ data' = None
    /\ pc' = "idle"
    /\ UNCHANGED <<files, moves, undefined>>

\* An exception: new gives its memory back, and the unique_ptr frees its own.
Throw ==
    /\ pc = "throw"
    /\ heap' = heap \ {new, data}
    /\ target' = None /\ new' = None /\ data' = None
    /\ pc' = "idle"
    /\ UNCHANGED <<files, objects, reading, undefined>>

-----------------------------------------------------------------------------
(* impl_type(path) from an ELF file *)

Exists ==
    /\ pc = "exists"
    /\ pc' = IF written = -1 THEN "throw" ELSE IF platform = "ELF" THEN "header" ELSE "size"
    /\ UNCHANGED <<files, objects, pointers, reading, heap, undefined>>

elf_header ==
    /\ pc = "header"
    /\ ehdr' = Fields(Ehdr, Read(fail, 0, Len(Ehdr)))
    /\ fail' = Fails(fail, 0, Len(Ehdr))
    /\ pc' = IF Accepted(ehdr') THEN "names" ELSE "throw"
    /\ UNCHANGED <<files, objects, pointers, nhdr, next, found, strings, heap, undefined>>

elf_section_name_header ==
    LET offset == NamesAt(ehdr) IN
    /\ pc = "names"
    /\ IF fail THEN pc' = "throw" /\ UNCHANGED <<nhdr, fail>>
       ELSE /\ nhdr' = Fields(Shdr, Read(fail, offset, Len(Shdr)))
            /\ fail' = Fails(fail, offset, Len(Shdr))
            /\ pc' = IF nhdr'.sh_type = Elf.STRTAB THEN "lookup" ELSE "throw"
    /\ UNCHANGED <<files, objects, pointers, ehdr, next, found, strings, heap, undefined>>

\* The names are read again for every section, then the table up to a header
\* whose name is the section's.  An index beyond the names is undefined, any
\* index if there are none.
Table(failed) ==
    [i \in 1 .. ehdr.e_shnum |->
        Fields(Shdr, Read(failed, ehdr.e_shoff + (i - 1) * Len(Shdr), Len(Shdr)))]

elf_section_header ==
    LET names == Read(fail, nhdr.sh_offset, nhdr.sh_size)
        failed == Fails(fail, nhdr.sh_offset, nhdr.sh_size)
        table == Table(failed)
        stops == Stops(names, table, next)
        last == IF stops = {} THEN Len(table) ELSE Min(stops)
    IN
    /\ pc = "lookup" /\ next =< Len(Sections)
    /\ fail' = Fails(failed, ehdr.e_shoff, last * Len(Shdr))
    /\ undefined' = IF stops # {} /\ Outside(names, table[last]) THEN "names" ELSE undefined
    /\ found' = IF Finds(names, table, next)
                THEN [found EXCEPT ![next] = <<table[last]>>] ELSE found
    /\ next' = next + 1
    /\ UNCHANGED <<files, objects, pointers, ehdr, nhdr, strings, heap, pc>>

\* A reader that starts over while the version number is not there.
RequireVersionNumRetries ==
    /\ pc = "lookup" /\ next > Len(Sections)
    /\ pc' = IF found[VersionNum] = <<>> THEN "header" ELSE "strings"
    /\ next' = 1
    /\ UNCHANGED <<files, objects, pointers, fail, ehdr, nhdr, found, strings, heap, undefined>>

\* Only the version number must be there.
RequireVersionNum ==
    /\ pc = "lookup" /\ next > Len(Sections)
    /\ pc' = IF found[VersionNum] = <<>> THEN "throw" ELSE "strings"
    /\ next' = 1
    /\ UNCHANGED <<files, objects, pointers, fail, ehdr, nhdr, found, strings, heap, undefined>>

\* section(): what could not be read stays zero; section(trim_nulls) ends
\* before the first zero.
Section(hdr) == Read(fail, hdr.sh_offset, hdr.sh_size)
TrimNulls(s) == SubSeq(s, 1, Min({i \in DOMAIN s : s[i] = 0} \cup {Len(s) + 1}) - 1)

ReadString ==
    /\ pc = "strings" /\ next < VersionNum
    /\ IF found[next] = <<>> THEN UNCHANGED <<strings, fail>>
       ELSE LET hdr == found[next][1] IN
            /\ strings' = [strings EXCEPT ![next] = TrimNulls(Section(hdr))]
            /\ fail' = Fails(fail, hdr.sh_offset, hdr.sh_size)
    /\ next' = next + 1
    /\ UNCHANGED <<files, objects, pointers, ehdr, nhdr, found, heap, pc, undefined>>

\* The number is not trimmed, and must have the size of version_num_.
ReadVersionNum ==
    LET hdr == found[VersionNum][1] IN
    /\ pc = "strings" /\ next = VersionNum
    /\ IF hdr.sh_size # NumSize
       THEN pc' = "throw" /\ UNCHANGED <<strings, objects, pointers, heap, undefined>>
       ELSE /\ strings' = [strings EXCEPT ![VersionNum] = Section(hdr)]
            /\ Constructed([strings |-> strings', data |-> None])
    /\ fail' = Fails(fail, hdr.sh_offset, hdr.sh_size)
    /\ UNCHANGED <<files, ehdr, nhdr, next, found>>

-----------------------------------------------------------------------------
(* Files as linkers lay them out *)

\* What a reader of the whole file f makes of it.
EhdrOf(f) == Fields(Ehdr, Cells(f, Len(f.cells), 0, Len(Ehdr)))
NhdrOf(f) == Fields(Shdr, Cells(f, Len(f.cells), NamesAt(EhdrOf(f)), Len(Shdr)))
NamesOf(f) == Cells(f, Len(f.cells), NhdrOf(f).sh_offset, NhdrOf(f).sh_size)
TableOf(f) ==
    [i \in 1 .. EhdrOf(f).e_shnum |->
        Fields(Shdr, Cells(f, Len(f.cells), EhdrOf(f).e_shoff + (i - 1) * Len(Shdr), Len(Shdr)))]
Holds(f, k) == Finds(NamesOf(f), TableOf(f), k)
IndexOf(f, k) == Min(Stops(NamesOf(f), TableOf(f), k))
HeaderOf(f, k) == TableOf(f)[IndexOf(f, k)]
ContentOf(f, k) == Cells(f, Len(f.cells), HeaderOf(f, k).sh_offset, HeaderOf(f, k).sh_size)
EndOf(hdr) == hdr.sh_offset + hdr.sh_size

\* The first name is the empty one.  The names and our sections, and in the
\* table the header of the version number, come before the end of the names'
\* header.  The sections hold what was embedded.
LaidOut(f) ==
    LET end == NamesAt(EhdrOf(f)) + Len(Shdr)
        ours == {k \in DOMAIN Sections : Holds(f, k)}
    IN
    /\ NamesOf(f) = <<>> \/ NamesOf(f)[1] = 0
    /\ EndOf(NhdrOf(f)) =< end
    /\ \A k \in ours : EndOf(HeaderOf(f, k)) =< end
    /\ VersionNum \in ours =>
          EhdrOf(f).e_shoff + IndexOf(f, VersionNum) * Len(Shdr) =< end
    /\ VersionNum \in ours /\ HeaderOf(f, VersionNum).sh_size = NumSize =>
          f.says = [k \in DOMAIN Sections |->
                        IF k \notin ours THEN <<>>
                        ELSE IF k = VersionNum THEN ContentOf(f, k) ELSE TrimNulls(ContentOf(f, k))]

ASSUME LayoutAssumption ==
    \A f \in Files :
        Accepted(EhdrOf(f)) /\ NhdrOf(f).sh_type = Elf.STRTAB => LaidOut(f)

-----------------------------------------------------------------------------
(* impl_type(path) on Windows: the resource of a file that is complete *)

GetFileVersionInfoSizeW ==
    /\ pc = "size"
    /\ \/ pc' = "throw" /\ UNCHANGED <<data, heap>>
       \/ /\ written = Len(file.cells)
          /\ \E a \in Addresses \ heap : heap' = heap \cup {a} /\ data' = a
          /\ pc' = "info"
    /\ UNCHANGED <<files, objects, target, new, reading, undefined>>

GetFileVersionInfoW ==
    /\ pc = "info"
    /\ pc' \in {"throw", "root"}
    /\ UNCHANGED <<files, objects, pointers, reading, heap, undefined>>

\* The root block; then data_ takes over what the unique_ptr had.
VerQueryValueA ==
    /\ pc = "root"
    /\ \/ pc' = "throw" /\ UNCHANGED <<files, objects, pointers, heap, undefined>>
       \/ /\ file.says[VersionNum] # <<>>
          /\ Constructed([strings |-> file.says, data |-> data])
    /\ UNCHANGED reading

-----------------------------------------------------------------------------
(* What is asked of an object *)

Has(o) == impl[o] # None
Member(o, section) ==
    info[impl[o]].strings[CHOOSE k \in DOMAIN Sections : Sections[k] = section]
company(o) == Member(o, "company")
description(o) == Member(o, "description")
filename(o) == Member(o, "filename")
product(o) == Member(o, "product")
version(o) == Member(o, "version")
version_num(o) == Member(o, "version_num")

\* The digits from the least significant byte.
version_hex_reversed(o) ==
    [k \in 1 .. 2 * NumSize |->
        LET byte == version_num(o)[1 + (k - 1) \div 2] IN
        IF k % 2 = 1 THEN byte \div 16 ELSE byte % 16]

\* The number's bytes from the most significant, two digits each.
version_hex(o) ==
    [k \in 1 .. 2 * NumSize |->
        LET byte == version_num(o)[NumSize - (k - 1) \div 2] IN
        IF k % 2 = 1 THEN byte \div 16 ELSE byte % 16]

Reading ==
    \/ Exists \/ Throw
    \/ elf_header \/ elf_section_name_header \/ elf_section_header
    \/ RequireVersionNum \/ ReadString \/ ReadVersionNum
    \/ GetFileVersionInfoSizeW \/ GetFileVersionInfoW \/ VerQueryValueA

-----------------------------------------------------------------------------
(* What must hold *)

InfoTypeOK ==
    /\ platform \in Platforms /\ file \in Files
    /\ written \in -1 .. Len(file.cells)
    /\ heap \subseteq Addresses
    /\ impl \in [InfoObjects -> Addresses \cup {None}]
    /\ DOMAIN info \subseteq Addresses
    /\ pc \in {"idle", "exists", "throw", "header", "names", "lookup", "strings",
               "size", "info", "root"}
    /\ target \in InfoObjects \cup {None}
    /\ {new, data} \subseteq Addresses \cup {None}
    /\ fail \in BOOLEAN
    /\ next \in 1 .. Len(Sections) + 1
    /\ moves \in 0 .. MaxMoves
    /\ undefined \in {"no", "names"}

\* Through exceptions in the middle of a construction, assignments over
\* objects that hold something, and moves of an object to itself, everything
\* allocated has exactly one owner, and an object never points to what is
\* freed (version_info.cpp:386-424, 474-480, 519-541, 627-639).
OwnedOnce ==
    /\ \A o \in InfoObjects : Has(o) => impl[o] \in DOMAIN info
    /\ \A o, p \in InfoObjects : o # p /\ Has(o) => Freed(o) \cap Freed(p) = {}
    /\ heap = (UNION {Freed(o) : o \in InfoObjects}) \cup ({new, data} \ {None})
    /\ \A o \in InfoObjects : {new, data} \cap Freed(o) = {}

\* However much of the file was there at each read, what an object says is
\* what was embedded in the whole of it (version_info.cpp:426-512): a read
\* that comes up short does not become a version of zeros or a missing name.
SaysWhatWasEmbedded ==
    \A o \in InfoObjects : Has(o) => info[impl[o]].strings = file.says
=============================================================================

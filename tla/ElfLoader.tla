------------------------------ MODULE ElfLoader ------------------------------
(***************************************************************************)
(* elf_loader.c: the segments of an ELF file are copied to the guest's     *)
(* pages byte by byte, pages are added for what has no bytes in the file,  *)
(* and the segments of the address space are set from two sections.        *)
(*                                                                         *)
(* A file is a record: its bytes, its program headers, and the addresses   *)
(* of .text and .data, or -1.  As ELF requires, an offset in the file and  *)
(* its address agree modulo PageSize, and headers come in order of address.*)
(***************************************************************************)
EXTENDS PageTable, FiniteSets

CONSTANTS PageSize,
          Starts        \* seg_starts, by name

StartAddrs == [TEXT : Nat, DATA : Nat, HEAP : Nat, STACK : Nat]
ASSUME PageAssumption == /\ PageSize \in Nat \ {0} /\ Offsets = 0 .. PageSize - 1
                         /\ Pages \subseteq Nat /\ IsFiniteSet(Pages)
ASSUME StartsAssumption == Starts \in StartAddrs

VARIABLES
    image,              \* the file
    part,               \* "off", "file", "bss", "done": which loop runs
    header, j,          \* its counters: program header and byte
    seg_start_addr
loader == <<image, part, header, j, seg_start_addr>>

Loader == "main"        \* it runs before there are threads

NotLoaded(images) ==
    /\ image \in images
    /\ part = "off" /\ header = 1 /\ j = 0 /\ seg_start_addr = Starts

PageOf(a) == a \div PageSize
OffsetOf(a) == a % PageSize

Ph == image.headers[header]
VAlign == Ph.vaddr % PageSize
FAlign == Ph.filesz + (PageSize - ((Ph.filesz + Ph.vaddr) % PageSize))

\* An ELF file: a segment has no fewer bytes in memory than in the file, every
\* address has a page and every byte that is copied is there, and a segment
\* starts behind the bytes of those before it.
WellFormed(file) ==
    /\ Len(file.headers) \in Nat /\ DOMAIN file.headers = 1 .. Len(file.headers)
    /\ {file.text, file.data} \subseteq Nat \cup {-1}
    /\ \A i \in DOMAIN file.headers : LET ph == file.headers[i] IN ph.load =>
          /\ {ph.vaddr, ph.offset, ph.filesz, ph.memsz} \subseteq Nat /\ ph.filesz <= ph.memsz
          /\ \A k \in 0 .. ph.memsz + PageSize - 1 : PageOf(ph.vaddr + k) \in Pages
          /\ \A k \in 0 .. ph.filesz + (ph.vaddr % PageSize) - 1 :
                file.bytes[ph.offset + k] \in Values
          /\ \A h \in 1 .. i - 1 : LET below == file.headers[h]
                                  IN below.load => below.vaddr + below.filesz <= ph.vaddr

\* Mutant of Copied: the first page's share of the segment only.
CopiedShort == Ph.filesz - VAlign

\* How many bytes are copied, and how many have room only.
Copied == Ph.filesz + VAlign
Cleared == IF Ph.memsz > Ph.filesz THEN Ph.memsz - Ph.filesz ELSE 0

Goto(loop) == part' = loop /\ j' = 0 /\ UNCHANGED <<image, seg_start_addr, pages>>

LoadByte ==
    /\ part = "file" /\ header <= Len(image.headers) /\ Ph.load /\ j < Copied
    /\ LET a == Ph.vaddr + j
       IN Call(Loader, [op |-> "write", num |-> PageOf(a), off |-> OffsetOf(a),
                        val |-> image.bytes[Ph.offset + j]])
    /\ j' = j + 1
    /\ UNCHANGED <<image, part, header, seg_start_addr>>

FileLoaded ==
    /\ part = "file" /\ header <= Len(image.headers) /\ Ph.load /\ j >= Copied
    /\ at[Loader] = Idle
    /\ Goto("bss") /\ UNCHANGED header

MapBss ==
    /\ part = "bss" /\ j < Cleared
    /\ LET a == Ph.vaddr + FAlign + j
       IN Call(Loader, [op |-> "map", num |-> PageOf(a), off |-> OffsetOf(a), val |-> Zero])
    /\ j' = j + 1
    /\ UNCHANGED <<image, part, header, seg_start_addr>>

\* Mutant of NextHeader: a header that is skipped is not stepped over.
NextHeaderStuck ==
    /\ at[Loader] = Idle /\ Goto("file")
    /\ \/ part = "bss" /\ j = Cleared /\ header' = header + 1
       \/ part = "file" /\ header <= Len(image.headers) /\ ~Ph.load /\ UNCHANGED header

NextHeader ==
    /\ at[Loader] = Idle
    /\ \/ part = "bss" /\ j = Cleared
       \/ part = "file" /\ header <= Len(image.headers) /\ ~Ph.load
    /\ header' = header + 1 /\ Goto("file")

\* The scan of the section names.
Sections ==
    /\ part = "file" /\ header > Len(image.headers)
    /\ seg_start_addr' = [seg_start_addr EXCEPT
                             !.TEXT = IF image.text = -1 THEN @ ELSE image.text,
                             !.DATA = IF image.data = -1 THEN @ ELSE image.data]
    /\ part' = "done" /\ UNCHANGED <<image, header, j, pages>>

LoadStep == \/ LoadByte \/ FileLoaded \/ MapBss \/ NextHeader \/ Sections
            \/ part # "off" /\ AccessStep(Loader) /\ UNCHANGED loader

-----------------------------------------------------------------------------
Byte(a) == Contents[PageOf(a)][OffsetOf(a)]
Loadable == {image.headers[i] : i \in {k \in DOMAIN image.headers : image.headers[k].load}}

\* loadElf: when the last segment is in memory, every byte of every segment is
\* where the file wants it, also where two segments share a page, and although
\* more bytes are copied than a segment has.
FileBytesLoaded ==
    [][part' = "done" /\ part # "done" =>
        \A ph \in Loadable : \A i \in 0 .. ph.filesz - 1 :
            Byte(ph.vaddr + i)' = image.bytes[ph.offset + i]]_<<pages, loader>>

\* elf_loader.c:89-91, "Map bss address space.  Data initialization to 0 happens
\* indirectly through calloc()": what a segment has beyond its bytes in the
\* file is zero when the program starts.
BssCleared ==
    [][part' = "done" /\ part # "done" =>
        \A ph \in Loadable : \A i \in ph.filesz .. ph.memsz - 1 :
            Byte(ph.vaddr + i)' = Zero]_<<pages, loader>>
=============================================================================

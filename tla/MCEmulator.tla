------------------------------ MODULE MCEmulator ------------------------------
(***************************************************************************)
(* Pages of two bytes.  The guest has text from 4, data from 8, the heap   *)
(* at 16 and the stack below 22; the hash puts neighbouring pages, and the *)
(* stack with the text, in one chain, as ptable_hash does with the pages   *)
(* of 0x400000, 0x10000000 and 0x7fffff000.                                *)
(***************************************************************************)
EXTENDS Emulator

MCPages == 2 .. 11
MCHash == [p \in MCPages |-> IF p \in {5, 6, 7} THEN 1 ELSE 0]
MCStarts == [TEXT |-> 4, DATA |-> 8, HEAP |-> 16, STACK |-> 22]
MCMay == [c \in {"main"} |-> {}]      \* it asks as Emulator says

Bytes(s) == [i \in 0 .. Len(s) - 1 |-> s[i + 1]]
Segment(vaddr, offset, filesz, memsz) ==
    [load |-> TRUE, vaddr |-> vaddr, offset |-> offset, filesz |-> filesz, memsz |-> memsz]
Note == [Segment(0, 0, 1, 1) EXCEPT !.load = FALSE]

\* Text and data share page 3, the data starts in the middle of it, and other
\* parts of the file follow the data.
Program == [headers |-> <<Segment(4, 0, 3, 3), Note, Segment(7, 3, 2, 4)>>,
            bytes |-> Bytes(<<1, 2, 1, 2, 1, 2, 2>>), text |-> 4, data |-> 7]
\* The data fills its page; there is no .data, only .rodata and .bss.
Aligned == [headers |-> <<Segment(4, 0, 2, 2), Segment(8, 2, 2, 4)>>,
            bytes |-> Bytes(<<2, 1, 1, 2>>), text |-> 4, data |-> -1]
MCFiles == [f \in {"prog", "bss"} |-> IF f = "prog" THEN Program ELSE Aligned]

Opt(name, val) == [name |-> name, val |-> val]
Cache(a, b, c, d) == <<Opt("A", a), Opt("B", b), Opt("C", c), Opt("d", d)>>

\* Runs with and without a cache and a checkpoint, options given twice, unknown,
\* or behind one that fails; a cache of three sets, of no way, of no delay.
MCCommandLines ==
    {<<Opt("i", "prog"), Opt("c", TRUE)>>,
     <<Opt("c", TRUE), Opt("i", "bss"), Opt("?", 0), Opt("l", 2), Opt("v", 7)>>,
     <<Opt("i", "bss"), Opt("l", 0), Opt("i", "prog"), Opt("l", 2), Opt("A", 2)>>,
     Cache(2, 8, 16, 3) \o <<Opt("i", "prog"), Opt("c", TRUE), Opt("d", 2), Opt("l", 5)>>,
     Cache(1, 8, 24, 2) \o <<Opt("i", "prog"), Opt("c", TRUE), Opt("l", 2)>>,
     Cache(1, 8, 16, 1) \o <<Opt("o", TRUE), Opt("i", "bss"), Opt("c", TRUE), Opt("v", 2)>>,
     Cache(1, 8, 16, 0) \o <<Opt("i", "bss"), Opt("c", TRUE), Opt("l", 2)>>,
     Cache(0, 8, 16, 1) \o <<Opt("i", "prog")>>,
     Cache(0, 8, 16, 1) \o <<Opt("i", "prog"), Opt("o", FALSE)>>,
     <<Opt("i", "prog"), Opt("l", 1), Opt("c", FALSE), Opt("l", 2), Opt("i", "bss")>>,
     <<Opt("o", FALSE), Opt("i", "prog")>>,
     <<Opt("i", "none")>>, <<Opt("A", 1)>>, <<Opt("h", 0)>>, <<Opt("B", 12)>>}

\* In the text, the data, the bss, in the heap and on the stack.
MCAccesses ==
    {[op |-> op, num |-> p, off |-> 1, val |-> 1] : op \in {"read", "write"}, p \in {2, 4, 10}}
    \cup {[op |-> "write", num |-> p, off |-> 0, val |-> 2] : p \in {5, 8}}
=============================================================================

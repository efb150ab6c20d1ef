----------------------------- MODULE MemoryMap -----------------------------
(***************************************************************************)
(* The guest's address space as mem.c divides it: a text segment, the data *)
(* segments above it, the kernel segment above those, and the addresses    *)
(* whose accesses are trapped.                                             *)
(***************************************************************************)
EXTENDS Instructions, Sequences

CONSTANTS TextLo, DataLo, KernelLo, StackLo   \* starts of segments
CONSTANT Input                                \* the number waiting at the console

ASSUME SegmentAssumption ==
    /\ {TextLo, DataLo, KernelLo, StackLo} \subseteq Word
    /\ 0 < TextLo /\ TextLo < DataLo /\ DataLo < StackLo /\ StackLo < KernelLo
    /\ KernelLo < W - 2
ASSUME InputAssumption == Input \in Word

NULL_ADDR == 0
IO_CHAR_ADDR == W - 1            \* byte address -1
CHECKPOINT_ADDR == W - 2         \* byte address -9, reached by aligned loads only
Special == {NULL_ADDR, IO_CHAR_ADDR, CHECKPOINT_ADDR}

AddrInImem(a) == TextLo <= a /\ a < DataLo
AddrInDmem(a) == DataLo <= a /\ a < KernelLo

\* dmem(): outside the data segments or misaligned, unless trapped.
DmemErr(a) == (~AddrInDmem(a) \/ a % 2 # 0) /\ a \notin Special

\* A trapped access that ends the emulator: reading NULL calls exit, and
\* writing the checkpoint address runs into assert(false).
Ends(op, a) == \/ DmemRead(op) /\ a = NULL_ADDR
               \/ DmemWrite(op) /\ a = CHECKPOINT_ADDR

\* What a load returns, over the memory as it stands.  A checkpoint read only
\* writes the log.
LoadValue(mem, a) == CASE a = IO_CHAR_ADDR -> Input
                       [] a \in {NULL_ADDR, CHECKPOINT_ADDR} -> 0
                       [] OTHER -> mem[a]

\* The cells of memory that can be told apart, one per address: an aligned
\* data address is the doubleword there, any other is the damage that a
\* faulting store does.
Stored(mem, a, v) == IF a \in Special THEN mem ELSE [mem EXCEPT ![a] = v]
Shown(output, a, v) == IF a = IO_CHAR_ADDR THEN Append(output, v) ELSE output
=============================================================================

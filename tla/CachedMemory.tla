---------------------------- MODULE CachedMemory ----------------------------
(***************************************************************************)
(* The guest's memory behind the data cache: mem.c's cached accesses over  *)
(* cache.c.                                                                *)
(*                                                                         *)
(* The accesses are aligned, so the eight bytes of one are a cell of one   *)
(* block, and the loop over bytes in _mem_read_cache and _mem_write_cache  *)
(* finds the same line eight times; a misaligned access is a fault, after  *)
(* which the emulator stops.  Each call is one action.  The counters of    *)
(* cache.c are in Csim and Emulator.  Nothing is bounded but the           *)
(* constants.                                                              *)
(***************************************************************************)
EXTENDS Cache

CONSTANTS
    Images,       \* what a loaded program may leave in memory
    Delay         \* miss delay d

ASSUME DelayAssumption == Delay \in Nat \ {0}
ASSUME DataAssumption == Zero \in Values /\ Images \subseteq [Blocks -> Data]

VARIABLES
    mem,                                       \* the pages
    inflight, inflight_addr, inflight_cycles,  \* mem.c
    dmem_status, result                        \* what the caller sees

vars == <<mem, lines, lru_matrix, next_lru, inflight, inflight_addr, inflight_cycles,
          dmem_status, result, age>>

Init ==
    /\ mem \in Images
    /\ CreateCache
    /\ inflight = FALSE /\ inflight_addr = 0 /\ inflight_cycles = Delay
    /\ dmem_status = "READY" /\ result = Zero

-----------------------------------------------------------------------------
\* Mutant of WrittenBack: the block number is put together the wrong way round.
WrittenBackAside(s, k) ==
    LET e == lines[s][k]
    IN IF e.valid /\ e.dirty THEN [mem EXCEPT ![BlockOf(s, e.tag)] = e.data]
       ELSE mem

\* What the pages hold after line k of set s has been evicted.
WrittenBack(s, k) ==
    LET e == lines[s][k]
    IN IF e.valid /\ e.dirty THEN [mem EXCEPT ![BlockOf(e.tag, s)] = e.data] ELSE mem

\* Mutant of Remaining: the count goes on for whichever block is asked for.
RemainingAny(b) == (IF inflight THEN inflight_cycles ELSE Delay) - 1

\* The count of the miss being served after this call.
Remaining(b) == (IF inflight /\ inflight_addr = b THEN inflight_cycles ELSE Delay) - 1

\* A call that finds the block.
Found(b, k, line) ==
    /\ Hit(b) /\ k = First(Holding(b))
    /\ lines' = [lines EXCEPT ![Index(b)] = [@ EXCEPT ![k] = line]]
    /\ Used(Index(b), k)
    /\ UNCHANGED <<mem, inflight, inflight_addr, inflight_cycles>>

\* A call whose miss has been served: handle_miss fills a line.
Served(b, k, line) ==
    /\ ~Hit(b) /\ Remaining(b) = 0 /\ k = SelectLine(Index(b))
    /\ mem' = WrittenBack(Index(b), k)
    /\ lines' = [lines EXCEPT ![Index(b)] = [@ EXCEPT ![k] = line]]
    /\ Used(Index(b), k)
    /\ inflight' = FALSE /\ inflight_addr' = b /\ inflight_cycles' = 0

\* A call that has to wait.
Waiting(b) ==
    /\ ~Hit(b) /\ Remaining(b) > 0
    /\ inflight' = TRUE /\ inflight_addr' = b /\ inflight_cycles' = Remaining(b)
    /\ dmem_status' = "IN_FLIGHT"
    /\ UNCHANGED <<mem, lines, lru_matrix, next_lru, age>>

\* _mem_read_cache
Read(b, o) ==
    \/ \E k \in Ways : /\ Found(b, k, lines[Index(b)][k])
                       /\ dmem_status' = "READY"
                       /\ result' = lines[Index(b)][k].data[o]
    \/ \E k \in Ways : /\ Served(b, k, Filled(b, FALSE, mem[b]))
                       /\ dmem_status' = "READY"
                       /\ result' = mem[b][o]
    \/ Waiting(b) /\ result' = Zero

\* _mem_write_cache
Write(b, o, v) ==
    /\ \/ \E k \in Ways :
             /\ Found(b, k, Filled(b, TRUE, [lines[Index(b)][k].data EXCEPT ![o] = v]))
             /\ dmem_status' = "READY"
       \/ \E k \in Ways :
             /\ Served(b, k, Filled(b, TRUE, [mem[b] EXCEPT ![o] = v]))
             /\ dmem_status' = "READY"
       \/ Waiting(b)
    /\ UNCHANGED result

Next == \E b \in Blocks, o \in Offsets :
            Read(b, o) \/ \E v \in Values : Write(b, o, v)

Spec == Init /\ [][Next]_vars

-----------------------------------------------------------------------------
TypeOK ==
    /\ mem \in [Blocks -> Data]
    /\ lines \in [Sets -> [Ways -> Line]]
    /\ lru_matrix \in [Sets -> [Ways -> [Ways -> BOOLEAN]]]
    /\ next_lru \in [Sets -> 0 .. A]
    /\ inflight \in BOOLEAN /\ inflight_addr \in Blocks \cup {0} /\ inflight_cycles \in 0 .. Delay
    /\ dmem_status \in {"READY", "IN_FLIGHT"} /\ result \in Values
    /\ age \in [Sets -> [Ways -> Ways]]

\* A line that is not dirty may be dropped: the pages hold the same.
CleanLinesMatch ==
    \A s \in Sets, w \in Ways :
        lines[s][w].valid /\ ~lines[s][w].dirty
        => lines[s][w].data = mem[BlockOf(lines[s][w].tag, s)]

-----------------------------------------------------------------------------
\* The memory the caller sees: the cache's word where it has the block.
View == [b \in Blocks |-> IF Hit(b) THEN lines[Index(b)][First(Holding(b))].data ELSE mem[b]]

Flat == INSTANCE FlatMemory WITH cells <- View, ready <- dmem_status = "READY"

\* Behind the cache the memory is still a flat array: fills, evictions and
\* writebacks never lose, invent or move a word, and a call that has to wait
\* changes nothing.
ImplementsFlatMemory == Flat!Spec

\* When a call has to wait, and for how long, depends on nothing but the blocks
\* that are present and the one miss being counted, and a fill pushes out one
\* block at most: behind real lines memory is what Pipeline takes it to be.
Present == {b \in Blocks : Hit(b)}

Miss == [status |-> dmem_status, inflight |-> inflight, addr |-> inflight_addr,
         cycles |-> inflight_cycles, lines |-> Present]

Delayed == INSTANCE DelayedMemory WITH cells <- View, dmem <- Miss

ImplementsDelayedMemory == Delayed!Spec
=============================================================================

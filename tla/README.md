# Verification of the chArm-v5 system emulator

The repository (`src/`) is a cycle-level emulator of a small AArch64 machine:
five pipeline stages, forwarding and hazard control, a data cache in front of
the guest's pages, and three builds that differ in how the stage functions are
run (in program text order, in a random order, on one thread each).  Beside it
there is `csim`, which replays traces against the same cache.  This directory
holds TLA+ models of both, the TLC runs that check them, and theorems that the
TLA+ proof system proves about them.

Paths such as `proc.c:180` are below `src/src` (`base/`, `pipe/`, `cache/`).

    tlc -workers 2 -config straight_line.cfg MCPipeline.tla    # a run
    tlapm CachedMemoryProofs.tla                              # the proofs of a module

## 1. The system

| Component | State | Operations | Hard part |
|---|---|---|---|
| Cycle loop, `base/proc.c` | `num_instr`, `guest.proc` (PC, NZCV, SP, GPRs, status), the `in` and `out` side of five pipeline registers | `runElf`: run the stages, `forward_reg`, the hazard check, copy or bubble or keep each register | one clock edge depends on what all five stages found in the cycle |
| Stages, `pipe/instr_*.c` | the pipeline registers and wires (`X_nzcvval`, `M_wval`, `X_condval`, ...) | `fetch_instr`, `decode_instr`, `execute_instr`, `memory_instr`, `wback_instr` | a stage reads registers while an older one writes them; wrong-path instructions; faults of different ages in one cycle |
| Hazard control and forwarding, `pipe/hazard_control.c`, `pipe/forward.c` | `pipe_control_stage` per register, `deassert_flags` | `forward_reg`, `handle_hazards` and its checks | a chain in which only the first hazard acts, and error overrides behind it |
| Stage ordering, `base/stage_ordering.c` | a table of the 120 orders | draw one in each cycle | every order has to give the same cycle |
| Stage threads, `base/proc.c` (PARALLEL) | six threads, two barriers, `running_sim` | `start_*`, create, wait, stop, join | mutual exclusion of stages and correction steps; deadlock; shutdown |
| Hardware elements, `base/hw_elts.c` | none | `alu`, `regfile`, `cond_holds`, `imem`, `dmem` | carries and overflow; trapped addresses; errors |
| Instruction tables, `pipe/instr_base.c`, `instr_Decode*.c` | none | `itable`, aliases, control signals, operand numbers | numbers 31 (SP) and 32 (XZR) |
| Guest memory, `base/mem.c` | `inflight`, `inflight_addr`, `inflight_cycles`, `dmem_status` | `mem_read_*`, `mem_write_*`, the cached forms | a miss is served by repeating the access every cycle |
| Cache, `cache/cache.c` | sets of lines, LRU bit matrix, `next_lru`, counters | `create_cache`, `get_line`, `select_line`, `check_hit`, `handle_miss`, `access_data`, `get/set_word_cache` | the matrix is LRU for every history; dirty words have one copy; counters that are right over any trace |
| Cache simulator, `cache/csim.c` | options | `main`, `replayTrace`, `printSummary` | an M line is two accesses; refused shapes |
| Page table, `base/ptable.c` | 128 hash chains of pages | `get_page`, `add_page` | no page may be lost or doubled; unlocked in the PARALLEL build |
| ELF loader, `base/elf_loader.c` | pages, `seg_start_addr` | `loadElf` | segments that share pages; how many bytes are copied and how many have only room |
| Machine state and checkpoint, `base/machine.c` | segments, `guest.cache` | `init_machine`, `log_machine_state` | a walk over the pages with the address and page number kept apart; statistics that divide by the delay |
| Command line and top level, `handle_args.c`, `archsim.c`, `interface.c`, `err_handler.c` | the options, the open files, `terminate` | `main`, `handle_args`, `init`, `finalize`, `logging` | options in any order; a file that cannot be opened ends the parsing but not the run |
| Test harnesses, `testbench/`, `verify.py` | | run and compare | |

In one cycle the loop calls the five stage functions.  Each reads the `out`
side of its register and writes the `in` side of the next.  They share four
things: the register file (Decode reads, Writeback writes), the memory (Fetch
reads, Memory reads and writes), the wires between Execute, Memory and Fetch,
and `dmem_status` with the miss it counts.  Then the loop alone calls
`forward_reg`, which rewrites the operands in `X_in`, and
`handle_hazards`, which decides for each register whether it loads, keeps or
bubbles, and applies that.  Around the loop, `main` parses the command line,
creates the machine, loads the file into pages, and at the end writes the
checkpoint from the pages; the guest may ask for a checkpoint in between.

What makes the parts correct:

* the pipeline is invisible: registers, flags, memory, console output, final
  status and final program counter are those of executing one instruction
  after another (`README.md` presents the emulator as a machine that runs ELF
  programs), whatever order the stages run in and whatever the cache delays;
* the stages run once per cycle and never beside the correction steps, and the
  threads end;
* the cache is invisible, except in time, gives up the least recently used
  line, and counts what it does;
* the pages are an array of bytes in which the file is found when the guest
  starts, and which the checkpoint shows as it is;
* the options take effect and the program ends.

`PROJECT.json` lists the hazards, each at its line with the properties that
cover it, or the reason why none does.

## 2. Modules

| Module | Models | Built on |
|---|---|---|
| `Instructions` | words, registers, `itable` and aliases, control signals, operand numbers, ALU selection, conditions | |
| `MemoryMap` | segments, trapped addresses, `imem` and `dmem` on a flat memory | `Instructions` |
| `ALU` | `alu()` and the ripple-carry adder on `Bits`-bit words | |
| `Architecture` | the architectural state and the effect of one instruction | `MemoryMap` |
| `Machine` | abstract: one instruction after another | `Architecture` |
| `MissDelay` | the cache as a stage sees it: blocks present, the miss that is counted | |
| `Pipeline` | the cycle loop, stages and their orders, forwarding, hazard control, clock edge | `MemoryMap`, `MissDelay` |
| `PipelineRefinement` | the mapping of pipeline states to machine states | `Pipeline`, `Machine` |
| `PipelineProperties` | properties of the single mechanisms, and what they ask of programs | `PipelineRefinement` |
| `PipelineProgress` | the cycles since an instruction was issued | `PipelineProperties` |
| `MCPipeline`, `MCProgress` | instances and program families for TLC | `PipelineProperties`, `ALU`; `PipelineProgress` |
| `Cache` | `cache.c`: lines, lookup, matrix LRU | |
| `FlatMemory` | abstract: an array whose accesses may be refused for a while | |
| `DelayedMemory` | abstract: what `Pipeline` takes memory to be, an array held up by `MissDelay` | `MissDelay` |
| `CachedMemory` | cached accesses of `mem.c` | `Cache`, `FlatMemory`, `DelayedMemory` |
| `LruCache` | abstract: sets of ranked blocks, with counters | |
| `Csim` | the trace simulator | `Cache`, `LruCache` |
| `PageTable` | `ptable.c` and the byte accesses of `mem.c` | `FlatMemory` |
| `ElfLoader` | `loadElf` | `PageTable` |
| `Emulator` | the program from command line to exit | `ElfLoader` |
| `CycleOrder` | abstract: every stage once per cycle | |
| `StageThreads` | threads and barriers of the PARALLEL build | `CycleOrder` |
| `MCCachedMemory`, `MCCsim`, `MCPageTable`, `MCEmulator` | instances for TLC | |
| `PipelineProofs`, `RefinementProofs`, `CacheProofs`, `CachedMemoryProofs`, `CsimProofs`, `PageTableProofs`, `EmulatorProofs`, `StageThreadsProofs` | lemmas and theorems | the module of that name; `PipelineProofs` on `PipelineProgress`, `RefinementProofs` on `PipelineProofs`, `EmulatorProofs` on `PageTableProofs` |

### Pipeline

`Fetch`, `Decode`, `Execute`, `Memory` and `Writeback` are the stage functions,
each with everything it calls; `EndCycle` is the rest of the loop body.  `ran`
is the set of stages already called in this cycle.  `Orderings` is the table of
`stage_ordering.c`, and `Calls` says which stages may have run when a stage is
called: with `AnyOrder = FALSE` those in front of it in the source, otherwise
those in front of it in any order of the table.  A pipeline register is a
record; the control signals are functions of the opcode in the record
(`generate_DXMW_control`), since the code computes them from it once and copies
them along.  An instruction is a record of opcode, register fields, immediate
and condition: the bit fields, `itable` keys and sign extension behind it are
not represented, except that field values go where the extraction puts them.
A word stands for a 64-bit value, an address is counted in units of four
bytes, so an instruction takes one unit and a doubleword two.

Three things that the build leaves open are choices:

* `Outside`: what a fetch outside the text segment decodes to.  The code reads
  the pages there; the model lets it be any member of the set;
* `Uninit`: a register number that `decode_instr` leaves unset for an
  instruction that does not have it;
* with `Cached`, which block a fill pushes out.  `dmem.lines` is a set of
  blocks with arbitrary evictions, so a run covers every shape of the cache and
  every replacement.  `MissDelay` has this part, so that `DelayedMemory` can say
  in the same operators what `CachedMemory` is shown to be.

`Machine` has one action, an instruction.  The mapping finishes the instructions
in Writeback, Memory and Execute, oldest first, with the operators of
`Architecture`: an instruction counts as executed at the clock edge that moves
it to Execute, since later only an older fault can stop it.  `Architecture`
shares operand selection and the ALU with the pipeline (these are functions in
the code too); what it has of its own is the order, the flags, the memory
effects, the successor and the fault.

`PipelineProgress` adds one history variable, `idle`: how many cycles have ended
since one in which an instruction moved from Decode to Execute.

`Laid` is about the text of the programs alone: no halt is among the two
instructions fetched behind a conditional branch (at its target, and where that
leads) nor behind a return; no RET is the target of CBZ or CBNZ; with a cache,
what follows a load or a store is an instruction; and what is outside the text
segment decodes to no branch or access.  `RegularData` is what is left of
`Regular` then.

### Cache, CachedMemory and Csim

`Cache` is the part of `cache.c` that both of its users share.  `age` is the
only history variable: it ranks the lines of a set by their last use and no
action reads it.

In `CachedMemory`, `Read` and `Write` are one call each of
`mem_read_L`/`mem_write_L` with a cache: look up, count down the miss, fill a
line from the pages, write back the line given up, update the LRU matrix, set
`dmem_status`.  A cell is an aligned doubleword.  Any call may follow any other,
so a miss may also be given up for another address and taken up again.
`FlatMemory` is what a program may rely on: the array, and an access that is
done or refused.  `DelayedMemory` is what the pipeline relies on: it also says
which access is refused, and for how long.

In `Csim`, `Option` is one turn of the getopt loop, `CheckArgs` what follows it
up to the fopen, `ReplayLine` one line of the trace and `Rewrite` the second
access of an M line; `EndOfTrace` is `printSummary`, and the trace may end after
any line.  A malformed line of the trace changes nothing and is left out.
`LruCache` knows no lines, tags or matrix: a set is a ranked set of blocks, of
which the one ranked last goes when there are `A` of them.

### PageTable, ElfLoader and Emulator

`PageTable` takes an access apart where another thread can come in between:
`Find` (the test for NULL), `Link` (a new page copies the head of its chain),
`Publish` (it becomes the head), `Use`.  A page is its place in `heap`, a chain a
sequence of pages; a page keeps its successor and chains grow at the head, so the
copied head stands for the chain behind it.  Who asks for what is a parameter
(`Clients`, `May`), so that the same module serves the loader and the guest of
the sequential builds, and the two threads that access memory in the PARALLEL
build.  `ptable_hash` is a constant function.

`ElfLoader` has the loops of `loadElf`, one byte per step, each byte a request
to the page table.  `Emulator` puts the program around it.  `pc` is how far
`main` is; `Option`, `CheckArgs`, `InitMachine`, `OpenElf`, `LoadElf`, `RunElf`,
`EndCycle` and `Finalize` follow it.  The guest is any program: in a cycle it
makes at most one access, to a page (`Access`), to the cache (`AccessCache`) or
to a trapped address (`Trap`: the console, which prints a word or is asked for a
number, a checkpoint, NULL read or written, and the write to the checkpoint's
address that aborts), and it may stop at any time.

The cache keeps data, in lines of one doubleword (`lines`, with a dirty bit).
`CacheHit` is an access that finds its line and may make it dirty; `CacheWait` a
cycle of a miss; `CacheFill` the cycle in which the block is read from the pages;
`HandleMiss` puts the line in and writes a dirty one that makes room for it back
to the pages.  Which line makes room is any, so that every shape of the cache is
covered; nothing writes dirty lines back when the program ends.

`log_machine_state` is a walk, a page at a time (`StartLog`, `PrintPage`,
`NextList`, `EndLog`).  `walk` has the address and the page number that the code
keeps in two variables, and as in the code the loop over the heap starts with the
number that the loop over the data has left.  `printed` is what has been printed
so far, and `report` the checkpoint once it is complete.  `given`, `served`,
`said` and `shown` are history.

### StageThreads

`pc[t]` is the statement a thread is at, `blocked` the threads that sleep in a
barrier.  Stage functions and correction steps are single labels; what they do
is `Pipeline`.  Whether the program ends after a cycle is a choice.

## 3. Runs

| Run | Asks | Result |
|---|---|---|
| `straight_line` | All 4-instruction sequences of loads, stores, adds, moves over two registers, all of three console accesses, and of three misaligned or NULL loads, undefined instructions and halts among stores and compares, or any three of these behind a faulting load: are operands current in Execute, does the program behave as on `Machine`, and does it stop as precisely? | holds |
| `control_hazards` | All 4-instruction sequences of branches, calls, returns, compares, 3-instruction sequences of the `-DEC` instructions, and branches, calls and returns around halts: are conditions tested on current flags, are bubbles only where a hazard asks for them, is everything behind a fallen branch squashed, and do only halts on the path stop the fetching? | holds |
| `cache_delay` | Loads, stores, compares, branches over a cache with a delay of 3 and any eviction, the stages in each of the 120 orders in every cycle, with any unset register number: a miss holds everything younger, the count belongs to the access in Memory, and no order changes a result | holds |
| `progress` | All 3-instruction sequences of loads and stores that miss, branches, undefined instructions and halts over a cache with a delay of 3: how long does the loop issue nothing? | at most nine cycles |
| `cached_memory` | All call sequences over four blocks, two sets of two lines, delay 2: LRU, no duplicates, clean lines match, flat memory, and the delays the pipeline's model has | holds |
| `threads` | Six threads, three cycles: exclusion, order, termination, no deadlock | holds |
| `csim` | Every trace of up to five lines over two sets of three lines, eleven command lines: the counters are those of an ideal LRU cache | holds |
| `lifecycle` | Fifteen command lines, two files, any guest of up to six cycles, with and without a cache: options, loading, pages, checkpoint, statistics, exit | holds |
| `sp_forward`, `extra_return`, `page_race`, `bss` | One statement of the documentation or a comment each | violated, section 6 |

Properties, by what they relate:

* `ImplementsMachine` (refinement): an action property of every step.
* `OperandsCurrent`: operands that move into Execute against the registers
  after all older instructions.
* `ConditionOnFlags`: the wire that conditions are tested on against `NZCV`.
* `BubblesHaveCause`: every bubble in Decode or Execute against the
  instruction that asked for it.
* `MispredictSquashed`: what follows a branch that fell through never enters
  Execute.
* `NeverIdle`: the cycles without an instruction issued against the delay.  It is
  a safety property that says more than that the loop goes on: when it does.
* `HaltOnPath`: fetching has stopped only because of a halt on the path the
  program takes.
* `Regular` (`cache_delay`): the run's programs keep clear of the departures of
  section 6 that are about the pipeline, so that the theorems of `RefinementProofs`
  are about them.  It excludes those cases and does not examine them.
* `StopsAsMachine`: final status and program counter against the machine's.
* `MissesStall`, `InFlightOwned`: the miss in flight against the instruction in
  Memory.
* `VictimLeastRecent`: the matrix and `next_lru` against the history of uses.
* `NoDuplicates`, `CleanLinesMatch`, `ImplementsFlatMemory`: lines against
  pages and against the array.  `ImplementsDelayedMemory` (refinement): lines and
  the count of `mem.c` against what the pipeline's model makes of them.
* `ImplementsLruCache` (refinement), `MissesFillLines`,
  `SummaryAccountsForTrace`: the counters against an ideal cache, the lines, and
  the trace.  `ModifyHits`: the two halves of a modification.
* `PagesAreFlat` (refinement), `NoReplacement`: chains against the array, and
  against what get_page has once returned.
* `FileBytesLoaded`, `BssCleared`: memory when the loader is done against the
  file.
* `CheckpointTrue`: each word a checkpoint prints, at the address it prints it
  under, against what a load there would return; below a dirty line, against the
  page.  `CheckpointShowsSegments`: each byte of a loaded segment, its bss
  included, against what is printed.  It exempts what lies below a dirty line and
  the segments before whose bss the loader leaves a hole (`Hole`); both are in
  section 6.  `MissesReported`: the statistics against the misses that were
  served.
* `OptionsTakeEffect`, `OutputLostOnlyUnopened`: the machine, and what the
  console shows, against the command line.  A run that could not open a file has
  the options in front of that file (`Heeded`) and none of those behind it.  Of an
  invalid cache configuration the property says nothing: the usage NOTE promises
  a run without a cache, the code makes one (section 6).
* `Exits`, `Terminates`: the program ends; so do the threads.
* `CorrectionAlone`, `ImplementsCycleOrder`: the threads.

### Bounds, and why they suffice

* `W = 16`: four-bit words, with 16 units of memory: NULL at 0, text 1 to 9,
  two doublewords of data at 10 and 12, where the stack starts too, and from 13
  the kernel with the trapped addresses of console and exit.  Four bits are
  enough to tell every flag combination and every memory range apart.
* Programs have two to four free slots behind a prologue.  An instruction
  affects younger ones by way of the pipeline for as long as it is in Execute,
  Memory or Writeback, so at most three cycles; four slots give every distance
  and put a third and fourth instruction between and behind two that depend on
  each other.  Three are enough for the console, where it is the order of two
  accesses that counts, and for a fault and what is around it; behind a load that
  faults there are three more, so that every stage behind it can hold a fault of
  its own.  `cache_delay` has two or three, as each order of the stages multiplies
  its states.
* `progress` has an access that misses, one that misses behind it or a branch, and
  one that ends the program, so three slots.  Both bounds of `NeverIdle` are met
  exactly, nine in this run and six in the same programs without a cache.
* `Gpr = {0, 1, 30}`: two registers and the link register, beside SP and XZR.
* `CycleMax` stands for the command-line limit.  It lets the free slots of a
  program pass all five stages with the bubbles they can cause; programs that
  run longer, such as loops, are cut off there, and every state before it has
  been checked.
* `Delay = 3` lets a count be neither first nor last; 2 does for
  `CachedMemory`, whose states do not depend on what runs behind.
* `cached_memory` has blocks 0, 2, 4 in one set of two lines, which forces
  evictions of clean and of dirty lines, and block 1 in the other.  It has no
  other bound: the state space is finite and complete.
* `threads` has the code's five stages and at most three cycles: a first, a
  middle and a last one.  The state at each start of a cycle is the same but
  for the count.
* `csim` has sets of three lines, the least for which the matrix is not just one
  bit, and in one set four blocks, one more than fit.  `TraceMax = 5` lets a
  full set lose a line and be asked for the lost block; as an M line makes two
  accesses there are up to ten.
* `lifecycle` has pages of two bytes, so that a segment of three bytes takes two
  pages, two segments share one, and bss runs into a page of its own.  Text,
  data, heap and stack lie as they do in the code, and the hash puts pages of
  different segments into one chain.  A value is one of three bytes: zero, and
  two that tell a write from what was loaded.  `DefaultMax = 4` stands for
  `MAX_NUM_INSTR`; the command lines set limits from 1 to 6.  The log levels
  differ only in what they print.  A cache line is one doubleword (`-B 8`), so one
  read fills it; caches have one line or two, so that stores are written back by
  later misses, and three lines in a configuration that is not valid.  The
  accesses reach the text, the data, a page shared by data and bss, the heap and
  the stack, so a checkpoint meets clean and dirty lines and pages that were
  first touched by a fill or by a write-back.
* `page_race` has the text's page, the page behind it and a page of the stack in
  one chain, and stops at four pages.

### Fairness

`StageThreads` assumes weak fairness of every step of every thread.  Threads are
scheduled by the operating system, none of their steps is disabled by another
one except at a barrier or a join, and a released barrier stays released.
`Terminates` depends on it.  `Emulator` assumes weak fairness of the program's
next step: it is one sequential thread, and a guest's cycles are bounded by
`cycle_max`.  It waits only for the console, when the guest reads a number
(`scanf`, `mem.c:82-107`); the assumption is that this returns, with a number or
at the end of the input.  `Exits` depends on it.  Neither needs strong
fairness.  The other modules state no liveness.

Deadlock is checked in `cached_memory` and `threads`.  The other models stop
when the program has ended (the pipeline, `csim`, `lifecycle`) or at the bound on
pages (`page_race`), so their runs do not check it; that the program stops only
at an exit is `Exits`.

## 4. Proofs

| Theorem | Says |
|---|---|
| `PipelineTyped` | `Spec => []TypeOK` for every word size, map, program, ALU, order, delay |
| `NoCycleLost` | with a cache and without, where the states satisfy `FetchesText`, every bubble has a cause (`BubblesHaveCause`), for every program, build, delay and order |
| `SquashedBehindBranch` | in the default build, where the states satisfy `FetchesText`, nothing behind a branch that falls through reaches Execute (`MispredictSquashed`), whatever misses or faults at the same edge |
| `LoopProgresses` | where the states satisfy `FetchesText`, the loop issues an instruction or ends within six cycles, or 5 + 2(d - 1) with a delay d > 1 (`NeverIdle`), for every program, build and order |
| `HaltsOnPath` | for programs that are `Laid`, with `FetchesText`, fetching stops only for a halt on the path (`HaltOnPath`) |
| `LaidProgramsRegular` | for programs that are `Laid`, `RegularData` is enough for `Regular` |
| `LaidProgramsCorrect` | for programs that are `Laid`, with `RegularData`, `Pipeline` implements `Machine` and stops as it does (`ImplementsMachine`, `StopsAsMachine`) |
| `PipelineCorrect` | `Pipeline` implements `Machine` (`ImplementsMachine`), for every word size, map, program, ALU, cache, delay, build and order of the stages, where the states are `Regular` |
| `OperandsAreCurrent` | where the states are `Regular`, what leaves Decode are the registers of the machine that has finished everything older (`OperandsCurrent`) |
| `StopsForTheMachine` | where the states are `Regular`, the emulator stops for the machine's reason and at its program counter (`StopsAsMachine`) |
| `MissesHoldThePipe` | where the states are `Regular`, nothing younger than a miss in flight moves (`MissesStall`) |
| `MissIsOwned` | with `FetchesText` and `NoOvertaking` alone, the miss in flight is that of the instruction in Memory (`InFlightOwned`) |
| `ConditionsOnFlags` | with `FlagsSetFirst` alone, conditions are tested on the machine's flags (`ConditionOnFlags`), in every program, order and fault |
| `CachedMemoryTyped` | `Spec => []TypeOK` for every shape and delay |
| `NoBlockTwice` | no block is in two lines |
| `LinesAgree` | clean lines match the pages |
| `MatrixIsLru` | the victim of a full set is its least recently used line, for every associativity |
| `CacheIsTransparent` | `CachedMemory` implements `FlatMemory` |
| `CacheMeetsPipeline` | `CachedMemory` implements `DelayedMemory`, the memory that `Pipeline` is built on |
| `CountsAsLru` | `Csim` implements `LruCache`, for every shape, trace and command line |
| `ModificationsHit` | the second access of an M line hits, and leaves its line dirty |
| `MissesFill` | misses less evictions are the lines in use |
| `SummaryIsComplete` | the hits and misses printed add up to the accesses of the trace, for every trace and command line |
| `PagesStay` | with one client no page is ever lost or replaced, for every hash |
| `PagesImplementArray` | with one client `PageTable` implements `FlatMemory`, for every hash |
| `BytesAreLoaded` | when the guest starts, every byte of the file's segments is in memory (`FileBytesLoaded`), for every hash, page size and file |
| `MemoryIsArray`, `NoPageMoves` | in the whole program the pages are an array of bytes and none is replaced (`PagesAreFlat`, `NoReplacement`) |
| `CheckpointIsTrue` | what a checkpoint prints under an address is what a load would return there or, below a dirty line, what the page holds (`CheckpointTrue`), for every hash, page size, file, guest and cache |
| `CheckpointIsComplete` | it prints everything of the loaded segments, bss included, that is not 0 and not below a dirty line, where the loader has left no hole (`CheckpointShowsSegments`) |
| `OptionsAreTaken` | each option has the value it was last given before a file that could not be opened, and there is a cache if they are all given and valid, and none if one is missing (`OptionsTakeEffect`), for every command line |
| `OutputIsShown` | while the guest runs, words for the console are lost only when a file could not be opened (`OutputLostOnlyUnopened`) |
| `MissesAreReported` | a checkpoint reports the misses served until then (`MissesReported`), for every command line; with d = 0 there is none, the division ends the program |
| `ThreadsTyped` | `Spec => []TypeOK` for every number of stages and every limit |
| `CorrectionRunsAlone` | no stage is at work in the correction steps, for every number of stages |
| `ThreadsKeepOrder` | `StageThreads` implements `CycleOrder` |

Assumptions are the named ASSUMEs of the modules, which TLC evaluates in the
runs: `WordAssumption`, `GprAssumption`, `PageAssumption`, `AluAssumption`
(the ALU maps words to words), `SegmentAssumption`, `InputAssumption`,
`ModeAssumption`, `CacheAssumption`, `CycleAssumption`, `DecodeAssumption`,
`ProgramsAssumption`; `ShapeAssumption`, `BlocksAssumption`, `DelayAssumption`,
`DataAssumption`; `TraceAssumption`, `NoDataAssumption`; `HashAssumption`,
`ByteAssumption`, `RequestAssumption`; `PageAssumption` (of `ElfLoader`),
`StartsAssumption`; `CommandLineAssumption`, `DelayAssumption`,
`LineAssumption`, `SequentialAssumption`, `FileAssumption`; `StageCountAssumption`,
`CycleMaxAssumption`.  `FileAssumption` says what an ELF file is (`WellFormed`):
a segment is no longer in the file than in memory, its addresses have page
numbers, the file has the bytes that are copied, and loaded segments come in
order of address and do not overlap.

*PipelineProofs.*  `TypeOK` is inductive.  The lemmas say of each operator what
it returns (`DecodedType`, `OperandTypes`, `ExecuteTypes`, `MemoryTypes`,
`TouchedType`), then one lemma for each stage and one for `EndCycle`.  The
content is that no register number and no address leaves its range, although
`Uninit` and `Outside` are arbitrary.

The theorems about hazard control share `CycleInv`, which needs no more than
`FetchesText`.  `Handed` says what the stages that have run in this cycle have
handed on, `Empty` that a bubble carries the opcode NOP, `Frozen` that an error in
Writeback keeps its instruction in Memory: otherwise a branch could pass for
having moved on while the pipe behind it stands still.  `Counting` is about the
miss: its count is between 1 and d - 1, and while `dmem_status` says IN_FLIGHT it
is that of the access in Memory, or Memory holds a fault.  `Decisions` lists what
`handle_hazards` can decide, and `EdgeMoves` where each register goes.  For
`NoCycleLost`, `BInv` adds how the pipe fills in the first two cycles (`Filling`);
one lemma for each decision shows that the bubbles behind the edge have a cause,
and a miss or an error freezes a pipe with its causes.  For
`SquashedBehindBranch` the build without CBZ and CBNZ is enough; with them
`extra_return` refutes the property.

For `LoopProgresses` each state has a `Rank`, a bound on the cycles that are left:
`Phase` is how far the pipe is from issuing an instruction or from ending, 1 to
6, `Stalls` what is left of the miss in Memory, and `Ahead` the miss that an access
in Execute may have before it.  A stage keeps the rank, although Memory may find
a hit or a new miss (`StageRank`); the clock edge either issues an instruction,
after which the rank is at most the bound, or lowers it (`InTime`).  A load in
flight lowers `Stalls`, a load-use stall turns `Ahead` into `Stalls` and moves `Phase`
on, and errors and halts only move towards Writeback.

`LaidInv` is about layout: what Decode holds is what the text has at some address,
and Fetch goes on where that leads (`BehindDecode`); behind a branch, an access or
a return in Execute and Memory stands what the text has behind it
(`BehindExecute`, `BehindMemory`).  With `Laid` no halt and no undefined
instruction is then in a place where a squash or a miss could leave it, which is
`LaidIsRegular`.  TLC evaluates `Laid` for the programs of `straight_line`,
`control_hazards` and `cache_delay` (`FamiliesLaid`); of the programs with halts
and branches, `control_hazards` takes those that are well laid out (`WellLaid`).
It is false of those of `extra_return`.

*RefinementProofs.*  The code departs from the machine in the seven ways that
section 6 lists for the pipeline, and `Regular` (in `PipelineProperties`) has one
predicate for each, on the state in which it would take effect:

| Predicate | What it keeps clear of |
|---|---|
| `OrdinarySources` | Decode reads SP or XZR while an instruction that writes it is in the pipe |
| `FlagsSetFirst` | a condition is tested while `X_nzcvval` and `NZCV` are as at the start |
| `HaltOnPath` | fetching has stopped for a halt the program does not reach |
| `FetchesText` | a fetch goes through the data cache |
| `StoresInBounds` | a store faults, or an undefined instruction passes for an access |
| `NoShadowedBranch` | a RET is in Decode when a CBZ or CBNZ falls through |
| `NoOvertaking` | an instruction in Execute is undefined while an access is in flight |

`PipelineCorrect` is `Spec /\ []Regular => ImplementsMachine`: nothing else in
the program, the cache or the order of the stages can show.  The hypothesis is
about what programs do, not about what the code computes for them: apart from
`HaltOnPath`, each predicate only says that some combination of instructions is
not in the pipe at once.  `cache_delay` checks that all states of its programs are
`Regular`; `straight_line` and `control_hazards` check `ImplementsMachine` itself,
and the second also `HaltOnPath`, the one conjunct that depends on hazard control.
`sp_forward` and `extra_return` are behaviours that are not `Regular`.
`LaidProgramsCorrect` puts a condition on the text of the programs in place of
`HaltOnPath`, `NoShadowedBranch`, `NoOvertaking` and half of `StoresInBounds`; what
stays is about values, which no layout decides.

The invariant `Inv` has eight parts.  `StagesDone` is what each stage that has
run in this cycle has done, which is why the order of the stages does not
matter.  `Shapes` relates opcode and status in each register.  `Halts`: behind a
halt there are only halts.  `HaltSeen` is `HaltOnPath` at any point of a cycle.
`OnPath`: while Decode holds an instruction, Fetch is where it leads to, and no
branch ahead of it is still to fall through.  `Stopped`: a fault in Writeback has
left its instruction in Memory, from where the final program counter comes.
`FlagsKept`: wire and register agree except between an instruction that sets the
flags and the clock edge, and `deassert_flags` stays set only while its fault is
there.  `MissOwned` ties the miss to the instruction in Memory.

The stages keep `Inv` and stutter: the mapped machine has already done what they
do (`FetchStutters` to `MemoryStutters`; Memory needs that the mapping performs
the access before or after it alike).  The clock edge is split by what
`handle_hazards` decides (`EdgeCases`).  Faults, misses, the load-use stall, the
squash and the bubble behind a return stutter, each in a lemma.  Otherwise an
instruction moves into Execute: `Advance` says that the instructions ahead move
on without changing the mapped state, `OperandsForwarded` that its operands are
the machine's (by cases on the youngest instruction ahead that writes the
register: `OperandRead`), `FlagsFound` that its flags are, `SuccessorFetched` that
Fetch goes on where the machine does, and `InstructionIssued` that the step is
the machine's `Next`; a halt or an undefined instruction is its stop
(`StopIssued`).  `MissIsOwned` and `ConditionsOnFlags` have invariants of their own
(`MissOwned`, `FlagsInv`), because they need less.

*CacheProofs.*  What holds of the lines and the matrix whoever uses them.  None
of the properties is inductive alone.  `CacheInv` adds: lines sit in the set of
their block (`Home`); ages within a set are distinct and complete, so the set is
ranked by last use; bit (i, j) of the matrix is set exactly when line i is
younger than j (`Recency`); and `next_lru` is the line the last matrix scan found
(`Noted`).  A hit and a fill change the cache in the same way, `Settled`: one
line becomes the block's only copy and the youngest of its set.  `SettledInv`
shows that this step keeps the invariant, `VictimOldest` that the line selected
in a full set is the oldest.

*CachedMemoryProofs* adds that clean lines match the pages.  `PlacedInv` shows
that a step keeps that too, `PlacedView` that it changes the mapped array at one
block at most, `ReadPlaced` and `WritePlaced` that each call is such a step.  For
`CacheMeetsPipeline`, `PlacedPresent` shows that it pushes out one block at most, so
that it is one of the evictions that `MissDelay` allows, and `FoundTouches`,
`ServedTouches` and `WaitingTouches` that the count does what it does there.

*CsimProofs.*  The mapping `Held` gives a block the age of its line as its rank.
`SettledMoves` says what settling a block does to the ranks of all others, with
no regard to hit or miss; `HitIsHit` and `MissIsMiss` then differ only in what
the line held before: the block itself, nothing, or (`GivenUp`) the one block of
rank `A - 1`.  `SimInv` adds to `CacheInv` that the block of a half-done M line is
in the cache, which is `ModificationsHit`.  `MissesFill` counts the lines in use
with the theorems on finite sets.  `SummaryInv` counts a half-done M line as one
access that is still to come.

*PageTableProofs.*  `PInv` says that a chain has at most one page of a number
(`OnePage`) and what the client knows where it is in an access (`Knows`): that
there is still no page for its number when it links one, and that the head it
copied is still the head when it publishes.  Both are what a second client takes
away, as `page_race` shows; the theorems assume that there is one, as in the
sequential builds and in the loader of every build.

`AccessDoes` turns this into what an access of one byte does to the array of
bytes, which is how the loader's proofs see the pages.

*EmulatorProofs* is about the program from command line to exit, one invariant
for each question:

* `OptionsInv`: `argv` is what is left of the command line, each option has the
  value it was last given in the part that is read, and reading goes on unless a
  file in that part could not be opened (`HeededAre`: what is read in the end is
  what should be);
* `OutputInv`: only a file that could not be opened ends the logging while the
  program runs, and only that loses words;
* `CountInv`: `miss_count` is the delay times the misses served and, while one is
  in flight, the cycles it has had.  The division in the checkpoint is then exact
  (`Quotient`);
* `LoadInv`, over `PInv`: what the loader is waiting for (`Asked`), and that each
  byte it has asked for is in memory or on its way (`InPlace`).  The loader copies
  more than the segment, which is the content of the proof: `OwnAddress` shows
  that the surplus falls on no byte of the segments below it, and a segment above
  it is copied later;
* `MemInv`: `LoadInv`, and what is in the cache has a place in the pages.
  `StepMem` gives what every later invariant uses: whatever happens, the pages
  make a step of `PageTable`;
* `CoherentInv`: a clean line holds what the pages hold.  A miss takes several
  steps, and a write-back is under way while the guest goes on to the next cycle,
  so it also says that a dirty line on its way to the pages is out of the cache
  and that the byte read for a line is the one the line will hold;
* `WalkInv`: in the middle of a checkpoint the address and the page number are of
  one page, or there is no page of that number, as when the loop over the heap
  begins with the number the loop over the data has ended at (`InStep`); what is
  printed is what the pages hold (`TrueEntries`); and of the pages passed so far
  nothing that is not zero was left out (`Upto`, and `Whole` of a list that has
  ended).  `WalkOnly` shows that nothing else moves meanwhile;
* `TouchInv`: the loader has touched the pages of all the bytes it copies, also of
  those past the end of a segment, and of the bss from the page where it starts
  it.  `SegmentPresent` shows that the pages of a segment without a hole are then
  there, which takes both, since the bytes in between have a page only because of
  what is copied too far or shares a page with the file's; `Between` that no page
  is missing from `.text` or `.data` to any byte behind it, so that the walk does
  not end early.

*StageThreadsProofs.*  The invariant ties the labels of the stages to the label
of main (`Phase`) and says who may be blocked (`Arrived`).  The case that
carries the proof is the barrier: it can only fill up when main is at the same
one (`Together`).  `Counters` adds that a cycle is begun only below the limit and a
thread joined only while one is left; it needs the labels (`WaitCounters`).

Model-checked only: `MispredictSquashed` in the build with CBZ and CBNZ, which is
not true of every program; that the programs of `cache_delay` are `Regular` in what
depends on values (`RegularData`; the rest follows from `Laid`); `Terminates` and
`Exits`, as liveness and ENABLED are out of the prover's reach.  What the
recursive functions in `ALU` compute is out of reach too (induction over data).
`MCPipeline` assumes `AluMeetsReference`, so that each of its runs evaluates it:
it compares the ripple-carry adder, its flags and the arithmetic shift with plain
arithmetic on all pairs of words.

## 5. Not modelled

* `testbench/`, `verify.py`: harnesses that start the programs and compare
  files.  They are no part of the programs.
* The bit fields of encodings and the `itable` lookup by opcode bits: the
  pipeline sees decoded instructions.
* Text: messages, the dump of the pipeline at each log level, the wording of the
  checkpoint, `display_set`, `csim -v`.  `create_checkpoint` of `cache.c` and
  `free_cache` copy and release a cache that is not used afterwards.
* Page protections, which are stored and never read.
* Malformed ELF files and traces, and memory or files that give out; what happens
  to addresses above 2^63.
* The pipeline and the lines in one state: `Pipeline` evicts arbitrarily, and
  `CacheMeetsPipeline` shows that real lines are a case of that.  In `Emulator`
  lines have one doubleword and no sets, for the same reason.
* In `Emulator`, fetches, and with them a second access to the pages in a cycle.
  A fetch can add a page of the text segment, or one behind it, that holds only
  zeros, and adds nothing to what a checkpoint prints.
* Accesses that straddle two cache blocks, which the code would look up byte by
  byte and could miss on twice (`mem.c:183`).  Blocks have at least eight bytes
  and `dmem` makes every access that is not aligned to eight a fault
  (`hw_elts.c:264`).  It performs the access all the same, but the fault ends the
  program whether or not a miss is in flight, so that the access is never
  repeated and it shows in no register which block it has asked for; a store that
  faults is excluded by `StoresInBounds`.
* The alignment test of `imem` (`hw_elts.c:30`): a program counter of the model is
  the number of an instruction, and all branches are by whole instructions.  A
  register branch to an address that is not a multiple of four is not
  representable.

## 6. Where the code departs from its documentation

With a run that shows it (the quotation is in `PROJECT.json`):

* `sp_forward`: `forward_reg` never forwards register number 31, which is SP
  and not the zero register.  A use of SP within three cycles of a write reads
  the old value.
* `extra_return`: `check_ret_hazard` shadows `check_cb_hazard`, so a RET at the
  target of a CBZ/CBNZ that falls through is executed.
* `page_race`: two threads that add pages to one chain at once lose one of them,
  with what is stored in it.
* `bss`: the loader copies `filesz + v_align` bytes from the start of a segment,
  so what follows the segment in the file stands at the start of its bss.

Seen in the source, without a run:

* a halt fetched behind a branch that falls through leaves `F_in->status` at HLT
  after the squash, and the program ends there (`instr_Fetch.c:173`; `HaltOnPath`
  fails on such programs);
* an undefined instruction in Execute releases Memory while its access is in
  flight (`hazard_control.c:144-148`; `NoOvertaking` excludes it);
* the checkpoint lacks words in dirty lines (`machine.c:127`), as nothing writes
  them back before it;
* the loader leaves a page out before the bss of a segment whose start and whose
  size in the file are multiples of the page size (`elf_loader.c:71-72`): the bss
  is given the page behind.  A checkpoint then ends at the hole and lacks the bss
  (`machine.c:125`; the file `bss` of `lifecycle` is one);
* register number 32 (XZR) is forwarded (`forward.c:24`), so an instruction that
  discards its result feeds a neighbour that reads zero;
* `dmem` stores although the address is in error (`hw_elts.c:263-269`);
* `X_nzcvval` starts as 0 while `NZCV` starts as Z (`proc.c:101`);
* a fetch from the data segment goes through the data cache (`mem.c:239`), and as
  there is one miss count, a fetch and a load that miss together restart it for
  each other until `cycle_max` (`mem.c:188`; `FetchesText` excludes it);
* the delay counts d-1 stalls, and d = 0 wraps around (`mem.c:195`) and divides by
  zero in the checkpoint (`machine.c:187`), A = 0 in `handle_args.c:169`;
* a cache configuration that is reported as invalid is used, against the NOTE of
  the usage message (`handle_args.c:54-57`, `machine.c:57-60`);
* the heap is never printed, as the page number is left from the data loop
  (`machine.c:155`; `CheckpointTrue` holds only because of it);
* the hits that a checkpoint reports are those of single bytes, eight for an
  access, while misses are those of accesses (`machine.c:188`, `mem.c:183-185`);
* a read of NULL exits without the checkpoint that `-c` promises
  (`mem.c:77-118`), and a write to the address that a checkpoint is read from
  aborts (`mem.c:174`).

The guest programs of the pipeline's passing runs stay clear of these: they do not use a
register that was discarded, set the flags before testing them and do not store
to faulting addresses, and `cache_delay` has no undefined instruction.
`lifecycle` has A = 0 and d = 0, as exits by a signal, a cache of three sets, dirty
lines at the checkpoint, a file with a hole before its bss, the read of NULL and
the write that aborts.

## 7. Plan

Done: the pipeline with its hazards, cache delay, orders and threads; the
cache and its two users, page table, loader, checkpoint and top level; the
proofs of section 4.

What could follow:

1. `Pipeline` over the states of `CachedMemory` itself, by a theorem that composes
   `CacheMeetsPipeline` with `PipelineCorrect`;
2. which programs satisfy `RegularData`: a condition on registers in the text, as
   `Laid` is one on its layout;
3. liveness of the cycle loop itself, for which `LoopProgresses` is the safety part.

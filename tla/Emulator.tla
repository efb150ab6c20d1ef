------------------------------- MODULE Emulator -------------------------------
(***************************************************************************)
(* The program from its command line to its exit: archsim.c, handle_args.c,*)
(* interface.c, machine.c and err_handler.c, over the loader and the page  *)
(* table.                                                                  *)
(*                                                                         *)
(* The guest is any program: in each cycle it makes at most one access to  *)
(* data, and it may stop after any of them; fetches, which change nothing  *)
(* that is told apart here, are left out.  What the stages do in a cycle   *)
(* is Pipeline.  The cache has lines of one doubleword, which come and go  *)
(* in any order; sets, longer lines and the choice of a victim are in      *)
(* CachedMemory.                                                           *)
(*                                                                         *)
(* The command line is a sequence of options with the number, the file or  *)
(* the success of the fopen that their arguments come to.  PageSize bytes  *)
(* stand for a page, one byte for each doubleword that is printed.         *)
(***************************************************************************)
EXTENDS ElfLoader

CONSTANTS CommandLines,
          Files,              \* the ELF files there are, by name
          DefaultMax,         \* MAX_NUM_INSTR
          Accesses            \* bound: requests the guest makes

\* argv is an array.
ASSUME CommandLineAssumption ==
    \A cl \in CommandLines : Len(cl) \in Nat /\ cl = [i \in 1 .. Len(cl) |-> cl[i]]

\* cache.h:45: a delay is unsigned, and -1 stands for one that is not given.
ASSUME DelayAssumption ==
    \A cl \in CommandLines : \A i \in DOMAIN cl : cl[i].name = "d" => cl[i].val \in Nat \cup {-1}

BlockSize(n) == n = -1 \/ (n >= 8 /\ \E k \in 3 .. n : n = 2 ^ k)

\* Bound: a line is one doubleword, filled by one read and emptied by one write.
ASSUME LineAssumption ==
    \A cl \in CommandLines : \A i \in DOMAIN cl :
        cl[i].name = "B" /\ BlockSize(cl[i].val) => cl[i].val \in {-1, 8}

\* The program is sequential, and its files are ELF files.
ASSUME SequentialAssumption == Clients = {Loader} /\ Accesses \subseteq Request
ASSUME FileAssumption == \A f \in DOMAIN Files : WellFormed(Files[f])

VARIABLES
    pc,                       \* "args", "init", "open", "load", "run", "done", "last", "exit"
    argv, opts,               \* options still to be read; what they have set
    outfile, checkpoint,      \* the default, or a file that was opened
    terminate,                \* err_handler.c: a fatal error has been logged
    cache,                    \* guest.cache: NULL, or its delay
    num_instr, accessed,      \* cycles; Memory has made its access in this one
    inflight, inflight_cycles, hit_count, miss_count,
    lines,                    \* the cache: address -> word and dirty bit
    pending, filling,         \* the access that misses; its line is on its way
    walk, printed,            \* log_machine_state: where it is, what it has printed
    report,                   \* the checkpoint last written
    code,                     \* how the program exited
    given, served, said, shown  \* history: the command line, misses served,
                                \* words for the console and those printed
counts == <<inflight, inflight_cycles, hit_count, miss_count, served>>
buffer == <<lines, pending, filling>>
log == <<walk, printed>>
machine == <<cache, num_instr, accessed, counts, buffer, log>>
files == <<outfile, checkpoint, terminate>>
vars == <<pages, loader, pc, argv, opts, files, machine, report, code, given, said, shown>>

NoFile == [headers |-> <<>>, bytes |-> <<>>, text |-> -1, data |-> -1]
NULL == -1
NoAccess == [op |-> "none"]
NoWalk == [list |-> "none", addr |-> 0, pnum |-> 0]
NoReport == [cycles |-> 0, memory |-> {}, misses |-> 0, hits |-> 0]
Defaults == [i |-> "", l |-> DefaultMax, v |-> 0, A |-> -1, B |-> -1, C |-> -1, d |-> -1]

Init ==
    /\ NoPages /\ NotLoaded({NoFile})
    /\ pc = "args" /\ argv \in CommandLines /\ given = argv /\ opts = Defaults
    /\ outfile = "stdout" /\ checkpoint = "none" /\ terminate = FALSE
    /\ cache = NULL /\ num_instr = 0 /\ accessed = FALSE
    /\ inflight = FALSE /\ inflight_cycles = 0 /\ hit_count = 0 /\ miss_count = 0
    /\ lines = <<>> /\ pending = NoAccess /\ filling = FALSE
    /\ walk = NoWalk /\ printed = {}
    /\ report = NoReport /\ code = "" /\ served = 0 /\ said = 0 /\ shown = 0

Exit(how) == pc' = "exit" /\ code' = how

-----------------------------------------------------------------------------
(* handle_args *)

\* Mutant of Ignored: an unknown option ends the loop.
IgnoredLast(rest) == <<>>
Ignored(rest) == rest

Set(name, val) == opts' = [opts EXCEPT ![name] = val] /\ UNCHANGED <<pc, code, files>>

\* -o or -c: a file that cannot be opened is a fatal error, which is logged, and
\* the options behind it are not read.
OpenFor(o) ==
    /\ o.name \in {"o", "c"}
    /\ IF o.val THEN /\ outfile' = IF o.name = "o" THEN "file" ELSE outfile
                     /\ checkpoint' = IF o.name = "c" THEN "file" ELSE checkpoint
                     /\ argv' = Tail(argv) /\ UNCHANGED <<pc, terminate>>
                ELSE /\ outfile' = IF o.name = "o" THEN "stdout" ELSE outfile
                     /\ checkpoint' = IF o.name = "c" THEN "none" ELSE checkpoint
                     /\ argv' = <<>> /\ pc' = "init" /\ terminate' = TRUE
    /\ UNCHANGED <<opts, code>>

Option ==
    /\ pc = "args" /\ argv # <<>>
    /\ LET o == Head(argv)
       IN \/ OpenFor(o)
          \/ /\ o.name \notin {"o", "c"}
             /\ argv' = IF o.name = "?" THEN Ignored(Tail(argv)) ELSE Tail(argv)
             /\ \/ o.name \in {"i", "l", "A", "C", "d"} /\ Set(o.name, o.val)
                \/ o.name = "v" /\ Set("v", IF o.val \in 0 .. 3 THEN o.val ELSE 1)
                \/ o.name = "B" /\ BlockSize(o.val) /\ Set("B", o.val)
                \/ o.name = "B" /\ ~BlockSize(o.val) /\ Exit("failure") /\ UNCHANGED <<opts, files>>
                \/ o.name = "h" /\ Exit("success") /\ UNCHANGED <<opts, files>>
                \/ o.name = "?" /\ UNCHANGED <<pc, opts, code, files>>
    /\ UNCHANGED <<pages, loader, machine, report, given, said, shown>>

AllGiven == \A n \in {"A", "B", "C", "d"} : opts[n] # -1

\* A number of sets that is no power of two is only reported.
CheckArgs ==
    /\ pc = "args" /\ argv = <<>>
    /\ \/ opts.i = "" /\ Exit("failure")
       \/ opts.i # "" /\ AllGiven /\ opts.A = 0 /\ Exit("SIGFPE")
       \/ opts.i # "" /\ ~(AllGiven /\ opts.A = 0) /\ pc' = "init" /\ UNCHANGED code
    /\ UNCHANGED <<pages, loader, argv, opts, files, machine, report, given, said, shown>>

-----------------------------------------------------------------------------
(* init, loadElf, runElf *)

InitMachine ==
    /\ pc = "init"
    /\ \/ AllGiven /\ opts.A = 0 /\ Exit("SIGFPE") /\ UNCHANGED <<cache, inflight_cycles>>
       \/ /\ ~(AllGiven /\ opts.A = 0) /\ pc' = "open" /\ UNCHANGED code
          /\ cache' = IF AllGiven THEN opts.d ELSE NULL
          /\ inflight_cycles' = IF AllGiven THEN opts.d ELSE 0
    /\ UNCHANGED <<pages, loader, argv, opts, files, num_instr, accessed, inflight, hit_count,
                   miss_count, buffer, log, report, given, served, said, shown>>

\* open, fstat and mmap: the file is there or it is not.
OpenElf ==
    /\ pc = "open"
    /\ IF opts.i \in DOMAIN Files
       THEN image' = Files[opts.i] /\ part' = "file" /\ pc' = "load" /\ UNCHANGED code
       ELSE Exit("-1") /\ UNCHANGED <<image, part>>
    /\ UNCHANGED <<pages, header, j, seg_start_addr, argv, opts, files, machine, report,
                   given, said, shown>>

LoadElf ==
    /\ pc = "load" /\ LoadStep
    /\ UNCHANGED <<pc, argv, opts, files, machine, report, code, given, said, shown>>

RunElf ==
    /\ pc = "load" /\ part = "done" /\ at[Loader] = Idle
    /\ pc' = "run"
    /\ UNCHANGED <<pages, loader, argv, opts, files, machine, report, code, given, said, shown>>

-----------------------------------------------------------------------------
(* log_machine_state *)

Present(p) == p \in Pages /\ Lookup(p) # Null

\* Mutant of PageStart: the address is not rounded down to its page.
PageStartSame(a) == a
PageStart(a) == a - OffsetOf(a)

\* A loop over a segment starts: the address, and the number of its page.
From(list, a) == [list |-> list, addr |-> a, pnum |-> PageOf(a)]

StartLog == walk' = From("TEXT", PageStart(seg_start_addr.TEXT)) /\ printed' = {}

\* Mutant of More: the page behind is looked up as well.
MoreBehind == Present(walk.pnum) /\ Present(walk.pnum + 1)
More == Present(walk.pnum)

Logging == pc \in {"run", "last"} /\ walk.list # "none"

\* The doublewords of a page that are not zero, from the first one, at the address
\* the loop has come to; the stack is walked downwards.
FirstPrinted == IF walk.list \in {"TEXT", "DATA"} THEN 0 ELSE OffsetOf(walk.addr)
PrintPage ==
    /\ Logging /\ More
    /\ LET data == heap[Lookup(walk.pnum)].data
       IN printed' = printed \cup
             {<<walk.addr + o, data[o]>> : o \in {x \in Offsets : x >= FirstPrinted /\ data[x] # Zero}}
    /\ walk' = From(walk.list, IF walk.list = "STACK" THEN walk.addr - PageSize
                                                       ELSE walk.addr + PageSize)
    /\ UNCHANGED <<pages, loader, pc, argv, opts, files, cache, num_instr, accessed, counts,
                   buffer, report, code, given, said, shown>>

\* The page number is left as it is when the loop over the heap starts.
NextList ==
    /\ Logging /\ ~More /\ walk.list # "STACK"
    /\ walk' = CASE walk.list = "TEXT" -> From("DATA", PageStart(seg_start_addr.DATA))
                 [] walk.list = "DATA" -> [From("HEAP", seg_start_addr.HEAP) EXCEPT !.pnum = walk.pnum]
                 [] OTHER -> From("STACK", PageStart(seg_start_addr.STACK - PageSize))
    /\ UNCHANGED <<pages, loader, pc, argv, opts, files, cache, num_instr, accessed, counts,
                   buffer, printed, report, code, given, said, shown>>

\* The statistics divide by the delay.
EndLog ==
    /\ Logging /\ ~More /\ walk.list = "STACK"
    /\ walk' = NoWalk /\ printed' = {}
    /\ IF cache = 0 THEN Exit("SIGFPE") /\ UNCHANGED report
       ELSE /\ LET misses == IF cache = NULL THEN 0 ELSE miss_count \div cache
               IN report' = [cycles |-> num_instr, memory |-> printed,
                             misses |-> misses, hits |-> hit_count - misses]
            /\ IF pc = "last" THEN Exit("success") ELSE UNCHANGED <<pc, code>>
    /\ UNCHANGED <<pages, loader, argv, opts, files, cache, num_instr, accessed, counts,
                   buffer, given, said, shown>>

-----------------------------------------------------------------------------
(* A cycle *)

InCycle == pc = "run" /\ at[Loader] = Idle /\ ~accessed /\ ~filling
AddressOf(request) == request.num * PageSize + request.off
Behind(a) == cache # NULL /\ a >= seg_start_addr.DATA

\* An access to the pages.
Access(request) ==
    /\ InCycle /\ ~inflight /\ ~Behind(AddressOf(request))
    /\ Call(Loader, request)
    /\ accessed' = TRUE
    /\ UNCHANGED <<loader, pc, argv, opts, files, cache, num_instr, counts, buffer, log, report,
                   code, given, said, shown>>

AccessPage ==
    /\ pc = "run" /\ AccessStep(Loader)
    /\ UNCHANGED <<loader, pc, argv, opts, files, machine, report, code, given, said, shown>>

\* Mutant of Left: the count is tested before it is decremented.
LeftLate == IF inflight THEN inflight_cycles - 1 ELSE cache

\* The count of the miss after this cycle; below 0 it has wrapped.
Left == (IF inflight THEN inflight_cycles ELSE cache) - 1

\* An access to the cache: check_hit is asked for each of eight bytes, and a miss
\* is asked for again in the next cycle.  A store makes its line dirty.
CacheHit(request) ==
    LET a == AddressOf(request)
    IN /\ ~inflight /\ a \in DOMAIN lines
       /\ hit_count' = hit_count + 8
       /\ lines' = [x \in DOMAIN lines |-> IF x = a /\ request.op = "write"
                                         THEN [val |-> request.val, dirty |-> TRUE] ELSE lines[x]]
       /\ accessed' = TRUE
       /\ UNCHANGED <<pages, inflight, inflight_cycles, miss_count, served, pending, filling>>

Misses(request) ==
    /\ AddressOf(request) \notin DOMAIN lines
    /\ inflight => request = pending
    /\ pending' = request /\ miss_count' = miss_count + 1

CacheWait(request) ==
    /\ Misses(request) /\ Left # 0
    /\ inflight' = TRUE /\ inflight_cycles' = Left /\ accessed' = TRUE
    /\ UNCHANGED <<pages, hit_count, served, lines, filling>>

\* The delay is over: the block is read from the pages.
CacheFill(request) ==
    /\ Misses(request) /\ Left = 0
    /\ inflight' = FALSE /\ inflight_cycles' = 0 /\ hit_count' = hit_count + 7
    /\ served' = served + 1 /\ filling' = TRUE
    /\ Call(Loader, [op |-> "read", num |-> request.num, off |-> request.off, val |-> Zero])
    /\ UNCHANGED <<lines, accessed>>

AccessCache(request) ==
    /\ InCycle /\ Behind(AddressOf(request))
    /\ CacheHit(request) \/ CacheWait(request) \/ CacheFill(request)
    /\ UNCHANGED <<loader, pc, argv, opts, files, cache, num_instr, log, report, code,
                   given, said, shown>>

\* handle_miss: the line takes the place of an empty one, or of one that is
\* written back if it is dirty.
Filled(others) ==
    LET a == AddressOf(pending)
        line == IF pending.op = "write" THEN [val |-> pending.val, dirty |-> TRUE]
                                        ELSE [val |-> result, dirty |-> FALSE]
    IN [x \in others \cup {a} |-> IF x = a THEN line ELSE lines[x]]

HandleMiss ==
    /\ pc = "run" /\ filling /\ at[Loader] = Idle
    /\ \/ /\ Cardinality(DOMAIN lines) < opts.C \div opts.B
          /\ lines' = Filled(DOMAIN lines) /\ UNCHANGED pages
       \/ \E v \in DOMAIN lines :
             /\ lines' = Filled(DOMAIN lines \ {v})
             /\ IF lines[v].dirty
                THEN Call(Loader, [op |-> "write", num |-> PageOf(v), off |-> OffsetOf(v),
                                   val |-> lines[v].val])
                ELSE UNCHANGED pages
    /\ filling' = FALSE /\ accessed' = TRUE
    /\ UNCHANGED <<loader, pc, argv, opts, files, cache, num_instr, counts, pending, log,
                   report, code, given, said, shown>>

\* Mutant of Logged: what the guest prints is taken for a warning.
LoggedQuiet == FALSE

\* logging: nothing is, after a fatal error.
Logged == ~terminate

\* The trapped addresses: the console, a checkpoint on demand, and NULL.
Trap ==
    /\ InCycle /\ ~inflight /\ accessed' = TRUE
    /\ \/ \* a word is printed
          /\ said' = said + 1 /\ shown' = IF Logged THEN shown + 1 ELSE shown
          /\ UNCHANGED <<pc, terminate, log, code>>
       \/ \* a checkpoint
          /\ IF checkpoint = "none" THEN UNCHANGED log ELSE StartLog
          /\ UNCHANGED <<pc, terminate, code, said, shown>>
       \/ \* a number is read, which is there or scanf fails; or NULL is written
          UNCHANGED <<pc, terminate, log, code, said, shown>>
       \/ \* NULL is read
          /\ terminate' = TRUE /\ Exit("failure") /\ UNCHANGED <<log, said, shown>>
       \/ \* the checkpoint's address is written: assert(false)
          Exit("SIGABRT") /\ UNCHANGED <<terminate, log, said, shown>>
    /\ UNCHANGED <<pages, loader, argv, opts, outfile, checkpoint, cache, num_instr, counts,
                   buffer, report, given>>

\* The end of the loop's body: the guest has stopped, or the limit is reached.
EndCycle ==
    /\ pc = "run" /\ at[Loader] = Idle /\ ~filling /\ walk = NoWalk
    /\ num_instr' = num_instr + 1 /\ accessed' = FALSE
    /\ \/ pc' = "done"
       \/ num_instr + 1 < opts.l /\ UNCHANGED pc
    /\ UNCHANGED <<pages, loader, argv, opts, files, cache, counts, buffer, log, report, code,
                   given, said, shown>>

Finalize ==
    /\ pc = "done"
    /\ IF checkpoint = "none" THEN Exit("success") /\ UNCHANGED log
                              ELSE pc' = "last" /\ StartLog /\ UNCHANGED code
    /\ UNCHANGED <<pages, loader, argv, opts, files, cache, num_instr, accessed, counts, buffer,
                   report, given, said, shown>>

Step == \/ Option \/ CheckArgs \/ InitMachine \/ OpenElf \/ LoadElf \/ RunElf
        \/ AccessPage \/ HandleMiss \/ Trap \/ EndCycle \/ Finalize
        \/ PrintPage \/ NextList \/ EndLog
        \/ \E request \in Accesses : Access(request) \/ AccessCache(request)

\* The program is sequential and waits for nothing.
Lifecycle == Init /\ [][Step]_vars /\ WF_vars(Step)

-----------------------------------------------------------------------------
\* handle_args reads the options up to the first file that it cannot open.
Failed(i) == given[i].name \in {"o", "c"} /\ ~given[i].val
Heeded == {i \in DOMAIN given : \A k \in 1 .. i : ~Failed(k)}

\* The last value of an option among these, or its default.
LastGiven(name) ==
    LET I == {i \in Heeded : given[i].name = name}
    IN IF I = {} THEN Defaults[name] ELSE given[CHOOSE i \in I : \A k \in I : k <= i].val

ValidCache == LET sets == LastGiven("C") \div (LastGiven("A") * LastGiven("B"))
              IN \E k \in 0 .. sets : sets = 2 ^ k

\* handle_args: in whatever order options come and however often, each has the
\* effect it was last given for, before a file that cannot be opened; nothing
\* behind that file has.  There is no cache unless all of its options are among
\* these, and there is one if they are valid.  (If they are not there is one too,
\* against handle_args.c:54-57.)
OptionsTakeEffect ==
    pc \in {"open", "load", "run"} =>
        /\ \A n \in {"i", "l", "A", "B", "C", "d"} : opts[n] = LastGiven(n)
        /\ IF \E n \in {"A", "B", "C", "d"} : LastGiven(n) = -1 THEN cache = NULL
           ELSE ValidCache => cache = LastGiven("d")

\* err_handler.c: what the guest prints is lost only in a run that could not
\* open a file it was asked to write.
OutputLostOnlyUnopened ==
    shown < said => terminate /\ \E i \in DOMAIN given : given[i].name \in {"o", "c"} /\ ~given[i].val

\* What a load by the guest would return, and where that is not in the pages.
Holds(a) == IF a \in DOMAIN lines THEN lines[a].val ELSE Byte(a)
Stale(a) == a \in DOMAIN lines /\ lines[a].dirty

\* log_machine_state keeps the address and the page number apart, and one loop
\* starts with the number that another has left: what is printed under an address
\* is nevertheless what the guest's memory holds there.  Only below a dirty line,
\* which nothing writes back, it is what the page held before.
CheckpointTrue ==
    [][report' # report =>
        \A e \in report'.memory : e[2] = IF Stale(e[1]) THEN Byte(e[1]) ELSE Holds(e[1])]_vars

\* The loader maps the bss from the page behind the one in which the file's part
\* of a segment ends, also if it ends with that page.
Hole(ph) == ph.memsz > ph.filesz /\ ph.vaddr % PageSize = 0 /\ ph.filesz % PageSize = 0

\* ... and from .text and from .data on nothing of a loaded segment is left out,
\* whether it comes from the file or is bss, that is not zero and not below a
\* dirty line: in a segment without that hole there is no page missing that would
\* end the walk.
CheckpointShowsSegments ==
    [][report' # report =>
        \A ph \in Loadable : \A a \in ph.vaddr .. ph.vaddr + ph.memsz - 1 :
            /\ ~Hole(ph) /\ ~Stale(a) /\ Holds(a) # Zero
            /\ \E s \in {seg_start_addr.TEXT, seg_start_addr.DATA} : ph.vaddr <= s /\ s <= a
            => <<a, Holds(a)>> \in report'.memory]_vars

\* machine.c:185, "mem.c code for this gives extra hits and misses": dividing by
\* the delay takes the repeated misses out again, also when the run was cut off
\* in the middle of one.
MissesReported ==
    [][report' # report /\ cache # NULL => report'.misses = served]_vars

\* Whatever the command line and the guest, the program exits.
Exits == <>(pc = "exit")
=============================================================================

-------------------------------- MODULE Csim --------------------------------
(***************************************************************************)
(* csim.c: the program that replays a trace of memory accesses against the *)
(* cache and prints the counters of cache.c.                               *)
(*                                                                         *)
(* The command line is a sequence of options, each a name and the number   *)
(* atoi makes of its argument.  The trace is whatever is read: every line  *)
(* is a choice, up to TraceMax of them, and a line that is no access       *)
(* changes nothing.  No data is kept: handle_miss gets NULL and clears the *)
(* line.  An access names its block; its length is read and not used.      *)
(* A and S are the shape that the accepted command lines give.             *)
(***************************************************************************)
EXTENDS Cache, Sequences, FiniteSets

CONSTANTS CommandLines,   \* the command lines that are tried
          TraceMax        \* bound: lines of the trace

ASSUME TraceAssumption == TraceMax \in Nat
ASSUME NoDataAssumption == Zero \in Values

VARIABLES
    pc,                   \* where main is: "args", "replay" or "exit"
    argv, arg,            \* options still to be read; what they have set
    again,                \* the block of an M line that is still to be written
    lines_read,           \* lines of the trace so far
    hit_count, miss_count, dirty_eviction_count, clean_eviction_count,
    results,              \* .csim_results, or how the program ended without
    accesses              \* history: what the trace has asked for

counters == <<hit_count, miss_count, dirty_eviction_count, clean_eviction_count>>
cache == <<lines, lru_matrix, next_lru, age>>
vars == <<cache, pc, argv, arg, again, lines_read, counters, results, accesses>>

Init ==
    /\ CreateCache
    /\ pc = "args" /\ argv \in CommandLines
    /\ arg = [A |-> -1, B |-> -1, C |-> -1, t |-> FALSE]
    /\ again = {} /\ lines_read = 0
    /\ hit_count = 0 /\ miss_count = 0 /\ dirty_eviction_count = 0 /\ clean_eviction_count = 0
    /\ results = <<>> /\ accesses = 0

-----------------------------------------------------------------------------
(* main *)

\* _log, and __builtin_popcountll(n) == 1
Log(n) == IF n = 0 THEN 0 ELSE CHOOSE k \in 0 .. n : 2 ^ k <= n /\ n < 2 ^ (k + 1)
PowerOfTwo(n) == n > 0 /\ n = 2 ^ Log(n)
SetCount(x) == x.C \div (x.A * x.B)

Exit(how) == /\ pc' = "exit" /\ results' = how
             /\ UNCHANGED <<cache, arg, again, lines_read, counters, accesses>>

\* printUsage exits with 0: the exit(1) behind its calls is never reached.
Usage == Exit(<<"exit", 0>>)
Given(field, val) == /\ arg' = [arg EXCEPT ![field] = val]
                     /\ UNCHANGED <<cache, pc, again, lines_read, counters, results, accesses>>

Option ==
    /\ pc = "args" /\ argv # <<>>
    /\ argv' = Tail(argv)
    /\ LET o == Head(argv)
       IN \/ o.name = "A" /\ Given("A", o.val)
          \/ o.name = "B" /\ o.val >= 8 /\ PowerOfTwo(o.val) /\ Given("B", o.val)
          \/ o.name = "B" /\ ~(o.val >= 8 /\ PowerOfTwo(o.val)) /\ Usage
          \/ o.name = "C" /\ Given("C", o.val)
          \/ o.name = "t" /\ Given("t", TRUE)
          \/ o.name \in {"h", "?"} /\ Usage

\* The cache has a number of sets its index can be masked to.
Sound(x) == PowerOfTwo(SetCount(x))

Missing == arg.A = -1 \/ arg.B = -1 \/ arg.C = -1 \/ ~arg.t

\* After the options; A = 0 divides by zero.
CheckArgs ==
    /\ pc = "args" /\ argv = <<>>
    /\ UNCHANGED argv
    /\ \/ Missing /\ Usage
       \/ ~Missing /\ arg.A = 0 /\ Exit(<<"SIGFPE">>)
       \/ ~Missing /\ arg.A # 0 /\ ~Sound(arg) /\ Exit(<<"exit", 1>>)
       \/ /\ ~Missing /\ arg.A # 0 /\ Sound(arg)
          /\ \/ Exit(<<"exit", 1>>)                 \* the trace cannot be opened
             \/ /\ pc' = "replay"
                /\ UNCHANGED <<cache, arg, again, lines_read, counters, results, accesses>>

-----------------------------------------------------------------------------
(* access_data *)

\* check_hit finds the block.
AccessHit(b, write) ==
    /\ Hit(b)
    /\ LET k == First(Holding(b))
           line == lines[Index(b)][k]
       IN /\ lines' = [lines EXCEPT ![Index(b)] =
                         [@ EXCEPT ![k] = [line EXCEPT !.dirty = line.dirty \/ write]]]
          /\ Used(Index(b), k)
    /\ hit_count' = hit_count + 1
    /\ UNCHANGED <<miss_count, dirty_eviction_count, clean_eviction_count>>

\* Mutant of Evicted: an empty line counts as a clean one.
EvictedEmpty(e) ==
    /\ dirty_eviction_count' = IF e.dirty THEN dirty_eviction_count + 1 ELSE dirty_eviction_count
    /\ clean_eviction_count' = IF ~e.dirty THEN clean_eviction_count + 1 ELSE clean_eviction_count

\* handle_miss counts what the line it fills held.
Evicted(e) ==
    /\ dirty_eviction_count' = IF e.valid /\ e.dirty THEN dirty_eviction_count + 1
                               ELSE dirty_eviction_count
    /\ clean_eviction_count' = IF e.valid /\ ~e.dirty THEN clean_eviction_count + 1
                               ELSE clean_eviction_count

\* check_hit does not, and handle_miss fills a line.
AccessMiss(b, write) ==
    /\ ~Hit(b)
    /\ LET k == SelectLine(Index(b))
       IN /\ lines' = [lines EXCEPT ![Index(b)] =
                         [@ EXCEPT ![k] = Filled(b, write, [o \in Offsets |-> Zero])]]
          /\ Used(Index(b), k)
          /\ Evicted(lines[Index(b)][k])
    /\ miss_count' = miss_count + 1
    /\ UNCHANGED hit_count

AccessData(b, write) == AccessHit(b, write) \/ AccessMiss(b, write)

-----------------------------------------------------------------------------
(* replayTrace *)

\* Mutant of Rewritten: a modification is no more than a load.
RewrittenNot(b, kind) == {}

\* The write that is still to come when the first access of a line is done.
Rewritten(b, kind) == IF kind = "M" THEN {b} ELSE {}

ReplayLine(b, kind) ==
    /\ pc = "replay" /\ again = {} /\ lines_read < TraceMax
    /\ AccessData(b, kind = "S")
    /\ again' = Rewritten(b, kind)
    /\ lines_read' = lines_read + 1
    /\ accesses' = accesses + (IF kind = "M" THEN 2 ELSE 1)
    /\ UNCHANGED <<pc, argv, arg, results>>

\* The second access of an M line.
Rewrite ==
    /\ pc = "replay"
    /\ \E b \in again : AccessData(b, TRUE)
    /\ again' = {}
    /\ UNCHANGED <<pc, argv, arg, lines_read, results, accesses>>

\* printSummary
EndOfTrace ==
    /\ pc = "replay" /\ again = {}
    /\ pc' = "exit" /\ results' = <<"counters">> \o counters
    /\ UNCHANGED <<cache, argv, arg, again, lines_read, counters, accesses>>

Next == \/ Option \/ CheckArgs \/ Rewrite \/ EndOfTrace
        \/ \E b \in Blocks, kind \in {"S", "L", "M"} : ReplayLine(b, kind)

Spec == Init /\ [][Next]_vars

-----------------------------------------------------------------------------
Cached(b) == Holding(b) # {}
Held == [b \in {c \in Blocks : Cached(c)} |->
            LET k == First(Holding(b))
            IN [rank |-> age[Index(b)][k], dirty |-> lines[Index(b)][k].dirty]]

Lru == INSTANCE LruCache WITH
          held <- Held, hits <- hit_count, misses <- miss_count,
          dirty_evictions <- dirty_eviction_count, clean_evictions <- clean_eviction_count

\* csim.c's header, "The replacement policy is LRU": every access hits, fills
\* or evicts exactly as an ideal least-recently-used cache would, and every
\* counter counts what it is named for, whichever lines the blocks sit in.
ImplementsLruCache == Lru!Spec

\* Each miss fills a line and each eviction empties one: what the counters say
\* has come in and has not gone out is what the cache holds (cache.c:226-289).
MissesFillLines ==
    miss_count - dirty_eviction_count - clean_eviction_count
      = Cardinality({c \in Sets \X Ways : lines[c[1]][c[2]].valid})

\* printSummary: the counters printed account for every access of the trace.
SummaryAccountsForTrace ==
    results # <<>> /\ results[1] = "counters" => results[2] + results[3] = accesses

\* replayTrace: the second access of a modification finds the block its first
\* one has just brought in, and the line is dirty after it.
ModifyHits ==
    [][again # {} /\ again' = {} =>
         /\ hit_count' = hit_count + 1
         /\ \A b \in again : \E k \in Ways : k \in Holding(b)' /\ lines'[Index(b)][k].dirty]_vars
=============================================================================

------------------------------ MODULE MissDelay ------------------------------
(***************************************************************************)
(* The data cache as far as a stage of the pipeline can tell: which blocks *)
(* it has, and the one miss that mem.c counts down by repeating the whole  *)
(* access in every cycle.  dmem holds dmem_status, inflight,               *)
(* inflight_addr, inflight_cycles, and the blocks now present.             *)
(***************************************************************************)
EXTENDS Integers

CONSTANT Delay           \* the cache's miss delay d

VARIABLE dmem

NoMiss == [status |-> "READY", inflight |-> FALSE, addr |-> 0, cycles |-> Delay, lines |-> {}]

\* A fill leaves room for the block by pushing out at most one other.
Filled(lines, b) == {lines \cup {b}} \cup {(lines \ {v}) \cup {b} : v \in lines}

\* Mutant of Touched: the cycle that finds a new miss is not counted.
TouchedLate(b) ==
    LET left == IF dmem.inflight /\ dmem.addr = b THEN dmem.cycles - 1 ELSE Delay
    IN IF b \in dmem.lines THEN {[dmem EXCEPT !.status = "READY"]}
       ELSE IF left > 0
       THEN {[status |-> "IN_FLIGHT", inflight |-> TRUE, addr |-> b, cycles |-> left,
              lines |-> dmem.lines]}
       ELSE {[status |-> "READY", inflight |-> FALSE, addr |-> b, cycles |-> 0,
              lines |-> ls] : ls \in Filled(dmem.lines, b)}

\* One call of _mem_read_cache or _mem_write_cache: a hit completes, a miss
\* counts the delay down, a new miss restarts the count.
Touched(b) ==
    LET left == (IF dmem.inflight /\ dmem.addr = b THEN dmem.cycles ELSE Delay) - 1
    IN IF b \in dmem.lines THEN {[dmem EXCEPT !.status = "READY"]}
       ELSE IF left > 0
       THEN {[status |-> "IN_FLIGHT", inflight |-> TRUE, addr |-> b, cycles |-> left,
              lines |-> dmem.lines]}
       ELSE {[status |-> "READY", inflight |-> FALSE, addr |-> b, cycles |-> 0,
              lines |-> ls] : ls \in Filled(dmem.lines, b)}
=============================================================================

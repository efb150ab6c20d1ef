---------------------------- MODULE StageThreads ----------------------------
(***************************************************************************)
(* The PARALLEL build of runElf: one thread per stage function and the     *)
(* main thread, which ends the cycles, kept in step by the two barriers    *)
(* cycle_start and cycle_end.                                              *)
(*                                                                         *)
(* pc names the statement a thread executes next.  A thread in `blocked'   *)
(* has arrived at the barrier its pc names; the last to arrive releases    *)
(* all.  What the stage functions and the correction steps do to the       *)
(* machine is the subject of Pipeline: here the end of the program is a    *)
(* choice, at the latest at CycleMax (cycle_max).                          *)
(***************************************************************************)
EXTENDS Integers, FiniteSets

CONSTANTS StageCount,   \* five
          CycleMax

ASSUME StageCountAssumption == StageCount \in Nat \ {0}
ASSUME CycleMaxAssumption == CycleMax \in Nat \ {0}

Stages == 0 .. StageCount - 1
Main == StageCount
Threads == Stages \cup {Main}

VARIABLES pc, blocked, running_sim, num_instr,
          next       \* the stage the main thread creates or joins next
vars == <<pc, blocked, running_sim, num_instr, next>>

Init ==
    /\ pc = [t \in Threads |-> IF t = Main THEN "create" ELSE "none"]
    /\ blocked = {}
    /\ running_sim = TRUE
    /\ num_instr = 0
    /\ next = 0

-----------------------------------------------------------------------------
(* pthread_barrier_wait *)

StartWaits == {"first", "again", "start", "signal"}
Barrier(l) == IF l \in StartWaits THEN "cycle_start" ELSE "cycle_end"
AtBarrier(l) == l \in StartWaits \cup {"end", "finish"}
Waiters(b) == {t \in blocked : Barrier(pc[t]) = b}

\* Mutant of Full: pthread_barrier_init with a count of five.
FullWithoutOne(b, t) == Cardinality(Waiters(b) \cup {t}) = StageCount

\* The count of both barriers is six.
Full(b, t) == Waiters(b) \cup {t} = Threads

\* Mutant of AfterEnd: the stages do not wait for the start of the next cycle.
AfterEndTest == "test"
AfterEnd == "again"

\* Where a thread goes on from the barrier.
Passed(l) ==
    CASE l = "first" -> "run"
      [] l = "end" -> AfterEnd
      [] l = "again" -> "test"
      [] l = "start" -> "finish"
      [] l = "finish" -> "correct"
      [] l = "signal" -> "join"

Wait(t) ==
    /\ t \notin blocked /\ AtBarrier(pc[t])
    /\ LET b == Barrier(pc[t])
           free == Waiters(b) \cup {t}
       IN IF Full(b, t)
          THEN /\ blocked' = blocked \ free
               /\ pc' = [u \in Threads |-> IF u \in free THEN Passed(pc[u]) ELSE pc[u]]
          ELSE /\ blocked' = blocked \cup {t}
               /\ UNCHANGED pc
    /\ UNCHANGED <<running_sim, num_instr, next>>

-----------------------------------------------------------------------------
(* start_fetch, start_decode, start_execute, start_memory, start_writeback *)

Goto(t, l) == pc' = [pc EXCEPT ![t] = l]

\* The stage function.
RunStage(s) ==
    /\ pc[s] = "run"
    /\ Goto(s, "end")
    /\ UNCHANGED <<blocked, running_sim, num_instr, next>>

\* while (running_sim)
TestRunning(s) ==
    /\ pc[s] = "test"
    /\ Goto(s, IF running_sim THEN "run" ELSE "exit")
    /\ UNCHANGED <<blocked, running_sim, num_instr, next>>

-----------------------------------------------------------------------------
(* runElf *)

Create ==
    /\ pc[Main] = "create"
    /\ pc' = [pc EXCEPT ![next] = "first",
                        ![Main] = IF next + 1 = StageCount THEN "start" ELSE "create"]
    /\ next' = next + 1
    /\ UNCHANGED <<blocked, running_sim, num_instr>>

\* Mutant of LastCycle: the count is compared before it is incremented.
LastCycleLate == num_instr >= CycleMax
LastCycle == num_instr + 1 >= CycleMax

\* The correction steps, the latch and the condition of the loop.
EndCycle ==
    /\ pc[Main] = "correct"
    /\ num_instr' = num_instr + 1
    /\ \E ok \in BOOLEAN :
          Goto(Main, IF ok /\ ~LastCycle THEN "start" ELSE "stop")
    /\ UNCHANGED <<blocked, running_sim, next>>

\* Mutant of AfterStop: the threads are not woken to see running_sim.
AfterStopJoin == "join"
AfterStop == "signal"

\* running_sim = false
Stop ==
    /\ pc[Main] = "stop"
    /\ running_sim' = FALSE
    /\ Goto(Main, AfterStop)
    /\ next' = 0
    /\ UNCHANGED <<blocked, num_instr>>

\* pthread_join, and then the barriers are destroyed.
Join ==
    /\ pc[Main] = "join" /\ pc[next] = "exit"
    /\ next' = next + 1
    /\ Goto(Main, IF next + 1 = StageCount THEN "done" ELSE "join")
    /\ UNCHANGED <<blocked, running_sim, num_instr>>

Finished == pc[Main] = "done" /\ UNCHANGED vars

Next ==
    \/ \E t \in Threads : Wait(t)
    \/ \E s \in Stages : RunStage(s) \/ TestRunning(s)
    \/ Create \/ EndCycle \/ Stop \/ Join
    \/ Finished

\* Every thread is scheduled, and a released thread gets on.
Fairness ==
    /\ \A t \in Threads : WF_vars(Wait(t))
    /\ \A s \in Stages : WF_vars(RunStage(s)) /\ WF_vars(TestRunning(s))
    /\ WF_vars(Create) /\ WF_vars(EndCycle) /\ WF_vars(Stop) /\ WF_vars(Join)

Spec == Init /\ [][Next]_vars /\ Fairness

-----------------------------------------------------------------------------
StageLabels == {"none", "first", "run", "end", "again", "test", "exit"}
MainLabels == {"create", "start", "finish", "correct", "stop", "signal", "join", "done"}

TypeOK ==
    /\ pc \in [Threads -> StageLabels \cup MainLabels]
    /\ pc[Main] \in MainLabels /\ \A s \in Stages : pc[s] \in StageLabels
    /\ blocked \subseteq Threads
    /\ running_sim \in BOOLEAN
    /\ num_instr \in 0 .. CycleMax
    /\ next \in 0 .. StageCount

\* While the main thread corrects and latches, no stage function is at work;
\* and no thread is about to read running_sim when main writes it (proc.c:25,
\* "should be no need to make this atomic").
CorrectionAlone ==
    pc[Main] \in {"correct", "stop"} => \A s \in Stages : pc[s] \notin {"run", "end", "test"}

\* Between the start and the end of a cycle every stage function has run once,
\* and none runs after the last cycle.
Order == INSTANCE CycleOrder WITH
    ran <- IF pc[Main] \in {"finish", "correct"}
           THEN {s \in Stages : pc[s] \in {"end", "again"}} ELSE {},
    over <- pc[Main] \in {"stop", "signal", "join", "done"}
ImplementsCycleOrder == Order!Spec

\* The threads all end, and main comes back from runElf.
Terminates == <>(pc[Main] = "done" /\ \A s \in Stages : pc[s] = "exit")
=============================================================================

------------------------- MODULE StageThreadsProofs -------------------------
(***************************************************************************)
(* Proofs about StageThreads, for every number of stages and every limit:  *)
(* the main thread corrects alone, and the threads keep the order of       *)
(* CycleOrder.                                                             *)
(*                                                                         *)
(* What the two barriers achieve is that the label of the main thread      *)
(* tells where all the stages are (Phase).  A barrier can only be full     *)
(* when every thread has arrived at it (Arrived).                          *)
(***************************************************************************)
EXTENDS StageThreads, TLAPS

Phase ==
    /\ pc[Main] \in MainLabels
    /\ pc[Main] = "create" =>
          /\ next \in 0 .. StageCount - 1
          /\ \A s \in Stages : pc[s] = IF s < next THEN "first" ELSE "none"
    /\ pc[Main] = "start" => \A s \in Stages : pc[s] \in {"first", "again"}
    /\ pc[Main] = "finish" => \A s \in Stages : pc[s] \in {"run", "end", "test"}
    /\ pc[Main] \in {"correct", "stop", "signal"} => \A s \in Stages : pc[s] = "again"
    /\ pc[Main] \in {"join", "done"} => \A s \in Stages : pc[s] \in {"test", "exit"}
    /\ running_sim = (pc[Main] \notin {"signal", "join", "done"})

Arrived == blocked \subseteq Threads /\ \A t \in blocked : AtBarrier(pc[t])

IInv == pc \in [Threads -> StageLabels \cup MainLabels] /\ Phase /\ Arrived

LEMMA ThreadsDiffer == Main \in Threads /\ Main \notin Stages /\ Stages \subseteq Threads
BY StageCountAssumption DEF Main, Threads, Stages

LEMMA InitPhase == Init => IInv
<1> SUFFICES ASSUME Init PROVE IInv
  OBVIOUS
<1>1. pc[Main] = "create" /\ \A s \in Stages : pc[s] = "none"
  BY ThreadsDiffer DEF Init
<1>2. pc \in [Threads -> StageLabels \cup MainLabels]
  BY DEF Init, StageLabels, MainLabels
<1>3. Phase
  <2>1. next = 0 /\ running_sim = TRUE
    BY DEF Init
  <2>2. \A s \in Stages : pc[s] = IF s < next THEN "first" ELSE "none"
    BY <1>1, <2>1 DEF Stages
  <2>3. next \in 0 .. StageCount - 1
    BY <2>1, StageCountAssumption
  <2> QED
    BY <1>1, <2>1, <2>2, <2>3 DEF Phase, MainLabels
<1> QED
  BY <1>2, <1>3 DEF IInv, Arrived, Init

\* The last thread to arrive finds all the others at the same barrier.
LEMMA Together ==
    ASSUME IInv, NEW t \in Threads, AtBarrier(pc[t]), Full(Barrier(pc[t]), t)
    PROVE  \A u \in Threads : AtBarrier(pc[u]) /\ Barrier(pc[u]) = Barrier(pc[t])
BY DEF IInv, Arrived, Full, Waiters

\* Every barrier opens on a full cycle start, a full cycle end or the signal.
LEMMA WaitPhase == ASSUME IInv, NEW t \in Threads, Wait(t) PROVE IInv'
<1> USE ThreadsDiffer
<1>1. CASE Full(Barrier(pc[t]), t)
  <2>1. \A u \in Threads : AtBarrier(pc[u]) /\ Barrier(pc[u]) = Barrier(pc[Main])
    BY <1>1, Together DEF Wait
  <2>2. Waiters(Barrier(pc[t])) \cup {t} = Threads
    BY <1>1 DEF Full
  <2>3. pc' = [u \in Threads |-> Passed(pc[u])] /\ blocked' = {}
    BY <1>1, <2>2 DEF Wait, IInv, Arrived
  <2>4. running_sim' = running_sim /\ next' = next
    BY DEF Wait
  <2>5. CASE pc[Main] = "start"
    <3>1. \A s \in Stages : pc'[s] \in {"run", "test"}
      BY <2>3, <2>5 DEF IInv, Phase, Passed
    <3>2. pc'[Main] = "finish"
      BY <2>3, <2>5 DEF Passed
    <3> QED
      BY <2>3, <2>4, <2>5, <3>1, <3>2
      DEF IInv, Phase, Arrived, MainLabels, StageLabels, Threads
  <2>6. CASE pc[Main] = "finish"
    <3>1. \A s \in Stages : pc[s] = "end"
      BY <2>1, <2>6 DEF IInv, Phase, AtBarrier, StartWaits
    <3>2. (\A s \in Stages : pc'[s] = "again") /\ pc'[Main] = "correct"
      BY <2>3, <2>6, <3>1 DEF Passed, AfterEnd
    <3> QED
      BY <2>3, <2>4, <2>6, <3>2
      DEF IInv, Phase, Arrived, MainLabels, StageLabels, Threads
  <2>7. CASE pc[Main] = "signal"
    <3>1. (\A s \in Stages : pc'[s] = "test") /\ pc'[Main] = "join"
      BY <2>3, <2>7 DEF IInv, Phase, Passed
    <3> QED
      BY <2>3, <2>4, <2>7, <3>1
      DEF IInv, Phase, Arrived, MainLabels, StageLabels, Threads
  <2>8. pc[Main] \in {"start", "finish", "signal"}
    BY <2>1 DEF IInv, Phase, AtBarrier, StartWaits, MainLabels
  <2> QED
    BY <2>5, <2>6, <2>7, <2>8
<1>2. CASE ~Full(Barrier(pc[t]), t)
  <2>1. pc' = pc /\ blocked' = blocked \cup {t} /\ running_sim' = running_sim /\ next' = next
    BY <1>2 DEF Wait
  <2>2. AtBarrier(pc[t])
    BY DEF Wait
  <2> QED
    BY <2>1, <2>2 DEF IInv, Phase, Arrived
<1> QED
  BY <1>1, <1>2

LEMMA StagePhase ==
    ASSUME IInv, NEW s \in Stages, RunStage(s) \/ TestRunning(s) PROVE IInv'
<1> USE ThreadsDiffer
<1>1. /\ pc[s] \in {"run", "test"}
      /\ pc' = [pc EXCEPT ![s] = pc'[s]] /\ pc'[s] \in {"run", "end", "exit"}
      /\ UNCHANGED <<blocked, running_sim, next>>
  BY DEF RunStage, TestRunning, Goto, IInv
<1>2. pc[s] = "run" => pc'[s] = "end"
  BY DEF RunStage, TestRunning, Goto, IInv
<1>3. pc[s] = "test" => pc'[s] = IF running_sim THEN "run" ELSE "exit"
  BY DEF RunStage, TestRunning, Goto, IInv
<1>4. s \notin blocked
  BY <1>1 DEF IInv, Arrived, AtBarrier, StartWaits
<1>5. pc[Main] \in {"finish", "join", "done"}
  BY <1>1 DEF IInv, Phase, MainLabels
<1>6. pc'[Main] = pc[Main] /\ \A u \in Stages : u # s => pc'[u] = pc[u]
  BY <1>1 DEF IInv
<1>7. pc' \in [Threads -> StageLabels \cup MainLabels]
  BY <1>1 DEF IInv, StageLabels
<1>8. Phase'
  BY <1>1, <1>2, <1>3, <1>5, <1>6 DEF IInv, Phase
<1>9. Arrived'
  BY <1>1, <1>4 DEF IInv, Arrived
<1> QED
  BY <1>7, <1>8, <1>9 DEF IInv

LEMMA MainPhase ==
    ASSUME IInv, Create \/ EndCycle \/ Stop \/ Join PROVE IInv'
<1> USE ThreadsDiffer
<1>1. CASE Create
  <2>1. /\ pc[Main] = "create" /\ next \in Stages /\ blocked' = blocked
        /\ running_sim' = running_sim /\ next' = next + 1
    BY <1>1, StageCountAssumption DEF Create, IInv, Phase, Stages
  <2>2. pc' = [pc EXCEPT ![next] = "first",
                         ![Main] = IF next + 1 = StageCount THEN "start" ELSE "create"]
    BY <1>1 DEF Create
  <2>3. pc'[Main] = (IF next + 1 = StageCount THEN "start" ELSE "create")
        /\ \A s \in Stages : pc'[s] = IF s = next THEN "first" ELSE pc[s]
    BY <2>1, <2>2 DEF IInv
  <2>4. \A s \in Stages : pc'[s] = IF s < next + 1 THEN "first" ELSE "none"
    BY <2>1, <2>3, StageCountAssumption DEF IInv, Phase, Stages
  <2>5. Phase'
    BY <2>1, <2>3, <2>4, StageCountAssumption DEF IInv, Phase, MainLabels, Stages
  <2>6. next \notin blocked /\ Main \notin blocked
    BY <2>1, StageCountAssumption DEF IInv, Phase, Arrived, AtBarrier, StartWaits, Stages
  <2>7. Arrived'
    BY <2>1, <2>2, <2>6 DEF IInv, Arrived
  <2> QED
    BY <2>2, <2>5, <2>7 DEF IInv, StageLabels, MainLabels
<1>2. CASE EndCycle \/ Stop \/ Join
  <2>1. /\ pc' = [pc EXCEPT ![Main] = pc'[Main]]
        /\ pc'[Main] \in {"start", "stop", "signal", "join", "done"}
        /\ pc[Main] = "correct" => pc'[Main] \in {"start", "stop"} /\ running_sim' = running_sim
        /\ pc[Main] = "stop" => pc'[Main] = "signal" /\ running_sim' = FALSE
        /\ pc[Main] = "join" => pc'[Main] \in {"join", "done"} /\ running_sim' = running_sim
        /\ pc[Main] \in {"correct", "stop", "join"}
        /\ blocked' = blocked
    BY <1>2 DEF EndCycle, Stop, Join, Goto, AfterStop, IInv
  <2>2. \A s \in Stages : pc'[s] = pc[s]
    BY <2>1 DEF IInv
  <2>3. Main \notin blocked
    BY <2>1 DEF IInv, Arrived, AtBarrier, StartWaits
  <2>4. Phase'
    BY <2>1, <2>2 DEF IInv, Phase, MainLabels
  <2>5. Arrived'
    BY <2>1, <2>3 DEF IInv, Arrived
  <2> QED
    BY <2>1, <2>4, <2>5 DEF IInv, MainLabels
<1> QED
  BY <1>1, <1>2

LEMMA NextPhase == IInv /\ [Next]_vars => IInv'
<1> SUFFICES ASSUME IInv, [Next]_vars PROVE IInv'
  OBVIOUS
<1>1. CASE \E t \in Threads : Wait(t)
  BY <1>1, WaitPhase
<1>2. CASE \E s \in Stages : RunStage(s) \/ TestRunning(s)
  BY <1>2, StagePhase
<1>3. CASE Create \/ EndCycle \/ Stop \/ Join
  BY <1>3, MainPhase
<1>4. CASE Finished \/ UNCHANGED vars
  BY <1>4 DEF Finished, vars, IInv, Phase, Arrived
<1> QED
  BY <1>1, <1>2, <1>3, <1>4 DEF Next

LEMMA PhaseInvariant == Spec => []IInv
<1> QED
  BY InitPhase, NextPhase, PTL DEF Spec

\* For any number of stages: the main thread corrects, latches and ends the
\* simulation while no stage function is at work (proc.c:189-266).
THEOREM CorrectionRunsAlone == Spec => []CorrectionAlone
<1>1. IInv => CorrectionAlone
  BY DEF IInv, Phase, CorrectionAlone
<1> QED
  BY <1>1, PhaseInvariant, PTL

\* The counters: a cycle is only begun below the limit, and a thread is only
\* joined while one is left.
Counters ==
    /\ num_instr \in 0 .. CycleMax
    /\ pc[Main] \in {"create", "start", "finish", "correct"} => num_instr < CycleMax
    /\ next \in 0 .. StageCount
    /\ pc[Main] \in {"signal", "join"} => next < StageCount

LEMMA InitCounters == Init => Counters
BY ThreadsDiffer, StageCountAssumption, CycleMaxAssumption DEF Init, Counters

\* A barrier takes the main thread from one half of the cycle to the other, or
\* from the signal to the joins.
LEMMA WaitCounters == ASSUME IInv, Counters, NEW t \in Threads, Wait(t) PROVE Counters'
<1> USE ThreadsDiffer
<1>1. num_instr' = num_instr /\ next' = next
  BY DEF Wait
<1>2. \/ pc'[Main] = pc[Main]
      \/ pc[Main] = "start" /\ pc'[Main] = "finish"
      \/ pc[Main] = "finish" /\ pc'[Main] = "correct"
      \/ pc[Main] = "signal" /\ pc'[Main] = "join"
  <2>1. CASE Full(Barrier(pc[t]), t)
    <3>1. pc'[Main] = Passed(pc[Main])
      BY <2>1 DEF Wait, Full
    <3>2. AtBarrier(pc[Main])
      BY <2>1, Together DEF Wait
    <3>3. pc[Main] \in {"start", "finish", "signal"}
      BY <3>2 DEF IInv, Phase, MainLabels, AtBarrier, StartWaits
    <3> QED
      BY <3>1, <3>3 DEF Passed
  <2>2. CASE ~Full(Barrier(pc[t]), t)
    BY <2>2 DEF Wait
  <2> QED
    BY <2>1, <2>2
<1> QED
  BY <1>1, <1>2 DEF Counters

LEMMA NextCounters == IInv /\ Counters /\ [Next]_vars => Counters'
<1> SUFFICES ASSUME IInv, Counters, [Next]_vars PROVE Counters'
  OBVIOUS
<1> USE ThreadsDiffer, StageCountAssumption, CycleMaxAssumption
<1>1. CASE \E t \in Threads : Wait(t)
  BY <1>1, WaitCounters
<1>2. ASSUME NEW s \in Stages, RunStage(s) \/ TestRunning(s) PROVE Counters'
  <2>1. pc'[Main] = pc[Main] /\ num_instr' = num_instr /\ next' = next
    BY <1>2 DEF RunStage, TestRunning, Goto, IInv
  <2> QED
    BY <2>1 DEF Counters
<1>3. CASE Create
  <2>1. pc[Main] = "create" /\ next \in 0 .. StageCount - 1 /\ next # Main
    BY <1>3 DEF Create, IInv, Phase, Main
  <2>2. pc'[Main] \in {"create", "start"} /\ next' = next + 1 /\ num_instr' = num_instr
    BY <1>3 DEF Create, IInv
  <2> QED
    BY <2>1, <2>2 DEF Counters
<1>4. CASE EndCycle
  <2>1. pc[Main] = "correct" /\ num_instr' = num_instr + 1 /\ next' = next
    BY <1>4 DEF EndCycle
  <2>2. pc'[Main] = "stop" \/ (pc'[Main] = "start" /\ num_instr + 1 < CycleMax)
    BY <1>4 DEF EndCycle, Goto, LastCycle, IInv, Counters
  <2> QED
    BY <2>1, <2>2 DEF Counters
<1>5. CASE Stop
  <2>1. pc'[Main] = "signal" /\ next' = 0 /\ num_instr' = num_instr
    BY <1>5 DEF Stop, Goto, AfterStop, IInv
  <2> QED
    BY <2>1 DEF Counters
<1>6. CASE Join
  <2>1. pc[Main] = "join" /\ next' = next + 1 /\ num_instr' = num_instr
    BY <1>6 DEF Join
  <2>2. pc'[Main] = IF next + 1 = StageCount THEN "done" ELSE "join"
    BY <1>6 DEF Join, Goto, IInv
  <2> QED
    BY <2>1, <2>2 DEF Counters
<1>7. CASE Finished \/ UNCHANGED vars
  BY <1>7 DEF Finished, vars, Counters
<1> QED
  BY <1>1, <1>2, <1>3, <1>4, <1>5, <1>6, <1>7 DEF Next

\* For any number of stages: no more than cycle_max cycles are counted, no more
\* threads created or joined than there are, and every thread keeps to the
\* statements of its own function (proc.c:47-95, 140-146, 266-274).
THEOREM ThreadsTyped == Spec => []TypeOK
<1>1. IInv /\ Counters => TypeOK
  <2> SUFFICES ASSUME IInv, Counters PROVE TypeOK
    OBVIOUS
  <2>1. \A s \in Stages : pc[s] \in StageLabels
    BY DEF IInv, Phase, MainLabels, StageLabels
  <2>2. running_sim \in BOOLEAN
    BY DEF IInv, Phase
  <2> QED
    BY <2>1, <2>2 DEF TypeOK, IInv, Phase, Arrived, Counters
<1> QED
  BY <1>1, InitCounters, NextCounters, PhaseInvariant, PTL DEF Spec
-----------------------------------------------------------------------------
Ran == IF pc[Main] \in {"finish", "correct"}
       THEN {s \in Stages : pc[s] \in {"end", "again"}} ELSE {}
Over == pc[Main] \in {"stop", "signal", "join", "done"}

LEMMA OrderInit == Init => Order!Init
<1> SUFFICES ASSUME Init PROVE Order!Init
  OBVIOUS
<1>1. pc[Main] = "create"
  BY ThreadsDiffer DEF Init
<1> QED
  BY <1>1 DEF Order!Init

\* A barrier that opens changes neither what has run nor whether all is over.
LEMMA OrderWait ==
    ASSUME IInv, NEW t \in Threads, Wait(t) PROVE Ran' = Ran /\ Over' = Over
<1> USE ThreadsDiffer
<1>1. CASE Full(Barrier(pc[t]), t)
  <2>1. \A u \in Threads : AtBarrier(pc[u]) /\ Barrier(pc[u]) = Barrier(pc[Main])
    BY <1>1, Together DEF Wait
  <2>2. Waiters(Barrier(pc[t])) \cup {t} = Threads
    BY <1>1 DEF Full
  <2>3. pc' = [u \in Threads |-> Passed(pc[u])]
    BY <1>1, <2>2 DEF Wait, IInv, Arrived
  <2>4. CASE pc[Main] = "start"
    <3>1. (\A s \in Stages : pc'[s] \in {"run", "test"}) /\ pc'[Main] = "finish"
      BY <2>3, <2>4 DEF IInv, Phase, Passed
    <3> QED
      BY <2>4, <3>1 DEF Ran, Over
  <2>5. CASE pc[Main] = "finish"
    <3>1. \A s \in Stages : pc[s] = "end"
      BY <2>1, <2>5 DEF IInv, Phase, AtBarrier, StartWaits
    <3>2. (\A s \in Stages : pc'[s] = "again") /\ pc'[Main] = "correct"
      BY <2>3, <2>5, <3>1 DEF Passed, AfterEnd
    <3> QED
      BY <2>5, <3>1, <3>2 DEF Ran, Over
  <2>6. CASE pc[Main] = "signal"
    <3>1. pc'[Main] = "join"
      BY <2>3, <2>6 DEF Passed
    <3> QED
      BY <2>6, <3>1 DEF Ran, Over
  <2>7. pc[Main] \in {"start", "finish", "signal"}
    BY <2>1 DEF IInv, Phase, AtBarrier, StartWaits, MainLabels
  <2> QED
    BY <2>4, <2>5, <2>6, <2>7
<1>2. CASE ~Full(Barrier(pc[t]), t)
  BY <1>2 DEF Wait, Ran, Over
<1> QED
  BY <1>1, <1>2

\* A stage function is a step of CycleOrder; the test of running_sim is not.
LEMMA OrderStage ==
    ASSUME IInv, NEW s \in Stages, RunStage(s) \/ TestRunning(s)
    PROVE  [Order!Next]_(Order!vars)
<1> USE ThreadsDiffer
<1>1. \A u \in Threads : u # s => pc'[u] = pc[u]
  BY DEF RunStage, TestRunning, Goto, IInv
<1>2. CASE RunStage(s)
  <2>1. pc[s] = "run" /\ pc'[s] = "end"
    BY <1>2 DEF RunStage, Goto, IInv
  <2>2. pc[Main] = "finish" /\ pc'[Main] = "finish"
    BY <1>1, <2>1 DEF IInv, Phase, MainLabels
  <2>3. s \notin Ran /\ Ran' = Ran \cup {s} /\ ~Over /\ Over' = Over
    BY <1>1, <2>1, <2>2 DEF Ran, Over
  <2>4. Order!Run(s)
    BY <2>3 DEF Order!Run, Ran, Over
  <2> QED
    BY <2>4 DEF Order!Next
<1>3. CASE TestRunning(s)
  <2>1. pc[s] = "test" /\ pc'[s] \in {"run", "exit"}
    BY <1>3 DEF TestRunning, Goto, IInv
  <2>2. Ran' = Ran /\ Over' = Over
    BY <1>1, <2>1 DEF Ran, Over
  <2> QED
    BY <2>2 DEF Order!vars, Ran, Over
<1> QED
  BY <1>2, <1>3

LEMMA OrderMain ==
    ASSUME IInv, Create \/ EndCycle \/ Stop \/ Join
    PROVE  [Order!Next]_(Order!vars)
<1> USE ThreadsDiffer
<1>1. CASE EndCycle
  <2>1. pc[Main] = "correct" /\ pc'[Main] \in {"start", "stop"}
    BY <1>1 DEF EndCycle, Goto, IInv
  <2>2. \A s \in Stages : pc[s] = "again"
    BY <2>1 DEF IInv, Phase
  <2>3. Ran = Stages /\ Ran' = {} /\ ~Over /\ Over' \in BOOLEAN
    BY <2>1, <2>2 DEF Ran, Over
  <2>4. Order!EndCycle
    BY <2>3 DEF Order!EndCycle, Ran, Over
  <2> QED
    BY <2>4 DEF Order!Next
<1>2. CASE Create \/ Stop \/ Join
  <2>1. \/ pc[Main] = "create" /\ pc'[Main] \in {"create", "start"}
        \/ pc[Main] = "stop" /\ pc'[Main] = "signal"
        \/ pc[Main] = "join" /\ pc'[Main] \in {"join", "done"}
    BY <1>2, StageCountAssumption
    DEF Create, Stop, Join, Goto, AfterStop, IInv, Phase
  <2>2. Ran' = Ran /\ Over' = Over
    BY <2>1 DEF Ran, Over
  <2> QED
    BY <2>2 DEF Order!vars, Ran, Over
<1> QED
  BY <1>1, <1>2

LEMMA OrderNext == IInv /\ [Next]_vars => [Order!Next]_(Order!vars)
<1> SUFFICES ASSUME IInv, [Next]_vars PROVE [Order!Next]_(Order!vars)
  OBVIOUS
<1>1. CASE \E t \in Threads : Wait(t)
  BY <1>1, OrderWait DEF Order!vars, Ran, Over
<1>2. CASE \E s \in Stages : RunStage(s) \/ TestRunning(s)
  BY <1>2, OrderStage
<1>3. CASE Create \/ EndCycle \/ Stop \/ Join
  BY <1>3, OrderMain
<1>4. CASE Finished \/ UNCHANGED vars
  BY <1>4 DEF Finished, vars, Order!vars
<1> QED
  BY <1>1, <1>2, <1>3, <1>4 DEF Next

\* For any number of stages: in every cycle each stage function runs once
\* before the cycle is ended, and none after the last (proc.c:47-95, 140-146,
\* 266-274).
THEOREM ThreadsKeepOrder == Spec => ImplementsCycleOrder
<1> QED
  BY OrderInit, OrderNext, PhaseInvariant, PTL
  DEF Spec, ImplementsCycleOrder, Order!Spec
=============================================================================

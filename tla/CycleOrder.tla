----------------------------- MODULE CycleOrder -----------------------------
(***************************************************************************)
(* What the clock promises the stages: in every cycle each stage function  *)
(* runs exactly once, in any order, before the cycle is ended; once the    *)
(* program is over no stage runs.                                          *)
(***************************************************************************)
CONSTANT Stages
VARIABLES ran,    \* the stages that have run in this cycle
          over    \* the last cycle has ended
vars == <<ran, over>>

Init == ran = {} /\ over = FALSE

Run(s) == ~over /\ s \notin ran /\ ran' = ran \cup {s} /\ UNCHANGED over
EndCycle == ~over /\ ran = Stages /\ ran' = {} /\ over' \in BOOLEAN

Next == EndCycle \/ \E s \in Stages : Run(s)
Spec == Init /\ [][Next]_vars
=============================================================================

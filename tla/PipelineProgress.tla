-------------------------- MODULE PipelineProgress --------------------------
(***************************************************************************)
(* The pipeline with a history variable: for how many cycles no            *)
(* instruction has been issued, that is, moved from Decode into Execute.   *)
(* Stalls, bubbles, misses and squashes each end; what is stated here is   *)
(* that they end together, and when.                                       *)
(***************************************************************************)
EXTENDS PipelineProperties

VARIABLE idle

Issues == HandleHazards.X = "LOAD" /\ X_in.status = "AOK"

ProgressInit == Init /\ idle = 0
ProgressNext == /\ Next
                /\ idle' = IF ~EndCycle THEN idle ELSE IF Issues THEN 0 ELSE idle + 1
ProgressSpec == ProgressInit /\ [][ProgressNext]_<<vars, idle>>

\* The cycles a miss adds to an access.
Penalty == IF Cached THEN Delay - 1 ELSE 0

\* handle_hazards and the miss count: the loop issues an instruction or ends.  It
\* idles longest behind two accesses that miss, each for the penalty, and five
\* cycles more: the load-use stall, and the way of an undefined instruction from
\* Decode out of the pipe.  (Without misses, six: a squash costs two cycles.)
NeverIdle == idle <= IF Penalty = 0 THEN 6 ELSE 5 + 2 * Penalty
=============================================================================

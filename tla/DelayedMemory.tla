---------------------------- MODULE DelayedMemory ----------------------------
(***************************************************************************)
(* What Pipeline takes the memory behind its cached accesses to be: a flat *)
(* array, and MissDelay to say when an access is done.                     *)
(***************************************************************************)
EXTENDS MissDelay

CONSTANTS Blocks, Offsets, Values, Zero
VARIABLES cells,        \* the array
          result        \* the value the last read returned
vars == <<cells, dmem, result>>

Init == /\ cells \in [Blocks -> [Offsets -> Values]]
        /\ dmem = NoMiss /\ result = Zero

Done == dmem'.status = "READY"

Read(b, o) == /\ dmem' \in Touched(b)
              /\ result' = IF Done THEN cells[b][o] ELSE Zero
              /\ UNCHANGED cells
Write(b, o, v) == /\ dmem' \in Touched(b)
                  /\ cells' = IF Done THEN [cells EXCEPT ![b] = [@ EXCEPT ![o] = v]] ELSE cells
                  /\ UNCHANGED result

Next == \E b \in Blocks, o \in Offsets :
            Read(b, o) \/ \E v \in Values : Write(b, o, v)
Spec == Init /\ [][Next]_vars
=============================================================================

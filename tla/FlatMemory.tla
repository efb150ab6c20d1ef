----------------------------- MODULE FlatMemory -----------------------------
(***************************************************************************)
(* What the guest's memory promises the stages: each call is either        *)
(* refused, with no effect, or it reads or writes one doubleword of a flat *)
(* array.  An address is a block and the offset of a doubleword in it.     *)
(***************************************************************************)
CONSTANTS Blocks, Offsets, Values, Zero
VARIABLES cells,        \* the array
          ready,        \* dmem_status: the last call was performed
          result        \* the value the last read returned
vars == <<cells, ready, result>>

Init == /\ cells \in [Blocks -> [Offsets -> Values]]
        /\ ready = TRUE /\ result = Zero

Read(b, o) == /\ result' = cells[b][o]
              /\ ready' = TRUE
              /\ UNCHANGED cells
Write(b, o, v) == /\ cells' = [cells EXCEPT ![b] = [@ EXCEPT ![o] = v]]
                  /\ ready' = TRUE
                  /\ UNCHANGED result

\* A refused read returns a value nobody uses.
Refuse == /\ ready' = FALSE
          /\ result' \in {result, Zero}
          /\ UNCHANGED cells

Next == \/ Refuse
        \/ \E b \in Blocks, o \in Offsets :
              Read(b, o) \/ \E v \in Values : Write(b, o, v)
Spec == Init /\ [][Next]_vars
=============================================================================

----------------------------- MODULE MCPageTable -----------------------------
(***************************************************************************)
(* The stage threads Fetch and Memory of the PARALLEL build in the same    *)
(* cycle.  The text has been loaded to page 4; Fetch runs past its end,    *)
(* Memory begins to use the stack, and the three are in one chain, as they *)
(* are in the code for text at 0x400000 and the stack below 0x800000000.   *)
(***************************************************************************)
EXTENDS PageTable

MCPages == {4, 5, 10}
MCHash == [p \in MCPages |-> 0]
MCMay == [c \in {"Fetch", "Memory"} |->
            [op : IF c = "Fetch" THEN {"read"} ELSE {"read", "write"},
             num : IF c = "Fetch" THEN {4, 5} ELSE {10}, off : {0}, val : {1}]]

Loaded ==
    /\ heap = <<[num |-> 4, data |-> [Blank EXCEPT ![0] = 1]]>> /\ ptable = [b \in Buckets |-> <<1>>]
    /\ at = [c \in Clients |-> Idle] /\ result = Zero
Threads == Loaded /\ [][Next]_pages
=============================================================================

------------------------------ MODULE LruCache ------------------------------
(***************************************************************************)
(* What a least-recently-used cache promises whoever counts its hits,      *)
(* misses and evictions: a set holds the A blocks of its own that were     *)
(* used last.  There are no lines, tags or matrix here: `held' maps each   *)
(* block in the cache to its rank, how many blocks of its set were used    *)
(* since it was, and to whether it has been written.                       *)
(***************************************************************************)
EXTENDS Naturals

CONSTANTS A, S, Blocks
VARIABLES held, hits, misses, dirty_evictions, clean_evictions
vars == <<held, hits, misses, dirty_evictions, clean_evictions>>

Init == /\ held = [b \in {} |-> [rank |-> 0, dirty |-> FALSE]]
        /\ hits = 0 /\ misses = 0 /\ dirty_evictions = 0 /\ clean_evictions = 0

Mates(b) == {c \in DOMAIN held : c % S = b % S}

\* The ranks after block b has been used: of its set, those in T step back.
Ranks(dom, b, T, write) ==
    [c \in dom |->
        IF c = b THEN [rank |-> 0, dirty |-> write]
        ELSE IF c \in T THEN [rank |-> held[c].rank + 1, dirty |-> held[c].dirty]
        ELSE held[c]]

Hit(b, write) ==
    /\ b \in DOMAIN held
    /\ held' = Ranks(DOMAIN held, b, {c \in Mates(b) : held[c].rank < held[b].rank},
                     write \/ held[b].dirty)
    /\ hits' = hits + 1
    /\ UNCHANGED <<misses, dirty_evictions, clean_evictions>>

\* A miss in a set that has room, and in one that has none.
Fill(b, write) ==
    /\ b \notin DOMAIN held
    /\ \A c \in Mates(b) : held[c].rank # A - 1
    /\ held' = Ranks(DOMAIN held \cup {b}, b, Mates(b), write)
    /\ misses' = misses + 1
    /\ UNCHANGED <<hits, dirty_evictions, clean_evictions>>

Replace(b, write) ==
    /\ b \notin DOMAIN held
    /\ \E v \in Mates(b) :
          /\ held[v].rank = A - 1
          /\ held' = Ranks((DOMAIN held \ {v}) \cup {b}, b, Mates(b), write)
          /\ dirty_evictions' = IF held[v].dirty THEN dirty_evictions + 1 ELSE dirty_evictions
          /\ clean_evictions' = IF held[v].dirty THEN clean_evictions ELSE clean_evictions + 1
    /\ misses' = misses + 1
    /\ UNCHANGED hits

Next == \E b \in Blocks, write \in BOOLEAN : Hit(b, write) \/ Fill(b, write) \/ Replace(b, write)
Spec == Init /\ [][Next]_vars
=============================================================================

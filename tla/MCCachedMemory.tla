--------------------------- MODULE MCCachedMemory ---------------------------
(***************************************************************************)
(* A cache of two sets of two lines.  Blocks 0, 2 and 4 share set 0, which *)
(* can so be full, evict, write back and take a block again; block 1 is    *)
(* alone in set 1, and what happens there must not touch the other set.    *)
(***************************************************************************)
EXTENDS CachedMemory

\* Neighbours that share a set hold different values.
MCImages == {[b \in Blocks |-> [o \in Offsets |-> (b \div 2 + b + o) % 2]]}
=============================================================================

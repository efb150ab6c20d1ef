-------------------------------- MODULE Cache --------------------------------
(***************************************************************************)
(* cache.c: a writeback cache of Sets sets of Ways lines with the matrix   *)
(* form of least-recently-used replacement.  Two programs use it: the      *)
(* emulator, in front of the guest's pages (CachedMemory), and the trace   *)
(* simulator (Csim).                                                       *)
(*                                                                         *)
(* An address is a block number and the offset of a doubleword in the      *)
(* block.  Sets is a power of two in the code, whose index is a bit mask,  *)
(* and Ways at most 8, the width of its matrix; nothing here depends on    *)
(* either.                                                                 *)
(*                                                                         *)
(* `age' is history: per line, how many lines of its set have been used    *)
(* since it was.                                                           *)
(***************************************************************************)
EXTENDS Integers

CONSTANTS
    A,            \* associativity
    S,            \* number of sets, C / (A * B)
    Blocks,       \* the blocks of memory that are accessed
    Offsets,      \* doublewords of a block
    Values, Zero  \* contents of a doubleword

ASSUME ShapeAssumption == A \in Nat \ {0} /\ S \in Nat \ {0}
ASSUME BlocksAssumption == Blocks \subseteq Nat /\ Blocks # {}

Ways == 0 .. A - 1
Sets == 0 .. S - 1
Data == [Offsets -> Values]
Unset == A                         \* next_lru = ~0

Index(b) == b % S
Tag(b) == b \div S
BlockOf(t, s) == t * S + s         \* ((tag << s) | set_index)

VARIABLES lines, lru_matrix, next_lru, age

Line == [valid : BOOLEAN, tag : {Tag(b) : b \in Blocks} \cup {0}, dirty : BOOLEAN, data : Data]
EmptyLine == [valid |-> FALSE, tag |-> 0, dirty |-> FALSE, data |-> [o \in Offsets |-> Zero]]

\* create_cache
CreateCache ==
    /\ lines = [s \in Sets |-> [w \in Ways |-> EmptyLine]]
    /\ lru_matrix = [s \in Sets |-> [i \in Ways |-> [j \in Ways |-> FALSE]]]
    /\ next_lru = [s \in Sets |-> Unset]
    /\ age = [s \in Sets |-> [w \in Ways |-> w]]

-----------------------------------------------------------------------------
First(T) == CHOOSE w \in T : \A v \in T : w <= v

\* Mutant of Holding: the loop stops one line early.
HoldingShort(b) ==
    {w \in 0 .. A - 2 : lines[Index(b)][w].valid /\ lines[Index(b)][w].tag = Tag(b)}

\* get_line: the line that holds a block.
Holding(b) == {w \in Ways : lines[Index(b)][w].valid /\ lines[Index(b)][w].tag = Tag(b)}
Hit(b) == Holding(b) # {}

\* Mutants of Accessed: the column of the line keeps its bits; the row does.
AccessedRow(m, k) == [m EXCEPT ![k] = [j \in Ways |-> j # k]]
AccessedColumn(m, k) == [i \in Ways |-> [j \in Ways |-> j # k /\ m[i][j]]]

\* lru: the row of the line accessed is set, then its column is cleared; the
\* first line with an empty row is the least recently used.
Accessed(m, k) == [i \in Ways |-> [j \in Ways |-> IF i = k THEN j # k
                                                  ELSE j # k /\ m[i][j]]]
EmptyRows(m) == {i \in Ways : \A j \in Ways : i # j => ~m[i][j]}
LeastRecent(m) == IF EmptyRows(m) = {} THEN 0 ELSE First(EmptyRows(m))

\* History: line k is the youngest now, and the lines that were younger age.
Older(a, k) == [w \in Ways |-> IF w = k THEN 0 ELSE IF a[w] < a[k] THEN a[w] + 1 ELSE a[w]]

\* Line k of set s has been used.
Used(s, k) ==
    /\ lru_matrix' = [lru_matrix EXCEPT ![s] = Accessed(@, k)]
    /\ next_lru' = [next_lru EXCEPT ![s] = LeastRecent(Accessed(lru_matrix[s], k))]
    /\ age' = [age EXCEPT ![s] = Older(@, k)]

\* select_line: an empty line if there is one.
Invalid(s) == {w \in Ways : ~lines[s][w].valid}
SelectLine(s) == IF Invalid(s) # {} THEN First(Invalid(s))
                 ELSE IF next_lru[s] = Unset THEN 0 ELSE next_lru[s]

\* Mutants of Filled: a write leaves the line clean; the set's bits stay in the tag.
FilledClean(b, dirty, data) == [valid |-> TRUE, tag |-> Tag(b), dirty |-> FALSE, data |-> data]
FilledUnshifted(b, dirty, data) == [valid |-> TRUE, tag |-> b, dirty |-> dirty, data |-> data]

\* The line after handle_miss filled it, or after an access found it: a write
\* leaves it dirty.
Filled(b, dirty, data) == [valid |-> TRUE, tag |-> Tag(b), dirty |-> dirty, data |-> data]

-----------------------------------------------------------------------------
\* get_line and check_hit take the first line that matches: no block is ever in
\* two lines.
NoDuplicates ==
    \A s \in Sets : \A i, j \in Ways :
        lines[s][i].valid /\ lines[s][j].valid /\ lines[s][i].tag = lines[s][j].tag => i = j

\* handle_miss: the line given up by a full set is the one that has gone
\* unused for longest.
VictimLeastRecent ==
    \A s \in Sets : Invalid(s) = {} =>
        \A w \in Ways : w # SelectLine(s) => age[s][w] < age[s][SelectLine(s)]
=============================================================================

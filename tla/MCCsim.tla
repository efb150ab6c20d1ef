------------------------------- MODULE MCCsim -------------------------------
(***************************************************************************)
(* Two sets of three lines.  Blocks 0, 2, 4 and 6 share set 0, one more    *)
(* than it holds; block 1 is alone in set 1.                               *)
(***************************************************************************)
EXTENDS Csim

Opt(name, val) == [name |-> name, val |-> val]
FileOf == Opt("t", 0)

\* The same cache asked for in two ways, one of them correcting itself.
Accepted == {<<Opt("A", 3), Opt("B", 8), Opt("C", 48), FileOf>>,
             <<FileOf, Opt("C", 48), Opt("B", 16), Opt("B", 8), Opt("A", 3)>>}
ASSUME ShapeGiven ==
    \A cl \in Accepted : \A o \in {Opt("A", A), Opt("B", 8), Opt("C", A * 8 * S)} :
        \E i \in DOMAIN cl : cl[i] = o

\* Options missing, help, an unknown option, bad blocks, no way, and 3 sets or 0.
Refused == {<<Opt("A", 3), Opt("B", 8), Opt("C", 48)>>,
            <<Opt("A", 3), Opt("B", 8), FileOf>>,
            <<Opt("h", 0)>>, <<Opt("A", 3), Opt("?", 0)>>,
            <<Opt("B", 12)>>, <<Opt("B", 4)>>,
            <<Opt("A", 0), Opt("B", 8), Opt("C", 48), FileOf>>,
            <<Opt("A", 2), Opt("B", 8), Opt("C", 48), FileOf>>,
            <<Opt("A", 3), Opt("B", 8), Opt("C", 16), FileOf>>}
MCCommandLines == Accepted \cup Refused
=============================================================================

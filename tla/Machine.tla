------------------------------ MODULE Machine ------------------------------
(***************************************************************************)
(* What the emulator promises: a machine that executes one instruction of  *)
(* the program after another, each to its end before the next begins.  The *)
(* pipeline is shown to implement it.                                      *)
(***************************************************************************)
EXTENDS Architecture

CONSTANT Programs       \* the programs under consideration, loaded and ready

VARIABLES text,         \* the program, never changed
          state         \* the architectural state

vars == <<text, state>>

-----------------------------------------------------------------------------
\* runElf sets up the program counter, the stack pointer, the flags and the
\* link register; the rest of the register file is zero.
Start(entry, mem) ==
    [pc |-> entry, nzcv |-> [n |-> FALSE, z |-> TRUE, c |-> FALSE, v |-> FALSE],
     regs |-> [r \in Gpr \cup {SP} |-> IF r = SP THEN StackLo - 2 ELSE 0],
     mem |-> mem, output |-> <<>>, status |-> "AOK"]

Init == \E p \in Programs :
           /\ text = p.text
           /\ state = [Start(p.entry, p.mem) EXCEPT !.pc = Norm(p.text, p.entry)]

\* One instruction.  A fault leaves the program counter at the instruction.
Executed(s) ==
    LET i == At(text, s.pc)
        x == Issued(i, s.pc, s.regs)
        t == Finish(s, Computed(x, s.nzcv))
    IN IF t.status # "AOK" THEN t
       ELSE [t EXCEPT !.nzcv = IF SetFlags(i.op) THEN FlagsOf(x) ELSE @,
                      !.pc = Norm(text, Successor(i, s.pc, x, s.nzcv))]
Defined(p) == AddrInImem(p) /\ At(text, p).op # "ERROR"

Step ==
    LET s == state IN
    /\ s.status = "AOK"
    /\ UNCHANGED text
    /\ state' = IF s.pc = 0 THEN [s EXCEPT !.status = "HLT"]
                ELSE IF ~Defined(s.pc) THEN [s EXCEPT !.status = "INS"]
                ELSE Executed(s)

Next == Step
Spec == Init /\ [][Next]_vars
=============================================================================

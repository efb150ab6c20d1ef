----------------------------- MODULE MCPipeline -----------------------------
(***************************************************************************)
(* Small instances of the pipeline for TLC: words of four bits, a text     *)
(* segment of nine instructions at 1..9, two doublewords of data at 10 and *)
(* 12, the kernel from 13 on, and families of short programs.              *)
(***************************************************************************)
EXTENDS PipelineProperties, ALU

\* The ALU as tables, computed once.
MCVals == [f \in AluOps, a \in Word, b \in Word, c \in BOOLEAN |-> Val(f, a, b, c)]
MCFlags == [f \in AluOps, a \in Word, b \in Word |-> FlagBits(f, a, b)]
MCAluVal(f, a, b, c) == MCVals[f, a, b, c]
MCAluFlags(f, a, b) == MCFlags[f, a, b]

\* The bit-by-bit adder, its flags and the shifts against plain arithmetic, on
\* every pair of words: the results modulo the word size, carry as unsigned
\* overflow (or no borrow), overflow as the signed result leaving its range.
Signed(a) == IF a >= Size \div 2 THEN a - Size ELSE a
LeavesRange(n) == n < 0 - Size \div 2 \/ n >= Size \div 2
ASSUME AluMeetsReference ==
    \A a, b \in Word :
        /\ Val("PLUS", a, b, TRUE) = (a + b) % Size
        /\ Val("MINUS", a, b, TRUE) = (a - b) % Size
        /\ FlagBits("PLUS", a, b) =
              [n |-> Signed((a + b) % Size) < 0, z |-> (a + b) % Size = 0,
               c |-> a + b >= Size, v |-> LeavesRange(Signed(a) + Signed(b))]
        /\ FlagBits("MINUS", a, b) =
              [n |-> Signed((a - b) % Size) < 0, z |-> a = b,
               c |-> a >= b, v |-> LeavesRange(Signed(a) - Signed(b))]
        /\ Signed(Val("ASR", a, b, TRUE)) = Signed(a) \div 2 ^ (b % Bits)
        /\ Val("CSNEG", a, b, FALSE) = (0 - b) % Size

-----------------------------------------------------------------------------
I(op, rd, rn, rm, imm) ==
    [op |-> op, rd |-> rd, rn |-> rn, rm |-> rm, imm |-> imm, cond |-> "AL"]
Nop == I("NOP", 0, 0, 0, 0)
Undefined == I("ERROR", 0, 0, 0, 0)
Ret == I("RET", 0, 30, 0, 0)
Halt == I("HLT", 0, 0, 0, 0)
Movz(rd, imm) == I("MOVZ", rd, 0, 0, imm)
Movk(rd, imm) == I("MOVK", rd, 0, 0, imm)
AddI(rd, rn, imm) == I("ADD_RI", rd, rn, 0, imm)
SubI(rd, rn, imm) == I("SUB_RI", rd, rn, 0, imm)
RR(op, rd, rn, rm) == I(op, rd, rn, rm, 0)
Cmp(rn, rm) == RR("SUBS_RR", 31, rn, rm)
Ldur(rt, rn, imm) == I("LDUR", rt, rn, 0, imm)
Stur(rt, rn, imm) == I("STUR", rt, rn, 0, imm)
Jump(op, disp) == I(op, 0, 0, 0, disp % W)
Bcond(cond, disp) == [Jump("B_COND", disp) EXCEPT !.cond = cond]

Cb(op, rt, disp) == I(op, rt, 0, 0, disp % W)
Via(op, rn) == I(op, 0, rn, 0, 0)

\* The memory a program starts with: 3 and 5 in the two doublewords of data.
Memory0 == [a \in Word |-> CASE a = 10 -> 3 [] a = 12 -> 5 [] OTHER -> 0]

\* A program loaded at the start of the text segment; the rest is NOPs.
Loaded(code) ==
    [text |-> [a \in TextLo .. DataLo - 1 |->
                 IF a - TextLo < Len(code) THEN code[a - TextLo + 1] ELSE Nop],
     entry |-> TextLo, mem |-> Memory0]
Around(first, slots, last) == {Loaded(first \o body \o last) : body \in slots}

MCUninit == {XZR}
MCUninitMore == {0, XZR}
MCOutside == {Undefined}

-----------------------------------------------------------------------------
\* Data hazards: every sequence of four loads, stores and computations over
\* two registers, at every distance from each other.
DataOps == {Ldur(0, 1, 0), Stur(0, 1, 0), Ldur(0, 1, 2), AddI(0, 0, 1), Movk(0, 1),
            RR("EOR_RR", 0, 0, 1), RR("ADDS_RR", 0, 1, 0)}
DataPrograms == Around(<<Movz(1, 10)>>, [1 .. 4 -> DataOps], <<Ret>>)

\* Control hazards: forward and backward branches, taken and not, calls and
\* returns.  A path that runs off the text segment ends in STAT_INS.
ControlOps == {Bcond("EQ", 2), Jump("B", 2), Jump("B", -2), Jump("BL", 2),
               Ret, AddI(0, 0, 1), Cmp(0, 1)}
ControlPrograms == Around(<<Cmp(0, 0)>>, [1 .. 4 -> ControlOps], <<Ret>>)

\* Faults: a misaligned load, an undefined instruction, a load of NULL and a
\* halt, among instructions whose effects must or must not appear; and a load
\* that faults three instructions ahead of any of them.
FaultOps == {Ldur(0, 1, 1), Ldur(0, 1, 0), Stur(1, 1, 2), Undefined, Cmp(0, 1),
             Halt, Ldur(0, 0, 0)}
FaultPrograms ==
    Around(<<Movz(1, 10)>>,
           [1 .. 3 -> FaultOps]
           \cup {body \in [1 .. 4 -> FaultOps] : body[1] \in {Ldur(0, 1, 1), Ldur(0, 0, 0)}},
           <<Ret>>)

\* Misses in the data cache behind, before and between dependent instructions,
\* branches, and a return to a loaded address, the stages in every order.
DelayOps == {Ldur(0, 1, 0), Ldur(0, 1, 2), Stur(0, 1, 0), Stur(0, 1, 2), Cmp(0, 1),
             Bcond("EQ", 2), AddI(0, 0, 1), Ldur(30, 1, 2)}
DelayOpsFew == {Ldur(0, 1, 0), Stur(0, 1, 2), Cmp(0, 1), Bcond("EQ", 2)}
DelayPrograms == Around(<<Movz(1, 10), Cmp(0, 0)>>,
                        [1 .. 2 -> DelayOps] \cup [1 .. 3 -> DelayOpsFew], <<Ret, Nop, Ret>>)

\* The console: what is printed, in which order, and what is read.
ConsoleOps == {Stur(0, 1, 0), Stur(1, 1, 0), Ldur(0, 1, 0), AddI(0, 0, 1),
               Stur(0, 1, 1), Ldur(0, 1, W - 1)}
ConsolePrograms == Around(<<Movz(1, 15)>>, [1 .. 3 -> ConsoleOps], <<Ret>>)

\* What runs straight on.
StraightPrograms == DataPrograms \cup (FaultPrograms \cup ConsolePrograms)

\* The extra-credit instructions.
ExtraOps == {Cb("CBZ", 0, 2), Cb("CBNZ", 0, 2), Via("BR", 1), Via("BLR", 1),
             RR("CSINC", 0, 0, 1), RR("CSNEG", 0, 1, 1), AddI(0, 0, 1)}
ExtraPrograms == Around(<<Movz(1, 7), Cmp(0, 0)>>, [1 .. 3 -> ExtraOps], <<Nop, Nop, Ret>>)

\* Halts on either side of branches, calls and returns, where a halt that is only
\* fetched on the wrong path does not stay in the pipe: behind a return and on the
\* taken side of a branch there is none.
HaltOps == {Halt, Bcond("EQ", 2), Jump("B", 2), Jump("BL", 2), Ret, Cmp(0, 1)}
HaltPrograms == {p \in Around(<<Cmp(0, 0)>>, [1 .. 4 -> HaltOps], <<Ret>>) :
                    WellLaid(p.text)}

\* What branches.
ControlAndExtraPrograms == ControlPrograms \cup (ExtraPrograms \cup HaltPrograms)

\* What the theorems about programs that are well laid out ask of a program holds
\* of the families above.
ASSUME FamiliesLaid ==
    Programs \in {StraightPrograms, ControlAndExtraPrograms, DelayPrograms} => Laid

-----------------------------------------------------------------------------
(* Programs on which the code departs from what its documentation says *)

\* A stack frame is opened and used at once.
SpPrograms == Around(<<>>, [1 .. 3 -> {SubI(31, 31, 2), Stur(0, 31, 0), Ldur(1, 31, 0),
                                       AddI(0, 31, 1)}], <<Ret>>)

\* A conditional branch that falls through, with a return at its target.
ExtraRetPrograms == Around(<<>>, [1 .. 3 -> {Cb("CBNZ", 0, 2), Cb("CBZ", 0, 2), Ret,
                                              AddI(0, 0, 1)}], <<Nop, Ret>>)
=============================================================================

---------------------------- MODULE Instructions ----------------------------
(***************************************************************************)
(* The chArm-v5 instruction set as the decode tables of the emulator see   *)
(* it: opcodes, control signals, register operands, ALU operation and      *)
(* condition codes.  Everything here is a pure operator; Pipeline and      *)
(* Machine both use it.                                                    *)
(*                                                                         *)
(* Abstractions.  A machine word is a number below W; the unit of an       *)
(* address is four bytes, so the next instruction is one unit further, a   *)
(* doubleword is aligned when its address is even, and an address whose    *)
(* two low bits are set is one of the addresses outside the segment.  An   *)
(* instruction is a record: opcode, the three register fields, the         *)
(* immediate as extract_immval delivers it (a branch displacement is kept  *)
(* in units, a move-wide immediate with its shift), and the condition.     *)
(* LSL/LSR by immediate or register are opcodes of their own, as they are  *)
(* after fix_instr_aliases; the aliases that depend on Rd are computed.    *)
(***************************************************************************)
EXTENDS Integers

CONSTANTS
    W,                    \* number of machine words (2^64 in the program)
    EC,                   \* TRUE in the build with -DEC
    Gpr,                  \* general purpose registers in use, LR among them
    PageUnits,            \* size of an ADRP page, in units
    AluVal(_, _, _, _),   \* alu(): result of ALU_op on two words and cond_val
    AluFlags(_, _, _)     \* alu(): flags ALU_op sets on two words

Word == 0 .. W - 1
Flags == [n : BOOLEAN, z : BOOLEAN, c : BOOLEAN, v : BOOLEAN]

\* hw_elts.h numbers the stack pointer 31 and the zero register 32.
LR == 30
SP == 31
XZR == 32
Field == Gpr \cup {SP}            \* a register field of an instruction word
RegNum == Gpr \cup {SP, XZR}      \* a register number after fix_regs

AluOps == {"PLUS", "MINUS", "INV", "OR", "EOR", "AND", "MOV", "MOVK", "LSL",
           "LSR", "ASR", "PASS_A", "CSEL", "CSINV", "CSINC", "CSNEG", "CBZ", "CBNZ"}

ASSUME WordAssumption == W \in Nat /\ W > 4
ASSUME BuildAssumption == EC \in BOOLEAN
ASSUME GprAssumption == Gpr \subseteq 0 .. 30 /\ {0, LR} \subseteq Gpr
ASSUME PageAssumption == PageUnits \in Nat \ {0}
ASSUME AluAssumption ==
    \A f \in AluOps, a, b \in Word :
        /\ \A c \in BOOLEAN : AluVal(f, a, b, c) \in Word
        /\ AluFlags(f, a, b) \in Flags

Plus(a, n) == (a + n) % W          \* uint64_t addition wraps

-----------------------------------------------------------------------------
(* Opcodes and formats *)

RRSetting == {"ADDS_RR", "CMN_RR", "SUBS_RR", "CMP_RR", "ANDS_RR", "TST_RR"}
FormatRR == RRSetting \cup {"MVN", "ORR_RR", "EOR_RR", "LSL_RR", "LSR_RR"}
FormatRI == {"ADD_RI", "SUB_RI", "LSL_RI", "LSR_RI", "ASR"}
FormatI  == {"MOVK", "MOVZ", "ADRP"}
FormatM  == {"LDUR", "STUR"}
Selects  == {"CSEL", "CSINV", "CSINC", "CSNEG"}
FormatEC == Selects \cup {"CBZ", "CBNZ", "BR", "BLR"}
Ops == FormatRR \cup FormatRI \cup FormatI \cup FormatM \cup FormatEC
       \cup {"NOP", "HLT", "B", "BL", "B_COND", "RET", "ERROR"}
Conds == {"EQ", "NE", "CS", "CC", "MI", "PL", "VS", "VC",
          "HI", "LS", "GE", "LT", "GT", "LE", "AL", "NV"}

Instr == [op : Ops, rd : Field, rn : Field, rm : Field, imm : Word, cond : Conds]

\* The all-zero pipeline register holds opcode 0, which is NOP.
ZeroInstr == [op |-> "NOP", rd |-> 0, rn |-> 0, rm |-> 0, imm |-> 0, cond |-> "EQ"]
HaltInstr == [ZeroInstr EXCEPT !.op = "HLT"]

\* itable: the extra-credit encodings are errors in a build without -DEC.
Itable(i) == IF i.op \in FormatEC /\ ~EC THEN [i EXCEPT !.op = "ERROR"] ELSE i

\* CMN, CMP and TST are ADDS, SUBS and ANDS that write register field 31.
AliasOf == [ADDS_RR |-> "CMN_RR", SUBS_RR |-> "CMP_RR", ANDS_RR |-> "TST_RR"]
FixInstrAliases(i) ==
    IF i.op \in DOMAIN AliasOf /\ i.rd = 31
    THEN [i EXCEPT !.op = AliasOf[i.op]] ELSE i

-----------------------------------------------------------------------------
(* Control signals, each a function of the opcode *)

ValaSel(op)   == op \in {"ADRP", "BL"}
ValbSel(op)   == op \in FormatRR \cup Selects
SetFlags(op)  == op \in RRSetting
DmemRead(op)  == op = "LDUR"
DmemWrite(op) == op = "STUR"
DstSel(op)    == op = "BL"
WvalSel(op)   == op = "LDUR"
WEnable(op)   == \/ op \in (FormatRR \ {"CMN_RR", "CMP_RR", "TST_RR"})
                 \/ op \in FormatRI \cup FormatI \cup Selects \cup {"LDUR", "BL", "BLR"}

AluOp(op) ==
    CASE op \in {"LDUR", "STUR", "ADRP", "ADD_RI", "ADDS_RR", "CMN_RR"} -> "PLUS"
      [] op \in {"SUB_RI", "SUBS_RR", "CMP_RR"} -> "MINUS"
      [] op = "MOVK"                  -> "MOVK"
      [] op = "MOVZ"                  -> "MOV"
      [] op = "MVN"                   -> "INV"
      [] op = "ORR_RR"                -> "OR"
      [] op = "EOR_RR"                -> "EOR"
      [] op \in {"ANDS_RR", "TST_RR"} -> "AND"
      [] op \in {"LSL_RI", "LSL_RR"}  -> "LSL"
      [] op \in {"LSR_RI", "LSR_RR"}  -> "LSR"
      [] op = "ASR"                   -> "ASR"
      [] op \in Selects \cup {"CBZ", "CBNZ"} -> op
      [] OTHER                        -> "PASS_A"

-----------------------------------------------------------------------------
(* Register operands: extract_regs and then fix_regs, for a decoded word *)

\* Field 31 names SP only as the base of a load or store and as an operand of
\* ADD/SUB immediate; everywhere else it is the zero register.
Fixed(n, spAllowed) == IF n = SP /\ ~spAllowed THEN XZR ELSE n

Src1(i) ==
    CASE i.op \in {"LDUR", "STUR", "ADD_RI", "SUB_RI"} -> Fixed(i.rn, TRUE)
      [] i.op \in FormatRR \cup (FormatRI \ {"ADD_RI", "SUB_RI"})
                  \cup Selects \cup {"RET", "BR", "BLR"} -> Fixed(i.rn, FALSE)
      [] i.op \in {"MOVK", "CBZ", "CBNZ"} -> Fixed(i.rd, FALSE)
      [] OTHER -> XZR
Src2(i) ==
    CASE i.op \in FormatRR \cup Selects -> Fixed(i.rm, FALSE)
      [] i.op = "STUR" -> Fixed(i.rd, FALSE)
      [] OTHER -> XZR
Dst(i) ==
    CASE i.op \in {"ADD_RI", "SUB_RI"} -> Fixed(i.rd, TRUE)
      [] i.op \in FormatRR \cup (FormatRI \ {"ADD_RI", "SUB_RI"})
                  \cup FormatI \cup Selects \cup {"LDUR"} -> Fixed(i.rd, FALSE)
      [] i.op \in {"BL", "BLR"} -> LR
      [] OTHER -> XZR

\* decode_instr: the condition is taken from the word only where one is encoded.
CondOf(i) == IF i.op \in Selects \cup {"B_COND"} THEN i.cond ELSE "AL"

\* regfile_read and regfile_write
RegRead(regs, n) == IF n = XZR THEN 0 ELSE regs[n]
RegWrite(regs, n, v) == IF n = XZR THEN regs ELSE [regs EXCEPT ![n] = v]

-----------------------------------------------------------------------------
(* Conditions, and the work of the execute stage on its operands *)

CondHolds(cond, f) ==
    CASE cond = "EQ" -> f.z
      [] cond = "NE" -> ~f.z
      [] cond = "CS" -> f.c
      [] cond = "CC" -> ~f.c
      [] cond = "MI" -> f.n
      [] cond = "PL" -> ~f.n
      [] cond = "VS" -> f.v
      [] cond = "VC" -> ~f.v
      [] cond = "HI" -> f.c /\ ~f.z
      [] cond = "LS" -> ~(f.c /\ ~f.z)
      [] cond = "GE" -> f.n = f.v
      [] cond = "LT" -> f.n # f.v
      [] cond = "GT" -> ~f.z /\ f.n = f.v
      [] cond = "LE" -> ~(~f.z /\ f.n = f.v)
      [] OTHER -> TRUE                         \* C_AL and C_NV

\* x is the register feeding Execute: op, cond, val_a, val_b, val_imm, seq_succ
AluA(x) == IF ValaSel(x.op)
           THEN IF x.op = "ADRP" THEN x.seq_succ - (x.seq_succ % PageUnits)
                                 ELSE x.seq_succ
           ELSE x.val_a
AluB(x) == IF ValbSel(x.op) THEN x.val_b ELSE x.val_imm

CondVal(x, f) == CASE x.op = "CBZ"  -> AluA(x) = 0
                   [] x.op = "CBNZ" -> AluA(x) # 0
                   [] OTHER -> CondHolds(x.cond, f)

\* BLR passes its target through the ALU but retires the link address.
ValEx(x, f) == IF x.op = "BLR" THEN x.val_imm
               ELSE AluVal(AluOp(x.op), AluA(x), AluB(x), CondVal(x, f))
FlagsOf(x) == AluFlags(AluOp(x.op), AluA(x), AluB(x))

\* A conditional branch that falls through: predicted taken, so mispredicted.
FallsThrough(x, f) == x.op \in {"B_COND", "CBZ", "CBNZ"} /\ ~CondVal(x, f)
=============================================================================

--------------------------- MODULE PipelineProofs ---------------------------
(***************************************************************************)
(* Proofs about the pipeline for every word size, memory layout, set of    *)
(* programs, cache delay and order of the stages.                          *)
(*                                                                         *)
(* Type correctness: whatever a program does, every value is a machine     *)
(* word, every register number names a register and every pipeline         *)
(* register holds a proper record.                                         *)
(*                                                                         *)
(* Hazard control: the pipeline loses no cycle without a cause, the        *)
(* default build, which has no CBZ and CBNZ, lets nothing past a branch    *)
(* that falls through, and the loop issues an instruction or ends within a *)
(* number of cycles that depends on the cache's delay alone.  All of it    *)
(* while nothing is fetched from the data segments: such a fetch may start *)
(* a miss of its own, which nothing in the pipe explains.  (With CBZ and   *)
(* CBNZ the run extra_return refutes the second theorem.)                  *)
(*                                                                         *)
(* Programs: which of the conditions under which the pipeline is invisible *)
(* follow from the layout of the text segment.                             *)
(***************************************************************************)
EXTENDS PipelineProgress, TLAPS

-----------------------------------------------------------------------------
(* Words *)

\* uint64_t addition stays within a word.
LEMMA PlusType == \A a, n \in Int : Plus(a, n) \in Word
  BY WordAssumption, SMT DEF Plus, Word

\* Rounding an address down to a multiple of a size leaves a word.
LEMMA RoundedType == \A a \in Word, n \in Nat \ {0} : a - (a % n) \in Word
  <1> SUFFICES ASSUME NEW a \in Word, NEW n \in Nat \ {0}
               PROVE  a - (a % n) \in Word
    OBVIOUS
  <1>1. a \in Nat /\ a < W
    BY WordAssumption DEF Word
  <1>2. a % n \in 0 .. n - 1 /\ a = n * (a \div n) + (a % n) /\ a \div n \in Int
    BY <1>1, SMT
  <1>3. a \div n >= 0
    BY <1>1, SMT
  <1>4. n * (a \div n) >= 0 /\ n * (a \div n) \in Int
    BY <1>2, <1>3, SMT
  <1> QED
    BY <1>1, <1>2, <1>4, WordAssumption, SMT DEF Word

-----------------------------------------------------------------------------
(* Instructions and registers *)

LEMMA RegNumFacts == {0, LR, SP, XZR} \subseteq RegNum /\ Field \subseteq RegNum
  BY GprAssumption DEF RegNum, Field, LR

LEMMA DecodedType == \A i \in Instr : FixInstrAliases(Itable(i)) \in Instr
  <1> SUFFICES ASSUME NEW i \in Instr PROVE FixInstrAliases(Itable(i)) \in Instr
    OBVIOUS
  <1>1. Itable(i) \in Instr
    BY DEF Itable, Instr, Ops
  <1>2. \A op \in DOMAIN AliasOf : AliasOf[op] \in Ops
    BY DEF AliasOf, Ops, FormatRR, RRSetting
  <1> QED
    BY <1>1, <1>2 DEF FixInstrAliases, Instr

\* fix_regs yields the number of a register, of SP or of the zero register.
LEMMA FixedType == \A n \in Field, b \in BOOLEAN : Fixed(n, b) \in RegNum
  BY RegNumFacts DEF Fixed

LEMMA OperandTypes ==
    \A i \in Instr : Src1(i) \in RegNum /\ Src2(i) \in RegNum /\ Dst(i) \in RegNum
  <1> SUFFICES ASSUME NEW i \in Instr
               PROVE  Src1(i) \in RegNum /\ Src2(i) \in RegNum /\ Dst(i) \in RegNum
    OBVIOUS
  <1>1. i.rd \in Field /\ i.rn \in Field /\ i.rm \in Field
    BY DEF Instr
  <1>2. Src1(i) \in RegNum
    BY <1>1, FixedType, RegNumFacts DEF Src1
  <1>3. Src2(i) \in RegNum
    BY <1>1, FixedType, RegNumFacts DEF Src2
  <1>4. Dst(i) \in RegNum
    BY <1>1, FixedType, RegNumFacts DEF Dst
  <1> QED
    BY <1>2, <1>3, <1>4

LEMMA RegReadType ==
    \A rs \in [Gpr \cup {SP} -> Word], n \in RegNum : RegRead(rs, n) \in Word
  BY WordAssumption, SMT DEF RegRead, RegNum, Word

LEMMA RegWriteType ==
    \A rs \in [Gpr \cup {SP} -> Word], n \in RegNum, v \in Word :
        RegWrite(rs, n, v) \in [Gpr \cup {SP} -> Word]
  BY DEF RegWrite

-----------------------------------------------------------------------------
(* The execute stage *)

LEMMA AluOpType == \A op \in Ops : AluOp(op) \in AluOps
  BY DEF AluOp, AluOps, Selects

LEMMA CondHoldsType == \A c \in Conds, f \in Flags : CondHolds(c, f) \in BOOLEAN
  <1> SUFFICES ASSUME NEW c \in Conds, NEW f \in Flags
               PROVE  CondHolds(c, f) \in BOOLEAN
    OBVIOUS
  <1>1. f.n \in BOOLEAN /\ f.z \in BOOLEAN /\ f.c \in BOOLEAN /\ f.v \in BOOLEAN
    BY DEF Flags
  <1>2. CASE c \in {"EQ", "NE"}
    BY <1>1, <1>2 DEF CondHolds
  <1>3. CASE c \in {"CS", "CC"}
    BY <1>1, <1>3 DEF CondHolds
  <1>4. CASE c \in {"MI", "PL", "VS", "VC"}
    BY <1>1, <1>4 DEF CondHolds
  <1>5. CASE c \in {"HI", "LS", "GE", "LT", "GT", "LE"}
    BY <1>1, <1>5 DEF CondHolds
  <1>6. CASE c \in {"AL", "NV"}
    BY <1>6 DEF CondHolds
  <1> QED
    BY <1>2, <1>3, <1>4, <1>5, <1>6 DEF Conds

LEMMA AluInputs == \A x \in XReg : AluA(x) \in Word /\ AluB(x) \in Word
  BY RoundedType, PageAssumption DEF AluA, AluB, XReg

\* What execute_instr computes from a register feeding it.
LEMMA ExecuteTypes ==
    \A x \in XReg, f \in Flags :
        CondVal(x, f) \in BOOLEAN /\ ValEx(x, f) \in Word /\ FlagsOf(x) \in Flags
  <1> SUFFICES ASSUME NEW x \in XReg, NEW f \in Flags
               PROVE  /\ CondVal(x, f) \in BOOLEAN
                      /\ ValEx(x, f) \in Word
                      /\ FlagsOf(x) \in Flags
    OBVIOUS
  <1>1. x.op \in Ops /\ x.cond \in Conds /\ x.val_imm \in Word
    BY DEF XReg
  <1>2. CondVal(x, f) \in BOOLEAN
    BY <1>1, CondHoldsType DEF CondVal
  <1>3. AluOp(x.op) \in AluOps
    BY <1>1, AluOpType
  <1>4. ValEx(x, f) \in Word
    BY <1>1, <1>2, <1>3, AluInputs, AluAssumption DEF ValEx
  <1>5. FlagsOf(x) \in Flags
    BY <1>3, AluInputs, AluAssumption DEF FlagsOf
  <1> QED
    BY <1>2, <1>4, <1>5

-----------------------------------------------------------------------------
(* Memory and the cache *)

LEMMA MemoryTypes ==
    \A m \in [Word -> Word], out \in Seq(Word), a, v \in Word :
        /\ LoadValue(m, a) \in Word
        /\ Stored(m, a, v) \in [Word -> Word]
        /\ Shown(out, a, v) \in Seq(Word)
  <1> SUFFICES ASSUME NEW m \in [Word -> Word], NEW out \in Seq(Word),
                      NEW a \in Word, NEW v \in Word
               PROVE  /\ LoadValue(m, a) \in Word
                      /\ Stored(m, a, v) \in [Word -> Word]
                      /\ Shown(out, a, v) \in Seq(Word)
    OBVIOUS
  <1>1. 0 \in Word
    BY WordAssumption, SMT DEF Word
  <1>2. LoadValue(m, a) \in Word
    BY <1>1, InputAssumption DEF LoadValue
  <1>3. Stored(m, a, v) \in [Word -> Word]
    BY DEF Stored
  <1>4. Shown(out, a, v) \in Seq(Word)
    BY DEF Shown
  <1> QED
    BY <1>2, <1>3, <1>4

\* One call into the cache leaves a proper state of it: the count never runs
\* below zero nor above the delay.
LEMMA TouchedType ==
    ASSUME dmem \in DmemState, NEW b \in Word, NEW d \in Touched(b)
    PROVE  d \in DmemState
  <1> DEFINE left == (IF dmem.inflight /\ dmem.addr = b THEN dmem.cycles ELSE Delay) - 1
  <1>1. dmem.cycles \in 0 .. Delay /\ dmem.lines \subseteq Word
    BY DEF DmemState
  <1>2. left \in Int /\ left <= Delay /\ 0 \in 0 .. Delay
    BY <1>1, CacheAssumption, SMT
  <1>3. CASE b \in dmem.lines
    BY <1>3 DEF Touched, DmemState
  <1>4. CASE b \notin dmem.lines /\ left > 0
    <2>1. left \in 0 .. Delay
      BY <1>2, <1>4, CacheAssumption, SMT
    <2>2. d = [status |-> "IN_FLIGHT", inflight |-> TRUE, addr |-> b,
               cycles |-> left, lines |-> dmem.lines]
      BY <1>4 DEF Touched
    <2> HIDE DEF left
    <2> QED
      BY <2>1, <2>2 DEF DmemState
  <1>5. CASE b \notin dmem.lines /\ ~(left > 0)
    <2>1. PICK ls \in Filled(dmem.lines, b) :
              d = [status |-> "READY", inflight |-> FALSE, addr |-> b, cycles |-> 0,
                   lines |-> ls]
      BY <1>5 DEF Touched
    <2>2. ls \subseteq Word
      BY <2>1, <1>1 DEF Filled
    <2> QED
      BY <2>1, <2>2, <1>2 DEF DmemState
  <1> QED
    BY <1>3, <1>4, <1>5

LEMMA AccessType ==
    ASSUME dmem \in DmemState, NEW a \in Word, NEW d \in Access(a)
    PROVE  d \in DmemState
  <1>1. Block(a) \in Word
    BY RoundedType, CacheAssumption DEF Block
  <1> QED
    BY <1>1, TouchedType DEF Access

-----------------------------------------------------------------------------
(* The stages and the clock edge *)

LEMMA SelectPCType == TypeOK => SelectPC \in Word
  BY DEF TypeOK, SelectPC, XReg, MReg, FReg

LEMMA FetchedType ==
    ASSUME TypeOK, NEW p \in Word, NEW d, NEW w \in Fetched(p, d)
    PROVE  w \in Instr
  <1>1. AddrInImem(p) => p \in TextLo .. DataLo - 1
    BY WordAssumption, SegmentAssumption, SMT DEF AddrInImem, Word
  <1>2. CASE AddrInImem(p)
    BY <1>1, <1>2 DEF Fetched, TypeOK
  <1>3. CASE ~AddrInImem(p) /\ Waits(p, d)
    <2>1. w = [ZeroInstr EXCEPT !.op = "ERROR"]
      BY <1>3 DEF Fetched
    <2>2. 0 \in Word /\ 0 \in Field
      BY WordAssumption, GprAssumption, SMT DEF Word, Field
    <2> QED
      BY <2>1, <2>2 DEF ZeroInstr, Instr, Ops, Conds
  <1>4. CASE ~AddrInImem(p) /\ ~Waits(p, d)
    BY <1>4, DecodeAssumption DEF Fetched
  <1> QED
    BY <1>2, <1>3, <1>4

LEMMA ZeroTypes ==
    /\ FZero \in FReg /\ DZero \in DReg /\ XZero \in XReg /\ MZero \in MReg
    /\ WZero \in WReg /\ ZeroFlags \in Flags /\ ZeroInstr \in Instr /\ HaltInstr \in Instr
  <1>1. 0 \in Word /\ 0 \in Field /\ 0 \in RegNum
    BY WordAssumption, GprAssumption, SMT DEF Word, Field, RegNum
  <1>2. ZeroInstr \in Instr /\ HaltInstr \in Instr
    BY <1>1 DEF ZeroInstr, HaltInstr, Instr, Ops, Conds
  <1>3. FZero \in FReg /\ DZero \in DReg
    BY <1>1, <1>2 DEF FZero, FReg, DZero, DReg, Status
  <1>4. XZero \in XReg /\ MZero \in MReg /\ WZero \in WReg
    BY <1>1 DEF XZero, XReg, MZero, MReg, WZero, WReg, Status, Ops, Conds
  <1>5. ZeroFlags \in Flags
    BY DEF ZeroFlags, Flags
  <1> QED
    BY <1>2, <1>3, <1>4, <1>5

LEMMA ForwardType ==
    ASSUME TypeOK, NEW src, NEW v \in Word
    PROVE  Forward(src, v) \in Word
  BY DEF TypeOK, Forward, MReg, WReg

\* handle_hazards gives every pipeline register one of the three controls.
LEMMA ControlType ==
    \A r \in {"F", "D", "X", "M", "W"} : HandleHazards[r] \in {"LOAD", "BUBBLE", "STALL"}
  <1>1. \A r \in {"F", "D", "X", "M", "W"} : HazardControl[r] \in {"LOAD", "BUBBLE", "STALL"}
    BY DEF HazardControl, Hazards, OnMiss, OnLoadUse, OnMispredict, Control
  <1>2. \A r \in {"F", "D", "X", "M", "W"} : ErrorControl[r] \in {"LOAD", "BUBBLE", "STALL"}
    BY DEF ErrorControl, Control
  <1> QED
    BY <1>1, <1>2 DEF HandleHazards

LEMMA LatchedType ==
    ASSUME NEW S, NEW in \in S, NEW out \in S, NEW zero \in S,
           NEW ctl \in {"LOAD", "BUBBLE", "STALL"}
    PROVE  Latched(ctl, in, out, zero) \in S
  BY DEF Latched

-----------------------------------------------------------------------------
(* Every action preserves TypeOK *)

LEMMA TurnType == ASSUME TypeOK, NEW s \in Stages, Turn(s)
                  PROVE  ran' \subseteq Stages
  BY DEF TypeOK, Turn

LEMMA InitType == Init => TypeOK
  <1> SUFFICES ASSUME Init PROVE TypeOK
    OBVIOUS
  <1>1. PICK p \in Programs : /\ text = p.text /\ mem = p.mem /\ PC = p.entry
                              /\ F_out = [pred_PC |-> p.entry, status |-> "AOK"]
    BY DEF Init
  <1>2. /\ text \in [TextLo .. DataLo - 1 -> Instr] /\ mem \in [Word -> Word]
        /\ PC \in Word /\ F_out \in FReg
    BY <1>1, ProgramsAssumption DEF FReg, Status
  <1>3. 0 \in Word /\ StackLo - 2 \in Word /\ 0 \in RegNum
    BY WordAssumption, SegmentAssumption, GprAssumption, SMT DEF Word, RegNum
  <1>4. regs \in [Gpr \cup {SP} -> Word]
    BY <1>3 DEF Init
  <1>5. dmem \in DmemState
    BY <1>3, CacheAssumption, SMT DEF Init, NoMiss, DmemState
  <1>6. NZCV \in Flags /\ X_nzcvval \in Flags
    BY ZeroTypes DEF Init, Flags, ZeroFlags
  <1>7. num_instr \in 0 .. CycleMax
    BY CycleAssumption, SMT DEF Init
  <1>8. /\ F_in \in FReg /\ D_in \in DReg /\ D_out \in DReg /\ X_in \in XReg
        /\ X_out \in XReg /\ M_in \in MReg /\ M_out \in MReg /\ W_in \in WReg
        /\ W_out \in WReg
    BY ZeroTypes DEF Init
  <1>9. /\ ran \subseteq Stages /\ status \in Status
        /\ exited \in BOOLEAN /\ X_set_flags \in BOOLEAN /\ deassert_flags \in BOOLEAN
    BY DEF Init, Status
  <1>11. output \in Seq(Word)
    BY DEF Init
  <1>10. /\ F_PC \in Word /\ M_PC \in Word /\ W_wval \in Word
         /\ D_src1 \in RegNum /\ D_src2 \in RegNum
    BY <1>3 DEF Init
  <1> QED
    BY <1>2, <1>4, <1>5, <1>6, <1>7, <1>8, <1>9, <1>10, <1>11 DEF TypeOK

LEMMA FetchType == TypeOK /\ Fetch => TypeOK'
  <1> SUFFICES ASSUME TypeOK, Fetch PROVE TypeOK'
    OBVIOUS
  <1>1. ran' \subseteq Stages
    BY TurnType DEF Fetch, Stages
  <1>2. /\ D_in' \in DReg /\ F_out' \in FReg /\ F_in' \in FReg
        /\ F_PC' \in Word /\ dmem' \in DmemState
    <2>1. CASE FetchHalt
      BY <2>1, ZeroTypes DEF FetchHalt, TypeOK, DReg, FReg, Status
    <2>2. CASE FetchWord
      <3>1. PICK d \in Access(SelectPC) : \E w \in Fetched(SelectPC, d) :
              LET i == FixInstrAliases(Itable(w))
                  s == FetchStatus(SelectPC, i)
              IN /\ D_in' = [ins |-> i, seq_succ |-> Plus(SelectPC, 1), status |-> s]
                 /\ F_PC' = PredictPC(SelectPC, i)
                 /\ F_out' = [F_out EXCEPT !.status = s]
                 /\ F_in' = [F_in EXCEPT !.status = s]
                 /\ dmem' = d
        BY <2>2 DEF FetchWord
      <3>2. PICK w \in Fetched(SelectPC, d) :
              LET i == FixInstrAliases(Itable(w))
                  s == FetchStatus(SelectPC, i)
              IN /\ D_in' = [ins |-> i, seq_succ |-> Plus(SelectPC, 1), status |-> s]
                 /\ F_PC' = PredictPC(SelectPC, i)
                 /\ F_out' = [F_out EXCEPT !.status = s]
                 /\ F_in' = [F_in EXCEPT !.status = s]
                 /\ dmem' = d
        BY <3>1
      <3> DEFINE i == FixInstrAliases(Itable(w))
                 s == FetchStatus(SelectPC, i)
      <3>3. SelectPC \in Word
        BY SelectPCType
      <3>4. w \in Instr
        BY <3>3, FetchedType
      <3>5. i \in Instr
        BY <3>4, DecodedType
      <3>6. s \in Status
        BY DEF FetchStatus, Status, AddrInImem
      <3>7. SelectPC \in Int /\ i.imm \in Int /\ 1 \in Int
        BY <3>3, <3>5, WordAssumption, SMT DEF Word, Instr
      <3>8. Plus(SelectPC, 1) \in Word /\ PredictPC(SelectPC, i) \in Word
        BY <3>7, PlusType DEF PredictPC
      <3>9. d \in DmemState
        BY <3>3, AccessType DEF TypeOK
      <3> HIDE DEF i, s
      <3> QED
        BY <3>2, <3>5, <3>6, <3>8, <3>9 DEF TypeOK, DReg, FReg, i, s
    <2> QED
      BY <2>1, <2>2 DEF Fetch
  <1> QED
    BY <1>1, <1>2 DEF Fetch, TypeOK, proc, memory

LEMMA DecodeType == TypeOK /\ Decode => TypeOK'
  <1> SUFFICES ASSUME TypeOK, Decode PROVE TypeOK'
    OBVIOUS
  <1>1. ran' \subseteq Stages
    BY TurnType DEF Decode, Stages
  <1>2. /\ D_out.ins \in Instr /\ D_out.ins.op \in Ops /\ D_out.ins.imm \in Word
        /\ D_out.ins.cond \in Conds /\ D_out.seq_succ \in Word /\ D_out.status \in Status
    BY DEF TypeOK, DReg, Instr
  <1>3. /\ Choices(Src1(D_out.ins)) \subseteq RegNum /\ Choices(Src2(D_out.ins)) \subseteq RegNum
        /\ Choices(Dst(D_out.ins)) \subseteq RegNum
    BY <1>2, OperandTypes, DecodeAssumption DEF Choices
  <1>4. PICK s1 \in RegNum, s2 \in RegNum, d \in RegNum :
          /\ X_in' = [op |-> D_out.ins.op, status |-> D_out.status,
                      seq_succ |-> D_out.seq_succ,
                      val_a |-> Read(s1), val_b |-> Read(s2),
                      val_imm |-> IF D_out.ins.op = "BLR" THEN D_out.seq_succ
                                  ELSE D_out.ins.imm,
                      cond |-> CondOf(D_out.ins), dst |-> d]
          /\ D_src1' = s1 /\ D_src2' = s2
    BY <1>3 DEF Decode
  <1>5. Read(s1) \in Word /\ Read(s2) \in Word
    <2>1. 0 \in Word
      BY WordAssumption, SMT DEF Word
    <2> QED
      BY <2>1, RegReadType DEF Read, TypeOK
  <1>6. CondOf(D_out.ins) \in Conds
    BY <1>2 DEF CondOf, Conds
  <1>7. X_in' \in XReg
    BY <1>2, <1>4, <1>5, <1>6 DEF XReg
  <1> QED
    BY <1>1, <1>4, <1>7 DEF Decode, TypeOK, proc, memory

LEMMA ExecuteType == TypeOK /\ Execute => TypeOK'
  <1> SUFFICES ASSUME TypeOK, Execute PROVE TypeOK'
    OBVIOUS
  <1>1. ran' \subseteq Stages
    BY TurnType DEF Execute, Stages
  <1>2. X_out \in XReg /\ X_nzcvval \in Flags
    BY DEF TypeOK
  <1>3. /\ CondVal(X_out, X_nzcvval) \in BOOLEAN /\ ValEx(X_out, X_nzcvval) \in Word
        /\ FlagsOf(X_out) \in Flags
    BY <1>2, ExecuteTypes
  <1>4. M_in' \in MReg
    BY <1>2, <1>3 DEF Execute, XReg, MReg
  <1>5. X_set_flags' \in BOOLEAN /\ X_nzcvval' \in Flags
    BY <1>2, <1>3 DEF Execute, SetFlags, NextFlags
  <1> QED
    BY <1>1, <1>4, <1>5 DEF Execute, TypeOK, proc, memory

LEMMA MemoryType == TypeOK /\ Memory => TypeOK'
  <1> SUFFICES ASSUME TypeOK, Memory PROVE TypeOK'
    OBVIOUS
  <1> DEFINE a == M_out.val_ex
             isMem == M_out.op \in FormatM
             s == IF isMem /\ DmemErr(a) THEN "ADR" ELSE M_out.status
  <1>1. ran' \subseteq Stages
    BY TurnType DEF Memory, Stages
  <1>2. /\ a \in Word /\ M_out.val_b \in Word /\ M_out.status \in Status
        /\ M_out.seq_succ \in Word /\ M_out.op \in Ops /\ M_out.dst \in RegNum
    BY DEF TypeOK, MReg
  <1>3. PICK d \in IF isMem THEN Access(a) ELSE {dmem} :
          LET done == isMem /\ ~Waits(a, d)
          IN /\ dmem' = d
             /\ mem' = IF done /\ DmemWrite(M_out.op) THEN Stored(mem, a, M_out.val_b)
                       ELSE mem
             /\ output' = IF done /\ DmemWrite(M_out.op)
                          THEN Shown(output, a, M_out.val_b) ELSE output
             /\ W_in' = [op |-> M_out.op, status |-> s, dst |-> M_out.dst,
                         val_ex |-> M_out.val_ex,
                         val_mem |-> IF ~DmemRead(M_out.op) THEN W_in.val_mem
                                     ELSE IF done THEN LoadValue(mem, a) ELSE 0]
    BY DEF Memory
  <1>4. dmem' \in DmemState
    BY <1>2, <1>3, AccessType DEF TypeOK
  <1>5. /\ LoadValue(mem, a) \in Word /\ Stored(mem, a, M_out.val_b) \in [Word -> Word]
        /\ Shown(output, a, M_out.val_b) \in Seq(Word)
    BY <1>2, MemoryTypes DEF TypeOK
  <1>6. mem' \in [Word -> Word] /\ output' \in Seq(Word)
    BY <1>3, <1>5 DEF TypeOK
  <1>7. s \in Status
    BY <1>2 DEF Status
  <1>8. 0 \in Word /\ W_in.val_mem \in Word
    BY WordAssumption, SMT DEF TypeOK, WReg, Word
  <1>9. W_in' \in WReg
    BY <1>2, <1>3, <1>5, <1>7, <1>8 DEF WReg
  <1>10. M_PC' \in Word
    <2>1. M_out.seq_succ \in Int /\ W - 1 \in Int
      BY <1>2, WordAssumption, SMT DEF Word
    <2> QED
      BY <2>1, PlusType DEF Memory, TypeOK
  <1>11. exited' \in BOOLEAN
    BY DEF Memory
  <1> QED
    BY <1>1, <1>4, <1>6, <1>9, <1>10, <1>11 DEF Memory, TypeOK, proc

LEMMA WritebackType == TypeOK /\ Writeback => TypeOK'
  <1> SUFFICES ASSUME TypeOK, Writeback PROVE TypeOK'
    OBVIOUS
  <1>1. ran' \subseteq Stages
    BY TurnType DEF Writeback, Stages
  <1>2. W_out' \in WReg /\ W_wval' \in Word
    BY RegNumFacts DEF Writeback, TypeOK, WReg
  <1> QED
    BY <1>1, <1>2 DEF Writeback, TypeOK, proc, memory

LEMMA EndCycleType == TypeOK /\ EndCycle => TypeOK'
  <1> SUFFICES ASSUME TypeOK, EndCycle PROVE TypeOK'
    OBVIOUS
  <1>1. num_instr' \in 0 .. CycleMax
    BY CycleAssumption, SMT DEF EndCycle, Running, TypeOK
  <1>2. PC' \in Word
    BY DEF EndCycle, NextPC, TypeOK
  <1>3. F_in' \in FReg
    BY <1>2 DEF EndCycle, TypeOK, FReg
  <1>4. X_in' \in XReg
    <2>1. X_in.val_a \in Word /\ X_in.val_b \in Word
      BY DEF TypeOK, XReg
    <2>2. Forward(D_src1, X_in.val_a) \in Word /\ Forward(D_src2, X_in.val_b) \in Word
      BY <2>1, ForwardType
    <2> QED
      BY <2>2 DEF EndCycle, ForwardedX, TypeOK, XReg
  <1>5. regs' \in [Gpr \cup {SP} -> Word]
    BY RegWriteType DEF EndCycle, TypeOK, WReg
  <1>6. F_out' \in FReg /\ D_out' \in DReg
    BY <1>3, ControlType, LatchedType, ZeroTypes DEF EndCycle, TypeOK
  <1>7. X_out' \in XReg /\ M_out' \in MReg /\ W_out' \in WReg
    BY <1>4, ControlType, LatchedType, ZeroTypes DEF EndCycle, TypeOK
  <1>8. status' \in Status /\ NZCV' \in Flags /\ ran' \subseteq Stages
    BY DEF EndCycle, TypeOK, WReg
  <1>9. deassert_flags' \in BOOLEAN
    BY Zenon DEF EndCycle
  <1> QED
    BY <1>1, <1>2, <1>3, <1>4, <1>5, <1>6, <1>7, <1>8, <1>9 DEF EndCycle, TypeOK, memory

\* Type correctness of the pipeline: no stage, forwarding path, squash or fault
\* ever puts anything into a register that is not of its type, for every size
\* of word, memory layout, program and cache delay.
THEOREM PipelineTyped == Spec => []TypeOK
  <1>1. TypeOK /\ [Next]_vars => TypeOK'
    <2> SUFFICES ASSUME TypeOK, [Next]_vars PROVE TypeOK'
      OBVIOUS
    <2>1. CASE Fetch
      BY <2>1, FetchType
    <2>2. CASE Decode
      BY <2>2, DecodeType
    <2>3. CASE Execute
      BY <2>3, ExecuteType
    <2>4. CASE Memory
      BY <2>4, MemoryType
    <2>5. CASE Writeback
      BY <2>5, WritebackType
    <2>6. CASE EndCycle
      BY <2>6, EndCycleType
    <2>7. CASE UNCHANGED vars
      BY <2>7 DEF vars, proc, memory, pipes, wires, TypeOK
    <2> QED
      BY <2>1, <2>2, <2>3, <2>4, <2>5, <2>6, <2>7 DEF Next
  <1> QED
    BY InitType, <1>1, PTL DEF Spec

-----------------------------------------------------------------------------
(* The pipe and the miss *)

\* An instruction in Memory whose access is, or already was, an error.
Faulty(m) == Error(m.status) \/ (m.op \in FormatM /\ DmemErr(m.val_ex))

\* What a stage that has run in this cycle has handed on.
Handed ==
    /\ "F" \in ran => /\ D_in.status # "BUB"
                      /\ D_in.status = "HLT" => D_in.ins.op = "HLT"
    /\ "D" \in ran => X_in.op = D_out.ins.op /\ X_in.status = D_out.status
    /\ "X" \in ran => M_in.op = X_out.op /\ M_in.status = X_out.status
    /\ "M" \in ran => /\ W_in.op = M_out.op
                      /\ W_in.status = IF M_out.op \in FormatM /\ DmemErr(M_out.val_ex)
                                       THEN "ADR" ELSE M_out.status

\* What a bubble and a halt look like.
Plain(s, op) == (s = "BUB" => op = "NOP") /\ (s = "HLT" => op = "HLT")
Empty == /\ Plain(D_out.status, D_out.ins.op)
         /\ Plain(X_out.status, X_out.op)
         /\ Plain(M_out.status, M_out.op)

\* While an error sits in Writeback the instruction it belongs to is still in
\* Memory, as the edge that took it to Writeback froze Memory.
Frozen == Error(W_out.status) => Faulty(M_out)

\* The access that waits: a miss that is being counted for the instruction in
\* Memory.
Waiting == /\ M_out.op \in FormatM /\ ThroughCache(M_out.val_ex)
           /\ dmem.inflight /\ dmem.addr = Block(M_out.val_ex)
           /\ dmem.addr \notin dmem.lines
Counting == /\ dmem.inflight => dmem.cycles \in 1 .. Delay - 1
            /\ dmem.status = "IN_FLIGHT" => Waiting \/ Faulty(M_out)

\* What a call into the cache does to the miss, for the block it is about: the
\* count goes on, or the miss is over.
Left(b) == (IF dmem.inflight /\ dmem.addr = b THEN dmem.cycles ELSE Delay) - 1

CycleInv == Handed /\ Empty /\ Frozen /\ Counting

LEMMA InitCycle == Init => CycleInv
<1> SUFFICES ASSUME Init PROVE CycleInv
  OBVIOUS
<1>1. Handed /\ Counting
  BY DEF Init, NoMiss, Handed, Counting
<1>2. Empty /\ Frozen
  BY DEF Init, Empty, Plain, Frozen, Error, DZero, XZero, MZero, WZero, ZeroInstr
<1> QED
  BY <1>1, <1>2 DEF CycleInv

\* A stage runs once in a cycle.
LEMMA TurnOnce ==
    ASSUME NEW s, Turn(s)
    PROVE  Running /\ s \notin ran /\ ran' = ran \cup {s}
<1>1. PICK o \in IF AnyOrder THEN Orderings ELSE {ProgramOrder}, i \in 1 .. 5 :
         ran = Before(o, i) /\ s = o[i]
  BY DEF Turn, Calls
<1>2. \A j \in 1 .. i - 1 : o[j] # o[i]
  <2>1. CASE o = ProgramOrder
    BY <2>1, SMT DEF ProgramOrder
  <2>2. CASE o \in Orderings
    <3>1. \A j \in 1 .. i - 1 : j \in 1 .. 5 /\ j # i
      BY SMT
    <3> QED
      BY <2>2, <3>1 DEF Orderings
  <2> QED
    BY <1>1, <2>1, <2>2
<1>3. s \notin ran
  BY <1>1, <1>2 DEF Before
<1> QED
  BY <1>3 DEF Turn

\* What a stage leaves alone.
LEMMA StageFrame ==
    ASSUME TypeOK, Fetch \/ Decode \/ Execute \/ Memory \/ Writeback
    PROVE  /\ Running /\ ran # Stages /\ ran' # {}
           /\ UNCHANGED <<num_instr, status, D_out, X_out, M_out>>
           /\ W_out'.op = W_out.op /\ W_out'.status = W_out.status
           /\ Memory \/ exited' = exited
           /\ Memory \/ Fetch \/ dmem' = dmem
<1>1. Running /\ ran # Stages /\ ran' # {}
  BY TurnOnce DEF Fetch, Decode, Execute, Memory, Writeback, Stages
<1>2. UNCHANGED <<num_instr, status, D_out, X_out, M_out>>
  BY DEF Fetch, Decode, Execute, Memory, Writeback, proc
<1>3. W_out'.op = W_out.op /\ W_out'.status = W_out.status
  BY DEF Fetch, Decode, Execute, Memory, Writeback, TypeOK, WReg
<1>4. (Memory \/ exited' = exited) /\ (Memory \/ Fetch \/ dmem' = dmem)
  BY DEF Fetch, Decode, Execute, Memory, Writeback, memory
<1> QED
  BY <1>1, <1>2, <1>3, <1>4

\* The register numbers and the operands play no part in this.
LEMMA FrameCycle ==
    ASSUME CycleInv, UNCHANGED <<D_out, X_out, M_out, dmem>>, W_out'.status = W_out.status,
           Handed'
    PROVE  CycleInv'
BY DEF CycleInv, Empty, Plain, Frozen, Faulty, Counting, Waiting

LEMMA FetchHands ==
    ASSUME TypeOK, FetchesText, Fetch
    PROVE  /\ dmem' = dmem /\ D_in'.status # "BUB"
           /\ D_in'.status = "HLT" => D_in'.ins.op = "HLT"
<1>1. CASE FetchHalt
  BY <1>1 DEF FetchHalt, TypeOK, DReg, HaltInstr, ZeroInstr
<1>2. CASE FetchWord
  <2>1. Access(SelectPC) = {dmem}
    <3>1. "F" \notin ran
      BY TurnOnce DEF Fetch
    <3> QED
      BY <1>2, <3>1 DEF FetchesText, FetchWord, Access
  <2>2. PICK w \in Fetched(SelectPC, dmem) :
           /\ D_in' = [ins |-> FixInstrAliases(Itable(w)), seq_succ |-> Plus(SelectPC, 1),
                       status |-> FetchStatus(SelectPC, FixInstrAliases(Itable(w)))]
           /\ dmem' = dmem
    BY <1>2, <2>1 DEF FetchWord
  <2>3. /\ FetchStatus(SelectPC, FixInstrAliases(Itable(w))) # "BUB"
        /\ FetchStatus(SelectPC, FixInstrAliases(Itable(w))) = "HLT" =>
              FixInstrAliases(Itable(w)).op = "HLT"
    BY DEF FetchStatus
  <2> QED
    BY <2>2, <2>3
<1> QED
  BY <1>1, <1>2 DEF Fetch

LEMMA FetchCycle == ASSUME TypeOK, FetchesText, CycleInv, Fetch PROVE CycleInv'
<1>1. ran' = ran \cup {"F"} /\ UNCHANGED <<D_out, X_in, X_out, M_in, M_out, W_in, W_out>>
  BY DEF Fetch, Turn
<1>2. Handed'
  BY <1>1, FetchHands DEF CycleInv, Handed
<1> QED
  BY <1>1, <1>2, FetchHands, FrameCycle

LEMMA DecodeCycle == ASSUME CycleInv, Decode PROVE CycleInv'
<1>1. /\ ran' = ran \cup {"D"}
      /\ UNCHANGED <<D_in, D_out, X_out, M_in, M_out, W_in, W_out, dmem>>
  BY DEF Decode, Turn
<1>2. X_in'.op = D_out.ins.op /\ X_in'.status = D_out.status
  BY DEF Decode
<1>3. Handed'
  BY <1>1, <1>2 DEF CycleInv, Handed
<1> QED
  BY <1>1, <1>3, FrameCycle

LEMMA ExecuteCycle == ASSUME CycleInv, Execute PROVE CycleInv'
<1>1. /\ ran' = ran \cup {"X"}
      /\ UNCHANGED <<D_in, D_out, X_in, X_out, M_out, W_in, W_out, dmem>>
  BY DEF Execute, Turn
<1>2. M_in'.op = X_out.op /\ M_in'.status = X_out.status
  BY DEF Execute
<1>3. Handed'
  BY <1>1, <1>2 DEF CycleInv, Handed
<1> QED
  BY <1>1, <1>3, FrameCycle

LEMMA WritebackCycle == ASSUME TypeOK, CycleInv, Writeback PROVE CycleInv'
<1>1. /\ ran' = ran \cup {"W"} /\ W_out'.status = W_out.status
      /\ UNCHANGED <<D_in, D_out, X_in, X_out, M_in, M_out, W_in, dmem>>
  BY DEF Writeback, Turn, TypeOK, WReg
<1>2. Handed'
  BY <1>1 DEF CycleInv, Handed
<1> QED
  BY <1>1, <1>2, FrameCycle

LEMMA TouchedCounts ==
    ASSUME dmem \in DmemState, dmem.inflight => dmem.cycles \in 1 .. Delay - 1,
           NEW b \in Word, NEW d \in Touched(b)
    PROVE  /\ d.inflight => d.cycles \in 1 .. Delay - 1
           /\ d.status = "IN_FLIGHT" =>
                 /\ d.inflight /\ d.addr = b /\ d.addr \notin d.lines
                 /\ b \notin dmem.lines /\ d.cycles = Left(b)
           /\ b \notin dmem.lines => d.status = "IN_FLIGHT" \/ Left(b) = 0
           /\ Left(b) \in 0 .. Delay - 1
<1>1. Left(b) \in 0 .. Delay - 1
  BY CacheAssumption DEF Left
<1>2. CASE b \in dmem.lines
  <2>1. d.status = "READY" /\ d.inflight = dmem.inflight /\ d.cycles = dmem.cycles
    BY <1>2 DEF Touched, DmemState
  <2> QED
    BY <1>1, <1>2, <2>1
<1>3. CASE b \notin dmem.lines /\ Left(b) > 0
  <2>1. d = [status |-> "IN_FLIGHT", inflight |-> TRUE, addr |-> b,
             cycles |-> Left(b), lines |-> dmem.lines]
    BY <1>3 DEF Touched, Left
  <2>2. /\ d.status = "IN_FLIGHT" /\ d.inflight /\ d.addr = b /\ d.cycles = Left(b)
        /\ d.lines = dmem.lines
    BY <2>1 DEF DmemState
  <2>3. Left(b) \in 1 .. Delay - 1
    BY <1>1, <1>3
  <2> QED
    BY <1>1, <1>3, <2>2, <2>3
<1>4. CASE b \notin dmem.lines /\ ~(Left(b) > 0)
  <2>1. d.status = "READY" /\ d.inflight = FALSE
    BY <1>4 DEF Touched, Left
  <2>2. Left(b) = 0
    BY <1>1, <1>4
  <2> QED
    BY <1>1, <2>1, <2>2
<1> QED
  BY <1>2, <1>3, <1>4

LEMMA MemoryCycle == ASSUME TypeOK, CycleInv, Memory PROVE CycleInv'
<1> DEFINE a == M_out.val_ex
<1>1. /\ ran' = ran \cup {"M"}
      /\ UNCHANGED <<D_in, D_out, X_in, X_out, M_in, M_out, W_out>>
  BY DEF Memory, Turn
<1>2. /\ W_in'.op = M_out.op
      /\ W_in'.status = IF M_out.op \in FormatM /\ DmemErr(a) THEN "ADR" ELSE M_out.status
  BY DEF Memory
<1>3. Handed'
  BY <1>1, <1>2 DEF CycleInv, Handed
<1>4. Empty' /\ Frozen'
  BY <1>1 DEF CycleInv, Empty, Plain, Frozen, Faulty
<1>5. dmem' \in IF M_out.op \in FormatM THEN Access(a) ELSE {dmem}
  BY DEF Memory
<1>6. Counting'
  <2>1. CASE M_out.op \in FormatM /\ ThroughCache(a)
    <3>1. Block(a) \in Word /\ dmem \in DmemState
      BY RoundedType, CacheAssumption DEF Block, TypeOK, MReg
    <3>2. dmem' \in Touched(Block(a))
      BY <1>5, <2>1 DEF Access
    <3> QED
      BY <1>1, <2>1, <3>1, <3>2, TouchedCounts DEF CycleInv, Counting, Waiting, Faulty
  <2>2. CASE ~(M_out.op \in FormatM /\ ThroughCache(a))
    <3>1. dmem' = dmem
      BY <1>5, <2>2 DEF Access
    <3> QED
      BY <1>1, <3>1 DEF CycleInv, Counting, Waiting, Faulty
  <2> QED
    BY <2>1, <2>2
<1> QED
  BY <1>3, <1>4, <1>6 DEF CycleInv


-----------------------------------------------------------------------------
(* The clock edge *)

\* What the registers hold after it, as far as statuses and opcodes go.
Moves(ctl) ==
    /\ D_out' = Latched(ctl.D, D_in, D_out, DZero)
    /\ X_out' = Latched(ctl.X, ForwardedX, X_out, XZero)
    /\ M_out' = Latched(ctl.M, M_in, M_out, MZero)
    /\ W_out' = Latched(ctl.W, W_in, W_out, WZero)

LEMMA EdgeMoves ==
    ASSUME EndCycle
    PROVE  /\ Moves(HandleHazards) /\ ran = Stages /\ ran' = {}
           /\ num_instr' = num_instr + 1 /\ status' = W_out.status
           /\ UNCHANGED <<exited, dmem, D_in>> /\ X_in' = ForwardedX
BY DEF EndCycle, Moves, memory

\* At the edge every stage has handed on its instruction; forwarding changes
\* neither an opcode nor a status.
LEMMA AllHanded ==
    ASSUME TypeOK, CycleInv, ran = Stages
    PROVE  /\ D_in.status # "BUB" /\ Plain(D_in.status, D_in.ins.op)
           /\ X_in.op = D_out.ins.op /\ X_in.status = D_out.status
           /\ ForwardedX.op = D_out.ins.op /\ ForwardedX.status = D_out.status
           /\ M_in.op = X_out.op /\ M_in.status = X_out.status
           /\ W_in.op = M_out.op
           /\ M_out.op \notin FormatM => W_in.status = M_out.status
           /\ M_out.status = "BUB" => W_in.status = "BUB"
           /\ Faulty(M_out) => Error(W_in.status)
           /\ ~Faulty(M_out) => W_in.status = M_out.status /\ ~Error(W_in.status)
<1>1. {"F", "D", "X", "M"} \subseteq ran
  BY DEF Stages
<1>2. ForwardedX.op = X_in.op /\ ForwardedX.status = X_in.status
  BY DEF ForwardedX, TypeOK, XReg
<1>3. M_out.status = "BUB" => M_out.op \notin FormatM
  BY DEF CycleInv, Empty, Plain, FormatM
<1>4. W_in.status = IF M_out.op \in FormatM /\ DmemErr(M_out.val_ex)
                    THEN "ADR" ELSE M_out.status
  BY <1>1 DEF CycleInv, Handed
<1>5. /\ Faulty(M_out) => Error(W_in.status)
      /\ ~Faulty(M_out) => W_in.status = M_out.status /\ ~Error(W_in.status)
  BY <1>4 DEF Faulty, Error
<1> QED
  BY <1>1, <1>2, <1>3, <1>4, <1>5 DEF CycleInv, Handed, Plain

\* What the edge does, the oldest cause first: the error in Writeback, in
\* Memory or in Execute, the miss of the instruction in Memory, and the hazards
\* in the order of the chain.
Quiet == ~Error(W_out.status) /\ ~Faulty(M_out) /\ ~Error(X_out.status)
LEMMA Decisions ==
    ASSUME TypeOK, CycleInv, ran = Stages
    PROVE  \/ Error(W_out.status)
              /\ HandleHazards = Control("STALL", "STALL", "STALL", "STALL", "STALL")
           \/ ~Error(W_out.status) /\ Faulty(M_out)
              /\ HandleHazards = Control("STALL", "STALL", "STALL", "STALL", "LOAD")
           \/ ~Error(W_out.status) /\ ~Faulty(M_out) /\ Error(X_out.status)
              /\ HandleHazards = Control("STALL", "STALL", "STALL", "LOAD", "LOAD")
           \/ Quiet /\ dmem.status = "IN_FLIGHT" /\ Waiting /\ HandleHazards = OnMiss
           \/ Quiet /\ dmem.status = "READY"
              /\ \/ CheckLoadUse /\ HandleHazards = OnLoadUse
                 \/ (CheckMispredBranch \/ CheckCB) /\ HandleHazards = OnMispredict
                 \/ ~CheckLoadUse /\ ~CheckMispredBranch /\
                    \/ CheckRet /\ HandleHazards = Control("LOAD", "BUBBLE", "LOAD", "LOAD", "LOAD")
                    \/ ~CheckCB /\ CheckBR
                       /\ HandleHazards = Control("STALL", "BUBBLE", "LOAD", "LOAD", "LOAD")
                    \/ ~CheckCB /\ ~CheckRet /\ ~CheckBR
                       /\ HandleHazards = Control("LOAD", "LOAD", "LOAD", "LOAD", "LOAD")
<1>1. (Error(W_in.status) <=> Faulty(M_out)) /\ M_in.status = X_out.status
  BY AllHanded
<1>2. dmem.status = "READY" \/ dmem.status = "IN_FLIGHT"
  BY DEF TypeOK, DmemState
<1>3. CASE AnyError
  BY <1>1, <1>3, Zenon DEF HandleHazards, ErrorControl, AnyError
<1>4. CASE ~AnyError
  <2>1. Quiet
    BY <1>1, <1>4 DEF AnyError, Quiet
  <2>2. dmem.status = "IN_FLIGHT" => Waiting
    BY <2>1 DEF CycleInv, Counting, Quiet
  <2> QED
    BY <1>2, <1>4, <2>1, <2>2, Zenon DEF HandleHazards, HazardControl, Hazards
<1> QED
  BY <1>3, <1>4

LEMMA EdgeCycle == ASSUME TypeOK, CycleInv, EndCycle PROVE CycleInv'
<1>1. Handed'
  BY EdgeMoves DEF Handed
<1>2. Empty'
  <2>1. /\ D_out' \in {D_in, D_out, DZero} /\ X_out' \in {ForwardedX, X_out, XZero}
        /\ M_out' \in {M_in, M_out, MZero}
    BY ControlType, EdgeMoves DEF Moves, Latched
  <2>2. /\ Plain(D_in.status, D_in.ins.op) /\ Plain(DZero.status, DZero.ins.op)
        /\ Plain(ForwardedX.status, ForwardedX.op) /\ Plain(XZero.status, XZero.op)
        /\ Plain(M_in.status, M_in.op) /\ Plain(MZero.status, MZero.op)
    BY AllHanded, EdgeMoves DEF CycleInv, Empty, Plain, DZero, XZero, MZero, ZeroInstr
  <2> QED
    BY <2>1, <2>2 DEF CycleInv, Empty, Plain
<1>3. Frozen'
  <2>1. Error(W_out'.status) => M_out' = M_out /\ Faulty(M_out)
    BY AllHanded, EdgeMoves, Decisions
    DEF CycleInv, Frozen, Moves, Latched, Control, OnMiss, OnLoadUse, OnMispredict, WZero,
        Error, Quiet
  <2> QED
    BY <2>1 DEF Frozen, Faulty, Error
<1>4. Counting'
  <2>1. dmem.status = "IN_FLIGHT" =>
          \/ M_out' = M_out
          \/ Error(M_out'.status)
    BY AllHanded, EdgeMoves, Decisions
    DEF Moves, Latched, Control, OnMiss, TypeOK, DmemState, Error
  <2>2. dmem' = dmem
    BY EdgeMoves
  <2> QED
    BY <2>1, <2>2 DEF CycleInv, Counting, Waiting, Faulty, Error
<1> QED
  BY <1>1, <1>2, <1>3, <1>4 DEF CycleInv

LEMMA NextCycle == FetchesText /\ TypeOK /\ CycleInv /\ [Next]_vars => CycleInv'
<1> SUFFICES ASSUME FetchesText, TypeOK, CycleInv, [Next]_vars PROVE CycleInv'
  OBVIOUS
<1>1. CASE UNCHANGED vars
  BY <1>1 DEF vars, pipes, CycleInv, Handed, Empty, Plain, Frozen, Faulty, Counting, Waiting
<1>2. CASE Next
  BY <1>2, FetchCycle, DecodeCycle, ExecuteCycle, MemoryCycle, WritebackCycle, EdgeCycle
  DEF Next
<1> QED
  BY <1>1, <1>2

-----------------------------------------------------------------------------
(* Bubbles *)

\* The pipe fills during the first two cycles.
Filling ==
    num_instr \in {0, 1} =>
        /\ D_out.status = "BUB" <=> num_instr = 0
        /\ X_out.status = "BUB" /\ M_out.status = "BUB" /\ W_out.status = "BUB"

BInv == Filling /\ BubblesHaveCause

LEMMA InitBubbles == Init => BInv
BY SMT DEF Init, BInv, Filling, BubblesHaveCause, DZero, XZero, MZero, WZero, ZeroInstr

LEMMA StageBubbles ==
    ASSUME TypeOK, BInv, Fetch \/ Decode \/ Execute \/ Memory \/ Writeback
    PROVE  BInv'
BY StageFrame DEF BInv, Filling, BubblesHaveCause, Fallen

\* What the edge must establish of the registers behind it.
Explained ==
    /\ BubblesHaveCause'
    /\ num_instr' = 1 => /\ D_out'.status # "BUB"
                         /\ {X_out'.status, M_out'.status, W_out'.status} = {"BUB"}

\* Neither an error nor a miss is that of a bubble, so they can only stop a pipe
\* that is full; the registers they freeze keep their causes.
LEMMA FrozenEdge ==
    ASSUME TypeOK, CycleInv, BInv, EndCycle, D_out' = D_out, X_out' = X_out,
           \/ Error(W_out.status) /\ M_out' = M_out /\ W_out' = W_out
           \/ Faulty(M_out) /\ M_out' = M_out
           \/ Error(X_out.status) /\ M_out' = M_in
           \/ Waiting /\ M_out' = M_out
    PROVE  Explained
<1>1. M_in.op = X_out.op /\ M_in.status = X_out.status
  BY AllHanded, EdgeMoves
<1>2. (Faulty(M_out) \/ Waiting) => M_out.status # "BUB"
  BY DEF Faulty, Error, Waiting, CycleInv, Empty, Plain, FormatM
<1>3. num_instr \in Nat /\ num_instr' = num_instr + 1
  BY EdgeMoves DEF TypeOK
<1>4. num_instr \notin {0, 1}
  BY <1>2 DEF BInv, Filling, Error
<1>5. num_instr > 1 /\ num_instr' > 1 /\ num_instr' # 1
  BY <1>3, <1>4
<1>6. CASE Error(W_out.status) /\ M_out' = M_out /\ W_out' = W_out
  BY <1>5, <1>6 DEF Explained, BInv, BubblesHaveCause, Fallen
<1>7. CASE (Faulty(M_out) \/ Waiting) /\ M_out' = M_out
  BY <1>2, <1>5, <1>7 DEF Explained, BInv, BubblesHaveCause, Fallen
<1>8. CASE Error(X_out.status) /\ M_out' = M_in
  BY <1>1, <1>5, <1>8 DEF Explained, BInv, BubblesHaveCause, Fallen, Error
<1> QED
  BY <1>6, <1>7, <1>8

LEMMA LoadUseEdge ==
    ASSUME TypeOK, CycleInv, BInv, EndCycle, CheckLoadUse,
           D_out' = D_out, X_out' = XZero, M_out' = M_in
    PROVE  Explained
<1>1. D_out.status # "BUB" /\ X_out.status # "BUB"
  BY DEF CheckLoadUse, CycleInv, Empty, Plain
<1>2. M_in.op = "LDUR" /\ M_in.status # "BUB"
  BY <1>1, AllHanded, EdgeMoves DEF CheckLoadUse
<1>3. num_instr' # 1
  BY <1>1, EdgeMoves DEF BInv, Filling, TypeOK
<1> QED
  BY <1>1, <1>2, <1>3 DEF Explained, BubblesHaveCause, Fallen, DmemRead

LEMMA MispredictEdge ==
    ASSUME TypeOK, CycleInv, BInv, EndCycle, CheckMispredBranch \/ CheckCB,
           D_out' = DZero, X_out' = XZero, M_out' = M_in
    PROVE  Explained
<1>1. X_out.status # "BUB"
  BY DEF CheckMispredBranch, CheckCB, CycleInv, Empty, Plain
<1>2. Fallen(M_in)
  BY AllHanded, EdgeMoves DEF CheckMispredBranch, CheckCB, Fallen, CondBranches
<1>3. num_instr' # 1
  BY <1>1, EdgeMoves DEF BInv, Filling, TypeOK
<1>4. DZero.status = "BUB" /\ XZero.status = "BUB"
  BY DEF DZero, XZero
<1>5. Fallen(M_out)'
  BY <1>2 DEF Fallen
<1> QED
  BY <1>3, <1>4, <1>5 DEF Explained, BubblesHaveCause

LEMMA ReturnEdge ==
    ASSUME TypeOK, CycleInv, BInv, EndCycle, CheckRet \/ CheckBR,
           D_out' = DZero, X_out' = ForwardedX, M_out' = M_in
    PROVE  Explained
<1>1. D_out.ins.op \in Returns /\ D_out.status # "BUB"
  BY DEF CheckRet, CheckBR, Returns, CycleInv, Empty, Plain
<1>2. X_out'.op \in Returns /\ X_out'.status # "BUB"
  BY <1>1, AllHanded, EdgeMoves
<1>3. num_instr' # 1
  BY <1>1, EdgeMoves DEF BInv, Filling, TypeOK
<1> QED
  BY <1>2, <1>3 DEF Explained, BubblesHaveCause

LEMMA LoadEdge ==
    ASSUME TypeOK, CycleInv, BInv, EndCycle,
           D_out' = D_in, X_out' = ForwardedX, M_out' = M_in, W_out' = W_in
    PROVE  Explained
<1>1. /\ D_out'.status # "BUB"
      /\ X_out'.op = D_out.ins.op /\ X_out'.status = D_out.status
      /\ M_out'.op = X_out.op /\ M_out'.status = X_out.status
      /\ W_out'.op = M_out.op
      /\ M_out.status = "BUB" => W_out'.status = "BUB"
  BY AllHanded, EdgeMoves
<1>2. num_instr \in Nat /\ num_instr' = num_instr + 1
  BY EdgeMoves DEF TypeOK
<1>3. CASE num_instr \in {0, 1}
  BY <1>1, <1>2, <1>3 DEF Explained, BInv, Filling, BubblesHaveCause
<1>4. CASE num_instr \notin {0, 1}
  <2>1. num_instr > 1
    BY <1>2, <1>4
  <2>2. D_out.status = "BUB" =>
           X_out.op \in Returns \/ (X_out.status = "BUB" /\ M_out.op \in CondBranches)
    BY <2>1 DEF BInv, BubblesHaveCause, Fallen
  <2>3. X_out'.status = "BUB" =>
           M_out'.op \in Returns \/ (M_out'.status = "BUB" /\ W_out'.op \in CondBranches)
    BY <1>1, <2>2
  <2>4. BubblesHaveCause'
    BY <1>1, <2>3 DEF BubblesHaveCause
  <2>5. num_instr' # 1
    BY <1>2, <1>4
  <2> QED
    BY <2>4, <2>5 DEF Explained
<1> QED
  BY <1>3, <1>4

LEMMA EdgeBubbles == ASSUME TypeOK, CycleInv, BInv, EndCycle PROVE BInv'
<1>1. Explained
  <2>1. Moves(HandleHazards) /\ ran = Stages
    BY EdgeMoves
  <2>2. CASE Error(W_out.status)
             /\ HandleHazards = Control("STALL", "STALL", "STALL", "STALL", "STALL")
    BY <2>1, <2>2, FrozenEdge DEF Moves, Latched, Control
  <2>3. CASE Faulty(M_out)
             /\ HandleHazards = Control("STALL", "STALL", "STALL", "STALL", "LOAD")
    BY <2>1, <2>3, FrozenEdge DEF Moves, Latched, Control
  <2>4. CASE Error(X_out.status)
             /\ HandleHazards = Control("STALL", "STALL", "STALL", "LOAD", "LOAD")
    BY <2>1, <2>4, FrozenEdge DEF Moves, Latched, Control
  <2>5. CASE Waiting /\ HandleHazards = OnMiss
    BY <2>1, <2>5, FrozenEdge DEF Moves, Latched, OnMiss, Control
  <2>6. CASE CheckLoadUse /\ HandleHazards = OnLoadUse
    BY <2>1, <2>6, LoadUseEdge DEF Moves, Latched, OnLoadUse, Control
  <2>7. CASE (CheckMispredBranch \/ CheckCB) /\ HandleHazards = OnMispredict
    BY <2>1, <2>7, MispredictEdge DEF Moves, Latched, OnMispredict, Control
  <2>8. CASE CheckRet /\ HandleHazards = Control("LOAD", "BUBBLE", "LOAD", "LOAD", "LOAD")
    BY <2>1, <2>8, ReturnEdge DEF Moves, Latched, Control
  <2>9. CASE CheckBR /\ HandleHazards = Control("STALL", "BUBBLE", "LOAD", "LOAD", "LOAD")
    BY <2>1, <2>9, ReturnEdge DEF Moves, Latched, Control
  <2>10. CASE HandleHazards = Control("LOAD", "LOAD", "LOAD", "LOAD", "LOAD")
    BY <2>1, <2>10, LoadEdge DEF Moves, Latched, Control
  <2> QED
    BY <2>1, <2>2, <2>3, <2>4, <2>5, <2>6, <2>7, <2>8, <2>9, <2>10, Decisions
<1>2. num_instr' # 0
  BY EdgeMoves DEF TypeOK
<1> QED
  BY <1>1, <1>2 DEF BInv, Explained, Filling

\* Whatever the program does, with a cache and without, while nothing is fetched
\* from the data segments: a bubble in Decode or in Execute is there because of a
\* return, a branch that fell through or a load whose value is awaited, so no
\* other instruction costs more than a cycle and what its access waits
\* (hazard_control.c:52-146).
THEOREM NoCycleLost == Spec /\ []FetchesText => []BubblesHaveCause
<1>1. BInv => BubblesHaveCause
  BY DEF BInv
<1>2. TypeOK /\ CycleInv /\ BInv /\ [Next]_vars => BInv'
  <2> SUFFICES ASSUME TypeOK, CycleInv, BInv, [Next]_vars PROVE BInv'
    OBVIOUS
  <2>1. CASE UNCHANGED vars
    BY <2>1 DEF vars, pipes, BInv, Filling, BubblesHaveCause, Fallen
  <2> QED
    BY <2>1, StageBubbles, EdgeBubbles DEF Next
<1> QED
  BY <1>1, <1>2, InitBubbles, InitCycle, NextCycle, PipelineTyped, PTL DEF Spec

-----------------------------------------------------------------------------
(* Squashing *)

Compares == {"CBZ", "CBNZ"}
NoCompares == /\ D_in.ins.op \notin Compares /\ D_out.ins.op \notin Compares
              /\ X_in.op \notin Compares /\ X_out.op \notin Compares

LEMMA InitSquash == Init => NoCompares
BY DEF Init, NoCompares, Compares, DZero, XZero, ZeroInstr

\* The stages: what Fetch decodes is no instruction of the other build.
LEMMA StageSquash ==
    ASSUME TypeOK, NoCompares, ~EC, Fetch \/ Decode \/ Execute \/ Memory \/ Writeback
    PROVE  NoCompares'
<1>1. D_in'.ins.op \notin Compares
  <2>1. CASE Fetch /\ FetchHalt
    <3>1. D_in'.ins = HaltInstr
      BY <2>1 DEF FetchHalt, TypeOK, DReg
    <3> QED
      BY <3>1 DEF HaltInstr, ZeroInstr, Compares
  <2>2. CASE Fetch /\ FetchWord
    <3>1. PICK w \in Instr : D_in'.ins = FixInstrAliases(Itable(w))
      <4>1. PICK d \in Access(SelectPC) : \E w \in Fetched(SelectPC, d) :
               D_in' = [ins |-> FixInstrAliases(Itable(w)), seq_succ |-> Plus(SelectPC, 1),
                        status |-> FetchStatus(SelectPC, FixInstrAliases(Itable(w)))]
        BY <2>2 DEF FetchWord
      <4>2. \A w \in Fetched(SelectPC, d) : w \in Instr
        BY SelectPCType, FetchedType
      <4> QED
        BY <4>1, <4>2
    <3>2. Itable(w) \in Instr /\ Itable(w).op \notin Compares
      BY DEF Itable, Instr, Ops, FormatEC, Compares
    <3>3. FixInstrAliases(Itable(w)).op \notin Compares
      BY <3>2 DEF FixInstrAliases, AliasOf, Instr, Compares
    <3> QED
      BY <3>1, <3>3
  <2>3. CASE Decode \/ Execute \/ Memory \/ Writeback
    BY <2>3 DEF Decode, Execute, Memory, Writeback, NoCompares
  <2> QED
    BY <2>1, <2>2, <2>3 DEF Fetch
<1>2. X_in'.op \notin Compares
  BY DEF Fetch, Decode, Execute, Memory, Writeback, NoCompares
<1>3. D_out' = D_out /\ X_out' = X_out
  BY DEF Fetch, Decode, Execute, Memory, Writeback
<1> QED
  BY <1>1, <1>2, <1>3 DEF NoCompares

LEMMA EdgeSquash == ASSUME TypeOK, CycleInv, NoCompares, EndCycle PROVE NoCompares'
<1>1. D_in' = D_in /\ X_in' = ForwardedX /\ D_out' \in {D_in, D_out, DZero}
      /\ X_out' \in {ForwardedX, X_out, XZero}
  BY ControlType, EdgeMoves DEF Moves, Latched
<1>2. ForwardedX.op \notin Compares
  BY AllHanded, EdgeMoves DEF NoCompares
<1>3. DZero.ins.op \notin Compares /\ XZero.op \notin Compares
  BY DEF DZero, XZero, ZeroInstr, Compares
<1> QED
  BY <1>1, <1>2, <1>3 DEF NoCompares

\* A branch in Execute that falls through and moves on leaves a bubble there:
\* what stops the edge from squashing also keeps the branch where it is.
LEMMA BranchSquashes ==
    ASSUME TypeOK, CycleInv, NoCompares, EndCycle, X_out.status = "AOK", Fallen(M_in),
           M_out' = M_in
    PROVE  X_out'.status = "BUB"
<1>1. ran = Stages /\ Moves(HandleHazards)
  BY EdgeMoves
<1>2. X_out.op = "B_COND" /\ ~M_in.cond_holds /\ M_in.op = "B_COND" /\ M_in.status = "AOK"
  BY <1>1, AllHanded DEF NoCompares, Compares, Fallen, CondBranches
<1>3. ~Faulty(M_in)
  BY <1>2 DEF Faulty, Error, FormatM
<1>4. ~Error(W_out.status) /\ ~Faulty(M_out)
  <2>1. CASE Faulty(M_out)
    <3>1. HandleHazards.M = "STALL"
      <4>1. \/ HandleHazards = Control("STALL", "STALL", "STALL", "STALL", "STALL")
            \/ HandleHazards = Control("STALL", "STALL", "STALL", "STALL", "LOAD")
        BY <1>1, <2>1, Decisions, Zenon DEF Quiet
      <4> QED
        BY <4>1 DEF Control
    <3>2. M_out = M_in
      BY <1>1, <3>1 DEF Moves, Latched
    <3> QED
      BY <1>3, <2>1, <3>2
  <2> QED
    BY <2>1 DEF CycleInv, Frozen
<1>5. ~Waiting \/ HandleHazards # OnMiss
  BY <1>1, <1>2 DEF Moves, Latched, OnMiss, Control, Waiting, FormatM
<1>6. HandleHazards = OnMispredict
  <2>1. ~Error(X_out.status) /\ ~CheckLoadUse /\ CheckMispredBranch
    BY <1>2 DEF Error, CheckLoadUse, CheckMispredBranch
  <2> QED
    BY <1>1, <1>4, <1>5, <2>1, Decisions, Zenon
<1>7. X_out' = XZero
  BY <1>1, <1>6 DEF Moves, OnMispredict, Control, Latched
<1> QED
  BY <1>7 DEF XZero

\* The default build, with a cache and without, while nothing is fetched from the
\* data segments: an instruction fetched behind a branch that falls through never
\* reaches Execute, whatever misses or faults at the same edge
\* (hazard_control.c:112-146).
THEOREM SquashedBehindBranch ==
    ASSUME ~EC PROVE Spec /\ []FetchesText => MispredictSquashed
<1>1. ASSUME TypeOK, CycleInv, NoCompares, [Next]_vars, ran = Stages, ran' = {},
             X_out.status = "AOK", Fallen(M_in), M_out' = M_in
      PROVE  X_out'.status = "BUB"
  <2>1. EndCycle
    <3>1. ran # {}
      BY <1>1 DEF Stages
    <3>2. ~(Fetch \/ Decode \/ Execute \/ Memory \/ Writeback) /\ ~UNCHANGED vars
      BY <1>1, <3>1 DEF Fetch, Decode, Execute, Memory, Writeback, Turn, vars
    <3> QED
      BY <1>1, <3>2 DEF Next
  <2> QED
    BY <1>1, <2>1, BranchSquashes
<1>2. TypeOK /\ CycleInv /\ NoCompares /\ [Next]_vars =>
      [ran = Stages /\ ran' = {} /\ X_out.status = "AOK" /\ Fallen(M_in) /\ M_out' = M_in
       => X_out'.status = "BUB"]_vars
  BY <1>1
<1>3. TypeOK /\ CycleInv /\ NoCompares /\ [Next]_vars => NoCompares'
  <2> SUFFICES ASSUME TypeOK, CycleInv, NoCompares, [Next]_vars PROVE NoCompares'
    OBVIOUS
  <2>1. CASE UNCHANGED vars
    BY <2>1 DEF vars, pipes, NoCompares
  <2> QED
    BY <2>1, StageSquash, EdgeSquash DEF Next
<1> QED
  BY <1>2, <1>3, InitCycle, NextCycle, InitSquash, PipelineTyped, PTL
  DEF Spec, MispredictSquashed

-----------------------------------------------------------------------------
(* Progress.  The rank of a state bounds the cycles until an instruction is     *)
(* issued: how far the pipe is from issuing or from draining, what is left of   *)
(* the miss in Memory, and the miss an access in Execute may have before it.    *)

Doomed == {"HLT", "ADR", "INS"}
Phase ==
    IF W_out.status \in Doomed THEN 1
    ELSE IF M_out.status \in Doomed \/ Faulty(M_out) THEN 2
    ELSE IF X_out.status \in Doomed THEN 3
    ELSE IF X_out.op \in CondBranches THEN 6
    ELSE IF D_out.status = "BUB" \/ X_out.op = "LDUR" THEN 5
    ELSE 4

Pending(b) == IF "M" \in ran THEN IF dmem.status = "IN_FLIGHT" THEN dmem.cycles ELSE 0
              ELSE IF b \in dmem.lines THEN 0 ELSE Left(b)
Stalls == IF M_out.op \in FormatM /\ ~Faulty(M_out) /\ ThroughCache(M_out.val_ex)
          THEN Pending(Block(M_out.val_ex)) ELSE 0
Ahead == IF X_out.op \in FormatM /\ X_out.status = "AOK" THEN Penalty ELSE 0
Rank == Phase + Stalls + Ahead

Most == IF Penalty = 0 THEN 6 ELSE 5 + 2 * Penalty
InTime == idle \in Nat /\ idle + (IF Running THEN Rank ELSE 0) <= Most

LEMMA PenaltyType == Penalty \in Nat /\ (Cached => Penalty = Delay - 1)
BY CacheAssumption DEF Penalty

Bounded == Phase \in 1 .. 6 /\ Stalls \in 0 .. Penalty /\ Ahead \in 0 .. Penalty
LEMMA RankBounds == TypeOK /\ CycleInv => Bounded
<1> SUFFICES ASSUME TypeOK, CycleInv PROVE Bounded
  OBVIOUS
<1>1. Penalty \in Nat /\ (Cached => Penalty = Delay - 1)
  BY PenaltyType
<1>2. Phase \in 1 .. 6
  BY DEF Phase
<1>3. Stalls \in 0 .. Penalty
  <2> DEFINE b == Block(M_out.val_ex)
  <2>1. CASE M_out.op \in FormatM /\ ~Faulty(M_out) /\ ThroughCache(M_out.val_ex)
    <3>1. Left(b) \in 0 .. Delay - 1
      BY CacheAssumption DEF Left, CycleInv, Counting
    <3>2. dmem.status = "IN_FLIGHT" => dmem.cycles \in 0 .. Delay - 1
      BY <2>1 DEF CycleInv, Counting, Waiting
    <3>3. Pending(b) \in 0 .. Delay - 1
      BY <3>1, <3>2, CacheAssumption DEF Pending
    <3> QED
      BY <1>1, <2>1, <3>3 DEF Stalls, ThroughCache
  <2>2. CASE ~(M_out.op \in FormatM /\ ~Faulty(M_out) /\ ThroughCache(M_out.val_ex))
    BY <1>1, <2>2 DEF Stalls
  <2> QED
    BY <2>1, <2>2
<1>4. Ahead \in 0 .. Penalty
  BY <1>1 DEF Ahead
<1> QED
  BY <1>2, <1>3, <1>4 DEF Bounded

LEMMA RankBoundsNext == TypeOK' /\ CycleInv' => Bounded'
BY RankBounds, PTL

\* A sum of three, before and after.
LEMMA Ranks ==
    ASSUME TypeOK, CycleInv, TypeOK', CycleInv'
    PROVE  /\ Penalty \in Nat /\ Penalty' = Penalty /\ Most' = Most
           /\ Rank = Phase + Stalls + Ahead /\ Rank' = Phase' + Stalls' + Ahead'
           /\ Phase \in 1 .. 6 /\ Stalls \in 0 .. Penalty /\ Ahead \in 0 .. Penalty
           /\ Phase' \in 1 .. 6 /\ Stalls' \in 0 .. Penalty /\ Ahead' \in 0 .. Penalty
<1>1. Penalty' = Penalty /\ Most' = Most
  BY DEF Penalty, Most
<1>2. Rank = Phase + Stalls + Ahead /\ Rank' = Phase' + Stalls' + Ahead'
  BY DEF Rank
<1>3. Bounded /\ Bounded'
  BY RankBounds, RankBoundsNext
<1> QED
  BY <1>1, <1>2, <1>3, PenaltyType DEF Bounded

\* What makes it drop at an edge, and what it is at most where it starts anew.
LEMMA RankDrops ==
    ASSUME TypeOK, CycleInv, TypeOK', CycleInv',
           \/ Phase' < Phase /\ Stalls' <= Ahead /\ Ahead' = 0
           \/ Phase' < Phase /\ Stalls' = 0 /\ Ahead' = Ahead
           \/ Phase' = Phase /\ Stalls' = Stalls - 1 /\ Ahead' = Ahead
    PROVE  Rank' < Rank
BY Ranks

LEMMA RankStarts ==
    ASSUME TypeOK, CycleInv, TypeOK', CycleInv', Ahead' = 0 \/ Phase' <= 5
    PROVE  Rank' <= Most
BY Ranks DEF Most

\* A stage changes nothing about it: Memory turns what its access will have to
\* wait into what it waits.
LEMMA StageRank ==
    ASSUME TypeOK, CycleInv, FetchesText, Fetch \/ Decode \/ Execute \/ Memory \/ Writeback
    PROVE  Rank' = Rank
<1>1. UNCHANGED <<D_out, X_out, M_out>> /\ W_out'.status = W_out.status
  BY StageFrame
<1>2. Phase' = Phase /\ Ahead' = Ahead
  BY <1>1 DEF Phase, Faulty, Ahead, Penalty
<1>3. Stalls' = Stalls
  <2> DEFINE b == Block(M_out.val_ex)
  <2>1. CASE Memory
    <3>1. "M" \notin ran /\ "M" \in ran'
      BY <2>1, TurnOnce DEF Memory
    <3>2. CASE M_out.op \in FormatM /\ ThroughCache(M_out.val_ex)
      <4>1. b \in Word /\ dmem \in DmemState
        BY RoundedType, CacheAssumption DEF Block, TypeOK, MReg
      <4>2. dmem' \in Touched(b)
        BY <2>1, <3>2 DEF Memory, Access
      <4>3. dmem.inflight => dmem.cycles \in 1 .. Delay - 1
        BY DEF CycleInv, Counting
      <4>4. (IF dmem'.status = "IN_FLIGHT" THEN dmem'.cycles ELSE 0)
              = (IF b \in dmem.lines THEN 0 ELSE Left(b))
        BY <4>1, <4>2, <4>3, TouchedCounts
      <4>5. Pending(b)' = Pending(b)
        BY <1>1, <3>1, <4>4 DEF Pending
      <4> QED
        BY <1>1, <4>5 DEF Stalls, Faulty
    <3>3. CASE ~(M_out.op \in FormatM /\ ThroughCache(M_out.val_ex))
      BY <1>1, <3>3 DEF Stalls, Faulty
    <3> QED
      BY <3>2, <3>3
  <2>2. CASE ~Memory
    <3>1. dmem' = dmem
      BY <2>2, StageFrame, FetchHands
    <3>2. "M" \in ran' <=> "M" \in ran
      BY <2>2 DEF Fetch, Decode, Execute, Writeback, Turn
    <3> QED
      BY <1>1, <3>1, <3>2 DEF Stalls, Pending, Left, Faulty
  <2> QED
    BY <2>1, <2>2
<1> QED
  BY <1>2, <1>3 DEF Rank

\* The pipe moves: what was in Execute is in Memory, and Execute takes the
\* instruction in Decode or a bubble.
LEMMA MoveRank ==
    ASSUME TypeOK, CycleInv, CycleInv', EndCycle, Quiet, dmem.status = "READY",
           W_out.status \notin Doomed,
           M_out' = M_in, W_out' = W_in,
           \/ /\ CheckLoadUse /\ HandleHazards.X = "BUBBLE" /\ X_out' = XZero /\ D_out' = D_out
           \/ /\ X_out.op \in CondBranches
              /\ HandleHazards.X = "BUBBLE" /\ X_out' = XZero /\ D_out' = DZero
           \/ /\ CheckRet \/ CheckBR
              /\ HandleHazards.X = "LOAD" /\ X_out' = ForwardedX /\ D_out' = DZero
           \/ HandleHazards.X = "LOAD" /\ X_out' = ForwardedX /\ D_out' = D_in
    PROVE  (Issues => Rank' <= Most) /\ (~Issues => Rank' < Rank)
<1>1. TypeOK' /\ ran' = {} /\ dmem' = dmem
  BY EndCycleType, EdgeMoves
<1>2. /\ Penalty \in Nat
      /\ Rank = Phase + Stalls + Ahead /\ Rank' = Phase' + Stalls' + Ahead'
      /\ Phase \in 1 .. 6 /\ Stalls \in 0 .. Penalty /\ Ahead \in 0 .. Penalty
      /\ Phase' \in 1 .. 6 /\ Stalls' \in 0 .. Penalty /\ Ahead' \in 0 .. Penalty
  BY <1>1, Ranks
<1>3. M_in.op = X_out.op /\ M_in.status = X_out.status
  BY AllHanded, EdgeMoves
<1>4. Stalls' <= Ahead
  <2>1. CASE X_out.op \in FormatM /\ X_out.status = "AOK"
    BY <1>2, <2>1 DEF Ahead
  <2>2. CASE X_out.op \in FormatM /\ X_out.status # "AOK"
    <3>1. X_out.status \in {"ADR", "INS"}
      BY <2>2 DEF CycleInv, Empty, Plain, FormatM, TypeOK, XReg, Status
    <3> QED
      BY <3>1 DEF Quiet, Error
  <2>3. CASE X_out.op \notin FormatM
    BY <1>2, <1>3, <2>3 DEF Stalls
  <2> QED
    BY <2>1, <2>2, <2>3
<1>5. ASSUME Issues PROVE Rank' <= Most
  <2>1. Ahead' = 0 \/ Phase' <= 5
    BY <1>2 DEF Ahead, Phase, FormatM, CondBranches
  <2> QED
    BY <1>1, <2>1, RankStarts
<1>6. ASSUME ~Issues PROVE Rank' < Rank
  <2>1. X_out'.status # "AOK" /\ Ahead' = 0
    <3>1. X_out'.status # "AOK"
      BY <1>6, AllHanded, EdgeMoves DEF Issues, XZero
    <3> QED
      BY <3>1 DEF Ahead
  <2>2. Phase' < Phase
    <3>1. CASE M_out.status \in Doomed
      <4>1. W_out'.status \in Doomed
        BY <3>1, AllHanded, EdgeMoves DEF Quiet
      <4> QED
        BY <3>1, <4>1 DEF Phase
    <3>2. CASE M_out.status \notin Doomed /\ X_out.status \in Doomed
      BY <1>3, <3>2 DEF Phase, Quiet
    <3>3. CASE M_out.status \notin Doomed /\ X_out.status \notin Doomed
      <4>1. Phase = IF X_out.op \in CondBranches THEN 6
                    ELSE IF D_out.status = "BUB" \/ X_out.op = "LDUR" THEN 5 ELSE 4
        BY <3>3 DEF Phase, Quiet
      <4>2. CASE X_out'.status \in Doomed
        BY <4>1, <4>2 DEF Phase
      <4>3. CASE X_out'.status = "BUB"
        <5>1. X_out'.op = "NOP"
          BY <4>3 DEF CycleInv, Empty, Plain
        <5>2. Phase' <= 5 /\ (D_out'.status # "BUB" => Phase' <= 4)
          BY <5>1 DEF Phase, CondBranches
        <5>3. CASE X_out.op \in CondBranches
          BY <1>2, <4>1, <5>2, <5>3
        <5>4. CASE X_out.op \notin CondBranches
          <6>1. D_out.status = "BUB" => D_out.ins.op = "NOP"
            BY DEF CycleInv, Empty, Plain
          <6>2. D_out'.status # "BUB" /\ (D_out.status = "BUB" \/ X_out.op = "LDUR")
            BY <4>3, <5>4, <6>1, AllHanded, EdgeMoves DEF CheckLoadUse, CheckRet, CheckBR
          <6> QED
            BY <1>2, <4>1, <5>2, <5>4, <6>2
        <5> QED
          BY <5>3, <5>4
      <4>4. X_out'.status \in Status
        BY <1>1 DEF TypeOK, XReg
      <4> QED
        BY <2>1, <4>2, <4>3, <4>4 DEF Status, Doomed
    <3> QED
      BY <3>1, <3>2, <3>3
  <2> QED
    BY <1>1, <1>4, <2>1, <2>2, RankDrops
<1> QED
  BY <1>5, <1>6

LEMMA EdgeRank ==
    ASSUME TypeOK, CycleInv, EndCycle, Running'
    PROVE  (Issues => Rank' <= Most) /\ (~Issues => Rank' < Rank)
<1>1. CycleInv' /\ TypeOK' /\ ran = Stages /\ ran' = {} /\ dmem' = dmem /\ Moves(HandleHazards)
  BY EdgeCycle, EndCycleType, EdgeMoves
<1>2. /\ Penalty \in Nat
      /\ Rank = Phase + Stalls + Ahead /\ Rank' = Phase' + Stalls' + Ahead'
      /\ Phase \in 1 .. 6 /\ Stalls \in 0 .. Penalty /\ Ahead \in 0 .. Penalty
      /\ Phase' \in 1 .. 6 /\ Stalls' \in 0 .. Penalty /\ Ahead' \in 0 .. Penalty
  BY <1>1, Ranks
<1>3. W_out.status \notin Doomed
  BY EdgeMoves DEF Running, Doomed
<1>4. CASE Error(W_out.status)
  BY <1>3, <1>4 DEF Error, Doomed
<1>5. CASE Faulty(M_out) /\ HandleHazards = Control("STALL", "STALL", "STALL", "STALL", "LOAD")
  <2>1. M_out' = M_out /\ X_out' = X_out /\ W_out' = W_in /\ ~Issues
    BY <1>1, <1>5 DEF Moves, Latched, Control, Issues
  <2>2. Phase = 2 /\ Phase' = 1
    BY <1>1, <1>3, <1>5, <2>1, AllHanded DEF Phase, Error, Doomed
  <2>3. Stalls = 0 /\ Stalls' = 0
    BY <1>5, <2>1 DEF Stalls, Faulty
  <2>4. Ahead' = Ahead
    BY <1>2, <2>1 DEF Ahead
  <2> QED
    BY <1>1, <2>1, <2>2, <2>3, <2>4, RankDrops
<1>6. CASE ~Faulty(M_out) /\ Error(X_out.status)
           /\ HandleHazards = Control("STALL", "STALL", "STALL", "LOAD", "LOAD")
  <2>1. M_out' = M_in /\ X_out' = X_out /\ W_out' = W_in /\ ~Issues
    BY <1>1, <1>6 DEF Moves, Latched, Control, Issues
  <2>2. M_in.status = X_out.status /\ W_in.status = M_out.status
    BY <1>1, <1>6, AllHanded
  <2>3. Faulty(M_out)'
    BY <1>6, <2>1, <2>2 DEF Faulty
  <2>4. Stalls' = 0 /\ Ahead' = Ahead
    BY <1>2, <2>1, <2>3 DEF Stalls, Ahead
  <2>5. Phase' < Phase
    BY <1>3, <1>6, <2>1, <2>2, <2>3 DEF Phase, Error, Doomed
  <2> QED
    BY <1>1, <2>1, <2>4, <2>5, RankDrops
<1>7. CASE Quiet /\ dmem.status = "IN_FLIGHT" /\ Waiting /\ HandleHazards = OnMiss
  <2>1. UNCHANGED <<D_out, X_out, M_out>> /\ W_out' = WZero /\ ~Issues
    BY <1>1, <1>7 DEF Moves, Latched, OnMiss, Control, Issues
  <2>2. Phase' = Phase /\ Ahead' = Ahead
    BY <1>2, <1>3, <2>1 DEF Phase, Faulty, WZero, Doomed, Ahead
  <2>3. Stalls' = Stalls - 1
    <3> DEFINE b == Block(M_out.val_ex)
    <3>1. Pending(b) = dmem.cycles
      BY <1>1, <1>7 DEF Pending, Stages
    <3>2. Pending(b)' = dmem.cycles - 1
      BY <1>1, <1>7, <2>1 DEF Pending, Left, Waiting
    <3> QED
      BY <1>7, <2>1, <3>1, <3>2 DEF Stalls, Faulty, Quiet, Waiting
  <2> QED
    BY <1>1, <2>1, <2>2, <2>3, RankDrops
<1>8. CASE Quiet /\ dmem.status = "READY" /\ CheckLoadUse /\ HandleHazards = OnLoadUse
  BY <1>1, <1>3, <1>8, MoveRank DEF Moves, Latched, OnLoadUse, Control
<1>9. CASE Quiet /\ dmem.status = "READY" /\ (CheckMispredBranch \/ CheckCB)
           /\ HandleHazards = OnMispredict
  <2>1. X_out.op \in CondBranches
    BY <1>9 DEF CheckMispredBranch, CheckCB, CondBranches
  <2> QED
    BY <1>1, <1>3, <1>9, <2>1, MoveRank DEF Moves, Latched, OnMispredict, Control
<1>10. CASE Quiet /\ dmem.status = "READY" /\ CheckRet
            /\ HandleHazards = Control("LOAD", "BUBBLE", "LOAD", "LOAD", "LOAD")
  BY <1>1, <1>3, <1>10, MoveRank DEF Moves, Latched, Control
<1>11. CASE Quiet /\ dmem.status = "READY" /\ CheckBR
            /\ HandleHazards = Control("STALL", "BUBBLE", "LOAD", "LOAD", "LOAD")
  BY <1>1, <1>3, <1>11, MoveRank DEF Moves, Latched, Control
<1>12. CASE Quiet /\ dmem.status = "READY"
            /\ HandleHazards = Control("LOAD", "LOAD", "LOAD", "LOAD", "LOAD")
  BY <1>1, <1>3, <1>12, MoveRank DEF Moves, Latched, Control
<1> QED
  BY <1>1, <1>4, <1>5, <1>6, <1>7, <1>8, <1>9, <1>10, <1>11, <1>12, Decisions

\* One cycle more, but one less to go.
LEMMA OneMore == \A i, r, s, m \in Nat :
                    s < r /\ i + r <= m => i + 1 \in Nat /\ (i + 1) + s <= m
OBVIOUS

LEMMA InitInTime == ProgressInit => InTime
<1> SUFFICES ASSUME ProgressInit PROVE InTime
  OBVIOUS
<1>1. Phase = 5 /\ Stalls = 0 /\ Ahead = 0
  BY DEF ProgressInit, Init, NoMiss, Phase, Doomed, Faulty, Error, Stalls, Ahead, CondBranches,
     FormatM, DZero, XZero, MZero, WZero
<1>2. Penalty \in Nat
  BY CacheAssumption DEF Penalty
<1> QED
  BY <1>1, <1>2 DEF ProgressInit, InTime, Rank, Most

LEMMA NextInTime ==
    TypeOK /\ CycleInv /\ FetchesText /\ InTime /\ [ProgressNext]_<<vars, idle>> => InTime'
<1> SUFFICES ASSUME TypeOK, CycleInv, FetchesText, InTime, [ProgressNext]_<<vars, idle>>
             PROVE  InTime'
  OBVIOUS
<1>1. /\ Most' = Most /\ Most \in Nat /\ Rank \in Nat /\ Rank >= 1
  <2>1. Bounded /\ Penalty \in Nat
    BY RankBounds, PenaltyType
  <2> QED
    BY <2>1 DEF Bounded, Rank, Most, Penalty
<1>2. CASE UNCHANGED <<vars, idle>>
  BY <1>2 DEF vars, proc, memory, pipes, InTime, Running, Rank, Phase, Faulty, Stalls, Pending,
     Left, Ahead, Penalty, Most
<1>3. CASE ProgressNext /\ EndCycle
  <2>1. idle' = (IF Issues THEN 0 ELSE idle + 1) /\ Running
    BY <1>3 DEF ProgressNext, EndCycle
  <2>2. idle \in Nat /\ idle + Rank <= Most
    BY <2>1 DEF InTime
  <2>3. CASE Running'
    <3>1. (Issues => Rank' <= Most) /\ (~Issues => Rank' < Rank)
      BY <1>3, <2>3, EdgeRank
    <3>2. Rank' \in Nat
      <4>1. TypeOK' /\ CycleInv'
        BY <1>3, EndCycleType, EdgeCycle
      <4> QED
        BY <4>1, Ranks
    <3>3. idle' \in Nat /\ idle' + Rank' <= Most
      <4>1. CASE Issues
        <5>1. idle' = 0 /\ Rank' <= Most
          BY <2>1, <3>1, <4>1
        <5> QED
          BY <3>2, <5>1
      <4>2. CASE ~Issues
        <5>1. idle' = idle + 1 /\ Rank' < Rank
          BY <2>1, <3>1, <4>2
        <5> QED
          BY <1>1, <2>2, <3>2, <5>1, OneMore, Zenon
      <4> QED
        BY <4>1, <4>2
    <3> QED
      BY <1>1, <2>3, <3>3 DEF InTime
  <2>4. CASE ~Running'
    BY <1>1, <2>1, <2>2, <2>4 DEF InTime
  <2> QED
    BY <2>3, <2>4
<1>4. CASE ProgressNext /\ (Fetch \/ Decode \/ Execute \/ Memory \/ Writeback)
  <2>1. Running /\ Rank' = Rank /\ ran' # {}
    BY <1>4, StageFrame, StageRank
  <2>2. idle' = idle
    BY <1>4, <2>1 DEF ProgressNext, EndCycle
  <2> QED
    BY <1>1, <2>1, <2>2 DEF InTime
<1> QED
  BY <1>2, <1>3, <1>4 DEF ProgressNext, Next

\* While nothing is fetched from the data segments, and whatever the program
\* does: the loop issues an instruction or ends within a number of cycles that
\* depends on the delay alone.  No stall, bubble, squash or miss keeps another
\* one alive, so cycle_max stops no program that is stuck.
THEOREM LoopProgresses == ProgressSpec /\ []FetchesText => []NeverIdle
<1>1. TypeOK /\ CycleInv /\ InTime => NeverIdle
  <2> SUFFICES ASSUME TypeOK, CycleInv, InTime PROVE NeverIdle
    OBVIOUS
  <2>1. Rank \in Nat /\ Most \in Nat
    BY RankBounds, PenaltyType DEF Bounded, Rank, Most
  <2>2. idle <= Most
    BY <2>1 DEF InTime
  <2> QED
    BY <2>2 DEF Most, NeverIdle
<1>2. ProgressInit => Init
  BY DEF ProgressInit
<1>3. [ProgressNext]_<<vars, idle>> => [Next]_vars
  BY DEF ProgressNext
<1>4. ProgressSpec => []TypeOK
  BY <1>2, <1>3, PipelineTyped, PTL DEF ProgressSpec, Spec
<1> QED
  BY <1>1, <1>2, <1>3, <1>4, InitCycle, NextCycle, InitInTime, NextInTime, PTL DEF ProgressSpec

-----------------------------------------------------------------------------
(* Programs that are well laid out *)

\* What Fetch takes from address p and hands to Decode.
From(p, d) ==
    /\ d.status \in {"AOK", "INS"}
    /\ AddrInImem(p) => d.ins = At(text, p)
    /\ ~AddrInImem(p) => d.ins.op \notin Sensitive
    /\ d.status = "INS" => d.ins.op \notin Sensitive
                           /\ ~(AddrInImem(p) /\ At(text, p).op # "ERROR")

\* What Fetch, once it has run, has fetched.
FetchedFrom ==
    "F" \in ran =>
        /\ D_in.status = "HLT" <=> F_in.status = "HLT"
        /\ F_in.status # "HLT" => From(SelectPC, D_in)
                                  /\ F_PC = PredictPC(SelectPC, D_in.ins)

\* Behind an instruction in Decode, Fetch is where that leads to; behind one in
\* Execute and in Memory there is what the text has there.
BehindDecode ==
    /\ D_out.status # "ADR"
    /\ D_out.status \in {"AOK", "INS"} =>
          /\ \E p \in Word : From(p, D_out) /\ F_out.pred_PC = PredictPC(p, D_out.ins)
          /\ X_out.op \notin Returns /\ ~Fallen(M_out)
BehindExecute ==
    /\ X_out.status # "ADR" /\ (X_out.status = "INS" => X_out.op \notin Sensitive)
    /\ X_out.op \in CondBranches =>
          /\ D_out.status \in {"AOK", "INS"} /\ ~Stops(text, SelectPC)
          /\ X_out.op \in {"CBZ", "CBNZ"} => D_out.ins.op # "RET"
    /\ Cached /\ X_out.op \in FormatM => D_out.status # "INS"
BehindMemory ==
    /\ M_out.op \in FormatM => M_out.status = "AOK"
    /\ Cached /\ M_out.op \in FormatM => X_out.status # "INS"
    /\ Fallen(M_out) => X_out.status # "INS"

\* HaltOnPath, at any point of a cycle.
HaltNext == F_in.status = "HLT" => D_out.status = "HLT" \/ Stops(text, SelectPC)
MissInMemory == dmem.status = "IN_FLIGHT" => Cached /\ M_out.op \in FormatM

LaidInv == /\ WellLaid(text)
           /\ FetchedFrom /\ BehindDecode /\ BehindExecute /\ BehindMemory
           /\ HaltNext /\ MissInMemory

LEMMA SelectPCKept ==
    ASSUME F_out'.pred_PC = F_out.pred_PC, UNCHANGED <<X_out, M_out>>
    PROVE  SelectPC' = SelectPC
BY DEF SelectPC

LEMMA InitLaid == ASSUME Laid, Init PROVE LaidInv
<1>1. WellLaid(text)
  BY DEF Init, Laid
<1>2. FetchedFrom /\ BehindDecode /\ HaltNext /\ MissInMemory
  BY DEF Init, NoMiss, FetchedFrom, BehindDecode, HaltNext, MissInMemory, DZero, FZero
<1>3. BehindExecute /\ BehindMemory
  BY DEF Init, BehindExecute, BehindMemory, Fallen, CondBranches, FormatM, XZero, MZero
<1> QED
  BY <1>1, <1>2, <1>3 DEF LaidInv

\* A word outside the text segment decodes to nothing that matters.
LEMMA InertOutside ==
    ASSUME Laid, NEW w \in Outside
    PROVE  FixInstrAliases(Itable(w)).op \notin Sensitive
<1>1. w \in Instr /\ w.op \notin Sensitive
  BY DecodeAssumption DEF Laid
<1>2. Itable(w).op \notin Sensitive /\ Itable(w) \in Instr
  BY <1>1 DEF Itable, Instr, Ops, Sensitive, Transfers, FormatM, CondBranches, Returns
<1> QED
  BY <1>2 DEF FixInstrAliases, AliasOf, Instr, Sensitive, Transfers, FormatM, CondBranches,
     Returns

LEMMA FetchTakes ==
    ASSUME Laid, TypeOK, FetchesText, Fetch, HaltNext
    PROVE  /\ D_in'.status = "HLT" <=> F_in'.status = "HLT"
           /\ F_in'.status # "HLT" => From(SelectPC, D_in)'
                                      /\ F_PC' = PredictPC(SelectPC, D_in'.ins)
           /\ F_in'.status = "HLT" => D_out.status = "HLT" \/ Stops(text, SelectPC)
           /\ SelectPC' = SelectPC /\ text' = text
<1>1. SelectPC' = SelectPC /\ text' = text
  <2>1. F_out'.pred_PC = F_out.pred_PC
    BY DEF Fetch, FetchHalt, FetchWord, TypeOK, FReg
  <2> QED
    BY <2>1, SelectPCKept DEF Fetch
<1>2. CASE FetchHalt
  <2>1. D_in'.status = "HLT" /\ F_in'.status = "HLT"
    BY <1>2 DEF FetchHalt, TypeOK, DReg, FReg
  <2>2. D_out.status = "HLT" \/ Stops(text, SelectPC)
    BY <1>2 DEF FetchHalt, HaltNext, Stops
  <2> QED
    BY <1>1, <2>1, <2>2
<1>3. CASE FetchWord
  <2>1. ~ThroughCache(SelectPC)
    <3>1. "F" \notin ran
      BY TurnOnce DEF Fetch
    <3> QED
      BY <1>3, <3>1 DEF FetchesText, FetchWord
  <2>2. PICK w \in IF AddrInImem(SelectPC) THEN {text[SelectPC]} ELSE Outside :
           LET i == FixInstrAliases(Itable(w))
               s == FetchStatus(SelectPC, i)
           IN /\ D_in' = [ins |-> i, seq_succ |-> Plus(SelectPC, 1), status |-> s]
              /\ F_PC' = PredictPC(SelectPC, i)
              /\ F_in' = [F_in EXCEPT !.status = s]
    BY <1>3, <2>1 DEF FetchWord, Access, Fetched, Waits
  <2> DEFINE i == FixInstrAliases(Itable(w))
             s == FetchStatus(SelectPC, i)
  <2>3. D_in'.ins = i /\ D_in'.status = s /\ F_in'.status = s /\ F_PC' = PredictPC(SelectPC, i)
    BY <2>2 DEF TypeOK, FReg
  <2>4. CASE AddrInImem(SelectPC)
    <3>1. i = At(text, SelectPC)
      BY <2>2, <2>4 DEF At
    <3>2. s = IF i.op = "ERROR" THEN "INS" ELSE IF i.op = "HLT" THEN "HLT" ELSE "AOK"
      BY <2>4 DEF FetchStatus
    <3>3. "ERROR" \notin Sensitive
      BY DEF Sensitive, Transfers, CondBranches, Returns, FormatM
    <3>4. s = "HLT" => Stops(text, SelectPC)
      BY <2>4, <3>1, <3>2 DEF Stops
    <3>5. s # "HLT" => From(SelectPC, D_in)'
      BY <1>1, <2>3, <2>4, <3>1, <3>2, <3>3 DEF From, AddrInImem
    <3> HIDE DEF i, s
    <3> QED
      BY <1>1, <2>3, <3>4, <3>5
  <2>5. CASE ~AddrInImem(SelectPC)
    <3>1. i.op \notin Sensitive
      BY <2>2, <2>5, InertOutside
    <3>2. s = "INS"
      BY <2>5 DEF FetchStatus
    <3>3. From(SelectPC, D_in)'
      BY <1>1, <2>3, <2>5, <3>1, <3>2 DEF From, AddrInImem
    <3> HIDE DEF i, s
    <3> QED
      BY <1>1, <2>3, <3>2, <3>3
  <2> QED
    BY <2>4, <2>5
<1> QED
  BY <1>2, <1>3 DEF Fetch

LEMMA StageLaid ==
    ASSUME Laid, TypeOK, FetchesText, CycleInv, LaidInv,
           Fetch \/ Decode \/ Execute \/ Memory \/ Writeback
    PROVE  LaidInv'
<1>1. UNCHANGED <<text, D_out, X_out, M_out>> /\ F_out'.pred_PC = F_out.pred_PC
  <2>1. F_out'.pred_PC = F_out.pred_PC
    BY DEF Fetch, FetchHalt, FetchWord, Decode, Execute, Memory, Writeback, TypeOK, FReg
  <2>2. text' = text
    BY DEF Fetch, Decode, Execute, Memory, Writeback
  <2> QED
    BY <2>1, <2>2, StageFrame
<1>2. SelectPC' = SelectPC
  BY <1>1, SelectPCKept
<1>3. WellLaid(text)'
  BY <1>1 DEF LaidInv, WellLaid
<1>4. FetchedFrom' /\ HaltNext'
  <2>1. CASE Fetch
    BY <1>1, <1>2, <2>1, FetchTakes DEF LaidInv, FetchedFrom, HaltNext, Stops
  <2>2. CASE Decode \/ Execute \/ Memory \/ Writeback
    <3>1. D_in' = D_in /\ F_in' = F_in /\ F_PC' = F_PC /\ ("F" \in ran' => "F" \in ran)
      BY <2>2 DEF Decode, Execute, Memory, Writeback, Turn
    <3> QED
      BY <1>1, <1>2, <3>1 DEF LaidInv, FetchedFrom, HaltNext, From, Stops
  <2> QED
    BY <2>1, <2>2
<1>5. BehindDecode' /\ BehindExecute' /\ BehindMemory'
  BY <1>1, <1>2 DEF LaidInv, BehindDecode, BehindExecute, BehindMemory, From, Fallen, Stops
<1>6. MissInMemory'
  <2>1. CASE Memory
    <3>1. dmem' = dmem \/ (M_out.op \in FormatM /\ Cached)
      BY <2>1 DEF Memory, Access, ThroughCache
    <3> QED
      BY <1>1, <3>1 DEF LaidInv, MissInMemory
  <2>2. CASE ~Memory
    <3>1. dmem' = dmem
      BY <2>2, StageFrame, FetchHands
    <3> QED
      BY <1>1, <3>1 DEF LaidInv, MissInMemory
  <2> QED
    BY <2>1, <2>2
<1> QED
  BY <1>3, <1>4, <1>5, <1>6 DEF LaidInv

\* What the text has behind the instruction in Decode is what Fetch takes.
LEMMA FetchedBehind ==
    ASSUME TypeOK, LaidInv, D_out.status \in {"AOK", "INS"}, "F" \in ran
    PROVE  /\ D_out.ins.op \in CondBranches =>
                 /\ F_in.status # "HLT" /\ ~Stops(text, F_PC)
                 /\ D_out.ins.op \in {"CBZ", "CBNZ"} => D_in.ins.op # "RET"
           /\ Cached /\ D_out.ins.op \in FormatM => D_in.status # "INS"
           /\ D_out.ins.op \in Returns => F_in.status # "HLT"
<1>1. PICK p \in Word : From(p, D_out) /\ SelectPC = PredictPC(p, D_out.ins)
  BY DEF LaidInv, BehindDecode, SelectPC, Returns, Fallen, CondBranches
<1>2. IF F_in.status = "HLT"
      THEN Stops(text, SelectPC) /\ D_in.status = "HLT"
      ELSE From(SelectPC, D_in) /\ F_PC = PredictPC(SelectPC, D_in.ins)
  BY DEF LaidInv, FetchedFrom, HaltNext
<1>3. SUFFICES ASSUME D_out.ins.op \in Sensitive
               PROVE  /\ D_out.ins.op \in CondBranches =>
                            /\ F_in.status # "HLT" /\ ~Stops(text, F_PC)
                            /\ D_out.ins.op \in {"CBZ", "CBNZ"} => D_in.ins.op # "RET"
                      /\ Cached /\ D_out.ins.op \in FormatM => D_in.status # "INS"
                      /\ D_out.ins.op \in Returns => F_in.status # "HLT"
  BY DEF Sensitive, Transfers
<1>4. AddrInImem(p) /\ D_out.ins = At(text, p) /\ p \in TextLo .. DataLo - 1
  BY <1>1, <1>3, WordAssumption, SegmentAssumption DEF From, AddrInImem, Word
<1>5. CASE D_out.ins.op \in CondBranches
  <2> DEFINE target == Plus(p, D_out.ins.imm)
  <2>1. SelectPC = target
    BY <1>1, <1>5 DEF PredictPC, CondBranches
  <2>2. /\ ~Stops(text, target) /\ ~Stops(text, Leads(text, target))
        /\ D_out.ins.op \in {"CBZ", "CBNZ"} /\ AddrInImem(target) =>
              At(text, target).op # "RET"
    BY <1>4, <1>5 DEF LaidInv, WellLaid
  <2>3. From(SelectPC, D_in) /\ F_PC = PredictPC(SelectPC, D_in.ins) /\ F_in.status # "HLT"
    BY <1>2, <2>1, <2>2
  <2>4. F_PC = Leads(text, SelectPC) /\ (~AddrInImem(SelectPC) => D_in.ins.op # "RET")
    BY <2>3 DEF From, Leads, PredictPC, Sensitive, Transfers, CondBranches, Returns
  <2>5. D_out.ins.op \notin FormatM \cup Returns
    BY <1>5 DEF CondBranches, FormatM, Returns
  <2> HIDE DEF target
  <2> QED
    BY <2>1, <2>2, <2>3, <2>4, <2>5 DEF From
<1>6. CASE D_out.ins.op \in FormatM
  <2>1. SelectPC = Plus(p, 1) /\ D_out.ins.op \notin CondBranches \cup Returns
    BY <1>1, <1>6 DEF PredictPC, FormatM, CondBranches, Returns
  <2>2. Cached => AddrInImem(SelectPC) /\ At(text, SelectPC).op # "ERROR"
    BY <1>4, <1>6, <2>1 DEF LaidInv, WellLaid
  <2> QED
    BY <1>2, <2>1, <2>2 DEF From
<1>7. CASE D_out.ins.op \in Returns
  <2>1. SelectPC = Plus(p, 1) /\ D_out.ins.op \notin CondBranches \cup FormatM
    BY <1>1, <1>7 DEF PredictPC, FormatM, CondBranches, Returns
  <2>2. ~Stops(text, SelectPC)
    BY <1>4, <1>7, <2>1 DEF LaidInv, WellLaid
  <2> QED
    BY <1>2, <2>1, <2>2
<1> QED
  BY <1>5, <1>6, <1>7

\* What every edge does.
LEMMA LaidEdge ==
    ASSUME TypeOK, CycleInv, LaidInv, EndCycle
    PROVE  /\ WellLaid(text)' /\ FetchedFrom' /\ text' = text /\ dmem' = dmem
           /\ F_in'.status = F_in.status /\ F_in'.pred_PC = NextPC
           /\ F_out' = Latched(HandleHazards.F, F_in', F_out, FZero)
           /\ D_in.status = "HLT" <=> F_in.status = "HLT"
           /\ D_in.status \in {"AOK", "INS", "HLT"}
           /\ F_in.status # "HLT" => From(SelectPC, D_in)
                                     /\ F_PC = PredictPC(SelectPC, D_in.ins)
<1>1. text' = text /\ ran' = {} /\ dmem' = dmem /\ "F" \in ran
  BY DEF EndCycle, Stages
<1>2. F_in'.status = F_in.status /\ F_in'.pred_PC = NextPC
      /\ F_out' = Latched(HandleHazards.F, F_in', F_out, FZero)
  BY DEF EndCycle, TypeOK, FReg
<1>3. WellLaid(text)'
  BY <1>1 DEF LaidInv, WellLaid
<1> QED
  BY <1>1, <1>2, <1>3 DEF LaidInv, FetchedFrom, From

\* The pipe stands still, but for Writeback.
LEMMA StillLaid ==
    ASSUME TypeOK, CycleInv, LaidInv, EndCycle,
           HandleHazards.F = "STALL", UNCHANGED <<D_out, X_out, M_out>>
    PROVE  LaidInv'
<1>1. F_out' = F_out
  BY LaidEdge DEF Latched
<1>2. SelectPC' = SelectPC
  BY <1>1, SelectPCKept
<1>3. BehindDecode' /\ BehindExecute' /\ BehindMemory' /\ HaltNext' /\ MissInMemory'
  BY <1>1, <1>2, LaidEdge
  DEF LaidInv, BehindDecode, BehindExecute, BehindMemory, HaltNext, MissInMemory, From,
      Fallen, Stops
<1> QED
  BY <1>3, LaidEdge DEF LaidInv

\* The error in Execute goes on to Memory, everything behind it stands still.
LEMMA ErrorLaid ==
    ASSUME TypeOK, CycleInv, LaidInv, EndCycle, Error(X_out.status),
           HandleHazards.F = "STALL", UNCHANGED <<D_out, X_out>>, M_out' = M_in
    PROVE  LaidInv'
<1>1. F_out' = F_out
  BY LaidEdge DEF Latched
<1>2. X_out.status = "INS" /\ X_out.op \notin Sensitive /\ M_in.op = X_out.op
  BY AllHanded, EdgeMoves DEF Error, LaidInv, BehindExecute
<1>3. ~Fallen(M_out) /\ ~Fallen(M_in) /\ M_in.op \notin FormatM
  BY <1>2 DEF LaidInv, BehindMemory, Fallen, Sensitive, Transfers
<1>4. SelectPC' = SelectPC
  BY <1>1, <1>3 DEF SelectPC, Fallen, CondBranches
<1>5. dmem.status # "IN_FLIGHT"
  BY <1>2 DEF LaidInv, MissInMemory, BehindMemory
<1>6. BehindDecode'
  BY <1>1, <1>3, LaidEdge DEF LaidInv, BehindDecode, From, Fallen
<1>7. BehindExecute' /\ BehindMemory' /\ HaltNext' /\ MissInMemory'
  BY <1>3, <1>4, <1>5, LaidEdge
  DEF LaidInv, BehindExecute, BehindMemory, HaltNext, MissInMemory, Fallen, Stops
<1> QED
  BY <1>6, <1>7, LaidEdge DEF LaidInv

\* What moves from Execute into Memory.
LEMMA MemoryTakes ==
    ASSUME TypeOK, CycleInv, LaidInv, EndCycle, Quiet, M_out' = M_in
    PROVE  /\ M_out'.op = X_out.op /\ M_out'.status = X_out.status
           /\ M_out'.op \in FormatM => M_out'.status = "AOK"
           /\ Fallen(M_out') => CheckMispredBranch \/ CheckCB
<1>1. M_in.op = X_out.op /\ M_in.status = X_out.status
  BY AllHanded, EdgeMoves
<1>2. X_out.op \in FormatM => X_out.status = "AOK"
  BY DEF Quiet, Error, CycleInv, Empty, Plain, FormatM, TypeOK, XReg, Status
<1> QED
  BY <1>1, <1>2 DEF Fallen, CondBranches, CheckMispredBranch, CheckCB

LEMMA LoadUseLaid ==
    ASSUME TypeOK, CycleInv, LaidInv, EndCycle, Quiet, dmem.status = "READY",
           CheckLoadUse, HandleHazards.F = "STALL",
           D_out' = D_out, X_out' = XZero, M_out' = M_in
    PROVE  LaidInv'
<1>1. F_out' = F_out
  BY LaidEdge DEF Latched
<1>2. D_out.status \in {"AOK", "INS"}
  BY DEF CheckLoadUse, CycleInv, Empty, Plain, LaidInv, BehindDecode, TypeOK, DReg, Status
<1>3. ~Fallen(M_out) /\ ~Fallen(M_out') /\ X_out.op \notin Returns
  BY <1>2, MemoryTakes DEF LaidInv, BehindDecode, CheckLoadUse, CheckMispredBranch, CheckCB
<1>4. XZero.op = "NOP" /\ XZero.status = "BUB"
  BY DEF XZero
<1>5. SelectPC' = SelectPC
  BY <1>1, <1>3, <1>4 DEF SelectPC, Fallen, CondBranches, Returns
<1>6. BehindDecode'
  BY <1>1, <1>3, <1>4, LaidEdge DEF LaidInv, BehindDecode, From, Fallen, Returns
<1>7. BehindExecute' /\ BehindMemory'
  BY <1>3, <1>4, MemoryTakes DEF BehindExecute, BehindMemory, CondBranches, FormatM, Fallen
<1>8. HaltNext' /\ MissInMemory'
  BY <1>5, LaidEdge DEF LaidInv, HaltNext, MissInMemory, Stops
<1> QED
  BY <1>6, <1>7, <1>8, LaidEdge DEF LaidInv

\* Both instructions behind the branch are squashed, and neither was a halt.
LEMMA MispredictLaid ==
    ASSUME TypeOK, CycleInv, LaidInv, EndCycle, Quiet, dmem.status = "READY",
           CheckMispredBranch \/ CheckCB,
           D_out' = DZero, X_out' = XZero, M_out' = M_in
    PROVE  LaidInv'
<1>1. X_out.op \in CondBranches
  BY DEF CheckMispredBranch, CheckCB, CondBranches
<1>2. F_in.status # "HLT"
  BY <1>1 DEF LaidInv, BehindExecute, HaltNext
<1>3. DZero.status = "BUB" /\ XZero.op = "NOP" /\ XZero.status = "BUB"
  BY DEF DZero, XZero
<1>4. M_out'.op \notin FormatM
  BY <1>1, MemoryTakes DEF CondBranches, FormatM
<1>5. BehindDecode' /\ BehindExecute' /\ BehindMemory' /\ HaltNext' /\ MissInMemory'
  BY <1>2, <1>3, <1>4, LaidEdge
  DEF BehindDecode, BehindExecute, BehindMemory, HaltNext, MissInMemory, CondBranches, FormatM
<1> QED
  BY <1>5, LaidEdge DEF LaidInv

\* The return moves on, and what was fetched behind it was no halt.
LEMMA ReturnLaid ==
    ASSUME TypeOK, CycleInv, LaidInv, EndCycle, Quiet, dmem.status = "READY",
           CheckRet \/ CheckBR,
           D_out' = DZero, X_out' = ForwardedX, M_out' = M_in
    PROVE  LaidInv'
<1>1. D_out.ins.op \in Returns /\ D_out.ins.op \in Sensitive
  BY DEF CheckRet, CheckBR, Returns, Sensitive, Transfers
<1>2. D_out.status \in {"AOK", "INS"}
  BY <1>1 DEF CycleInv, Empty, Plain, Returns, LaidInv, BehindDecode, TypeOK, DReg, Status
<1>3. D_out.status = "AOK"
  BY <1>1, <1>2 DEF LaidInv, BehindDecode, From
<1>4. F_in.status # "HLT"
  BY <1>1, <1>2, FetchedBehind, EdgeMoves DEF Stages
<1>5. X_out'.op \in Returns /\ X_out'.status = "AOK"
  BY <1>1, <1>3, AllHanded, EdgeMoves
<1>6. DZero.status = "BUB"
  BY DEF DZero
<1>7. BehindDecode' /\ HaltNext' /\ MissInMemory'
  BY <1>4, <1>6, LaidEdge DEF BehindDecode, HaltNext, MissInMemory
<1>8. BehindExecute' /\ BehindMemory'
  BY <1>5, MemoryTakes DEF BehindExecute, BehindMemory, CondBranches, FormatM, Returns
<1> QED
  BY <1>7, <1>8, LaidEdge DEF LaidInv

\* Everything moves on: what Fetch has taken is what the text has behind the
\* instruction that enters Execute.
LEMMA MoveLaid ==
    ASSUME TypeOK, CycleInv, LaidInv, EndCycle, Quiet, dmem.status = "READY",
           ~CheckMispredBranch, ~CheckCB, ~CheckRet, ~CheckBR, HandleHazards.F = "LOAD",
           D_out' = D_in, X_out' = ForwardedX, M_out' = M_in
    PROVE  LaidInv'
<1>1. X_out'.op = D_out.ins.op /\ X_out'.status = D_out.status
  BY AllHanded, EdgeMoves
<1>2. ~Fallen(M_out') /\ X_out'.op \notin Returns
  BY <1>1, MemoryTakes DEF CheckRet, CheckBR, Returns
<1>3. F_out'.pred_PC = F_PC
  BY AllHanded, EdgeMoves, LaidEdge DEF Latched, NextPC, Quiet
<1>4. SelectPC' = F_PC
  BY <1>2, <1>3 DEF SelectPC, Fallen, CondBranches, Returns
<1>5. BehindDecode'
  <2>1. SelectPC \in Word
    BY SelectPCType
  <2>2. ASSUME D_in.status # "HLT"
        PROVE  \E p \in Word : From(p, D_out)' /\ F_out'.pred_PC = PredictPC(p, D_out'.ins)
    <3>1. From(SelectPC, D_in) /\ F_PC = PredictPC(SelectPC, D_in.ins)
      BY <2>2, LaidEdge
    <3> QED
      BY <1>3, <2>1, <3>1, LaidEdge DEF From
  <2> QED
    BY <1>2, <2>2, LaidEdge DEF BehindDecode
<1>6. /\ D_out.status \in {"AOK", "INS"} \/ D_out.ins.op \notin Sensitive
      /\ D_out.status = "INS" => D_out.ins.op \notin Sensitive
      /\ D_out.status # "ADR"
  BY DEF CycleInv, Empty, Plain, LaidInv, BehindDecode, From, TypeOK, DReg, Status, Sensitive,
     Transfers, CondBranches, Returns, FormatM
<1>7. HaltNext' /\ MissInMemory'
  BY LaidEdge DEF HaltNext, MissInMemory
<1>8. BehindExecute'
  <2>1. CASE X_out'.op \in CondBranches
    <3>1. D_out.status \in {"AOK", "INS"} /\ D_out.status # "HLT"
      BY <1>1, <1>6, <2>1 DEF Sensitive, Transfers
    <3>2. /\ F_in.status # "HLT" /\ ~Stops(text, F_PC)
          /\ D_out.ins.op \in {"CBZ", "CBNZ"} => D_in.ins.op # "RET"
      BY <1>1, <2>1, <3>1, FetchedBehind, EdgeMoves DEF Stages
    <3>3. X_out'.op \notin FormatM
      BY <2>1 DEF CondBranches, FormatM
    <3> QED
      BY <1>1, <1>4, <1>6, <3>1, <3>2, <3>3, LaidEdge DEF BehindExecute, Stops
  <2>2. CASE X_out'.op \notin CondBranches
    <3>1. Cached /\ X_out'.op \in FormatM => D_in.status # "INS"
      <4>1. SUFFICES ASSUME Cached, X_out'.op \in FormatM, D_in.status = "INS" PROVE FALSE
        OBVIOUS
      <4>2. D_out.status \in {"AOK", "INS"}
        BY <1>1, <1>6, <4>1 DEF Sensitive
      <4> QED
        BY <1>1, <4>1, <4>2, FetchedBehind, EdgeMoves DEF Stages
    <3> QED
      BY <1>1, <1>6, <2>2, <3>1 DEF BehindExecute
  <2> QED
    BY <2>1, <2>2
<1>9. BehindMemory'
  <2>1. Cached /\ X_out.op \in FormatM => D_out.status # "INS"
    BY DEF LaidInv, BehindExecute
  <2> QED
    BY <1>1, <1>2, <2>1, MemoryTakes DEF BehindMemory
<1> QED
  BY <1>5, <1>7, <1>8, <1>9, LaidEdge DEF LaidInv

LEMMA EdgeLaid == ASSUME TypeOK, CycleInv, LaidInv, EndCycle PROVE LaidInv'
<1>1. Moves(HandleHazards) /\ ran = Stages
  BY EdgeMoves
<1>2. CASE \/ HandleHazards = Control("STALL", "STALL", "STALL", "STALL", "STALL")
           \/ HandleHazards = Control("STALL", "STALL", "STALL", "STALL", "LOAD")
           \/ HandleHazards = OnMiss
  BY <1>1, <1>2, StillLaid DEF Moves, Latched, OnMiss, Control
<1>3. CASE Error(X_out.status)
           /\ HandleHazards = Control("STALL", "STALL", "STALL", "LOAD", "LOAD")
  BY <1>1, <1>3, ErrorLaid DEF Moves, Latched, Control
<1>4. CASE Quiet /\ dmem.status = "READY" /\ CheckLoadUse /\ HandleHazards = OnLoadUse
  BY <1>1, <1>4, LoadUseLaid DEF Moves, Latched, OnLoadUse, Control
<1>5. CASE Quiet /\ dmem.status = "READY" /\ (CheckMispredBranch \/ CheckCB)
           /\ HandleHazards = OnMispredict
  BY <1>1, <1>5, MispredictLaid DEF Moves, Latched, OnMispredict, Control
<1>6. CASE Quiet /\ dmem.status = "READY" /\ (CheckRet \/ CheckBR)
           /\ \/ HandleHazards = Control("LOAD", "BUBBLE", "LOAD", "LOAD", "LOAD")
              \/ HandleHazards = Control("STALL", "BUBBLE", "LOAD", "LOAD", "LOAD")
  BY <1>1, <1>6, ReturnLaid DEF Moves, Latched, Control
<1>7. CASE Quiet /\ dmem.status = "READY" /\ ~CheckMispredBranch /\ ~CheckCB /\ ~CheckRet
           /\ ~CheckBR /\ HandleHazards = Control("LOAD", "LOAD", "LOAD", "LOAD", "LOAD")
  BY <1>1, <1>7, MoveLaid DEF Moves, Latched, Control
<1> QED
  BY <1>1, <1>2, <1>3, <1>4, <1>5, <1>6, <1>7, Decisions, Zenon

LEMMA NextLaid ==
    ASSUME Laid
    PROVE  FetchesText /\ TypeOK /\ CycleInv /\ LaidInv /\ [Next]_vars => LaidInv'
<1> SUFFICES ASSUME FetchesText, TypeOK, CycleInv, LaidInv, [Next]_vars PROVE LaidInv'
  OBVIOUS
<1>1. CASE UNCHANGED vars
  BY <1>1 DEF vars, pipes, wires, LaidInv, WellLaid, FetchedFrom, BehindDecode, BehindExecute,
     BehindMemory, HaltNext, MissInMemory, From, Fallen, Stops, SelectPC
<1>2. CASE Next
  BY <1>2, StageLaid, EdgeLaid DEF Next
<1> QED
  BY <1>1, <1>2

LEMMA LaidIsRegular ==
    ASSUME TypeOK, CycleInv, LaidInv, RegularData
    PROVE  Regular
<1>1. HaltOnPath
  BY DEF LaidInv, HaltNext, HaltOnPath, Stops
<1>2. StoresInBounds
  BY DEF LaidInv, BehindMemory, RegularData, StoresLand, StoresInBounds
<1>3. NoShadowedBranch
  BY DEF LaidInv, BehindExecute, NoShadowedBranch, CheckRet, CheckCB, CondBranches
<1>4. NoOvertaking
  <2>1. ran = Stages /\ dmem.status = "IN_FLIGHT" => M_in.status \notin {"INS", "ADR"}
    BY AllHanded DEF LaidInv, MissInMemory, BehindMemory, BehindExecute
  <2> QED
    BY <2>1 DEF NoOvertaking, Error
<1> QED
  BY <1>1, <1>2, <1>3, <1>4 DEF RegularData, Regular

\* fetch_instr: in a program that is well laid out a fetched halt is on the path,
\* whatever the data, the branches, the misses and the faults.
THEOREM HaltsOnPath == ASSUME Laid PROVE Spec /\ []FetchesText => []HaltOnPath
<1>1. LaidInv => HaltOnPath
  BY DEF LaidInv, HaltNext, HaltOnPath, Stops
<1>2. Init => LaidInv
  BY InitLaid
<1> QED
  BY <1>1, <1>2, InitCycle, NextCycle, NextLaid, PipelineTyped, PTL DEF Spec

\* For programs that are well laid out, no halt of a wrong path ends them, no
\* branch is shadowed by a return and no undefined instruction overtakes a miss
\* (instr_Fetch.c:173, hazard_control.c:127-146): what is left of the conditions
\* under which the pipeline is invisible is about the values they compute.
THEOREM LaidProgramsRegular == ASSUME Laid PROVE Spec /\ []RegularData => []Regular
<1>1. RegularData => FetchesText
  BY DEF RegularData
<1>2. TypeOK /\ CycleInv /\ LaidInv /\ RegularData => Regular
  BY LaidIsRegular
<1>3. Init => LaidInv
  BY InitLaid
<1> QED
  BY <1>1, <1>2, <1>3, InitCycle, NextCycle, NextLaid, PipelineTyped, PTL DEF Spec
=============================================================================

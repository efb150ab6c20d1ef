-------------------------- MODULE RefinementProofs --------------------------
(***************************************************************************)
(* The pipeline implements the machine that executes one instruction after *)
(* another, for every program, word size, memory layout, ALU, cache delay  *)
(* and order of the stages, as long as the states are Regular: the         *)
(* predicates of Regular, one for each departure of the code from that     *)
(* machine, are all that can make a difference.                            *)
(***************************************************************************)
EXTENDS PipelineProofs

-----------------------------------------------------------------------------
(* The invariant *)

\* Where the machine finds an instruction, and where it does not halt.
Defined(p) == AddrInImem(p) /\ At(text, p).op # "ERROR"
HaltAt(p) == AddrInImem(p) /\ At(text, p).op = "HLT"

\* What Fetch hands to Decode is the instruction at its address.
Decoded(d) ==
    /\ d.status = "AOK" => /\ AddrInImem(PCOf(d)) /\ d.ins = At(text, PCOf(d))
                           /\ d.ins.op \notin {"HLT", "ERROR"}
    /\ d.status = "INS" => PCOf(d) # 0 /\ ~Defined(PCOf(d))
    /\ d.status = "HLT" => d.ins.op = "HLT"
    /\ d.status = "BUB" => d.ins.op = "NOP"
    /\ d.status # "ADR"

\* What each stage that has run in this cycle has done.
FetchDone ==
    "F" \in ran =>
        /\ D_in.status # "BUB" /\ Decoded(D_in)
        /\ D_in.status = "HLT" <=> F_in.status = "HLT"
        /\ D_in.status # "HLT" => PCOf(D_in) = SelectPC
        /\ D_in.status = "AOK" => F_PC = PredictPC(SelectPC, D_in.ins)
DecodeDone ==
    "D" \in ran =>
        /\ X_in.op = D_out.ins.op /\ X_in.status = D_out.status
        /\ X_in.seq_succ = D_out.seq_succ /\ X_in.cond = CondOf(D_out.ins)
        /\ X_in.op = "BL" => X_in.dst = LR
        /\ D_out.status = "AOK" =>
              /\ D_src1 = Src1(D_out.ins) /\ D_src2 = Src2(D_out.ins)
              /\ X_in.dst = Dst(D_out.ins)
              /\ X_in.val_imm = IF D_out.ins.op = "BLR" THEN D_out.seq_succ
                                ELSE D_out.ins.imm
              /\ D_out.ins.op # "NOP" => /\ X_in.val_a = RegRead(regs, D_src1)
                                         /\ X_in.val_b = RegRead(regs, D_src2)
ExecuteDone ==
    "X" \in ran =>
        /\ M_in.op = X_out.op /\ M_in.status = X_out.status
        /\ M_in.seq_succ = X_out.seq_succ
        /\ M_in.val_b = X_out.val_b /\ M_in.dst = X_out.dst
        /\ M_in.val_ex = ValEx(X_out, X_nzcvval)
        /\ X_set_flags = SetFlags(X_out.op)
        /\ SetFlags(X_out.op) => X_nzcvval = FlagsOf(X_out)
        /\ ~SetFlags(X_out.op) => M_in.cond_holds = CondVal(X_out, X_nzcvval)
MemoryDone ==
    "M" \in ran =>
        /\ W_in.op = M_out.op /\ W_in.dst = M_out.dst /\ W_in.val_ex = M_out.val_ex
        /\ W_in.status = IF M_out.op \in FormatM /\ DmemErr(M_out.val_ex) THEN "ADR"
                         ELSE M_out.status
        /\ Error(W_in.status) => M_PC = PCOf(M_out)
        /\ exited <=> (M_out.op \in FormatM /\ Ends(M_out.op, M_out.val_ex))
        /\ dmem.status = "READY" =>
              /\ M_out.op = "LDUR" => W_in.val_mem = LoadValue(mem, M_out.val_ex)
              /\ M_out.op = "STUR" => mem = Stored(mem, M_out.val_ex, M_out.val_b)
WritebackDone ==
    "W" \in ran => W_wval = IF WvalSel(W_out.op) THEN W_out.val_mem ELSE W_out.val_ex
StagesDone == FetchDone /\ DecodeDone /\ ExecuteDone /\ MemoryDone /\ WritebackDone
              /\ (exited => "M" \in ran)

\* What sits in a register: a bubble and a halt have their opcodes, a link goes
\* to LR, and no address of an instruction is that of a halt.
Shape(r) == /\ r.status = "BUB" => r.op = "NOP"
            /\ r.status = "HLT" => r.op = "HLT"
            /\ r.op = "BL" => r.dst = LR
Placed(r) == r.status # "ADR" /\ (r.status \in {"AOK", "INS"} => ~HaltAt(PCOf(r)))
Shapes == /\ Decoded(D_out)
          /\ Shape(X_out) /\ Shape(M_out) /\ Shape(W_out)
          /\ Placed(X_out) /\ Placed(M_out)
          /\ SetFlags(X_out.op) => X_out.cond = "AL"

\* Behind a halt there are only halts.
Halts == /\ status = "HLT" => W_out.status = "HLT"
         /\ W_out.status = "HLT" => M_out.status = "HLT"
         /\ M_out.status = "HLT" => X_out.status = "HLT"
         /\ X_out.status = "HLT" => D_out.status = "HLT"
         /\ D_out.status = "HLT" => F_in.status = "HLT"

\* HaltOnPath, at any point of a cycle.
HaltSeen ==
    F_in.status = "HLT" =>
        \/ "HLT" \in {D_out.status, X_out.status, M_out.status, W_out.status}
        \/ SelectPC = 0
        \/ HaltAt(SelectPC)

\* While Decode holds an instruction, Fetch is where it leads to.
OnPath ==
    D_out.status = "AOK" /\ ~Error(X_out.status) =>
        /\ F_out.pred_PC = PredictPC(PCOf(D_out), D_out.ins)
        /\ X_out.op \notin Returns /\ ~Fallen(M_out)

\* A fault in Writeback leaves its instruction in Memory, also when the emulator
\* has stopped for it.
Stopped == /\ Error(W_out.status) => Faulty(M_out)
           /\ Error(status) => W_out.status = status /\ PC = PCOf(M_out)

\* The wire X_nzcvval and the register NZCV, in between two instructions that
\* set the flags.
Agree == X_nzcvval = NZCV \/ (NZCV = InitialFlags /\ X_nzcvval = ZeroFlags)
FlagsKept == /\ deassert_flags => Error(X_out.status) \/ Error(W_out.status)
             /\ ~SetFlags(X_out.op) \/ ("X" \notin ran /\ ~deassert_flags) => Agree

\* The miss in flight is that of the instruction in Memory.
MissOwned == InFlightOwned /\ (dmem.status = "IN_FLIGHT" => ThroughCache(M_out.val_ex))

Inv == /\ StagesDone
       /\ Shapes
       /\ Halts
       /\ HaltSeen
       /\ OnPath
       /\ Stopped
       /\ FlagsKept
       /\ MissOwned

-----------------------------------------------------------------------------
(* Words, registers, memory *)

\* The address of an instruction is one before its successor, also across the
\* wrap-around.
LEMMA AddressOf == \A p \in Word : Plus(Plus(p, 1), W - 1) = p
<1> SUFFICES ASSUME NEW p \in Word PROVE Plus(Plus(p, 1), W - 1) = p
  OBVIOUS
<1>1. p \in Nat /\ p < W /\ W \in Nat
  BY WordAssumption DEF Word
<1>2. CASE p + 1 < W
  <2>1. (p + 1) % W = p + 1
    BY <1>1, <1>2, SMT
  <2>2. (p + W) % W = p
    BY <1>1, SMT
  <2>3. (p + 1) + (W - 1) = p + W
    BY <1>1, SMT
  <2> QED
    BY <2>1, <2>2, <2>3 DEF Plus
<1>3. CASE p + 1 = W
  <2>1. (p + 1) % W = 0
    BY <1>1, <1>3, SMT
  <2>2. (W - 1) % W = p /\ 0 + (W - 1) = W - 1
    BY <1>1, <1>3, SMT
  <2> QED
    BY <2>1, <2>2 DEF Plus
<1> QED
  BY <1>1, <1>2, <1>3, SMT

RegFile == [Gpr \cup {SP} -> Word]

\* Reading back what was written to the register file.
LEMMA ReadWritten ==
    ASSUME NEW rs \in RegFile, NEW d \in RegNum, NEW n \in RegNum, NEW v \in Word
    PROVE  /\ d = n /\ n # XZR => RegRead(RegWrite(rs, d, v), n) = v
           /\ d # n => RegRead(RegWrite(rs, d, v), n) = RegRead(rs, n)
BY DEF RegRead, RegWrite, RegNum, RegFile

LEMMA StoredTwice ==
    \A m \in [Word -> Word], a, v \in Word : Stored(Stored(m, a, v), a, v) = Stored(m, a, v)
BY DEF Stored

\* Addresses that are trapped are not stored to, and only they show.
LEMMA TrapFacts ==
    /\ \A m, a, v : a \in Special => Stored(m, a, v) = m
    /\ \A out, a, v : a \notin Special => Shown(out, a, v) = out
    /\ \A op, a : Ends(op, a) => a \in Special /\ a # IO_CHAR_ADDR
    /\ \A a : DmemErr(a) => a \notin Special
    /\ \A a : ThroughCache(a) => a \notin Special
BY WordAssumption DEF Stored, Shown, Special, Ends, DmemErr, ThroughCache, NULL_ADDR,
   IO_CHAR_ADDR, CHECKPOINT_ADDR

-----------------------------------------------------------------------------
(* Finishing an instruction *)

Result(m) == /\ m.op \in Ops /\ m.status \in Status /\ m.dst \in RegNum
             /\ m.val_ex \in Word /\ m.val_b \in Word

\* All of the architectural state that Finish reads and writes.
Same(s, t) == s.regs = t.regs /\ s.mem = t.mem /\ s.output = t.output /\ s.status = t.status

LEMMA FinishArch ==
    ASSUME NEW s \in Arch, NEW m, Result(m)
    PROVE  Finish(s, m) \in Arch /\ Finish(s, m).pc = s.pc /\ Finish(s, m).nzcv = s.nzcv
<1>1. /\ LoadValue(s.mem, m.val_ex) \in Word
      /\ Stored(s.mem, m.val_ex, m.val_b) \in [Word -> Word]
      /\ Shown(s.output, m.val_ex, m.val_b) \in Seq(Word)
  BY MemoryTypes DEF Arch, Result
<1>2. /\ RegWrite(s.regs, m.dst, m.val_ex) \in [Gpr \cup {SP} -> Word]
      /\ RegWrite(s.regs, m.dst, LoadValue(s.mem, m.val_ex)) \in [Gpr \cup {SP} -> Word]
  BY <1>1, RegWriteType DEF Arch, Result
<1>3. \/ Finish(s, m) = s
      \/ \E st \in ArchStatus : Finish(s, m) = [s EXCEPT !.status = st]
      \/ Finish(s, m) = [s EXCEPT !.mem = Stored(@, m.val_ex, m.val_b),
                                  !.output = Shown(@, m.val_ex, m.val_b)]
      \/ Finish(s, m) = [s EXCEPT !.regs = RegWrite(@, m.dst, LoadValue(s.mem, m.val_ex))]
      \/ Finish(s, m) = [s EXCEPT !.regs = RegWrite(@, m.dst, m.val_ex)]
  BY DEF Finish, ArchStatus
<1> QED
  BY <1>1, <1>2, <1>3 DEF Arch

\* What Finish does to the parts of the state that later instructions see.
LEMMA FinishParts ==
    ASSUME NEW s \in Arch, NEW m, Result(m)
    PROVE  LET f == Finish(s, m)
               done == s.status = "AOK" /\ m.status \notin {"BUB", "HLT", "INS"}
               fault == m.op \in FormatM /\ (Ends(m.op, m.val_ex) \/ DmemErr(m.val_ex))
           IN /\ f.status = IF s.status # "AOK" \/ m.status = "BUB" THEN s.status
                            ELSE IF ~done THEN m.status
                            ELSE IF ~fault THEN "AOK"
                            ELSE IF Ends(m.op, m.val_ex) THEN "EXIT" ELSE "ADR"
              /\ f.mem = IF done /\ ~fault /\ m.op = "STUR"
                         THEN Stored(s.mem, m.val_ex, m.val_b) ELSE s.mem
              /\ f.output = IF done /\ ~fault /\ m.op = "STUR"
                            THEN Shown(s.output, m.val_ex, m.val_b) ELSE s.output
              /\ f.regs = IF done /\ ~fault /\ WEnable(m.op)
                          THEN RegWrite(s.regs, m.dst,
                                        IF m.op = "LDUR" THEN LoadValue(s.mem, m.val_ex)
                                        ELSE m.val_ex)
                          ELSE s.regs
<1>1. ~WEnable("STUR") /\ WEnable("LDUR") /\ {"STUR", "LDUR"} = FormatM
  BY DEF WEnable, FormatM, FormatRR, FormatRI, FormatI, Selects, RRSetting
<1>2. CASE s.status # "AOK" \/ m.status = "BUB"
  BY <1>2 DEF Finish, Arch
<1>3. CASE s.status = "AOK" /\ m.status \in {"HLT", "INS"}
  BY <1>3 DEF Finish, Arch
<1>4. CASE s.status = "AOK" /\ m.status \notin {"BUB", "HLT", "INS"}
  <2>1. CASE m.op \in FormatM /\ (Ends(m.op, m.val_ex) \/ DmemErr(m.val_ex))
    BY <1>4, <2>1 DEF Finish, Arch
  <2>2. CASE ~(m.op \in FormatM /\ (Ends(m.op, m.val_ex) \/ DmemErr(m.val_ex)))
    <3>1. CASE m.op = "STUR"
      BY <1>1, <1>4, <2>2, <3>1 DEF Finish, Arch
    <3>2. CASE m.op = "LDUR"
      BY <1>1, <1>4, <2>2, <3>2 DEF Finish, Arch
    <3>3. CASE m.op \notin FormatM
      BY <1>1, <1>4, <3>3 DEF Finish, Arch
    <3> QED
      BY <1>1, <3>1, <3>2, <3>3
  <2> QED
    BY <2>1, <2>2
<1> QED
  BY <1>2, <1>3, <1>4

\* Finish depends on nothing but the parts it reads.
LEMMA FinishSame ==
    ASSUME NEW s \in Arch, NEW t \in Arch, Same(s, t),
           NEW m, NEW n, Result(m), Result(n),
           m.status = n.status,
           m.status # "BUB" => /\ m.op = n.op /\ m.dst = n.dst
                               /\ m.val_ex = n.val_ex /\ m.val_b = n.val_b
    PROVE  Same(Finish(s, m), Finish(t, n))
<1>1. CASE m.status = "BUB"
  BY <1>1 DEF Finish
<1>2. CASE m.status # "BUB"
  BY <1>2, FinishParts DEF Same
<1> QED
  BY <1>1, <1>2

\* NOP and a bubble do nothing, whatever they carry.
LEMMA FinishNop ==
    \A s, m : m.status = "BUB" \/ (m.status = "AOK" /\ m.op = "NOP") => Finish(s, m) = s
BY DEF Finish, FormatM, WEnable, FormatRR, FormatRI, FormatI, Selects, RRSetting

-----------------------------------------------------------------------------
(* The operators of the machine are those of the pipeline *)

LEMMA SameDecoding ==
    /\ \A p : Sequential!At(text, p) = At(text, p)
    /\ \A p : Sequential!Norm(text, p) = Norm(text, p)
    /\ \A p : Sequential!AddrInImem(p) = AddrInImem(p)
    /\ \A p, n : Sequential!Plus(p, n) = Plus(p, n)
BY DEF Sequential!At, At, Sequential!FixInstrAliases, FixInstrAliases, Sequential!Itable, Itable,
   Sequential!FormatEC, FormatEC, Sequential!Selects, Selects, Sequential!AliasOf, AliasOf,
   Sequential!Norm, Norm, Sequential!AddrInImem, AddrInImem, Sequential!Plus, Plus

LEMMA SameSignals ==
    /\ \A op : Sequential!SetFlags(op) = SetFlags(op)
    /\ \A op : Sequential!WEnable(op) = WEnable(op)
    /\ Sequential!FormatM = FormatM
BY DEF Sequential!SetFlags, SetFlags, Sequential!WEnable, WEnable, Sequential!RRSetting,
   RRSetting, Sequential!FormatRR, FormatRR, Sequential!FormatRI, FormatRI,
   Sequential!FormatI, FormatI, Sequential!Selects, Selects, Sequential!FormatM, FormatM

LEMMA SameOperands ==
    /\ \A i : Sequential!Src1(i) = Src1(i) /\ Sequential!Src2(i) = Src2(i)
              /\ Sequential!Dst(i) = Dst(i) /\ Sequential!CondOf(i) = CondOf(i)
    /\ \A rs, n : Sequential!RegRead(rs, n) = RegRead(rs, n)
    /\ \A rs, n, v : Sequential!RegWrite(rs, n, v) = RegWrite(rs, n, v)
BY DEF Sequential!Src1, Src1, Sequential!Src2, Src2, Sequential!Dst, Dst, Sequential!CondOf,
   CondOf, Sequential!RegRead, RegRead, Sequential!RegWrite, RegWrite, Sequential!Fixed, Fixed,
   Sequential!RRSetting, RRSetting, Sequential!FormatRR, FormatRR, Sequential!FormatRI, FormatRI,
   Sequential!FormatI, FormatI, Sequential!Selects, Selects, Sequential!LR, LR,
   Sequential!SP, SP, Sequential!XZR, XZR

LEMMA SameExecution ==
    /\ \A x, f : Sequential!CondVal(x, f) = CondVal(x, f)
    /\ \A x, f : Sequential!ValEx(x, f) = ValEx(x, f)
    /\ \A x : Sequential!FlagsOf(x) = FlagsOf(x)
BY DEF Sequential!CondVal, CondVal, Sequential!ValEx, ValEx, Sequential!FlagsOf, FlagsOf,
   Sequential!AluOp, AluOp, Sequential!AluA, AluA, Sequential!AluB, AluB,
   Sequential!CondHolds, CondHolds, Sequential!ValaSel, ValaSel, Sequential!ValbSel, ValbSel,
   Sequential!RRSetting, RRSetting, Sequential!FormatRR, FormatRR, Sequential!Selects, Selects

LEMMA SameMemory ==
    /\ \A m, a : Sequential!LoadValue(m, a) = LoadValue(m, a)
    /\ \A m, a, v : Sequential!Stored(m, a, v) = Stored(m, a, v)
    /\ \A out, a, v : Sequential!Shown(out, a, v) = Shown(out, a, v)
    /\ \A op, a : Sequential!Ends(op, a) = Ends(op, a)
    /\ \A a : Sequential!DmemErr(a) = DmemErr(a)
BY DEF Sequential!LoadValue, LoadValue, Sequential!Stored, Stored, Sequential!Shown, Shown,
   Sequential!Ends, Ends, Sequential!DmemErr, DmemErr, Sequential!AddrInDmem, AddrInDmem,
   Sequential!Special, Special, Sequential!NULL_ADDR, NULL_ADDR,
   Sequential!IO_CHAR_ADDR, IO_CHAR_ADDR, Sequential!CHECKPOINT_ADDR, CHECKPOINT_ADDR,
   Sequential!DmemRead, DmemRead, Sequential!DmemWrite, DmemWrite

LEMMA SameFinish == \A s, m : Sequential!Finish(s, m) = Finish(s, m)
<1> SUFFICES ASSUME NEW s, NEW m PROVE Sequential!Finish(s, m) = Finish(s, m)
  OBVIOUS
<1>1. /\ Sequential!Ends(m.op, m.val_ex) <=> Ends(m.op, m.val_ex)
      /\ Sequential!DmemErr(m.val_ex) <=> DmemErr(m.val_ex)
      /\ Sequential!WEnable(m.op) <=> WEnable(m.op)
      /\ Sequential!Stored(s.mem, m.val_ex, m.val_b) = Stored(s.mem, m.val_ex, m.val_b)
      /\ Sequential!Shown(s.output, m.val_ex, m.val_b) = Shown(s.output, m.val_ex, m.val_b)
      /\ Sequential!RegWrite(s.regs, m.dst, Sequential!LoadValue(s.mem, m.val_ex))
            = RegWrite(s.regs, m.dst, LoadValue(s.mem, m.val_ex))
      /\ Sequential!RegWrite(s.regs, m.dst, m.val_ex) = RegWrite(s.regs, m.dst, m.val_ex)
      /\ Sequential!FormatM = FormatM
  BY SameMemory, SameSignals, SameOperands
<1> QED
  BY <1>1 DEF Sequential!Finish, Finish

LEMMA SameSteps ==
    /\ \A i, p, rs : Sequential!Issued(i, p, rs) = Issued(i, p, rs)
    /\ \A x, f : Sequential!Computed(x, f) = Computed(x, f)
    /\ \A i, p, x, f : Sequential!Successor(i, p, x, f) = Successor(i, p, x, f)
BY SameDecoding, SameOperands, SameExecution DEF Sequential!Issued, Issued,
   Sequential!Computed, Computed, Sequential!Successor, Successor, Sequential!FallsThrough,
   FallsThrough

-----------------------------------------------------------------------------
(* The mapped state *)

\* The machine after the instruction in Execute, except for where it goes on.
AfterX == Finish(AfterM, Computed(X_out, X_nzcvval))

LEMMA ArchStateIs == ArchState = Mapped(AfterM, AfterX)
<1> DEFINE S == UNION {UNION {{Mapped(m, x) : x \in {Finish(m, c)}} : m \in {AfterM}} :
                         c \in {Computed(X_out, X_nzcvval)}}
<1>1. S = {Mapped(AfterM, AfterX)}
  <2>1. {Mapped(AfterM, x) : x \in {AfterX}} = {Mapped(AfterM, AfterX)}
    OBVIOUS
  <2>2. S = UNION {UNION {{Mapped(AfterM, x) : x \in {AfterX}}}}
    BY DEF AfterX
  <2>3. \A T : UNION {UNION {T}} = T
    OBVIOUS
  <2> QED
    BY <2>1, <2>2, <2>3
<1>2. ArchState = CHOOSE a \in S : TRUE
  BY DEF ArchState
<1> QED
  BY <1>1, <1>2

LEMMA ArchStateIsNext == (ArchState = Mapped(AfterM, AfterX))'
BY ArchStateIs, PTL

\* An instruction that Execute has computed.
LEMMA ComputedResult ==
    ASSUME NEW x \in XReg, NEW f \in Flags
    PROVE  /\ Result(Computed(x, f))
           /\ Computed(x, f).op = x.op /\ Computed(x, f).status = x.status
           /\ Computed(x, f).dst = x.dst /\ Computed(x, f).val_b = x.val_b
           /\ Computed(x, f).val_ex = ValEx(x, f)
BY ExecuteTypes DEF Result, Computed, XReg

LEMMA AfterWType ==
    TypeOK => /\ AfterW \in Arch /\ AfterW.regs = Retired /\ AfterW.nzcv = NZCV /\ AfterW.pc = 0
              /\ AfterW.mem = mem /\ AfterW.output = output
              /\ AfterW.status = IF Error(W_out.status) \/ W_out.status = "HLT"
                                 THEN W_out.status ELSE "AOK"
<1> SUFFICES ASSUME TypeOK
             PROVE  /\ AfterW \in Arch /\ AfterW.regs = Retired /\ AfterW.nzcv = NZCV
                    /\ AfterW.pc = 0
                    /\ AfterW.mem = mem /\ AfterW.output = output
                    /\ AfterW.status = IF Error(W_out.status) \/ W_out.status = "HLT"
                                       THEN W_out.status ELSE "AOK"
  OBVIOUS
<1>1. Retired \in [Gpr \cup {SP} -> Word]
  BY RegWriteType DEF Retired, TypeOK, WReg
<1>2. 0 \in Word
  BY WordAssumption, SMT DEF Word
<1>3. (IF Error(W_out.status) \/ W_out.status = "HLT" THEN W_out.status ELSE "AOK") \in ArchStatus
  BY DEF Error, ArchStatus
<1> QED
  BY <1>1, <1>2, <1>3 DEF AfterW, Arch, TypeOK

LEMMA AfterMType ==
    TypeOK => /\ AfterM \in Arch /\ AfterM.nzcv = NZCV /\ AfterM.pc = 0
              /\ AfterM.regs = Finish(AfterW, M_out).regs
              /\ AfterM.mem = Finish(AfterW, M_out).mem
              /\ AfterM.status = Finish(AfterW, M_out).status
              /\ AfterM.output = IF "M" \in ran THEN output
                                 ELSE Finish(AfterW, M_out).output
<1> SUFFICES ASSUME TypeOK
             PROVE  /\ AfterM \in Arch /\ AfterM.nzcv = NZCV /\ AfterM.pc = 0
                    /\ AfterM.regs = Finish(AfterW, M_out).regs
                    /\ AfterM.mem = Finish(AfterW, M_out).mem
                    /\ AfterM.status = Finish(AfterW, M_out).status
                    /\ AfterM.output = IF "M" \in ran THEN output
                                       ELSE Finish(AfterW, M_out).output
  OBVIOUS
<1>1. Result(M_out)
  BY DEF TypeOK, MReg, Result
<1>2. Finish(AfterW, M_out) \in Arch /\ Finish(AfterW, M_out).nzcv = NZCV
      /\ Finish(AfterW, M_out).pc = 0
  BY <1>1, AfterWType, FinishArch
<1>3. output \in Seq(Word)
  BY DEF TypeOK
<1> QED
  BY <1>2, <1>3 DEF AfterM, Arch

LEMMA AfterXType ==
    TypeOK => AfterX \in Arch /\ AfterX.nzcv = NZCV /\ AfterX.pc = 0
BY AfterMType, ComputedResult, FinishArch DEF AfterX, TypeOK

\* The mapped state, part by part.
LEMMA ArchParts ==
    TypeOK => /\ Same(ArchState, AfterX)
              /\ ArchState.pc = Norm(text, MappedPC(AfterM, AfterX))
              /\ ArchState.nzcv = MappedNZCV(AfterX)
BY AfterXType, ArchStateIs DEF Mapped, Same, Arch

LEMMA ArchType == TypeOK => ArchState \in Arch
<1> SUFFICES ASSUME TypeOK PROVE ArchState \in Arch
  OBVIOUS
<1>1. MappedNZCV(AfterX) \in Flags
  BY ExecuteTypes DEF MappedNZCV, TypeOK
<1>2. \A r : r.seq_succ \in Word => PCOf(r) \in Word
  <2>1. W \in Int /\ W - 1 \in Int /\ Word \subseteq Int
    BY WordAssumption, SMT DEF Word
  <2> QED
    BY <2>1, PlusType DEF PCOf
<1>3. SelectPC \in Word /\ 0 \in Word
  BY SelectPCType, WordAssumption, SMT DEF Word
<1>4. MappedPC(AfterM, AfterX) \in Word
  <2>1. X_out.seq_succ \in Word /\ D_out.seq_succ \in Word /\ M_out.seq_succ \in Word
    BY DEF TypeOK, XReg, DReg, MReg
  <2> QED
    BY <1>2, <1>3, <2>1 DEF MappedPC
<1>5. Norm(text, MappedPC(AfterM, AfterX)) \in Word
  BY <1>3, <1>4 DEF Norm
<1> QED
  BY <1>1, <1>5, AfterXType, ArchStateIs DEF Mapped, Arch

\* Two states of the machine with the same parts are the same.
LEMMA ArchEqual ==
    ASSUME NEW s \in Arch, NEW t \in Arch, Same(s, t), s.pc = t.pc, s.nzcv = t.nzcv
    PROVE  s = t
BY DEF Arch, Same

-----------------------------------------------------------------------------
(* The stages keep the invariant *)

\* What a stage does not touch.
LEMMA FetchFrame ==
    ASSUME TypeOK, Fetch
    PROVE  /\ Running /\ "F" \notin ran /\ ran' = ran \cup {"F"}
           /\ UNCHANGED <<text, num_instr, PC, regs, NZCV, status, mem, output, exited>>
           /\ UNCHANGED <<D_out, X_in, X_out, M_in, M_out, W_in, W_out, M_PC, D_src1, D_src2>>
           /\ UNCHANGED <<X_set_flags, X_nzcvval, W_wval, deassert_flags>>
           /\ F_out'.pred_PC = F_out.pred_PC
           /\ SelectPC' = SelectPC
<1>1. "F" \notin ran /\ ran' = ran \cup {"F"} /\ Running
  BY TurnOnce DEF Fetch
<1>2. F_out'.pred_PC = F_out.pred_PC
  BY DEF Fetch, FetchHalt, FetchWord, TypeOK, FReg
<1>3. /\ UNCHANGED <<text, num_instr, PC, regs, NZCV, status, mem, output, exited>>
      /\ UNCHANGED <<D_out, X_in, X_out, M_in, M_out, W_in, W_out, M_PC, D_src1, D_src2>>
      /\ UNCHANGED <<X_set_flags, X_nzcvval, W_wval, deassert_flags>>
  BY DEF Fetch, proc, memory
<1> QED
  BY <1>1, <1>2, <1>3 DEF SelectPC

LEMMA FetchEffect ==
    ASSUME TypeOK, FetchesText, Fetch
    PROVE  /\ dmem' = dmem
           /\ D_in'.status # "BUB" /\ Decoded(D_in)'
           /\ D_in'.status = "HLT" <=> F_in'.status = "HLT"
           /\ F_in'.status = "HLT" <=>
                 (F_in.status = "HLT" \/ SelectPC = 0 \/ HaltAt(SelectPC))
           /\ D_in'.status # "HLT" => PCOf(D_in') = SelectPC
           /\ D_in'.status = "AOK" => F_PC' = PredictPC(SelectPC, D_in'.ins)
<1>1. CASE FetchHalt
  <2>1. D_in'.ins = HaltInstr /\ D_in'.status = "HLT" /\ F_in'.status = "HLT" /\ dmem' = dmem
    BY <1>1 DEF FetchHalt, TypeOK, DReg, FReg
  <2>2. F_in.status = "HLT" \/ SelectPC = 0
    BY <1>1 DEF FetchHalt
  <2> QED
    BY <2>1, <2>2 DEF Decoded, HaltInstr, ZeroInstr
<1>2. CASE FetchWord
  <2>1. ~ThroughCache(SelectPC)
    BY <1>2, FetchFrame DEF FetchesText, FetchWord
  <2>2. PICK w \in Fetched(SelectPC, dmem) :
           LET i == FixInstrAliases(Itable(w))
               s == FetchStatus(SelectPC, i)
           IN /\ D_in' = [ins |-> i, seq_succ |-> Plus(SelectPC, 1), status |-> s]
              /\ F_PC' = PredictPC(SelectPC, i)
              /\ F_in' = [F_in EXCEPT !.status = s]
              /\ dmem' = dmem
    BY <1>2, <2>1 DEF FetchWord, Access
  <2> DEFINE i == FixInstrAliases(Itable(w))
             s == FetchStatus(SelectPC, i)
  <2>3. D_in'.ins = i /\ D_in'.status = s /\ F_in'.status = s /\ PCOf(D_in') = SelectPC
    BY <2>2, AddressOf, SelectPCType DEF PCOf, TypeOK, FReg
  <2>4. AddrInImem(SelectPC) => i = At(text, SelectPC)
    BY <2>2 DEF Fetched, At
  <2>5. /\ s = "AOK" <=> AddrInImem(SelectPC) /\ i.op \notin {"HLT", "ERROR"}
        /\ s = "HLT" <=> AddrInImem(SelectPC) /\ i.op = "HLT"
        /\ s \in {"AOK", "HLT", "INS"}
    BY DEF FetchStatus
  <2>6. SelectPC # 0 /\ F_in.status # "HLT"
    BY <1>2 DEF FetchWord
  <2>7. s = "HLT" <=> HaltAt(SelectPC)
    BY <2>4, <2>5 DEF HaltAt
  <2>8. Decoded(D_in)'
    BY <2>3, <2>4, <2>5, <2>6, FetchFrame DEF Decoded, Defined, PCOf, AddrInImem, At
  <2> HIDE DEF i, s
  <2> QED
    BY <2>2, <2>3, <2>5, <2>6, <2>7, <2>8 DEF i, s
<1> QED
  BY <1>1, <1>2 DEF Fetch

LEMMA FetchKeepsInv == ASSUME TypeOK, FetchesText, Inv, Fetch PROVE Inv'
<1> USE FetchFrame, FetchEffect
<1>1. FetchDone'
  BY DEF FetchDone, PredictPC
<1>2. DecodeDone' /\ ExecuteDone' /\ MemoryDone' /\ WritebackDone' /\ (exited' => "M" \in ran')
  BY DEF Inv, StagesDone, DecodeDone, ExecuteDone, MemoryDone, WritebackDone
<1>3. Shapes'
  BY DEF Inv, Shapes, Decoded, Shape, Placed, Defined, HaltAt, PCOf
<1>4. Halts' /\ HaltSeen'
  BY DEF Inv, Halts, HaltSeen, HaltAt
<1>5. OnPath' /\ Stopped' /\ FlagsKept'
  BY DEF Inv, OnPath, Fallen, Stopped, Faulty, FlagsKept, Agree
<1>6. MissOwned'
  BY DEF Inv, MissOwned, InFlightOwned
<1> QED
  BY <1>1, <1>2, <1>3, <1>4, <1>5, <1>6 DEF Inv, StagesDone

LEMMA DecodeFrame ==
    ASSUME Decode
    PROVE  /\ Running /\ "D" \notin ran /\ ran' = ran \cup {"D"}
           /\ UNCHANGED <<text, num_instr, PC, regs, NZCV, status, mem, output, exited, dmem>>
           /\ UNCHANGED <<F_in, F_out, D_in, D_out, X_out, M_in, M_out, W_in, W_out>>
           /\ UNCHANGED <<F_PC, M_PC, X_set_flags, X_nzcvval, W_wval, deassert_flags>>
BY TurnOnce DEF Decode, proc, memory

LEMMA DecodeKeepsInv == ASSUME TypeOK, Inv, Decode PROVE Inv'
<1> USE DecodeFrame
<1>1. DecodeDone'
  <2>1. PICK s1 \in Choices(Src1(D_out.ins)), s2 \in Choices(Src2(D_out.ins)),
             d \in Choices(Dst(D_out.ins)) :
          /\ X_in' = [op |-> D_out.ins.op, status |-> D_out.status,
                      seq_succ |-> D_out.seq_succ,
                      val_a |-> Read(s1), val_b |-> Read(s2),
                      val_imm |-> IF D_out.ins.op = "BLR" THEN D_out.seq_succ
                                  ELSE D_out.ins.imm,
                      cond |-> CondOf(D_out.ins), dst |-> d]
          /\ D_src1' = s1 /\ D_src2' = s2
    BY DEF Decode
  <2>2. ASSUME D_out.status # "BUB", D_out.ins.op # "ERROR"
        PROVE  s1 = Src1(D_out.ins) /\ s2 = Src2(D_out.ins) /\ d = Dst(D_out.ins)
    BY <2>1, <2>2 DEF Choices, Unset
  <2>3. D_out.status = "AOK" => D_out.ins.op # "ERROR"
    BY DEF Inv, Shapes, Decoded
  <2>4. D_out.status = "BUB" => D_out.ins.op = "NOP"
    BY DEF Inv, Shapes, Decoded
  <2>5. D_out.status = "AOK" /\ D_out.ins.op # "NOP" =>
           Read(s1) = RegRead(regs, s1) /\ Read(s2) = RegRead(regs, s2)
    BY DEF Read
  <2>6. D_out.ins.op = "BL" => Dst(D_out.ins) = LR
    BY DEF Dst, FormatRR, RRSetting, FormatRI, FormatI, Selects
  <2> QED
    BY <2>1, <2>2, <2>3, <2>4, <2>5, <2>6 DEF DecodeDone
<1>2. FetchDone' /\ ExecuteDone' /\ MemoryDone' /\ WritebackDone' /\ (exited' => "M" \in ran')
  BY DEF Inv, StagesDone, FetchDone, ExecuteDone, MemoryDone, WritebackDone, Decoded, Defined,
     PCOf, SelectPC
<1>3. Shapes'
  BY DEF Inv, Shapes, Decoded, Shape, Placed, Defined, HaltAt, PCOf
<1>4. Halts' /\ HaltSeen'
  BY DEF Inv, Halts, HaltSeen, HaltAt, SelectPC
<1>5. OnPath' /\ Stopped' /\ FlagsKept'
  BY DEF Inv, OnPath, Fallen, Stopped, Faulty, FlagsKept, Agree
<1>6. MissOwned'
  BY DEF Inv, MissOwned, InFlightOwned
<1> QED
  BY <1>1, <1>2, <1>3, <1>4, <1>5, <1>6 DEF Inv, StagesDone

LEMMA ExecuteFrame ==
    ASSUME Execute
    PROVE  /\ Running /\ "X" \notin ran /\ ran' = ran \cup {"X"}
           /\ UNCHANGED <<text, num_instr, PC, regs, NZCV, status, mem, output, exited, dmem>>
           /\ UNCHANGED <<F_in, F_out, D_in, D_out, X_in, X_out, M_out, W_in, W_out>>
           /\ UNCHANGED <<F_PC, M_PC, D_src1, D_src2, W_wval, deassert_flags>>
BY TurnOnce DEF Execute, proc, memory

\* What Execute finds does not depend on the flags it sets itself.
LEMMA ExecuteEffect ==
    ASSUME Inv, Execute
    PROVE  /\ X_nzcvval' = IF SetFlags(X_out.op) THEN FlagsOf(X_out) ELSE X_nzcvval
           /\ ~SetFlags(X_out.op) => CondVal(X_out, X_nzcvval') = CondVal(X_out, X_nzcvval)
           /\ ValEx(X_out, X_nzcvval') = ValEx(X_out, X_nzcvval)
<1>1. X_nzcvval' = IF SetFlags(X_out.op) THEN FlagsOf(X_out) ELSE X_nzcvval
  BY DEF Execute, NextFlags
<1>2. CASE SetFlags(X_out.op)
  <2>1. X_out.cond = "AL" /\ X_out.op \notin {"CBZ", "CBNZ"}
    BY <1>2 DEF Inv, Shapes, SetFlags, RRSetting
  <2>2. \A f : CondHolds("AL", f) = TRUE
    BY DEF CondHolds
  <2>3. \A f : CondVal(X_out, f) = TRUE
    BY <2>1, <2>2 DEF CondVal
  <2> QED
    BY <1>1, <1>2, <2>3 DEF ValEx
<1>3. CASE ~SetFlags(X_out.op)
  BY <1>1, <1>3
<1> QED
  BY <1>2, <1>3

LEMMA ExecuteKeepsInv == ASSUME TypeOK, Inv, Execute PROVE Inv'
<1> USE ExecuteFrame
<1>1. ExecuteDone'
  <2>1. /\ M_in' = [op |-> X_out.op, status |-> X_out.status, seq_succ |-> X_out.seq_succ,
                    cond_holds |-> CondVal(X_out, X_nzcvval),
                    val_ex |-> ValEx(X_out, X_nzcvval), val_b |-> X_out.val_b,
                    dst |-> X_out.dst]
        /\ X_set_flags' = SetFlags(X_out.op)
    BY DEF Execute
  <2>2. /\ M_in'.op = X_out.op /\ M_in'.status = X_out.status
        /\ M_in'.seq_succ = X_out.seq_succ /\ M_in'.val_b = X_out.val_b
        /\ M_in'.dst = X_out.dst /\ M_in'.val_ex = ValEx(X_out, X_nzcvval)
        /\ M_in'.cond_holds = CondVal(X_out, X_nzcvval)
    BY <2>1
  <2> QED
    BY <2>1, <2>2, ExecuteEffect DEF ExecuteDone
<1>2. FetchDone' /\ DecodeDone' /\ MemoryDone' /\ WritebackDone' /\ (exited' => "M" \in ran')
  BY DEF Inv, StagesDone, FetchDone, DecodeDone, MemoryDone, WritebackDone, Decoded, Defined,
     PCOf, SelectPC
<1>3. Shapes'
  BY DEF Inv, Shapes, Decoded, Shape, Placed, Defined, HaltAt, PCOf
<1>4. Halts' /\ HaltSeen'
  BY DEF Inv, Halts, HaltSeen, HaltAt, SelectPC
<1>5. OnPath' /\ Stopped'
  BY DEF Inv, OnPath, Fallen, Stopped, Faulty
<1>6. FlagsKept'
  BY ExecuteEffect DEF Inv, FlagsKept, Agree
<1>7. MissOwned'
  BY DEF Inv, MissOwned, InFlightOwned
<1> QED
  BY <1>1, <1>2, <1>3, <1>4, <1>5, <1>6, <1>7 DEF Inv, StagesDone

LEMMA WritebackFrame ==
    ASSUME TypeOK, Inv, Writeback
    PROVE  /\ Running /\ "W" \notin ran /\ ran' = ran \cup {"W"}
           /\ UNCHANGED <<text, num_instr, PC, regs, NZCV, status, mem, output, exited, dmem>>
           /\ UNCHANGED <<F_in, F_out, D_in, D_out, X_in, X_out, M_in, M_out, W_in, W_out>>
           /\ UNCHANGED <<F_PC, M_PC, D_src1, D_src2, X_set_flags, X_nzcvval, deassert_flags>>
<1>1. W_out' = W_out
  BY DEF Writeback, DstSel, Inv, Shapes, Shape, TypeOK, WReg
<1> QED
  BY <1>1, TurnOnce DEF Writeback, proc, memory

LEMMA WritebackKeepsInv == ASSUME TypeOK, Inv, Writeback PROVE Inv'
<1> USE WritebackFrame
<1>1. WritebackDone'
  BY DEF Writeback, WritebackDone
<1>2. FetchDone' /\ DecodeDone' /\ ExecuteDone' /\ MemoryDone' /\ (exited' => "M" \in ran')
  BY DEF Inv, StagesDone, FetchDone, DecodeDone, ExecuteDone, MemoryDone, Decoded, Defined,
     PCOf, SelectPC
<1>3. Shapes'
  BY DEF Inv, Shapes, Decoded, Shape, Placed, Defined, HaltAt, PCOf
<1>4. Halts' /\ HaltSeen'
  BY DEF Inv, Halts, HaltSeen, HaltAt, SelectPC
<1>5. OnPath' /\ Stopped' /\ FlagsKept'
  BY DEF Inv, OnPath, Fallen, Stopped, Faulty, FlagsKept, Agree
<1>6. MissOwned'
  BY DEF Inv, MissOwned, InFlightOwned
<1> QED
  BY <1>1, <1>2, <1>3, <1>4, <1>5, <1>6 DEF Inv, StagesDone

LEMMA MemoryFrame ==
    ASSUME Memory
    PROVE  /\ Running /\ "M" \notin ran /\ ran' = ran \cup {"M"}
           /\ UNCHANGED <<text, num_instr, PC, regs, NZCV, status>>
           /\ UNCHANGED <<F_in, F_out, D_in, D_out, X_in, X_out, M_in, M_out, W_out>>
           /\ UNCHANGED <<F_PC, D_src1, D_src2, X_set_flags, X_nzcvval, W_wval, deassert_flags>>
BY TurnOnce DEF Memory, proc

\* An access that the cache does not complete is counted as its own.
LEMMA AccessOwned ==
    ASSUME TypeOK, MissOwned, NEW d \in IF M_out.op \in FormatM THEN Access(M_out.val_ex)
                                        ELSE {dmem},
           d.status = "IN_FLIGHT"
    PROVE  /\ M_out.op \in FormatM /\ ThroughCache(M_out.val_ex)
           /\ d.inflight /\ d.cycles \in 1 .. Delay - 1 /\ d.addr = Block(M_out.val_ex)
<1>1. CASE d = dmem
  BY <1>1 DEF MissOwned, InFlightOwned
<1>2. CASE d # dmem
  <2>1. M_out.op \in FormatM /\ ThroughCache(M_out.val_ex) /\ d \in Touched(Block(M_out.val_ex))
    BY <1>2 DEF Access
  <2> DEFINE b == Block(M_out.val_ex)
             left == (IF dmem.inflight /\ dmem.addr = b THEN dmem.cycles ELSE Delay) - 1
  <2>2. left > 0 /\ d = [status |-> "IN_FLIGHT", inflight |-> TRUE, addr |-> b,
                         cycles |-> left, lines |-> dmem.lines]
    <3>1. CASE b \in dmem.lines
      BY <2>1, <3>1 DEF Touched, TypeOK, DmemState
    <3>2. CASE b \notin dmem.lines /\ left > 0
      BY <2>1, <3>2 DEF Touched
    <3>3. CASE b \notin dmem.lines /\ ~(left > 0)
      BY <2>1, <3>3 DEF Touched
    <3> QED
      BY <3>1, <3>2, <3>3
  <2>3. dmem.cycles \in 0 .. Delay /\ Delay \in Nat
    BY CacheAssumption DEF TypeOK, DmemState
  <2>4. left \in 1 .. Delay - 1
    BY <2>2, <2>3, SMT
  <2> HIDE DEF left, b
  <2>5. d.inflight /\ d.cycles = left /\ d.addr = b
    BY <2>2 DEF TypeOK, DmemState
  <2> QED
    BY <2>1, <2>4, <2>5 DEF b
<1> QED
  BY <1>1, <1>2

\* What a call of dmem does, whatever the cache answers.
LEMMA MemoryEffect ==
    ASSUME TypeOK, MissOwned, Memory
    PROVE  LET store == M_out.op = "STUR" /\ dmem'.status = "READY" IN
           /\ W_in'.op = M_out.op /\ W_in'.dst = M_out.dst /\ W_in'.val_ex = M_out.val_ex
           /\ W_in'.status = IF M_out.op \in FormatM /\ DmemErr(M_out.val_ex) THEN "ADR"
                             ELSE M_out.status
           /\ Error(W_in'.status) => M_PC' = PCOf(M_out)
           /\ exited' <=> (M_out.op \in FormatM /\ Ends(M_out.op, M_out.val_ex))
           /\ mem' = IF store THEN Stored(mem, M_out.val_ex, M_out.val_b) ELSE mem
           /\ output' = IF store THEN Shown(output, M_out.val_ex, M_out.val_b) ELSE output
           /\ M_out.op = "LDUR" /\ dmem'.status = "READY" =>
                 W_in'.val_mem = LoadValue(mem, M_out.val_ex)
           /\ dmem'.status = "IN_FLIGHT" =>
                 /\ M_out.op \in FormatM /\ ThroughCache(M_out.val_ex)
                 /\ dmem'.inflight /\ dmem'.cycles \in 1 .. Delay - 1
                 /\ dmem'.addr = Block(M_out.val_ex)
<1> DEFINE a == M_out.val_ex
           isMem == M_out.op \in FormatM
           s == IF isMem /\ DmemErr(a) THEN "ADR" ELSE M_out.status
<1>1. PICK d \in IF isMem THEN Access(a) ELSE {dmem} :
         LET done == isMem /\ ~Waits(a, d)
         IN /\ dmem' = d
            /\ mem' = IF done /\ DmemWrite(M_out.op) THEN Stored(mem, a, M_out.val_b) ELSE mem
            /\ output' = IF done /\ DmemWrite(M_out.op) THEN Shown(output, a, M_out.val_b)
                         ELSE output
            /\ W_in' = [op |-> M_out.op, status |-> s, dst |-> M_out.dst,
                        val_ex |-> M_out.val_ex,
                        val_mem |-> IF ~DmemRead(M_out.op) THEN W_in.val_mem
                                    ELSE IF done THEN LoadValue(mem, a) ELSE 0]
  BY DEF Memory
<1>2. /\ exited' = (isMem /\ Ends(M_out.op, a))
      /\ M_PC' = IF s \in {"ADR", "INS"} THEN PCOf(M_out) ELSE M_PC
  BY DEF Memory, PCOf
<1>3. d.status \in {"READY", "IN_FLIGHT"}
  <2>1. dmem \in DmemState /\ a \in Word
    BY DEF TypeOK, MReg
  <2>2. d \in DmemState
    BY <2>1, AccessType
  <2> QED
    BY <2>2 DEF DmemState
<1>4. d.status = "IN_FLIGHT" =>
         /\ isMem /\ ThroughCache(a)
         /\ d.inflight /\ d.cycles \in 1 .. Delay - 1 /\ d.addr = Block(a)
  BY AccessOwned
<1>5. isMem => (Waits(a, d) <=> d.status = "IN_FLIGHT")
  BY <1>4 DEF Waits
<1>6. (M_out.op = "STUR" <=> DmemWrite(M_out.op)) /\ (M_out.op = "LDUR" <=> DmemRead(M_out.op))
      /\ FormatM = {"LDUR", "STUR"}
  BY DEF DmemWrite, DmemRead, FormatM
<1>7. W_in'.op = M_out.op /\ W_in'.dst = M_out.dst /\ W_in'.val_ex = a /\ W_in'.status = s
      /\ (M_out.op = "LDUR" /\ d.status = "READY" => W_in'.val_mem = LoadValue(mem, a))
  BY <1>1, <1>3, <1>5, <1>6
<1>8. Error(s) => M_PC' = PCOf(M_out)
  BY <1>2 DEF Error
<1> HIDE DEF a
<1>9. /\ mem' = IF M_out.op = "STUR" /\ d.status = "READY" THEN Stored(mem, a, M_out.val_b)
                ELSE mem
      /\ output' = IF M_out.op = "STUR" /\ d.status = "READY" THEN Shown(output, a, M_out.val_b)
                   ELSE output
  BY <1>1, <1>3, <1>5, <1>6
<1> QED
  BY <1>1, <1>2, <1>4, <1>7, <1>8, <1>9 DEF a

LEMMA MemoryKeepsInv == ASSUME TypeOK, Inv, Memory PROVE Inv'
<1> USE MemoryFrame
<1> USE MemoryEffect
<1>0. MissOwned
  BY DEF Inv
<1>1. MemoryDone'
  <2>1. M_out.val_ex \in Word /\ M_out.val_b \in Word /\ mem \in [Word -> Word]
    BY DEF TypeOK, MReg
  <2>2. PCOf(M_out)' = PCOf(M_out)
    BY DEF PCOf
  <2>3. M_out.op = "STUR" /\ dmem'.status = "READY" =>
           mem' = Stored(mem', M_out.val_ex, M_out.val_b)
    BY <1>0, <2>1, StoredTwice
  <2>4. M_out.op = "LDUR" => mem' = mem
    BY <1>0
  <2> QED
    BY <1>0, <2>2, <2>3, <2>4 DEF MemoryDone
<1>2. FetchDone' /\ DecodeDone' /\ ExecuteDone' /\ WritebackDone' /\ (exited' => "M" \in ran')
  BY DEF Inv, StagesDone, FetchDone, DecodeDone, ExecuteDone, WritebackDone, Decoded, Defined,
     PCOf, SelectPC
<1>3. Shapes'
  BY DEF Inv, Shapes, Decoded, Shape, Placed, Defined, HaltAt, PCOf
<1>4. Halts' /\ HaltSeen'
  BY DEF Inv, Halts, HaltSeen, HaltAt, SelectPC
<1>5. OnPath' /\ Stopped' /\ FlagsKept'
  BY DEF Inv, OnPath, Fallen, Stopped, Faulty, FlagsKept, Agree, PCOf
<1>6. MissOwned'
  BY <1>0 DEF MissOwned, InFlightOwned
<1> QED
  BY <1>1, <1>2, <1>3, <1>4, <1>5, <1>6 DEF Inv, StagesDone

-----------------------------------------------------------------------------
(* No stage takes a step of the machine *)

\* The facts of the abstraction, after a step.
LEMMA PartsNext ==
    TypeOK' =>
        /\ (AfterW \in Arch /\ AfterM \in Arch /\ AfterX \in Arch /\ ArchState \in Arch)'
        /\ (AfterW.regs = Retired /\ AfterW.mem = mem /\ AfterW.output = output)'
        /\ (AfterW.status = IF Error(W_out.status) \/ W_out.status = "HLT"
                            THEN W_out.status ELSE "AOK")'
        /\ (AfterM.pc = 0 /\ AfterM.nzcv = NZCV /\ AfterX.pc = 0 /\ AfterX.nzcv = NZCV)'
        /\ (AfterM.regs = Finish(AfterW, M_out).regs)'
        /\ (AfterM.mem = Finish(AfterW, M_out).mem)'
        /\ (AfterM.status = Finish(AfterW, M_out).status)'
        /\ (AfterM.output = IF "M" \in ran THEN output ELSE Finish(AfterW, M_out).output)'
        /\ Same(ArchState, AfterX)'
        /\ (ArchState.pc = Norm(text, MappedPC(AfterM, AfterX)))'
        /\ (ArchState.nzcv = MappedNZCV(AfterX))'
BY AfterWType, AfterMType, AfterXType, ArchParts, ArchType, PTL

\* What Norm hides.
LEMMA NormHalt == Norm(text, 0) = 0 /\ \A p : HaltAt(p) => Norm(text, p) = 0
BY SegmentAssumption, SMT DEF Norm, HaltAt, AddrInImem, Word

LEMMA ArchUnchanged ==
    ASSUME UNCHANGED <<text, AfterM, AfterX, X_out, NZCV>>,
           Norm(text, MappedPC(AfterM, AfterX)') = Norm(text, MappedPC(AfterM, AfterX))
    PROVE  UNCHANGED <<text, ArchState>>
<1>1. ArchState' = [AfterX' EXCEPT !.pc = Norm(text', MappedPC(AfterM, AfterX)'),
                                   !.nzcv = MappedNZCV(AfterX)']
  BY ArchStateIsNext DEF Mapped
<1>2. MappedNZCV(AfterX)' = MappedNZCV(AfterX)
  BY DEF MappedNZCV
<1>3. ArchState = [AfterX EXCEPT !.pc = Norm(text, MappedPC(AfterM, AfterX)),
                                 !.nzcv = MappedNZCV(AfterX)]
  BY ArchStateIs DEF Mapped
<1> QED
  BY <1>1, <1>2, <1>3

LEMMA AfterMUnchanged ==
    ASSUME UNCHANGED <<regs, NZCV, mem, output, W_out, M_out>>, "M" \in ran' <=> "M" \in ran
    PROVE  AfterM' = AfterM
BY DEF AfterM, AfterW, Retired

LEMMA FetchStutters == ASSUME TypeOK, FetchesText, Fetch PROVE UNCHANGED <<text, ArchState>>
<1> USE FetchFrame
<1>1. AfterM' = AfterM
  BY AfterMUnchanged
<1>2. AfterX' = AfterX
  BY <1>1 DEF AfterX
<1>3. F_in'.status = "HLT" <=> F_in.status = "HLT" \/ SelectPC = 0 \/ HaltAt(SelectPC)
  BY FetchEffect
<1>4. Norm(text, MappedPC(AfterM, AfterX)') = Norm(text, MappedPC(AfterM, AfterX))
  BY <1>1, <1>2, <1>3, NormHalt DEF MappedPC, PCOf
<1> QED
  BY <1>1, <1>2, <1>4, ArchUnchanged

LEMMA DecodeStutters == ASSUME Decode PROVE UNCHANGED <<text, ArchState>>
<1> USE DecodeFrame
<1>1. AfterM' = AfterM
  BY AfterMUnchanged
<1>2. AfterX' = AfterX
  BY <1>1 DEF AfterX
<1>3. MappedPC(AfterM, AfterX)' = MappedPC(AfterM, AfterX)
  BY <1>1, <1>2 DEF MappedPC, PCOf, SelectPC
<1> QED
  BY <1>1, <1>2, <1>3, ArchUnchanged

LEMMA ExecuteStutters == ASSUME Inv, Execute PROVE UNCHANGED <<text, ArchState>>
<1> USE ExecuteFrame
<1>1. AfterM' = AfterM
  BY AfterMUnchanged
<1>2. AfterX' = AfterX
  BY <1>1, ExecuteEffect DEF AfterX, Computed
<1>3. FallsThrough(X_out, X_nzcvval') <=> FallsThrough(X_out, X_nzcvval)
  <2>1. X_out.op \in CondBranches => ~SetFlags(X_out.op)
    BY DEF CondBranches, SetFlags, RRSetting
  <2> QED
    BY <2>1, ExecuteEffect DEF FallsThrough, CondBranches
<1>4. MappedPC(AfterM, AfterX)' = MappedPC(AfterM, AfterX)
  BY <1>1, <1>2, <1>3 DEF MappedPC, PCOf, SelectPC
<1> QED
  BY <1>1, <1>2, <1>4, ArchUnchanged

LEMMA WritebackStutters == ASSUME TypeOK, Inv, Writeback PROVE UNCHANGED <<text, ArchState>>
<1> USE WritebackFrame
<1>1. AfterM' = AfterM
  BY AfterMUnchanged
<1>2. AfterX' = AfterX
  BY <1>1 DEF AfterX
<1>3. MappedPC(AfterM, AfterX)' = MappedPC(AfterM, AfterX)
  BY <1>1, <1>2 DEF MappedPC, PCOf, SelectPC
<1> QED
  BY <1>1, <1>2, <1>3, ArchUnchanged

\* A store that reaches memory is one that the machine makes.
LEMMA StoreIsMade ==
    ASSUME TypeOK, Inv, StoresInBounds, M_out.op = "STUR"
    PROVE  M_out.status = "AOK" /\ ~DmemErr(M_out.val_ex) /\ AfterW.status = "AOK"
<1>1. M_out.status = "AOK" /\ ~DmemErr(M_out.val_ex)
  BY DEF StoresInBounds, FormatM
<1>2. W_out.status # "HLT" /\ ~Error(W_out.status)
  BY <1>1 DEF Inv, Halts, Stopped, Faulty, Error
<1> QED
  BY <1>1, <1>2, AfterWType

\* Memory performs what the abstraction had already done.
LEMMA MemoryStutters ==
    ASSUME TypeOK, TypeOK', Inv, StoresInBounds, Memory PROVE UNCHANGED <<text, ArchState>>
<1> USE MemoryFrame
<1> DEFINE a == M_out.val_ex
           v == M_out.val_b
           s == Finish(AfterW, M_out)
           t == Finish(AfterW', M_out)
<1>0. Result(M_out) /\ AfterW \in Arch /\ AfterW' \in Arch /\ a \in Word /\ v \in Word
      /\ mem \in [Word -> Word]
  BY AfterWType, PartsNext DEF TypeOK, MReg, Result
<1>1. /\ AfterW.mem = mem /\ AfterW.output = output
      /\ AfterW'.mem = mem' /\ AfterW'.output = output'
      /\ AfterW'.regs = AfterW.regs /\ AfterW'.status = AfterW.status
  BY AfterWType, PartsNext DEF Retired
<1>2. MissOwned
  BY DEF Inv
<1>3. ~WEnable("STUR")
  BY DEF WEnable, FormatRR, FormatRI, FormatI, Selects, RRSetting
<1>4. t.regs = s.regs /\ t.status = s.status /\ t.mem = s.mem /\ output' = s.output
  <2>1. CASE M_out.op # "STUR"
    <3>1. mem' = mem /\ output' = output
      BY <1>2, <2>1, MemoryEffect
    <3> QED
      BY <1>0, <1>1, <2>1, <3>1, FinishParts
  <2>2. CASE M_out.op = "STUR"
    <3>1. M_out.status = "AOK" /\ ~DmemErr(a) /\ AfterW.status = "AOK"
      BY <2>2, StoreIsMade
    <3>2. M_out.op \in FormatM
      BY <2>2 DEF FormatM
    <3>3. CASE dmem'.status = "READY"
      <4>1. mem' = Stored(mem, a, v) /\ output' = Shown(output, a, v)
        BY <1>2, <2>2, <3>3, MemoryEffect
      <4>2. Stored(mem', a, v) = mem'
        BY <1>0, <4>1, StoredTwice
      <4>3. CASE Ends(M_out.op, a)
        <5>1. mem' = mem /\ output' = output
          BY <4>1, <4>3, TrapFacts DEF Shown
        <5> QED
          BY <1>0, <1>1, <1>3, <2>2, <3>1, <3>2, <4>3, <5>1, FinishParts
      <4>4. CASE ~Ends(M_out.op, a)
        BY <1>0, <1>1, <1>3, <2>2, <3>1, <3>2, <4>1, <4>2, <4>4, FinishParts
      <4> QED
        BY <4>3, <4>4
    <3>4. CASE dmem'.status # "READY"
      <4>1. mem' = mem /\ output' = output
        BY <1>2, <2>2, <3>4, MemoryEffect
      <4>2. ThroughCache(a)
        BY <1>2, <3>4, MemoryEffect DEF TypeOK, DmemState
      <4>3. Shown(output, a, v) = output
        BY <4>2, TrapFacts
      <4> QED
        BY <1>0, <1>1, <1>3, <2>2, <3>1, <3>2, <4>1, <4>3, FinishParts
    <3> QED
      BY <3>3, <3>4
  <2> QED
    BY <2>1, <2>2
<1>5. AfterM' = AfterM
  <2>1. AfterM \in Arch /\ AfterM' \in Arch /\ AfterM.pc = AfterM'.pc /\ AfterM.nzcv = AfterM'.nzcv
    BY AfterMType, PartsNext
  <2>2. AfterM.regs = s.regs /\ AfterM.mem = s.mem /\ AfterM.status = s.status
        /\ AfterM.output = s.output
    BY AfterMType
  <2>3. AfterM'.regs = t.regs /\ AfterM'.mem = t.mem /\ AfterM'.status = t.status
        /\ AfterM'.output = output'
    BY PartsNext
  <2> HIDE DEF s, t
  <2>4. Same(AfterM, AfterM')
    BY <1>4, <2>2, <2>3 DEF Same
  <2> QED
    BY <2>1, <2>4, ArchEqual
<1>6. AfterX' = AfterX
  BY <1>5 DEF AfterX
<1>7. MappedPC(AfterM, AfterX)' = MappedPC(AfterM, AfterX)
  BY <1>5, <1>6 DEF MappedPC, PCOf, SelectPC
<1> QED
  BY <1>5, <1>6, <1>7, ArchUnchanged

-----------------------------------------------------------------------------
(* The clock edge keeps the invariant *)

\* What the edge leaves in the registers that the next cycle reads.
Edge(pred, d, x, m, w) ==
    F_out'.pred_PC = pred /\ D_out' = d /\ X_out' = x /\ M_out' = m /\ W_out' = w

\* Nothing is wrong, and nothing is waited for.
Smooth == ~AnyError /\ dmem.status = "READY"

LEMMA EdgeFrame ==
    ASSUME TypeOK, EndCycle
    PROVE  /\ Running /\ {"F", "D", "X", "M", "W"} \subseteq ran /\ ran = Stages /\ ran' = {}
           /\ UNCHANGED <<text, mem, output, exited, dmem, X_nzcvval, X_set_flags>>
           /\ F_in'.status = F_in.status
           /\ status' = W_out.status
           /\ deassert_flags' = (deassert_flags \/ AnyError)
           /\ NZCV' = IF X_set_flags /\ ~deassert_flags' THEN X_nzcvval ELSE NZCV
           /\ regs' = IF WEnable(W_out.op) /\ W_out.status = "AOK"
                      THEN RegWrite(regs, W_out.dst, W_wval) ELSE regs
           /\ PC' = IF Error(W_in.status) THEN M_PC ELSE F_PC
           /\ ForwardedX.op = X_in.op /\ ForwardedX.status = X_in.status
           /\ ForwardedX.seq_succ = X_in.seq_succ /\ ForwardedX.cond = X_in.cond
           /\ ForwardedX.dst = X_in.dst /\ ForwardedX.val_imm = X_in.val_imm
           /\ ForwardedX.val_a = Forward(D_src1, X_in.val_a)
           /\ ForwardedX.val_b = Forward(D_src2, X_in.val_b)
<1>1. F_in'.status = F_in.status
  BY DEF EndCycle, TypeOK, FReg
<1>2. /\ ForwardedX.op = X_in.op /\ ForwardedX.status = X_in.status
      /\ ForwardedX.seq_succ = X_in.seq_succ /\ ForwardedX.cond = X_in.cond
      /\ ForwardedX.dst = X_in.dst /\ ForwardedX.val_imm = X_in.val_imm
      /\ ForwardedX.val_a = Forward(D_src1, X_in.val_a)
      /\ ForwardedX.val_b = Forward(D_src2, X_in.val_b)
  BY DEF ForwardedX, TypeOK, XReg
<1> QED
  BY <1>1, <1>2 DEF EndCycle, Stages, memory, NextPC

\* The two checks for a branch that falls through.
LEMMA FallenSeen ==
    ASSUME Inv, "X" \in ran
    PROVE  /\ Fallen(M_in) <=> CheckMispredBranch \/ CheckCB
           /\ Fallen(M_in) <=> FallsThrough(X_out, X_nzcvval)
<1>1. X_out.op \in CondBranches => ~SetFlags(X_out.op)
  BY DEF CondBranches, SetFlags, RRSetting
<1>2. M_in.op = X_out.op /\ (X_out.op \in CondBranches =>
                                M_in.cond_holds = CondVal(X_out, X_nzcvval))
  BY <1>1 DEF Inv, StagesDone, ExecuteDone
<1> QED
  BY <1>2 DEF Fallen, CondBranches, CheckMispredBranch, CheckCB, FallsThrough

\* handle_hazards, case by case.
LEMMA EdgeCases ==
    ASSUME TypeOK, Inv, NoShadowedBranch, NoOvertaking, EndCycle
    PROVE  \/ /\ Error(W_out.status)
              /\ Edge(F_out.pred_PC, D_out, X_out, M_out, W_out)
           \/ /\ ~Error(W_out.status) /\ Error(W_in.status)
              /\ Edge(F_out.pred_PC, D_out, X_out, M_out, W_in)
           \/ /\ ~Error(W_out.status) /\ ~Error(W_in.status) /\ Error(M_in.status)
              /\ dmem.status = "READY"
              /\ Edge(F_out.pred_PC, D_out, X_out, M_in, W_in)
           \/ /\ ~AnyError /\ dmem.status = "IN_FLIGHT"
              /\ Edge(F_out.pred_PC, D_out, X_out, M_out, WZero)
           \/ /\ Smooth /\ CheckLoadUse
              /\ Edge(F_out.pred_PC, D_out, XZero, M_in, W_in)
           \/ /\ Smooth /\ ~CheckLoadUse /\ Fallen(M_in)
              /\ Edge(F_out'.pred_PC, DZero, XZero, M_in, W_in)
           \/ /\ Smooth /\ ~CheckLoadUse /\ ~Fallen(M_in) /\ D_out.ins.op \in Returns
              /\ Edge(F_out'.pred_PC, DZero, ForwardedX, M_in, W_in)
           \/ /\ Smooth /\ ~CheckLoadUse /\ ~Fallen(M_in) /\ D_out.ins.op \notin Returns
              /\ Edge(F_PC, D_in, ForwardedX, M_in, W_in)
<1> DEFINE c == HandleHazards
<1>1. /\ F_out' = Latched(c.F, [F_in EXCEPT !.pred_PC = NextPC], F_out, FZero)
      /\ D_out' = Latched(c.D, D_in, D_out, DZero)
      /\ X_out' = Latched(c.X, ForwardedX, X_out, XZero)
      /\ M_out' = Latched(c.M, M_in, M_out, MZero)
      /\ W_out' = Latched(c.W, W_in, W_out, WZero)
      /\ ran = Stages /\ "X" \in ran
  BY DEF EndCycle, Stages
<1>2. dmem.status \in {"READY", "IN_FLIGHT"}
  BY DEF TypeOK, DmemState
<1>3. [F_in EXCEPT !.pred_PC = NextPC].pred_PC = NextPC
  BY DEF TypeOK, FReg
<1> HIDE DEF c
<1>4. CASE AnyError
  <2>1. c = ErrorControl
    BY <1>4 DEF c, HandleHazards
  <2>2. CASE Error(W_out.status)
    BY <1>1, <2>1, <2>2 DEF ErrorControl, Control, Latched, Edge
  <2>3. CASE ~Error(W_out.status) /\ Error(W_in.status)
    BY <1>1, <2>1, <2>3 DEF ErrorControl, Control, Latched, Edge
  <2>4. CASE ~Error(W_out.status) /\ ~Error(W_in.status)
    <3>1. Error(M_in.status) /\ dmem.status = "READY"
      BY <1>1, <1>2, <1>4, <2>4 DEF AnyError, NoOvertaking
    <3> QED
      BY <1>1, <2>1, <2>4, <3>1 DEF ErrorControl, Control, Latched, Edge
  <2> QED
    BY <2>2, <2>3, <2>4
<1>5. CASE ~AnyError
  <2>1. c = HazardControl
    BY <1>5 DEF c, HandleHazards
  <2>2. CASE dmem.status = "IN_FLIGHT"
    <3>1. c = OnMiss
      BY <2>1, <2>2 DEF HazardControl, Hazards
    <3> QED
      BY <1>1, <1>5, <2>2, <3>1 DEF OnMiss, Control, Latched, Edge
  <2>3. CASE Smooth /\ CheckLoadUse
    <3>1. c = OnLoadUse
      BY <2>1, <2>3 DEF HazardControl, Hazards, Smooth
    <3> QED
      BY <1>1, <2>3, <3>1 DEF OnLoadUse, Control, Latched, Edge
  <2>4. CASE Smooth /\ ~CheckLoadUse /\ Fallen(M_in)
    <3>1. (CheckMispredBranch \/ CheckCB) /\ ~(CheckRet /\ CheckCB)
      BY <1>1, <2>4, FallenSeen DEF NoShadowedBranch
    <3>2. c = OnMispredict
      BY <2>1, <2>4, <3>1 DEF HazardControl, Hazards, Smooth
    <3> QED
      BY <1>1, <2>4, <3>2 DEF OnMispredict, Control, Latched, Edge
  <2>5. CASE Smooth /\ ~CheckLoadUse /\ ~Fallen(M_in)
    <3>1. ~CheckMispredBranch /\ ~CheckCB
      BY <1>1, <2>5, FallenSeen
    <3>2. D_out.ins.op \in Returns <=> CheckRet \/ CheckBR
      BY DEF Returns, CheckRet, CheckBR
    <3>3. CASE D_out.ins.op \in Returns
      <4>1. c.D = "BUBBLE" /\ c.X = "LOAD" /\ c.M = "LOAD" /\ c.W = "LOAD"
        BY <2>1, <2>5, <3>1, <3>2, <3>3 DEF HazardControl, Hazards, Smooth, Control
      <4> QED
        BY <1>1, <2>5, <3>3, <4>1 DEF Latched, Edge
    <3>4. CASE D_out.ins.op \notin Returns
      <4>1. c = Control("LOAD", "LOAD", "LOAD", "LOAD", "LOAD")
        BY <2>1, <2>5, <3>1, <3>2, <3>4 DEF HazardControl, Hazards, Smooth
      <4>2. NextPC = F_PC
        BY <2>5 DEF NextPC, Smooth, AnyError
      <4> QED
        BY <1>1, <1>3, <2>5, <3>4, <4>1, <4>2 DEF Control, Latched, Edge
    <3> QED
      BY <3>3, <3>4
  <2> QED
    BY <1>2, <1>5, <2>2, <2>3, <2>4, <2>5 DEF Smooth
<1> QED
  BY <1>4, <1>5

LEMMA EdgeShapes == ASSUME TypeOK, Inv, NoShadowedBranch, NoOvertaking, EndCycle PROVE Shapes'
<1> USE EdgeFrame
<1>1. Decoded(D_out)'
  <2>1. D_out' \in {D_out, D_in, DZero}
    BY EdgeCases DEF Edge
  <2>2. Decoded(D_out) /\ Decoded(D_in)
    BY DEF Inv, Shapes, StagesDone, FetchDone
  <2>3. Decoded(DZero)
    BY DEF Decoded, DZero, ZeroInstr
  <2>4. \A d : Decoded(d) =>
           /\ d.status = "AOK" => /\ AddrInImem(PCOf(d)) /\ d.ins = At(text', PCOf(d))
                                  /\ d.ins.op \notin {"HLT", "ERROR"}
           /\ d.status = "INS" => PCOf(d) # 0 /\ ~(AddrInImem(PCOf(d))
                                                   /\ At(text', PCOf(d)).op # "ERROR")
           /\ d.status = "HLT" => d.ins.op = "HLT"
           /\ d.status = "BUB" => d.ins.op = "NOP"
           /\ d.status # "ADR"
    BY DEF Decoded, Defined
  <2> QED
    BY <2>1, <2>2, <2>3, <2>4 DEF Decoded, Defined, PCOf
<1>2. Shape(X_out)' /\ Placed(X_out)' /\ (SetFlags(X_out.op) => X_out.cond = "AL")'
  <2>1. X_out' \in {X_out, ForwardedX, XZero}
    BY EdgeCases DEF Edge
  <2>2. /\ Shape(X_out) /\ Placed(X_out)
        /\ SetFlags(X_out.op) => X_out.cond = "AL"
    BY DEF Inv, Shapes
  <2>3. /\ Shape(XZero) /\ Placed(XZero)
        /\ SetFlags(XZero.op) => XZero.cond = "AL"
    BY DEF Shape, Placed, XZero, SetFlags, RRSetting
  <2>4. /\ X_in.op = D_out.ins.op /\ X_in.status = D_out.status
        /\ X_in.seq_succ = D_out.seq_succ /\ X_in.cond = CondOf(D_out.ins)
        /\ X_in.op = "BL" => X_in.dst = LR
    BY DEF Inv, StagesDone, DecodeDone
  <2>5. Decoded(D_out)
    BY DEF Inv, Shapes
  <2>6. /\ Shape(ForwardedX)
        /\ SetFlags(ForwardedX.op) => ForwardedX.cond = "AL"
    BY <2>4, <2>5 DEF Shape, Decoded, CondOf, SetFlags, RRSetting, Selects
  <2>7. Placed(ForwardedX)
    BY <2>4, <2>5 DEF Placed, Decoded, Defined, HaltAt, PCOf
  <2> QED
    BY <2>1, <2>2, <2>3, <2>6, <2>7 DEF Shape, Placed, HaltAt, PCOf
<1>3. Shape(M_out)' /\ Placed(M_out)'
  <2>1. M_out' \in {M_out, M_in}
    BY EdgeCases DEF Edge
  <2>2. Shape(X_out) /\ Placed(X_out) /\ Shape(M_out) /\ Placed(M_out)
    BY DEF Inv, Shapes
  <2>3. M_in.op = X_out.op /\ M_in.status = X_out.status /\ M_in.seq_succ = X_out.seq_succ
        /\ M_in.dst = X_out.dst
    BY DEF Inv, StagesDone, ExecuteDone
  <2> QED
    BY <2>1, <2>2, <2>3 DEF Shape, Placed, HaltAt, PCOf
<1>4. Shape(W_out)'
  <2>1. W_out' \in {W_out, W_in, WZero}
    BY EdgeCases DEF Edge
  <2>2. Shape(M_out) /\ Shape(W_out) /\ Shape(WZero)
    BY DEF Inv, Shapes, Shape, WZero
  <2>3. W_in.op = M_out.op /\ W_in.status \in {"ADR", M_out.status} /\ W_in.dst = M_out.dst
    BY DEF Inv, StagesDone, MemoryDone
  <2> QED
    BY <2>1, <2>2, <2>3 DEF Shape
<1> QED
  BY <1>1, <1>2, <1>3, <1>4 DEF Shapes

\* A halt waits for no load, is no branch and accesses no memory.
LEMMA EdgeHalts == ASSUME TypeOK, Inv, NoShadowedBranch, NoOvertaking, EndCycle PROVE Halts'
<1> USE EdgeFrame
<1>1. /\ W_out.status = "HLT" => M_out.status = "HLT"
      /\ M_out.status = "HLT" => X_out.status = "HLT" /\ M_out.op = "HLT"
      /\ X_out.status = "HLT" => D_out.status = "HLT" /\ X_out.op = "HLT"
      /\ D_out.status = "HLT" => F_in.status = "HLT" /\ D_out.ins.op = "HLT"
  BY DEF Inv, Halts, Shapes, Shape, Decoded
<1>2. /\ D_in.status = "HLT" <=> F_in.status = "HLT"
      /\ ForwardedX.status = D_out.status
      /\ M_in.status = X_out.status /\ M_in.op = X_out.op
  BY DEF Inv, StagesDone, FetchDone, DecodeDone, ExecuteDone
<1>3. /\ M_out.status = "HLT" => W_in.status = "HLT"
      /\ W_in.status = "HLT" => M_out.status = "HLT"
  BY <1>1 DEF Inv, StagesDone, MemoryDone, FormatM
<1>4. M_out.status = "HLT" => dmem.status # "IN_FLIGHT"
  BY <1>1 DEF Inv, MissOwned, InFlightOwned, FormatM
<1>5. X_out.status = "HLT" => ~CheckLoadUse /\ ~Fallen(M_in)
  BY <1>1, <1>2 DEF CheckLoadUse, Fallen, CondBranches
<1>6. D_out.status = "HLT" => D_out.ins.op \notin Returns /\ ~CheckLoadUse
  BY <1>1 DEF Returns, CheckLoadUse
<1>7. WZero.status # "HLT" /\ XZero.status # "HLT" /\ DZero.status # "HLT"
  BY DEF WZero, XZero, DZero
<1>8. ~Error("HLT")
  BY DEF Error
<1>9. status' = "HLT" => W_out'.status = "HLT"
  BY <1>1, <1>3, <1>4, EdgeCases DEF Edge
<1>10. W_out'.status = "HLT" => M_out'.status = "HLT"
  BY <1>1, <1>2, <1>3, <1>7, EdgeCases DEF Edge
<1>11. M_out'.status = "HLT" => X_out'.status = "HLT"
  BY <1>1, <1>2, <1>5, EdgeCases DEF Edge
<1>12. X_out'.status = "HLT" => D_out'.status = "HLT"
  BY <1>1, <1>2, <1>6, <1>7, EdgeCases DEF Edge
<1>13. D_out'.status = "HLT" => F_in'.status = "HLT"
  BY <1>1, <1>2, <1>7, EdgeCases DEF Edge
<1> QED
  BY <1>9, <1>10, <1>11, <1>12, <1>13 DEF Halts

LEMMA EdgeOnPath == ASSUME TypeOK, Inv, NoShadowedBranch, NoOvertaking, EndCycle PROVE OnPath'
<1> USE EdgeFrame
<1> SUFFICES ASSUME D_out'.status = "AOK", ~Error(X_out'.status)
             PROVE  /\ F_out'.pred_PC = PredictPC(PCOf(D_out)', D_out'.ins)
                    /\ X_out'.op \notin Returns /\ ~Fallen(M_out')
  BY DEF OnPath, Fallen
<1>1. M_in.op = X_out.op /\ M_in.status = X_out.status /\ ForwardedX.op = D_out.ins.op
  BY DEF Inv, StagesDone, ExecuteDone, DecodeDone
<1>2. DZero.status = "BUB"
  BY DEF DZero
<1>3. CASE Edge(F_out.pred_PC, D_out, X_out, M_out, W_out')
  BY <1>3 DEF Edge, Inv, OnPath, PCOf
<1>4. CASE Error(M_in.status) /\ Edge(F_out.pred_PC, D_out, X_out, M_in, W_in)
  BY <1>1, <1>4 DEF Edge
<1>5. CASE Smooth /\ CheckLoadUse /\ Edge(F_out.pred_PC, D_out, XZero, M_in, W_in)
  <2>1. ~Error(X_out.status)
    BY <1>1, <1>5 DEF Smooth, AnyError
  <2>2. XZero.op \notin Returns /\ ~Fallen(M_in)
    BY <1>1, <1>5 DEF XZero, Returns, Fallen, CondBranches, CheckLoadUse
  <2> QED
    BY <1>5, <2>1, <2>2 DEF Edge, Inv, OnPath, PCOf
<1>6. CASE D_out.ins.op \notin Returns /\ ~Fallen(M_in)
           /\ Edge(F_PC, D_in, ForwardedX, M_in, W_in)
  <2>1. D_in.status = "AOK" => PCOf(D_in) = SelectPC /\ F_PC = PredictPC(SelectPC, D_in.ins)
    BY DEF Inv, StagesDone, FetchDone
  <2> QED
    BY <1>1, <1>6, <2>1 DEF Edge, PCOf
<1> QED
  BY <1>2, <1>3, <1>4, <1>5, <1>6, EdgeCases DEF Edge

LEMMA EdgeStopped == ASSUME TypeOK, Inv, NoShadowedBranch, NoOvertaking, EndCycle PROVE Stopped'
<1> USE EdgeFrame
<1>1. /\ Error(W_in.status) <=> Faulty(M_out)
      /\ Error(W_in.status) => M_PC = PCOf(M_out)
  BY DEF Inv, StagesDone, MemoryDone, Faulty, Error
<1>2. Error(W_out'.status) => Faulty(M_out')
  <2>1. Error(W_out'.status) => M_out' = M_out /\ (W_out' = W_out \/ W_out' = W_in)
    BY EdgeCases DEF Edge, Smooth, AnyError, WZero, Error
  <2> QED
    BY <1>1, <2>1 DEF Inv, Stopped
<1>3. Error(status') => W_out'.status = status' /\ PC' = PCOf(M_out)'
  <2> SUFFICES ASSUME Error(W_out.status) PROVE W_out'.status = W_out.status /\ PC' = PCOf(M_out)'
    OBVIOUS
  <2>1. W_out' = W_out /\ M_out' = M_out
    BY EdgeCases DEF Edge, Smooth, AnyError
  <2>2. Error(W_in.status)
    BY <1>1 DEF Inv, Stopped
  <2> QED
    BY <1>1, <2>1, <2>2 DEF PCOf
<1> QED
  BY <1>2, <1>3 DEF Stopped, Faulty

LEMMA EdgeFlags == ASSUME TypeOK, Inv, NoShadowedBranch, NoOvertaking, EndCycle PROVE FlagsKept'
<1> USE EdgeFrame
<1>1. M_in.status = X_out.status /\ X_set_flags = SetFlags(X_out.op)
  BY DEF Inv, StagesDone, ExecuteDone
<1>2. AnyError => X_out' = X_out /\ (Error(X_out.status) \/ Error(W_out'.status))
  BY <1>1, EdgeCases DEF Edge, AnyError, Smooth
<1>3. deassert_flags => AnyError
  BY <1>1 DEF Inv, FlagsKept, AnyError
<1>4. deassert_flags' => Error(X_out'.status) \/ Error(W_out'.status)
  BY <1>2, <1>3
<1>5. ~SetFlags(X_out'.op) \/ ~deassert_flags' => Agree'
  <2>1. CASE SetFlags(X_out.op) /\ ~deassert_flags'
    BY <1>1, <2>1 DEF Agree
  <2>2. CASE SetFlags(X_out.op) /\ deassert_flags'
    BY <1>2, <1>3, <2>2
  <2>3. CASE ~SetFlags(X_out.op)
    BY <1>1, <2>3 DEF Inv, FlagsKept, Agree
  <2> QED
    BY <2>1, <2>2, <2>3
<1> QED
  BY <1>4, <1>5 DEF FlagsKept

LEMMA EdgeKeepsInv ==
    ASSUME TypeOK, Inv, NoShadowedBranch, NoOvertaking, HaltOnPath', EndCycle PROVE Inv'
<1> USE EdgeFrame
<1>1. StagesDone'
  BY DEF Inv, StagesDone, FetchDone, DecodeDone, ExecuteDone, MemoryDone, WritebackDone, Running
<1>2. HaltSeen'
  BY DEF HaltOnPath, HaltSeen, HaltAt
<1>3. MissOwned'
  <2>1. dmem.status = "IN_FLIGHT" => M_out' = M_out
    BY EdgeCases DEF Edge, Smooth
  <2> QED
    BY <2>1 DEF Inv, MissOwned, InFlightOwned
<1> QED
  BY <1>1, <1>2, <1>3, EdgeShapes, EdgeHalts, EdgeOnPath, EdgeStopped, EdgeFlags DEF Inv

LEMMA InitKeepsInv == Init => Inv
<1> SUFFICES ASSUME Init PROVE Inv
  OBVIOUS
<1> USE DEF Init, NoMiss
<1>1. /\ D_out = DZero /\ X_out = XZero /\ M_out = MZero /\ W_out = WZero
      /\ F_in.status = "BUB" /\ status = "BUB" /\ dmem.status = "READY" /\ ran = {}
      /\ ~exited /\ ~deassert_flags /\ NZCV = InitialFlags /\ X_nzcvval = ZeroFlags
  BY DEF FZero, InitialFlags
<1>2. StagesDone
  BY <1>1 DEF StagesDone, FetchDone, DecodeDone, ExecuteDone, MemoryDone, WritebackDone
<1>3. Shapes
  BY <1>1 DEF Shapes, Decoded, Shape, Placed, DZero, XZero, MZero, WZero, ZeroInstr, SetFlags,
     RRSetting
<1>4. Halts /\ HaltSeen /\ OnPath
  BY <1>1 DEF Halts, HaltSeen, OnPath, DZero, XZero, MZero, WZero
<1>5. Stopped /\ FlagsKept /\ MissOwned
  BY <1>1 DEF Stopped, FlagsKept, Agree, MissOwned, InFlightOwned, WZero, Error
<1> QED
  BY <1>2, <1>3, <1>4, <1>5 DEF Inv

\* Every step between regular states keeps the invariant.
LEMMA NextKeepsInv ==
    ASSUME TypeOK, Inv, Regular, Regular', [Next]_vars PROVE Inv'
<1>1. CASE UNCHANGED vars
  <2>1. UNCHANGED <<text, ran, num_instr, PC, regs, NZCV, status, mem, output, exited, dmem>>
        /\ UNCHANGED <<F_in, F_out, D_in, D_out, X_in, X_out, M_in, M_out, W_in, W_out>>
        /\ UNCHANGED <<F_PC, M_PC, D_src1, D_src2, X_set_flags, X_nzcvval, W_wval>>
        /\ UNCHANGED deassert_flags
    BY <1>1 DEF vars, proc, memory, pipes, wires
  <2>2. StagesDone'
    BY <2>1 DEF Inv, StagesDone, FetchDone, DecodeDone, ExecuteDone, MemoryDone, WritebackDone,
       Decoded, Defined, PCOf, SelectPC
  <2>3. Shapes' /\ Halts' /\ HaltSeen'
    BY <2>1 DEF Inv, Shapes, Decoded, Shape, Placed, Defined, HaltAt, PCOf, Halts, HaltSeen,
       SelectPC
  <2>4. OnPath' /\ Stopped' /\ FlagsKept' /\ MissOwned'
    BY <2>1 DEF Inv, OnPath, Fallen, Stopped, Faulty, FlagsKept, Agree, MissOwned, InFlightOwned,
       PCOf
  <2> QED
    BY <2>2, <2>3, <2>4 DEF Inv
<1>2. CASE Next
  BY <1>2, FetchKeepsInv, DecodeKeepsInv, ExecuteKeepsInv, MemoryKeepsInv, WritebackKeepsInv,
     EdgeKeepsInv DEF Next, Regular
<1> QED
  BY <1>1, <1>2

LEMMA InvHolds == Spec /\ []Regular => []Inv
<1>1. Init => Inv
  BY InitKeepsInv
<1>2. TypeOK /\ Inv /\ Regular /\ Regular' /\ [Next]_vars => Inv'
  BY NextKeepsInv
<1> QED
  BY <1>1, <1>2, PipelineTyped, PTL DEF Spec

-----------------------------------------------------------------------------
(* Operands *)

\* While the mapped machine runs, nothing in the pipe halts or faults.
LEMMA Flowing ==
    ASSUME TypeOK, Inv, AfterX.status = "AOK"
    PROVE  /\ AfterW.status = "AOK" /\ AfterM.status = "AOK"
           /\ W_out.status \in {"BUB", "AOK"} /\ M_out.status \in {"BUB", "AOK"}
           /\ X_out.status \in {"BUB", "AOK"}
           /\ M_out.op \in FormatM => /\ ~Ends(M_out.op, M_out.val_ex)
                                      /\ ~DmemErr(M_out.val_ex)
           /\ X_out.op \in FormatM => /\ ~Ends(X_out.op, ValEx(X_out, X_nzcvval))
                                      /\ ~DmemErr(ValEx(X_out, X_nzcvval))
<1>1. Result(M_out) /\ X_out \in XReg /\ X_nzcvval \in Flags /\ W_out.status \in Status
  BY DEF TypeOK, MReg, WReg, Result
<1>2. \A r : Shape(r) /\ r.op \in FormatM => r.status \notin {"BUB", "HLT"}
  BY DEF Shape, FormatM
<1>3. Shape(X_out) /\ Shape(M_out) /\ X_out.status # "ADR" /\ M_out.status # "ADR"
  BY DEF Inv, Shapes, Placed
<1> DEFINE c == Computed(X_out, X_nzcvval)
<1>4. /\ Result(c) /\ c.op = X_out.op /\ c.status = X_out.status
      /\ c.val_ex = ValEx(X_out, X_nzcvval)
  BY <1>1, ComputedResult
<1>5. AfterX = Finish(AfterM, c) /\ AfterM \in Arch
  BY AfterMType DEF AfterX
<1> HIDE DEF c
<1>6. /\ AfterM.status = "AOK"
      /\ X_out.status \notin {"HLT", "INS"}
      /\ X_out.op \in FormatM => /\ ~Ends(X_out.op, ValEx(X_out, X_nzcvval))
                                 /\ ~DmemErr(ValEx(X_out, X_nzcvval))
  BY <1>2, <1>3, <1>4, <1>5, FinishParts
<1>7. AfterM.status = Finish(AfterW, M_out).status /\ AfterW \in Arch
  BY AfterWType, AfterMType
<1>8. /\ AfterW.status = "AOK"
      /\ M_out.status \notin {"HLT", "INS"}
      /\ M_out.op \in FormatM => /\ ~Ends(M_out.op, M_out.val_ex)
                                 /\ ~DmemErr(M_out.val_ex)
  BY <1>1, <1>2, <1>3, <1>6, <1>7, FinishParts
<1>9. W_out.status \in {"BUB", "AOK"}
  BY <1>1, <1>8, AfterWType DEF Error, Status
<1> QED
  BY <1>1, <1>3, <1>6, <1>8, <1>9 DEF XReg, Status, Result

\* The register file of the mapped machine, stage by stage.
LEMMA RegistersMapped ==
    ASSUME TypeOK, Inv, AfterX.status = "AOK"
    PROVE  /\ AfterW.regs = IF WEnable(W_out.op)
                            THEN RegWrite(regs, W_out.dst, IF WvalSel(W_out.op) THEN W_out.val_mem
                                                           ELSE W_out.val_ex)
                            ELSE regs
           /\ AfterM.regs = IF WEnable(M_out.op)
                            THEN RegWrite(AfterW.regs, M_out.dst,
                                          IF M_out.op = "LDUR" THEN LoadValue(mem, M_out.val_ex)
                                          ELSE M_out.val_ex)
                            ELSE AfterW.regs
           /\ AfterX.regs = IF WEnable(X_out.op)
                            THEN RegWrite(AfterM.regs, X_out.dst,
                                          IF X_out.op = "LDUR"
                                          THEN LoadValue(AfterM.mem, ValEx(X_out, X_nzcvval))
                                          ELSE ValEx(X_out, X_nzcvval))
                            ELSE AfterM.regs
<1>1. ~WEnable("NOP")
  BY DEF WEnable, FormatRR, FormatRI, FormatI, Selects, RRSetting
<1>2. Shape(X_out) /\ Shape(M_out) /\ Shape(W_out)
  BY DEF Inv, Shapes
<1>3. WEnable(W_out.op) => W_out.status = "AOK"
  BY <1>1, <1>2, Flowing DEF Shape
<1>4. WEnable(M_out.op) => M_out.status = "AOK"
  BY <1>1, <1>2, Flowing DEF Shape
<1>5. WEnable(X_out.op) => X_out.status = "AOK"
  BY <1>1, <1>2, Flowing DEF Shape
<1>6. AfterW.regs = IF WEnable(W_out.op)
                    THEN RegWrite(regs, W_out.dst, IF WvalSel(W_out.op) THEN W_out.val_mem
                                                   ELSE W_out.val_ex)
                    ELSE regs
  BY <1>3, AfterWType DEF Retired
<1>7. Result(M_out) /\ X_out \in XReg /\ X_nzcvval \in Flags
  BY DEF TypeOK, MReg, Result
<1>8. /\ AfterW \in Arch /\ AfterW.mem = mem /\ AfterM \in Arch
      /\ AfterM.regs = Finish(AfterW, M_out).regs
  BY AfterWType, AfterMType
<1>9. AfterM.regs = IF WEnable(M_out.op)
                    THEN RegWrite(AfterW.regs, M_out.dst,
                                  IF M_out.op = "LDUR" THEN LoadValue(mem, M_out.val_ex)
                                  ELSE M_out.val_ex)
                    ELSE AfterW.regs
  BY <1>4, <1>7, <1>8, FinishParts, Flowing
<1> DEFINE c == Computed(X_out, X_nzcvval)
<1>10. /\ Result(c) /\ c.op = X_out.op /\ c.status = X_out.status /\ c.dst = X_out.dst
       /\ c.val_ex = ValEx(X_out, X_nzcvval) /\ AfterX = Finish(AfterM, c)
  BY <1>7, ComputedResult DEF AfterX
<1> HIDE DEF c
<1>11. AfterX.regs = IF WEnable(X_out.op)
                     THEN RegWrite(AfterM.regs, X_out.dst,
                                   IF X_out.op = "LDUR"
                                   THEN LoadValue(AfterM.mem, ValEx(X_out, X_nzcvval))
                                   ELSE ValEx(X_out, X_nzcvval))
                     ELSE AfterM.regs
  BY <1>5, <1>8, <1>10, FinishParts, Flowing
<1> QED
  BY <1>6, <1>9, <1>11

\* What Decode reads and forward_reg replaces is what the mapped machine holds.
LEMMA OperandRead ==
    ASSUME TypeOK, Inv, OrdinarySources, {"D", "X", "M"} \subseteq ran, Smooth, ~CheckLoadUse,
           D_out.status = "AOK", D_out.ins.op # "NOP", AfterX.status = "AOK",
           NEW n \in {Src1(D_out.ins), Src2(D_out.ins)}
    PROVE  Forward(n, RegRead(regs, n)) = RegRead(AfterX.regs, n)
<1>1. /\ regs \in RegFile /\ mem \in [Word -> Word]
      /\ W_out.dst \in RegNum /\ W_out.val_mem \in Word /\ W_out.val_ex \in Word
      /\ M_out.dst \in RegNum /\ M_out.val_ex \in Word /\ X_out.dst \in RegNum
      /\ X_out \in XReg /\ X_nzcvval \in Flags /\ D_out.ins \in Instr
  BY DEF TypeOK, WReg, MReg, XReg, DReg, RegFile
<1>2. AfterW.regs \in RegFile /\ AfterM.regs \in RegFile /\ AfterM.mem \in [Word -> Word]
  BY AfterWType, AfterMType DEF Arch, RegFile
<1>3. n \in RegNum
  BY <1>1, OperandTypes
<1>4. /\ WEnable(X_out.op) /\ X_out.dst = n => n \notin {SP, XZR}
      /\ WEnable(M_out.op) /\ M_out.dst = n => n \notin {SP, XZR}
      /\ WEnable(W_out.op) /\ W_out.dst = n => n \notin {SP, XZR}
  BY DEF OrdinarySources
<1>5. /\ Feeds(X_out, n) <=> WEnable(X_out.op) /\ X_out.dst = n
      /\ Feeds(M_out, n) <=> WEnable(M_out.op) /\ M_out.dst = n
      /\ Feeds(W_out, n) <=> WEnable(W_out.op) /\ W_out.dst = n
  BY <1>4 DEF Feeds, SP
<1>6. ~(X_out.op = "LDUR" /\ Feeds(X_out, n))
  <2>1. D_src1 = Src1(D_out.ins) /\ D_src2 = Src2(D_out.ins)
    BY DEF Inv, StagesDone, DecodeDone
  <2>2. D_out.ins.op \in {"NOP", "HLT", "MOVZ", "ADRP", "B", "BL"} => n = XZR
    BY DEF Src1, Src2, FormatRR, RRSetting, FormatRI, Selects
  <2> QED
    BY <1>4, <1>5, <2>1, <2>2 DEF CheckLoadUse
<1>7. RegRead(AfterW.regs, n) =
         IF Feeds(W_out, n) THEN IF WvalSel(W_out.op) THEN W_out.val_mem ELSE W_out.val_ex
         ELSE RegRead(regs, n)
  <2>1. AfterW.regs = IF WEnable(W_out.op)
                      THEN RegWrite(regs, W_out.dst, IF WvalSel(W_out.op) THEN W_out.val_mem
                                                     ELSE W_out.val_ex)
                      ELSE regs
    BY RegistersMapped
  <2> QED
    BY <1>1, <1>3, <1>4, <1>5, <2>1, ReadWritten
<1>8. RegRead(AfterM.regs, n) =
         IF Feeds(M_out, n) THEN IF WvalSel(M_out.op) THEN W_in.val_mem ELSE M_out.val_ex
         ELSE RegRead(AfterW.regs, n)
  <2>1. AfterM.regs = IF WEnable(M_out.op)
                      THEN RegWrite(AfterW.regs, M_out.dst,
                                    IF M_out.op = "LDUR" THEN LoadValue(mem, M_out.val_ex)
                                    ELSE M_out.val_ex)
                      ELSE AfterW.regs
    BY RegistersMapped
  <2>2. LoadValue(mem, M_out.val_ex) \in Word
    BY <1>1, MemoryTypes DEF TypeOK
  <2>3. M_out.op = "LDUR" => W_in.val_mem = LoadValue(mem, M_out.val_ex)
    BY DEF Inv, StagesDone, MemoryDone, Smooth
  <2> DEFINE v == IF M_out.op = "LDUR" THEN LoadValue(mem, M_out.val_ex) ELSE M_out.val_ex
  <2>4. v \in Word /\ WEnable(M_out.op) \in BOOLEAN
    BY <1>1, <2>2 DEF WEnable
  <2>5. v = IF WvalSel(M_out.op) THEN W_in.val_mem ELSE M_out.val_ex
    BY <2>3 DEF WvalSel
  <2>6. AfterM.regs = IF WEnable(M_out.op) THEN RegWrite(AfterW.regs, M_out.dst, v)
                      ELSE AfterW.regs
    BY <2>1
  <2> HIDE DEF v
  <2>7. RegRead(AfterM.regs, n) = IF WEnable(M_out.op) /\ M_out.dst = n THEN v
                                  ELSE RegRead(AfterW.regs, n)
    <3>1. CASE WEnable(M_out.op)
      <4>1. /\ M_out.dst = n /\ n # XZR => RegRead(RegWrite(AfterW.regs, M_out.dst, v), n) = v
            /\ M_out.dst # n =>
                  RegRead(RegWrite(AfterW.regs, M_out.dst, v), n) = RegRead(AfterW.regs, n)
        BY <1>1, <1>2, <1>3, <2>4, ReadWritten
      <4> QED
        BY <1>4, <3>1, <4>1, <2>4, <2>6
    <3>2. CASE ~WEnable(M_out.op)
      BY <3>2, <2>4, <2>6
    <3> QED
      BY <3>1, <3>2
  <2> QED
    BY <1>5, <2>5, <2>7
<1>9. RegRead(AfterX.regs, n) = IF Feeds(X_out, n) THEN M_in.val_ex
                                ELSE RegRead(AfterM.regs, n)
  <2> DEFINE v == IF X_out.op = "LDUR" THEN LoadValue(AfterM.mem, ValEx(X_out, X_nzcvval))
                  ELSE ValEx(X_out, X_nzcvval)
  <2>1. AfterX.regs = IF WEnable(X_out.op) THEN RegWrite(AfterM.regs, X_out.dst, v)
                      ELSE AfterM.regs
    BY RegistersMapped
  <2>2. v \in Word
    BY <1>1, <1>2, ExecuteTypes, MemoryTypes DEF TypeOK
  <2>3. Feeds(X_out, n) => v = M_in.val_ex
    BY <1>6 DEF Inv, StagesDone, ExecuteDone
  <2> HIDE DEF v
  <2>4. WEnable(X_out.op) \in BOOLEAN
    BY DEF WEnable
  <2>5. RegRead(AfterX.regs, n) = IF WEnable(X_out.op) /\ X_out.dst = n THEN v
                                  ELSE RegRead(AfterM.regs, n)
    <3>1. CASE WEnable(X_out.op)
      <4>1. /\ X_out.dst = n /\ n # XZR => RegRead(RegWrite(AfterM.regs, X_out.dst, v), n) = v
            /\ X_out.dst # n =>
                  RegRead(RegWrite(AfterM.regs, X_out.dst, v), n) = RegRead(AfterM.regs, n)
        BY <1>1, <1>2, <1>3, <2>2, ReadWritten
      <4> QED
        BY <1>4, <3>1, <4>1, <2>1, <2>2
    <3>2. CASE ~WEnable(X_out.op)
      BY <3>2, <2>1, <2>2
    <3> QED
      BY <3>1, <3>2
  <2> QED
    BY <1>5, <2>3, <2>5
<1> QED
  BY <1>7, <1>8, <1>9 DEF Forward

\* An instruction that moves from Decode into Execute.
LEMMA OperandsForwarded ==
    ASSUME TypeOK, Inv, OrdinarySources, {"D", "X", "M"} \subseteq ran, Smooth, ~CheckLoadUse,
           D_out.status = "AOK", D_out.ins.op # "NOP", AfterX.status = "AOK"
    PROVE  /\ ForwardedX.val_a = RegRead(AfterX.regs, Src1(D_out.ins))
           /\ ForwardedX.val_b = RegRead(AfterX.regs, Src2(D_out.ins))
<1>1. /\ ForwardedX.val_a = Forward(D_src1, X_in.val_a)
      /\ ForwardedX.val_b = Forward(D_src2, X_in.val_b)
  BY DEF ForwardedX, TypeOK, XReg
<1>2. /\ D_src1 = Src1(D_out.ins) /\ D_src2 = Src2(D_out.ins)
      /\ X_in.val_a = RegRead(regs, D_src1) /\ X_in.val_b = RegRead(regs, D_src2)
  BY DEF Inv, StagesDone, DecodeDone
<1> QED
  BY <1>1, <1>2, OperandRead

LEMMA InvOperands == TypeOK /\ Inv /\ OrdinarySources => OperandsCurrent
<1> SUFFICES ASSUME TypeOK, Inv, OrdinarySources, ran = Stages, D_out.status = "AOK",
                    D_out.ins.op # "NOP", HandleHazards.X = "LOAD", ArchState.status = "AOK"
             PROVE  /\ ForwardedX.val_a = RegRead(ArchState.regs, Src1(D_out.ins))
                    /\ ForwardedX.val_b = RegRead(ArchState.regs, Src2(D_out.ins))
  BY DEF OperandsCurrent
<1>1. Smooth /\ ~CheckLoadUse
  <2>1. ~AnyError
    BY DEF HandleHazards, ErrorControl, Control
  <2>2. HazardControl.X = "LOAD"
    BY <2>1 DEF HandleHazards
  <2> QED
    BY <2>1, <2>2 DEF HazardControl, Hazards, OnMiss, OnLoadUse, Control, Smooth, TypeOK, DmemState
<1>2. ArchState.status = AfterX.status /\ ArchState.regs = AfterX.regs
  BY ArchParts DEF Same
<1> QED
  BY <1>1, <1>2, OperandsForwarded DEF Stages

\* forward_reg and the load-use stall, whatever the order of the stages: the
\* operands that leave Decode are the registers of the machine that has
\* finished every older instruction (forward.c:18-57, hazard_control.c:42-50).
THEOREM OperandsAreCurrent == Spec /\ []Regular => []OperandsCurrent
<1>1. TypeOK /\ Inv /\ Regular => OperandsCurrent
  BY InvOperands DEF Regular
<1> QED
  BY <1>1, PipelineTyped, InvHolds, PTL

-----------------------------------------------------------------------------
(* The clock edge is a step of the machine or none *)

\* What Writeback retires is what the abstraction had already written.
LEMMA RetiredAtEdge == ASSUME TypeOK, Inv, EndCycle PROVE regs' = Retired
<1>1. W_wval = IF WvalSel(W_out.op) THEN W_out.val_mem ELSE W_out.val_ex
  BY EdgeFrame DEF Inv, StagesDone, WritebackDone
<1> QED
  BY <1>1, EdgeFrame DEF Retired

\* The instruction in Memory has been performed as the abstraction says.
LEMMA MemoryPerformed ==
    ASSUME TypeOK, Inv, EndCycle, dmem.status = "READY", ~Error(W_out.status), ~Error(W_in.status)
    PROVE  /\ AfterM.regs = IF W_in.status = "AOK" /\ WEnable(W_in.op)
                            THEN RegWrite(regs', W_in.dst, IF WvalSel(W_in.op) THEN W_in.val_mem
                                                           ELSE W_in.val_ex)
                            ELSE regs'
           /\ AfterM.mem = mem /\ AfterM.output = output
           /\ AfterM.status = IF W_in.status = "HLT" THEN "HLT" ELSE "AOK"
           /\ W_in.status \in {"BUB", "AOK", "HLT"}
<1>1. /\ W_in.op = M_out.op /\ W_in.dst = M_out.dst /\ W_in.val_ex = M_out.val_ex
      /\ W_in.status = IF M_out.op \in FormatM /\ DmemErr(M_out.val_ex) THEN "ADR"
                       ELSE M_out.status
      /\ ~(M_out.op \in FormatM /\ Ends(M_out.op, M_out.val_ex))
      /\ M_out.op = "LDUR" => W_in.val_mem = LoadValue(mem, M_out.val_ex)
      /\ M_out.op = "STUR" => mem = Stored(mem, M_out.val_ex, M_out.val_b)
  BY EdgeFrame DEF Inv, StagesDone, MemoryDone, Running
<1>2. /\ AfterM.regs = Finish(AfterW, M_out).regs /\ AfterM.mem = Finish(AfterW, M_out).mem
      /\ AfterM.status = Finish(AfterW, M_out).status /\ AfterM.output = output
      /\ AfterW \in Arch /\ AfterW.regs = regs' /\ AfterW.mem = mem
      /\ AfterW.status = IF Error(W_out.status) \/ W_out.status = "HLT"
                         THEN W_out.status ELSE "AOK"
      /\ Result(M_out)
  BY AfterMType, AfterWType, EdgeFrame, RetiredAtEdge DEF TypeOK, MReg, Result
<1>3. W_out.status = "HLT" => M_out.status = "HLT"
  BY DEF Inv, Halts
<1>4. W_in.status = M_out.status /\ M_out.status \in {"BUB", "AOK", "HLT"}
      /\ ~(M_out.op \in FormatM /\ (Ends(M_out.op, M_out.val_ex) \/ DmemErr(M_out.val_ex)))
  BY <1>1 DEF Error, TypeOK, MReg, Status
<1>5. WvalSel(W_in.op) <=> M_out.op = "LDUR"
  BY <1>1 DEF WvalSel
<1>6. CASE W_out.status = "HLT"
  BY <1>2, <1>3, <1>4, <1>6, FinishParts
<1>7. CASE W_out.status # "HLT"
  BY <1>1, <1>2, <1>4, <1>5, <1>7, FinishParts
<1> QED
  BY <1>2, <1>4, <1>6, <1>7

\* When the pipe moves, the abstraction of each stage becomes that of the next.
LEMMA Advance ==
    ASSUME TypeOK, TypeOK', Inv, EndCycle, dmem.status = "READY",
           ~Error(W_out.status), ~Error(W_in.status), W_out' = W_in, M_out' = M_in
    PROVE  Same(AfterW', AfterM) /\ Same(AfterM', AfterX)
<1>1. Same(AfterW', AfterM)
  <2>1. AfterW'.regs = Retired' /\ AfterW'.mem = mem' /\ AfterW'.output = output'
        /\ AfterW'.status = IF Error(W_out'.status) \/ W_out'.status = "HLT"
                            THEN W_out'.status ELSE "AOK"
    BY PartsNext
  <2>2. Retired' = IF W_in.status = "AOK" /\ WEnable(W_in.op)
                   THEN RegWrite(regs', W_in.dst, IF WvalSel(W_in.op) THEN W_in.val_mem
                                                  ELSE W_in.val_ex)
                   ELSE regs'
    BY DEF Retired
  <2> QED
    BY <2>1, <2>2, MemoryPerformed, EdgeFrame DEF Same
<1>2. Same(AfterM', Finish(AfterW', M_in))
  BY PartsNext, EdgeFrame DEF Same
<1>3. Same(Finish(AfterW', M_in), AfterX)
  <2> DEFINE c == Computed(X_out, X_nzcvval)
  <2>1. /\ Result(c) /\ c.op = X_out.op /\ c.status = X_out.status /\ c.dst = X_out.dst
        /\ c.val_b = X_out.val_b /\ c.val_ex = ValEx(X_out, X_nzcvval)
        /\ AfterX = Finish(AfterM, c)
    BY ComputedResult DEF AfterX, TypeOK
  <2>2. /\ M_in.op = X_out.op /\ M_in.status = X_out.status /\ M_in.dst = X_out.dst
        /\ M_in.val_b = X_out.val_b /\ M_in.val_ex = ValEx(X_out, X_nzcvval)
    BY EdgeFrame DEF Inv, StagesDone, ExecuteDone
  <2>3. Result(M_in)
    BY DEF TypeOK, MReg, Result
  <2>4. AfterW' \in Arch /\ AfterM \in Arch
    BY PartsNext, AfterMType
  <2> HIDE DEF c
  <2> QED
    BY <1>1, <2>1, <2>2, <2>3, <2>4, FinishSame
<1> QED
  BY <1>1, <1>2, <1>3 DEF Same

\* The mapped state after the edge, by its parts.
LEMMA ArchNextEqual ==
    ASSUME TypeOK, TypeOK', Same(AfterX', AfterX),
           Norm(text, MappedPC(AfterM, AfterX))' = ArchState.pc,
           MappedNZCV(AfterX)' = ArchState.nzcv
    PROVE  ArchState' = ArchState
<1>1. Same(ArchState', ArchState)
  BY ArchParts, PartsNext DEF Same
<1>2. ArchState'.pc = ArchState.pc /\ ArchState'.nzcv = ArchState.nzcv
  BY PartsNext
<1> QED
  BY <1>1, <1>2, ArchType, PartsNext, ArchEqual

\* The flags at the edge.
LEMMA FlagsAtEdge ==
    ASSUME TypeOK, Inv, EndCycle
    PROVE  /\ AnyError => NZCV' = NZCV
           /\ ~AnyError => NZCV' = IF SetFlags(X_out.op) THEN FlagsOf(X_out) ELSE NZCV
           /\ SetFlags(X_out.op) => X_out.status \notin {"BUB", "HLT"}
<1>1. X_set_flags = SetFlags(X_out.op) /\ (SetFlags(X_out.op) => X_nzcvval = FlagsOf(X_out))
      /\ M_in.status = X_out.status
  BY EdgeFrame DEF Inv, StagesDone, ExecuteDone
<1>2. ~AnyError => ~deassert_flags
  BY <1>1 DEF Inv, FlagsKept, AnyError
<1>3. SetFlags(X_out.op) => X_out.status \notin {"BUB", "HLT"}
  BY DEF Inv, Shapes, Shape, SetFlags, RRSetting
<1> QED
  BY <1>1, <1>2, <1>3, EdgeFrame

LEMMA FinishStopped == \A s, m : s.status # "AOK" => Finish(s, m) = s
BY DEF Finish

\* Once an instruction in Memory or before it has stopped the machine, what the
\* other stages hold makes no difference.
LEMMA StoppedInMemory ==
    ASSUME TypeOK, TypeOK', EndCycle, AfterM.status \notin {"AOK", "HLT"}, Same(AfterM', AfterM),
           M_out' = M_out, NZCV' = NZCV
    PROVE  ArchState' = ArchState
<1>1. AfterX = AfterM /\ AfterX' = AfterM'
  BY FinishStopped DEF AfterX, Same
<1>2. MappedPC(AfterM, AfterX) = PCOf(M_out) /\ MappedPC(AfterM, AfterX)' = PCOf(M_out)
  BY <1>1 DEF MappedPC, Same, PCOf
<1>3. MappedNZCV(AfterX) = NZCV /\ MappedNZCV(AfterX)' = NZCV
  BY <1>1 DEF MappedNZCV, Same
<1>4. Norm(text, MappedPC(AfterM, AfterX))' = ArchState.pc
  BY <1>2, ArchParts, EdgeFrame DEF Norm, At
<1> QED
  BY <1>1, <1>3, <1>4, ArchParts, ArchNextEqual

\* A fault that has reached Writeback freezes the pipe.
LEMMA WritebackErrorStutters ==
    ASSUME TypeOK, TypeOK', Inv, EndCycle, Error(W_out.status),
           Edge(F_out.pred_PC, D_out, X_out, M_out, W_out)
    PROVE  ArchState' = ArchState
<1>1. AfterW.status = W_out.status /\ AfterW'.status = W_out.status
  BY AfterWType, PartsNext DEF Edge
<1>2. AfterW.regs = regs' /\ AfterW'.regs = regs'
  BY RetiredAtEdge, AfterWType, PartsNext DEF Edge, Retired, Error
<1>3. Finish(AfterW, M_out) = AfterW /\ Finish(AfterW', M_out') = AfterW'
  BY <1>1, FinishStopped DEF Error
<1>4. Same(AfterM', AfterM) /\ AfterM.status = W_out.status
  BY <1>1, <1>2, <1>3, AfterWType, AfterMType, PartsNext, EdgeFrame DEF Same
<1>5. NZCV' = NZCV
  BY FlagsAtEdge DEF AnyError
<1> QED
  BY <1>4, <1>5, StoppedInMemory DEF Edge, Error

\* A fault that reaches Writeback stops there, and so does its instruction.
LEMMA MemoryErrorStutters ==
    ASSUME TypeOK, TypeOK', Inv, StoresInBounds, EndCycle, ~Error(W_out.status),
           Error(W_in.status),
           Edge(F_out.pred_PC, D_out, X_out, M_out, W_in)
    PROVE  ArchState' = ArchState
<1>1. /\ W_in.status = IF M_out.op \in FormatM /\ DmemErr(M_out.val_ex) THEN "ADR"
                       ELSE M_out.status
      /\ ~(M_out.op \in FormatM /\ Ends(M_out.op, M_out.val_ex))
  BY EdgeFrame DEF Inv, StagesDone, MemoryDone, Running
<1>2. Shape(M_out) /\ M_out.status # "ADR" /\ (W_out.status = "HLT" => M_out.status = "HLT")
  BY DEF Inv, Shapes, Placed, Halts
<1>3. M_out.status \in {"AOK", "INS"} /\ (M_out.status = "AOK" => M_out.op \in FormatM
                                                                  /\ DmemErr(M_out.val_ex))
  BY <1>1, <1>2 DEF Error, Shape, FormatM, TypeOK, MReg, Status
<1>4. AfterW \in Arch /\ AfterW.status = "AOK" /\ AfterW.regs = regs' /\ AfterW.mem = mem
      /\ Result(M_out)
  BY <1>2, <1>3, AfterWType, RetiredAtEdge DEF TypeOK, MReg, Result
<1>5. /\ AfterW'.status = W_in.status /\ AfterW'.regs = regs' /\ AfterW'.mem = mem
      /\ AfterW'.output = output
  BY PartsNext, EdgeFrame DEF Edge, Retired, Error
<1>6. Finish(AfterW', M_out') = AfterW'
  BY <1>5, FinishStopped DEF Error
<1>7. /\ AfterM'.regs = regs' /\ AfterM'.mem = mem /\ AfterM'.output = output
      /\ AfterM'.status = W_in.status
  BY <1>5, <1>6, PartsNext, EdgeFrame
<1>8. M_out.status = "INS" => M_out.op \notin FormatM
  BY DEF StoresInBounds
<1>9. /\ Finish(AfterW, M_out).regs = regs' /\ Finish(AfterW, M_out).mem = mem
      /\ Finish(AfterW, M_out).status = W_in.status
  BY <1>1, <1>3, <1>4, <1>8, FinishParts
<1>10. Same(AfterM', AfterM) /\ AfterM.status = W_in.status
  BY <1>7, <1>9, AfterMType, EdgeFrame DEF Same
<1>11. NZCV' = NZCV
  BY FlagsAtEdge DEF AnyError
<1> QED
  BY <1>10, <1>11, StoppedInMemory DEF Edge, Error

\* Once the instruction in Execute has stopped the machine, what follows it
\* makes no difference.
LEMMA StoppedInExecute ==
    ASSUME TypeOK, TypeOK', Inv, EndCycle, dmem.status = "READY", ~Error(W_out.status),
           ~Error(W_in.status), W_out' = W_in, M_out' = M_in, AfterX.status # "AOK"
    PROVE  ArchState' = ArchState
<1>1. Same(AfterM', AfterX) /\ AfterX' = AfterM'
  BY Advance, FinishStopped DEF AfterX, Same
<1>2. AfterM.status \in {"AOK", "HLT"} /\ (AfterM.status = "HLT" => X_out.status = "HLT")
  <2>1. AfterM.status = IF W_in.status = "HLT" THEN "HLT" ELSE "AOK"
    BY MemoryPerformed
  <2>2. W_in.status = "HLT" => M_out.status = "HLT"
    BY EdgeFrame DEF Inv, StagesDone, MemoryDone
  <2> QED
    BY <2>1, <2>2 DEF Inv, Halts
<1>3. AfterM.status = "HLT" => AfterX.status = "HLT"
  BY FinishStopped DEF AfterX
<1>4. ~AnyError => ~SetFlags(X_out.op)
  <2> SUFFICES ASSUME ~AnyError, SetFlags(X_out.op) PROVE FALSE
    OBVIOUS
  <2> DEFINE c == Computed(X_out, X_nzcvval)
  <2>1. X_out \in XReg /\ X_nzcvval \in Flags
    BY DEF TypeOK
  <2>2. /\ Result(c) /\ c.op = X_out.op /\ c.status = X_out.status /\ AfterX = Finish(AfterM, c)
    BY <2>1, ComputedResult DEF AfterX
  <2>3. X_out.status = "AOK"
    <3>1. X_out.status \notin {"BUB", "HLT"}
      BY FlagsAtEdge
    <3>2. ~Error(X_out.status)
      BY EdgeFrame DEF AnyError, Inv, StagesDone, ExecuteDone
    <3> QED
      BY <2>1, <3>1, <3>2 DEF Error, XReg, Status
  <2>4. X_out.op \notin FormatM
    BY DEF SetFlags, RRSetting, FormatM
  <2>5. AfterM.status = "AOK" /\ AfterM \in Arch
    BY <1>2, <2>3, AfterMType
  <2> HIDE DEF c
  <2> QED
    BY <2>2, <2>3, <2>4, <2>5, FinishParts
<1>5. NZCV' = NZCV
  BY <1>4, FlagsAtEdge
<1>6. MappedNZCV(AfterX) = NZCV /\ MappedNZCV(AfterX)' = NZCV
  BY <1>1, <1>5 DEF MappedNZCV, Same
<1>7. PCOf(M_out)' = PCOf(X_out)
  BY EdgeFrame DEF Inv, StagesDone, ExecuteDone, PCOf
<1>8. MappedPC(AfterM, AfterX)' = MappedPC(AfterM, AfterX)
  BY <1>1, <1>2, <1>3, <1>7 DEF MappedPC, Same
<1>9. Norm(text, MappedPC(AfterM, AfterX))' = ArchState.pc
  BY <1>8, ArchParts, EdgeFrame DEF Norm, At
<1> QED
  BY <1>1, <1>6, <1>9, ArchParts, ArchNextEqual

\* A fault in Execute is the machine's when everything older is done.
LEMMA ExecuteErrorStutters ==
    ASSUME TypeOK, TypeOK', Inv, EndCycle, ~Error(W_out.status), ~Error(W_in.status),
           Error(M_in.status), dmem.status = "READY",
           Edge(F_out.pred_PC, D_out, X_out, M_in, W_in)
    PROVE  ArchState' = ArchState
<1>1. X_out.status = "INS"
  BY EdgeFrame DEF Inv, StagesDone, ExecuteDone, Shapes, Placed, Error
<1>2. AfterX.status # "AOK"
  BY <1>1, Flowing
<1> QED
  BY <1>2, StoppedInExecute DEF Edge

\* The cycles spent on a miss do not show.
LEMMA MissStutters ==
    ASSUME TypeOK, TypeOK', Inv, EndCycle, ~AnyError, dmem.status = "IN_FLIGHT",
           Edge(F_out.pred_PC, D_out, X_out, M_out, WZero)
    PROVE  ArchState' = ArchState
<1> USE EdgeFrame
<1>1. M_out.op \in FormatM /\ ThroughCache(M_out.val_ex)
  BY DEF Inv, MissOwned, InFlightOwned
<1>2. /\ W_in.status = IF DmemErr(M_out.val_ex) THEN "ADR" ELSE M_out.status
      /\ ~Ends(M_out.op, M_out.val_ex)
      /\ M_in.status = X_out.status
  BY <1>1 DEF Inv, StagesDone, MemoryDone, ExecuteDone, Running
<1>3. M_out.status = "AOK" /\ ~DmemErr(M_out.val_ex)
  BY <1>1, <1>2 DEF Inv, Shapes, Shape, FormatM, AnyError, Error, TypeOK, MReg, Status
<1>4. ~Error(W_out.status) /\ W_out.status # "HLT" /\ ~Error(X_out.status)
  BY <1>2, <1>3 DEF AnyError, Inv, Halts
<1>5. AfterW.regs = regs' /\ AfterW.mem = mem /\ AfterW.output = output /\ AfterW.status = "AOK"
  BY <1>4, AfterWType, RetiredAtEdge
<1>6. AfterW'.regs = regs' /\ AfterW'.mem = mem /\ AfterW'.output = output
      /\ AfterW'.status = "AOK"
  BY PartsNext DEF Edge, Retired, WZero, Error
<1>7. Result(M_out) /\ AfterW \in Arch /\ AfterW' \in Arch
  BY AfterWType, PartsNext DEF TypeOK, MReg, Result
<1>8. Same(Finish(AfterW', M_out), Finish(AfterW, M_out))
  BY <1>5, <1>6, <1>7, FinishSame DEF Same
<1>9. Finish(AfterW, M_out).output = output /\ Finish(AfterW, M_out).status = "AOK"
  <2>1. Shown(output, M_out.val_ex, M_out.val_b) = output
    BY <1>1, TrapFacts
  <2> QED
    BY <1>2, <1>3, <1>5, <1>7, <2>1, FinishParts
<1>10. Same(AfterM', AfterM)
  BY <1>8, <1>9, AfterMType, PartsNext DEF Same, Edge
<1> DEFINE c == Computed(X_out, X_nzcvval)
<1>11. /\ Result(c) /\ c.op = X_out.op /\ c.status = X_out.status
       /\ AfterX = Finish(AfterM, c) /\ AfterX' = Finish(AfterM', c)
       /\ AfterM \in Arch /\ AfterM' \in Arch
  BY ComputedResult, AfterMType, PartsNext DEF AfterX, TypeOK, Edge
<1> HIDE DEF c
<1>12. Same(AfterX', AfterX)
  BY <1>10, <1>11, FinishSame DEF Same
<1>13. MappedNZCV(AfterX)' = MappedNZCV(AfterX)
  <2>1. CASE SetFlags(X_out.op)
    <3>1. X_out.status = "AOK" /\ X_out.op \notin FormatM
      BY <1>4, <2>1, FlagsAtEdge DEF TypeOK, XReg, Status, Error, SetFlags, RRSetting, FormatM
    <3>2. AfterM.status = "AOK"
      BY <1>9, AfterMType
    <3>3. AfterX.status = "AOK"
      BY <1>11, <3>1, <3>2, FinishParts
    <3> QED
      BY <1>12, <2>1, <3>3 DEF MappedNZCV, Same, Edge
  <2>2. CASE ~SetFlags(X_out.op)
    <3>1. NZCV' = NZCV
      BY <2>2, FlagsAtEdge
    <3> QED
      BY <2>2, <3>1 DEF MappedNZCV, Edge
  <2> QED
    BY <2>1, <2>2
<1>14. MappedPC(AfterM, AfterX)' = MappedPC(AfterM, AfterX)
  BY <1>10, <1>12 DEF MappedPC, Same, Edge, PCOf, SelectPC
<1>15. Norm(text, MappedPC(AfterM, AfterX))' = ArchState.pc
  BY <1>14, ArchParts DEF Norm, At
<1> QED
  BY <1>12, <1>13, <1>15, ArchParts, ArchNextEqual

\* The edge of a cycle in which nothing stops the pipe.
LEMMA SmoothEdge ==
    ASSUME TypeOK, TypeOK', Inv, EndCycle, Smooth, W_out' = W_in, M_out' = M_in,
           AfterX.status = "AOK"
    PROVE  /\ Same(AfterM', AfterX) /\ AfterM'.status = "AOK" /\ NZCV' = ArchState.nzcv
           /\ M_in.op = X_out.op /\ M_in.seq_succ = X_out.seq_succ
           /\ X_out.status \in {"BUB", "AOK"} /\ M_in.status = X_out.status
           /\ W_in.status \in {"BUB", "AOK"} /\ M_out.status \in {"BUB", "AOK"}
           /\ W_out.status \in {"BUB", "AOK"}
<1> USE EdgeFrame
<1>1. dmem.status = "READY" /\ ~Error(W_out.status) /\ ~Error(W_in.status)
  BY DEF Smooth, AnyError
<1>2. Same(AfterM', AfterX)
  BY <1>1, Advance
<1>3. NZCV' = ArchState.nzcv
  BY FlagsAtEdge, ArchParts DEF Smooth, MappedNZCV
<1>4. M_in.op = X_out.op /\ M_in.seq_succ = X_out.seq_succ /\ M_in.status = X_out.status
  BY DEF Inv, StagesDone, ExecuteDone
<1>5. W_in.status \in {"ADR", M_out.status}
  BY DEF Inv, StagesDone, MemoryDone
<1> QED
  BY <1>1, <1>2, <1>3, <1>4, <1>5, Flowing DEF Same, Error

\* A bubble that enters Execute leaves the machine where it is.
LEMMA BubbleEnters ==
    ASSUME TypeOK, TypeOK', Inv, EndCycle, Smooth, W_out' = W_in, M_out' = M_in,
           AfterX.status = "AOK", X_out'.status = "BUB", X_out'.op = "NOP",
           Norm(text, MappedPC(AfterM, AfterX))' = ArchState.pc
    PROVE  ArchState' = ArchState
<1>1. AfterX' = AfterM'
  BY FinishNop DEF AfterX, Computed
<1>2. MappedNZCV(AfterX)' = NZCV'
  BY DEF MappedNZCV, SetFlags, RRSetting
<1> QED
  BY <1>1, <1>2, SmoothEdge, ArchNextEqual

\* Where the mapped machine is when a bubble has entered Execute.
LEMMA PCAfterBubble ==
    ASSUME TypeOK, TypeOK', Inv, EndCycle, Smooth, W_out' = W_in, M_out' = M_in,
           AfterX.status = "AOK", X_out'.status = "BUB", X_out'.op = "NOP"
    PROVE  MappedPC(AfterM, AfterX)' =
              IF D_out'.status # "BUB"
              THEN IF D_out'.status = "HLT" THEN 0 ELSE PCOf(D_out)'
              ELSE IF F_in.status = "HLT" THEN 0 ELSE SelectPC'
<1>1. AfterX' = AfterM' /\ AfterM'.status = "AOK"
  BY SmoothEdge, FinishNop DEF AfterX, Computed
<1> QED
  BY <1>1, EdgeFrame DEF MappedPC

LEMMA LoadUseStutters ==
    ASSUME TypeOK, TypeOK', Inv, EndCycle, Smooth, AfterX.status = "AOK", CheckLoadUse,
           Edge(F_out.pred_PC, D_out, XZero, M_in, W_in)
    PROVE  ArchState' = ArchState
<1> USE EdgeFrame
<1>1. D_out.status \notin {"BUB", "HLT"} /\ X_out.op = "LDUR"
  BY DEF CheckLoadUse, Inv, Shapes, Decoded
<1>2. MappedPC(AfterM, AfterX) = PCOf(D_out)
  BY <1>1 DEF MappedPC, FallsThrough
<1>3. XZero.status = "BUB" /\ XZero.op = "NOP"
  BY DEF XZero
<1>4. MappedPC(AfterM, AfterX)' = PCOf(D_out)
  BY <1>1, <1>3, PCAfterBubble DEF Edge, PCOf
<1>5. Norm(text, MappedPC(AfterM, AfterX))' = ArchState.pc
  BY <1>2, <1>4, ArchParts DEF Norm, At
<1> QED
  BY <1>3, <1>5, BubbleEnters DEF Edge

\* Fetch, when it has seen a halt, is where the machine halts.
LEMMA HaltAhead ==
    ASSUME TypeOK, HaltSeen', F_in'.status = "HLT", text' = text,
           D_out'.status # "HLT", X_out'.status # "HLT", M_out'.status # "HLT",
           W_out'.status # "HLT"
    PROVE  Norm(text, SelectPC') = 0
<1>1. SelectPC' = 0 \/ HaltAt(SelectPC')
  BY DEF HaltSeen, HaltAt, At
<1> QED
  BY <1>1, NormHalt

LEMMA MispredictStutters ==
    ASSUME TypeOK, TypeOK', Inv, HaltSeen', EndCycle, Smooth, AfterX.status = "AOK",
           Fallen(M_in), Edge(F_out'.pred_PC, DZero, XZero, M_in, W_in)
    PROVE  ArchState' = ArchState
<1> USE EdgeFrame
<1>1. XZero.status = "BUB" /\ XZero.op = "NOP" /\ DZero.status = "BUB"
  BY DEF XZero, DZero
<1>2. X_out.status = "AOK"
  BY SmoothEdge DEF Edge, Fallen, CondBranches, Inv, Shapes, Shape
<1>3. MappedPC(AfterM, AfterX) = X_out.seq_succ
  BY <1>2, FallenSeen DEF MappedPC
<1>4. SelectPC' = X_out.seq_succ
  BY <1>1, SmoothEdge DEF SelectPC, Edge, Fallen, CondBranches
<1>5. MappedPC(AfterM, AfterX)' = IF F_in.status = "HLT" THEN 0 ELSE SelectPC'
  BY <1>1, PCAfterBubble DEF Edge
<1>6. F_in.status = "HLT" => Norm(text, SelectPC') = 0
  BY <1>1, <1>2, SmoothEdge, HaltAhead DEF Edge
<1>7. Norm(text, MappedPC(AfterM, AfterX))' = Norm(text, SelectPC')
  BY <1>5, <1>6, NormHalt
<1>8. Norm(text, MappedPC(AfterM, AfterX))' = ArchState.pc
  BY <1>3, <1>4, <1>7, ArchParts
<1> QED
  BY <1>1, <1>8, BubbleEnters DEF Edge

\* A bubble in Decode moves on and Fetch hands over the next instruction.
LEMMA BubbleMovesOn ==
    ASSUME TypeOK, TypeOK', Inv, EndCycle, Smooth, AfterX.status = "AOK",
           ~Fallen(M_in), D_out.status = "BUB", Edge(F_PC, D_in, ForwardedX, M_in, W_in)
    PROVE  ArchState' = ArchState
<1> USE EdgeFrame
<1>1. ForwardedX.status = "BUB" /\ ForwardedX.op = "NOP"
  BY DEF Inv, StagesDone, DecodeDone, Shapes, Decoded
<1>2. MappedPC(AfterM, AfterX) = IF F_in.status = "HLT" THEN 0 ELSE SelectPC
  BY FallenSeen DEF MappedPC
<1>3. /\ D_in.status # "BUB" /\ (D_in.status = "HLT" <=> F_in.status = "HLT")
      /\ D_in.status # "HLT" => PCOf(D_in) = SelectPC
  BY DEF Inv, StagesDone, FetchDone
<1>4. MappedPC(AfterM, AfterX)' = MappedPC(AfterM, AfterX)
  BY <1>1, <1>2, <1>3, PCAfterBubble DEF Edge, PCOf
<1>5. Norm(text, MappedPC(AfterM, AfterX))' = ArchState.pc
  BY <1>4, ArchParts DEF Norm, At
<1> QED
  BY <1>1, <1>5, BubbleEnters DEF Edge

LEMMA SuccessorOf == \A q \in Word : Plus(Plus(q, W - 1), 1) = q
<1> SUFFICES ASSUME NEW q \in Word PROVE Plus(Plus(q, W - 1), 1) = q
  OBVIOUS
<1>1. q \in Nat /\ q < W /\ W \in Nat
  BY WordAssumption DEF Word
<1>2. CASE q = 0
  <2>1. (q + (W - 1)) % W = W - 1 /\ (W - 1) + 1 = W /\ W % W = 0
    BY <1>1, <1>2, SMT
  <2> QED
    BY <1>2, <2>1 DEF Plus
<1>3. CASE q > 0
  <2>1. (q + (W - 1)) % W = q - 1
    <3>1. q - 1 \in Nat /\ q - 1 < W /\ q + (W - 1) = (q - 1) + W
      BY <1>1, <1>3, SMT
    <3>2. ((q - 1) + W) % W = q - 1
      BY <1>1, <3>1, SMT
    <3> QED
      BY <3>1, <3>2
  <2>2. (q - 1) + 1 = q /\ q % W = q
    BY <1>1, <1>3, SMT
  <2> QED
    BY <2>1, <2>2 DEF Plus
<1> QED
  BY <1>1, <1>2, <1>3, SMT

\* Where control goes after the instruction that enters Execute: a branch that
\* falls through and a return correct Fetch, for all others it was right.
LEMMA SuccessorFetched ==
    ASSUME TypeOK, TypeOK', Inv, HaltSeen', EndCycle, Smooth, AfterX.status = "AOK",
           AfterX'.status = "AOK", D_out.status = "AOK",
           X_out' = ForwardedX, M_out' = M_in, W_out' = W_in,
           \/ D_out.ins.op \in Returns /\ D_out' = DZero
           \/ D_out.ins.op \notin Returns /\ D_out' = D_in
    PROVE  Norm(text, MappedPC(AfterM, AfterX))'
              = Norm(text, Successor(D_out.ins, PCOf(D_out), ForwardedX, X_nzcvval))
<1> USE EdgeFrame
<1> DEFINE i == D_out.ins
           p == PCOf(D_out)
           y == ForwardedX
<1>1. y.op = i.op /\ y.status = "AOK" /\ y.seq_succ = D_out.seq_succ
  BY DEF Inv, StagesDone, DecodeDone
<1>2. Plus(p, 1) = D_out.seq_succ
  BY SuccessorOf DEF PCOf, TypeOK, DReg
<1>3. DZero.status = "BUB"
  BY DEF DZero
<1>4. /\ X_out.status \in {"BUB", "AOK"} /\ M_in.status \in {"BUB", "AOK"}
      /\ W_in.status \in {"BUB", "AOK"} /\ M_out.status \in {"BUB", "AOK"}
      /\ W_out.status \in {"BUB", "AOK"}
  BY SmoothEdge
<1>5. MappedPC(AfterM, AfterX)' =
         IF FallsThrough(y, X_nzcvval) THEN y.seq_succ
         ELSE IF D_out'.status # "BUB"
              THEN IF D_out'.status = "HLT" THEN 0 ELSE PCOf(D_out')
         ELSE IF F_in.status = "HLT" THEN 0 ELSE SelectPC'
  BY <1>1 DEF MappedPC, PCOf
<1>6. CASE FallsThrough(y, X_nzcvval)
  <2>1. i.op \in {"B_COND", "CBZ", "CBNZ"}
    BY <1>1, <1>6 DEF FallsThrough
  <2>2. Successor(i, p, y, X_nzcvval) = Plus(p, 1)
    BY <1>6, <2>1 DEF Successor
  <2> QED
    BY <1>1, <1>2, <1>5, <1>6, <2>2
<1>7. CASE ~FallsThrough(y, X_nzcvval) /\ i.op \in Returns
  <2>1. SelectPC' = y.val_a /\ Successor(i, p, y, X_nzcvval) = y.val_a
    BY <1>1, <1>7 DEF SelectPC, Successor, Returns
  <2>2. D_out'.status = "BUB"
    BY <1>3, <1>7
  <2>3. F_in.status = "HLT" => Norm(text, SelectPC') = 0
    BY <1>1, <1>4, <2>2, HaltAhead
  <2>4. MappedPC(AfterM, AfterX)' = IF F_in.status = "HLT" THEN 0 ELSE SelectPC'
    BY <1>5, <1>7, <2>2
  <2> QED
    BY <2>1, <2>3, <2>4, NormHalt
<1>8. CASE ~FallsThrough(y, X_nzcvval) /\ i.op \notin Returns
  <2>1. Successor(i, p, y, X_nzcvval) = PredictPC(p, i)
    BY <1>8 DEF Successor, PredictPC, Returns
  <2>2. SelectPC = PredictPC(p, i)
    <3>1. ~Error(X_out.status)
      BY <1>4 DEF Error
    <3>2. F_out.pred_PC = PredictPC(p, i) /\ X_out.op \notin Returns /\ ~Fallen(M_out)
      BY <3>1 DEF Inv, OnPath
    <3> QED
      BY <3>2 DEF SelectPC, Returns, Fallen, CondBranches
  <2>3. /\ D_in.status # "BUB" /\ (D_in.status = "HLT" <=> F_in.status = "HLT")
        /\ D_in.status # "HLT" => PCOf(D_in) = SelectPC
    BY DEF Inv, StagesDone, FetchDone
  <2>4. F_in.status = "HLT" => Norm(text, SelectPC) = 0
    <3>1. F_in.status = "HLT" => SelectPC = 0 \/ HaltAt(SelectPC)
      BY <1>4 DEF Inv, HaltSeen
    <3> QED
      BY <3>1, NormHalt
  <2>5. MappedPC(AfterM, AfterX)' = IF D_in.status = "HLT" THEN 0 ELSE PCOf(D_in)
    BY <1>5, <1>8, <2>3
  <2> QED
    BY <2>1, <2>2, <2>3, <2>4, <2>5, NormHalt
<1> QED
  BY <1>6, <1>7, <1>8

\* The flags that Execute will test are those of the machine.
LEMMA FlagsFound ==
    ASSUME FlagsKept', FlagsSetFirst', ran' = {}, X_out'.status = "AOK",
           X_out'.op \notin {"B_COND"} \cup Selects => X_out'.cond = "AL"
    PROVE  /\ CondVal(X_out', NZCV') = CondVal(X_out', X_nzcvval')
           /\ ValEx(X_out', NZCV') = ValEx(X_out', X_nzcvval')
<1>1. CASE X_out'.op \in {"B_COND"} \cup Selects
  <2>1. ~SetFlags(X_out'.op)
    BY <1>1 DEF SetFlags, RRSetting, Selects
  <2>2. X_nzcvval' = NZCV'
    BY <1>1, <2>1 DEF FlagsKept, FlagsSetFirst, Agree
  <2> QED
    BY <2>2
<1>2. CASE X_out'.op \notin {"B_COND"} \cup Selects
  <2>1. \A f : CondHolds("AL", f) = TRUE
    BY DEF CondHolds
  <2>2. \A f, g : CondVal(X_out', f) = CondVal(X_out', g)
    BY <1>2, <2>1 DEF CondVal
  <2>3. CondVal(X_out', NZCV') = CondVal(X_out', X_nzcvval')
    BY <2>2
  <2> QED
    BY <2>3 DEF ValEx
<1> QED
  BY <1>1, <1>2

\* The step of the machine, in the pipeline's operators.
Executed(s) ==
    LET i == At(text, s.pc)
        x == Issued(i, s.pc, s.regs)
        t == Finish(s, Computed(x, s.nzcv))
    IN IF t.status # "AOK" THEN t
       ELSE [t EXCEPT !.nzcv = IF SetFlags(i.op) THEN FlagsOf(x) ELSE @,
                      !.pc = Norm(text, Successor(i, s.pc, x, s.nzcv))]

LEMMA MachineExecutes == \A s : Sequential!Executed(s) = Executed(s)
<1>1. \A i, p, rs : Sequential!Issued(i, p, rs) = Issued(i, p, rs)
  BY SameDecoding, SameOperands DEF Sequential!Issued, Issued
<1>2. \A x, f : Sequential!Computed(x, f) = Computed(x, f)
  BY SameExecution DEF Sequential!Computed, Computed
<1>3. \A i, p, x, f : Sequential!Successor(i, p, x, f) = Successor(i, p, x, f)
  BY SameDecoding, SameExecution DEF Sequential!Successor, Successor,
     Sequential!FallsThrough, FallsThrough
<1> SUFFICES ASSUME NEW s PROVE Sequential!Executed(s) = Executed(s)
  OBVIOUS
<1> DEFINE i == At(text, s.pc)
           x == Issued(i, s.pc, s.regs)
           t == Finish(s, Computed(x, s.nzcv))
<1>4. /\ Sequential!At(text, s.pc) = i
      /\ Sequential!Issued(i, s.pc, s.regs) = x
      /\ Sequential!Finish(s, Sequential!Computed(x, s.nzcv)) = t
  BY <1>1, <1>2, SameDecoding, SameFinish
<1>5. /\ Sequential!FlagsOf(x) = FlagsOf(x)
      /\ Sequential!Norm(text, Sequential!Successor(i, s.pc, x, s.nzcv))
            = Norm(text, Successor(i, s.pc, x, s.nzcv))
  BY <1>3, SameDecoding, SameExecution
<1>6. Sequential!SetFlags(i.op) <=> SetFlags(i.op)
  BY SameSignals
<1>7. Sequential!Executed(s) =
         IF t.status # "AOK" THEN t
         ELSE [t EXCEPT !.nzcv = IF Sequential!SetFlags(i.op) THEN FlagsOf(x) ELSE @,
                        !.pc = Norm(text, Successor(i, s.pc, x, s.nzcv))]
  BY <1>4, <1>5, Zenon DEF Sequential!Executed
<1> HIDE DEF i, x, t
<1> QED
  BY <1>6, <1>7 DEF Executed, i, x, t

LEMMA MachineSteps ==
    ASSUME text' = text, ArchState.status = "AOK",
           \/ ArchState.pc = 0 /\ ArchState' = [ArchState EXCEPT !.status = "HLT"]
           \/ /\ ArchState.pc # 0 /\ ~Defined(ArchState.pc)
              /\ ArchState' = [ArchState EXCEPT !.status = "INS"]
           \/ /\ ArchState.pc # 0 /\ Defined(ArchState.pc)
              /\ ArchState' = Executed(ArchState)
    PROVE  Sequential!Next
<1>1. Sequential!Defined(ArchState.pc) <=> Defined(ArchState.pc)
  BY SameDecoding DEF Sequential!Defined, Defined
<1> QED
  BY <1>1, MachineExecutes DEF Sequential!Next, Sequential!Step

\* What enters Execute from Decode, and where the machine stands before it.
LEMMA IssueFacts ==
    ASSUME TypeOK, TypeOK', Inv, EndCycle, Smooth, AfterX.status = "AOK", ~Fallen(M_in),
           D_out.status # "BUB", X_out' = ForwardedX, M_out' = M_in, W_out' = W_in
    PROVE  /\ ArchState \in Arch /\ ArchState.status = "AOK" /\ Same(ArchState, AfterM')
           /\ ArchState.nzcv = NZCV'
           /\ ArchState.pc = Norm(text, IF D_out.status = "HLT" THEN 0 ELSE PCOf(D_out))
           /\ AfterX' = Finish(AfterM', Computed(ForwardedX, X_nzcvval))
           /\ Result(Computed(ForwardedX, X_nzcvval))
           /\ Computed(ForwardedX, X_nzcvval).status = D_out.status
           /\ Computed(ForwardedX, X_nzcvval).op = D_out.ins.op
           /\ ForwardedX.op = D_out.ins.op /\ ForwardedX.status = D_out.status
           /\ ForwardedX.seq_succ = D_out.seq_succ /\ ForwardedX.cond = CondOf(D_out.ins)
           /\ AfterM' \in Arch /\ AfterM'.status = "AOK"
<1> USE EdgeFrame
<1>1. ~FallsThrough(X_out, X_nzcvval)
  BY FallenSeen
<1>2. MappedPC(AfterM, AfterX) = IF D_out.status = "HLT" THEN 0 ELSE PCOf(D_out)
  BY <1>1 DEF MappedPC
<1>3. /\ ForwardedX.op = D_out.ins.op /\ ForwardedX.status = D_out.status
      /\ ForwardedX.seq_succ = D_out.seq_succ /\ ForwardedX.cond = CondOf(D_out.ins)
  BY DEF Inv, StagesDone, DecodeDone
<1>4. ForwardedX \in XReg /\ X_nzcvval \in Flags
  BY DEF TypeOK
<1>5. Same(AfterM', AfterX) /\ AfterM'.status = "AOK" /\ NZCV' = ArchState.nzcv
  BY SmoothEdge
<1>6. Same(ArchState, AfterX) /\ ArchState.pc = Norm(text, MappedPC(AfterM, AfterX))
  BY ArchParts
<1> QED
  BY <1>2, <1>3, <1>4, <1>5, <1>6, ArchType, PartsNext, ComputedResult DEF AfterX, Same

\* A halt or an instruction that is none.
LEMMA StopIssued ==
    ASSUME TypeOK, TypeOK', Inv, EndCycle, Smooth, AfterX.status = "AOK", ~Fallen(M_in),
           D_out.status \in {"HLT", "INS"}, X_out' = ForwardedX, M_out' = M_in, W_out' = W_in
    PROVE  Sequential!Next
<1> USE EdgeFrame
<1> DEFINE s == ArchState
           t == [s EXCEPT !.status = D_out.status]
<1>1. s \in Arch /\ s.status = "AOK" /\ Same(s, AfterM') /\ s.nzcv = NZCV'
      /\ s.pc = Norm(text, IF D_out.status = "HLT" THEN 0 ELSE PCOf(D_out))
  BY IssueFacts
<1>2. Same(AfterX', t)
  <2> DEFINE c == Computed(ForwardedX, X_nzcvval)
  <2>1. /\ AfterX' = Finish(AfterM', c) /\ Result(c) /\ c.status = D_out.status
        /\ AfterM' \in Arch /\ AfterM'.status = "AOK"
    BY IssueFacts
  <2> HIDE DEF c
  <2>2. t.regs = s.regs /\ t.mem = s.mem /\ t.output = s.output /\ t.status = D_out.status
    BY <1>1 DEF Arch
  <2> QED
    BY <1>1, <2>1, <2>2, FinishParts DEF Same
<1>3. t \in Arch /\ t.pc = s.pc /\ t.nzcv = s.nzcv /\ t.status = D_out.status
  BY <1>1 DEF Arch, ArchStatus
<1>4. MappedNZCV(AfterX)' = NZCV'
  BY <1>2, <1>3 DEF MappedNZCV, Same
<1>5. D_out.status = "INS" => PCOf(D_out) # 0 /\ ~Defined(PCOf(D_out))
  BY DEF Inv, Shapes, Decoded
<1>6. s.pc = IF D_out.status = "HLT" THEN 0 ELSE PCOf(D_out)
  BY <1>1, <1>5, NormHalt DEF Norm, Defined
<1>7. MappedPC(AfterM, AfterX)' = s.pc
  <2>1. AfterM'.status = "AOK" /\ ForwardedX.seq_succ = D_out.seq_succ
    BY IssueFacts
  <2> QED
    BY <1>2, <1>3, <1>6, <2>1 DEF MappedPC, Same, PCOf
<1>8. Norm(text, s.pc) = s.pc
  BY <1>1, <1>5, <1>6, NormHalt DEF Norm
<1>9. ArchState' = t
  <2>1. ArchState'.pc = t.pc /\ ArchState'.nzcv = t.nzcv /\ Same(ArchState', t)
        /\ ArchState' \in Arch
    BY <1>1, <1>2, <1>3, <1>4, <1>7, <1>8, PartsNext DEF Same
  <2> HIDE DEF t
  <2> QED
    BY <1>3, <2>1, ArchEqual
<1>10. CASE D_out.status = "HLT"
  BY <1>1, <1>6, <1>9, <1>10, MachineSteps
<1>11. CASE D_out.status = "INS"
  BY <1>1, <1>5, <1>6, <1>9, <1>11, MachineSteps
<1> QED
  BY <1>10, <1>11

\* What the machine issues is what Decode and forward_reg hand to Execute.
LEMMA SameIssued ==
    ASSUME TypeOK, TypeOK', Inv, OrdinarySources, FlagsKept', FlagsSetFirst', EndCycle, Smooth,
           ~CheckLoadUse, AfterX.status = "AOK", ~Fallen(M_in), D_out.status = "AOK",
           X_out' = ForwardedX, M_out' = M_in, W_out' = W_in
    PROVE  LET i == D_out.ins
               p == PCOf(D_out)
               x == Issued(i, p, ArchState.regs)
           IN /\ Same(Finish(ArchState, Computed(x, NZCV')), AfterX')
              /\ SetFlags(i.op) => FlagsOf(x) = FlagsOf(ForwardedX)
              /\ Successor(i, p, x, NZCV') = Successor(i, p, ForwardedX, X_nzcvval)
              /\ Finish(ArchState, Computed(x, NZCV')) \in Arch
              /\ Finish(ArchState, Computed(x, NZCV')).pc = ArchState.pc
              /\ Finish(ArchState, Computed(x, NZCV')).nzcv = ArchState.nzcv
              /\ Finish(ArchState, Computed(x, NZCV')).status \notin {"HLT", "INS", "BUB"}
<1> USE EdgeFrame
<1> DEFINE i == D_out.ins
           p == PCOf(D_out)
           s == ArchState
           x == Issued(i, p, s.regs)
           y == ForwardedX
           f == Finish(s, Computed(x, NZCV'))
<1>1. /\ s \in Arch /\ s.status = "AOK" /\ Same(s, AfterM')
      /\ AfterX' = Finish(AfterM', Computed(y, X_nzcvval))
      /\ y.op = i.op /\ y.status = "AOK" /\ y.seq_succ = D_out.seq_succ /\ y.cond = CondOf(i)
      /\ AfterM' \in Arch
  BY IssueFacts
<1>2. /\ y.dst = Dst(i)
      /\ y.val_imm = IF i.op = "BLR" THEN D_out.seq_succ ELSE i.imm
  BY DEF Inv, StagesDone, DecodeDone
<1>3. Plus(p, 1) = D_out.seq_succ
  BY SuccessorOf DEF PCOf, TypeOK, DReg
<1>4. y \in XReg /\ i \in Instr /\ X_nzcvval \in Flags /\ NZCV' \in Flags
  BY DEF TypeOK, DReg
<1>5. x.op = i.op /\ x.status = "AOK"
  BY DEF Issued
<1>6. Computed(y, X_nzcvval) = Computed(y, NZCV') /\ CondVal(y, X_nzcvval) = CondVal(y, NZCV')
  <2>1. y.op \notin {"B_COND"} \cup Selects => y.cond = "AL"
    BY <1>1 DEF CondOf
  <2>2. CondVal(y, NZCV') = CondVal(y, X_nzcvval) /\ ValEx(y, NZCV') = ValEx(y, X_nzcvval)
    BY <1>1, <2>1, FlagsFound
  <2> QED
    BY <2>2 DEF Computed
<1>7. CASE i.op = "NOP"
  <2>1. f = s /\ AfterX' = AfterM'
    BY <1>1, <1>5, <1>7, FinishNop DEF Computed
  <2>2. ~SetFlags(i.op)
    BY <1>7 DEF SetFlags, RRSetting
  <2>3. Successor(i, p, x, NZCV') = Plus(p, 1) /\ Successor(i, p, y, X_nzcvval) = Plus(p, 1)
    BY <1>7 DEF Successor
  <2> HIDE DEF f
  <2> QED
    BY <1>1, <2>1, <2>2, <2>3 DEF Same, f
<1>8. CASE i.op # "NOP"
  <2>1. y.val_a = RegRead(s.regs, Src1(i)) /\ y.val_b = RegRead(s.regs, Src2(i))
    <3>1. y.val_a = RegRead(AfterX.regs, Src1(i)) /\ y.val_b = RegRead(AfterX.regs, Src2(i))
      BY <1>8, OperandsForwarded
    <3> QED
      BY <3>1, ArchParts DEF Same
  <2>2. x = y
    <3>1. y = [op |-> y.op, status |-> y.status, seq_succ |-> y.seq_succ, val_a |-> y.val_a,
               val_b |-> y.val_b, val_imm |-> y.val_imm, cond |-> y.cond, dst |-> y.dst]
      BY <1>4 DEF XReg
    <3> HIDE DEF y
    <3> QED
      BY <1>1, <1>2, <1>3, <2>1, <3>1 DEF Issued
  <2>3. Computed(x, NZCV') = Computed(y, X_nzcvval)
    BY <1>6, <2>2
  <2> DEFINE c == Computed(y, X_nzcvval)
  <2>4. Result(c) /\ c.status = "AOK"
    BY <1>1, <1>4, ComputedResult
  <2>5. f = Finish(s, c) /\ AfterX' = Finish(AfterM', c)
    BY <1>1, <2>3
  <2>6. Same(f, AfterX')
    <3> HIDE DEF c, f
    <3> QED
      BY <1>1, <2>4, <2>5, FinishSame
  <2>7. f \in Arch /\ f.pc = s.pc /\ f.nzcv = s.nzcv
    <3> HIDE DEF c, f
    <3> QED
      BY <1>1, <2>4, <2>5, FinishArch
  <2>8. f.status \notin {"HLT", "INS", "BUB"}
    <3> HIDE DEF c, f
    <3> QED
      BY <1>1, <2>4, <2>5, FinishParts
  <2>9. Successor(i, p, x, NZCV') = Successor(i, p, y, X_nzcvval)
    BY <1>6, <2>2 DEF Successor, FallsThrough
  <2> HIDE DEF f
  <2> QED
    BY <2>2, <2>6, <2>7, <2>8, <2>9 DEF f
<1> QED
  BY <1>7, <1>8

\* An instruction that moves into Execute is executed by the machine.
LEMMA InstructionIssued ==
    ASSUME TypeOK, TypeOK', Inv, Inv', OrdinarySources, FlagsSetFirst', EndCycle, Smooth,
           ~CheckLoadUse, AfterX.status = "AOK", ~Fallen(M_in), D_out.status = "AOK",
           X_out' = ForwardedX, M_out' = M_in, W_out' = W_in,
           \/ D_out.ins.op \in Returns /\ D_out' = DZero
           \/ D_out.ins.op \notin Returns /\ D_out' = D_in
    PROVE  Sequential!Next
<1> USE EdgeFrame
<1> DEFINE i == D_out.ins
           p == PCOf(D_out)
           s == ArchState
           x == Issued(i, p, s.regs)
           t == Finish(s, Computed(x, NZCV'))
           n == Norm(text, Successor(i, p, x, NZCV'))
<1>1. AddrInImem(p) /\ i = At(text, p) /\ i.op \notin {"HLT", "ERROR"}
  BY DEF Inv, Shapes, Decoded
<1>2. /\ s \in Arch /\ s.status = "AOK" /\ s.nzcv = NZCV' /\ s.pc = Norm(text, p)
      /\ ForwardedX.op = i.op /\ ForwardedX.status = "AOK"
      /\ ForwardedX.seq_succ = D_out.seq_succ /\ AfterM'.status = "AOK"
  BY IssueFacts
<1>3. Norm(text, p) = p /\ p # 0 /\ Defined(p)
  BY <1>1, SegmentAssumption, SMT DEF Norm, Defined, AddrInImem, Word
<1>4. FlagsKept' /\ HaltSeen'
  BY DEF Inv
<1>5. /\ Same(t, AfterX') /\ (SetFlags(i.op) => FlagsOf(x) = FlagsOf(ForwardedX))
      /\ Successor(i, p, x, NZCV') = Successor(i, p, ForwardedX, X_nzcvval)
      /\ t \in Arch /\ t.pc = p /\ t.nzcv = NZCV'
      /\ t.status \notin {"HLT", "INS", "BUB"}
  BY <1>2, <1>3, <1>4, SameIssued
<1>6. Executed(s) = IF t.status # "AOK" THEN t
                    ELSE [t EXCEPT !.nzcv = IF SetFlags(i.op) THEN FlagsOf(x) ELSE @,
                                   !.pc = n]
  BY <1>1, <1>2, <1>3 DEF Executed
<1>7. Same(ArchState', t) /\ ArchState' \in Arch
      /\ ArchState'.pc = Norm(text, MappedPC(AfterM, AfterX)')
      /\ ArchState'.nzcv = MappedNZCV(AfterX)'
  BY <1>5, PartsNext DEF Same
<1>8. MappedNZCV(AfterX)' = IF t.status = "AOK" /\ SetFlags(i.op) THEN FlagsOf(x) ELSE NZCV'
  BY <1>2, <1>5 DEF MappedNZCV, Same
<1> HIDE DEF i, p, s, x, t, n
<1>9. CASE t.status # "AOK"
  <2>1. MappedPC(AfterM, AfterX)' = p
    BY <1>2, <1>5, <1>9 DEF MappedPC, Same, PCOf, p
  <2>2. ArchState' = t
    BY <1>3, <1>5, <1>7, <1>8, <1>9, <2>1, ArchEqual
  <2> QED
    BY <1>2, <1>3, <1>6, <1>9, <2>2, MachineSteps DEF s
<1>10. CASE t.status = "AOK"
  <2> DEFINE u == [t EXCEPT !.nzcv = IF SetFlags(i.op) THEN FlagsOf(x) ELSE @, !.pc = n]
  <2>1. Norm(text, MappedPC(AfterM, AfterX)') = n
    <3>1. AfterX'.status = "AOK"
      BY <1>5, <1>10 DEF Same
    <3>2. Norm(text, MappedPC(AfterM, AfterX)')
             = Norm(text, Successor(D_out.ins, PCOf(D_out), ForwardedX, X_nzcvval))
      BY <1>4, <3>1, SuccessorFetched
    <3> QED
      BY <1>5, <3>2 DEF n, i, p
  <2>2. u.pc = n /\ u.nzcv = (IF SetFlags(i.op) THEN FlagsOf(x) ELSE NZCV') /\ Same(u, t)
    BY <1>5 DEF Arch, Same
  <2>3. u \in Arch
    <3>1. ArchState'.pc \in Word /\ ArchState'.nzcv \in Flags
      BY <1>7 DEF Arch
    <3>2. n \in Word /\ (IF SetFlags(i.op) THEN FlagsOf(x) ELSE NZCV') \in Flags
      BY <1>7, <1>8, <1>10, <2>1, <3>1
    <3> QED
      BY <1>5, <3>2 DEF Arch
  <2> HIDE DEF u
  <2>4. ArchState' = u
    BY <1>7, <1>8, <1>10, <2>1, <2>2, <2>3, ArchEqual DEF Same
  <2> QED
    BY <1>2, <1>3, <1>6, <1>10, <2>4, MachineSteps DEF s, u
<1> QED
  BY <1>9, <1>10

LEMMA EdgeImplements ==
    ASSUME TypeOK, TypeOK', Inv, Inv', Regular, Regular', EndCycle
    PROVE  Sequential!Next \/ UNCHANGED <<text, ArchState>>
<1> USE EdgeFrame DEF Regular
<1>1. CASE Error(W_out.status) /\ Edge(F_out.pred_PC, D_out, X_out, M_out, W_out)
  BY <1>1, WritebackErrorStutters
<1>2. CASE ~Error(W_out.status) /\ Error(W_in.status)
           /\ Edge(F_out.pred_PC, D_out, X_out, M_out, W_in)
  BY <1>2, MemoryErrorStutters
<1>3. CASE ~Error(W_out.status) /\ ~Error(W_in.status) /\ Error(M_in.status)
           /\ dmem.status = "READY" /\ Edge(F_out.pred_PC, D_out, X_out, M_in, W_in)
  BY <1>3, ExecuteErrorStutters
<1>4. CASE ~AnyError /\ dmem.status = "IN_FLIGHT"
           /\ Edge(F_out.pred_PC, D_out, X_out, M_out, WZero)
  BY <1>4, MissStutters
<1>5. CASE Smooth /\ W_out' = W_in /\ M_out' = M_in /\ AfterX.status # "AOK"
  BY <1>5, StoppedInExecute DEF Smooth, AnyError
<1>6. CASE Smooth /\ CheckLoadUse /\ AfterX.status = "AOK"
           /\ Edge(F_out.pred_PC, D_out, XZero, M_in, W_in)
  BY <1>6, LoadUseStutters
<1>7. CASE Smooth /\ Fallen(M_in) /\ AfterX.status = "AOK"
           /\ Edge(F_out'.pred_PC, DZero, XZero, M_in, W_in)
  BY <1>7, MispredictStutters DEF Inv
<1>8. CASE /\ Smooth /\ ~CheckLoadUse /\ ~Fallen(M_in) /\ AfterX.status = "AOK"
           /\ \/ /\ D_out.ins.op \in Returns
                 /\ Edge(F_out'.pred_PC, DZero, ForwardedX, M_in, W_in)
              \/ /\ D_out.ins.op \notin Returns
                 /\ Edge(F_PC, D_in, ForwardedX, M_in, W_in)
  <2>1. CASE D_out.status = "BUB"
    <3>1. D_out.ins.op \notin Returns
      BY <2>1 DEF Inv, Shapes, Decoded, Returns
    <3> QED
      BY <1>8, <2>1, <3>1, BubbleMovesOn
  <2>2. CASE D_out.status \in {"HLT", "INS"}
    BY <1>8, <2>2, StopIssued DEF Edge
  <2>3. CASE D_out.status = "AOK"
    BY <1>8, <2>3, InstructionIssued DEF Edge
  <2> QED
    BY <2>1, <2>2, <2>3 DEF TypeOK, DReg, Status, Inv, Shapes, Decoded
<1>9. \/ AfterX.status = "AOK"
      \/ ~Smooth
      \/ Smooth /\ AfterX.status # "AOK"
  OBVIOUS
<1> QED
  BY <1>1, <1>2, <1>3, <1>4, <1>5, <1>6, <1>7, <1>8, EdgeCases DEF Edge

LEMMA StepImplements ==
    ASSUME TypeOK, TypeOK', Inv, Inv', Regular, Regular', [Next]_vars
    PROVE  [Sequential!Next]_(Sequential!vars)
<1>1. Sequential!Next \/ UNCHANGED <<text, ArchState>>
  <2>1. CASE UNCHANGED vars
    <3>1. UNCHANGED <<text, ran, regs, NZCV, mem, output, F_in, F_out, D_out, X_out, M_out,
                      W_out, X_nzcvval>>
      BY <2>1 DEF vars, proc, memory, pipes, wires
    <3>2. AfterM' = AfterM
      BY <3>1, AfterMUnchanged
    <3>3. AfterX' = AfterX
      BY <3>1, <3>2 DEF AfterX
    <3>4. MappedPC(AfterM, AfterX)' = MappedPC(AfterM, AfterX)
      BY <3>1, <3>2, <3>3 DEF MappedPC, PCOf, SelectPC
    <3> QED
      BY <3>1, <3>2, <3>3, <3>4, ArchUnchanged
  <2>2. CASE Fetch
    BY <2>2, FetchStutters DEF Regular
  <2>3. CASE Memory
    BY <2>3, MemoryStutters DEF Regular
  <2>4. CASE Decode \/ Execute \/ Writeback
    BY <2>4, DecodeStutters, ExecuteStutters, WritebackStutters
  <2>5. CASE EndCycle
    BY <2>5, EdgeImplements
  <2> QED
    BY <2>1, <2>2, <2>3, <2>4, <2>5 DEF Next
<1> QED
  BY <1>1 DEF Sequential!vars

\* The pipe is empty and Fetch is at the entry point.
LEMMA InitImplements == Init => Sequential!Init
<1> SUFFICES ASSUME Init PROVE Sequential!Init
  OBVIOUS
<1>1. PICK q \in Programs : /\ text = q.text /\ mem = q.mem /\ PC = q.entry
                            /\ F_out = [pred_PC |-> q.entry, status |-> "AOK"]
  BY DEF Init
<1>2. /\ D_out = DZero /\ X_out = XZero /\ M_out = MZero /\ W_out = WZero /\ ran = {}
      /\ F_in.status = "BUB" /\ output = <<>> /\ X_nzcvval = ZeroFlags
      /\ regs = [r \in Gpr \cup {SP} |-> IF r = SP THEN StackLo - 2 ELSE 0]
      /\ NZCV = [n |-> FALSE, z |-> TRUE, c |-> FALSE, v |-> FALSE]
  BY DEF Init, FZero, ZeroFlags
<1>3. AfterW = [pc |-> 0, regs |-> regs, nzcv |-> NZCV, mem |-> mem, output |-> output,
                status |-> "AOK"]
  BY <1>2 DEF AfterW, Retired, WZero, Error
<1>4. AfterM = AfterW
  BY <1>2, FinishNop DEF AfterM, MZero
<1>5. AfterX = AfterW
  BY <1>2, <1>4, FinishNop DEF AfterX, Computed, XZero
<1>6. MappedPC(AfterM, AfterX) = q.entry
  BY <1>1, <1>2, <1>3, <1>5 DEF MappedPC, FallsThrough, XZero, DZero, MZero, SelectPC
<1>7. MappedNZCV(AfterX) = NZCV
  BY <1>2 DEF MappedNZCV, XZero, SetFlags, RRSetting
<1>8. ArchState = [AfterW EXCEPT !.pc = Norm(text, q.entry), !.nzcv = NZCV]
  BY <1>5, <1>6, <1>7, ArchStateIs DEF Mapped
<1>9. ArchState = [pc |-> Norm(text, q.entry), regs |-> regs, nzcv |-> NZCV, mem |-> mem,
                   output |-> output, status |-> "AOK"]
  BY <1>3, <1>8
<1>10. Sequential!Norm(q.text, q.entry) = Norm(text, q.entry)
  BY <1>1, SameDecoding
<1>11. Sequential!Start(q.entry, q.mem)
          = [pc |-> q.entry, nzcv |-> NZCV, regs |-> regs, mem |-> mem, output |-> output,
             status |-> "AOK"]
  BY <1>1, <1>2, Zenon DEF Sequential!Start, Sequential!SP, SP
<1>12. ArchState = [Sequential!Start(q.entry, q.mem)
                    EXCEPT !.pc = Sequential!Norm(q.text, q.entry)]
  BY <1>9, <1>10, <1>11
<1> QED
  BY <1>1, <1>12 DEF Sequential!Init

\* The pipeline implements the machine that executes one instruction after the
\* other, for every program, memory, delay of the cache and order of the stages
\* (proc.c:45-141, instr_Fetch.c to instr_Writeback.c, forward.c,
\* hazard_control.c), in every behaviour whose states are Regular.
THEOREM PipelineCorrect == Spec /\ []Regular => ImplementsMachine
<1>1. Init => Sequential!Init
  BY InitImplements
<1>2. TypeOK /\ TypeOK' /\ Inv /\ Inv' /\ Regular /\ Regular' /\ [Next]_vars
      => [Sequential!Next]_(Sequential!vars)
  BY StepImplements
<1> QED
  BY <1>1, <1>2, PipelineTyped, InvHolds, PTL DEF Spec, ImplementsMachine, Sequential!Spec

-----------------------------------------------------------------------------
(* Where the emulator stops *)

LEMMA InvStops == TypeOK /\ Inv => StopsAsMachine
<1> SUFFICES ASSUME TypeOK, Inv, status \notin {"AOK", "BUB"}
             PROVE  status = ArchState.status /\ (Error(status) => PC = ArchState.pc)
  BY DEF StopsAsMachine, Running
<1>1. CASE status = "HLT"
  <2>1. W_out.status = "HLT" /\ ~Error(status)
    BY <1>1 DEF Inv, Halts, Error
  <2>2. AfterX = AfterM /\ AfterM.status = "HLT"
    BY <2>1, AfterWType, AfterMType, FinishStopped DEF AfterX
  <2> QED
    BY <1>1, <2>1, <2>2, ArchParts DEF Same
<1>2. CASE Error(status)
  <2>1. W_out.status = status /\ PC = PCOf(M_out) /\ Faulty(M_out)
    BY <1>2 DEF Inv, Stopped
  <2>2. AfterX = AfterM /\ AfterM.status = status
    BY <1>2, <2>1, AfterWType, AfterMType, FinishStopped DEF AfterX, Error
  <2>3. status = ArchState.status /\ ArchState.pc = Norm(text, PC)
    BY <1>2, <2>1, <2>2, ArchParts DEF Same, MappedPC, Error
  <2>4. M_out.status \in {"AOK", "INS"}
    BY <2>1 DEF Inv, Shapes, Shape, Placed, Faulty, Error, FormatM, TypeOK, MReg, Status
  <2>5. ~HaltAt(PC)
    BY <2>1, <2>4 DEF Inv, Shapes, Placed
  <2> QED
    BY <2>3, <2>5 DEF Norm, HaltAt
<1> QED
  BY <1>1, <1>2 DEF Error, TypeOK, Status

\* handle_hazards' error overrides and the loop's end: the emulator stops for
\* the machine's reason, and the program counter it reports after a fault is
\* that of the instruction at fault (hazard_control.c:148-180, proc.c:103-141).
THEOREM StopsForTheMachine == Spec /\ []Regular => []StopsAsMachine
<1>1. TypeOK /\ Inv => StopsAsMachine
  BY InvStops
<1> QED
  BY <1>1, PipelineTyped, InvHolds, PTL

-----------------------------------------------------------------------------
(* The miss in flight *)

\* At the clock edge the access that waits stays where it is, unless an
\* instruction in Execute is at fault.
LEMMA EdgeKeepsMiss ==
    ASSUME TypeOK, MissOwned, NoOvertaking, EndCycle PROVE MissOwned'
<1>1. dmem' = dmem /\ ran = Stages
  BY DEF EndCycle
<1>2. dmem.status = "IN_FLIGHT" => ~Error(M_in.status)
  BY <1>1 DEF NoOvertaking
<1>3. M_out' = Latched(HandleHazards.M, M_in, M_out, MZero)
  BY DEF EndCycle
<1>4. dmem.status = "IN_FLIGHT" => HandleHazards.M = "STALL"
  BY <1>2 DEF HandleHazards, AnyError, ErrorControl, HazardControl, Hazards, OnMiss, Control
<1>5. dmem.status = "IN_FLIGHT" => M_out' = M_out
  BY <1>3, <1>4 DEF Latched
<1> QED
  BY <1>1, <1>5 DEF MissOwned, InFlightOwned

LEMMA StepKeepsMiss ==
    ASSUME TypeOK, FetchesText, NoOvertaking, MissOwned, [Next]_vars PROVE MissOwned'
<1>1. CASE Fetch
  BY <1>1, FetchFrame, FetchEffect DEF MissOwned, InFlightOwned
<1>2. CASE Memory
  BY <1>2, MemoryFrame, MemoryEffect DEF MissOwned, InFlightOwned
<1>3. CASE UNCHANGED <<M_out, dmem>>
  BY <1>3 DEF MissOwned, InFlightOwned
<1>4. CASE Decode \/ Execute \/ Writeback \/ UNCHANGED vars
  BY <1>3, <1>4 DEF Decode, Execute, Writeback, vars, pipes
<1>5. CASE EndCycle
  BY <1>5, EdgeKeepsMiss
<1> QED
  BY <1>1, <1>2, <1>4, <1>5 DEF Next

\* The inflight variables of cache.c are shared by every access: the miss they
\* describe is always that of the instruction in Memory, and its count runs down
\* (mem.c:175-246, hazard_control.c:122-127).
THEOREM MissIsOwned == Spec /\ [](FetchesText /\ NoOvertaking) => []InFlightOwned
<1>1. Init => MissOwned
  BY DEF Init, NoMiss, MissOwned, InFlightOwned
<1>2. TypeOK /\ FetchesText /\ NoOvertaking /\ MissOwned /\ [Next]_vars => MissOwned'
  BY StepKeepsMiss
<1>3. MissOwned => InFlightOwned
  BY DEF MissOwned
<1> QED
  BY <1>1, <1>2, <1>3, PipelineTyped, PTL DEF Spec

-----------------------------------------------------------------------------
(* Conditions *)

\* What Execute has done with the flags, and what they agree with.
FlagsInv ==
    /\ "X" \in ran => /\ M_in.status = X_out.status
                      /\ X_set_flags = SetFlags(X_out.op)
                      /\ ~SetFlags(X_out.op) => M_in.cond_holds = CondVal(X_out, X_nzcvval)
    /\ FlagsKept

LEMMA EdgeKeepsFlags == ASSUME TypeOK, FlagsInv, EndCycle PROVE FlagsInv'
<1>1. /\ ran = Stages /\ ran' = {}
      /\ deassert_flags' = (deassert_flags \/ AnyError)
      /\ NZCV' = IF X_set_flags /\ ~deassert_flags' THEN X_nzcvval ELSE NZCV
      /\ X_nzcvval' = X_nzcvval
      /\ X_out' = Latched(HandleHazards.X, X_in', X_out, XZero)
      /\ W_out' = Latched(HandleHazards.W, W_in, W_out, WZero)
  BY DEF EndCycle
<1>2. M_in.status = X_out.status /\ X_set_flags = SetFlags(X_out.op) /\ FlagsKept
  BY <1>1 DEF FlagsInv, Stages
<1>3. AnyError => X_out' = X_out
  BY <1>1 DEF HandleHazards, ErrorControl, Control, Latched
<1>4. AnyError => Error(X_out.status) \/ Error(W_out'.status)
  BY <1>1, <1>2 DEF AnyError, HandleHazards, ErrorControl, Control, Latched
<1>5. deassert_flags => AnyError
  BY <1>2 DEF FlagsKept, AnyError
<1>6. deassert_flags' => AnyError
  BY <1>1, <1>5
<1>7. ~SetFlags(X_out'.op) \/ ~deassert_flags' => Agree'
  <2>1. CASE SetFlags(X_out.op) /\ ~deassert_flags'
    BY <1>1, <1>2, <2>1 DEF Agree
  <2>2. CASE SetFlags(X_out.op) /\ deassert_flags'
    BY <1>3, <1>6, <2>2
  <2>3. CASE ~SetFlags(X_out.op)
    BY <1>1, <1>2, <2>3 DEF FlagsKept, Agree
  <2> QED
    BY <2>1, <2>2, <2>3
<1> QED
  BY <1>1, <1>3, <1>4, <1>6, <1>7 DEF FlagsInv, FlagsKept

LEMMA StepKeepsFlags == ASSUME TypeOK, FlagsInv, [Next]_vars PROVE FlagsInv'
<1>1. CASE Execute
  <2>1. /\ X_out' = X_out /\ W_out' = W_out /\ deassert_flags' = deassert_flags
        /\ NZCV' = NZCV /\ ran' = ran \cup {"X"} /\ "X" \notin ran
    BY <1>1, ExecuteFrame
  <2>2. /\ M_in'.status = X_out.status /\ X_set_flags' = SetFlags(X_out.op)
        /\ M_in'.cond_holds = CondVal(X_out, X_nzcvval)
        /\ ~SetFlags(X_out.op) => X_nzcvval' = X_nzcvval
    BY <1>1 DEF Execute, NextFlags
  <2> QED
    BY <2>1, <2>2 DEF FlagsInv, FlagsKept, Agree
<1>2. ASSUME W_out'.status = W_out.status, "X" \in ran' <=> "X" \in ran,
             UNCHANGED <<X_out, M_in, X_set_flags, X_nzcvval, NZCV, deassert_flags>>
      PROVE  FlagsInv'
  BY <1>2 DEF FlagsInv, FlagsKept, Agree
<1>3. CASE Fetch \/ Decode \/ Memory
  BY <1>2, <1>3, FetchFrame, DecodeFrame, MemoryFrame
<1>4. CASE Writeback
  <2>1. W_out'.status = W_out.status
    BY <1>4 DEF Writeback, TypeOK, WReg
  <2> QED
    BY <1>2, <1>4, <2>1 DEF Writeback, Turn, proc
<1>5. CASE UNCHANGED vars
  BY <1>2, <1>5 DEF vars, proc, pipes, wires
<1>6. CASE EndCycle
  BY <1>6, EdgeKeepsFlags
<1> QED
  BY <1>1, <1>3, <1>4, <1>5, <1>6 DEF Next

LEMMA FlagsTested == TypeOK /\ FlagsInv /\ FlagsSetFirst => ConditionOnFlags
<1> SUFFICES ASSUME FlagsInv, FlagsSetFirst, ran = Stages, X_out.status = "AOK",
                    X_out.op \in {"B_COND"} \cup Selects
             PROVE  M_in.cond_holds = CondHolds(X_out.cond, NZCV)
  BY DEF ConditionOnFlags
<1>1. ~SetFlags(X_out.op) /\ X_out.op \notin {"CBZ", "CBNZ"}
  BY DEF SetFlags, RRSetting, Selects
<1>2. M_in.cond_holds = CondVal(X_out, X_nzcvval)
  BY <1>1 DEF FlagsInv, Stages
<1>3. X_nzcvval = NZCV
  BY <1>1 DEF FlagsInv, FlagsKept, FlagsSetFirst, Agree
<1> QED
  BY <1>1, <1>2, <1>3 DEF CondVal

\* execute_instr tests conditions on the wire X_nzcvval, whatever stalls and
\* faults come between the instruction that set it and the one that tests it:
\* it finds the flags of the machine (instr_Execute.c, proc.c:118-129).
THEOREM ConditionsOnFlags == Spec /\ []FlagsSetFirst => []ConditionOnFlags
<1>1. Init => FlagsInv
  BY DEF Init, FlagsInv, FlagsKept, Agree, InitialFlags, XZero, SetFlags, RRSetting
<1>2. TypeOK /\ FlagsInv /\ [Next]_vars => FlagsInv'
  BY StepKeepsFlags
<1> QED
  BY <1>1, <1>2, FlagsTested, PipelineTyped, PTL DEF Spec

\* The stall for a miss overrides every other hazard: until the access is done
\* it stays in Memory, nothing younger moves and only bubbles retire
\* (hazard_control.c:114-127).
THEOREM MissesHoldThePipe == Spec /\ []Regular => MissesStall
<1>1. ASSUME TypeOK, Inv, Regular, [Next]_vars, ran = Stages, ran' = {},
             dmem.status = "IN_FLIGHT", ~DmemErr(M_out.val_ex)
      PROVE  M_out' = M_out /\ X_out' = X_out /\ W_out'.status = "BUB"
  <2>1. EndCycle
    <3>1. "F" \in ran /\ "F" \notin ran'
      BY <1>1 DEF Stages
    <3> QED
      BY <1>1, <3>1, FetchFrame, DecodeFrame, ExecuteFrame, MemoryFrame, WritebackFrame
         DEF Next, vars
  <2>2. M_out.op \in FormatM /\ M_out.status = "AOK"
    BY <1>1 DEF Inv, MissOwned, InFlightOwned, Regular, StoresInBounds
  <2>3. ~Error(W_in.status) /\ ~Error(W_out.status)
    BY <1>1, <2>2 DEF Inv, StagesDone, MemoryDone, Stopped, Faulty, Error, Stages
  <2>4. ~Error(M_in.status)
    BY <1>1 DEF Regular, NoOvertaking
  <2>5. HandleHazards = OnMiss
    BY <1>1, <2>3, <2>4 DEF HandleHazards, AnyError, HazardControl, Hazards
  <2>6. /\ M_out' = Latched(HandleHazards.M, M_in, M_out, MZero)
        /\ X_out' = Latched(HandleHazards.X, X_in', X_out, XZero)
        /\ W_out' = Latched(HandleHazards.W, W_in, W_out, WZero)
    BY <2>1 DEF EndCycle
  <2> QED
    BY <2>5, <2>6 DEF OnMiss, Control, Latched, WZero
<1>2. TypeOK /\ Inv /\ Regular /\ [Next]_vars =>
        [ran = Stages /\ ran' = {} /\ dmem.status = "IN_FLIGHT" /\ ~DmemErr(M_out.val_ex)
           => M_out' = M_out /\ X_out' = X_out /\ W_out'.status = "BUB"]_vars
  BY <1>1
<1> QED
  BY <1>2, PipelineTyped, InvHolds, PTL DEF Spec, MissesStall

\* Programs that are well laid out: the pipeline is invisible as long as the
\* values they compute keep clear of SP and XZR as forwarded sources, of the
\* flags at the start, of stores that fault and of jumps into the data segments.
\* Nothing else about a program matters.
THEOREM LaidProgramsCorrect ==
    ASSUME Laid
    PROVE  Spec /\ []RegularData => ImplementsMachine /\ []StopsAsMachine
BY LaidProgramsRegular, PipelineCorrect, StopsForTheMachine, PTL
=============================================================================

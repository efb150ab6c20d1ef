------------------------------ MODULE Pipeline ------------------------------
(***************************************************************************)
(* The five-stage pipeline of the emulator: the loop of runElf, the stage  *)
(* functions, forwarding, hazard control and the clock edge.               *)
(*                                                                         *)
(* A cycle runs every stage function once and then the correction steps    *)
(* and the latch.  Each stage is one action; `ran' holds the stages that   *)
(* have run in this cycle.  The default build calls them in the order of   *)
(* the program text, the RANDOM build in any order it draws, and the       *)
(* PARALLEL build in the order the threads are scheduled: AnyOrder covers  *)
(* the last two.                                                           *)
(*                                                                         *)
(* A pipeline register R has an input side R_in, which the stage before it *)
(* writes, and an output side R_out, which its own stage reads.  The       *)
(* control signals are functions of the opcode and travel with it.         *)
(*                                                                         *)
(* The data memory is flat here; the data cache contributes only when an   *)
(* access completes (MissDelay), and a fill may push out any other block.  *)
(* CachedMemory shows that memory behind real lines is of this kind.       *)
(***************************************************************************)
EXTENDS MemoryMap, FiniteSets, MissDelay

CONSTANTS
    Programs,        \* loaded programs: text, entry point, initial memory
    Outside,         \* what a word outside the text segment may decode to
    Uninit,          \* what an unset register number of decode_instr may be
    AnyOrder,        \* FALSE: stages in program order; TRUE: RANDOM, PARALLEL
    Cached,          \* guest.cache # NULL
    BlockUnits,      \* the block size of the cache, in units
    CycleMax         \* cycle_max

ASSUME ModeAssumption == AnyOrder \in BOOLEAN /\ Cached \in BOOLEAN
ASSUME CacheAssumption == Delay \in Nat \ {0} /\ BlockUnits \in Nat \ {0}
ASSUME CycleAssumption == CycleMax \in Nat \ {0}
ASSUME DecodeAssumption == Outside \subseteq Instr /\ Outside # {} 
                           /\ Uninit \subseteq RegNum /\ Uninit # {}
ASSUME ProgramsAssumption ==
    \A p \in Programs : /\ p.text \in [TextLo .. DataLo - 1 -> Instr]
                        /\ p.entry \in Word
                        /\ p.mem \in [Word -> Word]

VARIABLES
    text,                                \* the text segment
    ran, num_instr,                      \* the loop of runElf
    PC, regs, NZCV, status,              \* guest.proc
    mem, output, exited,                 \* memory, console, process
    F_in, F_out, D_in, D_out, X_in, X_out, M_in, M_out, W_in, W_out,
    F_PC, M_PC, D_src1, D_src2, X_set_flags, X_nzcvval, W_wval, deassert_flags

proc == <<PC, regs, NZCV, status>>
memory == <<mem, output, exited>>
pipes == <<F_in, F_out, D_in, D_out, X_in, X_out, M_in, M_out, W_in, W_out>>
wires == <<F_PC, M_PC, D_src1, D_src2, X_set_flags, X_nzcvval, W_wval, deassert_flags>>
vars == <<text, ran, num_instr, proc, memory, dmem, pipes, wires>>

Stages == {"F", "D", "X", "M", "W"}
Status == {"BUB", "AOK", "HLT", "ADR", "INS"}

\* The bubble is the all-zero pattern of each pipeline register.
FZero == [pred_PC |-> 0, status |-> "BUB"]
DZero == [ins |-> ZeroInstr, seq_succ |-> 0, status |-> "BUB"]
XZero == [op |-> "NOP", status |-> "BUB", seq_succ |-> 0, val_a |-> 0, val_b |-> 0,
          val_imm |-> 0, cond |-> "EQ", dst |-> 0]
MZero == [op |-> "NOP", status |-> "BUB", seq_succ |-> 0, cond_holds |-> FALSE,
          val_ex |-> 0, val_b |-> 0, dst |-> 0]
WZero == [op |-> "NOP", status |-> "BUB", dst |-> 0, val_ex |-> 0, val_mem |-> 0]
ZeroFlags == [n |-> FALSE, z |-> FALSE, c |-> FALSE, v |-> FALSE]

-----------------------------------------------------------------------------
Init ==
    /\ \E p \in Programs : /\ text = p.text
                           /\ mem = p.mem
                           /\ PC = p.entry
                           /\ F_out = [pred_PC |-> p.entry, status |-> "AOK"]
    /\ regs = [r \in Gpr \cup {SP} |-> IF r = SP THEN StackLo - 2 ELSE 0]
    /\ NZCV = [ZeroFlags EXCEPT !.z = TRUE]
    /\ status = "BUB"
    /\ ran = {} /\ num_instr = 0
    /\ output = <<>> /\ exited = FALSE
    /\ dmem = NoMiss
    /\ F_in = FZero
    /\ D_in = DZero /\ D_out = DZero
    /\ X_in = XZero /\ X_out = XZero
    /\ M_in = MZero /\ M_out = MZero
    /\ W_in = WZero /\ W_out = WZero
    /\ F_PC = 0 /\ M_PC = 0 /\ D_src1 = 0 /\ D_src2 = 0
    /\ X_set_flags = FALSE /\ X_nzcvval = ZeroFlags /\ W_wval = 0
    /\ deassert_flags = FALSE

\* Mutant of Running: one cycle too many.
RunningLate == ~exited /\ status \in {"AOK", "BUB"} /\ num_instr <= CycleMax

\* The loop goes on while the machine is AOK, or a bubble retires.
Running == ~exited /\ status \in {"AOK", "BUB"} /\ num_instr < CycleMax

\* stage_ordering.c: the table of every order of the five stages.
Orderings == {o \in [1 .. 5 -> Stages] : \A i, j \in 1 .. 5 : o[i] = o[j] => i = j}
ProgramOrder == <<"F", "D", "X", "M", "W">>

\* The stages that may have run before a stage is called: those in front of it
\* in the order of the text, or in an order drawn from the table.
Before(o, i) == {o[j] : j \in 1 .. i - 1}
Calls == {<<Before(o, i), o[i]>> : o \in IF AnyOrder THEN Orderings ELSE {ProgramOrder},
                                   i \in 1 .. 5}
Turn(stage) == /\ Running
               /\ <<ran, stage>> \in Calls
               /\ ran' = ran \cup {stage}

-----------------------------------------------------------------------------
(* The cache as the stages see it *)

Block(a) == a - (a % BlockUnits)

\* Mutant of ThroughCache: instructions go through the cache as well.
ThroughCacheAll(a) == Cached /\ a \notin Special

\* Only accesses at or above the data segment go through the cache.
ThroughCache(a) == Cached /\ a >= DataLo /\ a \notin Special
Access(a) == IF ThroughCache(a) THEN Touched(Block(a)) ELSE {dmem}
Waits(a, d) == ThroughCache(a) /\ d.status = "IN_FLIGHT"

-----------------------------------------------------------------------------
(* Fetch *)

\* Mutant of SelectPC: it looks for a return in what Decode is writing.
SelectPCEarly ==
    IF X_in.op = "RET" THEN X_in.val_a
    ELSE IF X_out.op \in {"BR", "BLR"} THEN X_out.val_a
    ELSE IF M_out.op \in {"CBZ", "CBNZ", "B_COND"} /\ ~M_out.cond_holds THEN M_out.seq_succ
    ELSE F_out.pred_PC

SelectPC ==
    IF X_out.op \in {"RET", "BR", "BLR"} THEN X_out.val_a       \* 0 when main returns
    ELSE IF M_out.op \in {"CBZ", "CBNZ", "B_COND"} /\ ~M_out.cond_holds THEN M_out.seq_succ
    ELSE F_out.pred_PC

PredictPC(p, i) == IF i.op \in {"B", "BL", "B_COND", "CBZ", "CBNZ"}
                   THEN Plus(p, i.imm) ELSE Plus(p, 1)

\* What imem returns; a miss in the cache returns the word 0, no instruction.
Fetched(p, d) ==
    IF AddrInImem(p) THEN {text[p]}
    ELSE IF Waits(p, d) THEN {[ZeroInstr EXCEPT !.op = "ERROR"]}
    ELSE Outside

FetchStatus(p, i) == CASE ~AddrInImem(p) \/ i.op = "ERROR" -> "INS"
                       [] AddrInImem(p) /\ i.op = "HLT" -> "HLT"
                       [] OTHER -> "AOK"

FetchHalt == /\ SelectPC = 0 \/ F_in.status = "HLT"
             /\ D_in' = [D_in EXCEPT !.ins = HaltInstr, !.status = "HLT"]
             /\ F_out' = [F_out EXCEPT !.status = "HLT"]
             /\ F_in' = [F_in EXCEPT !.status = "HLT"]
             /\ UNCHANGED <<F_PC, dmem>>

FetchWord ==
    /\ SelectPC # 0 /\ F_in.status # "HLT"
    /\ \E d \in Access(SelectPC) : \E w \in Fetched(SelectPC, d) :
          LET i == FixInstrAliases(Itable(w))
              s == FetchStatus(SelectPC, i)
          IN /\ D_in' = [ins |-> i, seq_succ |-> Plus(SelectPC, 1), status |-> s]
             /\ F_PC' = PredictPC(SelectPC, i)
             /\ F_out' = [F_out EXCEPT !.status = s]
             /\ F_in' = [F_in EXCEPT !.status = s]
             /\ dmem' = d

Fetch == /\ Turn("F")
         /\ FetchHalt \/ FetchWord
         /\ UNCHANGED <<text, num_instr, proc, memory, D_out, X_in, X_out, M_in, M_out,
                        W_in, W_out, M_PC, D_src1, D_src2, X_set_flags, X_nzcvval,
                        W_wval, deassert_flags>>

-----------------------------------------------------------------------------
(* Decode *)

\* format_other sets no register number: for a bubble or an undefined opcode
\* they are whatever the stack held.
Unset == D_out.status = "BUB" \/ D_out.ins.op = "ERROR"
Choices(n) == IF Unset THEN Uninit ELSE {n}

\* A bubble, and NOP, read no register.
Read(n) == IF D_out.status = "BUB" \/ D_out.ins.op = "NOP" THEN 0 ELSE RegRead(regs, n)

Decode ==
    /\ Turn("D")
    /\ \E s1 \in Choices(Src1(D_out.ins)), s2 \in Choices(Src2(D_out.ins)),
          d \in Choices(Dst(D_out.ins)) :
          /\ X_in' = [op |-> D_out.ins.op, status |-> D_out.status,
                      seq_succ |-> D_out.seq_succ,
                      val_a |-> Read(s1), val_b |-> Read(s2),
                      val_imm |-> IF D_out.ins.op = "BLR" THEN D_out.seq_succ
                                  ELSE D_out.ins.imm,
                      cond |-> CondOf(D_out.ins), dst |-> d]
          /\ D_src1' = s1 /\ D_src2' = s2
    /\ UNCHANGED <<text, num_instr, proc, memory, dmem, F_in, F_out, D_in, D_out,
                   X_out, M_in, M_out, W_in, W_out, F_PC, M_PC, X_set_flags,
                   X_nzcvval, W_wval, deassert_flags>>

-----------------------------------------------------------------------------
(* Execute: the condition is tested on the X_nzcvval of the cycle before *)

\* Mutant of NextFlags: the wire is driven to zero when no flags are set.
NextFlagsZero == IF SetFlags(X_out.op) THEN FlagsOf(X_out) ELSE ZeroFlags

NextFlags == IF SetFlags(X_out.op) THEN FlagsOf(X_out) ELSE X_nzcvval

Execute ==
    /\ Turn("X")
    /\ M_in' = [op |-> X_out.op, status |-> X_out.status, seq_succ |-> X_out.seq_succ,
                cond_holds |-> CondVal(X_out, X_nzcvval),
                val_ex |-> ValEx(X_out, X_nzcvval), val_b |-> X_out.val_b,
                dst |-> X_out.dst]
    /\ X_set_flags' = SetFlags(X_out.op)
    /\ X_nzcvval' = NextFlags
    /\ UNCHANGED <<text, num_instr, proc, memory, dmem, F_in, F_out, D_in, D_out, X_in,
                   X_out, M_out, W_in, W_out, F_PC, M_PC, D_src1, D_src2, W_wval,
                   deassert_flags>>

-----------------------------------------------------------------------------
(* Memory *)

\* dmem: the access is made whatever the status of the instruction is and even
\* when it faults; while the block is in flight a store changes nothing and a
\* load returns 0.
Memory ==
    /\ Turn("M")
    /\ LET a == M_out.val_ex
           isMem == M_out.op \in FormatM
           s == IF isMem /\ DmemErr(a) THEN "ADR" ELSE M_out.status
       IN /\ \E d \in IF isMem THEN Access(a) ELSE {dmem} :
                LET done == isMem /\ ~Waits(a, d)
                IN /\ dmem' = d
                   /\ mem' = IF done /\ DmemWrite(M_out.op) THEN Stored(mem, a, M_out.val_b)
                             ELSE mem
                   /\ output' = IF done /\ DmemWrite(M_out.op)
                                THEN Shown(output, a, M_out.val_b) ELSE output
                   /\ W_in' = [op |-> M_out.op, status |-> s, dst |-> M_out.dst,
                               val_ex |-> M_out.val_ex,
                               val_mem |-> IF ~DmemRead(M_out.op) THEN W_in.val_mem
                                           ELSE IF done THEN LoadValue(mem, a) ELSE 0]
          /\ exited' = (isMem /\ Ends(M_out.op, a))
          /\ M_PC' = IF s \in {"ADR", "INS"} THEN Plus(M_out.seq_succ, W - 1) ELSE M_PC
    /\ UNCHANGED <<text, num_instr, proc, F_in, F_out, D_in, D_out, X_in, X_out, M_in,
                   M_out, W_out, F_PC, D_src1, D_src2, X_set_flags, X_nzcvval,
                   W_wval, deassert_flags>>

-----------------------------------------------------------------------------
(* Writeback *)

Writeback ==
    /\ Turn("W")
    /\ W_out' = [W_out EXCEPT !.dst = IF DstSel(W_out.op) THEN LR ELSE @]
    /\ W_wval' = IF WvalSel(W_out.op) THEN W_out.val_mem ELSE W_out.val_ex
    /\ UNCHANGED <<text, num_instr, proc, memory, dmem, F_in, F_out, D_in, D_out, X_in,
                   X_out, M_in, M_out, W_in, F_PC, M_PC, D_src1, D_src2, X_set_flags,
                   X_nzcvval, deassert_flags>>

-----------------------------------------------------------------------------
(* The end of a cycle: forwarding, hazards, clocked state, latch *)

\* forward_reg for one source: the youngest instruction ahead that writes it.
Feeds(r, src) == WEnable(r.op) /\ r.dst = src /\ r.dst # 31

\* Mutant of Forward: from Memory always the address, never the loaded value.
ForwardAddress(src, val) ==
    IF Feeds(X_out, src) THEN M_in.val_ex
    ELSE IF Feeds(M_out, src) THEN M_out.val_ex
    ELSE IF Feeds(W_out, src)
    THEN IF WvalSel(W_out.op) THEN W_out.val_mem ELSE W_out.val_ex
    ELSE val

Forward(src, val) ==
    IF Feeds(X_out, src) THEN M_in.val_ex
    ELSE IF Feeds(M_out, src)
    THEN IF WvalSel(M_out.op) THEN W_in.val_mem ELSE M_out.val_ex
    ELSE IF Feeds(W_out, src)
    THEN IF WvalSel(W_out.op) THEN W_out.val_mem ELSE W_out.val_ex
    ELSE val

\* Mutant of CheckLoadUse: only the first source is compared.
CheckLoadUseSrc1 ==
    /\ D_out.ins.op \notin {"NOP", "HLT", "MOVZ", "ADRP", "B", "BL"}
    /\ X_out.op = "LDUR"
    /\ D_src1 = X_out.dst

CheckLoadUse ==
    /\ D_out.ins.op \notin {"NOP", "HLT", "MOVZ", "ADRP", "B", "BL"}
    /\ X_out.op = "LDUR"
    /\ D_src1 = X_out.dst \/ D_src2 = X_out.dst

\* Mutant of CheckMispredBranch: every conditional branch counts.
CheckMispredBranchAll == X_out.op = "B_COND"

CheckMispredBranch == X_out.op = "B_COND" /\ ~M_in.cond_holds

\* Mutant of CheckRet: what is fetched behind a return stays.
CheckRetNever == FALSE

CheckRet == D_out.ins.op = "RET"
CheckCB == X_out.op \in {"CBZ", "CBNZ"} /\ ~M_in.cond_holds
CheckBR == D_out.ins.op \in {"BR", "BLR"}

\* What each pipeline register does at the clock edge.
Control(f, d, x, m, w) == [F |-> f, D |-> d, X |-> x, M |-> m, W |-> w]

\* handle_hazards' priorities, given what a miss, a load awaited by Decode and
\* a branch that falls through do to the registers.
Hazards(miss, loadUse, mispredicted) ==
    IF dmem.status = "IN_FLIGHT" THEN miss
    ELSE IF CheckLoadUse THEN loadUse
    ELSE IF CheckMispredBranch THEN mispredicted
    ELSE IF CheckRet THEN Control("LOAD", "BUBBLE", "LOAD", "LOAD", "LOAD")
    ELSE IF CheckCB THEN mispredicted
    ELSE IF CheckBR THEN Control("STALL", "BUBBLE", "LOAD", "LOAD", "LOAD")
    ELSE Control("LOAD", "LOAD", "LOAD", "LOAD", "LOAD")

OnMiss == Control("STALL", "STALL", "STALL", "STALL", "BUBBLE")
OnLoadUse == Control("STALL", "STALL", "BUBBLE", "LOAD", "LOAD")
OnMispredict == Control("LOAD", "BUBBLE", "BUBBLE", "LOAD", "LOAD")

\* Mutants of HazardControl: after a misprediction only Decode is squashed; a
\* load-use stall holds Execute as well; during a miss Writeback goes on.
HazardOneBubble == Hazards(OnMiss, OnLoadUse, [OnMispredict EXCEPT !.X = "LOAD"])
HazardExecuteHeld == Hazards(OnMiss, [OnLoadUse EXCEPT !.X = "STALL"], OnMispredict)
HazardWritebackRuns == Hazards([OnMiss EXCEPT !.W = "LOAD"], OnLoadUse, OnMispredict)

HazardControl == Hazards(OnMiss, OnLoadUse, OnMispredict)

\* An error overrides the hazards; of several the oldest instruction's counts.
Error(s) == s \in {"ADR", "INS"}
AnyError == Error(M_in.status) \/ Error(W_in.status) \/ Error(W_out.status)

\* Mutant of ErrorControl: the youngest instruction's error counts.
ErrorControlYoungest ==
    IF Error(M_in.status) THEN Control("STALL", "STALL", "STALL", "LOAD", "LOAD")
    ELSE IF Error(W_in.status) THEN Control("STALL", "STALL", "STALL", "STALL", "LOAD")
    ELSE Control("STALL", "STALL", "STALL", "STALL", "STALL")

ErrorControl ==
    IF Error(W_out.status) THEN Control("STALL", "STALL", "STALL", "STALL", "STALL")
    ELSE IF Error(W_in.status) THEN Control("STALL", "STALL", "STALL", "STALL", "LOAD")
    ELSE Control("STALL", "STALL", "STALL", "LOAD", "LOAD")
HandleHazards == IF AnyError THEN ErrorControl ELSE HazardControl

Latched(ctl, in, out, zero) ==
    CASE ctl = "LOAD" -> in
      [] ctl = "BUBBLE" -> zero
      [] ctl = "STALL" -> out

ForwardedX == [X_in EXCEPT !.val_a = Forward(D_src1, @), !.val_b = Forward(D_src2, @)]
NextPC == IF Error(W_in.status) THEN M_PC ELSE F_PC

EndCycle ==
    /\ Running
    /\ ran = Stages
    /\ ran' = {}
    /\ X_in' = ForwardedX
    /\ status' = W_out.status
    /\ deassert_flags' = (deassert_flags \/ AnyError)
    /\ NZCV' = IF X_set_flags /\ ~deassert_flags' THEN X_nzcvval ELSE NZCV
    /\ regs' = IF WEnable(W_out.op) /\ W_out.status = "AOK"
               THEN RegWrite(regs, W_out.dst, W_wval) ELSE regs
    /\ PC' = NextPC
    /\ F_in' = [F_in EXCEPT !.pred_PC = NextPC]
    /\ F_out' = Latched(HandleHazards.F, F_in', F_out, FZero)
    /\ D_out' = Latched(HandleHazards.D, D_in, D_out, DZero)
    /\ X_out' = Latched(HandleHazards.X, X_in', X_out, XZero)
    /\ M_out' = Latched(HandleHazards.M, M_in, M_out, MZero)
    /\ W_out' = Latched(HandleHazards.W, W_in, W_out, WZero)
    /\ num_instr' = num_instr + 1
    /\ UNCHANGED <<text, memory, dmem, D_in, M_in, W_in, F_PC, M_PC, D_src1, D_src2,
                   X_set_flags, X_nzcvval, W_wval>>

Next == Fetch \/ Decode \/ Execute \/ Memory \/ Writeback \/ EndCycle

Spec == Init /\ [][Next]_vars

-----------------------------------------------------------------------------
(* The registers hold what their fields may hold. *)

FReg == [pred_PC : Word, status : Status]
DReg == [ins : Instr, seq_succ : Word, status : Status]
XReg == [op : Ops, status : Status, seq_succ : Word, val_a : Word, val_b : Word,
         val_imm : Word, cond : Conds, dst : RegNum]
MReg == [op : Ops, status : Status, seq_succ : Word, cond_holds : BOOLEAN,
         val_ex : Word, val_b : Word, dst : RegNum]
WReg == [op : Ops, status : Status, dst : RegNum, val_ex : Word, val_mem : Word]
DmemState == [status : {"READY", "IN_FLIGHT"}, inflight : BOOLEAN, addr : Word,
              cycles : 0 .. Delay, lines : SUBSET Word]

\* Type correctness: every register number names a register, every value is a
\* machine word, every bubble is a proper record.
TypeOK ==
    /\ text \in [TextLo .. DataLo - 1 -> Instr]
    /\ ran \subseteq Stages /\ num_instr \in 0 .. CycleMax
    /\ PC \in Word /\ regs \in [Gpr \cup {SP} -> Word]
    /\ NZCV \in Flags /\ status \in Status
    /\ mem \in [Word -> Word] /\ output \in Seq(Word) /\ exited \in BOOLEAN
    /\ dmem \in DmemState
    /\ F_in \in FReg /\ F_out \in FReg /\ D_in \in DReg /\ D_out \in DReg
    /\ X_in \in XReg /\ X_out \in XReg /\ M_in \in MReg /\ M_out \in MReg
    /\ W_in \in WReg /\ W_out \in WReg
    /\ F_PC \in Word /\ M_PC \in Word /\ D_src1 \in RegNum /\ D_src2 \in RegNum
    /\ X_set_flags \in BOOLEAN /\ X_nzcvval \in Flags /\ W_wval \in Word
    /\ deassert_flags \in BOOLEAN
=============================================================================

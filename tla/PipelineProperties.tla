------------------------- MODULE PipelineProperties -------------------------
(***************************************************************************)
(* What the pipeline must get right beyond implementing the machine: the   *)
(* mechanisms that make it so, each stated where it can go wrong.          *)
(***************************************************************************)
EXTENDS PipelineRefinement

Returns == {"RET", "BR", "BLR"}
CondBranches == {"B_COND", "CBZ", "CBNZ"}
Fallen(m) == m.op \in CondBranches /\ ~m.cond_holds

-----------------------------------------------------------------------------
(* Data hazards *)

\* forward_reg and the load-use stall together: when an instruction leaves
\* decode, its operands are the registers of the machine that has finished
\* every older instruction, wherever those are in the pipe.
OperandsCurrent ==
    ran = Stages /\ D_out.status = "AOK" /\ D_out.ins.op # "NOP"
        /\ HandleHazards.X = "LOAD" /\ HandleHazards.D # "STALL" /\ ArchState.status = "AOK"
    => /\ ForwardedX.val_a = RegRead(ArchState.regs, Src1(D_out.ins))
       /\ ForwardedX.val_b = RegRead(ArchState.regs, Src2(D_out.ins))

\* execute_instr tests conditions on the wire X_nzcvval: what it finds must be
\* the flags of the machine, which the register NZCV holds.
ConditionOnFlags ==
    ran = Stages /\ X_out.op \in {"B_COND"} \cup Selects /\ X_out.status = "AOK"
    => M_in.cond_holds = CondHolds(X_out.cond, NZCV)

-----------------------------------------------------------------------------
(* Control hazards *)

\* handle_hazards loses no cycle without a cause: Decode holds a bubble only
\* behind a return (one cycle) or a branch that fell through (two), Execute
\* only behind a load whose value is awaited or when such a bubble moves on.
BubblesHaveCause ==
    num_instr > 1 =>
        /\ D_out.status = "BUB" =>
              \/ X_out.op \in Returns
              \/ X_out.status = "BUB" /\ Fallen(M_out)
        /\ X_out.status = "BUB" =>
              \/ D_out.status = "BUB" /\ Fallen(M_out)
              \/ D_out.status # "BUB" /\ \/ DmemRead(M_out.op) \/ M_out.op \in Returns
                                         \/ M_out.status = "BUB" /\ W_out.op \in CondBranches

\* handle_hazards: when a branch falls through, what was fetched behind it is
\* squashed; it never moves from Decode into Execute.
MispredictSquashed ==
    [][ran = Stages /\ ran' = {} /\ X_out.status = "AOK" /\ Fallen(M_in) /\ M_out' = M_in
       => X_out'.status = "BUB"]_vars

\* fetch_instr stops fetching once it has fetched a halt: that halt must be on
\* the path the program takes, in the pipe or next to be fetched.
HaltOnPath ==
    ran = {} /\ F_in.status = "HLT" =>
        \/ "HLT" \in {D_out.status, X_out.status, M_out.status, W_out.status}
        \/ SelectPC = 0
        \/ AddrInImem(SelectPC) /\ At(text, SelectPC).op = "HLT"

-----------------------------------------------------------------------------
(* Faults *)

\* The emulator stops for the machine's reason, and after a fault the program
\* counter it reports is that of the faulting instruction.
StopsAsMachine ==
    ~Running /\ ~exited /\ num_instr < CycleMax =>
        /\ status = ArchState.status
        /\ Error(status) => PC = ArchState.pc

-----------------------------------------------------------------------------
(* The cache's delay *)

\* While an access is in flight nothing younger moves and nothing retires: the
\* cycle ends with the access still in Memory.  (A faulting load that misses is
\* the exception: its fault goes on to Writeback at once.)
MissesStall ==
    [][ran = Stages /\ ran' = {} /\ dmem.status = "IN_FLIGHT" /\ ~DmemErr(M_out.val_ex)
       => M_out' = M_out /\ X_out' = X_out /\ W_out'.status = "BUB"]_vars

\* The one miss in flight is that of the instruction in Memory, and its count
\* runs down with the cycles: what the shared inflight variables say is never
\* left over from another access.
InFlightOwned ==
    dmem.status = "IN_FLIGHT" =>
        /\ dmem.inflight /\ dmem.cycles \in 1 .. Delay - 1
        /\ M_out.op \in FormatM /\ dmem.addr = Block(M_out.val_ex)

-----------------------------------------------------------------------------
(* What the code leaves to the program.  Each predicate excludes one of the   *)
(* departures the README lists; together they are all that a program must     *)
(* keep clear of for the pipeline to be invisible.                            *)

\* forward_reg never forwards SP and does forward what is discarded in XZR: no
\* instruction in the pipe writes either one if Decode reads it.
OrdinarySources ==
    D_out.status = "AOK" /\ D_out.ins.op # "NOP" =>
        \A n \in {Src1(D_out.ins), Src2(D_out.ins)} \cap {SP, XZR} :
            /\ ~(WEnable(X_out.op) /\ X_out.dst = n)
            /\ ~(WEnable(M_out.op) /\ M_out.dst = n)
            /\ ~(WEnable(W_out.op) /\ W_out.dst = n)

\* runElf starts NZCV as Z and the wire X_nzcvval as 0: no condition is tested
\* while the two are as they were at the start.
InitialFlags == [ZeroFlags EXCEPT !.z = TRUE]
FlagsSetFirst ==
    X_out.status = "AOK" /\ X_out.op \in {"B_COND"} \cup Selects
    => ~(X_nzcvval = ZeroFlags /\ NZCV = InitialFlags)

\* imem sends an address of the data segments through the data cache: nothing
\* is fetched from there.
FetchesText == "F" \notin ran /\ F_in.status # "HLT" => ~ThroughCache(SelectPC)

\* dmem accesses memory before it looks at errors: no undefined instruction has
\* the opcode of an access, and no store faults.
StoresInBounds ==
    M_out.op \in FormatM =>
        M_out.status = "AOK" /\ (M_out.op = "STUR" => ~DmemErr(M_out.val_ex))

\* check_ret_hazard comes before check_cb_hazard: there is no return in Decode
\* when a compare-and-branch falls through.
NoShadowedBranch == ran = Stages => ~(CheckRet /\ CheckCB)

\* The error overrides come after the stall for a miss: nothing in Execute is
\* undefined while an access is in flight.
NoOvertaking == ran = Stages /\ dmem.status = "IN_FLIGHT" => ~Error(M_in.status)

\* No departure takes effect: neither forward_reg nor handle_hazards, neither
\* imem nor dmem nor the flags at the start meet an instruction they do not treat
\* as the machine does.
Regular == /\ OrdinarySources
           /\ FlagsSetFirst
           /\ HaltOnPath
           /\ FetchesText
           /\ StoresInBounds
           /\ NoShadowedBranch
           /\ NoOvertaking

-----------------------------------------------------------------------------
(* What of this the text of a program decides.  The other predicates speak of *)
(* the values the program computes.                                           *)

Transfers == {"B", "BL"} \cup CondBranches \cup Returns
Sensitive == Transfers \cup FormatM

\* Where fetch_instr would take a halt from, and where it goes on.
Stops(txt, p) == p = 0 \/ (AddrInImem(p) /\ At(txt, p).op = "HLT")
Leads(txt, p) == IF AddrInImem(p) THEN PredictPC(p, At(txt, p)) ELSE Plus(p, 1)

\* Behind a return, and on the two instructions fetched behind a conditional
\* branch, there is no halt; a return is not the target of CBZ or CBNZ; and with
\* a cache what follows a load or a store is an instruction.
WellLaid(txt) ==
    \A p \in TextLo .. DataLo - 1 :
        LET i == At(txt, p)
            target == Plus(p, i.imm)
        IN /\ i.op \in Returns => ~Stops(txt, Plus(p, 1))
           /\ i.op \in CondBranches => ~Stops(txt, target) /\ ~Stops(txt, Leads(txt, target))
           /\ i.op \in {"CBZ", "CBNZ"} /\ AddrInImem(target) => At(txt, target).op # "RET"
           /\ Cached /\ i.op \in FormatM =>
                 AddrInImem(Plus(p, 1)) /\ At(txt, Plus(p, 1)).op # "ERROR"

\* So it is in every program, and outside the text segment no word decodes to
\* a branch or an access.
Laid == /\ \A p \in Programs : WellLaid(p.text)
        /\ \A i \in Outside : i.op \notin Sensitive

StoresLand == M_out.op = "STUR" => ~DmemErr(M_out.val_ex)

\* What is left of Regular for such programs.
RegularData == OrdinarySources /\ FlagsSetFirst /\ FetchesText /\ StoresLand
=============================================================================

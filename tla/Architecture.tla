---------------------------- MODULE Architecture ----------------------------
(***************************************************************************)
(* The architectural state, which is the one a checkpoint prints together  *)
(* with the console, and the effect of one instruction on it when no other *)
(* instruction is in progress.  Machine executes a program with these      *)
(* operators; PipelineRefinement uses them to finish what is in the pipe.  *)
(*                                                                         *)
(* Where the next instruction is a halt the program counter is not told    *)
(* apart: it is 0, as after a return from main.                            *)
(***************************************************************************)
EXTENDS MemoryMap

ArchStatus == {"AOK", "HLT", "ADR", "INS", "EXIT"}
Arch == [pc : Word, regs : [Gpr \cup {SP} -> Word], nzcv : Flags,
         mem : [Word -> Word], output : Seq(Word), status : ArchStatus]

\* The instruction a program counter selects.
At(prog, p) == FixInstrAliases(Itable(prog[p]))
Norm(prog, p) == IF AddrInImem(p) /\ At(prog, p).op = "HLT" THEN 0 ELSE p

\* An instruction with its operands read, in the form the execute stage takes.
Issued(i, p, regs) ==
    [op |-> i.op, status |-> "AOK", seq_succ |-> Plus(p, 1),
     val_a |-> RegRead(regs, Src1(i)), val_b |-> RegRead(regs, Src2(i)),
     val_imm |-> IF i.op = "BLR" THEN Plus(p, 1) ELSE i.imm,
     cond |-> CondOf(i), dst |-> Dst(i)]

\* The same with its result computed, in the form the memory stage takes.
Computed(x, f) ==
    [op |-> x.op, status |-> x.status, seq_succ |-> x.seq_succ, dst |-> x.dst,
     val_b |-> x.val_b, val_ex |-> ValEx(x, f)]

\* The effect of a computed instruction m on a machine s that still runs.
Finish(s, m) ==
    IF s.status # "AOK" \/ m.status = "BUB" THEN s
    ELSE IF m.status \in {"HLT", "INS"} THEN [s EXCEPT !.status = m.status]
    ELSE IF m.op \in FormatM /\ Ends(m.op, m.val_ex) THEN [s EXCEPT !.status = "EXIT"]
    ELSE IF m.op \in FormatM /\ DmemErr(m.val_ex) THEN [s EXCEPT !.status = "ADR"]
    ELSE IF m.op = "STUR" THEN [s EXCEPT !.mem = Stored(@, m.val_ex, m.val_b),
                                         !.output = Shown(@, m.val_ex, m.val_b)]
    ELSE IF m.op = "LDUR"
         THEN [s EXCEPT !.regs = RegWrite(@, m.dst, LoadValue(s.mem, m.val_ex))]
    ELSE IF WEnable(m.op) THEN [s EXCEPT !.regs = RegWrite(@, m.dst, m.val_ex)]
    ELSE s

\* Where control goes after i at p.
Successor(i, p, x, f) ==
    CASE i.op \in {"RET", "BR", "BLR"} -> x.val_a
      [] i.op \in {"B", "BL"} -> Plus(p, i.imm)
      [] i.op \in {"B_COND", "CBZ", "CBNZ"} ->
            IF FallsThrough(x, f) THEN Plus(p, 1) ELSE Plus(p, i.imm)
      [] OTHER -> Plus(p, 1)
=============================================================================

------------------------- MODULE PipelineRefinement -------------------------
(***************************************************************************)
(* The pipeline implements the machine that executes one instruction at a  *)
(* time.  The abstraction finishes the instructions that are past decode,  *)
(* oldest first: an instruction counts as executed from the clock edge     *)
(* that moves it into the execute stage, because from there on only an     *)
(* older faulting access can stop it.                                      *)
(***************************************************************************)
EXTENDS Pipeline, Architecture

\* What the instruction in Writeback has still to write.
Retired == IF W_out.status = "AOK" /\ WEnable(W_out.op)
           THEN RegWrite(regs, W_out.dst,
                         IF WvalSel(W_out.op) THEN W_out.val_mem ELSE W_out.val_ex)
           ELSE regs

AfterW == [pc |-> 0, regs |-> Retired, nzcv |-> NZCV, mem |-> mem, output |-> output,
           status |-> IF Error(W_out.status) \/ W_out.status = "HLT"
                      THEN W_out.status ELSE "AOK"]

\* The instruction in Memory; its output is on the console once it has run.
AfterM == LET s == Finish(AfterW, M_out)
          IN IF "M" \in ran THEN [s EXCEPT !.output = output] ELSE s

\* Flags are written by the instruction in Execute unless an older one faulted;
\* m and x are the machine after the instructions in Memory and in Execute.
MappedNZCV(x) == IF x.status = "AOK" /\ SetFlags(X_out.op) THEN FlagsOf(X_out) ELSE NZCV

\* The program counter is that of the oldest instruction not yet executed.
PCOf(r) == Plus(r.seq_succ, W - 1)
MappedPC(m, x) ==
    CASE x.status = "HLT" -> 0
      [] x.status = "AOK" ->
            IF X_out.status = "AOK" /\ FallsThrough(X_out, X_nzcvval) THEN X_out.seq_succ
            ELSE IF D_out.status # "BUB"
                 THEN IF D_out.status = "HLT" THEN 0 ELSE PCOf(D_out)
            ELSE IF F_in.status = "HLT" THEN 0 ELSE SelectPC
      [] OTHER -> IF m.status # "AOK" THEN PCOf(M_out) ELSE PCOf(X_out)

Mapped(m, x) == [x EXCEPT !.pc = Norm(text, MappedPC(m, x)), !.nzcv = MappedNZCV(x)]

\* Mapped(m, x) for m == AfterM and x == Finish(m, Computed(X_out, X_nzcvval));
\* bound variables instead of LET, because TLC evaluates them once.
ArchState ==
    CHOOSE a \in UNION {UNION {{Mapped(m, x) : x \in {Finish(m, c)}} :
                                 m \in {AfterM}} :
                         c \in {Computed(X_out, X_nzcvval)}} : TRUE

Sequential == INSTANCE Machine WITH state <- ArchState

\* The pipeline's behaviour is one of the machine that runs the program
\* instruction by instruction: forwarding, stalls, squashes, the delay of the
\* cache and the precise stop at a fault never show in the registers, the
\* flags, the memory, the console or the program counter.
ImplementsMachine == Sequential!Spec
=============================================================================

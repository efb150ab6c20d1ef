----------------------------- MODULE MCProgress -----------------------------
(***************************************************************************)
(* Programs that keep the pipe from issuing for as long as it can be: two  *)
(* misses in a row, a load that is awaited, a branch that falls through,   *)
(* and an undefined instruction or a halt behind them.                     *)
(***************************************************************************)
EXTENDS MCPipeline, PipelineProgress

ProgressOps == {Ldur(0, 1, 0), Stur(0, 1, 2), Bcond("NE", 2), AddI(0, 0, 1), Undefined, Halt}
ProgressPrograms == Around(<<Movz(1, 10), Cmp(0, 0)>>, [1 .. 3 -> ProgressOps],
                           <<Ret, Nop, Ret>>)
=============================================================================

----------------------------- MODULE MCPpuFrame -----------------------------
(***************************************************************************)
(* Model checking of PpuFrame: a small frame whose lines and dots leave    *)
(* the same remainders modulo three as those of the code, so that the      *)
(* dots fall on the CPU's cycles in the same succession.                   *)
(***************************************************************************)
EXTENDS PpuFrame

ASSUME SameAlignments ==
  /\ LineDots % 3 = 341 % 3
  /\ ActiveLines % 3 = 241 % 3
  /\ PreLines % 3 = 1 /\ PostLines % 3 = 20 % 3
=============================================================================

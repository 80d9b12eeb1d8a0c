------------------------------- MODULE MCCpu -------------------------------
(***************************************************************************)
(* Instance of Cpu for TLC.                                                *)
(***************************************************************************)
EXTENDS Cpu

=============================================================================

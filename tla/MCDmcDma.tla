------------------------------ MODULE MCDmcDma ------------------------------
(***************************************************************************)
(* Model checking of DmcDma: a sample rate at which one DMA is over before *)
(* the next byte is needed, as at the fastest rate of the code.            *)
(***************************************************************************)
EXTENDS DmcDma
=============================================================================

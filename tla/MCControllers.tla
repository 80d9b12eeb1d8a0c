--------------------------- MODULE MCControllers ---------------------------
(***************************************************************************)
(* Model checking of Controllers: two masks tell a latch from the next, one*)
(* bit tells a fresh register from one that has shifted.                   *)
(***************************************************************************)
EXTENDS Controllers
=============================================================================

--------------------------- MODULE MCOpenBusDecay ---------------------------
(***************************************************************************)
(* Model checking of OpenBusDecay.  Three lines stand for the three kinds  *)
(* there are: refreshed by palette reads only (0..4), by palette and       *)
(* status reads (5), by status reads only (6, 7).                          *)
(***************************************************************************)
EXTENDS OpenBusDecay

(***************************************************************************)
(* The while loop of PpuOpenBusDecayFlush for one bit, step by step: what  *)
(* is left of the timer, and whether the bit was cleared.                  *)
(***************************************************************************)
RECURSIVE FlushLoop(_, _, _)
FlushLoop(t, k, cleared) ==
  IF k = 0 THEN <<t, cleared>>
  ELSE IF t = 0 THEN FlushLoop(Period, k - 1, TRUE)
  ELSE LET d == IF t < k THEN t ELSE k IN FlushLoop(t - d, k - d, cleared)

\* PpuOpenBusDecayFlush catches up any number of owed steps, several reloads
\* included: its loop and the closed form the model and the proofs use agree.
ASSUME FlushCatchesUp ==
  \A t \in 0..Period, k \in 0..(3 * Period + 3) :
    FlushLoop(t, k, FALSE) = <<FlushedTimer(t, k), FlushClears(t, k)>>
=============================================================================

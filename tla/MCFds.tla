------------------------------- MODULE MCFds -------------------------------
(***************************************************************************)
(* Instance of Fds for TLC: two short sides, bytes of two bits; a program  *)
(* uses the timer, one the drive, and one writes while disks are changed.  *)
(***************************************************************************)
EXTENDS Fds

MCImage == [s \in 0..1 |-> IF s = 0 THEN <<0, 1, 0>> ELSE <<0, 0, 0>>]

MCCycles == [Running |-> 2, Inserting |-> 1, Spinup |-> 1, Idle |-> 1, Reset |-> 1]

MCPrograms ==
  {[uses |-> {"enable", "latch", "timer", "status"}, controls |-> {}],
   [uses |-> {"enable", "control", "write", "status", "read"},
    controls |-> {{"motor", "read"}, {"motor", "read", "start", "irq"}, {"motor", "reset", "read"},
                  {"motor", "start", "irq", "mirror"}, {"motor", "start", "crc"}}],
   [uses |-> {"enable", "control", "disk"},
    controls |-> {{"motor", "read"}, {"motor", "reset", "read"}, {"motor", "start"}}]}

=============================================================================

------------------------------ MODULE MCBoards ------------------------------
(***************************************************************************)
(* Instance of Boards for TLC: every board, on the smallest cartridge that *)
(* has more pages than one; MMC1 programs load control and one other       *)
(* register, MMC3 programs use the banks or the scanline counter.          *)
(***************************************************************************)
EXTENDS Boards

MCKinds == {"NROM", "UxROM", "CNROM", "AxROM", "B74x", "GxROM", "SxROM", "TxROM"}

MCCart ==
  [k \in MCKinds |->
     CASE k = "NROM"  -> [prg |-> 16, chr |-> 8]
       [] k = "UxROM" -> [prg |-> 128, chr |-> 0]
       [] k = "CNROM" -> [prg |-> 32, chr |-> 32]
       [] k = "AxROM" -> [prg |-> 128, chr |-> 0]
       [] k = "B74x"  -> [prg |-> 128, chr |-> 128]
       [] k = "GxROM" -> [prg |-> 64, chr |-> 32]
       [] k = "SxROM" -> [prg |-> 128, chr |-> 32]
       [] k = "TxROM" -> [prg |-> 64, chr |-> 40]]

Commands == {128 * c + 64 * p + r : c \in 0..1, p \in 0..1, r \in {0, 1, 2, 6, 7}}

MCPrograms ==
  [k \in MCKinds |->
     CASE k = "SxROM" -> {{0, a} \X {0, 1, 128} : a \in {8192, 16384, 24576}}
       [] k = "TxROM" -> {({0} \X Commands) \cup ({1, 8192} \X {45}) \cup ({8192, 8193} \X {0}),
                          ({16384} \X {0, 1, 2}) \cup ({16385, 24576, 24577} \X {0})}
       [] OTHER -> {{0} \X {0, 1, 18, 50, 255}}]

=============================================================================

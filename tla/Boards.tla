------------------------------- MODULE Boards -------------------------------
(***************************************************************************)
(* NesBoard (nesBoards.hpp) for the cartridges: the latch boards, MMC1     *)
(* with its serial port, MMC3 with its bank registers and scanline         *)
(* counter.  Time is the PPU's dot, the CPU having a slot in every third.  *)
(* ROM and RAM contents are left out: what a board decides is which page   *)
(* an address reads, the mirroring, and the interrupt line.                *)
(***************************************************************************)
EXTENDS Integers, Sequences, FiniteSets

CONSTANTS
  Kinds,      \* the boards of the run
  Cart,       \* per board: [prg, chr] in KB, chr = 0 for CHR RAM
  Programs,   \* bound: per board, the sets of <<address, value>> a program writes
  MaxOnes     \* bound: one bits of a value sent to MMC1

AllKinds == {"NROM", "UxROM", "CNROM", "AxROM", "B74x", "GxROM", "SxROM", "TxROM"}

\* Of an address in $8000-$FFFF, the low 15 bits; for MMC3, what addr & 0x6001 leaves.
PrgAddresses == 0..32767
Mmc3Addresses == {0, 1, 8192, 8193, 16384, 16385, 24576, 24577}

(***************************************************************************)
(* A cartridge has the pages its board selects at the least.               *)
(***************************************************************************)
ASSUME CartAssumption ==
  /\ Kinds \subseteq AllKinds
  /\ \A k \in Kinds :
       /\ Cart[k].prg \in Nat /\ Cart[k].prg >= (IF k \in {"AxROM", "GxROM"} THEN 32 ELSE 16)
       /\ Cart[k].chr \in Nat
       /\ Cart[k].chr = 0 \/ Cart[k].chr >= (IF k = "B74x" THEN 128 ELSE 8)

ASSUME ProgramsAssumption ==
  \A k \in Kinds : \A p \in Programs[k] :
    /\ p \subseteq PrgAddresses \X (0..255)
    /\ k = "TxROM" => \A w \in p : w[1] \in Mmc3Addresses

VARIABLES
  kind, program,      \* chosen once
  slot,               \* 0: a CPU slot; 1: it wrote; 2, 3: the other two dots
  prg, chr,           \* the latch boards' banks
  mmc1, mmc3,
  _mirroring,         \* the type SetMirrorType was last called with
  IrqSignal,
  heard, owed         \* history: MMC1's last write heard; A12 rises not yet clocked

vars == <<kind, program, slot, prg, chr, mmc1, mmc3, _mirroring, IrqSignal, heard, owed>>

Bit(v, i) == (v \div 2^i) % 2

\* v & mask, for a mask of the form 2^n - 1.
Masked(v, mask) == v % (mask + 1)

MirrorTypes == {"Vertical", "Horizontal", "OneScreenA", "OneScreenB"}

\* Configure.
prg_mask == (Cart[kind].prg \div (IF kind \in {"AxROM", "GxROM"} THEN 32 ELSE 16)) - 1
chr_mask == IF Cart[kind].chr = 0 THEN 0 ELSE (Cart[kind].chr \div 8) - 1
chr_bank_mask == IF Cart[kind].chr = 0 THEN 0 ELSE (Cart[kind].chr \div 4) - 1
prg_bank_mask_8k == (Cart[kind].prg \div 8) - 1
chr_bank_count_1k == IF Cart[kind].chr = 0 THEN 8 ELSE Cart[kind].chr

-----------------------------------------------------------------------------
(***************************************************************************)
(* MMC1.                                                                   *)
(***************************************************************************)
PpuTimeout == 4

ChrBanks4k(m) ==
  IF m.chr_mode = 0 THEN <<m.chr_0 - Bit(m.chr_0, 0), m.chr_0 - Bit(m.chr_0, 0) + 1>>
                    ELSE <<m.chr_0, m.chr_1>>

PrgBanks16k(m) ==
  CASE m.prg_mode = 0 -> <<m.prg - Bit(m.prg, 0), m.prg - Bit(m.prg, 0) + 1>>
    [] m.prg_mode = 1 /\ m.prg_slot = 0 -> <<0, m.prg>>
    [] m.prg_mode = 1 /\ m.prg_slot = 1 -> <<m.prg, 15>>

Sync1(m) == [m EXCEPT !.chr_banks_4k = ChrBanks4k(m), !.prg_banks_16k = PrgBanks16k(m)]

SerialReset(m) == [m EXCEPT !.prg_mode = 1, !.prg_slot = 1]

StandardReset ==
  Sync1([shift_count |-> 0, shift_val |-> 0, chr_mode |-> 1, prg_mode |-> 1, prg_slot |-> 1,
         chr_0 |-> 0, chr_1 |-> 0, prg |-> 0, wram_disable |-> 0, mirror |-> "Horizontal",
         ppuclock |-> 0, chr_banks_4k |-> <<0, 0>>, prg_banks_16k |-> <<0, 0>>])

SerialWriteRegister(m, reg, v) ==
  CASE reg = 0 -> [m EXCEPT
         !.mirror = <<"OneScreenA", "OneScreenB", "Vertical", "Horizontal">>[(v % 4) + 1],
         !.prg_slot = Bit(v, 2), !.prg_mode = Bit(v, 3), !.chr_mode = Bit(v, 4)]
    [] reg = 1 -> [m EXCEPT !.chr_0 = v % 32]
    [] reg = 2 -> [m EXCEPT !.chr_1 = v % 32]
    [] reg = 3 -> [m EXCEPT !.prg = v % 16, !.wram_disable = Bit(v, 4)]

\* Fault: a load leaves the count where it is.
Mmc1WriteKeepsCount(m, addr, value) ==
  LET shifted == (m.shift_val \div 2) + 16 * Bit(value, 0) IN
  Sync1(IF Bit(value, 7) = 1
        THEN SerialReset([m EXCEPT !.shift_val = 0])
        ELSE IF m.shift_count = 4
        THEN SerialWriteRegister([m EXCEPT !.shift_count = 0, !.shift_val = 0],
                                 addr \div 2^13, shifted)
        ELSE [m EXCEPT !.shift_count = @ + 1, !.shift_val = shifted])

Mmc1Write(m, addr, value) ==
  LET shifted == (m.shift_val \div 2) + 16 * Bit(value, 0) IN
  Sync1(IF Bit(value, 7) = 1
        THEN SerialReset([m EXCEPT !.shift_count = 0, !.shift_val = 0])
        ELSE IF m.shift_count = 4
        THEN SerialWriteRegister([m EXCEPT !.shift_count = 0, !.shift_val = 0],
                                 addr \div 2^13, shifted)
        ELSE [m EXCEPT !.shift_count = @ + 1, !.shift_val = shifted])

-----------------------------------------------------------------------------
(***************************************************************************)
(* MMC3's bank registers.                                                  *)
(***************************************************************************)
MirrorType(m) == IF m.mirror = 1 THEN "Horizontal" ELSE "Vertical"

PrgRegs8k(m) ==
  IF m.prg_mode = 1 THEN <<254, m.regs[7], m.regs[6], 255>>
                    ELSE <<m.regs[6], m.regs[7], 254, 255>>

ChrRegs1k(m) ==
  LET Pair(r)  == LET even == m.regs[r] - Bit(m.regs[r], 0) IN <<even, even + 1>>
      big      == Pair(0) \o Pair(1)
      small    == <<m.regs[2], m.regs[3], m.regs[4], m.regs[5]>>
  IN  IF m.chr_mode = 1 THEN small \o big ELSE big \o small

Sync3(m) == [m EXCEPT !.prg_regs_8k = PrgRegs8k(m), !.chr_regs_1k = ChrRegs1k(m)]

NewMmc3 ==
  Sync3([reg_addr |-> 0, chr_mode |-> 0, prg_mode |-> 0,
         regs |-> [r \in 0..7 |-> <<0, 2, 4, 5, 6, 7, 0, 1>>[r + 1]], mirror |-> 0,
         a12_old |-> 0, irq_reload |-> 0, irq_counter |-> 0, irq_pending |-> FALSE,
         irq_enable |-> FALSE, just_cleared_pending |-> FALSE, just_cleared |-> FALSE,
         separator_counter |-> 0, irq_countdown |-> 0, chr_regs_1k |-> <<>>, prg_regs_8k |-> <<>>])

\* The registers of MMC3 but for the line; $A001 guards WRAM, which is left out.
WriteMmc3(m, addr, value) ==
  CASE addr = 0     -> Sync3([m EXCEPT !.chr_mode = Bit(value, 7), !.prg_mode = Bit(value, 6),
                                       !.reg_addr = value % 8])
    [] addr = 1     -> Sync3([m EXCEPT !.regs[m.reg_addr] = value])
    [] addr = 8192  -> [m EXCEPT !.mirror = Bit(value, 0)]
    [] addr = 8193  -> m
    [] addr = 16384 -> [m EXCEPT !.irq_reload = value]
    [] addr = 16385 -> [m EXCEPT !.just_cleared_pending = TRUE]
    [] addr = 24576 -> [m EXCEPT !.irq_enable = FALSE, !.irq_pending = FALSE]
    [] addr = 24577 -> [m EXCEPT !.irq_enable = TRUE]

(***************************************************************************)
(* The scanline counter: a rise of A12 at least 15 dots after the last one *)
(* clocks it five dots later.  irq_reload_flag is never set, MMC3C being   *)
(* the only revision.                                                      *)
(***************************************************************************)
\* Fault: the other revision, which wants the counter to arrive at zero.
ClockMmc3IrqOldType(m) ==
  LET counter == IF m.irq_counter = 0 THEN m.irq_reload ELSE m.irq_counter - 1 IN
  [m EXCEPT !.irq_counter = counter,
            !.irq_pending = @ \/ (counter = 0 /\ m.irq_counter # 0 /\ m.irq_enable)]

ClockMmc3Irq(m) ==
  LET counter == IF m.irq_counter = 0 THEN m.irq_reload ELSE m.irq_counter - 1 IN
  [m EXCEPT !.irq_counter = counter, !.irq_pending = @ \/ (counter = 0 /\ m.irq_enable)]

\* Fault: the filter lets a rise through while the last one is still on its way.
A12RiseUnfiltered(m) == [m EXCEPT !.separator_counter = 4, !.irq_countdown =
                           IF m.separator_counter = 0 THEN 5 ELSE @]

A12Rise(m) == [m EXCEPT !.separator_counter = 15, !.irq_countdown =
                 IF m.separator_counter = 0 THEN 5 ELSE @]

CountsDown(m) == m.irq_countdown = 1

ClockMmc3(m) ==
  LET t == [m EXCEPT !.separator_counter = IF @ > 0 THEN @ - 1 ELSE 0,
                     !.irq_countdown = IF @ > 0 THEN @ - 1 ELSE 0]
      u == IF CountsDown(m) THEN ClockMmc3Irq(t) ELSE t
  IN  [u EXCEPT !.irq_counter = IF m.just_cleared THEN 0 ELSE @,
                !.just_cleared = m.just_cleared_pending,
                !.just_cleared_pending = FALSE]

-----------------------------------------------------------------------------
(***************************************************************************)
(* Which page is read: of PRG ROM, in 8KB pages, for each quarter of       *)
(* $8000-$FFFF, and of CHR, in 1KB pages, for each eighth of $0000-$1FFF.  *)
(***************************************************************************)
ReadPrg(w) ==
  CASE kind \in {"NROM", "CNROM"} -> Masked(w, prg_bank_mask_8k)
    [] kind \in {"AxROM", "GxROM"} -> 4 * prg + w
    [] kind = "SxROM" -> 2 * Masked(mmc1.prg_banks_16k[w \div 2 + 1], prg_mask) + (w % 2)
    [] kind = "TxROM" -> Masked(mmc3.prg_regs_8k[w + 1], prg_bank_mask_8k)
    [] kind \in {"UxROM", "B74x"} -> 2 * (IF w \div 2 = 1 THEN prg_mask ELSE prg) + (w % 2)

\* Fault: MMC3's CHR banks are not reduced to the cartridge's.
ReadPpuUnreduced(w) ==
  CASE kind = "TxROM" -> mmc3.chr_regs_1k[w + 1]
    [] kind = "SxROM" -> 4 * Masked(mmc1.chr_banks_4k[w \div 4 + 1], chr_bank_mask) + (w % 4)
    [] kind \in {"CNROM", "GxROM", "B74x"} -> IF Cart[kind].chr = 0 THEN w ELSE 8 * chr + w
    [] kind \in {"NROM", "UxROM", "AxROM"} -> w

ReadPpu(w) ==
  CASE kind = "TxROM" -> mmc3.chr_regs_1k[w + 1] % chr_bank_count_1k
    [] kind = "SxROM" -> 4 * Masked(mmc1.chr_banks_4k[w \div 4 + 1], chr_bank_mask) + (w % 4)
    [] kind \in {"CNROM", "GxROM", "B74x"} -> IF Cart[kind].chr = 0 THEN w ELSE 8 * chr + w
    [] kind \in {"NROM", "UxROM", "AxROM"} -> w

Init ==
  /\ kind \in Kinds
  /\ program \in Programs[kind]
  /\ slot = 2
  /\ prg = 0 /\ chr = 0
  /\ mmc1 = StandardReset
  /\ mmc3 = NewMmc3
  /\ _mirroring \in (CASE kind = "AxROM" -> {"OneScreenA"}
                       [] kind = "TxROM" -> {"Vertical"}
                       [] OTHER -> {"Horizontal", "Vertical"})
  /\ IrqSignal = FALSE
  /\ heard = "now" /\ owed = 0

(***************************************************************************)
(* The CPU writes $8000-$FFFF in its slot.                                 *)
(***************************************************************************)
WriteLatch(value) ==
  /\ prg' = CASE kind \in {"UxROM", "AxROM"} -> Masked(value, prg_mask)
              [] kind = "B74x" -> Masked(value \div 16, prg_mask)
              [] kind = "GxROM" -> Masked((value \div 16) % 4, prg_mask)
              [] OTHER -> prg
  /\ chr' = CASE kind = "CNROM" -> Masked(value, chr_mask)
              [] kind = "B74x" -> value % 16
              [] kind = "GxROM" -> Masked(value % 8, chr_mask)
              [] OTHER -> chr
  /\ _mirroring' = IF kind # "AxROM" THEN _mirroring
                   ELSE IF Bit(value, 4) = 0 THEN "OneScreenA" ELSE "OneScreenB"
  /\ UNCHANGED <<mmc1, mmc3, IrqSignal, heard, owed>>

Ones(v) == Cardinality({i \in 0..4 : Bit(v, i) = 1})

WriteSxROM(addr, value) ==
  /\ value = 1 => Ones(mmc1.shift_val) < MaxOnes
  /\ IF mmc1.ppuclock >= PpuTimeout
     THEN /\ mmc1' = [Mmc1Write(mmc1, addr, value) EXCEPT !.ppuclock = 0]
          /\ _mirroring' = mmc1'.mirror
          /\ heard' = "now"
     ELSE UNCHANGED <<mmc1, _mirroring, heard>>
  /\ UNCHANGED <<prg, chr, mmc3, IrqSignal, owed>>

WriteTxROM(addr, value) ==
  /\ mmc3' = WriteMmc3(mmc3, addr, value)
  /\ _mirroring' = MirrorType(mmc3')
  /\ IrqSignal' = IF addr >= 24576 THEN mmc3'.irq_pending ELSE IrqSignal
  /\ UNCHANGED <<prg, chr, mmc1, heard, owed>>

WritePrg(addr, value) ==
  /\ slot = 0 /\ slot' = 1
  /\ CASE kind = "SxROM" -> WriteSxROM(addr, value)
       [] kind = "TxROM" -> WriteTxROM(addr, value)
       [] OTHER -> WriteLatch(value)
  /\ UNCHANGED <<kind, program>>

\* Whether the program of this run uses the scanline counter: only then is A12 of interest.
UsesCounter == \E w \in program : w[1] = 24577

AddressPpu(a12) ==
  /\ kind = "TxROM" /\ UsesCounter
  /\ a12 # mmc3.a12_old
  /\ mmc3' = [(IF a12 = 1 THEN A12Rise(mmc3) ELSE mmc3) EXCEPT !.a12_old = a12]
  /\ owed' = IF a12 = 1 /\ mmc3.separator_counter = 0 THEN owed + 1 ELSE owed
  /\ UNCHANGED <<kind, program, slot, prg, chr, mmc1, _mirroring, IrqSignal, heard>>

\* The end of a dot.
ClockPpu ==
  /\ slot' = CASE slot \in {0, 1} -> 2 [] slot = 2 -> 3 [] slot = 3 -> 0
  /\ heard' = IF slot # 3 THEN heard ELSE IF heard = "now" THEN "last" ELSE "no"
  /\ mmc1' = IF kind = "SxROM" /\ mmc1.ppuclock < PpuTimeout
             THEN [mmc1 EXCEPT !.ppuclock = @ + 1] ELSE mmc1
  /\ mmc3' = IF kind = "TxROM" THEN ClockMmc3(mmc3) ELSE mmc3
  /\ IrqSignal' = IF kind = "TxROM" /\ CountsDown(mmc3) /\ ClockMmc3Irq(mmc3).irq_counter = 0
                  THEN mmc3'.irq_pending ELSE IrqSignal
  /\ owed' = IF CountsDown(mmc3) THEN owed - 1 ELSE owed
  /\ UNCHANGED <<kind, program, prg, chr, _mirroring>>

Next ==
  \/ \E w \in program : WritePrg(w[1], w[2])
  \/ \E a12 \in 0..1 : AddressPpu(a12)
  \/ ClockPpu

Spec == Init /\ [][Next]_vars

-----------------------------------------------------------------------------
(***************************************************************************)
(* Types, and no board selects a page its cartridge does not have.         *)
(***************************************************************************)
TypeOK ==
  /\ kind \in Kinds /\ slot \in 0..3
  /\ \A w \in 0..3 : ReadPrg(w) \in 0..(Cart[kind].prg \div 8) - 1
  /\ \A w \in 0..7 : ReadPpu(w) \in 0..(IF Cart[kind].chr = 0 THEN 8 ELSE Cart[kind].chr) - 1
  /\ mmc1.shift_count \in 0..4 /\ mmc1.shift_val \in 0..31 /\ mmc1.ppuclock \in 0..PpuTimeout
  /\ mmc3.separator_counter \in 0..15 /\ mmc3.irq_countdown \in 0..5
  /\ mmc3.irq_counter \in 0..255
  /\ _mirroring \in MirrorTypes /\ IrqSignal \in BOOLEAN
  /\ heard \in {"now", "last", "no"}

(***************************************************************************)
(* What is computed from the registers is never older than they are: the   *)
(* banks of both chips, the mirroring from the first write heard on, and   *)
(* MMC3's line, which is up only while its interrupt is enabled.           *)
(***************************************************************************)
OutputsCurrent ==
  /\ mmc1 = Sync1(mmc1) /\ mmc3 = Sync3(mmc3)
  /\ kind = "SxROM" /\ heard = "now" /\ slot = 1 => _mirroring = mmc1.mirror
  /\ kind = "TxROM" => /\ _mirroring = MirrorType(mmc3)
                       /\ IrqSignal = mmc3.irq_pending
                       /\ IrqSignal => mmc3.irq_enable

(***************************************************************************)
(* Every rise of A12 that passes the filter clocks the counter once: no    *)
(* rise restarts the countdown of one before it.                           *)
(***************************************************************************)
RisesClockOnce == owed = (IF mmc3.irq_countdown > 0 THEN 1 ELSE 0)

(***************************************************************************)
(* What a board shows the console follows from what the console did:       *)
(* no stale output, no rise counted twice or dropped.                      *)
(***************************************************************************)
BoardFollows == OutputsCurrent /\ RisesClockOnce

(***************************************************************************)
(* The shift register and its timeout in PPU clocks implement the port a   *)
(* program sees (Mmc1Port), read-modify-write instructions included.       *)
(***************************************************************************)
BitsHeard(m) == [i \in 1..m.shift_count |-> Bit(m.shift_val, 4 - m.shift_count + i)]

MirrorCode(mirror) == CHOOSE c \in 0..3 :
  mirror = <<"OneScreenA", "OneScreenB", "Vertical", "Horizontal">>[c + 1]

Registers(m) ==
  [r \in 0..3 |->
     CASE r = 0 -> MirrorCode(m.mirror) + 4 * m.prg_slot + 8 * m.prg_mode + 16 * m.chr_mode
       [] r = 1 -> m.chr_0
       [] r = 2 -> m.chr_1
       [] r = 3 -> m.prg + 16 * m.wram_disable]

Port == INSTANCE Mmc1Port WITH bits <- BitsHeard(mmc1), regs <- Registers(mmc1)

PortImplemented == Port!Spec

(***************************************************************************)
(* Once a program leaves the interrupt enabled and clears the counter no   *)
(* more, scanlines that keep clocking it raise the line, for every reload  *)
(* value, zero included.                                                   *)
(***************************************************************************)
Clocked == CountsDown(mmc3) /\ ~CountsDown(mmc3')

ScanlineIrqComes ==
  (<>[](mmc3.irq_enable /\ ~mmc3.just_cleared_pending) /\ []<><<Clocked>>_vars)
    => <>[]IrqSignal

=============================================================================

------------------------------- MODULE DmcDma -------------------------------
(***************************************************************************)
(* Who owns the bus: NES::RunCpuOne (nes.hpp), where the sprite DMA, the   *)
(* DMC's sample DMA and the CPU share every cycle, with the DMC unit       *)
(* (APU::DMCUnit) that asks for sample bytes.  One action is one CPU       *)
(* cycle, its parts in the order of the code: sprite DMA, DMC DMA,         *)
(* DMCUnit::Run, the aborted DMA, the CPU, RunOneLast, the release of RDY. *)
(*                                                                         *)
(* The CPU is seen as the kind of each of its cycles: a read, which RDY    *)
(* can hold, or a write, which it cannot.                                  *)
(***************************************************************************)
EXTENDS Integers, FiniteSets

CONSTANTS
  Rates,        \* DMC_RATE: cycles per sample bit, all even
  BitsPerByte,  \* 8 in the code: bits shifted out per sample byte
  Lengths,      \* the user_length values $4013 may hold
  LengthWrap,   \* what sample_length 0 becomes when decremented; 2^32 - 1
  OamLen,       \* 512 in the code: get and put cycles of a sprite DMA
  InitTimer,    \* 1020 in the code
  MaxResets     \* bound: soft resets in a behaviour

\* The fastest of the code's rates is 50 cycles a bit.  A DMA that the CPU's
\* writes put off twice and the one that follows it are over before the next
\* byte is due at 8 cycles a bit, and two bits a byte, already.
ASSUME RatesAssumption ==
  /\ Rates # {}
  /\ \A r \in Rates : r \in Nat /\ r >= 8 /\ r % 2 = 0
  /\ InitTimer \in Nat \ {0} /\ InitTimer % 2 = 0
ASSUME SizesAssumption ==
  /\ BitsPerByte \in Nat \ {0, 1}
  /\ Lengths # {} /\ Lengths \subseteq Nat \ {0}
  /\ LengthWrap \in Nat /\ \A l \in Lengths : l < LengthWrap
  /\ OamLen \in Nat \ {0} /\ OamLen % 2 = 0
  /\ MaxResets \in Nat

VARIABLES
  dmc,     \* the DMC unit and the APU's dmc_* fields
  bus,     \* the NES's DMA fields and the CPU's RDY pin
  cpu,     \* what the CPU is doing
  did,     \* what the last cycle did, for the properties
  resets   \* soft resets so far

vars == <<dmc, bus, cpu, did, resets>>

NoReg == "none"

Idle == -1

Init ==
  /\ \E r \in Rates :
       dmc = [timer |-> InitTimer, timer_reload |-> r, bits |-> BitsPerByte - 1,
              filled |-> FALSE, length |-> 0, delay |-> 0, call_from_write |-> FALSE,
              fill_glitch |-> FALSE, fill_glitch_2 |-> FALSE, fill_glitch_2_end |-> FALSE,
              pending_disable |-> FALSE, countdown |-> Idle, rdy_check |-> 0,
              reload |-> 0, loop |-> FALSE, irq_enabled |-> FALSE,
              irq |-> FALSE, irq_glitch |-> FALSE]
  /\ bus = [rdy |-> TRUE, oam |-> FALSE, oam_index |-> 0, deadcounter |-> 0,
            dmc |-> FALSE, realign |-> FALSE]
  /\ cpu = [frozen |-> FALSE, run |-> 0, again |-> NoReg, gap |-> 0]
  /\ did = {}
  /\ resets = 0
-----------------------------------------------------------------------------
(***************************************************************************)
(* The state of a cycle in progress is a record of dmc, bus and did.       *)
(***************************************************************************)
Even(s) == s.dmc.timer % 2 = 0

(***************************************************************************)
(* The sprite DMA: dead cycles, then a get and a put per byte.  It lets    *)
(* the DMC's fetch and the cycle after it pass.                            *)
(***************************************************************************)
OamStep(s) ==
  LET b == s.bus IN
  IF ~b.oam \/ s.dmc.countdown = 1 \/ b.realign THEN s
  ELSE IF b.deadcounter > 0 THEN [s EXCEPT !.bus.deadcounter = @ - 1]
  ELSE [s EXCEPT !.bus.oam_index = @ + 1,
                 !.bus.oam = b.oam_index + 1 # OamLen,
                 !.did = @ \cup {IF b.oam_index % 2 = 0 THEN "get" ELSE "put"}]

\* Fault: the sprite DMA waits for ever after a sample fetch.
ClearRealignNever(s) == s

ClearRealign(s) == [s EXCEPT !.bus.realign = FALSE]

(***************************************************************************)
(* DMCUnit::Fetch puts a byte in the buffer; its effect on the length      *)
(* comes three RunOneLasts later.  A DMA whose sample was disabled in the  *)
(* meantime fetches nothing.                                               *)
(***************************************************************************)
Fetch(s) ==
  IF s.dmc.length = 0 THEN s
  ELSE [s EXCEPT !.dmc.filled = TRUE, !.dmc.reload = 3, !.did = @ \cup {"fetch"}]

(***************************************************************************)
(* The DMC DMA.  When the cycle that should find the CPU halted does not   *)
(* (it is in a run of writes), the DMA is put off by two cycles.           *)
(***************************************************************************)
DmaCountdown(s) ==
  IF ~s.bus.rdy /\ ~cpu.frozen /\ s.dmc.countdown = s.dmc.rdy_check
    THEN s.dmc.countdown + 1
    ELSE s.dmc.countdown - 1

DmcStep(s) ==
  IF s.dmc.countdown <= 0 THEN s
  ELSE LET left == DmaCountdown(s)
           held == [s EXCEPT !.bus.realign = s.dmc.countdown = 1,
                             !.bus.rdy = FALSE,
                             !.bus.dmc = TRUE,
                             !.dmc.countdown = left]
           f == Fetch(held)
       IN IF left # 0 THEN held
          ELSE [f EXCEPT
                 !.bus.dmc = FALSE,
                 !.dmc.countdown = Idle,
                 !.dmc.fill_glitch =
                    @ \/ (f.dmc.timer = 2 /\ f.dmc.bits = 0 /\ f.dmc.length # 0),
                 !.dmc.fill_glitch_2 =
                    @ \/ (f.dmc.timer = 4 /\ f.dmc.bits = 0 /\ f.dmc.length = 1)]

(***************************************************************************)
(* DMCUnit::Run: the timer, the output unit that empties the buffer, and   *)
(* the start of a DMA when the buffer is empty and there is a sample.      *)
(***************************************************************************)
Clock(d) ==
  [d EXCEPT !.bits = IF @ = 0 THEN BitsPerByte - 1 ELSE @ - 1,
            !.filled = @ /\ d.bits # 0]

TickTimer(d) ==
  IF d.timer = 1 THEN [Clock(d) EXCEPT !.timer = d.timer_reload]
  ELSE [d EXCEPT !.timer = @ - 1]

Hungry(d) ==
  ~d.filled /\ (d.length > 0 \/ d.fill_glitch_2) /\ d.countdown = Idle /\ d.delay = 0

StartDma(s) ==
  LET d == s.dmc IN
  IF ~Hungry(d) THEN s
  ELSE IF d.fill_glitch
    THEN [s EXCEPT !.dmc.filled = TRUE, !.dmc.fill_glitch = FALSE]
  ELSE IF d.call_from_write
    THEN [s EXCEPT !.dmc.delay = IF Even(s) THEN 3 ELSE 2]
  ELSE [s EXCEPT !.bus.rdy = FALSE,
                 !.bus.dmc = TRUE,
                 !.dmc.countdown = IF d.fill_glitch_2 THEN -2 ELSE 3,
                 !.dmc.rdy_check = IF d.fill_glitch_2 THEN -2 ELSE 2,
                 !.dmc.fill_glitch_2_end = @ \/ d.fill_glitch_2]

RunDelay(d) ==
  IF d.delay = 0 THEN d
  ELSE IF d.delay > 1 THEN [d EXCEPT !.delay = @ - 1]
  ELSE [d EXCEPT !.delay = 0, !.countdown = 3, !.rdy_check = 2, !.call_from_write = FALSE]

RunFull(s) ==
  LET started == StartDma([s EXCEPT !.dmc = TickTimer(s.dmc)])
  IN [started EXCEPT !.dmc = RunDelay(started.dmc)]

\* Fault: the fast path is taken during a delayed start.
RunIsQuietInDelay(d) ==
  d.timer > 1 /\ (d.filled \/ (d.length = 0 /\ ~d.fill_glitch_2) \/ d.countdown # Idle)

(***************************************************************************)
(* Its fast path.                                                          *)
(***************************************************************************)
RunIsQuiet(d) ==
  /\ d.timer > 1
  /\ d.delay = 0
  /\ d.filled \/ (d.length = 0 /\ ~d.fill_glitch_2) \/ d.countdown # Idle

RunFast(s) == [s EXCEPT !.dmc.timer = @ - 1]

Run(s) == IF RunIsQuiet(s.dmc) THEN RunFast(s) ELSE RunFull(s)

\* Fault: a DMA that is called off is called off again and again.
AbortDmaKeepsEnd(s) ==
  IF ~s.dmc.fill_glitch_2_end THEN s
  ELSE [s EXCEPT !.dmc.countdown = Idle, !.bus.dmc = FALSE, !.dmc.fill_glitch_2 = FALSE]

(***************************************************************************)
(* A DMA that fill_glitch_2 started is called off in the same cycle.       *)
(***************************************************************************)
AbortDma(s) ==
  IF ~s.dmc.fill_glitch_2_end THEN s
  ELSE [s EXCEPT !.dmc.countdown = Idle, !.bus.dmc = FALSE,
                 !.dmc.fill_glitch_2 = FALSE, !.dmc.fill_glitch_2_end = FALSE]
-----------------------------------------------------------------------------
(***************************************************************************)
(* The CPU.  Interrupts push three bytes in a row and read-modify-write    *)
(* instructions write twice; an instruction that writes a register does so *)
(* four cycles after the last one that did, at the earliest.               *)
(***************************************************************************)
Starts == {<<"4015", TRUE, l>> : l \in Lengths}

Setups == {<<"4010", r, i, l>> : r \in Rates, i \in BOOLEAN, l \in BOOLEAN}

RegWrites == {<<"4014">>, <<"4015", FALSE>>} \cup Starts \cup Setups

MaxWriteRun == 3

WriteGap == 3

(***************************************************************************)
(* write $4014: the sprite DMA is armed and the CPU told to stop.          *)
(***************************************************************************)
StartOam(s) ==
  [s EXCEPT !.bus.deadcounter = IF Even(s) THEN 2 ELSE 1,
            !.bus.oam = TRUE, !.bus.rdy = FALSE, !.bus.oam_index = 0]

(***************************************************************************)
(* DMCUnit::set_lenctr_en: a disable can come as a reload begins, too late *)
(* for it, or while a fetch or a reload is in progress.                    *)
(***************************************************************************)
Disable(d) ==
  LET playing == d.bits = 0 /\ d.length # 0
      quiet == [d EXCEPT !.irq = FALSE]
  IN IF d.timer \in {2, 3} /\ playing
       THEN [quiet EXCEPT !.length = 0, !.fill_glitch_2 = TRUE]
     ELSE IF d.timer = 1 /\ playing
       THEN [quiet EXCEPT !.pending_disable = TRUE]
     ELSE IF d.countdown > 0 \/ d.delay # 0 \/ d.reload # 0
       THEN [quiet EXCEPT !.irq_glitch = @ \/ d.reload # 0, !.pending_disable = TRUE]
     ELSE [quiet EXCEPT !.length = 0]

Enable(d, len) ==
  [d EXCEPT !.irq = FALSE,
            !.length = IF @ = 0 THEN len ELSE @,
            !.call_from_write = @ \/ ~d.filled]

(***************************************************************************)
(* The part of RunOneLast that concerns the DMC: the reload countdown      *)
(* first, then the write the CPU has just latched.  again is the           *)
(* user_length a looping sample starts over with.                          *)
(***************************************************************************)
EndReload(d, again) ==
  LET left == IF d.length = 0 THEN LengthWrap ELSE d.length - 1 IN
  [d EXCEPT !.reload = 0,
            !.length = IF d.pending_disable THEN 0
                       ELSE IF left = 0 /\ d.loop THEN again ELSE left,
            !.irq = @ \/ (left = 0 /\ ~d.loop /\ d.irq_enabled /\ ~d.irq_glitch),
            !.pending_disable = FALSE,
            !.irq_glitch = FALSE]

CountReload(d, again) ==
  CASE d.reload = 0 -> d
    [] d.reload = 1 -> EndReload(d, again)
    [] OTHER -> [d EXCEPT !.reload = @ - 1]

ApplyWrite(d, op) ==
  CASE op[1] = "4015" -> IF op[2] THEN Enable(d, op[3]) ELSE Disable(d)
    [] op[1] = "4010" -> [d EXCEPT !.timer_reload = op[2], !.irq_enabled = op[3],
                                   !.loop = op[4], !.irq = @ /\ op[3]]
    [] OTHER -> d

\* Fault: the end of a sample DMA releases the CPU in the middle of a sprite DMA.
ReleaseRdyAfterDmc(s) == [s EXCEPT !.bus.rdy = @ \/ ~s.bus.dmc]

ReleaseRdy(s) == [s EXCEPT !.bus.rdy = @ \/ ~(s.bus.dmc \/ s.bus.oam)]
-----------------------------------------------------------------------------
(***************************************************************************)
(* RunCpuOne up to the CPU's part and from there on.                       *)
(***************************************************************************)
BeforeCpu ==
  AbortDma(Run(DmcStep(ClearRealign(OamStep([dmc |-> dmc, bus |-> bus, did |-> {}])))))

AfterCpu(s, op, again) ==
  LET a == IF op[1] = "4014" THEN StartOam(s) ELSE s IN
  ReleaseRdy([a EXCEPT !.dmc = ApplyWrite(CountReload(a.dmc, again), op)])

RunCpuOne(s, op, again) ==
  /\ dmc' = AfterCpu(s, op, again).dmc
  /\ bus' = AfterCpu(s, op, again).bus
  /\ UNCHANGED resets

ReadOp == <<"read">>

(***************************************************************************)
(* A read cycle: the CPU gets on with its instruction, or freezes on RDY.  *)
(***************************************************************************)
CycleRead(again) ==
  LET s == BeforeCpu IN
  /\ RunCpuOne(s, ReadOp, again)
  /\ did' = s.did
  /\ cpu' = IF s.bus.rdy
              THEN [frozen |-> FALSE, run |-> 0, again |-> NoReg,
                    gap |-> IF cpu.gap = 0 THEN 0 ELSE cpu.gap - 1]
              ELSE [cpu EXCEPT !.frozen = TRUE, !.again = NoReg]

(***************************************************************************)
(* A write cycle to memory or the stack.                                   *)
(***************************************************************************)
CycleWrite(again) ==
  LET s == BeforeCpu IN
  /\ ~cpu.frozen
  /\ cpu.run < MaxWriteRun
  /\ cpu.gap < WriteGap
  /\ RunCpuOne(s, ReadOp, again)
  /\ did' = s.did \cup {"cpu write"}
  /\ cpu' = [cpu EXCEPT !.run = @ + 1, !.gap = IF @ = 0 THEN 0 ELSE @ - 1]

(***************************************************************************)
(* A write cycle to one of the registers of this module.                   *)
(***************************************************************************)
CycleWriteReg(op, again) ==
  LET s == BeforeCpu IN
  /\ ~cpu.frozen
  /\ (cpu.gap = 0 /\ cpu.run = 0) \/ cpu.again = op[1]
  /\ RunCpuOne(s, op, again)
  /\ did' = s.did \cup {"cpu write"}
  /\ cpu' = [frozen |-> FALSE, run |-> 0, gap |-> WriteGap,
             again |-> IF cpu.again = NoReg THEN op[1] ELSE NoReg]

(***************************************************************************)
(* FrameAdvance with the reset signal: the CPU starts its reset sequence,  *)
(* NESSoftReset writes 0 to $4015 and clears the glitches; RDY and the     *)
(* DMAs in flight stay as they are.                                        *)
(***************************************************************************)
SoftReset ==
  /\ resets < MaxResets
  /\ resets' = resets + 1
  /\ dmc' = [Disable(dmc) EXCEPT !.fill_glitch = FALSE, !.fill_glitch_2 = FALSE]
  /\ cpu' = [frozen |-> cpu.frozen, run |-> 0, again |-> NoReg, gap |-> WriteGap]
  /\ did' = {}
  /\ UNCHANGED bus

Cycle == \E again \in Lengths :
           \/ CycleRead(again)
           \/ CycleWrite(again)
           \/ \E op \in RegWrites : CycleWriteReg(op, again)

Next == Cycle \/ SoftReset

Spec == Init /\ [][Next]_vars

(***************************************************************************)
(* FrameAdvance runs one cycle after the other, and every cycle moves      *)
(* dmc.timer ("this timer never stops, ever").                             *)
(***************************************************************************)
CycleRuns == dmc'.timer # dmc.timer

FairSpec == Spec /\ []<><<CycleRuns>>_vars
-----------------------------------------------------------------------------
\* Type invariant of the DMA fields between two cycles.
TypeOK ==
  /\ dmc \in [timer : 1..InitTimer \cup UNION {1..r : r \in Rates}, timer_reload : Rates,
              bits : 0..(BitsPerByte - 1), filled : BOOLEAN,
              length : Nat, delay : {0, 1, 2}, call_from_write : BOOLEAN,
              fill_glitch : BOOLEAN, fill_glitch_2 : BOOLEAN, fill_glitch_2_end : {FALSE},
              pending_disable : BOOLEAN, countdown : {Idle, 1, 2, 3}, rdy_check : {-2, 0, 2},
              reload : 0..2, loop : BOOLEAN, irq_enabled : BOOLEAN,
              irq : BOOLEAN, irq_glitch : BOOLEAN]
  /\ bus \in [rdy : BOOLEAN, oam : BOOLEAN, oam_index : 0..OamLen, deadcounter : 0..2,
              dmc : BOOLEAN, realign : BOOLEAN]
  /\ cpu \in [frozen : BOOLEAN, run : 0..MaxWriteRun,
              again : {NoReg, "4010", "4014", "4015"}, gap : 0..WriteGap]
  /\ did \in SUBSET {"get", "put", "fetch", "cpu write"}
  /\ resets \in 0..MaxResets

\* The CPU is held off exactly while a DMA is in flight: no early release when
\* one of two DMAs ends, and no DMA that is gone keeps RDY low.
HeldIffDma == bus.rdy <=> ~(bus.dmc \/ bus.oam)

\* "By this point the cpu should be frozen" (nes.hpp): the sample DMA fetches,
\* and the sprite DMA moves its bytes, only when the CPU stands still on a
\* read, whatever run of writes it was in when the DMA began, however the
\* two-cycle delay works out and whichever parity the dead cycles started on.
DmaWhileFrozen ==
  /\ dmc.countdown = 1 => cpu.frozen
  /\ bus.oam /\ bus.deadcounter = 0 => cpu.frozen

\* The cycle that fetches a byte ends the DMA and starts no other, although
\* DMCUnit::Run looks for work right after the fetch: the buffer is full by
\* then, and no fetch falls in the very cycle in which the output unit empties it.
FetchEndsDma == "fetch" \in did => dmc.countdown = Idle

\* The sprite DMA, the sample fetch and a CPU write never share a cycle.
OneBusOwner == Cardinality(did) <= 1

\* Get and put cycles alternate for ever: the sprite DMA reads on the one
\* parity of dmc.timer and writes on the other, through every interruption by
\* a sample DMA and the realignment after it.
OamParity ==
  /\ "get" \in did => dmc.timer % 2 = 1
  /\ "put" \in did => dmc.timer % 2 = 0

\* A reload in progress still has its byte to account for, until a reset
\* disables the DMC: sample_length, an unsigned counter, is never decremented
\* at zero by anything a program can write.
ReloadHasLength == resets = 0 /\ dmc.reload > 0 => dmc.length > 0

\* The bus has one owner, who has the CPU held for exactly as long, keeps to
\* the cycles' parity, and accounts for the byte it came for.
BusArbitration ==
  /\ HeldIffDma /\ DmaWhileFrozen /\ FetchEndsDma
  /\ OneBusOwner /\ OamParity /\ ReloadHasLength

\* "Exact-equivalent" (nes.hpp, DMCUnit::Run): where the fast path is taken
\* the body it skips would only have moved the timer.
RunFastPathExact ==
  LET s == DmcStep(ClearRealign(OamStep([dmc |-> dmc, bus |-> bus, did |-> {}])))
  IN RunIsQuiet(s.dmc) => RunFull(s) = RunFast(s)

\* "if a fetch / reload is in progress, writing here as no immediate effect"
\* (nesApu.hpp, set_lenctr_en): the disable of a soft reset leaves a sample
\* whose reload is in progress its length.
DisableSparesReload ==
  [][resets' # resets /\ dmc.reload > 0 => dmc'.length = dmc.length]_vars

\* Every DMA gives the bus back: no order of DMAs, writes, glitches and resets
\* holds the CPU for ever, so a sprite DMA always runs to its last byte.
CpuReleased == ~bus.rdy ~> bus.rdy

\* An empty sample buffer with a sample left to play is refilled, or the
\* sample ends: no glitch flag leaves the DMC waiting for a DMA nobody starts.
BufferRefilled == (dmc.length > 0 /\ ~dmc.filled) ~> (dmc.filled \/ dmc.length = 0)

\* Once the program leaves the registers alone, a sample that does not loop
\* plays to its end.
SampleEnds ==
  <>[](cpu.gap < WriteGap) => <>[](dmc.length = 0 \/ dmc.loop)

\* No DMA is waited for, and no DMA waits, for ever.
DmasGoOn == CpuReleased /\ BufferRefilled /\ SampleEnds
=============================================================================

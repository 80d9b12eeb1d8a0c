---------------------------- MODULE ApuSequencer ----------------------------
(***************************************************************************)
(* The APU frame sequencer (nesApu.hpp) and the last part of an APU cycle, *)
(* APU::RunOneLast (nes.hpp), with its quiescence fast path: the sequencer *)
(* counts CPU cycles, clocks the channels at the values of sequencer_lut,  *)
(* raises the frame interrupt, and $4015/$4017 accesses act on it a few    *)
(* cycles late.  One action is one CPU cycle, the grain at which the CPU   *)
(* and the APU meet.                                                       *)
(*                                                                         *)
(* The DMC is seen from here as a source of dmc_reload_countdown and of    *)
(* dmc_irq; DmcDma models it.  The channels are seen as the receivers of   *)
(* QuarterFrame, HalfFrame and length loads.                               *)
(***************************************************************************)
EXTENDS Integers

CONSTANTS
  Lut,       \* sequencer_lut[1]; sequencer_lut[0] is its first four values
  MaxResets  \* bound: soft and hard resets in a behaviour

ASSUME LutAssumption ==
  /\ Lut \in [0..4 -> Nat]
  /\ Lut[0] > 3
  /\ \A s \in 0..3 : Lut[s] + 3 < Lut[s + 1]
ASSUME ResetsAssumption == MaxResets \in Nat

VARIABLES
  apu,    \* the sequencer's fields, as a record
  line,   \* nes->_irq_apu, the level the CPU's IRQ pin is computed from
  cpu,    \* what the CPU's instruction timing lets it write next
  clocks, \* what the last cycle's RunOneLast did to the channels
  resets  \* resets so far

vars == <<apu, line, cpu, clocks, resets>>

NoReg == "none"

(***************************************************************************)
(* Cycles without a write between two instructions that write registers.   *)
(***************************************************************************)
WriteGap == 3

(***************************************************************************)
(* $4017 is written with <<mode, inhibit>>, $4010 with its IRQ-enable bit. *)
(* $4003 and $4007 load a length counter at once; $400B and $400F load one *)
(* when dmc.timer is even, as every remaining register takes effect.       *)
(***************************************************************************)
PendingWrites ==
  {<<r, 0>> : r \in {"4003", "400F", "4015"}}
    \cup {<<"4010", b>> : b \in BOOLEAN}
    \cup {<<"4017", w>> : w \in (0..1) \X (0..1)}

NoClocks == [quarter |-> 0, half |-> 0, load |-> FALSE, predicted |-> FALSE]

(***************************************************************************)
(* A new APU after NESHardReset ("as if $00 was written to $4017").        *)
(***************************************************************************)
NewApu ==
  [counter |-> 2, step |-> 0, mode |-> 0, inhibit |-> 0, check_2 |-> Lut[3] - 2,
   irq_assert |-> 0, irq |-> FALSE, irq_flag |-> FALSE, irq_clear_pending |-> FALSE,
   seq_tick |-> 0, seq_val |-> <<0, 0>>,
   pending |-> <<NoReg, 0>>, reload_countdown |-> 0, dmc_irq |-> FALSE,
   dmc_irq_enabled |-> FALSE, odd |-> FALSE, strobed |-> FALSE]

Init ==
  /\ apu = NewApu
  /\ line = FALSE
  /\ cpu = [again |-> NoReg, gap |-> 0]
  /\ clocks = NoClocks
  /\ resets = 0
-----------------------------------------------------------------------------
Last(mode) == IF mode = 0 THEN 3 ELSE 4

Check1 == Lut[1] - 1

Check2(mode) == Lut[Last(mode)] - 2

\* Fault: the second length clock of the sequence is not foreseen.
LenClockActiveFirst(a) == a.counter = Check1

(***************************************************************************)
(* len_clock_active: RunOneLast's prediction that sequencer_tick is about  *)
(* to clock the length counters.                                           *)
(***************************************************************************)
LenClockActive(a) == a.counter \in {Check1, a.check_2}

SeqEvent(a) ==
  IF a.mode = 0
    THEN a.counter + 1 \in {Lut[3] - 1, Lut[3] - 2, Lut[a.step]}
    ELSE a.counter + 1 \in {Lut[4] - 1, Lut[a.step]}

\* Fault: the fast path is taken while a $4017 write is on its way.
QuiescentDespiteWrite(a) ==
  /\ ~SeqEvent(a)
  /\ ~a.strobed
  /\ ~a.irq_clear_pending
  /\ a.reload_countdown = 0
  /\ a.pending[1] = NoReg
  /\ a.irq_assert = 0
  /\ a.irq => a.irq_flag

(***************************************************************************)
(* The condition of the fast path: nothing is due this cycle.              *)
(***************************************************************************)
Quiescent(a) ==
  /\ ~SeqEvent(a)
  /\ ~a.strobed
  /\ ~a.irq_clear_pending
  /\ a.reload_countdown = 0
  /\ a.pending[1] = NoReg
  /\ a.seq_tick = 0
  /\ a.irq_assert = 0
  /\ a.irq => a.irq_flag

FastBody(a) == [a EXCEPT !.counter = @ + 1]

(***************************************************************************)
(* A get cycle turning into a put cycle strobes the controllers; a put     *)
(* cycle turning into a get cycle clears the frame interrupt flag.         *)
(***************************************************************************)
StrobeOrClear(a) ==
  IF a.odd
    THEN [a EXCEPT !.strobed = FALSE]
    ELSE [a EXCEPT !.irq_clear_pending = FALSE,
                   !.irq_flag = @ /\ ~a.irq_clear_pending]

(***************************************************************************)
(* The DMC's reload countdown; ends says that it ends a sample that does   *)
(* not loop and whose interrupt was not cancelled.                         *)
(***************************************************************************)
ReloadCountdown(a, ends) ==
  IF a.reload_countdown = 0 THEN a
  ELSE [a EXCEPT !.reload_countdown = @ - 1,
                 !.dmc_irq = @ \/ (a.reload_countdown = 1 /\ ends /\ a.dmc_irq_enabled)]

Waits(a) == a.pending[1] = "400F" /\ a.odd

(***************************************************************************)
(* _WriteReg of the pending register, as far as the sequencer sees it.     *)
(***************************************************************************)
ApplyWrite(a) ==
  LET reg == a.pending[1] val == a.pending[2] IN
  IF reg = NoReg \/ Waits(a) THEN a
  ELSE [a EXCEPT
         !.pending = <<NoReg, 0>>,
         !.seq_tick = IF reg = "4017" THEN IF a.odd THEN 4 ELSE 3 ELSE @,
         !.seq_val = IF reg = "4017" THEN val ELSE @,
         !.dmc_irq_enabled = IF reg = "4010" THEN val ELSE @,
         !.dmc_irq = @ /\ reg # "4015" /\ ~(reg = "4010" /\ ~val)]

LoadsLength(a) == a.pending[1] \in {"4003", "400F"} /\ ~Waits(a)

(***************************************************************************)
(* HalfFrame and QuarterFrame as sequencer_tick and sequencer_check call   *)
(* them, for a counter that has just become c.                             *)
(***************************************************************************)
AtStep(a, c) == c = Lut[a.step]

TickHalf(a, c) ==
  \/ c = Lut[Last(a.mode)] - 1
  \/ AtStep(a, c) /\ a.step = 1

TickQuarter(a, c) == AtStep(a, c) /\ (a.mode = 0 \/ a.step # 3)

\* Fault: the frame interrupt is raised in the wrong mode.
SequencerTickWrongMode(a) ==
  LET c == a.counter + 1
      reset == AtStep(a, c) /\ a.step = Last(a.mode)
      raises == a.mode = 1 /\ a.inhibit = 0
  IN [a EXCEPT
       !.counter = IF reset THEN 0 ELSE c,
       !.step = IF reset THEN 0 ELSE IF AtStep(a, c) THEN @ + 1 ELSE @,
       !.irq_assert = IF raises /\ c = Lut[3] - 1 THEN 2 ELSE @,
       !.irq_flag = @ \/ (raises /\ (c \in {Lut[3] - 2, Lut[3] - 1} \/ reset))]

(***************************************************************************)
(* sequencer_tick with sequencer_check.                                    *)
(***************************************************************************)
SequencerTick(a) ==
  LET c == a.counter + 1
      reset == AtStep(a, c) /\ a.step = Last(a.mode)
      raises == a.mode = 0 /\ a.inhibit = 0
  IN [a EXCEPT
       !.counter = IF reset THEN 0 ELSE c,
       !.step = IF reset THEN 0 ELSE IF AtStep(a, c) THEN @ + 1 ELSE @,
       !.irq_assert = IF raises /\ c = Lut[3] - 1 THEN 2 ELSE @,
       !.irq_flag = @ \/ (raises /\ (c \in {Lut[3] - 2, Lut[3] - 1} \/ reset))]

(***************************************************************************)
(* sequencer_write_tick: a $4017 write takes effect when seq_tick ends.    *)
(***************************************************************************)
WriteTickDue(a) == a.seq_tick = 1

\* Fault: a $4017 write resets the counter and not the step.
SequencerWriteTickKeepsStep(a) ==
  IF a.seq_tick = 0 THEN a
  ELSE IF ~WriteTickDue(a) THEN [a EXCEPT !.seq_tick = @ - 1]
  ELSE [a EXCEPT
         !.seq_tick = 0,
         !.mode = a.seq_val[1],
         !.inhibit = a.seq_val[2],
         !.irq_flag = @ /\ a.seq_val[2] = 0,
         !.counter = 0,
         !.check_2 = Check2(a.seq_val[1])]

\* Fault: a change of mode leaves the prediction that of the old mode.
SequencerWriteTickKeepsCheck(a) ==
  IF a.seq_tick = 0 THEN a
  ELSE IF ~WriteTickDue(a) THEN [a EXCEPT !.seq_tick = @ - 1]
  ELSE [a EXCEPT
         !.seq_tick = 0,
         !.mode = a.seq_val[1],
         !.inhibit = a.seq_val[2],
         !.irq_flag = @ /\ a.seq_val[2] = 0,
         !.counter = 0,
         !.step = 0]

SequencerWriteTick(a) ==
  IF a.seq_tick = 0 THEN a
  ELSE IF ~WriteTickDue(a) THEN [a EXCEPT !.seq_tick = @ - 1]
  ELSE [a EXCEPT
         !.seq_tick = 0,
         !.mode = a.seq_val[1],
         !.inhibit = a.seq_val[2],
         !.irq_flag = @ /\ a.seq_val[2] = 0,
         !.counter = 0,
         !.step = 0,
         !.check_2 = Check2(a.seq_val[1])]

\* Fault: irq_assert counts on below zero.
AssertIrqUnsaturated(a) ==
  [a EXCEPT !.irq_assert = @ - 1, !.irq = @ \/ a.irq_assert = 1]

AssertIrq(a) ==
  [a EXCEPT !.irq_assert = IF @ > 0 THEN @ - 1 ELSE 0,
            !.irq = @ \/ a.irq_assert = 1]

(***************************************************************************)
(* SyncIRQ: the interrupt level the APU asks for.                          *)
(***************************************************************************)
SyncIRQ(a) == a.irq \/ a.dmc_irq

DropIrq(a) == [a EXCEPT !.irq = @ /\ a.irq_flag]

(***************************************************************************)
(* The body of RunOneLast that the fast path skips.  The line is computed  *)
(* before the interrupt whose flag is gone is dropped.                     *)
(***************************************************************************)
BeforeTick(a, ends) == ApplyWrite(ReloadCountdown(StrobeOrClear(a), ends))

\* Fault: the line is computed before the interrupt is asserted.
SlowBodyEarlyLine(a, ends) ==
  LET b == BeforeTick(a, ends)
      due == AssertIrq(SequencerWriteTick(SequencerTick(b)))
  IN [apu |-> DropIrq(due), line |-> SyncIRQ(b)]

SlowBody(a, ends) ==
  LET due == AssertIrq(SequencerWriteTick(SequencerTick(BeforeTick(a, ends))))
  IN [apu |-> DropIrq(due), line |-> SyncIRQ(due)]

(***************************************************************************)
(* What that body does to the channels.  The extra clock of a $4017 write  *)
(* in 5-step mode is left out when the sequencer clocked them itself.      *)
(***************************************************************************)
SlowClocks(a, ends) ==
  LET b == BeforeTick(a, ends)
      c == b.counter + 1
      half == TickHalf(b, c)
      quarter == TickQuarter(b, c)
      extra == /\ WriteTickDue(b)
               /\ b.seq_val[1] = 1
               /\ ~(half \/ quarter)
      count(own) == (IF own THEN 1 ELSE 0) + (IF extra THEN 1 ELSE 0)
  IN [quarter |-> count(quarter), half |-> count(half),
      load |-> LoadsLength(a), predicted |-> LenClockActive(a)]

RunOneLast(a, ends) ==
  IF Quiescent(a)
    THEN /\ apu' = FastBody(a)
         /\ clocks' = NoClocks
         /\ UNCHANGED line
    ELSE /\ apu' = SlowBody(a, ends).apu
         /\ line' = SlowBody(a, ends).line
         /\ clocks' = SlowClocks(a, ends)
-----------------------------------------------------------------------------
(***************************************************************************)
(* What comes before RunOneLast in the cycle: the DMC may have fetched a   *)
(* byte, its timer has ticked (RunOneFirst), the CPU or a DMA may have     *)
(* read $4015 and the CPU may have written a register.  A write is only    *)
(* latched in pending_reg (WriteReg), where it replaces one that still     *)
(* waits; write_joyport asks for a strobe.                                 *)
(***************************************************************************)
NoWrite == <<NoReg, 0>>

Writes == {NoWrite, <<"4016", 0>>} \cup PendingWrites

Accessed(a, fetch, read4015, write) ==
  [a EXCEPT !.reload_countdown = IF fetch THEN 3 ELSE @,
            !.odd = ~@,
            !.irq_clear_pending = @ \/ read4015,
            !.strobed = @ \/ write[1] = "4016",
            !.pending = IF write \in PendingWrites THEN write ELSE @]

(***************************************************************************)
(* The 6502's pace: a read-modify-write instruction writes its register    *)
(* twice in a row; another instruction that writes an absolute address     *)
(* does so four cycles after the last write at the earliest.               *)
(***************************************************************************)
CpuMayWrite(write) == write = NoWrite \/ cpu.gap = 0 \/ write[1] = cpu.again

CpuPace(write) ==
  IF write # NoWrite
    THEN [again |-> IF cpu.again = NoReg THEN write[1] ELSE NoReg, gap |-> WriteGap]
    ELSE [again |-> NoReg, gap |-> IF cpu.gap = 0 THEN 0 ELSE cpu.gap - 1]

(***************************************************************************)
(* One RunCpuOne as the sequencer sees it.  A fetch cannot meet an         *)
(* unfinished reload: a DMA takes longer.                                  *)
(***************************************************************************)
CpuCycle(fetch, read4015, write, ends) ==
  /\ fetch => apu.reload_countdown = 0
  /\ ends => apu.reload_countdown = 1
  /\ CpuMayWrite(write)
  /\ cpu' = CpuPace(write)
  /\ RunOneLast(Accessed(apu, fetch, read4015, write), ends)
  /\ UNCHANGED resets

(***************************************************************************)
(* NESSoftReset, between two frames.  The line keeps its level; the CPU    *)
(* starts its reset sequence.                                              *)
(***************************************************************************)
SoftReset ==
  /\ resets < MaxResets
  /\ apu' = [apu EXCEPT
              !.irq = FALSE, !.irq_flag = FALSE, !.dmc_irq = FALSE,
              !.mode = apu.seq_val[1], !.inhibit = apu.seq_val[2],
              !.counter = 0, !.step = 0, !.check_2 = Check2(apu.seq_val[1])]
  /\ resets' = resets + 1
  /\ clocks' = NoClocks
  /\ cpu' = [again |-> NoReg, gap |-> WriteGap]
  /\ UNCHANGED line

(***************************************************************************)
(* NES::HardReset builds a new APU; _irq_apu and joypadStrobed survive it. *)
(***************************************************************************)
HardReset ==
  /\ resets < MaxResets
  /\ apu' = [NewApu EXCEPT !.strobed = apu.strobed]
  /\ resets' = resets + 1
  /\ clocks' = NoClocks
  /\ cpu' = [again |-> NoReg, gap |-> WriteGap]
  /\ UNCHANGED line

Cycle == \E fetch, read4015, ends \in BOOLEAN, write \in Writes : CpuCycle(fetch, read4015, write, ends)

Next == Cycle \/ SoftReset \/ HardReset

Spec == Init /\ [][Next]_vars

(***************************************************************************)
(* FrameAdvance runs one CPU cycle after the other without waiting for     *)
(* anything: a cycle is possible in every state, and cycles go on for      *)
(* ever.  A cycle is the step that turns the parity of dmc.timer.          *)
(***************************************************************************)
CycleRuns == apu'.odd # apu.odd

FairSpec == Spec /\ []<><<CycleRuns>>_vars
-----------------------------------------------------------------------------
\* Type invariant of the sequencer's fields.
TypeOK ==
  /\ apu \in [counter : Nat, step : 0..4, mode : 0..1, inhibit : 0..1, check_2 : Nat,
              irq_assert : 0..2, irq : BOOLEAN, irq_flag : BOOLEAN,
              irq_clear_pending : BOOLEAN, seq_tick : 0..3, seq_val : (0..1) \X (0..1),
              pending : {<<NoReg, 0>>} \cup PendingWrites,
              reload_countdown : 0..2, dmc_irq : BOOLEAN,
              dmc_irq_enabled : BOOLEAN, odd : BOOLEAN, strobed : BOOLEAN]
  /\ line \in BOOLEAN
  /\ cpu \in [again : {w[1] : w \in Writes}, gap : 0..WriteGap]
  /\ clocks \in [quarter : 0..2, half : 0..2, load : BOOLEAN, predicted : BOOLEAN]
  /\ resets \in 0..MaxResets

\* sequencer_tick compares for equality, so a counter past its next step would
\* never clock anything again: through mode changes, late $4017 writes and
\* resets the counter stays between the last step and the next one.
NoStepMissed ==
  /\ apu.step <= Last(apu.mode)
  /\ apu.counter < Lut[apu.step]
  /\ apu.step > 0 => Lut[apu.step - 1] <= apu.counter

\* len_clock_active foretells exactly the length clocks of sequencer_tick: the
\* stored sequencer_check_2 is never that of the other mode.
PredictionMatchesTick == LenClockActive(apu) <=> TickHalf(apu, apu.counter + 1)

\* However a $4017 write meets the sequencer's own clock, no cycle clocks the
\* length counters or the envelopes twice.
ClockedAtMostOnce == clocks.quarter <= 1 /\ clocks.half <= 1

\* The channels are clocked when len_clock_active says so, and never twice.
ClocksExact == PredictionMatchesTick /\ ClockedAtMostOnce

\* An interrupt the APU holds is always on the line: whatever the fast path
\* skips, it loses no interrupt.
NoIrqLost == SyncIRQ(apu) => line

(***************************************************************************)
(* The states in which RunOneLast may find the APU in the next cycle.      *)
(***************************************************************************)
BeforeLast ==
  {Accessed(apu, fetch, read4015, write) :
     fetch \in {f \in BOOLEAN : f => apu.reload_countdown = 0},
     read4015 \in BOOLEAN, write \in {w \in Writes : CpuMayWrite(w)}}

\* Whenever the fast path is taken the skipped body would have changed nothing
\* but the counter, and clocked no channel: true of everything but the line.
FastPathKeepsState ==
  \A a \in BeforeLast : Quiescent(a) =>
    /\ SlowBody(a, TRUE).apu = FastBody(a)
    /\ SlowClocks(a, TRUE).half = 0
    /\ SlowClocks(a, TRUE).quarter = 0

\* "irq_pending and nes->_irq_apu are unchanged. Exact-equivalent" (nes.hpp,
\* RunOneLast): the skipped body would have left the line as it is.
FastPathKeepsLine ==
  \A a \in BeforeLast : Quiescent(a) => SlowBody(a, TRUE).line = line

\* "the timer reload shouldn't happen if length clock and write happen
\* simultaneously" (nes.hpp, RunOneLast): a length load in the cycle of a
\* length clock was foreseen by the prediction.  The extra clock of a $4017
\* write is not predicted; the CPU's pace keeps every load away from it.
LoadForeseesClock == clocks.load /\ clocks.half > 0 => clocks.predicted

\* A line left high after its interrupt was acknowledged comes down again, or
\* a new interrupt takes it over.
StaleLineReleased == line ~> (~line \/ SyncIRQ(apu))

\* In 4-step mode with interrupts allowed, and once $4017 is left alone, the
\* frame interrupt flag is raised again and again.
FrameIrqRecurs ==
  <>[](apu.mode = 0 /\ apu.inhibit = 0 /\ apu.seq_tick = 0) => []<>(apu.irq_flag)

\* As long as $4017 is not rewritten for ever the channels' envelopes never
\* stop being clocked, in either mode.
QuarterFramesRecur == <>[](apu.seq_tick = 0) => []<>(clocks.quarter = 1)

\* The sequence goes round for ever: clocks and interrupts recur, and a stale
\* interrupt line is released by them.
SequenceRecurs == StaleLineReleased /\ FrameIrqRecurs /\ QuarterFramesRecur
=============================================================================

------------------------------ MODULE Channels ------------------------------
(***************************************************************************)
(* The APU's tone channels (nesApu.hpp): PulseUnit, with its envelope and  *)
(* sweep, NoiseUnit and TriangleUnit, their length counters, and the mix   *)
(* that is computed anew only when a unit asks for it.  One action is one  *)
(* CPU cycle: RunOneFirst, EmitSample, and what RunOneLast does to the     *)
(* channels, a register write before the sequencer's clock.  Which cycles  *)
(* have a clock is ApuSequencer's subject: a program may change the mode   *)
(* as often as it likes, so here any cycle may have one.  One of the two   *)
(* pulses is modelled; the DMC is DmcDma's.                                *)
(***************************************************************************)
EXTENDS Integers

CONSTANTS
  LengthTable,   \* LENGTH_TABLE
  LowPeriods,    \* values of the low part of a pulse's period: 256 in the code
  MinPeriod,     \* below it a pulse is silent: 8
  VolumeTop,     \* the loudest envelope: 15
  Duty,          \* PULSE_DUTY, as the set of steps that are high
  SeqLength,     \* steps of the triangle: 32
  NoiseBits,     \* bits of the noise's shift register: 15
  ShortTap,      \* its second tap in mode 1: 6
  Programs,      \* bound: the build (headless or not), the pulse (unit), and the
                 \*   channel a program uses
  Writes         \* bound: per use, the <<register, value>> written

MaxPeriod == 8 * LowPeriods - 1

ASSUME ChannelsAssumption ==
  /\ DOMAIN LengthTable # {} /\ \A i \in DOMAIN LengthTable : LengthTable[i] \in Nat \ {0}
  /\ LowPeriods \in Nat \ {0} /\ MinPeriod \in 1..MaxPeriod
  /\ VolumeTop \in Nat /\ 0 \in DOMAIN Duty
  /\ SeqLength \in Nat \ {0}
  /\ NoiseBits \in Nat /\ ShortTap \in 2..NoiseBits - 1

\* What the bits of a register can say.
Sent(reg, v) ==
  /\ reg \in {"4000", "400C"} =>
       v.volume \in 0..VolumeTop /\ v.constant \in 0..1 /\ v.loop \in 0..1
  /\ reg = "4000" => v.duty \in DOMAIN Duty
  /\ reg = "4001" => /\ v.shift \in 0..7 /\ v.divider \in 0..7
                     /\ v.negate \in 0..1 /\ v.enable \in 0..1
  /\ reg = "4008" => v.linear \in Nat /\ v.control \in 0..1
  /\ reg \in {"4002", "400A"} => v.low \in 0..LowPeriods - 1
  /\ reg \in {"4003", "400B"} => v.high \in 0..7
  /\ reg \in {"4003", "400B", "400F"} => v.length \in DOMAIN LengthTable
  /\ reg = "400E" => v.period \in Nat /\ v.mode \in 0..1

ASSUME ProgramsAssumption ==
  \A p \in Programs : p.unit \in 0..1 /\ \A w \in Writes[p.uses] : Sent(w[1], w[2])

VARIABLES
  program,   \* the member of Programs that runs, chosen once
  pulse, noise, triangle,
  oldmix,    \* the samples of the last mix
  step       \* history: what the last step was

vars == <<program, pulse, noise, triangle, oldmix, step>>

NoWrite == <<"none", [none |-> 0]>>

\* What the sequencer does in a cycle; "extra" is the clock of a $4017 write.
Clocks == {"none", "quarter", "half", "both", "extra"}

Quarter(clock) == clock \in {"quarter", "both", "extra"}
Half(clock) == clock \in {"half", "both", "extra"}

\* len_clock_active, which does not foresee the extra clock.
Foreseen(clock) == clock \in {"half", "both"}

-----------------------------------------------------------------------------
(***************************************************************************)
(* Length counters.                                                        *)
(***************************************************************************)
set_lenctr_en(u, value) ==
  [u EXCEPT !.lenctr_en = value, !.len_cnt = IF value = 0 THEN 0 ELSE @]

\* A load that meets a clock is lost on a running counter and outlives it on a stopped one.
LoadLength(u, index, clock) ==
  LET loaded == IF ~Foreseen(clock) THEN LengthTable[index]
                ELSE IF u.len_cnt = 0 THEN LengthTable[index] + 1 ELSE u.len_cnt
  IN  set_lenctr_en([u EXCEPT !.len_cnt = loaded], u.lenctr_en)

\* Fault: a counter stops at one.
ClockLengthSticks(u, halted) ==
  [u EXCEPT !.len_cnt = IF @ > 1 /\ ~halted THEN @ - 1 ELSE @]

ClockLength(u, halted) == [u EXCEPT !.len_cnt = IF @ > 0 /\ ~halted THEN @ - 1 ELSE @]

(***************************************************************************)
(* Envelopes: the pulse's divider counts to zero and reloads on the next   *)
(* clock, the noise's reloads when it gets there.                          *)
(***************************************************************************)
StartEnvelope(u, divider) ==
  [u EXCEPT !.env_start_flag = 0, !.env_divider = divider, !.env_counter = VolumeTop]

StepEnvelope(u, divider) ==
  [u EXCEPT !.env_divider = divider,
            !.env_counter = IF @ > 0 THEN @ - 1 ELSE IF u.env_loop = 1 THEN VolumeTop ELSE 0]

PulseEnvelope(u) ==
  IF u.env_start_flag = 1 THEN StartEnvelope(u, u.env_cnt_value)
  ELSE IF u.env_divider # 0 THEN [u EXCEPT !.env_divider = @ - 1]
  ELSE StepEnvelope(u, u.env_cnt_value)

NoiseEnvelope(u) ==
  IF u.env_start_flag = 1 THEN StartEnvelope(u, u.env_cnt_value + 1)
  ELSE IF u.env_divider > 1 THEN [u EXCEPT !.env_divider = @ - 1]
  ELSE StepEnvelope(u, u.env_cnt_value + 1)

Volume(u) == IF u.env_constant = 1 THEN u.env_cnt_value ELSE u.env_counter

(***************************************************************************)
(* A unit that runs to another sample asks for a new mix.  The code has    *)
(* one flag for all of them; "recalculate" is a unit's part in it.         *)
(***************************************************************************)
Sounds(u, newsample) ==
  IF newsample = u.sample THEN u ELSE [u EXCEPT !.sample = newsample, !.recalculate = TRUE]

-----------------------------------------------------------------------------
(***************************************************************************)
(* The pulse.                                                              *)
(***************************************************************************)
NewPulse ==
  [duty_cnt |-> 0, env_loop |-> 0, env_constant |-> 0, env_cnt_value |-> 0,
   sweep_en |-> 0, sweep_divider_cnt |-> 0, sweep_negate |-> 0, sweep_shiftcount |-> 0,
   sweep_reload |-> FALSE, len_cnt |-> 0, timer_raw_reload_value |-> 0,
   timer_reload_value |-> 0, lenctr_en |-> 0, swp_divider_counter |-> 0,
   swp_silence |-> FALSE, duty_step |-> 0, timer_counter |-> 0, sample |-> 0,
   duty_value |-> FALSE, env_start_flag |-> 0, env_divider |-> 0, env_counter |-> 0,
   recalculate |-> FALSE]

SetPeriod(p, period) ==
  [p EXCEPT !.timer_reload_value = period, !.timer_raw_reload_value = 2 * period + 2]

WritePulse(p, reg, v, clock) ==
  CASE reg = "4000" -> [p EXCEPT !.env_cnt_value = v.volume, !.env_constant = v.constant,
                                 !.env_loop = v.loop, !.duty_cnt = v.duty]
    [] reg = "4001" -> [p EXCEPT !.sweep_shiftcount = v.shift, !.sweep_negate = v.negate,
                                 !.sweep_divider_cnt = v.divider, !.sweep_en = v.enable,
                                 !.sweep_reload = TRUE]
    [] reg = "4002" -> SetPeriod(p, p.timer_reload_value - (p.timer_reload_value % LowPeriods) + v.low)
    [] reg = "4003" -> [LoadLength(SetPeriod(p, (p.timer_reload_value % LowPeriods) + v.high * LowPeriods),
                                   v.length, clock) EXCEPT !.duty_step = 0, !.env_start_flag = 1]
    [] OTHER -> p

\* The two pulses negate differently: unit is 1 for the first and 0 for the second.
SweepTarget(p) ==
  LET change == p.timer_reload_value \div 2^p.sweep_shiftcount
  IN  p.timer_reload_value + IF p.sweep_negate = 1 THEN -change - program.unit ELSE change

Silences(p) == p.timer_reload_value < MinPeriod \/ SweepTarget(p) > MaxPeriod

\* Fault: the bend goes on where the pulse is silent.
BendAnyway(p) == IF p.sweep_shiftcount # 0 THEN SetPeriod(p, SweepTarget(p)) ELSE p

Bend(p) == IF p.sweep_shiftcount # 0 /\ ~p.swp_silence THEN SetPeriod(p, SweepTarget(p)) ELSE p

\* Silence is found anew at each half frame, with or without a sweep.
ClockSweep(p) ==
  LET q    == [p EXCEPT !.swp_silence = Silences(p)]
      left == IF p.swp_divider_counter > 0 THEN p.swp_divider_counter - 1 ELSE 0
      full == p.sweep_divider_cnt + 1
  IN  IF p.sweep_en = 0 THEN q
      ELSE [(IF left = 0 THEN Bend(q) ELSE q) EXCEPT
              !.swp_divider_counter = IF left = 0 \/ p.sweep_reload THEN full ELSE left,
              !.sweep_reload = FALSE]

ClockPulse(p, clock) ==
  LET q == IF Quarter(clock) THEN PulseEnvelope(p) ELSE p
  IN  IF Half(clock) THEN ClockLength(ClockSweep(q), q.env_loop = 1) ELSE q

RunPulse(p) ==
  LET left  == IF p.timer_counter > 0 THEN p.timer_counter - 1 ELSE 0
      steps == left = 0 /\ p.timer_raw_reload_value # 0
      next  == IF steps THEN (p.duty_step + 1) % 8 ELSE p.duty_step
      high  == IF steps THEN next \in Duty[p.duty_cnt] ELSE p.duty_value
  IN  Sounds([p EXCEPT !.timer_counter = IF steps THEN p.timer_raw_reload_value ELSE left,
                       !.duty_step = next, !.duty_value = high],
             IF high /\ ~p.swp_silence /\ p.len_cnt > 0 THEN Volume(p) ELSE 0)

-----------------------------------------------------------------------------
(***************************************************************************)
(* The noise.  A halt takes hold after a clock of the same cycle.          *)
(***************************************************************************)
NewNoise ==
  [env_cnt_value |-> 0, env_loop |-> 0, env_constant |-> 0, len_halt |-> FALSE,
   mode_cnt |-> 0, period_cnt |-> 0, len_cnt |-> 0, lenctr_en |-> 0, shift_register |-> {0},
   timer_counter |-> 0, sample |-> 0, env_start_flag |-> 0, env_divider |-> 0,
   env_counter |-> 0, noise_bit |-> TRUE, recalculate |-> FALSE]

WriteNoise(n, reg, v, clock) ==
  CASE reg = "400C" -> [n EXCEPT !.env_cnt_value = v.volume, !.env_constant = v.constant,
                                 !.len_halt = @ \/ (n.env_loop = 0 /\ v.loop = 1),
                                 !.env_loop = v.loop]
    [] reg = "400E" -> [n EXCEPT !.period_cnt = v.period, !.mode_cnt = v.mode]
    [] reg = "400F" -> [LoadLength(n, v.length, clock) EXCEPT !.env_start_flag = 1]
    [] OTHER -> n

ClockNoise(n, clock) ==
  LET m == IF Quarter(clock) THEN NoiseEnvelope(n) ELSE n
  IN  IF Half(clock) THEN ClockLength(m, m.env_loop = 1 /\ ~m.len_halt) ELSE m

\* A register is the set of its 1 bits; what is fed back is the xor of two of them.
Shifted(n) ==
  LET tap == IF n.mode_cnt = 1 THEN ShortTap ELSE 1
  IN  {i - 1 : i \in n.shift_register \ {0}}
        \cup {i \in {NoiseBits - 1} : (tap \in n.shift_register) # (0 \in n.shift_register)}

RunNoise(n) ==
  LET left  == IF n.timer_counter > 0 THEN n.timer_counter - 1 ELSE 0
      steps == left = 0 /\ n.period_cnt # 0
      reg   == IF steps THEN Shifted(n) ELSE n.shift_register
      bit   == IF steps THEN 0 \in reg ELSE n.noise_bit
  IN  Sounds([n EXCEPT !.timer_counter = IF steps THEN n.period_cnt ELSE left,
                       !.shift_register = reg, !.noise_bit = bit],
             IF bit /\ n.len_cnt > 0 THEN Volume(n) ELSE 0)

-----------------------------------------------------------------------------
(***************************************************************************)
(* The triangle, which keeps its level when it stops.                      *)
(***************************************************************************)
NewTriangle ==
  [linear_counter_reload |-> 0, control_flag |-> 0, timer_cnt |-> 0, reload_flag |-> 0,
   len_cnt |-> 0, lenctr_en |-> 0, linear_counter |-> 0, timer |-> 0,
   timer_cnt_reload |-> 0, seq |-> 0, sample |-> 0, recalculate |-> FALSE]

SetTriangleTimer(t, period) == [t EXCEPT !.timer_cnt = period, !.timer_cnt_reload = period + 1]

WriteTriangle(t, reg, v, clock) ==
  CASE reg = "4008" -> [t EXCEPT !.linear_counter_reload = v.linear, !.control_flag = v.control]
    [] reg = "400A" -> SetTriangleTimer(t, t.timer_cnt - (t.timer_cnt % LowPeriods) + v.low)
    [] reg = "400B" -> [LoadLength(SetTriangleTimer(t, (t.timer_cnt % LowPeriods) + v.high * LowPeriods),
                                   v.length, clock) EXCEPT !.reload_flag = 1]
    [] OTHER -> t

ClockLinear(t) ==
  [t EXCEPT !.linear_counter = IF t.reload_flag = 1 THEN t.linear_counter_reload
                               ELSE IF @ > 0 THEN @ - 1 ELSE 0,
            !.reload_flag = IF t.control_flag = 0 THEN 0 ELSE @]

ClockTriangle(t, clock) ==
  LET s == IF Quarter(clock) THEN ClockLinear(t) ELSE t
  IN  IF Half(clock) THEN ClockLength(s, s.control_flag = 1) ELSE s

TriangleLevel(seq) == IF 2 * seq < SeqLength THEN (SeqLength \div 2) - 1 - seq
                                             ELSE seq - (SeqLength \div 2)

\* The highest frequency, used to mute, is heard as a level in the middle.
TriangleSample(t, seq) ==
  IF t.timer_cnt_reload = 1 THEN SeqLength \div 4 ELSE TriangleLevel(seq)

\* Fault: a triangle set to the muting frequency changes its sample and asks for no mix.
RunTriangleForgets(t) ==
  LET left  == IF t.timer > 0 THEN t.timer - 1 ELSE 0
      steps == left = 0 /\ t.len_cnt > 0 /\ t.linear_counter > 0
      next  == (t.seq + 1) % SeqLength
      s     == [t EXCEPT !.timer = IF left = 0 THEN t.timer_cnt_reload ELSE left]
  IN  IF ~steps THEN s
      ELSE IF t.timer_cnt_reload = 1 THEN [s EXCEPT !.seq = next, !.sample = SeqLength \div 4]
      ELSE Sounds([s EXCEPT !.seq = next], TriangleLevel(next))

RunTriangle(t) ==
  LET left  == IF t.timer > 0 THEN t.timer - 1 ELSE 0
      steps == left = 0 /\ t.len_cnt > 0 /\ t.linear_counter > 0
      next  == (t.seq + 1) % SeqLength
      s     == [t EXCEPT !.timer = IF left = 0 THEN t.timer_cnt_reload ELSE left]
  IN  IF steps THEN Sounds([s EXCEPT !.seq = next], TriangleSample(t, next)) ELSE s

-----------------------------------------------------------------------------
Samples(p, n, t) == <<p.sample, t.sample, n.sample>>

Recalculate(p, n, t) == p.recalculate \/ n.recalculate \/ t.recalculate

\* Whoever asked for a mix has been heard.
EmitSample(u) == [u EXCEPT !.recalculate = FALSE]

Init ==
  /\ program \in Programs
  /\ pulse = NewPulse /\ noise = NewNoise /\ triangle = NewTriangle
  /\ oldmix = <<0, 0, 0>> /\ step = "other"

\* _WriteReg, for the channels; $4015 is written with the set of channels enabled.
Written(u, name, w, own) ==
  IF w[1] = "4015" THEN set_lenctr_en(u, IF name \in w[2].enabled THEN 1 ELSE 0) ELSE own

\* What runs before a write; the waveforms only in a build that has sound.
RanPulse == IF program.headless THEN pulse ELSE RunPulse(pulse)
RanNoise == [IF program.headless THEN noise ELSE RunNoise(noise) EXCEPT !.len_halt = FALSE]
RanTriangle == IF program.headless THEN triangle ELSE RunTriangle(triangle)

Cycle(w, clock) ==
  LET p == EmitSample(RanPulse)
      n == EmitSample(RanNoise)
      t == EmitSample(RanTriangle)
  IN  /\ clock = "extra" => w = NoWrite
      /\ oldmix' = IF Recalculate(RanPulse, RanNoise, RanTriangle) THEN Samples(p, n, t)
                   ELSE oldmix
      /\ pulse' = ClockPulse(Written(p, "pulse", w, WritePulse(p, w[1], w[2], clock)), clock)
      /\ noise' = ClockNoise(Written(n, "noise", w, WriteNoise(n, w[1], w[2], clock)), clock)
      /\ triangle' = ClockTriangle(Written(t, "triangle", w, WriteTriangle(t, w[1], w[2], clock)), clock)
      /\ step' = IF w # NoWrite THEN "write" ELSE IF clock = "both" THEN "second" ELSE "other"
      /\ UNCHANGED program

\* A soft reset writes zero to $4015, between two cycles.
NESSoftReset ==
  /\ pulse' = set_lenctr_en(pulse, 0)
  /\ noise' = set_lenctr_en(noise, 0)
  /\ triangle' = set_lenctr_en(triangle, 0)
  /\ step' = "write"
  /\ UNCHANGED <<program, oldmix>>

Next ==
  \/ \E w \in Writes[program.uses] \cup {NoWrite}, clock \in Clocks : Cycle(w, clock)
  \/ NESSoftReset

Spec == Init /\ [][Next]_vars

-----------------------------------------------------------------------------
\* What a length counter can hold: a length of the table, or one more.
LengthCounts == {n \in Nat : \E i \in DOMAIN LengthTable : n <= LengthTable[i] + 1}

(***************************************************************************)
(* Types; and however writes, clocks and resets fall: a sweep keeps the    *)
(* period within its bits and the reload value in step with it, a disabled *)
(* channel stays silent, and the noise never locks up at zero.             *)
(***************************************************************************)
TypeOK ==
  /\ pulse.timer_reload_value \in 0..MaxPeriod
  /\ \/ pulse.timer_raw_reload_value = 2 * pulse.timer_reload_value + 2
     \/ pulse.timer_raw_reload_value = 0 /\ pulse.timer_reload_value = 0
  /\ {pulse.len_cnt, noise.len_cnt, triangle.len_cnt} \subseteq LengthCounts
  /\ pulse.lenctr_en = 0 => pulse.len_cnt = 0
  /\ noise.lenctr_en = 0 => noise.len_cnt = 0
  /\ triangle.lenctr_en = 0 => triangle.len_cnt = 0
  /\ pulse.env_counter \in 0..VolumeTop /\ noise.env_counter \in 0..VolumeTop
  /\ pulse.duty_step \in 0..7 /\ triangle.seq \in 0..SeqLength - 1
  /\ noise.shift_register \subseteq 0..NoiseBits - 1 /\ noise.shift_register # {}

(***************************************************************************)
(* A length loaded in the cycle of a clock is the table's length if the    *)
(* counter had run out, and does not touch a counter that had not; a noise *)
(* halted in that cycle is still clocked.                                  *)
(***************************************************************************)
Meets(u, halted, index, v) ==
  ~halted => v.len_cnt = IF u.lenctr_en = 0 THEN 0
                         ELSE IF u.len_cnt = 0 THEN LengthTable[index] ELSE u.len_cnt - 1

LoadsMeetClocks ==
  \A w \in Writes[program.uses], clock \in {"half", "both"} :
    LET p == ClockPulse(WritePulse(pulse, w[1], w[2], clock), clock)
        n == ClockNoise(WriteNoise(noise, w[1], w[2], clock), clock)
        t == ClockTriangle(WriteTriangle(triangle, w[1], w[2], clock), clock)
    IN  /\ w[1] = "4003" => Meets(pulse, pulse.env_loop = 1, w[2].length, p)
        /\ w[1] = "400F" => Meets(noise, noise.env_loop = 1, w[2].length, n)
        /\ w[1] = "400B" => Meets(triangle, triangle.control_flag = 1, w[2].length, t)
        /\ w[1] = "400C" /\ noise.env_loop = 0 /\ noise.len_cnt > 0 => n.len_cnt = noise.len_cnt - 1

(***************************************************************************)
(* The two ways of counting an envelope's divider give the same envelope.  *)
(***************************************************************************)
AsNoise(p) == [p EXCEPT !.env_divider = @ + 1]

EnvelopesAlike == NoiseEnvelope(AsNoise(pulse)) = AsNoise(PulseEnvelope(pulse))

(***************************************************************************)
(* The mix is that of the samples as they are, though it is computed anew  *)
(* only when a unit asked: none may change its sample and not ask.         *)
(***************************************************************************)
MixCurrent == oldmix = Samples(pulse, noise, triangle)

(***************************************************************************)
(* What is kept twice or done in two places agrees: the two dividers, the  *)
(* mix and the samples, which no unit may change without asking for a new  *)
(* mix, a load's condition and the clock that follows it.                  *)
(***************************************************************************)
UnitsAgree == EnvelopesAlike /\ MixCurrent /\ LoadsMeetClocks

(***************************************************************************)
(* Left alone, a channel comes to rest: a counter that is not halted runs  *)
(* out, an envelope that does not loop decays, and a sweep ends; for the   *)
(* sequencer goes for ever through its second step, which clocks           *)
(* everything (ApuSequencer!QuarterFramesRecur).                           *)
(***************************************************************************)
ToneEnds ==
  <>[](step # "write") /\ []<><<step' = "second">>_vars =>
    /\ <>[](pulse.env_loop = 1 \/ (pulse.len_cnt = 0 /\ pulse.env_counter = 0))
    /\ <>[](noise.env_loop = 1 \/ (noise.len_cnt = 0 /\ noise.env_counter = 0))
    /\ <>[](triangle.control_flag = 1 \/ (triangle.len_cnt = 0 /\ triangle.linear_counter = 0))
    /\ <>[][pulse'.timer_reload_value = pulse.timer_reload_value]_vars

=============================================================================

---------------------------- MODULE ChannelsProofs ----------------------------
(***************************************************************************)
(* For every table of lengths, every period, volume and shift register:    *)
(* the types of Channels, and that what is kept twice or done in two       *)
(* places agrees.                                                          *)
(***************************************************************************)
EXTENDS Channels, TLAPS

Flags == 0..1

Periods == 0..MaxPeriod

Volumes == 0..VolumeTop

Eighths == 0..7

Duties == DOMAIN Duty

SeqSteps == 0..SeqLength - 1

Registers == (SUBSET (0..NoiseBits - 1)) \ {{}}

PulseType ==
  [duty_cnt : Duties, env_loop : Flags, env_constant : Flags, env_cnt_value : Volumes,
   sweep_en : Flags, sweep_divider_cnt : Eighths, sweep_negate : Flags,
   sweep_shiftcount : Eighths, sweep_reload : BOOLEAN, len_cnt : LengthCounts,
   timer_raw_reload_value : Nat, timer_reload_value : Periods, lenctr_en : Flags,
   swp_divider_counter : Nat, swp_silence : BOOLEAN, duty_step : Eighths,
   timer_counter : Nat, sample : Volumes, duty_value : BOOLEAN, env_start_flag : Flags,
   env_divider : Nat, env_counter : Volumes, recalculate : BOOLEAN]

NoiseType ==
  [env_cnt_value : Volumes, env_loop : Flags, env_constant : Flags, len_halt : BOOLEAN,
   mode_cnt : Flags, period_cnt : Nat, len_cnt : LengthCounts, lenctr_en : Flags,
   shift_register : Registers, timer_counter : Nat, sample : Volumes,
   env_start_flag : Flags, env_divider : Nat, env_counter : Volumes, noise_bit : BOOLEAN,
   recalculate : BOOLEAN]

TriangleType ==
  [linear_counter_reload : Nat, control_flag : Flags, timer_cnt : Periods,
   reload_flag : Flags, len_cnt : LengthCounts, lenctr_en : Flags, linear_counter : Nat,
   timer : Nat, timer_cnt_reload : Nat, seq : SeqSteps, sample : Int,
   recalculate : BOOLEAN]

\* The reload value of a pulse is made from its period, and a disabled counter is at zero.
InStep(p) ==
  \/ p.timer_raw_reload_value = 2 * p.timer_reload_value + 2
  \/ p.timer_raw_reload_value = 0 /\ p.timer_reload_value = 0

Off(u) == u.lenctr_en = 0 => u.len_cnt = 0

SameCounter(u, v) == v.len_cnt = u.len_cnt /\ v.lenctr_en = u.lenctr_en

SamePeriod(u, v) ==
  /\ v.timer_raw_reload_value = u.timer_raw_reload_value
  /\ v.timer_reload_value = u.timer_reload_value

SameLevel(u, v) == v.sample = u.sample

\* Who changes its sample asks for a new mix.
Asks(u, v) == v.sample # u.sample => v.recalculate

Types == pulse \in PulseType /\ noise \in NoiseType /\ triangle \in TriangleType

IInv ==
  /\ program \in Programs
  /\ Types
  /\ InStep(pulse) /\ Off(pulse) /\ Off(noise) /\ Off(triangle)
  /\ MixCurrent

-----------------------------------------------------------------------------
\* What the assumptions say of the sets above.
LEMMA Numbers ==
  /\ 0 \in Flags /\ 1 \in Flags /\ \A f \in Flags : f = 0 \/ f = 1
  /\ LowPeriods \in Nat /\ LowPeriods > 0
  /\ 0 \in Periods /\ \A t \in Periods : t \in Nat /\ t <= MaxPeriod
  /\ MaxPeriod \in Nat /\ MinPeriod \in Nat /\ MinPeriod > 0
  /\ VolumeTop \in Volumes /\ 0 \in Volumes /\ \A v \in Volumes : v \in Nat /\ v <= VolumeTop
  /\ 0 \in Eighths /\ \A e \in Eighths : e \in Nat /\ (e + 1) % 8 \in Eighths
  /\ 0 \in SeqSteps /\ \A q \in SeqSteps : q \in Nat
<1>1. LowPeriods \in Nat \ {0} /\ MinPeriod \in 1..MaxPeriod /\ VolumeTop \in Nat
      /\ SeqLength \in Nat \ {0}
  BY ChannelsAssumption
<1>2. MaxPeriod \in Nat
  BY <1>1 DEF MaxPeriod
<1>3. 0 \in Flags /\ 1 \in Flags /\ \A f \in Flags : f = 0 \/ f = 1
  BY DEF Flags
<1>4. 0 \in Periods /\ \A t \in Periods : t \in Nat /\ t <= MaxPeriod
  BY <1>2 DEF Periods
<1>5. VolumeTop \in Volumes /\ 0 \in Volumes
      /\ \A v \in Volumes : v \in Nat /\ v <= VolumeTop
  BY <1>1 DEF Volumes
<1>6. 0 \in Eighths /\ \A e \in Eighths : e \in Nat /\ (e + 1) % 8 \in Eighths
  BY DEF Eighths
<1>7. 0 \in SeqSteps /\ \A q \in SeqSteps : q \in Nat
  BY <1>1 DEF SeqSteps
<1>8. MinPeriod \in Nat /\ MinPeriod > 0
  BY <1>1, <1>2
<1> QED BY <1>1, <1>2, <1>3, <1>4, <1>5, <1>6, <1>7, <1>8

\* A volume can be counted down.
LEMMA Fades ==
  ASSUME NEW v \in Volumes, v # 0
  PROVE  v - 1 \in Volumes
<1>1. VolumeTop \in Nat
  BY ChannelsAssumption
<1> QED BY <1>1 DEF Volumes

(***************************************************************************)
(* Length counters hold zero, the table's lengths and what is left of them.*)
(***************************************************************************)
LEMMA Lengths ==
  /\ 0 \in LengthCounts
  /\ \A i \in DOMAIN LengthTable :
       /\ LengthTable[i] \in Nat /\ LengthTable[i] > 0
       /\ LengthTable[i] \in LengthCounts /\ LengthTable[i] + 1 \in LengthCounts
  /\ \A n \in LengthCounts : n \in Nat /\ (n > 0 => n - 1 \in LengthCounts)
<1>1. ASSUME NEW i \in DOMAIN LengthTable
      PROVE  LengthTable[i] \in Nat /\ LengthTable[i] > 0
  <2>1. LengthTable[i] \in Nat \ {0}
    BY ChannelsAssumption
  <2> QED BY <2>1
<1>2. 0 \in LengthCounts
  <2>1. PICK i \in DOMAIN LengthTable : TRUE
    BY ChannelsAssumption
  <2> QED BY <1>1, <2>1 DEF LengthCounts
<1>3. ASSUME NEW i \in DOMAIN LengthTable
      PROVE  LengthTable[i] \in LengthCounts /\ LengthTable[i] + 1 \in LengthCounts
  <2>1. /\ LengthTable[i] \in Nat /\ LengthTable[i] <= LengthTable[i] + 1
        /\ LengthTable[i] + 1 \in Nat /\ LengthTable[i] + 1 <= LengthTable[i] + 1
    BY <1>1
  <2> QED BY <2>1 DEF LengthCounts
<1>4. ASSUME NEW n \in LengthCounts PROVE n \in Nat /\ (n > 0 => n - 1 \in LengthCounts)
  <2>1. n \in Nat
    BY DEF LengthCounts
  <2>2. PICK i \in DOMAIN LengthTable : n <= LengthTable[i] + 1
    BY DEF LengthCounts
  <2>3. ASSUME n > 0 PROVE n - 1 \in Nat /\ n - 1 <= LengthTable[i] + 1
    BY <1>1, <2>1, <2>2, <2>3
  <2> QED BY <2>1, <2>3 DEF LengthCounts
<1> QED BY <1>1, <1>2, <1>3, <1>4

\* Replacing the low or the high part of a period leaves a period.
LEMMA LowPart ==
  ASSUME NEW t \in Periods, NEW low \in 0..LowPeriods - 1
  PROVE  t - (t % LowPeriods) + low \in Periods
<1> DEFINE L == LowPeriods
<1>1. L \in Nat /\ L > 0
  BY Numbers
<1>2. t \in 0..8 * L - 1
  BY DEF Periods, MaxPeriod
<1>3. ASSUME NEW l \in Nat, l > 0, NEW s \in 0..8 * l - 1, NEW k \in 0..l - 1
      PROVE  s - (s % l) + k \in 0..8 * l - 1
  BY <1>3, SMT
<1> QED BY <1>1, <1>2, <1>3 DEF Periods, MaxPeriod

\* A write of the high part of a period ($4003, $400B) gives a period.
LEMMA HighPart ==
  ASSUME NEW t \in Periods, NEW high \in 0..7
  PROVE  (t % LowPeriods) + high * LowPeriods \in Periods
<1> DEFINE L == LowPeriods
<1>1. L \in Nat /\ L > 0
  BY Numbers
<1>2. t \in Nat
  BY Numbers
<1>3. ASSUME NEW l \in Nat, l > 0, NEW s \in Nat, NEW h \in 0..7
      PROVE  (s % l) + h * l \in 0..8 * l - 1
  BY <1>3, SMT
<1> QED BY <1>1, <1>2, <1>3 DEF Periods, MaxPeriod

\* The shift of a sweep that bends at least halves.
LEMMA Halves ==
  ASSUME NEW t \in Nat, NEW s \in Eighths
  PROVE  /\ t \div 2^s \in Nat
         /\ s # 0 /\ t > 0 => t \div 2^s < t
<1>1. s \in {0, 1, 2, 3, 4, 5, 6, 7}
  BY DEF Eighths
<1>2. 2^0 = 1 /\ 2^1 = 2 /\ 2^2 = 4 /\ 2^3 = 8 /\ 2^4 = 16 /\ 2^5 = 32 /\ 2^6 = 64 /\ 2^7 = 128
  OBVIOUS
<1>3. PICK k \in Nat : 2^s = k /\ k > 0 /\ (s # 0 => k >= 2)
  <2>0. CASE s = 0
    BY <2>0, <1>2
  <2>1. CASE s = 1
    BY <2>1, <1>2
  <2>2. CASE s = 2
    BY <2>2, <1>2
  <2>3. CASE s = 3
    BY <2>3, <1>2
  <2>4. CASE s = 4
    BY <2>4, <1>2
  <2>5. CASE s = 5
    BY <2>5, <1>2
  <2>6. CASE s = 6
    BY <2>6, <1>2
  <2>7. CASE s = 7
    BY <2>7, <1>2
  <2> QED BY <1>1, <2>0, <2>1, <2>2, <2>3, <2>4, <2>5, <2>6, <2>7
<1>4. t \div k \in Nat /\ (k >= 2 /\ t > 0 => t \div k < t)
  BY <1>3
<1> QED BY <1>3, <1>4

-----------------------------------------------------------------------------
(***************************************************************************)
(* Length counters of the three channels.                                  *)
(***************************************************************************)
\* A counter of a pulse is set, and nothing else changes.
LEMMA PulseCounted ==
  ASSUME NEW u \in PulseType, NEW c \in LengthCounts, NEW e \in Flags
  PROVE  LET v == [u EXCEPT !.lenctr_en = e, !.len_cnt = c] IN
         /\ v \in PulseType /\ v.len_cnt = c /\ v.lenctr_en = e
         /\ SamePeriod(u, v) /\ SameLevel(u, v) /\ v.env_loop = u.env_loop
<1> DEFINE v == [u EXCEPT !.lenctr_en = e, !.len_cnt = c]
<1>1. v \in PulseType
  BY DEF PulseType
<1>2. v.len_cnt = c /\ v.lenctr_en = e
  BY DEF PulseType
<1>3. SamePeriod(u, v) /\ SameLevel(u, v) /\ v.env_loop = u.env_loop
  BY DEF PulseType, SamePeriod, SameLevel
<1> HIDE DEF v
<1> QED BY <1>1, <1>2, <1>3 DEF v

\* set_lenctr_en on a pulse: a channel switched off has no length.
LEMMA PulseSwitched ==
  ASSUME NEW u \in PulseType, NEW value \in Flags
  PROVE  LET v == set_lenctr_en(u, value) IN
         /\ v \in PulseType /\ v.lenctr_en = value /\ Off(v)
         /\ v.len_cnt = IF value = 0 THEN 0 ELSE u.len_cnt
         /\ SamePeriod(u, v) /\ SameLevel(u, v) /\ v.env_loop = u.env_loop
<1> DEFINE c == IF value = 0 THEN 0 ELSE u.len_cnt
           v == [u EXCEPT !.lenctr_en = value, !.len_cnt = c]
<1>1. c \in LengthCounts
  BY Lengths DEF PulseType
<1>2. set_lenctr_en(u, value) = v
  BY DEF set_lenctr_en, PulseType
<1>3. value = 0 => c = 0
  OBVIOUS
<1>4. c = IF value = 0 THEN 0 ELSE u.len_cnt
  OBVIOUS
<1> HIDE DEF c
<1>5. /\ v \in PulseType /\ v.len_cnt = c /\ v.lenctr_en = value
      /\ SamePeriod(u, v) /\ SameLevel(u, v) /\ v.env_loop = u.env_loop
  BY <1>1, PulseCounted
<1> HIDE DEF v
<1> QED BY <1>2, <1>3, <1>4, <1>5 DEF Off

\* What a load leaves in a counter, before the enable flag has its say.
Loaded(u, index, clock) ==
  IF ~Foreseen(clock) THEN LengthTable[index]
  ELSE IF u.len_cnt = 0 THEN LengthTable[index] + 1 ELSE u.len_cnt

\* A write of $4003 to a pulse loads its length, unless the pulse is off.
LEMMA PulseLoaded ==
  ASSUME NEW u \in PulseType, NEW index \in DOMAIN LengthTable, NEW clock
  PROVE  LET v == LoadLength(u, index, clock) IN
         /\ v \in PulseType /\ v.lenctr_en = u.lenctr_en /\ Off(v)
         /\ v.len_cnt = IF u.lenctr_en = 0 THEN 0 ELSE Loaded(u, index, clock)
         /\ SamePeriod(u, v) /\ SameLevel(u, v) /\ v.env_loop = u.env_loop
<1> DEFINE c == Loaded(u, index, clock)
           e == u.lenctr_en
           w == [u EXCEPT !.len_cnt = c]
           v == set_lenctr_en(w, e)
<1>1. c \in LengthCounts /\ e \in Flags
  BY Lengths DEF PulseType, Loaded
<1>2. LoadLength(u, index, clock) = v
  BY DEF LoadLength, Loaded
<1>3. c = Loaded(u, index, clock) /\ e = u.lenctr_en
  OBVIOUS
<1> HIDE DEF c, e
<1>4. w \in PulseType /\ w.len_cnt = c
  BY <1>1 DEF PulseType
<1>5. SamePeriod(u, w) /\ SameLevel(u, w) /\ w.env_loop = u.env_loop
  BY DEF PulseType, SamePeriod, SameLevel
<1> HIDE DEF w
<1>6. /\ v \in PulseType /\ v.lenctr_en = e /\ Off(v)
      /\ v.len_cnt = IF e = 0 THEN 0 ELSE w.len_cnt
      /\ SamePeriod(w, v) /\ SameLevel(w, v) /\ v.env_loop = w.env_loop
  BY <1>1, <1>4, PulseSwitched
<1> HIDE DEF v
<1> QED BY <1>2, <1>3, <1>4, <1>5, <1>6 DEF SamePeriod, SameLevel

\* The clock of a length counter.
LEMMA PulseClocked ==
  ASSUME NEW u \in PulseType, NEW halted \in BOOLEAN
  PROVE  LET v == ClockLength(u, halted) IN
         /\ v \in PulseType /\ v.lenctr_en = u.lenctr_en /\ (Off(u) => Off(v))
         /\ v.len_cnt = IF u.len_cnt > 0 /\ ~halted THEN u.len_cnt - 1 ELSE u.len_cnt
         /\ SamePeriod(u, v) /\ SameLevel(u, v)
<1> DEFINE c == IF u.len_cnt > 0 /\ ~halted THEN u.len_cnt - 1 ELSE u.len_cnt
           v == [u EXCEPT !.len_cnt = c]
<1>1. c \in LengthCounts /\ (u.len_cnt = 0 => c = 0)
  BY Lengths DEF PulseType
<1>2. ClockLength(u, halted) = v
  BY DEF ClockLength, PulseType
<1>3. c = IF u.len_cnt > 0 /\ ~halted THEN u.len_cnt - 1 ELSE u.len_cnt
  OBVIOUS
<1> HIDE DEF c
<1>4. v \in PulseType /\ v.len_cnt = c /\ v.lenctr_en = u.lenctr_en
  BY <1>1 DEF PulseType
<1>5. SamePeriod(u, v) /\ SameLevel(u, v)
  BY DEF PulseType, SamePeriod, SameLevel
<1> HIDE DEF v
<1> QED BY <1>1, <1>2, <1>3, <1>4, <1>5 DEF Off

-----------------------------------------------------------------------------
(***************************************************************************)
(* The pulse.                                                              *)
(***************************************************************************)
\* What neither the envelope nor the sweep touches.
Apart(u, v) == SameCounter(u, v) /\ SameLevel(u, v) /\ v.env_loop = u.env_loop

\* clock_env of a pulse keeps its types and leaves length and period alone.
LEMMA PulseEnvelopeKeeps ==
  ASSUME NEW u \in PulseType
  PROVE  LET v == PulseEnvelope(u) IN
         v \in PulseType /\ Apart(u, v) /\ SamePeriod(u, v)
<1> DEFINE start == IF u.env_start_flag = 1 THEN 0 ELSE u.env_start_flag
           divider == IF u.env_start_flag = 1 THEN u.env_cnt_value
                      ELSE IF u.env_divider # 0 THEN u.env_divider - 1 ELSE u.env_cnt_value
           counter == IF u.env_start_flag = 1 THEN VolumeTop
                      ELSE IF u.env_divider # 0 THEN u.env_counter
                      ELSE IF u.env_counter > 0 THEN u.env_counter - 1
                      ELSE IF u.env_loop = 1 THEN VolumeTop ELSE 0
           P(v) == v \in PulseType /\ Apart(u, v) /\ SamePeriod(u, v)
<1>1. /\ u.env_cnt_value \in Volumes /\ u.env_counter \in Volumes /\ u.env_divider \in Nat
      /\ u.env_start_flag \in Flags
  BY DEF PulseType
<1>2. start \in Flags /\ divider \in Nat /\ counter \in Volumes
  BY <1>1, Numbers, Fades
<1>3. ASSUME NEW s \in Flags, NEW d \in Nat, NEW c \in Volumes
      PROVE  /\ P([u EXCEPT !.env_start_flag = s, !.env_divider = d, !.env_counter = c])
             /\ P([u EXCEPT !.env_divider = d])
             /\ P([u EXCEPT !.env_divider = d, !.env_counter = c])
  <2> DEFINE v1 == [u EXCEPT !.env_start_flag = s, !.env_divider = d, !.env_counter = c]
             v2 == [u EXCEPT !.env_divider = d]
             v3 == [u EXCEPT !.env_divider = d, !.env_counter = c]
  <2>1. v1 \in PulseType
    BY DEF PulseType
  <2>2. v2 \in PulseType
    BY DEF PulseType
  <2>3. v3 \in PulseType
    BY DEF PulseType
  <2>4. Apart(u, v1) /\ SamePeriod(u, v1)
    BY DEF PulseType, Apart, SameCounter, SameLevel, SamePeriod
  <2>5. Apart(u, v2) /\ SamePeriod(u, v2)
    BY DEF PulseType, Apart, SameCounter, SameLevel, SamePeriod
  <2>6. Apart(u, v3) /\ SamePeriod(u, v3)
    BY DEF PulseType, Apart, SameCounter, SameLevel, SamePeriod
  <2> HIDE DEF v1, v2, v3
  <2>7. P(v1) /\ P(v2) /\ P(v3)
    BY <2>1, <2>2, <2>3, <2>4, <2>5, <2>6
  <2> QED BY <2>7 DEF v1, v2, v3
<1>4. \/ PulseEnvelope(u) = [u EXCEPT !.env_start_flag = start, !.env_divider = divider,
                                      !.env_counter = counter]
      \/ PulseEnvelope(u) = [u EXCEPT !.env_divider = divider]
      \/ PulseEnvelope(u) = [u EXCEPT !.env_divider = divider, !.env_counter = counter]
  <2>1. CASE u.env_start_flag = 1
    BY <2>1 DEF PulseEnvelope, StartEnvelope
  <2>2. CASE u.env_start_flag # 1 /\ u.env_divider # 0
    BY <2>2 DEF PulseEnvelope
  <2>3. CASE u.env_start_flag # 1 /\ u.env_divider = 0
    BY <2>3 DEF PulseEnvelope, StepEnvelope
  <2> QED BY <2>1, <2>2, <2>3
<1> HIDE DEF start, divider, counter, P
<1>5. P(PulseEnvelope(u))
  BY <1>2, <1>3, <1>4
<1> QED BY <1>5 DEF P

\* A pulse given a period is in step with it.
LEMMA PeriodSet ==
  ASSUME NEW u \in PulseType, NEW period \in Periods
  PROVE  LET v == SetPeriod(u, period) IN
         v \in PulseType /\ Apart(u, v) /\ InStep(v)
<1> DEFINE raw == 2 * period + 2
           v == [u EXCEPT !.timer_reload_value = period, !.timer_raw_reload_value = raw]
<1>1. raw \in Nat /\ raw = 2 * period + 2
  BY Numbers
<1>2. SetPeriod(u, period) = v
  BY DEF SetPeriod
<1> HIDE DEF raw
<1>3. v \in PulseType
  BY <1>1 DEF PulseType
<1>4. v.timer_reload_value = period /\ v.timer_raw_reload_value = raw
  BY DEF PulseType
<1>5. Apart(u, v)
  BY DEF PulseType, Apart, SameCounter, SameLevel
<1> HIDE DEF v
<1> QED BY <1>1, <1>2, <1>3, <1>4, <1>5 DEF InStep

\* Where the sweep does not silence the pulse, its target is a period.
LEMMA TargetInRange ==
  ASSUME program \in Programs, NEW u \in PulseType,
         u.sweep_shiftcount # 0, ~Silences(u)
  PROVE  SweepTarget(u) \in Periods
<1> DEFINE t == u.timer_reload_value
           change == t \div 2^u.sweep_shiftcount
<1>1. t \in Nat /\ t <= MaxPeriod /\ u.sweep_shiftcount \in Eighths
  BY Numbers DEF PulseType
<1>2. program.unit = 0 \/ program.unit = 1
  BY ProgramsAssumption
<1>3. t >= MinPeriod /\ SweepTarget(u) <= MaxPeriod
  <2>1. ~(t < MinPeriod) /\ ~(SweepTarget(u) > MaxPeriod)
    BY DEF Silences
  <2>2. change \in Nat
    BY <1>1, Halves
  <2>3. SweepTarget(u) \in Int
    <3> HIDE DEF t, change
    <3>1. SweepTarget(u) = t + IF u.sweep_negate = 1 THEN -change - program.unit ELSE change
      BY DEF SweepTarget, t, change
    <3> QED BY <3>1, <1>1, <1>2, <2>2
  <2> HIDE DEF t
  <2> QED BY <2>1, <2>3, <1>1, Numbers
<1>4. change \in Nat /\ change < t
  BY <1>1, <1>3, Halves, Numbers
<1>5. SweepTarget(u) = t + IF u.sweep_negate = 1 THEN -change - program.unit ELSE change
  BY DEF SweepTarget
<1> HIDE DEF t, change
<1>6. SweepTarget(u) \in Nat
  BY <1>1, <1>2, <1>4, <1>5
<1> QED BY <1>3, <1>6, Numbers DEF Periods

\* A sweep that is not silenced sets a period and its reload value together.
LEMMA BendKeeps ==
  ASSUME program \in Programs, NEW u \in PulseType, InStep(u),
         u.swp_silence <=> Silences(u)
  PROVE  LET v == Bend(u) IN v \in PulseType /\ Apart(u, v) /\ InStep(v)
<1>1. CASE u.sweep_shiftcount # 0 /\ ~u.swp_silence
  <2>1. SweepTarget(u) \in Periods
    BY <1>1, TargetInRange
  <2>2. Bend(u) = SetPeriod(u, SweepTarget(u))
    BY <1>1 DEF Bend
  <2> QED BY <2>1, <2>2, PeriodSet
<1>2. CASE ~(u.sweep_shiftcount # 0 /\ ~u.swp_silence)
  <2>1. Bend(u) = u
    BY <1>2 DEF Bend
  <2> QED BY <2>1 DEF Apart, SameCounter, SameLevel
<1> QED BY <1>1, <1>2

\* So does the whole clock of the sweep unit.
LEMMA SweepKeeps ==
  ASSUME program \in Programs, NEW u \in PulseType, InStep(u)
  PROVE  LET v == ClockSweep(u) IN v \in PulseType /\ Apart(u, v) /\ InStep(v)
<1> DEFINE silent == Silences(u)
           q == [u EXCEPT !.swp_silence = silent]
           left == IF u.swp_divider_counter > 0 THEN u.swp_divider_counter - 1 ELSE 0
           full == u.sweep_divider_cnt + 1
           b == IF left = 0 THEN Bend(q) ELSE q
           count == IF left = 0 \/ u.sweep_reload THEN full ELSE left
           no == FALSE
           v == [b EXCEPT !.swp_divider_counter = count, !.sweep_reload = no]
<1>1. silent \in BOOLEAN
  BY DEF Silences
<1>2. /\ ClockSweep(u) = IF u.sweep_en = 0 THEN q ELSE v
      /\ silent <=> Silences(u)
      /\ b = Bend(q) \/ b = q
      /\ no \in BOOLEAN
  BY DEF ClockSweep
<1>3. u.swp_divider_counter \in Nat /\ u.sweep_divider_cnt \in Eighths
  BY DEF PulseType
<1>4. count \in Nat
  BY <1>3, Numbers
<1> HIDE DEF silent, count, b, no
<1>5. q \in PulseType /\ (q.swp_silence <=> silent)
  BY <1>1 DEF PulseType
<1>6. Apart(u, q) /\ SamePeriod(u, q)
  BY DEF PulseType, Apart, SameCounter, SameLevel, SamePeriod
<1>7. /\ q.sweep_shiftcount = u.sweep_shiftcount /\ q.sweep_negate = u.sweep_negate
  BY DEF PulseType
<1> HIDE DEF q
<1>8. Silences(q) <=> Silences(u)
  <2>1. SweepTarget(q) = SweepTarget(u)
    BY <1>6, <1>7 DEF SweepTarget, SamePeriod
  <2> QED BY <1>6, <2>1 DEF Silences, SamePeriod
<1>9. InStep(q)
  BY <1>6 DEF InStep, SamePeriod
<1>10. b \in PulseType /\ Apart(q, b) /\ InStep(b)
  <2>1. CASE b = q
    BY <2>1, <1>5, <1>9 DEF Apart, SameCounter, SameLevel
  <2>2. CASE b = Bend(q)
    BY <2>2, <1>2, <1>5, <1>8, <1>9, BendKeeps
  <2> QED BY <1>2, <2>1, <2>2
<1>11. v \in PulseType
  BY <1>2, <1>4, <1>10 DEF PulseType
<1>12. Apart(b, v) /\ SamePeriod(b, v)
  BY <1>10 DEF PulseType, Apart, SameCounter, SameLevel, SamePeriod
<1> HIDE DEF v
<1>13. InStep(v)
  BY <1>10, <1>12 DEF InStep, SamePeriod
<1>14. Apart(u, v)
  BY <1>6, <1>10, <1>12 DEF Apart, SameCounter, SameLevel
<1> QED BY <1>2, <1>5, <1>6, <1>9, <1>11, <1>13, <1>14

\* What a clock makes of a length counter.
Clocked(u, clock, halted) ==
  IF Half(clock) /\ u.len_cnt > 0 /\ ~halted THEN u.len_cnt - 1 ELSE u.len_cnt

\* What the sequencer's clocks do to a pulse: the period stays in step, and a length
\* clock takes one off the length unless the counter is halted.
LEMMA ClockPulseKeeps ==
  ASSUME program \in Programs, NEW u \in PulseType, InStep(u), Off(u), NEW clock
  PROVE  LET v == ClockPulse(u, clock) IN
         /\ v \in PulseType /\ InStep(v) /\ Off(v) /\ SameLevel(u, v)
         /\ v.len_cnt = Clocked(u, clock, u.env_loop = 1)
<1> DEFINE q == IF Quarter(clock) THEN PulseEnvelope(u) ELSE u
           s == ClockSweep(q)
           halted == q.env_loop = 1
           v == ClockLength(s, halted)
<1>1. q \in PulseType /\ Apart(u, q) /\ SamePeriod(u, q)
  <2>1. Apart(u, u) /\ SamePeriod(u, u)
    BY DEF Apart, SameCounter, SameLevel, SamePeriod
  <2> QED BY <2>1, PulseEnvelopeKeeps
<1>2. ClockPulse(u, clock) = IF Half(clock) THEN v ELSE q
  BY DEF ClockPulse
<1>3. halted \in BOOLEAN /\ (halted <=> q.env_loop = 1)
  OBVIOUS
<1> HIDE DEF q, halted
<1>4. InStep(q)
  BY <1>1 DEF InStep, SamePeriod
<1>5. s \in PulseType /\ Apart(q, s) /\ InStep(s)
  BY <1>1, <1>4, SweepKeeps
<1> HIDE DEF s
<1>6. Off(q) /\ Off(s)
  BY <1>1, <1>5 DEF Off, Apart, SameCounter
<1>7. /\ v \in PulseType /\ v.lenctr_en = s.lenctr_en /\ (Off(s) => Off(v))
      /\ v.len_cnt = IF s.len_cnt > 0 /\ ~halted THEN s.len_cnt - 1 ELSE s.len_cnt
      /\ SamePeriod(s, v) /\ SameLevel(s, v)
  BY <1>3, <1>5, PulseClocked
<1> HIDE DEF v
<1>8. InStep(v)
  BY <1>5, <1>7 DEF InStep, SamePeriod
<1>9. halted <=> u.env_loop = 1
  BY <1>1, <1>3 DEF Apart
<1>10. CASE Half(clock)
  <2>1. v.len_cnt = Clocked(u, clock, u.env_loop = 1)
    BY <1>1, <1>5, <1>7, <1>9, <1>10 DEF Clocked, Apart, SameCounter
  <2>2. SameLevel(u, v)
    BY <1>1, <1>5, <1>7 DEF Apart, SameLevel
  <2> QED BY <1>2, <1>6, <1>7, <1>8, <1>10, <2>1, <2>2
<1>11. CASE ~Half(clock)
  <2>1. q.len_cnt = Clocked(u, clock, u.env_loop = 1)
    BY <1>1, <1>11 DEF Clocked, Apart, SameCounter
  <2>2. SameLevel(u, q)
    BY <1>1 DEF Apart
  <2> QED BY <1>1, <1>2, <1>4, <1>6, <1>11, <2>1, <2>2
<1> QED BY <1>10, <1>11

\* Off looks at the counter only, and InStep at the period.
LEMMA Unmoved ==
  ASSUME NEW u, NEW v
  PROVE  /\ SameCounter(u, v) /\ Off(u) => Off(v)
         /\ SamePeriod(u, v) /\ InStep(u) => InStep(v)
BY DEF SameCounter, Off, SamePeriod, InStep

\* $4003 loads the counter and the high part of the period.
LEMMA PulseLengthWritten ==
  ASSUME NEW u \in PulseType, NEW v, Sent("4003", v), NEW clock
  PROVE  LET x == WritePulse(u, "4003", v, clock) IN
         /\ x \in PulseType /\ InStep(x) /\ Off(x) /\ SameLevel(u, x)
         /\ x.lenctr_en = u.lenctr_en /\ x.env_loop = u.env_loop
         /\ x.len_cnt = IF u.lenctr_en = 0 THEN 0 ELSE Loaded(u, v.length, clock)
<1> DEFINE period == (u.timer_reload_value % LowPeriods) + v.high * LowPeriods
           s == SetPeriod(u, period)
           l == LoadLength(s, v.length, clock)
           zero == 0
           one == 1
           x == [l EXCEPT !.duty_step = zero, !.env_start_flag = one]
<1>1. v.high \in 0..7 /\ v.length \in DOMAIN LengthTable
  BY DEF Sent
<1>2. WritePulse(u, "4003", v, clock) = x
  BY DEF WritePulse
<1>3. period \in Periods
  BY <1>1, HighPart DEF PulseType
<1>4. zero \in Eighths /\ one \in Flags
  BY Numbers
<1> HIDE DEF period, zero, one
<1>5. s \in PulseType /\ Apart(u, s) /\ InStep(s)
  BY <1>3, PeriodSet
<1> HIDE DEF s
<1>6. /\ l \in PulseType /\ l.lenctr_en = s.lenctr_en /\ Off(l)
      /\ l.len_cnt = IF s.lenctr_en = 0 THEN 0 ELSE Loaded(s, v.length, clock)
      /\ SamePeriod(s, l) /\ SameLevel(s, l) /\ l.env_loop = s.env_loop
  BY <1>1, <1>5, PulseLoaded
<1> HIDE DEF l
<1>7. x \in PulseType
  BY <1>4, <1>6 DEF PulseType
<1>8. Apart(l, x) /\ SamePeriod(l, x)
  BY <1>6 DEF PulseType, Apart, SameCounter, SameLevel, SamePeriod
<1> HIDE DEF x
<1>9. Off(x) /\ InStep(x)
  BY <1>5, <1>6, <1>8, Unmoved DEF Apart
<1>10. Loaded(s, v.length, clock) = Loaded(u, v.length, clock)
  BY <1>5 DEF Apart, SameCounter, Loaded
<1>11. /\ SameLevel(u, x) /\ x.lenctr_en = u.lenctr_en /\ x.env_loop = u.env_loop
       /\ x.len_cnt = IF u.lenctr_en = 0 THEN 0 ELSE Loaded(u, v.length, clock)
  BY <1>5, <1>6, <1>8, <1>10 DEF Apart, SameCounter, SameLevel
<1> QED BY <1>2, <1>7, <1>9, <1>11

\* Each of the pulse's four registers keeps its types and the period in step.
LEMMA WritePulseKeeps ==
  ASSUME NEW u \in PulseType, InStep(u), Off(u), NEW reg, NEW v, Sent(reg, v), NEW clock
  PROVE  LET x == WritePulse(u, reg, v, clock) IN
         x \in PulseType /\ InStep(x) /\ Off(x) /\ SameLevel(u, x)
<1> DEFINE x == WritePulse(u, reg, v, clock)
           Q == x \in PulseType /\ InStep(x) /\ Off(x) /\ SameLevel(u, x)
<1>1. ASSUME reg = "4000" PROVE Q
  <2> DEFINE a == v.volume
             b == v.constant
             c == v.loop
             d == v.duty
             y == [u EXCEPT !.env_cnt_value = a, !.env_constant = b, !.env_loop = c,
                            !.duty_cnt = d]
  <2>1. a \in Volumes /\ b \in Flags /\ c \in Flags /\ d \in Duties
    BY <1>1 DEF Sent, Volumes, Flags, Duties
  <2>2. x = y
    BY <1>1 DEF WritePulse
  <2> HIDE DEF a, b, c, d, x
  <2>3. y \in PulseType
    BY <2>1 DEF PulseType
  <2>4. SameCounter(u, y) /\ SamePeriod(u, y) /\ SameLevel(u, y)
    BY DEF PulseType, SameCounter, SamePeriod, SameLevel
  <2> HIDE DEF y
  <2> QED BY <2>2, <2>3, <2>4, Unmoved
<1>2. ASSUME reg = "4001" PROVE Q
  <2> DEFINE a == v.shift
             b == v.negate
             c == v.divider
             d == v.enable
             yes == TRUE
             y1 == [u EXCEPT !.sweep_shiftcount = a, !.sweep_negate = b,
                             !.sweep_divider_cnt = c]
             y == [y1 EXCEPT !.sweep_en = d, !.sweep_reload = yes]
  <2>1. a \in Eighths /\ b \in Flags /\ c \in Eighths /\ d \in Flags /\ yes \in BOOLEAN
    BY <1>2 DEF Sent, Eighths, Flags
  <2>2. x = y
    BY <1>2 DEF WritePulse
  <2> HIDE DEF a, b, c, d, x, yes
  <2>3. y1 \in PulseType
    BY <2>1 DEF PulseType
  <2>4. SameCounter(u, y1) /\ SamePeriod(u, y1) /\ SameLevel(u, y1)
    BY DEF PulseType, SameCounter, SamePeriod, SameLevel
  <2> HIDE DEF y1
  <2>5. y \in PulseType
    BY <2>1, <2>3 DEF PulseType
  <2>6. SameCounter(y1, y) /\ SamePeriod(y1, y) /\ SameLevel(y1, y)
    BY <2>3 DEF PulseType, SameCounter, SamePeriod, SameLevel
  <2> HIDE DEF y
  <2>7. SameLevel(u, y)
    BY <2>4, <2>6 DEF SameLevel
  <2> QED BY <2>2, <2>4, <2>5, <2>6, <2>7, Unmoved
<1>3. ASSUME reg = "4002" PROVE Q
  <2>1. v.low \in 0..LowPeriods - 1
    BY <1>3 DEF Sent
  <2>2. u.timer_reload_value \in Periods
    BY DEF PulseType
  <2> DEFINE period == u.timer_reload_value - (u.timer_reload_value % LowPeriods) + v.low
  <2>3. period \in Periods
    BY <2>1, <2>2, LowPart
  <2>4. x = SetPeriod(u, period)
    BY <1>3 DEF WritePulse
  <2> HIDE DEF period, x
  <2>5. x \in PulseType /\ Apart(u, x) /\ InStep(x)
    BY <2>3, <2>4, PeriodSet
  <2> QED BY <2>5, Unmoved DEF Apart
<1>4. ASSUME reg = "4003" PROVE Q
  BY <1>4, PulseLengthWritten
<1>5. ASSUME reg \notin {"4000", "4001", "4002", "4003"} PROVE Q
  <2>1. x = u
    BY <1>5 DEF WritePulse
  <2> HIDE DEF x
  <2> QED BY <2>1 DEF SameLevel
<1> HIDE DEF Q
<1>6. Q
  BY <1>1, <1>2, <1>3, <1>4, <1>5
<1> QED BY <1>6 DEF Q

\* The new sample of a pulse, and the request that goes with it.
LEMMA PulseSounds ==
  ASSUME NEW u \in PulseType, NEW level \in Volumes
  PROVE  LET v == Sounds(u, level) IN
         /\ v \in PulseType /\ SameCounter(u, v) /\ SamePeriod(u, v)
         /\ Asks(u, v)
<1> DEFINE yes == TRUE
           w == [u EXCEPT !.sample = level, !.recalculate = yes]
<1>1. Sounds(u, level) = IF level = u.sample THEN u ELSE w
  BY DEF Sounds
<1>2. yes \in BOOLEAN /\ yes
  OBVIOUS
<1> HIDE DEF yes
<1>3. w \in PulseType
  BY <1>2 DEF PulseType
<1>4. w.recalculate = yes
  BY DEF PulseType
<1>5. SameCounter(u, w) /\ SamePeriod(u, w)
  BY DEF PulseType, SameCounter, SamePeriod
<1> HIDE DEF w
<1>6. w.recalculate
  BY <1>2, <1>4
<1> QED BY <1>1, <1>3, <1>5, <1>6 DEF Asks, SameCounter, SamePeriod

\* A pulse runs: its level is a volume, it counts nothing, and no change of its sample
\* goes without a new mix.
LEMMA RunPulseKeeps ==
  ASSUME NEW u \in PulseType
  PROVE  LET v == RunPulse(u) IN
         v \in PulseType /\ SameCounter(u, v) /\ SamePeriod(u, v) /\ Asks(u, v)
<1> DEFINE left == IF u.timer_counter > 0 THEN u.timer_counter - 1 ELSE 0
           steps == left = 0 /\ u.timer_raw_reload_value # 0
           next == IF steps THEN (u.duty_step + 1) % 8 ELSE u.duty_step
           high == IF steps THEN next \in Duty[u.duty_cnt] ELSE u.duty_value
           count == IF steps THEN u.timer_raw_reload_value ELSE left
           level == IF high /\ ~u.swp_silence /\ u.len_cnt > 0 THEN Volume(u) ELSE 0
           w == [u EXCEPT !.timer_counter = count, !.duty_step = next, !.duty_value = high]
           v == Sounds(w, level)
<1>1. /\ u.timer_counter \in Nat /\ u.timer_raw_reload_value \in Nat
      /\ u.duty_step \in Eighths /\ u.duty_value \in BOOLEAN
      /\ u.env_cnt_value \in Volumes /\ u.env_counter \in Volumes
  BY DEF PulseType
<1>2. left \in Nat
  BY <1>1
<1>3. RunPulse(u) = v
  BY DEF RunPulse
<1>4. level \in Volumes
  BY <1>1, Numbers DEF Volume
<1>5. next \in Eighths
  BY <1>1, Numbers
<1>6. high \in BOOLEAN
  <2> HIDE DEF steps, next
  <2> DEFINE in == next \in Duty[u.duty_cnt]
             was == u.duty_value
  <2>1. in \in BOOLEAN /\ was \in BOOLEAN
    BY <1>1
  <2>2. high = IF steps THEN in ELSE was
    OBVIOUS
  <2> HIDE DEF in, was, high
  <2>3. CASE steps
    BY <2>1, <2>2, <2>3, Zenon
  <2>4. CASE ~steps
    BY <2>1, <2>2, <2>4, Zenon
  <2> QED BY <2>3, <2>4
<1>7. count \in Nat
  BY <1>1, <1>2
<1> HIDE DEF left, steps, next, high, count, level
<1>8. w \in PulseType
  BY <1>5, <1>6, <1>7 DEF PulseType
<1>9. SameCounter(u, w) /\ SamePeriod(u, w) /\ SameLevel(u, w)
  BY DEF PulseType, SameCounter, SamePeriod, SameLevel
<1> HIDE DEF w
<1>10. v \in PulseType /\ SameCounter(w, v) /\ SamePeriod(w, v) /\ Asks(w, v)
  BY <1>4, <1>8, PulseSounds
<1> HIDE DEF v
<1>11. Asks(u, v)
  BY <1>9, <1>10 DEF Asks, SameLevel
<1> QED BY <1>3, <1>9, <1>10, <1>11 DEF SameCounter, SamePeriod

-----------------------------------------------------------------------------
(***************************************************************************)
(* The noise.                                                              *)
(***************************************************************************)
\* What the envelope does not touch.
NoiseApart(u, v) ==
  SameCounter(u, v) /\ SameLevel(u, v) /\ v.env_loop = u.env_loop /\ v.len_halt = u.len_halt

\* set_lenctr_en on the noise channel.
LEMMA NoiseSwitched ==
  ASSUME NEW u \in NoiseType, NEW value \in Flags
  PROVE  LET v == set_lenctr_en(u, value) IN
         /\ v \in NoiseType /\ v.lenctr_en = value /\ Off(v) /\ SameLevel(u, v)
         /\ v.len_cnt = IF value = 0 THEN 0 ELSE u.len_cnt
         /\ v.env_loop = u.env_loop /\ v.len_halt = u.len_halt
<1> DEFINE c == IF value = 0 THEN 0 ELSE u.len_cnt
           v == [u EXCEPT !.lenctr_en = value, !.len_cnt = c]
<1>1. c \in LengthCounts
  BY Lengths DEF NoiseType
<1>2. set_lenctr_en(u, value) = v
  BY DEF set_lenctr_en, NoiseType
<1>3. value = 0 => c = 0
  OBVIOUS
<1>4. c = IF value = 0 THEN 0 ELSE u.len_cnt
  OBVIOUS
<1> HIDE DEF c
<1>5. v \in NoiseType
  BY <1>1 DEF NoiseType
<1>6. v.len_cnt = c /\ v.lenctr_en = value
  BY DEF NoiseType
<1>7. SameLevel(u, v) /\ v.env_loop = u.env_loop /\ v.len_halt = u.len_halt
  BY DEF NoiseType, SameLevel
<1> HIDE DEF v
<1> QED BY <1>2, <1>3, <1>4, <1>5, <1>6, <1>7 DEF Off

\* A write of $400F loads the noise's length, unless the channel is off.
LEMMA NoiseLoaded ==
  ASSUME NEW u \in NoiseType, NEW index \in DOMAIN LengthTable, NEW clock
  PROVE  LET v == LoadLength(u, index, clock) IN
         /\ v \in NoiseType /\ v.lenctr_en = u.lenctr_en /\ Off(v) /\ SameLevel(u, v)
         /\ v.len_cnt = IF u.lenctr_en = 0 THEN 0 ELSE Loaded(u, index, clock)
         /\ v.env_loop = u.env_loop /\ v.len_halt = u.len_halt
<1> DEFINE c == Loaded(u, index, clock)
           e == u.lenctr_en
           w == [u EXCEPT !.len_cnt = c]
           v == set_lenctr_en(w, e)
<1>1. c \in LengthCounts /\ e \in Flags
  BY Lengths DEF NoiseType, Loaded
<1>2. LoadLength(u, index, clock) = v
  BY DEF LoadLength, Loaded
<1>3. c = Loaded(u, index, clock) /\ e = u.lenctr_en
  OBVIOUS
<1> HIDE DEF c, e
<1>4. w \in NoiseType /\ w.len_cnt = c
  BY <1>1 DEF NoiseType
<1>5. SameLevel(u, w) /\ w.env_loop = u.env_loop /\ w.len_halt = u.len_halt
  BY DEF NoiseType, SameLevel
<1> HIDE DEF w
<1>6. /\ v \in NoiseType /\ v.lenctr_en = e /\ Off(v) /\ SameLevel(w, v)
      /\ v.len_cnt = IF e = 0 THEN 0 ELSE w.len_cnt
      /\ v.env_loop = w.env_loop /\ v.len_halt = w.len_halt
  BY <1>1, <1>4, NoiseSwitched
<1> HIDE DEF v
<1> QED BY <1>2, <1>3, <1>4, <1>5, <1>6 DEF SameLevel

\* A length clock of the noise.
LEMMA NoiseClocked ==
  ASSUME NEW u \in NoiseType, NEW halted \in BOOLEAN
  PROVE  LET v == ClockLength(u, halted) IN
         /\ v \in NoiseType /\ v.lenctr_en = u.lenctr_en /\ (Off(u) => Off(v))
         /\ v.len_cnt = IF u.len_cnt > 0 /\ ~halted THEN u.len_cnt - 1 ELSE u.len_cnt
         /\ SameLevel(u, v)
<1> DEFINE c == IF u.len_cnt > 0 /\ ~halted THEN u.len_cnt - 1 ELSE u.len_cnt
           v == [u EXCEPT !.len_cnt = c]
<1>1. c \in LengthCounts /\ (u.len_cnt = 0 => c = 0)
  BY Lengths DEF NoiseType
<1>2. ClockLength(u, halted) = v
  BY DEF ClockLength, NoiseType
<1>3. c = IF u.len_cnt > 0 /\ ~halted THEN u.len_cnt - 1 ELSE u.len_cnt
  OBVIOUS
<1> HIDE DEF c
<1>4. v \in NoiseType /\ v.len_cnt = c /\ v.lenctr_en = u.lenctr_en
  BY <1>1 DEF NoiseType
<1>5. SameLevel(u, v)
  BY DEF NoiseType, SameLevel
<1> HIDE DEF v
<1> QED BY <1>1, <1>2, <1>3, <1>4, <1>5 DEF Off

\* clock_env of the noise, the second copy of the envelope, leaves the length alone.
LEMMA NoiseEnvelopeKeeps ==
  ASSUME NEW u \in NoiseType
  PROVE  LET v == NoiseEnvelope(u) IN v \in NoiseType /\ NoiseApart(u, v)
<1> DEFINE divider == IF u.env_start_flag # 1 /\ u.env_divider > 1 THEN u.env_divider - 1
                      ELSE u.env_cnt_value + 1
           counter == IF u.env_start_flag = 1 THEN VolumeTop
                      ELSE IF u.env_counter > 0 THEN u.env_counter - 1
                      ELSE IF u.env_loop = 1 THEN VolumeTop ELSE 0
           zero == 0
           v1 == [u EXCEPT !.env_start_flag = zero, !.env_divider = divider,
                           !.env_counter = counter]
           v2 == [u EXCEPT !.env_divider = divider]
           v3 == [u EXCEPT !.env_divider = divider, !.env_counter = counter]
<1>1. /\ u.env_cnt_value \in Volumes /\ u.env_counter \in Volumes /\ u.env_divider \in Nat
  BY DEF NoiseType
<1>2. zero \in Flags /\ divider \in Nat /\ counter \in Volumes
  BY <1>1, Numbers, Fades
<1>3. NoiseEnvelope(u) = v1 \/ NoiseEnvelope(u) = v2 \/ NoiseEnvelope(u) = v3
  <2>1. CASE u.env_start_flag = 1
    BY <2>1 DEF NoiseEnvelope, StartEnvelope
  <2>2. CASE u.env_start_flag # 1 /\ u.env_divider > 1
    BY <2>2 DEF NoiseEnvelope
  <2>3. CASE u.env_start_flag # 1 /\ ~(u.env_divider > 1)
    BY <2>3 DEF NoiseEnvelope, StepEnvelope
  <2> QED BY <2>1, <2>2, <2>3
<1> HIDE DEF divider, counter, zero
<1>4. v1 \in NoiseType
  BY <1>2 DEF NoiseType
<1>5. v2 \in NoiseType
  BY <1>2 DEF NoiseType
<1>6. v3 \in NoiseType
  BY <1>2 DEF NoiseType
<1>7. NoiseApart(u, v1)
  BY DEF NoiseType, NoiseApart, SameCounter, SameLevel
<1>8. NoiseApart(u, v2)
  BY DEF NoiseType, NoiseApart, SameCounter, SameLevel
<1>9. NoiseApart(u, v3)
  BY DEF NoiseType, NoiseApart, SameCounter, SameLevel
<1> HIDE DEF v1, v2, v3
<1> QED BY <1>3, <1>4, <1>5, <1>6, <1>7, <1>8, <1>9

\* What the sequencer's clocks do to the noise; its halt is that of the cycle before.
LEMMA ClockNoiseKeeps ==
  ASSUME NEW u \in NoiseType, Off(u), NEW clock
  PROVE  LET v == ClockNoise(u, clock) IN
         /\ v \in NoiseType /\ Off(v) /\ SameLevel(u, v)
         /\ v.len_cnt = Clocked(u, clock, u.env_loop = 1 /\ ~u.len_halt)
<1> DEFINE q == IF Quarter(clock) THEN NoiseEnvelope(u) ELSE u
           halted == q.env_loop = 1 /\ ~q.len_halt
           v == ClockLength(q, halted)
<1>1. q \in NoiseType /\ NoiseApart(u, q)
  <2>1. NoiseApart(u, u)
    BY DEF NoiseApart, SameCounter, SameLevel
  <2> QED BY <2>1, NoiseEnvelopeKeeps
<1>2. ClockNoise(u, clock) = IF Half(clock) THEN v ELSE q
  BY DEF ClockNoise
<1>3. halted \in BOOLEAN /\ (halted <=> q.env_loop = 1 /\ ~q.len_halt)
  OBVIOUS
<1> HIDE DEF q, halted
<1>4. Off(q)
  BY <1>1, Unmoved DEF NoiseApart
<1>5. /\ v \in NoiseType /\ v.lenctr_en = q.lenctr_en /\ (Off(q) => Off(v))
      /\ v.len_cnt = IF q.len_cnt > 0 /\ ~halted THEN q.len_cnt - 1 ELSE q.len_cnt
      /\ SameLevel(q, v)
  BY <1>1, <1>3, NoiseClocked
<1> HIDE DEF v
<1>6. halted <=> u.env_loop = 1 /\ ~u.len_halt
  BY <1>1, <1>3 DEF NoiseApart
<1>7. CASE Half(clock)
  <2>1. v.len_cnt = Clocked(u, clock, u.env_loop = 1 /\ ~u.len_halt)
    BY <1>1, <1>5, <1>6, <1>7 DEF Clocked, NoiseApart, SameCounter
  <2>2. SameLevel(u, v)
    BY <1>1, <1>5 DEF NoiseApart, SameLevel
  <2> QED BY <1>2, <1>4, <1>5, <1>7, <2>1, <2>2
<1>8. CASE ~Half(clock)
  <2>1. q.len_cnt = Clocked(u, clock, u.env_loop = 1 /\ ~u.len_halt)
    BY <1>1, <1>8 DEF Clocked, NoiseApart, SameCounter
  <2>2. SameLevel(u, q)
    BY <1>1 DEF NoiseApart
  <2> QED BY <1>1, <1>2, <1>4, <1>8, <2>1, <2>2
<1> QED BY <1>7, <1>8

\* $400C changes the envelope and, if it halts the counter, says so.
LEMMA NoiseVolumeWritten ==
  ASSUME NEW u \in NoiseType, NEW v, Sent("400C", v), NEW clock
  PROVE  LET x == WriteNoise(u, "400C", v, clock) IN
         /\ x \in NoiseType /\ SameCounter(u, x) /\ SameLevel(u, x)
         /\ x.env_loop = v.loop
         /\ x.len_halt <=> u.len_halt \/ (u.env_loop = 0 /\ v.loop = 1)
<1> DEFINE a == v.volume
           b == v.constant
           c == v.loop
           halt == u.len_halt \/ (u.env_loop = 0 /\ v.loop = 1)
           y == [u EXCEPT !.env_cnt_value = a, !.env_constant = b]
           x == [y EXCEPT !.len_halt = halt, !.env_loop = c]
<1>1. a \in Volumes /\ b \in Flags /\ c \in Flags
  BY DEF Sent, Volumes, Flags
<1>2. WriteNoise(u, "400C", v, clock) = x
  BY DEF WriteNoise, NoiseType
<1>3. halt \in BOOLEAN /\ (halt <=> u.len_halt \/ (u.env_loop = 0 /\ v.loop = 1)) /\ c = v.loop
  OBVIOUS
<1> HIDE DEF a, b, c, halt
<1>4. y \in NoiseType
  BY <1>1 DEF NoiseType
<1>5. SameCounter(u, y) /\ SameLevel(u, y)
  BY DEF NoiseType, SameCounter, SameLevel
<1> HIDE DEF y
<1>6. x \in NoiseType
  BY <1>1, <1>3, <1>4 DEF NoiseType
<1>7. SameCounter(y, x) /\ SameLevel(y, x)
  BY <1>4 DEF NoiseType, SameCounter, SameLevel
<1>8. x.env_loop = c /\ x.len_halt = halt
  BY <1>4 DEF NoiseType
<1> HIDE DEF x
<1> QED BY <1>2, <1>3, <1>5, <1>6, <1>7, <1>8 DEF SameCounter, SameLevel

\* $400F loads the counter and starts the envelope.
LEMMA NoiseLengthWritten ==
  ASSUME NEW u \in NoiseType, NEW v, Sent("400F", v), NEW clock
  PROVE  LET x == WriteNoise(u, "400F", v, clock) IN
         /\ x \in NoiseType /\ Off(x) /\ SameLevel(u, x) /\ x.lenctr_en = u.lenctr_en
         /\ x.env_loop = u.env_loop /\ x.len_halt = u.len_halt
         /\ x.len_cnt = IF u.lenctr_en = 0 THEN 0 ELSE Loaded(u, v.length, clock)
<1> DEFINE l == LoadLength(u, v.length, clock)
           one == 1
           x == [l EXCEPT !.env_start_flag = one]
<1>1. v.length \in DOMAIN LengthTable
  BY DEF Sent
<1>2. WriteNoise(u, "400F", v, clock) = x
  BY DEF WriteNoise
<1>3. one \in Flags
  BY Numbers
<1> HIDE DEF one
<1>4. /\ l \in NoiseType /\ l.lenctr_en = u.lenctr_en /\ Off(l) /\ SameLevel(u, l)
      /\ l.len_cnt = IF u.lenctr_en = 0 THEN 0 ELSE Loaded(u, v.length, clock)
      /\ l.env_loop = u.env_loop /\ l.len_halt = u.len_halt
  BY <1>1, NoiseLoaded
<1> HIDE DEF l
<1>5. x \in NoiseType
  BY <1>3, <1>4 DEF NoiseType
<1>6. NoiseApart(l, x)
  BY <1>4 DEF NoiseType, NoiseApart, SameCounter, SameLevel
<1> HIDE DEF x
<1>7. Off(x)
  BY <1>4, <1>6, Unmoved DEF NoiseApart
<1> QED BY <1>2, <1>4, <1>5, <1>6, <1>7 DEF NoiseApart, SameCounter, SameLevel

\* Each of the noise's registers keeps its types and its level.
LEMMA WriteNoiseKeeps ==
  ASSUME NEW u \in NoiseType, Off(u), NEW reg, NEW v, Sent(reg, v), NEW clock
  PROVE  LET x == WriteNoise(u, reg, v, clock) IN
         x \in NoiseType /\ Off(x) /\ SameLevel(u, x)
<1> DEFINE x == WriteNoise(u, reg, v, clock)
           Q == x \in NoiseType /\ Off(x) /\ SameLevel(u, x)
<1>1. ASSUME reg = "400C" PROVE Q
  BY <1>1, NoiseVolumeWritten, Unmoved
<1>2. ASSUME reg = "400E" PROVE Q
  <2> DEFINE a == v.period
             b == v.mode
             y == [u EXCEPT !.period_cnt = a, !.mode_cnt = b]
  <2>1. a \in Nat /\ b \in Flags
    BY <1>2 DEF Sent, Flags
  <2>2. x = y
    BY <1>2 DEF WriteNoise
  <2> HIDE DEF a, b, x
  <2>3. y \in NoiseType
    BY <2>1 DEF NoiseType
  <2>4. SameCounter(u, y) /\ SameLevel(u, y)
    BY DEF NoiseType, SameCounter, SameLevel
  <2> HIDE DEF y
  <2> QED BY <2>2, <2>3, <2>4, Unmoved
<1>3. ASSUME reg = "400F" PROVE Q
  BY <1>3, NoiseLengthWritten
<1>4. ASSUME reg \notin {"400C", "400E", "400F"} PROVE Q
  <2>1. x = u
    BY <1>4 DEF WriteNoise
  <2> HIDE DEF x
  <2> QED BY <2>1 DEF SameLevel
<1> HIDE DEF Q
<1>5. Q
  BY <1>1, <1>2, <1>3, <1>4
<1> QED BY <1>5 DEF Q

(***************************************************************************)
(* The shift register never locks up: it loses its last 1 only from the    *)
(* end, and then the tap is a 0 and a 1 is fed back.                       *)
(***************************************************************************)
LEMMA NeverLocksUp ==
  ASSUME NEW u \in NoiseType
  PROVE  Shifted(u) \in Registers
<1> DEFINE r == u.shift_register
           tap == IF u.mode_cnt = 1 THEN ShortTap ELSE 1
           top == NoiseBits - 1
           moved == {i - 1 : i \in r \ {0}}
           fed == {i \in {top} : (tap \in r) # (0 \in r)}
<1>1. NoiseBits \in Nat /\ ShortTap \in 2..top
  BY ChannelsAssumption
<1>2. r \subseteq 0..top /\ r # {}
  BY DEF NoiseType, Registers
<1>3. tap # 0
  BY <1>1
<1>4. Shifted(u) = moved \cup fed
  BY DEF Shifted
<1> HIDE DEF r, tap
<1>5. moved \subseteq 0..top
  BY <1>1, <1>2
<1>6. fed \subseteq 0..top
  BY <1>1
<1>7. moved \cup fed # {}
  <2>1. CASE \E i \in r : i # 0
    <3>1. PICK i \in r : i # 0
      BY <2>1
    <3>2. i - 1 \in moved
      BY <3>1
    <3> QED BY <3>2
  <2>2. CASE ~\E i \in r : i # 0
    <3>1. 0 \in r /\ tap \notin r
      BY <1>2, <1>3, <2>2
    <3>2. top \in fed
      BY <3>1
    <3> QED BY <3>2
  <2> QED BY <2>1, <2>2
<1> HIDE DEF moved, fed, top
<1>8. moved \cup fed \in SUBSET (0..top)
  BY <1>5, <1>6
<1> QED BY <1>4, <1>7, <1>8 DEF Registers, top

\* The new sample of a noise, and the request that goes with it.
LEMMA NoiseSounds ==
  ASSUME NEW u \in NoiseType, NEW level \in Volumes
  PROVE  LET v == Sounds(u, level) IN
         /\ v \in NoiseType /\ SameCounter(u, v)
         /\ Asks(u, v)
<1> DEFINE yes == TRUE
           w == [u EXCEPT !.sample = level, !.recalculate = yes]
<1>1. Sounds(u, level) = IF level = u.sample THEN u ELSE w
  BY DEF Sounds
<1>2. yes \in BOOLEAN /\ yes
  OBVIOUS
<1> HIDE DEF yes
<1>3. w \in NoiseType
  BY <1>2 DEF NoiseType
<1>4. w.recalculate = yes
  BY DEF NoiseType
<1>5. SameCounter(u, w)
  BY DEF NoiseType, SameCounter
<1> HIDE DEF w
<1>6. w.recalculate
  BY <1>2, <1>4
<1> QED BY <1>1, <1>3, <1>5, <1>6 DEF Asks, SameCounter

\* The noise runs.
LEMMA RunNoiseKeeps ==
  ASSUME NEW u \in NoiseType
  PROVE  LET v == RunNoise(u) IN
         v \in NoiseType /\ SameCounter(u, v) /\ Asks(u, v)
<1> DEFINE left == IF u.timer_counter > 0 THEN u.timer_counter - 1 ELSE 0
           steps == left = 0 /\ u.period_cnt # 0
           reg == IF steps THEN Shifted(u) ELSE u.shift_register
           bit == IF steps THEN 0 \in reg ELSE u.noise_bit
           count == IF steps THEN u.period_cnt ELSE left
           level == IF bit /\ u.len_cnt > 0 THEN Volume(u) ELSE 0
           w == [u EXCEPT !.timer_counter = count, !.shift_register = reg, !.noise_bit = bit]
           v == Sounds(w, level)
<1>1. /\ u.timer_counter \in Nat /\ u.period_cnt \in Nat /\ u.noise_bit \in BOOLEAN
      /\ u.env_cnt_value \in Volumes /\ u.env_counter \in Volumes
      /\ u.shift_register \in Registers
  BY DEF NoiseType
<1>2. left \in Nat
  BY <1>1
<1>3. RunNoise(u) = v
  BY DEF RunNoise
<1>4. level \in Volumes
  BY <1>1, Numbers DEF Volume
<1>5. reg \in Registers
  BY <1>1, NeverLocksUp
<1>6. count \in Nat
  BY <1>1, <1>2
<1>7. bit \in BOOLEAN
  <2> HIDE DEF steps, reg
  <2> DEFINE in == 0 \in reg
             was == u.noise_bit
  <2>1. in \in BOOLEAN /\ was \in BOOLEAN
    BY <1>1
  <2>2. bit = IF steps THEN in ELSE was
    OBVIOUS
  <2> HIDE DEF in, was, bit
  <2>3. CASE steps
    BY <2>1, <2>2, <2>3, Zenon
  <2>4. CASE ~steps
    BY <2>1, <2>2, <2>4, Zenon
  <2> QED BY <2>3, <2>4
<1> HIDE DEF left, steps, reg, bit, count, level
<1>8. w \in NoiseType
  BY <1>5, <1>6, <1>7 DEF NoiseType
<1>9. SameCounter(u, w) /\ SameLevel(u, w)
  BY DEF NoiseType, SameCounter, SameLevel
<1> HIDE DEF w
<1>10. v \in NoiseType /\ SameCounter(w, v) /\ Asks(w, v)
  BY <1>4, <1>8, NoiseSounds
<1> HIDE DEF v
<1>11. Asks(u, v)
  BY <1>9, <1>10 DEF Asks, SameLevel
<1> QED BY <1>3, <1>9, <1>10, <1>11 DEF SameCounter

-----------------------------------------------------------------------------
(***************************************************************************)
(* The triangle.                                                           *)
(***************************************************************************)
\* What the linear counter's clock does not touch.
TriangleApart(u, v) ==
  SameCounter(u, v) /\ SameLevel(u, v) /\ v.control_flag = u.control_flag

\* set_lenctr_en on the triangle.
LEMMA TriangleSwitched ==
  ASSUME NEW u \in TriangleType, NEW value \in Flags
  PROVE  LET v == set_lenctr_en(u, value) IN
         /\ v \in TriangleType /\ v.lenctr_en = value /\ Off(v) /\ SameLevel(u, v)
         /\ v.len_cnt = IF value = 0 THEN 0 ELSE u.len_cnt
         /\ v.control_flag = u.control_flag
<1> DEFINE c == IF value = 0 THEN 0 ELSE u.len_cnt
           v == [u EXCEPT !.lenctr_en = value, !.len_cnt = c]
<1>1. c \in LengthCounts
  BY Lengths DEF TriangleType
<1>2. set_lenctr_en(u, value) = v
  BY DEF set_lenctr_en, TriangleType
<1>3. value = 0 => c = 0
  OBVIOUS
<1>4. c = IF value = 0 THEN 0 ELSE u.len_cnt
  OBVIOUS
<1> HIDE DEF c
<1>5. v \in TriangleType
  BY <1>1 DEF TriangleType
<1>6. v.len_cnt = c /\ v.lenctr_en = value
  BY DEF TriangleType
<1>7. SameLevel(u, v) /\ v.control_flag = u.control_flag
  BY DEF TriangleType, SameLevel
<1> HIDE DEF v
<1> QED BY <1>2, <1>3, <1>4, <1>5, <1>6, <1>7 DEF Off

\* A write of $400B loads the triangle's length, unless the channel is off.
LEMMA TriangleLoaded ==
  ASSUME NEW u \in TriangleType, NEW index \in DOMAIN LengthTable, NEW clock
  PROVE  LET v == LoadLength(u, index, clock) IN
         /\ v \in TriangleType /\ v.lenctr_en = u.lenctr_en /\ Off(v) /\ SameLevel(u, v)
         /\ v.len_cnt = IF u.lenctr_en = 0 THEN 0 ELSE Loaded(u, index, clock)
         /\ v.control_flag = u.control_flag
<1> DEFINE c == Loaded(u, index, clock)
           e == u.lenctr_en
           w == [u EXCEPT !.len_cnt = c]
           v == set_lenctr_en(w, e)
<1>1. c \in LengthCounts /\ e \in Flags
  BY Lengths DEF TriangleType, Loaded
<1>2. LoadLength(u, index, clock) = v
  BY DEF LoadLength, Loaded
<1>3. c = Loaded(u, index, clock) /\ e = u.lenctr_en
  OBVIOUS
<1> HIDE DEF c, e
<1>4. w \in TriangleType /\ w.len_cnt = c
  BY <1>1 DEF TriangleType
<1>5. SameLevel(u, w) /\ w.control_flag = u.control_flag
  BY DEF TriangleType, SameLevel
<1> HIDE DEF w
<1>6. /\ v \in TriangleType /\ v.lenctr_en = e /\ Off(v) /\ SameLevel(w, v)
      /\ v.len_cnt = IF e = 0 THEN 0 ELSE w.len_cnt
      /\ v.control_flag = w.control_flag
  BY <1>1, <1>4, TriangleSwitched
<1> HIDE DEF v
<1> QED BY <1>2, <1>3, <1>4, <1>5, <1>6 DEF SameLevel

\* A length clock of the triangle.
LEMMA TriangleClocked ==
  ASSUME NEW u \in TriangleType, NEW halted \in BOOLEAN
  PROVE  LET v == ClockLength(u, halted) IN
         /\ v \in TriangleType /\ v.lenctr_en = u.lenctr_en /\ (Off(u) => Off(v))
         /\ v.len_cnt = IF u.len_cnt > 0 /\ ~halted THEN u.len_cnt - 1 ELSE u.len_cnt
         /\ SameLevel(u, v)
<1> DEFINE c == IF u.len_cnt > 0 /\ ~halted THEN u.len_cnt - 1 ELSE u.len_cnt
           v == [u EXCEPT !.len_cnt = c]
<1>1. c \in LengthCounts /\ (u.len_cnt = 0 => c = 0)
  BY Lengths DEF TriangleType
<1>2. ClockLength(u, halted) = v
  BY DEF ClockLength, TriangleType
<1>3. c = IF u.len_cnt > 0 /\ ~halted THEN u.len_cnt - 1 ELSE u.len_cnt
  OBVIOUS
<1> HIDE DEF c
<1>4. v \in TriangleType /\ v.len_cnt = c /\ v.lenctr_en = u.lenctr_en
  BY <1>1 DEF TriangleType
<1>5. SameLevel(u, v)
  BY DEF TriangleType, SameLevel
<1> HIDE DEF v
<1> QED BY <1>1, <1>2, <1>3, <1>4, <1>5 DEF Off

\* The clock of the linear counter leaves length and level alone.
LEMMA LinearKeeps ==
  ASSUME NEW u \in TriangleType
  PROVE  LET v == ClockLinear(u) IN v \in TriangleType /\ TriangleApart(u, v)
<1> DEFINE c == IF u.reload_flag = 1 THEN u.linear_counter_reload
                ELSE IF u.linear_counter > 0 THEN u.linear_counter - 1 ELSE 0
           f == IF u.control_flag = 0 THEN 0 ELSE u.reload_flag
           v == [u EXCEPT !.linear_counter = c, !.reload_flag = f]
<1>1. /\ u.linear_counter_reload \in Nat /\ u.linear_counter \in Nat
      /\ u.reload_flag \in Flags
  BY DEF TriangleType
<1>2. c \in Nat /\ f \in Flags
  BY <1>1, Numbers
<1>3. ClockLinear(u) = v
  BY DEF ClockLinear, TriangleType
<1> HIDE DEF c, f
<1>4. v \in TriangleType
  BY <1>2 DEF TriangleType
<1>5. TriangleApart(u, v)
  BY DEF TriangleType, TriangleApart, SameCounter, SameLevel
<1> HIDE DEF v
<1> QED BY <1>3, <1>4, <1>5

\* What the sequencer's clocks do to the triangle.
LEMMA ClockTriangleKeeps ==
  ASSUME NEW u \in TriangleType, Off(u), NEW clock
  PROVE  LET v == ClockTriangle(u, clock) IN
         /\ v \in TriangleType /\ Off(v) /\ SameLevel(u, v)
         /\ v.len_cnt = Clocked(u, clock, u.control_flag = 1)
<1> DEFINE q == IF Quarter(clock) THEN ClockLinear(u) ELSE u
           halted == q.control_flag = 1
           v == ClockLength(q, halted)
<1>1. q \in TriangleType /\ TriangleApart(u, q)
  <2>1. TriangleApart(u, u)
    BY DEF TriangleApart, SameCounter, SameLevel
  <2> QED BY <2>1, LinearKeeps
<1>2. ClockTriangle(u, clock) = IF Half(clock) THEN v ELSE q
  BY DEF ClockTriangle
<1>3. halted \in BOOLEAN /\ (halted <=> q.control_flag = 1)
  OBVIOUS
<1> HIDE DEF q, halted
<1>4. Off(q)
  BY <1>1, Unmoved DEF TriangleApart
<1>5. /\ v \in TriangleType /\ v.lenctr_en = q.lenctr_en /\ (Off(q) => Off(v))
      /\ v.len_cnt = IF q.len_cnt > 0 /\ ~halted THEN q.len_cnt - 1 ELSE q.len_cnt
      /\ SameLevel(q, v)
  BY <1>1, <1>3, TriangleClocked
<1> HIDE DEF v
<1>6. halted <=> u.control_flag = 1
  BY <1>1, <1>3 DEF TriangleApart
<1>7. CASE Half(clock)
  <2>1. v.len_cnt = Clocked(u, clock, u.control_flag = 1)
    BY <1>1, <1>5, <1>6, <1>7 DEF Clocked, TriangleApart, SameCounter
  <2>2. SameLevel(u, v)
    BY <1>1, <1>5 DEF TriangleApart, SameLevel
  <2> QED BY <1>2, <1>4, <1>5, <1>7, <2>1, <2>2
<1>8. CASE ~Half(clock)
  <2>1. q.len_cnt = Clocked(u, clock, u.control_flag = 1)
    BY <1>1, <1>8 DEF Clocked, TriangleApart, SameCounter
  <2>2. SameLevel(u, q)
    BY <1>1 DEF TriangleApart
  <2> QED BY <1>1, <1>2, <1>4, <1>8, <2>1, <2>2
<1> QED BY <1>7, <1>8

\* A write of either part of the triangle's period keeps its types.
LEMMA TriangleTimerSet ==
  ASSUME NEW u \in TriangleType, NEW period \in Periods
  PROVE  LET v == SetTriangleTimer(u, period) IN
         v \in TriangleType /\ TriangleApart(u, v)
<1> DEFINE reload == period + 1
           v == [u EXCEPT !.timer_cnt = period, !.timer_cnt_reload = reload]
<1>1. reload \in Nat
  BY Numbers
<1>2. SetTriangleTimer(u, period) = v
  BY DEF SetTriangleTimer
<1> HIDE DEF reload
<1>3. v \in TriangleType
  BY <1>1 DEF TriangleType
<1>4. TriangleApart(u, v)
  BY DEF TriangleType, TriangleApart, SameCounter, SameLevel
<1> HIDE DEF v
<1> QED BY <1>2, <1>3, <1>4

\* $400B loads the counter and the high part of the period.
LEMMA TriangleLengthWritten ==
  ASSUME NEW u \in TriangleType, NEW v, Sent("400B", v), NEW clock
  PROVE  LET x == WriteTriangle(u, "400B", v, clock) IN
         /\ x \in TriangleType /\ Off(x) /\ SameLevel(u, x) /\ x.lenctr_en = u.lenctr_en
         /\ x.control_flag = u.control_flag
         /\ x.len_cnt = IF u.lenctr_en = 0 THEN 0 ELSE Loaded(u, v.length, clock)
<1> DEFINE period == (u.timer_cnt % LowPeriods) + v.high * LowPeriods
           s == SetTriangleTimer(u, period)
           l == LoadLength(s, v.length, clock)
           one == 1
           x == [l EXCEPT !.reload_flag = one]
<1>1. v.high \in 0..7 /\ v.length \in DOMAIN LengthTable
  BY DEF Sent
<1>2. WriteTriangle(u, "400B", v, clock) = x
  BY DEF WriteTriangle
<1>3. period \in Periods
  BY <1>1, HighPart DEF TriangleType
<1>4. one \in Flags
  BY Numbers
<1> HIDE DEF period, one
<1>5. s \in TriangleType /\ TriangleApart(u, s)
  BY <1>3, TriangleTimerSet
<1> HIDE DEF s
<1>6. /\ l \in TriangleType /\ l.lenctr_en = s.lenctr_en /\ Off(l) /\ SameLevel(s, l)
      /\ l.len_cnt = IF s.lenctr_en = 0 THEN 0 ELSE Loaded(s, v.length, clock)
      /\ l.control_flag = s.control_flag
  BY <1>1, <1>5, TriangleLoaded
<1> HIDE DEF l
<1>7. x \in TriangleType
  BY <1>4, <1>6 DEF TriangleType
<1>8. TriangleApart(l, x)
  BY <1>6 DEF TriangleType, TriangleApart, SameCounter, SameLevel
<1> HIDE DEF x
<1>9. Off(x)
  BY <1>6, <1>8, Unmoved DEF TriangleApart
<1>10. Loaded(s, v.length, clock) = Loaded(u, v.length, clock)
  BY <1>5 DEF TriangleApart, SameCounter, Loaded
<1>11. /\ SameLevel(u, x) /\ x.lenctr_en = u.lenctr_en /\ x.control_flag = u.control_flag
       /\ x.len_cnt = IF u.lenctr_en = 0 THEN 0 ELSE Loaded(u, v.length, clock)
  BY <1>5, <1>6, <1>8, <1>10 DEF TriangleApart, SameCounter, SameLevel
<1> QED BY <1>2, <1>7, <1>9, <1>11

\* Each of the triangle's registers keeps its types and its level.
LEMMA WriteTriangleKeeps ==
  ASSUME NEW u \in TriangleType, Off(u), NEW reg, NEW v, Sent(reg, v), NEW clock
  PROVE  LET x == WriteTriangle(u, reg, v, clock) IN
         x \in TriangleType /\ Off(x) /\ SameLevel(u, x)
<1> DEFINE x == WriteTriangle(u, reg, v, clock)
           Q == x \in TriangleType /\ Off(x) /\ SameLevel(u, x)
<1>1. ASSUME reg = "4008" PROVE Q
  <2> DEFINE a == v.linear
             b == v.control
             y == [u EXCEPT !.linear_counter_reload = a, !.control_flag = b]
  <2>1. a \in Nat /\ b \in Flags
    BY <1>1 DEF Sent, Flags
  <2>2. x = y
    BY <1>1 DEF WriteTriangle
  <2> HIDE DEF a, b, x
  <2>3. y \in TriangleType
    BY <2>1 DEF TriangleType
  <2>4. SameCounter(u, y) /\ SameLevel(u, y)
    BY DEF TriangleType, SameCounter, SameLevel
  <2> HIDE DEF y
  <2> QED BY <2>2, <2>3, <2>4, Unmoved
<1>2. ASSUME reg = "400A" PROVE Q
  <2> DEFINE period == u.timer_cnt - (u.timer_cnt % LowPeriods) + v.low
  <2>1. v.low \in 0..LowPeriods - 1 /\ u.timer_cnt \in Periods
    BY <1>2 DEF Sent, TriangleType
  <2>2. period \in Periods
    BY <2>1, LowPart
  <2>3. x = SetTriangleTimer(u, period)
    BY <1>2 DEF WriteTriangle
  <2> HIDE DEF period, x
  <2> QED BY <2>2, <2>3, TriangleTimerSet, Unmoved DEF TriangleApart
<1>3. ASSUME reg = "400B" PROVE Q
  BY <1>3, TriangleLengthWritten
<1>4. ASSUME reg \notin {"4008", "400A", "400B"} PROVE Q
  <2>1. x = u
    BY <1>4 DEF WriteTriangle
  <2> HIDE DEF x
  <2> QED BY <2>1 DEF SameLevel
<1> HIDE DEF Q
<1>5. Q
  BY <1>1, <1>2, <1>3, <1>4
<1> QED BY <1>5 DEF Q

\* The new sample of a triangle, and the request that goes with it.
LEMMA TriangleSounds ==
  ASSUME NEW u \in TriangleType, NEW level \in Int
  PROVE  LET v == Sounds(u, level) IN
         /\ v \in TriangleType /\ SameCounter(u, v)
         /\ Asks(u, v)
<1> DEFINE yes == TRUE
           w == [u EXCEPT !.sample = level, !.recalculate = yes]
<1>1. Sounds(u, level) = IF level = u.sample THEN u ELSE w
  BY DEF Sounds
<1>2. yes \in BOOLEAN /\ yes
  OBVIOUS
<1> HIDE DEF yes
<1>3. w \in TriangleType
  BY <1>2 DEF TriangleType
<1>4. w.recalculate = yes
  BY DEF TriangleType
<1>5. SameCounter(u, w)
  BY DEF TriangleType, SameCounter
<1> HIDE DEF w
<1>6. w.recalculate
  BY <1>2, <1>4
<1> QED BY <1>1, <1>3, <1>5, <1>6 DEF Asks, SameCounter

\* The triangle runs.
LEMMA RunTriangleKeeps ==
  ASSUME NEW u \in TriangleType
  PROVE  LET v == RunTriangle(u) IN
         v \in TriangleType /\ SameCounter(u, v) /\ Asks(u, v)
<1> DEFINE left == IF u.timer > 0 THEN u.timer - 1 ELSE 0
           steps == left = 0 /\ u.len_cnt > 0 /\ u.linear_counter > 0
           next == (u.seq + 1) % SeqLength
           time == IF left = 0 THEN u.timer_cnt_reload ELSE left
           level == TriangleSample(u, next)
           s == [u EXCEPT !.timer = time]
           w == [s EXCEPT !.seq = next]
           v == Sounds(w, level)
<1>1. u.timer \in Nat /\ u.timer_cnt_reload \in Nat /\ u.seq \in SeqSteps
  BY DEF TriangleType
<1>2. left \in Nat
  BY <1>1
<1>3. time \in Nat
  BY <1>1, <1>2
<1>4. SeqLength \in Nat /\ SeqLength > 0
  BY ChannelsAssumption
<1>5. next \in SeqSteps
  <2>1. u.seq \in Nat
    BY <1>1, Numbers
  <2> QED BY <1>4, <2>1 DEF SeqSteps
<1>6. level \in Int
  <2>1. next \in Nat
    BY <1>5, Numbers
  <2>2. SeqLength \div 4 \in Int /\ SeqLength \div 2 \in Int
    BY <1>4
  <2> HIDE DEF next
  <2>3. TriangleLevel(next) \in Int
    BY <2>1, <2>2 DEF TriangleLevel
  <2> QED BY <2>2, <2>3 DEF TriangleSample
<1>7. RunTriangle(u) = IF steps THEN v ELSE s
  BY DEF RunTriangle
<1> HIDE DEF left, steps, next, time, level
<1>8. s \in TriangleType
  BY <1>3 DEF TriangleType
<1>9. SameCounter(u, s) /\ SameLevel(u, s)
  BY DEF TriangleType, SameCounter, SameLevel
<1> HIDE DEF s
<1>10. w \in TriangleType /\ SameCounter(s, w) /\ SameLevel(s, w)
  BY <1>5, <1>8 DEF TriangleType, SameCounter, SameLevel
<1> HIDE DEF w
<1>11. v \in TriangleType /\ SameCounter(w, v) /\ Asks(w, v)
  BY <1>6, <1>10, TriangleSounds
<1> HIDE DEF v
<1>12. Asks(u, v) /\ Asks(u, s)
  BY <1>9, <1>10, <1>11 DEF Asks, SameLevel
<1> QED BY <1>7, <1>8, <1>9, <1>10, <1>11, <1>12 DEF SameCounter

-----------------------------------------------------------------------------
(***************************************************************************)
(* A cycle.                                                                *)
(***************************************************************************)
LEMMA InitInv == Init => IInv
<1> SUFFICES ASSUME Init PROVE IInv
  OBVIOUS
<1>1. NewPulse \in PulseType
  <2>1. 0 \in Duties
    BY ChannelsAssumption DEF Duties
  <2>2. 0 \in Flags /\ 0 \in Volumes /\ 0 \in Eighths /\ 0 \in Periods /\ 0 \in LengthCounts
    BY Numbers, Lengths
  <2> QED BY <2>1, <2>2 DEF NewPulse, PulseType
<1>2. NewNoise \in NoiseType
  <2>1. {0} \in Registers
    BY ChannelsAssumption DEF Registers
  <2>2. 0 \in Flags /\ 0 \in Volumes /\ 0 \in LengthCounts
    BY Numbers, Lengths
  <2> QED BY <2>1, <2>2 DEF NewNoise, NoiseType
<1>3. NewTriangle \in TriangleType
  <2>1. 0 \in Flags /\ 0 \in Periods /\ 0 \in LengthCounts /\ 0 \in SeqSteps
    BY Numbers, Lengths
  <2> QED BY <2>1 DEF NewTriangle, TriangleType
<1>4. program \in Programs /\ Types
  BY <1>1, <1>2, <1>3 DEF Init, Types
<1>5. InStep(pulse) /\ Off(pulse) /\ Off(noise) /\ Off(triangle)
  BY DEF Init, NewPulse, NewNoise, NewTriangle, InStep, Off
<1>6. MixCurrent
  BY DEF Init, NewPulse, NewNoise, NewTriangle, MixCurrent, Samples
<1> QED BY <1>4, <1>5, <1>6 DEF IInv

\* A program's write, or none, sends what its register can hold.
LEMMA WritesSent ==
  ASSUME program \in Programs, NEW w \in Writes[program.uses] \cup {NoWrite}
  PROVE  Sent(w[1], w[2])
<1>1. CASE w \in Writes[program.uses]
  BY <1>1, ProgramsAssumption
<1>2. CASE w = NoWrite
  <2>1. w[1] = "none"
    BY <1>2 DEF NoWrite
  <2> QED BY <2>1 DEF Sent
<1> QED BY <1>1, <1>2

\* What a write of any register leaves true of a channel.
LEMMA PulseWritten ==
  ASSUME NEW u \in PulseType, InStep(u), Off(u), NEW w, Sent(w[1], w[2]), NEW clock
  PROVE  LET x == Written(u, "pulse", w, WritePulse(u, w[1], w[2], clock)) IN
         x \in PulseType /\ InStep(x) /\ Off(x) /\ SameLevel(u, x)
<1> DEFINE value == IF "pulse" \in w[2].enabled THEN 1 ELSE 0
           own == WritePulse(u, w[1], w[2], clock)
           s == set_lenctr_en(u, value)
<1>1. Written(u, "pulse", w, own) = IF w[1] = "4015" THEN s ELSE own
  BY DEF Written
<1>2. value \in Flags
  BY Numbers
<1>3. own \in PulseType /\ InStep(own) /\ Off(own) /\ SameLevel(u, own)
  BY WritePulseKeeps
<1> HIDE DEF value, own
<1>4. s \in PulseType /\ Off(s) /\ SamePeriod(u, s) /\ SameLevel(u, s)
  BY <1>2, PulseSwitched
<1> HIDE DEF s
<1>5. InStep(s)
  BY <1>4, Unmoved
<1> QED BY <1>1, <1>3, <1>4, <1>5 DEF own

\* A write of any register, $4015 included, as the noise meets it.
LEMMA NoiseWritten ==
  ASSUME NEW u \in NoiseType, Off(u), NEW w, Sent(w[1], w[2]), NEW clock
  PROVE  LET x == Written(u, "noise", w, WriteNoise(u, w[1], w[2], clock)) IN
         x \in NoiseType /\ Off(x) /\ SameLevel(u, x)
<1> DEFINE value == IF "noise" \in w[2].enabled THEN 1 ELSE 0
           own == WriteNoise(u, w[1], w[2], clock)
           s == set_lenctr_en(u, value)
<1>1. Written(u, "noise", w, own) = IF w[1] = "4015" THEN s ELSE own
  BY DEF Written
<1>2. value \in Flags
  BY Numbers
<1>3. own \in NoiseType /\ Off(own) /\ SameLevel(u, own)
  BY WriteNoiseKeeps
<1> HIDE DEF value, own
<1>4. s \in NoiseType /\ Off(s) /\ SameLevel(u, s)
  BY <1>2, NoiseSwitched
<1> QED BY <1>1, <1>3, <1>4 DEF own

\* A write of any register, $4015 included, as the triangle meets it.
LEMMA TriangleWritten ==
  ASSUME NEW u \in TriangleType, Off(u), NEW w, Sent(w[1], w[2]), NEW clock
  PROVE  LET x == Written(u, "triangle", w, WriteTriangle(u, w[1], w[2], clock)) IN
         x \in TriangleType /\ Off(x) /\ SameLevel(u, x)
<1> DEFINE value == IF "triangle" \in w[2].enabled THEN 1 ELSE 0
           own == WriteTriangle(u, w[1], w[2], clock)
           s == set_lenctr_en(u, value)
<1>1. Written(u, "triangle", w, own) = IF w[1] = "4015" THEN s ELSE own
  BY DEF Written
<1>2. value \in Flags
  BY Numbers
<1>3. own \in TriangleType /\ Off(own) /\ SameLevel(u, own)
  BY WriteTriangleKeeps
<1> HIDE DEF value, own
<1>4. s \in TriangleType /\ Off(s) /\ SameLevel(u, s)
  BY <1>2, TriangleSwitched
<1> QED BY <1>1, <1>3, <1>4 DEF own

\* Emitting a sample touches the request alone.
LEMMA Emitted ==
  /\ \A u \in PulseType : LET v == EmitSample(u) IN
       v \in PulseType /\ SameCounter(u, v) /\ SamePeriod(u, v) /\ SameLevel(u, v)
  /\ \A u \in NoiseType : LET v == EmitSample(u) IN
       v \in NoiseType /\ SameCounter(u, v) /\ SameLevel(u, v)
  /\ \A u \in TriangleType : LET v == EmitSample(u) IN
       v \in TriangleType /\ SameCounter(u, v) /\ SameLevel(u, v)
<1>1. ASSUME NEW u \in PulseType
      PROVE  LET v == EmitSample(u) IN
             v \in PulseType /\ SameCounter(u, v) /\ SamePeriod(u, v) /\ SameLevel(u, v)
  BY DEF EmitSample, PulseType, SameCounter, SamePeriod, SameLevel
<1>2. ASSUME NEW u \in NoiseType
      PROVE  LET v == EmitSample(u) IN
             v \in NoiseType /\ SameCounter(u, v) /\ SameLevel(u, v)
  BY DEF EmitSample, NoiseType, SameCounter, SameLevel
<1>3. ASSUME NEW u \in TriangleType
      PROVE  LET v == EmitSample(u) IN
             v \in TriangleType /\ SameCounter(u, v) /\ SameLevel(u, v)
  BY DEF EmitSample, TriangleType, SameCounter, SameLevel
<1> QED BY <1>1, <1>2, <1>3

\* Sound or none, what has run keeps its types, and whose sample changed has asked.
LEMMA RanKeeps ==
  ASSUME pulse \in PulseType, InStep(pulse), Off(pulse),
         noise \in NoiseType, Off(noise), triangle \in TriangleType, Off(triangle)
  PROVE  /\ RanPulse \in PulseType /\ InStep(RanPulse) /\ Off(RanPulse) /\ Asks(pulse, RanPulse)
         /\ RanNoise \in NoiseType /\ Off(RanNoise) /\ Asks(noise, RanNoise)
         /\ RanTriangle \in TriangleType /\ Off(RanTriangle) /\ Asks(triangle, RanTriangle)
<1> DEFINE quiet == program.headless
           p == IF quiet THEN pulse ELSE RunPulse(pulse)
           m == IF quiet THEN noise ELSE RunNoise(noise)
           no == FALSE
           n == [m EXCEPT !.len_halt = no]
           t == IF quiet THEN triangle ELSE RunTriangle(triangle)
<1>1. RanPulse = p /\ RanNoise = n /\ RanTriangle = t
  BY DEF RanPulse, RanNoise, RanTriangle
<1>2. Asks(pulse, pulse) /\ Asks(noise, noise) /\ Asks(triangle, triangle)
  BY DEF Asks
<1>3. p \in PulseType /\ InStep(p) /\ Off(p) /\ Asks(pulse, p)
  <2>1. CASE quiet
    BY <1>2, <2>1
  <2>2. CASE ~quiet
    BY <2>2, RunPulseKeeps, Unmoved
  <2> QED BY <2>1, <2>2
<1>4. m \in NoiseType /\ Off(m) /\ Asks(noise, m)
  <2>1. CASE quiet
    BY <1>2, <2>1
  <2>2. CASE ~quiet
    BY <2>2, RunNoiseKeeps, Unmoved
  <2> QED BY <2>1, <2>2
<1>5. t \in TriangleType /\ Off(t) /\ Asks(triangle, t)
  <2>1. CASE quiet
    BY <1>2, <2>1
  <2>2. CASE ~quiet
    BY <2>2, RunTriangleKeeps, Unmoved
  <2> QED BY <2>1, <2>2
<1>6. no \in BOOLEAN
  OBVIOUS
<1> HIDE DEF p, m, t, no
<1>7. n \in NoiseType /\ SameCounter(m, n) /\ SameLevel(m, n)
      /\ n.recalculate = m.recalculate
  BY <1>4, <1>6 DEF NoiseType, SameCounter, SameLevel
<1> HIDE DEF n
<1>8. Off(n) /\ Asks(noise, n)
  BY <1>4, <1>7, Unmoved DEF Asks, SameLevel
<1> QED BY <1>1, <1>3, <1>5, <1>7, <1>8

\* A mix is made of the samples as they are, or no sample has changed since the last.
LEMMA MixKept ==
  ASSUME MixCurrent, NEW p, NEW n, NEW t,
         Asks(pulse, p), Asks(noise, n), Asks(triangle, t)
  PROVE  (IF Recalculate(p, n, t) THEN Samples(p, n, t) ELSE oldmix) = Samples(p, n, t)
<1>1. CASE Recalculate(p, n, t)
  BY <1>1
<1>2. CASE ~Recalculate(p, n, t)
  <2>1. p.sample = pulse.sample /\ n.sample = noise.sample /\ t.sample = triangle.sample
    BY <1>2, Zenon DEF Recalculate, Asks
  <2> QED BY <1>2, <2>1 DEF MixCurrent, Samples
<1> QED BY <1>1, <1>2

\* A cycle of the APU, whatever is written in it and whatever clock it brings, keeps
\* the inductive invariant.
LEMMA CycleKeeps ==
  ASSUME IInv, NEW w \in Writes[program.uses] \cup {NoWrite}, NEW clock \in Clocks,
         Cycle(w, clock)
  PROVE  IInv'
<1> DEFINE p == EmitSample(RanPulse)
           n == EmitSample(RanNoise)
           t == EmitSample(RanTriangle)
           mix == IF Recalculate(RanPulse, RanNoise, RanTriangle) THEN Samples(p, n, t)
                  ELSE oldmix
           wp == Written(p, "pulse", w, WritePulse(p, w[1], w[2], clock))
           wn == Written(n, "noise", w, WriteNoise(n, w[1], w[2], clock))
           wt == Written(t, "triangle", w, WriteTriangle(t, w[1], w[2], clock))
<1>1. /\ oldmix' = mix
      /\ pulse' = ClockPulse(wp, clock)
      /\ noise' = ClockNoise(wn, clock)
      /\ triangle' = ClockTriangle(wt, clock)
      /\ program' = program
  BY DEF Cycle
<1>2. /\ program \in Programs /\ MixCurrent
      /\ pulse \in PulseType /\ noise \in NoiseType /\ triangle \in TriangleType
      /\ InStep(pulse) /\ Off(pulse) /\ Off(noise) /\ Off(triangle)
  BY DEF IInv, Types
<1>3. Sent(w[1], w[2])
  BY <1>2, WritesSent
<1>4. /\ RanPulse \in PulseType /\ InStep(RanPulse) /\ Off(RanPulse) /\ Asks(pulse, RanPulse)
      /\ RanNoise \in NoiseType /\ Off(RanNoise) /\ Asks(noise, RanNoise)
      /\ RanTriangle \in TriangleType /\ Off(RanTriangle) /\ Asks(triangle, RanTriangle)
  BY <1>2, RanKeeps
<1>5. p \in PulseType /\ InStep(p) /\ Off(p) /\ SameLevel(RanPulse, p)
  BY <1>4, Emitted, Unmoved
<1>6. n \in NoiseType /\ Off(n) /\ SameLevel(RanNoise, n)
  BY <1>4, Emitted, Unmoved
<1>7. t \in TriangleType /\ Off(t) /\ SameLevel(RanTriangle, t)
  BY <1>4, Emitted, Unmoved
<1> HIDE DEF p, n, t
<1>8. mix = Samples(p, n, t)
  <2>1. Samples(RanPulse, RanNoise, RanTriangle) = Samples(p, n, t)
    BY <1>5, <1>6, <1>7 DEF Samples, SameLevel
  <2> QED BY <1>2, <1>4, <2>1, MixKept
<1> HIDE DEF mix
<1>9. wp \in PulseType /\ InStep(wp) /\ Off(wp) /\ SameLevel(p, wp)
  BY <1>3, <1>5, PulseWritten
<1>10. wn \in NoiseType /\ Off(wn) /\ SameLevel(n, wn)
  BY <1>3, <1>6, NoiseWritten
<1>11. wt \in TriangleType /\ Off(wt) /\ SameLevel(t, wt)
  BY <1>3, <1>7, TriangleWritten
<1> HIDE DEF wp, wn, wt
<1>12. pulse' \in PulseType /\ InStep(pulse') /\ Off(pulse') /\ SameLevel(wp, pulse')
  BY <1>1, <1>2, <1>9, ClockPulseKeeps
<1>13. noise' \in NoiseType /\ Off(noise') /\ SameLevel(wn, noise')
  BY <1>1, <1>10, ClockNoiseKeeps
<1>14. triangle' \in TriangleType /\ Off(triangle') /\ SameLevel(wt, triangle')
  BY <1>1, <1>11, ClockTriangleKeeps
<1>15. MixCurrent'
  <2>1. oldmix' = Samples(p, n, t)
    BY <1>1, <1>8
  <2>2. Samples(p, n, t) = Samples(pulse', noise', triangle')
    BY <1>9, <1>10, <1>11, <1>12, <1>13, <1>14 DEF Samples, SameLevel
  <2> QED BY <2>1, <2>2 DEF MixCurrent
<1>16. program' \in Programs
  BY <1>1, <1>2
<1>17. Types'
  BY <1>12, <1>13, <1>14 DEF Types
<1>18. InStep(pulse)' /\ Off(pulse)' /\ Off(noise)' /\ Off(triangle)'
  BY <1>12, <1>13, <1>14 DEF InStep, Off
<1> QED BY <1>15, <1>16, <1>17, <1>18 DEF IInv

\* A soft reset switches every channel off and keeps the invariant.
LEMMA ResetKeeps ==
  ASSUME IInv, NESSoftReset
  PROVE  IInv'
<1>1. /\ program \in Programs /\ MixCurrent
      /\ pulse \in PulseType /\ noise \in NoiseType /\ triangle \in TriangleType
      /\ InStep(pulse)
  BY DEF IInv, Types
<1>2. /\ pulse' = set_lenctr_en(pulse, 0) /\ noise' = set_lenctr_en(noise, 0)
      /\ triangle' = set_lenctr_en(triangle, 0)
      /\ program' = program /\ oldmix' = oldmix
  BY DEF NESSoftReset
<1>3. 0 \in Flags
  BY Numbers
<1>4. pulse' \in PulseType /\ Off(pulse') /\ SamePeriod(pulse, pulse')
      /\ SameLevel(pulse, pulse')
  BY <1>1, <1>2, <1>3, PulseSwitched
<1>5. noise' \in NoiseType /\ Off(noise') /\ SameLevel(noise, noise')
  BY <1>1, <1>2, <1>3, NoiseSwitched
<1>6. triangle' \in TriangleType /\ Off(triangle') /\ SameLevel(triangle, triangle')
  BY <1>1, <1>2, <1>3, TriangleSwitched
<1>7. InStep(pulse')
  BY <1>1, <1>4, Unmoved
<1>8. MixCurrent'
  BY <1>1, <1>2, <1>4, <1>5, <1>6 DEF MixCurrent, Samples, SameLevel
<1>9. program' \in Programs /\ Types'
  BY <1>1, <1>2, <1>4, <1>5, <1>6 DEF Types
<1>10. InStep(pulse)' /\ Off(pulse)' /\ Off(noise)' /\ Off(triangle)'
  BY <1>4, <1>5, <1>6, <1>7 DEF InStep, Off
<1> QED BY <1>8, <1>9, <1>10 DEF IInv

\* Every step keeps the invariant.
LEMMA NextKeeps == IInv /\ [Next]_vars => IInv'
<1> SUFFICES ASSUME IInv, [Next]_vars PROVE IInv'
  OBVIOUS
<1>1. ASSUME NEW w \in Writes[program.uses] \cup {NoWrite}, NEW clock \in Clocks,
             Cycle(w, clock)
      PROVE  IInv'
  BY <1>1, CycleKeeps
<1>2. CASE NESSoftReset
  BY <1>2, ResetKeeps
<1>3. CASE UNCHANGED vars
  BY <1>3 DEF vars, IInv, Types, InStep, Off, MixCurrent, Samples
<1> QED BY <1>1, <1>2, <1>3 DEF Next

(***************************************************************************)
(* The two envelopes.                                                      *)
(***************************************************************************)
\* The divider of a pulse, one more than it is, is that of the noise.
LEMMA DividersAgree ==
  ASSUME NEW u \in PulseType
  PROVE  NoiseEnvelope(AsNoise(u)) = AsNoise(PulseEnvelope(u))
<1> DEFINE k == u.env_divider
           more == k + 1
           a == [u EXCEPT !.env_divider = more]
           full == u.env_cnt_value
           up == full + 1
           zero == 0
           counter == IF u.env_counter > 0 THEN u.env_counter - 1
                      ELSE IF u.env_loop = 1 THEN VolumeTop ELSE 0
           top == VolumeTop
<1>1. k \in Nat /\ full \in Nat
  <2>1. full \in Volumes
    BY DEF PulseType
  <2> QED BY <2>1, Numbers DEF PulseType
<1>2. AsNoise(u) = a
  BY DEF AsNoise
<1>3. /\ a.env_divider = more /\ a.env_start_flag = u.env_start_flag
      /\ a.env_cnt_value = full /\ a.env_counter = u.env_counter
      /\ a.env_loop = u.env_loop /\ a \in PulseType
  <2> HIDE DEF more
  <2>1. more \in Nat
    BY <1>1 DEF more
  <2>2. a \in PulseType
    BY <2>1 DEF PulseType
  <2>3. /\ a.env_divider = more /\ a.env_start_flag = u.env_start_flag
        /\ a.env_cnt_value = full /\ a.env_counter = u.env_counter
        /\ a.env_loop = u.env_loop
    BY DEF PulseType
  <2> QED BY <2>2, <2>3
<1>4. CASE u.env_start_flag = 1
  <2> DEFINE v == [u EXCEPT !.env_start_flag = zero, !.env_divider = full, !.env_counter = top]
             x == [a EXCEPT !.env_start_flag = zero, !.env_divider = up, !.env_counter = top]
  <2>1. PulseEnvelope(u) = v
    BY <1>4 DEF PulseEnvelope, StartEnvelope
  <2>2. NoiseEnvelope(a) = x
    BY <1>3, <1>4 DEF NoiseEnvelope, StartEnvelope
  <2> HIDE DEF full, up, zero, top, more
  <2>3. v.env_divider = full
    BY DEF PulseType
  <2>4. AsNoise(v) = [v EXCEPT !.env_divider = up]
    BY <2>3 DEF AsNoise, up
  <2>5. x = [v EXCEPT !.env_divider = up]
    BY DEF PulseType
  <2> HIDE DEF v, x, a
  <2> QED BY <1>2, <2>1, <2>2, <2>4, <2>5
<1>5. CASE u.env_start_flag # 1 /\ k # 0
  <2> DEFINE less == k - 1
             v == [u EXCEPT !.env_divider = less]
             x == [a EXCEPT !.env_divider = k]
  <2>1. PulseEnvelope(u) = v
    BY <1>5 DEF PulseEnvelope
  <2>2. more > 1 /\ more - 1 = k /\ less + 1 = k
    BY <1>1, <1>5
  <2> HIDE DEF more, less, k
  <2>3. NoiseEnvelope(a) = x
    BY <1>3, <1>5, <2>2 DEF NoiseEnvelope
  <2>4. v.env_divider = less
    BY DEF PulseType
  <2>5. AsNoise(v) = [v EXCEPT !.env_divider = k]
    BY <2>2, <2>4 DEF AsNoise
  <2>6. x = [v EXCEPT !.env_divider = k]
    BY DEF PulseType
  <2> HIDE DEF v, x, a
  <2> QED BY <1>2, <2>1, <2>3, <2>5, <2>6
<1>6. CASE u.env_start_flag # 1 /\ k = 0
  <2> DEFINE v == [u EXCEPT !.env_divider = full, !.env_counter = counter]
             x == [a EXCEPT !.env_divider = up, !.env_counter = counter]
  <2>1. PulseEnvelope(u) = v
    BY <1>6 DEF PulseEnvelope, StepEnvelope
  <2>2. ~(more > 1)
    BY <1>6
  <2> HIDE DEF more, k
  <2>3. NoiseEnvelope(a) = x
    BY <1>3, <1>6, <2>2 DEF NoiseEnvelope, StepEnvelope
  <2> HIDE DEF full, up, counter
  <2>4. v.env_divider = full
    BY DEF PulseType
  <2>5. AsNoise(v) = [v EXCEPT !.env_divider = up]
    BY <2>4 DEF AsNoise, up
  <2>6. x = [v EXCEPT !.env_divider = up]
    BY DEF PulseType
  <2> HIDE DEF v, x, a
  <2> QED BY <1>2, <2>1, <2>3, <2>5, <2>6
<1>7. (u.env_start_flag = 1) \/ (u.env_start_flag # 1 /\ k # 0) \/ (u.env_start_flag # 1 /\ k = 0)
  OBVIOUS
<1> QED BY <1>4, <1>5, <1>6, <1>7

-----------------------------------------------------------------------------
(***************************************************************************)
(* A load that meets a clock, channel by channel.                          *)
(***************************************************************************)
Meeting == {"half", "both"}

\* What a load and the clock after it leave in a counter that is not halted.
LEMMA LoadThenClock ==
  ASSUME NEW u, u.len_cnt \in LengthCounts, Off(u), NEW x, NEW y,
         NEW index \in DOMAIN LengthTable, NEW clock \in Meeting, NEW halted,
         x.len_cnt = IF u.lenctr_en = 0 THEN 0 ELSE Loaded(u, index, clock),
         y.len_cnt = Clocked(x, clock, halted)
  PROVE  ~halted => y.len_cnt = IF u.lenctr_en = 0 THEN 0
                                ELSE IF u.len_cnt = 0 THEN LengthTable[index]
                                ELSE u.len_cnt - 1
<1> SUFFICES ASSUME ~halted
             PROVE  y.len_cnt = IF u.lenctr_en = 0 THEN 0
                                ELSE IF u.len_cnt = 0 THEN LengthTable[index]
                                ELSE u.len_cnt - 1
  OBVIOUS
<1> DEFINE n == u.len_cnt
           l == LengthTable[index]
           m == x.len_cnt
<1>1. n \in Nat /\ l \in Nat /\ l > 0
  BY Lengths
<1>2. Half(clock) /\ Foreseen(clock)
  BY DEF Meeting, Half, Foreseen
<1>3. y.len_cnt = IF m > 0 THEN m - 1 ELSE m
  BY <1>2 DEF Clocked
<1>4. m = IF u.lenctr_en = 0 THEN 0 ELSE IF n = 0 THEN l + 1 ELSE n
  BY <1>2 DEF Loaded
<1> HIDE DEF n, l, m
<1>5. CASE u.lenctr_en = 0
  BY <1>3, <1>4, <1>5
<1>6. CASE u.lenctr_en # 0 /\ n = 0
  BY <1>1, <1>3, <1>4, <1>6 DEF l, n
<1>7. CASE u.lenctr_en # 0 /\ n # 0
  BY <1>1, <1>3, <1>4, <1>7 DEF n
<1> QED BY <1>5, <1>6, <1>7

\* The three channels' loads in the cycle of a clock, from the invariant's types.
LEMMA LoadsMeet == IInv => LoadsMeetClocks
<1> SUFFICES ASSUME IInv, NEW w \in Writes[program.uses], NEW clock \in Meeting
             PROVE  LET p == ClockPulse(WritePulse(pulse, w[1], w[2], clock), clock)
                        n == ClockNoise(WriteNoise(noise, w[1], w[2], clock), clock)
                        t == ClockTriangle(WriteTriangle(triangle, w[1], w[2], clock), clock)
                    IN  /\ w[1] = "4003" => Meets(pulse, pulse.env_loop = 1, w[2].length, p)
                        /\ w[1] = "400F" => Meets(noise, noise.env_loop = 1, w[2].length, n)
                        /\ w[1] = "400B" => Meets(triangle, triangle.control_flag = 1, w[2].length, t)
                        /\ w[1] = "400C" /\ noise.env_loop = 0 /\ noise.len_cnt > 0
                             => n.len_cnt = noise.len_cnt - 1
  BY DEF LoadsMeetClocks, Meeting
<1> DEFINE v == w[2]
           xp == WritePulse(pulse, w[1], v, clock)
           xn == WriteNoise(noise, w[1], v, clock)
           xt == WriteTriangle(triangle, w[1], v, clock)
           p == ClockPulse(xp, clock)
           n == ClockNoise(xn, clock)
           t == ClockTriangle(xt, clock)
<1>1. /\ program \in Programs
      /\ pulse \in PulseType /\ noise \in NoiseType /\ triangle \in TriangleType
      /\ InStep(pulse) /\ Off(pulse) /\ Off(noise) /\ Off(triangle)
  BY DEF IInv, Types
<1>2. Sent(w[1], v)
  BY <1>1, WritesSent
<1>3. /\ pulse.len_cnt \in LengthCounts /\ noise.len_cnt \in LengthCounts
      /\ triangle.len_cnt \in LengthCounts
  BY <1>1 DEF PulseType, NoiseType, TriangleType
<1>4. ASSUME w[1] = "4003" PROVE Meets(pulse, pulse.env_loop = 1, v.length, p)
  <2>1. Sent("4003", v) /\ v.length \in DOMAIN LengthTable
    BY <1>2, <1>4 DEF Sent
  <2>2. /\ xp \in PulseType /\ InStep(xp) /\ Off(xp) /\ xp.env_loop = pulse.env_loop
        /\ xp.len_cnt = IF pulse.lenctr_en = 0 THEN 0 ELSE Loaded(pulse, v.length, clock)
    BY <1>1, <1>4, <2>1, PulseLengthWritten
  <2> HIDE DEF xp, v
  <2>3. p.len_cnt = Clocked(xp, clock, xp.env_loop = 1)
    BY <1>1, <2>2, ClockPulseKeeps
  <2> HIDE DEF p
  <2>4. p.len_cnt = Clocked(xp, clock, pulse.env_loop = 1)
    BY <2>2, <2>3
  <2> QED BY <1>1, <1>3, <2>1, <2>2, <2>4, LoadThenClock DEF Meets
<1>5. ASSUME w[1] = "400F" PROVE Meets(noise, noise.env_loop = 1, v.length, n)
  <2>1. Sent("400F", v) /\ v.length \in DOMAIN LengthTable
    BY <1>2, <1>5 DEF Sent
  <2>2. /\ xn \in NoiseType /\ Off(xn) /\ xn.env_loop = noise.env_loop
        /\ xn.len_cnt = IF noise.lenctr_en = 0 THEN 0 ELSE Loaded(noise, v.length, clock)
    BY <1>1, <1>5, <2>1, NoiseLengthWritten
  <2> HIDE DEF xn, v
  <2>3. n.len_cnt = Clocked(xn, clock, xn.env_loop = 1 /\ ~xn.len_halt)
    BY <2>2, ClockNoiseKeeps
  <2> HIDE DEF n
  <2>4. noise.env_loop # 1 => n.len_cnt = Clocked(xn, clock, FALSE)
    BY <2>2, <2>3 DEF Clocked
  <2>5. noise.env_loop # 1 => n.len_cnt = Clocked(xn, clock, noise.env_loop = 1)
    BY <2>4 DEF Clocked
  <2>6. noise.env_loop # 1 =>
          n.len_cnt = IF noise.lenctr_en = 0 THEN 0
                      ELSE IF noise.len_cnt = 0 THEN LengthTable[v.length]
                      ELSE noise.len_cnt - 1
    BY <1>1, <1>3, <2>1, <2>2, <2>5, LoadThenClock
  <2> QED BY <2>6 DEF Meets
<1>6. ASSUME w[1] = "400B" PROVE Meets(triangle, triangle.control_flag = 1, v.length, t)
  <2>1. Sent("400B", v) /\ v.length \in DOMAIN LengthTable
    BY <1>2, <1>6 DEF Sent
  <2>2. /\ xt \in TriangleType /\ Off(xt) /\ xt.control_flag = triangle.control_flag
        /\ xt.len_cnt = IF triangle.lenctr_en = 0 THEN 0 ELSE Loaded(triangle, v.length, clock)
    BY <1>1, <1>6, <2>1, TriangleLengthWritten
  <2> HIDE DEF xt, v
  <2>3. t.len_cnt = Clocked(xt, clock, xt.control_flag = 1)
    BY <2>2, ClockTriangleKeeps
  <2> HIDE DEF t
  <2>4. t.len_cnt = Clocked(xt, clock, triangle.control_flag = 1)
    BY <2>2, <2>3
  <2> QED BY <1>1, <1>3, <2>1, <2>2, <2>4, LoadThenClock DEF Meets
<1>7. ASSUME w[1] = "400C", noise.env_loop = 0, noise.len_cnt > 0
      PROVE  n.len_cnt = noise.len_cnt - 1
  <2>1. Sent("400C", v) /\ v.loop \in 0..1
    BY <1>2, <1>7 DEF Sent
  <2>2. /\ xn \in NoiseType /\ SameCounter(noise, xn) /\ xn.env_loop = v.loop
        /\ xn.len_halt <=> noise.len_halt \/ v.loop = 1
    BY <1>1, <1>7, <2>1, NoiseVolumeWritten
  <2> HIDE DEF xn, v
  <2>3. Off(xn)
    BY <1>1, <2>2, Unmoved
  <2>4. n.len_cnt = Clocked(xn, clock, xn.env_loop = 1 /\ ~xn.len_halt)
    BY <2>2, <2>3, ClockNoiseKeeps
  <2> HIDE DEF n
  <2>5. Half(clock)
    BY DEF Half, Meeting
  <2> QED BY <1>7, <2>2, <2>4, <2>5 DEF Clocked, SameCounter
<1> HIDE DEF p, n, t, v
<1> QED BY <1>4, <1>5, <1>6, <1>7 DEF p, n, t, xp, xn, xt, v

-----------------------------------------------------------------------------
(***************************************************************************)
(* The theorems.                                                           *)
(***************************************************************************)
LEMMA Invariance == Spec => []IInv
<1> QED BY InitInv, NextKeeps, PTL DEF Spec

(***************************************************************************)
(* However writes, clocks and resets fall, a sweep keeps the period within *)
(* its bits, a disabled channel has no length, and the noise never locks   *)
(* up at zero.                                                             *)
(***************************************************************************)
THEOREM TypeCorrect == Spec => []TypeOK
<1>1. IInv => TypeOK
  <2> SUFFICES ASSUME IInv PROVE TypeOK
    OBVIOUS
  <2>1. pulse \in PulseType /\ noise \in NoiseType /\ triangle \in TriangleType
    BY DEF IInv, Types
  <2>2. pulse.timer_reload_value \in 0..MaxPeriod
    BY <2>1 DEF PulseType, Periods
  <2>3. /\ pulse.len_cnt \in LengthCounts /\ noise.len_cnt \in LengthCounts
        /\ triangle.len_cnt \in LengthCounts
    BY <2>1 DEF PulseType, NoiseType, TriangleType
  <2>4. pulse.env_counter \in 0..VolumeTop /\ noise.env_counter \in 0..VolumeTop
    BY <2>1 DEF PulseType, NoiseType, Volumes
  <2>5. pulse.duty_step \in 0..7 /\ triangle.seq \in 0..SeqLength - 1
    BY <2>1 DEF PulseType, TriangleType, Eighths, SeqSteps
  <2>6. noise.shift_register \subseteq 0..NoiseBits - 1 /\ noise.shift_register # {}
    BY <2>1 DEF NoiseType, Registers
  <2>7. /\ pulse.lenctr_en = 0 => pulse.len_cnt = 0
        /\ noise.lenctr_en = 0 => noise.len_cnt = 0
        /\ triangle.lenctr_en = 0 => triangle.len_cnt = 0
    BY DEF IInv, Off
  <2>8. \/ pulse.timer_raw_reload_value = 2 * pulse.timer_reload_value + 2
        \/ pulse.timer_raw_reload_value = 0 /\ pulse.timer_reload_value = 0
    BY DEF IInv, InStep
  <2>9. {pulse.len_cnt, noise.len_cnt, triangle.len_cnt} \subseteq LengthCounts
    BY <2>3
  <2> QED BY <2>2, <2>4, <2>5, <2>6, <2>7, <2>8, <2>9 DEF TypeOK
<1> QED BY <1>1, Invariance, PTL

(***************************************************************************)
(* The two ways of counting an envelope give the same envelope; the mix is *)
(* that of the samples, for no unit changes its sample without asking for  *)
(* a new mix; and a length loaded in the cycle of a clock is the table's   *)
(* or does not touch a counter that runs.                                  *)
(***************************************************************************)
THEOREM UnitsAlwaysAgree == Spec => []UnitsAgree
<1>1. IInv => UnitsAgree
  <2>1. IInv => EnvelopesAlike
    BY DividersAgree DEF IInv, Types, EnvelopesAlike
  <2>2. IInv => MixCurrent
    BY DEF IInv
  <2> QED BY <2>1, <2>2, LoadsMeet DEF UnitsAgree
<1> QED BY <1>1, Invariance, PTL
=============================================================================

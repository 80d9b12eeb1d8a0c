------------------------- MODULE ApuSequencerProofs -------------------------
(***************************************************************************)
(* For every sequencer table: the fields keep their types, the sequencer   *)
(* never misses a step, and the prediction of the length clocks is right.  *)
(***************************************************************************)
EXTENDS ApuSequencer, TLAPS

(***************************************************************************)
(* The types of the APU's fields within a cycle.                           *)
(***************************************************************************)
Pending == {<<NoReg, 0>>} \cup PendingWrites

MidApu ==
  [counter : Nat, step : 0..4, mode : 0..1, inhibit : 0..1, check_2 : Nat,
   irq_assert : 0..2, irq : BOOLEAN, irq_flag : BOOLEAN,
   irq_clear_pending : BOOLEAN, seq_tick : 0..4, seq_val : (0..1) \X (0..1),
   pending : Pending, reload_countdown : 0..3, dmc_irq : BOOLEAN,
   dmc_irq_enabled : BOOLEAN, odd : BOOLEAN, strobed : BOOLEAN]

(***************************************************************************)
(* The counter is between the last step and the next, and the prediction   *)
(* is that of the mode.                                                    *)
(***************************************************************************)
OnTrack(a) ==
  /\ a.step <= Last(a.mode)
  /\ a.counter < Lut[a.step]
  /\ a.step > 0 => Lut[a.step - 1] <= a.counter
  /\ a.check_2 = Check2(a.mode)

-----------------------------------------------------------------------------
\* What LutAssumption says of the steps that matter.
LEMMA LutFacts ==
  /\ \A s \in 0..4 : Lut[s] \in Nat /\ Lut[s] > 3
  /\ \A s \in 0..3 : Lut[s] + 3 < Lut[s + 1]
  /\ Lut[1] < Lut[3] /\ Lut[3] < Lut[4] /\ Lut[2] < Lut[3] /\ Lut[0] < Lut[1] /\ Lut[1] < Lut[2]
<1>1. Lut \in [0..4 -> Nat] /\ Lut[0] > 3 /\ \A s \in 0..3 : Lut[s] + 3 < Lut[s + 1]
  BY LutAssumption
<1>2. Lut[0] \in Nat /\ Lut[1] \in Nat /\ Lut[2] \in Nat /\ Lut[3] \in Nat /\ Lut[4] \in Nat
  BY <1>1
<1>3. Lut[0] + 3 < Lut[1] /\ Lut[1] + 3 < Lut[2] /\ Lut[2] + 3 < Lut[3] /\ Lut[3] + 3 < Lut[4]
  <2>1. Lut[0] + 3 < Lut[0 + 1] /\ Lut[1] + 3 < Lut[1 + 1] /\ Lut[2] + 3 < Lut[2 + 1] /\ Lut[3] + 3 < Lut[3 + 1]
    BY <1>1
  <2> QED BY <2>1
<1>4. \A s \in 0..4 : Lut[s] \in Nat /\ Lut[s] > 3
  <2> TAKE s \in 0..4
  <2>1. s = 0 \/ s = 1 \/ s = 2 \/ s = 3 \/ s = 4
    OBVIOUS
  <2> QED BY <2>1, <1>1, <1>2, <1>3
<1> QED BY <1>1, <1>2, <1>3, <1>4

\* A counter that is on track is where the prediction looks for it exactly
\* when the sequencer's tick clocks the length counters.
LEMMA PredictionRight ==
  ASSUME NEW a \in MidApu, OnTrack(a)
  PROVE  LenClockActive(a) <=> TickHalf(a, a.counter + 1)
<1> DEFINE n == a.counter
           last == Last(a.mode)
<1>1. n \in Nat /\ a.step \in 0..4 /\ a.mode \in 0..1
  BY DEF MidApu
<1>2. /\ a.step <= last /\ n < Lut[a.step] /\ a.check_2 = Lut[last] - 2
      /\ a.step > 0 => Lut[a.step - 1] <= n
  BY DEF OnTrack, Check2
<1>3. last \in 3..4
  BY <1>1 DEF Last
<1>4. /\ LenClockActive(a) <=> n = Lut[1] - 1 \/ n = Lut[last] - 2
      /\ TickHalf(a, n + 1) <=> n + 1 = Lut[last] - 1 \/ (n + 1 = Lut[a.step] /\ a.step = 1)
  BY <1>2 DEF LenClockActive, Check1, TickHalf, AtStep
<1>5. Lut[1] \in Nat /\ Lut[last] \in Nat
  BY <1>3, LutFacts
<1>6. n = Lut[1] - 1 => a.step = 1
  <2> SUFFICES ASSUME n = Lut[1] - 1 PROVE a.step = 1
    OBVIOUS
  <2>1. a.step # 0
    BY <1>2, <1>5, LutFacts
  <2>2. ASSUME a.step \in 2..4 PROVE FALSE
    <3>1. a.step - 1 \in 1..3
      BY <2>2
    <3>2. Lut[a.step - 1] >= Lut[1]
      BY <3>1, LutFacts
    <3>3. Lut[a.step - 1] \in Nat
      BY <3>1, LutFacts
    <3> HIDE DEF n
    <3> QED BY <1>1, <1>2, <1>5, <2>2, <3>2, <3>3
  <2> QED BY <1>1, <2>1, <2>2
<1> QED BY <1>1, <1>4, <1>5, <1>6

\* The parts of RunOneLast before the sequencer's tick leave the counter alone.
LEMMA BeforeTickKeeps ==
  ASSUME NEW a \in MidApu, NEW ends \in BOOLEAN
  PROVE  /\ BeforeTick(a, ends) \in MidApu
         /\ BeforeTick(a, ends).counter = a.counter
         /\ BeforeTick(a, ends).step = a.step
         /\ BeforeTick(a, ends).mode = a.mode
         /\ BeforeTick(a, ends).check_2 = a.check_2
         /\ BeforeTick(a, ends).reload_countdown \in 0..2
<1> DEFINE b == StrobeOrClear(a)
           c == ReloadCountdown(b, ends)
<1>1. b \in MidApu /\ b.counter = a.counter /\ b.step = a.step /\ b.mode = a.mode /\ b.check_2 = a.check_2
  BY DEF StrobeOrClear, MidApu
<1> HIDE DEF b
<1>2. /\ c \in MidApu /\ c.counter = b.counter /\ c.step = b.step /\ c.mode = b.mode
      /\ c.check_2 = b.check_2 /\ c.reload_countdown \in 0..2
  <2> DEFINE irq == b.dmc_irq \/ (b.reload_countdown = 1 /\ ends /\ b.dmc_irq_enabled)
  <2>1. irq \in BOOLEAN
    OBVIOUS
  <2>2. b.reload_countdown \in 0..3
    BY <1>1 DEF MidApu
  <2>3. CASE b.reload_countdown = 0
    BY <1>1, <2>3 DEF ReloadCountdown
  <2>4. CASE b.reload_countdown # 0
    <3> DEFINE n == b.reload_countdown - 1
               d == [b EXCEPT !.reload_countdown = n, !.dmc_irq = irq]
    <3>1. c = d
      BY <2>4 DEF ReloadCountdown
    <3>2. n \in 0..3 /\ n \in 0..2
      BY <2>2, <2>4
    <3> HIDE DEF c, irq, n
    <3>3. /\ d \in MidApu /\ d.counter = b.counter /\ d.step = b.step /\ d.mode = b.mode
          /\ d.check_2 = b.check_2 /\ d.reload_countdown = n
      BY <1>1, <2>1, <3>2 DEF MidApu
    <3> HIDE DEF d
    <3> QED BY <3>1, <3>2, <3>3
  <2> QED BY <2>3, <2>4
<1> HIDE DEF c
<1>3. /\ ApplyWrite(c) \in MidApu /\ ApplyWrite(c).counter = c.counter
      /\ ApplyWrite(c).step = c.step /\ ApplyWrite(c).mode = c.mode
      /\ ApplyWrite(c).check_2 = c.check_2
      /\ ApplyWrite(c).reload_countdown = c.reload_countdown
  <2> DEFINE reg == c.pending[1]
             val == c.pending[2]
             n == IF reg = "4017" THEN IF c.odd THEN 4 ELSE 3 ELSE c.seq_tick
             v == IF reg = "4017" THEN val ELSE c.seq_val
             en == IF reg = "4010" THEN val ELSE c.dmc_irq_enabled
             irq == c.dmc_irq /\ reg # "4015" /\ ~(reg = "4010" /\ ~val)
  <2>1. CASE reg = NoReg \/ Waits(c)
    BY <1>2, <2>1 DEF ApplyWrite
  <2>2. CASE ~(reg = NoReg \/ Waits(c))
    <3>1. c.pending \in Pending /\ c.seq_tick \in 0..4 /\ c.seq_val \in (0..1) \X (0..1)
          /\ c.dmc_irq_enabled \in BOOLEAN
      BY <1>2 DEF MidApu
    <3>2. <<NoReg, 0>> \in Pending /\ n \in 0..4 /\ v \in (0..1) \X (0..1)
      BY <3>1 DEF Pending, PendingWrites, NoReg
    <3>3. en \in BOOLEAN
      BY <3>1 DEF Pending, PendingWrites, NoReg
    <3>4. irq \in BOOLEAN
      OBVIOUS
    <3>5. ApplyWrite(c) = [c EXCEPT !.pending = <<NoReg, 0>>, !.seq_tick = n, !.seq_val = v,
                                    !.dmc_irq_enabled = en, !.dmc_irq = irq]
      BY <2>2 DEF ApplyWrite
    <3> DEFINE d == [c EXCEPT !.pending = <<NoReg, 0>>, !.seq_tick = n, !.seq_val = v,
                              !.dmc_irq_enabled = en, !.dmc_irq = irq]
    <3> HIDE DEF n, v, en, irq, reg, val
    <3>6. /\ d \in MidApu
          /\ d.counter = c.counter /\ d.step = c.step /\ d.mode = c.mode /\ d.check_2 = c.check_2
          /\ d.reload_countdown = c.reload_countdown
      BY <1>2, <3>2, <3>3, <3>4 DEF MidApu
    <3>7. ApplyWrite(c) = d
      BY <3>5
    <3> HIDE DEF d
    <3> QED BY <3>6, <3>7
  <2> QED BY <2>1, <2>2
<1> QED BY <1>1, <1>2, <1>3 DEF BeforeTick, b, c

\* One tick of the sequencer: at a step the counter either starts over or has
\* the next step ahead of it, and otherwise it has not reached the step.
LEMMA TickOnTrack ==
  ASSUME NEW a \in MidApu, OnTrack(a)
  PROVE  LET b == SequencerTick(a) IN
         b \in MidApu /\ OnTrack(b) /\ b.reload_countdown = a.reload_countdown
<1> DEFINE c == a.counter + 1
           reset == AtStep(a, c) /\ a.step = Last(a.mode)
           raises == a.mode = 0 /\ a.inhibit = 0
           counter == IF reset THEN 0 ELSE c
           step == IF reset THEN 0 ELSE IF AtStep(a, c) THEN a.step + 1 ELSE a.step
           assert == IF raises /\ c = Lut[3] - 1 THEN 2 ELSE a.irq_assert
           flag == a.irq_flag \/ (raises /\ (c \in {Lut[3] - 2, Lut[3] - 1} \/ reset))
           b == [a EXCEPT !.counter = counter, !.step = step,
                          !.irq_assert = assert, !.irq_flag = flag]
<1>1. SequencerTick(a) = b
  BY DEF SequencerTick
<1>2. a.counter \in Nat /\ a.step \in 0..4 /\ a.mode \in 0..1 /\ a.irq_assert \in 0..2
  BY DEF MidApu
<1>3. Last(a.mode) \in 3..4
  BY <1>2 DEF Last
<1>4. a.step <= Last(a.mode) /\ a.counter < Lut[a.step] /\ (a.step > 0 => Lut[a.step - 1] <= a.counter)
  BY DEF OnTrack
<1>5. counter \in Nat /\ assert \in 0..2
  BY <1>2
<1>6. flag \in BOOLEAN
  OBVIOUS
<1>7. /\ step \in 0..4 /\ step <= Last(a.mode)
      /\ counter < Lut[step]
      /\ step > 0 => Lut[step - 1] <= counter
  <2>1. CASE reset
    BY <2>1, <1>3, LutFacts
  <2>2. CASE ~reset /\ AtStep(a, c)
    <3>1. step = a.step + 1 /\ counter = Lut[a.step] /\ a.step < Last(a.mode)
      BY <2>2, <1>2, <1>3, <1>4 DEF AtStep
    <3>2. a.step \in 0..3 /\ step - 1 = a.step
      BY <3>1, <1>2, <1>3
    <3>3. Lut[a.step] + 3 < Lut[a.step + 1] /\ Lut[a.step] \in Nat /\ Lut[a.step + 1] \in Nat
      <4>1. a.step + 1 \in 0..4
        BY <3>2
      <4> QED BY <3>2, <4>1, LutFacts
    <3> HIDE DEF step, counter
    <3> QED BY <3>1, <3>2, <3>3, <1>2, <1>3
  <2>3. CASE ~AtStep(a, c)
    <3>1. step = a.step /\ counter = a.counter + 1 /\ counter # Lut[a.step]
      BY <2>3 DEF AtStep
    <3>2. Lut[a.step] \in Nat
      BY <1>2, LutFacts
    <3>3. a.step > 0 => Lut[a.step - 1] \in Nat
      <4> SUFFICES ASSUME a.step > 0 PROVE Lut[a.step - 1] \in Nat
        OBVIOUS
      <4>1. a.step - 1 \in 0..4
        BY <1>2
      <4> QED BY <4>1, LutFacts
    <3> HIDE DEF step, counter
    <3> QED BY <3>1, <3>2, <3>3, <1>2, <1>4
  <2> QED BY <2>1, <2>2, <2>3
<1> HIDE DEF counter, step, assert, flag
<1>8. /\ b \in MidApu /\ b.counter = counter /\ b.step = step /\ b.mode = a.mode
      /\ b.check_2 = a.check_2 /\ b.reload_countdown = a.reload_countdown
  BY <1>5, <1>6, <1>7 DEF MidApu
<1> HIDE DEF b
<1> QED BY <1>1, <1>7, <1>8 DEF OnTrack

\* A $4017 write that takes effect starts the sequence over and moves the
\* prediction with the mode.
LEMMA WriteTickOnTrack ==
  ASSUME NEW a \in MidApu, OnTrack(a)
  PROVE  LET b == SequencerWriteTick(a) IN
         /\ b \in MidApu /\ OnTrack(b) /\ b.seq_tick \in 0..3
         /\ b.reload_countdown = a.reload_countdown
<1>1. a.seq_tick \in 0..4 /\ a.seq_val \in (0..1) \X (0..1)
  BY DEF MidApu
<1>2. CASE a.seq_tick = 0
  BY <1>2 DEF SequencerWriteTick
<1>3. CASE a.seq_tick # 0 /\ a.seq_tick # 1
  <2> DEFINE b == [a EXCEPT !.seq_tick = a.seq_tick - 1]
  <2>1. SequencerWriteTick(a) = b
    BY <1>3 DEF SequencerWriteTick, WriteTickDue
  <2>2. /\ b \in MidApu /\ b.seq_tick \in 0..3 /\ b.counter = a.counter /\ b.step = a.step
        /\ b.mode = a.mode /\ b.check_2 = a.check_2 /\ b.reload_countdown = a.reload_countdown
    BY <1>1, <1>3 DEF MidApu
  <2> HIDE DEF b
  <2> QED BY <2>1, <2>2 DEF OnTrack
<1>4. CASE a.seq_tick = 1
  <2> DEFINE mode == a.seq_val[1]
             inhibit == a.seq_val[2]
             flag == a.irq_flag /\ a.seq_val[2] = 0
             check == Check2(a.seq_val[1])
             zero == 0
             b == [a EXCEPT !.seq_tick = zero, !.mode = mode, !.inhibit = inhibit,
                            !.irq_flag = flag, !.counter = zero, !.step = zero,
                            !.check_2 = check]
  <2>1. SequencerWriteTick(a) = b
    BY <1>4 DEF SequencerWriteTick, WriteTickDue
  <2>2. mode \in 0..1 /\ inhibit \in 0..1 /\ flag \in BOOLEAN /\ zero \in 0..4 /\ zero \in Nat
    BY <1>1
  <2>3. check \in Nat
    BY <2>2, LutFacts DEF Check2, Last
  <2> HIDE DEF inhibit, flag
  <2>4. /\ b \in MidApu /\ b.seq_tick = 0 /\ b.counter = 0 /\ b.step = 0 /\ b.mode = mode
        /\ b.check_2 = Check2(mode) /\ b.reload_countdown = a.reload_countdown
    <3> HIDE DEF mode, check, zero
    <3>1. /\ b \in MidApu /\ b.seq_tick = zero /\ b.counter = zero /\ b.step = zero
          /\ b.mode = mode /\ b.check_2 = check /\ b.reload_countdown = a.reload_countdown
      BY <2>2, <2>3 DEF MidApu
    <3> HIDE DEF b
    <3> QED BY <3>1 DEF check, mode, zero
  <2> HIDE DEF b, mode
  <2>5. Last(mode) \in 3..4
    BY <2>2 DEF Last
  <2> QED BY <2>1, <2>4, <2>5, LutFacts DEF OnTrack
<1> QED BY <1>1, <1>2, <1>3, <1>4

\* Asserting and dropping the interrupt touch neither the counter nor any
\* countdown but irq_assert.
LEMMA AssertAndDropKeep ==
  ASSUME NEW a \in MidApu
  PROVE  LET b == DropIrq(AssertIrq(a)) IN
         /\ b \in MidApu
         /\ b.counter = a.counter /\ b.step = a.step /\ b.mode = a.mode /\ b.check_2 = a.check_2
         /\ b.seq_tick = a.seq_tick /\ b.reload_countdown = a.reload_countdown
         /\ SyncIRQ(b) => SyncIRQ(AssertIrq(a))
         /\ SyncIRQ(AssertIrq(a)) \in BOOLEAN
<1> DEFINE n == IF a.irq_assert > 0 THEN a.irq_assert - 1 ELSE 0
           irq == a.irq \/ a.irq_assert = 1
           b == [a EXCEPT !.irq_assert = n, !.irq = irq]
           drop == b.irq /\ b.irq_flag
           c == [b EXCEPT !.irq = drop]
<1>1. AssertIrq(a) = b
  BY DEF AssertIrq
<1>2. DropIrq(b) = c
  BY DEF DropIrq
<1>3. n \in 0..2
  BY DEF MidApu
<1>4. irq \in BOOLEAN /\ drop \in BOOLEAN
  OBVIOUS
<1>5. drop => b.irq
  OBVIOUS
<1> HIDE DEF n, irq, drop
<1>6. /\ b \in MidApu
      /\ b.counter = a.counter /\ b.step = a.step /\ b.mode = a.mode /\ b.check_2 = a.check_2
      /\ b.seq_tick = a.seq_tick /\ b.reload_countdown = a.reload_countdown
  BY <1>3, <1>4 DEF MidApu
<1> HIDE DEF b
<1>7. /\ c \in MidApu
      /\ c.irq = drop /\ c.dmc_irq = b.dmc_irq
      /\ c.counter = b.counter /\ c.step = b.step /\ c.mode = b.mode /\ c.check_2 = b.check_2
      /\ c.seq_tick = b.seq_tick /\ c.reload_countdown = b.reload_countdown
  BY <1>4, <1>6 DEF MidApu
<1>8. /\ SyncIRQ(c) => SyncIRQ(b)
      /\ SyncIRQ(b) \in BOOLEAN
  BY <1>5, <1>6, <1>7 DEF SyncIRQ, MidApu
<1> QED BY <1>1, <1>2, <1>6, <1>7, <1>8

(***************************************************************************)
(* Between two cycles the delayed write and the reload have less to go.    *)
(***************************************************************************)
Settled(a) == a \in MidApu /\ a.seq_tick \in 0..3 /\ a.reload_countdown \in 0..2

\* The full body of RunOneLast keeps the sequencer on track, and leaves no
\* interrupt that is not on the line.
LEMMA SlowBodyOnTrack ==
  ASSUME NEW a \in MidApu, OnTrack(a), NEW ends \in BOOLEAN
  PROVE  /\ Settled(SlowBody(a, ends).apu) /\ OnTrack(SlowBody(a, ends).apu)
         /\ SyncIRQ(SlowBody(a, ends).apu) => SlowBody(a, ends).line
         /\ SlowBody(a, ends).line \in BOOLEAN
<1> DEFINE b == BeforeTick(a, ends)
           c == SequencerTick(b)
           d == SequencerWriteTick(c)
           e == DropIrq(AssertIrq(d))
<1>1. b \in MidApu /\ OnTrack(b) /\ b.reload_countdown \in 0..2
  <2> HIDE DEF b
  <2> QED BY BeforeTickKeeps DEF OnTrack, b
<1> HIDE DEF b
<1>2. c \in MidApu /\ OnTrack(c) /\ c.reload_countdown \in 0..2
  BY <1>1, TickOnTrack
<1> HIDE DEF c
<1>3. d \in MidApu /\ OnTrack(d) /\ d.seq_tick \in 0..3 /\ d.reload_countdown \in 0..2
  BY <1>2, WriteTickOnTrack
<1> HIDE DEF d
<1>4. /\ e \in MidApu
      /\ e.counter = d.counter /\ e.step = d.step /\ e.mode = d.mode /\ e.check_2 = d.check_2
      /\ e.seq_tick = d.seq_tick /\ e.reload_countdown = d.reload_countdown
      /\ SyncIRQ(e) => SyncIRQ(AssertIrq(d))
      /\ SyncIRQ(AssertIrq(d)) \in BOOLEAN
  BY <1>3, AssertAndDropKeep
<1>5. SlowBody(a, ends).apu = e /\ SlowBody(a, ends).line = SyncIRQ(AssertIrq(d))
  BY DEF SlowBody, b, c, d
<1> HIDE DEF e
<1>6. OnTrack(e)
  BY <1>3, <1>4 DEF OnTrack
<1> QED BY <1>3, <1>4, <1>5, <1>6 DEF Settled

\* Where the fast path is taken the counter does not reach its step.
LEMMA FastBodyOnTrack ==
  ASSUME NEW a \in MidApu, OnTrack(a), Quiescent(a)
  PROVE  Settled(FastBody(a)) /\ OnTrack(FastBody(a))
<1> DEFINE c == a.counter + 1
           b == [a EXCEPT !.counter = c]
<1>1. FastBody(a) = b
  BY DEF FastBody
<1>2. a.counter \in Nat /\ a.step \in 0..4 /\ c \in Nat
  BY DEF MidApu
<1>3. a.seq_tick = 0 /\ a.reload_countdown = 0
  BY DEF Quiescent
<1>4. c # Lut[a.step]
  BY DEF Quiescent, SeqEvent
<1>5. Lut[a.step] \in Nat /\ (a.step > 0 => Lut[a.step - 1] \in Nat)
  <2>1. a.step > 0 => a.step - 1 \in 0..4
    BY <1>2
  <2> QED BY <1>2, <2>1, LutFacts
<1>6. c < Lut[a.step] /\ (a.step > 0 => Lut[a.step - 1] <= c)
  BY <1>2, <1>4, <1>5 DEF OnTrack
<1>7. /\ b \in MidApu /\ b.counter = c /\ b.step = a.step /\ b.mode = a.mode
      /\ b.check_2 = a.check_2 /\ b.seq_tick = a.seq_tick
      /\ b.reload_countdown = a.reload_countdown
  <2> HIDE DEF c
  <2> QED BY <1>2 DEF MidApu
<1> HIDE DEF b
<1> QED BY <1>1, <1>3, <1>6, <1>7 DEF OnTrack, Settled

\* What comes before RunOneLast in a cycle leaves the counter alone.
LEMMA AccessedOnTrack ==
  ASSUME NEW a, Settled(a), OnTrack(a),
         NEW fetch \in BOOLEAN, NEW read4015 \in BOOLEAN, NEW write \in Writes
  PROVE  LET b == Accessed(a, fetch, read4015, write) IN
         b \in MidApu /\ OnTrack(b) /\ b.irq = a.irq /\ b.dmc_irq = a.dmc_irq /\ b.seq_tick \in 0..3
<1> DEFINE n == IF fetch THEN 3 ELSE a.reload_countdown
           odd == ~a.odd
           clear == a.irq_clear_pending \/ read4015
           strobed == a.strobed \/ write[1] = "4016"
           p == IF write \in PendingWrites THEN write ELSE a.pending
           b == [a EXCEPT !.reload_countdown = n, !.odd = odd, !.irq_clear_pending = clear]
           c == [b EXCEPT !.strobed = strobed, !.pending = p]
<1>1. a \in MidApu
  BY DEF Settled
<1>2. n \in 0..3 /\ p \in Pending
  BY <1>1 DEF MidApu, Pending
<1>3. odd \in BOOLEAN /\ clear \in BOOLEAN /\ strobed \in BOOLEAN
  OBVIOUS
<1>4. Accessed(a, fetch, read4015, write) = c
  BY <1>1 DEF Accessed, MidApu
<1> HIDE DEF n, odd, clear, strobed, p
<1>5. /\ b \in MidApu /\ b.counter = a.counter /\ b.step = a.step /\ b.mode = a.mode
      /\ b.check_2 = a.check_2 /\ b.irq = a.irq /\ b.dmc_irq = a.dmc_irq
      /\ b.seq_tick = a.seq_tick
  BY <1>1, <1>2, <1>3 DEF MidApu
<1> HIDE DEF b
<1>6. /\ c \in MidApu /\ c.counter = b.counter /\ c.step = b.step /\ c.mode = b.mode
      /\ c.check_2 = b.check_2 /\ c.irq = b.irq /\ c.dmc_irq = b.dmc_irq
      /\ c.seq_tick = b.seq_tick
  BY <1>2, <1>3, <1>5 DEF MidApu
<1> HIDE DEF c
<1> QED BY <1>4, <1>5, <1>6 DEF OnTrack, Settled

\* A reset starts the sequence over in the mode that was last written.
LEMMA RestartOnTrack ==
  ASSUME NEW a, Settled(a)
  PROVE  LET b == [a EXCEPT
                    !.irq = FALSE, !.irq_flag = FALSE, !.dmc_irq = FALSE,
                    !.mode = a.seq_val[1], !.inhibit = a.seq_val[2],
                    !.counter = 0, !.step = 0, !.check_2 = Check2(a.seq_val[1])] IN
         Settled(b) /\ OnTrack(b) /\ ~SyncIRQ(b)
<1> DEFINE mode == a.seq_val[1]
           inhibit == a.seq_val[2]
           check == Check2(mode)
           zero == 0
           no == FALSE
           b == [a EXCEPT !.irq = no, !.irq_flag = no, !.dmc_irq = no,
                          !.mode = mode, !.inhibit = inhibit]
           c == [b EXCEPT !.counter = zero, !.step = zero, !.check_2 = check]
<1>1. a \in MidApu /\ a.seq_tick \in 0..3 /\ a.reload_countdown \in 0..2
  BY DEF Settled
<1>2. mode \in 0..1 /\ inhibit \in 0..1 /\ zero \in Nat /\ zero \in 0..4 /\ no \in BOOLEAN
  BY <1>1 DEF MidApu
<1>3. check \in Nat /\ Last(mode) \in 3..4
  BY <1>2, LutFacts DEF Check2, Last
<1>4. zero = 0 /\ ~no /\ check = Check2(mode)
  OBVIOUS
<1>5. c = [a EXCEPT
            !.irq = FALSE, !.irq_flag = FALSE, !.dmc_irq = FALSE,
            !.mode = a.seq_val[1], !.inhibit = a.seq_val[2],
            !.counter = 0, !.step = 0, !.check_2 = Check2(a.seq_val[1])]
  BY <1>1 DEF MidApu
<1> HIDE DEF mode, inhibit, check, zero, no
<1>6. /\ b \in MidApu /\ b.irq = no /\ b.dmc_irq = no /\ b.mode = mode
      /\ b.seq_tick = a.seq_tick /\ b.reload_countdown = a.reload_countdown
  BY <1>1, <1>2 DEF MidApu
<1> HIDE DEF b
<1>7. /\ c \in MidApu /\ c.irq = b.irq /\ c.dmc_irq = b.dmc_irq /\ c.mode = b.mode
      /\ c.counter = zero /\ c.step = zero /\ c.check_2 = check
      /\ c.seq_tick = b.seq_tick /\ c.reload_countdown = b.reload_countdown
  BY <1>2, <1>3, <1>6 DEF MidApu
<1> HIDE DEF c
<1>8. Settled(c)
  BY <1>1, <1>6, <1>7 DEF Settled
<1>9. OnTrack(c) /\ ~SyncIRQ(c)
  BY <1>3, <1>4, <1>6, <1>7, LutFacts DEF OnTrack, SyncIRQ
<1> QED BY <1>5, <1>8, <1>9

\* A new APU has counted two cycles of the 4-step sequence.
LEMMA NewApuOnTrack ==
  ASSUME NEW strobed \in BOOLEAN
  PROVE  LET b == [NewApu EXCEPT !.strobed = strobed] IN
         /\ Settled(b) /\ OnTrack(b) /\ ~SyncIRQ(b)
         /\ Settled(NewApu) /\ OnTrack(NewApu) /\ ~SyncIRQ(NewApu)
<1>1. Lut[0] \in Nat /\ Lut[0] > 3 /\ Lut[3] \in Nat /\ Lut[3] > 3
  BY LutFacts
<1> DEFINE check == Lut[3] - 2
           val == <<0, 0>>
           p == <<NoReg, 0>>
           b == [NewApu EXCEPT !.strobed = strobed]
<1>2. check \in Nat /\ val \in (0..1) \X (0..1) /\ p \in Pending
  BY <1>1 DEF Pending
<1>3. NewApu =
          [counter |-> 2, step |-> 0, mode |-> 0, inhibit |-> 0, check_2 |-> check,
           irq_assert |-> 0, irq |-> FALSE, irq_flag |-> FALSE, irq_clear_pending |-> FALSE,
           seq_tick |-> 0, seq_val |-> val,
           pending |-> p, reload_countdown |-> 0, dmc_irq |-> FALSE,
           dmc_irq_enabled |-> FALSE, odd |-> FALSE, strobed |-> FALSE]
  BY DEF NewApu
<1>4. check = Check2(0) /\ Last(0) = 3
  BY DEF Check2, Last
<1> HIDE DEF check, val, p
<1>5. /\ NewApu \in MidApu /\ NewApu.counter = 2 /\ NewApu.step = 0 /\ NewApu.mode = 0
      /\ NewApu.check_2 = check /\ NewApu.irq = FALSE /\ NewApu.dmc_irq = FALSE
      /\ NewApu.seq_tick = 0 /\ NewApu.reload_countdown = 0
  BY <1>2, <1>3 DEF MidApu
<1>6. /\ b \in MidApu /\ b.counter = 2 /\ b.step = 0 /\ b.mode = 0
      /\ b.check_2 = check /\ b.irq = FALSE /\ b.dmc_irq = FALSE
      /\ b.seq_tick = 0 /\ b.reload_countdown = 0
  BY <1>5 DEF MidApu
<1> HIDE DEF b
<1>7. Settled(b) /\ ~SyncIRQ(b)
  BY <1>6 DEF Settled, SyncIRQ
<1>8. OnTrack(b)
  BY <1>1, <1>4, <1>6 DEF OnTrack
<1>9. Settled(NewApu) /\ OnTrack(NewApu) /\ ~SyncIRQ(NewApu)
  BY <1>1, <1>4, <1>5 DEF Settled, OnTrack, SyncIRQ
<1> QED BY <1>7, <1>8, <1>9 DEF b

\* Writing what is already there changes nothing.
LEMMA SameFields ==
  ASSUME NEW a \in MidApu
  PROVE  /\ \A x : x = a.strobed => [a EXCEPT !.strobed = x] = a
         /\ \A x, y : x = a.irq_clear_pending /\ y = a.irq_flag =>
              [a EXCEPT !.irq_clear_pending = x, !.irq_flag = y] = a
         /\ \A x, y : x = a.irq_assert /\ y = a.irq =>
              [a EXCEPT !.irq_assert = x, !.irq = y] = a
         /\ \A x : x = a.irq => [a EXCEPT !.irq = x] = a
         /\ \A c, x, y, z : x = a.step /\ y = a.irq_assert /\ z = a.irq_flag =>
              [a EXCEPT !.counter = c, !.step = x, !.irq_assert = y, !.irq_flag = z]
                = [a EXCEPT !.counter = c]
BY DEF MidApu

\* Where nothing is due the parts of RunOneLast before the tick do nothing.
LEMMA NothingBeforeTick ==
  ASSUME NEW a \in MidApu, Quiescent(a), NEW ends
  PROVE  BeforeTick(a, ends) = a
<1>1. a.strobed = FALSE /\ a.irq_clear_pending = FALSE
  BY DEF Quiescent, MidApu
<1>2. StrobeOrClear(a) = a
  <2> DEFINE flag == a.irq_flag /\ ~a.irq_clear_pending
             no == FALSE
  <2>1. flag = a.irq_flag /\ no = a.irq_clear_pending
    BY <1>1 DEF MidApu
  <2>2. CASE a.odd
    BY <1>1, <2>2, SameFields DEF StrobeOrClear
  <2>3. CASE ~a.odd
    <3>1. StrobeOrClear(a) = [a EXCEPT !.irq_clear_pending = no, !.irq_flag = flag]
      BY <2>3 DEF StrobeOrClear
    <3> HIDE DEF flag, no
    <3>2. [a EXCEPT !.irq_clear_pending = no, !.irq_flag = flag] = a
      BY <2>1, SameFields
    <3> QED BY <3>1, <3>2
  <2> QED BY <2>2, <2>3
<1>3. ReloadCountdown(a, ends) = a
  BY DEF ReloadCountdown, Quiescent
<1>4. ApplyWrite(a) = a
  BY DEF ApplyWrite, Quiescent
<1> QED BY <1>2, <1>3, <1>4 DEF BeforeTick

\* Where the fast path is taken the body it skips would only have counted.
LEMMA FastPathExact ==
  ASSUME NEW a \in MidApu, Quiescent(a), NEW ends
  PROVE  /\ SlowBody(a, ends).apu = FastBody(a)
         /\ SlowClocks(a, ends).half = 0
         /\ SlowClocks(a, ends).quarter = 0
<1> DEFINE c == a.counter + 1
           b == FastBody(a)
           reset == AtStep(a, c) /\ a.step = Last(a.mode)
           raises == a.mode = 0 /\ a.inhibit = 0
<1>1. BeforeTick(a, ends) = a
  BY NothingBeforeTick
<1>2. a.mode \in 0..1 /\ a.counter \in Nat /\ a.irq_assert = 0 /\ a.seq_tick = 0
  BY DEF MidApu, Quiescent
<1>3. /\ ~AtStep(a, c)
      /\ c # Lut[Last(a.mode)] - 1
      /\ raises => c \notin {Lut[3] - 2, Lut[3] - 1}
  BY <1>2 DEF Quiescent, SeqEvent, AtStep, Last
<1>4. SequencerTick(a) = b
  <2> DEFINE counter == IF reset THEN 0 ELSE c
             step == IF reset THEN 0 ELSE IF AtStep(a, c) THEN a.step + 1 ELSE a.step
             assert == IF raises /\ c = Lut[3] - 1 THEN 2 ELSE a.irq_assert
             flag == a.irq_flag \/ (raises /\ (c \in {Lut[3] - 2, Lut[3] - 1} \/ reset))
  <2>1. counter = c /\ step = a.step /\ assert = a.irq_assert
    BY <1>3
  <2>2. flag = a.irq_flag
    BY <1>3 DEF MidApu
  <2>3. SequencerTick(a) = [a EXCEPT !.counter = counter, !.step = step,
                                     !.irq_assert = assert, !.irq_flag = flag]
    BY DEF SequencerTick
  <2>4. b = [a EXCEPT !.counter = c]
    BY DEF FastBody
  <2> HIDE DEF counter, step, assert, flag, b, c
  <2> QED BY <2>1, <2>2, <2>3, <2>4, SameFields
<1>5. /\ b \in MidApu /\ b.seq_tick = 0 /\ b.irq_assert = 0
      /\ b.irq = a.irq /\ b.irq_flag = a.irq_flag
  <2> DEFINE d == [a EXCEPT !.counter = c]
  <2>1. c \in Nat /\ b = d
    BY <1>2 DEF FastBody
  <2> HIDE DEF c, b
  <2>2. /\ d \in MidApu /\ d.seq_tick = a.seq_tick /\ d.irq_assert = a.irq_assert
        /\ d.irq = a.irq /\ d.irq_flag = a.irq_flag
    BY <2>1 DEF MidApu
  <2> HIDE DEF d
  <2> QED BY <1>2, <2>1, <2>2
<1> HIDE DEF b
<1>6. SequencerWriteTick(b) = b
  BY <1>5 DEF SequencerWriteTick
<1>7. AssertIrq(b) = b
  <2> DEFINE n == IF b.irq_assert > 0 THEN b.irq_assert - 1 ELSE 0
             irq == b.irq \/ b.irq_assert = 1
  <2>1. n = b.irq_assert
    BY <1>5
  <2>2. irq = b.irq
    BY <1>5 DEF MidApu
  <2>3. AssertIrq(b) = [b EXCEPT !.irq_assert = n, !.irq = irq]
    BY DEF AssertIrq
  <2> HIDE DEF n, irq
  <2> QED BY <1>5, <2>1, <2>2, <2>3, SameFields
<1>8. DropIrq(b) = b
  <2> DEFINE irq == b.irq /\ b.irq_flag
  <2>1. a.irq => a.irq_flag
    BY DEF Quiescent
  <2>2. irq = b.irq
    BY <1>5, <2>1 DEF MidApu
  <2>3. DropIrq(b) = [b EXCEPT !.irq = irq]
    BY DEF DropIrq
  <2> HIDE DEF irq
  <2> QED BY <1>5, <2>2, <2>3, SameFields
<1>9. SlowBody(a, ends).apu = b
  BY <1>1, <1>4, <1>6, <1>7, <1>8 DEF SlowBody
<1>10. SlowClocks(a, ends).half = 0 /\ SlowClocks(a, ends).quarter = 0
  BY <1>1, <1>2, <1>3 DEF SlowClocks, TickHalf, TickQuarter, WriteTickDue
<1> QED BY <1>9, <1>10 DEF b
-----------------------------------------------------------------------------
\* The body clocks the channels once: the extra clock of a $4017 write gives
\* way to the sequencer's own.
LEMMA SlowClocksOnce ==
  ASSUME NEW a, NEW ends
  PROVE  /\ SlowClocks(a, ends) \in [quarter : 0..1, half : 0..1, load : BOOLEAN, predicted : BOOLEAN]
<1> DEFINE b == BeforeTick(a, ends)
           c == b.counter + 1
           half == TickHalf(b, c)
           quarter == TickQuarter(b, c)
           extra == WriteTickDue(b) /\ b.seq_val[1] = 1 /\ ~(half \/ quarter)
           q == (IF quarter THEN 1 ELSE 0) + (IF extra THEN 1 ELSE 0)
           h == (IF half THEN 1 ELSE 0) + (IF extra THEN 1 ELSE 0)
           load == LoadsLength(a)
           predicted == LenClockActive(a)
<1>1. SlowClocks(a, ends) = [quarter |-> q, half |-> h, load |-> load, predicted |-> predicted]
  BY DEF SlowClocks
<1>2. q \in 0..1 /\ h \in 0..1
  OBVIOUS
<1>3. load \in BOOLEAN /\ predicted \in BOOLEAN
  BY DEF LoadsLength, LenClockActive
<1> HIDE DEF q, h, load, predicted
<1> QED BY <1>1, <1>2, <1>3
-----------------------------------------------------------------------------
(***************************************************************************)
(* The inductive invariant.  TypeOK alone is not inductive: that the step  *)
(* stays within 0..4 needs the counter to be where OnTrack says.           *)
(***************************************************************************)
CpuType == [again : {w[1] : w \in Writes}, gap : 0..WriteGap]
ClocksType == [quarter : 0..1, half : 0..1, load : BOOLEAN, predicted : BOOLEAN]

IInv ==
  /\ Settled(apu)
  /\ OnTrack(apu)
  /\ NoIrqLost
  /\ line \in BOOLEAN
  /\ cpu \in CpuType
  /\ clocks \in ClocksType
  /\ resets \in 0..MaxResets

\* The pace of the CPU stays within its type.
LEMMA PaceTyped ==
  /\ [again |-> NoReg, gap |-> WriteGap] \in CpuType
  /\ [again |-> NoReg, gap |-> 0] \in CpuType
  /\ \A write \in Writes : cpu \in CpuType => CpuPace(write) \in CpuType
<1>1. NoWrite \in Writes /\ NoWrite[1] = NoReg
  BY DEF Writes, NoWrite
<1>2. NoReg \in {w[1] : w \in Writes}
  BY <1>1
<1>3. WriteGap \in 0..WriteGap /\ 0 \in 0..WriteGap
  BY DEF WriteGap
<1>4. ASSUME NEW write \in Writes, cpu \in CpuType
      PROVE  CpuPace(write) \in CpuType
  <2>1. write[1] \in {w[1] : w \in Writes}
    OBVIOUS
  <2>2. cpu.gap \in 0..WriteGap /\ (cpu.gap # 0 => cpu.gap - 1 \in 0..WriteGap)
    BY <1>4 DEF CpuType, WriteGap
  <2>3. CASE write # NoWrite
    BY <1>2, <1>3, <2>1, <2>3 DEF CpuPace, CpuType
  <2>4. CASE write = NoWrite
    BY <1>2, <1>3, <2>2, <2>4 DEF CpuPace, CpuType
  <2> QED BY <2>3, <2>4
<1> QED BY <1>2, <1>3, <1>4 DEF CpuType

\* No cycle without the full body clocks anything.
LEMMA NoClocksTyped == NoClocks \in ClocksType
BY DEF NoClocks, ClocksType

\* The invariant holds of a new machine.
LEMMA InitIInv == Init => IInv
<1> SUFFICES ASSUME Init PROVE IInv
  OBVIOUS
<1>1. Settled(NewApu) /\ OnTrack(NewApu) /\ ~SyncIRQ(NewApu)
  BY NewApuOnTrack
<1>2. apu = NewApu /\ line = FALSE /\ clocks = NoClocks /\ resets = 0
      /\ cpu = [again |-> NoReg, gap |-> 0]
  BY DEF Init
<1>3. resets \in 0..MaxResets
  BY <1>2, ResetsAssumption
<1> QED BY <1>1, <1>2, <1>3, PaceTyped, NoClocksTyped DEF IInv, NoIrqLost

\* A CPU cycle keeps the invariant, on the fast path and off it.
LEMMA CycleIInv == IInv /\ Cycle => IInv'
<1> SUFFICES ASSUME IInv, NEW fetch \in BOOLEAN, NEW read4015 \in BOOLEAN,
                    NEW ends \in BOOLEAN, NEW write \in Writes,
                    CpuCycle(fetch, read4015, write, ends)
             PROVE  IInv'
  BY DEF Cycle
<1> DEFINE b == Accessed(apu, fetch, read4015, write)
<1>1. b \in MidApu /\ OnTrack(b) /\ b.irq = apu.irq /\ b.dmc_irq = apu.dmc_irq
  BY AccessedOnTrack DEF IInv
<1>2. RunOneLast(b, ends)
  BY DEF CpuCycle
<1>3. resets' \in 0..MaxResets /\ cpu' \in CpuType
  BY PaceTyped DEF CpuCycle, IInv
<1> HIDE DEF b
<1>4. CASE Quiescent(b)
  <2>1. apu' = FastBody(b) /\ clocks' = NoClocks /\ line' = line
    BY <1>2, <1>4 DEF RunOneLast
  <2>2. Settled(FastBody(b)) /\ OnTrack(FastBody(b))
    BY <1>1, <1>4, FastBodyOnTrack
  <2>3. FastBody(b).irq = b.irq /\ FastBody(b).dmc_irq = b.dmc_irq
    BY <1>1 DEF FastBody, MidApu
  <2>4. NoIrqLost'
    BY <1>1, <2>1, <2>3 DEF IInv, NoIrqLost, SyncIRQ
  <2> QED BY <1>3, <2>1, <2>2, <2>4, NoClocksTyped DEF IInv
<1>5. CASE ~Quiescent(b)
  <2>1. /\ apu' = SlowBody(b, ends).apu /\ line' = SlowBody(b, ends).line
        /\ clocks' = SlowClocks(b, ends)
    BY <1>2, <1>5 DEF RunOneLast
  <2>2. /\ Settled(SlowBody(b, ends).apu) /\ OnTrack(SlowBody(b, ends).apu)
        /\ SyncIRQ(SlowBody(b, ends).apu) => SlowBody(b, ends).line
        /\ SlowBody(b, ends).line \in BOOLEAN
    BY <1>1, SlowBodyOnTrack
  <2>3. SlowClocks(b, ends) \in ClocksType
    BY SlowClocksOnce DEF ClocksType
  <2> QED BY <1>3, <2>1, <2>2, <2>3 DEF IInv, NoIrqLost
<1> QED BY <1>4, <1>5

\* So does a soft reset,
LEMMA SoftResetIInv == IInv /\ SoftReset => IInv'
<1> SUFFICES ASSUME IInv, SoftReset PROVE IInv'
  OBVIOUS
<1>1. Settled(apu)
  BY DEF IInv
<1>2. Settled(apu') /\ OnTrack(apu') /\ ~SyncIRQ(apu')
  BY <1>1, RestartOnTrack DEF SoftReset
<1>3. /\ line' = line /\ clocks' = NoClocks /\ resets' = resets + 1 /\ resets < MaxResets
      /\ cpu' = [again |-> NoReg, gap |-> WriteGap]
  BY DEF SoftReset
<1>4. resets' \in 0..MaxResets
  BY <1>3, ResetsAssumption DEF IInv
<1> QED BY <1>2, <1>3, <1>4, PaceTyped, NoClocksTyped DEF IInv, NoIrqLost

\* and a hard one.
LEMMA HardResetIInv == IInv /\ HardReset => IInv'
<1> SUFFICES ASSUME IInv, HardReset PROVE IInv'
  OBVIOUS
<1>1. apu.strobed \in BOOLEAN
  BY DEF IInv, Settled, MidApu
<1>2. Settled(apu') /\ OnTrack(apu') /\ ~SyncIRQ(apu')
  BY <1>1, NewApuOnTrack DEF HardReset
<1>3. /\ line' = line /\ clocks' = NoClocks /\ resets' = resets + 1 /\ resets < MaxResets
      /\ cpu' = [again |-> NoReg, gap |-> WriteGap]
  BY DEF HardReset
<1>4. resets' \in 0..MaxResets
  BY <1>3, ResetsAssumption DEF IInv
<1> QED BY <1>2, <1>3, <1>4, PaceTyped, NoClocksTyped DEF IInv, NoIrqLost

\* The invariant of the specification.
LEMMA Invariance == Spec => []IInv
<1>1. Init => IInv
  BY InitIInv
<1>2. IInv /\ [Next]_vars => IInv'
  <2> SUFFICES ASSUME IInv, [Next]_vars PROVE IInv'
    OBVIOUS
  <2>1. CASE Cycle
    BY <2>1, CycleIInv
  <2>2. CASE SoftReset
    BY <2>2, SoftResetIInv
  <2>3. CASE HardReset
    BY <2>3, HardResetIInv
  <2>4. CASE UNCHANGED vars
    BY <2>4 DEF IInv, vars, NoIrqLost
  <2> QED BY <2>1, <2>2, <2>3, <2>4 DEF Next
<1> QED BY <1>1, <1>2, PTL DEF Spec
-----------------------------------------------------------------------------
\* For every table and every number of resets the fields keep their types.
THEOREM TypeCorrect == Spec => []TypeOK
<1>1. IInv => TypeOK
  <2> SUFFICES ASSUME IInv PROVE TypeOK
    OBVIOUS
  <2>1. apu \in MidApu /\ apu.seq_tick \in 0..3 /\ apu.reload_countdown \in 0..2
    BY DEF IInv, Settled
  <2>2. apu \in [counter : Nat, step : 0..4, mode : 0..1, inhibit : 0..1, check_2 : Nat,
                 irq_assert : 0..2, irq : BOOLEAN, irq_flag : BOOLEAN,
                 irq_clear_pending : BOOLEAN, seq_tick : 0..3, seq_val : (0..1) \X (0..1),
                 pending : Pending,
                 reload_countdown : 0..2, dmc_irq : BOOLEAN,
                 dmc_irq_enabled : BOOLEAN, odd : BOOLEAN, strobed : BOOLEAN]
    BY <2>1 DEF MidApu
  <2>3. clocks \in [quarter : 0..2, half : 0..2, load : BOOLEAN, predicted : BOOLEAN]
    BY DEF IInv, ClocksType
  <2> QED BY <2>2, <2>3 DEF IInv, TypeOK, Pending, CpuType
<1> QED BY <1>1, Invariance, PTL

\* For every table whose steps are more than three cycles apart, the counter
\* never runs past a step of the sequence.
THEOREM NeverMissesAStep == Spec => []NoStepMissed
<1>1. IInv => NoStepMissed
  BY DEF IInv, OnTrack, NoStepMissed
<1> QED BY <1>1, Invariance, PTL

\* For every such table len_clock_active is exactly the length clock of
\* sequencer_tick, in either mode and right after a change of mode.
THEOREM PredictionAlwaysRight == Spec => []PredictionMatchesTick
<1>1. IInv => PredictionMatchesTick
  BY PredictionRight DEF IInv, Settled, PredictionMatchesTick
<1> QED BY <1>1, Invariance, PTL

\* However a $4017 write, a soft or a hard reset meets it, an interrupt that
\* the APU holds is on the line.
THEOREM InterruptsReachTheLine == Spec => []NoIrqLost
<1>1. IInv => NoIrqLost
  BY DEF IInv
<1> QED BY <1>1, Invariance, PTL

\* No cycle clocks the length counters or the envelopes twice.
THEOREM NeverClockedTwice == Spec => []ClockedAtMostOnce
<1>1. IInv => ClockedAtMostOnce
  BY DEF IInv, ClocksType, ClockedAtMostOnce
<1> QED BY <1>1, Invariance, PTL

\* The channels' length counters are clocked where the prediction says so, and
\* never twice.
THEOREM ClocksAlwaysExact == Spec => []ClocksExact
<1>1. PredictionMatchesTick /\ ClockedAtMostOnce => ClocksExact
  BY DEF ClocksExact
<1> QED BY PredictionAlwaysRight, NeverClockedTwice, <1>1, PTL

\* Whenever RunOneLast takes its fast path, the body it skips would have left
\* every field but the counter alone and clocked no channel.
THEOREM FastPathSkipsNothing == Spec => []FastPathKeepsState
<1>1. IInv => FastPathKeepsState
  <2> SUFFICES ASSUME IInv, NEW a \in BeforeLast, Quiescent(a)
               PROVE  /\ SlowBody(a, TRUE).apu = FastBody(a)
                      /\ SlowClocks(a, TRUE).half = 0
                      /\ SlowClocks(a, TRUE).quarter = 0
    BY DEF FastPathKeepsState
  <2>1. PICK fetch \in BOOLEAN, read4015 \in BOOLEAN, write \in Writes :
          a = Accessed(apu, fetch, read4015, write)
    BY DEF BeforeLast
  <2>2. a \in MidApu
    BY <2>1, AccessedOnTrack DEF IInv
  <2> QED BY <2>2, FastPathExact
<1> QED BY <1>1, Invariance, PTL
-----------------------------------------------------------------------------
(***************************************************************************)
(* Why a length load never meets the extra clock of a $4017 write: while   *)
(* that is on its way the CPU has not had the time for another write.      *)
(***************************************************************************)
Paced ==
  /\ apu.pending[1] # "4017"
  /\ apu.seq_tick <= cpu.gap
  /\ apu.seq_tick > 0 => apu.pending[1] = NoReg /\ cpu.again \in {NoReg, "4017"}

\* What the write of a cycle does to the delayed $4017 write.
LEMMA BeforeTickWrites ==
  ASSUME NEW a \in MidApu, NEW ends \in BOOLEAN
  PROVE  LET b == BeforeTick(a, ends) IN
         /\ b.seq_val \in (0..1) \X (0..1)
         /\ a.pending[1] = "4017" => b.seq_tick \in 3..4 /\ b.pending[1] = NoReg
         /\ a.pending[1] # "4017" => b.seq_tick = a.seq_tick /\ b.pending[1] # "4017"
         /\ a.pending[1] = NoReg => b.pending[1] = NoReg
<1> DEFINE b == StrobeOrClear(a)
           c == ReloadCountdown(b, ends)
<1>1. b \in MidApu /\ b.pending = a.pending /\ b.seq_tick = a.seq_tick
  BY DEF StrobeOrClear, MidApu
<1> HIDE DEF b
<1>2. c \in MidApu /\ c.pending = b.pending /\ c.seq_tick = b.seq_tick
  <2> DEFINE irq == b.dmc_irq \/ (b.reload_countdown = 1 /\ ends /\ b.dmc_irq_enabled)
             n == b.reload_countdown - 1
             d == [b EXCEPT !.reload_countdown = n, !.dmc_irq = irq]
  <2>1. irq \in BOOLEAN
    OBVIOUS
  <2>2. c = b \/ (b.reload_countdown # 0 /\ c = d)
    BY DEF ReloadCountdown
  <2>3. b.reload_countdown # 0 => n \in 0..3
    BY <1>1 DEF MidApu
  <2> HIDE DEF c, irq, n
  <2>4. b.reload_countdown # 0 => d \in MidApu
    BY <1>1, <2>1, <2>3 DEF MidApu
  <2>5. d.pending = b.pending /\ d.seq_tick = b.seq_tick
    BY <1>1 DEF MidApu
  <2> HIDE DEF d
  <2> QED BY <1>1, <2>2, <2>4, <2>5
<1> HIDE DEF c
<1>3. LET d == ApplyWrite(c) IN
      /\ d \in MidApu
      /\ c.pending[1] = "4017" => d.seq_tick \in 3..4 /\ d.pending[1] = NoReg
      /\ c.pending[1] # "4017" => d.seq_tick = c.seq_tick /\ d.pending[1] # "4017"
      /\ c.pending[1] = NoReg => d.pending[1] = NoReg
  <2> DEFINE reg == c.pending[1]
             val == c.pending[2]
             n == IF reg = "4017" THEN IF c.odd THEN 4 ELSE 3 ELSE c.seq_tick
             v == IF reg = "4017" THEN val ELSE c.seq_val
             en == IF reg = "4010" THEN val ELSE c.dmc_irq_enabled
             irq == c.dmc_irq /\ reg # "4015" /\ ~(reg = "4010" /\ ~val)
             none == <<NoReg, 0>>
             d == [c EXCEPT !.pending = none, !.seq_tick = n, !.seq_val = v,
                            !.dmc_irq_enabled = en, !.dmc_irq = irq]
  <2>1. CASE reg = NoReg \/ Waits(c)
    <3>1. ApplyWrite(c) = c /\ c.pending[1] # "4017"
      BY <2>1 DEF ApplyWrite, Waits, NoReg
    <3> QED BY <1>2, <3>1
  <2>2. CASE ~(reg = NoReg \/ Waits(c))
    <3>1. ApplyWrite(c) = d
      BY <2>2 DEF ApplyWrite
    <3>2. ApplyWrite(c) \in MidApu
      <4>1. c.pending \in Pending /\ c.seq_tick \in 0..4 /\ c.seq_val \in (0..1) \X (0..1)
            /\ c.dmc_irq_enabled \in BOOLEAN
        BY <1>2 DEF MidApu
      <4>2. none \in Pending /\ n \in 0..4 /\ v \in (0..1) \X (0..1)
        BY <4>1 DEF Pending, PendingWrites, NoReg
      <4>3. en \in BOOLEAN
        BY <4>1 DEF Pending, PendingWrites, NoReg
      <4>4. irq \in BOOLEAN
        OBVIOUS
      <4> HIDE DEF n, v, en, irq, reg, val, none
      <4>5. d \in MidApu
        BY <1>2, <4>2, <4>3, <4>4 DEF MidApu
      <4> QED BY <3>1, <4>5
    <3>3. none[1] = NoReg /\ none[1] # "4017" /\ (reg = "4017" => n \in 3..4) /\ (reg # "4017" => n = c.seq_tick)
      BY DEF NoReg
    <3> HIDE DEF n, v, en, irq, none
    <3>4. d.pending = none /\ d.seq_tick = n
      BY <1>2 DEF MidApu
    <3> HIDE DEF d
    <3> QED BY <3>1, <3>2, <3>3, <3>4
  <2> QED BY <2>1, <2>2
<1>4. ApplyWrite(c).seq_val \in (0..1) \X (0..1)
  BY <1>3 DEF MidApu
<1> QED BY <1>1, <1>2, <1>3, <1>4 DEF BeforeTick, b, c

\* What the rest of the body does to it: it comes a cycle nearer.
LEMMA SlowBodyWrites ==
  ASSUME NEW a \in MidApu, OnTrack(a), NEW ends \in BOOLEAN
  PROVE  LET b == BeforeTick(a, ends)
             e == SlowBody(a, ends).apu
         IN  /\ e.pending = b.pending
             /\ b.seq_tick = 0 => e.seq_tick = 0
             /\ b.seq_tick > 0 => e.seq_tick = b.seq_tick - 1
<1> DEFINE b == BeforeTick(a, ends)
           c == SequencerTick(b)
           d == SequencerWriteTick(c)
           e == DropIrq(AssertIrq(d))
<1>1. b \in MidApu /\ OnTrack(b)
  <2> HIDE DEF b
  <2> QED BY BeforeTickKeeps DEF OnTrack, b
<1> HIDE DEF b
<1>2. c.pending = b.pending /\ c.seq_tick = b.seq_tick
  BY <1>1 DEF SequencerTick, MidApu
<1>3. c \in MidApu /\ OnTrack(c)
  BY <1>1, TickOnTrack
<1>4. c.seq_tick \in 0..4
  BY <1>3 DEF MidApu
<1> HIDE DEF c
<1>5. /\ d.pending = c.pending
      /\ c.seq_tick = 0 => d.seq_tick = 0
      /\ c.seq_tick > 0 => d.seq_tick = c.seq_tick - 1
  <2>1. CASE c.seq_tick = 0
    BY <2>1 DEF SequencerWriteTick
  <2>2. CASE c.seq_tick # 0 /\ c.seq_tick # 1
    BY <1>3, <1>4, <2>2 DEF SequencerWriteTick, WriteTickDue, MidApu
  <2>3. CASE c.seq_tick = 1
    BY <1>3, <2>3 DEF SequencerWriteTick, WriteTickDue, MidApu
  <2> QED BY <1>4, <2>1, <2>2, <2>3
<1>6. d \in MidApu
  BY <1>3, WriteTickOnTrack
<1> HIDE DEF d
<1>7. e.seq_tick = d.seq_tick
  BY <1>6, AssertAndDropKeep
<1>8. e.pending = d.pending
  BY <1>6 DEF DropIrq, AssertIrq, MidApu
<1>9. SlowBody(a, ends).apu = e
  BY DEF SlowBody, b, c, d
<1> HIDE DEF e
<1> QED BY <1>2, <1>5, <1>7, <1>8, <1>9 DEF b

\* What a cycle's accesses leave of the delayed write and of the register that
\* waits, the CPU keeping its pace.
LEMMA AccessedPaced ==
  ASSUME IInv, Paced, NEW fetch \in BOOLEAN, NEW read4015 \in BOOLEAN,
         NEW write \in Writes, CpuMayWrite(write)
  PROVE  LET b == Accessed(apu, fetch, read4015, write) IN
         /\ b \in MidApu /\ OnTrack(b) /\ b.seq_tick = apu.seq_tick
         /\ b.seq_tick > 0 => b.pending[1] \in {NoReg, "4017"}
         /\ b.pending[1] = "4017" => write[1] = "4017"
         /\ b.seq_tick > 0 /\ write # NoWrite => write[1] = "4017" /\ b.pending[1] = "4017"
<1> DEFINE b == Accessed(apu, fetch, read4015, write)
<1>1. apu \in MidApu /\ b \in MidApu /\ OnTrack(b)
  BY AccessedOnTrack DEF IInv, Settled
<1>2. b.seq_tick = apu.seq_tick
      /\ b.pending = IF write \in PendingWrites THEN write ELSE apu.pending
  BY <1>1 DEF Accessed, MidApu
<1>3. apu.seq_tick \in 0..3 /\ cpu.gap \in 0..3
  BY DEF IInv, Settled, CpuType, WriteGap
<1>4. ASSUME apu.seq_tick > 0, write # NoWrite
      PROVE  write[1] = "4017" /\ write \in PendingWrites
  <2>1. cpu.gap # 0 /\ cpu.again \in {NoReg, "4017"} /\ write[1] = cpu.again
    BY <1>3, <1>4 DEF Paced, CpuMayWrite
  <2>2. write = NoWrite \/ write = <<"4016", 0>> \/ write \in PendingWrites
    BY DEF Writes
  <2>3. write[1] # "4016"
    BY <2>1 DEF NoReg
  <2>4. write \in PendingWrites
    BY <1>4, <2>2, <2>3
  <2>5. write[1] # NoReg
    BY <2>4 DEF PendingWrites, NoReg
  <2> QED BY <2>1, <2>4, <2>5
<1>5. NoWrite \notin PendingWrites
  BY DEF NoWrite, NoReg, PendingWrites
<1> HIDE DEF b
<1>6. b.pending[1] = "4017" => write[1] = "4017"
  BY <1>2 DEF Paced
<1>7. b.seq_tick > 0 => apu.pending[1] = NoReg
  BY <1>2 DEF Paced
<1> QED BY <1>1, <1>2, <1>4, <1>5, <1>6, <1>7 DEF b, NoReg

\* A cycle keeps the CPU that far from a $4017 write on its way.
LEMMA CyclePaced == IInv /\ Paced /\ Cycle => Paced' /\ LoadForeseesClock'
<1> SUFFICES ASSUME IInv, Paced, NEW fetch \in BOOLEAN, NEW read4015 \in BOOLEAN,
                    NEW ends \in BOOLEAN, NEW write \in Writes,
                    CpuCycle(fetch, read4015, write, ends)
             PROVE  Paced' /\ LoadForeseesClock'
  BY DEF Cycle
<1> DEFINE b == Accessed(apu, fetch, read4015, write)
           c == BeforeTick(b, ends)
           e == SlowBody(b, ends).apu
<1>1. CpuMayWrite(write) /\ cpu' = CpuPace(write) /\ RunOneLast(b, ends)
  BY DEF CpuCycle
<1>2. /\ b \in MidApu /\ OnTrack(b) /\ b.seq_tick = apu.seq_tick
      /\ b.seq_tick > 0 => b.pending[1] \in {NoReg, "4017"}
      /\ b.seq_tick > 0 /\ write # NoWrite => write[1] = "4017" /\ b.pending[1] = "4017"
      /\ b.pending[1] = "4017" => write[1] = "4017"
  BY <1>1, AccessedPaced
<1>3. apu.seq_tick \in 0..3 /\ cpu.gap \in 0..3 /\ apu.seq_tick <= cpu.gap
  BY DEF IInv, Settled, CpuType, WriteGap, Paced
<1>4. /\ write # NoWrite => cpu'.gap = 3
      /\ write = NoWrite => cpu'.gap = (IF cpu.gap = 0 THEN 0 ELSE cpu.gap - 1)
                            /\ cpu'.again = NoReg
      /\ write # NoWrite => cpu'.again \in {NoReg, write[1]}
  BY <1>1 DEF CpuPace, WriteGap
<1> HIDE DEF b
<1>5. CASE Quiescent(b)
  <2>1. apu' = FastBody(b) /\ clocks' = NoClocks
    BY <1>1, <1>5 DEF RunOneLast
  <2>2. FastBody(b).seq_tick = 0 /\ FastBody(b).pending[1] = NoReg
    BY <1>2, <1>5 DEF FastBody, MidApu, Quiescent
  <2>3. apu'.seq_tick = 0 /\ cpu'.gap \in 0..3 /\ apu'.pending[1] = NoReg
    BY <1>3, <1>4, <2>1, <2>2
  <2> QED BY <2>1, <2>3 DEF Paced, LoadForeseesClock, NoClocks, NoReg
<1>6. CASE ~Quiescent(b)
  <2>1. apu' = e /\ clocks' = SlowClocks(b, ends)
    BY <1>1, <1>6 DEF RunOneLast
  <2>2. /\ c.seq_val \in (0..1) \X (0..1)
        /\ b.pending[1] = "4017" => c.seq_tick \in 3..4 /\ c.pending[1] = NoReg
        /\ b.pending[1] # "4017" => c.seq_tick = b.seq_tick
        /\ b.pending[1] = NoReg => c.pending[1] = NoReg
        /\ c.pending[1] # "4017"
    BY <1>2, BeforeTickWrites DEF NoReg
  <2>3. /\ e.pending = c.pending
        /\ c.seq_tick = 0 => e.seq_tick = 0
        /\ c.seq_tick > 0 => e.seq_tick = c.seq_tick - 1
    BY <1>2, SlowBodyWrites
  <2>4. c \in MidApu /\ c.counter = b.counter /\ c.step = b.step /\ c.mode = b.mode
    BY <1>2, BeforeTickKeeps
  <2> HIDE DEF c, e
  <2>5. Paced'
    <3>1. CASE b.pending[1] = "4017"
      <4>1. c.seq_tick \in 3..4 /\ c.pending[1] = NoReg /\ e.seq_tick = c.seq_tick - 1
        BY <2>2, <2>3, <3>1
      <4>2. write[1] = "4017"
        BY <1>2, <3>1
      <4>3. cpu'.gap = 3 /\ cpu'.again \in {NoReg, "4017"}
        BY <1>4, <4>2 DEF NoWrite, NoReg
      <4> QED BY <2>1, <2>3, <4>1, <4>3 DEF Paced, NoReg
    <3>2. CASE b.pending[1] # "4017" /\ b.seq_tick = 0
      <4>1. e.seq_tick = 0
        BY <2>2, <2>3, <3>2
      <4>2. cpu'.gap \in 0..3
        BY <1>3, <1>4
      <4> QED BY <2>1, <2>2, <2>3, <4>1, <4>2 DEF Paced
    <3>3. CASE b.pending[1] # "4017" /\ b.seq_tick # 0
      <4>1. b.seq_tick > 0 /\ b.pending[1] = NoReg /\ write = NoWrite
        BY <1>2, <1>3, <3>3
      <4>2. c.seq_tick = b.seq_tick /\ c.pending[1] = NoReg
        BY <2>2, <3>3, <4>1
      <4>3. e.seq_tick = apu.seq_tick - 1 /\ e.pending[1] = NoReg
        BY <1>2, <2>3, <4>1, <4>2
      <4>4. cpu'.gap = cpu.gap - 1 /\ cpu'.again = NoReg
        BY <1>2, <1>3, <1>4, <4>1
      <4> QED BY <1>3, <2>1, <4>3, <4>4 DEF Paced, NoReg
    <3> QED BY <3>1, <3>2, <3>3
  <2>6. LoadForeseesClock'
    <3> SUFFICES ASSUME LoadsLength(b), SlowClocks(b, ends).half > 0
                 PROVE  LenClockActive(b)
      BY <2>1 DEF LoadForeseesClock, SlowClocks
    <3>1. b.pending[1] # "4017" /\ b.pending[1] # NoReg
      BY DEF LoadsLength, NoReg
    <3>2. b.seq_tick = 0
      BY <1>2, <1>3, <3>1
    <3>3. ~WriteTickDue(c)
      BY <2>2, <3>1, <3>2 DEF WriteTickDue
    <3>4. TickHalf(c, c.counter + 1)
      BY <3>3 DEF SlowClocks, c
    <3>5. TickHalf(b, b.counter + 1)
      BY <2>4, <3>4 DEF TickHalf, AtStep
    <3> QED BY <1>2, <3>5, PredictionRight
  <2> QED BY <2>5, <2>6
<1> QED BY <1>5, <1>6

\* A reset starts the CPU over, which then needs longer than the write does.
LEMMA ResetPaced ==
  ASSUME IInv, Paced, SoftReset \/ HardReset
  PROVE  Paced' /\ LoadForeseesClock'
<1>1. cpu'.gap = 3 /\ cpu'.again = NoReg /\ clocks' = NoClocks
  BY DEF SoftReset, HardReset, WriteGap
<1>2. LoadForeseesClock'
  BY <1>1 DEF LoadForeseesClock, NoClocks
<1>3. apu \in MidApu /\ apu.seq_tick \in 0..3
  BY DEF IInv, Settled
<1>4. CASE SoftReset
  <2>1. apu'.seq_tick = apu.seq_tick /\ apu'.pending = apu.pending
    BY <1>3, <1>4 DEF SoftReset, MidApu
  <2> QED BY <1>1, <1>2, <1>3, <2>1 DEF Paced
<1>5. CASE HardReset
  <2>1. apu'.seq_tick = 0 /\ apu'.pending[1] = NoReg
    BY <1>5 DEF HardReset, NewApu
  <2> QED BY <1>1, <1>2, <2>1 DEF Paced, NoReg
<1> QED BY <1>4, <1>5

\* LoadForeseesClock: a length load that meets a clock of the length counters
\* finds that clock predicted, so that the counter is not clocked in the cycle
\* that loads it (RunOneLast's len_clock_active).
THEOREM LoadsAlwaysForeseen == Spec => []LoadForeseesClock
<1>1. Init => Paced /\ LoadForeseesClock
  BY DEF Init, NewApu, NoClocks, Paced, LoadForeseesClock, NoReg
<1>2. IInv /\ Paced /\ LoadForeseesClock /\ [Next]_vars => Paced' /\ LoadForeseesClock'
  <2> SUFFICES ASSUME IInv, Paced, LoadForeseesClock, [Next]_vars
               PROVE  Paced' /\ LoadForeseesClock'
    OBVIOUS
  <2>1. CASE Cycle
    BY <2>1, CyclePaced
  <2>2. CASE SoftReset \/ HardReset
    BY <2>2, ResetPaced
  <2>3. CASE UNCHANGED vars
    BY <2>3 DEF Paced, LoadForeseesClock, vars
  <2> QED BY <2>1, <2>2, <2>3 DEF Next
<1> QED BY <1>1, <1>2, Invariance, PTL DEF Spec
=============================================================================

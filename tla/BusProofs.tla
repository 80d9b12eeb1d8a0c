------------------------------ MODULE BusProofs ------------------------------
(***************************************************************************)
(* For any sample rates, lengths and sprite DMA: the fields of the DMAs    *)
(* keep their types, the bus has one owner at a time, and the fast path of *)
(* DMCUnit::Run is exact.  Then the CPU at the other end of RDY: its       *)
(* interrupts, the spacing of its writes, and what a held cycle does.      *)
(***************************************************************************)
EXTENDS DmcDma, Cpu, FiniteSetTheorems, SequenceTheorems, TLAPS

(***************************************************************************)
(* The types within a cycle.                                               *)
(***************************************************************************)
Timers == 1..InitTimer \cup UNION {1..r : r \in Rates}

DmcType ==
  [timer : Timers, timer_reload : Rates, bits : 0..(BitsPerByte - 1), filled : BOOLEAN,
   length : Nat, delay : {0, 1, 2, 3}, call_from_write : BOOLEAN, fill_glitch : BOOLEAN,
   fill_glitch_2 : BOOLEAN, fill_glitch_2_end : BOOLEAN, pending_disable : BOOLEAN,
   countdown : {-2, Idle, 1, 2, 3}, rdy_check : {-2, 0, 2}, reload : {0, 1, 2, 3},
   loop : BOOLEAN, irq_enabled : BOOLEAN, irq : BOOLEAN, irq_glitch : BOOLEAN]

BusType ==
  [rdy : BOOLEAN, oam : BOOLEAN, oam_index : 0..OamLen, deadcounter : 0..2,
   dmc : BOOLEAN, realign : BOOLEAN]

Mid == [dmc : DmcType, bus : BusType, did : SUBSET {"get", "put", "fetch", "cpu write"}]

-----------------------------------------------------------------------------
\* Timers are positive; a timer counts down to 1, and starts over at a rate,
\* which is even and not too fast.
LEMMA TimerFacts ==
  /\ \A t \in Timers : t \in Nat /\ t >= 1 /\ (t # 1 => t - 1 \in Timers)
  /\ \A r \in Rates : r \in Timers /\ r \in Nat /\ r >= 8 /\ r % 2 = 0
<1>1. ASSUME NEW t \in Timers PROVE t \in Nat /\ t >= 1 /\ (t # 1 => t - 1 \in Timers)
  <2>1. CASE t \in 1..InitTimer
    BY <2>1, RatesAssumption DEF Timers
  <2>2. ASSUME NEW r \in Rates, t \in 1..r PROVE t \in Nat /\ t >= 1 /\ (t # 1 => t - 1 \in Timers)
    BY <2>2, RatesAssumption DEF Timers
  <2> QED BY <2>1, <2>2 DEF Timers
<1>2. ASSUME NEW r \in Rates PROVE r \in Timers /\ r \in Nat /\ r >= 8 /\ r % 2 = 0
  BY RatesAssumption DEF Timers
<1> QED BY <1>1, <1>2

\* The fast path of DMCUnit::Run does what its body would do.
LEMMA FastIsFull ==
  ASSUME NEW s \in Mid, RunIsQuiet(s.dmc)
  PROVE  RunFull(s) = RunFast(s)
<1> DEFINE d == [s.dmc EXCEPT !.timer = s.dmc.timer - 1]
           t == [s EXCEPT !.dmc = d]
<1>1. TickTimer(s.dmc) = d
  <2>1. s.dmc.timer # 1
    BY DEF RunIsQuiet
  <2> QED BY <2>1 DEF TickTimer
<1>2. /\ d.filled = s.dmc.filled /\ d.length = s.dmc.length
      /\ d.fill_glitch_2 = s.dmc.fill_glitch_2
      /\ d.countdown = s.dmc.countdown /\ d.delay = s.dmc.delay
  BY DEF Mid, DmcType
<1> HIDE DEF d
<1>3. t.dmc = d /\ RunFast(s) = t
  BY DEF Mid, RunFast, d
<1>4. StartDma(t) = t
  BY <1>2, <1>3 DEF StartDma, Hungry, RunIsQuiet
<1>5. RunDelay(t.dmc) = d
  BY <1>2, <1>3 DEF RunDelay, RunIsQuiet
<1> QED BY <1>1, <1>3, <1>4, <1>5 DEF RunFull, Mid

\* So every cycle runs the body.
LEMMA RunIsFull ==
  ASSUME NEW s \in Mid
  PROVE  Run(s) = RunFull(s)
BY FastIsFull DEF Run

\* A tick turns the timer's parity.  It empties the buffer only as the timer
\* wraps after the last bit, and then a whole byte's bits are to go.
LEMMA TickTimerKeeps ==
  ASSUME NEW d \in DmcType
  PROVE  LET t == TickTimer(d) IN
         /\ t \in DmcType
         /\ t.timer % 2 # d.timer % 2
         /\ \/ d.timer # 1 /\ t.timer = d.timer - 1 /\ t.bits = d.bits /\ t.filled = d.filled
            \/ /\ d.timer = 1 /\ t.timer >= 8
               /\ t.filled = (d.filled /\ d.bits # 0)
               /\ d.bits = 0 => t.bits = BitsPerByte - 1
         /\ t = [d EXCEPT !.timer = t.timer, !.bits = t.bits, !.filled = t.filled]
<1> DEFINE t == TickTimer(d)
<1>1. CASE d.timer # 1
  <2> DEFINE n == d.timer - 1
  <2>1. t = [d EXCEPT !.timer = n]
    BY <1>1 DEF TickTimer
  <2>2. n \in Timers /\ n % 2 # d.timer % 2
    BY <1>1, TimerFacts DEF DmcType
  <2> HIDE DEF n
  <2>3. t \in DmcType /\ t.timer = n /\ t.bits = d.bits /\ t.filled = d.filled
    BY <2>1, <2>2 DEF DmcType
  <2>4. t = [d EXCEPT !.timer = t.timer, !.bits = t.bits, !.filled = t.filled]
    BY <2>1, <2>3 DEF DmcType
  <2> HIDE DEF t
  <2> QED BY <1>1, <2>2, <2>3, <2>4 DEF t, n
<1>2. CASE d.timer = 1
  <2> DEFINE b == IF d.bits = 0 THEN BitsPerByte - 1 ELSE d.bits - 1
             f == d.filled /\ d.bits # 0
             r == d.timer_reload
  <2>1. t = [d EXCEPT !.bits = b, !.filled = f, !.timer = r]
    BY <1>2 DEF TickTimer, Clock, DmcType
  <2>2. b \in 0..(BitsPerByte - 1) /\ f \in BOOLEAN
    BY SizesAssumption DEF DmcType
  <2>3. r \in Timers /\ r >= 8 /\ r % 2 # d.timer % 2
    BY <1>2, TimerFacts DEF DmcType
  <2>4. d.bits = 0 => b = BitsPerByte - 1
    OBVIOUS
  <2> HIDE DEF b, r
  <2>5. t \in DmcType /\ t.timer = r /\ t.bits = b /\ t.filled = f
    <3> HIDE DEF f
    <3> QED BY <2>1, <2>2, <2>3 DEF DmcType
  <2>6. t = [d EXCEPT !.timer = t.timer, !.bits = t.bits, !.filled = t.filled]
    <3> HIDE DEF f
    <3> QED BY <2>1, <2>5 DEF DmcType
  <2> HIDE DEF t
  <2> QED BY <1>2, <2>3, <2>4, <2>5, <2>6 DEF t
<1> QED BY <1>1, <1>2

(***************************************************************************)
(* What is left alone from s to r: the sprite DMA, the cycle's history, a  *)
(* sample's length and the reload in progress; and fill_glitch_2 is not    *)
(* set.                                                                    *)
(***************************************************************************)
Frame(s, r) ==
  /\ r.did = s.did
  /\ r.bus.oam = s.bus.oam /\ r.bus.oam_index = s.bus.oam_index
  /\ r.bus.deadcounter = s.bus.deadcounter /\ r.bus.realign = s.bus.realign
  /\ r.dmc.length = s.dmc.length /\ r.dmc.reload = s.dmc.reload
  /\ r.dmc.fill_glitch_2 => s.dmc.fill_glitch_2

(***************************************************************************)
(* The ways DMCUnit::Run and the aborted DMA can end, from s and the unit  *)
(* t whose timer has ticked, in r.                                         *)
(***************************************************************************)
RunsQuiet(s, t, r) == ~Hungry(t) /\ t.delay = 0 /\ r.dmc = t /\ r.bus = s.bus

WaitsForStart(s, t, r) ==
  /\ r.bus = s.bus
  /\ r.dmc.countdown = Idle /\ r.dmc.rdy_check = t.rdy_check
  /\ r.dmc.filled = t.filled /\ r.dmc.call_from_write = t.call_from_write
  /\ \/ t.delay = 2 /\ r.dmc.delay = 1
     \/ Hungry(t) /\ r.dmc.delay = IF t.timer % 2 = 0 THEN 2 ELSE 1

StartsByWrite(s, t, r) ==
  /\ t.delay = 1
  /\ r.bus = s.bus
  /\ r.dmc.countdown = 3 /\ r.dmc.rdy_check = 2 /\ r.dmc.delay = 0
  /\ r.dmc.filled = t.filled

FillsByGlitch(s, t, r) ==
  /\ Hungry(t)
  /\ r.bus = s.bus
  /\ r.dmc.countdown = Idle /\ r.dmc.filled /\ r.dmc.delay = 0

StartsReload(s, t, r) ==
  /\ Hungry(t) /\ ~t.call_from_write /\ ~t.fill_glitch_2
  /\ r.dmc.countdown = 3 /\ r.dmc.rdy_check = 2 /\ r.dmc.delay = 0
  /\ ~r.bus.rdy /\ r.bus.dmc
  /\ r.dmc.filled = t.filled

CallsOff(s, t, r) ==
  /\ Hungry(t) /\ ~t.call_from_write /\ t.fill_glitch_2
  /\ r.dmc.countdown = Idle /\ r.dmc.delay = 0
  /\ ~r.dmc.fill_glitch_2 /\ ~r.bus.rdy /\ ~r.bus.dmc
  /\ r.dmc.filled = t.filled /\ r.dmc.call_from_write = t.call_from_write

RunEnds(s, t, r) ==
  \/ RunsQuiet(s, t, r) \/ WaitsForStart(s, t, r) \/ StartsByWrite(s, t, r)
  \/ FillsByGlitch(s, t, r) \/ StartsReload(s, t, r) \/ CallsOff(s, t, r)

\* The glitches' changes of the unit keep its type.
LEMMA GlitchTypes ==
  ASSUME NEW d \in DmcType, NEW a \in BOOLEAN, NEW b \in BOOLEAN
  PROVE  /\ [d EXCEPT !.filled = a, !.fill_glitch = b] \in DmcType
         /\ [d EXCEPT !.countdown = -2, !.rdy_check = -2, !.fill_glitch_2_end = a] \in DmcType
         /\ [d EXCEPT !.countdown = Idle, !.fill_glitch_2 = a, !.fill_glitch_2_end = b] \in DmcType
<1>1. [d EXCEPT !.filled = a, !.fill_glitch = b] \in DmcType
  BY DEF DmcType
<1>2. [d EXCEPT !.countdown = -2, !.rdy_check = -2, !.fill_glitch_2_end = a] \in DmcType
  <2> DEFINE e == [d EXCEPT !.countdown = -2, !.rdy_check = -2]
  <2>1. e \in DmcType
    BY DEF DmcType
  <2>2. [d EXCEPT !.countdown = -2, !.rdy_check = -2, !.fill_glitch_2_end = a]
          = [e EXCEPT !.fill_glitch_2_end = a]
    OBVIOUS
  <2> HIDE DEF e
  <2> QED BY <2>1, <2>2 DEF DmcType
<1>3. [d EXCEPT !.countdown = Idle, !.fill_glitch_2 = a, !.fill_glitch_2_end = b] \in DmcType
  <2> DEFINE e == [d EXCEPT !.countdown = Idle]
  <2>1. e \in DmcType
    BY DEF DmcType
  <2>2. [d EXCEPT !.countdown = Idle, !.fill_glitch_2 = a, !.fill_glitch_2_end = b]
          = [e EXCEPT !.fill_glitch_2 = a, !.fill_glitch_2_end = b]
    OBVIOUS
  <2> HIDE DEF e
  <2> QED BY <2>1, <2>2 DEF DmcType
<1> QED BY <1>1, <1>2, <1>3

\* DMCUnit::Run, with the abort that follows it, ends in one of these ways.
LEMMA RunAbortKeeps ==
  ASSUME NEW s \in Mid, s.dmc.delay # 3, s.dmc.countdown # -2, ~s.dmc.fill_glitch_2_end,
         s.dmc.countdown # Idle => s.dmc.delay = 0
  PROVE  LET t == TickTimer(s.dmc)
             r == AbortDma(Run(s))
         IN /\ r \in Mid /\ r.dmc.delay # 3 /\ r.dmc.countdown # -2 /\ ~r.dmc.fill_glitch_2_end
            /\ Frame(s, r)
            /\ r.dmc.timer = t.timer /\ r.dmc.bits = t.bits
            /\ ~s.bus.rdy => ~r.bus.rdy
            /\ RunEnds(s, t, r)
<1> DEFINE t == TickTimer(s.dmc)
           u == [s EXCEPT !.dmc = t]
           v == StartDma(u)
           w == [v EXCEPT !.dmc = RunDelay(v.dmc)]
           r == AbortDma(w)
           Goal == /\ r \in Mid /\ r.dmc.delay # 3 /\ r.dmc.countdown # -2 /\ ~r.dmc.fill_glitch_2_end
                   /\ Frame(s, r)
                   /\ r.dmc.timer = t.timer /\ r.dmc.bits = t.bits
                   /\ ~s.bus.rdy => ~r.bus.rdy
                   /\ RunEnds(s, t, r)
<1>1. Run(s) = w
  BY RunIsFull DEF RunFull
<1>2. /\ s.dmc \in DmcType /\ s.bus \in BusType
      /\ s = [dmc |-> s.dmc, bus |-> s.bus, did |-> s.did]
  BY DEF Mid
<1>3. /\ t \in DmcType
      /\ t.delay = s.dmc.delay /\ t.countdown = s.dmc.countdown
      /\ t.fill_glitch_2_end = s.dmc.fill_glitch_2_end
      /\ t.length = s.dmc.length /\ t.reload = s.dmc.reload
      /\ t.fill_glitch_2 = s.dmc.fill_glitch_2
  <2>1. t \in DmcType /\ t = [s.dmc EXCEPT !.timer = t.timer, !.bits = t.bits, !.filled = t.filled]
    BY <1>2, TickTimerKeeps
  <2> HIDE DEF t
  <2> QED BY <1>2, <2>1 DEF DmcType
<1> SUFFICES Goal
  BY <1>1
<1> HIDE DEF t
<1>4. u = [dmc |-> t, bus |-> s.bus, did |-> s.did]
  BY <1>2
<1>5. u \in Mid /\ u.dmc = t /\ u.bus = s.bus /\ u.did = s.did
  BY <1>2, <1>3, <1>4 DEF Mid
<1> HIDE DEF u
<1>6. CASE ~Hungry(t)
  <2>1. v = u
    BY <1>5, <1>6 DEF StartDma
  <2>2. w = [u EXCEPT !.dmc = RunDelay(t)]
    BY <1>5, <2>1
  <2> HIDE DEF v, w
  <2>3. CASE t.delay = 0
    <3>1. w = u
      BY <1>5, <2>2, <2>3 DEF RunDelay, Mid
    <3>2. r = u
      BY <1>3, <1>5, <3>1 DEF AbortDma
    <3> HIDE DEF r
    <3> QED BY <1>3, <1>5, <1>6, <2>3, <3>2 DEF Frame, RunEnds, RunsQuiet
  <2>4. CASE t.delay = 2
    <3> DEFINE d == [t EXCEPT !.delay = 1]
    <3>1. d \in DmcType /\ w = [u EXCEPT !.dmc = d]
      BY <1>3, <2>2, <2>4 DEF RunDelay, DmcType
    <3>2. /\ d.delay = 1 /\ d.countdown = t.countdown /\ d.rdy_check = t.rdy_check
          /\ d.fill_glitch_2_end = t.fill_glitch_2_end
          /\ d.fill_glitch_2 = t.fill_glitch_2
          /\ d.length = t.length /\ d.reload = t.reload /\ d.timer = t.timer /\ d.bits = t.bits
          /\ d.filled = t.filled /\ d.call_from_write = t.call_from_write
      BY <1>3 DEF DmcType
    <3> HIDE DEF d
    <3>3. w \in Mid /\ w.dmc = d /\ w.bus = s.bus /\ w.did = s.did
      BY <1>5, <3>1 DEF Mid
    <3>4. r = w
      BY <1>3, <3>2, <3>3 DEF AbortDma
    <3> HIDE DEF r
    <3> QED BY <1>3, <2>4, <3>2, <3>3, <3>4 DEF Frame, RunEnds, WaitsForStart
  <2>5. CASE t.delay = 1
    <3> DEFINE d == [t EXCEPT !.delay = 0, !.countdown = 3, !.rdy_check = 2, !.call_from_write = FALSE]
    <3>1. w = [u EXCEPT !.dmc = d]
      BY <2>2, <2>5 DEF RunDelay
    <3> d \in DmcType
      <4> DEFINE e == [t EXCEPT !.delay = 0]
                 f == [e EXCEPT !.countdown = 3]
      <4>1. e \in DmcType
        BY <1>3 DEF DmcType
      <4> HIDE DEF e
      <4>2. f \in DmcType
        BY <4>1 DEF DmcType
      <4>3. d = [f EXCEPT !.rdy_check = 2, !.call_from_write = FALSE]
        BY DEF e
      <4> HIDE DEF f, d
      <4> QED BY <4>2, <4>3 DEF DmcType
    <3>2. /\ d.delay = 0 /\ d.countdown = 3 /\ d.rdy_check = 2
          /\ d.fill_glitch_2_end = t.fill_glitch_2_end
          /\ d.fill_glitch_2 = t.fill_glitch_2
          /\ d.length = t.length /\ d.reload = t.reload /\ d.timer = t.timer /\ d.bits = t.bits
          /\ d.filled = t.filled
      BY <1>3 DEF DmcType
    <3> HIDE DEF d
    <3>3. w \in Mid /\ w.dmc = d /\ w.bus = s.bus /\ w.did = s.did
      BY <1>5, <3>1, <3>2 DEF Mid
    <3>4. r = w
      BY <1>3, <3>2, <3>3 DEF AbortDma
    <3> HIDE DEF r
    <3> QED BY <1>3, <2>5, <3>2, <3>3, <3>4 DEF Frame, RunEnds, StartsByWrite
  <2> QED BY <1>3, <2>3, <2>4, <2>5 DEF DmcType
<1>7. CASE Hungry(t)
  <2>1. t.countdown = Idle /\ t.delay = 0
    BY <1>7 DEF Hungry
  <2>2. CASE t.fill_glitch
    <3> DEFINE yes == TRUE
               no == FALSE
               d == [t EXCEPT !.filled = yes, !.fill_glitch = no]
    <3>1. v = [u EXCEPT !.dmc = d]
      BY <1>5, <1>7, <2>2 DEF StartDma, Mid
    <3> yes \in BOOLEAN /\ no \in BOOLEAN /\ yes
      OBVIOUS
    <3> HIDE DEF yes, no
    <3> d \in DmcType
      BY <1>3, GlitchTypes
    <3>2. /\ d.filled /\ d.delay = 0 /\ d.countdown = Idle
          /\ d.fill_glitch_2_end = t.fill_glitch_2_end
          /\ d.fill_glitch_2 = t.fill_glitch_2
          /\ d.length = t.length /\ d.reload = t.reload /\ d.timer = t.timer /\ d.bits = t.bits
      BY <1>3, <2>1 DEF DmcType
    <3> HIDE DEF d, v
    <3>3. v \in Mid /\ v.dmc = d /\ v.bus = s.bus /\ v.did = s.did
      BY <1>5, <3>1, <3>2 DEF Mid
    <3>4. w = v
      BY <3>2, <3>3 DEF RunDelay, Mid
    <3> HIDE DEF w
    <3>5. r = v
      BY <1>3, <3>2, <3>3, <3>4 DEF AbortDma
    <3> HIDE DEF r
    <3> QED BY <1>3, <1>7, <3>2, <3>3, <3>5 DEF Frame, RunEnds, FillsByGlitch, Idle
  <2>3. CASE ~t.fill_glitch /\ t.call_from_write
    <3> DEFINE n == IF t.timer % 2 = 0 THEN 3 ELSE 2
               m == IF t.timer % 2 = 0 THEN 2 ELSE 1
               d == [t EXCEPT !.delay = n]
               e == [t EXCEPT !.delay = m]
    <3>1. v = [u EXCEPT !.dmc = d]
      BY <1>5, <1>7, <2>3 DEF StartDma, Mid, Even
    <3>2. n \in {2, 3} /\ m \in {1, 2} /\ n - 1 = m
      OBVIOUS
    <3>3. m = IF t.timer % 2 = 0 THEN 2 ELSE 1
      OBVIOUS
    <3> HIDE DEF n, m
    <3>4. d \in DmcType /\ d.delay = n /\ e = [d EXCEPT !.delay = d.delay - 1]
      BY <1>3, <3>2 DEF DmcType
    <3>5. /\ e \in DmcType /\ e.delay = m /\ e.countdown = Idle /\ e.rdy_check = t.rdy_check
          /\ e.fill_glitch_2_end = t.fill_glitch_2_end
          /\ e.fill_glitch_2 = t.fill_glitch_2
          /\ e.length = t.length /\ e.reload = t.reload /\ e.timer = t.timer /\ e.bits = t.bits
          /\ e.filled = t.filled /\ e.call_from_write = t.call_from_write
      BY <1>3, <2>1, <3>2 DEF DmcType
    <3> HIDE DEF d, e, v
    <3>6. v \in Mid /\ v.dmc = d /\ v.bus = s.bus /\ v.did = s.did
      BY <1>5, <3>1, <3>4 DEF Mid
    <3>7. w = [v EXCEPT !.dmc = e]
      BY <3>2, <3>4, <3>6 DEF RunDelay
    <3> HIDE DEF w
    <3>8. w \in Mid /\ w.dmc = e /\ w.bus = s.bus /\ w.did = s.did
      BY <3>5, <3>6, <3>7 DEF Mid
    <3>9. r = w
      BY <1>3, <3>5, <3>8 DEF AbortDma
    <3> HIDE DEF r
    <3>10. e.delay # 3 /\ e.countdown # -2
      BY <3>2, <3>5 DEF Idle
    <3> QED BY <1>3, <1>7, <3>3, <3>5, <3>8, <3>9, <3>10 DEF Frame, RunEnds, WaitsForStart
  <2>4. CASE ~t.fill_glitch /\ ~t.call_from_write /\ ~t.fill_glitch_2
    <3> DEFINE e == t.fill_glitch_2_end \/ t.fill_glitch_2
               d == [t EXCEPT !.countdown = 3, !.rdy_check = 2, !.fill_glitch_2_end = e]
               b == [s.bus EXCEPT !.rdy = FALSE, !.dmc = TRUE]
    <3>1. v = [u EXCEPT !.dmc = d, !.bus = b]
      BY <1>5, <1>7, <2>4 DEF StartDma, Mid
    <3>2. ~e /\ e \in BOOLEAN
      BY <1>3, <2>4
    <3> HIDE DEF e
    <3> d \in DmcType
      BY <1>3, <3>2 DEF DmcType
    <3>3. /\ d.delay = 0 /\ d.countdown = 3 /\ d.rdy_check = 2
          /\ ~d.fill_glitch_2_end /\ d.fill_glitch_2 = t.fill_glitch_2
          /\ d.length = t.length /\ d.reload = t.reload /\ d.timer = t.timer /\ d.bits = t.bits
          /\ d.filled = t.filled
      BY <1>3, <2>1, <3>2 DEF DmcType
    <3>4. /\ b \in BusType /\ ~b.rdy /\ b.dmc
          /\ b.oam = s.bus.oam /\ b.oam_index = s.bus.oam_index
          /\ b.deadcounter = s.bus.deadcounter /\ b.realign = s.bus.realign
      BY <1>2 DEF BusType
    <3> HIDE DEF d, b, v
    <3>5. v \in Mid /\ v.dmc = d /\ v.bus = b /\ v.did = s.did
      BY <1>5, <3>1, <3>3, <3>4 DEF Mid
    <3>6. w = v
      BY <3>3, <3>5 DEF RunDelay, Mid
    <3> HIDE DEF w
    <3>7. r = v
      BY <3>3, <3>5, <3>6 DEF AbortDma
    <3> HIDE DEF r
    <3> QED BY <1>3, <1>7, <2>4, <3>3, <3>4, <3>5, <3>7 DEF Frame, RunEnds, StartsReload
  <2>5. CASE ~t.fill_glitch /\ ~t.call_from_write /\ t.fill_glitch_2
    <3> DEFINE e == t.fill_glitch_2_end \/ t.fill_glitch_2
               d == [t EXCEPT !.countdown = -2, !.rdy_check = -2, !.fill_glitch_2_end = e]
               b == [s.bus EXCEPT !.rdy = FALSE, !.dmc = TRUE]
               no == FALSE
               f == [d EXCEPT !.countdown = Idle, !.fill_glitch_2 = no, !.fill_glitch_2_end = no]
               c == [b EXCEPT !.dmc = FALSE]
    <3>1. v = [u EXCEPT !.dmc = d, !.bus = b]
      BY <1>5, <1>7, <2>5 DEF StartDma, Mid
    <3>2. e /\ e \in BOOLEAN
      BY <1>3, <2>5
    <3> HIDE DEF e
    <3> d \in DmcType
      BY <1>3, <3>2, GlitchTypes
    <3>3. /\ d.delay = 0 /\ d.rdy_check = -2 /\ d.fill_glitch_2_end
          /\ d.length = t.length /\ d.reload = t.reload /\ d.timer = t.timer /\ d.bits = t.bits
          /\ d.filled = t.filled /\ d.call_from_write = t.call_from_write
      BY <1>3, <2>1, <3>2 DEF DmcType
    <3>4. /\ b \in BusType /\ ~b.rdy
          /\ b.oam = s.bus.oam /\ b.oam_index = s.bus.oam_index
          /\ b.deadcounter = s.bus.deadcounter /\ b.realign = s.bus.realign
      BY <1>2 DEF BusType
    <3> HIDE DEF d, b, v
    <3>5. v \in Mid /\ v.dmc = d /\ v.bus = b /\ v.did = s.did
      BY <1>5, <3>1, <3>3, <3>4 DEF Mid
    <3>6. w = v
      BY <3>3, <3>5 DEF RunDelay, Mid
    <3> HIDE DEF w
    <3>7. r = [v EXCEPT !.dmc = f, !.bus = c]
      BY <3>3, <3>5, <3>6 DEF AbortDma, Mid
    <3> ~no /\ no \in BOOLEAN
      OBVIOUS
    <3> HIDE DEF no
    <3> f \in DmcType
      BY GlitchTypes
    <3>8. /\ f.delay = 0 /\ f.countdown = Idle
          /\ ~f.fill_glitch_2_end /\ ~f.fill_glitch_2
          /\ f.length = t.length /\ f.reload = t.reload /\ f.timer = t.timer /\ f.bits = t.bits
          /\ f.filled = t.filled /\ f.call_from_write = t.call_from_write
      BY <3>3 DEF DmcType
    <3>9. /\ c \in BusType /\ ~c.rdy /\ ~c.dmc
          /\ c.oam = s.bus.oam /\ c.oam_index = s.bus.oam_index
          /\ c.deadcounter = s.bus.deadcounter /\ c.realign = s.bus.realign
      BY <3>4 DEF BusType
    <3> HIDE DEF f, c, r
    <3>10. r \in Mid /\ r.dmc = f /\ r.bus = c /\ r.did = s.did
      BY <3>5, <3>7, <3>8, <3>9 DEF Mid
    <3>11. f.countdown # -2
      BY <3>8 DEF Idle
    <3> QED BY <1>3, <1>7, <2>5, <3>8, <3>9, <3>10, <3>11 DEF Frame, RunEnds, CallsOff
  <2> QED BY <2>2, <2>3, <2>4, <2>5
<1> QED BY <1>6, <1>7

-----------------------------------------------------------------------------
(***************************************************************************)
(* What the sprite DMA and the DMC's DMA may do in a cycle.                *)
(***************************************************************************)
OamWaits(s, r) ==
  /\ ~s.bus.oam \/ s.dmc.countdown = 1 \/ s.bus.realign
  /\ r.bus.oam = s.bus.oam /\ r.bus.oam_index = s.bus.oam_index
  /\ r.bus.deadcounter = s.bus.deadcounter /\ r.did = s.did

OamIsDead(s, r) ==
  /\ s.bus.oam /\ s.dmc.countdown # 1 /\ ~s.bus.realign /\ s.bus.deadcounter > 0
  /\ r.bus.oam = s.bus.oam /\ r.bus.oam_index = s.bus.oam_index
  /\ r.bus.deadcounter = s.bus.deadcounter - 1 /\ r.did = s.did

OamMoves(s, r) ==
  /\ s.bus.oam /\ s.dmc.countdown # 1 /\ ~s.bus.realign /\ s.bus.deadcounter = 0
  /\ r.bus.oam = (r.bus.oam_index # OamLen)
  /\ r.bus.oam_index = s.bus.oam_index + 1 /\ r.bus.deadcounter = 0
  /\ r.did = s.did \cup {IF s.bus.oam_index % 2 = 0 THEN "get" ELSE "put"}

\* The sprite DMA's part of a cycle, with the end of a realignment, leaves the
\* DMC and RDY alone.
LEMMA OamKeeps ==
  ASSUME NEW s \in Mid, s.bus.oam => s.bus.oam_index < OamLen
  PROVE  LET r == ClearRealign(OamStep(s))
         IN /\ r \in Mid /\ r.dmc = s.dmc
            /\ r.bus.rdy = s.bus.rdy /\ r.bus.dmc = s.bus.dmc /\ ~r.bus.realign
            /\ OamWaits(s, r) \/ OamIsDead(s, r) \/ OamMoves(s, r)
<1> DEFINE o == OamStep(s)
           r == ClearRealign(o)
           b == s.bus
<1>1. /\ s.dmc \in DmcType /\ b \in BusType
      /\ s = [dmc |-> s.dmc, bus |-> b, did |-> s.did]
  BY DEF Mid
<1>2. ASSUME o \in Mid
      PROVE  /\ r \in Mid /\ r.dmc = o.dmc /\ r.did = o.did /\ ~r.bus.realign
             /\ r.bus.rdy = o.bus.rdy /\ r.bus.dmc = o.bus.dmc /\ r.bus.oam = o.bus.oam
             /\ r.bus.oam_index = o.bus.oam_index /\ r.bus.deadcounter = o.bus.deadcounter
  <2> DEFINE c == [o.bus EXCEPT !.realign = FALSE]
  <2> HIDE DEF o
  <2>1. r = [o EXCEPT !.bus = c]
    BY DEF ClearRealign
  <2>2. o.bus \in BusType
    BY <1>2 DEF Mid
  <2>3. /\ c \in BusType /\ ~c.realign
        /\ c.rdy = o.bus.rdy /\ c.dmc = o.bus.dmc /\ c.oam = o.bus.oam
        /\ c.oam_index = o.bus.oam_index /\ c.deadcounter = o.bus.deadcounter
    BY <2>2 DEF BusType
  <2> HIDE DEF c, r
  <2> QED BY <1>2, <2>1, <2>3 DEF Mid
<1> SUFFICES /\ r \in Mid /\ r.dmc = s.dmc
             /\ r.bus.rdy = s.bus.rdy /\ r.bus.dmc = s.bus.dmc /\ ~r.bus.realign
             /\ OamWaits(s, r) \/ OamIsDead(s, r) \/ OamMoves(s, r)
  OBVIOUS
<1>3. CASE ~b.oam \/ s.dmc.countdown = 1 \/ b.realign
  <2>1. o = s
    BY <1>3 DEF OamStep
  <2> HIDE DEF o, r
  <2> QED BY <1>2, <1>3, <2>1 DEF OamWaits
<1>4. CASE ~(~b.oam \/ s.dmc.countdown = 1 \/ b.realign) /\ b.deadcounter > 0
  <2> DEFINE n == b.deadcounter - 1
             c == [b EXCEPT !.deadcounter = n]
  <2>1. o = [s EXCEPT !.bus = c]
    BY <1>4 DEF OamStep
  <2>2. n \in 0..2
    BY <1>1, <1>4 DEF BusType
  <2> HIDE DEF n
  <2>3. /\ c \in BusType /\ c.deadcounter = n /\ c.realign = b.realign
        /\ c.rdy = b.rdy /\ c.dmc = b.dmc /\ c.oam = b.oam /\ c.oam_index = b.oam_index
    BY <1>1, <2>2 DEF BusType
  <2> HIDE DEF c, o, r
  <2>4. o \in Mid /\ o.dmc = s.dmc /\ o.bus = c /\ o.did = s.did
    BY <1>1, <2>1, <2>3 DEF Mid
  <2> QED BY <1>2, <1>4, <2>3, <2>4 DEF OamIsDead, n
<1>5. CASE ~(~b.oam \/ s.dmc.countdown = 1 \/ b.realign) /\ ~(b.deadcounter > 0)
  <2> DEFINE n == b.oam_index + 1
             m == n # OamLen
             h == s.did \cup {IF b.oam_index % 2 = 0 THEN "get" ELSE "put"}
             c == [b EXCEPT !.oam_index = n, !.oam = m]
  <2>1. o = [s EXCEPT !.bus = c, !.did = h]
    BY <1>1, <1>5 DEF OamStep
  <2>2. n \in 0..OamLen /\ m \in BOOLEAN /\ b.deadcounter = 0
    BY <1>1, <1>5, SizesAssumption DEF BusType
  <2>3. h \in SUBSET {"get", "put", "fetch", "cpu write"}
    BY DEF Mid
  <2>4. m = (n # OamLen)
    OBVIOUS
  <2> HIDE DEF n, m
  <2>5. /\ c \in BusType /\ c.oam_index = n /\ c.oam = m /\ c.realign = b.realign
        /\ c.rdy = b.rdy /\ c.dmc = b.dmc /\ c.deadcounter = b.deadcounter
    BY <1>1, <2>2 DEF BusType
  <2> HIDE DEF c, o, r
  <2>6. o \in Mid /\ o.dmc = s.dmc /\ o.bus = c /\ o.did = h
    <3> HIDE DEF h
    <3> QED BY <1>1, <2>1, <2>3, <2>5 DEF Mid
  <2> QED BY <1>2, <1>5, <2>2, <2>4, <2>5, <2>6 DEF OamMoves, n
<1> QED BY <1>3, <1>4, <1>5

DmaRests(s, r) == ~(s.dmc.countdown > 0) /\ r = s

DmaHolds(s, r) ==
  /\ s.dmc.countdown \in {2, 3}
  /\ r.dmc.countdown = IF s.dmc.countdown = 2 /\ ~cpu.frozen THEN 3 ELSE s.dmc.countdown - 1
  /\ ~r.bus.rdy /\ r.bus.dmc /\ ~r.bus.realign
  /\ r.did = s.did /\ r.dmc.filled = s.dmc.filled /\ r.dmc.reload = s.dmc.reload
  /\ r.dmc.fill_glitch_2 = s.dmc.fill_glitch_2

DmaFetches(s, r) ==
  /\ s.dmc.countdown = 1 /\ r.dmc.countdown = Idle
  /\ ~r.bus.rdy /\ ~r.bus.dmc /\ r.bus.realign
  /\ \/ /\ s.dmc.length = 0
        /\ r.did = s.did /\ r.dmc.filled = s.dmc.filled /\ r.dmc.reload = s.dmc.reload
        /\ r.dmc.fill_glitch_2 = s.dmc.fill_glitch_2
     \/ /\ s.dmc.length # 0
        /\ r.did = s.did \cup {"fetch"} /\ r.dmc.filled /\ r.dmc.reload = 3

\* A state of a cycle whose three parts are replaced.
WithParts(s, b, d, h) == [s EXCEPT !.bus = b, !.dmc = d, !.did = h]

\* It is the record of the new parts.
LEMMA WithPartsIs ==
  ASSUME NEW s \in Mid, NEW d, NEW b, NEW h
  PROVE  WithParts(s, b, d, h) = [dmc |-> d, bus |-> b, did |-> h]
<1> DEFINE x == [s EXCEPT !.bus = b]
           y == [x EXCEPT !.dmc = d]
<1>1. x = [dmc |-> s.dmc, bus |-> b, did |-> s.did]
  <2>1. s = [dmc |-> s.dmc, bus |-> s.bus, did |-> s.did]
    BY DEF Mid
  <2> QED BY <2>1
<1>2. WithParts(s, b, d, h) = [y EXCEPT !.did = h]
  BY DEF WithParts
<1> HIDE DEF x
<1>3. y = [dmc |-> d, bus |-> b, did |-> s.did]
  BY <1>1
<1> HIDE DEF y
<1>4. [y EXCEPT !.did = h] = [dmc |-> d, bus |-> b, did |-> h]
  BY <1>3
<1> QED BY <1>2, <1>4

\* DmcStep's last two cases, as operators.
HoldCpu(s) ==
  [s EXCEPT !.bus.realign = s.dmc.countdown = 1, !.bus.rdy = FALSE, !.bus.dmc = TRUE,
            !.dmc.countdown = DmaCountdown(s)]

EndDma(f) ==
  [f EXCEPT
    !.bus.dmc = FALSE,
    !.dmc.countdown = Idle,
    !.dmc.fill_glitch = @ \/ (f.dmc.timer = 2 /\ f.dmc.bits = 0 /\ f.dmc.length # 0),
    !.dmc.fill_glitch_2 = @ \/ (f.dmc.timer = 4 /\ f.dmc.bits = 0 /\ f.dmc.length = 1)]

\* DmcStep in terms of them.
LEMMA DmcStepIs ==
  ASSUME NEW s, ~(s.dmc.countdown <= 0)
  PROVE  DmcStep(s) = IF DmaCountdown(s) # 0 THEN HoldCpu(s) ELSE EndDma(Fetch(HoldCpu(s)))
BY DEF DmcStep, HoldCpu, EndDma

\* The DMC's DMA holds the CPU, and fetches when its countdown ends.
LEMMA DmcStepKeeps ==
  ASSUME NEW s \in Mid, s.dmc.countdown # -2, cpu.frozen \in BOOLEAN,
         s.dmc.countdown > 0 => s.dmc.rdy_check = 2,
         s.dmc.countdown = 2 => ~s.bus.rdy,
         ~s.bus.realign
  PROVE  LET r == DmcStep(s)
         IN /\ r \in Mid
            /\ r.dmc.timer = s.dmc.timer /\ r.dmc.bits = s.dmc.bits
            /\ r.dmc.length = s.dmc.length /\ r.dmc.delay = s.dmc.delay
            /\ r.dmc.call_from_write = s.dmc.call_from_write
            /\ r.dmc.fill_glitch_2_end = s.dmc.fill_glitch_2_end
            /\ r.dmc.rdy_check = s.dmc.rdy_check
            /\ r.bus.oam = s.bus.oam /\ r.bus.oam_index = s.bus.oam_index
            /\ r.bus.deadcounter = s.bus.deadcounter
            /\ ~s.bus.rdy => ~r.bus.rdy
            /\ DmaRests(s, r) \/ DmaHolds(s, r) \/ DmaFetches(s, r)
<1> DEFINE r == DmcStep(s)
           d == s.dmc
           left == DmaCountdown(s)
           realign == d.countdown = 1
           b == [s.bus EXCEPT !.realign = realign, !.rdy = FALSE, !.dmc = TRUE]
           e == [d EXCEPT !.countdown = left]
           held == [s EXCEPT !.bus = b, !.dmc = e]
           Goal == /\ r \in Mid
                   /\ r.dmc.timer = d.timer /\ r.dmc.bits = d.bits
                   /\ r.dmc.length = d.length /\ r.dmc.delay = d.delay
                   /\ r.dmc.call_from_write = d.call_from_write
                   /\ r.dmc.fill_glitch_2_end = d.fill_glitch_2_end
                   /\ r.dmc.rdy_check = d.rdy_check
                   /\ r.bus.oam = s.bus.oam /\ r.bus.oam_index = s.bus.oam_index
                   /\ r.bus.deadcounter = s.bus.deadcounter
                   /\ ~s.bus.rdy => ~r.bus.rdy
                   /\ DmaRests(s, r) \/ DmaHolds(s, r) \/ DmaFetches(s, r)
<1>1. /\ d \in DmcType /\ s.bus \in BusType
      /\ s = [dmc |-> d, bus |-> s.bus, did |-> s.did]
  BY DEF Mid
<1> SUFFICES Goal
  OBVIOUS
<1>2. CASE d.countdown <= 0
  <2>1. r = s
    BY <1>2 DEF DmcStep
  <2>2. ~(d.countdown > 0)
    BY <1>1, <1>2 DEF DmcType, Idle
  <2> HIDE DEF r
  <2> QED BY <2>1, <2>2 DEF DmaRests
<1>3. CASE ~(d.countdown <= 0)
  <2>1. d.countdown \in {1, 2, 3} /\ d.rdy_check = 2
    BY <1>1, <1>3 DEF DmcType, Idle
  <2>2. realign \in BOOLEAN /\ (realign <=> d.countdown = 1)
    OBVIOUS
  <2>4. HoldCpu(s) = held
    BY <1>1 DEF HoldCpu
  <2>9. r = IF left # 0 THEN held ELSE EndDma(Fetch(held))
    <3> HIDE DEF held, left
    <3>1. r = IF DmaCountdown(s) # 0 THEN HoldCpu(s) ELSE EndDma(Fetch(HoldCpu(s)))
      BY <1>3, DmcStepIs
    <3> QED BY <2>4, <3>1 DEF left
  <2> HIDE DEF realign
  <2>3. left = IF d.countdown = 2 /\ ~cpu.frozen THEN 3 ELSE d.countdown - 1
    BY <2>1 DEF DmaCountdown
  <2>5. /\ b \in BusType /\ ~b.rdy /\ b.dmc /\ b.realign = realign
        /\ b.oam = s.bus.oam /\ b.oam_index = s.bus.oam_index
        /\ b.deadcounter = s.bus.deadcounter
    BY <1>1, <2>2 DEF BusType
  <2> HIDE DEF left, b
  <2>6. /\ e.countdown = left
        /\ e.timer = d.timer /\ e.bits = d.bits /\ e.length = d.length
        /\ e.delay = d.delay /\ e.call_from_write = d.call_from_write
        /\ e.fill_glitch_2_end = d.fill_glitch_2_end /\ e.rdy_check = d.rdy_check
        /\ e.filled = d.filled /\ e.reload = d.reload
        /\ e.fill_glitch_2 = d.fill_glitch_2 /\ e.fill_glitch = d.fill_glitch
    BY <1>1 DEF DmcType
  <2>7. CASE left # 0
    <3>1. r = held
      BY <2>7, <2>9
    <3>2. left \in {1, 2, 3} /\ d.countdown \in {2, 3} /\ ~realign
      BY <2>1, <2>2, <2>3, <2>7
    <3>3. e \in DmcType
      BY <1>1, <3>2 DEF DmcType
    <3> HIDE DEF e, r
    <3>4. r \in Mid /\ r.dmc = e /\ r.bus = b /\ r.did = s.did
      BY <1>1, <2>5, <3>1, <3>3 DEF Mid
    <3> QED BY <2>3, <2>5, <2>6, <3>2, <3>4 DEF DmaHolds
  <2>8. CASE left = 0
    <3>1. d.countdown = 1 /\ realign
      BY <2>1, <2>2, <2>3, <2>8
    <3> DEFINE fetched == d.length # 0
               yes == TRUE
               k == [d EXCEPT !.filled = yes, !.reload = 3]
               h == IF fetched THEN k ELSE d
               m == IF fetched THEN [e EXCEPT !.filled = yes, !.reload = 3] ELSE e
               n == IF fetched THEN s.did \cup {"fetch"} ELSE s.did
               f == WithParts(s, b, m, n)
               y == h.fill_glitch \/ (h.timer = 2 /\ h.bits = 0 /\ h.length # 0)
               z == h.fill_glitch_2 \/ (h.timer = 4 /\ h.bits = 0 /\ h.length = 1)
               c == [b EXCEPT !.dmc = FALSE]
               g == [h EXCEPT !.countdown = Idle, !.fill_glitch = y, !.fill_glitch_2 = z]
    <3>2. r = EndDma(Fetch(held))
      BY <2>8, <2>9
    <3>3. /\ c \in BusType /\ ~c.rdy /\ ~c.dmc /\ c.realign
          /\ c.oam = s.bus.oam /\ c.oam_index = s.bus.oam_index
          /\ c.deadcounter = s.bus.deadcounter
      BY <2>5, <3>1 DEF BusType
    <3>4. Fetch(held) = f
      BY <1>1, <2>6 DEF Fetch, WithParts
    <3> yes \in BOOLEAN /\ yes
      OBVIOUS
    <3> HIDE DEF yes
    <3>5. /\ k \in DmcType /\ k.filled = yes /\ k.reload = 3
          /\ k.timer = d.timer /\ k.bits = d.bits /\ k.length = d.length
          /\ k.delay = d.delay /\ k.call_from_write = d.call_from_write
          /\ k.fill_glitch_2_end = d.fill_glitch_2_end /\ k.rdy_check = d.rdy_check
          /\ k.fill_glitch_2 = d.fill_glitch_2 /\ k.fill_glitch = d.fill_glitch
      BY <1>1 DEF DmcType
    <3>6. m.timer = h.timer /\ m.bits = h.bits /\ m.length = h.length
          /\ m.fill_glitch = h.fill_glitch /\ m.fill_glitch_2 = h.fill_glitch_2
      BY <1>1, <2>6 DEF DmcType
    <3>7. m = [h EXCEPT !.countdown = left]
      BY <1>1 DEF DmcType
    <3>8. [m EXCEPT !.countdown = Idle, !.fill_glitch = y, !.fill_glitch_2 = z] = g
      <4> HIDE DEF h, m, y, z
      <4> QED BY <3>7
    <3>9. h \in DmcType /\ y \in BOOLEAN /\ z \in BOOLEAN
      BY <1>1, <3>5 DEF DmcType
    <3>10. n \in SUBSET {"get", "put", "fetch", "cpu write"}
      BY DEF Mid
    <3>11. /\ h.length = d.length /\ h.timer = d.timer /\ h.bits = d.bits /\ h.delay = d.delay
           /\ h.call_from_write = d.call_from_write
           /\ h.fill_glitch_2_end = d.fill_glitch_2_end /\ h.rdy_check = d.rdy_check
      BY <1>1, <3>5 DEF DmcType
    <3>16. \/ /\ d.length = 0 /\ n = s.did
              /\ h.filled = d.filled /\ h.reload = d.reload /\ z = d.fill_glitch_2
           \/ /\ d.length # 0 /\ n = s.did \cup {"fetch"}
              /\ h.filled /\ h.reload = 3
      <4>1. CASE d.length = 0
        <5>1. h = d /\ n = s.did /\ (z <=> d.fill_glitch_2)
          BY <4>1
        <5>2. d.fill_glitch_2 \in BOOLEAN
          BY <1>1 DEF DmcType
        <5>3. z = d.fill_glitch_2
          <6> HIDE DEF z
          <6> QED BY <3>9, <5>1, <5>2
        <5> HIDE DEF h, n, z
        <5> QED BY <4>1, <5>1, <5>3
      <4>2. CASE d.length # 0
        BY <3>5, <4>2
      <4> QED BY <1>1, <4>1, <4>2
    <3>12. EndDma(f) = [dmc |-> g, bus |-> c, did |-> n]
      <4> HIDE DEF m, b, n, h
      <4>1. f = [dmc |-> m, bus |-> b, did |-> n]
        BY WithPartsIs
      <4>2. f.dmc = m /\ f.bus = b
        BY <4>1
      <4> HIDE DEF f
      <4>3. EndDma(f) = [f EXCEPT !.bus = c, !.dmc = [m EXCEPT !.countdown = Idle, !.fill_glitch = y, !.fill_glitch_2 = z]]
        BY <3>6, <4>1, <4>2 DEF EndDma
      <4> QED BY <3>8, <4>1, <4>3
    <3> HIDE DEF c, f, h, n, y, z, r
    <3>13. /\ g \in DmcType
           /\ g.countdown = Idle /\ g.fill_glitch_2 = z
           /\ g.timer = h.timer /\ g.bits = h.bits /\ g.delay = h.delay
           /\ g.call_from_write = h.call_from_write
           /\ g.fill_glitch_2_end = h.fill_glitch_2_end /\ g.rdy_check = h.rdy_check
           /\ g.length = h.length /\ g.filled = h.filled /\ g.reload = h.reload
      <4> DEFINE p == [h EXCEPT !.countdown = Idle]
      <4>1. p \in DmcType
        BY <3>9 DEF DmcType
      <4>2. g = [p EXCEPT !.fill_glitch = y, !.fill_glitch_2 = z]
        OBVIOUS
      <4> HIDE DEF p
      <4>3. g \in DmcType
        BY <3>9, <4>1, <4>2 DEF DmcType
      <4>4. /\ g.countdown = Idle /\ g.fill_glitch_2 = z
            /\ g.timer = h.timer /\ g.bits = h.bits /\ g.delay = h.delay
            /\ g.call_from_write = h.call_from_write
            /\ g.fill_glitch_2_end = h.fill_glitch_2_end /\ g.rdy_check = h.rdy_check
            /\ g.length = h.length /\ g.filled = h.filled /\ g.reload = h.reload
        BY <3>9 DEF DmcType
      <4> HIDE DEF g
      <4> QED BY <4>3, <4>4
    <3> HIDE DEF g
    <3>14. r = [dmc |-> g, bus |-> c, did |-> n]
      BY <3>2, <3>4, <3>12
    <3>15. r \in Mid /\ r.dmc = g /\ r.bus = c /\ r.did = n
      BY <3>3, <3>10, <3>13, <3>14 DEF Mid
    <3> QED BY <3>1, <3>3, <3>11, <3>13, <3>15, <3>16 DEF DmaFetches
  <2> QED BY <2>7, <2>8
<1> QED BY <1>2, <1>3

-----------------------------------------------------------------------------
(***************************************************************************)
(* The inductive invariant.  A DMA may have begun while the CPU was        *)
(* writing; it is then put off for as long as the writes last, and a DMA   *)
(* whose countdown has come out of step with the timer must fetch before   *)
(* the output unit asks for the byte.  That works out because there are at *)
(* most three writes in a row and a byte lasts longer than the wait.       *)
(***************************************************************************)

\* The writes the CPU may still do before its next read.
WritesLeft ==
  IF cpu.gap = WriteGap THEN (IF cpu.again = NoReg THEN 0 ELSE 1) ELSE MaxWriteRun - cpu.run

\* A DMA out of step: one that ends in a cycle in which the timer is odd.
OffBeat(d) == d.countdown > 0 /\ d.countdown % 2 = d.timer % 2

\* What a DMA in flight or about to start has prepared.
DmaReady ==
  /\ dmc.countdown > 0 => dmc.rdy_check = 2 /\ dmc.delay = 0
  /\ dmc.countdown \in {1, 2} => bus.dmc
  /\ dmc.countdown = 1 => cpu.frozen
  /\ dmc.delay = 2 => dmc.timer % 2 = 0
  /\ dmc.delay = 1 => dmc.timer % 2 = 1
  /\ cpu.again # NoReg => cpu.gap = WriteGap

\* A DMA out of step is in time for the next byte.
DmaInTime ==
  OffBeat(dmc) => /\ dmc.bits = BitsPerByte - 1
                  /\ dmc.timer >= IF cpu.frozen THEN dmc.countdown ELSE WritesLeft + 4

\* A DMA that nobody has started yet, although the buffer is empty, starts in
\* the next cycle: the buffer has just been emptied.
RestartDue ==
  ~dmc.filled /\ dmc.length > 0 /\ dmc.countdown = Idle /\ dmc.delay = 0 /\ ~dmc.call_from_write
    => dmc.bits = BitsPerByte - 1 /\ dmc.timer >= 8 /\ dmc.timer % 2 = 0 /\ ~dmc.fill_glitch_2

\* The cycles the sprite DMA has gone through, an interruption by a fetch
\* included, are in step with the timer.
OamInStep(b, timer) ==
  (b.oam_index + b.deadcounter + IF b.realign THEN 1 ELSE 0) % 2 = timer % 2

\* A sprite DMA has bytes to move, and dead cycles for as long as the CPU may
\* still write.
OamReady ==
  /\ bus.realign => dmc.countdown # 1
  /\ bus.oam =>
       /\ bus.oam_index < OamLen
       /\ \/ cpu.frozen
          \/ bus.deadcounter > 0 /\ cpu.gap = WriteGap /\ cpu.again \in {NoReg, "4014"}
       /\ OamInStep(bus, dmc.timer)

\* A reload follows a fetch while the buffer is full; one whose length is gone
\* (only a reset does that) is over before the byte is.
ReloadDue ==
  /\ dmc.reload = 2 => cpu.frozen /\ dmc.filled
  /\ dmc.reload = 1 => dmc.filled \/ (dmc.timer >= 8 /\ dmc.bits = BitsPerByte - 1)
  /\ dmc.reload > 0 /\ dmc.length = 0 =>
       /\ dmc.filled /\ ~dmc.fill_glitch_2 /\ dmc.bits = 0
       /\ dmc.timer \in {1, 2, 3} /\ (dmc.reload = 2 => dmc.timer # 1)

Inside ==
  /\ HeldIffDma /\ DmaReady /\ DmaInTime /\ RestartDue /\ OamReady /\ ReloadDue
  /\ ReloadHasLength

IInv == TypeOK /\ Inside /\ FetchEndsDma /\ OneBusOwner /\ OamParity

(***************************************************************************)
(* The same, for the state s in which the CPU's part of a cycle finds the  *)
(* DMAs.                                                                   *)
(***************************************************************************)
DmaSeen(s) ==
  /\ s.bus.dmc \/ s.bus.oam => ~s.bus.rdy
  /\ s.dmc.countdown > 0 => s.dmc.rdy_check = 2 /\ s.dmc.delay = 0
  /\ s.dmc.countdown \in {1, 2} => s.bus.dmc
  /\ s.dmc.countdown = 1 => cpu.frozen
  /\ s.dmc.delay = 2 => s.dmc.timer % 2 = 0
  /\ s.dmc.delay = 1 => s.dmc.timer % 2 = 1

InTimeSeen(s) ==
  OffBeat(s.dmc) => /\ ~s.bus.rdy /\ s.dmc.bits = BitsPerByte - 1
                    /\ s.dmc.timer >= IF cpu.frozen THEN s.dmc.countdown ELSE WritesLeft + 3

RestartSeen(s) ==
  ~s.dmc.filled /\ (s.dmc.length > 0 \/ s.dmc.reload > 0)
    /\ s.dmc.countdown = Idle /\ s.dmc.delay = 0 /\ ~s.dmc.call_from_write
    => s.dmc.bits = BitsPerByte - 1 /\ s.dmc.timer >= 8 /\ s.dmc.timer % 2 = 0
       /\ ~s.dmc.fill_glitch_2

OamSeen(s) ==
  /\ s.bus.realign => s.dmc.countdown # 1 /\ cpu.frozen
  /\ s.bus.oam =>
       /\ s.bus.oam_index < OamLen
       /\ cpu.frozen \/ (cpu.gap = WriteGap /\ cpu.again \in {NoReg, "4014"})
       /\ OamInStep(s.bus, s.dmc.timer)

ReloadSeen(s) ==
  /\ s.dmc.reload = 3 => cpu.frozen /\ ~s.bus.rdy /\ s.dmc.filled /\ s.dmc.length > 0
  /\ s.dmc.reload = 2 =>
       /\ cpu.frozen
       /\ s.dmc.filled \/ (s.dmc.timer >= 8 /\ s.dmc.bits = BitsPerByte - 1)
       /\ s.dmc.length = 0 => /\ s.dmc.filled /\ ~s.dmc.fill_glitch_2 /\ s.dmc.bits = 0
                              /\ s.dmc.timer \in {1, 2, 3}
  /\ resets = 0 /\ s.dmc.reload > 0 => s.dmc.length > 0

DidSeen(s) ==
  /\ s.did = {} \/ (cpu.frozen /\ \E e \in {"get", "put", "fetch"} : s.did = {e})
  /\ "fetch" \in s.did => s.dmc.countdown = Idle
  /\ "get" \in s.did => s.dmc.timer % 2 = 1
  /\ "put" \in s.did => s.dmc.timer % 2 = 0

CpuSees(s) ==
  /\ s \in Mid /\ s.dmc.delay # 3 /\ s.dmc.countdown # -2 /\ ~s.dmc.fill_glitch_2_end
  /\ DmaSeen(s) /\ InTimeSeen(s) /\ RestartSeen(s) /\ OamSeen(s) /\ ReloadSeen(s) /\ DidSeen(s)

-----------------------------------------------------------------------------
(***************************************************************************)
(* The parts of a cycle before the CPU's: a after the sprite DMA, b after  *)
(* the DMC's DMA, t the unit whose timer has ticked, s after the Run and   *)
(* its abort.                                                              *)
(***************************************************************************)
OamPart(a) ==
  /\ a \in Mid /\ a.dmc = dmc
  /\ a.bus.rdy = bus.rdy /\ a.bus.dmc = bus.dmc /\ ~a.bus.realign
  /\ \/ /\ ~bus.oam \/ dmc.countdown = 1 \/ bus.realign
        /\ a.bus.oam = bus.oam /\ a.bus.oam_index = bus.oam_index
        /\ a.bus.deadcounter = bus.deadcounter /\ a.did = {}
     \/ /\ bus.oam /\ dmc.countdown # 1 /\ ~bus.realign /\ bus.deadcounter > 0
        /\ a.bus.oam = bus.oam /\ a.bus.oam_index = bus.oam_index
        /\ a.bus.deadcounter = bus.deadcounter - 1 /\ a.did = {}
     \/ /\ bus.oam /\ dmc.countdown # 1 /\ ~bus.realign /\ bus.deadcounter = 0
        /\ a.bus.oam = (a.bus.oam_index # OamLen)
        /\ a.bus.oam_index = bus.oam_index + 1 /\ a.bus.deadcounter = 0
        /\ a.did = {IF bus.oam_index % 2 = 0 THEN "get" ELSE "put"}

DmaPart(a, b) ==
  /\ b \in Mid
  /\ b.dmc.timer = dmc.timer /\ b.dmc.bits = dmc.bits
  /\ b.dmc.length = dmc.length /\ b.dmc.delay = dmc.delay
  /\ b.dmc.call_from_write = dmc.call_from_write
  /\ b.dmc.rdy_check = dmc.rdy_check
  /\ b.bus.oam = a.bus.oam /\ b.bus.oam_index = a.bus.oam_index
  /\ b.bus.deadcounter = a.bus.deadcounter
  /\ ~bus.rdy => ~b.bus.rdy
  /\ DmaRests(a, b) \/ DmaHolds(a, b) \/ DmaFetches(a, b)

TickPart(b, t) ==
  /\ t \in DmcType
  /\ t.timer % 2 # dmc.timer % 2
  /\ \/ dmc.timer # 1 /\ t.timer = dmc.timer - 1 /\ t.bits = dmc.bits /\ t.filled = b.dmc.filled
     \/ /\ dmc.timer = 1 /\ t.timer >= 8
        /\ t.filled = (b.dmc.filled /\ dmc.bits # 0)
        /\ dmc.bits = 0 => t.bits = BitsPerByte - 1
  /\ t.length = dmc.length /\ t.delay = dmc.delay /\ t.reload = b.dmc.reload
  /\ t.countdown = b.dmc.countdown /\ t.rdy_check = dmc.rdy_check
  /\ t.call_from_write = dmc.call_from_write /\ t.fill_glitch_2 = b.dmc.fill_glitch_2

RunPart(b, t, s) ==
  /\ s \in Mid /\ s.dmc.delay # 3 /\ s.dmc.countdown # -2 /\ ~s.dmc.fill_glitch_2_end
  /\ Frame(b, s)
  /\ s.dmc.timer = t.timer /\ s.dmc.bits = t.bits
  /\ ~b.bus.rdy => ~s.bus.rdy
  /\ RunEnds(b, t, s)

\* The types a cycle starts with.
LEMMA StartTypes ==
  ASSUME TypeOK
  PROVE  /\ dmc \in DmcType /\ bus \in BusType /\ ~dmc.fill_glitch_2_end
         /\ dmc.delay \in {0, 1, 2} /\ dmc.countdown \in {Idle, 1, 2, 3}
         /\ dmc.reload \in {0, 1, 2}
         /\ cpu.frozen \in BOOLEAN /\ cpu.run \in 0..MaxWriteRun /\ cpu.gap \in 0..WriteGap
<1>1. dmc \in DmcType
  <2>1. {0, 1, 2} \subseteq {0, 1, 2, 3} /\ 0..2 \subseteq {0, 1, 2, 3} /\ {FALSE} \subseteq BOOLEAN
        /\ {Idle, 1, 2, 3} \subseteq {-2, Idle, 1, 2, 3}
    OBVIOUS
  <2> QED BY <2>1 DEF TypeOK, DmcType, Timers
<1>2. bus \in BusType
  BY DEF TypeOK, BusType
<1>3. /\ ~dmc.fill_glitch_2_end
      /\ dmc.delay \in {0, 1, 2} /\ dmc.countdown \in {Idle, 1, 2, 3}
      /\ dmc.reload \in {0, 1, 2}
  <2>1. dmc.fill_glitch_2_end \in {FALSE} /\ dmc.reload \in 0..2
    BY DEF TypeOK
  <2>2. dmc.delay \in {0, 1, 2} /\ dmc.countdown \in {Idle, 1, 2, 3}
    BY DEF TypeOK
  <2>3. ~dmc.fill_glitch_2_end
    BY <2>1, Zenon
  <2>4. dmc.reload \in {0, 1, 2}
    BY <2>1
  <2> QED BY <2>2, <2>3, <2>4
<1>4. cpu.frozen \in BOOLEAN /\ cpu.run \in 0..MaxWriteRun /\ cpu.gap \in 0..WriteGap
  BY DEF TypeOK
<1> QED BY <1>1, <1>2, <1>3, <1>4

\* A cycle goes through these parts.
LEMMA PartsOfCycle ==
  ASSUME TypeOK, HeldIffDma, DmaReady, OamReady
  PROVE  \E a, b, t : OamPart(a) /\ DmaPart(a, b) /\ TickPart(b, t) /\ RunPart(b, t, BeforeCpu)
<1> DEFINE z == [dmc |-> dmc, bus |-> bus, did |-> {}]
           a == ClearRealign(OamStep(z))
           b == DmcStep(a)
           t == TickTimer(b.dmc)
           s == AbortDma(Run(b))
<1>1. BeforeCpu = s
  BY DEF BeforeCpu
<1>2. z \in Mid /\ z.dmc = dmc /\ z.bus = bus /\ z.did = {}
  BY StartTypes DEF Mid
<1> HIDE DEF z
<1>3. z.bus.oam => z.bus.oam_index < OamLen
  BY <1>2 DEF OamReady
<1>4. /\ a \in Mid /\ a.dmc = z.dmc
      /\ a.bus.rdy = z.bus.rdy /\ a.bus.dmc = z.bus.dmc /\ ~a.bus.realign
      /\ OamWaits(z, a) \/ OamIsDead(z, a) \/ OamMoves(z, a)
  BY <1>2, <1>3, OamKeeps
<1> HIDE DEF a
<1>5. OamPart(a)
  BY <1>2, <1>4 DEF OamPart, OamWaits, OamIsDead, OamMoves
<1>6. /\ a.dmc.countdown # -2 /\ cpu.frozen \in BOOLEAN
      /\ a.dmc.countdown > 0 => a.dmc.rdy_check = 2
      /\ a.dmc.countdown = 2 => ~a.bus.rdy
  BY <1>2, <1>4, StartTypes DEF DmaReady, HeldIffDma, Idle
<1>7. /\ b \in Mid
      /\ b.dmc.timer = a.dmc.timer /\ b.dmc.bits = a.dmc.bits
      /\ b.dmc.length = a.dmc.length /\ b.dmc.delay = a.dmc.delay
      /\ b.dmc.call_from_write = a.dmc.call_from_write
      /\ b.dmc.fill_glitch_2_end = a.dmc.fill_glitch_2_end
      /\ b.dmc.rdy_check = a.dmc.rdy_check
      /\ b.bus.oam = a.bus.oam /\ b.bus.oam_index = a.bus.oam_index
      /\ b.bus.deadcounter = a.bus.deadcounter
      /\ ~a.bus.rdy => ~b.bus.rdy
      /\ DmaRests(a, b) \/ DmaHolds(a, b) \/ DmaFetches(a, b)
  BY <1>4, <1>6, DmcStepKeeps
<1> HIDE DEF b
<1>8. DmaPart(a, b)
  BY <1>2, <1>4, <1>7 DEF DmaPart
<1>9. b.dmc \in DmcType
  BY <1>7 DEF Mid
<1>10. /\ t \in DmcType
       /\ t.timer % 2 # b.dmc.timer % 2
       /\ \/ /\ b.dmc.timer # 1 /\ t.timer = b.dmc.timer - 1 /\ t.bits = b.dmc.bits
             /\ t.filled = b.dmc.filled
          \/ /\ b.dmc.timer = 1 /\ t.timer >= 8
             /\ t.filled = (b.dmc.filled /\ b.dmc.bits # 0)
             /\ b.dmc.bits = 0 => t.bits = BitsPerByte - 1
       /\ t = [b.dmc EXCEPT !.timer = t.timer, !.bits = t.bits, !.filled = t.filled]
  BY <1>9, TickTimerKeeps
<1>11. /\ b.dmc.delay # 3 /\ b.dmc.countdown # -2 /\ ~b.dmc.fill_glitch_2_end
       /\ b.dmc.countdown # Idle => b.dmc.delay = 0
  <2>1. b.dmc.delay # 3 /\ ~b.dmc.fill_glitch_2_end
    BY <1>2, <1>4, <1>7, StartTypes
  <2>2. dmc.countdown # Idle => dmc.delay = 0
    BY StartTypes DEF DmaReady, Idle
  <2>3. CASE DmaRests(a, b)
    BY <1>2, <1>4, <1>6, <1>7, <2>1, <2>2, <2>3 DEF DmaRests
  <2>4. CASE DmaHolds(a, b)
    BY <1>2, <1>4, <1>6, <1>7, <2>1, <2>2, <2>4 DEF DmaHolds, Idle
  <2>5. CASE DmaFetches(a, b)
    BY <1>2, <1>4, <1>6, <1>7, <2>1, <2>2, <2>5 DEF DmaFetches, Idle
  <2> QED BY <1>7, <2>3, <2>4, <2>5
<1>12. /\ s \in Mid /\ s.dmc.delay # 3 /\ s.dmc.countdown # -2 /\ ~s.dmc.fill_glitch_2_end
       /\ Frame(b, s)
       /\ s.dmc.timer = t.timer /\ s.dmc.bits = t.bits
       /\ ~b.bus.rdy => ~s.bus.rdy
       /\ RunEnds(b, t, s)
  BY <1>7, <1>11, RunAbortKeeps
<1> HIDE DEF t, s
<1>13. /\ t.length = b.dmc.length /\ t.delay = b.dmc.delay /\ t.reload = b.dmc.reload
       /\ t.countdown = b.dmc.countdown /\ t.rdy_check = b.dmc.rdy_check
       /\ t.call_from_write = b.dmc.call_from_write /\ t.fill_glitch_2 = b.dmc.fill_glitch_2
  BY <1>9, <1>10 DEF DmcType
<1>14. TickPart(b, t)
  BY <1>2, <1>4, <1>7, <1>10, <1>13 DEF TickPart
<1>15. RunPart(b, t, s)
  BY <1>12 DEF RunPart
<1> QED BY <1>1, <1>5, <1>8, <1>14, <1>15

Parts(a, b, t, s) == OamPart(a) /\ DmaPart(a, b) /\ TickPart(b, t) /\ RunPart(b, t, s)

\* What the unit's countdown is when the timer has ticked.
LEMMA CountdownTicked ==
  ASSUME TypeOK, HeldIffDma, DmaReady, NEW a, NEW b, NEW t, NEW s, Parts(a, b, t, s)
  PROVE  \/ /\ dmc.countdown = Idle
            /\ b.dmc = dmc /\ b.bus = a.bus /\ b.did = a.did
         \/ /\ dmc.countdown \in {2, 3} /\ ~Hungry(t) /\ t.delay = 0 /\ s.dmc = t
            /\ t.countdown = IF dmc.countdown = 2 /\ ~cpu.frozen THEN 3 ELSE dmc.countdown - 1
            /\ b.dmc.filled = dmc.filled /\ b.dmc.reload = dmc.reload
            /\ b.dmc.fill_glitch_2 = dmc.fill_glitch_2
            /\ ~s.bus.rdy /\ s.bus.dmc /\ ~s.bus.realign /\ s.did = a.did
         \/ /\ dmc.countdown = 1 /\ cpu.frozen /\ t.countdown = Idle /\ t.delay = 0
            /\ ~b.bus.rdy /\ ~b.bus.dmc /\ b.bus.realign /\ a.did = {}
            /\ \/ /\ dmc.length = 0 /\ b.did = {}
                  /\ b.dmc.filled = dmc.filled /\ b.dmc.reload = dmc.reload
                  /\ b.dmc.fill_glitch_2 = dmc.fill_glitch_2
               \/ /\ dmc.length # 0 /\ b.did = {"fetch"} /\ b.dmc.filled /\ b.dmc.reload = 3
<1>1. dmc.countdown \in {Idle, 1, 2, 3}
  BY StartTypes
<1>2. a.dmc = dmc /\ (DmaRests(a, b) \/ DmaHolds(a, b) \/ DmaFetches(a, b))
  BY DEF Parts, OamPart, DmaPart
<1>3. CASE DmaRests(a, b)
  BY <1>1, <1>2, <1>3 DEF DmaRests, Idle
<1>4. CASE DmaHolds(a, b)
  <2>1. t.delay = 0 /\ t.countdown = b.dmc.countdown /\ t.countdown \in {1, 2, 3}
    BY <1>2, <1>4 DEF Parts, TickPart, DmaHolds, DmaReady
  <2>2. ~Hungry(t)
    BY <2>1 DEF Hungry, Idle
  <2>3. s.dmc = t /\ s.bus = b.bus /\ s.did = b.did
    BY <2>1, <2>2
       DEF Parts, RunPart, RunEnds, RunsQuiet, WaitsForStart, StartsByWrite, FillsByGlitch,
           StartsReload, CallsOff, Frame
  <2> QED BY <1>2, <1>4, <2>1, <2>2, <2>3 DEF DmaHolds
<1>5. CASE DmaFetches(a, b)
  <2>1. t.delay = 0 /\ t.countdown = Idle
    BY <1>2, <1>5 DEF Parts, TickPart, DmaFetches, DmaReady
  <2>2. cpu.frozen /\ a.did = {}
    BY <1>2, <1>5 DEF Parts, OamPart, DmaFetches, DmaReady
  <2> QED BY <1>2, <1>5, <2>1, <2>2 DEF DmaFetches
<1> QED BY <1>2, <1>3, <1>4, <1>5

\* The DMAs as the CPU finds them.
LEMMA DmaIsSeen ==
  ASSUME TypeOK, HeldIffDma, DmaReady, NEW a, NEW b, NEW t, NEW s, Parts(a, b, t, s)
  PROVE  DmaSeen(s)
<1>1. s.bus.dmc \/ s.bus.oam => ~s.bus.rdy
  <2>1. a.bus.dmc \/ a.bus.oam => ~a.bus.rdy
    BY DEF Parts, OamPart, HeldIffDma
  <2>2. b.bus.dmc \/ b.bus.oam => ~b.bus.rdy
    BY <2>1 DEF Parts, DmaPart, DmaRests, DmaHolds, DmaFetches
  <2> QED BY <2>2
          DEF Parts, RunPart, RunEnds, RunsQuiet, WaitsForStart, StartsByWrite, FillsByGlitch,
              StartsReload, CallsOff, Frame
<1>2. /\ t.delay = dmc.delay /\ t.rdy_check = dmc.rdy_check /\ t.countdown = b.dmc.countdown
      /\ t.timer % 2 # dmc.timer % 2 /\ t.timer \in Nat /\ dmc.timer \in Nat /\ s.dmc.timer = t.timer
      /\ dmc.delay \in {0, 1, 2}
  BY StartTypes, TimerFacts DEF Parts, TickPart, RunPart, DmcType
<1>3. CASE RunsQuiet(b, t, s)
  <2>1. CASE dmc.countdown = Idle
    <3>1. t.countdown = Idle
      BY <1>2, <2>1, CountdownTicked DEF Idle
    <3> QED BY <1>1, <1>2, <1>3, <3>1 DEF DmaSeen, RunsQuiet, Idle
  <2>2. CASE dmc.countdown \in {2, 3}
    BY <1>1, <1>2, <1>3, <2>2, CountdownTicked DEF DmaSeen, DmaReady, Idle
  <2>3. CASE dmc.countdown = 1
    <3>1. t.countdown = Idle
      BY <2>3, CountdownTicked DEF Idle
    <3> QED BY <1>1, <1>2, <1>3, <3>1 DEF DmaSeen, RunsQuiet, Idle
  <2> QED BY <2>1, <2>2, <2>3, StartTypes
<1>4. CASE WaitsForStart(b, t, s)
  BY <1>1, <1>2, <1>4 DEF DmaSeen, DmaReady, WaitsForStart, Hungry, Idle
<1>5. CASE StartsByWrite(b, t, s)
  BY <1>1, <1>2, <1>5 DEF DmaSeen, StartsByWrite
<1>6. CASE FillsByGlitch(b, t, s)
  BY <1>1, <1>2, <1>6 DEF DmaSeen, FillsByGlitch, Idle
<1>7. CASE StartsReload(b, t, s)
  BY <1>1, <1>2, <1>7 DEF DmaSeen, StartsReload
<1>8. CASE CallsOff(b, t, s)
  BY <1>1, <1>2, <1>8 DEF DmaSeen, CallsOff, Idle
<1> QED BY <1>3, <1>4, <1>5, <1>6, <1>7, <1>8 DEF Parts, RunPart, RunEnds

\* The numbers of a tick.
LEMMA TickNumbers ==
  ASSUME TypeOK, NEW a, NEW b, NEW t, NEW s, Parts(a, b, t, s)
  PROVE  /\ t.timer \in Nat /\ dmc.timer \in Nat /\ dmc.timer >= 1
         /\ t.timer % 2 # dmc.timer % 2 /\ s.dmc.timer = t.timer /\ s.dmc.bits = t.bits
         /\ t.delay = dmc.delay /\ t.length = dmc.length /\ dmc.length \in Nat
         /\ dmc.bits \in 0..(BitsPerByte - 1) /\ BitsPerByte - 1 >= 1
         /\ WritesLeft \in 0..3
         /\ \/ dmc.timer # 1 /\ t.timer = dmc.timer - 1 /\ t.bits = dmc.bits /\ t.filled = b.dmc.filled
            \/ /\ dmc.timer = 1 /\ t.timer >= 8
               /\ dmc.bits = 0 => ~t.filled /\ t.bits = BitsPerByte - 1
               /\ dmc.bits # 0 => t.filled = b.dmc.filled
<1>1. /\ t.timer \in Nat /\ dmc.timer \in Nat /\ dmc.timer >= 1 /\ dmc.length \in Nat
      /\ dmc.bits \in 0..(BitsPerByte - 1)
  BY StartTypes, TimerFacts DEF Parts, TickPart, DmcType
<1>2. WritesLeft \in 0..3
  BY StartTypes DEF WritesLeft, MaxWriteRun, WriteGap
<1>3. BitsPerByte - 1 >= 1
  BY SizesAssumption
<1>4. b.dmc.filled \in BOOLEAN /\ t.filled \in BOOLEAN
  BY DEF Parts, DmaPart, TickPart, Mid, DmcType
<1>5. ASSUME t.filled = (b.dmc.filled /\ dmc.bits # 0)
      PROVE  (dmc.bits = 0 => ~t.filled) /\ (dmc.bits # 0 => t.filled = b.dmc.filled)
  BY <1>4, <1>5, Zenon
<1> QED BY <1>1, <1>2, <1>3, <1>5 DEF Parts, TickPart, RunPart

\* A unit that asks for a byte of its sample, and not because of a write, has
\* run empty in this cycle or in the one before.
LEMMA AsksInTime ==
  ASSUME TypeOK, Inside, NEW a, NEW b, NEW t, NEW s, Parts(a, b, t, s),
         Hungry(t), ~t.call_from_write, t.length > 0
  PROVE  /\ t.bits = BitsPerByte - 1 /\ t.timer >= 7
         /\ t.timer % 2 = 1 => ~t.fill_glitch_2
         /\ t.timer % 2 = 0 => t.timer >= 8
<1>1. ~t.filled /\ t.delay = 0
  BY DEF Hungry
<1>2. t.call_from_write = dmc.call_from_write /\ t.fill_glitch_2 = b.dmc.fill_glitch_2
  BY DEF Parts, TickPart
<1>3. CASE dmc.countdown = Idle
  <2>1. b.dmc = dmc
    BY <1>3, CountdownTicked DEF Idle, Inside
  <2>2. CASE dmc.timer = 1 /\ dmc.bits = 0
    BY <2>2, TickNumbers
  <2>3. CASE dmc.timer = 1 /\ dmc.bits # 0
    <3>1. ~dmc.filled
      BY <1>1, <2>1, <2>3, TickNumbers
    <3>2. dmc.timer >= 8
      BY <1>1, <1>2, <1>3, <3>1, TickNumbers DEF Inside, RestartDue
    <3>3. FALSE
      BY <2>3, <3>2
    <3> QED BY <3>3
  <2>4. CASE dmc.timer # 1
    <3>1. ~dmc.filled
      BY <1>1, <2>1, <2>4, TickNumbers
    <3>2. dmc.timer >= 8 /\ dmc.timer % 2 = 0 /\ dmc.bits = BitsPerByte - 1 /\ ~dmc.fill_glitch_2
      BY <1>1, <1>2, <1>3, <3>1, TickNumbers DEF Inside, RestartDue
    <3> QED BY <1>2, <2>1, <2>4, <3>2, TickNumbers
  <2> QED BY <2>2, <2>3, <2>4
<1>4. CASE dmc.countdown \in {2, 3}
  BY <1>4, CountdownTicked DEF Idle, Inside
<1>5. CASE dmc.countdown = 1
  <2>1. b.dmc.filled
    BY <1>5, CountdownTicked, TickNumbers DEF Idle, Inside
  <2>2. dmc.timer = 1
    BY <1>1, <2>1, TickNumbers
  <2>3. dmc.bits = BitsPerByte - 1
    BY <1>5, <2>2 DEF Inside, DmaInTime, OffBeat
  <2> QED BY <1>1, <2>1, <2>2, <2>3, TickNumbers
<1> QED BY <1>3, <1>4, <1>5, StartTypes

\* The countdown that goes on, out of step, as the CPU finds it.
LEMMA InTimeIsSeen ==
  ASSUME TypeOK, Inside, NEW a, NEW b, NEW t, NEW s, Parts(a, b, t, s)
  PROVE  InTimeSeen(s)
<1> SUFFICES ASSUME OffBeat(s.dmc)
             PROVE  /\ ~s.bus.rdy /\ s.dmc.bits = BitsPerByte - 1
                    /\ s.dmc.timer >= IF cpu.frozen THEN s.dmc.countdown ELSE WritesLeft + 3
  BY DEF InTimeSeen
<1>1. s.dmc.countdown > 0
  BY DEF OffBeat
<1>2. CASE RunsQuiet(b, t, s)
  <2>1. dmc.countdown \in {2, 3}
    <3>1. t.countdown # Idle
      BY <1>1, <1>2 DEF RunsQuiet, Idle
    <3> QED BY <3>1, CountdownTicked, StartTypes DEF Parts, TickPart, Inside
  <2>2. /\ t.countdown = IF dmc.countdown = 2 /\ ~cpu.frozen THEN 3 ELSE dmc.countdown - 1
        /\ ~s.bus.rdy /\ s.dmc = t
    BY <2>1, CountdownTicked DEF Idle, Inside
  <2>3. OffBeat(dmc)
    BY <2>1, <2>2, TickNumbers DEF OffBeat
  <2>4. /\ dmc.bits = BitsPerByte - 1
        /\ dmc.timer >= IF cpu.frozen THEN dmc.countdown ELSE WritesLeft + 4
    BY <2>3 DEF Inside, DmaInTime
  <2>5. dmc.timer # 1
    BY <2>1, <2>4, TickNumbers
  <2> QED BY <2>1, <2>2, <2>4, <2>5, TickNumbers
<1>3. CASE WaitsForStart(b, t, s)
  BY <1>1, <1>3 DEF WaitsForStart, Idle
<1>4. CASE StartsByWrite(b, t, s)
  BY <1>4, TickNumbers DEF StartsByWrite, OffBeat, Inside, DmaReady
<1>5. CASE FillsByGlitch(b, t, s)
  BY <1>1, <1>5 DEF FillsByGlitch, Idle
<1>6. CASE StartsReload(b, t, s)
  <2>1. Hungry(t) /\ ~t.call_from_write /\ t.length > 0
    BY <1>6 DEF StartsReload, Hungry
  <2>2. t.bits = BitsPerByte - 1 /\ t.timer >= 7
    BY <2>1, AsksInTime
  <2> QED BY <1>6, <2>2, TickNumbers DEF StartsReload
<1>7. CASE CallsOff(b, t, s)
  BY <1>1, <1>7 DEF CallsOff, Idle
<1> QED BY <1>2, <1>3, <1>4, <1>5, <1>6, <1>7 DEF Parts, RunPart, RunEnds

\* A byte that has been fetched is still there when the CPU's turn comes, and
\* nothing else has been started.
LEMMA FetchedStays ==
  ASSUME TypeOK, Inside, NEW a, NEW b, NEW t, NEW s, Parts(a, b, t, s),
         dmc.countdown = 1, dmc.length # 0
  PROVE  t.filled /\ s.dmc = t /\ s.dmc.countdown = Idle
<1>1. /\ b.dmc.filled /\ t.countdown = Idle /\ t.delay = 0
  BY CountdownTicked DEF Inside, Idle
<1>2. dmc.timer = 1 => dmc.bits # 0
  BY TickNumbers DEF Inside, DmaInTime, OffBeat
<1>3. t.filled
  BY <1>1, <1>2, TickNumbers
<1>4. ~Hungry(t)
  BY <1>3 DEF Hungry
<1>5. s.dmc = t
  BY <1>1, <1>4
     DEF Parts, RunPart, RunEnds, RunsQuiet, WaitsForStart, StartsByWrite, FillsByGlitch,
         StartsReload, CallsOff
<1> QED BY <1>1, <1>3, <1>5

\* Without a fetch, buffer, reload and glitch are as they were.
LEMMA NothingFetched ==
  ASSUME TypeOK, Inside, NEW a, NEW b, NEW t, NEW s, Parts(a, b, t, s),
         dmc.countdown # 1 \/ dmc.length = 0
  PROVE  /\ b.dmc.filled = dmc.filled /\ b.dmc.reload = dmc.reload
         /\ b.dmc.fill_glitch_2 = dmc.fill_glitch_2
         /\ s.dmc.reload = dmc.reload /\ (s.dmc.fill_glitch_2 => dmc.fill_glitch_2)
<1>1. /\ b.dmc.filled = dmc.filled /\ b.dmc.reload = dmc.reload
      /\ b.dmc.fill_glitch_2 = dmc.fill_glitch_2
  BY CountdownTicked DEF Inside
<1> QED BY <1>1 DEF Parts, RunPart, Frame

\* A full buffer stays full to the CPU's turn; RDY stays low.
LEMMA FullStays ==
  ASSUME TypeOK, NEW a, NEW b, NEW t, NEW s, Parts(a, b, t, s)
  PROVE  /\ t.filled => s.dmc.filled
         /\ ~b.bus.rdy => ~s.bus.rdy
         /\ s.dmc.length = dmc.length
         /\ s.did = b.did
         /\ s.bus.realign = b.bus.realign
BY DEF Parts, DmaPart, RunPart, RunEnds, RunsQuiet, WaitsForStart, StartsByWrite, FillsByGlitch,
       StartsReload, CallsOff, Frame

\* A byte in the buffer is lost in a cycle only to the output unit that has
\* used the last one up.
LEMMA FilledTicked ==
  ASSUME TypeOK, NEW a, NEW b, NEW t, NEW s, Parts(a, b, t, s), b.dmc.filled
  PROVE  \/ t.filled /\ s.dmc.filled
         \/ dmc.timer = 1 /\ dmc.bits = 0 /\ t.timer >= 8 /\ t.bits = BitsPerByte - 1
<1>1. \/ t.filled
      \/ dmc.timer = 1 /\ dmc.bits = 0 /\ t.timer >= 8 /\ t.bits = BitsPerByte - 1
  BY TickNumbers
<1> QED BY <1>1, FullStays

\* The empty buffer nobody fills yet, as the CPU finds it.
LEMMA RestartIsSeen ==
  ASSUME TypeOK, Inside, NEW a, NEW b, NEW t, NEW s, Parts(a, b, t, s)
  PROVE  RestartSeen(s)
<1> SUFFICES ASSUME ~s.dmc.filled, s.dmc.length > 0 \/ s.dmc.reload > 0,
                    s.dmc.countdown = Idle, s.dmc.delay = 0, ~s.dmc.call_from_write
             PROVE  /\ s.dmc.bits = BitsPerByte - 1 /\ s.dmc.timer >= 8 /\ s.dmc.timer % 2 = 0
                    /\ ~s.dmc.fill_glitch_2
  BY DEF RestartSeen
<1>1. s.dmc.length = dmc.length /\ ~t.filled
  BY FullStays
<1>2. CASE dmc.length = 0
  <2>1. dmc.reload > 0
    BY <1>1, <1>2, NothingFetched
  <2>2. dmc.filled /\ ~dmc.fill_glitch_2 /\ dmc.bits = 0 /\ dmc.timer \in {1, 2, 3}
    BY <1>2, <2>1 DEF Inside, ReloadDue
  <2>3. dmc.timer = 1
    <3>1. b.dmc.filled
      BY <1>2, <2>2, NothingFetched
    <3> QED BY <1>1, <3>1, FilledTicked
  <2>4. ~s.dmc.fill_glitch_2
    BY <1>2, <2>2, NothingFetched
  <2> QED BY <2>2, <2>3, <2>4, TickNumbers
<1>3. CASE dmc.length > 0
  <2>1. t.length > 0
    BY <1>3, TickNumbers
  <2>2. CASE RunsQuiet(b, t, s)
    <3>1. Hungry(t)
      BY <1>1, <2>1, <2>2 DEF RunsQuiet, Hungry
    <3> QED BY <2>2, <3>1 DEF RunsQuiet
  <2>3. CASE WaitsForStart(b, t, s)
    BY <2>3 DEF WaitsForStart
  <2>4. CASE StartsByWrite(b, t, s)
    BY <2>4 DEF StartsByWrite, Idle
  <2>5. CASE FillsByGlitch(b, t, s)
    BY <2>5 DEF FillsByGlitch
  <2>6. CASE StartsReload(b, t, s)
    BY <2>6 DEF StartsReload, Idle
  <2>7. CASE CallsOff(b, t, s)
    <3>1. Hungry(t) /\ ~t.call_from_write /\ t.fill_glitch_2 /\ ~s.dmc.fill_glitch_2
      BY <2>7 DEF CallsOff
    <3>2. /\ t.bits = BitsPerByte - 1
          /\ t.timer % 2 = 0 /\ t.timer >= 8
      BY <2>1, <3>1, AsksInTime, TickNumbers
    <3> QED BY <3>1, <3>2, TickNumbers
  <2> QED BY <2>2, <2>3, <2>4, <2>5, <2>6, <2>7 DEF Parts, RunPart, RunEnds
<1> QED BY <1>2, <1>3, TickNumbers

\* The sprite DMA as the CPU finds it.
LEMMA OamIsSeen ==
  ASSUME TypeOK, Inside, NEW a, NEW b, NEW t, NEW s, Parts(a, b, t, s)
  PROVE  OamSeen(s)
<1>1. /\ s.bus.realign => dmc.countdown = 1
      /\ dmc.countdown = 1 => s.bus.realign
  BY CountdownTicked, FullStays DEF Inside, Parts, OamPart, Idle
<1>2. s.bus.realign => s.dmc.countdown # 1 /\ cpu.frozen
  <2> SUFFICES ASSUME s.bus.realign PROVE s.dmc.countdown # 1 /\ cpu.frozen
    OBVIOUS
  <2>1. cpu.frozen /\ t.countdown = Idle
    BY <1>1, CountdownTicked DEF Inside, Idle
  <2> QED BY <2>1
          DEF Parts, RunPart, RunEnds, RunsQuiet, WaitsForStart, StartsByWrite, FillsByGlitch,
              StartsReload, CallsOff, Idle
<1>3. ASSUME s.bus.oam
      PROVE  /\ s.bus.oam_index < OamLen
             /\ cpu.frozen \/ (cpu.gap = WriteGap /\ cpu.again \in {NoReg, "4014"})
             /\ OamInStep(s.bus, s.dmc.timer)
  <2>1. /\ a.bus.oam /\ s.bus.oam_index = a.bus.oam_index
        /\ s.bus.deadcounter = a.bus.deadcounter
    BY <1>3 DEF Parts, DmaPart, RunPart, Frame
  <2>2. bus.oam
    BY <2>1 DEF Parts, OamPart
  <2>8. bus.oam_index \in Nat /\ bus.deadcounter \in Nat /\ OamLen \in Nat
    BY StartTypes, SizesAssumption DEF BusType
  <2>3. /\ bus.realign => dmc.countdown # 1
        /\ bus.oam_index < OamLen
        /\ cpu.frozen \/ (cpu.gap = WriteGap /\ cpu.again \in {NoReg, "4014"})
        /\ OamInStep(bus, dmc.timer)
    BY <2>2 DEF Inside, OamReady
  <2> DEFINE k == s.bus.oam_index + s.bus.deadcounter
             n == bus.oam_index + bus.deadcounter
  <2>4. /\ s.bus.oam_index < OamLen
        /\ \/ ~s.bus.realign /\ bus.realign /\ k = n
           \/ s.bus.realign /\ ~bus.realign /\ k = n
           \/ ~s.bus.realign /\ ~bus.realign /\ k = n - 1
           \/ ~s.bus.realign /\ ~bus.realign /\ k = n + 1
    <3>1. CASE dmc.countdown = 1
      <4>1. s.bus.realign /\ ~bus.realign
        BY <1>1, <2>3, <3>1
      <4>2. a.bus.oam_index = bus.oam_index /\ a.bus.deadcounter = bus.deadcounter
        BY <3>1 DEF Parts, OamPart
      <4> QED BY <2>1, <2>3, <4>1, <4>2
    <3>2. CASE dmc.countdown # 1 /\ bus.realign
      <4>1. a.bus.oam_index = bus.oam_index /\ a.bus.deadcounter = bus.deadcounter
        BY <3>2 DEF Parts, OamPart
      <4> QED BY <1>1, <2>1, <2>3, <3>2, <4>1
    <3>3. CASE dmc.countdown # 1 /\ ~bus.realign /\ bus.deadcounter > 0
      <4>1. a.bus.oam_index = bus.oam_index /\ a.bus.deadcounter = bus.deadcounter - 1
        <5>1. bus.deadcounter # 0
          BY <3>3
        <5> QED BY <2>2, <3>3, <5>1, Zenon DEF Parts, OamPart
      <4> QED BY <1>1, <2>1, <2>3, <2>8, <3>3, <4>1
    <3>4. CASE dmc.countdown # 1 /\ ~bus.realign /\ bus.deadcounter = 0
      <4>1. /\ a.bus.oam_index = bus.oam_index + 1 /\ a.bus.deadcounter = 0
            /\ a.bus.oam = (a.bus.oam_index # OamLen)
        <5>1. ~(bus.deadcounter > 0)
          BY <3>4
        <5> QED BY <2>2, <3>4, <5>1, Zenon DEF Parts, OamPart
      <4>2. a.bus.oam_index # OamLen
        BY <2>1, <4>1
      <4> QED BY <1>1, <2>1, <2>3, <2>8, <3>4, <4>1, <4>2
    <3> QED BY <2>8, <3>1, <3>2, <3>3, <3>4
  <2>5. n \in Nat /\ k \in Int
    BY <2>4, <2>8
  <2>6. (n + IF bus.realign THEN 1 ELSE 0) % 2 = dmc.timer % 2
    BY <2>3 DEF OamInStep
  <2>7. (k + IF s.bus.realign THEN 1 ELSE 0) % 2 = s.dmc.timer % 2
    <3> HIDE DEF k, n
    <3> QED BY <2>4, <2>5, <2>6, TickNumbers
  <2> QED BY <2>3, <2>4, <2>7 DEF OamInStep
<1> QED BY <1>2, <1>3 DEF OamSeen

\* The reload in progress as the CPU finds it.
LEMMA ReloadIsSeen ==
  ASSUME TypeOK, Inside, NEW a, NEW b, NEW t, NEW s, Parts(a, b, t, s)
  PROVE  ReloadSeen(s)
<1>1. CASE dmc.countdown = 1 /\ dmc.length # 0
  <2>1. s.dmc.filled /\ s.dmc.length > 0
    BY <1>1, FetchedStays, FullStays, TickNumbers
  <2>2. ~s.bus.rdy /\ cpu.frozen /\ s.dmc.reload = 3
    BY <1>1, CountdownTicked, FullStays DEF Inside, Idle, Parts, RunPart, Frame
  <2> QED BY <2>1, <2>2 DEF ReloadSeen
<1>2. CASE dmc.countdown # 1 \/ dmc.length = 0
  <2>1. /\ s.dmc.reload = dmc.reload /\ s.dmc.length = dmc.length
        /\ s.dmc.fill_glitch_2 => dmc.fill_glitch_2
        /\ b.dmc.filled = dmc.filled
    BY <1>2, NothingFetched, FullStays
  <2>2. dmc.reload \in {0, 1, 2}
    BY StartTypes
  <2>3. ASSUME dmc.reload = 2
        PROVE  /\ cpu.frozen
               /\ s.dmc.filled \/ (s.dmc.timer >= 8 /\ s.dmc.bits = BitsPerByte - 1)
               /\ s.dmc.length = 0 => /\ s.dmc.filled /\ ~s.dmc.fill_glitch_2 /\ s.dmc.bits = 0
                                      /\ s.dmc.timer \in {1, 2, 3}
    <3>1. cpu.frozen /\ dmc.filled
      BY <2>3 DEF Inside, ReloadDue
    <3>2. s.dmc.filled \/ (s.dmc.timer >= 8 /\ s.dmc.bits = BitsPerByte - 1)
      <4>1. b.dmc.filled
        BY <2>1, <3>1
      <4> QED BY <4>1, FilledTicked, TickNumbers
    <3>3. ASSUME dmc.length = 0
          PROVE  /\ s.dmc.filled /\ ~s.dmc.fill_glitch_2 /\ s.dmc.bits = 0
                 /\ s.dmc.timer \in {1, 2, 3}
      <4>1. ~dmc.fill_glitch_2 /\ dmc.bits = 0 /\ dmc.timer \in {2, 3}
        BY <2>3, <3>3 DEF Inside, ReloadDue
      <4>2. b.dmc.filled
        BY <2>1, <3>1
      <4>3. s.dmc.filled /\ dmc.timer # 1
        BY <4>1, <4>2, FilledTicked
      <4>4. s.dmc.bits = 0 /\ s.dmc.timer \in {1, 2, 3}
        BY <4>1, <4>3, TickNumbers
      <4> QED BY <2>1, <4>1, <4>3, <4>4
    <3> QED BY <2>1, <3>1, <3>2, <3>3
  <2>4. resets = 0 /\ s.dmc.reload > 0 => s.dmc.length > 0
    BY <2>1 DEF Inside, ReloadHasLength
  <2> QED BY <2>1, <2>2, <2>3, <2>4 DEF ReloadSeen
<1> QED BY <1>1, <1>2

\* What the cycle has done by the CPU's turn.
LEMMA DidIsSeen ==
  ASSUME TypeOK, Inside, NEW a, NEW b, NEW t, NEW s, Parts(a, b, t, s)
  PROVE  DidSeen(s)
<1>1. CASE dmc.countdown = 1
  <2>1. cpu.frozen /\ (s.did = {} \/ (s.did = {"fetch"} /\ dmc.length # 0))
    BY <1>1, CountdownTicked, FullStays DEF Inside, Idle
  <2>2. "fetch" \in s.did => s.dmc.countdown = Idle
    BY <1>1, <2>1, FetchedStays
  <2> QED BY <2>1, <2>2 DEF DidSeen
<1>2. CASE dmc.countdown # 1
  <2>1. s.did = a.did
    BY <1>2, CountdownTicked, FullStays DEF Inside
  <2>2. CASE a.did = {}
    BY <2>1, <2>2 DEF DidSeen
  <2>3. CASE a.did # {}
    <3>1. /\ bus.oam /\ bus.deadcounter = 0 /\ ~bus.realign /\ bus.oam_index \in Nat
          /\ a.did = {IF bus.oam_index % 2 = 0 THEN "get" ELSE "put"}
      BY <2>3, StartTypes DEF Parts, OamPart, BusType
    <3>2. cpu.frozen /\ bus.oam_index % 2 = dmc.timer % 2
      BY <3>1 DEF Inside, OamReady, OamInStep
    <3>3. CASE bus.oam_index % 2 = 0
      BY <2>1, <3>1, <3>2, <3>3, TickNumbers DEF DidSeen
    <3>4. CASE bus.oam_index % 2 # 0
      BY <2>1, <3>1, <3>2, <3>4, TickNumbers DEF DidSeen
    <3> QED BY <3>3, <3>4
  <2> QED BY <2>2, <2>3
<1> QED BY <1>1, <1>2

\* What the CPU's part of a cycle finds.
LEMMA BeforeCpuSees ==
  ASSUME TypeOK, Inside
  PROVE  CpuSees(BeforeCpu)
<1> DEFINE s == BeforeCpu
<1>1. PICK a, b, t : Parts(a, b, t, s)
  BY PartsOfCycle DEF Inside, Parts
<1> SUFFICES CpuSees(s)
  OBVIOUS
<1> HIDE DEF s
<1>2. DmaSeen(s)
  BY <1>1, DmaIsSeen DEF Inside
<1>3. InTimeSeen(s) /\ RestartSeen(s) /\ OamSeen(s) /\ ReloadSeen(s) /\ DidSeen(s)
  BY <1>1, InTimeIsSeen, RestartIsSeen, OamIsSeen, ReloadIsSeen, DidIsSeen
<1> QED BY <1>1, <1>2, <1>3 DEF CpuSees, Parts, RunPart

-----------------------------------------------------------------------------
(***************************************************************************)
(* What the CPU's registers and the end of a reload leave alone.           *)
(***************************************************************************)
UnitSame(d, e) ==
  /\ e.timer = d.timer /\ e.bits = d.bits /\ e.filled = d.filled /\ e.delay = d.delay
  /\ e.countdown = d.countdown /\ e.rdy_check = d.rdy_check
  /\ e.fill_glitch_2_end = d.fill_glitch_2_end

\* The end of a reload counts the sample down, or starts it over, or ends it.
LEMMA CountReloadKeeps ==
  ASSUME NEW d \in DmcType, NEW again \in Lengths
  PROVE  LET e == CountReload(d, again)
         IN /\ e \in DmcType /\ UnitSame(d, e)
            /\ e.call_from_write = d.call_from_write /\ e.fill_glitch_2 = d.fill_glitch_2
            /\ e.reload = IF d.reload = 0 THEN 0 ELSE d.reload - 1
            /\ d.reload # 1 => e.length = d.length
<1> DEFINE e == CountReload(d, again)
           Goal == /\ e \in DmcType /\ UnitSame(d, e)
                   /\ e.call_from_write = d.call_from_write /\ e.fill_glitch_2 = d.fill_glitch_2
                   /\ e.reload = IF d.reload = 0 THEN 0 ELSE d.reload - 1
                   /\ d.reload # 1 => e.length = d.length
<1> SUFFICES Goal
  OBVIOUS
<1>1. CASE d.reload = 0
  <2>1. e = d
    BY <1>1 DEF CountReload
  <2> HIDE DEF e
  <2> QED BY <1>1, <2>1 DEF UnitSame
<1>2. CASE d.reload \in {2, 3}
  <2> DEFINE n == d.reload - 1
  <2>1. e = [d EXCEPT !.reload = n]
    BY <1>2 DEF CountReload
  <2>2. n \in {1, 2}
    BY <1>2
  <2> HIDE DEF n
  <2>3. e \in DmcType /\ e.reload = n /\ e.length = d.length
        /\ e.call_from_write = d.call_from_write /\ e.fill_glitch_2 = d.fill_glitch_2
    BY <2>1, <2>2 DEF DmcType
  <2>4. UnitSame(d, e)
    BY <2>1 DEF DmcType, UnitSame
  <2> HIDE DEF e
  <2> QED BY <1>2, <2>3, <2>4 DEF n
<1>3. CASE d.reload = 1
  <2> DEFINE left == IF d.length = 0 THEN LengthWrap ELSE d.length - 1
             n == IF d.pending_disable THEN 0 ELSE IF left = 0 /\ d.loop THEN again ELSE left
             q == d.irq \/ (left = 0 /\ ~d.loop /\ d.irq_enabled /\ ~d.irq_glitch)
             no == FALSE
             f == [d EXCEPT !.reload = 0, !.length = n]
  <2>1. e = [d EXCEPT !.reload = 0, !.length = n, !.irq = q, !.pending_disable = no,
                      !.irq_glitch = no]
    BY <1>3 DEF CountReload, EndReload, DmcType
  <2>2. n \in Nat /\ q \in BOOLEAN /\ no \in BOOLEAN
    BY SizesAssumption DEF DmcType
  <2> HIDE DEF n, q, no
  <2>3. f \in DmcType
    BY <2>2 DEF DmcType
  <2>4. e = [f EXCEPT !.irq = q, !.pending_disable = no, !.irq_glitch = no]
    BY <2>1
  <2>5. /\ f.reload = 0
        /\ f.call_from_write = d.call_from_write /\ f.fill_glitch_2 = d.fill_glitch_2
        /\ UnitSame(d, f)
    BY <2>2 DEF DmcType, UnitSame
  <2> HIDE DEF f, e
  <2>6. e \in DmcType
    <3> DEFINE x == [f EXCEPT !.irq = q]
               y == [x EXCEPT !.pending_disable = no]
    <3>1. x \in DmcType
      BY <2>2, <2>3 DEF DmcType
    <3>2. e = [y EXCEPT !.irq_glitch = no]
      BY <2>4
    <3> HIDE DEF x
    <3>3. y \in DmcType
      BY <2>2, <3>1 DEF DmcType
    <3> HIDE DEF y
    <3> QED BY <2>2, <3>2, <3>3 DEF DmcType
  <2>7. /\ e.reload = f.reload
        /\ e.call_from_write = f.call_from_write /\ e.fill_glitch_2 = f.fill_glitch_2
    BY <2>3, <2>4 DEF DmcType
  <2>8. UnitSame(f, e)
    BY <2>3, <2>4 DEF DmcType, UnitSame
  <2> QED BY <1>3, <2>5, <2>6, <2>7, <2>8 DEF UnitSame
<1> QED BY <1>1, <1>2, <1>3 DEF DmcType

\* A disable ends the sample, or leaves that to the reload in progress; it can
\* end a sample in the middle of a reload only in two cycles.
LEMMA DisableKeeps ==
  ASSUME NEW d \in DmcType
  PROVE  LET e == Disable(d)
         IN /\ e \in DmcType /\ UnitSame(d, e)
            /\ e.call_from_write = d.call_from_write /\ e.reload = d.reload
            /\ e.length = 0 \/ e.length = d.length
            /\ e.fill_glitch_2 => d.fill_glitch_2 \/ e.length = 0
            /\ e.length = 0 /\ d.length # 0 /\ d.reload # 0 => d.timer \in {2, 3} /\ d.bits = 0
<1> DEFINE e == Disable(d)
           playing == d.bits = 0 /\ d.length # 0
           no == FALSE
           yes == TRUE
           k == [d EXCEPT !.irq = no]
           g == d.irq_glitch \/ d.reload # 0
           Goal == /\ e \in DmcType /\ UnitSame(d, e)
                   /\ e.call_from_write = d.call_from_write /\ e.reload = d.reload
                   /\ e.length = 0 \/ e.length = d.length
                   /\ e.fill_glitch_2 => d.fill_glitch_2 \/ e.length = 0
                   /\ e.length = 0 /\ d.length # 0 /\ d.reload # 0 => d.timer \in {2, 3} /\ d.bits = 0
<1> SUFFICES Goal
  OBVIOUS
<1>1. \/ d.timer \in {2, 3} /\ d.bits = 0 /\ e = [k EXCEPT !.length = 0, !.fill_glitch_2 = yes]
      \/ e = [k EXCEPT !.pending_disable = yes]
      \/ e = [k EXCEPT !.irq_glitch = g, !.pending_disable = yes]
      \/ d.reload = 0 /\ e = [k EXCEPT !.length = 0]
  BY DEF Disable, DmcType
<1>2. no \in BOOLEAN /\ yes \in BOOLEAN /\ g \in BOOLEAN /\ yes
  BY DEF DmcType
<1> HIDE DEF no, yes, g, e
<1>3. /\ k \in DmcType /\ UnitSame(d, k)
      /\ k.call_from_write = d.call_from_write /\ k.reload = d.reload
      /\ k.length = d.length /\ k.fill_glitch_2 = d.fill_glitch_2
  BY <1>2 DEF DmcType, UnitSame
<1> HIDE DEF k
<1>4. CASE d.timer \in {2, 3} /\ d.bits = 0 /\ e = [k EXCEPT !.length = 0, !.fill_glitch_2 = yes]
  <2>1. e \in DmcType
    <3> DEFINE x == [k EXCEPT !.length = 0]
    <3>1. x \in DmcType
      BY <1>3 DEF DmcType
    <3>2. e = [x EXCEPT !.fill_glitch_2 = yes]
      BY <1>4
    <3> HIDE DEF x
    <3> QED BY <1>2, <3>1, <3>2 DEF DmcType
  <2>2. e.call_from_write = k.call_from_write /\ e.reload = k.reload /\ e.length = 0
    BY <1>3, <1>4 DEF DmcType
  <2>3. UnitSame(k, e)
    BY <1>3, <1>4 DEF DmcType, UnitSame
  <2> QED BY <1>3, <1>4, <2>1, <2>2, <2>3 DEF UnitSame
<1>5. CASE e = [k EXCEPT !.pending_disable = yes]
  <2>1. e \in DmcType
    BY <1>2, <1>3, <1>5 DEF DmcType
  <2>2. e.call_from_write = k.call_from_write /\ e.reload = k.reload /\ e.length = k.length
        /\ e.fill_glitch_2 = k.fill_glitch_2
    BY <1>3, <1>5 DEF DmcType
  <2>3. UnitSame(k, e)
    BY <1>3, <1>5 DEF DmcType, UnitSame
  <2> QED BY <1>3, <2>1, <2>2, <2>3 DEF UnitSame
<1>6. CASE e = [k EXCEPT !.irq_glitch = g, !.pending_disable = yes]
  <2>1. e \in DmcType
    BY <1>2, <1>3, <1>6 DEF DmcType
  <2>2. e.call_from_write = k.call_from_write /\ e.reload = k.reload /\ e.length = k.length
        /\ e.fill_glitch_2 = k.fill_glitch_2
    BY <1>3, <1>6 DEF DmcType
  <2>3. UnitSame(k, e)
    BY <1>3, <1>6 DEF DmcType, UnitSame
  <2> QED BY <1>3, <2>1, <2>2, <2>3 DEF UnitSame
<1>7. CASE d.reload = 0 /\ e = [k EXCEPT !.length = 0]
  <2>1. e \in DmcType
    BY <1>2, <1>3, <1>7 DEF DmcType
  <2>2. e.call_from_write = k.call_from_write /\ e.reload = k.reload /\ e.length = 0
        /\ e.fill_glitch_2 = k.fill_glitch_2
    BY <1>3, <1>7 DEF DmcType
  <2>3. UnitSame(k, e)
    BY <1>3, <1>7 DEF DmcType, UnitSame
  <2> QED BY <1>3, <1>7, <2>1, <2>2, <2>3 DEF UnitSame
<1> QED BY <1>1, <1>4, <1>5, <1>6, <1>7

\* An enable starts a sample, and notes the write if there is no byte yet.
LEMMA EnableKeeps ==
  ASSUME NEW d \in DmcType, NEW len \in Lengths
  PROVE  LET e == Enable(d, len)
         IN /\ e \in DmcType /\ UnitSame(d, e)
            /\ e.reload = d.reload /\ e.fill_glitch_2 = d.fill_glitch_2
            /\ d.call_from_write => e.call_from_write
            /\ ~d.filled => e.call_from_write
<1> DEFINE e == Enable(d, len)
           no == FALSE
           n == IF d.length = 0 THEN len ELSE d.length
           c == d.call_from_write \/ ~d.filled
           k == [d EXCEPT !.irq = no, !.length = n]
           Goal == /\ e \in DmcType /\ UnitSame(d, e)
                   /\ e.reload = d.reload /\ e.fill_glitch_2 = d.fill_glitch_2
                   /\ d.call_from_write => e.call_from_write
                   /\ ~d.filled => e.call_from_write
<1> SUFFICES Goal
  OBVIOUS
<1>1. e = [d EXCEPT !.irq = no, !.length = n, !.call_from_write = c]
  BY DEF Enable, DmcType
<1>2. no \in BOOLEAN /\ n \in Nat /\ c \in BOOLEAN
  BY SizesAssumption DEF DmcType
<1>3. (d.call_from_write => c) /\ (~d.filled => c)
  OBVIOUS
<1> HIDE DEF no, n, c, e
<1>4. /\ k \in DmcType /\ UnitSame(d, k)
      /\ k.reload = d.reload /\ k.fill_glitch_2 = d.fill_glitch_2
  BY <1>2 DEF DmcType, UnitSame
<1>5. e = [k EXCEPT !.call_from_write = c]
  BY <1>1
<1> HIDE DEF k
<1>6. /\ e \in DmcType /\ e.call_from_write = c
      /\ e.reload = k.reload /\ e.fill_glitch_2 = k.fill_glitch_2
  BY <1>2, <1>4, <1>5 DEF DmcType
<1>7. UnitSame(k, e)
  BY <1>4, <1>5 DEF DmcType, UnitSame
<1> QED BY <1>3, <1>4, <1>6, <1>7 DEF UnitSame

\* A write to a register, applied after the reload countdown.
LEMMA ApplyWriteKeeps ==
  ASSUME NEW d \in DmcType, NEW op \in RegWrites \cup {ReadOp}
  PROVE  LET e == ApplyWrite(d, op)
         IN /\ e \in DmcType /\ UnitSame(d, e) /\ e.reload = d.reload
            /\ d.call_from_write => e.call_from_write
            /\ e.fill_glitch_2 => d.fill_glitch_2 \/ e.length = 0
            /\ e.length > 0 => d.length > 0 \/ e.call_from_write \/ d.filled
            /\ op = ReadOp => e = d
<1> DEFINE e == ApplyWrite(d, op)
           Goal == /\ e \in DmcType /\ UnitSame(d, e) /\ e.reload = d.reload
                   /\ d.call_from_write => e.call_from_write
                   /\ e.fill_glitch_2 => d.fill_glitch_2 \/ e.length = 0
                   /\ e.length > 0 => d.length > 0 \/ e.call_from_write \/ d.filled
                   /\ op = ReadOp => e = d
<1> SUFFICES Goal
  OBVIOUS
<1>1. CASE op = <<"4014">> \/ op = ReadOp
  <2>1. e = d
    BY <1>1 DEF ApplyWrite, ReadOp
  <2> HIDE DEF e
  <2> QED BY <2>1 DEF UnitSame
<1>2. CASE op = <<"4015", FALSE>>
  <2>1. e = Disable(d)
    BY <1>2 DEF ApplyWrite
  <2>2. op # ReadOp
    BY <1>2 DEF ReadOp
  <2> HIDE DEF e
  <2> QED BY <2>1, <2>2, DisableKeeps DEF DmcType
<1>3. ASSUME NEW l \in Lengths, op = <<"4015", TRUE, l>>
      PROVE  Goal
  <2>1. e = Enable(d, l)
    BY <1>3 DEF ApplyWrite
  <2>2. op # ReadOp
    BY <1>3 DEF ReadOp
  <2> HIDE DEF e
  <2> QED BY <2>1, <2>2, EnableKeeps
<1>4. ASSUME NEW r \in Rates, NEW i \in BOOLEAN, NEW l \in BOOLEAN, op = <<"4010", r, i, l>>
      PROVE  Goal
  <2> DEFINE q == d.irq /\ i
             x == [d EXCEPT !.timer_reload = r, !.irq_enabled = i]
             y == [x EXCEPT !.loop = l]
  <2>1. e = [y EXCEPT !.irq = q]
    BY <1>4 DEF ApplyWrite, DmcType
  <2>2. q \in BOOLEAN
    BY DEF DmcType
  <2>3. op # ReadOp
    BY <1>4 DEF ReadOp
  <2> HIDE DEF q, e
  <2>4. x \in DmcType
    BY <1>4 DEF DmcType
  <2>5. UnitSame(d, x) /\ x.reload = d.reload /\ x.length = d.length
        /\ x.call_from_write = d.call_from_write /\ x.fill_glitch_2 = d.fill_glitch_2
    BY <1>4 DEF DmcType, UnitSame
  <2> HIDE DEF x
  <2>6. y \in DmcType
    BY <1>4, <2>4 DEF DmcType
  <2>7. UnitSame(x, y) /\ y.reload = x.reload /\ y.length = x.length
        /\ y.call_from_write = x.call_from_write /\ y.fill_glitch_2 = x.fill_glitch_2
    BY <1>4, <2>4 DEF DmcType, UnitSame
  <2> HIDE DEF y
  <2>8. e \in DmcType
    BY <2>1, <2>2, <2>6 DEF DmcType
  <2>9. UnitSame(y, e) /\ e.reload = y.reload /\ e.length = y.length
        /\ e.call_from_write = y.call_from_write /\ e.fill_glitch_2 = y.fill_glitch_2
    BY <2>1, <2>2, <2>6 DEF DmcType, UnitSame
  <2> QED BY <2>3, <2>5, <2>7, <2>8, <2>9 DEF UnitSame
<1> HIDE DEF Goal
<1>5. \/ op = <<"4014">> \/ op = ReadOp \/ op = <<"4015", FALSE>>
      \/ \E l \in Lengths : op = <<"4015", TRUE, l>>
      \/ \E r \in Rates, i \in BOOLEAN, l \in BOOLEAN : op = <<"4010", r, i, l>>
  <2>1. op = <<"4014">> \/ op = <<"4015", FALSE>> \/ op \in Starts \/ op \in Setups \/ op = ReadOp
    <3> HIDE DEF e
    <3> QED BY Zenon DEF RegWrites
  <2>2. op \in Starts => \E l \in Lengths : op = <<"4015", TRUE, l>>
    <3> HIDE DEF e
    <3> QED BY DEF Starts
  <2>3. op \in Setups => \E r \in Rates, i \in BOOLEAN, l \in BOOLEAN : op = <<"4010", r, i, l>>
    <3> HIDE DEF e
    <3> QED BY DEF Setups
  <2> QED BY <2>1, <2>2, <2>3, Zenon
<1> QED BY <1>1, <1>2, <1>3, <1>4, <1>5, Zenon

\* The CPU's write to $4014 arms the sprite DMA.
LEMMA StartOamKeeps ==
  ASSUME NEW s \in Mid
  PROVE  LET r == StartOam(s)
         IN /\ r \in Mid /\ r.dmc = s.dmc /\ r.did = s.did
            /\ r.bus.dmc = s.bus.dmc /\ r.bus.realign = s.bus.realign
            /\ r.bus.oam /\ ~r.bus.rdy /\ r.bus.oam_index = 0
            /\ r.bus.deadcounter = IF s.dmc.timer % 2 = 0 THEN 2 ELSE 1
<1> DEFINE r == StartOam(s)
           n == IF s.dmc.timer % 2 = 0 THEN 2 ELSE 1
           yes == TRUE
           no == FALSE
           w == [s.bus EXCEPT !.deadcounter = n]
           x == [w EXCEPT !.oam_index = 0]
           y == [x EXCEPT !.oam = yes, !.rdy = no]
           Goal == /\ r \in Mid /\ r.dmc = s.dmc /\ r.did = s.did
                   /\ r.bus.dmc = s.bus.dmc /\ r.bus.realign = s.bus.realign
                   /\ r.bus.oam /\ ~r.bus.rdy /\ r.bus.oam_index = 0
                   /\ r.bus.deadcounter = n
<1> SUFFICES Goal
  OBVIOUS
<1>1. /\ s.dmc \in DmcType /\ s.bus \in BusType
      /\ s = [dmc |-> s.dmc, bus |-> s.bus, did |-> s.did]
  BY DEF Mid
<1>2. r = [s EXCEPT !.bus = y]
  BY <1>1 DEF StartOam, Even, BusType
<1>3. n \in {1, 2} /\ yes \in BOOLEAN /\ no \in BOOLEAN /\ yes /\ ~no /\ 0 \in 0..OamLen
  BY SizesAssumption
<1> HIDE DEF n, yes, no, r
<1>7. /\ w \in BusType /\ w.deadcounter = n
      /\ w.dmc = s.bus.dmc /\ w.realign = s.bus.realign
  BY <1>1, <1>3 DEF BusType
<1> HIDE DEF w
<1>4. /\ x \in BusType /\ x.oam_index = 0 /\ x.deadcounter = n
      /\ x.dmc = s.bus.dmc /\ x.realign = s.bus.realign
  BY <1>3, <1>7 DEF BusType
<1> HIDE DEF x
<1>5. /\ y \in BusType /\ y.oam_index = 0 /\ y.deadcounter = n /\ y.oam /\ ~y.rdy
      /\ y.dmc = s.bus.dmc /\ y.realign = s.bus.realign
  BY <1>3, <1>4 DEF BusType
<1> HIDE DEF y
<1>6. r \in Mid /\ r.dmc = s.dmc /\ r.bus = y /\ r.did = s.did
  BY <1>1, <1>2, <1>5 DEF Mid
<1> QED BY <1>5, <1>6

\* The last part of a cycle releases RDY when no DMA is left.
LEMMA ReleaseRdyKeeps ==
  ASSUME NEW s \in Mid, s.bus.dmc \/ s.bus.oam => ~s.bus.rdy
  PROVE  LET r == ReleaseRdy(s)
         IN /\ r \in Mid /\ r.dmc = s.dmc /\ r.did = s.did
            /\ r.bus.dmc = s.bus.dmc /\ r.bus.realign = s.bus.realign
            /\ r.bus.oam = s.bus.oam /\ r.bus.oam_index = s.bus.oam_index
            /\ r.bus.deadcounter = s.bus.deadcounter
            /\ r.bus.rdy <=> ~(r.bus.dmc \/ r.bus.oam)
<1> DEFINE r == ReleaseRdy(s)
           v == s.bus.rdy \/ ~(s.bus.dmc \/ s.bus.oam)
           y == [s.bus EXCEPT !.rdy = v]
           Goal == /\ r \in Mid /\ r.dmc = s.dmc /\ r.did = s.did
                   /\ r.bus.dmc = s.bus.dmc /\ r.bus.realign = s.bus.realign
                   /\ r.bus.oam = s.bus.oam /\ r.bus.oam_index = s.bus.oam_index
                   /\ r.bus.deadcounter = s.bus.deadcounter
                   /\ r.bus.rdy <=> ~(r.bus.dmc \/ r.bus.oam)
<1> SUFFICES Goal
  OBVIOUS
<1>1. /\ s.dmc \in DmcType /\ s.bus \in BusType
      /\ s = [dmc |-> s.dmc, bus |-> s.bus, did |-> s.did]
  BY DEF Mid
<1>2. r = [s EXCEPT !.bus = y]
  BY <1>1 DEF ReleaseRdy, BusType
<1>3. v \in BOOLEAN /\ (v <=> ~(s.bus.dmc \/ s.bus.oam))
  BY <1>1 DEF BusType
<1> HIDE DEF v, r
<1>4. /\ y \in BusType /\ y.rdy = v
      /\ y.oam = s.bus.oam /\ y.oam_index = s.bus.oam_index
      /\ y.deadcounter = s.bus.deadcounter
      /\ y.dmc = s.bus.dmc /\ y.realign = s.bus.realign
  BY <1>1, <1>3 DEF BusType
<1> HIDE DEF y
<1>5. r \in Mid /\ r.dmc = s.dmc /\ r.bus = y /\ r.did = s.did
  BY <1>1, <1>2, <1>4 DEF Mid
<1> QED BY <1>3, <1>4, <1>5

\* The CPU's part of a cycle and RunOneLast, from s to the next cycle's r.
Turn(s, op, again, r) ==
  /\ r \in Mid /\ UnitSame(s.dmc, r.dmc)
  /\ r.dmc.reload = IF s.dmc.reload = 0 THEN 0 ELSE s.dmc.reload - 1
  /\ s.dmc.call_from_write => r.dmc.call_from_write
  /\ r.dmc.fill_glitch_2 => s.dmc.fill_glitch_2 \/ r.dmc.length = 0
  /\ r.dmc.length > 0 => \/ s.dmc.length > 0 \/ s.dmc.reload = 1
                         \/ r.dmc.call_from_write \/ s.dmc.filled
  /\ op = ReadOp => /\ r.dmc.fill_glitch_2 = s.dmc.fill_glitch_2
                    /\ s.dmc.reload # 1 => r.dmc.length = s.dmc.length
  /\ r.bus.dmc = s.bus.dmc /\ r.bus.realign = s.bus.realign
  /\ r.bus.rdy <=> ~(r.bus.dmc \/ r.bus.oam)
  /\ \/ /\ op[1] # "4014"
        /\ r.bus.oam = s.bus.oam /\ r.bus.oam_index = s.bus.oam_index
        /\ r.bus.deadcounter = s.bus.deadcounter
     \/ /\ op[1] = "4014" /\ r.bus.oam /\ r.bus.oam_index = 0
        /\ r.bus.deadcounter = IF s.dmc.timer % 2 = 0 THEN 2 ELSE 1

\* AfterCpu takes such a turn.
LEMMA AfterCpuKeeps ==
  ASSUME NEW s \in Mid, s.bus.dmc \/ s.bus.oam => ~s.bus.rdy,
         NEW op \in RegWrites \cup {ReadOp}, NEW again \in Lengths
  PROVE  Turn(s, op, again, AfterCpu(s, op, again))
<1> DEFINE a == IF op[1] = "4014" THEN StartOam(s) ELSE s
           c == CountReload(s.dmc, again)
           e == ApplyWrite(c, op)
           w == [a EXCEPT !.dmc = e]
           r == ReleaseRdy(w)
<1>1. /\ a \in Mid /\ a.dmc = s.dmc
      /\ a.bus.dmc = s.bus.dmc /\ a.bus.realign = s.bus.realign
      /\ a.bus.dmc \/ a.bus.oam => ~a.bus.rdy
      /\ \/ /\ op[1] # "4014"
            /\ a.bus.oam = s.bus.oam /\ a.bus.oam_index = s.bus.oam_index
            /\ a.bus.deadcounter = s.bus.deadcounter
         \/ /\ op[1] = "4014" /\ a.bus.oam /\ a.bus.oam_index = 0
            /\ a.bus.deadcounter = IF s.dmc.timer % 2 = 0 THEN 2 ELSE 1
  <2>1. CASE op[1] = "4014"
    <3>1. a = StartOam(s)
      BY <2>1
    <3> HIDE DEF a
    <3> QED BY <2>1, <3>1, StartOamKeeps
  <2>2. CASE op[1] # "4014"
    <3>1. a = s
      BY <2>2
    <3> HIDE DEF a
    <3> QED BY <2>2, <3>1
  <2> QED BY <2>1, <2>2
<1> HIDE DEF a
<1>2. AfterCpu(s, op, again) = r
  BY <1>1 DEF AfterCpu, a
<1>3. s.dmc \in DmcType
  BY DEF Mid
<1>4. /\ c \in DmcType /\ UnitSame(s.dmc, c)
      /\ c.call_from_write = s.dmc.call_from_write /\ c.fill_glitch_2 = s.dmc.fill_glitch_2
      /\ c.reload = IF s.dmc.reload = 0 THEN 0 ELSE s.dmc.reload - 1
      /\ s.dmc.reload # 1 => c.length = s.dmc.length
  BY <1>3, CountReloadKeeps
<1> HIDE DEF c
<1>5. /\ e \in DmcType /\ UnitSame(c, e) /\ e.reload = c.reload
      /\ c.call_from_write => e.call_from_write
      /\ e.fill_glitch_2 => c.fill_glitch_2 \/ e.length = 0
      /\ e.length > 0 => c.length > 0 \/ e.call_from_write \/ c.filled
      /\ op = ReadOp => e = c
  BY <1>4, ApplyWriteKeeps
<1> HIDE DEF e
<1>6. w \in Mid /\ w.dmc = e /\ w.bus = a.bus
  BY <1>1, <1>5 DEF Mid
<1> HIDE DEF w
<1>7. /\ r \in Mid /\ r.dmc = w.dmc /\ r.did = w.did
      /\ r.bus.dmc = w.bus.dmc /\ r.bus.realign = w.bus.realign
      /\ r.bus.oam = w.bus.oam /\ r.bus.oam_index = w.bus.oam_index
      /\ r.bus.deadcounter = w.bus.deadcounter
      /\ r.bus.rdy <=> ~(r.bus.dmc \/ r.bus.oam)
  BY <1>1, <1>6, ReleaseRdyKeeps
<1> HIDE DEF r
<1>8. /\ r.dmc = e /\ UnitSame(s.dmc, r.dmc)
      /\ r.dmc.length > 0 => \/ s.dmc.length > 0 \/ s.dmc.reload = 1
                             \/ r.dmc.call_from_write \/ s.dmc.filled
      /\ op = ReadOp => /\ r.dmc.fill_glitch_2 = s.dmc.fill_glitch_2
                        /\ s.dmc.reload # 1 => r.dmc.length = s.dmc.length
  BY <1>4, <1>5, <1>6, <1>7 DEF UnitSame
<1> SUFFICES Turn(s, op, again, r)
  BY <1>2
<1> QED BY <1>1, <1>4, <1>5, <1>6, <1>7, <1>8 DEF Turn

(***************************************************************************)
(* The CPU's own cycle: held, free to read, or writing.                    *)
(***************************************************************************)
Held(s) == ~s.bus.rdy /\ cpu'.frozen /\ cpu'.again = NoReg /\ did' = s.did

Free(s) == s.bus.rdy /\ ~cpu'.frozen /\ cpu'.again = NoReg /\ did' = s.did

Writes(s, op) ==
  /\ ~cpu.frozen /\ ~cpu'.frozen
  /\ WritesLeft' < WritesLeft
  /\ cpu'.again # NoReg => cpu'.gap = WriteGap
  /\ IF op[1] = "4014"
       THEN cpu'.gap = WriteGap /\ cpu'.again \in {NoReg, "4014"}
       ELSE ~(cpu.gap = WriteGap /\ cpu.again \in {NoReg, "4014"})
  /\ did' = s.did \cup {"cpu write"}

CpuTurn(s, op) ==
  \/ op = ReadOp /\ (Held(s) \/ Free(s))
  \/ Writes(s, op)

\* Every cycle takes such a turn, and keeps the CPU's types.
LEMMA CycleTurns ==
  ASSUME TypeOK, Inside, Cycle
  PROVE  \E op \in RegWrites \cup {ReadOp}, again \in Lengths :
           /\ CpuTurn(BeforeCpu, op)
           /\ Turn(BeforeCpu, op, again, AfterCpu(BeforeCpu, op, again))
           /\ dmc' = AfterCpu(BeforeCpu, op, again).dmc
           /\ bus' = AfterCpu(BeforeCpu, op, again).bus
           /\ resets' = resets
           /\ cpu' \in [frozen : BOOLEAN, run : 0..MaxWriteRun,
                        again : {NoReg, "4010", "4014", "4015"}, gap : 0..WriteGap]
<1> DEFINE s == BeforeCpu
           CpuSet == [frozen : BOOLEAN, run : 0..MaxWriteRun,
                      again : {NoReg, "4010", "4014", "4015"}, gap : 0..WriteGap]
<1>1. CpuSees(s)
  BY BeforeCpuSees
<1> HIDE DEF s
<1>2. s \in Mid /\ (s.bus.dmc \/ s.bus.oam => ~s.bus.rdy) /\ s.bus.rdy \in BOOLEAN
  BY <1>1 DEF CpuSees, DmaSeen, Mid, BusType
<1>3. cpu \in CpuSet
  BY DEF TypeOK
<1>8. cpu.gap \in 0..3 /\ cpu.run \in 0..3 /\ (cpu.again # NoReg => cpu.gap = 3)
  BY StartTypes DEF Inside, DmaReady, WriteGap, MaxWriteRun
<1>4. ASSUME NEW op \in RegWrites \cup {ReadOp}, NEW again \in Lengths, RunCpuOne(s, op, again),
             CpuTurn(s, op), cpu' \in CpuSet
      PROVE  /\ CpuTurn(s, op)
             /\ Turn(s, op, again, AfterCpu(s, op, again))
             /\ dmc' = AfterCpu(s, op, again).dmc
             /\ bus' = AfterCpu(s, op, again).bus
             /\ resets' = resets
             /\ cpu' \in CpuSet
  BY <1>2, <1>4, AfterCpuKeeps DEF RunCpuOne
<1>5. ASSUME NEW again \in Lengths, CycleRead(again)
      PROVE  RunCpuOne(s, ReadOp, again) /\ CpuTurn(s, ReadOp) /\ cpu' \in CpuSet
  <2>1. CASE s.bus.rdy
    <3>1. /\ cpu' = [frozen |-> FALSE, run |-> 0, again |-> NoReg,
                     gap |-> IF cpu.gap = 0 THEN 0 ELSE cpu.gap - 1]
          /\ did' = s.did /\ RunCpuOne(s, ReadOp, again)
      BY <1>5, <2>1 DEF CycleRead, s
    <3>2. cpu' \in CpuSet /\ ~cpu'.frozen /\ cpu'.again = NoReg
      BY <1>8, <3>1 DEF WriteGap, MaxWriteRun
    <3> QED BY <2>1, <3>1, <3>2 DEF CpuTurn, Free
  <2>2. CASE ~s.bus.rdy
    <3> DEFINE yes == TRUE
    <3>1. /\ cpu' = [cpu EXCEPT !.frozen = yes, !.again = NoReg]
          /\ did' = s.did /\ RunCpuOne(s, ReadOp, again)
      BY <1>5, <2>2 DEF CycleRead, s
    <3>2. yes /\ yes \in BOOLEAN
      OBVIOUS
    <3> HIDE DEF yes
    <3>3. cpu' \in CpuSet /\ cpu'.frozen /\ cpu'.again = NoReg
      BY <1>3, <3>1, <3>2
    <3> QED BY <2>2, <3>1, <3>3 DEF CpuTurn, Held
  <2> QED BY <2>1, <2>2
<1>6. ASSUME NEW again \in Lengths, CycleWrite(again)
      PROVE  RunCpuOne(s, ReadOp, again) /\ CpuTurn(s, ReadOp) /\ cpu' \in CpuSet
  <2> DEFINE n == cpu.run + 1
             g == IF cpu.gap = 0 THEN 0 ELSE cpu.gap - 1
  <2>1. /\ cpu' = [cpu EXCEPT !.run = n, !.gap = g]
        /\ did' = s.did \cup {"cpu write"} /\ RunCpuOne(s, ReadOp, again)
    BY <1>3, <1>6 DEF CycleWrite, s
  <2>8. ~cpu.frozen /\ cpu.run < 3 /\ cpu.gap < 3
    BY <1>6 DEF CycleWrite, MaxWriteRun, WriteGap
  <2>2. n \in 0..3 /\ g \in 0..3 /\ g # 3
    BY <1>8, <2>8
  <2>3. ReadOp[1] # "4014"
    BY DEF ReadOp
  <2>9. n = cpu.run + 1
    OBVIOUS
  <2> HIDE DEF n, g
  <2>4. /\ cpu' \in CpuSet /\ cpu'.run = n /\ cpu'.gap = g
        /\ cpu'.frozen = cpu.frozen /\ cpu'.again = cpu.again
    BY <1>3, <2>1, <2>2 DEF MaxWriteRun, WriteGap
  <2>5. WritesLeft' < WritesLeft
    <3>1. WritesLeft = 3 - cpu.run
      BY <1>8, <2>8 DEF WritesLeft, MaxWriteRun, WriteGap
    <3>2. WritesLeft' = 3 - n
      BY <2>2, <2>4 DEF WritesLeft, MaxWriteRun, WriteGap
    <3> QED BY <1>8, <2>2, <2>9, <3>1, <3>2
  <2>6. cpu.again = NoReg
    BY <1>8, <2>8
  <2>7. cpu.gap # WriteGap
    BY <1>8, <2>8 DEF WriteGap
  <2>10. ~cpu'.frozen /\ cpu'.again = NoReg
    BY <2>4, <2>6, <2>8
  <2> QED BY <2>1, <2>3, <2>4, <2>5, <2>7, <2>8, <2>10 DEF CpuTurn, Writes
<1>7. ASSUME NEW again \in Lengths, NEW op \in RegWrites, CycleWriteReg(op, again)
      PROVE  RunCpuOne(s, op, again) /\ CpuTurn(s, op) /\ cpu' \in CpuSet
  <2>1. /\ ~cpu.frozen
        /\ (cpu.gap = 0 /\ cpu.run = 0) \/ cpu.again = op[1]
        /\ did' = s.did \cup {"cpu write"} /\ RunCpuOne(s, op, again)
        /\ cpu' = [frozen |-> FALSE, run |-> 0, gap |-> WriteGap,
                   again |-> IF cpu.again = NoReg THEN op[1] ELSE NoReg]
    BY <1>7 DEF CycleWriteReg, s
  <2>2. op[1] \in {"4010", "4014", "4015"}
    <3>1. op = <<"4014">> \/ op = <<"4015", FALSE>> \/ op \in Starts \/ op \in Setups
      BY <1>7, Zenon DEF RegWrites
    <3>2. ASSUME op \in Starts PROVE op[1] = "4015"
      <4>1. PICK l \in Lengths : op = <<"4015", TRUE, l>>
        BY <3>2, Zenon DEF Starts
      <4> QED BY <4>1
    <3>3. ASSUME op \in Setups PROVE op[1] = "4010"
      BY <3>3 DEF Setups
    <3>4. <<"4014">>[1] = "4014" /\ <<"4015", FALSE>>[1] = "4015"
      OBVIOUS
    <3> QED BY <3>1, <3>2, <3>3, <3>4, Zenon
  <2> DEFINE o == op[1]
             g == IF cpu.again = NoReg THEN o ELSE NoReg
  <2>3. o \in {"4010", "4014", "4015"} /\ NoReg = "none"
    BY <2>2 DEF NoReg
  <2> HIDE DEF o
  <2>4. /\ cpu' \in CpuSet /\ cpu'.gap = WriteGap /\ ~cpu'.frozen
        /\ cpu'.again = g /\ cpu'.run = 0
    <3>1. g \in {NoReg, "4010", "4014", "4015"}
      BY <2>3
    <3>2. cpu' = [frozen |-> FALSE, run |-> 0, gap |-> WriteGap, again |-> g]
      BY <2>1 DEF o
    <3> HIDE DEF g
    <3> QED BY <3>1, <3>2 DEF MaxWriteRun, WriteGap
  <2>5. WritesLeft' < WritesLeft
    <3>1. WritesLeft' = IF g = NoReg THEN 0 ELSE 1
      BY <2>4 DEF WritesLeft
    <3>2. CASE cpu.again = NoReg
      <4>1. cpu.gap = 0 /\ cpu.run = 0
        <5>1. (cpu.gap = 0 /\ cpu.run = 0) \/ cpu.again = o
          BY <2>1 DEF o
        <5> QED BY <2>3, <3>2, <5>1
      <4>2. WritesLeft = 3
        BY <4>1 DEF WritesLeft, WriteGap, MaxWriteRun
      <4> QED BY <3>1, <4>2
    <3>3. CASE cpu.again # NoReg
      <4>1. WritesLeft = 1
        BY <1>8, <3>3 DEF WritesLeft, WriteGap
      <4> QED BY <3>1, <3>3, <4>1
    <3> QED BY <3>2, <3>3
  <2>6. CASE o = "4014"
    BY <2>1, <2>3, <2>4, <2>5, <2>6 DEF CpuTurn, Writes, o
  <2>7. CASE o # "4014"
    <3>1. ~(cpu.gap = WriteGap /\ cpu.again \in {NoReg, "4014"})
      <4>1. CASE cpu.gap = 0
        BY <4>1 DEF WriteGap
      <4>2. CASE cpu.again = o
        BY <2>3, <2>7, <4>2
      <4> QED BY <2>1, <4>1, <4>2 DEF o
    <3> QED BY <2>1, <2>3, <2>4, <2>5, <2>7, <3>1 DEF CpuTurn, Writes, o
  <2> QED BY <2>1, <2>4, <2>6, <2>7
<1> SUFFICES \E op \in RegWrites \cup {ReadOp}, again \in Lengths :
               /\ CpuTurn(s, op)
               /\ Turn(s, op, again, AfterCpu(s, op, again))
               /\ dmc' = AfterCpu(s, op, again).dmc
               /\ bus' = AfterCpu(s, op, again).bus
               /\ resets' = resets
               /\ cpu' \in CpuSet
  BY DEF s
<1> HIDE DEF CpuSet
<1> QED BY <1>4, <1>5, <1>6, <1>7 DEF Cycle

-----------------------------------------------------------------------------
(***************************************************************************)
(* A cycle keeps the invariant: s is what its CPU's part finds, r how it   *)
(* ends.                                                                   *)
(***************************************************************************)
CycleEnds(s, op, again, r) ==
  /\ op \in RegWrites \cup {ReadOp}
  /\ CpuSees(s) /\ CpuTurn(s, op) /\ Turn(s, op, again, r)
  /\ dmc' = r.dmc /\ bus' = r.bus /\ resets' = resets
  /\ cpu' \in [frozen : BOOLEAN, run : 0..MaxWriteRun,
               again : {NoReg, "4010", "4014", "4015"}, gap : 0..WriteGap]

\* The numbers of the end of a cycle.
LEMMA EndNumbers ==
  ASSUME TypeOK, NEW s, NEW op, NEW again, NEW r, CycleEnds(s, op, again, r)
  PROVE  /\ s.dmc \in DmcType /\ s.bus \in BusType /\ r.dmc \in DmcType /\ r.bus \in BusType
         /\ s.dmc.timer \in Nat /\ s.dmc.length \in Nat /\ s.dmc.bits \in 0..(BitsPerByte - 1)
         /\ r.dmc.length \in Nat /\ r.bus.rdy \in BOOLEAN /\ s.bus.rdy \in BOOLEAN
         /\ s.dmc.reload \in {0, 1, 2, 3} /\ cpu.frozen \in BOOLEAN
         /\ s.dmc.countdown \in {Idle, 1, 2, 3} /\ s.dmc.delay \in {0, 1, 2}
         /\ s.dmc.filled \in BOOLEAN /\ s.dmc.fill_glitch_2 \in BOOLEAN
<1>1. /\ s.dmc \in DmcType /\ s.bus \in BusType /\ r.dmc \in DmcType /\ r.bus \in BusType
  BY DEF CycleEnds, CpuSees, Turn, Mid
<1>2. s.dmc.countdown # -2 /\ s.dmc.delay # 3
  BY DEF CycleEnds, CpuSees
<1>3. s.dmc.timer \in Nat
  BY <1>1, TimerFacts DEF DmcType
<1>4. r.bus.rdy \in BOOLEAN /\ s.bus.rdy \in BOOLEAN
  BY <1>1 DEF BusType
<1>5. /\ s.dmc.length \in Nat /\ s.dmc.bits \in 0..(BitsPerByte - 1)
      /\ r.dmc.length \in Nat /\ s.dmc.reload \in {0, 1, 2, 3}
      /\ s.dmc.countdown \in {Idle, 1, 2, 3} /\ s.dmc.delay \in {0, 1, 2}
      /\ s.dmc.filled \in BOOLEAN /\ s.dmc.fill_glitch_2 \in BOOLEAN
  BY <1>1, <1>2 DEF DmcType
<1> QED BY <1>1, <1>3, <1>4, <1>5, StartTypes

\* Who is held stays held or is released; a CPU that is frozen does not write.
LEMMA TurnFacts ==
  ASSUME TypeOK, NEW s, NEW op, NEW again, NEW r, CycleEnds(s, op, again, r)
  PROVE  /\ cpu.frozen => op = ReadOp /\ (Held(s) \/ Free(s))
         /\ ~s.bus.rdy => Held(s) \/ Writes(s, op)
         /\ UnitSame(s.dmc, dmc')
BY DEF CycleEnds, CpuTurn, Writes, Held, Free, Turn

\* The DMAs in flight or about to start.
LEMMA DmaReadyEnds ==
  ASSUME TypeOK, NEW s, NEW op, NEW again, NEW r, CycleEnds(s, op, again, r)
  PROVE  HeldIffDma' /\ DmaReady'
<1>1. HeldIffDma'
  BY DEF CycleEnds, Turn, HeldIffDma
<1>2. /\ dmc'.countdown = s.dmc.countdown /\ dmc'.delay = s.dmc.delay
      /\ dmc'.rdy_check = s.dmc.rdy_check /\ dmc'.timer = s.dmc.timer
      /\ bus'.dmc = s.bus.dmc
  BY TurnFacts DEF CycleEnds, Turn, UnitSame
<1>3. ASSUME s.dmc.countdown = 1 PROVE cpu'.frozen
  <2>1. cpu.frozen /\ ~s.bus.rdy
    BY <1>3 DEF CycleEnds, CpuSees, DmaSeen
  <2>2. Held(s)
    BY <2>1, TurnFacts DEF Writes
  <2> QED BY <2>2 DEF Held
<1>4. cpu'.again # NoReg => cpu'.gap = WriteGap
  BY DEF CycleEnds, CpuTurn, Held, Free, Writes
<1>5. DmaReady'
  BY <1>2, <1>3, <1>4 DEF CycleEnds, CpuSees, DmaSeen, DmaReady
<1> QED BY <1>1, <1>5

\* The countdown out of step.
LEMMA InTimeEnds ==
  ASSUME TypeOK, NEW s, NEW op, NEW again, NEW r, CycleEnds(s, op, again, r)
  PROVE  DmaInTime'
<1>1. dmc'.countdown = s.dmc.countdown /\ dmc'.timer = s.dmc.timer /\ dmc'.bits = s.dmc.bits
  BY TurnFacts DEF UnitSame
<1> SUFFICES ASSUME OffBeat(s.dmc)
             PROVE  /\ s.dmc.bits = BitsPerByte - 1
                    /\ s.dmc.timer >= IF cpu'.frozen THEN s.dmc.countdown ELSE WritesLeft' + 4
  BY <1>1 DEF DmaInTime, OffBeat
<1>2. /\ ~s.bus.rdy /\ s.dmc.bits = BitsPerByte - 1
      /\ s.dmc.timer >= IF cpu.frozen THEN s.dmc.countdown ELSE WritesLeft + 3
  BY DEF CycleEnds, CpuSees, InTimeSeen
<1>3. WritesLeft \in 0..3
  BY StartTypes DEF WritesLeft, MaxWriteRun, WriteGap
<1>4. s.dmc.countdown \in {1, 2, 3}
  BY EndNumbers DEF OffBeat, Idle
<1>5. CASE Held(s)
  BY <1>2, <1>3, <1>4, <1>5, EndNumbers DEF Held
<1>6. CASE Writes(s, op)
  <2>1. ~cpu.frozen /\ ~cpu'.frozen /\ WritesLeft' < WritesLeft
    BY <1>6 DEF Writes
  <2>2. WritesLeft' \in 0..3
    <3>1. cpu'.run \in 0..3
      BY DEF CycleEnds, MaxWriteRun
    <3> QED BY <3>1 DEF WritesLeft, MaxWriteRun
  <2>3. s.dmc.timer >= WritesLeft + 3 /\ s.dmc.timer \in Nat
    BY <1>2, <2>1, EndNumbers
  <2>4. s.dmc.timer >= WritesLeft' + 4
    BY <1>3, <2>1, <2>2, <2>3
  <2> QED BY <1>2, <2>1, <2>4
<1> QED BY <1>2, <1>5, <1>6, TurnFacts

\* The empty buffer nobody fills yet.
LEMMA RestartEnds ==
  ASSUME TypeOK, NEW s, NEW op, NEW again, NEW r, CycleEnds(s, op, again, r)
  PROVE  RestartDue'
<1>1. UnitSame(s.dmc, dmc') /\ dmc' = r.dmc
  BY TurnFacts DEF CycleEnds
<1>2. /\ s.dmc.call_from_write => dmc'.call_from_write
      /\ dmc'.fill_glitch_2 => s.dmc.fill_glitch_2 \/ dmc'.length = 0
      /\ dmc'.length > 0 => \/ s.dmc.length > 0 \/ s.dmc.reload = 1
                            \/ dmc'.call_from_write \/ s.dmc.filled
  BY DEF CycleEnds, Turn
<1> SUFFICES ASSUME ~dmc'.filled, dmc'.length > 0, dmc'.countdown = Idle, dmc'.delay = 0,
                    ~dmc'.call_from_write
             PROVE  /\ dmc'.bits = BitsPerByte - 1 /\ dmc'.timer >= 8 /\ dmc'.timer % 2 = 0
                    /\ ~dmc'.fill_glitch_2
  BY DEF RestartDue
<1>3. /\ ~s.dmc.filled /\ s.dmc.countdown = Idle /\ s.dmc.delay = 0 /\ ~s.dmc.call_from_write
      /\ s.dmc.length > 0 \/ s.dmc.reload > 0
  BY <1>1, <1>2, EndNumbers DEF UnitSame
<1>4. /\ s.dmc.bits = BitsPerByte - 1 /\ s.dmc.timer >= 8 /\ s.dmc.timer % 2 = 0
      /\ ~s.dmc.fill_glitch_2
  BY <1>3 DEF CycleEnds, CpuSees, RestartSeen
<1>5. dmc'.length # 0
  BY <1>1, EndNumbers
<1> QED BY <1>1, <1>2, <1>4, <1>5 DEF UnitSame

\* The sprite DMA.
LEMMA OamEnds ==
  ASSUME TypeOK, NEW s, NEW op, NEW again, NEW r, CycleEnds(s, op, again, r)
  PROVE  OamReady'
<1>1. /\ dmc'.countdown = s.dmc.countdown /\ dmc'.timer = s.dmc.timer
      /\ bus' = r.bus /\ bus'.realign = s.bus.realign
  BY TurnFacts DEF CycleEnds, Turn, UnitSame
<1>2. bus'.realign => dmc'.countdown # 1
  BY <1>1 DEF CycleEnds, CpuSees, OamSeen
<1>3. CASE op[1] # "4014"
  <2>1. /\ bus'.oam = s.bus.oam /\ bus'.oam_index = s.bus.oam_index
        /\ bus'.deadcounter = s.bus.deadcounter
    BY <1>3 DEF CycleEnds, Turn
  <2>2. ASSUME s.bus.oam
        PROVE  s.bus.oam_index < OamLen /\ cpu'.frozen /\ OamInStep(s.bus, s.dmc.timer)
    <3>1. /\ s.bus.oam_index < OamLen /\ OamInStep(s.bus, s.dmc.timer)
          /\ cpu.frozen \/ (cpu.gap = WriteGap /\ cpu.again \in {NoReg, "4014"})
          /\ ~s.bus.rdy
      BY <2>2 DEF CycleEnds, CpuSees, OamSeen, DmaSeen
    <3>2. Held(s)
      BY <1>3, <3>1, TurnFacts DEF Writes
    <3> QED BY <3>1, <3>2 DEF Held
  <2>3. OamInStep(s.bus, s.dmc.timer) => OamInStep(bus', dmc'.timer)
    BY <1>1, <2>1 DEF OamInStep
  <2> QED BY <1>2, <2>1, <2>2, <2>3 DEF OamReady
<1>4. CASE op[1] = "4014"
  <2>1. /\ bus'.oam /\ bus'.oam_index = 0
        /\ bus'.deadcounter = IF s.dmc.timer % 2 = 0 THEN 2 ELSE 1
    BY <1>4 DEF CycleEnds, Turn
  <2>2. Writes(s, op)
    BY <1>4 DEF CycleEnds, CpuTurn, ReadOp
  <2>3. ~bus'.realign
    BY <1>1, <2>2 DEF CycleEnds, CpuSees, OamSeen, Writes
  <2>4. cpu'.gap = WriteGap /\ cpu'.again \in {NoReg, "4014"}
    BY <1>4, <2>2 DEF Writes
  <2>5. 0 < OamLen
    BY SizesAssumption
  <2>6. OamInStep(bus', dmc'.timer)
    <3>1. CASE s.dmc.timer % 2 = 0
      BY <1>1, <2>1, <2>3, <3>1 DEF OamInStep
    <3>2. CASE s.dmc.timer % 2 # 0
      BY <1>1, <2>1, <2>3, <3>2, EndNumbers DEF OamInStep
    <3> QED BY <3>1, <3>2
  <2>7. bus'.deadcounter > 0
    BY <2>1
  <2> QED BY <1>2, <2>1, <2>4, <2>5, <2>6, <2>7 DEF OamReady
<1> QED BY <1>3, <1>4

\* The reload in progress.
LEMMA ReloadEnds ==
  ASSUME TypeOK, NEW s, NEW op, NEW again, NEW r, CycleEnds(s, op, again, r)
  PROVE  ReloadDue' /\ ReloadHasLength'
<1>1. UnitSame(s.dmc, dmc') /\ resets' = resets
  BY TurnFacts DEF CycleEnds
<1>2. dmc'.reload = IF s.dmc.reload = 0 THEN 0 ELSE s.dmc.reload - 1
  BY DEF CycleEnds, Turn
<1>3. ReloadSeen(s)
  BY DEF CycleEnds, CpuSees
<1>4. ASSUME s.dmc.reload \in {2, 3}
      PROVE  /\ op = ReadOp /\ dmc'.length = s.dmc.length
             /\ dmc'.fill_glitch_2 = s.dmc.fill_glitch_2
  <2>1. cpu.frozen
    BY <1>3, <1>4 DEF ReloadSeen
  <2>2. op = ReadOp
    BY <2>1, TurnFacts
  <2> QED BY <1>4, <2>2 DEF CycleEnds, Turn
<1>5. CASE s.dmc.reload \in {0, 1}
  <2>1. dmc'.reload = 0
    BY <1>2, <1>5
  <2> QED BY <2>1 DEF ReloadDue, ReloadHasLength
<1>6. CASE s.dmc.reload = 2
  <2>1. dmc'.reload = 1
    BY <1>2, <1>6
  <2>2. s.dmc.filled \/ (s.dmc.timer >= 8 /\ s.dmc.bits = BitsPerByte - 1)
    BY <1>3, <1>6 DEF ReloadSeen
  <2>3. s.dmc.length = 0 => /\ s.dmc.filled /\ ~s.dmc.fill_glitch_2 /\ s.dmc.bits = 0
                            /\ s.dmc.timer \in {1, 2, 3}
    BY <1>3, <1>6 DEF ReloadSeen
  <2>4. resets = 0 => s.dmc.length > 0
    BY <1>3, <1>6 DEF ReloadSeen
  <2>5. dmc'.length = s.dmc.length /\ dmc'.fill_glitch_2 = s.dmc.fill_glitch_2
    BY <1>4, <1>6
  <2>6. ReloadDue'
    BY <1>1, <2>1, <2>2, <2>3, <2>5 DEF ReloadDue, UnitSame
  <2>7. ReloadHasLength'
    BY <1>1, <2>4, <2>5 DEF ReloadHasLength
  <2> QED BY <2>6, <2>7
<1>7. CASE s.dmc.reload = 3
  <2>1. dmc'.reload = 2 /\ dmc'.length = s.dmc.length
    BY <1>2, <1>4, <1>7
  <2>2. s.dmc.filled /\ s.dmc.length > 0 /\ ~s.bus.rdy /\ cpu.frozen
    BY <1>3, <1>7 DEF ReloadSeen
  <2>3. Held(s)
    BY <2>2, TurnFacts DEF Writes
  <2>4. cpu'.frozen /\ dmc'.filled
    BY <1>1, <2>2, <2>3 DEF Held, UnitSame
  <2> QED BY <2>1, <2>2, <2>4, EndNumbers DEF ReloadDue, ReloadHasLength
<1> QED BY <1>5, <1>6, <1>7, EndNumbers

\* What the cycle has done.
LEMMA DidEnds ==
  ASSUME TypeOK, NEW s, NEW op, NEW again, NEW r, CycleEnds(s, op, again, r)
  PROVE  FetchEndsDma' /\ OneBusOwner' /\ OamParity' /\ did' \in SUBSET {"get", "put", "fetch", "cpu write"}
<1>1. /\ dmc'.countdown = s.dmc.countdown /\ dmc'.timer = s.dmc.timer
  BY TurnFacts DEF UnitSame
<1>2. DidSeen(s)
  BY DEF CycleEnds, CpuSees
<1>3. \/ did' = s.did
      \/ s.did = {} /\ did' = {"cpu write"}
  <2>1. CASE Held(s) \/ Free(s)
    BY <2>1 DEF Held, Free
  <2>2. CASE Writes(s, op)
    <3>1. s.did = {}
      BY <1>2, <2>2 DEF DidSeen, Writes
    <3> QED BY <2>2, <3>1 DEF Writes
  <2> QED BY <2>1, <2>2 DEF CycleEnds, CpuTurn
<1>4. did' = {} \/ \E e \in {"get", "put", "fetch", "cpu write"} : did' = {e}
  BY <1>2, <1>3 DEF DidSeen
<1>5. OneBusOwner'
  <2>1. ASSUME NEW e, did' = {e} PROVE Cardinality(did') = 1
    BY <2>1, FS_Singleton
  <2>2. did' = {} => Cardinality(did') = 0
    BY FS_EmptySet
  <2>3. Cardinality(did') = 0 \/ Cardinality(did') = 1
    <3>1. CASE did' = {}
      BY <2>2, <3>1
    <3>2. CASE did' # {}
      <4>1. PICK e \in {"get", "put", "fetch", "cpu write"} : did' = {e}
        BY <1>4, <3>2
      <4> QED BY <2>1, <4>1
    <3> QED BY <3>1, <3>2
  <2> QED BY <2>3 DEF OneBusOwner
<1>6. /\ "fetch" \in did' => "fetch" \in s.did
      /\ "get" \in did' => "get" \in s.did
      /\ "put" \in did' => "put" \in s.did
  BY <1>3
<1> QED BY <1>1, <1>2, <1>4, <1>5, <1>6 DEF DidSeen, FetchEndsDma, OamParity

\* Between two cycles no start is new, no byte just fetched, no abort due.
LEMMA BetweenCycles ==
  ASSUME NEW d \in DmcType, d.delay # 3, d.countdown # -2, ~d.fill_glitch_2_end, d.reload # 3
  PROVE  d \in [timer : Timers, timer_reload : Rates,
                bits : 0..(BitsPerByte - 1), filled : BOOLEAN,
                length : Nat, delay : {0, 1, 2}, call_from_write : BOOLEAN,
                fill_glitch : BOOLEAN, fill_glitch_2 : BOOLEAN, fill_glitch_2_end : {FALSE},
                pending_disable : BOOLEAN, countdown : {Idle, 1, 2, 3}, rdy_check : {-2, 0, 2},
                reload : 0..2, loop : BOOLEAN, irq_enabled : BOOLEAN,
                irq : BOOLEAN, irq_glitch : BOOLEAN]
<1>1. d.fill_glitch_2_end \in {FALSE}
  <2>1. d.fill_glitch_2_end \in BOOLEAN
    BY DEF DmcType
  <2> QED BY <2>1, Zenon
<1>2. d.delay \in {0, 1, 2} /\ d.countdown \in {Idle, 1, 2, 3} /\ d.reload \in 0..2
  BY DEF DmcType
<1> QED BY <1>1, <1>2 DEF DmcType

\* The types.
LEMMA TypesEnd ==
  ASSUME TypeOK, NEW s, NEW op, NEW again, NEW r, CycleEnds(s, op, again, r)
  PROVE  TypeOK'
<1>1. dmc' \in DmcType /\ bus' \in BusType
  BY EndNumbers DEF CycleEnds
<1>2. dmc'.delay # 3 /\ dmc'.countdown # -2 /\ ~dmc'.fill_glitch_2_end
  <2>1. dmc'.delay = s.dmc.delay /\ dmc'.countdown = s.dmc.countdown
        /\ dmc'.fill_glitch_2_end = s.dmc.fill_glitch_2_end
    BY TurnFacts DEF UnitSame
  <2>2. s.dmc.delay # 3 /\ s.dmc.countdown # -2 /\ ~s.dmc.fill_glitch_2_end
    BY DEF CycleEnds, CpuSees
  <2> QED BY <2>1, <2>2
<1>3. dmc'.reload # 3
  <2>1. dmc'.reload = IF s.dmc.reload = 0 THEN 0 ELSE s.dmc.reload - 1
    BY DEF CycleEnds, Turn
  <2>2. s.dmc.reload \in {0, 1, 2, 3}
    BY EndNumbers
  <2> QED BY <2>1, <2>2
<1>4. did' \in SUBSET {"get", "put", "fetch", "cpu write"}
  BY DidEnds
<1>5. resets' \in 0..MaxResets
  BY DEF CycleEnds, TypeOK
<1> QED BY <1>1, <1>2, <1>3, <1>4, <1>5, BetweenCycles DEF CycleEnds, TypeOK, BusType, Timers

\* A cycle keeps the invariant.
LEMMA CycleKeeps ==
  ASSUME IInv, Cycle
  PROVE  IInv'
<1>1. TypeOK /\ Inside
  BY DEF IInv
<1>2. \E s, op, again, r : CycleEnds(s, op, again, r)
  BY <1>1, BeforeCpuSees, CycleTurns DEF CycleEnds
<1>3. PICK s, op, again, r : CycleEnds(s, op, again, r)
  BY <1>2
<1> QED BY <1>1, <1>3, TypesEnd, DmaReadyEnds, InTimeEnds, RestartEnds, OamEnds, ReloadEnds, DidEnds
        DEF IInv, Inside

-----------------------------------------------------------------------------
\* A soft reset ends the sample and the glitches, and leaves the DMAs running:
\* the CPU that was to write a few times more does not.
LEMMA SoftResetKeeps ==
  ASSUME IInv, SoftReset
  PROVE  IInv'
<1> DEFINE e == Disable(dmc)
           no == FALSE
           f == [e EXCEPT !.fill_glitch = no, !.fill_glitch_2 = no]
<1>1. TypeOK /\ Inside
  BY DEF IInv
<1>2. /\ dmc' = f /\ bus' = bus /\ did' = {}
      /\ resets' = resets + 1 /\ resets < MaxResets
      /\ cpu' = [frozen |-> cpu.frozen, run |-> 0, again |-> NoReg, gap |-> WriteGap]
  BY DEF SoftReset
<1>3. /\ e \in DmcType /\ UnitSame(dmc, e)
      /\ e.call_from_write = dmc.call_from_write /\ e.reload = dmc.reload
      /\ e.length = 0 \/ e.length = dmc.length
      /\ e.length = 0 /\ dmc.length # 0 /\ dmc.reload # 0 => dmc.timer \in {2, 3} /\ dmc.bits = 0
  BY <1>1, StartTypes, DisableKeeps
<1>4. ~no /\ no \in BOOLEAN
  OBVIOUS
<1> HIDE DEF e, no
<1>5. /\ f \in DmcType /\ f.fill_glitch_2 = no
      /\ f.length = e.length /\ f.reload = e.reload /\ f.call_from_write = e.call_from_write
      /\ f.timer = e.timer /\ f.bits = e.bits /\ f.filled = e.filled /\ f.delay = e.delay
      /\ f.countdown = e.countdown /\ f.rdy_check = e.rdy_check
      /\ f.fill_glitch_2_end = e.fill_glitch_2_end
  BY <1>3, <1>4 DEF DmcType
<1> HIDE DEF f
<1>6. /\ dmc'.timer = dmc.timer /\ dmc'.bits = dmc.bits /\ dmc'.filled = dmc.filled
      /\ dmc'.delay = dmc.delay /\ dmc'.countdown = dmc.countdown
      /\ dmc'.rdy_check = dmc.rdy_check /\ dmc'.fill_glitch_2_end = dmc.fill_glitch_2_end
      /\ dmc'.reload = dmc.reload /\ dmc'.call_from_write = dmc.call_from_write
      /\ dmc'.length = 0 \/ dmc'.length = dmc.length
      /\ dmc'.length = 0 /\ dmc.length # 0 /\ dmc.reload # 0 => dmc.timer \in {2, 3} /\ dmc.bits = 0
  BY <1>2, <1>3, <1>5 DEF UnitSame
<1>7. ~dmc'.fill_glitch_2
  BY <1>2, <1>4, <1>5
<1>8. cpu'.frozen = cpu.frozen /\ cpu'.again = NoReg /\ cpu'.gap = WriteGap
  BY <1>2
<1>9. TypeOK'
  <2>1. dmc' \in DmcType
    BY <1>2, <1>5
  <2>2. dmc.delay # 3 /\ dmc.countdown # -2 /\ ~dmc.fill_glitch_2_end /\ dmc.reload # 3
    BY <1>1, StartTypes DEF Idle
  <2>3. cpu' \in [frozen : BOOLEAN, run : 0..MaxWriteRun,
                  again : {NoReg, "4010", "4014", "4015"}, gap : 0..WriteGap]
    BY <1>1, <1>2, StartTypes DEF MaxWriteRun, WriteGap
  <2>4. bus' \in BusType
    BY <1>1, <1>2, StartTypes
  <2>5. resets' \in 0..MaxResets
    <3>1. resets \in 0..MaxResets /\ MaxResets \in Nat
      BY <1>1, SizesAssumption DEF TypeOK
    <3> QED BY <1>2, <3>1
  <2>6. dmc'.delay # 3 /\ dmc'.countdown # -2 /\ ~dmc'.fill_glitch_2_end /\ dmc'.reload # 3
    BY <1>6, <2>2
  <2> QED BY <1>2, <2>1, <2>3, <2>4, <2>5, <2>6, BetweenCycles DEF TypeOK, BusType, Timers
<1>10. HeldIffDma' /\ DmaReady'
  BY <1>1, <1>2, <1>6, <1>8 DEF Inside, HeldIffDma, DmaReady
<1>11. DmaInTime'
  <2>1. WritesLeft' = 0
    BY <1>8 DEF WritesLeft
  <2>2. WritesLeft \in 0..3
    BY <1>1, StartTypes DEF WritesLeft, MaxWriteRun, WriteGap
  <2>3. OffBeat(dmc') => OffBeat(dmc)
    BY <1>6 DEF OffBeat
  <2>4. dmc.timer \in Nat
    BY <1>1, StartTypes, TimerFacts DEF DmcType
  <2>5. dmc.timer >= WritesLeft + 4 => dmc.timer >= 4
    BY <2>2, <2>4
  <2> QED BY <1>1, <1>6, <1>8, <2>1, <2>3, <2>5 DEF Inside, DmaInTime
<1>12. RestartDue'
  <2>1. dmc'.length > 0 => dmc.length > 0
    BY <1>6
  <2> QED BY <1>1, <1>6, <1>7, <2>1 DEF Inside, RestartDue
<1>13. OamReady'
  BY <1>1, <1>2, <1>6, <1>8 DEF Inside, OamReady, OamInStep
<1>14. ReloadDue'
  <2>1. ReloadDue /\ dmc.reload \in {0, 1, 2} /\ dmc.length \in Nat
    BY <1>1, StartTypes DEF Inside, DmcType
  <2>2. /\ dmc'.reload = 2 => cpu'.frozen /\ dmc'.filled
        /\ dmc'.reload = 1 => dmc'.filled \/ (dmc'.timer >= 8 /\ dmc'.bits = BitsPerByte - 1)
    BY <1>6, <1>8, <2>1 DEF ReloadDue
  <2>3. ASSUME dmc.reload > 0, dmc'.length = 0, dmc.length = 0
        PROVE  /\ dmc.filled /\ dmc.bits = 0
               /\ dmc.timer \in {1, 2, 3} /\ (dmc.reload = 2 => dmc.timer # 1)
    BY <2>1, <2>3 DEF ReloadDue
  <2>4. ASSUME dmc.reload > 0, dmc'.length = 0, dmc.length # 0
        PROVE  /\ dmc.filled /\ dmc.bits = 0
               /\ dmc.timer \in {1, 2, 3} /\ (dmc.reload = 2 => dmc.timer # 1)
    <3>1. dmc.timer \in {2, 3} /\ dmc.bits = 0
      BY <1>6, <2>1, <2>4
    <3>2. BitsPerByte - 1 # 0
      BY SizesAssumption
    <3>3. dmc.filled
      BY <2>1, <2>4, <3>1, <3>2 DEF ReloadDue
    <3> QED BY <3>1, <3>3
  <2>5. dmc'.reload > 0 /\ dmc'.length = 0 =>
          /\ dmc'.filled /\ ~dmc'.fill_glitch_2 /\ dmc'.bits = 0
          /\ dmc'.timer \in {1, 2, 3} /\ (dmc'.reload = 2 => dmc'.timer # 1)
    BY <1>6, <1>7, <2>3, <2>4
  <2> QED BY <2>2, <2>5 DEF ReloadDue
<1>15. ReloadHasLength'
  <2>1. resets' # 0
    <3>1. resets \in 0..MaxResets
      BY <1>1 DEF TypeOK
    <3> QED BY <1>2, <3>1
  <2> QED BY <2>1 DEF ReloadHasLength
<1>16. FetchEndsDma' /\ OneBusOwner' /\ OamParity'
  BY <1>2, FS_EmptySet DEF FetchEndsDma, OneBusOwner, OamParity
<1> QED BY <1>9, <1>10, <1>11, <1>12, <1>13, <1>14, <1>15, <1>16 DEF IInv, Inside

\* The power-on state: nothing is in flight.
LEMMA InitKeeps ==
  ASSUME Init
  PROVE  IInv
<1>1. PICK r \in Rates :
        dmc = [timer |-> InitTimer, timer_reload |-> r, bits |-> BitsPerByte - 1,
               filled |-> FALSE, length |-> 0, delay |-> 0, call_from_write |-> FALSE,
               fill_glitch |-> FALSE, fill_glitch_2 |-> FALSE, fill_glitch_2_end |-> FALSE,
               pending_disable |-> FALSE, countdown |-> Idle, rdy_check |-> 0,
               reload |-> 0, loop |-> FALSE, irq_enabled |-> FALSE,
               irq |-> FALSE, irq_glitch |-> FALSE]
  BY DEF Init
<1>2. /\ bus = [rdy |-> TRUE, oam |-> FALSE, oam_index |-> 0, deadcounter |-> 0,
                dmc |-> FALSE, realign |-> FALSE]
      /\ cpu = [frozen |-> FALSE, run |-> 0, again |-> NoReg, gap |-> 0]
      /\ did = {} /\ resets = 0
  BY DEF Init
<1>3. InitTimer \in Timers /\ BitsPerByte - 1 \in 0..(BitsPerByte - 1)
  BY RatesAssumption, SizesAssumption DEF Timers
<1>4. TypeOK
  <2>1. dmc \in DmcType
    BY <1>1, <1>3 DEF DmcType
  <2>2. dmc.delay # 3 /\ dmc.countdown # -2 /\ ~dmc.fill_glitch_2_end /\ dmc.reload # 3
    BY <1>1 DEF Idle
  <2>3. /\ 0 \in 0..OamLen /\ 0 \in 0..MaxResets
        /\ 0 \in 0..MaxWriteRun /\ 0 \in 0..WriteGap
    BY SizesAssumption DEF MaxWriteRun, WriteGap
  <2>4. bus \in BusType
    BY <1>2, <2>3 DEF BusType
  <2>5. cpu \in [frozen : BOOLEAN, run : 0..MaxWriteRun,
                 again : {NoReg, "4010", "4014", "4015"}, gap : 0..WriteGap]
    BY <1>2, <2>3
  <2> QED BY <1>2, <2>1, <2>2, <2>3, <2>4, <2>5, BetweenCycles DEF TypeOK, BusType, Timers
<1>5. HeldIffDma /\ OamReady
  BY <1>2 DEF HeldIffDma, OamReady
<1>6. dmc.countdown = -1 /\ dmc.delay = 0 /\ dmc.length = 0 /\ dmc.reload = 0
  BY <1>1 DEF Idle
<1>7. DmaReady /\ DmaInTime /\ RestartDue /\ ReloadDue /\ ReloadHasLength
  BY <1>2, <1>6 DEF DmaReady, DmaInTime, OffBeat, RestartDue, ReloadDue, ReloadHasLength
<1>8. FetchEndsDma /\ OneBusOwner /\ OamParity
  BY <1>2, FS_EmptySet DEF FetchEndsDma, OneBusOwner, OamParity
<1> QED BY <1>4, <1>5, <1>7, <1>8 DEF IInv, Inside

\* The invariant holds in every state of every behaviour.
LEMMA Invariance == Spec => []IInv
<1>1. Init => IInv
  BY InitKeeps
<1>2. IInv /\ [Next]_vars => IInv'
  <2> SUFFICES ASSUME IInv, [Next]_vars PROVE IInv'
    OBVIOUS
  <2>1. CASE Cycle
    BY <2>1, CycleKeeps
  <2>2. CASE SoftReset
    BY <2>2, SoftResetKeeps
  <2>3. CASE UNCHANGED vars
    <3>1. dmc' = dmc /\ bus' = bus /\ cpu' = cpu /\ did' = did /\ resets' = resets
      BY <2>3 DEF vars
    <3>2. TypeOK'
      <4>1. TypeOK
        BY DEF IInv
      <4>2. TypeOK' = TypeOK
        BY <3>1 DEF TypeOK
      <4> QED BY <4>1, <4>2, Zenon
    <3>3. HeldIffDma' /\ DmaReady' /\ RestartDue' /\ ReloadDue' /\ ReloadHasLength'
      BY <3>1 DEF IInv, Inside, HeldIffDma, DmaReady, RestartDue, ReloadDue, ReloadHasLength
    <3>4. DmaInTime'
      <4>1. WritesLeft' = WritesLeft
        BY <3>1 DEF WritesLeft
      <4> QED BY <3>1, <4>1 DEF IInv, Inside, DmaInTime
    <3>5. OamReady'
      BY <3>1 DEF IInv, Inside, OamReady
    <3>6. FetchEndsDma' /\ OneBusOwner' /\ OamParity'
      BY <3>1 DEF IInv, FetchEndsDma, OneBusOwner, OamParity
    <3> QED BY <3>2, <3>3, <3>4, <3>5, <3>6 DEF IInv, Inside
  <2> QED BY <2>1, <2>2, <2>3 DEF Next
<1> QED BY <1>1, <1>2, PTL DEF Spec

-----------------------------------------------------------------------------
\* The fields of the two DMAs, of the DMC unit and of the CPU's cycles keep
\* their types, for any sample rates and lengths and any length of the sprite
\* DMA: the timer never leaves the range of its rate, no countdown goes below
\* zero, and no aborted start outlives its cycle.
THEOREM TypeCorrect == Spec => []TypeOK
<1>1. IInv => TypeOK
  BY DEF IInv
<1> QED BY <1>1, Invariance, PTL

\* The bus has one owner at a time, who has the CPU held for exactly as long
\* as it needs, moves its bytes only while the CPU stands still, keeps to the
\* parity of get and put cycles, and leaves every fetched byte accounted for:
\* in every order of sprite DMAs, sample DMAs, register writes, runs of CPU
\* writes and resets.
THEOREM BusAlwaysArbitrated == Spec => []BusArbitration
<1>1. IInv => BusArbitration
  <2> SUFFICES ASSUME IInv PROVE BusArbitration
    OBVIOUS
  <2>1. HeldIffDma /\ ReloadHasLength /\ FetchEndsDma /\ OneBusOwner /\ OamParity
    BY DEF IInv, Inside
  <2>2. DmaWhileFrozen
    BY DEF IInv, Inside, DmaReady, OamReady, DmaWhileFrozen
  <2> QED BY <2>1, <2>2 DEF BusArbitration
<1> QED BY <1>1, Invariance, PTL

\* Wherever DMCUnit::Run takes its fast path, the body it skips would only
\* have moved the timer.
THEOREM FastPathAlwaysExact == Spec => []RunFastPathExact
<1>1. IInv => RunFastPathExact
  <2> SUFFICES ASSUME IInv PROVE RunFastPathExact
    OBVIOUS
  <2>1. TypeOK /\ Inside
    BY DEF IInv
  <2> DEFINE z == [dmc |-> dmc, bus |-> bus, did |-> {}]
             a == ClearRealign(OamStep(z))
             b == DmcStep(a)
  <2>2. z \in Mid /\ z.dmc = dmc /\ z.bus = bus
    BY <2>1, StartTypes DEF Mid
  <2> SUFFICES RunIsQuiet(b.dmc) => RunFull(b) = RunFast(b)
    BY DEF RunFastPathExact
  <2> HIDE DEF z
  <2>3. z.bus.oam => z.bus.oam_index < OamLen
    BY <2>1, <2>2 DEF Inside, OamReady
  <2>4. a \in Mid /\ a.dmc = z.dmc /\ a.bus.rdy = z.bus.rdy /\ ~a.bus.realign
    BY <2>2, <2>3, OamKeeps
  <2> HIDE DEF a
  <2>5. /\ a.dmc.countdown # -2 /\ cpu.frozen \in BOOLEAN
        /\ a.dmc.countdown > 0 => a.dmc.rdy_check = 2
        /\ a.dmc.countdown = 2 => ~a.bus.rdy
    BY <2>1, <2>2, <2>4, StartTypes DEF Inside, DmaReady, HeldIffDma, Idle
  <2>6. b \in Mid
    BY <2>4, <2>5, DmcStepKeeps
  <2> HIDE DEF b
  <2> QED BY <2>6, FastIsFull
<1> QED BY <1>1, Invariance, PTL

-----------------------------------------------------------------------------
(***************************************************************************)
(* The stages by what they do with the bus.                                *)
(***************************************************************************)
ReadUops ==
  {"Fetch2", "Fetch3", "Imm", "JSR", "JMP_abs", "IncPC", "AbsInd_JMP",
   "PullA_NoInc", "PullPC", "ZP_READ", "ZP_RMW_Stage3", "ZpIdx_Stage3",
   "ZpIdx_RMW_Stage4", "Abs_RMW_Stage4", "AbsIdx_READ_Stage5",
   "AbsIdx_RMW_Stage5", "IdxInd_Stage4", "IdxInd_Stage5", "IdxInd_Stage6_READ",
   "IdxInd_Stage6_RMW", "IndIdx_Stage3", "IndIdx_READ_Stage6",
   "IndIdx_RMW_Stage6"}

DummyUops ==
  {"FetchDummy", "Imp_Reg", "Imp_Flag", "Imp_Acc", "NOP", "IncS",
   "RelBranch_Stage4", "IdxInd_Stage3", "PushDummy"}

IndexedUops  == {"AbsIdx_Stage4", "IndIdx_WRITE_Stage5", "IndIdx_RMW_Stage5"}
SumUops      == {"AbsIdx_Stage3", "IndIdx_Stage4"}
SkipUops     == {"AbsIdx_READ_Stage4", "IndIdx_READ_Stage5"}
UnstableUops == {"AbsIdx_Stage4_SHx", "IndIdx_WRITE_Stage5_SHA"}
PendingUops  == {"Imp_CLI", "Imp_SEI"}
PushUops     == {"PushPC", "PushAP"}
FlagUops     == {"PushP_BRK", "PushP_IRQ", "PushP_NMI"}
ZpUops       == {"ZP_WRITE", "ZP_RMW", "ZP_RMW_Stage5", "ZpIdx_RMW_Stage6"}
MaskUops     == {"AbsIdx_WRITE_Stage5_SHx", "IndIdx_WRITE_Stage6"}

PlainStoreUops ==
  {"Abs_WRITE", "Abs_RMW_Stage5", "Abs_RMW_Stage6", "AbsIdx_WRITE_Stage5",
   "AbsIdx_RMW_Stage6", "AbsIdx_RMW_Stage7", "IdxInd_Stage6_WRITE",
   "IdxInd_Stage7_RMW", "IdxInd_Stage8_RMW", "IndIdx_RMW_Stage7",
   "IndIdx_RMW_Stage8"}

StoreUops == PlainStoreUops \cup MaskUops
WriteUops == StoreUops \cup ZpUops \cup PushUops \cup FlagUops

SingleUops == {"Abs_READ", "PushP_Reset", "FetchPCLVector", "FetchPCHVector",
               "PullP", "PullP_NoInc", "Jam"}
BranchUops == {"RelBranch_Stage2", "RelBranch_Stage3"}
PollUops   == {"End", "End_ISpecial"}
FetchUops  == {"End_SuppressInterrupt", "Fetch1_Real"}
LeaveUops  == PollUops \cup FetchUops \cup {"Fetch1"}

-----------------------------------------------------------------------------
(***************************************************************************)
(* What the table says of the stages and of their places in the rows.      *)
(***************************************************************************)
Stage(r, k) == Microcode[r][k]
Follows(r, k) ==
    /\ k \in 1..8
    /\ Stage(r, k) \notin LeaveUops \cup {"Jam"} => k + 1 \in DOMAIN Microcode[r]

Stages ==
  ReadUops \cup DummyUops \cup IndexedUops \cup SumUops \cup SkipUops
  \cup UnstableUops \cup PendingUops \cup WriteUops \cup SingleUops
  \cup BranchUops \cup LeaveUops

RowFacts(r, k) ==
    /\ Stage(r, k) = "Fetch1" => r = "Fetch1"
    /\ Stage(r, k) = "Fetch1_Real" => r = "Fetch1_NoInterrupt" /\ k = 1
    /\ Stage(r, k) = "FetchPCLVector" =>
         \/ r = "BRK" /\ k = 5
         \/ r \in {"NMI", "IRQ", "RESET"} /\ k = 6
    /\ Stage(r, k) = "End_SuppressInterrupt" =>
         \/ r = "BRK" /\ k = 7
         \/ r \in {"NMI", "IRQ", "RESET"} /\ k = 8
    /\ Stage(r, k) = "PushP_BRK" => r = "BRK" /\ k = 4
    /\ Stage(r, k) = "PushP_NMI" => r = "NMI" /\ k = 5
    /\ Stage(r, k) = "PushP_IRQ" => r = "IRQ" /\ k = 5
    /\ Stage(r, k) = "PushP_Reset" => r = "RESET" /\ k = 5
    /\ Stage(r, k) = "FetchPCHVector" =>
         \/ r = "BRK" /\ k = 6
         \/ r \in {"NMI", "IRQ", "RESET"} /\ k = 7
    /\ Stage(r, k) = "Abs_READ" => r = "Abs" /\ k = 3
    /\ Stage(r, k) = "PullP" => r = "RTI"
    /\ Stage(r, k) = "RelBranch_Stage2" => r = "Branch"
    /\ Stage(r, k) = "RelBranch_Stage3" => r = "Relative"
    /\ Stage(r, k) = "Jam" => r = "Jam"
    /\ Stage(r, k) \in StoreUops => r \in Opcodes
    /\ r \in {"Relative", "Relative2", "Fetch1_NoInterrupt"} => k \in 1..2
    /\ r = "BRK" /\ k = 4 => Stage(r, k) = "PushP_BRK"
    /\ r = "BRK" /\ k = 5 => Stage(r, k) = "FetchPCLVector"
    /\ r \in {"NMI", "IRQ"} /\ k = 6 => Stage(r, k) = "FetchPCLVector"
    /\ r = "NMI" /\ k = 5 => Stage(r, k) = "PushP_NMI"
    /\ r = "IRQ" /\ k = 5 => Stage(r, k) = "PushP_IRQ"
    /\ r = "RESET" /\ k = 5 => Stage(r, k) = "PushP_Reset"

Places(r, k) ==
    /\ Stage(r, k) = "AbsIdx_READ_Stage4" => r = "AbsIdx" /\ k = 3
    /\ Stage(r, k) = "IndIdx_READ_Stage5" => r = "IndIdx" /\ k = 4
    /\ Stage(r, k) = "Abs_WRITE" => r = "AbsWrite" /\ k = 3
    /\ Stage(r, k) = "Abs_RMW_Stage5" => r = "AbsRmw" /\ k = 4
    /\ Stage(r, k) = "Abs_RMW_Stage6" => r = "AbsRmw" /\ k = 5
    /\ Stage(r, k) = "AbsIdx_WRITE_Stage5" => r = "AbsIdxWrite" /\ k = 4
    /\ Stage(r, k) = "AbsIdx_WRITE_Stage5_SHx" => r = "AbsIdxSHx" /\ k = 4
    /\ Stage(r, k) = "AbsIdx_RMW_Stage6" => r = "AbsIdxRmw" /\ k = 5
    /\ Stage(r, k) = "AbsIdx_RMW_Stage7" => r = "AbsIdxRmw" /\ k = 6

IndexedPlaces(r, k) ==
    /\ Stage(r, k) = "IdxInd_Stage6_WRITE" => r = "IdxIndWrite" /\ k = 5
    /\ Stage(r, k) = "IdxInd_Stage7_RMW" => r = "IdxIndRmw" /\ k = 6
    /\ Stage(r, k) = "IdxInd_Stage8_RMW" => r = "IdxIndRmw" /\ k = 7
    /\ Stage(r, k) = "IndIdx_WRITE_Stage6" => r \in {"IndIdxWrite", "IndIdxSHx"} /\ k = 5
    /\ Stage(r, k) = "IndIdx_RMW_Stage7" => r = "IndIdxRmw" /\ k = 6
    /\ Stage(r, k) = "IndIdx_RMW_Stage8" => r = "IndIdxRmw" /\ k = 7

PushPlaces(r, k) ==
    /\ Stage(r, k) = "ZP_WRITE" => <<r, k>> \in {<<"ZpWrite", 2>>, <<"ZpIdxWrite", 3>>}
    /\ Stage(r, k) = "ZP_RMW" => <<r, k>> \in {<<"ZpRmw", 3>>, <<"ZpIdxRmw", 4>>}
    /\ Stage(r, k) = "ZP_RMW_Stage5" => r = "ZpRmw" /\ k = 4
    /\ Stage(r, k) = "ZpIdx_RMW_Stage6" => r = "ZpIdxRmw" /\ k = 5
    /\ Stage(r, k) = "PushAP" => r \in {"PHP", "PHA"} /\ k = 2
    /\ Stage(r, k) = "PushPC" =>
         \/ r = "BRK" /\ k \in 2..3
         \/ r \in {"NMI", "IRQ", "JSR"} /\ k \in 3..4

\* The rows of the table, and that no opcode is one of the internal rows.
LEMMA TableDomain == DOMAIN Microcode = Opcodes \cup Vops /\ Opcodes \cap Vops = {}
  BY DEF Microcode, Opcodes, LowOpcodes, HighOpcodes, Vops

\* Every place of every row, stage by stage.
LEMMA Table ==
  \A r \in DOMAIN Microcode : \A k \in DOMAIN Microcode[r] :
    Follows(r, k) /\ RowFacts(r, k) /\ Places(r, k) /\ IndexedPlaces(r, k) /\ PushPlaces(r, k)
    /\ Stage(r, k) \in Stages
<1> SUFFICES ASSUME NEW r \in Opcodes \cup Vops, NEW k \in DOMAIN Microcode[r]
             PROVE Follows(r, k) /\ RowFacts(r, k) /\ Places(r, k) /\ IndexedPlaces(r, k) /\ PushPlaces(r, k)
    /\ Stage(r, k) \in Stages
  BY TableDomain
<1>1. k \in 1..8
  BY DEF Microcode, Opcodes, LowOpcodes, HighOpcodes, Vops
<1>2. k = 1 \/ k = 2 \/ k = 3 \/ k = 4 \/ k = 5 \/ k = 6 \/ k = 7 \/ k = 8
  BY <1>1
<1>3. Follows(r, k)
  BY <1>2 DEF Microcode, Opcodes, LowOpcodes, HighOpcodes, Vops, Follows, Stage, LeaveUops, PollUops, FetchUops
<1>4. RowFacts(r, k)
  BY <1>2 DEF Microcode, Opcodes, LowOpcodes, HighOpcodes, Vops, RowFacts, Stage, StoreUops, PlainStoreUops, MaskUops
<1>5. Places(r, k)
  BY <1>2 DEF Microcode, Opcodes, LowOpcodes, HighOpcodes, Vops, Places, Stage
<1>6. IndexedPlaces(r, k)
  BY <1>2, SMTT(100) DEF Microcode, Opcodes, LowOpcodes, HighOpcodes, Vops, IndexedPlaces, Stage
<1>7. PushPlaces(r, k)
  BY <1>2 DEF Microcode, Opcodes, LowOpcodes, HighOpcodes, Vops, PushPlaces, Stage
<1>8. Stage(r, k) \in Stages
  BY <1>2 DEF Microcode, Opcodes, LowOpcodes, HighOpcodes, Vops, Stage, Stages, ReadUops, DummyUops, IndexedUops, SumUops, SkipUops,
    UnstableUops, PendingUops, WriteUops, StoreUops, PlainStoreUops, MaskUops,
    ZpUops, PushUops, FlagUops, SingleUops, BranchUops, LeaveUops, PollUops, FetchUops
<1> QED
  BY <1>3, <1>4, <1>5, <1>8, <1>6, <1>7

-----------------------------------------------------------------------------
NoWrite(r, k) == Stage(r, k) \notin WriteUops

\* The read that runs the next stage in the same cycle has that stage after it.
LEMMA SkipPlaces ==
  \A r \in DOMAIN Microcode : \A k \in DOMAIN Microcode[r] : Stage(r, k) \in SkipUops =>
    /\ k \in 3..4
    /\ k + 1 \in DOMAIN Microcode[r]
    /\ Stage(r, k + 1) = IF Stage(r, k) = "AbsIdx_READ_Stage4"
                         THEN "AbsIdx_READ_Stage5" ELSE "IndIdx_READ_Stage6"
    /\ k + 2 \in DOMAIN Microcode[r]
    /\ NoWrite(r, k - 1)
    /\ r \in Opcodes
<1>1. /\ DOMAIN Microcode["AbsIdx"] = 1..5
      /\ Stage("AbsIdx", 2) = "AbsIdx_Stage3" /\ Stage("AbsIdx", 4) = "AbsIdx_READ_Stage5"
  BY DEF Microcode, Stage
<1>2. /\ DOMAIN Microcode["IndIdx"] = 1..6
      /\ Stage("IndIdx", 3) = "IndIdx_Stage4" /\ Stage("IndIdx", 5) = "IndIdx_READ_Stage6"
  BY DEF Microcode, Stage
<1>3. /\ {"AbsIdx_Stage3", "IndIdx_Stage4"} \cap WriteUops = {}
      /\ "AbsIdx" \in Opcodes /\ "IndIdx" \in Opcodes
  BY DEF StoreUops, PlainStoreUops, MaskUops, WriteUops, ZpUops, PushUops, FlagUops,
    Opcodes, LowOpcodes
<1> QED
  BY <1>1, <1>2, <1>3, Table DEF NoWrite, SkipUops, Places

\* A store is the third stage or a later one, and two at most follow each other.
LEMMA StorePlaces ==
  \A r \in DOMAIN Microcode : \A k \in DOMAIN Microcode[r] : Stage(r, k) \in StoreUops =>
    /\ k >= 3
    /\ Stage(r, k - 1) \in StoreUops => NoWrite(r, k - 2)
    /\ r \in Opcodes
<1>1. /\ \A r \in {"AbsIdxWrite", "AbsIdxSHx", "AbsRmw"} : NoWrite(r, 3)
      /\ \A r \in {"AbsIdxRmw", "IdxIndWrite", "IndIdxWrite", "IndIdxSHx"} : NoWrite(r, 4)
      /\ NoWrite("AbsWrite", 2) /\ NoWrite("IdxIndRmw", 5) /\ NoWrite("IndIdxRmw", 5)
  BY DEF Microcode, NoWrite, Stage, StoreUops, PlainStoreUops, MaskUops, WriteUops,
    ZpUops, PushUops, FlagUops
<1>2. \A r \in {"AbsWrite", "AbsRmw", "AbsIdxWrite", "AbsIdxSHx", "AbsIdxRmw", "IdxIndWrite",
                "IdxIndRmw", "IndIdxWrite", "IndIdxSHx", "IndIdxRmw"} : r \in Opcodes
  BY DEF Opcodes, LowOpcodes, HighOpcodes
<1>3. \A r, k : NoWrite(r, k) => Stage(r, k) \notin StoreUops
  BY DEF NoWrite, WriteUops
<1> SUFFICES ASSUME NEW r \in DOMAIN Microcode, NEW k \in DOMAIN Microcode[r],
                    Stage(r, k) \in StoreUops
             PROVE  /\ k >= 3 /\ r \in Opcodes
                    /\ Stage(r, k - 1) \in StoreUops => NoWrite(r, k - 2)
  OBVIOUS
<1> QED
  BY <1>1, <1>2, <1>3, Table DEF Places, IndexedPlaces, StoreUops, PlainStoreUops, MaskUops

\* No row begins with a write, or has four in a row.
LEMMA WritePlaces ==
  \A r \in DOMAIN Microcode : \A k \in DOMAIN Microcode[r] : Stage(r, k) \in WriteUops =>
    /\ k > 1
    /\ k > 3 => NoWrite(r, k - 1) \/ NoWrite(r, k - 2) \/ NoWrite(r, k - 3)
<1>1. /\ \A r \in {"BRK", "PHP", "PHA", "ZpWrite"} : NoWrite(r, 1)
      /\ \A r \in {"NMI", "IRQ", "JSR", "ZpIdxWrite", "ZpRmw", "AbsWrite"} : NoWrite(r, 2)
      /\ \A r \in {"ZpIdxRmw", "AbsRmw", "AbsIdxWrite", "AbsIdxSHx"} : NoWrite(r, 3)
      /\ \A r \in {"AbsIdxRmw", "IdxIndWrite", "IndIdxWrite", "IndIdxSHx"} : NoWrite(r, 4)
      /\ NoWrite("IdxIndRmw", 5) /\ NoWrite("IndIdxRmw", 5)
  BY DEF Microcode, NoWrite, Stage, StoreUops, PlainStoreUops, MaskUops, WriteUops,
    ZpUops, PushUops, FlagUops
<1> SUFFICES ASSUME NEW r \in DOMAIN Microcode, NEW k \in DOMAIN Microcode[r],
                    Stage(r, k) \in WriteUops
             PROVE  /\ k > 1
                    /\ k > 3 => NoWrite(r, k - 1) \/ NoWrite(r, k - 2) \/ NoWrite(r, k - 3)
  OBVIOUS
<1>2. CASE Stage(r, k) \in StoreUops
  BY <1>1, <1>2, Table DEF Places, IndexedPlaces, StoreUops, PlainStoreUops, MaskUops
<1>3. CASE Stage(r, k) \in ZpUops \cup PushUops
  BY <1>1, <1>3, Table DEF PushPlaces, ZpUops, PushUops
<1>4. CASE Stage(r, k) \in FlagUops
  BY <1>1, <1>4, Table DEF RowFacts, FlagUops
<1> QED
  BY <1>2, <1>3, <1>4 DEF WriteUops

-----------------------------------------------------------------------------
(***************************************************************************)
(* What a stage may do to the state it finds.                              *)
(***************************************************************************)
Ready(s) ==
  /\ s \in CpuState
  /\ s.row # "Fetch1"
  /\ s.mi + 1 \in DOMAIN Microcode[s.row]
  /\ s.acc = <<>>
  /\ s.rdy_freeze = FALSE

\* A state ready to run stands at a place of the table.
LEMMA PlaceOf ==
  ASSUME NEW s, Ready(s)
  PROVE  /\ s.row \in DOMAIN Microcode /\ s.mi \in Int
         /\ s.mi + 1 \in DOMAIN Microcode[s.row]
         /\ Uop(s) = Stage(s.row, s.mi + 1)
<1>1. s.row \in DOMAIN Microcode /\ s.mi \in -1..7
  BY DEF Ready, CpuState
<1>2. Uop(s) = Stage(s.row, s.mi + 1)
  BY DEF Uop, Stage
<1> QED
  BY <1>1, <1>2 DEF Ready

VectorUops == FlagUops \cup {"PushP_Reset", "FetchPCLVector", "FetchPCHVector"}

Keeps(s, t) ==
  /\ t \in CpuState
  /\ t.row = s.row
  /\ t.mi = s.mi \/ (Uop(s) \in SkipUops /\ t.mi = s.mi + 1)
  /\ t.IRQ = s.IRQ
  /\ t.interrupt_pending = s.interrupt_pending
  /\ \/ t.branch_irq_hack = s.branch_irq_hack
     \/ Uop(s) = "RelBranch_Stage3" /\ ~s.interrupt_pending /\ ~t.rdy_freeze
  /\ Uop(s) # "FetchPCLVector" => t.NMI = s.NMI
  /\ Uop(s) \notin VectorUops => t.ea = s.ea
  /\ Uop(s) \notin FlagUops \cup {"PushP_Reset", "PullP"} => t.I = s.I

Vectors(s, t) ==
  /\ Uop(s) \in FlagUops => t.I /\ t.ea = IF Uop(s) = "PushP_NMI" THEN "nmi" ELSE "irq"
  /\ Uop(s) = "PushP_Reset" => IF t.rdy_freeze THEN t.I = s.I ELSE t.I /\ t.ea = "reset"
  /\ Uop(s) = "FetchPCLVector" =>
       IF t.rdy_freeze THEN t.NMI = s.NMI /\ t.ea = s.ea
       ELSE IF s.NMI /\ s.ea = "irq" THEN ~t.NMI /\ t.ea = "nmi"
       ELSE t.NMI = s.NMI /\ t.ea = s.ea

Uses(s, t) ==
  /\ t.rdy_freeze => t.acc = <<>> /\ Uop(s) \notin WriteUops
  /\ ~t.rdy_freeze => t.acc # <<>>
  /\ Uop(s) \in StoreUops => t.acc = <<"store">>
  /\ Uop(s) \in WriteUops \ StoreUops => t.acc \in {<<"push">>, <<"zp">>}
  /\ Uop(s) \notin WriteUops =>
       t.acc \in {<<>>, <<"read">>, <<"dummy">>, <<"read", "read">>}
  /\ t.acc = <<"read", "read">> => Uop(s) = "Abs_READ"

Does(s, t) == Keeps(s, t) /\ Vectors(s, t) /\ Uses(s, t)

\* The first access of a cycle.
LEMMA AppendToEmpty == \A k : Append(<<>>, k) = <<k>>
  OBVIOUS

\* An access made where none was made yet.
LEMMA AccessIs ==
  ASSUME NEW s, s.acc = <<>>, NEW k
  PROVE  Access(s, k) = [s EXCEPT !.acc = <<k>>]
<1>1. Access(s, k) = [s EXCEPT !.acc = Append(s.acc, k)]
  BY DEF Access
<1>2. Append(s.acc, k) = <<k>>
  BY AppendToEmpty
<1> QED
  BY <1>1, <1>2

\* The two reads of LAX abs.
LEMMA SecondAccess == Append(<<"read">>, "read") = <<"read", "read">>
<1> DEFINE a == Append(<<"read">>, "read")
<1>1. <<"read">> \in Seq({"read"})
  OBVIOUS
<1>2. Len(<<"read">>) = 1 /\ <<"read">>[1] = "read"
  OBVIOUS
<1>3. a \in Seq({"read"}) /\ Len(a) = 2 /\ a[1] = "read" /\ a[2] = "read"
  BY <1>1, <1>2, AppendProperties
<1> HIDE DEF a
<1>4. a = <<"read", "read">>
  BY <1>3
<1> QED
  BY <1>4 DEF a

\* The ways of using the bus, told apart.
LEMMA BusUseFacts ==
  /\ \A k \in Kinds : <<k>> \in BusUses
  /\ <<>> \in BusUses /\ <<"read", "read">> \in BusUses
  /\ \A k \in Kinds : <<k>> # <<"read", "read">> /\ <<k>> # <<>>
  /\ <<"read", "read">> # <<>>
  BY DEF BusUses

\* One access is a way of using the bus.
LEMMA UseOf ==
  ASSUME NEW s, Ready(s), NEW k \in Kinds
  PROVE  Access(s, k) = [s EXCEPT !.acc = <<k>>] /\ <<k>> \in BusUses
  BY AccessIs, BusUseFacts DEF Ready

\* Freezing is allowed to every stage that does not write.
LEMMA FrozenDoes ==
  ASSUME NEW s, Ready(s), Uop(s) \notin WriteUops
  PROVE  Does(s, Frozen(s))
<1>1. Keeps(s, Frozen(s))
  BY DEF Ready, Frozen, Keeps, CpuState
<1>2. Uses(s, Frozen(s))
  BY BusUseFacts DEF Ready, Frozen, Uses, CpuState, StoreUops, WriteUops
<1>3. Vectors(s, Frozen(s))
  BY DEF Ready, Frozen, Vectors, CpuState, WriteUops
<1> QED
  BY <1>1, <1>2, <1>3 DEF Does

\* An access changes nothing but acc.
LEMMA AccessKeeps ==
  ASSUME NEW s, Ready(s), NEW k \in Kinds
  PROVE  Keeps(s, Access(s, k)) /\ ~Access(s, k).rdy_freeze
<1>1. Access(s, k) = [s EXCEPT !.acc = <<k>>] /\ <<k>> \in BusUses
  BY UseOf
<1> QED
  BY <1>1 DEF Ready, Keeps, CpuState

\* A read or a dummy read uses the bus as a stage that does not write may.
LEMMA ReadUses ==
  ASSUME NEW s, Ready(s), NEW k \in {"read", "dummy"}, Uop(s) \notin WriteUops
  PROVE  Uses(s, Access(s, k))
<1>1. k \in Kinds
  BY DEF Kinds
<1>2. Access(s, k) = [s EXCEPT !.acc = <<k>>] /\ <<k>> # <<>> /\ <<k>> # <<"read", "read">>
  BY <1>1, UseOf, BusUseFacts
<1> QED
  BY <1>2 DEF Ready, CpuState, Uses, WriteUops

\* So a stage that reads does what Does allows.
LEMMA ReadDoes ==
  ASSUME NEW s, Ready(s), NEW k \in {"read", "dummy"},
         Uop(s) \notin WriteUops \cup VectorUops
  PROVE  Does(s, Access(s, k))
<1>1. k \in Kinds
  BY DEF Kinds
<1>2. Uses(s, Access(s, k))
  BY ReadUses
<1>3. Vectors(s, Access(s, k))
  BY DEF Vectors, VectorUops
<1> QED
  BY <1>1, <1>2, <1>3, AccessKeeps DEF Does

\* So does one that stores.
LEMMA StoreDoes ==
  ASSUME NEW s, Ready(s), Uop(s) \in StoreUops
  PROVE  Does(s, Access(s, "store"))
<1>1. "store" \in Kinds
  BY DEF Kinds
<1>2. /\ Access(s, "store") = [s EXCEPT !.acc = <<"store">>]
      /\ <<"store">> # <<>> /\ <<"store">> # <<"read", "read">>
  BY <1>1, UseOf, BusUseFacts
<1>3. Uses(s, Access(s, "store"))
  BY <1>2 DEF Ready, CpuState, Uses, WriteUops
<1>4. Uop(s) \notin VectorUops
  BY DEF StoreUops, PlainStoreUops, MaskUops, VectorUops, FlagUops
<1>5. Vectors(s, Access(s, "store"))
  BY <1>4 DEF Vectors, VectorUops
<1> QED
  BY <1>1, <1>3, <1>5, AccessKeeps DEF Does

\* So does one that pushes, or writes to page zero.
LEMMA PushDoes ==
  ASSUME NEW s, Ready(s), NEW k \in {"push", "zp"}, Uop(s) \in PushUops \cup ZpUops
  PROVE  Does(s, Access(s, k))
<1>1. k \in Kinds
  BY DEF Kinds
<1>2. Access(s, k) = [s EXCEPT !.acc = <<k>>] /\ <<k>> # <<>> /\ <<k>> # <<"read", "read">>
  BY <1>1, UseOf, BusUseFacts
<1>3. Uop(s) \in WriteUops \ StoreUops /\ Uop(s) \notin VectorUops
  BY DEF PushUops, ZpUops, WriteUops, StoreUops, PlainStoreUops, MaskUops, VectorUops,
    FlagUops
<1>4. <<k>> \in {<<"push">>, <<"zp">>}
  OBVIOUS
<1>5. Uses(s, Access(s, k))
  BY <1>2, <1>3, <1>4 DEF Ready, CpuState, Uses
<1>6. Vectors(s, Access(s, k))
  BY <1>3 DEF Vectors, VectorUops
<1> QED
  BY <1>1, <1>5, <1>6, AccessKeeps DEF Does

Alike(t, u) ==
  /\ u \in CpuState
  /\ u.row = t.row /\ u.mi = t.mi /\ u.IRQ = t.IRQ /\ u.NMI = t.NMI /\ u.I = t.I
  /\ u.ea = t.ea /\ u.interrupt_pending = t.interrupt_pending
  /\ u.branch_irq_hack = t.branch_irq_hack /\ u.rdy_freeze = t.rdy_freeze
  /\ u.acc = t.acc

\* The fields that Does does not speak of may change.
LEMMA SideFields ==
  ASSUME NEW t \in CpuState
  PROVE  /\ \A c \in BOOLEAN : Alike(t, [t EXCEPT !.cross = c])
         /\ \A h \in {"0", "high+1", "FF"} : Alike(t, [t EXCEPT !.H = h])
         /\ \A p \in BOOLEAN : Alike(t, [t EXCEPT !.iflag_pending = p])
  BY DEF Alike, CpuState

\* What Does allows it allows to a state alike.
LEMMA AlikeDoes ==
  ASSUME NEW s, NEW t, NEW u, Does(s, t), Alike(t, u)
  PROVE  Does(s, u)
<1>1. Keeps(s, u)
  BY DEF Does, Keeps, Alike
<1>2. Vectors(s, u)
  BY DEF Does, Vectors, Alike
<1>3. Uses(s, u)
  BY DEF Does, Uses, Alike
<1> QED
  BY <1>1, <1>2, <1>3 DEF Does

-----------------------------------------------------------------------------
(***************************************************************************)
(* Every stage that stays in its row does what Does allows.                *)
(***************************************************************************)
StageDoes(s, rdy) == \A t \in ExecuteOneRetry(s, rdy) : Does(s, t)

\* The stages that read.
LEMMA ReadStages ==
  ASSUME NEW s, Ready(s), NEW rdy \in BOOLEAN, Uop(s) \in ReadUops
  PROVE  StageDoes(s, rdy)
<1>1. ExecuteOneRetry(s, rdy) = Read(s, rdy)
  BY DEF ReadUops, ExecuteOneRetry, FetchOperand, Imm, JSR, JumpPC, AbsInd_JMP,
    PullA_NoInc, PullPC, ZP_READ, ZP_RMW_Stage3, ZpIdx_Stage3, ZpIdx_RMW_Stage4,
    Abs_RMW_Stage4, AbsIdx_READ_Stage5, AbsIdx_RMW_Stage5, IdxInd_Pointer,
    IdxInd_Stage6_READ, IdxInd_Stage6_RMW, IndIdx_Pointer, IndIdx_READ_Stage6,
    IndIdx_RMW_Stage6, Read
<1>2. Uop(s) \notin WriteUops \cup VectorUops
  BY DEF ReadUops, WriteUops, StoreUops, PlainStoreUops, MaskUops, ZpUops, PushUops,
    FlagUops, VectorUops
<1> QED
  BY <1>1, <1>2, ReadDoes, FrozenDoes DEF StageDoes, Read

\* The stages that read in vain.
LEMMA DummyStages ==
  ASSUME NEW s, Ready(s), NEW rdy \in BOOLEAN, Uop(s) \in DummyUops
  PROVE  StageDoes(s, rdy)
<1>1. ExecuteOneRetry(s, rdy) = Dummy(s, rdy)
  BY DEF DummyUops, ExecuteOneRetry, FetchDummy, Imp_Reg, Imp_Flag, Imp_Acc,
    StackDummy, RelBranch_Stage4, IdxInd_Pointer, ResetStack, Dummy
<1>2. Uop(s) \notin WriteUops \cup VectorUops
  BY DEF DummyUops, WriteUops, StoreUops, PlainStoreUops, MaskUops, ZpUops, PushUops,
    FlagUops, VectorUops
<1> QED
  BY <1>1, <1>2, ReadDoes, FrozenDoes DEF StageDoes, Dummy

IndexUops == IndexedUops \cup SumUops \cup SkipUops \cup UnstableUops

\* The stages of indexed addressing neither write nor touch vectors.
LEMMA IndexUopsRead == IndexUops \cap (WriteUops \cup VectorUops) = {}
  BY DEF IndexUops, IndexedUops, SumUops, SkipUops, UnstableUops, WriteUops, StoreUops,
    PlainStoreUops, MaskUops, ZpUops, PushUops, FlagUops, VectorUops

\* Their reads, with and without a change of the carry.
LEMMA IndexReads ==
  ASSUME NEW s, Ready(s), NEW rdy \in BOOLEAN, Uop(s) \in IndexUops
  PROVE  /\ \A t \in Read(s, rdy) : Does(s, t)
         /\ \A t \in ReadIndexed(s, rdy) : Does(s, t)
<1>1. \A t \in Read(s, rdy) : Does(s, t) /\ t \in CpuState
  BY IndexUopsRead, ReadDoes, FrozenDoes DEF Read, Does, Keeps
<1>2. \A t \in Read(s, rdy) : (t.cross /\ ~rdy) \in BOOLEAN
  OBVIOUS
<1>3. \A t \in Read(s, rdy) : Does(s, [t EXCEPT !.cross = t.cross /\ ~rdy])
  BY <1>1, <1>2, SideFields, AlikeDoes
<1> QED
  BY <1>1, <1>3 DEF ReadIndexed

\* The reads before the carry is added.
LEMMA IndexedStages ==
  ASSUME NEW s, Ready(s), NEW rdy \in BOOLEAN, Uop(s) \in IndexedUops
  PROVE  StageDoes(s, rdy)
<1>1. ExecuteOneRetry(s, rdy) = ReadIndexed(s, rdy)
  BY DEF IndexedUops, ExecuteOneRetry, AbsIdx_Stage4, IndIdx_WRITE_Stage5,
    IndIdx_RMW_Stage5
<1> QED
  BY <1>1, IndexReads DEF StageDoes, IndexUops

\* The stages that add the index, and decide the carry.
LEMMA SumStages ==
  ASSUME NEW s, Ready(s), NEW rdy \in BOOLEAN, Uop(s) \in SumUops
  PROVE  StageDoes(s, rdy)
<1>1. ExecuteOneRetry(s, rdy) = AbsIdx_Stage3(s, rdy)
  BY DEF SumUops, ExecuteOneRetry, AbsIdx_Stage3, IndIdx_Pointer
<1>2. Uop(s) \notin WriteUops \cup VectorUops
  BY IndexUopsRead DEF IndexUops
<1>3. Does(s, Access(s, "read")) /\ Does(s, Frozen(s)) /\ Access(s, "read") \in CpuState
  BY <1>2, ReadDoes, FrozenDoes DEF Does, Keeps
<1>4. \A c \in BOOLEAN : Does(s, [Access(s, "read") EXCEPT !.cross = c])
  BY <1>3, SideFields, AlikeDoes
<1> QED
  BY <1>1, <1>3, <1>4 DEF StageDoes, AbsIdx_Stage3

\* The reads before an unstable store.
LEMMA UnstableStages ==
  ASSUME NEW s, Ready(s), NEW rdy \in BOOLEAN, Uop(s) \in UnstableUops
  PROVE  StageDoes(s, rdy)
<1>1. ExecuteOneRetry(s, rdy) = AbsIdx_Stage4_SHx(s, rdy)
  BY DEF UnstableUops, ExecuteOneRetry, AbsIdx_Stage4_SHx, IndIdx_WRITE_Stage5_SHA
<1>2. Uop(s) \notin WriteUops \cup VectorUops
  BY IndexUopsRead DEF IndexUops
<1> DEFINE a == Access(s, "read")
           h == IF a.H = "0" THEN "high+1" ELSE a.H
           u == [a EXCEPT !.cross = FALSE]
<1>3. Does(s, a) /\ Does(s, Frozen(s)) /\ a \in CpuState /\ Frozen(s) \in CpuState
  BY <1>2, ReadDoes, FrozenDoes DEF Does, Keeps
<1>a. Alike(a, u)
  BY <1>3, SideFields
<1>4. Does(s, u) /\ u \in CpuState
  BY <1>3, <1>a, AlikeDoes DEF Alike
<1>5. h \in {"0", "high+1", "FF"}
  BY <1>3 DEF CpuState
<1> HIDE DEF a, h
<1>6. Does(s, [u EXCEPT !.H = h])
  BY <1>4, <1>5, SideFields, AlikeDoes
<1>7. [u EXCEPT !.H = h] = [a EXCEPT !.cross = FALSE, !.H = h]
  BY <1>3 DEF CpuState
<1>8. Does(s, [Frozen(s) EXCEPT !.H = "FF"])
  BY <1>3, SideFields, AlikeDoes
<1>9. AbsIdx_Stage4_SHx(s, rdy) =
        IF rdy THEN {[a EXCEPT !.cross = FALSE, !.H = h]} ELSE {[Frozen(s) EXCEPT !.H = "FF"]}
  BY <1>3 DEF AbsIdx_Stage4_SHx, a, h
<1> QED
  BY <1>1, <1>6, <1>7, <1>8, <1>9 DEF StageDoes

\* The stage that skips the next one reads for it.
LEMMA SkipStages ==
  ASSUME NEW s, Ready(s), NEW rdy \in BOOLEAN, Uop(s) \in SkipUops
  PROVE  StageDoes(s, rdy)
<1> DEFINE n == [s EXCEPT !.mi = @ + 1]
<1>1. ExecuteOneRetry(s, rdy) = IF s.cross THEN ReadIndexed(s, rdy) ELSE Read(n, rdy)
  BY DEF SkipUops, ExecuteOneRetry, AbsIdx_READ_Stage4, AbsIdx_READ_Stage5,
    IndIdx_READ_Stage5, IndIdx_READ_Stage6
<1>2. Uop(s) \notin WriteUops \cup VectorUops
  BY IndexUopsRead DEF IndexUops
<1>3. s.mi \in 2..3
  <2>1. s.mi + 1 \in 3..4
    BY PlaceOf, SkipPlaces
  <2> QED
    BY <2>1, PlaceOf
<1>4. Does(s, Access(s, "read")) /\ Does(s, Frozen(s))
  BY <1>2, ReadDoes, FrozenDoes
<1>5. Access(n, "read") = [Access(s, "read") EXCEPT !.mi = s.mi + 1]
  BY DEF Access, Ready, CpuState
<1>6. Frozen(n) = [Frozen(s) EXCEPT !.mi = s.mi + 1]
  BY DEF Frozen, Ready, CpuState
<1>7. ASSUME NEW t, Does(s, t) PROVE Does(s, [t EXCEPT !.mi = s.mi + 1])
  <2> DEFINE m == s.mi + 1
             u == [t EXCEPT !.mi = m]
  <2>1. t \in CpuState /\ m \in -1..7
    BY <1>3, <1>7 DEF Does, Keeps
  <2> HIDE DEF m
  <2>2. /\ u \in CpuState
        /\ u.row = t.row /\ u.mi = m /\ u.IRQ = t.IRQ /\ u.NMI = t.NMI /\ u.I = t.I
        /\ u.ea = t.ea /\ u.interrupt_pending = t.interrupt_pending
        /\ u.branch_irq_hack = t.branch_irq_hack /\ u.rdy_freeze = t.rdy_freeze
        /\ u.acc = t.acc
    BY <2>1 DEF CpuState
  <2> HIDE DEF u
  <2>3. Keeps(s, u)
    BY <1>7, <2>2 DEF Does, Keeps, m
  <2>4. Uses(s, u) /\ Vectors(s, u)
    BY <1>7, <2>2 DEF Does, Uses, Vectors
  <2> QED
    BY <2>3, <2>4 DEF Does, u, m
<1>8. \A t \in Read(n, rdy) : Does(s, t)
  BY <1>4, <1>5, <1>6, <1>7 DEF Read
<1> QED
  BY <1>1, <1>8, IndexReads DEF StageDoes, IndexUops

\* The stores.
LEMMA StoreStages ==
  ASSUME NEW s, Ready(s), NEW rdy \in BOOLEAN, Uop(s) \in StoreUops
  PROVE  StageDoes(s, rdy)
<1> DEFINE put == {Access(s, "store")}
           putMask == {[Access(s, "store") EXCEPT !.H = "0"]}
<1>1. /\ Abs_WRITE(s) = put /\ Abs_RMW_Stage5(s) = put /\ Abs_RMW_Stage6(s) = put
      /\ AbsIdx_WRITE_Stage5(s) = put /\ AbsIdx_RMW_Stage6(s) = put
      /\ AbsIdx_RMW_Stage7(s) = put /\ IdxInd_Stage6_WRITE(s) = put
      /\ IdxInd_Stage7_RMW(s) = put /\ IdxInd_Stage8_RMW(s) = put
      /\ IndIdx_RMW_Stage7(s) = put /\ IndIdx_RMW_Stage8(s) = put
  BY DEF Abs_WRITE, Abs_RMW_Stage5, Abs_RMW_Stage6, AbsIdx_WRITE_Stage5,
    AbsIdx_RMW_Stage6, AbsIdx_RMW_Stage7, IdxInd_Stage6_WRITE, IdxInd_Stage7_RMW,
    IdxInd_Stage8_RMW, IndIdx_RMW_Stage7, IndIdx_RMW_Stage8
<1>2. AbsIdx_WRITE_Stage5_SHx(s) = putMask /\ IndIdx_WRITE_Stage6(s) = putMask
  BY DEF AbsIdx_WRITE_Stage5_SHx, IndIdx_WRITE_Stage6
<1>3. Does(s, Access(s, "store")) /\ Access(s, "store") \in CpuState
  BY StoreDoes DEF Does, Keeps
<1>4. Does(s, [Access(s, "store") EXCEPT !.H = "0"])
  BY <1>3, SideFields, AlikeDoes
<1>5. \A t \in put \cup putMask : Does(s, t)
  BY <1>3, <1>4
<1> HIDE DEF put, putMask
<1>6. CASE Uop(s) \in PlainStoreUops
  <2>1. ExecuteOneRetry(s, rdy) = put
    BY <1>1, <1>6 DEF PlainStoreUops, ExecuteOneRetry
  <2> QED
    BY <1>5, <2>1 DEF StageDoes
<1>7. CASE Uop(s) \in MaskUops
  <2>1. ExecuteOneRetry(s, rdy) = putMask
    BY <1>2, <1>7 DEF MaskUops, ExecuteOneRetry
  <2> QED
    BY <1>5, <2>1 DEF StageDoes
<1> QED
  BY <1>6, <1>7 DEF StoreUops

\* The pushes and the writes to page zero.
LEMMA PushStages ==
  ASSUME NEW s, Ready(s), NEW rdy \in BOOLEAN, Uop(s) \in PushUops \cup ZpUops
  PROVE  StageDoes(s, rdy)
<1> DEFINE push == {Access(s, "push")}
           zp   == {Access(s, "zp")}
<1>1. PushPC(s) = push /\ PushAP(s) = push /\ ZP_WRITE(s) = zp /\ ZP_RMW(s) = zp
  BY DEF PushPC, PushAP, ZP_WRITE, ZP_RMW
<1>2. \A t \in push \cup zp : Does(s, t)
  BY PushDoes
<1> HIDE DEF push, zp
<1>3. ExecuteOneRetry(s, rdy) \in {push, zp}
  BY <1>1 DEF PushUops, ZpUops, ExecuteOneRetry
<1> QED
  BY <1>2, <1>3 DEF StageDoes

\* The absolute read, that LAX makes twice.
LEMMA AbsReadStage ==
  ASSUME NEW s, Ready(s), NEW rdy \in BOOLEAN, Uop(s) = "Abs_READ"
  PROVE  StageDoes(s, rdy)
<1> DEFINE a == Access(s, "read")
           twice == Access(a, "read")
<1>1. ExecuteOneRetry(s, rdy) = IF rdy THEN {a, twice} ELSE {Frozen(s)}
  BY DEF ExecuteOneRetry, Abs_READ
<1>2. Uop(s) \notin WriteUops \cup VectorUops
  BY DEF WriteUops, StoreUops, PlainStoreUops, MaskUops, ZpUops, PushUops, FlagUops,
    VectorUops
<1>3. Does(s, a) /\ Does(s, Frozen(s))
  BY <1>2, ReadDoes, FrozenDoes
<1>4. a = [s EXCEPT !.acc = <<"read">>]
  BY AccessIs DEF Ready
<1>5. a \in CpuState /\ a.acc = <<"read">>
  BY <1>3, <1>4 DEF Does, Keeps, Ready, CpuState
<1> HIDE DEF a
<1>6. twice = [a EXCEPT !.acc = <<"read", "read">>]
  BY <1>5, SecondAccess DEF Access
<1> HIDE DEF twice
<1> DEFINE b == <<"read", "read">>
<1>7. b \in BusUses /\ b # <<>>
  BY BusUseFacts
<1>8. /\ twice \in CpuState /\ twice.acc = b
      /\ twice.row = a.row /\ twice.mi = a.mi /\ twice.IRQ = a.IRQ /\ twice.NMI = a.NMI
      /\ twice.I = a.I /\ twice.ea = a.ea
      /\ twice.interrupt_pending = a.interrupt_pending
      /\ twice.branch_irq_hack = a.branch_irq_hack /\ twice.rdy_freeze = a.rdy_freeze
  <2> HIDE DEF b
  <2> QED
    BY <1>5, <1>6, <1>7 DEF CpuState, b
<1>9. Keeps(s, twice) /\ Vectors(s, twice)
  BY <1>2, <1>3, <1>8 DEF Does, Keeps, Vectors, VectorUops
<1>10. ~a.rdy_freeze
  BY <1>4 DEF Ready, CpuState
<1>11. Uses(s, twice)
  BY <1>2, <1>7, <1>8, <1>10 DEF Uses, WriteUops
<1> QED
  BY <1>1, <1>3, <1>9, <1>11 DEF StageDoes, Does

\* The push of the flags sets I and aims at a vector.
LEMMA PushFlagsStage ==
  ASSUME NEW s, Ready(s), NEW rdy \in BOOLEAN, Uop(s) \in FlagUops
  PROVE  StageDoes(s, rdy)
<1> DEFINE e == IF Uop(s) = "PushP_NMI" THEN "nmi" ELSE "irq"
           p == <<"push">>
           t == [s EXCEPT !.acc = p, !.I = TRUE, !.ea = e]
<1>1. Access(s, "push") = [s EXCEPT !.acc = p] /\ p \in BusUses /\ p # <<>> /\ p # <<"read", "read">>
  BY UseOf, BusUseFacts DEF Kinds
<1>2. e \in {"nmi", "irq", "reset", ""}
  OBVIOUS
<1>3. ExecuteOneRetry(s, rdy) = PushFlags(s)
  BY DEF FlagUops, ExecuteOneRetry
<1> HIDE DEF p
<1>4. PushFlags(s) = {t}
  BY <1>1 DEF PushFlags, Ready, CpuState
<1>5. /\ t \in CpuState /\ t.acc = p /\ t.I = TRUE /\ t.ea = e
      /\ t.row = s.row /\ t.mi = s.mi /\ t.IRQ = s.IRQ /\ t.NMI = s.NMI
      /\ t.interrupt_pending = s.interrupt_pending
      /\ t.branch_irq_hack = s.branch_irq_hack /\ t.rdy_freeze = FALSE
  <2> HIDE DEF e
  <2> QED
    BY <1>1, <1>2 DEF Ready, CpuState
<1> HIDE DEF t
<1>6. /\ Uop(s) \in WriteUops \ StoreUops /\ Uop(s) \in VectorUops
      /\ Uop(s) \notin {"FetchPCLVector", "PushP_Reset"}
  BY DEF WriteUops, StoreUops, PlainStoreUops, MaskUops, FlagUops, VectorUops
<1>7. Keeps(s, t)
  BY <1>5, <1>6 DEF Keeps
<1>8. Vectors(s, t)
  BY <1>5, <1>6 DEF Vectors
<1>9. Uses(s, t)
  BY <1>1, <1>5, <1>6 DEF Uses, p
<1> QED
  BY <1>3, <1>4, <1>7, <1>8, <1>9 DEF StageDoes, Does

\* The last cycle of the stack in a reset.
LEMMA PushResetStage ==
  ASSUME NEW s, Ready(s), NEW rdy \in BOOLEAN, Uop(s) = "PushP_Reset"
  PROVE  StageDoes(s, rdy)
<1> DEFINE p == <<"dummy">>
           t == [s EXCEPT !.acc = p, !.ea = "reset", !.I = TRUE]
<1>1. Access(s, "dummy") = [s EXCEPT !.acc = p] /\ p \in BusUses /\ p # <<>> /\ p # <<"read", "read">>
  BY UseOf, BusUseFacts DEF Kinds
<1>2. ExecuteOneRetry(s, rdy) = ResetStack(s, rdy)
  BY DEF ExecuteOneRetry
<1> HIDE DEF p
<1>3. ResetStack(s, rdy) = IF rdy THEN {t} ELSE {Frozen(s)}
  BY <1>1 DEF ResetStack, Ready, CpuState
<1>4. /\ t \in CpuState /\ t.acc = p /\ t.I = TRUE /\ t.ea = "reset"
      /\ t.row = s.row /\ t.mi = s.mi /\ t.IRQ = s.IRQ /\ t.NMI = s.NMI
      /\ t.interrupt_pending = s.interrupt_pending
      /\ t.branch_irq_hack = s.branch_irq_hack /\ t.rdy_freeze = FALSE
  BY <1>1 DEF Ready, CpuState
<1> HIDE DEF t
<1>5. Uop(s) \notin WriteUops /\ Uop(s) \in VectorUops
  BY DEF WriteUops, StoreUops, PlainStoreUops, MaskUops, ZpUops, PushUops, FlagUops, VectorUops
<1>6. Keeps(s, t) /\ Vectors(s, t)
  BY <1>4, <1>5 DEF Keeps, Vectors, WriteUops
<1>7. Uses(s, t)
  BY <1>1, <1>4, <1>5 DEF Uses, WriteUops, p
<1> QED
  BY <1>2, <1>3, <1>5, <1>6, <1>7, FrozenDoes DEF StageDoes, Does

\* The fetch of the low byte of a vector, where an NMI takes over.
LEMMA VectorLowStage ==
  ASSUME NEW s, Ready(s), NEW rdy \in BOOLEAN, Uop(s) = "FetchPCLVector"
  PROVE  StageDoes(s, rdy)
<1> DEFINE p == <<"read">>
           taken == s.NMI /\ s.ea = "irq"
           e == IF taken THEN "nmi" ELSE s.ea
           n == s.NMI /\ ~taken
           t == [s EXCEPT !.acc = p, !.NMI = n, !.ea = e]
<1>1. Access(s, "read") = [s EXCEPT !.acc = p] /\ p \in BusUses /\ p # <<>> /\ p # <<"read", "read">>
  BY UseOf, BusUseFacts DEF Kinds
<1>2. ExecuteOneRetry(s, rdy) = FetchPCLVector(s, rdy)
  BY DEF ExecuteOneRetry
<1>3. n \in BOOLEAN /\ e \in {"nmi", "irq", "reset", ""}
  BY DEF Ready, CpuState
<1> HIDE DEF p
<1>4. FetchPCLVector(s, rdy) = IF rdy THEN {t} ELSE {Frozen(s)}
  BY <1>1 DEF FetchPCLVector, Ready, CpuState
<1>5. /\ t \in CpuState /\ t.acc = p /\ t.NMI = n /\ t.ea = e
      /\ t.row = s.row /\ t.mi = s.mi /\ t.IRQ = s.IRQ /\ t.I = s.I
      /\ t.interrupt_pending = s.interrupt_pending
      /\ t.branch_irq_hack = s.branch_irq_hack /\ t.rdy_freeze = FALSE
  <2> HIDE DEF n, e
  <2> QED
    BY <1>1, <1>3 DEF Ready, CpuState
<1> HIDE DEF t
<1>6. /\ Uop(s) \notin WriteUops /\ Uop(s) \in VectorUops /\ Uop(s) \notin FlagUops
      /\ Uop(s) # "PushP_Reset"
  BY DEF WriteUops, StoreUops, PlainStoreUops, MaskUops, ZpUops, PushUops, FlagUops, VectorUops
<1>7. Keeps(s, t)
  BY <1>5, <1>6 DEF Keeps
<1>a. (taken => ~n /\ e = "nmi") /\ (~taken => n = s.NMI /\ e = s.ea)
  BY DEF Ready, CpuState
<1>8. Vectors(s, t)
  <2> HIDE DEF n, e
  <2> QED
    BY <1>5, <1>6, <1>a DEF Vectors
<1>9. Uses(s, t)
  BY <1>1, <1>5, <1>6 DEF Uses, WriteUops, p
<1> QED
  BY <1>2, <1>4, <1>6, <1>7, <1>8, <1>9, FrozenDoes DEF StageDoes, Does

\* The fetch of its high byte.
LEMMA VectorHighStage ==
  ASSUME NEW s, Ready(s), NEW rdy \in BOOLEAN, Uop(s) = "FetchPCHVector"
  PROVE  StageDoes(s, rdy)
<1> DEFINE Set(t, e) == [t EXCEPT !.ea = e]
<1>1. ExecuteOneRetry(s, rdy) = FetchPCHVector(s, rdy)
  BY DEF ExecuteOneRetry
<1>2. /\ Uop(s) \notin WriteUops /\ Uop(s) \in VectorUops /\ Uop(s) \notin FlagUops
      /\ Uop(s) \notin {"PushP_Reset", "FetchPCLVector"}
  BY DEF WriteUops, StoreUops, PlainStoreUops, MaskUops, ZpUops, PushUops, FlagUops, VectorUops
<1>3. \A t \in Read(s, rdy) : t \in CpuState /\ Keeps(s, t) /\ Uses(s, t)
  BY <1>2, AccessKeeps, ReadUses, FrozenDoes DEF Read, Does, Keeps, Kinds
<1>4. ASSUME NEW t \in Read(s, rdy), NEW e \in {"", t.ea}
      PROVE  Does(s, Set(t, e))
  <2>1. e \in {"nmi", "irq", "reset", ""}
    BY <1>3, <1>4 DEF CpuState
  <2> DEFINE u == Set(t, e)
  <2>2. /\ u \in CpuState
        /\ u.row = t.row /\ u.mi = t.mi /\ u.IRQ = t.IRQ /\ u.NMI = t.NMI /\ u.I = t.I
        /\ u.interrupt_pending = t.interrupt_pending
        /\ u.branch_irq_hack = t.branch_irq_hack /\ u.rdy_freeze = t.rdy_freeze
        /\ u.acc = t.acc
    BY <1>3, <2>1 DEF CpuState
  <2> HIDE DEF u
  <2>3. Keeps(s, u)
    BY <1>2, <1>3, <2>2 DEF Keeps
  <2>4. Vectors(s, u)
    BY <1>2 DEF Vectors
  <2>5. Uses(s, u)
    BY <1>3, <2>2 DEF Uses
  <2> QED
    BY <2>3, <2>4, <2>5 DEF Does, u
<1>5. \A t \in Read(s, rdy) : (IF rdy THEN "" ELSE t.ea) \in {"", t.ea}
  OBVIOUS
<1>6. FetchPCHVector(s, rdy) = {Set(t, IF rdy THEN "" ELSE t.ea) : t \in Read(s, rdy)}
  BY DEF FetchPCHVector
<1> HIDE DEF Set
<1> QED
  BY <1>1, <1>4, <1>5, <1>6 DEF StageDoes

\* CLI and SEI set the pending flag and read.
LEMMA PendingStages ==
  ASSUME NEW s, Ready(s), NEW rdy \in BOOLEAN, Uop(s) \in PendingUops
  PROVE  StageDoes(s, rdy)
<1> DEFINE f == (Uop(s) = "Imp_SEI")
           s1 == [s EXCEPT !.iflag_pending = f]
<1>1. ExecuteOneRetry(s, rdy) = Dummy(s1, rdy)
  BY DEF PendingUops, ExecuteOneRetry, Imp_I
<1>2. Uop(s) \notin WriteUops \cup VectorUops
  BY DEF PendingUops, WriteUops, StoreUops, PlainStoreUops, MaskUops, ZpUops, PushUops,
    FlagUops, VectorUops
<1>3. Does(s, Access(s, "dummy")) /\ Does(s, Frozen(s))
  BY <1>2, ReadDoes, FrozenDoes
<1>4. Access(s, "dummy") \in CpuState /\ Frozen(s) \in CpuState
  BY <1>3 DEF Does, Keeps
<1>5. f \in BOOLEAN
  OBVIOUS
<1> HIDE DEF f
<1>6. /\ Access(s1, "dummy") = [Access(s, "dummy") EXCEPT !.iflag_pending = f]
      /\ Frozen(s1) = [Frozen(s) EXCEPT !.iflag_pending = f]
  BY DEF Access, Frozen, Ready, CpuState
<1>a. \A u \in CpuState : Does(s, u) => Does(s, [u EXCEPT !.iflag_pending = f])
  BY <1>5, SideFields, AlikeDoes
<1>7. Does(s, Access(s1, "dummy")) /\ Does(s, Frozen(s1))
  BY <1>3, <1>4, <1>6, <1>a
<1> QED
  BY <1>1, <1>7 DEF StageDoes, Dummy

\* RTI's pull of P, and PLP's.
LEMMA PullStages ==
  ASSUME NEW s, Ready(s), NEW rdy \in BOOLEAN, Uop(s) \in {"PullP", "PullP_NoInc"}
  PROVE  StageDoes(s, rdy)
<1> DEFINE a == Access(s, "read")
<1>1. /\ Uop(s) \notin WriteUops \cup VectorUops
  BY DEF WriteUops, StoreUops, PlainStoreUops, MaskUops, ZpUops, PushUops,
    FlagUops, VectorUops
<1>2. Does(s, a) /\ Does(s, Frozen(s)) /\ a \in CpuState
  BY <1>1, ReadDoes, FrozenDoes DEF Does, Keeps
<1>3. CASE Uop(s) = "PullP"
  <2>1. ExecuteOneRetry(s, rdy) = PullP(s, rdy)
    BY <1>3 DEF ExecuteOneRetry
  <2>2. ASSUME NEW i \in BOOLEAN PROVE Does(s, [a EXCEPT !.I = i])
    <3> DEFINE u == [a EXCEPT !.I = i]
    <3>1. /\ u \in CpuState
          /\ u.row = a.row /\ u.mi = a.mi /\ u.IRQ = a.IRQ /\ u.NMI = a.NMI
          /\ u.ea = a.ea /\ u.interrupt_pending = a.interrupt_pending
          /\ u.branch_irq_hack = a.branch_irq_hack /\ u.rdy_freeze = a.rdy_freeze
          /\ u.acc = a.acc
      <4> HIDE DEF a
      <4> QED
        BY <1>2 DEF CpuState
    <3> HIDE DEF a, u
    <3>2. Keeps(s, u)
      BY <1>2, <1>3, <3>1 DEF Does, Keeps
    <3>3. Vectors(s, u)
      BY <1>1 DEF Vectors, VectorUops
    <3>4. Uses(s, u)
      BY <1>2, <3>1 DEF Does, Uses
    <3> QED
      BY <3>2, <3>3, <3>4 DEF Does, u
  <2> QED
    BY <1>2, <2>1, <2>2 DEF StageDoes, PullP
<1>4. CASE Uop(s) = "PullP_NoInc"
  <2>1. ExecuteOneRetry(s, rdy) = PullP_NoInc(s, rdy)
    BY <1>4 DEF ExecuteOneRetry
  <2>2. \A i \in BOOLEAN : Does(s, [a EXCEPT !.iflag_pending = i])
    BY <1>2, SideFields, AlikeDoes
  <2> QED
    BY <1>2, <2>1, <2>2 DEF StageDoes, PullP_NoInc
<1> QED
  BY <1>3, <1>4

\* A jammed CPU is frozen for ever.
LEMMA JamStage ==
  ASSUME NEW s, Ready(s), NEW rdy \in BOOLEAN, Uop(s) = "Jam"
  PROVE  StageDoes(s, rdy)
<1>1. ExecuteOneRetry(s, rdy) = {Frozen(s)}
  BY DEF ExecuteOneRetry, Jam
<1>2. Uop(s) \notin WriteUops
  BY DEF WriteUops, StoreUops, PlainStoreUops, MaskUops, ZpUops, PushUops, FlagUops
<1> QED
  BY <1>1, <1>2, FrozenDoes DEF StageDoes

-----------------------------------------------------------------------------
(***************************************************************************)
(* The stages that leave their row: branches, and the ends of rows.        *)
(***************************************************************************)
Turns(s, t) ==
  /\ t \in CpuState
  /\ t.row \in {"Relative", "Relative2"} /\ t.mi = -1
  /\ ~t.rdy_freeze /\ t.acc \in {<<"read">>, <<"dummy">>}
  /\ t.NMI = s.NMI /\ t.IRQ = s.IRQ /\ t.I = s.I
  /\ t.branch_irq_hack = s.branch_irq_hack

Fetches(s, t) ==
  /\ t \in CpuState
  /\ t.NMI = s.NMI /\ t.IRQ = s.IRQ
  /\ IF t.rdy_freeze
     THEN /\ t.row = "Fetch1_NoInterrupt" /\ t.mi = 0
          /\ t.acc = <<>> /\ t.branch_irq_hack = s.branch_irq_hack
     ELSE /\ t.row \in Opcodes /\ t.mi = -1
          /\ t.acc = <<"read">> /\ ~t.branch_irq_hack

Takes(s, t, r) ==
  /\ t \in CpuState
  /\ t.row = r /\ t.mi = 0
  /\ t.IRQ = s.IRQ /\ t.branch_irq_hack = s.branch_irq_hack
  /\ t.acc = IF t.rdy_freeze THEN <<>> ELSE <<"dummy">>
  /\ IF r = "NMI" THEN ~t.NMI /\ t.ea = "nmi" ELSE t.NMI = s.NMI /\ t.ea = "irq"

Polls(s, t) ==
  IF s.NMI /\ ~s.branch_irq_hack THEN Takes(s, t, "NMI")
  ELSE IF s.IRQ /\ ~s.I /\ ~s.branch_irq_hack THEN Takes(s, t, "IRQ")
  ELSE Fetches(s, t)

\* A branch goes on in its row or turns to a row of its own.
LEMMA BranchStages ==
  ASSUME NEW s, Ready(s), NEW rdy \in BOOLEAN, Uop(s) \in BranchUops,
         NEW t \in ExecuteOneRetry(s, rdy)
  PROVE  Does(s, t) \/ Turns(s, t)
<1>1. Uop(s) \notin WriteUops \cup VectorUops
  BY DEF BranchUops, WriteUops, StoreUops, PlainStoreUops, MaskUops, ZpUops, PushUops,
    FlagUops, VectorUops
<1>2. Does(s, Access(s, "read")) /\ Does(s, Access(s, "dummy")) /\ Does(s, Frozen(s))
  BY <1>1, ReadDoes, FrozenDoes
<1>3. ASSUME NEW k \in {"read", "dummy"}, NEW r \in {"Relative", "Relative2"}
      PROVE  Turns(s, [Access(s, k) EXCEPT !.row = r, !.mi = -1])
  <2>1. /\ Access(s, k) = [s EXCEPT !.acc = <<k>>] /\ <<k>> \in BusUses
        /\ <<k>> \in {<<"read">>, <<"dummy">>}
    BY <1>3, UseOf DEF Kinds
  <2>2. r \in DOMAIN Microcode
    BY <1>3, TableDomain DEF Vops
  <2> DEFINE a == <<k>>
             m == -1
  <2>3. m \in -1..7
    OBVIOUS
  <2>4. /\ s \in CpuState /\ s.rdy_freeze = FALSE
    BY DEF Ready
  <2> HIDE DEF a, m
  <2>5. Access(s, k) = [s EXCEPT !.acc = a] /\ a \in BusUses /\ a \in {<<"read">>, <<"dummy">>}
    BY <2>1 DEF a
  <2>6. [Access(s, k) EXCEPT !.row = r, !.mi = m] = [s EXCEPT !.acc = a, !.row = r, !.mi = m]
    BY <2>5, <2>4 DEF CpuState
  <2> DEFINE u == [s EXCEPT !.acc = a, !.row = r, !.mi = m]
  <2>7. /\ u \in CpuState
        /\ u.row = r /\ u.mi = m /\ u.rdy_freeze = FALSE /\ u.acc = a
        /\ u.NMI = s.NMI /\ u.IRQ = s.IRQ /\ u.I = s.I
        /\ u.branch_irq_hack = s.branch_irq_hack
    BY <2>2, <2>5, <2>3, <2>4 DEF CpuState
  <2> HIDE DEF u
  <2>8. Turns(s, u)
    BY <1>3, <2>5, <2>7 DEF Turns, m
  <2> QED
    BY <2>6, <2>8 DEF u, m
<1>4. CASE Uop(s) = "RelBranch_Stage2"
  <2>1. ExecuteOneRetry(s, rdy) = RelBranch_Stage2(s, rdy)
    BY <1>4 DEF ExecuteOneRetry
  <2> QED
    BY <1>2, <1>3, <2>1 DEF RelBranch_Stage2
<1>5. CASE Uop(s) = "RelBranch_Stage3"
  <2>1. ExecuteOneRetry(s, rdy) = RelBranch_Stage3(s, rdy)
    BY <1>5 DEF ExecuteOneRetry
  <2> DEFINE a == Access(s, "dummy")
             h == a.branch_irq_hack \/ ~s.interrupt_pending
             u == [a EXCEPT !.branch_irq_hack = h]
  <2>2. a.rdy_freeze = FALSE /\ a.branch_irq_hack = s.branch_irq_hack /\ a \in CpuState
    BY <1>2, AccessKeeps DEF Kinds, Ready, Keeps, Does, Access, CpuState
  <2>3. h \in BOOLEAN
    OBVIOUS
  <2> HIDE DEF a, h
  <2>4. /\ u \in CpuState /\ u.branch_irq_hack = h
        /\ u.row = a.row /\ u.mi = a.mi /\ u.IRQ = a.IRQ /\ u.NMI = a.NMI /\ u.I = a.I
        /\ u.ea = a.ea /\ u.interrupt_pending = a.interrupt_pending
        /\ u.rdy_freeze = a.rdy_freeze /\ u.acc = a.acc
    BY <2>2, <2>3 DEF CpuState
  <2> HIDE DEF u
  <2>5. h = s.branch_irq_hack \/ ~s.interrupt_pending
    BY <2>2 DEF h, Ready, CpuState
  <2>6. Keeps(s, u)
    BY <1>2, <1>5, <2>2, <2>4, <2>5 DEF Does, Keeps, a
  <2>7. Vectors(s, u)
    BY <1>1 DEF Vectors, VectorUops
  <2>8. Uses(s, u)
    BY <1>2, <2>4 DEF Does, Uses, a
  <2>9. RelBranch_Stage3(s, rdy) =
          IF rdy THEN {[a EXCEPT !.row = "Relative2", !.mi = -1], u} ELSE {Frozen(s)}
    BY DEF RelBranch_Stage3, a, u, h
  <2> QED
    BY <1>2, <1>3, <2>1, <2>6, <2>7, <2>8, <2>9 DEF Does, a
<1> QED
  BY <1>4, <1>5 DEF BranchUops

\* The fetch of an opcode.
LEMMA FetchReal ==
  ASSUME NEW s \in CpuState, s.row = "Fetch1_NoInterrupt", s.mi = 0, s.acc = <<>>,
         s.rdy_freeze = FALSE, NEW rdy \in BOOLEAN, NEW t \in Fetch1_Real(s, rdy)
  PROVE  Fetches(s, t) /\ t.I = s.I
<1> DEFINE a == <<"read">>
<1>1. a \in BusUses
  BY BusUseFacts DEF Kinds
<1>2. Access(s, "read") = [s EXCEPT !.acc = a]
  BY AccessIs
<1> HIDE DEF a
<1> DEFINE m == -1
<1>3. m \in -1..7
  OBVIOUS
<1>4. CASE rdy
  <2>1. PICK r \in Opcodes :
          t = [Access(s, "read") EXCEPT !.branch_irq_hack = FALSE, !.row = r, !.mi = -1]
    BY <1>4 DEF Fetch1_Real
  <2>2. r \in DOMAIN Microcode
    BY <2>1, TableDomain
  <2>3. t = [s EXCEPT !.acc = a, !.branch_irq_hack = FALSE, !.row = r, !.mi = m]
    BY <1>2, <2>1 DEF CpuState
  <2> HIDE DEF m
  <2>4. /\ t \in CpuState
        /\ t.row = r /\ t.mi = m /\ t.rdy_freeze = FALSE /\ t.acc = a
        /\ t.NMI = s.NMI /\ t.IRQ = s.IRQ /\ t.I = s.I
        /\ t.branch_irq_hack = FALSE
    BY <1>1, <1>3, <2>2, <2>3 DEF CpuState
  <2> QED
    BY <2>1, <2>4 DEF Fetches, a, m
<1>5. CASE ~rdy
  <2>1. t = [s EXCEPT !.rdy_freeze = TRUE]
    BY <1>5 DEF Fetch1_Real, Frozen
  <2> QED
    BY <2>1 DEF Fetches, CpuState
<1> QED
  BY <1>4, <1>5

\* The first cycle of an interrupt sequence.
LEMMA TakeSequence ==
  ASSUME NEW s \in CpuState, s.row \in {"NMI", "IRQ"}, s.mi = 0, s.acc = <<>>,
         s.rdy_freeze = FALSE, NEW rdy \in BOOLEAN, NEW t \in FetchDummy(s, rdy)
  PROVE  /\ t \in CpuState
         /\ t.row = s.row /\ t.mi = 0 /\ t.IRQ = s.IRQ /\ t.NMI = s.NMI /\ t.I = s.I
         /\ t.branch_irq_hack = s.branch_irq_hack /\ t.ea = s.ea
         /\ t.acc = IF t.rdy_freeze THEN <<>> ELSE <<"dummy">>
<1> DEFINE a == <<"dummy">>
<1>1. a \in BusUses
  BY BusUseFacts DEF Kinds
<1>2. Access(s, "dummy") = [s EXCEPT !.acc = a]
  BY AccessIs
<1> HIDE DEF a
<1>3. CASE rdy
  <2>1. t = [s EXCEPT !.acc = a]
    BY <1>2, <1>3 DEF FetchDummy, Dummy
  <2>2. /\ t \in CpuState
        /\ t.row = s.row /\ t.mi = s.mi /\ t.rdy_freeze = FALSE /\ t.acc = a
        /\ t.NMI = s.NMI /\ t.IRQ = s.IRQ /\ t.I = s.I
        /\ t.branch_irq_hack = s.branch_irq_hack /\ t.ea = s.ea
    BY <1>1, <2>1 DEF CpuState
  <2> QED
    BY <2>2 DEF a
<1>4. CASE ~rdy
  <2>1. t = [s EXCEPT !.rdy_freeze = TRUE]
    BY <1>4 DEF FetchDummy, Dummy, Frozen
  <2> QED
    BY <2>1 DEF CpuState
<1> QED
  BY <1>3, <1>4

\* The poll, of a state that has come to the end of its row.
LEMMA PollOf ==
  ASSUME NEW s \in CpuState, s.row = "Fetch1", s.mi = 0, s.acc = <<>>,
         s.rdy_freeze = FALSE, NEW rdy \in BOOLEAN, NEW t \in Fetch1(s, rdy)
  PROVE  Polls(s, t) /\ t.I = s.iflag_pending
<1> DEFINE p == s.iflag_pending
           Nmi == [s EXCEPT !.I = p, !.mi = 0, !.interrupt_pending = FALSE,
                            !.ea = "nmi", !.row = "NMI", !.NMI = FALSE]
           Irq == [s EXCEPT !.I = p, !.mi = 0, !.interrupt_pending = FALSE,
                            !.ea = "irq", !.row = "IRQ"]
           Cont == [s EXCEPT !.I = p, !.mi = 0, !.row = "Fetch1_NoInterrupt"]
           Clear == [s EXCEPT !.I = p, !.mi = 0, !.interrupt_pending = FALSE,
                              !.row = "Fetch1_NoInterrupt"]
<1>1. {"NMI", "IRQ", "Fetch1_NoInterrupt"} \subseteq DOMAIN Microcode
  BY TableDomain DEF Vops
<1>2. p \in BOOLEAN
  BY DEF CpuState
<1>3. CASE s.NMI /\ ~s.branch_irq_hack
  <2>1. t \in FetchDummy(Nmi, rdy)
    BY <1>3 DEF Fetch1, CpuState
  <2>2. /\ Nmi \in CpuState /\ Nmi.row = "NMI" /\ Nmi.mi = 0 /\ Nmi.acc = <<>>
        /\ Nmi.rdy_freeze = FALSE /\ Nmi.ea = "nmi" /\ Nmi.NMI = FALSE /\ Nmi.I = p
        /\ Nmi.IRQ = s.IRQ /\ Nmi.branch_irq_hack = s.branch_irq_hack
    BY <1>1, <1>2 DEF CpuState
  <2> HIDE DEF Nmi
  <2> QED
    BY <1>3, <2>1, <2>2, TakeSequence DEF Polls, Takes
<1>4. CASE ~(s.NMI /\ ~s.branch_irq_hack) /\ s.IRQ /\ ~s.I /\ ~s.branch_irq_hack
  <2>1. t \in FetchDummy(Irq, rdy)
    BY <1>4 DEF Fetch1, CpuState
  <2>2. /\ Irq \in CpuState /\ Irq.row = "IRQ" /\ Irq.mi = 0 /\ Irq.acc = <<>>
        /\ Irq.rdy_freeze = FALSE /\ Irq.ea = "irq" /\ Irq.NMI = s.NMI /\ Irq.I = p
        /\ Irq.IRQ = s.IRQ /\ Irq.branch_irq_hack = s.branch_irq_hack
    BY <1>1, <1>2 DEF CpuState
  <2> HIDE DEF Irq
  <2> QED
    BY <1>4, <2>1, <2>2, TakeSequence DEF Polls, Takes
<1>5. CASE ~(s.NMI /\ ~s.branch_irq_hack) /\ ~(s.IRQ /\ ~s.I /\ ~s.branch_irq_hack)
  <2> DEFINE c == IF s.branch_irq_hack THEN Cont ELSE Clear
  <2>1. t \in Fetch1_Real(c, rdy)
    BY <1>5 DEF Fetch1, CpuState
  <2>2. /\ Cont \in CpuState /\ Cont.row = "Fetch1_NoInterrupt" /\ Cont.mi = 0
        /\ Cont.acc = <<>> /\ Cont.rdy_freeze = FALSE /\ Cont.NMI = s.NMI /\ Cont.I = p
        /\ Cont.IRQ = s.IRQ /\ Cont.branch_irq_hack = s.branch_irq_hack
    BY <1>1, <1>2 DEF CpuState
  <2>3. /\ Clear \in CpuState /\ Clear.row = "Fetch1_NoInterrupt" /\ Clear.mi = 0
        /\ Clear.acc = <<>> /\ Clear.rdy_freeze = FALSE /\ Clear.NMI = s.NMI /\ Clear.I = p
        /\ Clear.IRQ = s.IRQ /\ Clear.branch_irq_hack = s.branch_irq_hack
    BY <1>1, <1>2 DEF CpuState
  <2> HIDE DEF Cont, Clear
  <2>4. /\ c \in CpuState /\ c.row = "Fetch1_NoInterrupt" /\ c.mi = 0
        /\ c.acc = <<>> /\ c.rdy_freeze = FALSE /\ c.NMI = s.NMI /\ c.I = p
        /\ c.IRQ = s.IRQ /\ c.branch_irq_hack = s.branch_irq_hack
    BY <2>2, <2>3
  <2> HIDE DEF c
  <2>5. Fetches(c, t) /\ t.I = p
    BY <2>1, <2>4, FetchReal
  <2> QED
    BY <1>5, <2>4, <2>5 DEF Polls, Fetches
<1> QED
  BY <1>3, <1>4, <1>5

\* The ends of rows that poll.
LEMMA PollStages ==
  ASSUME NEW s, Ready(s), NEW rdy \in BOOLEAN, Uop(s) \in PollUops,
         NEW t \in ExecuteOneRetry(s, rdy)
  PROVE  /\ Polls(s, t)
         /\ t.I = IF Uop(s) = "End" THEN s.I ELSE s.iflag_pending
<1>1. "Fetch1" \in DOMAIN Microcode
  BY TableDomain DEF Vops
<1>2. s \in CpuState /\ s.acc = <<>> /\ s.rdy_freeze = FALSE /\ s.I \in BOOLEAN
  BY DEF Ready, CpuState
<1> DEFINE z == 0
<1>3. z \in -1..7 /\ z = 0
  OBVIOUS
<1>4. CASE Uop(s) = "End"
  <2> DEFINE u == [s EXCEPT !.row = "Fetch1", !.mi = z, !.iflag_pending = s.I]
  <2>1. t \in Fetch1(u, rdy)
    BY <1>4 DEF ExecuteOneRetry, End
  <2> HIDE DEF z
  <2>2. /\ u \in CpuState /\ u.row = "Fetch1" /\ u.mi = z /\ u.acc = <<>>
        /\ u.rdy_freeze = FALSE /\ u.NMI = s.NMI /\ u.IRQ = s.IRQ /\ u.I = s.I
        /\ u.iflag_pending = s.I /\ u.branch_irq_hack = s.branch_irq_hack
    BY <1>1, <1>2, <1>3 DEF CpuState
  <2> HIDE DEF u
  <2>3. Polls(u, t) /\ t.I = s.I
    BY <1>3, <2>1, <2>2, PollOf
  <2> QED
    BY <1>4, <2>2, <2>3 DEF Polls, Takes, Fetches
<1>5. CASE Uop(s) = "End_ISpecial"
  <2> DEFINE u == [s EXCEPT !.row = "Fetch1", !.mi = z]
  <2>1. t \in Fetch1(u, rdy)
    BY <1>5 DEF ExecuteOneRetry, End_ISpecial
  <2> HIDE DEF z
  <2>2. /\ u \in CpuState /\ u.row = "Fetch1" /\ u.mi = z /\ u.acc = <<>>
        /\ u.rdy_freeze = FALSE /\ u.NMI = s.NMI /\ u.IRQ = s.IRQ /\ u.I = s.I
        /\ u.iflag_pending = s.iflag_pending /\ u.branch_irq_hack = s.branch_irq_hack
    BY <1>1, <1>2, <1>3 DEF CpuState
  <2> HIDE DEF u
  <2>3. Polls(u, t) /\ t.I = s.iflag_pending
    BY <1>3, <2>1, <2>2, PollOf
  <2> QED
    BY <1>5, <2>2, <2>3 DEF Polls, Takes, Fetches
<1> QED
  BY <1>4, <1>5 DEF PollUops

\* The ends of rows that do not, and a fetch that was held back.
LEMMA FetchStages ==
  ASSUME NEW s, Ready(s), NEW rdy \in BOOLEAN, Uop(s) \in FetchUops,
         NEW t \in ExecuteOneRetry(s, rdy)
  PROVE  Fetches(s, t) /\ t.I = s.I
<1>1. s \in CpuState /\ s.acc = <<>> /\ s.rdy_freeze = FALSE
  BY DEF Ready
<1> DEFINE z == 0
<1>2. z \in -1..7 /\ z = 0
  OBVIOUS
<1>3. CASE Uop(s) = "Fetch1_Real"
  <2>1. t \in Fetch1_Real(s, rdy)
    BY <1>3 DEF ExecuteOneRetry
  <2>2. s.row = "Fetch1_NoInterrupt" /\ s.mi = 0
    BY <1>3, PlaceOf, Table DEF RowFacts
  <2> QED
    BY <2>1, <2>2, FetchReal DEF Ready
<1>4. CASE Uop(s) = "End_SuppressInterrupt"
  <2> DEFINE u == [s EXCEPT !.row = "Fetch1_NoInterrupt", !.mi = z]
  <2>1. t \in Fetch1_Real(u, rdy)
    BY <1>4 DEF ExecuteOneRetry, End_SuppressInterrupt
  <2>2. "Fetch1_NoInterrupt" \in DOMAIN Microcode
    BY TableDomain DEF Vops
  <2> HIDE DEF z
  <2>3. /\ u \in CpuState /\ u.row = "Fetch1_NoInterrupt" /\ u.mi = z /\ u.acc = <<>>
        /\ u.rdy_freeze = FALSE /\ u.NMI = s.NMI /\ u.IRQ = s.IRQ /\ u.I = s.I
        /\ u.branch_irq_hack = s.branch_irq_hack
    BY <1>1, <1>2, <2>2 DEF CpuState
  <2> HIDE DEF u
  <2>4. Fetches(u, t) /\ t.I = s.I
    BY <1>2, <2>1, <2>3, FetchReal
  <2> QED
    BY <2>3, <2>4 DEF Fetches
<1> QED
  BY <1>3, <1>4 DEF FetchUops

-----------------------------------------------------------------------------
(***************************************************************************)
(* One stage, whatever it is, and one cycle.                               *)
(***************************************************************************)
LEMMA StageOutcome ==
  ASSUME NEW s, Ready(s), NEW rdy \in BOOLEAN, NEW t \in ExecuteOneRetry(s, rdy)
  PROVE  \/ Uop(s) \notin LeaveUops /\ Does(s, t)
         \/ Uop(s) \in BranchUops /\ Turns(s, t)
         \/ /\ Uop(s) \in PollUops /\ Polls(s, t)
            /\ t.I = IF Uop(s) = "End" THEN s.I ELSE s.iflag_pending
         \/ Uop(s) \in FetchUops /\ Fetches(s, t) /\ t.I = s.I
<1> DEFINE u == Uop(s)
<1>1. s.row # "Fetch1"
  BY DEF Ready
<1>2. /\ s.row \in DOMAIN Microcode /\ s.mi + 1 \in DOMAIN Microcode[s.row]
      /\ u = Stage(s.row, s.mi + 1)
  BY PlaceOf
<1>3. RowFacts(s.row, s.mi + 1) /\ Stage(s.row, s.mi + 1) \in Stages
  BY <1>2, Table
<1> HIDE DEF u
<1>4. u \in Stages /\ u # "Fetch1"
  BY <1>1, <1>2, <1>3 DEF RowFacts
<1> USE DEF u
<1>5. CASE u \in PollUops
  BY <1>5, PollStages
<1>6. CASE u \in FetchUops
  BY <1>6, FetchStages
<1>7. CASE u \in BranchUops
  <2>1. u \notin LeaveUops
    BY <1>7 DEF BranchUops, LeaveUops, PollUops, FetchUops
  <2> QED
    BY <1>7, <2>1, BranchStages
<1>8. CASE u \notin LeaveUops \cup BranchUops
  <2>1. \/ u \in ReadUops \/ u \in DummyUops \/ u \in IndexedUops \/ u \in SumUops
        \/ u \in SkipUops \/ u \in UnstableUops \/ u \in PendingUops
        \/ u \in StoreUops \/ u \in ZpUops \/ u \in PushUops \/ u \in FlagUops
        \/ u = "Abs_READ" \/ u = "PushP_Reset" \/ u = "FetchPCLVector"
        \/ u = "FetchPCHVector" \/ u \in {"PullP", "PullP_NoInc"} \/ u = "Jam"
    BY <1>4, <1>8 DEF Stages, WriteUops, SingleUops
  <2>2. StageDoes(s, rdy)
    BY <2>1, ReadStages, DummyStages, IndexedStages, SumStages, SkipStages, UnstableStages,
      PendingStages, StoreStages, PushStages, PushFlagsStage, AbsReadStage, PushResetStage,
      VectorLowStage, VectorHighStage, PullStages, JamStage
  <2> QED
    BY <1>8, <2>2 DEF StageDoes
<1> QED
  BY <1>4, <1>5, <1>6, <1>7, <1>8 DEF LeaveUops

Start(s) ==
  [s EXCEPT !.interrupt_pending = @ \/ Interrupted(s), !.rdy_freeze = FALSE, !.acc = <<>>]

Advanced(u) == [u EXCEPT !.mi = IF u.rdy_freeze THEN @ ELSE @ + 1]

\* A cycle is a start, a stage and an advance.
LEMMA ExecuteOneIs ==
  \A s, rdy : ExecuteOne(s, rdy) = {Advanced(u) : u \in ExecuteOneRetry(Start(s), rdy)}
  BY DEF ExecuteOne, Start, Advanced

\* A state that a stage may be run from.
Runnable(s) ==
  /\ s \in CpuState
  /\ s.row # "Fetch1"
  /\ s.mi + 1 \in DOMAIN Microcode[s.row]

\* What is left of s in the state b its stage runs from.
Begun(s, b) ==
  /\ Ready(b)
  /\ b.row = s.row /\ b.mi = s.mi /\ b.I = s.I /\ b.ea = s.ea
  /\ b.iflag_pending = s.iflag_pending /\ b.branch_irq_hack = s.branch_irq_hack
  /\ b.NMI = s.NMI /\ b.IRQ = s.IRQ /\ b.cross = s.cross /\ b.H = s.H
  /\ b.interrupt_pending = (s.interrupt_pending \/ Interrupted(s))
  /\ Uop(b) = Uop(s)

\* A cycle starts by noticing interrupts and clearing what the last one left.
LEMMA StartIs ==
  ASSUME NEW s, Runnable(s)
  PROVE  Begun(s, Start(s))
<1> DEFINE e == <<>>
           p == s.interrupt_pending \/ Interrupted(s)
           b == [s EXCEPT !.interrupt_pending = p, !.rdy_freeze = FALSE, !.acc = e]
<1>1. e \in BusUses
  BY BusUseFacts
<1>2. p \in BOOLEAN /\ s \in CpuState
  BY DEF Interrupted, Runnable, CpuState
<1>3. Start(s) = b
  BY <1>2 DEF Start, CpuState
<1> HIDE DEF e, p
<1>4. /\ b \in CpuState /\ b.acc = e /\ b.interrupt_pending = p /\ b.rdy_freeze = FALSE
      /\ b.row = s.row /\ b.mi = s.mi /\ b.I = s.I /\ b.ea = s.ea
      /\ b.iflag_pending = s.iflag_pending /\ b.branch_irq_hack = s.branch_irq_hack
      /\ b.NMI = s.NMI /\ b.IRQ = s.IRQ /\ b.cross = s.cross /\ b.H = s.H
  BY <1>1, <1>2 DEF CpuState
<1> HIDE DEF b
<1>5. Ready(b)
  BY <1>4 DEF Ready, Runnable, e
<1>6. Uop(b) = Uop(s)
  BY <1>4 DEF Uop
<1> QED
  BY <1>3, <1>4, <1>5, <1>6 DEF Begun, p

\* The fields that advancing the index leaves alone.
SameBut(t, u) ==
  /\ t.row = u.row /\ t.I = u.I /\ t.iflag_pending = u.iflag_pending
  /\ t.interrupt_pending = u.interrupt_pending /\ t.branch_irq_hack = u.branch_irq_hack
  /\ t.ea = u.ea /\ t.cross = u.cross /\ t.H = u.H /\ t.NMI = u.NMI /\ t.IRQ = u.IRQ
  /\ t.rdy_freeze = u.rdy_freeze /\ t.acc = u.acc

\* Advancing changes the index alone.
LEMMA AdvancedIs ==
  ASSUME NEW u \in CpuState, NEW d \in Int, d = IF u.rdy_freeze THEN u.mi ELSE u.mi + 1
  PROVE  /\ Advanced(u).mi = d /\ SameBut(Advanced(u), u)
         /\ d \in -1..7 => Advanced(u) \in CpuState
<1>1. Advanced(u) = [u EXCEPT !.mi = d]
  BY DEF Advanced, CpuState
<1>2. [u EXCEPT !.mi = d].mi = d /\ SameBut([u EXCEPT !.mi = d], u)
  BY DEF CpuState, SameBut
<1>3. d \in -1..7 => [u EXCEPT !.mi = d] \in CpuState
  BY DEF CpuState
<1> QED
  BY <1>1, <1>2, <1>3

-----------------------------------------------------------------------------
(***************************************************************************)
(* What a whole cycle does: t has been reached from b.                     *)
(***************************************************************************)
InPlace(t) == t \in CpuState /\ t.row # "Fetch1" /\ t.mi + 1 \in DOMAIN Microcode[t.row]

Stays(b, t) ==
  /\ t.row = b.row /\ t.IRQ = b.IRQ
  /\ IF t.rdy_freeze
     THEN t.mi = b.mi \/ (Uop(b) \in SkipUops /\ t.mi = b.mi + 1)
     ELSE t.mi = b.mi + 1 \/ (Uop(b) \in SkipUops /\ t.mi = b.mi + 2)
  /\ \/ t.branch_irq_hack = b.branch_irq_hack
     \/ Uop(b) = "RelBranch_Stage3" /\ ~b.interrupt_pending /\ ~t.rdy_freeze
  /\ Uop(b) # "FetchPCLVector" => t.NMI = b.NMI
  /\ Uop(b) \notin VectorUops => t.ea = b.ea
  /\ Uop(b) \notin FlagUops \cup {"PushP_Reset", "PullP"} => t.I = b.I
  /\ Vectors(b, t)
  /\ Uses(b, t)

Turned(b, t) ==
  /\ t.row \in {"Relative", "Relative2"} /\ t.mi = 0
  /\ ~t.rdy_freeze /\ t.acc \in {<<"read">>, <<"dummy">>}
  /\ t.NMI = b.NMI /\ t.IRQ = b.IRQ /\ t.I = b.I
  /\ t.branch_irq_hack = b.branch_irq_hack

Fetching(b, t) ==
  /\ t.NMI = b.NMI /\ t.IRQ = b.IRQ /\ t.mi = 0
  /\ IF t.rdy_freeze
     THEN /\ t.row = "Fetch1_NoInterrupt"
          /\ t.acc = <<>> /\ t.branch_irq_hack = b.branch_irq_hack
     ELSE t.row \in Opcodes /\ t.acc = <<"read">> /\ ~t.branch_irq_hack

Taking(b, t, r) ==
  /\ t.row = r /\ t.mi = IF t.rdy_freeze THEN 0 ELSE 1
  /\ t.IRQ = b.IRQ /\ t.branch_irq_hack = b.branch_irq_hack
  /\ t.acc = IF t.rdy_freeze THEN <<>> ELSE <<"dummy">>
  /\ IF r = "NMI" THEN ~t.NMI /\ t.ea = "nmi" ELSE t.NMI = b.NMI /\ t.ea = "irq"

Polling(b, t) ==
  IF b.NMI /\ ~b.branch_irq_hack THEN Taking(b, t, "NMI")
  ELSE IF b.IRQ /\ ~b.I /\ ~b.branch_irq_hack THEN Taking(b, t, "IRQ")
  ELSE Fetching(b, t)

Outcome(b, t) ==
  \/ Uop(b) \notin LeaveUops /\ Stays(b, t)
  \/ Uop(b) \in BranchUops /\ Turned(b, t)
  \/ /\ Uop(b) \in PollUops /\ Polling(b, t)
     /\ t.I = IF Uop(b) = "End" THEN b.I ELSE b.iflag_pending
  \/ Uop(b) \in FetchUops /\ Fetching(b, t) /\ t.I = b.I

\* Every row has a first stage, and the sequences a second one.
LEMMA FirstStages ==
  /\ \A r \in DOMAIN Microcode : 1 \in DOMAIN Microcode[r]
  /\ {2} \subseteq DOMAIN Microcode["NMI"] \cap DOMAIN Microcode["IRQ"]
<1>1. \A r \in Opcodes \cup Vops : 1 \in DOMAIN Microcode[r]
  BY DEF Microcode, Opcodes, LowOpcodes, HighOpcodes, Vops
<1>2. {2} \subseteq DOMAIN Microcode["NMI"] \cap DOMAIN Microcode["IRQ"]
  BY DEF Microcode
<1> QED
  BY <1>1, <1>2, TableDomain

\* Jam advances nothing.
LEMMA JamFrozen ==
  ASSUME NEW s, Ready(s), NEW rdy, Uop(s) = "Jam", NEW t \in ExecuteOneRetry(s, rdy)
  PROVE  t.rdy_freeze
<1>1. t = Frozen(s) /\ s \in CpuState
  BY DEF ExecuteOneRetry, Jam, Ready
<1> QED
  BY <1>1 DEF Frozen, CpuState

\* A stage that stays in its row leaves an index of it.
LEMMA StaysInRow ==
  ASSUME NEW s, Ready(s), NEW rdy \in BOOLEAN, NEW u \in ExecuteOneRetry(s, rdy),
         Uop(s) \notin LeaveUops, Does(s, u)
  PROVE  InPlace(Advanced(u)) /\ Stays(s, Advanced(u))
<1> DEFINE k == s.mi + 1
           r == s.row
           d == IF u.rdy_freeze THEN u.mi ELSE u.mi + 1
           t == Advanced(u)
<1>1. /\ r \in DOMAIN Microcode /\ s.mi \in Int /\ k \in DOMAIN Microcode[r]
      /\ Uop(s) = Stage(r, k) /\ r # "Fetch1"
  BY PlaceOf DEF Ready
<1>2. k \in 1..8 /\ (Uop(s) # "Jam" => k + 1 \in DOMAIN Microcode[r])
  BY <1>1, Table DEF Follows
<1>3. Uop(s) \in SkipUops => k \in 3..4 /\ k + 2 \in DOMAIN Microcode[r]
  BY <1>1, SkipPlaces
<1>4. u \in CpuState /\ u.row = r
  BY DEF Does, Keeps
<1>5. u.mi = s.mi \/ (Uop(s) \in SkipUops /\ u.mi = s.mi + 1)
  BY DEF Does, Keeps
<1>6. Uop(s) = "Jam" => u.rdy_freeze
  BY JamFrozen
<1>7. Uop(s) = "Jam" => Uop(s) \notin SkipUops
  BY DEF SkipUops
<1>8. \/ d + 1 = k
      \/ d + 1 = k + 1 /\ Uop(s) # "Jam"
      \/ d + 1 = k + 2 /\ Uop(s) \in SkipUops
  BY <1>1, <1>5, <1>6, <1>7
<1>9. d \in Int /\ d + 1 \in DOMAIN Microcode[r]
  <2> DEFINE D == DOMAIN Microcode[r]
             e == d + 1
  <2>1. k \in D /\ (Uop(s) # "Jam" => k + 1 \in D) /\ (Uop(s) \in SkipUops => k + 2 \in D)
    BY <1>1, <1>2, <1>3
  <2>2. \/ e = k
        \/ e = k + 1 /\ Uop(s) # "Jam"
        \/ e = k + 2 /\ Uop(s) \in SkipUops
    BY <1>8
  <2>3. d \in Int
    <3>1. u.mi \in Int
      BY <1>1, <1>5
    <3> QED
      BY <3>1
  <2> HIDE DEF D, e, k
  <2>4. e \in D
    BY <2>1, <2>2
  <2> QED
    BY <2>3, <2>4 DEF D, e
<1>10. d \in -1..7
  <2>1. d + 1 \in 1..8
    BY <1>1, <1>9, Table DEF Follows
  <2> QED
    BY <1>9, <2>1
<1>11. t.mi = d /\ SameBut(t, u) /\ t \in CpuState
  BY <1>4, <1>9, <1>10, AdvancedIs
<1> HIDE DEF t
<1>12. InPlace(t)
  BY <1>1, <1>4, <1>9, <1>11 DEF InPlace, SameBut
<1>13. Stays(s, t)
  <2>1. Vectors(s, t)
    BY <1>11 DEF Does, Vectors, SameBut
  <2>2. Uses(s, t)
    BY <1>11 DEF Does, Uses, SameBut
  <2>3. IF t.rdy_freeze
        THEN t.mi = s.mi \/ (Uop(s) \in SkipUops /\ t.mi = s.mi + 1)
        ELSE t.mi = s.mi + 1 \/ (Uop(s) \in SkipUops /\ t.mi = s.mi + 2)
    BY <1>1, <1>5, <1>11 DEF SameBut
  <2>4. /\ t.row = s.row /\ t.IRQ = s.IRQ
        /\ \/ t.branch_irq_hack = s.branch_irq_hack
           \/ Uop(s) = "RelBranch_Stage3" /\ ~s.interrupt_pending /\ ~t.rdy_freeze
    BY <1>4, <1>11 DEF Does, Keeps, SameBut
  <2>5. /\ Uop(s) # "FetchPCLVector" => t.NMI = s.NMI
        /\ Uop(s) \notin VectorUops => t.ea = s.ea
        /\ Uop(s) \notin FlagUops \cup {"PushP_Reset", "PullP"} => t.I = s.I
    BY <1>11 DEF Does, Keeps, SameBut
  <2> QED
    BY <2>1, <2>2, <2>3, <2>4, <2>5 DEF Stays
<1> QED
  BY <1>12, <1>13 DEF t

\* A state that has left its row: its index before advancing is -1, or 0.
LEMMA LeavesRow ==
  ASSUME NEW u \in CpuState, u.row # "Fetch1",
         \/ u.mi = 0 /\ u.rdy_freeze
         \/ u.mi = -1 /\ ~u.rdy_freeze
         \/ u.mi = 0 /\ u.row \in {"NMI", "IRQ"}
  PROVE  /\ InPlace(Advanced(u)) /\ SameBut(Advanced(u), u)
         /\ Advanced(u).mi = IF u.mi = 0 /\ ~u.rdy_freeze THEN 1 ELSE 0
<1> DEFINE d == IF u.rdy_freeze THEN u.mi ELSE u.mi + 1
           t == Advanced(u)
<1>1. d \in Int /\ d \in -1..7 /\ d = IF u.mi = 0 /\ ~u.rdy_freeze THEN 1 ELSE 0
  OBVIOUS
<1>2. t.mi = d /\ SameBut(t, u) /\ t \in CpuState
  BY <1>1, AdvancedIs
<1>3. d + 1 \in DOMAIN Microcode[u.row]
  <2>1. u.row \in DOMAIN Microcode
    BY DEF CpuState
  <2>2. CASE d = 0
    BY <2>1, <2>2, FirstStages
  <2>3. CASE d = 1
    <3>1. u.row \in {"NMI", "IRQ"}
      BY <2>3
    <3>2. 2 \in DOMAIN Microcode[u.row]
      BY <3>1, FirstStages
    <3> QED
      BY <2>3, <3>2
  <2> QED
    BY <1>1, <2>2, <2>3
<1> HIDE DEF t
<1>4. InPlace(t)
  BY <1>2, <1>3 DEF InPlace, SameBut
<1> QED
  BY <1>1, <1>2, <1>4 DEF t

\* The internal rows are no opcodes.
LEMMA LabelsDiffer ==
  /\ "Fetch1" \notin Opcodes
  /\ {"NMI", "IRQ", "RESET", "Relative", "Relative2", "Fetch1_NoInterrupt"} \cap Opcodes = {}
  /\ {"CLI", "SEI", "PLP", "BRK", "Abs"} \subseteq Opcodes
  BY DEF Opcodes, LowOpcodes, HighOpcodes

\* A branch that turns is at the first stage of its new row.
LEMMA TurnedIs ==
  ASSUME NEW s, NEW u, Turns(s, u)
  PROVE  InPlace(Advanced(u)) /\ Turned(s, Advanced(u))
<1>1. /\ u \in CpuState /\ u.row # "Fetch1" /\ u.mi = -1 /\ ~u.rdy_freeze
      /\ u.row \in {"Relative", "Relative2"}
  BY DEF Turns
<1>2. InPlace(Advanced(u)) /\ SameBut(Advanced(u), u) /\ Advanced(u).mi = 0
  BY <1>1, LeavesRow
<1> QED
  BY <1>2 DEF Turns, Turned, SameBut

\* A fetch is at the first stage of the new row, or held back.
LEMMA FetchingIs ==
  ASSUME NEW s, NEW u, Fetches(s, u)
  PROVE  InPlace(Advanced(u)) /\ Fetching(s, Advanced(u)) /\ Advanced(u).I = u.I
<1>1. /\ u \in CpuState /\ u.row # "Fetch1"
      /\ (u.mi = 0 /\ u.rdy_freeze) \/ (u.mi = -1 /\ ~u.rdy_freeze)
  BY LabelsDiffer DEF Fetches
<1>2. InPlace(Advanced(u)) /\ SameBut(Advanced(u), u) /\ Advanced(u).mi = 0
  BY <1>1, LeavesRow
<1> QED
  BY <1>2 DEF Fetches, Fetching, SameBut

\* A sequence is past its first stage, or held at it.
LEMMA TakingIs ==
  ASSUME NEW s, NEW r \in {"NMI", "IRQ"}, NEW u, Takes(s, u, r)
  PROVE  InPlace(Advanced(u)) /\ Taking(s, Advanced(u), r) /\ Advanced(u).I = u.I
<1>1. u \in CpuState /\ u.row # "Fetch1" /\ u.mi = 0 /\ u.row \in {"NMI", "IRQ"}
  BY DEF Takes
<1>2. /\ InPlace(Advanced(u)) /\ SameBut(Advanced(u), u)
      /\ Advanced(u).mi = IF ~u.rdy_freeze THEN 1 ELSE 0
  BY <1>1, LeavesRow
<1> QED
  BY <1>2 DEF Takes, Taking, SameBut

\* What a whole cycle can do, from any state that can run.
LEMMA CycleOutcome ==
  ASSUME NEW s, Runnable(s), NEW rdy \in BOOLEAN, NEW t \in ExecuteOne(s, rdy)
  PROVE  \E b : Begun(s, b) /\ InPlace(t) /\ Outcome(b, t)
<1> DEFINE b == Start(s)
<1>1. PICK u \in ExecuteOneRetry(b, rdy) : t = Advanced(u)
  BY ExecuteOneIs
<1>2. Begun(s, b) /\ Ready(b)
  BY StartIs DEF Begun
<1> HIDE DEF b
<1>3. \/ Uop(b) \notin LeaveUops /\ Does(b, u)
      \/ Uop(b) \in BranchUops /\ Turns(b, u)
      \/ /\ Uop(b) \in PollUops /\ Polls(b, u)
         /\ u.I = IF Uop(b) = "End" THEN b.I ELSE b.iflag_pending
      \/ Uop(b) \in FetchUops /\ Fetches(b, u) /\ u.I = b.I
  BY <1>2, StageOutcome
<1>4. CASE Uop(b) \notin LeaveUops /\ Does(b, u)
  <2>1. InPlace(t) /\ Stays(b, t)
    BY <1>1, <1>2, <1>4, StaysInRow
  <2> QED
    BY <1>2, <1>4, <2>1 DEF Outcome
<1>5. CASE Uop(b) \in BranchUops /\ Turns(b, u)
  <2>1. InPlace(t) /\ Turned(b, t)
    BY <1>1, <1>5, TurnedIs
  <2> QED
    BY <1>2, <1>5, <2>1 DEF Outcome
<1>6. ASSUME Uop(b) \in PollUops, Polls(b, u),
             u.I = IF Uop(b) = "End" THEN b.I ELSE b.iflag_pending
      PROVE  InPlace(t) /\ Outcome(b, t)
  <2>1. InPlace(t) /\ Polling(b, t) /\ t.I = u.I
    BY <1>1, <1>6, TakingIs, FetchingIs DEF Polls, Polling
  <2> QED
    BY <1>6, <2>1 DEF Outcome
<1>7. CASE Uop(b) \in FetchUops /\ Fetches(b, u) /\ u.I = b.I
  <2>1. InPlace(t) /\ Fetching(b, t) /\ t.I = u.I
    BY <1>1, <1>7, FetchingIs
  <2> QED
    BY <1>2, <1>7, <2>1 DEF Outcome
<1> QED
  BY <1>2, <1>3, <1>4, <1>5, <1>6, <1>7

-----------------------------------------------------------------------------
(***************************************************************************)
(* The inductive invariant, of a state s of the CPU and a history n.       *)
(***************************************************************************)
\* Until its vector is fetched a sequence holds the vector it began with.
Aimed(s) ==
  /\ s.row = "NMI" /\ s.mi <= 5 => s.ea = "nmi"
  /\ s.row = "IRQ" /\ s.mi <= 5 => s.ea = "irq"
  /\ s.row = "BRK" /\ s.mi = 4 => s.ea = "irq"
  /\ s.row = "RESET" /\ s.mi = 5 => s.ea = "reset"

Owes(s, n) ==
  n.owed = (IF s.NMI THEN 1 ELSE 0) + (IF s.row = "NMI" /\ s.mi <= 5 THEN 1 ELSE 0)

\* The instruction that is running, and not a sequence or a fetch held back.
Running(s) == s.row \in Opcodes \cup {"Relative", "Relative2"}

\* An NMI that has seen an opcode fetched is next: no branch hides it again.
NmiWaits(s, n) ==
  /\ n.nmiWait \in 0..1
  /\ n.nmiWait = 1 =>
       /\ s.NMI /\ ~s.branch_irq_hack /\ Running(s)
       /\ s.row = "BRK" => s.mi <= 4

IrqWaits(s, n) ==
  /\ n.irqWait \in 0..1
  /\ n.irqWait = 1 =>
       /\ ~s.I /\ ~s.branch_irq_hack
       /\ Running(s) \/ s.row \in {"NMI", "IRQ"}
       /\ s.row = "BRK" => s.mi <= 3
       /\ s.row \in {"NMI", "IRQ"} => s.mi <= 4

\* CLI, SEI and PLP do not touch I before the poll that follows them.
MaskKept(s, n) == s.row \in {"CLI", "SEI", "PLP"} => s.I = n.iAtFetch

\* A run of writes is the run of stages before this one.
RunTrails(s, n) ==
  \/ s.row = "RESET" /\ s.mi = 0
  \/ /\ n.run <= 3 /\ n.run <= s.mi
     /\ \A d \in 1..3 : d <= n.run => Stage(s.row, (s.mi + 1) - d) \in WriteUops

\* Since the last store the row has come to its stage, or it was just made.
StoresApart(s, n) ==
  \/ n.since >= 3
  \/ n.since = 0 /\ s.row = "RESET" /\ s.mi = 0
  \/ n.since = 0 /\ n.run >= 1 /\ s.mi >= 1 /\ Stage(s.row, s.mi) \in StoreUops
  \/ n.since >= s.mi + 1
  \/ s.row \in {"NMI", "IRQ", "RESET"} /\ n.since >= s.mi

Recorded(b, n, t, m) ==
  /\ m.owed = IF Uop(b) = "FetchPCLVector" /\ ~t.rdy_freeze /\ t.ea = "nmi"
              THEN n.owed - 1 ELSE n.owed
  /\ m.nmiWait = Waited(t.NMI, n.nmiWait, t)
  /\ m.irqWait = Waited(t.IRQ /\ ~t.I, n.irqWait, t)
  /\ m.iAtFetch = IF Fetched(t) THEN t.I ELSE n.iAtFetch
  /\ m.run = IF t.acc \in {<<"push">>, <<"zp">>, <<"store">>} THEN Upto(n.run, 4) ELSE 0
  /\ m.since = IF t.acc = <<"store">> THEN 0 ELSE Upto(n.since, 3)

\* No sequence polls.
LEMMA PollPlaces ==
  \A r \in DOMAIN Microcode : \A k \in DOMAIN Microcode[r] :
    Stage(r, k) \in PollUops => r \notin {"BRK", "NMI", "IRQ", "RESET", "Fetch1_NoInterrupt"}
<1> SUFFICES ASSUME NEW r \in {"BRK", "NMI", "IRQ", "RESET", "Fetch1_NoInterrupt"},
                    NEW k \in DOMAIN Microcode[r]
             PROVE  Stage(r, k) \notin PollUops
  OBVIOUS
<1>1. k \in 1..8
  BY DEF Microcode
<1>2. k = 1 \/ k = 2 \/ k = 3 \/ k = 4 \/ k = 5 \/ k = 6 \/ k = 7 \/ k = 8
  BY <1>1
<1> QED
  BY <1>2 DEF Stage, PollUops, Microcode

\* After a store comes another, or the end of the row.
LEMMA StoreNext ==
  \A r \in DOMAIN Microcode : \A k \in DOMAIN Microcode[r] :
    Stage(r, k) \in StoreUops => Stage(r, k + 1) \in StoreUops \cup {"End"}
<1>1. /\ \A r \in {"AbsWrite"} : Stage(r, 4) = "End"
      /\ \A r \in {"AbsIdxWrite", "AbsIdxSHx"} : Stage(r, 5) = "End"
      /\ \A r \in {"IdxIndWrite", "IndIdxWrite", "IndIdxSHx", "AbsRmw"} : Stage(r, 6) = "End"
      /\ Stage("AbsIdxRmw", 7) = "End" /\ Stage("IdxIndRmw", 8) = "End"
      /\ Stage("IndIdxRmw", 8) = "End"
      /\ Stage("AbsRmw", 5) = "Abs_RMW_Stage6" /\ Stage("AbsIdxRmw", 6) = "AbsIdx_RMW_Stage7"
      /\ Stage("IdxIndRmw", 7) = "IdxInd_Stage8_RMW"
      /\ Stage("IndIdxRmw", 7) = "IndIdx_RMW_Stage8"
  BY DEF Stage, Microcode
<1> SUFFICES ASSUME NEW r \in DOMAIN Microcode, NEW k \in DOMAIN Microcode[r],
                    Stage(r, k) \in StoreUops
             PROVE  Stage(r, k + 1) \in StoreUops \cup {"End"}
  OBVIOUS
<1>2. Places(r, k) /\ IndexedPlaces(r, k)
  BY Table
<1> QED
  BY <1>1, <1>2 DEF Places, IndexedPlaces, StoreUops, PlainStoreUops, MaskUops

\* Where b stands in the table.
LEMMA Where ==
  ASSUME NEW b, Ready(b)
  PROVE  /\ b.row \in DOMAIN Microcode /\ b.mi \in 0..7
         /\ b.mi + 1 \in DOMAIN Microcode[b.row] /\ b.mi + 1 \in 1..8
         /\ Uop(b) = Stage(b.row, b.mi + 1)
         /\ RowFacts(b.row, b.mi + 1)
         /\ Uop(b) \in SkipUops => b.row \in {"AbsIdx", "IndIdx"} /\ b.mi >= 2
         /\ Uop(b) \in PollUops =>
              b.row \notin {"BRK", "NMI", "IRQ", "RESET", "Fetch1_NoInterrupt"}
<1>1. /\ b.row \in DOMAIN Microcode /\ b.mi \in Int
      /\ b.mi + 1 \in DOMAIN Microcode[b.row]
      /\ Uop(b) = Stage(b.row, b.mi + 1)
  BY PlaceOf
<1>2. Follows(b.row, b.mi + 1) /\ RowFacts(b.row, b.mi + 1) /\ Places(b.row, b.mi + 1)
  BY <1>1, Table
<1>3. b.mi + 1 \in 1..8
  BY <1>2 DEF Follows
<1>4. b.mi \in 0..7
  BY <1>1, <1>3
<1>5. Uop(b) \in SkipUops => b.row \in {"AbsIdx", "IndIdx"} /\ b.mi >= 2
  BY <1>1, <1>2 DEF Places, SkipUops
<1>6. Uop(b) \in PollUops =>
        b.row \notin {"BRK", "NMI", "IRQ", "RESET", "Fetch1_NoInterrupt"}
  BY <1>1, PollPlaces
<1> QED
  BY <1>1, <1>2, <1>3, <1>4, <1>5, <1>6

\* An index in place is that of a stage.
LEMMA IndexInPlace ==
  ASSUME NEW t, InPlace(t)
  PROVE  t.mi \in 0..7
<1>1. t.row \in DOMAIN Microcode /\ t.mi \in -1..7 /\ t.mi + 1 \in DOMAIN Microcode[t.row]
  BY DEF InPlace, CpuState
<1>2. t.mi + 1 \in 1..8
  BY <1>1, Table DEF Follows
<1> QED
  BY <1>1, <1>2

\* A row is entered at an opcode fetch and nowhere else.
LEMMA FetchedOnly ==
  ASSUME NEW b, Ready(b), NEW t, Outcome(b, t), Fetched(t)
  PROVE  Fetching(b, t) /\ Uop(b) \in PollUops \cup FetchUops
<1>1. b.mi \in 0..7
  BY Where
<1>2. ~Stays(b, t)
  BY <1>1 DEF Stays, Fetched
<1>3. ~Turned(b, t) /\ ~Taking(b, t, "NMI") /\ ~Taking(b, t, "IRQ")
  BY LabelsDiffer DEF Turned, Taking, Fetched
<1> QED
  BY <1>2, <1>3 DEF Outcome, Polling

\* Where a row ends no store is under way and no vector is due.
LEMMA FetchRows ==
  ASSUME NEW b, Ready(b), Uop(b) \in FetchUops
  PROVE  \/ b.row = "Fetch1_NoInterrupt"
         \/ b.row = "BRK" /\ b.mi = 6
         \/ b.row \in {"NMI", "IRQ", "RESET"} /\ b.mi = 7
  BY Where DEF RowFacts, FetchUops

\* A sequence keeps its vector until it fetches it.
LEMMA AimedStep ==
  ASSUME NEW b, Ready(b), Aimed(b), NEW t, Outcome(b, t)
  PROVE  Aimed(t)
<1>1. CASE Stays(b, t)
  <2> DEFINE k == b.mi + 1
  <2>1. /\ b.mi \in 0..7 /\ RowFacts(b.row, k) /\ Uop(b) = Stage(b.row, k)
        /\ Uop(b) \in SkipUops => b.row \in {"AbsIdx", "IndIdx"}
    BY Where
  <2>2. ASSUME t.row \in {"NMI", "IRQ", "BRK", "RESET"}
        PROVE  /\ b.row = t.row
               /\ t.mi = IF t.rdy_freeze THEN b.mi ELSE b.mi + 1
    BY <1>1, <2>1, <2>2 DEF Stays
  <2>3. ASSUME t.row \in {"NMI", "IRQ"}, t.mi <= 5
        PROVE  t.ea = IF t.row = "NMI" THEN "nmi" ELSE "irq"
    <3>1. b.row = t.row /\ b.mi <= 5
      BY <2>1, <2>2, <2>3
    <3>2. b.ea = IF t.row = "NMI" THEN "nmi" ELSE "irq"
      BY <2>3, <3>1 DEF Aimed
    <3>3. CASE Uop(b) \notin VectorUops
      BY <1>1, <3>2, <3>3 DEF Stays
    <3>4. CASE Uop(b) \in FlagUops
      BY <1>1, <2>1, <2>3, <3>1, <3>4 DEF Stays, Vectors, RowFacts, FlagUops
    <3>5. CASE Uop(b) = "FetchPCLVector"
      <4>1. b.mi = 5
        BY <2>1, <2>3, <3>1, <3>5 DEF RowFacts
      <4>2. t.rdy_freeze
        BY <2>1, <2>2, <2>3, <4>1
      <4> QED
        BY <1>1, <3>2, <3>5, <4>2 DEF Stays, Vectors
    <3>6. Uop(b) \notin {"PushP_Reset", "FetchPCHVector"}
      BY <2>1, <2>3, <3>1 DEF RowFacts
    <3> QED
      BY <3>3, <3>4, <3>5, <3>6 DEF VectorUops
  <2>4. ASSUME t.row = "BRK", t.mi = 4
        PROVE  t.ea = "irq"
    <3>1. b.row = "BRK" /\ t.mi = IF t.rdy_freeze THEN b.mi ELSE b.mi + 1
      BY <2>2, <2>4
    <3>2. CASE t.rdy_freeze
      <4>1. b.mi = 4 /\ Uop(b) = "FetchPCLVector" /\ b.ea = "irq"
        BY <2>1, <2>4, <3>1, <3>2 DEF RowFacts, Aimed
      <4> QED
        BY <1>1, <3>2, <4>1 DEF Stays, Vectors
    <3>3. CASE ~t.rdy_freeze
      <4>1. b.mi = 3
        BY <2>1, <2>4, <3>1, <3>3
      <4>2. Uop(b) = "PushP_BRK"
        BY <2>1, <3>1, <4>1 DEF RowFacts
      <4> QED
        BY <1>1, <4>2 DEF Stays, Vectors, FlagUops
    <3> QED
      BY <3>2, <3>3
  <2>5. ASSUME t.row = "RESET", t.mi = 5
        PROVE  t.ea = "reset"
    <3>1. b.row = "RESET" /\ t.mi = IF t.rdy_freeze THEN b.mi ELSE b.mi + 1
      BY <2>2, <2>5
    <3>2. CASE t.rdy_freeze
      <4>1. b.mi = 5 /\ b.ea = "reset"
        BY <2>1, <2>5, <3>1, <3>2 DEF Aimed
      <4>2. Uop(b) \notin FlagUops \cup {"PushP_Reset", "FetchPCHVector"}
        BY <2>1, <3>1, <4>1 DEF RowFacts, FlagUops
      <4> QED
        BY <1>1, <3>2, <4>1, <4>2 DEF Stays, Vectors, VectorUops
    <3>3. CASE ~t.rdy_freeze
      <4>1. b.mi = 4
        BY <2>1, <2>5, <3>1, <3>3
      <4>2. Uop(b) = "PushP_Reset"
        BY <2>1, <3>1, <4>1 DEF RowFacts
      <4> QED
        BY <1>1, <3>3, <4>2 DEF Stays, Vectors
    <3> QED
      BY <3>2, <3>3
  <2> QED
    BY <2>3, <2>4, <2>5 DEF Aimed
<1>2. CASE Turned(b, t)
  BY <1>2 DEF Turned, Aimed
<1>3. CASE Fetching(b, t)
  BY <1>3, LabelsDiffer DEF Fetching, Aimed
<1>4. CASE Taking(b, t, "NMI") \/ Taking(b, t, "IRQ")
  BY <1>4 DEF Taking, Aimed
<1> QED
  BY <1>1, <1>2, <1>3, <1>4 DEF Outcome, Polling

\* An NMI is vectored to once for each time it was latched.
LEMMA OwesStep ==
  ASSUME NEW b, Ready(b), Aimed(b), NEW t, Outcome(b, t),
         NEW n \in History, Owes(b, n), NEW m, Recorded(b, n, t, m)
  PROVE  Owes(t, m)
<1> DEFINE k == b.mi + 1
           Due(s) == IF s.NMI THEN 1 ELSE 0
           Under(s) == IF s.row = "NMI" /\ s.mi <= 5 THEN 1 ELSE 0
<1>1. /\ b.mi \in 0..7 /\ RowFacts(b.row, k) /\ Uop(b) = Stage(b.row, k)
      /\ Uop(b) \in SkipUops => b.row \in {"AbsIdx", "IndIdx"}
      /\ Uop(b) \in PollUops => b.row \notin {"BRK", "NMI", "IRQ", "RESET"}
  BY Where
<1>2. n.owed = Due(b) + Under(b) /\ n.owed \in Int
  BY DEF Owes, History
<1>3. CASE Stays(b, t) /\ Uop(b) # "FetchPCLVector"
  <2>1. m.owed = n.owed /\ t.NMI = b.NMI /\ t.row = b.row
    BY <1>3 DEF Recorded, Stays
  <2>2. Under(t) = Under(b)
    <3>1. ASSUME b.row = "NMI" PROVE t.mi <= 5 <=> b.mi <= 5
      <4>1. t.mi = IF t.rdy_freeze THEN b.mi ELSE b.mi + 1
        BY <1>1, <1>3, <3>1 DEF Stays
      <4>2. b.mi # 5
        BY <1>1, <1>3, <3>1 DEF RowFacts
      <4> QED
        BY <1>1, <4>1, <4>2
    <3> QED
      BY <2>1, <3>1
  <2> QED
    BY <1>2, <2>1, <2>2 DEF Owes
<1>4. CASE Stays(b, t) /\ Uop(b) = "FetchPCLVector"
  <2>1. \/ b.row = "BRK" /\ b.mi = 4
        \/ b.row \in {"NMI", "IRQ", "RESET"} /\ b.mi = 5
    <3>1. \/ b.row = "BRK" /\ k = 5
          \/ b.row \in {"NMI", "IRQ", "RESET"} /\ k = 6
      BY <1>1, <1>4 DEF RowFacts
    <3> QED
      BY <1>1, <3>1
  <2>2. t.row = b.row /\ t.mi = IF t.rdy_freeze THEN b.mi ELSE b.mi + 1
    BY <1>1, <1>4, <2>1 DEF Stays
  <2>3. /\ (b.row = "BRK" /\ b.mi = 4) \/ (b.row \in {"NMI", "IRQ", "RESET"} /\ b.mi = 5)
        /\ t.row = b.row /\ t.mi = IF t.rdy_freeze THEN b.mi ELSE b.mi + 1
    BY <2>1, <2>2
  <2>4. IF t.rdy_freeze THEN t.NMI = b.NMI /\ t.ea = b.ea
        ELSE IF b.NMI /\ b.ea = "irq" THEN ~t.NMI /\ t.ea = "nmi"
        ELSE t.NMI = b.NMI /\ t.ea = b.ea
    BY <1>4 DEF Stays, Vectors
  <2>5. b.ea = CASE b.row = "NMI" -> "nmi" [] b.row \in {"BRK", "IRQ"} -> "irq"
                 [] OTHER -> "reset"
    BY <2>3 DEF Aimed
  <2>6. m.owed = IF ~t.rdy_freeze /\ t.ea = "nmi" THEN n.owed - 1 ELSE n.owed
    BY <1>4 DEF Recorded
  <2>7. CASE t.rdy_freeze
    BY <1>2, <2>3, <2>4, <2>6, <2>7 DEF Owes
  <2>8. CASE ~t.rdy_freeze /\ b.row = "NMI"
    <3>1. t.ea = "nmi" /\ t.NMI = b.NMI /\ t.mi = 6 /\ b.mi = 5
      BY <2>3, <2>4, <2>5, <2>8
    <3>2. Under(b) = 1 /\ Under(t) = 0
      BY <2>8, <3>1
    <3> QED
      BY <1>2, <2>6, <2>8, <3>1, <3>2 DEF Owes
  <2>9. CASE ~t.rdy_freeze /\ b.row # "NMI"
    <3>1. Under(b) = 0 /\ Under(t) = 0
      BY <2>3, <2>9
    <3>2. CASE b.NMI /\ b.ea = "irq"
      BY <1>2, <2>4, <2>6, <2>9, <3>1, <3>2 DEF Owes
    <3>3. CASE ~(b.NMI /\ b.ea = "irq")
      <4>1. t.ea # "nmi" /\ t.NMI = b.NMI
        BY <2>3, <2>4, <2>5, <2>9, <3>3
      <4> QED
        BY <1>2, <2>6, <3>1, <4>1 DEF Owes
    <3> QED
      BY <3>2, <3>3
  <2> QED
    BY <2>7, <2>8, <2>9
<1>5. CASE Turned(b, t) /\ Uop(b) \in BranchUops
  <2>1. Uop(b) # "FetchPCLVector" /\ b.row # "NMI"
    BY <1>1, <1>5 DEF BranchUops, RowFacts
  <2>2. m.owed = n.owed /\ t.NMI = b.NMI /\ t.row # "NMI"
    BY <1>5, <2>1 DEF Recorded, Turned
  <2> QED
    BY <1>2, <2>1, <2>2 DEF Owes
<1>6. CASE Fetching(b, t) /\ Uop(b) \in PollUops \cup FetchUops
  <2>1. Uop(b) # "FetchPCLVector" /\ (b.row = "NMI" => b.mi = 7)
    BY <1>1, <1>6, FetchRows DEF PollUops, FetchUops
  <2>2. m.owed = n.owed /\ t.NMI = b.NMI /\ t.row # "NMI"
    BY <1>6, <2>1, LabelsDiffer DEF Recorded, Fetching
  <2> QED
    BY <1>2, <2>1, <2>2 DEF Owes
<1>7. CASE Uop(b) \in PollUops /\ b.NMI /\ Taking(b, t, "NMI")
  <2>1. Uop(b) # "FetchPCLVector" /\ b.row # "NMI"
    BY <1>1, <1>7 DEF PollUops
  <2>2. m.owed = n.owed /\ ~t.NMI /\ t.row = "NMI" /\ t.mi <= 5
    BY <1>7, <2>1 DEF Recorded, Taking
  <2> QED
    BY <1>2, <1>7, <2>1, <2>2 DEF Owes
<1>8. CASE Uop(b) \in PollUops /\ Taking(b, t, "IRQ")
  <2>1. Uop(b) # "FetchPCLVector" /\ b.row # "NMI"
    BY <1>1, <1>8 DEF PollUops
  <2>2. m.owed = n.owed /\ t.NMI = b.NMI /\ t.row = "IRQ"
    BY <1>8, <2>1 DEF Recorded, Taking
  <2> QED
    BY <1>2, <2>1, <2>2 DEF Owes
<1> QED
  BY <1>3, <1>4, <1>5, <1>6, <1>7, <1>8 DEF Outcome, Polling

\* What is waiting is noticed in every cycle.
Noticed(b) == Interrupted(b) => b.interrupt_pending

\* What Waited counts.
LEMMA WaitedIs ==
  ASSUME NEW w, NEW c \in 0..3, NEW t
  PROVE  /\ ~w => Waited(w, c, t) = 0
         /\ w /\ ~Fetched(t) => Waited(w, c, t) = c
         /\ w /\ Fetched(t) /\ c = 0 => Waited(w, c, t) = 1
  BY DEF Waited, Upto, Cap

\* An NMI sees one opcode fetched at most, then the poll takes it.
LEMMA NmiWaitsStep ==
  ASSUME NEW b, Ready(b), Aimed(b), Noticed(b), NEW t, Outcome(b, t),
         NEW n \in History, NmiWaits(b, n), NEW m, Recorded(b, n, t, m)
  PROVE  NmiWaits(t, m)
<1> DEFINE k == b.mi + 1
<1>1. /\ b.mi \in 0..7 /\ RowFacts(b.row, k) /\ Uop(b) = Stage(b.row, k)
      /\ Uop(b) \in SkipUops => b.row \in {"AbsIdx", "IndIdx"}
  BY Where
<1>2. /\ n.nmiWait \in 0..1 /\ n.nmiWait \in 0..3
      /\ m.nmiWait = Waited(t.NMI, n.nmiWait, t)
  BY DEF NmiWaits, Recorded
<1>3. CASE ~t.NMI
  <2>1. m.nmiWait = 0
    BY <1>2, <1>3, WaitedIs
  <2> QED
    BY <2>1 DEF NmiWaits
<1>4. CASE t.NMI /\ Fetched(t)
  <2>1. Fetching(b, t) /\ Uop(b) \in PollUops \cup FetchUops /\ ~t.rdy_freeze
    BY <1>4, FetchedOnly DEF Fetched
  <2>2. n.nmiWait = 0
    <3>1. CASE Uop(b) \in PollUops
      <4>1. b.NMI => b.branch_irq_hack
        <5>1. t.row # "NMI"
          BY <1>4, LabelsDiffer DEF Fetched
        <5>2. Polling(b, t)
          BY <2>1, <3>1 DEF Outcome, LeaveUops, PollUops, FetchUops, BranchUops
        <5> QED
          BY <5>1, <5>2 DEF Polling, Taking
      <4> QED
        BY <1>2, <4>1 DEF NmiWaits
    <3>2. CASE Uop(b) \in FetchUops
      BY <1>2, <3>2, FetchRows, LabelsDiffer DEF NmiWaits, Running
    <3> QED
      BY <2>1, <3>1, <3>2
  <2>3. m.nmiWait = 1
    BY <1>2, <1>4, <2>2, WaitedIs
  <2>4. ~t.branch_irq_hack /\ t.row \in Opcodes /\ t.mi = 0
    BY <2>1 DEF Fetching
  <2> QED
    BY <1>4, <2>3, <2>4 DEF NmiWaits, Running
<1>5. CASE t.NMI /\ ~Fetched(t)
  <2>1. m.nmiWait = n.nmiWait
    BY <1>2, <1>5, WaitedIs
  <2>2. SUFFICES ASSUME n.nmiWait = 1
                 PROVE  /\ ~t.branch_irq_hack /\ Running(t)
                        /\ t.row = "BRK" => t.mi <= 4
    BY <1>2, <1>5, <2>1, <2>2 DEF NmiWaits
  <2>3. /\ b.NMI /\ ~b.branch_irq_hack /\ Running(b)
        /\ b.row = "BRK" => b.mi <= 4
    BY <2>2 DEF NmiWaits
  <2>4. CASE Stays(b, t)
    <3>1. ~t.branch_irq_hack
      BY <2>3, <2>4 DEF Stays, Noticed, Interrupted
    <3>2. Running(t)
      BY <2>3, <2>4 DEF Running, Stays
    <3>3. ASSUME t.row = "BRK" PROVE t.mi <= 4
      <4>1. b.row = "BRK" /\ b.mi <= 4 /\ t.mi = IF t.rdy_freeze THEN b.mi ELSE b.mi + 1
        BY <1>1, <2>3, <2>4, <3>3 DEF Stays
      <4>2. CASE b.mi = 4 /\ ~t.rdy_freeze
        <5>1. Uop(b) = "FetchPCLVector" /\ b.ea = "irq"
          BY <1>1, <4>1, <4>2 DEF RowFacts, Aimed
        <5> QED
          BY <1>5, <2>3, <2>4, <4>2, <5>1 DEF Stays, Vectors
      <4> QED
        BY <1>1, <4>1, <4>2
    <3> QED
      BY <3>1, <3>2, <3>3
  <2>5. CASE Turned(b, t)
    BY <2>3, <2>5 DEF Turned, Running
  <2>6. ASSUME Uop(b) \in PollUops, Polling(b, t) PROVE FALSE
    BY <1>5, <2>3, <2>6 DEF Polling, Taking
  <2>7. Uop(b) \notin FetchUops
    BY <2>3, FetchRows, LabelsDiffer DEF Running
  <2> QED
    BY <2>4, <2>5, <2>6, <2>7 DEF Outcome
<1> QED
  BY <1>3, <1>4, <1>5

\* So does an IRQ, while it is unmasked.
LEMMA IrqWaitsStep ==
  ASSUME NEW b, Ready(b), Noticed(b), NEW t, Outcome(b, t),
         NEW n \in History, IrqWaits(b, n), NEW m, Recorded(b, n, t, m)
  PROVE  IrqWaits(t, m)
<1> DEFINE k == b.mi + 1
           w == t.IRQ /\ ~t.I
<1>1. /\ b.mi \in 0..7 /\ RowFacts(b.row, k) /\ Uop(b) = Stage(b.row, k)
      /\ Uop(b) \in SkipUops => b.row \in {"AbsIdx", "IndIdx"}
  BY Where
<1>2. /\ n.irqWait \in 0..1 /\ n.irqWait \in 0..3
      /\ m.irqWait = Waited(w, n.irqWait, t)
  BY DEF IrqWaits, Recorded
<1>3. CASE ~w
  <2>1. m.irqWait = 0
    BY <1>2, <1>3, WaitedIs
  <2> QED
    BY <2>1 DEF IrqWaits
<1>4. CASE w /\ Fetched(t)
  <2>1. Fetching(b, t) /\ Uop(b) \in PollUops \cup FetchUops /\ ~t.rdy_freeze
    BY <1>4, FetchedOnly DEF Fetched
  <2>2. n.irqWait = 0
    <3>1. CASE Uop(b) \in PollUops
      <4>1. b.IRQ /\ ~b.I => b.branch_irq_hack
        <5>1. t.row \notin {"NMI", "IRQ"}
          BY <1>4, LabelsDiffer DEF Fetched
        <5>2. Polling(b, t)
          BY <2>1, <3>1 DEF Outcome, LeaveUops, PollUops, FetchUops, BranchUops
        <5> QED
          BY <5>1, <5>2 DEF Polling, Taking
      <4>2. b.IRQ
        BY <1>4, <2>1 DEF Fetching
      <4> QED
        BY <1>2, <4>1, <4>2 DEF IrqWaits
    <3>2. CASE Uop(b) \in FetchUops
      BY <1>2, <3>2, FetchRows, LabelsDiffer DEF IrqWaits, Running
    <3> QED
      BY <2>1, <3>1, <3>2
  <2>3. m.irqWait = 1
    BY <1>2, <1>4, <2>2, WaitedIs
  <2>4. ~t.branch_irq_hack /\ t.row \in Opcodes /\ t.mi = 0
    BY <2>1 DEF Fetching
  <2> QED
    BY <1>4, <2>3, <2>4, LabelsDiffer DEF IrqWaits, Running
<1>5. CASE w /\ ~Fetched(t)
  <2>1. m.irqWait = n.irqWait
    BY <1>2, <1>5, WaitedIs
  <2>2. SUFFICES ASSUME n.irqWait = 1
                 PROVE  /\ ~t.branch_irq_hack
                        /\ Running(t) \/ t.row \in {"NMI", "IRQ"}
                        /\ t.row = "BRK" => t.mi <= 3
                        /\ t.row \in {"NMI", "IRQ"} => t.mi <= 4
    BY <1>2, <1>5, <2>1, <2>2 DEF IrqWaits
  <2>3. /\ ~b.I /\ ~b.branch_irq_hack
        /\ Running(b) \/ b.row \in {"NMI", "IRQ"}
        /\ b.row = "BRK" => b.mi <= 3
        /\ b.row \in {"NMI", "IRQ"} => b.mi <= 4
    BY <2>2 DEF IrqWaits
  <2>4. CASE Stays(b, t)
    <3>1. ~t.branch_irq_hack
      BY <1>5, <2>3, <2>4 DEF Stays, Noticed, Interrupted
    <3>2. Running(t) \/ t.row \in {"NMI", "IRQ"}
      BY <2>3, <2>4 DEF Running, Stays
    <3>3. Uop(b) \notin FlagUops
      BY <1>5, <2>4 DEF Stays, Vectors
    <3>4. ASSUME t.row \in {"BRK", "NMI", "IRQ"}
          PROVE  b.row = t.row /\ t.mi = IF t.rdy_freeze THEN b.mi ELSE b.mi + 1
      BY <1>1, <2>4, <3>4 DEF Stays
    <3>5. ASSUME t.row = "BRK" PROVE t.mi <= 3
      <4>1. b.row = "BRK" /\ b.mi <= 3 /\ t.mi = IF t.rdy_freeze THEN b.mi ELSE b.mi + 1
        BY <2>3, <3>4, <3>5
      <4>2. b.mi # 3
        BY <1>1, <3>3, <4>1 DEF RowFacts, FlagUops
      <4> QED
        BY <1>1, <4>1, <4>2
    <3>6. ASSUME t.row \in {"NMI", "IRQ"} PROVE t.mi <= 4
      <4>1. b.row = t.row /\ b.mi <= 4 /\ t.mi = IF t.rdy_freeze THEN b.mi ELSE b.mi + 1
        BY <2>3, <3>4, <3>6
      <4>2. b.mi # 4
        BY <1>1, <3>3, <3>6, <4>1 DEF RowFacts, FlagUops
      <4> QED
        BY <1>1, <4>1, <4>2
    <3> QED
      BY <3>1, <3>2, <3>5, <3>6
  <2>5. CASE Turned(b, t)
    BY <2>3, <2>5 DEF Turned, Running
  <2>6. CASE Taking(b, t, "NMI") \/ Taking(b, t, "IRQ")
    BY <2>3, <2>6 DEF Taking
  <2>7. ASSUME Polling(b, t), Fetching(b, t), ~Taking(b, t, "NMI"), ~Taking(b, t, "IRQ")
        PROVE  FALSE
    BY <1>5, <2>3, <2>7 DEF Polling, Fetching
  <2>8. Uop(b) \notin FetchUops
    BY <2>3, FetchRows, LabelsDiffer DEF Running
  <2> QED
    BY <2>4, <2>5, <2>6, <2>7, <2>8 DEF Outcome, Polling
<1> QED
  BY <1>3, <1>4, <1>5

\* CLI, SEI and PLP leave the mask to the poll.
LEMMA MaskStep ==
  ASSUME NEW b, Ready(b), NEW t, Outcome(b, t),
         NEW n \in History, MaskKept(b, n), NEW m, Recorded(b, n, t, m)
  PROVE  MaskKept(t, m)
<1>1. SUFFICES ASSUME t.row \in {"CLI", "SEI", "PLP"}
               PROVE  t.I = m.iAtFetch
  BY DEF MaskKept
<1>2. CASE Fetched(t)
  BY <1>2 DEF Recorded
<1>3. CASE ~Fetched(t)
  <2>1. Stays(b, t)
    <3>1. ~Turned(b, t) /\ ~Taking(b, t, "NMI") /\ ~Taking(b, t, "IRQ")
      BY <1>1 DEF Turned, Taking
    <3>2. ~Fetching(b, t)
      BY <1>1, <1>3, LabelsDiffer DEF Fetching, Fetched
    <3> QED
      BY <3>1, <3>2 DEF Outcome, Polling
  <2>2. b.row \in {"CLI", "SEI", "PLP"}
    BY <1>1, <2>1 DEF Stays
  <2>3. Uop(b) \notin FlagUops \cup {"PushP_Reset", "PullP"}
    BY <2>2, Where DEF RowFacts, FlagUops
  <2>4. t.I = b.I
    BY <2>1, <2>3 DEF Stays
  <2>5. b.I = n.iAtFetch
    BY <2>2 DEF MaskKept
  <2>6. m.iAtFetch = n.iAtFetch
    BY <1>3 DEF Recorded
  <2> QED
    BY <2>4, <2>5, <2>6
<1> QED
  BY <1>2, <1>3

-----------------------------------------------------------------------------
(***************************************************************************)
(* The writes.                                                             *)
(***************************************************************************)
WriteUses == {<<"push">>, <<"zp">>, <<"store">>}

\* Writes are not reads, and no cycle makes two accesses but LAX abs.
LEMMA UsesDiffer ==
  /\ WriteUses \cap {<<>>, <<"read">>, <<"dummy">>, <<"read", "read">>} = {}
  /\ <<"store">> \notin {<<"push">>, <<"zp">>}
  /\ \A a \in BusUses : Len(a) > 1 => a = <<"read", "read">>
  /\ {<<"read">>, <<"dummy">>, <<"read", "read">>} \cap {<<>>} = {}
<1>1. /\ WriteUses \cap {<<>>, <<"read">>, <<"dummy">>, <<"read", "read">>} = {}
      /\ <<"store">> \notin {<<"push">>, <<"zp">>}
  BY DEF WriteUses
<1>2. \A a \in BusUses : Len(a) > 1 => a = <<"read", "read">>
  <2> SUFFICES ASSUME NEW a \in BusUses PROVE Len(a) > 1 => a = <<"read", "read">>
    OBVIOUS
  <2>1. CASE a = <<>>
    <3>1. ~(Len(a) > 1)
      BY <2>1
    <3> QED BY <3>1
  <2>2. ASSUME NEW k \in Kinds, a = <<k>> PROVE ~(Len(a) > 1)
    <3>1. Len(a) = 1
      BY <2>2
    <3> QED BY <3>1
  <2>3. CASE a \in {<<k>> : k \in Kinds}
    BY <2>2, <2>3
  <2> QED
    BY <2>1, <2>3 DEF BusUses
<1>3. {<<"read">>, <<"dummy">>, <<"read", "read">>} \cap {<<>>} = {}
  OBVIOUS
<1> QED
  BY <1>1, <1>2, <1>3

\* A write is made by the stages that write, and they always make theirs.
LEMMA WritingStage ==
  ASSUME NEW b, Ready(b), NEW t, Outcome(b, t), t.acc \in WriteUses
  PROVE  /\ Stays(b, t) /\ Uop(b) \in WriteUops
         /\ ~t.rdy_freeze /\ t.mi = b.mi + 1
         /\ t.acc = <<"store">> <=> Uop(b) \in StoreUops
<1>1. t.acc \notin {<<>>, <<"read">>, <<"dummy">>, <<"read", "read">>}
  BY UsesDiffer
<1>2. ~Turned(b, t) /\ ~Fetching(b, t) /\ ~Taking(b, t, "NMI") /\ ~Taking(b, t, "IRQ")
  BY <1>1 DEF Turned, Fetching, Taking
<1>3. Stays(b, t)
  BY <1>2 DEF Outcome, Polling
<1>4. Uop(b) \in WriteUops /\ ~t.rdy_freeze
  BY <1>1, <1>3 DEF Stays, Uses
<1>5. Uop(b) \notin SkipUops
  BY <1>4 DEF WriteUops, StoreUops, PlainStoreUops, MaskUops, ZpUops, PushUops, FlagUops,
    SkipUops
<1>6. t.acc = <<"store">> <=> Uop(b) \in StoreUops
  BY <1>3, <1>4, UsesDiffer DEF Stays, Uses
<1> QED
  BY <1>3, <1>4, <1>5, <1>6 DEF Stays

\* A run of writes follows the stages of its row.
LEMMA RunStep ==
  ASSUME NEW b, Ready(b), NEW t, InPlace(t), Outcome(b, t),
         NEW n \in History, RunTrails(b, n), NEW m, Recorded(b, n, t, m)
  PROVE  RunTrails(t, m) /\ m.run <= 3
<1> DEFINE k == b.mi + 1
<1>1. /\ b.mi \in 0..7 /\ k \in DOMAIN Microcode[b.row] /\ b.row \in DOMAIN Microcode
      /\ Uop(b) = Stage(b.row, k)
  BY Where
<1>2. t.mi \in 0..7 /\ n.run \in 0..4
  BY IndexInPlace DEF History, Cap
<1>3. CASE t.acc \notin WriteUses
  <2>1. m.run = 0
    BY <1>3 DEF Recorded, WriteUses
  <2> QED
    BY <1>2, <2>1 DEF RunTrails
<1>4. CASE t.acc \in WriteUses
  <2>1. /\ Uop(b) \in WriteUops /\ t.mi = b.mi + 1 /\ t.row = b.row
    BY <1>4, WritingStage DEF Stays
  <2>2. /\ k > 1
        /\ k > 3 => NoWrite(b.row, k - 1) \/ NoWrite(b.row, k - 2) \/ NoWrite(b.row, k - 3)
    BY <1>1, <2>1, WritePlaces
  <2>3. /\ n.run <= 3 /\ n.run <= b.mi
        /\ \A d \in 1..3 : d <= n.run => Stage(b.row, k - d) \in WriteUops
    <3>1. b.mi # 0
      BY <1>1, <2>2
    <3> QED
      BY <3>1 DEF RunTrails
  <2>4. n.run # 3
    <3> SUFFICES ASSUME n.run = 3 PROVE FALSE
      OBVIOUS
    <3>1. k > 3
      BY <1>1, <2>3
    <3>2. /\ Stage(b.row, k - 1) \in WriteUops /\ Stage(b.row, k - 2) \in WriteUops
          /\ Stage(b.row, k - 3) \in WriteUops
      BY <2>3
    <3> QED
      BY <2>2, <3>1, <3>2 DEF NoWrite
  <2>5. m.run = n.run + 1
    BY <1>2, <1>4, <2>3 DEF Recorded, Upto, WriteUses
  <2>6. m.run <= 3 /\ m.run <= t.mi
    BY <1>1, <1>2, <2>1, <2>3, <2>4, <2>5
  <2>7. ASSUME NEW d \in 1..3, d <= m.run
        PROVE  Stage(t.row, (t.mi + 1) - d) \in WriteUops
    <3>1. CASE d = 1
      <4>1. (t.mi + 1) - d = k
        BY <1>1, <2>1, <3>1
      <4> QED
        BY <1>1, <2>1, <4>1
    <3>2. CASE d # 1
      <4> DEFINE e == d - 1
      <4>1. e \in 1..3 /\ e <= n.run /\ (t.mi + 1) - d = k - e
        BY <1>1, <1>2, <2>1, <2>5, <2>7, <3>2
      <4>2. Stage(b.row, k - e) \in WriteUops
        BY <2>3, <4>1
      <4> QED
        BY <2>1, <4>1, <4>2
    <3> QED
      BY <3>1, <3>2
  <2> QED
    BY <2>6, <2>7 DEF RunTrails
<1> QED
  BY <1>3, <1>4

\* The places of a row begin with 1.
LEMMA StageBefore ==
  \A r \in DOMAIN Microcode : \A k \in DOMAIN Microcode[r] :
    k > 1 => k - 1 \in DOMAIN Microcode[r]
<1> SUFFICES ASSUME NEW r \in Opcodes \cup Vops, NEW k \in DOMAIN Microcode[r]
             PROVE  k > 1 => k - 1 \in DOMAIN Microcode[r]
  BY TableDomain
<1>1. k \in 1..8
  BY Table, TableDomain DEF Follows
<1>2. k = 1 \/ k = 2 \/ k = 3 \/ k = 4 \/ k = 5 \/ k = 6 \/ k = 7 \/ k = 8
  BY <1>1
<1> QED
  BY <1>2 DEF Microcode, Opcodes, LowOpcodes, HighOpcodes, Vops

\* The cycles since the last store are those of the row at least.
LEMMA ApartStep ==
  ASSUME NEW b, Ready(b), NEW t, InPlace(t), Outcome(b, t),
         NEW n \in History, StoresApart(b, n), NEW m, Recorded(b, n, t, m)
  PROVE  StoresApart(t, m)
<1> DEFINE k == b.mi + 1
<1>1. /\ b.mi \in 0..7 /\ k \in DOMAIN Microcode[b.row] /\ b.row \in DOMAIN Microcode
      /\ Uop(b) = Stage(b.row, k) /\ RowFacts(b.row, k)
      /\ Uop(b) \in SkipUops => b.row \in {"AbsIdx", "IndIdx"} /\ b.mi >= 2
      /\ Uop(b) \in PollUops => b.row \notin {"NMI", "IRQ", "RESET"}
  BY Where
<1>2. /\ t.mi \in 0..7 /\ n.since \in 0..3 /\ n.run \in 0..4
      /\ m.since = IF t.acc = <<"store">> THEN 0 ELSE IF n.since < 3 THEN n.since + 1 ELSE 3
  BY IndexInPlace DEF History, Cap, Recorded, Upto
<1>3. CASE t.acc = <<"store">>
  <2>1. t.acc \in WriteUses
    BY <1>3 DEF WriteUses
  <2>2. Uop(b) \in StoreUops /\ t.mi = k /\ t.row = b.row
    BY <1>3, <2>1, WritingStage DEF Stays
  <2>3. m.run = Upto(n.run, 4)
    BY <2>1 DEF Recorded, WriteUses
  <2>4. m.since = 0 /\ m.run >= 1 /\ t.mi >= 1
    BY <1>1, <1>2, <1>3, <2>2, <2>3 DEF Upto
  <2> QED
    BY <1>1, <2>2, <2>4 DEF StoresApart
<1>4. CASE t.acc # <<"store">>
  <2>1. m.since >= 1 /\ (m.since >= n.since + 1 \/ m.since >= 3) /\ m.since \in Int
    BY <1>2, <1>4
  <2>2. CASE Uop(b) \notin LeaveUops /\ Stays(b, t)
    <3>1. /\ t.row = b.row
          /\ t.mi <= k \/ (Uop(b) \in SkipUops /\ t.mi <= k + 1)
      BY <1>1, <2>2 DEF Stays
    <3>2. CASE n.since >= 3
      BY <2>1, <3>2, <1>2 DEF StoresApart
    <3>3. CASE b.row \in {"NMI", "IRQ", "RESET"} /\ n.since >= b.mi
      <4>1. m.since >= t.mi \/ m.since >= 3
        BY <1>1, <1>2, <2>1, <3>1, <3>3
      <4> QED
        BY <3>1, <3>3, <4>1 DEF StoresApart
    <3>4. CASE n.since >= k
      <4>1. m.since >= t.mi + 1 \/ m.since >= 3
        BY <1>1, <1>2, <2>1, <3>1, <3>4
      <4> QED
        BY <4>1 DEF StoresApart
    <3>5. CASE n.since = 0 /\ n.run >= 1 /\ b.mi >= 1 /\ Stage(b.row, b.mi) \in StoreUops
      <4>1. b.mi \in DOMAIN Microcode[b.row]
        <5>1. k > 1 /\ k - 1 = b.mi
          BY <1>1, <3>5
        <5> QED
          BY <1>1, <5>1, StageBefore
      <4>2. Uop(b) \in StoreUops \cup {"End"}
        BY <1>1, <3>5, <4>1, StoreNext
      <4>3. Uop(b) \notin StoreUops
        BY <1>4, <2>2 DEF Stays, Uses
      <4>4. "End" \in LeaveUops
        BY DEF LeaveUops, PollUops
      <4> QED
        BY <2>2, <3>5, <4>2, <4>3, <4>4 DEF StoresApart
    <3>6. CASE n.since = 0 /\ b.row = "RESET" /\ b.mi = 0
      BY <1>2, <3>3, <3>6
    <3> QED
      BY <3>2, <3>3, <3>4, <3>5, <3>6 DEF StoresApart
  <2>3. CASE Turned(b, t) \/ Fetching(b, t)
    BY <2>1, <2>3 DEF Turned, Fetching, StoresApart
  <2>4. CASE Taking(b, t, "NMI") \/ Taking(b, t, "IRQ")
    BY <2>1, <2>4 DEF Taking, StoresApart
  <2> QED
    BY <2>2, <2>3, <2>4 DEF Outcome, Polling
<1> QED
  BY <1>3, <1>4

-----------------------------------------------------------------------------
(***************************************************************************)
(* The steps of the specification.                                         *)
(***************************************************************************)
CpuInv ==
  /\ InPlace(mos) /\ seen \in History
  /\ Aimed(mos) /\ Owes(mos, seen)
  /\ NmiWaits(mos, seen) /\ IrqWaits(mos, seen)
  /\ MaskKept(mos, seen)
  /\ RunTrails(mos, seen) /\ StoresApart(mos, seen)

\* The state b that a cycle with the pin IRQ at irq runs its stage from.
Drives(b, irq) ==
  /\ Ready(b) /\ Noticed(b)
  /\ b.row = mos.row /\ b.mi = mos.mi /\ b.I = mos.I /\ b.ea = mos.ea
  /\ b.iflag_pending = mos.iflag_pending /\ b.branch_irq_hack = mos.branch_irq_hack
  /\ b.NMI = mos.NMI /\ b.IRQ = irq
  /\ Uop(b) = Uop(mos)

\* Setting the pin IRQ changes nothing else.
LEMMA PinSet ==
  ASSUME InPlace(mos), NEW irq \in BOOLEAN
  PROVE  LET s == [mos EXCEPT !.IRQ = irq] IN
         /\ Runnable(s)
         /\ s.row = mos.row /\ s.mi = mos.mi /\ s.I = mos.I /\ s.ea = mos.ea
         /\ s.iflag_pending = mos.iflag_pending /\ s.NMI = mos.NMI /\ s.IRQ = irq
         /\ s.branch_irq_hack = mos.branch_irq_hack
         /\ s.interrupt_pending = mos.interrupt_pending /\ s.cross = mos.cross /\ s.H = mos.H
         /\ Uop(s) = Uop(mos)
<1> DEFINE s == [mos EXCEPT !.IRQ = irq]
<1>1. mos \in CpuState
  BY DEF InPlace
<1>2. /\ s \in CpuState
      /\ s.row = mos.row /\ s.mi = mos.mi /\ s.I = mos.I /\ s.ea = mos.ea
      /\ s.iflag_pending = mos.iflag_pending /\ s.NMI = mos.NMI /\ s.IRQ = irq
      /\ s.branch_irq_hack = mos.branch_irq_hack
      /\ s.interrupt_pending = mos.interrupt_pending /\ s.cross = mos.cross /\ s.H = mos.H
  BY <1>1 DEF CpuState
<1> HIDE DEF s
<1>3. Runnable(s) /\ Uop(s) = Uop(mos)
  BY <1>2 DEF Runnable, InPlace, Uop
<1> QED
  BY <1>2, <1>3 DEF s

\* A cycle of the specification, as an outcome and its history.
LEMMA CycleGives ==
  ASSUME InPlace(mos), NEW rdy \in BOOLEAN, NEW irq \in BOOLEAN, CpuCycle(rdy, irq)
  PROVE  \E b : /\ Drives(b, irq) /\ InPlace(mos') /\ Outcome(b, mos')
                /\ Recorded(b, seen, mos', seen')
<1> DEFINE s == [mos EXCEPT !.IRQ = irq]
<1>1. /\ Runnable(s)
      /\ s.row = mos.row /\ s.mi = mos.mi /\ s.I = mos.I /\ s.ea = mos.ea
      /\ s.iflag_pending = mos.iflag_pending /\ s.NMI = mos.NMI /\ s.IRQ = irq
      /\ s.branch_irq_hack = mos.branch_irq_hack
      /\ Uop(s) = Uop(mos)
  BY PinSet
<1>2. mos' \in ExecuteOne(s, rdy) /\ seen' = Record(mos')
  BY DEF CpuCycle
<1> HIDE DEF s
<1>3. PICK b : Begun(s, b) /\ InPlace(mos') /\ Outcome(b, mos')
  BY <1>1, <1>2, CycleOutcome
<1>4. Drives(b, irq)
  BY <1>1, <1>3 DEF Begun, Drives, Noticed, Interrupted
<1>5. Recorded(b, seen, mos', seen')
  BY <1>2, <1>4 DEF Drives, Record, Recorded, Cap
<1> QED
  BY <1>3, <1>4, <1>5

\* A cycle keeps the invariant.
LEMMA CpuCycleKeeps ==
  ASSUME CpuInv, NEW rdy \in BOOLEAN, NEW irq \in BOOLEAN, CpuCycle(rdy, irq)
  PROVE  CpuInv'
<1>1. PICK b : /\ Drives(b, irq) /\ InPlace(mos') /\ Outcome(b, mos')
               /\ Recorded(b, seen, mos', seen')
  BY CycleGives DEF CpuInv
<1>2. /\ Ready(b) /\ Noticed(b) /\ Aimed(b) /\ Owes(b, seen)
      /\ NmiWaits(b, seen) /\ IrqWaits(b, seen) /\ MaskKept(b, seen)
  BY <1>1 DEF Drives, CpuInv, Aimed, Owes, NmiWaits, IrqWaits, MaskKept, Running
<1>3. RunTrails(b, seen) /\ StoresApart(b, seen)
  BY <1>1 DEF Drives, CpuInv, RunTrails, StoresApart
<1>4. seen \in History
  BY DEF CpuInv
<1>5. Aimed(mos')
  BY <1>1, <1>2, AimedStep
<1>6. Owes(mos', seen')
  BY <1>1, <1>2, <1>4, OwesStep
<1>7. NmiWaits(mos', seen')
  BY <1>1, <1>2, <1>4, NmiWaitsStep
<1>8. IrqWaits(mos', seen')
  BY <1>1, <1>2, <1>4, IrqWaitsStep
<1>9. MaskKept(mos', seen')
  BY <1>1, <1>2, <1>4, MaskStep
<1>10. RunTrails(mos', seen') /\ seen'.run <= 3
  BY <1>1, <1>2, <1>3, <1>4, RunStep
<1>11. StoresApart(mos', seen')
  BY <1>1, <1>2, <1>3, <1>4, ApartStep
<1>12. seen' \in History
  <2>1. seen' = Record(mos')
    BY DEF CpuCycle
  <2>2. seen'.owed \in 0..3
    BY <1>6 DEF Owes
  <2>3. seen'.nmiWait \in 0..3 /\ seen'.irqWait \in 0..3
    BY <1>7, <1>8 DEF NmiWaits, IrqWaits
  <2>4. seen'.iAtFetch \in BOOLEAN
    BY <1>1, <1>4 DEF Recorded, InPlace, CpuState, History
  <2>5. seen'.run \in 0..4 /\ seen'.since \in 0..3
    BY <1>1, <1>4 DEF Recorded, Upto, History, Cap
  <2>6. seen' = [owed |-> seen'.owed, nmiWait |-> seen'.nmiWait, irqWait |-> seen'.irqWait,
                 iAtFetch |-> seen'.iAtFetch, run |-> seen'.run, since |-> seen'.since]
    BY <2>1 DEF Record
  <2> QED
    BY <2>2, <2>3, <2>4, <2>5, <2>6 DEF History, Cap
<1> QED
  BY <1>1, <1>5, <1>6, <1>7, <1>8, <1>9, <1>10, <1>11, <1>12 DEF CpuInv

\* So does an NMI between two cycles.
LEMMA RaiseKeeps ==
  ASSUME CpuInv, RaiseNmi
  PROVE  CpuInv'
<1>1. mos \in CpuState /\ seen \in History /\ ~mos.NMI
  BY DEF CpuInv, InPlace, RaiseNmi
<1>2. /\ mos' \in CpuState /\ mos'.NMI = TRUE /\ mos'.row = mos.row /\ mos'.mi = mos.mi
      /\ mos'.ea = mos.ea /\ mos'.I = mos.I /\ mos'.branch_irq_hack = mos.branch_irq_hack
  BY <1>1 DEF RaiseNmi, CpuState
<1>3. seen.owed \in 0..1
  BY <1>1 DEF CpuInv, Owes
<1>4. /\ seen' \in History /\ seen'.owed = seen.owed + 1
      /\ seen'.nmiWait = seen.nmiWait /\ seen'.irqWait = seen.irqWait
      /\ seen'.iAtFetch = seen.iAtFetch /\ seen'.run = seen.run /\ seen'.since = seen.since
  BY <1>1, <1>3 DEF RaiseNmi, History, Cap
<1>5. InPlace(mos')
  BY <1>2 DEF CpuInv, InPlace
<1>6. Aimed(mos') /\ MaskKept(mos', seen')
  BY <1>2, <1>4 DEF CpuInv, Aimed, MaskKept
<1>7. Owes(mos', seen')
  BY <1>1, <1>2, <1>3, <1>4 DEF CpuInv, Owes
<1>8. NmiWaits(mos', seen') /\ IrqWaits(mos', seen')
  BY <1>1, <1>2, <1>4 DEF CpuInv, NmiWaits, IrqWaits, Running
<1>9. RunTrails(mos', seen') /\ StoresApart(mos', seen')
  BY <1>2, <1>4 DEF CpuInv, RunTrails, StoresApart
<1> QED
  BY <1>4, <1>5, <1>6, <1>7, <1>8, <1>9 DEF CpuInv

\* So does the reset button.
LEMMA ResetKeeps ==
  ASSUME CpuInv, NESSoftReset
  PROVE  CpuInv'
<1> DEFINE e == <<>>
           z == 0
           o == IF mos.NMI THEN 1 ELSE 0
           none == 0
<1>1. mos \in CpuState /\ seen \in History
  BY DEF CpuInv, InPlace
<1>2. "RESET" \in DOMAIN Microcode /\ e \in BusUses /\ z \in -1..7 /\ z = 0
  BY TableDomain, BusUseFacts DEF Vops
<1>3. /\ mos' = [mos EXCEPT !.row = "RESET", !.mi = z, !.iflag_pending = TRUE, !.I = TRUE,
                            !.acc = e]
      /\ seen' = [seen EXCEPT !.owed = o, !.nmiWait = none, !.irqWait = none]
  BY DEF NESSoftReset
<1>4. o \in 0..3 /\ none \in 0..3 /\ none = 0
  OBVIOUS
<1> HIDE DEF e, z, o, none
<1>5. mos' \in CpuState /\ mos'.row = "RESET" /\ mos'.mi = z /\ mos'.NMI = mos.NMI
  BY <1>1, <1>2, <1>3 DEF CpuState
<1>6. /\ seen' \in History /\ seen'.owed = o /\ seen'.nmiWait = none /\ seen'.irqWait = none
      /\ seen'.since = seen.since
  BY <1>1, <1>3, <1>4 DEF History, Cap
<1>7. InPlace(mos')
  BY <1>2, <1>5, FirstStages DEF InPlace
<1>8. Owes(mos', seen')
  BY <1>5, <1>6 DEF Owes, o
<1>9. seen'.since \in 0..3
  BY <1>6 DEF History, Cap
<1>10. StoresApart(mos', seen')
  BY <1>2, <1>5, <1>9 DEF StoresApart
<1>11. Aimed(mos') /\ MaskKept(mos', seen') /\ RunTrails(mos', seen')
  BY <1>2, <1>5 DEF Aimed, MaskKept, RunTrails
<1>12. NmiWaits(mos', seen') /\ IrqWaits(mos', seen')
  BY <1>4, <1>6 DEF NmiWaits, IrqWaits
<1> QED
  BY <1>6, <1>7, <1>8, <1>10, <1>11, <1>12 DEF CpuInv

\* The invariant holds at power on.
LEMMA InitGives == CpuInit => CpuInv
<1> SUFFICES ASSUME CpuInit PROVE CpuInv
  OBVIOUS
<1> DEFINE e == <<>>
           z == 0
<1>1. "RESET" \in DOMAIN Microcode /\ e \in BusUses /\ z \in -1..7 /\ z = 0
  BY TableDomain, BusUseFacts DEF Vops
<1>2. mos \in [row : {"RESET"}, mi : {z}, I : {FALSE}, iflag_pending : {TRUE},
               interrupt_pending : BOOLEAN, branch_irq_hack : BOOLEAN,
               ea : {""}, cross : {FALSE}, H : {"0"}, NMI : {FALSE},
               IRQ : {FALSE}, rdy_freeze : {FALSE}, acc : {e}]
  BY DEF CpuInit
<1>3. /\ seen \in History /\ seen.owed = 0 /\ seen.nmiWait = 0 /\ seen.irqWait = 0
      /\ seen.since = 3
  <2>1. seen = [owed |-> 0, nmiWait |-> 0, irqWait |-> 0, iAtFetch |-> FALSE, run |-> 0,
                since |-> 3]
    BY DEF CpuInit, Cap
  <2>2. 0 \in 0..3 /\ 0 \in 0..4 /\ 3 \in 0..3
    OBVIOUS
  <2> QED
    BY <2>1, <2>2 DEF History, Cap
<1> HIDE DEF e, z
<1>4. mos.row = "RESET" /\ mos.mi = z /\ mos.NMI = FALSE
  BY <1>2
<1>5. mos \in CpuState
  BY <1>1, <1>2 DEF CpuState
<1>6. InPlace(mos)
  BY <1>1, <1>4, <1>5, FirstStages DEF InPlace
<1>7. Owes(mos, seen)
  BY <1>3, <1>4 DEF Owes
<1>8. StoresApart(mos, seen)
  BY <1>3 DEF StoresApart
<1>9. Aimed(mos) /\ MaskKept(mos, seen) /\ RunTrails(mos, seen)
  BY <1>1, <1>4 DEF Aimed, MaskKept, RunTrails
<1>10. NmiWaits(mos, seen) /\ IrqWaits(mos, seen)
  BY <1>3 DEF NmiWaits, IrqWaits
<1> QED
  BY <1>3, <1>6, <1>7, <1>8, <1>9, <1>10 DEF CpuInv

\* Every step keeps it.
LEMMA NextKeeps == CpuInv /\ [CpuNext]_cpuVars => CpuInv'
<1> SUFFICES ASSUME CpuInv, [CpuNext]_cpuVars PROVE CpuInv'
  OBVIOUS
<1>1. ASSUME NEW rdy \in BOOLEAN, NEW irq \in BOOLEAN, CpuCycle(rdy, irq) PROVE CpuInv'
  BY <1>1, CpuCycleKeeps
<1>2. CASE RaiseNmi
  BY <1>2, RaiseKeeps
<1>3. CASE NESSoftReset
  BY <1>3, ResetKeeps
<1>4. CASE UNCHANGED cpuVars
  BY <1>4 DEF cpuVars, CpuInv, InPlace, Aimed, Owes, NmiWaits, IrqWaits, Running, MaskKept,
    RunTrails, StoresApart
<1> QED
  BY <1>1, <1>2, <1>3, <1>4 DEF CpuNext

\* So it always holds.
LEMMA CpuInvariance == CpuSpec => []CpuInv
<1> QED
  BY InitGives, NextKeeps, PTL DEF CpuSpec

(***************************************************************************)
(* Every microcode index is one of its row.                                *)
(***************************************************************************)
THEOREM CpuTyped == CpuSpec => []CpuTypeOK
<1>1. CpuInv => CpuTypeOK
  BY DEF CpuInv, InPlace, CpuTypeOK
<1> QED
  BY <1>1, CpuInvariance, PTL

(***************************************************************************)
(* No interrupt is lost, repeated or put off.                              *)
(***************************************************************************)
THEOREM InterruptsAreServed == CpuSpec => []InterruptsServed
<1>1. CpuInv => InterruptsServed
  BY DEF CpuInv, InterruptsServed, NmiServicedOnce, PromptInterrupts, Owes, NmiWaits,
    IrqWaits
<1> QED
  BY <1>1, CpuInvariance, PTL

-----------------------------------------------------------------------------
(***************************************************************************)
(* The action properties, from the same invariant.                         *)
(***************************************************************************)
LEMMA StoreSpaced ==
  ASSUME NEW b, Ready(b), NEW n \in History, RunTrails(b, n), StoresApart(b, n),
         Uop(b) \in StoreUops
  PROVE  n.since >= 3 \/ (n.since = 0 /\ n.run = 1)
<1> DEFINE k == b.mi + 1
<1>1. /\ b.mi \in 0..7 /\ k \in DOMAIN Microcode[b.row] /\ b.row \in DOMAIN Microcode
      /\ Uop(b) = Stage(b.row, k)
  BY Where
<1>2. /\ k >= 3 /\ b.row \in Opcodes
      /\ Stage(b.row, k - 1) \in StoreUops => NoWrite(b.row, k - 2)
  BY <1>1, StorePlaces
<1>3. n.since \in 0..3 /\ n.run \in 0..4
  BY DEF History, Cap
<1>4. b.mi >= 2 /\ b.row \notin {"NMI", "IRQ", "RESET"} /\ k - 1 = b.mi
  BY <1>1, <1>2, LabelsDiffer
<1>5. CASE n.since = 0 /\ n.run >= 1 /\ Stage(b.row, b.mi) \in StoreUops
  <2>1. NoWrite(b.row, k - 2)
    BY <1>2, <1>4, <1>5
  <2>2. \A d \in 1..3 : d <= n.run => Stage(b.row, (b.mi + 1) - d) \in WriteUops
    BY <1>4 DEF RunTrails
  <2>3. ~(2 <= n.run)
    BY <2>1, <2>2 DEF NoWrite
  <2> QED
    BY <1>3, <1>5, <2>3
<1>6. CASE n.since >= 3 \/ n.since >= b.mi + 1
  BY <1>1, <1>3, <1>4, <1>6
<1> QED
  BY <1>1, <1>4, <1>5, <1>6 DEF StoresApart

\* A cycle keeps the spacing of writes.
LEMMA CycleSpaced ==
  ASSUME CpuInv, NEW rdy \in BOOLEAN, NEW irq \in BOOLEAN, CpuCycle(rdy, irq)
  PROVE  /\ seen'.run <= 3
         /\ mos'.acc = <<"store">> =>
              \/ seen.since >= 3
              \/ seen.since = 0 /\ seen.run = 1 /\ mos'.row = mos.row
         /\ Len(mos'.acc) > 1 =>
              mos'.acc = <<"read", "read">> /\ Uop(mos) = "Abs_READ" /\ Uop(mos') = "End"
         /\ mos'.acc = <<>> => mos'.rdy_freeze
<1>1. PICK b : /\ Drives(b, irq) /\ InPlace(mos') /\ Outcome(b, mos')
               /\ Recorded(b, seen, mos', seen')
  BY CycleGives DEF CpuInv
<1>2. Ready(b) /\ b.row = mos.row /\ b.mi = mos.mi /\ seen \in History
  BY <1>1 DEF Drives, CpuInv
<1>3. RunTrails(b, seen) /\ StoresApart(b, seen)
  BY <1>2 DEF CpuInv, RunTrails, StoresApart
<1>4. seen'.run <= 3
  BY <1>1, <1>2, <1>3, RunStep
<1>5. ASSUME mos'.acc = <<"store">>
      PROVE  \/ seen.since >= 3
             \/ seen.since = 0 /\ seen.run = 1 /\ mos'.row = mos.row
  <2>1. mos'.acc \in WriteUses
    BY <1>5 DEF WriteUses
  <2>2. Stays(b, mos') /\ Uop(b) \in StoreUops
    BY <1>1, <1>2, <1>5, <2>1, WritingStage
  <2>3. mos'.row = mos.row
    BY <1>2, <2>2 DEF Stays
  <2> QED
    BY <1>2, <1>3, <2>2, <2>3, StoreSpaced
<1>6. ASSUME Len(mos'.acc) > 1
      PROVE  mos'.acc = <<"read", "read">> /\ Uop(mos) = "Abs_READ" /\ Uop(mos') = "End"
  <2>1. mos'.acc \in BusUses
    BY <1>1 DEF InPlace, CpuState
  <2>2. mos'.acc = <<"read", "read">>
    BY <1>6, <2>1, UsesDiffer
  <2>3. <<"read", "read">> \notin {<<>>, <<"read">>, <<"dummy">>}
    OBVIOUS
  <2>4. /\ ~Turned(b, mos') /\ ~Fetching(b, mos')
        /\ ~Taking(b, mos', "NMI") /\ ~Taking(b, mos', "IRQ")
    BY <2>2, <2>3 DEF Turned, Fetching, Taking
  <2>5. Stays(b, mos')
    BY <1>1, <2>4 DEF Outcome, Polling
  <2>6. Uop(b) = "Abs_READ" /\ mos'.row = b.row
    BY <2>2, <2>5 DEF Stays, Uses
  <2>7. b.row = "Abs" /\ b.mi + 1 = 3
    BY <1>2, <2>6, Where DEF RowFacts, Uop, Stage
  <2>8. ~mos'.rdy_freeze /\ Uop(b) \notin SkipUops
    BY <2>2, <2>3, <2>5, <2>6 DEF Stays, Uses, SkipUops
  <2>9. mos'.mi + 1 = 4
    <3>1. mos'.mi = b.mi + 1
      BY <2>5, <2>8 DEF Stays
    <3>2. b.mi \in 0..7
      BY <1>2, Where
    <3> QED BY <2>7, <3>1, <3>2
  <2>10. Uop(mos') = "End"
    BY <2>6, <2>7, <2>9 DEF Uop, Microcode
  <2> QED
    BY <1>2, <2>2, <2>6, <2>10 DEF Uop
<1>7. ASSUME mos'.acc = <<>>
      PROVE  mos'.rdy_freeze
  <2>1. CASE Stays(b, mos')
    BY <1>7, <2>1 DEF Stays, Uses
  <2>2. mos'.acc \notin {<<"read">>, <<"dummy">>}
    BY <1>7, UsesDiffer
  <2>3. CASE Turned(b, mos') \/ Fetching(b, mos')
    BY <2>2, <2>3 DEF Turned, Fetching
  <2>4. CASE Taking(b, mos', "NMI") \/ Taking(b, mos', "IRQ")
    BY <2>2, <2>4 DEF Taking
  <2> QED
    BY <1>1, <2>1, <2>3, <2>4 DEF Outcome, Polling
<1> QED
  BY <1>4, <1>5, <1>6, <1>7

(***************************************************************************)
(* No more than three writes in a row, of which at most two stores, and    *)
(* three cycles between the stores of two instructions; and one access in  *)
(* a cycle but in LAX abs, whose two reads are the last of its row.        *)
(***************************************************************************)
THEOREM WritesSpaced == CpuSpec => WritesAreSpaced
<1>1. CpuInv /\ [CpuNext]_cpuVars =>
        [RaiseNmi \/ NESSoftReset \/
         /\ seen'.run <= 3
         /\ mos'.acc = <<"store">> =>
              \/ seen.since >= 3
              \/ seen.since = 0 /\ seen.run = 1 /\ mos'.row = mos.row
         /\ Len(mos'.acc) > 1 =>
              mos'.acc = <<"read", "read">> /\ Uop(mos) = "Abs_READ" /\ Uop(mos') = "End"
         /\ mos'.acc = <<>> => mos'.rdy_freeze]_cpuVars
  BY CycleSpaced DEF CpuNext
<1> QED
  BY <1>1, CpuInvariance, PTL DEF CpuSpec, WritesAreSpaced

\* An index that moves in its row, and one of a row that is left.
LEMMA CyclePolls ==
  ASSUME CpuInv, NEW rdy \in BOOLEAN, NEW irq \in BOOLEAN, CpuCycle(rdy, irq)
  PROVE  LET ends   == Uop(mos) \in {"End", "End_ISpecial"} /\ ~mos.branch_irq_hack
             masked == IF mos.row \in {"CLI", "SEI", "PLP"} THEN seen.iAtFetch ELSE mos.I
         IN  /\ mos.row # "NMI" => (mos'.row = "NMI" <=> ends /\ mos.NMI)
             /\ mos.row # "IRQ" =>
                  (mos'.row = "IRQ" <=> ends /\ ~mos.NMI /\ mos'.IRQ /\ ~masked)
<1> DEFINE ends == Uop(mos) \in {"End", "End_ISpecial"} /\ ~mos.branch_irq_hack
           masked == IF mos.row \in {"CLI", "SEI", "PLP"} THEN seen.iAtFetch ELSE mos.I
<1>1. PICK b : /\ Drives(b, irq) /\ InPlace(mos') /\ Outcome(b, mos')
               /\ Recorded(b, seen, mos', seen')
  BY CycleGives DEF CpuInv
<1>2. /\ Ready(b) /\ b.row = mos.row /\ b.NMI = mos.NMI /\ b.I = mos.I
      /\ b.branch_irq_hack = mos.branch_irq_hack /\ Uop(b) = Uop(mos)
  BY <1>1 DEF Drives
<1>3. masked = mos.I
  BY DEF CpuInv, MaskKept
<1>4. mos'.IRQ = b.IRQ
  BY <1>1 DEF Outcome, Polling, Stays, Turned, Fetching, Taking
<1>5. ends <=> Uop(b) \in PollUops /\ ~b.branch_irq_hack
  BY <1>2 DEF PollUops
<1> HIDE DEF ends, masked
<1>6. CASE Uop(b) \in PollUops
  <2>1. Polling(b, mos')
    BY <1>1, <1>6 DEF Outcome, LeaveUops, PollUops, FetchUops, BranchUops
  <2>2. ~(b.NMI /\ ~b.branch_irq_hack) /\ ~(b.IRQ /\ ~b.I /\ ~b.branch_irq_hack)
          => mos'.row \notin {"NMI", "IRQ"}
    BY <2>1, LabelsDiffer DEF Polling, Fetching
  <2>3. b.NMI /\ ~b.branch_irq_hack => mos'.row = "NMI"
    BY <2>1 DEF Polling, Taking
  <2>4. ~(b.NMI /\ ~b.branch_irq_hack) /\ b.IRQ /\ ~b.I /\ ~b.branch_irq_hack
          => mos'.row = "IRQ"
    BY <2>1 DEF Polling, Taking
  <2>5. mos'.row = "NMI" <=> ends /\ mos.NMI
    BY <1>2, <1>5, <1>6, <2>2, <2>3, <2>4
  <2>6. mos'.row = "IRQ" <=> ends /\ ~mos.NMI /\ mos'.IRQ /\ ~masked
    BY <1>2, <1>3, <1>4, <1>5, <1>6, <2>2, <2>3, <2>4
  <2> QED
    BY <2>5, <2>6 DEF ends, masked
<1>7. CASE Uop(b) \notin PollUops
  <2>1. ~ends
    BY <1>5, <1>7
  <2>2. mos'.row = b.row \/ mos'.row \notin {"NMI", "IRQ"}
    <3>1. CASE Stays(b, mos')
      BY <3>1 DEF Stays
    <3>2. CASE Turned(b, mos') \/ Fetching(b, mos')
      BY <3>2, LabelsDiffer DEF Turned, Fetching
    <3> QED
      BY <1>1, <1>7, <3>1, <3>2 DEF Outcome
  <2> QED
    BY <1>2, <2>1, <2>2 DEF ends, masked
<1> QED
  BY <1>6, <1>7

(***************************************************************************)
(* Interrupts are taken at the end of an instruction and nowhere else.     *)
(***************************************************************************)
THEOREM PolledAtEnds == CpuSpec => InterruptPolling
<1>1. CpuInv /\ [CpuNext]_cpuVars =>
        [LET ends   == Uop(mos) \in {"End", "End_ISpecial"} /\ ~mos.branch_irq_hack
             masked == IF mos.row \in {"CLI", "SEI", "PLP"} THEN seen.iAtFetch ELSE mos.I
             moved  == ~NESSoftReset /\ <<mos.row, mos.mi>>' # <<mos.row, mos.mi>>
         IN  /\ moved /\ mos.row # "NMI" => (mos'.row = "NMI" <=> ends /\ mos.NMI)
             /\ moved /\ mos.row # "IRQ" =>
                  (mos'.row = "IRQ" <=> ends /\ ~mos.NMI /\ mos'.IRQ /\ ~masked)]_cpuVars
  <2> SUFFICES ASSUME CpuInv, CpuNext, ~NESSoftReset,
                      <<mos.row, mos.mi>>' # <<mos.row, mos.mi>>
               PROVE
        LET ends   == Uop(mos) \in {"End", "End_ISpecial"} /\ ~mos.branch_irq_hack
            masked == IF mos.row \in {"CLI", "SEI", "PLP"} THEN seen.iAtFetch ELSE mos.I
        IN  /\ mos.row # "NMI" => (mos'.row = "NMI" <=> ends /\ mos.NMI)
            /\ mos.row # "IRQ" =>
                 (mos'.row = "IRQ" <=> ends /\ ~mos.NMI /\ mos'.IRQ /\ ~masked)
    OBVIOUS
  <2>1. ~RaiseNmi
    <3> SUFFICES ASSUME RaiseNmi PROVE FALSE
      OBVIOUS
    <3>1. mos \in CpuState
      BY DEF CpuInv, InPlace
    <3>2. mos'.row = mos.row /\ mos'.mi = mos.mi
      BY <3>1 DEF RaiseNmi, CpuState
    <3> QED
      BY <3>2
  <2>2. PICK rdy \in BOOLEAN, irq \in BOOLEAN : CpuCycle(rdy, irq)
    BY <2>1 DEF CpuNext
  <2> QED
    BY <2>2, CyclePolls
<1> QED
  BY <1>1, CpuInvariance, PTL DEF CpuSpec, InterruptPolling

-----------------------------------------------------------------------------
(***************************************************************************)
(* RDY.  A stage that finds it low leaves a frozen state d, from which the *)
(* next cycle does what this one would have done.                          *)
(***************************************************************************)
Same(u, v) ==
  /\ u.row = v.row /\ u.mi = v.mi /\ u.I = v.I /\ u.iflag_pending = v.iflag_pending
  /\ u.branch_irq_hack = v.branch_irq_hack /\ u.ea = v.ea /\ u.cross = v.cross
  /\ u.NMI = v.NMI /\ u.IRQ = v.IRQ /\ u.rdy_freeze = v.rdy_freeze /\ u.acc = v.acc
  /\ (u.interrupt_pending \/ Interrupted(u)) = (v.interrupt_pending \/ Interrupted(v))

\* States that differ in what Settled forgets settle to the same.
LEMMA SettledSame ==
  ASSUME NEW u \in CpuState, NEW v \in CpuState, Same(u, v)
  PROVE  Settled(Advanced(u)) = Settled(Advanced(v))
<1> DEFINE d == IF v.rdy_freeze THEN v.mi ELSE v.mi + 1
           p == v.interrupt_pending \/ Interrupted(v)
<1>1. u = [v EXCEPT !.interrupt_pending = u.interrupt_pending, !.H = u.H]
  BY DEF CpuState, Same
<1>2. Advanced(v) = [v EXCEPT !.mi = d] /\ Advanced(u) = [u EXCEPT !.mi = d]
  BY DEF Advanced, CpuState, Same
<1>3. p = (u.interrupt_pending \/ Interrupted(u))
  BY DEF Same
<1>4. Settled([v EXCEPT !.mi = d]) = [v EXCEPT !.mi = d, !.H = "0", !.interrupt_pending = p]
  BY DEF Settled, Interrupted, CpuState
<1>5. Settled([u EXCEPT !.mi = d]) = [u EXCEPT !.mi = d, !.H = "0", !.interrupt_pending = p]
  BY <1>3 DEF Settled, Interrupted, CpuState
<1> HIDE DEF d, p
<1>6. [u EXCEPT !.mi = d, !.H = "0", !.interrupt_pending = p]
        = [v EXCEPT !.mi = d, !.H = "0", !.interrupt_pending = p]
  BY <1>1 DEF CpuState
<1> QED
  BY <1>2, <1>4, <1>5, <1>6

\* A state that a stage has been held in, before it is marked frozen.
AtRest(d) == d \in CpuState /\ d.acc = <<>> /\ d.rdy_freeze = FALSE

\* A frozen state starts its next cycle where it was held.
LEMMA StartFrozen ==
  ASSUME NEW d, AtRest(d)
  PROVE  /\ Start(Frozen(d)) =
              [d EXCEPT !.interrupt_pending = d.interrupt_pending \/ Interrupted(d)]
         /\ Noticed(d) => Start(Frozen(d)) = d
         /\ Advanced(Frozen(d)) = Frozen(d)
         /\ Frozen(d).acc = <<>> /\ Frozen(d).rdy_freeze = TRUE
<1> DEFINE p == d.interrupt_pending \/ Interrupted(d)
           e == <<>>
<1>1. d \in CpuState /\ d.acc = e /\ d.rdy_freeze = FALSE
  BY DEF AtRest
<1>2. Frozen(d) = [d EXCEPT !.rdy_freeze = TRUE]
  BY DEF Frozen
<1>3. Start(Frozen(d)) =
        [Frozen(d) EXCEPT !.interrupt_pending = p, !.rdy_freeze = FALSE, !.acc = e]
  BY <1>1, <1>2 DEF Start, Interrupted, CpuState
<1> HIDE DEF e, p
<1>4. [Frozen(d) EXCEPT !.interrupt_pending = p, !.rdy_freeze = FALSE, !.acc = e]
        = [d EXCEPT !.interrupt_pending = p]
  BY <1>1, <1>2 DEF CpuState
<1>5. Noticed(d) => p = d.interrupt_pending
  BY <1>1 DEF Noticed, p, CpuState
<1>6. p = d.interrupt_pending => [d EXCEPT !.interrupt_pending = p] = d
  BY <1>1 DEF CpuState
<1>7. Frozen(d).rdy_freeze = TRUE /\ Frozen(d).acc = e
  BY <1>1, <1>2 DEF CpuState
<1>8. Advanced(Frozen(d)) = Frozen(d)
  BY <1>1, <1>2 DEF Advanced, CpuState
<1> QED
  BY <1>3, <1>4, <1>5, <1>6, <1>7, <1>8 DEF p, e

HeldAt(b, d) ==
  /\ AtRest(d) /\ ExecuteOneRetry(b, FALSE) = {Frozen(d)}
  /\ \A u \in ExecuteOneRetry(Start(Frozen(d)), TRUE) :
       \E v \in ExecuteOneRetry(b, TRUE) : Settled(Advanced(u)) = Settled(Advanced(v))

HeldUops == ReadUops \cup DummyUops \cup {"Abs_READ", "PushP_Reset", "FetchPCLVector", "PullP",
                                          "PullP_NoInc", "Jam"} \cup BranchUops

\* A stage that only freezes is run again from the same state.
LEMMA HeldPlainly ==
  ASSUME NEW b, Ready(b), Noticed(b), ExecuteOneRetry(b, FALSE) = {Frozen(b)}
  PROVE  HeldAt(b, b)
<1>1. AtRest(b)
  BY DEF Ready, AtRest
<1> QED
  BY <1>1, StartFrozen DEF HeldAt

\* The stages that only freeze: reads, branches, pulls and vectors.
LEMMA HeldReads ==
  ASSUME NEW b, Uop(b) \in HeldUops
  PROVE  ExecuteOneRetry(b, FALSE) = {Frozen(b)}
<1>1. CASE Uop(b) \in ReadUops
  BY <1>1 DEF ReadUops, ExecuteOneRetry, FetchOperand, Imm, JSR, JumpPC, AbsInd_JMP,
    PullA_NoInc, PullPC, ZP_READ, ZP_RMW_Stage3, ZpIdx_Stage3, ZpIdx_RMW_Stage4,
    Abs_RMW_Stage4, AbsIdx_READ_Stage5, AbsIdx_RMW_Stage5, IdxInd_Pointer,
    IdxInd_Stage6_READ, IdxInd_Stage6_RMW, IndIdx_Pointer, IndIdx_READ_Stage6,
    IndIdx_RMW_Stage6, Read
<1>2. CASE Uop(b) \in DummyUops
  BY <1>2 DEF DummyUops, ExecuteOneRetry, FetchDummy, Imp_Reg, Imp_Flag, Imp_Acc,
    StackDummy, RelBranch_Stage4, IdxInd_Pointer, ResetStack, Dummy
<1>3. CASE Uop(b) \in BranchUops
  BY <1>3 DEF BranchUops, ExecuteOneRetry, RelBranch_Stage2, RelBranch_Stage3
<1>4. CASE Uop(b) \in {"Abs_READ", "PushP_Reset", "FetchPCLVector", "PullP", "PullP_NoInc",
                       "Jam"}
  BY <1>4 DEF ExecuteOneRetry, Abs_READ, ResetStack, FetchPCLVector, PullP, PullP_NoInc, Jam
<1> QED
  BY <1>1, <1>2, <1>3, <1>4 DEF HeldUops

\* The stages that add the index only freeze.
LEMMA HeldSums ==
  ASSUME NEW b, Uop(b) \in SumUops
  PROVE  ExecuteOneRetry(b, FALSE) = {Frozen(b)}
  BY DEF SumUops, ExecuteOneRetry, AbsIdx_Stage3, IndIdx_Pointer

\* A read before the carry is added keeps the carry while frozen.
LEMMA HeldIndexed ==
  ASSUME NEW b, Ready(b)
  PROVE  ReadIndexed(b, FALSE) = {Frozen(b)}
<1>1. b \in CpuState /\ b.cross \in BOOLEAN
  BY DEF Ready, CpuState
<1>2. Frozen(b).cross = b.cross
  BY <1>1 DEF Frozen, CpuState
<1>3. [Frozen(b) EXCEPT !.cross = Frozen(b).cross /\ ~FALSE] = Frozen(b)
  <2>1. (Frozen(b).cross /\ ~FALSE) = Frozen(b).cross
    BY <1>1, <1>2
  <2> QED
    BY <1>1, <2>1 DEF Frozen, CpuState
<1> QED
  BY <1>3 DEF ReadIndexed, Read

\* The fetch of a vector's high byte keeps the vector while frozen.
LEMMA HeldVector ==
  ASSUME NEW b, Ready(b), Uop(b) = "FetchPCHVector"
  PROVE  ExecuteOneRetry(b, FALSE) = {Frozen(b)}
<1>1. b \in CpuState
  BY DEF Ready
<1>2. [Frozen(b) EXCEPT !.ea = IF FALSE THEN "" ELSE @] = Frozen(b)
  BY <1>1 DEF Frozen, CpuState
<1>3. ExecuteOneRetry(b, FALSE) = FetchPCHVector(b, FALSE)
  BY DEF ExecuteOneRetry
<1> QED
  BY <1>2, <1>3 DEF FetchPCHVector, Read

\* CLI and SEI have set their flag when they freeze, and set it again.
LEMMA HeldPending ==
  ASSUME NEW b, Ready(b), Noticed(b), Uop(b) \in PendingUops
  PROVE  \E d : HeldAt(b, d)
<1> DEFINE p == Uop(b) = "Imp_SEI"
           d == [b EXCEPT !.iflag_pending = p]
<1>1. b \in CpuState /\ b.acc = <<>> /\ b.rdy_freeze = FALSE /\ p \in BOOLEAN
  BY DEF Ready
<1>2. \A rdy \in BOOLEAN : ExecuteOneRetry(b, rdy) = Dummy(d, rdy)
  BY DEF PendingUops, ExecuteOneRetry, Imp_I
<1> HIDE DEF p
<1>3. /\ d \in CpuState /\ d.acc = b.acc /\ d.rdy_freeze = FALSE /\ d.row = b.row
      /\ d.mi = b.mi /\ d.NMI = b.NMI /\ d.IRQ = b.IRQ /\ d.I = b.I
      /\ d.interrupt_pending = b.interrupt_pending /\ d.iflag_pending = p
  BY <1>1 DEF CpuState
<1>4. [d EXCEPT !.iflag_pending = p] = d
  BY <1>3 DEF CpuState
<1> HIDE DEF d
<1>5. Uop(d) = Uop(b) /\ AtRest(d) /\ Noticed(d)
  BY <1>1, <1>3 DEF Uop, AtRest, Noticed, Interrupted
<1>6. ExecuteOneRetry(d, TRUE) = Dummy(d, TRUE)
  <2>1. ExecuteOneRetry(d, TRUE) = Imp_I(d, TRUE)
    BY <1>5 DEF ExecuteOneRetry, PendingUops
  <2> QED
    BY <1>4, <1>5, <2>1 DEF Imp_I, p
<1>7. Start(Frozen(d)) = d
  BY <1>5, StartFrozen
<1>8. ExecuteOneRetry(b, FALSE) = {Frozen(d)}
  BY <1>2 DEF Dummy
<1> QED
  BY <1>2, <1>5, <1>6, <1>7, <1>8 DEF HeldAt

\* A read without page crossing freezes in the stage it skipped to.
LEMMA HeldSkip ==
  ASSUME NEW b, Ready(b), Noticed(b), Uop(b) \in SkipUops
  PROVE  \E d : HeldAt(b, d)
<1>1. CASE b.cross
  <2>1. ExecuteOneRetry(b, FALSE) = ReadIndexed(b, FALSE)
    BY <1>1 DEF SkipUops, ExecuteOneRetry, AbsIdx_READ_Stage4, IndIdx_READ_Stage5
  <2> QED
    BY <2>1, HeldIndexed, HeldPlainly
<1>2. CASE ~b.cross
  <2> DEFINE n == b.mi + 1
             d == [b EXCEPT !.mi = n]
  <2>1. b \in CpuState /\ b.acc = <<>> /\ b.rdy_freeze = FALSE
    BY DEF Ready
  <2>2. /\ b.row \in DOMAIN Microcode /\ n \in DOMAIN Microcode[b.row] /\ b.mi \in Int
        /\ Uop(b) = Stage(b.row, n)
    BY PlaceOf
  <2>3. n \in 3..4 /\ Stage(b.row, n + 1) = IF Uop(b) = "AbsIdx_READ_Stage4"
                                         THEN "AbsIdx_READ_Stage5" ELSE "IndIdx_READ_Stage6"
    BY <2>2, SkipPlaces
  <2>4. \A rdy \in BOOLEAN : ExecuteOneRetry(b, rdy) = Read(d, rdy)
    BY <1>2, <2>1 DEF SkipUops, ExecuteOneRetry, AbsIdx_READ_Stage4, IndIdx_READ_Stage5,
      AbsIdx_READ_Stage5, IndIdx_READ_Stage6
  <2>5. n \in -1..7
    BY <2>3
  <2> HIDE DEF n
  <2>6. /\ d \in CpuState /\ d.acc = b.acc /\ d.rdy_freeze = FALSE /\ d.row = b.row
        /\ d.mi = n /\ d.NMI = b.NMI /\ d.IRQ = b.IRQ /\ d.I = b.I
        /\ d.interrupt_pending = b.interrupt_pending
    BY <2>1, <2>5 DEF CpuState
  <2> HIDE DEF d
  <2>7. Uop(d) \in {"AbsIdx_READ_Stage5", "IndIdx_READ_Stage6"}
    BY <2>3, <2>6 DEF Uop, Stage
  <2>8. AtRest(d) /\ Noticed(d)
    BY <2>1, <2>6 DEF AtRest, Noticed, Interrupted
  <2>9. ExecuteOneRetry(d, TRUE) = Read(d, TRUE)
    BY <2>7 DEF ExecuteOneRetry, AbsIdx_READ_Stage5, IndIdx_READ_Stage6
  <2>10. Start(Frozen(d)) = d
    BY <2>8, StartFrozen
  <2>11. ExecuteOneRetry(b, FALSE) = {Frozen(d)}
    BY <2>4 DEF Read
  <2> QED
    BY <2>4, <2>8, <2>9, <2>10, <2>11 DEF HeldAt
<1> QED
  BY <1>1, <1>2

\* An unstable store remembers RDY in H, and in nothing else.
LEMMA HeldUnstable ==
  ASSUME NEW b, Ready(b), Noticed(b), Uop(b) \in UnstableUops
  PROVE  \E d : HeldAt(b, d)
<1> DEFINE d == [b EXCEPT !.H = "FF"]
           a == <<"read">>
           e == <<>>
           After(s) == [Access(s, "read") EXCEPT !.cross = FALSE,
                          !.H = IF @ = "0" THEN "high+1" ELSE @]
<1>1. b \in CpuState /\ b.acc = e /\ b.rdy_freeze = FALSE /\ a \in BusUses
  BY BusUseFacts DEF Ready, Kinds
<1>2. ASSUME NEW s, Uop(s) \in UnstableUops
      PROVE  ExecuteOneRetry(s, TRUE) = {After(s)}
  <2>1. CASE Uop(s) = "AbsIdx_Stage4_SHx"
    <3>1. ExecuteOneRetry(s, TRUE) = AbsIdx_Stage4_SHx(s, TRUE)
      BY <2>1 DEF ExecuteOneRetry
    <3> QED
      BY <3>1 DEF AbsIdx_Stage4_SHx
  <2>2. CASE Uop(s) = "IndIdx_WRITE_Stage5_SHA"
    <3>1. ExecuteOneRetry(s, TRUE) = IndIdx_WRITE_Stage5_SHA(s, TRUE)
      BY <2>2 DEF ExecuteOneRetry
    <3> QED
      BY <3>1 DEF IndIdx_WRITE_Stage5_SHA
  <2> QED
    BY <1>2, <2>1, <2>2 DEF UnstableUops
<1>3. ExecuteOneRetry(b, FALSE) = {[Frozen(b) EXCEPT !.H = "FF"]}
  BY DEF UnstableUops, ExecuteOneRetry, AbsIdx_Stage4_SHx, IndIdx_WRITE_Stage5_SHA
<1>4. Access(b, "read") = [b EXCEPT !.acc = a]
  BY <1>1, AccessIs
<1>5. d.acc = e => Access(d, "read") = [d EXCEPT !.acc = a]
  BY AccessIs
<1> HIDE DEF a, e, After
<1>6. [Frozen(b) EXCEPT !.H = "FF"] = Frozen(d)
  BY <1>1 DEF Frozen, CpuState
<1>7. /\ d \in CpuState /\ d.acc = e /\ d.rdy_freeze = FALSE /\ d.row = b.row
      /\ d.mi = b.mi /\ d.NMI = b.NMI /\ d.IRQ = b.IRQ /\ d.I = b.I /\ d.cross = b.cross
      /\ d.interrupt_pending = b.interrupt_pending /\ d.iflag_pending = b.iflag_pending
      /\ d.branch_irq_hack = b.branch_irq_hack /\ d.ea = b.ea
  BY <1>1 DEF CpuState
<1> HIDE DEF d
<1>8. Uop(d) = Uop(b) /\ AtRest(d) /\ Noticed(d)
  BY <1>1, <1>7 DEF Uop, AtRest, Noticed, Interrupted, e
<1>9. Start(Frozen(d)) = d
  BY <1>8, StartFrozen
<1>10. ASSUME NEW s \in CpuState, Access(s, "read") = [s EXCEPT !.acc = a]
       PROVE  /\ After(s) \in CpuState /\ After(s).acc = a /\ After(s).cross = FALSE
              /\ After(s).rdy_freeze = s.rdy_freeze /\ After(s).row = s.row
              /\ After(s).mi = s.mi /\ After(s).NMI = s.NMI /\ After(s).IRQ = s.IRQ
              /\ After(s).I = s.I /\ After(s).interrupt_pending = s.interrupt_pending
              /\ After(s).iflag_pending = s.iflag_pending
              /\ After(s).branch_irq_hack = s.branch_irq_hack /\ After(s).ea = s.ea
  <2> DEFINE h == IF s.H = "0" THEN "high+1" ELSE s.H
  <2>1. h \in {"0", "high+1", "FF"} /\ s \in CpuState
    BY <1>10 DEF CpuState
  <2>2. After(s) = [s EXCEPT !.acc = a, !.cross = FALSE, !.H = h]
    BY <1>10 DEF After, CpuState
  <2> HIDE DEF h
  <2> QED
    BY <1>1, <2>1, <2>2 DEF CpuState
<1>11. Same(After(d), After(b)) /\ After(d) \in CpuState /\ After(b) \in CpuState
  BY <1>1, <1>4, <1>5, <1>7, <1>10 DEF Same, Interrupted
<1>12. Settled(Advanced(After(d))) = Settled(Advanced(After(b)))
  BY <1>11, SettledSame
<1>13. ExecuteOneRetry(d, TRUE) = {After(d)} /\ ExecuteOneRetry(b, TRUE) = {After(b)}
  BY <1>2, <1>8
<1> QED
  BY <1>3, <1>6, <1>8, <1>9, <1>12, <1>13 DEF HeldAt

\* The state d in which a fetch or the first stage of a sequence is held.
Retries(d, T) ==
  \A u \in ExecuteOneRetry(Start(Frozen(d)), TRUE) :
    \E v \in T : Settled(Advanced(u)) = Settled(Advanced(v))

\* A fetch held back.
LEMMA HeldFetch ==
  ASSUME NEW d, AtRest(d), d.row = "Fetch1_NoInterrupt", d.mi = 0
  PROVE  Fetch1_Real(d, FALSE) = {Frozen(d)} /\ Retries(d, Fetch1_Real(d, TRUE))
<1> DEFINE p == d.interrupt_pending \/ Interrupted(d)
           c == [d EXCEPT !.interrupt_pending = p]
           a == <<"read">>
           m == -1
           Opcode(s, r) == [s EXCEPT !.acc = a, !.branch_irq_hack = FALSE, !.row = r, !.mi = m]
<1>1. d \in CpuState /\ d.acc = <<>> /\ a \in BusUses /\ p \in BOOLEAN /\ m \in -1..7
  <2>1. d \in CpuState /\ d.acc = <<>>
    BY DEF AtRest
  <2>2. a \in BusUses
    BY BusUseFacts DEF Kinds
  <2>3. p \in BOOLEAN
    BY <2>1 DEF Interrupted, CpuState
  <2> QED
    BY <2>1, <2>2, <2>3
<1>2. Start(Frozen(d)) = c
  BY StartFrozen
<1> HIDE DEF p
<1>3. /\ c \in CpuState /\ c.acc = <<>> /\ c.row = d.row /\ c.mi = d.mi
      /\ c.interrupt_pending = p
      /\ c.I = d.I /\ c.iflag_pending = d.iflag_pending /\ c.ea = d.ea /\ c.cross = d.cross
      /\ c.NMI = d.NMI /\ c.IRQ = d.IRQ /\ c.rdy_freeze = d.rdy_freeze
  BY <1>1 DEF CpuState
<1> HIDE DEF c
<1>4. Uop(c) = "Fetch1_Real"
  BY <1>3 DEF Uop, Microcode
<1>5. ExecuteOneRetry(c, TRUE) = Fetch1_Real(c, TRUE)
  BY <1>4 DEF ExecuteOneRetry
<1>6. ASSUME NEW s \in CpuState, s.acc = <<>>
      PROVE  Fetch1_Real(s, TRUE) = {Opcode(s, r) : r \in Opcodes}
  <2>1. Access(s, "read") = [s EXCEPT !.acc = a]
    BY <1>6, AccessIs
  <2> HIDE DEF a
  <2>2. \A r : [Access(s, "read") EXCEPT !.branch_irq_hack = FALSE, !.row = r, !.mi = m]
                 = Opcode(s, r)
    BY <1>6, <2>1 DEF CpuState
  <2> QED
    BY <2>2 DEF Fetch1_Real
<1> HIDE DEF a, m
<1>7. ASSUME NEW s \in CpuState, NEW r \in DOMAIN Microcode
      PROVE  /\ Opcode(s, r) \in CpuState
             /\ Opcode(s, r).row = r /\ Opcode(s, r).mi = m /\ Opcode(s, r).acc = a
             /\ Opcode(s, r).branch_irq_hack = FALSE
             /\ Opcode(s, r).interrupt_pending = s.interrupt_pending
             /\ Opcode(s, r).I = s.I /\ Opcode(s, r).iflag_pending = s.iflag_pending
             /\ Opcode(s, r).ea = s.ea /\ Opcode(s, r).cross = s.cross
             /\ Opcode(s, r).NMI = s.NMI /\ Opcode(s, r).IRQ = s.IRQ
             /\ Opcode(s, r).rdy_freeze = s.rdy_freeze
  BY <1>1, <1>7 DEF CpuState
<1> HIDE DEF Opcode
<1>8. ASSUME NEW r \in Opcodes
      PROVE  Settled(Advanced(Opcode(c, r))) = Settled(Advanced(Opcode(d, r)))
  <2>1. r \in DOMAIN Microcode
    BY <1>8, TableDomain
  <2>2. Opcode(c, r) \in CpuState /\ Opcode(d, r) \in CpuState
    BY <1>1, <1>3, <1>7, <2>1
  <2> DEFINE u == Opcode(c, r)
             v == Opcode(d, r)
  <2>3. /\ u.row = v.row /\ u.mi = v.mi /\ u.I = v.I /\ u.iflag_pending = v.iflag_pending
        /\ u.branch_irq_hack = v.branch_irq_hack /\ u.ea = v.ea /\ u.cross = v.cross
        /\ u.NMI = v.NMI /\ u.IRQ = v.IRQ /\ u.rdy_freeze = v.rdy_freeze /\ u.acc = v.acc
    <3>1. /\ u.row = r /\ u.mi = m /\ u.acc = a /\ u.branch_irq_hack = FALSE
          /\ v.row = r /\ v.mi = m /\ v.acc = a /\ v.branch_irq_hack = FALSE
      BY <1>1, <1>3, <1>7, <2>1
    <3>2. /\ u.I = c.I /\ u.iflag_pending = c.iflag_pending /\ u.ea = c.ea
          /\ u.cross = c.cross /\ u.NMI = c.NMI /\ u.IRQ = c.IRQ
          /\ u.rdy_freeze = c.rdy_freeze
      BY <1>3, <1>7, <2>1
    <3>3. /\ v.I = d.I /\ v.iflag_pending = d.iflag_pending /\ v.ea = d.ea
          /\ v.cross = d.cross /\ v.NMI = d.NMI /\ v.IRQ = d.IRQ
          /\ v.rdy_freeze = d.rdy_freeze
      BY <1>1, <1>7, <2>1
    <3> HIDE DEF u, v
    <3> QED
      BY <1>3, <3>1, <3>2, <3>3
  <2>4. /\ u.interrupt_pending = p /\ v.interrupt_pending = d.interrupt_pending
        /\ v.NMI = d.NMI /\ v.IRQ = d.IRQ /\ v.I = d.I
    <3>1. u.interrupt_pending = c.interrupt_pending
      BY <1>3, <1>7, <2>1
    <3>2. /\ v.interrupt_pending = d.interrupt_pending
          /\ v.NMI = d.NMI /\ v.IRQ = d.IRQ /\ v.I = d.I
      BY <1>1, <1>7, <2>1
    <3> QED
      BY <1>3, <3>1, <3>2
  <2> HIDE DEF u, v
  <2>5. (u.interrupt_pending \/ Interrupted(u)) = (v.interrupt_pending \/ Interrupted(v))
    BY <2>3, <2>4 DEF p, Interrupted
  <2>6. Same(u, v)
    BY <2>3, <2>5 DEF Same
  <2> QED
    BY <2>2, <2>6, SettledSame DEF u, v
<1>9. /\ ExecuteOneRetry(Start(Frozen(d)), TRUE) = {Opcode(c, r) : r \in Opcodes}
      /\ Fetch1_Real(d, TRUE) = {Opcode(d, r) : r \in Opcodes}
  BY <1>1, <1>2, <1>3, <1>5, <1>6
<1>10. Retries(d, Fetch1_Real(d, TRUE))
  BY <1>8, <1>9 DEF Retries
<1>11. Fetch1_Real(d, FALSE) = {Frozen(d)}
  BY DEF Fetch1_Real
<1> QED
  BY <1>10, <1>11

\* A sequence held at its first stage.
LEMMA HeldSequence ==
  ASSUME NEW d, AtRest(d), d.row \in {"NMI", "IRQ"}, d.mi = 0
  PROVE  FetchDummy(d, FALSE) = {Frozen(d)} /\ Retries(d, FetchDummy(d, TRUE))
<1> DEFINE p == d.interrupt_pending \/ Interrupted(d)
           c == [d EXCEPT !.interrupt_pending = p]
           a == <<"dummy">>
<1>1. d \in CpuState /\ d.acc = <<>> /\ a \in BusUses /\ p \in BOOLEAN
  BY BusUseFacts DEF AtRest, Kinds, Interrupted, CpuState
<1>2. Start(Frozen(d)) = c
  BY StartFrozen
<1> HIDE DEF p
<1>3. /\ c \in CpuState /\ c.acc = <<>> /\ c.row = d.row /\ c.mi = d.mi
      /\ c.interrupt_pending = p /\ c.branch_irq_hack = d.branch_irq_hack
      /\ c.I = d.I /\ c.iflag_pending = d.iflag_pending /\ c.ea = d.ea /\ c.cross = d.cross
      /\ c.NMI = d.NMI /\ c.IRQ = d.IRQ /\ c.rdy_freeze = d.rdy_freeze
  BY <1>1 DEF CpuState
<1> HIDE DEF c
<1>4. Uop(c) = "FetchDummy"
  BY <1>3 DEF Uop, Microcode
<1>5. ExecuteOneRetry(c, TRUE) = FetchDummy(c, TRUE)
  BY <1>4 DEF ExecuteOneRetry
<1>6. \A s : s.acc = <<>> => FetchDummy(s, TRUE) = {[s EXCEPT !.acc = a]}
  BY AccessIs DEF FetchDummy, Dummy
<1> HIDE DEF a
<1> DEFINE u == [c EXCEPT !.acc = a]
           v == [d EXCEPT !.acc = a]
<1>7. /\ u \in CpuState /\ v \in CpuState
      /\ u.row = v.row /\ u.mi = v.mi /\ u.I = v.I /\ u.iflag_pending = v.iflag_pending
      /\ u.branch_irq_hack = v.branch_irq_hack /\ u.ea = v.ea /\ u.cross = v.cross
      /\ u.NMI = v.NMI /\ u.IRQ = v.IRQ /\ u.rdy_freeze = v.rdy_freeze /\ u.acc = v.acc
  BY <1>1, <1>3 DEF CpuState
<1>8. /\ u.interrupt_pending = p /\ v.interrupt_pending = d.interrupt_pending
      /\ v.NMI = d.NMI /\ v.IRQ = d.IRQ /\ v.I = d.I
  BY <1>1, <1>3 DEF CpuState
<1>9. FetchDummy(d, TRUE) = {v} /\ FetchDummy(c, TRUE) = {u}
  BY <1>1, <1>3, <1>6
<1> HIDE DEF u, v
<1>10. (u.interrupt_pending \/ Interrupted(u)) = (v.interrupt_pending \/ Interrupted(v))
  BY <1>7, <1>8 DEF p, Interrupted
<1>11. Same(u, v)
  BY <1>7, <1>10 DEF Same
<1>12. Settled(Advanced(u)) = Settled(Advanced(v))
  BY <1>7, <1>11, SettledSame
<1>13. Retries(d, FetchDummy(d, TRUE))
  BY <1>2, <1>5, <1>12, <1>9 DEF Retries
<1>14. FetchDummy(d, FALSE) = {Frozen(d)}
  BY DEF FetchDummy, Dummy
<1> QED
  BY <1>13, <1>14

\* A poll is not taken back by a frozen cycle.
LEMMA HeldPollOf ==
  ASSUME NEW s \in CpuState, s.row = "Fetch1", s.mi = 0, s.acc = <<>>, s.rdy_freeze = FALSE
  PROVE  \E d : AtRest(d) /\ Fetch1(s, FALSE) = {Frozen(d)} /\ Retries(d, Fetch1(s, TRUE))
<1> DEFINE p == s.iflag_pending
           Nmi == [s EXCEPT !.I = p, !.mi = 0, !.interrupt_pending = FALSE,
                            !.ea = "nmi", !.row = "NMI", !.NMI = FALSE]
           Irq == [s EXCEPT !.I = p, !.mi = 0, !.interrupt_pending = FALSE,
                            !.ea = "irq", !.row = "IRQ"]
           Cont == [s EXCEPT !.I = p, !.mi = 0, !.row = "Fetch1_NoInterrupt"]
           Clear == [s EXCEPT !.I = p, !.mi = 0, !.interrupt_pending = FALSE,
                              !.row = "Fetch1_NoInterrupt"]
<1>1. {"NMI", "IRQ", "Fetch1_NoInterrupt"} \subseteq DOMAIN Microcode
  BY TableDomain DEF Vops
<1>2. p \in BOOLEAN
  BY DEF CpuState
<1>3. CASE s.NMI /\ ~s.branch_irq_hack
  <2>1. \A rdy \in BOOLEAN : Fetch1(s, rdy) = FetchDummy(Nmi, rdy)
    BY <1>3 DEF Fetch1, CpuState
  <2>2. /\ Nmi \in CpuState /\ Nmi.row = "NMI" /\ Nmi.mi = 0 /\ Nmi.acc = <<>>
        /\ Nmi.rdy_freeze = FALSE
    BY <1>1, <1>2 DEF CpuState
  <2> HIDE DEF Nmi
  <2>3. AtRest(Nmi)
    BY <2>2 DEF AtRest
  <2> QED
    BY <2>1, <2>2, <2>3, HeldSequence
<1>4. CASE ~(s.NMI /\ ~s.branch_irq_hack) /\ s.IRQ /\ ~s.I /\ ~s.branch_irq_hack
  <2>1. \A rdy \in BOOLEAN : Fetch1(s, rdy) = FetchDummy(Irq, rdy)
    BY <1>4 DEF Fetch1, CpuState
  <2>2. /\ Irq \in CpuState /\ Irq.row = "IRQ" /\ Irq.mi = 0 /\ Irq.acc = <<>>
        /\ Irq.rdy_freeze = FALSE
    BY <1>1, <1>2 DEF CpuState
  <2> HIDE DEF Irq
  <2>3. AtRest(Irq)
    BY <2>2 DEF AtRest
  <2> QED
    BY <2>1, <2>2, <2>3, HeldSequence
<1>5. CASE ~(s.NMI /\ ~s.branch_irq_hack) /\ ~(s.IRQ /\ ~s.I /\ ~s.branch_irq_hack)
  <2> DEFINE c == IF s.branch_irq_hack THEN Cont ELSE Clear
  <2>1. \A rdy \in BOOLEAN : Fetch1(s, rdy) = Fetch1_Real(c, rdy)
    BY <1>5 DEF Fetch1, CpuState
  <2>2. /\ Cont \in CpuState /\ Cont.row = "Fetch1_NoInterrupt" /\ Cont.mi = 0
        /\ Cont.acc = <<>> /\ Cont.rdy_freeze = FALSE
    BY <1>1, <1>2 DEF CpuState
  <2>3. /\ Clear \in CpuState /\ Clear.row = "Fetch1_NoInterrupt" /\ Clear.mi = 0
        /\ Clear.acc = <<>> /\ Clear.rdy_freeze = FALSE
    BY <1>1, <1>2 DEF CpuState
  <2> HIDE DEF Cont, Clear
  <2>4. AtRest(c) /\ c.row = "Fetch1_NoInterrupt" /\ c.mi = 0
    BY <2>2, <2>3 DEF AtRest
  <2> HIDE DEF c
  <2> QED
    BY <2>1, <2>4, HeldFetch
<1> QED
  BY <1>3, <1>4, <1>5

\* The ends of rows, with or without a poll.
LEMMA HeldEnds ==
  ASSUME NEW b, Ready(b), Uop(b) \in PollUops \cup FetchUops
  PROVE  \E d : HeldAt(b, d)
<1> DEFINE z == 0
<1>1. b \in CpuState /\ b.acc = <<>> /\ b.rdy_freeze = FALSE /\ b.I \in BOOLEAN
  BY DEF Ready, CpuState
<1>2. {"Fetch1", "Fetch1_NoInterrupt"} \subseteq DOMAIN Microcode
  BY TableDomain DEF Vops
<1>3. z \in -1..7 /\ z = 0
  OBVIOUS
<1> HIDE DEF z
<1>4. CASE Uop(b) \in PollUops
  <2> DEFINE u == IF Uop(b) = "End"
                  THEN [b EXCEPT !.row = "Fetch1", !.mi = z, !.iflag_pending = b.I]
                  ELSE [b EXCEPT !.row = "Fetch1", !.mi = z]
  <2>1. \A rdy \in BOOLEAN : ExecuteOneRetry(b, rdy) = Fetch1(u, rdy)
    BY <1>3, <1>4 DEF PollUops, ExecuteOneRetry, End, End_ISpecial
  <2>2. u \in CpuState /\ u.row = "Fetch1" /\ u.mi = z /\ u.acc = <<>> /\ u.rdy_freeze = FALSE
    <3>1. CASE Uop(b) = "End"
      BY <1>1, <1>2, <1>3, <3>1 DEF CpuState
    <3>2. CASE Uop(b) # "End"
      BY <1>1, <1>2, <1>3, <3>2 DEF CpuState
    <3> QED
      BY <3>1, <3>2
  <2> HIDE DEF u
  <2>3. \E d : AtRest(d) /\ Fetch1(u, FALSE) = {Frozen(d)} /\ Retries(d, Fetch1(u, TRUE))
    BY <1>3, <2>2, HeldPollOf
  <2> QED
    BY <2>1, <2>3 DEF HeldAt, Retries
<1>5. CASE Uop(b) = "End_SuppressInterrupt"
  <2> DEFINE d == [b EXCEPT !.row = "Fetch1_NoInterrupt", !.mi = z]
  <2>1. \A rdy \in BOOLEAN : ExecuteOneRetry(b, rdy) = Fetch1_Real(d, rdy)
    BY <1>3, <1>5 DEF ExecuteOneRetry, End_SuppressInterrupt
  <2>2. /\ d \in CpuState /\ d.row = "Fetch1_NoInterrupt" /\ d.mi = z /\ d.acc = <<>>
        /\ d.rdy_freeze = FALSE
    BY <1>1, <1>2, <1>3 DEF CpuState
  <2> HIDE DEF d
  <2>3. AtRest(d) /\ d.mi = 0
    BY <1>3, <2>2 DEF AtRest
  <2>4. Fetch1_Real(d, FALSE) = {Frozen(d)} /\ Retries(d, Fetch1_Real(d, TRUE))
    BY <2>2, <2>3, HeldFetch
  <2> QED
    BY <2>1, <2>3, <2>4 DEF HeldAt, Retries
<1>6. CASE Uop(b) = "Fetch1_Real"
  <2>1. b.row = "Fetch1_NoInterrupt" /\ b.mi = 0
    BY <1>6, Where DEF RowFacts
  <2>2. \A rdy \in BOOLEAN : ExecuteOneRetry(b, rdy) = Fetch1_Real(b, rdy)
    BY <1>6 DEF ExecuteOneRetry
  <2>3. AtRest(b)
    BY <1>1 DEF AtRest
  <2>4. Fetch1_Real(b, FALSE) = {Frozen(b)} /\ Retries(b, Fetch1_Real(b, TRUE))
    BY <2>1, <2>3, HeldFetch
  <2> QED
    BY <2>2, <2>3, <2>4 DEF HeldAt, Retries
<1> QED
  BY <1>4, <1>5, <1>6 DEF FetchUops

\* Every stage that does not write can be held.
LEMMA HeldOrWrites ==
  ASSUME NEW b, Ready(b), Noticed(b), Uop(b) \notin WriteUops
  PROVE  \E d : HeldAt(b, d)
<1> DEFINE u == Uop(b)
<1>1. u \in Stages /\ u # "Fetch1"
  <2>1. /\ b.row \in DOMAIN Microcode /\ b.mi + 1 \in DOMAIN Microcode[b.row]
        /\ u = Stage(b.row, b.mi + 1) /\ RowFacts(b.row, b.mi + 1)
    BY Where
  <2>2. Stage(b.row, b.mi + 1) \in Stages
    BY <2>1, Table
  <2>3. b.row # "Fetch1"
    BY DEF Ready
  <2> HIDE DEF u
  <2> QED
    BY <2>1, <2>2, <2>3 DEF RowFacts
<1>2. \/ u \in HeldUops \/ u \in IndexedUops \/ u \in SumUops \/ u \in SkipUops
      \/ u \in UnstableUops \/ u \in PendingUops \/ u = "FetchPCHVector"
      \/ u \in PollUops \cup FetchUops
  BY <1>1 DEF Stages, HeldUops, SingleUops, LeaveUops
<1>3. CASE u \in HeldUops
  BY <1>3, HeldReads, HeldPlainly
<1>4. CASE u \in SumUops
  BY <1>4, HeldSums, HeldPlainly
<1>5. CASE u \in IndexedUops
  <2>1. ExecuteOneRetry(b, FALSE) = ReadIndexed(b, FALSE)
    BY <1>5 DEF IndexedUops, ExecuteOneRetry, AbsIdx_Stage4, IndIdx_WRITE_Stage5,
      IndIdx_RMW_Stage5
  <2> QED
    BY <2>1, HeldIndexed, HeldPlainly
<1>6. CASE u = "FetchPCHVector"
  BY <1>6, HeldVector, HeldPlainly
<1> QED
  BY <1>2, <1>3, <1>4, <1>5, <1>6, HeldSkip, HeldUnstable, HeldPending, HeldEnds

\* The stages that write do not look at RDY.
LEMMA WritesRegardless ==
  ASSUME NEW b, Uop(b) \in WriteUops
  PROVE  ExecuteOneRetry(b, FALSE) = ExecuteOneRetry(b, TRUE)
<1>1. CASE Uop(b) \in StoreUops
  BY <1>1 DEF StoreUops, PlainStoreUops, MaskUops, ExecuteOneRetry
<1>2. CASE Uop(b) \in ZpUops \cup PushUops \cup FlagUops
  BY <1>2 DEF ZpUops, PushUops, FlagUops, ExecuteOneRetry
<1> QED
  BY <1>1, <1>2 DEF WriteUops

\* The first access of a write.
LEMMA HeadOfWrites == \A a \in WriteUses : Head(a) \in {"push", "zp", "store"}
  BY DEF WriteUses

\* A frozen cycle only delays, in any state that can run.
LEMMA Transparent ==
  ASSUME InPlace(mos)
  PROVE  FreezeIsTransparent
<1> DEFINE b == Start(mos)
<1>1. Runnable(mos)
  BY DEF InPlace, Runnable
<1>2. Begun(mos, b)
  BY <1>1, StartIs
<1>3. Ready(b) /\ Noticed(b)
  BY <1>2 DEF Begun, Noticed, Interrupted
<1>4. \A rdy \in BOOLEAN :
        ExecuteOne(mos, rdy) = {Advanced(u) : u \in ExecuteOneRetry(b, rdy)}
  BY ExecuteOneIs
<1> HIDE DEF b
<1>5. SUFFICES ASSUME NEW t \in ExecuteOne(mos, FALSE)
      PROVE  IF t.rdy_freeze
             THEN /\ t.acc = <<>>
                  /\ \A u \in ExecuteOne(t, TRUE) :
                       \E v \in ExecuteOne(mos, TRUE) : Settled(u) = Settled(v)
             ELSE /\ Head(t.acc) \in {"push", "zp", "store"}
                  /\ t \in ExecuteOne(mos, TRUE)
  BY DEF FreezeIsTransparent
<1>6. CASE Uop(b) \in WriteUops
  <2>1. t \in ExecuteOne(mos, TRUE)
    BY <1>4, <1>6, WritesRegardless
  <2>2. PICK w \in ExecuteOneRetry(b, FALSE) : t = Advanced(w)
    BY <1>4
  <2>3. Uop(b) \notin LeaveUops \cup BranchUops
    BY <1>6 DEF WriteUops, StoreUops, PlainStoreUops, MaskUops, ZpUops, PushUops, FlagUops,
      LeaveUops, PollUops, FetchUops, BranchUops
  <2>4. Does(b, w)
    BY <1>3, <2>3, StageOutcome DEF LeaveUops
  <2>5. ~w.rdy_freeze /\ w.acc \in WriteUses
    BY <1>6, <2>4 DEF Does, Uses, WriteUses
  <2>6. t.rdy_freeze = w.rdy_freeze /\ t.acc = w.acc
    <3>1. w \in CpuState
      BY <2>4 DEF Does, Keeps
    <3> QED
      BY <2>2, <3>1 DEF Advanced, CpuState
  <2> QED
    BY <2>1, <2>5, <2>6, HeadOfWrites
<1>7. CASE Uop(b) \notin WriteUops
  <2>1. PICK d : HeldAt(b, d)
    BY <1>3, <1>7, HeldOrWrites
  <2>2. AtRest(d) /\ ExecuteOneRetry(b, FALSE) = {Frozen(d)}
    BY <2>1 DEF HeldAt
  <2>3. t = Frozen(d) /\ t.acc = <<>> /\ t.rdy_freeze = TRUE
    <3>1. ExecuteOne(mos, FALSE) = {Advanced(Frozen(d))}
      BY <1>4, <2>2
    <3>2. Advanced(Frozen(d)) = Frozen(d) /\ Frozen(d).acc = <<>> /\ Frozen(d).rdy_freeze = TRUE
      BY <2>2, StartFrozen
    <3> QED
      BY <1>5, <3>1, <3>2
  <2>4. ExecuteOne(t, TRUE) = {Advanced(u) : u \in ExecuteOneRetry(Start(Frozen(d)), TRUE)}
    BY <2>3, ExecuteOneIs
  <2>5. \A u \in ExecuteOneRetry(Start(Frozen(d)), TRUE) :
          \E v \in ExecuteOneRetry(b, TRUE) : Settled(Advanced(u)) = Settled(Advanced(v))
    BY <2>1 DEF HeldAt
  <2>6. \A u \in ExecuteOne(t, TRUE) :
          \E v \in ExecuteOne(mos, TRUE) : Settled(u) = Settled(v)
    BY <1>4, <2>4, <2>5
  <2> QED
    BY <2>3, <2>6
<1> QED
  BY <1>6, <1>7

(***************************************************************************)
(* A cycle with RDY low only delays.                                       *)
(***************************************************************************)
THEOREM FreezesAreTransparent == CpuSpec => []FreezeIsTransparent
<1>1. CpuInv => FreezeIsTransparent
  BY Transparent DEF CpuInv
<1> QED
  BY <1>1, CpuInvariance, PTL

=============================================================================

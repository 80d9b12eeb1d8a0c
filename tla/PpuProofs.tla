------------------------------ MODULE PpuProofs ------------------------------
(***************************************************************************)
(* What holds of the PPU's open bus, for every set of bus lines and every  *)
(* decay period: the batched decay keeps its checkpoint exact, never owes  *)
(* a bit-clear, and implements the per-cycle open bus.  And of its         *)
(* sprites, for every size of OAM, line and slot count, every program and  *)
(* every access: indices stay in their arrays, and a line that is left     *)
(* alone shows the sprites it should.  The two share no state.             *)
(***************************************************************************)
EXTENDS OpenBusDecay, Sprites, FiniteSetTheorems, WellFoundedInduction, TLAPS

(***************************************************************************)
(* The inductive invariant: NoClearOwed alone is not inductive, because it *)
(* is the exactness of decay_next_check that makes the flush come in time. *)
(***************************************************************************)
BusInv == BusTypeOK /\ CheckpointExact /\ NoClearOwed

-----------------------------------------------------------------------------
\* recomputeDecayCheck's scan really finds the least timer.
LEMMA MinTimerIsLeast ==
  ASSUME NEW t \in Timers
  PROVE  /\ MinTimer(t) \in {t[i] : i \in Bits}
         /\ \A i \in Bits : MinTimer(t) <= t[i]
<1> DEFINE T == {t[i] : i \in Bits}
<1>1. T \subseteq Nat /\ T # {}
  BY BitsAssumption, PeriodAssumption DEF Timers
<1>2. \E x \in T : \A y \in T : ~(<<y, x>> \in OpToRel(<, Nat))
  <2> HIDE DEF T
  <2> QED BY <1>1, NatLessThanWellFounded, WFMin
<1>3. PICK x \in T : \A y \in T : ~(<<y, x>> \in OpToRel(<, Nat))
  BY <1>2
<1>4. \A y \in T : x <= y
  <2> TAKE y \in T
  <2>1. x \in Nat /\ y \in Nat
    BY <1>1, <1>3
  <2>2. ~(y < x)
    BY <1>3, <2>1 DEF OpToRel
  <2> QED BY <2>1, <2>2
<1>5. \A i \in Bits : x <= t[i]
  BY <1>4
<1> QED BY <1>3, <1>5 DEF MinTimer

\* The checkpoint recomputed from the timers t is the first step that clears
\* a bit.
LEMMA RecomputedCheckpoint ==
  ASSUME NEW t \in Timers
  PROVE  /\ RecomputeDecayCheck(t) \in Nat \ {0}
         /\ \A i \in Bits : RecomputeDecayCheck(t) <= t[i] + 1
         /\ \E i \in Bits : RecomputeDecayCheck(t) = t[i] + 1
<1>1. PICK i \in Bits : MinTimer(t) = t[i]
  BY MinTimerIsLeast
<1>2. t \in [Bits -> Nat] /\ MinTimer(t) \in Nat
  BY <1>1, PeriodAssumption DEF Timers
<1> QED BY <1>1, <1>2, MinTimerIsLeast DEF RecomputeDecayCheck

\* A flush of at most one step more than the timer holds: the timer runs down,
\* or it reloads exactly once.
LEMMA FlushedTimerValue ==
  ASSUME NEW t \in 0..Period, NEW k \in Nat, k <= t + 1
  PROVE  FlushedTimer(t, k) = IF k <= t THEN t - k ELSE Period
<1>1. Period \in Nat /\ t \in Nat
  BY PeriodAssumption
<1>2. 0 % (Period + 1) = 0
  BY <1>1
<1>3. CASE k <= t
  BY <1>3 DEF FlushedTimer
<1>4. CASE ~(k <= t)
  <2>1. k - t - 1 = 0
    BY <1>1, <1>4
  <2> QED BY <1>1, <1>2, <1>4, <2>1 DEF FlushedTimer
<1> QED BY <1>3, <1>4

\* The same for all lines at once: such a flush keeps every timer in range.
LEMMA FlushedTimersType ==
  ASSUME NEW t \in Timers, NEW k \in Nat, \A i \in Bits : k <= t[i] + 1
  PROVE  /\ FlushedTimers(t, k) \in Timers
         /\ \A i \in Bits : FlushedTimers(t, k)[i] = IF k <= t[i] THEN t[i] - k ELSE Period
<1>1. \A i \in Bits : FlushedTimers(t, k)[i] = IF k <= t[i] THEN t[i] - k ELSE Period
  BY FlushedTimerValue DEF FlushedTimers, Timers
<1>2. \A i \in Bits : (IF k <= t[i] THEN t[i] - k ELSE Period) \in 0..Period
  <2> TAKE i \in Bits
  <2>1. t[i] \in 0..Period /\ Period \in Nat
    BY PeriodAssumption DEF Timers
  <2> QED BY <2>1
<1> QED BY <1>1, <1>2 DEF FlushedTimers, Timers

\* What every flush leaves behind: typed timers and an exact checkpoint with
\* nothing owed.
LEMMA FreshCheckpoint ==
  ASSUME timer' \in Timers, pending' = 0, next_check' = RecomputeDecayCheck(timer')
  PROVE  /\ pending' \in Nat
         /\ next_check' \in Nat
         /\ CheckpointExact'
         /\ NoClearOwed'
  BY RecomputedCheckpoint DEF CheckpointExact, NoClearOwed

\* The steps owed never exceed any timer.
LEMMA OwedWithinTimers ==
  ASSUME BusInv
  PROVE  \A i \in Bits : timer[i] \in Nat /\ pending \in Nat /\ pending <= timer[i]
<1> TAKE i \in Bits
<1>1. timer[i] \in Nat /\ pending \in Nat /\ next_check \in Nat
  BY PeriodAssumption DEF BusInv, BusTypeOK, Timers
<1>2. pending < next_check /\ next_check <= timer[i] + 1
  BY DEF BusInv, CheckpointExact, NoClearOwed
<1> QED BY <1>1, <1>2

\* The flush of the steps owed now: no bit is cleared and every timer runs
\* down by what was owed.
LEMMA FlushNow ==
  ASSUME BusInv
  PROVE  /\ FlushedTimers(timer, pending) \in Timers
         /\ FlushedTimers(timer, pending) = [i \in Bits |-> timer[i] - pending]
         /\ FlushedBus(bus, timer, pending) = bus
<1>1. \A i \in Bits : timer[i] \in Nat /\ pending \in Nat /\ pending <= timer[i]
  BY OwedWithinTimers
<1>2. /\ timer \in Timers
      /\ pending \in Nat
      /\ \A i \in Bits : pending <= timer[i] + 1
  BY <1>1 DEF BusInv, BusTypeOK
<1>3. FlushedTimers(timer, pending) \in Timers
  BY <1>2, FlushedTimersType
<1>4. \A i \in Bits : FlushedTimers(timer, pending)[i] = timer[i] - pending
  BY <1>1, <1>2, FlushedTimersType
<1>5. FlushedTimers(timer, pending) = [i \in Bits |-> timer[i] - pending]
  BY <1>4 DEF FlushedTimers
<1>6. FlushedBus(bus, timer, pending) = bus
  BY <1>1 DEF FlushedBus, FlushClears, BusInv, BusTypeOK, Byte
<1> QED BY <1>3, <1>5, <1>6

\* The flush one step later, when the checkpoint is reached: the timers that
\* stood at exactly what is owed clear their bit and reload.
LEMMA FlushDue ==
  ASSUME BusInv
  PROVE  /\ FlushedTimers(timer, pending + 1) \in Timers
         /\ \A i \in Bits : FlushedTimers(timer, pending + 1)[i] =
               IF timer[i] - pending = 0 THEN Period ELSE timer[i] - pending - 1
         /\ FlushedBus(bus, timer, pending + 1) = {i \in bus : timer[i] - pending # 0}
<1>1. \A i \in Bits : timer[i] \in Nat /\ pending \in Nat /\ pending <= timer[i]
  BY OwedWithinTimers
<1>2. /\ timer \in Timers
      /\ pending + 1 \in Nat
      /\ \A i \in Bits : pending + 1 <= timer[i] + 1
  BY <1>1 DEF BusInv, BusTypeOK
<1>3. FlushedTimers(timer, pending + 1) \in Timers
  BY <1>2, FlushedTimersType
<1>4. \A i \in Bits : FlushedTimers(timer, pending + 1)[i] =
        IF pending + 1 <= timer[i] THEN timer[i] - (pending + 1) ELSE Period
  BY <1>2, FlushedTimersType
<1>5. \A i \in Bits : FlushedTimers(timer, pending + 1)[i] =
        IF timer[i] - pending = 0 THEN Period ELSE timer[i] - pending - 1
  <2> TAKE i \in Bits
  <2>1. timer[i] \in Nat /\ pending \in Nat /\ pending <= timer[i]
    BY <1>1
  <2> QED BY <1>4, <2>1
<1>6. FlushedBus(bus, timer, pending + 1) = {i \in bus : timer[i] - pending # 0}
  BY <1>1 DEF FlushedBus, FlushClears, BusInv, BusTypeOK, Byte
<1> QED BY <1>3, <1>5, <1>6
-----------------------------------------------------------------------------
\* A timer reset (DecayType High, Low, All) keeps every timer in range.
LEMMA RefreshType ==
  ASSUME NEW t \in Timers, NEW S \in SUBSET Bits
  PROVE  Refresh(t, S) \in Timers
  BY PeriodAssumption DEF Refresh, Timers

\* The timers of a reset PPU are in range.
LEMMA ZeroTimers == [i \in Bits |-> 0] \in Timers
  BY PeriodAssumption DEF Timers

\* A freshly constructed PPU satisfies the invariant.
LEMMA BusInitInvariant == BusInit => BusInv
<1> SUFFICES ASSUME BusInit PROVE BusInv
  OBVIOUS
<1>1. /\ RecomputeDecayCheck(timer) \in Nat \ {0}
      /\ \A i \in Bits : RecomputeDecayCheck(timer) <= timer[i] + 1
      /\ \E i \in Bits : RecomputeDecayCheck(timer) = timer[i] + 1
  BY ZeroTimers, RecomputedCheckpoint DEF BusInit
<1>2. BusTypeOK
  BY <1>1, ZeroTimers DEF BusInit, BusTypeOK, Byte, Snapshot
<1>3. CheckpointExact /\ NoClearOwed
  BY <1>1 DEF BusInit, CheckpointExact, NoClearOwed
<1> QED BY <1>2, <1>3 DEF BusInv

\* Every step of the batched decay preserves the invariant.
LEMMA BusNextInvariant == BusInv /\ [BusNext]_busVars => BusInv'
<1> SUFFICES ASSUME BusInv, [BusNext]_busVars PROVE BusInv'
  OBVIOUS
<1>t. BusTypeOK
  BY DEF BusInv
<1>1. CASE DecayNone
  <2>1. CASE pending + 1 >= next_check
    <3>1. timer' \in Timers /\ bus' \in Byte
      BY <1>1, <2>1, <1>t, FlushDue DEF DecayNone, BusTypeOK, Byte
    <3>2. pending' = 0 /\ next_check' = RecomputeDecayCheck(timer')
      BY <1>1, <2>1 DEF DecayNone
    <3> QED BY <1>1, <1>t, <3>1, <3>2, FreshCheckpoint DEF DecayNone, BusInv, BusTypeOK
  <2>2. CASE ~(pending + 1 >= next_check)
    <3>1. /\ pending' = pending + 1
          /\ UNCHANGED <<bus, timer, next_check, returned, saved>>
      BY <1>1, <2>2 DEF DecayNone
    <3>2. pending' \in Nat /\ pending' < next_check'
      BY <1>t, <2>2, <3>1 DEF BusTypeOK
    <3> QED BY <3>1, <3>2 DEF BusInv, BusTypeOK, CheckpointExact, NoClearOwed
  <2> QED BY <2>1, <2>2
<1>2. ASSUME NEW v \in Byte, WriteReg(v) PROVE BusInv'
  <2>1. timer' \in Timers
    BY <1>2, FlushNow DEF WriteReg
  <2> QED BY <1>2, <1>t, <2>1, FreshCheckpoint DEF WriteReg, BusInv, BusTypeOK
<1>3. ASSUME NEW S \in {{}, HighBits, LowBits, Bits}, NEW v \in SUBSET S, ReadReg(S, v)
      PROVE BusInv'
  <2>1. S \in SUBSET Bits /\ v \in SUBSET Bits
    BY <1>3, BitsAssumption
  <2>2. timer' \in Timers
    BY <1>3, <2>1, FlushNow, RefreshType DEF ReadReg
  <2>3. bus' \in Byte /\ returned' \in Byte
    BY <1>3, <1>t, <2>1, FlushNow DEF ReadReg, Drive, BusTypeOK, Byte
  <2> QED BY <1>3, <1>t, <2>2, <2>3, FreshCheckpoint DEF ReadReg, BusInv, BusTypeOK
<1>4. CASE PeekReg
  <2>1. timer' \in Timers /\ bus' = bus
    BY <1>4, FlushNow DEF PeekReg
  <2> QED BY <1>4, <1>t, <2>1, FreshCheckpoint DEF PeekReg, BusInv, BusTypeOK
<1>5. CASE Reset
  <2>1. timer' \in Timers /\ bus' \in Byte
    BY <1>5, ZeroTimers DEF Reset, Byte
  <2> QED BY <1>5, <1>t, <2>1, FreshCheckpoint DEF Reset, BusInv, BusTypeOK
<1>6. CASE SaveState
  <2>1. timer' \in Timers /\ bus' = bus
    BY <1>6, FlushNow DEF SaveState
  <2>2. saved' \in [bus : Byte, timer : Timers]
    BY <1>6, <1>t, <2>1 DEF SaveState, Snapshot, BusTypeOK
  <2> QED BY <1>6, <1>t, <2>1, <2>2, FreshCheckpoint DEF SaveState, BusInv, BusTypeOK
<1>7. CASE LoadState
  <2>1. timer' \in Timers /\ bus' \in Byte
    BY <1>7, <1>t DEF LoadState, BusTypeOK
  <2> QED BY <1>7, <1>t, <2>1, FreshCheckpoint DEF LoadState, BusInv, BusTypeOK
<1>8. CASE UNCHANGED busVars
  BY <1>8 DEF busVars, BusInv, BusTypeOK, CheckpointExact, NoClearOwed
<1> QED BY <1>1, <1>2, <1>3, <1>4, <1>5, <1>6, <1>7, <1>8 DEF BusNext
-----------------------------------------------------------------------------
\* BusTypeOK holds in every reachable state, whatever the lines and the period.
THEOREM BusTypeCorrect == BusSpec => []BusTypeOK
<1>1. BusInv => BusTypeOK
  BY DEF BusInv
<1> QED BY BusInitInvariant, BusNextInvariant, <1>1, PTL DEF BusSpec

\* decay_next_check always names the step of the earliest bit-clear.
THEOREM CheckpointAlwaysExact == BusSpec => []CheckpointExact
<1>1. BusInv => CheckpointExact
  BY DEF BusInv
<1> QED BY BusInitInvariant, BusNextInvariant, <1>1, PTL DEF BusSpec

\* No bit-clear is ever among the owed steps, so ppu_open_bus may be read
\* without a flush at any time.
THEOREM NeverOwesAClear == BusSpec => []NoClearOwed
<1>1. BusInv => NoClearOwed
  BY DEF BusInv
<1> QED BY BusInitInvariant, BusNextInvariant, <1>1, PTL DEF BusSpec

\* Every bit is cleared in the cycle in which the per-cycle decay clears it.
THEOREM ClearsAlwaysOnTime == BusSpec => []ClearsOnTime
<1>1. CheckpointExact /\ NoClearOwed => ClearsOnTime
  BY DEF ClearsOnTime
<1> QED BY CheckpointAlwaysExact, NeverOwesAClear, <1>1, PTL
-----------------------------------------------------------------------------
(***************************************************************************)
(* The refinement.  Effective holds the per-cycle timers: those of the    *)
(* implementation with the owed steps taken off.                           *)
(***************************************************************************)
Effective == [i \in Bits |-> timer[i] - pending]

\* A reset PPU is an initial state of the per-cycle bus.
LEMMA RefinesInit == BusInit => PerCycle!Init
<1> SUFFICES ASSUME BusInit PROVE PerCycle!Init
  OBVIOUS
<1>1. Effective = [i \in Bits |-> 0]
  BY DEF BusInit, Effective
<1> QED BY <1>1 DEF BusInit, PerCycle!Init, PerCycle!Snapshot, Snapshot, Effective

\* A step that leaves nothing owed shows its own timers to the per-cycle bus.
LEMMA NothingOwed ==
  ASSUME pending' = 0, timer' \in Timers
  PROVE  Effective' = timer'
<1>1. \A i \in Bits : timer'[i] \in Nat /\ timer'[i] - 0 = timer'[i]
  BY PeriodAssumption DEF Timers
<1> QED BY <1>1 DEF Effective, Timers

\* Every step of the batched decay is a step of the per-cycle bus, or is
\* invisible to it (PeekReg).
LEMMA RefinesNext ==
  BusInv /\ BusInv' /\ [BusNext]_busVars => [PerCycle!Next]_(PerCycle!vars)
<1> SUFFICES ASSUME BusInv, BusInv', [BusNext]_busVars
             PROVE  [PerCycle!Next]_(PerCycle!vars)
  OBVIOUS
<1>t. timer \in Timers /\ timer' \in Timers
  BY DEF BusInv, BusTypeOK
<1>f. /\ FlushedTimers(timer, pending) = Effective
      /\ FlushedBus(bus, timer, pending) = bus
  BY FlushNow DEF Effective
<1>1. CASE DecayNone
  <2> SUFFICES PerCycle!Cycle
    BY DEF PerCycle!Next
  <2>0. \A i \in Bits : timer[i] \in Nat /\ pending \in Nat /\ pending <= timer[i]
    BY OwedWithinTimers
  <2>1. CASE pending + 1 >= next_check
    <3>1. Effective' = timer'
      BY <1>1, <2>1, <1>t, NothingOwed DEF DecayNone
    <3>2. /\ timer' = FlushedTimers(timer, pending + 1)
          /\ bus' = {i \in bus : timer[i] - pending # 0}
      BY <1>1, <2>1, FlushDue DEF DecayNone
    <3>3. timer' = [i \in Bits |-> IF Effective[i] = 0 THEN Period ELSE Effective[i] - 1]
      BY <3>2, <1>t, FlushDue DEF Effective, Timers
    <3>4. bus' = {i \in bus : Effective[i] # 0}
      BY <3>2 DEF Effective, BusInv, BusTypeOK, Byte
    <3> QED BY <1>1, <3>1, <3>3, <3>4 DEF DecayNone, PerCycle!Cycle, Effective
  <2>2. CASE ~(pending + 1 >= next_check)
    <3>1. pending' = pending + 1 /\ UNCHANGED <<bus, timer, next_check, returned, saved>>
      BY <1>1, <2>2 DEF DecayNone
    <3>2. \A i \in Bits : timer[i] - pending # 0 /\ timer[i] - (pending + 1) = timer[i] - pending - 1
      <4> TAKE i \in Bits
      <4>1. timer[i] \in Nat /\ pending \in Nat /\ next_check \in Nat
        BY <2>0 DEF BusInv, BusTypeOK
      <4>2. next_check <= timer[i] + 1
        BY DEF BusInv, CheckpointExact
      <4> QED BY <2>2, <4>1, <4>2
    <3>3. Effective' = [i \in Bits |-> IF Effective[i] = 0 THEN Period ELSE Effective[i] - 1]
      BY <3>1, <3>2 DEF Effective
    <3>4. bus' = {i \in bus : Effective[i] # 0}
      BY <3>1, <3>2 DEF Effective, BusInv, BusTypeOK, Byte
    <3> QED BY <3>1, <3>3, <3>4 DEF PerCycle!Cycle, Effective
  <2> QED BY <2>1, <2>2
<1>2. ASSUME NEW v \in Byte, WriteReg(v) PROVE PerCycle!Next
  <2>1. Effective' = Effective
    BY <1>2, <1>t, <1>f, NothingOwed DEF WriteReg
  <2>2. PerCycle!Write(v)
    BY <1>2, <2>1 DEF WriteReg, PerCycle!Write, Effective
  <2> QED BY <2>2 DEF PerCycle!Next, Byte
<1>3. ASSUME NEW S \in {{}, HighBits, LowBits, Bits}, NEW v \in SUBSET S, ReadReg(S, v)
      PROVE PerCycle!Next
  <2>1. Effective' = Refresh(Effective, S)
    BY <1>3, <1>t, <1>f, NothingOwed DEF ReadReg
  <2>2. PerCycle!Read(S, v)
    BY <1>3, <1>f, <2>1 DEF ReadReg, PerCycle!Read, PerCycle!Drive, Drive,
       PerCycle!Refresh, Refresh, Effective
  <2> QED BY <2>2 DEF PerCycle!Next
<1>4. CASE PeekReg
  <2>1. Effective' = Effective
    BY <1>4, <1>t, <1>f, NothingOwed DEF PeekReg
  <2> QED BY <1>4, <1>f, <2>1 DEF PeekReg, PerCycle!vars, Effective
<1>5. CASE Reset
  <2>1. Effective' = [i \in Bits |-> 0]
    BY <1>5, <1>t, NothingOwed DEF Reset
  <2>2. PerCycle!Reset
    BY <1>5, <2>1 DEF Reset, PerCycle!Reset, Effective
  <2> QED BY <2>2 DEF PerCycle!Next
<1>6. CASE SaveState
  <2>1. Effective' = Effective /\ timer' = Effective
    BY <1>6, <1>t, <1>f, NothingOwed DEF SaveState
  <2>2. PerCycle!Save
    BY <1>6, <1>f, <2>1 DEF SaveState, Snapshot, PerCycle!Snapshot, PerCycle!Save, Effective
  <2> QED BY <2>2 DEF PerCycle!Next
<1>7. CASE LoadState
  <2>1. Effective' = saved.timer
    BY <1>7, <1>t, NothingOwed DEF LoadState
  <2>2. PerCycle!Load
    BY <1>7, <2>1 DEF LoadState, PerCycle!Load, Effective
  <2> QED BY <2>2 DEF PerCycle!Next
<1>8. CASE UNCHANGED busVars
  BY <1>8 DEF busVars, PerCycle!vars, Effective
<1> QED BY <1>1, <1>2, <1>3, <1>4, <1>5, <1>6, <1>7, <1>8 DEF BusNext

\* The batched open-bus decay implements the per-cycle one: nesPpu.hpp's
\* "Bit-exact with the per-cycle original", for every period and every split
\* of the lines.
THEOREM BatchedImplementsPerCycle == BusSpec => BatchingIsBitExact
<1> QED BY BusInitInvariant, BusNextInvariant, RefinesInit, RefinesNext, PTL
        DEF BusSpec, BatchingIsBitExact, PerCycle!Spec

-----------------------------------------------------------------------------
(***************************************************************************)
(* Sprites.  The inductive invariant IInv says, next to types and indices, *)
(* where a search that was left alone stands at each dot and which part of *)
(* the next line is laid: what a line shows at its end follows from that.  *)
(***************************************************************************)
(***************************************************************************)
(* Types.                                                                  *)
(***************************************************************************)
Tiles == {{}} \cup {Columns(t) : t \in Bytes}

PpuType ==
  [sl : 0..Lines + 1, dot : 0..LineEnd, cpu : 0..2, addr : 0..OamSize - 1,
   tall : BOOLEAN, mask : SUBSET Shown, install : 0..2, show : SUBSET Shown,
   overflow : BOOLEAN, hit : BOOLEAN,
   oam : [0..OamSize - 1 -> Bytes], soam : [0..4 * Slots - 1 -> Bytes],
   read_value : Bytes, oam_index : Nat, soam_index : Nat, true_count : 0..3,
   write : BOOLEAN, zero_in_range : BOOLEAN, zero_go : BOOLEAN, height : 1..Tall,
   objects : BOOLEAN, was_on : BOOLEAN, junk : BOOLEAN,
   columns : [0..Slots - 1 -> Tiles], line : [0..Visible - 1 -> 0..Slots]]

SeenType == [now : BOOLEAN, before : BOOLEAN, overflow : BOOLEAN]

Types ==
  /\ program \in Programs
  /\ ppu \in PpuType
  /\ left \in 0..MaxAccesses
  /\ seen \in SeenType

(***************************************************************************)
(* Where the indices are, whatever a program writes and when.              *)
(***************************************************************************)
\* Slots are counted in bytes while they are cleared and in sprites from then on.
SlotIndex(p) ==
  IF p.dot \in 1..ClearDots
  THEN p.true_count = 0 /\ p.soam_index = IF p.sl = 0 THEN 0 ELSE p.dot \div 2
  ELSE p.soam_index <= Slots

OamIndex(p) ==
  p.oam_index <= IF p.sl > 0 /\ p.dot \in ClearDots + 1..Visible THEN OamSize + 8 ELSE 2 * OamSize

Placed(p) ==
  /\ p.dot < LineEnd /\ (p.sl = Lines + 1 => p.dot = 0)
  /\ SlotIndex(p) /\ OamIndex(p) /\ AttributesWired(p.oam)

(***************************************************************************)
(* The sprites that a search from OAM address 4f is to find, and how many  *)
(* of them lie before sprite i.                                            *)
(***************************************************************************)
InLine(p) == {i \in 0..NumSprites - 1 : 4 * i >= p.addr /\ InRange(p, p.oam[4 * i])}

Before(p, i) == {j \in InLine(p) : j < i}

Count(p, i) == Cardinality(Before(p, i))

\* Everything found before i is in its slot.
Copied(p, i) ==
  \A j \in Before(p, i) : \A b \in 0..3 : p.soam[4 * Count(p, j) + b] = p.oam[4 * j + b]

\* The slots behind k look empty, and so does k until its attributes are there.
Empty(p, k, t) ==
  \A s \in 0..Slots - 1 : s > k \/ (s = k /\ t < 3) => p.soam[4 * s + 2] = Blank

ZeroKnown(p, f, i, t) ==
  p.zero_in_range <=> f \in InLine(p) /\ (f < i \/ t > 0)

\* Dots done since the slots were cleared, by twos.
Pairs(d) == (d - ClearDots) \div 2

\* An even dot has read what the odd one is about to decide on.
Pending(p, d) ==
  d % 2 = 1 => p.oam_index < OamSize /\ p.read_value = p.oam[p.oam_index]

(***************************************************************************)
(* What a search left alone has done after dot d: it is at sprite i, has   *)
(* copied t bytes of it, and took one pair of dots for each sprite and     *)
(* three more for each one found.                                          *)
(***************************************************************************)
Looking(p, d, o, f, i) ==
  LET t == p.true_count IN
  /\ p.write /\ p.soam_index < Slots
  /\ i \in f..NumSprites /\ (t > 0 => i \in InLine(p))
  /\ p.oam_index = 4 * i + t
  /\ p.soam_index = Count(p, i) /\ Copied(p, i)
  /\ \A b \in 0..t - 1 : p.soam[4 * p.soam_index + b] = p.oam[4 * i + b]
  /\ Empty(p, p.soam_index, t) /\ ZeroKnown(p, f, i, t)
  /\ Pairs(d) = (i - f) + 3 * p.soam_index + t
  /\ p.overflow = o /\ Pending(p, d)

\* All slots are taken, the last one by the sprite before i, which is looked at next.
Full(p, d, f, i) ==
  /\ p.soam_index = Slots
  /\ i \in f + 1..NumSprites /\ i - 1 \in InLine(p) /\ Count(p, i) = Slots
  /\ Copied(p, i) /\ ZeroKnown(p, f, i, 0)
  /\ \/ p.overflow \/ i \notin InLine(p)
     \/ /\ p.write /\ p.true_count = 0 /\ p.oam_index = 4 * i
        /\ Pairs(d) = (i - f) + 3 * Slots /\ Pending(p, d)

\* The search has come to the end of OAM before the slots were full.
Over(p, o, f) ==
  /\ ~p.write /\ p.soam_index < Slots /\ p.soam_index = Count(p, NumSprites)
  /\ Copied(p, NumSprites) /\ Empty(p, p.soam_index, 0)
  /\ ZeroKnown(p, f, NumSprites, 0) /\ p.overflow = o

Searched(p, d, o, f) ==
  \/ \E i \in 0..NumSprites : Looking(p, d, o, f, i) \/ Full(p, d, f, i)
  \/ Over(p, o, f)

\* While the slots are cleared.
Cleared(p, o) ==
  /\ p.write /\ ~p.zero_in_range /\ p.overflow = o
  /\ \A b \in 0..4 * Slots - 1 : b < p.soam_index => p.soam[b] = Blank

\* A line that was left alone up to now.
Calm(p, o) ==
  /\ PPUON(p)
  /\ p.dot \in 1..Visible /\ p.sl > 0 => p.height = Height(p)
  /\ p.dot \in 1..ClearDots /\ p.sl > 0 => Cleared(p, o)
  /\ p.dot \in ClearDots + 1..Visible /\ p.sl > 0 =>
       \A f \in 0..NumSprites - 1 : p.addr = 4 * f => Searched(p, p.dot, o, f)

(***************************************************************************)
(* The next line, as far as the sprites that were found are laid into it.  *)
(***************************************************************************)
Owner(p, x, s) == p.soam[4 * s + 2] # Blank /\ x - p.soam[4 * s + 3] \in Columns(p.soam[4 * s + 1])

\* The pixel x, when the first n slots are laid in.
Pixel(p, x, n) ==
  \/ p.line[x] = None /\ \A s \in 0..n - 1 : ~Owner(p, x, s)
  \/ /\ p.line[x] \in 0..n - 1 /\ Owner(p, x, p.line[x])
     /\ \A s \in 0..p.line[x] - 1 : ~Owner(p, x, s)

Laid(d) == IF d >= FetchEnd THEN Slots ELSE (d - Visible) \div FetchDots

Drawn(p) ==
  /\ p.sl > 0 /\ p.dot <= Visible => \A x \in 0..Visible - 1 : x < p.dot => p.line[x] = None

DrawnCalm(p) ==
  /\ p.sl \in 1..Lines - 1 /\ p.dot >= Visible =>
       \A x \in 0..Visible - 1 : Pixel(p, x, Laid(p.dot))
  /\ p.sl \in 2..Lines /\ p.dot = 0 => \A x \in 0..Visible - 1 : Pixel(p, x, Slots)
  /\ p.dot \in Visible..FetchEnd - 1 /\ (p.dot - Visible) % FetchDots # 0 => ~p.junk

IInv ==
  /\ Types /\ Placed(ppu) /\ Drawn(ppu)
  /\ seen.now => Calm(ppu, seen.overflow) /\ DrawnCalm(ppu)

-----------------------------------------------------------------------------
\* What the assumptions say of the numbers above.
LEMMA Numbers ==
  /\ NumSprites \in Nat /\ NumSprites > 0 /\ Slots \in Nat /\ Slots > 0
  /\ FetchDots \in Nat /\ FetchDots > 0 /\ RestDots \in Nat /\ RestDots > 0
  /\ Lines \in Nat /\ Lines > 0 /\ Width \in Nat /\ Width > 0
  /\ EvalDots \in Nat /\ EvalDots >= 2 * NumSprites + 6 * Slots
  /\ OamSize = 4 * NumSprites /\ OamSize \in Nat /\ OamSize >= 8
  /\ ClearDots = 8 * Slots /\ ClearDots \in Nat /\ ClearDots > 0 /\ ClearDots % 2 = 0
  /\ Visible = ClearDots + EvalDots /\ Visible \in Nat /\ Visible > ClearDots
  /\ FetchEnd \in Nat /\ FetchEnd > Visible /\ FetchEnd - Visible = FetchDots * Slots
  /\ LineEnd \in Nat /\ LineEnd > FetchEnd /\ LineEnd = FetchEnd + RestDots
  /\ None = Slots
  /\ Blank \in Nat /\ Blank > 0 /\ Blank \in Bytes /\ Blank - 1 \in Bytes /\ 0 \in Bytes
  /\ Short \in 1..Tall /\ Tall \in 1..Tall /\ Tall \in Nat
  /\ MaxAccesses \in Nat
<1>1. /\ NumSprites \in Nat /\ NumSprites > 0 /\ Slots \in Nat /\ Slots > 0
      /\ FetchDots \in Nat /\ FetchDots > 0 /\ RestDots \in Nat /\ RestDots > 0
      /\ Lines \in Nat /\ Lines > 0 /\ Width \in Nat /\ Width > 0
      /\ EvalDots \in Nat /\ EvalDots >= 2 * NumSprites + 6 * Slots
      /\ Blank \in Nat /\ Blank > Lines /\ Short \in 1..Tall /\ Tall \in Nat
      /\ (4 * NumSprites) % 8 = 0
  BY SpritesAssumption DEF OamSize
<1>2. 4 * NumSprites >= 8
  BY <1>1
<1>3. FetchDots * Slots \in Nat /\ FetchDots * Slots > 0
  <2>1. ASSUME NEW a \in Nat, NEW b \in Nat, a > 0, b > 0 PROVE a * b \in Nat /\ a * b > 0
    BY <2>1
  <2> QED BY <1>1, <2>1
<1>4. (8 * Slots) % 2 = 0
  BY <1>1
<1>5. MaxAccesses \in Nat
  BY ProgramsAssumption
<1> QED
  BY <1>1, <1>2, <1>3, <1>4, <1>5 DEF OamSize, ClearDots, Visible, FetchEnd, LineEnd, None, Bytes

(***************************************************************************)
(* Remainders.                                                             *)
(***************************************************************************)
LEMMA ModRange ==
  ASSUME NEW a \in Nat, NEW n \in Nat, n > 0
  PROVE  a % n \in 0..n - 1 /\ a % n <= a
OBVIOUS

\* A number below n is its own remainder.
LEMMA ModSmall ==
  ASSUME NEW n \in Nat, NEW a \in 0..n - 1
  PROVE  a % n = a
OBVIOUS

\* Counting up once moves either the remainder or the quotient.
LEMMA DivNext ==
  ASSUME NEW a \in Nat, NEW n \in Nat, n > 0
  PROVE  /\ a \div n \in Nat
         /\ (a + 1) % n # 0 => (a + 1) % n = (a % n) + 1 /\ (a + 1) \div n = a \div n
         /\ (a + 1) % n = 0 => (a + 1) \div n = a \div n + 1
<1>1. a = n * (a \div n) + (a % n) /\ a + 1 = n * ((a + 1) \div n) + ((a + 1) % n)
  <2>1. ASSUME NEW b \in Nat PROVE b = n * (b \div n) + (b % n)
    OBVIOUS
  <2> QED BY <2>1
<1>2. /\ a \div n \in Nat /\ (a + 1) \div n \in Nat
      /\ a % n \in 0..n - 1 /\ (a + 1) % n \in 0..n - 1
  OBVIOUS
<1>3. ASSUME NEW q \in Nat, NEW r \in 0..n - 1, NEW u \in Nat, NEW v \in 0..n - 1,
             n * q + r + 1 = n * u + v
      PROVE  (v # 0 => v = r + 1 /\ u = q) /\ (v = 0 => u = q + 1)
  <2>1. CASE u <= q - 1
    <3> DEFINE k == q - 1 - u
    <3>1. k \in Nat /\ q = u + k + 1
      BY <2>1
    <3>2. n * q = n * u + n * k + n /\ n * k \in Nat
      BY <3>1
    <3> QED BY <1>3, <3>2
  <2>2. CASE u = q
    BY <1>3, <2>2
  <2>3. CASE u = q + 1
    <3>1. n * u = n * q + n
      BY <2>3
    <3> QED BY <1>3, <2>3, <3>1
  <2>4. CASE u >= q + 2
    <3> DEFINE k == u - q - 2
    <3>1. k \in Nat /\ u = q + k + 2
      BY <2>4
    <3>2. n * u = n * q + n * k + 2 * n /\ n * k \in Nat
      BY <3>1
    <3> QED BY <1>3, <3>2
  <2> QED BY <2>1, <2>2, <2>3, <2>4
<1>4. n * (a \div n) + (a % n) + 1 = n * ((a + 1) \div n) + ((a + 1) % n)
  BY <1>1, <1>2
<1> QED BY <1>2, <1>3, <1>4

\* oam_index & 0x1FC is a sprite's first byte, and no larger.
LEMMA AlignedType ==
  ASSUME NEW x \in Nat
  PROVE  /\ Aligned(x) \in Nat /\ Aligned(x) < 2 * OamSize /\ Aligned(x) <= x
         /\ x < 2 * OamSize => Aligned(x) = x - (x % 4)
<1> DEFINE y == x - (x % 4)
           n == 2 * OamSize
<1>1. y \in Nat /\ y <= x
  OBVIOUS
<1>2. n \in Nat /\ n > 0
  BY Numbers
<1>3. Aligned(x) = y % n
  BY DEF Aligned
<1> HIDE DEF y, n
<1>4. y % n \in 0..n - 1 /\ y % n <= y
  BY <1>1, <1>2, ModRange
<1>5. x < n => y % n = y
  BY <1>1, <1>2, ModSmall
<1> QED BY <1>1, <1>2, <1>3, <1>4, <1>5 DEF y, n

-----------------------------------------------------------------------------
(***************************************************************************)
(* Registers, and the dot of the program's access.                         *)
(***************************************************************************)
\* What an access can be.
LEMMA AccessType ==
  ASSUME NEW access \in Accesses \cup {NoAccess}
  PROVE  \/ access = NoAccess
         \/ access[1] = "2000" /\ access[2] \in BOOLEAN
         \/ access[1] = "2001" /\ access[2] \in SUBSET Shown
         \/ access[1] = "2003" /\ access[2] \in 0..OamSize - 1
         \/ access[1] = "2004" /\ access[2] \in Bytes
BY ProgramsAssumption

\* A byte is written to OAM at the address: the attributes keep their unwired bits.
LEMMA OamWritten ==
  ASSUME NEW oam \in [0..OamSize - 1 -> Bytes], NEW a \in 0..OamSize - 1, NEW v \in Bytes
  PROVE  LET w == [oam EXCEPT ![a] = IF a % 4 = 2 /\ v = Blank THEN Blank - 1 ELSE v]
         IN  w \in [0..OamSize - 1 -> Bytes] /\ (AttributesWired(oam) => AttributesWired(w))
<1> DEFINE b == IF a % 4 = 2 /\ v = Blank THEN Blank - 1 ELSE v
           w == [oam EXCEPT ![a] = b]
<1>1. b \in Bytes /\ (a % 4 = 2 => b # Blank)
  BY Numbers
<1> HIDE DEF b
<1>2. w \in [0..OamSize - 1 -> Bytes]
  BY <1>1
<1>3. ASSUME AttributesWired(oam), NEW i \in 0..NumSprites - 1
      PROVE  w[4 * i + 2] # Blank
  <2>1. 4 * i + 2 \in 0..OamSize - 1 /\ (4 * i + 2) % 4 = 2 /\ oam[4 * i + 2] # Blank
    BY <1>3, Numbers DEF AttributesWired
  <2> QED BY <1>1, <2>1
<1> QED BY <1>2, <1>3 DEF AttributesWired, b

\* The fields that no register and no dot of the CPU touches.
Beside(p, r) ==
  /\ r.sl = p.sl /\ r.overflow = p.overflow /\ r.hit = p.hit /\ r.soam = p.soam
  /\ r.read_value = p.read_value /\ r.soam_index = p.soam_index
  /\ r.true_count = p.true_count /\ r.write = p.write
  /\ r.zero_in_range = p.zero_in_range /\ r.zero_go = p.zero_go
  /\ r.height = p.height /\ r.objects = p.objects /\ r.was_on = p.was_on
  /\ r.junk = p.junk /\ r.columns = p.columns /\ r.line = p.line

\* A write keeps the types, and moves the index to another sprite if at all.
LEMMA WriteType ==
  ASSUME NEW p \in PpuType, NEW access \in Accesses \cup {NoAccess}
  PROVE  LET r == WriteRegister(p, access[1], access[2])
         IN  /\ r \in PpuType /\ Beside(p, r) /\ r.dot = p.dot
             /\ r.oam_index \in {p.oam_index, Aligned(p.oam_index + 4)}
             /\ AttributesWired(p.oam) => AttributesWired(r.oam)
             /\ access = NoAccess => r = p
<1> DEFINE r == WriteRegister(p, access[1], access[2])
           v == access[2]
<1>1. CASE access = NoAccess
  <2>1. r = p
    BY <1>1 DEF WriteRegister, NoAccess
  <2> QED BY <1>1, <2>1 DEF Beside
<1>2. CASE access[1] = "2000" /\ v \in BOOLEAN
  <2>1. r = [p EXCEPT !.tall = v]
    BY <1>2 DEF WriteRegister
  <2>2. access # NoAccess
    BY <1>2 DEF NoAccess
  <2> HIDE DEF r, v
  <2> QED BY <1>2, <2>1, <2>2 DEF PpuType, Beside, r
<1>3. CASE access[1] = "2001" /\ v \in SUBSET Shown
  <2>1. r = [p EXCEPT !.mask = v, !.install = 2]
    BY <1>3 DEF WriteRegister
  <2>2. access # NoAccess
    BY <1>3 DEF NoAccess
  <2>3. 2 \in 0..2 /\ v \in SUBSET Shown
    BY <1>3
  <2> HIDE DEF r, v
  <2>4. /\ r \in PpuType /\ Beside(p, r) /\ r.dot = p.dot
        /\ r.oam_index = p.oam_index /\ r.oam = p.oam
    BY <2>1, <2>3, ZenonT(60) DEF PpuType, Beside
  <2> QED BY <2>2, <2>4 DEF r
<1>4. CASE access[1] = "2003" /\ v \in 0..OamSize - 1
  <2>1. r = [p EXCEPT !.addr = v]
    BY <1>4 DEF WriteRegister
  <2>2. access # NoAccess
    BY <1>4 DEF NoAccess
  <2> HIDE DEF r, v
  <2> QED BY <1>4, <2>1, <2>2, SMTT(90) DEF PpuType, Beside, r
<1>5. CASE access[1] = "2004" /\ v \in Bytes
  <2>1. r = Write2004(p, v)
    BY <1>5 DEF WriteRegister
  <2>2. access # NoAccess
    BY <1>5 DEF NoAccess
  <2>3. p.oam_index \in Nat /\ p.addr \in 0..OamSize - 1
        /\ p.oam \in [0..OamSize - 1 -> Bytes]
    BY DEF PpuType
  <2>4. CASE PPUON(p)
    <3> DEFINE a == Aligned(p.oam_index + 4)
               b == Aligned(p.addr + 4) % OamSize
    <3>1. a \in Nat
      <4>1. p.oam_index + 4 \in Nat
        BY <2>3
      <4> QED BY <4>1, AlignedType
    <3>2. b \in 0..OamSize - 1
      <4> DEFINE c == Aligned(p.addr + 4)
      <4>1. c \in Nat
        <5>1. p.addr + 4 \in Nat
          BY <2>3, Numbers
        <5> QED BY <5>1, AlignedType
      <4> HIDE DEF c
      <4>2. c % OamSize \in 0..OamSize - 1
        BY <4>1, ModRange, Numbers
      <4> QED BY <4>2 DEF c
    <3>3. r = [p EXCEPT !.oam_index = a, !.addr = b]
      BY <2>1, <2>4 DEF Write2004
    <3>4. a \in {p.oam_index, Aligned(p.oam_index + 4)}
      OBVIOUS
    <3> HIDE DEF a, b, r
    <3>5. r \in PpuType /\ Beside(p, r) /\ r.dot = p.dot /\ r.oam = p.oam /\ r.oam_index = a
      BY <3>1, <3>2, <3>3, ZenonT(60) DEF PpuType, Beside
    <3> QED BY <2>2, <3>4, <3>5 DEF r
  <2>5. CASE ~PPUON(p)
    <3> DEFINE w == [p.oam EXCEPT ![p.addr] = IF p.addr % 4 = 2 /\ v = Blank THEN Blank - 1 ELSE v]
               b == (p.addr + 1) % OamSize
    <3>1. w \in [0..OamSize - 1 -> Bytes] /\ (AttributesWired(p.oam) => AttributesWired(w))
      BY <1>5, <2>3, OamWritten
    <3>2. b \in 0..OamSize - 1
      BY <2>3, ModRange, Numbers
    <3>3. r = [p EXCEPT !.oam = w, !.addr = b]
      BY <2>1, <2>5 DEF Write2004
    <3> HIDE DEF w, b, r
    <3>4. r \in PpuType /\ Beside(p, r) /\ r.dot = p.dot /\ r.oam = w /\ r.oam_index = p.oam_index
      BY <3>1, <3>2, <3>3, ZenonT(60) DEF PpuType, Beside
    <3> QED BY <2>2, <3>1, <3>4 DEF r
  <2> QED BY <2>4, <2>5
<1> HIDE DEF r
<1> QED BY <1>1, <1>2, <1>3, <1>4, <1>5, AccessType DEF r

\* A dot of the CPU: the dot counts, and a program that does nothing changes no register.
LEMMA RunType ==
  ASSUME NEW p \in PpuType, p.dot < LineEnd, NEW access \in Accesses \cup {NoAccess}
  PROVE  LET r == runppu(p, access)
         IN  /\ r \in PpuType /\ Beside(p, r) /\ r.dot = p.dot + 1
             /\ r.oam_index \in {p.oam_index, Aligned(p.oam_index + 4)}
             /\ AttributesWired(p.oam) => AttributesWired(r.oam)
             /\ access = NoAccess =>
                  /\ r.oam = p.oam /\ r.tall = p.tall /\ r.oam_index = p.oam_index
                  /\ p.dot < Visible => r.addr = p.addr
<1> DEFINE n == IF p.install > 0 THEN p.install - 1 ELSE 0
           sh == IF p.install = 1 THEN p.mask ELSE p.show
           d == p.dot + 1
           c == (p.cpu + 1) % 3
           i == [Install2001(p) EXCEPT !.dot = @ + 1, !.cpu = (@ + 1) % 3]
           q == ClearAddress(i)
           r == runppu(p, access)
<1>1. n \in 0..2 /\ sh \in SUBSET Shown /\ d \in 0..LineEnd /\ c \in 0..2
  <2>1. /\ p.install \in 0..2 /\ p.mask \in SUBSET Shown /\ p.show \in SUBSET Shown
        /\ p.dot \in 0..LineEnd /\ p.cpu \in 0..2
    BY DEF PpuType
  <2> HIDE DEF n, sh, d, c
  <2>2. n \in 0..2 /\ sh \in SUBSET Shown
    BY <2>1 DEF n, sh
  <2>3. d \in 0..LineEnd
    BY <2>1, Numbers DEF d
  <2>4. c \in 0..2
    BY <2>1 DEF c
  <2> QED BY <2>2, <2>3, <2>4
<1>2. i = [p EXCEPT !.install = n, !.show = sh, !.dot = d, !.cpu = c]
  BY DEF Install2001, PpuType
<1>3. r = IF q.cpu = 0 THEN WriteRegister(q, access[1], access[2]) ELSE q
  BY DEF runppu
<1> HIDE DEF n, sh, c, i
<1>4. /\ i \in PpuType /\ Beside(p, i) /\ i.dot = p.dot + 1 /\ i.oam_index = p.oam_index
      /\ i.oam = p.oam /\ i.tall = p.tall /\ i.addr = p.addr
  BY <1>1, <1>2, ZenonT(60) DEF PpuType, Beside
<1>5. /\ q \in PpuType /\ Beside(p, q) /\ q.dot = p.dot + 1 /\ q.oam_index = p.oam_index
      /\ q.oam = p.oam /\ q.tall = p.tall /\ (p.dot < Visible => q.addr = p.addr)
  <2>1. CASE i.dot \in Visible + 1..FetchEnd /\ PPUON(i)
    <3>1. q = [i EXCEPT !.addr = 0]
      BY <2>1 DEF ClearAddress
    <3>2. 0 \in 0..OamSize - 1 /\ ~(p.dot < Visible)
      <4>1. p.dot \in 0..LineEnd
        BY DEF PpuType
      <4>2. i.dot = p.dot + 1
        BY <1>4
      <4> QED BY <2>1, <4>1, <4>2, Numbers
    <3> HIDE DEF q
    <3> QED BY <1>4, <3>1, <3>2, SMTT(90) DEF PpuType, Beside
  <2>2. CASE ~(i.dot \in Visible + 1..FetchEnd /\ PPUON(i))
    <3>1. q = i
      BY <2>2 DEF ClearAddress
    <3> QED BY <1>4, <3>1
  <2> QED BY <2>1, <2>2
<1> HIDE DEF q, r
<1>6. CASE q.cpu = 0
  <2>1. r = WriteRegister(q, access[1], access[2])
    BY <1>3, <1>6
  <2>2. /\ r \in PpuType /\ Beside(q, r) /\ r.dot = q.dot
        /\ r.oam_index \in {q.oam_index, Aligned(q.oam_index + 4)}
        /\ AttributesWired(q.oam) => AttributesWired(r.oam)
        /\ access = NoAccess => r = q
    BY <1>5, <2>1, WriteType
  <2> QED BY <1>5, <2>2 DEF Beside, r
<1>7. CASE q.cpu # 0
  <2>1. r = q
    BY <1>3, <1>7
  <2> QED BY <1>5, <2>1 DEF r
<1> QED BY <1>6, <1>7 DEF r

-----------------------------------------------------------------------------
(***************************************************************************)
(* The operators of a visible dot, and the fields they touch.              *)
(***************************************************************************)
\* The height of a sprite is one of the two.
LEMMA HeightType ==
  ASSUME NEW p \in PpuType
  PROVE  Height(p) \in 1..Tall
BY Numbers DEF Height

\* A block of 8 bytes is copied to the front: its attributes come from attributes.
LEMMA CorruptType ==
  ASSUME NEW p \in PpuType
  PROVE  /\ CorruptOam(p) \in [0..OamSize - 1 -> Bytes]
         /\ AttributesWired(p.oam) => AttributesWired(CorruptOam(p))
         /\ p.sl > 0 => CorruptOam(p) = p.oam
<1>1. p.oam \in [0..OamSize - 1 -> Bytes] /\ p.addr \in 0..OamSize - 1 /\ p.sl \in Nat
  BY Numbers DEF PpuType
<1> DEFINE base == p.addr - (p.addr % 8)
           w == [i \in DOMAIN p.oam |-> IF i < 8 THEN p.oam[base + i] ELSE p.oam[i]]
<1>2. \E m \in Nat : base = 8 * m /\ base + 7 \in 0..OamSize - 1
  <2>1. ASSUME NEW a \in Nat PROVE \E m \in Nat : a - (a % 8) = 8 * m /\ a % 8 \in 0..7
    <3>1. a - (a % 8) = 8 * (a \div 8) /\ a \div 8 \in Nat /\ a % 8 \in 0..7
      OBVIOUS
    <3> QED BY <3>1
  <2>2. OamSize % 8 = 0
    BY SpritesAssumption
  <2>3. PICK n \in Nat : OamSize - (OamSize % 8) = 8 * n
    BY <2>1, Numbers
  <2>4. p.addr \in Nat
    BY <1>1, Numbers
  <2>5. PICK m \in Nat : base = 8 * m /\ p.addr % 8 \in 0..7
    BY <2>1, <2>4
  <2>6. OamSize = 8 * n
    <3>1. OamSize \in Nat
      BY Numbers
    <3> HIDE DEF OamSize
    <3> QED BY <2>2, <2>3, <3>1
  <2>7. 8 * m <= p.addr /\ p.addr < OamSize
    <3>1. OamSize \in Nat /\ p.addr \in 0..OamSize - 1
      BY <1>1, Numbers
    <3>2. p.addr < OamSize
      BY <3>1
    <3> QED BY <2>4, <2>5, <3>2
  <2>8. m < n /\ base + 7 \in 0..OamSize - 1
    <3>1. 8 * m < 8 * n
      BY <2>4, <2>6, <2>7
    <3>2. m < n
      BY <3>1
    <3> QED BY <2>5, <2>6, <3>2
  <2> QED BY <2>5, <2>8
<1> HIDE DEF base
<1>3. w \in [0..OamSize - 1 -> Bytes]
  <2>1. ASSUME NEW i \in 0..OamSize - 1 PROVE (IF i < 8 THEN p.oam[base + i] ELSE p.oam[i]) \in Bytes
    BY <1>1, <1>2, Numbers
  <2> QED BY <1>1, <2>1
<1>4. ASSUME AttributesWired(p.oam), NEW i \in 0..NumSprites - 1
      PROVE  w[4 * i + 2] # Blank
  <2>1. 4 * i + 2 \in 0..OamSize - 1
    BY Numbers
  <2>2. CASE 4 * i + 2 < 8
    <3>1. PICK m \in Nat : base = 8 * m /\ base + 7 \in 0..OamSize - 1
      BY <1>2
    <3>2. 2 * m + i \in 0..NumSprites - 1 /\ base + (4 * i + 2) = 4 * (2 * m + i) + 2
      BY <2>2, <3>1, Numbers
    <3>3. p.oam[base + (4 * i + 2)] # Blank
      BY <1>4, <3>2 DEF AttributesWired
    <3> QED BY <1>1, <2>1, <2>2, <3>3
  <2>3. CASE ~(4 * i + 2 < 8)
    BY <1>1, <1>4, <2>1, <2>3 DEF AttributesWired
  <2> QED BY <2>2, <2>3
<1>5. CorruptOam(p) = w \/ CorruptOam(p) = p.oam
  BY DEF CorruptOam, base
<1>6. p.sl > 0 => CorruptOam(p) = p.oam
  BY <1>1 DEF CorruptOam
<1> HIDE DEF w
<1>7. AttributesWired(p.oam) => AttributesWired(w)
  BY <1>4 DEF AttributesWired
<1> QED BY <1>1, <1>3, <1>5, <1>6, <1>7

\* The start of a line begins with no sprite.
LEMMA StartType ==
  ASSUME NEW p \in PpuType
  PROVE  LET q == StartLine(p)
         IN  /\ q \in PpuType
             /\ q.sl = p.sl /\ q.dot = p.dot /\ q.addr = p.addr /\ q.tall = p.tall
             /\ q.show = p.show /\ q.overflow = p.overflow /\ q.soam = p.soam
             /\ q.line = p.line /\ q.columns = p.columns /\ q.junk = p.junk
             /\ q.true_count = 0 /\ q.soam_index = 0 /\ q.oam_index = 0 /\ q.write
             /\ ~q.zero_in_range /\ q.height = Height(p)
             /\ AttributesWired(p.oam) => AttributesWired(q.oam)
             /\ p.sl > 0 => q.oam = p.oam
<1> DEFINE q == StartLine(p)
           w == CorruptOam(p)
           h == Height(p)
           b == "obj" \in p.show
<1>1. /\ h \in 1..Tall /\ w \in [0..OamSize - 1 -> Bytes] /\ b \in BOOLEAN
      /\ AttributesWired(p.oam) => AttributesWired(w)
      /\ p.sl > 0 => w = p.oam
  BY HeightType, CorruptType
<1>2. q = [p EXCEPT !.true_count = 0, !.soam_index = 0, !.oam_index = 0, !.write = TRUE,
                    !.zero_go = p.zero_in_range, !.zero_in_range = FALSE, !.oam = w,
                    !.height = h, !.objects = b]
  BY DEF StartLine
<1> HIDE DEF q, w, h, b
<1>3. q \in PpuType
  <2> DEFINE yes == TRUE
             no == FALSE
             z == p.zero_in_range
             v == [p EXCEPT !.zero_go = z, !.write = yes, !.zero_in_range = no, !.oam = w,
                            !.height = h, !.objects = b]
  <2>1. yes \in BOOLEAN /\ no \in BOOLEAN /\ z \in BOOLEAN
    BY DEF PpuType
  <2>2. h \in 1..Tall /\ w \in [0..OamSize - 1 -> Bytes] /\ b \in BOOLEAN
    BY <1>1
  <2>3. q = [v EXCEPT !.true_count = 0, !.soam_index = 0, !.oam_index = 0]
    BY <1>2 DEF PpuType
  <2> HIDE DEF yes, no, z
  <2>4. v \in PpuType
    BY <2>1, <2>2 DEF PpuType
  <2> HIDE DEF v
  <2>5. 0 \in 0..3 /\ 0 \in Nat
    OBVIOUS
  <2> QED BY <2>3, <2>4, <2>5, ZenonT(60) DEF PpuType
<1>4. /\ q.sl = p.sl /\ q.dot = p.dot /\ q.addr = p.addr /\ q.tall = p.tall
      /\ q.show = p.show /\ q.overflow = p.overflow /\ q.soam = p.soam
      /\ q.line = p.line /\ q.columns = p.columns /\ q.junk = p.junk
      /\ q.true_count = 0 /\ q.soam_index = 0 /\ q.oam_index = 0 /\ q.write = TRUE
      /\ q.zero_in_range = FALSE /\ q.height = h /\ q.oam = w
  BY <1>2 DEF PpuType
<1> QED BY <1>1, <1>3, <1>4 DEF q, h

\* The fields that the evaluation of a dot leaves alone.
Aside(p, q) ==
  /\ q.sl = p.sl /\ q.dot = p.dot /\ q.addr = p.addr /\ q.tall = p.tall
  /\ q.show = p.show /\ q.oam = p.oam /\ q.height = p.height /\ q.line = p.line

\* What the evaluation of a dot can change.
Evaluated(p, soam, si, oi, tc, w, z, rv, ov) ==
  [p EXCEPT !.soam = soam, !.soam_index = si, !.oam_index = oi, !.true_count = tc, !.write = w,
            !.zero_in_range = z, !.read_value = rv, !.overflow = ov]

\* What it leaves in q.
Becomes(p, q, soam, si, oi, tc, w, z, rv, ov) ==
  /\ q \in PpuType /\ Aside(p, q)
  /\ q.soam = soam /\ q.soam_index = si /\ q.oam_index = oi /\ q.true_count = tc
  /\ q.write = w /\ q.zero_in_range = z /\ q.read_value = rv /\ q.overflow = ov

\* It keeps the types.
LEMMA EvaluatedType ==
  ASSUME NEW p \in PpuType, NEW soam \in [0..4 * Slots - 1 -> Bytes], NEW si \in Nat,
         NEW oi \in Nat, NEW tc \in 0..3, NEW w \in BOOLEAN, NEW z \in BOOLEAN,
         NEW rv \in Bytes, NEW ov \in BOOLEAN
  PROVE  Becomes(p, Evaluated(p, soam, si, oi, tc, w, z, rv, ov), soam, si, oi, tc, w, z, rv, ov)
<1> DEFINE v == [p EXCEPT !.soam = soam, !.soam_index = si, !.oam_index = oi, !.true_count = tc]
           q == Evaluated(p, soam, si, oi, tc, w, z, rv, ov)
<1>1. v \in PpuType
  BY DEF PpuType
<1> DEFINE u == [v EXCEPT !.write = w, !.zero_in_range = z]
<1>2. q = [u EXCEPT !.read_value = rv, !.overflow = ov]
  BY DEF Evaluated
<1>3. /\ Aside(p, q)
      /\ q.soam = soam /\ q.soam_index = si /\ q.oam_index = oi /\ q.true_count = tc
      /\ q.write = w /\ q.zero_in_range = z /\ q.read_value = rv /\ q.overflow = ov
  BY DEF Evaluated, Aside, PpuType
<1> HIDE DEF v
<1>4. u \in PpuType
  BY <1>1 DEF PpuType
<1> HIDE DEF u
<1>5. q \in PpuType
  BY <1>2, <1>4, ZenonT(60) DEF PpuType
<1> HIDE DEF q
<1>6. Becomes(p, q, soam, si, oi, tc, w, z, rv, ov)
  BY <1>3, <1>5 DEF Becomes
<1> QED BY <1>6 DEF q

\* The types of the fields it changes.
LEMMA FieldTypes ==
  ASSUME NEW p \in PpuType
  PROVE  /\ p.soam \in [0..4 * Slots - 1 -> Bytes] /\ p.soam_index \in Nat
         /\ p.oam_index \in Nat /\ p.true_count \in 0..3 /\ p.write \in BOOLEAN
         /\ p.zero_in_range \in BOOLEAN /\ p.read_value \in Bytes /\ p.overflow \in BOOLEAN
         /\ p.dot \in Nat /\ p.dot <= LineEnd /\ p.sl \in 0..Lines + 1 /\ p.addr \in 0..OamSize - 1
         /\ p.oam \in [0..OamSize - 1 -> Bytes]
<1>1. /\ p.soam \in [0..4 * Slots - 1 -> Bytes] /\ p.soam_index \in Nat
      /\ p.oam_index \in Nat /\ p.true_count \in 0..3 /\ p.write \in BOOLEAN
      /\ p.zero_in_range \in BOOLEAN /\ p.read_value \in Bytes /\ p.overflow \in BOOLEAN
      /\ p.dot \in 0..LineEnd /\ p.sl \in 0..Lines + 1 /\ p.addr \in 0..OamSize - 1
      /\ p.oam \in [0..OamSize - 1 -> Bytes]
  BY DEF PpuType
<1>2. p.dot \in Nat /\ p.dot <= LineEnd
  BY <1>1, Numbers
<1> QED BY <1>1, <1>2

\* A byte of a slot is written.
LEMMA SlotWritten ==
  ASSUME NEW soam \in [0..4 * Slots - 1 -> Bytes], NEW k \in 0..4 * Slots - 1, NEW v \in Bytes
  PROVE  /\ [soam EXCEPT ![k] = v] \in [0..4 * Slots - 1 -> Bytes]
         /\ \A b \in 0..4 * Slots - 1 :
              [soam EXCEPT ![k] = v][b] = IF b = k THEN v ELSE soam[b]
OBVIOUS

\* Clearing goes through the slots byte by byte.
LEMMA ClearStep ==
  ASSUME NEW p \in PpuType
  PROVE  p.dot < ClearDots /\ p.soam_index = p.dot \div 2 /\ p.true_count = 0 =>
           LET q == Clear(p)
           IN  /\ q \in PpuType /\ Aside(p, q) /\ q.soam_index = (p.dot + 1) \div 2
               /\ q.true_count = 0 /\ q.oam_index = p.oam_index /\ q.write = p.write
               /\ q.zero_in_range = p.zero_in_range /\ q.overflow = p.overflow
               /\ (\A b \in 0..4 * Slots - 1 : b < p.soam_index => p.soam[b] = Blank) =>
                    \A b \in 0..4 * Slots - 1 : b < q.soam_index => q.soam[b] = Blank
<1> DEFINE q == Clear(p)
           goal == /\ q \in PpuType /\ Aside(p, q) /\ q.soam_index = (p.dot + 1) \div 2
                   /\ q.true_count = 0 /\ q.oam_index = p.oam_index /\ q.write = p.write
                   /\ q.zero_in_range = p.zero_in_range /\ q.overflow = p.overflow
                   /\ (\A b \in 0..4 * Slots - 1 : b < p.soam_index => p.soam[b] = Blank) =>
                        \A b \in 0..4 * Slots - 1 : b < q.soam_index => q.soam[b] = Blank
<1>1. ASSUME p.dot < ClearDots, p.soam_index = p.dot \div 2, p.true_count = 0
      PROVE  goal
  <2>1. CASE p.dot % 2 = 0
    <3>1. q = p
      BY <2>1 DEF Clear
    <3>2. (p.dot + 1) \div 2 = p.dot \div 2
      BY <2>1, FieldTypes
    <3> QED BY <1>1, <3>1, <3>2 DEF Aside
  <2>2. CASE p.dot % 2 # 0
    <3> DEFINE k == p.soam_index
               w == [p.soam EXCEPT ![k] = Blank]
               n == k + 1
    <3>1. k \in 0..4 * Slots - 1 /\ n = (p.dot + 1) \div 2 /\ n \in Nat
      <4>1. p.dot \in Nat
        BY FieldTypes
      <4>2. Slots \in Nat /\ p.dot < 8 * Slots /\ k = p.dot \div 2
        BY <1>1, Numbers
      <4> QED BY <2>2, <4>1, <4>2
    <3>2. /\ w \in [0..4 * Slots - 1 -> Bytes]
          /\ \A b \in 0..4 * Slots - 1 : w[b] = IF b = k THEN Blank ELSE p.soam[b]
      BY <3>1, FieldTypes, SlotWritten, Numbers
    <3>3. (\A b \in 0..4 * Slots - 1 : b < k => p.soam[b] = Blank) =>
             \A b \in 0..4 * Slots - 1 : b < n => w[b] = Blank
      BY <3>1, <3>2
    <3>4. q = Evaluated(p, w, n, p.oam_index, p.true_count, p.write, p.zero_in_range,
                        p.read_value, p.overflow)
      BY <2>2 DEF Clear, Evaluated, PpuType
    <3> HIDE DEF q, w, n
    <3>5. /\ q \in PpuType /\ Aside(p, q) /\ q.soam_index = n /\ q.soam = w
          /\ q.true_count = p.true_count /\ q.oam_index = p.oam_index /\ q.write = p.write
          /\ q.zero_in_range = p.zero_in_range /\ q.overflow = p.overflow
      <4>1. n \in Nat /\ w \in [0..4 * Slots - 1 -> Bytes]
        BY <3>1, <3>2
      <4>2. /\ p.oam_index \in Nat /\ p.true_count \in 0..3 /\ p.write \in BOOLEAN
            /\ p.zero_in_range \in BOOLEAN /\ p.read_value \in Bytes /\ p.overflow \in BOOLEAN
        BY FieldTypes
      <4>3. Becomes(p, q, w, n, p.oam_index, p.true_count, p.write, p.zero_in_range,
                    p.read_value, p.overflow)
        BY <3>4, <4>1, <4>2, EvaluatedType
      <4> QED BY <4>3 DEF Becomes
    <3> QED BY <1>1, <3>1, <3>3, <3>5 DEF q
  <2> QED BY <2>1, <2>2
<1> QED BY <1>1

(***************************************************************************)
(* The search, step by step.                                               *)
(***************************************************************************)
\* Its first dot begins at the address, with the first slot.
Begun(p) == IF p.dot = ClearDots THEN [p EXCEPT !.soam_index = 0, !.oam_index = p.addr] ELSE p

\* It begins at the address, with no slot taken.
LEMMA BegunStep ==
  ASSUME NEW p \in PpuType
  PROVE  Becomes(p, Begun(p), p.soam, IF p.dot = ClearDots THEN 0 ELSE p.soam_index,
                 IF p.dot = ClearDots THEN p.addr ELSE p.oam_index, p.true_count, p.write,
                 p.zero_in_range, p.read_value, p.overflow)
<1> DEFINE si == IF p.dot = ClearDots THEN 0 ELSE p.soam_index
           oi == IF p.dot = ClearDots THEN p.addr ELSE p.oam_index
<1>1. si \in Nat /\ oi \in Nat
  BY FieldTypes, Numbers
<1>2. Begun(p) = Evaluated(p, p.soam, si, oi, p.true_count, p.write, p.zero_in_range,
                           p.read_value, p.overflow)
  BY ZenonT(60) DEF Begun, Evaluated, PpuType
<1> HIDE DEF si, oi
<1>3. /\ p.soam \in [0..4 * Slots - 1 -> Bytes] /\ p.true_count \in 0..3 /\ p.write \in BOOLEAN
      /\ p.zero_in_range \in BOOLEAN /\ p.read_value \in Bytes /\ p.overflow \in BOOLEAN
  BY FieldTypes
<1>4. Becomes(p, Begun(p), p.soam, si, oi, p.true_count, p.write, p.zero_in_range,
              p.read_value, p.overflow)
  BY <1>1, <1>2, <1>3, EvaluatedType
<1> QED BY <1>4 DEF si, oi

\* The index is taken back at the end of OAM.
LEMMA WrapStep ==
  ASSUME NEW p \in PpuType
  PROVE  /\ p.oam_index < OamSize => Wrap(p) = p
         /\ p.oam_index >= OamSize =>
              Becomes(p, Wrap(p), p.soam, p.soam_index, 0, p.true_count, FALSE, p.zero_in_range,
                      p.read_value, p.overflow)
<1>1. p.oam_index \in Nat /\ OamSize \in Nat
  BY FieldTypes, Numbers
<1>2. ASSUME p.oam_index < OamSize
      PROVE  Wrap(p) = p
  BY <1>1, <1>2 DEF Wrap
<1>3. ASSUME p.oam_index >= OamSize
      PROVE  Becomes(p, Wrap(p), p.soam, p.soam_index, 0, p.true_count, FALSE,
                     p.zero_in_range, p.read_value, p.overflow)
  <2> DEFINE no == FALSE
             oi == 0
  <2>1. Wrap(p) = Evaluated(p, p.soam, p.soam_index, oi, p.true_count, no, p.zero_in_range,
                            p.read_value, p.overflow)
    BY <1>3 DEF Wrap, Evaluated, PpuType
  <2>2. oi \in Nat /\ no \in BOOLEAN
    OBVIOUS
  <2> HIDE DEF no, oi
  <2>3. /\ p.soam \in [0..4 * Slots - 1 -> Bytes] /\ p.soam_index \in Nat /\ p.oam_index \in Nat
        /\ p.true_count \in 0..3 /\ p.write \in BOOLEAN /\ p.zero_in_range \in BOOLEAN
        /\ p.read_value \in Bytes /\ p.overflow \in BOOLEAN
    BY FieldTypes
  <2>4. Becomes(p, Wrap(p), p.soam, p.soam_index, oi, p.true_count, no, p.zero_in_range,
                p.read_value, p.overflow)
    BY <2>1, <2>2, <2>3, EvaluatedType, SMTT(60)
  <2> QED BY <2>4 DEF no, oi
<1> QED BY <1>2, <1>3

\* The byte that was read goes into the slot.
Filled(p) == [p.soam EXCEPT ![4 * p.soam_index + p.true_count] = p.read_value]

\* A byte more of a slot is a byte, and leaves the others.
LEMMA FilledType ==
  ASSUME NEW p \in PpuType, p.soam_index < Slots
  PROVE  /\ Filled(p) \in [0..4 * Slots - 1 -> Bytes]
         /\ \A b \in 0..4 * Slots - 1 :
              Filled(p)[b] = IF b = 4 * p.soam_index + p.true_count THEN p.read_value ELSE p.soam[b]
<1>1. p.soam_index \in Nat /\ p.true_count \in 0..3 /\ p.read_value \in Bytes
      /\ p.soam \in [0..4 * Slots - 1 -> Bytes]
  BY FieldTypes
<1> DEFINE k == 4 * p.soam_index + p.true_count
<1>2. k \in 0..4 * Slots - 1
  BY <1>1, Numbers
<1> HIDE DEF k
<1>3. Filled(p) = [p.soam EXCEPT ![k] = p.read_value]
  BY DEF Filled, k
<1>4. /\ Filled(p) \in [0..4 * Slots - 1 -> Bytes]
      /\ \A b \in 0..4 * Slots - 1 : Filled(p)[b] = IF b = k THEN p.read_value ELSE p.soam[b]
  BY <1>1, <1>2, <1>3, SlotWritten
<1> QED BY <1>4 DEF k

\* The index after the next byte: an X coordinate out of range realigns it.
Onward(p) ==
  IF p.true_count = 3 /\ ~InRange(p, p.read_value) THEN Aligned(p.oam_index + 1) ELSE p.oam_index + 1

\* It is an index.
LEMMA OnwardType ==
  ASSUME NEW p \in PpuType
  PROVE  Onward(p) \in Nat /\ Onward(p) <= p.oam_index + 1
<1>1. p.oam_index + 1 \in Nat
  BY FieldTypes
<1>2. Aligned(p.oam_index + 1) \in Nat /\ Aligned(p.oam_index + 1) <= p.oam_index + 1
  BY <1>1, AlignedType
<1> QED BY <1>1, <1>2 DEF Onward

\* The attributes, the tile and X are copied after Y.
LEMMA CopyNext ==
  ASSUME NEW p \in PpuType
  PROVE  p.soam_index < Slots /\ p.true_count > 0 =>
           Becomes(p, Copy(p), Filled(p),
                   IF p.true_count = 3 THEN p.soam_index + 1 ELSE p.soam_index, Onward(p),
                   (p.true_count + 1) % 4, p.write, p.zero_in_range, p.read_value, p.overflow)
<1> DEFINE si == IF p.true_count = 3 THEN p.soam_index + 1 ELSE p.soam_index
           t == (p.true_count + 1) % 4
<1>1. ASSUME p.soam_index < Slots, p.true_count > 0
      PROVE  Becomes(p, Copy(p), Filled(p), si, Onward(p), t, p.write, p.zero_in_range,
                     p.read_value, p.overflow)
  <2>1. si \in Nat /\ t \in 0..3
    BY FieldTypes
  <2>2. Filled(p) \in [0..4 * Slots - 1 -> Bytes] /\ Onward(p) \in Nat
    BY <1>1, FilledType, OnwardType
  <2>3. Copy(p) = Evaluated(p, Filled(p), si, Onward(p), t, p.write, p.zero_in_range,
                            p.read_value, p.overflow)
    <3> DEFINE q == [p EXCEPT !.soam = Filled(p)]
               n == NextByte(q)
    <3>1. /\ q.oam_index = p.oam_index /\ q.true_count = p.true_count
          /\ q.read_value = p.read_value /\ q.sl = p.sl /\ q.height = p.height
      BY DEF PpuType
    <3>2. Copy(p) = [n EXCEPT !.soam_index = IF p.true_count = 3 THEN @ + 1 ELSE @]
      BY <1>1 DEF Copy, Filled
    <3>3. n = [q EXCEPT !.oam_index = Onward(p), !.true_count = t]
      <4> HIDE DEF q
      <4> QED BY <3>1 DEF NextByte, Onward, InRange
    <3>4. n = [p EXCEPT !.soam = Filled(p), !.oam_index = Onward(p), !.true_count = t]
      BY <3>3 DEF PpuType
    <3> HIDE DEF n
    <3> QED BY <3>2, <3>4, ZenonT(60) DEF Evaluated, PpuType
  <2> HIDE DEF si, t
  <2>4. /\ p.soam \in [0..4 * Slots - 1 -> Bytes] /\ p.soam_index \in Nat /\ p.oam_index \in Nat
        /\ p.true_count \in 0..3 /\ p.write \in BOOLEAN /\ p.zero_in_range \in BOOLEAN
        /\ p.read_value \in Bytes /\ p.overflow \in BOOLEAN
    BY FieldTypes
  <2> QED BY <2>1, <2>2, <2>3, <2>4, EvaluatedType
<1> QED BY <1>1

\* A sprite in range is copied from its Y on.
LEMMA CopyFirst ==
  ASSUME NEW p \in PpuType
  PROVE  p.soam_index < Slots /\ p.true_count = 0 /\ InRange(p, p.read_value) =>
           Becomes(p, Copy(p), Filled(p), p.soam_index, p.oam_index + 1, 1, p.write,
                   p.zero_in_range \/ p.oam_index = p.addr, p.read_value, p.overflow)
<1> DEFINE z == p.zero_in_range \/ p.oam_index = p.addr
           oi == p.oam_index + 1
<1>1. ASSUME p.soam_index < Slots, p.true_count = 0, InRange(p, p.read_value)
      PROVE  Becomes(p, Copy(p), Filled(p), p.soam_index, oi, 1, p.write, z, p.read_value,
                     p.overflow)
  <2>1. z \in BOOLEAN /\ 1 \in 0..3 /\ oi \in Nat
    BY FieldTypes
  <2>2. Filled(p) \in [0..4 * Slots - 1 -> Bytes]
    BY <1>1, FilledType
  <2>3. Copy(p) = Evaluated(p, Filled(p), p.soam_index, oi, 1, p.write, z, p.read_value, p.overflow)
    <3> DEFINE q == [p EXCEPT !.soam = Filled(p)]
               n == NextByte(q)
    <3>1. /\ q.oam_index = p.oam_index /\ q.true_count = 0
          /\ q.read_value = p.read_value /\ q.sl = p.sl /\ q.height = p.height
      BY <1>1 DEF PpuType
    <3>2. Copy(p) = [n EXCEPT !.zero_in_range = @ \/ p.oam_index = p.addr]
      BY <1>1 DEF Copy, Filled
    <3>3. n = [q EXCEPT !.oam_index = oi, !.true_count = 1]
      <4> HIDE DEF q
      <4> QED BY <3>1 DEF NextByte
    <3>4. n = [p EXCEPT !.soam = Filled(p), !.oam_index = oi, !.true_count = 1]
      BY <3>3 DEF PpuType
    <3> HIDE DEF n, oi
    <3> QED BY <3>2, <3>4, ZenonT(60) DEF Evaluated, PpuType
  <2> HIDE DEF z, oi
  <2>4. /\ p.soam \in [0..4 * Slots - 1 -> Bytes] /\ p.soam_index \in Nat /\ p.oam_index \in Nat
        /\ p.true_count \in 0..3 /\ p.write \in BOOLEAN /\ p.zero_in_range \in BOOLEAN
        /\ p.read_value \in Bytes /\ p.overflow \in BOOLEAN
    BY FieldTypes
  <2> QED BY <2>1, <2>2, <2>3, <2>4, EvaluatedType
<1> QED BY <1>1

\* A sprite out of range is stepped over.
LEMMA CopyOver ==
  ASSUME NEW p \in PpuType
  PROVE  p.soam_index < Slots /\ p.true_count = 0 /\ ~InRange(p, p.read_value) =>
           Becomes(p, Copy(p), Filled(p), p.soam_index, Aligned(p.oam_index + 4), p.true_count,
                   p.write, p.zero_in_range, p.read_value, p.overflow)
<1> DEFINE oi == Aligned(p.oam_index + 4)
<1>1. ASSUME p.soam_index < Slots, p.true_count = 0, ~InRange(p, p.read_value)
      PROVE  Becomes(p, Copy(p), Filled(p), p.soam_index, oi, p.true_count, p.write,
                     p.zero_in_range, p.read_value, p.overflow)
  <2>1. oi \in Nat
    <3>1. p.oam_index + 4 \in Nat
      BY FieldTypes
    <3> QED BY <3>1, AlignedType
  <2>2. Filled(p) \in [0..4 * Slots - 1 -> Bytes]
    BY <1>1, FilledType
  <2>3. Copy(p) = Evaluated(p, Filled(p), p.soam_index, oi, p.true_count, p.write,
                            p.zero_in_range, p.read_value, p.overflow)
    <3> DEFINE q == [p EXCEPT !.soam = Filled(p)]
    <3>1. Copy(p) = [q EXCEPT !.oam_index = oi]
      <4>1. Copy(p) = [q EXCEPT !.oam_index = Aligned(@ + 4)]
        BY <1>1 DEF Copy, Filled
      <4> QED BY <4>1 DEF PpuType
    <3> HIDE DEF oi
    <3> QED BY <3>1, ZenonT(60) DEF Evaluated, PpuType
  <2> HIDE DEF oi
  <2>4. /\ p.soam \in [0..4 * Slots - 1 -> Bytes] /\ p.soam_index \in Nat /\ p.oam_index \in Nat
        /\ p.true_count \in 0..3 /\ p.write \in BOOLEAN /\ p.zero_in_range \in BOOLEAN
        /\ p.read_value \in Bytes /\ p.overflow \in BOOLEAN
    BY FieldTypes
  <2> QED BY <2>1, <2>2, <2>3, <2>4, EvaluatedType
<1> QED BY <1>1

\* With the slots full the flag goes up for what looks like a Y in range.
Flag(p) == p.overflow \/ (InRange(p, p.read_value) /\ PPUON(p))

\* A byte looked at with all slots taken, inside a sprite or in range.
LEMMA OverflowNext ==
  ASSUME NEW p \in PpuType
  PROVE  p.true_count > 0 \/ InRange(p, p.read_value) =>
           Becomes(p, SearchOverflow(p), p.soam, p.soam_index, Onward(p), (p.true_count + 1) % 4,
                   p.write, p.zero_in_range, p.read_value, Flag(p))
<1> DEFINE t == (p.true_count + 1) % 4
<1>1. ASSUME p.true_count > 0 \/ InRange(p, p.read_value)
      PROVE  Becomes(p, SearchOverflow(p), p.soam, p.soam_index, Onward(p), t, p.write,
                     p.zero_in_range, p.read_value, Flag(p))
  <2>1. t \in 0..3 /\ Flag(p) \in BOOLEAN /\ Onward(p) \in Nat
    BY FieldTypes, OnwardType DEF Flag
  <2>2. SearchOverflow(p) = Evaluated(p, p.soam, p.soam_index, Onward(p), t, p.write,
                                      p.zero_in_range, p.read_value, Flag(p))
    <3> DEFINE q == [p EXCEPT !.overflow = Flag(p)]
    <3>1. /\ q.oam_index = p.oam_index /\ q.true_count = p.true_count
          /\ q.read_value = p.read_value /\ q.sl = p.sl /\ q.height = p.height
      BY DEF PpuType
    <3>2. q = [p EXCEPT !.overflow = @ \/ (InRange(p, p.read_value) /\ PPUON(p))]
      BY DEF Flag
    <3>3. SearchOverflow(p) = NextByte(q)
      BY <1>1, <3>2 DEF SearchOverflow
    <3>4. NextByte(q) = [q EXCEPT !.oam_index = Onward(p), !.true_count = t]
      <4> HIDE DEF q
      <4> QED BY <3>1 DEF NextByte, Onward, InRange
    <3> QED BY <3>3, <3>4, ZenonT(60) DEF Evaluated, PpuType
  <2> HIDE DEF t
  <2>3. /\ p.soam \in [0..4 * Slots - 1 -> Bytes] /\ p.soam_index \in Nat /\ p.oam_index \in Nat
        /\ p.true_count \in 0..3 /\ p.write \in BOOLEAN /\ p.zero_in_range \in BOOLEAN
        /\ p.read_value \in Bytes /\ p.overflow \in BOOLEAN
    BY FieldTypes
  <2> QED BY <2>1, <2>2, <2>3, EvaluatedType
<1> QED BY <1>1

\* A sprite out of range with all slots taken: the index moves on diagonally.
LEMMA OverflowOver ==
  ASSUME NEW p \in PpuType
  PROVE  ~(p.true_count > 0 \/ InRange(p, p.read_value)) =>
           Becomes(p, SearchOverflow(p), p.soam, p.soam_index,
                   IF (p.oam_index + 1) % 4 # 0 THEN p.oam_index + 5 ELSE p.oam_index + 1,
                   p.true_count, p.write, p.zero_in_range, p.read_value, Flag(p))
<1> DEFINE oi == IF (p.oam_index + 1) % 4 # 0 THEN p.oam_index + 5 ELSE p.oam_index + 1
<1>1. ASSUME ~(p.true_count > 0 \/ InRange(p, p.read_value))
      PROVE  Becomes(p, SearchOverflow(p), p.soam, p.soam_index, oi, p.true_count, p.write,
                     p.zero_in_range, p.read_value, Flag(p))
  <2>1. oi \in Nat /\ Flag(p) \in BOOLEAN
    BY FieldTypes DEF Flag
  <2>2. SearchOverflow(p) = Evaluated(p, p.soam, p.soam_index, oi, p.true_count, p.write,
                                      p.zero_in_range, p.read_value, Flag(p))
    <3> DEFINE q == [p EXCEPT !.overflow = Flag(p)]
    <3>1. q.oam_index = p.oam_index
      BY DEF PpuType
    <3>2. q = [p EXCEPT !.overflow = @ \/ (InRange(p, p.read_value) /\ PPUON(p))]
      BY DEF Flag
    <3>3. SearchOverflow(p) = [q EXCEPT !.oam_index = IF (@ + 1) % 4 # 0 THEN @ + 5 ELSE @ + 1]
      BY <1>1, <3>2 DEF SearchOverflow
    <3>4. SearchOverflow(p) = [q EXCEPT !.oam_index = oi]
      <4> HIDE DEF q
      <4> QED BY <3>1, <3>3
    <3> HIDE DEF oi
    <3> QED BY <3>4 DEF Evaluated, PpuType
  <2> HIDE DEF oi
  <2>3. /\ p.soam \in [0..4 * Slots - 1 -> Bytes] /\ p.soam_index \in Nat /\ p.oam_index \in Nat
        /\ p.true_count \in 0..3 /\ p.write \in BOOLEAN /\ p.zero_in_range \in BOOLEAN
        /\ p.read_value \in Bytes /\ p.overflow \in BOOLEAN
    BY FieldTypes
  <2> QED BY <2>1, <2>2, <2>3, EvaluatedType, SMTT(60)
<1> QED BY <1>1

\* A dot of the search begins with both.
Turn(p) == Wrap(Begun(p))

\* The search stays in OAM, or has come to its end.
LEMMA TurnStep ==
  ASSUME NEW p \in PpuType
  PROVE  LET q == Turn(p)
             from == IF p.dot = ClearDots THEN p.addr ELSE p.oam_index
         IN  /\ q \in PpuType /\ Aside(p, q) /\ q.soam = p.soam /\ q.true_count = p.true_count
             /\ q.zero_in_range = p.zero_in_range /\ q.read_value = p.read_value
             /\ q.overflow = p.overflow
             /\ q.soam_index = IF p.dot = ClearDots THEN 0 ELSE p.soam_index
             /\ from < OamSize => q.oam_index = from /\ q.write = p.write
             /\ from >= OamSize => q.oam_index = 0 /\ q.write = FALSE
             /\ q.oam_index \in 0..OamSize - 1
<1> DEFINE b == Begun(p)
           q == Turn(p)
           from == IF p.dot = ClearDots THEN p.addr ELSE p.oam_index
           si == IF p.dot = ClearDots THEN 0 ELSE p.soam_index
<1>1. q = Wrap(b)
  BY DEF Turn
<1>2. Becomes(p, b, p.soam, si, from, p.true_count, p.write, p.zero_in_range, p.read_value,
              p.overflow)
  BY BegunStep
<1> HIDE DEF b, q, from, si
<1>3. /\ b \in PpuType /\ Aside(p, b) /\ b.soam = p.soam /\ b.soam_index = si
      /\ b.oam_index = from /\ b.true_count = p.true_count /\ b.write = p.write
      /\ b.zero_in_range = p.zero_in_range /\ b.read_value = p.read_value
      /\ b.overflow = p.overflow
  BY <1>2 DEF Becomes
<1>4. from \in Nat /\ OamSize \in Nat /\ OamSize > 0
  BY <1>3, FieldTypes, Numbers
<1>5. CASE from < OamSize
  <2>1. q = b
    BY <1>1, <1>3, <1>5, WrapStep
  <2> QED BY <1>3, <1>4, <1>5, <2>1 DEF q, from, si
<1>6. CASE from >= OamSize
  <2>1. Becomes(b, q, b.soam, b.soam_index, 0, b.true_count, FALSE, b.zero_in_range,
                b.read_value, b.overflow)
    BY <1>1, <1>3, <1>6, WrapStep
  <2>2. /\ q \in PpuType /\ Aside(b, q) /\ q.soam = b.soam /\ q.soam_index = b.soam_index
        /\ q.oam_index = 0 /\ q.true_count = b.true_count /\ q.write = FALSE
        /\ q.zero_in_range = b.zero_in_range /\ q.read_value = b.read_value
        /\ q.overflow = b.overflow
    BY <2>1 DEF Becomes
  <2>3. Aside(p, q)
    BY <1>3, <2>2 DEF Aside
  <2> QED BY <1>3, <1>4, <1>6, <2>2, <2>3 DEF q, from, si
<1>7. from < OamSize \/ from >= OamSize
  BY <1>4
<1> QED BY <1>5, <1>6, <1>7

\* An even dot reads, an odd one decides.
LEMMA SearchStep ==
  ASSUME NEW p \in PpuType
  PROVE  LET q == Turn(p)
         IN  /\ p.dot % 2 = 0 => Becomes(q, Search(p), q.soam, q.soam_index, q.oam_index,
                                         q.true_count, q.write, q.zero_in_range,
                                         q.oam[q.oam_index], q.overflow)
             /\ p.dot % 2 # 0 /\ ~q.write =>
                  Becomes(q, Search(p), q.soam, q.soam_index, q.oam_index + 4, q.true_count,
                          q.write, q.zero_in_range, q.read_value, q.overflow)
             /\ p.dot % 2 # 0 /\ q.write /\ q.soam_index < Slots => Search(p) = Copy(q)
             /\ p.dot % 2 # 0 /\ q.write /\ ~(q.soam_index < Slots) =>
                  Search(p) = SearchOverflow(q)
<1> DEFINE q == Turn(p)
<1>1. q \in PpuType /\ q.oam_index \in 0..OamSize - 1
  BY TurnStep
<1>2. Search(p) = IF p.dot % 2 = 0 THEN [q EXCEPT !.read_value = q.oam[q.oam_index % OamSize]]
                  ELSE IF ~q.write THEN [q EXCEPT !.oam_index = @ + 4]
                  ELSE IF q.soam_index < Slots THEN Copy(q) ELSE SearchOverflow(q)
  BY DEF Search, Turn, Begun
<1> HIDE DEF q
<1>3. /\ q.soam \in [0..4 * Slots - 1 -> Bytes] /\ q.soam_index \in Nat /\ q.oam_index \in Nat
      /\ q.true_count \in 0..3 /\ q.write \in BOOLEAN /\ q.zero_in_range \in BOOLEAN
      /\ q.read_value \in Bytes /\ q.overflow \in BOOLEAN
  BY <1>1, FieldTypes
<1>4. ASSUME p.dot % 2 = 0
      PROVE  Becomes(q, Search(p), q.soam, q.soam_index, q.oam_index, q.true_count, q.write,
                     q.zero_in_range, q.oam[q.oam_index], q.overflow)
  <2> DEFINE v == q.oam[q.oam_index]
  <2>1. v \in Bytes
    <3>1. q.oam \in [0..OamSize - 1 -> Bytes]
      BY <1>1, FieldTypes
    <3> QED BY <1>1, <3>1
  <2>2. q.oam_index % OamSize = q.oam_index
    BY <1>1, ModSmall, Numbers
  <2>3. Search(p) = Evaluated(q, q.soam, q.soam_index, q.oam_index, q.true_count, q.write,
                              q.zero_in_range, v, q.overflow)
    BY <1>1, <1>2, <1>4, <2>2, ZenonT(60) DEF Evaluated, PpuType
  <2> HIDE DEF v
  <2>4. Becomes(q, Search(p), q.soam, q.soam_index, q.oam_index, q.true_count, q.write,
                q.zero_in_range, v, q.overflow)
    BY <1>1, <1>3, <2>1, <2>3, EvaluatedType, SMTT(90)
  <2> QED BY <2>4 DEF v
<1>5. ASSUME p.dot % 2 # 0 /\ ~q.write
      PROVE  Becomes(q, Search(p), q.soam, q.soam_index, q.oam_index + 4, q.true_count,
                     q.write, q.zero_in_range, q.read_value, q.overflow)
  <2> DEFINE oi == q.oam_index + 4
  <2>1. oi \in Nat
    BY <1>3
  <2>2. Search(p) = Evaluated(q, q.soam, q.soam_index, oi, q.true_count, q.write,
                              q.zero_in_range, q.read_value, q.overflow)
    BY <1>1, <1>2, <1>5, ZenonT(60) DEF Evaluated, PpuType
  <2> HIDE DEF oi
  <2>3. Becomes(q, Search(p), q.soam, q.soam_index, oi, q.true_count, q.write,
                q.zero_in_range, q.read_value, q.overflow)
    BY <1>1, <1>3, <2>1, <2>2, EvaluatedType, SMTT(60)
  <2> QED BY <2>3 DEF oi
<1> QED BY <1>2, <1>4, <1>5 DEF q

\* Wherever a search is, its indices stay in bounds.
LEMMA SearchType ==
  ASSUME NEW p \in PpuType
  PROVE  (p.dot > ClearDots => p.soam_index <= Slots) /\ p.dot >= ClearDots =>
           LET r == Search(p)
           IN  /\ r \in PpuType /\ Aside(p, r)
               /\ r.soam_index <= Slots /\ r.oam_index <= OamSize + 4
<1> DEFINE q == Turn(p)
           r == Search(p)
           within == r \in PpuType /\ Aside(q, r) /\ r.soam_index <= Slots
                       /\ r.oam_index <= OamSize + 4
<1>1. /\ q \in PpuType /\ Aside(p, q) /\ q.oam_index \in 0..OamSize - 1
      /\ q.soam_index = IF p.dot = ClearDots THEN 0 ELSE p.soam_index
  BY TurnStep
<1>2. /\ p.dot % 2 = 0 => Becomes(q, r, q.soam, q.soam_index, q.oam_index,
                                  q.true_count, q.write, q.zero_in_range,
                                  q.oam[q.oam_index], q.overflow)
      /\ p.dot % 2 # 0 /\ ~q.write =>
           Becomes(q, r, q.soam, q.soam_index, q.oam_index + 4, q.true_count,
                   q.write, q.zero_in_range, q.read_value, q.overflow)
      /\ p.dot % 2 # 0 /\ q.write /\ q.soam_index < Slots => r = Copy(q)
      /\ p.dot % 2 # 0 /\ q.write /\ ~(q.soam_index < Slots) => r = SearchOverflow(q)
  BY SearchStep
<1> HIDE DEF q, r
<1>3. /\ q.soam_index \in Nat /\ q.oam_index \in Nat /\ q.true_count \in 0..3
      /\ Slots \in Nat /\ Slots > 0 /\ OamSize \in Nat /\ ClearDots \in Nat /\ p.dot \in Nat
  BY <1>1, FieldTypes, Numbers
<1>4. ASSUME p.dot > ClearDots => p.soam_index <= Slots, p.dot >= ClearDots
      PROVE  within
  <2>1. q.soam_index <= Slots
    BY <1>1, <1>3, <1>4
  <2>2. CASE p.dot % 2 = 0
    <3>1. /\ r \in PpuType /\ Aside(q, r) /\ r.soam_index = q.soam_index
          /\ r.oam_index = q.oam_index
      BY <1>2, <2>2 DEF Becomes
    <3> QED BY <1>1, <1>3, <2>1, <3>1
  <2>3. CASE p.dot % 2 # 0 /\ ~q.write
    <3>1. /\ r \in PpuType /\ Aside(q, r) /\ r.soam_index = q.soam_index
          /\ r.oam_index = q.oam_index + 4
      BY <1>2, <2>3 DEF Becomes
    <3> QED BY <1>1, <1>3, <2>1, <3>1
  <2>4. CASE p.dot % 2 # 0 /\ q.write /\ q.soam_index < Slots
    <3>1. r = Copy(q)
      BY <1>2, <2>4
    <3>2. CASE q.true_count > 0
      <4>1. /\ r \in PpuType /\ Aside(q, r) /\ r.oam_index = Onward(q)
            /\ r.soam_index = IF q.true_count = 3 THEN q.soam_index + 1 ELSE q.soam_index
        BY <1>1, <2>4, <3>1, <3>2, CopyNext DEF Becomes
      <4>2. Onward(q) \in Nat /\ Onward(q) <= q.oam_index + 1
        BY <1>1, OnwardType
      <4> QED BY <1>1, <1>3, <2>4, <4>1, <4>2
    <3>3. CASE q.true_count = 0 /\ InRange(q, q.read_value)
      <4>1. /\ r \in PpuType /\ Aside(q, r) /\ r.oam_index = q.oam_index + 1
            /\ r.soam_index = q.soam_index
        BY <1>1, <2>4, <3>1, <3>3, CopyFirst DEF Becomes
      <4> QED BY <1>1, <1>3, <2>1, <4>1
    <3>4. CASE q.true_count = 0 /\ ~InRange(q, q.read_value)
      <4>1. /\ r \in PpuType /\ Aside(q, r) /\ r.oam_index = Aligned(q.oam_index + 4)
            /\ r.soam_index = q.soam_index
        BY <1>1, <2>4, <3>1, <3>4, CopyOver DEF Becomes
      <4>2. q.oam_index + 4 \in Nat
        BY <1>3
      <4>3. Aligned(q.oam_index + 4) \in Nat /\ Aligned(q.oam_index + 4) <= q.oam_index + 4
        BY <4>2, AlignedType
      <4> QED BY <1>1, <1>3, <2>1, <4>1, <4>3
    <3> QED BY <1>3, <3>2, <3>3, <3>4
  <2>5. CASE p.dot % 2 # 0 /\ q.write /\ ~(q.soam_index < Slots)
    <3>1. r = SearchOverflow(q)
      BY <1>2, <2>5
    <3>2. CASE q.true_count > 0 \/ InRange(q, q.read_value)
      <4>1. /\ r \in PpuType /\ Aside(q, r) /\ r.oam_index = Onward(q)
            /\ r.soam_index = q.soam_index
        BY <1>1, <3>1, <3>2, OverflowNext DEF Becomes
      <4>2. Onward(q) \in Nat /\ Onward(q) <= q.oam_index + 1
        BY <1>1, OnwardType
      <4> QED BY <1>1, <1>3, <2>1, <4>1, <4>2
    <3>3. CASE ~(q.true_count > 0 \/ InRange(q, q.read_value))
      <4>1. /\ r \in PpuType /\ Aside(q, r) /\ r.soam_index = q.soam_index
            /\ r.oam_index = IF (q.oam_index + 1) % 4 # 0 THEN q.oam_index + 5
                                                          ELSE q.oam_index + 1
        BY <1>1, <3>1, <3>3, OverflowOver DEF Becomes
      <4>2. (OamSize - 1 + 1) % 4 = 0
        BY Numbers
      <4>3. q.oam_index = OamSize - 1 => r.oam_index = q.oam_index + 1
        BY <4>1, <4>2
      <4> QED BY <1>1, <1>3, <2>1, <4>1, <4>3
    <3> QED BY <3>2, <3>3
  <2> QED BY <2>2, <2>3, <2>4, <2>5
<1>5. within => Aside(p, r)
  BY <1>1 DEF Aside
<1> QED BY <1>4, <1>5 DEF r

-----------------------------------------------------------------------------
(***************************************************************************)
(* Counting the sprites before a sprite.                                   *)
(***************************************************************************)
\* There are finitely many, and each one found adds one.
LEMMA CountStep ==
  ASSUME NEW p, NEW i \in Nat
  PROVE  /\ IsFiniteSet(Before(p, i)) /\ Count(p, i) \in Nat
         /\ i \in InLine(p) => Count(p, i + 1) = Count(p, i) + 1
                                 /\ Before(p, i + 1) = Before(p, i) \cup {i}
         /\ i \notin InLine(p) => Count(p, i + 1) = Count(p, i) /\ Before(p, i + 1) = Before(p, i)
<1>1. InLine(p) \subseteq 0..NumSprites - 1
  BY DEF InLine
<1>2. Before(p, i) \subseteq 0..NumSprites - 1
  BY <1>1 DEF Before
<1>3. IsFiniteSet(0..NumSprites - 1)
  BY FS_Interval, Numbers
<1>4. IsFiniteSet(Before(p, i))
  BY <1>2, <1>3, FS_Subset
<1>5. Count(p, i) \in Nat
  BY <1>4, FS_CardinalityType DEF Count
<1>6. ASSUME i \in InLine(p)
      PROVE  Count(p, i + 1) = Count(p, i) + 1 /\ Before(p, i + 1) = Before(p, i) \cup {i}
  <2>1. \A j \in InLine(p) : j < i + 1 <=> j < i \/ j = i
    BY <1>1, Numbers
  <2>2. Before(p, i + 1) = Before(p, i) \cup {i}
    BY <1>6, <2>1 DEF Before
  <2>3. i \notin Before(p, i)
    BY DEF Before
  <2>4. Cardinality(Before(p, i) \cup {i}) = Cardinality(Before(p, i)) + 1
    BY <1>4, <2>3, FS_AddElement
  <2> QED BY <2>2, <2>4 DEF Count
<1>7. ASSUME i \notin InLine(p)
      PROVE  Count(p, i + 1) = Count(p, i) /\ Before(p, i + 1) = Before(p, i)
  <2>1. \A j \in InLine(p) : j < i + 1 <=> j < i
    BY <1>1, <1>7, Numbers
  <2>2. Before(p, i + 1) = Before(p, i)
    BY <2>1 DEF Before
  <2> QED BY <2>2 DEF Count
<1> QED BY <1>4, <1>5, <1>6, <1>7

\* An earlier sprite has an earlier slot.
LEMMA CountLess ==
  ASSUME NEW p, NEW i \in Nat, NEW j \in Before(p, i)
  PROVE  j \in Nat /\ Count(p, j) \in Nat /\ Count(p, j) < Count(p, i)
<1>1. j \in 0..NumSprites - 1 /\ j \in InLine(p) /\ j < i
  BY DEF Before, InLine
<1>2. j \in Nat
  BY <1>1, Numbers
<1>3. Before(p, j + 1) \subseteq Before(p, i)
  <2>1. \A k \in InLine(p) : k < j + 1 => k < i
    BY <1>1, <1>2, Numbers DEF InLine
  <2> QED BY <2>1 DEF Before
<1>4. Count(p, j + 1) <= Count(p, i)
  BY <1>3, CountStep, FS_Subset DEF Count
<1>5. Count(p, j + 1) = Count(p, j) + 1 /\ Count(p, j) \in Nat /\ Count(p, i) \in Nat
  BY <1>1, <1>2, CountStep
<1> QED BY <1>2, <1>4, <1>5

\* Nothing is found before the address, and everything before the end of OAM.
LEMMA CountEnds ==
  ASSUME NEW p, NEW f \in Nat, p.addr = 4 * f
  PROVE  /\ Before(p, f) = {} /\ Count(p, f) = 0
         /\ Before(p, NumSprites) = InLine(p) /\ Count(p, NumSprites) = Cardinality(InLine(p))
         /\ NumSprites \notin InLine(p)
<1>1. ASSUME NEW j \in InLine(p)
      PROVE  j \in 0..NumSprites - 1 /\ j >= f /\ j < NumSprites
  <2>1. j \in 0..NumSprites - 1 /\ 4 * j >= 4 * f
    BY DEF InLine
  <2>2. j \in Nat /\ j < NumSprites
    BY <2>1, Numbers
  <2> QED BY <2>1, <2>2
<1>2. Before(p, f) = {}
  <2>1. ASSUME NEW j \in InLine(p), j < f PROVE FALSE
    <3>1. j \in Nat
      BY <1>1, Numbers
    <3> QED BY <1>1, <2>1, <3>1
  <2> QED BY <2>1 DEF Before
<1>3. Before(p, NumSprites) = InLine(p)
  BY <1>1 DEF Before
<1>4. NumSprites \notin InLine(p)
  BY Numbers DEF InLine
<1> QED BY <1>2, <1>3, <1>4, FS_EmptySet DEF Count

\* What is found depends on these fields only.
Scene(p, q) == q.sl = p.sl /\ q.addr = p.addr /\ q.oam = p.oam /\ q.height = p.height

\* The same sprites are in range of the same line.
LEMMA SameScene ==
  ASSUME NEW p, NEW q, Scene(p, q)
  PROVE  /\ InLine(q) = InLine(p)
         /\ \A i : Before(q, i) = Before(p, i) /\ Count(q, i) = Count(p, i)
         /\ \A b : InRange(q, b) <=> InRange(p, b)
<1>1. \A b : InRange(q, b) <=> InRange(p, b)
  BY DEF Scene, InRange
<1>2. InLine(q) = InLine(p)
  BY <1>1 DEF Scene, InLine
<1>3. \A i : Before(q, i) = Before(p, i)
  BY <1>2 DEF Before
<1> QED BY <1>1, <1>2, <1>3 DEF Count

\* Where sprites have been copied to stays as it is, when the next byte goes behind.
LEMMA CopiedKept ==
  ASSUME NEW p \in PpuType, NEW q, Scene(p, q), NEW i \in Nat, Copied(p, i),
         \A k \in 0..4 * Slots - 1 : k < 4 * Count(p, i) => q.soam[k] = p.soam[k],
         Count(p, i) <= Slots
  PROVE  Copied(q, i)
<1>1. ASSUME NEW j \in Before(p, i), NEW b \in 0..3
      PROVE  q.soam[4 * Count(p, j) + b] = q.oam[4 * j + b]
  <2>1. p.soam[4 * Count(p, j) + b] = p.oam[4 * j + b]
    BY DEF Copied
  <2>2. Count(p, j) \in Nat /\ Count(p, i) \in Nat /\ Count(p, j) < Count(p, i)
    BY CountLess, CountStep
  <2>3. 4 * Count(p, j) + b \in 0..4 * Slots - 1 /\ 4 * Count(p, j) + b < 4 * Count(p, i)
    BY <2>2, Numbers
  <2> QED BY <2>1, <2>3 DEF Scene
<1>2. /\ Before(q, i) = Before(p, i)
      /\ \A j : Count(q, j) = Count(p, j)
  BY SameScene
<1> QED BY <1>1, <1>2 DEF Copied

(***************************************************************************)
(* What a search has done stays so as long as its fields are left alone.   *)
(***************************************************************************)
Alone(p, q) ==
  /\ Scene(p, q) /\ q.soam = p.soam /\ q.soam_index = p.soam_index
  /\ q.zero_in_range = p.zero_in_range

\* What was found stays found when the search is left alone.
LEMMA KeptParts ==
  ASSUME NEW p, NEW q, Alone(p, q)
  PROVE  \A i, k, t, f : /\ Copied(p, i) => Copied(q, i)
                         /\ Empty(p, k, t) => Empty(q, k, t)
                         /\ ZeroKnown(p, f, i, t) => ZeroKnown(q, f, i, t)
<1>1. /\ InLine(q) = InLine(p)
      /\ \A i : Before(q, i) = Before(p, i) /\ Count(q, i) = Count(p, i)
  BY SameScene DEF Alone
<1>2. q.oam = p.oam /\ q.soam = p.soam /\ q.zero_in_range = p.zero_in_range
  BY DEF Alone, Scene
<1>3. ASSUME NEW i, Copied(p, i) PROVE Copied(q, i)
  BY <1>1, <1>2, <1>3 DEF Copied
<1>4. ASSUME NEW k, NEW t, Empty(p, k, t) PROVE Empty(q, k, t)
  BY <1>2, <1>4 DEF Empty
<1>5. ASSUME NEW i, NEW t, NEW f, ZeroKnown(p, f, i, t) PROVE ZeroKnown(q, f, i, t)
  BY <1>1, <1>2, <1>5 DEF ZeroKnown
<1> QED BY <1>3, <1>4, <1>5

\* A search that looks for sprites, left alone.
LEMMA LookingKept ==
  ASSUME NEW p, NEW q, NEW d, NEW e, NEW o, NEW f, NEW i
  PROVE  /\ Looking(p, d, o, f, i) /\ Alone(p, q) /\ Pairs(e) = Pairs(d) /\ Pending(q, e)
         /\ q.write = p.write /\ q.true_count = p.true_count /\ q.oam_index = p.oam_index
         /\ q.overflow = p.overflow
         => Looking(q, e, o, f, i)
<1>1. ASSUME Looking(p, d, o, f, i), Alone(p, q), Pairs(e) = Pairs(d), Pending(q, e),
             q.write = p.write, q.true_count = p.true_count, q.oam_index = p.oam_index,
             q.overflow = p.overflow
      PROVE  Looking(q, e, o, f, i)
  <2>1. InLine(q) = InLine(p) /\ Count(q, i) = Count(p, i)
    BY <1>1, SameScene DEF Alone
  <2>2. q.soam = p.soam /\ q.soam_index = p.soam_index /\ q.oam = p.oam
    BY <1>1 DEF Alone, Scene
  <2>3. /\ Copied(p, i) => Copied(q, i)
        /\ Empty(p, p.soam_index, p.true_count) => Empty(q, p.soam_index, p.true_count)
        /\ ZeroKnown(p, f, i, p.true_count) => ZeroKnown(q, f, i, p.true_count)
    BY <1>1, KeptParts
  <2> QED BY <1>1, <2>1, <2>2, <2>3 DEF Looking
<1> QED BY <1>1

\* A search with all slots taken, left alone.
LEMMA FullKept ==
  ASSUME NEW p, NEW q, NEW d, NEW e, NEW f, NEW i
  PROVE  /\ Full(p, d, f, i) /\ Alone(p, q)
         /\ p.overflow => q.overflow
         /\ p.overflow \/ i \notin InLine(p) \/ q.overflow
              \/ /\ Pairs(e) = Pairs(d) /\ Pending(q, e) /\ q.write = p.write
                 /\ q.true_count = p.true_count /\ q.oam_index = p.oam_index
         => Full(q, e, f, i)
<1>1. ASSUME Full(p, d, f, i), Alone(p, q), p.overflow => q.overflow,
             p.overflow \/ i \notin InLine(p) \/ q.overflow
               \/ /\ Pairs(e) = Pairs(d) /\ Pending(q, e) /\ q.write = p.write
                  /\ q.true_count = p.true_count /\ q.oam_index = p.oam_index
      PROVE  Full(q, e, f, i)
  <2>1. InLine(q) = InLine(p) /\ Count(q, i) = Count(p, i)
    BY <1>1, SameScene DEF Alone
  <2>2. q.soam = p.soam /\ q.soam_index = p.soam_index
    BY <1>1 DEF Alone
  <2>3. /\ Copied(p, i) => Copied(q, i)
        /\ ZeroKnown(p, f, i, 0) => ZeroKnown(q, f, i, 0)
    BY <1>1, KeptParts
  <2> QED BY <1>1, <2>1, <2>2, <2>3 DEF Full
<1> QED BY <1>1

\* A search at its end, left alone.
LEMMA OverKept ==
  ASSUME NEW p, NEW q, NEW o, NEW f
  PROVE  Over(p, o, f) /\ Alone(p, q) /\ q.write = p.write /\ q.overflow = p.overflow
         => Over(q, o, f)
<1>1. ASSUME Over(p, o, f), Alone(p, q), q.write = p.write, q.overflow = p.overflow
      PROVE  Over(q, o, f)
  <2>1. Count(q, NumSprites) = Count(p, NumSprites)
    BY <1>1, SameScene DEF Alone
  <2>2. q.soam = p.soam /\ q.soam_index = p.soam_index
    BY <1>1 DEF Alone
  <2>3. /\ Copied(p, NumSprites) => Copied(q, NumSprites)
        /\ Empty(p, p.soam_index, 0) => Empty(q, p.soam_index, 0)
        /\ ZeroKnown(p, f, NumSprites, 0) => ZeroKnown(q, f, NumSprites, 0)
    BY <1>1, KeptParts
  <2> QED BY <1>1, <2>1, <2>2, <2>3 DEF Over
<1> QED BY <1>1

\* What follows the search in its dot leaves all of it alone.
LEMMA SearchedKept ==
  ASSUME NEW p, NEW q, NEW d, NEW o, NEW f
  PROVE  /\ Searched(p, d, o, f) /\ Alone(p, q)
         /\ q.write = p.write /\ q.true_count = p.true_count /\ q.oam_index = p.oam_index
         /\ q.read_value = p.read_value /\ q.overflow = p.overflow
         => Searched(q, d, o, f)
<1>1. ASSUME Searched(p, d, o, f), Alone(p, q), q.write = p.write,
             q.true_count = p.true_count, q.oam_index = p.oam_index,
             q.read_value = p.read_value, q.overflow = p.overflow
      PROVE  Searched(q, d, o, f)
  <2>1. Pending(p, d) => Pending(q, d)
    BY <1>1 DEF Alone, Scene, Pending
  <2>2. ASSUME NEW i \in 0..NumSprites, Looking(p, d, o, f, i) PROVE Looking(q, d, o, f, i)
    <3>1. Pending(q, d)
      BY <2>1, <2>2 DEF Looking
    <3> QED BY <1>1, <2>2, <3>1, LookingKept
  <2>3. ASSUME NEW i \in 0..NumSprites, Full(p, d, f, i) PROVE Full(q, d, f, i)
    <3>1. p.overflow \/ i \notin InLine(p) \/ Pending(q, d)
      BY <2>1, <2>3 DEF Full
    <3> QED BY <1>1, <2>3, <3>1, FullKept
  <2>4. Over(p, o, f) => Over(q, o, f)
    BY <1>1, OverKept
  <2> QED BY <1>1, <2>2, <2>3, <2>4 DEF Searched
<1> QED BY <1>1

(***************************************************************************)
(* Pairs of dots.                                                          *)
(***************************************************************************)
LEMMA PairsStep ==
  ASSUME NEW d \in Nat, d >= ClearDots
  PROVE  /\ Pairs(d) \in Nat
         /\ d % 2 = 0 => Pairs(d + 1) = Pairs(d) /\ (d + 1) % 2 # 0
         /\ d % 2 # 0 => Pairs(d + 1) = Pairs(d) + 1 /\ (d + 1) % 2 = 0
         /\ d = ClearDots => Pairs(d + 1) = 0 /\ d % 2 = 0
<1>1. ASSUME NEW c \in Nat, c % 2 = 0, d >= c
      PROVE  /\ (d - c) \div 2 \in Nat
             /\ d % 2 = 0 => (d + 1 - c) \div 2 = (d - c) \div 2 /\ (d + 1) % 2 # 0
             /\ d % 2 # 0 => (d + 1 - c) \div 2 = (d - c) \div 2 + 1 /\ (d + 1) % 2 = 0
             /\ d = c => (d + 1 - c) \div 2 = 0 /\ d % 2 = 0
  BY <1>1
<1>2. ClearDots \in Nat /\ ClearDots % 2 = 0
  BY Numbers
<1> QED BY <1>1, <1>2 DEF Pairs

(***************************************************************************)
(* An odd dot, at sprite i, decides about the byte that was read.          *)
(***************************************************************************)
\* Where a search that looks is.
LEMMA LookingPlace ==
  ASSUME NEW p \in PpuType, NEW d, NEW o, NEW f \in 0..NumSprites - 1, NEW i, p.addr = 4 * f
  PROVE  Looking(p, d, o, f, i) =>
           /\ i \in Nat /\ f \in Nat /\ i >= f /\ i <= NumSprites /\ p.true_count \in 0..3
           /\ p.soam_index \in Nat /\ p.soam_index < Slots /\ p.soam_index = Count(p, i)
           /\ p.oam_index = 4 * i + p.true_count
           /\ p.oam_index < OamSize <=> i < NumSprites
           /\ p.true_count > 0 => i < NumSprites
<1>1. ASSUME Looking(p, d, o, f, i)
      PROVE  /\ i \in Nat /\ f \in Nat /\ i >= f /\ i <= NumSprites /\ p.true_count \in 0..3
             /\ p.soam_index \in Nat /\ p.soam_index < Slots /\ p.soam_index = Count(p, i)
             /\ p.oam_index = 4 * i + p.true_count
             /\ p.oam_index < OamSize <=> i < NumSprites
             /\ p.true_count > 0 => i < NumSprites
  <2>1. p.true_count \in 0..3 /\ p.soam_index \in Nat
    BY FieldTypes
  <2>2. /\ i \in f..NumSprites /\ p.oam_index = 4 * i + p.true_count
        /\ p.soam_index < Slots /\ p.soam_index = Count(p, i)
        /\ p.true_count > 0 => i \in InLine(p)
    BY <1>1 DEF Looking
  <2>3. i \in InLine(p) => i < NumSprites
    BY Numbers DEF InLine
  <2> QED BY <2>1, <2>2, <2>3, Numbers
<1> QED BY <1>1

\* A sprite is found: its Y is in the slot.
LEMMA LookingFirst ==
  ASSUME NEW p \in PpuType, NEW r, NEW d \in Nat, d >= ClearDots, NEW o,
         NEW f \in 0..NumSprites - 1, NEW i, p.addr = 4 * f
  PROVE  /\ Looking(p, d, o, f, i) /\ d % 2 # 0 /\ p.true_count = 0 /\ i < NumSprites
         /\ InRange(p, p.oam[4 * i]) /\ Scene(p, r) /\ r.soam = Filled(p)
         /\ p.read_value = p.oam[4 * i]
         /\ r.soam_index = p.soam_index /\ r.oam_index = p.oam_index + 1 /\ r.true_count = 1
         /\ r.write = p.write /\ r.overflow = p.overflow
         /\ (r.zero_in_range <=> p.zero_in_range \/ p.oam_index = p.addr)
         => Looking(r, d + 1, o, f, i)
<1>1. ASSUME Looking(p, d, o, f, i), d % 2 # 0, p.true_count = 0, i < NumSprites,
             InRange(p, p.oam[4 * i]), Scene(p, r), r.soam = Filled(p),
             p.read_value = p.oam[4 * i],
             r.soam_index = p.soam_index, r.oam_index = p.oam_index + 1, r.true_count = 1,
             r.write = p.write, r.overflow = p.overflow,
             (r.zero_in_range <=> p.zero_in_range \/ p.oam_index = p.addr)
      PROVE  Looking(r, d + 1, o, f, i)
  <2>1. /\ i \in Nat /\ f \in Nat /\ i >= f /\ i <= NumSprites
        /\ p.soam_index \in Nat /\ p.soam_index < Slots /\ p.soam_index = Count(p, i)
        /\ p.oam_index = 4 * i + 0
    BY <1>1, LookingPlace
  <2>2. i \in InLine(p)
    <3>1. i \in 0..NumSprites - 1 /\ 4 * i >= p.addr
      BY <1>1, <2>1, Numbers
    <3> QED BY <1>1, <3>1 DEF InLine
  <2>3. InLine(r) = InLine(p) /\ Count(r, i) = Count(p, i)
    BY <1>1, SameScene
  <2> DEFINE k == 4 * p.soam_index
  <2>4. \A b \in 0..4 * Slots - 1 : r.soam[b] = IF b = k THEN p.oam[4 * i] ELSE p.soam[b]
    <3>1. \A b \in 0..4 * Slots - 1 :
            Filled(p)[b] = IF b = 4 * p.soam_index + p.true_count THEN p.read_value ELSE p.soam[b]
      BY <2>1, FilledType
    <3>2. 4 * p.soam_index + p.true_count = k
      BY <1>1, <2>1
    <3> QED BY <1>1, <3>1, <3>2
  <2>5. k \in 0..4 * Slots - 1
    BY <2>1, Numbers
  <2>6. Copied(r, i)
    <3>1. \A b \in 0..4 * Slots - 1 : b < 4 * Count(p, i) => r.soam[b] = p.soam[b]
      BY <2>1, <2>4
    <3>2. Copied(p, i) /\ Count(p, i) <= Slots
      BY <1>1, <2>1, Numbers DEF Looking
    <3> QED BY <1>1, <2>1, <3>1, <3>2, CopiedKept
  <2>7. \A b \in 0..0 : r.soam[4 * r.soam_index + b] = r.oam[4 * i + b]
    <3>1. r.soam[k] = p.oam[4 * i]
      BY <2>4, <2>5
    <3>2. \A b \in 0..0 : 4 * r.soam_index + b = k /\ 4 * i + b = 4 * i
      BY <1>1, <2>1
    <3> QED BY <1>1, <3>1, <3>2 DEF Scene
  <2>8. Empty(r, r.soam_index, 1)
    <3>1. Empty(p, p.soam_index, 0)
      BY <1>1 DEF Looking
    <3>2. ASSUME NEW s \in 0..Slots - 1, s > p.soam_index \/ s = p.soam_index
          PROVE  r.soam[4 * s + 2] = Blank
      <4>1. 4 * s + 2 \in 0..4 * Slots - 1 /\ 4 * s + 2 # k
        BY <2>1, Numbers
      <4>2. p.soam[4 * s + 2] = Blank
        BY <3>1, <3>2 DEF Empty
      <4> QED BY <2>4, <4>1, <4>2
    <3> QED BY <1>1, <3>2 DEF Empty
  <2>9. ZeroKnown(r, f, i, 1)
    <3>1. p.zero_in_range <=> f \in InLine(p) /\ f < i
      BY <1>1 DEF Looking, ZeroKnown
    <3>2. p.oam_index = p.addr <=> i = f
      BY <2>1
    <3>3. r.zero_in_range <=> f \in InLine(p)
      <4>1. r.zero_in_range <=> (f \in InLine(p) /\ f < i) \/ i = f
        BY <1>1, <3>1, <3>2
      <4>2. f < i \/ i = f
        BY <2>1
      <4>3. i = f => f \in InLine(p)
        BY <2>2
      <4> QED BY <4>1, <4>2, <4>3
    <3> QED BY <2>3, <3>3 DEF ZeroKnown
  <2>10. Pairs(d + 1) = (i - f) + 3 * r.soam_index + 1
    <3>1. Pairs(d) = (i - f) + 3 * p.soam_index + p.true_count
      BY <1>1 DEF Looking
    <3>2. Pairs(d) \in Nat /\ Pairs(d + 1) = Pairs(d) + 1
      BY <1>1, PairsStep
    <3> QED BY <1>1, <2>1, <3>1, <3>2
  <2>11. Pending(r, d + 1)
    BY <1>1, PairsStep DEF Pending
  <2>12. /\ r.write /\ r.soam_index < Slots /\ i \in f..NumSprites
         /\ r.oam_index = 4 * i + 1 /\ r.soam_index = Count(r, i) /\ r.overflow = o
    BY <1>1, <2>1, <2>3, Numbers DEF Looking
  <2>13. \A b \in 0..r.true_count - 1 : r.soam[4 * r.soam_index + b] = r.oam[4 * i + b]
    BY <1>1, <2>7
  <2> QED BY <1>1, <2>2, <2>3, <2>6, <2>8, <2>9, <2>10, <2>11, <2>12, <2>13 DEF Looking
<1> QED BY <1>1

\* A sprite is not on the line, and is stepped over.
LEMMA LookingOver ==
  ASSUME NEW p \in PpuType, NEW r, NEW d \in Nat, d >= ClearDots, NEW o,
         NEW f \in 0..NumSprites - 1, NEW i, p.addr = 4 * f
  PROVE  /\ Looking(p, d, o, f, i) /\ d % 2 # 0 /\ p.true_count = 0 /\ i < NumSprites
         /\ ~InRange(p, p.oam[4 * i]) /\ Scene(p, r) /\ r.soam = Filled(p)
         /\ r.soam_index = p.soam_index /\ r.oam_index = 4 * i + 4 /\ r.true_count = 0
         /\ r.write = p.write /\ r.overflow = p.overflow /\ r.zero_in_range = p.zero_in_range
         => Looking(r, d + 1, o, f, i + 1)
<1>1. ASSUME Looking(p, d, o, f, i), d % 2 # 0, p.true_count = 0, i < NumSprites,
             ~InRange(p, p.oam[4 * i]), Scene(p, r), r.soam = Filled(p),
             r.soam_index = p.soam_index, r.oam_index = 4 * i + 4, r.true_count = 0,
             r.write = p.write, r.overflow = p.overflow, r.zero_in_range = p.zero_in_range
      PROVE  Looking(r, d + 1, o, f, i + 1)
  <2>1. /\ i \in Nat /\ f \in Nat /\ i >= f /\ i <= NumSprites
        /\ p.soam_index \in Nat /\ p.soam_index < Slots /\ p.soam_index = Count(p, i)
    BY <1>1, LookingPlace
  <2>2. i \notin InLine(p)
    BY <1>1 DEF InLine
  <2>3. /\ InLine(r) = InLine(p) /\ Count(r, i + 1) = Count(p, i)
        /\ Before(r, i + 1) = Before(p, i) /\ \A j : Count(r, j) = Count(p, j)
    BY <1>1, <2>1, <2>2, SameScene, CountStep
  <2> DEFINE k == 4 * p.soam_index
  <2>4. \A b \in 0..4 * Slots - 1 : b # k => r.soam[b] = p.soam[b]
    <3>1. \A b \in 0..4 * Slots - 1 :
            Filled(p)[b] = IF b = 4 * p.soam_index + p.true_count THEN p.read_value ELSE p.soam[b]
      BY <2>1, FilledType
    <3>2. 4 * p.soam_index + p.true_count = k
      BY <1>1, <2>1
    <3> QED BY <1>1, <3>1, <3>2
  <2>5. Copied(r, i + 1)
    <3>1. \A b \in 0..4 * Slots - 1 : b < 4 * Count(p, i) => r.soam[b] = p.soam[b]
      BY <2>1, <2>4
    <3>2. Copied(p, i) /\ Count(p, i) <= Slots
      BY <1>1, <2>1, Numbers DEF Looking
    <3>3. Copied(r, i)
      BY <1>1, <2>1, <3>1, <3>2, CopiedKept
    <3>4. Before(r, i) = Before(p, i)
      BY <1>1, SameScene
    <3> QED BY <2>3, <3>3, <3>4 DEF Copied
  <2>6. Empty(r, r.soam_index, 0)
    <3>1. Empty(p, p.soam_index, 0)
      BY <1>1 DEF Looking
    <3>2. ASSUME NEW s \in 0..Slots - 1, s > p.soam_index \/ s = p.soam_index
          PROVE  r.soam[4 * s + 2] = Blank
      <4>1. 4 * s + 2 \in 0..4 * Slots - 1 /\ 4 * s + 2 # k
        BY <2>1, Numbers
      <4>2. p.soam[4 * s + 2] = Blank
        BY <3>1, <3>2 DEF Empty
      <4> QED BY <2>4, <4>1, <4>2
    <3> QED BY <1>1, <3>2 DEF Empty
  <2>7. ZeroKnown(r, f, i + 1, 0)
    <3>1. p.zero_in_range <=> f \in InLine(p) /\ f < i
      BY <1>1 DEF Looking, ZeroKnown
    <3>2. f < i + 1 <=> f < i \/ f = i
      BY <2>1
    <3> QED BY <1>1, <2>2, <2>3, <3>1, <3>2 DEF ZeroKnown
  <2>8. Pairs(d + 1) = (i + 1 - f) + 3 * r.soam_index + 0
    <3>1. Pairs(d) = (i - f) + 3 * p.soam_index + p.true_count
      BY <1>1 DEF Looking
    <3>2. Pairs(d) \in Nat /\ Pairs(d + 1) = Pairs(d) + 1
      BY <1>1, PairsStep
    <3> QED BY <1>1, <2>1, <3>1, <3>2
  <2>9. Pending(r, d + 1)
    BY <1>1, PairsStep DEF Pending
  <2>10. /\ r.write /\ r.soam_index < Slots /\ i + 1 \in f..NumSprites
         /\ r.oam_index = 4 * (i + 1) + 0 /\ r.soam_index = Count(r, i + 1) /\ r.overflow = o
    BY <1>1, <2>1, <2>3, Numbers DEF Looking
  <2>11. \A b \in 0..r.true_count - 1 : FALSE
    BY <1>1
  <2> QED BY <1>1, <2>5, <2>6, <2>7, <2>8, <2>9, <2>10, <2>11 DEF Looking
<1> QED BY <1>1

\* The next byte of a sprite that was found, but for the last.
LEMMA LookingNext ==
  ASSUME NEW p \in PpuType, NEW r, NEW d \in Nat, d >= ClearDots, NEW o,
         NEW f \in 0..NumSprites - 1, NEW i, p.addr = 4 * f
  PROVE  /\ Looking(p, d, o, f, i) /\ d % 2 # 0 /\ p.true_count \in 1..2
         /\ Scene(p, r) /\ r.soam = Filled(p) /\ p.read_value = p.oam[p.oam_index]
         /\ r.soam_index = p.soam_index /\ r.oam_index = p.oam_index + 1
         /\ r.true_count = p.true_count + 1
         /\ r.write = p.write /\ r.overflow = p.overflow /\ r.zero_in_range = p.zero_in_range
         => Looking(r, d + 1, o, f, i)
<1> DEFINE t == p.true_count
<1>1. ASSUME Looking(p, d, o, f, i), d % 2 # 0, t \in 1..2, Scene(p, r), r.soam = Filled(p),
             p.read_value = p.oam[p.oam_index],
             r.soam_index = p.soam_index, r.oam_index = p.oam_index + 1, r.true_count = t + 1,
             r.write = p.write, r.overflow = p.overflow, r.zero_in_range = p.zero_in_range
      PROVE  Looking(r, d + 1, o, f, i)
  <2>1. /\ i \in Nat /\ f \in Nat /\ i >= f /\ i <= NumSprites
        /\ p.soam_index \in Nat /\ p.soam_index < Slots /\ p.soam_index = Count(p, i)
        /\ p.oam_index = 4 * i + t
    BY <1>1, LookingPlace
  <2>2. i \in InLine(p)
    BY <1>1 DEF Looking
  <2>3. InLine(r) = InLine(p) /\ Count(r, i) = Count(p, i)
    BY <1>1, SameScene
  <2> DEFINE k == 4 * p.soam_index
  <2>4. \A b \in 0..4 * Slots - 1 : r.soam[b] = IF b = k + t THEN p.oam[4 * i + t] ELSE p.soam[b]
    <3>1. \A b \in 0..4 * Slots - 1 :
            Filled(p)[b] = IF b = 4 * p.soam_index + p.true_count THEN p.read_value ELSE p.soam[b]
      BY <2>1, FilledType
    <3> QED BY <1>1, <2>1, <3>1
  <2>5. \A b \in 0..3 : k + b \in 0..4 * Slots - 1
    BY <2>1, Numbers
  <2>6. Copied(r, i)
    <3>1. \A b \in 0..4 * Slots - 1 : b < 4 * Count(p, i) => r.soam[b] = p.soam[b]
      BY <1>1, <2>1, <2>4
    <3>2. Copied(p, i) /\ Count(p, i) <= Slots
      BY <1>1, <2>1, Numbers DEF Looking
    <3> QED BY <1>1, <2>1, <3>1, <3>2, CopiedKept
  <2>7. \A b \in 0..r.true_count - 1 : r.soam[4 * r.soam_index + b] = r.oam[4 * i + b]
    <3>1. \A b \in 0..t - 1 : p.soam[k + b] = p.oam[4 * i + b]
      BY <1>1 DEF Looking
    <3>2. ASSUME NEW b \in 0..t PROVE r.soam[k + b] = p.oam[4 * i + b]
      <4>1. k + b \in 0..4 * Slots - 1
        BY <1>1, <2>5
      <4>2. CASE b = t
        BY <2>4, <4>1, <4>2
      <4>3. CASE b # t
        <5>1. b \in 0..t - 1 /\ k + b # k + t
          BY <1>1, <2>1, <4>3
        <5> QED BY <2>4, <3>1, <4>1, <5>1
      <4> QED BY <4>2, <4>3
    <3>3. r.true_count - 1 = t
      BY <1>1
    <3> QED BY <1>1, <3>2, <3>3 DEF Scene
  <2>8. Empty(r, r.soam_index, t + 1)
    <3>1. Empty(p, p.soam_index, t)
      BY <1>1 DEF Looking
    <3>2. ASSUME NEW s \in 0..Slots - 1, s > p.soam_index \/ (s = p.soam_index /\ t + 1 < 3)
          PROVE  r.soam[4 * s + 2] = Blank
      <4>1. 4 * s + 2 \in 0..4 * Slots - 1 /\ 4 * s + 2 # k + t
        BY <1>1, <2>1, <3>2, Numbers
      <4>2. p.soam[4 * s + 2] = Blank
        BY <1>1, <3>1, <3>2 DEF Empty
      <4> QED BY <2>4, <4>1, <4>2
    <3> QED BY <1>1, <3>2 DEF Empty
  <2>9. ZeroKnown(r, f, i, t + 1)
    <3>1. p.zero_in_range <=> f \in InLine(p) /\ (f < i \/ t > 0)
      BY <1>1 DEF Looking, ZeroKnown
    <3>2. t > 0 /\ t + 1 > 0
      BY <1>1
    <3> QED BY <1>1, <2>3, <3>1, <3>2 DEF ZeroKnown
  <2>10. Pairs(d + 1) = (i - f) + 3 * r.soam_index + (t + 1)
    <3>1. Pairs(d) = (i - f) + 3 * p.soam_index + t
      BY <1>1 DEF Looking
    <3>2. Pairs(d) \in Nat /\ Pairs(d + 1) = Pairs(d) + 1
      BY <1>1, PairsStep
    <3> QED BY <1>1, <2>1, <3>1, <3>2
  <2>11. Pending(r, d + 1)
    BY <1>1, PairsStep DEF Pending
  <2>12. /\ r.write /\ r.soam_index < Slots /\ i \in f..NumSprites
         /\ r.oam_index = 4 * i + (t + 1) /\ r.soam_index = Count(r, i) /\ r.overflow = o
    BY <1>1, <2>1, <2>3, Numbers DEF Looking
  <2> QED BY <1>1, <2>2, <2>3, <2>6, <2>7, <2>8, <2>9, <2>10, <2>11, <2>12 DEF Looking
<1> QED BY <1>1

\* The last byte of a sprite takes the slot, and perhaps the last one.
LEMMA LookingTaken ==
  ASSUME NEW p \in PpuType, NEW r, NEW d \in Nat, d >= ClearDots, NEW o,
         NEW f \in 0..NumSprites - 1, NEW i, p.addr = 4 * f
  PROVE  /\ Looking(p, d, o, f, i) /\ d % 2 # 0 /\ p.true_count = 3
         /\ Scene(p, r) /\ r.soam = Filled(p) /\ p.read_value = p.oam[p.oam_index]
         /\ r.soam_index = p.soam_index + 1 /\ r.oam_index = 4 * i + 4 /\ r.true_count = 0
         /\ r.write = p.write /\ r.overflow = p.overflow /\ r.zero_in_range = p.zero_in_range
         => Looking(r, d + 1, o, f, i + 1) \/ Full(r, d + 1, f, i + 1)
<1>1. ASSUME Looking(p, d, o, f, i), d % 2 # 0, p.true_count = 3, Scene(p, r),
             r.soam = Filled(p), p.read_value = p.oam[p.oam_index],
             r.soam_index = p.soam_index + 1, r.oam_index = 4 * i + 4, r.true_count = 0,
             r.write = p.write, r.overflow = p.overflow, r.zero_in_range = p.zero_in_range
      PROVE  Looking(r, d + 1, o, f, i + 1) \/ Full(r, d + 1, f, i + 1)
  <2>1. /\ i \in Nat /\ f \in Nat /\ i >= f /\ i < NumSprites
        /\ p.soam_index \in Nat /\ p.soam_index < Slots /\ p.soam_index = Count(p, i)
        /\ p.oam_index = 4 * i + 3
    BY <1>1, LookingPlace
  <2>2. i \in InLine(p)
    BY <1>1 DEF Looking
  <2>3. /\ InLine(r) = InLine(p) /\ Count(r, i + 1) = Count(p, i) + 1
        /\ Before(r, i + 1) = Before(p, i) \cup {i} /\ \A j : Count(r, j) = Count(p, j)
    BY <1>1, <2>1, <2>2, SameScene, CountStep
  <2> DEFINE k == 4 * p.soam_index
  <2>4. \A b \in 0..4 * Slots - 1 : r.soam[b] = IF b = k + 3 THEN p.oam[4 * i + 3] ELSE p.soam[b]
    <3>1. \A b \in 0..4 * Slots - 1 :
            Filled(p)[b] = IF b = 4 * p.soam_index + p.true_count THEN p.read_value ELSE p.soam[b]
      BY <2>1, FilledType
    <3> QED BY <1>1, <2>1, <3>1
  <2>5. \A b \in 0..3 : k + b \in 0..4 * Slots - 1
    BY <2>1, Numbers
  <2>6. Copied(r, i + 1)
    <3>1. \A b \in 0..4 * Slots - 1 : b < 4 * Count(p, i) => r.soam[b] = p.soam[b]
      BY <2>1, <2>4
    <3>2. Copied(p, i) /\ Count(p, i) <= Slots
      BY <1>1, <2>1, Numbers DEF Looking
    <3>3. Copied(r, i)
      BY <1>1, <2>1, <3>1, <3>2, CopiedKept
    <3>4. Before(r, i) = Before(p, i)
      BY <1>1, SameScene
    <3>5. ASSUME NEW b \in 0..3 PROVE r.soam[k + b] = p.oam[4 * i + b]
      <4>1. k + b \in 0..4 * Slots - 1
        BY <2>5
      <4>2. \A c \in 0..p.true_count - 1 : p.soam[k + c] = p.oam[4 * i + c]
        BY <1>1 DEF Looking
      <4>3. CASE b = 3
        BY <2>4, <4>1, <4>3
      <4>4. CASE b # 3
        <5>1. b \in 0..p.true_count - 1 /\ k + b # k + 3
          BY <1>1, <2>1, <4>4
        <5> QED BY <2>4, <4>1, <4>2, <5>1
      <4> QED BY <4>3, <4>4
    <3>6. 4 * Count(r, i) = k
      BY <2>1, <2>3
    <3>7. ASSUME NEW j \in Before(r, i + 1), NEW b \in 0..3
          PROVE  r.soam[4 * Count(r, j) + b] = r.oam[4 * j + b]
      <4>1. CASE j \in Before(r, i)
        BY <3>3, <4>1 DEF Copied
      <4>2. CASE j = i
        BY <1>1, <3>5, <3>6, <4>2 DEF Scene
      <4> QED BY <2>3, <3>4, <4>1, <4>2
    <3> QED BY <3>7 DEF Copied
  <2>7. Empty(r, r.soam_index, 0)
    <3>1. Empty(p, p.soam_index, 3)
      BY <1>1 DEF Looking
    <3>2. ASSUME NEW s \in 0..Slots - 1, s >= p.soam_index + 1
          PROVE  r.soam[4 * s + 2] = Blank
      <4>1. 4 * s + 2 \in 0..4 * Slots - 1 /\ 4 * s + 2 # k + 3 /\ s > p.soam_index
        BY <2>1, <3>2, Numbers
      <4>2. p.soam[4 * s + 2] = Blank
        BY <3>1, <4>1 DEF Empty
      <4> QED BY <2>4, <4>1, <4>2
    <3>3. \A s \in 0..Slots - 1 : s > r.soam_index \/ (s = r.soam_index /\ 0 < 3)
                                    => s >= p.soam_index + 1
      BY <1>1, <2>1
    <3> QED BY <3>2, <3>3 DEF Empty
  <2>8. ZeroKnown(r, f, i + 1, 0)
    <3>1. p.zero_in_range <=> f \in InLine(p) /\ (f < i \/ p.true_count > 0)
      BY <1>1 DEF Looking, ZeroKnown
    <3>2. f < i + 1 /\ p.true_count > 0
      BY <1>1, <2>1
    <3> QED BY <1>1, <2>3, <3>1, <3>2 DEF ZeroKnown
  <2>9. Pairs(d + 1) = (i + 1 - f) + 3 * r.soam_index + 0
    <3>1. Pairs(d) = (i - f) + 3 * p.soam_index + p.true_count
      BY <1>1 DEF Looking
    <3>2. Pairs(d) \in Nat /\ Pairs(d + 1) = Pairs(d) + 1
      BY <1>1, PairsStep
    <3> QED BY <1>1, <2>1, <3>1, <3>2
  <2>10. Pending(r, d + 1)
    BY <1>1, PairsStep DEF Pending
  <2>11. /\ r.write /\ i + 1 \in f + 1..NumSprites /\ i + 1 \in f..NumSprites
         /\ r.oam_index = 4 * (i + 1) + 0 /\ r.soam_index = Count(r, i + 1) /\ r.overflow = o
         /\ r.soam_index <= Slots /\ r.soam_index \in Nat
    BY <1>1, <2>1, <2>3, Numbers DEF Looking
  <2>12. CASE r.soam_index < Slots
    <3>1. \A b \in 0..r.true_count - 1 : FALSE
      BY <1>1
    <3>2. Looking(r, d + 1, o, f, i + 1)
      BY <1>1, <2>6, <2>7, <2>8, <2>9, <2>10, <2>11, <2>12, <3>1 DEF Looking
    <3> QED BY <3>2
  <2>13. CASE r.soam_index = Slots
    <3>1. (i + 1) - 1 \in InLine(r) /\ r.oam_index = 4 * (i + 1)
      <4>1. (i + 1) - 1 = i /\ 4 * (i + 1) = 4 * i + 4
        BY <2>1
      <4> QED BY <1>1, <2>2, <2>3, <4>1
    <3>2. Pairs(d + 1) = (i + 1 - f) + 3 * Slots
      BY <2>1, <2>9, <2>13, Numbers
    <3>3. /\ i + 1 \in f + 1..NumSprites /\ Count(r, i + 1) = Slots /\ r.write
          /\ r.true_count = 0
      BY <1>1, <2>11, <2>13
    <3>4. Full(r, d + 1, f, i + 1)
      <4> DEFINE n == i + 1
                 e == d + 1
      <4>1. n \in f + 1..NumSprites /\ Count(r, n) = Slots
        BY <3>3
      <4>2. n - 1 \in InLine(r) /\ r.oam_index = 4 * n
        BY <3>1
      <4>3. Copied(r, n) /\ ZeroKnown(r, f, n, 0)
        BY <2>6, <2>8
      <4>4. Pairs(e) = (n - f) + 3 * Slots
        BY <2>1, <3>2, Numbers
      <4>5. Pending(r, e)
        BY <2>10
      <4> HIDE DEF n, e
      <4>6. Full(r, e, f, n)
        BY <2>13, <3>3, <4>1, <4>2, <4>3, <4>4, <4>5 DEF Full
      <4> QED BY <4>6 DEF n, e
    <3> QED BY <3>4
  <2> QED BY <2>11, <2>12, <2>13, Numbers
<1> QED BY <1>1

\* The end of OAM is reached with slots to spare.
LEMMA LookingEnds ==
  ASSUME NEW p \in PpuType, NEW r, NEW d, NEW o, NEW f \in 0..NumSprites - 1, NEW i,
         p.addr = 4 * f
  PROVE  /\ Looking(p, d, o, f, i) /\ ~(p.oam_index < OamSize)
         /\ Alone(p, r) /\ ~r.write /\ r.overflow = p.overflow
         => Over(r, o, f)
<1>1. ASSUME Looking(p, d, o, f, i), ~(p.oam_index < OamSize), Alone(p, r), ~r.write,
             r.overflow = p.overflow
      PROVE  Over(r, o, f)
  <2>1. i = NumSprites /\ p.true_count = 0 /\ p.soam_index < Slots
    <3>1. /\ i \in Nat /\ i <= NumSprites /\ p.true_count \in 0..3
          /\ p.oam_index < OamSize <=> i < NumSprites
          /\ p.true_count > 0 => i < NumSprites
          /\ p.soam_index < Slots
      BY <1>1, LookingPlace
    <3> QED BY <1>1, <3>1, Numbers
  <2>2. /\ Copied(p, NumSprites) /\ Empty(p, p.soam_index, 0)
        /\ p.soam_index = Count(p, NumSprites) /\ p.overflow = o
    BY <1>1, <2>1 DEF Looking
  <2>3. ZeroKnown(p, f, NumSprites, 0)
    BY <1>1, <2>1 DEF Looking
  <2>4. /\ Copied(r, NumSprites) /\ Empty(r, p.soam_index, 0) /\ ZeroKnown(r, f, NumSprites, 0)
    BY <1>1, <2>2, <2>3, KeptParts
  <2>5. Count(r, NumSprites) = Count(p, NumSprites) /\ r.soam_index = p.soam_index
    BY <1>1, SameScene DEF Alone
  <2> QED BY <1>1, <2>1, <2>2, <2>4, <2>5 DEF Over
<1> QED BY <1>1

(***************************************************************************)
(* A dot of the search takes what it has done to the next dot.             *)
(***************************************************************************)
\* It leaves the scene alone.
LEMMA TurnAlone ==
  ASSUME NEW p \in PpuType, p.dot > ClearDots
  PROVE  LET q == Turn(p)
         IN  /\ q \in PpuType /\ Aside(p, q) /\ Alone(p, q) /\ q.true_count = p.true_count
             /\ q.read_value = p.read_value /\ q.overflow = p.overflow
             /\ p.oam_index < OamSize => q.oam_index = p.oam_index /\ q.write = p.write
             /\ ~(p.oam_index < OamSize) => ~q.write
             /\ ~p.write => ~q.write
             /\ q.oam_index \in 0..OamSize - 1
<1> DEFINE q == Turn(p)
           from == IF p.dot = ClearDots THEN p.addr ELSE p.oam_index
<1>1. p.dot # ClearDots /\ p.oam_index \in Nat /\ OamSize \in Nat
  BY FieldTypes, Numbers
<1>2. /\ q \in PpuType /\ Aside(p, q) /\ q.soam = p.soam /\ q.true_count = p.true_count
      /\ q.zero_in_range = p.zero_in_range /\ q.read_value = p.read_value
      /\ q.overflow = p.overflow /\ q.soam_index = p.soam_index
      /\ p.oam_index < OamSize => q.oam_index = p.oam_index /\ q.write = p.write
      /\ p.oam_index >= OamSize => q.oam_index = 0 /\ q.write = FALSE
      /\ q.oam_index \in 0..OamSize - 1
  BY <1>1, TurnStep
<1> HIDE DEF q
<1>3. Alone(p, q)
  BY <1>2 DEF Aside, Alone, Scene
<1>4. ~(p.oam_index < OamSize) => ~q.write
  BY <1>1, <1>2
<1>5. ~p.write => ~q.write
  BY <1>1, <1>2
<1> QED BY <1>2, <1>3, <1>4, <1>5 DEF q

\* The first dot has looked at nothing.
LEMMA SearchBegins ==
  ASSUME NEW p \in PpuType, NEW o, NEW f \in 0..NumSprites - 1
  PROVE  /\ p.dot = ClearDots /\ p.addr = 4 * f /\ p.true_count = 0 /\ Cleared(p, o)
         /\ p.soam_index = 4 * Slots
         => Searched(Search(p), p.dot + 1, o, f)
<1> DEFINE q == Turn(p)
           r == Search(p)
           d == p.dot
<1>1. ASSUME d = ClearDots, p.addr = 4 * f, p.true_count = 0, Cleared(p, o),
             p.soam_index = 4 * Slots
      PROVE  Searched(r, d + 1, o, f)
  <2>1. f \in Nat /\ p.addr < OamSize /\ p.addr \in Nat /\ OamSize \in Nat
    BY <1>1, FieldTypes, Numbers
  <2>2. /\ q \in PpuType /\ Aside(p, q) /\ q.soam = p.soam /\ q.true_count = 0
        /\ q.zero_in_range = p.zero_in_range /\ q.overflow = p.overflow /\ q.soam_index = 0
        /\ q.oam_index = p.addr /\ q.write = p.write
    BY <1>1, <2>1, TurnStep
  <2>3. d \in Nat /\ d >= ClearDots /\ Pairs(d + 1) = 0 /\ d % 2 = 0 /\ (d + 1) % 2 # 0
    <3>1. d \in Nat /\ d >= ClearDots
      BY <1>1, Numbers
    <3> QED BY <1>1, <3>1, PairsStep
  <2>4. Becomes(q, r, q.soam, q.soam_index, q.oam_index, q.true_count, q.write,
                q.zero_in_range, q.oam[q.oam_index], q.overflow)
    BY <2>3, SearchStep
  <2> HIDE DEF q, r
  <2>5. /\ Aside(q, r) /\ r.soam = q.soam /\ r.soam_index = 0 /\ r.oam_index = p.addr
        /\ r.true_count = 0 /\ r.write = p.write /\ r.zero_in_range = p.zero_in_range
        /\ r.read_value = q.oam[q.oam_index] /\ r.overflow = p.overflow
    BY <2>2, <2>4 DEF Becomes
  <2>6. Scene(p, r) /\ r.addr = 4 * f /\ r.oam = p.oam /\ q.oam = p.oam
    BY <1>1, <2>2, <2>5 DEF Aside, Scene
  <2>7. Before(r, f) = {} /\ Count(r, f) = 0
    BY <2>1, <2>6, CountEnds
  <2>8. Copied(r, f)
    BY <2>7 DEF Copied
  <2>9. Empty(r, 0, 0)
    <3>1. \A b \in 0..4 * Slots - 1 : p.soam[b] = Blank
      <4>1. Slots \in Nat
        BY Numbers
      <4> QED BY <1>1, <4>1 DEF Cleared
    <3>2. \A s \in 0..Slots - 1 : 4 * s + 2 \in 0..4 * Slots - 1
      BY Numbers
    <3> QED BY <2>2, <2>5, <3>1, <3>2 DEF Empty
  <2>10. ZeroKnown(r, f, f, 0)
    BY <1>1, <2>1, <2>5 DEF Cleared, ZeroKnown
  <2>11. Pending(r, d + 1)
    BY <2>1, <2>2, <2>5, <2>6 DEF Pending
  <2>12. /\ r.write /\ r.overflow = o /\ r.soam_index < Slots /\ f \in f..NumSprites
         /\ r.oam_index = 4 * f + r.true_count /\ f \in 0..NumSprites
         /\ Pairs(d + 1) = (f - f) + 3 * r.soam_index + r.true_count
         /\ r.soam_index = Count(r, f) /\ r.true_count = 0
    BY <1>1, <2>1, <2>3, <2>5, <2>7, Numbers DEF Cleared
  <2>13. \A b \in 0..r.true_count - 1 : FALSE
    BY <2>5
  <2>14. Looking(r, d + 1, o, f, f)
    <3>1. Empty(r, r.soam_index, r.true_count) /\ ZeroKnown(r, f, f, r.true_count)
      BY <2>5, <2>9, <2>10
    <3>2. ~(r.true_count > 0)
      BY <2>12
    <3> HIDE DEF d
    <3> QED BY <2>8, <2>11, <2>12, <2>13, <3>1, <3>2 DEF Looking
  <2> QED BY <2>12, <2>14 DEF Searched
<1> QED BY <1>1

\* An even dot reads for the odd one.
LEMMA SearchReads ==
  ASSUME NEW p \in PpuType, NEW o, NEW f \in 0..NumSprites - 1
  PROVE  /\ p.dot > ClearDots /\ p.dot % 2 = 0 /\ p.addr = 4 * f /\ Searched(p, p.dot, o, f)
         => Searched(Search(p), p.dot + 1, o, f)
<1> DEFINE q == Turn(p)
           r == Search(p)
           d == p.dot
<1>1. ASSUME d > ClearDots, d % 2 = 0, p.addr = 4 * f, Searched(p, d, o, f)
      PROVE  Searched(r, d + 1, o, f)
  <2>1. d \in Nat /\ d >= ClearDots /\ Pairs(d + 1) = Pairs(d)
    <3>1. d \in Nat /\ d >= ClearDots
      <4>1. d \in Nat /\ ClearDots \in Nat /\ d > ClearDots
        BY <1>1, FieldTypes, Numbers
      <4> QED BY ONLY <4>1
    <3>2. d % 2 = 0
      BY <1>1
    <3> HIDE DEF d
    <3>3. d % 2 = 0 => Pairs(d + 1) = Pairs(d) /\ (d + 1) % 2 # 0
      BY <3>1, PairsStep
    <3> QED BY <3>1, <3>2, <3>3
  <2>2. /\ q \in PpuType /\ Aside(p, q) /\ Alone(p, q) /\ q.true_count = p.true_count
        /\ q.overflow = p.overflow
        /\ p.oam_index < OamSize => q.oam_index = p.oam_index /\ q.write = p.write
        /\ ~(p.oam_index < OamSize) => ~q.write
        /\ ~p.write => ~q.write
        /\ q.oam_index \in 0..OamSize - 1
    BY <1>1, TurnAlone
  <2>3. Becomes(q, r, q.soam, q.soam_index, q.oam_index, q.true_count, q.write,
                q.zero_in_range, q.oam[q.oam_index], q.overflow)
    BY <1>1, SearchStep
  <2> HIDE DEF q, r
  <2>4. /\ Aside(q, r) /\ r.soam = q.soam /\ r.soam_index = q.soam_index
        /\ r.oam_index = q.oam_index /\ r.true_count = q.true_count /\ r.write = q.write
        /\ r.zero_in_range = q.zero_in_range /\ r.read_value = q.oam[q.oam_index]
        /\ r.overflow = q.overflow
    BY <2>3 DEF Becomes
  <2>5. Alone(p, r) /\ r.oam = q.oam
    BY <2>2, <2>4 DEF Aside, Alone, Scene
  <2>6. Pending(r, d + 1)
    <3>1. OamSize \in Nat
      BY Numbers
    <3>2. r.oam_index < OamSize
      BY <2>2, <2>4, <3>1
    <3> QED BY <2>4, <2>5, <3>2 DEF Pending
  <2>7. ASSUME NEW i \in 0..NumSprites, Looking(p, d, o, f, i) PROVE Searched(r, d + 1, o, f)
    <3>1. CASE p.oam_index < OamSize
      <4>1. Looking(r, d + 1, o, f, i)
        BY <2>1, <2>2, <2>4, <2>5, <2>6, <2>7, <3>1, LookingKept
      <4> QED BY <4>1 DEF Searched
    <3>2. CASE ~(p.oam_index < OamSize)
      <4>1. Over(r, o, f)
        BY <1>1, <2>2, <2>4, <2>5, <2>7, <3>2, LookingEnds
      <4> QED BY <4>1 DEF Searched
    <3> QED BY <3>1, <3>2
  <2>8. ASSUME NEW i \in 0..NumSprites, Full(p, d, f, i) PROVE Searched(r, d + 1, o, f)
    <3>1. CASE p.overflow \/ i \notin InLine(p)
      <4>1. Full(r, d + 1, f, i)
        BY <2>2, <2>4, <2>5, <2>8, <3>1, FullKept
      <4> QED BY <4>1 DEF Searched
    <3>2. CASE ~(p.overflow \/ i \notin InLine(p))
      <4>1. p.oam_index = 4 * i /\ i \in InLine(p)
        BY <2>8, <3>2 DEF Full
      <4>2. p.oam_index < OamSize
        BY <4>1, Numbers DEF InLine
      <4>3. Full(r, d + 1, f, i)
        BY <2>1, <2>2, <2>4, <2>5, <2>6, <2>8, <4>2, FullKept
      <4> QED BY <4>3 DEF Searched
    <3> QED BY <3>1, <3>2
  <2>9. ASSUME Over(p, o, f) PROVE Searched(r, d + 1, o, f)
    <3>1. ~p.write /\ ~q.write /\ q.write \in BOOLEAN /\ p.write \in BOOLEAN
      BY <2>2, <2>9, FieldTypes DEF Over
    <3>2. r.write = p.write
      BY <2>4, <3>1
    <3>3. Over(r, o, f)
      BY <2>2, <2>4, <2>5, <2>9, <3>2, OverKept
    <3> QED BY <3>3 DEF Searched
  <2> QED BY <1>1, <2>7, <2>8, <2>9 DEF Searched
<1> QED BY <1>1

\* An odd dot decides.
LEMMA SearchDecides ==
  ASSUME NEW p \in PpuType, NEW o, NEW f \in 0..NumSprites - 1
  PROVE  /\ p.dot > ClearDots /\ p.dot % 2 # 0 /\ p.addr = 4 * f /\ PPUON(p)
         /\ Searched(p, p.dot, o, f)
         => Searched(Search(p), p.dot + 1, o, f)
<1> DEFINE q == Turn(p)
           r == Search(p)
           d == p.dot
<1>1. ASSUME d > ClearDots, d % 2 # 0, p.addr = 4 * f, PPUON(p), Searched(p, d, o, f)
      PROVE  Searched(r, d + 1, o, f)
  <2>1. d \in Nat /\ d >= ClearDots /\ (d + 1) % 2 = 0 /\ d % 2 = 1
    <3>1. d \in Nat /\ d >= ClearDots
      BY <1>1, FieldTypes, Numbers
    <3>2. d % 2 = 1
      BY <1>1, <3>1
    <3> QED BY <1>1, <3>1, <3>2, PairsStep
  <2>2. /\ q \in PpuType /\ Aside(p, q) /\ Alone(p, q) /\ q.true_count = p.true_count
        /\ q.read_value = p.read_value /\ q.overflow = p.overflow
        /\ p.oam_index < OamSize => q.oam_index = p.oam_index /\ q.write = p.write
        /\ ~p.write => ~q.write
    BY <1>1, TurnAlone
  <2>3. /\ ~q.write => Becomes(q, r, q.soam, q.soam_index, q.oam_index + 4, q.true_count,
                               q.write, q.zero_in_range, q.read_value, q.overflow)
        /\ q.write /\ q.soam_index < Slots => r = Copy(q)
        /\ q.write /\ ~(q.soam_index < Slots) => r = SearchOverflow(q)
    BY <1>1, SearchStep
  <2> HIDE DEF q, r
  <2>4. /\ q.soam = p.soam /\ q.soam_index = p.soam_index /\ q.zero_in_range = p.zero_in_range
        /\ q.addr = p.addr /\ q.oam = p.oam /\ Scene(p, q) /\ PPUON(q)
    BY <1>1, <2>2 DEF Alone, Scene, Aside, PPUON
  <2>5. \A b : InRange(q, b) <=> InRange(p, b)
    BY <2>4, SameScene
  <2>6. Filled(q) = Filled(p)
    BY <2>2, <2>4 DEF Filled
  <2>7. Aside(q, r) => Scene(p, r)
    BY <2>4 DEF Aside, Scene
  <2>8. Pending(r, d + 1)
    BY <2>1 DEF Pending
  <2>9. ASSUME ~q.write
        PROVE  Alone(p, r) /\ r.write = q.write /\ r.overflow = p.overflow
    <3>1. /\ Aside(q, r) /\ r.soam = q.soam /\ r.soam_index = q.soam_index
          /\ r.write = q.write /\ r.zero_in_range = q.zero_in_range
          /\ r.overflow = q.overflow
      BY <2>3, <2>9 DEF Becomes
    <3> QED BY <2>2, <2>4, <2>7, <3>1 DEF Alone
  <2>10. ASSUME NEW i \in 0..NumSprites, Looking(p, d, o, f, i) PROVE Searched(r, d + 1, o, f)
    <3>1. p.oam_index < OamSize /\ p.read_value = p.oam[p.oam_index] /\ p.write
      BY <2>1, <2>10 DEF Looking, Pending
    <3>2. /\ i \in Nat /\ i <= NumSprites /\ p.true_count \in 0..3 /\ i < NumSprites
          /\ p.soam_index < Slots /\ p.oam_index = 4 * i + p.true_count
      BY <1>1, <2>10, <3>1, LookingPlace
    <3>3. /\ q.write = p.write /\ q.write /\ q.oam_index = p.oam_index
          /\ q.soam_index < Slots /\ r = Copy(q)
      BY <2>2, <2>3, <2>4, <3>1, <3>2
    <3>4. 4 * i + 4 < 2 * OamSize /\ (4 * i + 4) % 4 = 0 /\ 4 * i + 4 \in Nat
      BY <3>2, Numbers
    <3>5. Aligned(4 * i + 4) = 4 * i + 4
      <4>1. Aligned(4 * i + 4) = (4 * i + 4) - ((4 * i + 4) % 4)
        BY <3>4, AlignedType
      <4> QED BY <3>2, <3>4, <4>1
    <3>6. CASE p.true_count = 0 /\ InRange(p, p.read_value)
      <4>1. Becomes(q, r, Filled(q), q.soam_index, q.oam_index + 1, 1, q.write,
                    q.zero_in_range \/ q.oam_index = q.addr, q.read_value, q.overflow)
        BY <2>2, <2>5, <3>3, <3>6, CopyFirst
      <4>2. /\ Scene(p, r) /\ r.soam = Filled(p) /\ r.soam_index = p.soam_index
            /\ r.oam_index = p.oam_index + 1 /\ r.true_count = 1 /\ r.write = p.write
            /\ (r.zero_in_range <=> p.zero_in_range \/ p.oam_index = p.addr)
            /\ r.overflow = p.overflow
        BY <2>2, <2>4, <2>6, <2>7, <3>3, <4>1 DEF Becomes
      <4>3. p.read_value = p.oam[4 * i]
        BY <3>1, <3>2, <3>6
      <4>4. Looking(r, d + 1, o, f, i)
        BY <1>1, <2>1, <2>10, <3>2, <3>6, <4>2, <4>3, LookingFirst
      <4> QED BY <4>4 DEF Searched
    <3>7. CASE p.true_count = 0 /\ ~InRange(p, p.read_value)
      <4>1. Becomes(q, r, Filled(q), q.soam_index, Aligned(q.oam_index + 4), q.true_count,
                    q.write, q.zero_in_range, q.read_value, q.overflow)
        BY <2>2, <2>5, <3>3, <3>7, CopyOver
      <4>2. q.oam_index + 4 = 4 * i + 4
        BY <3>2, <3>3, <3>7
      <4>3. /\ Scene(p, r) /\ r.soam = Filled(p) /\ r.soam_index = p.soam_index
            /\ r.oam_index = 4 * i + 4 /\ r.true_count = 0 /\ r.write = p.write
            /\ r.zero_in_range = p.zero_in_range /\ r.overflow = p.overflow
        BY <2>2, <2>4, <2>6, <2>7, <3>3, <3>5, <3>7, <4>1, <4>2 DEF Becomes
      <4>4. p.read_value = p.oam[4 * i]
        BY <3>1, <3>2, <3>7
      <4>5. Looking(r, d + 1, o, f, i + 1)
        BY <1>1, <2>1, <2>10, <3>2, <3>7, <4>3, <4>4, LookingOver
      <4>6. i + 1 \in 0..NumSprites
        BY <3>2, Numbers
      <4> QED BY <4>5, <4>6 DEF Searched
    <3>8. CASE p.true_count \in 1..2
      <4>1. Becomes(q, r, Filled(q),
                    IF q.true_count = 3 THEN q.soam_index + 1 ELSE q.soam_index, Onward(q),
                    (q.true_count + 1) % 4, q.write, q.zero_in_range, q.read_value, q.overflow)
        <5>1. q.true_count > 0
          BY <2>2, <3>8
        <5> QED BY <2>2, <3>3, <5>1, CopyNext
      <4>2. q.true_count # 3 /\ (q.true_count + 1) % 4 = p.true_count + 1
        BY <2>2, <3>8
      <4>3. Onward(q) = p.oam_index + 1
        BY <3>3, <4>2 DEF Onward
      <4>4. /\ Scene(p, r) /\ r.soam = Filled(p) /\ r.soam_index = p.soam_index
            /\ r.oam_index = p.oam_index + 1 /\ r.true_count = p.true_count + 1
            /\ r.write = p.write /\ r.zero_in_range = p.zero_in_range /\ r.overflow = p.overflow
        BY <2>2, <2>4, <2>6, <2>7, <3>3, <4>1, <4>2, <4>3 DEF Becomes
      <4>5. Looking(r, d + 1, o, f, i)
        BY <1>1, <2>1, <2>10, <3>1, <3>8, <4>4, LookingNext
      <4> QED BY <4>5 DEF Searched
    <3>9. CASE p.true_count = 3
      <4>1. Becomes(q, r, Filled(q),
                    IF q.true_count = 3 THEN q.soam_index + 1 ELSE q.soam_index, Onward(q),
                    (q.true_count + 1) % 4, q.write, q.zero_in_range, q.read_value, q.overflow)
        <5>1. q.true_count > 0
          BY <2>2, <3>9
        <5> QED BY <2>2, <3>3, <5>1, CopyNext
      <4>2. q.true_count = 3 /\ (q.true_count + 1) % 4 = 0
        BY <2>2, <3>9
      <4>3. q.oam_index + 1 = 4 * i + 4
        BY <3>2, <3>3, <3>9
      <4>4. Onward(q) = 4 * i + 4
        BY <3>5, <4>3 DEF Onward
      <4>5. /\ Scene(p, r) /\ r.soam = Filled(p) /\ r.soam_index = p.soam_index + 1
            /\ r.oam_index = 4 * i + 4 /\ r.true_count = 0
            /\ r.write = p.write /\ r.zero_in_range = p.zero_in_range /\ r.overflow = p.overflow
        BY <2>2, <2>4, <2>6, <2>7, <3>3, <4>1, <4>2, <4>4 DEF Becomes
      <4>6. Looking(r, d + 1, o, f, i + 1) \/ Full(r, d + 1, f, i + 1)
        BY <1>1, <2>1, <2>10, <3>1, <3>9, <4>5, LookingTaken
      <4>7. i + 1 \in 0..NumSprites
        BY <3>2, Numbers
      <4> QED BY <4>6, <4>7 DEF Searched
    <3> QED BY <3>2, <3>6, <3>7, <3>8, <3>9
  <2>11. ASSUME NEW i \in 0..NumSprites, Full(p, d, f, i) PROVE Searched(r, d + 1, o, f)
    <3>1. p.soam_index = Slots
      BY <2>11 DEF Full
    <3>2. CASE ~q.write
      <4>1. p.overflow \/ i \notin InLine(p)
        <5>1. ASSUME ~(p.overflow \/ i \notin InLine(p)) PROVE FALSE
          <6>1. p.write /\ Pending(p, d)
            BY <2>11, <5>1 DEF Full
          <6>2. p.oam_index < OamSize
            BY <2>1, <6>1 DEF Pending
          <6> QED BY <2>2, <3>2, <6>1, <6>2
        <5> QED BY <5>1
      <4>2. Full(r, d + 1, f, i)
        BY <2>9, <2>11, <3>2, <4>1, FullKept
      <4> QED BY <4>2 DEF Searched
    <3>3. CASE q.write
      <4>1. r = SearchOverflow(q)
        BY <2>3, <2>4, <3>1, <3>3, Numbers
      <4>2. /\ Aside(q, r) /\ r.soam = q.soam /\ r.soam_index = q.soam_index
            /\ r.zero_in_range = q.zero_in_range /\ r.overflow = Flag(q)
        <5>1. CASE q.true_count > 0 \/ InRange(q, q.read_value)
          BY <2>2, <4>1, <5>1, OverflowNext DEF Becomes
        <5>2. CASE ~(q.true_count > 0 \/ InRange(q, q.read_value))
          BY <2>2, <4>1, <5>2, OverflowOver DEF Becomes
        <5> QED BY <5>1, <5>2
      <4>3. Alone(p, r)
        BY <2>4, <2>7, <4>2 DEF Alone
      <4>4. p.overflow => r.overflow
        BY <2>2, <4>2 DEF Flag
      <4>5. p.overflow \/ i \notin InLine(p) \/ r.overflow
        <5>1. ASSUME ~(p.overflow \/ i \notin InLine(p)) PROVE r.overflow
          <6>1. Pending(p, d) /\ p.oam_index = 4 * i /\ i \in InLine(p)
            BY <2>11, <5>1 DEF Full
          <6>2. p.read_value = p.oam[4 * i]
            BY <2>1, <6>1 DEF Pending
          <6>3. InRange(p, p.read_value)
            BY <6>1, <6>2 DEF InLine
          <6> QED BY <2>2, <2>4, <2>5, <4>2, <6>3 DEF Flag
        <5> QED BY <5>1
      <4>6. Full(r, d + 1, f, i)
        BY <2>11, <4>3, <4>4, <4>5, FullKept
      <4> QED BY <4>6 DEF Searched
    <3> QED BY <3>2, <3>3
  <2>12. ASSUME Over(p, o, f) PROVE Searched(r, d + 1, o, f)
    <3>1. ~p.write /\ ~q.write /\ q.write \in BOOLEAN /\ p.write \in BOOLEAN
      BY <2>2, <2>12, FieldTypes DEF Over
    <3>2. Over(r, o, f)
      BY <2>9, <2>12, <3>1, OverKept
    <3> QED BY <3>2 DEF Searched
  <2> QED BY <1>1, <2>10, <2>11, <2>12 DEF Searched
<1> QED BY <1>1

\* A dot of the search, whichever.
LEMMA SearchCalm ==
  ASSUME NEW p \in PpuType, NEW o, NEW f \in 0..NumSprites - 1
  PROVE  /\ p.dot > ClearDots /\ p.addr = 4 * f /\ PPUON(p) /\ Searched(p, p.dot, o, f)
         => Searched(Search(p), p.dot + 1, o, f)
BY SearchReads, SearchDecides

(***************************************************************************)
(* The end of the search.                                                  *)
(***************************************************************************)
LEMMA CountMonotone ==
  ASSUME NEW p, NEW i \in Nat, NEW j \in Nat, i <= j
  PROVE  Count(p, i) <= Count(p, j)
<1>1. \A k \in InLine(p) : k < i => k < j
  BY Numbers DEF InLine
<1>2. Before(p, i) \subseteq Before(p, j)
  BY <1>1 DEF Before
<1> QED BY <1>2, CountStep, FS_Subset DEF Count

\* The last dot leaves time for every sprite: a search is over, or has filled the slots.
LEMMA SearchDone ==
  ASSUME NEW p \in PpuType, NEW o, NEW f \in 0..NumSprites - 1, p.addr = 4 * f
  PROVE  Searched(p, Visible, o, f) =>
           /\ \A j \in InLine(p) : Count(p, j) < Slots =>
                \A b \in 0..3 : p.soam[4 * Count(p, j) + b] = p.oam[4 * j + b]
           /\ \A s \in 0..Slots - 1 : s >= Cardinality(InLine(p)) => p.soam[4 * s + 2] = Blank
           /\ p.zero_in_range <=> InRange(p, p.oam[p.addr])
           /\ p.overflow /\ ~o => Cardinality(InLine(p)) >= Slots
           /\ \A j \in InLine(p) : Count(p, j) = Slots - 1 /\ j + 1 \in InLine(p) => p.overflow
<1> DEFINE n == Cardinality(InLine(p))
           slots == /\ \A j \in InLine(p) : Count(p, j) < Slots =>
                         \A b \in 0..3 : p.soam[4 * Count(p, j) + b] = p.oam[4 * j + b]
                    /\ \A s \in 0..Slots - 1 : s >= n => p.soam[4 * s + 2] = Blank
           zero == p.zero_in_range <=> InRange(p, p.oam[p.addr])
           flag == /\ p.overflow /\ ~o => n >= Slots
                   /\ \A j \in InLine(p) :
                        Count(p, j) = Slots - 1 /\ j + 1 \in InLine(p) => p.overflow
<1>1. f \in Nat /\ f < NumSprites /\ NumSprites \in Nat /\ Slots \in Nat /\ Slots > 0
  BY Numbers
<1>2. Pairs(Visible) \in Nat /\ Pairs(Visible) >= NumSprites + 3 * Slots
  <2>1. Visible - ClearDots = EvalDots /\ EvalDots \in Nat /\ EvalDots >= 2 * NumSprites + 6 * Slots
    BY Numbers
  <2>2. EvalDots \div 2 \in Nat /\ EvalDots \div 2 >= NumSprites + 3 * Slots
    BY <1>1, <2>1
  <2> QED BY <2>1, <2>2 DEF Pairs
<1>3. n = Count(p, NumSprites) /\ n \in Nat /\ NumSprites \notin InLine(p)
  <2>1. Count(p, NumSprites) \in Nat
    BY <1>1, CountStep
  <2> QED BY <1>1, <2>1, CountEnds
<1>4. \A j \in InLine(p) : j \in Nat /\ j < NumSprites /\ Count(p, j) \in Nat
  <2>1. \A j \in InLine(p) : j \in Nat /\ j < NumSprites
    BY Numbers DEF InLine
  <2> QED BY <2>1, CountStep
<1>5. f \in InLine(p) <=> InRange(p, p.oam[p.addr])
  BY <1>1 DEF InLine
<1>6. ASSUME NEW i \in 0..NumSprites, Looking(p, Visible, o, f, i) PROVE FALSE
  <2>1. /\ i \in Nat /\ i >= f /\ i <= NumSprites /\ p.true_count \in 0..3
        /\ p.soam_index \in Nat /\ p.soam_index < Slots
        /\ p.true_count > 0 => i < NumSprites
    BY <1>6, LookingPlace
  <2>2. Pairs(Visible) = (i - f) + 3 * p.soam_index + p.true_count
    BY <1>6 DEF Looking
  <2> QED BY <1>1, <1>2, <2>1, <2>2
<1>7. ASSUME NEW i \in 0..NumSprites, Full(p, Visible, f, i) PROVE slots /\ zero /\ flag
  <2>1. /\ i \in Nat /\ i >= f + 1 /\ i <= NumSprites /\ i - 1 \in Nat
        /\ i - 1 \in InLine(p) /\ Count(p, i) = Slots
    BY <1>1, <1>7 DEF Full
  <2>2. p.overflow \/ i \notin InLine(p)
    <3>1. ASSUME Pairs(Visible) = (i - f) + 3 * Slots, i \in InLine(p) PROVE FALSE
      BY <1>1, <1>2, <1>4, <2>1, <3>1
    <3> QED BY <1>7, <3>1 DEF Full
  <2>3. n >= Slots
    BY <1>1, <1>3, <2>1, CountMonotone
  <2>4. ASSUME NEW j \in InLine(p), Count(p, j) < Slots, NEW b \in 0..3
        PROVE  p.soam[4 * Count(p, j) + b] = p.oam[4 * j + b]
    <3>1. j < i
      <4>1. ASSUME i <= j PROVE FALSE
        <5>1. Slots <= Count(p, j)
          BY <1>4, <2>1, <4>1, CountMonotone
        <5> QED BY <1>1, <1>4, <2>4, <5>1
      <4> QED BY <1>4, <2>1, <4>1
    <3>2. j \in Before(p, i)
      BY <3>1 DEF Before
    <3> QED BY <1>7, <3>2 DEF Full, Copied
  <2>5. slots
    <3>1. \A s \in 0..Slots - 1 : ~(s >= n)
      BY <1>1, <1>3, <2>3
    <3> QED BY <2>4, <3>1
  <2>6. zero
    <3>1. p.zero_in_range <=> f \in InLine(p) /\ f < i
      BY <1>7 DEF Full, ZeroKnown
    <3>2. f < i
      BY <1>1, <2>1
    <3> QED BY <1>5, <3>1, <3>2
  <2>7. ASSUME NEW j \in InLine(p), Count(p, j) = Slots - 1, j + 1 \in InLine(p)
        PROVE  p.overflow
    <3>1. Count(p, i - 1) = Slots - 1
      <4>1. Count(p, (i - 1) + 1) = Count(p, i - 1) + 1 /\ Count(p, i - 1) \in Nat
        BY <2>1, CountStep
      <4>2. (i - 1) + 1 = i
        BY <2>1
      <4> QED BY <1>1, <2>1, <4>1, <4>2
    <3>2. CASE j < i - 1
      <4>1. j \in Before(p, i - 1)
        BY <3>2 DEF Before
      <4>2. Count(p, j) < Count(p, i - 1) /\ Count(p, j) \in Nat
        BY <2>1, <4>1, CountLess
      <4> QED BY <2>7, <3>1, <4>2
    <3>3. CASE j > i - 1
      <4>1. i - 1 \in Before(p, j)
        BY <1>4, <2>1, <3>3 DEF Before
      <4>2. Count(p, i - 1) < Count(p, j) /\ Count(p, j) \in Nat
        BY <1>4, <4>1, CountLess
      <4> QED BY <2>7, <3>1, <4>2
    <3>4. CASE j = i - 1
      <4>1. j + 1 = i
        BY <2>1, <3>4
      <4> QED BY <2>2, <2>7, <4>1
    <3> QED BY <1>4, <2>1, <3>2, <3>3, <3>4
  <2> QED BY <2>3, <2>5, <2>6, <2>7
<1>8. ASSUME Over(p, o, f) PROVE slots /\ zero /\ flag
  <2>1. n < Slots /\ p.soam_index = n /\ p.overflow = o
    BY <1>3, <1>8 DEF Over
  <2>2. ASSUME NEW j \in InLine(p), NEW b \in 0..3
        PROVE  p.soam[4 * Count(p, j) + b] = p.oam[4 * j + b]
    <3>1. j \in Before(p, NumSprites)
      BY <1>4 DEF Before
    <3> QED BY <1>8, <3>1 DEF Over, Copied
  <2>3. ASSUME NEW s \in 0..Slots - 1, s >= n PROVE p.soam[4 * s + 2] = Blank
    <3>1. s > n \/ s = n
      BY <1>1, <1>3, <2>3
    <3> QED BY <1>8, <2>1, <3>1 DEF Over, Empty
  <2>4. zero
    <3>1. p.zero_in_range <=> f \in InLine(p) /\ f < NumSprites
      BY <1>8 DEF Over, ZeroKnown
    <3> QED BY <1>1, <1>5, <3>1
  <2>5. ASSUME NEW j \in InLine(p), Count(p, j) = Slots - 1, j + 1 \in InLine(p)
        PROVE  p.overflow
    <3>1. Count(p, j + 1) = Slots /\ j + 1 <= NumSprites /\ j + 1 \in Nat
      <4>1. Count(p, j + 1) = Count(p, j) + 1
        BY <1>4, CountStep
      <4> QED BY <1>1, <1>4, <2>5, <4>1
    <3>2. Slots <= n
      BY <1>1, <1>3, <3>1, CountMonotone
    <3> QED BY <1>1, <1>3, <2>1, <3>2
  <2>6. ~(p.overflow /\ ~o)
    BY <2>1
  <2> QED BY <2>2, <2>3, <2>4, <2>5, <2>6
<1>9. Searched(p, Visible, o, f) => slots /\ zero /\ flag
  BY <1>6, <1>7, <1>8 DEF Searched
<1> QED BY <1>9

-----------------------------------------------------------------------------
(***************************************************************************)
(* The rest of a visible dot.                                              *)
(***************************************************************************)
\* What a visible dot leaves of its evaluation, whatever the program does in it.
DotEnded(e, v, access) ==
  /\ v \in PpuType /\ v.sl = e.sl /\ v.dot = e.dot + 1
  /\ v.soam = e.soam /\ v.soam_index = e.soam_index /\ v.true_count = e.true_count
  /\ v.write = e.write /\ v.zero_in_range = e.zero_in_range /\ v.read_value = e.read_value
  /\ v.overflow = e.overflow
  /\ v.oam_index \in {e.oam_index, Aligned(e.oam_index + 4)}
  /\ AttributesWired(e.oam) => AttributesWired(v.oam)
  /\ v.line = [e.line EXCEPT ![e.dot] = None]
  /\ access = NoAccess =>
       /\ v.oam = e.oam /\ v.tall = e.tall /\ v.oam_index = e.oam_index
       /\ PPUON(v) => v.addr = e.addr
       /\ e.height = Height(e) => v.height = Height(v)

\* It leaves that.
LEMMA DotEnds ==
  ASSUME NEW e \in PpuType, NEW access \in Accesses \cup {NoAccess}
  PROVE  e.dot < Visible =>
           DotEnded(e, EndDot(EndTile(ShowPixel(runppu(SpriteZeroHit(e), access), e.dot))), access)
<1> DEFINE z == SpriteZeroHit(e)
           r == runppu(z, access)
           w == ShowPixel(r, e.dot)
           t == EndTile(w)
           v == EndDot(t)
<1>1. ASSUME e.dot < Visible PROVE DotEnded(e, v, access)
  <2>1. e.dot \in 0..Visible - 1 /\ e.dot < LineEnd /\ e.dot \in Nat
    <3>1. e.dot \in Nat
      BY FieldTypes
    <3> QED BY <1>1, <3>1, Numbers
  <2>2. z \in PpuType /\ Aside(e, z) /\ Beside([e EXCEPT !.hit = z.hit], z) /\ z.oam_index = e.oam_index
    <3> DEFINE h == e.hit \/ (e.objects /\ e.line[e.dot] = 0 /\ e.zero_go
                               /\ e.dot < Visible - 1 /\ e.show = Shown)
    <3>1. z = [e EXCEPT !.hit = h]
      BY DEF SpriteZeroHit
    <3>2. h \in BOOLEAN
      BY DEF PpuType
    <3> HIDE DEF h, z
    <3>3. z \in PpuType
      BY <3>1, <3>2 DEF PpuType
    <3>4. Aside(e, z) /\ z.oam_index = e.oam_index /\ z.hit = h
      BY <3>1 DEF PpuType, Aside
    <3>5. Beside([e EXCEPT !.hit = z.hit], z)
      BY <3>1, <3>4 DEF PpuType, Beside
    <3> QED BY <3>3, <3>4, <3>5
  <2> HIDE DEF z
  <2>3. /\ z.soam = e.soam /\ z.soam_index = e.soam_index /\ z.true_count = e.true_count
        /\ z.write = e.write /\ z.zero_in_range = e.zero_in_range
        /\ z.read_value = e.read_value /\ z.overflow = e.overflow
    BY <2>2 DEF Beside, PpuType
  <2>4. /\ z.sl = e.sl /\ z.dot = e.dot /\ z.addr = e.addr /\ z.tall = e.tall
        /\ z.oam = e.oam /\ z.height = e.height /\ z.line = e.line
    BY <2>2 DEF Aside
  <2>5. /\ r \in PpuType /\ Beside(z, r) /\ r.dot = z.dot + 1
        /\ r.oam_index \in {z.oam_index, Aligned(z.oam_index + 4)}
        /\ AttributesWired(z.oam) => AttributesWired(r.oam)
        /\ access = NoAccess =>
             /\ r.oam = z.oam /\ r.tall = z.tall /\ r.oam_index = z.oam_index
             /\ z.dot < Visible => r.addr = z.addr
    BY <2>1, <2>2, <2>4, RunType
  <2> HIDE DEF r
  <2>6. /\ w \in PpuType /\ w = [r EXCEPT !.line = [e.line EXCEPT ![e.dot] = None]]
    <3> DEFINE l == [e.line EXCEPT ![e.dot] = None]
    <3>1. r.line = e.line /\ e.line \in [0..Visible - 1 -> 0..Slots]
      BY <2>4, <2>5 DEF Beside, PpuType
    <3>2. l \in [0..Visible - 1 -> 0..Slots]
      BY <2>1, <3>1, Numbers
    <3>3. w = [r EXCEPT !.line = l]
      BY <3>1 DEF ShowPixel
    <3> HIDE DEF l, w
    <3>4. w \in PpuType
      BY <2>5, <3>2, <3>3 DEF PpuType
    <3> QED BY <3>3, <3>4 DEF l
  <2>7. /\ w.line = [e.line EXCEPT ![e.dot] = None] /\ Beside([r EXCEPT !.line = w.line], w)
        /\ w.dot = r.dot /\ w.oam_index = r.oam_index /\ w.oam = r.oam /\ w.tall = r.tall
        /\ w.addr = r.addr /\ w.show = r.show
    BY <2>5, <2>6 DEF PpuType, Beside
  <2> HIDE DEF w
  <2>8. t \in PpuType /\ \E h \in 1..Tall, b \in BOOLEAN : t = [w EXCEPT !.height = h, !.objects = b]
                                               /\ (h = w.height \/ h = Height(w))
    <3>1. CASE w.dot % Width = 0
      <4> DEFINE h == Height(w)
                 b == "obj" \in w.show
      <4>1. t = [w EXCEPT !.height = h, !.objects = b]
        BY <3>1 DEF EndTile
      <4>2. h \in 1..Tall /\ b \in BOOLEAN
        BY <2>6, HeightType
      <4> HIDE DEF h, b, t
      <4>3. w \in PpuType
        BY <2>6
      <4>4. t \in PpuType
        BY <4>1, <4>2, <4>3 DEF PpuType
      <4> QED BY <4>1, <4>2, <4>4 DEF h
    <3>2. CASE w.dot % Width # 0
      <4> DEFINE h == w.height
                 b == w.objects
      <4>1. t = w
        BY <3>2 DEF EndTile
      <4>2. t = [w EXCEPT !.height = h, !.objects = b] /\ h \in 1..Tall /\ b \in BOOLEAN
        BY <2>6, <4>1 DEF PpuType
      <4> HIDE DEF t
      <4> QED BY <2>6, <4>1, <4>2
    <3> QED BY <3>1, <3>2
  <2> HIDE DEF t
  <2>9. /\ Beside([w EXCEPT !.height = t.height, !.objects = t.objects], t)
        /\ t.height = w.height \/ t.height = Height(w)
        /\ t.dot = w.dot /\ t.oam_index = w.oam_index /\ t.oam = w.oam /\ t.tall = w.tall
        /\ t.addr = w.addr /\ t.show = w.show
    <3>1. PICK h \in 1..Tall, b \in BOOLEAN : t = [w EXCEPT !.height = h, !.objects = b]
                                              /\ (h = w.height \/ h = Height(w))
      BY <2>8
    <3> QED BY <2>6, <3>1 DEF PpuType, Beside
  <2>10. /\ v \in PpuType /\ Beside([t EXCEPT !.was_on = v.was_on], v)
         /\ v.dot = t.dot /\ v.oam_index = t.oam_index /\ v.oam = t.oam /\ v.tall = t.tall
         /\ v.show = t.show /\ (PPUON(v) => v.addr = t.addr)
    <3> DEFINE a == IF t.dot >= ClearDots /\ t.was_on /\ ~PPUON(t) THEN (t.addr + 1) % OamSize
                                                                   ELSE t.addr
               b == PPUON(t)
    <3>1. v = [t EXCEPT !.addr = a, !.was_on = b]
      BY DEF EndDot
    <3>2. a \in 0..OamSize - 1
      <4>1. t.addr \in 0..OamSize - 1 /\ t.addr + 1 \in Nat
        <5>1. t \in PpuType
          BY <2>8
        <5>2. t.addr \in 0..OamSize - 1
          BY <5>1, FieldTypes
        <5> QED BY <5>2, Numbers
      <4>2. (t.addr + 1) % OamSize \in 0..OamSize - 1
        BY <4>1, ModRange, Numbers
      <4> QED BY <4>1, <4>2
    <3>3. b \in BOOLEAN /\ (PPUON(t) => a = t.addr)
      BY DEF PPUON
    <3> HIDE DEF a, b, v
    <3>4. v \in PpuType
      BY <2>8, <3>1, <3>2, <3>3 DEF PpuType
    <3>5. /\ v.dot = t.dot /\ v.oam_index = t.oam_index /\ v.oam = t.oam /\ v.tall = t.tall
          /\ v.show = t.show /\ v.addr = a /\ v.was_on = b
      BY <2>8, <3>1 DEF PpuType
    <3>6. Beside([t EXCEPT !.was_on = v.was_on], v)
      BY <2>8, <3>1, <3>5 DEF PpuType, Beside
    <3> QED BY <3>3, <3>4, <3>5, <3>6 DEF PPUON
  <2> HIDE DEF v
  <2>11. /\ v.soam = e.soam /\ v.soam_index = e.soam_index /\ v.true_count = e.true_count
         /\ v.write = e.write /\ v.zero_in_range = e.zero_in_range
         /\ v.read_value = e.read_value /\ v.overflow = e.overflow /\ v.sl = e.sl
         /\ v.line = w.line /\ v.height = t.height /\ w.height = e.height
    <3>1. /\ r.soam = e.soam /\ r.soam_index = e.soam_index /\ r.true_count = e.true_count
          /\ r.write = e.write /\ r.zero_in_range = e.zero_in_range
          /\ r.read_value = e.read_value /\ r.overflow = e.overflow /\ r.sl = e.sl
          /\ r.height = e.height
      BY <2>3, <2>4, <2>5 DEF Beside
    <3>2. /\ w.soam = r.soam /\ w.soam_index = r.soam_index /\ w.true_count = r.true_count
          /\ w.write = r.write /\ w.zero_in_range = r.zero_in_range
          /\ w.read_value = r.read_value /\ w.overflow = r.overflow /\ w.sl = r.sl
          /\ w.height = r.height
      BY <2>5, <2>7 DEF Beside, PpuType
    <3>3. /\ t.soam = w.soam /\ t.soam_index = w.soam_index /\ t.true_count = w.true_count
          /\ t.write = w.write /\ t.zero_in_range = w.zero_in_range
          /\ t.read_value = w.read_value /\ t.overflow = w.overflow /\ t.sl = w.sl
          /\ t.line = w.line
      BY <2>6, <2>9 DEF Beside, PpuType
    <3>4. /\ v.soam = t.soam /\ v.soam_index = t.soam_index /\ v.true_count = t.true_count
          /\ v.write = t.write /\ v.zero_in_range = t.zero_in_range
          /\ v.read_value = t.read_value /\ v.overflow = t.overflow /\ v.sl = t.sl
          /\ v.line = t.line /\ v.height = t.height
      BY <2>8, <2>10 DEF Beside, PpuType
    <3> QED BY <3>1, <3>2, <3>3, <3>4
  <2>12. ASSUME access = NoAccess
         PROVE  /\ v.oam = e.oam /\ v.tall = e.tall /\ v.oam_index = e.oam_index
                /\ PPUON(v) => v.addr = e.addr
                /\ e.height = Height(e) => v.height = Height(v)
    <3>1. /\ v.oam = e.oam /\ v.tall = e.tall /\ v.oam_index = e.oam_index
          /\ PPUON(v) => v.addr = e.addr /\ w.tall = e.tall
      BY <1>1, <2>2, <2>4, <2>5, <2>7, <2>9, <2>10, <2>12
    <3>2. Height(v) = Height(e) /\ Height(w) = Height(e)
      BY <2>4, <2>5, <2>7, <2>12, <3>1 DEF Height
    <3> QED BY <2>9, <2>11, <3>1, <3>2
  <2>13. /\ v.dot = e.dot + 1 /\ v.oam_index \in {e.oam_index, Aligned(e.oam_index + 4)}
         /\ AttributesWired(e.oam) => AttributesWired(v.oam)
    BY <2>2, <2>4, <2>5, <2>7, <2>9, <2>10
  <2> QED BY <2>7, <2>10, <2>11, <2>12, <2>13 DEF DotEnded
<1> QED BY <1>1

-----------------------------------------------------------------------------
(***************************************************************************)
(* One dot, by its place on the line.  Sound is what holds whatever the    *)
(* program does, Quiet what holds of a line that was left alone.           *)
(***************************************************************************)
Sound(p) == p \in PpuType /\ Placed(p) /\ Drawn(p)

Quiet(p, o) == Calm(p, o) /\ DrawnCalm(p)

\* The line before the picture evaluates nothing.
LEMMA BeforePicture ==
  ASSUME NEW p, NEW access \in Accesses \cup {NoAccess}
  PROVE  LET v == TickPPU_active(p, access)
         IN  Sound(p) /\ p.sl = 0 /\ p.dot < Visible =>
               /\ Sound(v)
               /\ \A o : PPUON(v) => Quiet(v, o)
<1> DEFINE v == TickPPU_active(p, access)
           q == IF p.dot = 0 THEN StartLine(p) ELSE p
<1>1. ASSUME Sound(p), p.sl = 0, p.dot < Visible
      PROVE  Sound(v) /\ \A o : PPUON(v) => Quiet(v, o)
  <2>1. p \in PpuType /\ Placed(p) /\ p.dot \in Nat
    BY <1>1, FieldTypes DEF Sound
  <2>2. /\ q \in PpuType /\ q.sl = 0 /\ q.dot = p.dot
        /\ AttributesWired(q.oam) /\ q.oam_index \in Nat /\ q.soam_index \in Nat
        /\ p.dot = 0 => q.true_count = 0 /\ q.soam_index = 0
        /\ p.dot # 0 => q.true_count = p.true_count /\ q.soam_index = p.soam_index
        /\ p.dot = 0 => q.oam_index = 0
        /\ p.dot # 0 => q.oam_index = p.oam_index
    <3>1. CASE p.dot = 0
      <4>1. /\ q \in PpuType /\ q.sl = p.sl /\ q.dot = p.dot /\ q.true_count = 0
            /\ q.soam_index = 0 /\ q.oam_index = 0
            /\ AttributesWired(p.oam) => AttributesWired(q.oam)
        BY <2>1, <3>1, StartType
      <4> QED BY <1>1, <2>1, <3>1, <4>1 DEF Placed
    <3>2. CASE p.dot # 0
      <4>1. q = p
        BY <3>2
      <4> HIDE DEF q
      <4>2. p.oam_index \in Nat /\ p.soam_index \in Nat
        BY <2>1, FieldTypes
      <4> QED BY <1>1, <2>1, <3>2, <4>1, <4>2 DEF Placed
    <3> HIDE DEF q
    <3> QED BY <3>1, <3>2
  <2>3. v = runppu(q, access)
    BY <1>1 DEF TickPPU_active, VisibleDot
  <2> HIDE DEF q, v
  <2>4. p.dot < LineEnd /\ p.dot + 1 < LineEnd /\ p.dot + 1 <= Visible
    BY <1>1, <2>1, Numbers
  <2>5. /\ v \in PpuType /\ Beside(q, v) /\ v.dot = q.dot + 1
        /\ v.oam_index \in {q.oam_index, Aligned(q.oam_index + 4)}
        /\ AttributesWired(q.oam) => AttributesWired(v.oam)
    BY <2>2, <2>3, <2>4, RunType
  <2>6. v.sl = 0 /\ v.dot = p.dot + 1 /\ v.soam_index = q.soam_index /\ v.true_count = q.true_count
    BY <2>2, <2>5 DEF Beside
  <2>7. SlotIndex(v)
    <3>1. SlotIndex(p)
      BY <2>1 DEF Placed
    <3>2. ClearDots \in Nat /\ ClearDots > 0 /\ Slots \in Nat
      BY Numbers
    <3>3. CASE p.dot = 0
      BY <2>2, <2>6, <3>2, <3>3 DEF SlotIndex
    <3>4. CASE p.dot \in 1..ClearDots
      <4>1. p.true_count = 0 /\ p.soam_index = 0
        BY <1>1, <3>1, <3>4 DEF SlotIndex
      <4> QED BY <2>1, <2>2, <2>6, <3>2, <3>4, <4>1 DEF SlotIndex
    <3>5. CASE p.dot > ClearDots
      <4>1. p.soam_index <= Slots /\ p.dot # 0
        BY <2>1, <3>1, <3>2, <3>5 DEF SlotIndex
      <4>2. ~(v.dot \in 1..ClearDots)
        BY <2>1, <2>6, <3>2, <3>5
      <4> QED BY <2>2, <2>6, <4>1, <4>2 DEF SlotIndex
    <3> QED BY <2>1, <3>2, <3>3, <3>4, <3>5
  <2>8. OamIndex(v)
    <3>1. q.oam_index <= 2 * OamSize /\ q.oam_index \in Nat
      BY <1>1, <2>1, <2>2, Numbers DEF Placed, OamIndex
    <3>2. q.oam_index + 4 \in Nat
      BY <3>1
    <3>3. Aligned(q.oam_index + 4) \in Nat /\ Aligned(q.oam_index + 4) < 2 * OamSize
      BY <3>2, AlignedType
    <3>4. v.oam_index <= 2 * OamSize
      BY <2>5, <3>1, <3>3, Numbers
    <3> QED BY <2>6, <3>4 DEF OamIndex
  <2>9. Sound(v)
    <3>1. v.dot < LineEnd /\ v.sl # Lines + 1
      BY <2>4, <2>6, Numbers
    <3>2. Placed(v)
      BY <2>2, <2>5, <2>7, <2>8, <3>1 DEF Placed
    <3>3. Drawn(v)
      BY <2>6 DEF Drawn
    <3> QED BY <2>5, <3>2, <3>3 DEF Sound
  <2>10. ASSUME NEW o, PPUON(v) PROVE Quiet(v, o)
    <3>1. Calm(v, o)
      BY <2>6, <2>10 DEF Calm
    <3>2. v.dot \in Visible..FetchEnd - 1 => (v.dot - Visible) % FetchDots = 0
      <4>1. ASSUME v.dot \in Visible..FetchEnd - 1 PROVE v.dot - Visible = 0
        BY <2>1, <2>4, <2>6, <4>1, Numbers
      <4>2. 0 % FetchDots = 0
        BY Numbers, ModSmall
      <4> QED BY <4>1, <4>2
    <3>3. ~(v.sl \in 1..Lines - 1) /\ ~(v.sl \in 2..Lines)
      BY <2>6
    <3>4. DrawnCalm(v)
      BY <3>2, <3>3 DEF DrawnCalm
    <3> QED BY <3>1, <3>4 DEF Quiet
  <2> QED BY <2>9, <2>10
<1> QED BY <1>1

\* A dot that clears a byte of the slots.
LEMMA ClearingDot ==
  ASSUME NEW p, NEW access \in Accesses \cup {NoAccess}
  PROVE  LET v == TickPPU_active(p, access)
         IN  Sound(p) /\ p.sl \in 1..Lines /\ p.dot < ClearDots =>
               /\ Sound(v)
               /\ \A o : /\ access = NoAccess /\ PPUON(v)
                         /\ IF p.dot = 0 THEN o = p.overflow ELSE Quiet(p, o)
                         => Quiet(v, o)
<1> DEFINE v == TickPPU_active(p, access)
           q == IF p.dot = 0 THEN StartLine(p) ELSE p
           e == Clear(q)
<1>1. ASSUME Sound(p), p.sl \in 1..Lines, p.dot < ClearDots
      PROVE  /\ Sound(v)
             /\ \A o : /\ access = NoAccess /\ PPUON(v)
                       /\ IF p.dot = 0 THEN o = p.overflow ELSE Quiet(p, o)
                       => Quiet(v, o)
  <2>1. p \in PpuType /\ Placed(p) /\ Drawn(p) /\ p.dot \in Nat /\ p.sl > 0
    BY <1>1, FieldTypes, Numbers DEF Sound
  <2>2. /\ q \in PpuType /\ q.sl = p.sl /\ q.dot = p.dot /\ q.addr = p.addr
        /\ AttributesWired(q.oam) /\ q.oam_index <= 2 * OamSize
        /\ q.true_count = 0 /\ q.soam_index = q.dot \div 2 /\ q.line = p.line
        /\ q.overflow = p.overflow
        /\ p.dot = 0 => q.write /\ ~q.zero_in_range /\ q.height = Height(q)
        /\ p.dot # 0 => q = p
    <3>1. CASE p.dot = 0
      <4>1. /\ q \in PpuType /\ q.sl = p.sl /\ q.dot = p.dot /\ q.addr = p.addr /\ q.true_count = 0
            /\ q.soam_index = 0 /\ q.oam_index = 0 /\ q.line = p.line /\ q.overflow = p.overflow
            /\ q.write /\ ~q.zero_in_range /\ q.height = Height(p) /\ q.tall = p.tall
            /\ AttributesWired(p.oam) => AttributesWired(q.oam)
        BY <2>1, <3>1, StartType
      <4> HIDE DEF q
      <4>2. Height(q) = Height(p)
        BY <4>1 DEF Height
      <4>3. 0 \div 2 = 0 /\ 0 <= 2 * OamSize
        BY Numbers
      <4>4. AttributesWired(p.oam)
        BY <2>1 DEF Placed
      <4> QED BY <3>1, <4>1, <4>2, <4>3, <4>4
    <3>2. CASE p.dot # 0
      <4>1. q = p
        BY <3>2
      <4> HIDE DEF q
      <4>2. p.dot \in 1..ClearDots /\ ~(p.dot \in ClearDots + 1..Visible)
        BY <1>1, <2>1, <3>2, Numbers
      <4>3. p.true_count = 0 /\ p.soam_index = p.dot \div 2 /\ p.oam_index <= 2 * OamSize
            /\ AttributesWired(p.oam)
        <5>1. p.sl # 0
          BY <2>1
        <5> QED BY <2>1, <4>2, <5>1 DEF Placed, SlotIndex, OamIndex
      <4> QED BY <2>1, <3>2, <4>1, <4>3
    <3> HIDE DEF q
    <3> QED BY <3>1, <3>2
  <2>3. v = EndDot(EndTile(ShowPixel(runppu(SpriteZeroHit(e), access), p.dot)))
    <3>1. p.dot < Visible /\ p.sl # 0
      BY <1>1, <2>1, Numbers
    <3>2. e = Evaluate(q)
      BY <1>1, <2>2 DEF Evaluate
    <3> HIDE DEF e
    <3> QED BY <3>1, <3>2 DEF TickPPU_active, VisibleDot
  <2> HIDE DEF q, v, e
  <2>4. /\ e \in PpuType /\ Aside(q, e) /\ e.soam_index = (p.dot + 1) \div 2
        /\ e.true_count = 0 /\ e.oam_index = q.oam_index /\ e.write = q.write
        /\ e.zero_in_range = q.zero_in_range /\ e.overflow = q.overflow
        /\ (\A b \in 0..4 * Slots - 1 : b < q.soam_index => q.soam[b] = Blank) =>
             \A b \in 0..4 * Slots - 1 : b < e.soam_index => e.soam[b] = Blank
    BY <1>1, <2>2, ClearStep DEF e
  <2>5. /\ e.sl = p.sl /\ e.dot = p.dot /\ e.addr = p.addr /\ e.tall = q.tall /\ e.oam = q.oam
        /\ e.line = p.line /\ e.height = q.height
    BY <2>2, <2>4 DEF Aside
  <2>6. DotEnded(e, v, access)
    <3>1. e.dot < Visible
      BY <1>1, <2>1, <2>5, Numbers
    <3> QED BY <2>3, <2>4, <2>5, <3>1, DotEnds
  <2>7. /\ v \in PpuType /\ v.sl = p.sl /\ v.dot = p.dot + 1 /\ v.soam = e.soam
        /\ v.soam_index = (p.dot + 1) \div 2 /\ v.true_count = 0
        /\ v.write = q.write /\ v.zero_in_range = q.zero_in_range /\ v.overflow = p.overflow
        /\ v.oam_index \in {q.oam_index, Aligned(q.oam_index + 4)}
        /\ AttributesWired(v.oam) /\ v.line = [p.line EXCEPT ![p.dot] = None]
    BY <2>2, <2>4, <2>5, <2>6 DEF DotEnded
  <2>8. v.dot \in 1..ClearDots /\ v.dot < LineEnd /\ v.dot < Visible
        /\ ~(v.dot \in ClearDots + 1..Visible)
    BY <1>1, <2>1, <2>7, Numbers
  <2>9. Placed(v)
    <3>1. SlotIndex(v)
      <4>1. v.sl # 0
        BY <2>1, <2>7
      <4> QED BY <2>7, <2>8, <4>1 DEF SlotIndex
    <3>2. OamIndex(v)
      <4>1. q.oam_index \in Nat /\ OamSize \in Nat
        BY <2>2, FieldTypes, Numbers
      <4>2. q.oam_index + 4 \in Nat
        BY <4>1
      <4>3. Aligned(q.oam_index + 4) \in Nat /\ Aligned(q.oam_index + 4) < 2 * OamSize
        BY <4>2, AlignedType
      <4>4. v.oam_index <= 2 * OamSize
        BY <2>2, <2>7, <4>1, <4>3
      <4> QED BY <2>8, <4>4 DEF OamIndex
    <3>3. v.sl # Lines + 1
      BY <1>1, <2>7, Numbers
    <3> QED BY <2>7, <2>8, <3>1, <3>2, <3>3 DEF Placed
  <2>10. Drawn(v)
    <3>1. ASSUME NEW x \in 0..Visible - 1, x < v.dot PROVE v.line[x] = None
      <4>1. p.line \in [0..Visible - 1 -> 0..Slots]
        BY <2>1 DEF PpuType
      <4>2. CASE x = p.dot
        BY <2>7, <4>1, <4>2
      <4>3. CASE x # p.dot
        <5>1. x < p.dot /\ p.dot <= Visible
          BY <1>1, <2>1, <2>7, <3>1, <4>3, Numbers
        <5>2. p.line[x] = None
          BY <2>1, <5>1 DEF Drawn
        <5> QED BY <2>7, <4>1, <4>3, <5>2
      <4> QED BY <4>2, <4>3
    <3> QED BY <3>1 DEF Drawn
  <2>11. ASSUME NEW o, access = NoAccess, PPUON(v), IF p.dot = 0 THEN o = p.overflow ELSE Quiet(p, o)
         PROVE  Quiet(v, o)
    <3>1. /\ q.height = Height(q) /\ q.write /\ ~q.zero_in_range /\ q.overflow = o
          /\ \A b \in 0..4 * Slots - 1 : b < q.soam_index => q.soam[b] = Blank
      <4>1. CASE p.dot = 0
        <5>1. q.soam_index = 0
          BY <2>2, <4>1
        <5>2. \A b \in 0..4 * Slots - 1 : ~(b < q.soam_index)
          BY <5>1, Numbers
        <5> QED BY <2>2, <2>11, <4>1, <5>2
      <4>2. CASE p.dot # 0
        <5>1. p.dot \in 1..Visible /\ p.dot \in 1..ClearDots /\ q = p
          BY <1>1, <2>1, <2>2, <4>2, Numbers
        <5>2. p.height = Height(p) /\ Cleared(p, o)
          BY <2>1, <2>11, <4>2, <5>1 DEF Quiet, Calm
        <5> QED BY <5>1, <5>2 DEF Cleared
      <4> QED BY <4>1, <4>2
    <3>2. v.height = Height(v)
      <4>1. e.height = Height(e)
        BY <2>5, <3>1 DEF Height
      <4> QED BY <2>6, <2>11, <4>1 DEF DotEnded
    <3>3. Cleared(v, o)
      BY <2>2, <2>4, <2>7, <3>1 DEF Cleared
    <3>4. Calm(v, o)
      BY <2>8, <2>11, <3>2, <3>3 DEF Calm
    <3>5. v.dot # 0 /\ ~(v.dot >= Visible) /\ ~(v.dot \in Visible..FetchEnd - 1)
      BY <2>8, Numbers
    <3>6. DrawnCalm(v)
      BY <3>5 DEF DrawnCalm
    <3> QED BY <3>4, <3>6 DEF Quiet
  <2> QED BY <2>7, <2>9, <2>10, <2>11 DEF Sound
<1> QED BY <1>1

\* A dot of the search.
LEMMA SearchingDot ==
  ASSUME NEW p, NEW access \in Accesses \cup {NoAccess}
  PROVE  LET v == TickPPU_active(p, access)
         IN  Sound(p) /\ p.sl \in 1..Lines /\ p.dot >= ClearDots /\ p.dot < Visible =>
               /\ Sound(v)
               /\ \A o : access = NoAccess /\ PPUON(v) /\ Quiet(p, o) => Quiet(v, o)
<1> DEFINE v == TickPPU_active(p, access)
           e == Search(p)
<1>1. ASSUME Sound(p), p.sl \in 1..Lines, p.dot >= ClearDots, p.dot < Visible
      PROVE  /\ Sound(v)
             /\ \A o : access = NoAccess /\ PPUON(v) /\ Quiet(p, o) => Quiet(v, o)
  <2>1. p \in PpuType /\ Placed(p) /\ Drawn(p) /\ p.dot \in Nat /\ p.sl > 0 /\ p.dot > 0
    BY <1>1, FieldTypes, Numbers DEF Sound
  <2>2. v = EndDot(EndTile(ShowPixel(runppu(SpriteZeroHit(e), access), p.dot)))
    <3>1. p.dot # 0 /\ p.sl # 0 /\ ~(p.dot < ClearDots)
      BY <1>1, <2>1, Numbers
    <3>2. e = Evaluate(p)
      BY <3>1 DEF Evaluate
    <3> HIDE DEF e
    <3> QED BY <1>1, <3>1, <3>2 DEF TickPPU_active, VisibleDot
  <2>3. p.dot > ClearDots => p.soam_index <= Slots
    <3>1. p.dot > ClearDots => ~(p.dot \in 1..ClearDots)
      BY Numbers
    <3> QED BY <2>1, <3>1 DEF Placed, SlotIndex
  <2> HIDE DEF v, e
  <2>4. e \in PpuType /\ Aside(p, e) /\ e.soam_index <= Slots /\ e.oam_index <= OamSize + 4
    BY <1>1, <2>1, <2>3, SearchType DEF e
  <2>5. /\ e.sl = p.sl /\ e.dot = p.dot /\ e.addr = p.addr /\ e.tall = p.tall /\ e.oam = p.oam
        /\ e.line = p.line /\ e.height = p.height
    BY <2>4 DEF Aside
  <2>6. DotEnded(e, v, access)
    <3>1. e.dot < Visible
      BY <1>1, <2>5
    <3> QED BY <2>2, <2>4, <2>5, <3>1, DotEnds
  <2>7. /\ v \in PpuType /\ v.sl = p.sl /\ v.dot = p.dot + 1 /\ v.soam = e.soam
        /\ v.soam_index = e.soam_index
        /\ v.oam_index \in {e.oam_index, Aligned(e.oam_index + 4)}
        /\ AttributesWired(v.oam) /\ v.line = [p.line EXCEPT ![p.dot] = None]
    BY <2>1, <2>5, <2>6 DEF DotEnded, Placed
  <2>8. /\ v.dot < LineEnd /\ v.dot \in ClearDots + 1..Visible /\ ~(v.dot \in 1..ClearDots)
        /\ v.dot > ClearDots
    BY <1>1, <2>1, <2>7, Numbers
  <2>9. Placed(v)
    <3>1. SlotIndex(v)
      BY <2>4, <2>7, <2>8 DEF SlotIndex
    <3>2. OamIndex(v)
      <4>1. e.oam_index \in Nat /\ OamSize \in Nat
        BY <2>4, FieldTypes, Numbers
      <4>2. e.oam_index + 4 \in Nat
        BY <4>1
      <4>3. Aligned(e.oam_index + 4) \in Nat /\ Aligned(e.oam_index + 4) <= e.oam_index + 4
        BY <4>2, AlignedType
      <4>4. v.oam_index <= OamSize + 8
        BY <2>4, <2>7, <4>1, <4>3
      <4> QED BY <2>1, <2>7, <2>8, <4>4 DEF OamIndex
    <3>3. v.sl # Lines + 1
      BY <1>1, <2>7, Numbers
    <3> QED BY <2>7, <2>8, <3>1, <3>2, <3>3 DEF Placed
  <2>10. Drawn(v)
    <3>1. ASSUME NEW x \in 0..Visible - 1, x < v.dot PROVE v.line[x] = None
      <4>1. p.line \in [0..Visible - 1 -> 0..Slots]
        BY <2>1 DEF PpuType
      <4>2. CASE x = p.dot
        BY <2>7, <4>1, <4>2
      <4>3. CASE x # p.dot
        <5>1. x < p.dot /\ p.dot <= Visible
          BY <1>1, <2>1, <2>7, <3>1, <4>3, Numbers
        <5>2. p.line[x] = None
          BY <2>1, <5>1 DEF Drawn
        <5> QED BY <2>7, <4>1, <4>3, <5>2
      <4> QED BY <4>2, <4>3
    <3> QED BY <3>1 DEF Drawn
  <2>11. ASSUME NEW o, access = NoAccess, PPUON(v), Quiet(p, o)
         PROVE  Quiet(v, o)
    <3>1. PPUON(p) /\ p.height = Height(p)
      <4>1. p.dot \in 1..Visible
        BY <1>1, <2>1, Numbers
      <4> QED BY <2>1, <2>11, <4>1 DEF Quiet, Calm
    <3>2. v.height = Height(v)
      <4>1. e.height = Height(e)
        BY <2>5, <3>1 DEF Height
      <4> QED BY <2>6, <2>11, <4>1 DEF DotEnded
    <3>3. v.addr = p.addr /\ v.oam = p.oam
      BY <2>5, <2>6, <2>11 DEF DotEnded
    <3>4. Alone(e, v)
      BY <2>5, <2>6, <2>7, <2>11, <3>1, <3>2, <3>3 DEF DotEnded, Alone, Scene, Height
    <3>5. ASSUME NEW f \in 0..NumSprites - 1, v.addr = 4 * f
          PROVE  Searched(v, v.dot, o, f)
      <4>1. Searched(e, p.dot + 1, o, f)
        <5>1. CASE p.dot = ClearDots
          <6>1. ClearDots \in 1..ClearDots /\ ClearDots \div 2 = 4 * Slots
            BY Numbers
          <6>2. p.true_count = 0 /\ p.soam_index = 4 * Slots
            <7>1. p.sl # 0 /\ p.dot \in 1..ClearDots
              BY <2>1, <5>1, <6>1
            <7> QED BY <2>1, <5>1, <6>1, <7>1 DEF Placed, SlotIndex
          <6>3. Cleared(p, o)
            BY <2>1, <2>11, <5>1, <6>1 DEF Quiet, Calm
          <6> QED BY <2>1, <3>3, <3>5, <5>1, <6>2, <6>3, SearchBegins DEF e
        <5>2. CASE p.dot > ClearDots
          <6>1. p.dot \in ClearDots + 1..Visible
            BY <1>1, <2>1, <5>2, Numbers
          <6>2. Searched(p, p.dot, o, f)
            BY <2>1, <2>11, <3>3, <3>5, <6>1 DEF Quiet, Calm
          <6> QED BY <2>1, <3>1, <3>3, <3>5, <5>2, <6>2, SearchCalm DEF e
        <5> QED BY <1>1, <2>1, <5>1, <5>2, Numbers
      <4>2. /\ v.write = e.write /\ v.true_count = e.true_count /\ v.oam_index = e.oam_index
            /\ v.read_value = e.read_value /\ v.overflow = e.overflow
        BY <2>6, <2>11 DEF DotEnded
      <4>3. Searched(v, p.dot + 1, o, f)
        BY <3>4, <4>1, <4>2, SearchedKept
      <4> QED BY <2>7, <4>3
    <3>6. Calm(v, o)
      BY <2>8, <2>11, <3>2, <3>5 DEF Calm
    <3>7. DrawnCalm(v)
      <4>1. ASSUME v.dot >= Visible, NEW x \in 0..Visible - 1 PROVE Pixel(v, x, Laid(v.dot))
        <5>1. v.dot = Visible /\ Laid(v.dot) = 0 /\ x < v.dot
          <6>1. v.dot = Visible
            BY <1>1, <2>1, <2>7, <4>1, Numbers
          <6>2. 0 \div FetchDots = 0 /\ Visible - Visible = 0 /\ ~(Visible >= FetchEnd)
            BY Numbers
          <6> QED BY <2>7, <4>1, <6>1, <6>2, Numbers DEF Laid
        <5>2. v.line[x] = None
          BY <2>1, <2>7, <2>10, <5>1, Numbers DEF Drawn
        <5>3. \A s \in 0..0 - 1 : FALSE
          OBVIOUS
        <5> QED BY <5>1, <5>2, <5>3 DEF Pixel
      <4>2. v.dot # 0
        BY <2>1, <2>7
      <4>3. ASSUME v.dot \in Visible..FetchEnd - 1 PROVE (v.dot - Visible) % FetchDots = 0
        <5>1. v.dot - Visible = 0
          BY <1>1, <2>1, <2>7, <4>3, Numbers
        <5>2. 0 % FetchDots = 0
          BY Numbers, ModSmall
        <5> QED BY <5>1, <5>2
      <4> QED BY <4>1, <4>2, <4>3 DEF DrawnCalm
    <3> QED BY <3>6, <3>7 DEF Quiet
  <2> QED BY <2>7, <2>9, <2>10, <2>11 DEF Sound
<1> QED BY <1>1

(***************************************************************************)
(* The fetch.                                                              *)
(***************************************************************************)
\* A quotient by n is below m for the numbers below n * m.
LEMMA DivBelow ==
  ASSUME NEW n \in Nat, NEW m \in Nat, NEW a \in Nat, n > 0, a < n * m
  PROVE  a \div n \in 0..m - 1
<1> DEFINE u == a \div n
<1>1. u \in Nat /\ a = n * u + (a % n) /\ a % n \in 0..n - 1
  OBVIOUS
<1> HIDE DEF u
<1>2. ASSUME u >= m PROVE FALSE
  <2> DEFINE k == u - m
  <2>1. k \in Nat /\ u = m + k
    BY <1>1, <1>2
  <2>2. n * u = n * m + n * k /\ n * k \in Nat /\ n * m \in Nat
    BY <2>1
  <2> HIDE DEF k
  <2> QED BY <1>1, <2>2
<1>3. u \in 0..m - 1
  BY <1>1, <1>2
<1> QED BY <1>3 DEF u

\* The quotient of n * m by n.
LEMMA DivWhole ==
  ASSUME NEW n \in Nat, NEW m \in Nat, n > 0
  PROVE  (n * m) \div n = m /\ (n * m) % n = 0
<1> DEFINE a == n * m
           u == a \div n
           r == a % n
<1>1. a \in Nat
  OBVIOUS
<1> HIDE DEF a
<1>2. u \in Nat /\ a = n * u + r /\ r \in 0..n - 1
  BY <1>1
<1> HIDE DEF u, r
<1>3. ASSUME u < m PROVE FALSE
  <2> DEFINE k == m - u - 1
  <2>1. k \in Nat /\ m = u + k + 1
    BY <1>2, <1>3
  <2>2. n * m = n * u + n * k + n /\ n * k \in Nat
    BY <1>2, <2>1
  <2> HIDE DEF k
  <2> QED BY <1>2, <2>2 DEF a
<1>4. ASSUME u > m PROVE FALSE
  <2> DEFINE k == u - m - 1
  <2>1. k \in Nat /\ u = m + k + 1
    BY <1>2, <1>4
  <2>2. n * u = n * m + n * k + n /\ n * k \in Nat /\ n * m \in Nat
    BY <1>2, <2>1
  <2> HIDE DEF k
  <2> QED BY <1>2, <2>2 DEF a
<1>5. u = m
  BY <1>2, <1>3, <1>4
<1>6. r = 0
  <2>1. n * u \in Nat /\ n * u = n * m
    BY <1>5
  <2> QED BY <1>2, <2>1 DEF a
<1> QED BY <1>5, <1>6 DEF a, u, r

\* Each group of dots fetches for its slot, and the next group for the next.
LEMMA SlotPlace ==
  ASSUME NEW p \in PpuType, p.dot >= Visible, p.dot < FetchEnd
  PROVE  /\ Slot(p) \in 0..Slots - 1 /\ Laid(p.dot) = Slot(p)
         /\ ((p.dot + 1) - Visible) % FetchDots # 0 =>
              p.dot + 1 < FetchEnd /\ Laid(p.dot + 1) = Slot(p)
         /\ ((p.dot + 1) - Visible) % FetchDots = 0 => Laid(p.dot + 1) = Slot(p) + 1
<1> DEFINE d == p.dot - Visible
           e == p.dot + 1
<1>1. d \in Nat /\ d < FetchDots * Slots /\ e - Visible = d + 1
  BY FieldTypes, Numbers
<1>2. Slot(p) = d \div FetchDots /\ Laid(p.dot) = d \div FetchDots
  BY FieldTypes, Numbers DEF Slot, Laid
<1>3. d \div FetchDots \in 0..Slots - 1
  BY <1>1, DivBelow, Numbers
<1>4. /\ (d + 1) % FetchDots # 0 => (d + 1) \div FetchDots = d \div FetchDots
      /\ (d + 1) % FetchDots = 0 => (d + 1) \div FetchDots = d \div FetchDots + 1
  BY <1>1, DivNext, Numbers
<1>5. e = FetchEnd => (d + 1) % FetchDots = 0 /\ (d + 1) \div FetchDots = Slots
  <2>1. e = FetchEnd => d + 1 = FetchDots * Slots
    BY <1>1, Numbers
  <2>2. (FetchDots * Slots) \div FetchDots = Slots /\ (FetchDots * Slots) % FetchDots = 0
    BY Numbers, DivWhole
  <2> QED BY <2>1, <2>2
<1>6. e = FetchEnd \/ e < FetchEnd
  <2>1. p.dot \in Nat /\ FetchEnd \in Nat
    BY FieldTypes, Numbers
  <2> QED BY <2>1
<1>7. Laid(e) = (d + 1) \div FetchDots
  <2>1. CASE e = FetchEnd
    <3>1. e >= FetchEnd
      BY <2>1, Numbers
    <3> QED BY <1>5, <2>1, <3>1 DEF Laid
  <2>2. CASE e < FetchEnd
    <3>1. ~(e >= FetchEnd)
      BY <2>2, FieldTypes, Numbers
    <3> QED BY <1>1, <3>1 DEF Laid
  <2> QED BY <1>6, <2>1, <2>2
<1> HIDE DEF d
<1>8. /\ (d + 1) % FetchDots # 0 => e < FetchEnd /\ Laid(e) = d \div FetchDots
      /\ (d + 1) % FetchDots = 0 => Laid(e) = d \div FetchDots + 1
  BY <1>4, <1>5, <1>6, <1>7
<1> HIDE DEF e
<1>9. /\ (e - Visible) % FetchDots # 0 => e < FetchEnd /\ Laid(e) = Slot(p)
      /\ (e - Visible) % FetchDots = 0 => Laid(e) = Slot(p) + 1
  BY <1>1, <1>2, <1>8
<1>10. Slot(p) \in 0..Slots - 1 /\ Laid(p.dot) = Slot(p)
  BY <1>2, <1>3
<1> QED BY <1>9, <1>10 DEF e

\* The sprite to fetch is loaded before the dot runs.
LEMMA LoadRuns ==
  ASSUME NEW p \in PpuType, p.dot < LineEnd, NEW access \in Accesses \cup {NoAccess}
  PROVE  LET q == runppu(Load(p), access)
         IN  /\ q \in PpuType /\ q.sl = p.sl /\ q.dot = p.dot + 1 /\ q.soam = p.soam
             /\ q.soam_index = p.soam_index /\ q.columns = p.columns /\ q.line = p.line
             /\ q.oam_index \in {p.oam_index, Aligned(p.oam_index + 4)}
             /\ AttributesWired(p.oam) => AttributesWired(q.oam)
             /\ PPUON(p) /\ ((p.dot - Visible) % FetchDots # 0 => ~p.junk) => ~q.junk
<1> DEFINE t == Load(p)
           q == runppu(t, access)
<1>1. /\ t \in PpuType /\ t.sl = p.sl /\ t.dot = p.dot /\ t.soam = p.soam /\ t.oam = p.oam
      /\ t.soam_index = p.soam_index /\ t.columns = p.columns /\ t.line = p.line
      /\ t.oam_index = p.oam_index
      /\ PPUON(p) /\ ((p.dot - Visible) % FetchDots # 0 => ~p.junk) => ~t.junk
  <2>1. CASE (p.dot - Visible) % FetchDots = 0
    <3> DEFINE j == ~PPUON(p)
    <3>1. t = [p EXCEPT !.junk = j] /\ j \in BOOLEAN
      BY <2>1 DEF Load
    <3>2. PPUON(p) => ~j
      OBVIOUS
    <3> HIDE DEF j, t
    <3>3. t \in PpuType
      BY <3>1 DEF PpuType
    <3>4. /\ t.sl = p.sl /\ t.dot = p.dot /\ t.soam = p.soam /\ t.oam = p.oam
          /\ t.soam_index = p.soam_index /\ t.columns = p.columns /\ t.line = p.line
          /\ t.oam_index = p.oam_index /\ t.junk = j
      BY <3>1 DEF PpuType
    <3> QED BY <3>2, <3>3, <3>4
  <2>2. CASE (p.dot - Visible) % FetchDots # 0
    <3>1. t = p
      BY <2>2 DEF Load
    <3> HIDE DEF t
    <3> QED BY <2>2, <3>1
  <2> QED BY <2>1, <2>2
<1> HIDE DEF t
<1>2. /\ q \in PpuType /\ Beside(t, q) /\ q.dot = t.dot + 1
      /\ q.oam_index \in {t.oam_index, Aligned(t.oam_index + 4)}
      /\ AttributesWired(t.oam) => AttributesWired(q.oam)
  BY <1>1, RunType
<1> HIDE DEF q
<1>3. /\ q \in PpuType /\ q.sl = p.sl /\ q.dot = p.dot + 1 /\ q.soam = p.soam
      /\ q.soam_index = p.soam_index /\ q.columns = p.columns /\ q.line = p.line
      /\ q.oam_index \in {p.oam_index, Aligned(p.oam_index + 4)}
      /\ AttributesWired(p.oam) => AttributesWired(q.oam)
      /\ PPUON(p) /\ ((p.dot - Visible) % FetchDots # 0 => ~p.junk) => ~q.junk
  BY <1>1, <1>2 DEF Beside
<1> QED BY <1>3 DEF q, t

\* What was fetched is laid in behind what lies there already.
LEMMA SlotLaid ==
  ASSUME NEW q \in PpuType, NEW s \in 0..Slots - 1
  PROVE  LET v == LayIn([q EXCEPT !.columns[s] = FetchedColumns(q, s)], s)
         IN  /\ v \in PpuType /\ v.sl = q.sl /\ v.dot = q.dot /\ v.soam = q.soam
             /\ v.soam_index = q.soam_index /\ v.oam_index = q.oam_index /\ v.oam = q.oam
             /\ v.show = q.show
             /\ ~q.junk /\ q.sl \in 1..Lines - 1 =>
                  \A x \in 0..Visible - 1 : Pixel(q, x, s) => Pixel(v, x, s + 1)
<1> DEFINE c == FetchedColumns(q, s)
           cs == [q.columns EXCEPT ![s] = c]
           w == [q EXCEPT !.columns[s] = c]
           m == [x \in DOMAIN q.line |->
                  IF q.line[x] = None /\ x - q.soam[4 * s + 3] \in c THEN s ELSE q.line[x]]
           v == LayIn(w, s)
<1>1. /\ q.columns \in [0..Slots - 1 -> Tiles] /\ q.line \in [0..Visible - 1 -> 0..Slots]
      /\ q.soam \in [0..4 * Slots - 1 -> Bytes] /\ q.sl \in Nat
  <2>1. q.sl \in 0..Lines + 1 /\ Lines \in Nat
    BY Numbers DEF PpuType
  <2>2. /\ q.columns \in [0..Slots - 1 -> Tiles] /\ q.line \in [0..Visible - 1 -> 0..Slots]
        /\ q.soam \in [0..4 * Slots - 1 -> Bytes]
    BY DEF PpuType
  <2> QED BY <2>1, <2>2
<1>2. 4 * s + 1 \in 0..4 * Slots - 1
  BY Numbers
<1>3. c \in Tiles
  <2>1. {} \in Tiles
    BY DEF Tiles
  <2>2. q.soam[4 * s + 1] \in Bytes
    BY <1>1, <1>2
  <2>3. Columns(q.soam[4 * s + 1]) \in Tiles
    BY <2>2 DEF Tiles
  <2>4. q.columns[s] \in Tiles
    BY <1>1
  <2> QED BY <2>1, <2>3, <2>4 DEF FetchedColumns
<1>4. ~q.junk => \A x : x - q.soam[4 * s + 3] \in c <=> Owner(q, x, s)
  BY DEF FetchedColumns, Owner
<1> HIDE DEF c
<1>5. w = [q EXCEPT !.columns = cs] /\ cs \in [0..Slots - 1 -> Tiles] /\ cs[s] = c
  BY <1>1, <1>3 DEF PpuType
<1>6. m \in [0..Visible - 1 -> 0..Slots]
  <2>1. s \in 0..Slots
    BY Numbers
  <2> QED BY <1>1, <2>1
<1> HIDE DEF cs, w
<1>7. /\ w \in PpuType /\ w.sl = q.sl /\ w.dot = q.dot /\ w.soam = q.soam
      /\ w.soam_index = q.soam_index /\ w.oam_index = q.oam_index /\ w.oam = q.oam
      /\ w.show = q.show /\ w.line = q.line /\ w.columns[s] = c
  <2>1. w \in PpuType
    BY <1>5 DEF PpuType
  <2>2. /\ w.sl = q.sl /\ w.dot = q.dot /\ w.soam = q.soam
        /\ w.soam_index = q.soam_index /\ w.oam_index = q.oam_index /\ w.oam = q.oam
        /\ w.show = q.show /\ w.line = q.line /\ w.columns = cs
    BY <1>5 DEF PpuType
  <2> QED BY <1>5, <2>1, <2>2
<1>8. v = IF w.sl \in {0, Lines} THEN w ELSE [w EXCEPT !.line = m]
  BY <1>7 DEF LayIn
<1>9. m = [x \in 0..Visible - 1 |->
             IF q.line[x] = None /\ x - q.soam[4 * s + 3] \in c THEN s ELSE q.line[x]]
  BY <1>1
<1> HIDE DEF m, v
<1>10. /\ v \in PpuType /\ v.sl = q.sl /\ v.dot = q.dot /\ v.soam = q.soam
       /\ v.soam_index = q.soam_index /\ v.oam_index = q.oam_index /\ v.oam = q.oam
       /\ v.show = q.show
       /\ q.sl \in 1..Lines - 1 => v.line = m
  <2>1. CASE w.sl \in {0, Lines}
    <3>1. v = w
      BY <1>8, <2>1
    <3>2. ~(q.sl \in 1..Lines - 1)
      BY <1>7, <2>1, Numbers
    <3> QED BY <1>7, <3>1, <3>2
  <2>2. CASE ~(w.sl \in {0, Lines})
    <3>1. v = [w EXCEPT !.line = m]
      BY <1>8, <2>2
    <3>2. v \in PpuType
      BY <1>6, <1>7, <3>1 DEF PpuType
    <3>3. /\ v.sl = w.sl /\ v.dot = w.dot /\ v.soam = w.soam
          /\ v.soam_index = w.soam_index /\ v.oam_index = w.oam_index /\ v.oam = w.oam
          /\ v.show = w.show /\ v.line = m
      BY <1>7, <3>1 DEF PpuType
    <3> QED BY <1>7, <3>2, <3>3
  <2> QED BY <2>1, <2>2
<1>11. ASSUME ~q.junk, q.sl \in 1..Lines - 1, NEW x \in 0..Visible - 1, Pixel(q, x, s)
       PROVE  Pixel(v, x, s + 1)
  <2>1. v.line[x] = IF q.line[x] = None /\ Owner(q, x, s) THEN s ELSE q.line[x]
    BY <1>4, <1>9, <1>10, <1>11
  <2>2. \A k : Owner(v, x, k) <=> Owner(q, x, k)
    BY <1>10 DEF Owner
  <2>3. \A k \in 0..(s + 1) - 1 : k \in 0..s - 1 \/ k = s
    BY Numbers
  <2>4. s \in 0..(s + 1) - 1 /\ 0..s - 1 \subseteq 0..(s + 1) - 1 /\ s # None
    BY Numbers
  <2>5. CASE q.line[x] = None /\ \A k \in 0..s - 1 : ~Owner(q, x, k)
    <3>1. CASE Owner(q, x, s)
      <4>1. v.line[x] = s
        BY <2>1, <2>5, <3>1
      <4> QED BY <2>2, <2>4, <2>5, <3>1, <4>1 DEF Pixel
    <3>2. CASE ~Owner(q, x, s)
      <4>1. v.line[x] = None
        BY <2>1, <2>5, <3>2
      <4>2. \A k \in 0..(s + 1) - 1 : ~Owner(v, x, k)
        BY <2>2, <2>3, <2>5, <3>2
      <4> QED BY <4>1, <4>2 DEF Pixel
    <3> QED BY <3>1, <3>2
  <2>6. CASE /\ q.line[x] \in 0..s - 1 /\ Owner(q, x, q.line[x])
             /\ \A k \in 0..q.line[x] - 1 : ~Owner(q, x, k)
    <3>1. q.line[x] # None
      BY <2>6, Numbers
    <3>2. v.line[x] = q.line[x]
      BY <2>1, <3>1
    <3> QED BY <2>2, <2>4, <2>6, <3>2 DEF Pixel
  <2> QED BY <1>11, <2>5, <2>6 DEF Pixel
<1>12. /\ v \in PpuType /\ v.sl = q.sl /\ v.dot = q.dot /\ v.soam = q.soam
       /\ v.soam_index = q.soam_index /\ v.oam_index = q.oam_index /\ v.oam = q.oam
       /\ v.show = q.show
       /\ ~q.junk /\ q.sl \in 1..Lines - 1 =>
            \A x \in 0..Visible - 1 : Pixel(q, x, s) => Pixel(v, x, s + 1)
  BY <1>10, <1>11
<1> QED BY <1>12 DEF v, w, c

\* A dot that fetches.
LEMMA FetchingDot ==
  ASSUME NEW p, NEW access \in Accesses \cup {NoAccess}
  PROVE  LET v == TickPPU_active(p, access)
         IN  Sound(p) /\ p.sl \in 0..Lines /\ p.dot >= Visible /\ p.dot < FetchEnd =>
               /\ Sound(v)
               /\ \A o : PPUON(v) /\ Quiet(p, o) => Quiet(v, o)
<1> DEFINE v == TickPPU_active(p, access)
           q == runppu(Load(p), access)
           s == Slot(p)
           ends == (q.dot - Visible) % FetchDots = 0
           w == LayIn([q EXCEPT !.columns[s] = FetchedColumns(q, s)], s)
<1>1. ASSUME Sound(p), p.sl \in 0..Lines, p.dot >= Visible, p.dot < FetchEnd
      PROVE  Sound(v) /\ \A o : PPUON(v) /\ Quiet(p, o) => Quiet(v, o)
  <2>1. /\ p \in PpuType /\ Placed(p) /\ p.dot \in Nat /\ p.dot < LineEnd
        /\ p.dot > ClearDots /\ p.dot > 0
    BY <1>1, FieldTypes, Numbers DEF Sound
  <2>2. v = IF ends THEN w ELSE q
    <3>1. ~(p.dot < Visible)
      BY <1>1, <2>1, Numbers
    <3> QED BY <1>1, <3>1 DEF TickPPU_active, FetchDot
  <2>3. /\ q \in PpuType /\ q.sl = p.sl /\ q.dot = p.dot + 1 /\ q.soam = p.soam
        /\ q.soam_index = p.soam_index /\ q.columns = p.columns /\ q.line = p.line
        /\ q.oam_index \in {p.oam_index, Aligned(p.oam_index + 4)}
        /\ AttributesWired(p.oam) => AttributesWired(q.oam)
        /\ PPUON(p) /\ ((p.dot - Visible) % FetchDots # 0 => ~p.junk) => ~q.junk
    BY <2>1, LoadRuns
  <2> HIDE DEF q
  <2>4. /\ s \in 0..Slots - 1 /\ Laid(p.dot) = s
        /\ ~ends => p.dot + 1 < FetchEnd /\ Laid(p.dot + 1) = s
        /\ ends => Laid(p.dot + 1) = s + 1
    BY <1>1, <2>1, <2>3, SlotPlace
  <2> HIDE DEF s
  <2>5. /\ w \in PpuType /\ w.sl = q.sl /\ w.dot = q.dot /\ w.soam = q.soam
        /\ w.soam_index = q.soam_index /\ w.oam_index = q.oam_index /\ w.oam = q.oam
        /\ ~q.junk /\ q.sl \in 1..Lines - 1 =>
             \A x \in 0..Visible - 1 : Pixel(q, x, s) => Pixel(w, x, s + 1)
    BY <2>3, <2>4, SlotLaid
  <2> HIDE DEF v, w
  <2>6. /\ v \in PpuType /\ v.sl = p.sl /\ v.dot = p.dot + 1 /\ v.soam = p.soam
        /\ v.soam_index = p.soam_index /\ AttributesWired(v.oam)
        /\ v.oam_index \in {p.oam_index, Aligned(p.oam_index + 4)}
    <3>1. AttributesWired(p.oam)
      BY <2>1 DEF Placed
    <3> HIDE DEF ends
    <3>2. CASE ends
      BY <2>2, <2>3, <2>5, <3>1, <3>2
    <3>3. CASE ~ends
      BY <2>2, <2>3, <3>1, <3>3
    <3> QED BY <3>2, <3>3
  <2>7. /\ v.dot < LineEnd /\ v.dot > Visible /\ v.dot <= FetchEnd /\ v.dot # 0
        /\ ~(v.dot \in 1..ClearDots) /\ ~(v.dot \in ClearDots + 1..Visible)
        /\ ~(v.dot \in 1..Visible)
    <3>1. /\ Visible \in Nat /\ FetchEnd \in Nat /\ LineEnd \in Nat /\ FetchEnd < LineEnd
          /\ ClearDots \in Nat /\ Visible > ClearDots
      BY Numbers
    <3> QED BY <1>1, <2>1, <2>6, <3>1
  <2>8. Sound(v)
    <3>1. SlotIndex(v)
      <4>1. ~(p.dot \in 1..ClearDots)
        BY <2>1, Numbers
      <4>2. p.soam_index <= Slots
        BY <2>1, <4>1 DEF Placed, SlotIndex
      <4> QED BY <2>6, <2>7, <4>2 DEF SlotIndex
    <3>2. OamIndex(v)
      <4>1. p.oam_index \in Nat /\ OamSize \in Nat /\ OamSize >= 8
        BY <2>1, FieldTypes, Numbers
      <4>2. p.oam_index <= 2 * OamSize
        BY <2>1, <4>1 DEF Placed, OamIndex
      <4>3. p.oam_index + 4 \in Nat
        BY <4>1
      <4>4. Aligned(p.oam_index + 4) \in Nat /\ Aligned(p.oam_index + 4) < 2 * OamSize
        BY <4>3, AlignedType
      <4>5. v.oam_index <= 2 * OamSize
        BY <2>6, <4>1, <4>2, <4>4
      <4> QED BY <2>7, <4>5 DEF OamIndex
    <3>3. v.sl # Lines + 1
      BY <1>1, <2>6, Numbers
    <3>4. Placed(v)
      BY <2>6, <2>7, <3>1, <3>2, <3>3 DEF Placed
    <3>5. Drawn(v)
      <4>1. v.dot \in Nat /\ Visible \in Nat
        BY <2>6, FieldTypes, Numbers
      <4>2. ~(v.dot <= Visible)
        BY <2>7, <4>1
      <4> QED BY <4>2 DEF Drawn
    <3> QED BY <2>6, <3>4, <3>5 DEF Sound
  <2>9. ASSUME NEW o, PPUON(v), Quiet(p, o) PROVE Quiet(v, o)
    <3>1. Calm(v, o)
      BY <2>7, <2>9 DEF Calm
    <3>2. ~q.junk
      <4>1. p.dot \in Visible..FetchEnd - 1
        BY <1>1, <2>1, Numbers
      <4>2. (p.dot - Visible) % FetchDots # 0 => ~p.junk
        BY <2>9, <4>1 DEF Quiet, DrawnCalm
      <4> QED BY <2>3, <2>9, <4>2 DEF Quiet, Calm
    <3>3. ASSUME v.sl \in 1..Lines - 1, NEW x \in 0..Visible - 1
          PROVE  Pixel(v, x, Laid(v.dot))
      <4>1. Pixel(q, x, s)
        <5>1. Pixel(p, x, s)
          BY <1>1, <2>4, <2>6, <2>9, <3>3 DEF Quiet, DrawnCalm
        <5> QED BY <2>3, <5>1 DEF Pixel, Owner
      <4>2. CASE ends
        <5>1. v = w /\ Laid(v.dot) = s + 1
          BY <2>2, <2>4, <2>6, <4>2
        <5> QED BY <2>3, <2>5, <2>6, <3>2, <3>3, <4>1, <5>1
      <4>3. CASE ~ends
        <5>1. v = q /\ Laid(v.dot) = s
          BY <2>2, <2>4, <2>6, <4>3
        <5> QED BY <4>1, <5>1
      <4> QED BY <4>2, <4>3
    <3>4. ASSUME (v.dot - Visible) % FetchDots # 0 PROVE ~v.junk
      <4>1. v.dot = q.dot
        BY <2>3, <2>6
      <4>2. ~ends
        BY <3>4, <4>1
      <4>3. v = q
        BY <2>2, <4>2
      <4> QED BY <3>2, <4>3
    <3>5. DrawnCalm(v)
      BY <2>7, <3>3, <3>4 DEF DrawnCalm
    <3> QED BY <3>1, <3>5 DEF Quiet
  <2> QED BY <2>8, <2>9
<1> QED BY <1>1

\* A dot in the rest of a line, the last of which begins the next line.
LEMMA RestingDot ==
  ASSUME NEW p, NEW access \in Accesses \cup {NoAccess}
  PROVE  LET v == TickPPU_active(p, access)
         IN  Sound(p) /\ p.sl \in 0..Lines /\ p.dot >= FetchEnd =>
               /\ Sound(v)
               /\ \A o : PPUON(v) /\ Quiet(p, o) => Quiet(v, o)
<1> DEFINE v == TickPPU_active(p, access)
           q == runppu(p, access)
           l == p.sl + 1
<1>1. ASSUME Sound(p), p.sl \in 0..Lines, p.dot >= FetchEnd
      PROVE  Sound(v) /\ \A o : PPUON(v) /\ Quiet(p, o) => Quiet(v, o)
  <2>1. /\ p \in PpuType /\ Placed(p) /\ p.dot \in Nat /\ p.dot < LineEnd /\ p.dot > Visible
        /\ p.dot > ClearDots /\ p.sl \in Nat
    <3>1. p \in PpuType /\ Placed(p) /\ p.dot < LineEnd
      BY <1>1 DEF Sound, Placed
    <3>2. p.dot \in Nat /\ p.sl \in 0..Lines
      BY <1>1, <3>1, FieldTypes
    <3>3. /\ Visible \in Nat /\ FetchEnd \in Nat /\ ClearDots \in Nat /\ Visible > ClearDots
          /\ FetchEnd > Visible /\ Lines \in Nat
      BY Numbers
    <3> QED BY <1>1, <3>1, <3>2, <3>3
  <2>2. v = IF q.dot = LineEnd THEN [q EXCEPT !.dot = 0, !.sl = @ + 1] ELSE q
    <3>1. ~(p.dot < Visible) /\ ~(p.dot < FetchEnd)
      BY <1>1, <2>1, Numbers
    <3> QED BY <3>1 DEF TickPPU_active, RestDot
  <2>3. /\ q \in PpuType /\ Beside(p, q) /\ q.dot = p.dot + 1
        /\ q.oam_index \in {p.oam_index, Aligned(p.oam_index + 4)}
        /\ AttributesWired(p.oam) => AttributesWired(q.oam)
    BY <2>1, RunType
  <2> HIDE DEF q, v
  <2>4. /\ q.sl = p.sl /\ q.soam_index = p.soam_index /\ q.soam = p.soam /\ q.line = p.line
        /\ AttributesWired(q.oam)
    BY <2>1, <2>3 DEF Beside, Placed
  <2>5. q.soam_index <= Slots
    <3>1. ~(p.dot \in 1..ClearDots)
      BY <2>1, Numbers
    <3> QED BY <2>1, <2>4, <3>1 DEF Placed, SlotIndex
  <2>6. q.oam_index <= 2 * OamSize
    <3>1. p.oam_index \in Nat /\ OamSize \in Nat /\ OamSize >= 8
      BY <2>1, FieldTypes, Numbers
    <3>2. p.oam_index <= 2 * OamSize
      BY <2>1, <3>1 DEF Placed, OamIndex
    <3>3. p.oam_index + 4 \in Nat
      BY <3>1
    <3>4. Aligned(p.oam_index + 4) \in Nat /\ Aligned(p.oam_index + 4) < 2 * OamSize
      BY <3>3, AlignedType
    <3> QED BY <2>3, <3>1, <3>2, <3>4
  <2>7. /\ v \in PpuType /\ v.soam = p.soam /\ v.line = p.line /\ v.soam_index <= Slots
        /\ v.oam_index <= 2 * OamSize /\ AttributesWired(v.oam)
        /\ \/ v.dot = 0 /\ v.sl = l
           \/ v.dot = p.dot + 1 /\ v.dot < LineEnd /\ v.sl = p.sl
    <3>1. CASE q.dot = LineEnd
      <4>1. l \in 0..Lines + 1 /\ 0 \in 0..LineEnd
        BY <1>1, <2>1, Numbers
      <4>2. v = [q EXCEPT !.dot = 0, !.sl = l]
        BY <2>2, <2>4, <3>1
      <4> HIDE DEF l
      <4>3. v \in PpuType
        BY <2>3, <4>1, <4>2 DEF PpuType
      <4>4. /\ v.dot = 0 /\ v.sl = l /\ v.soam = q.soam /\ v.line = q.line
            /\ v.soam_index = q.soam_index /\ v.oam_index = q.oam_index /\ v.oam = q.oam
        BY <2>3, <4>2 DEF PpuType
      <4> QED BY <2>4, <2>5, <2>6, <4>3, <4>4
    <3>2. CASE q.dot # LineEnd
      <4>1. v = q
        BY <2>2, <3>2
      <4>2. LineEnd \in Nat
        BY Numbers
      <4>3. p.dot + 1 < LineEnd
        BY <2>1, <2>3, <3>2, <4>2
      <4> QED BY <2>3, <2>4, <2>5, <2>6, <4>1, <4>3
    <3> QED BY <3>1, <3>2
  <2>8. /\ v.dot < LineEnd /\ (v.sl = Lines + 1 => v.dot = 0)
        /\ ~(v.dot \in 1..ClearDots) /\ ~(v.dot \in ClearDots + 1..Visible)
        /\ ~(v.dot \in 1..Visible)
        /\ v.dot # 0 => v.dot > FetchEnd /\ v.dot > Visible
    <3>1. /\ Visible \in Nat /\ FetchEnd \in Nat /\ LineEnd \in Nat /\ LineEnd > 0
          /\ ClearDots \in Nat /\ Visible > ClearDots /\ Lines \in Nat
      BY Numbers
    <3> QED BY <1>1, <2>1, <2>7, <3>1
  <2>9. Sound(v)
    <3>1. Placed(v)
      BY <2>7, <2>8 DEF Placed, SlotIndex, OamIndex
    <3>2. Drawn(v)
      <4>1. CASE v.dot = 0
        <5>1. \A x \in 0..Visible - 1 : ~(x < v.dot)
          BY <4>1, Numbers
        <5> QED BY <5>1 DEF Drawn
      <4>2. CASE v.dot # 0
        <5>1. v.dot \in Nat /\ Visible \in Nat
          BY <2>7, FieldTypes, Numbers
        <5>2. ~(v.dot <= Visible)
          BY <2>8, <4>2, <5>1
        <5> QED BY <5>2 DEF Drawn
      <4> QED BY <4>1, <4>2
    <3> QED BY <2>7, <3>1, <3>2 DEF Sound
  <2>10. ASSUME NEW o, PPUON(v), Quiet(p, o) PROVE Quiet(v, o)
    <3>1. Calm(v, o)
      BY <2>8, <2>10 DEF Calm
    <3>2. ASSUME p.sl \in 1..Lines - 1, NEW x \in 0..Visible - 1 PROVE Pixel(v, x, Slots)
      <4>1. Laid(p.dot) = Slots /\ p.dot >= Visible
        BY <1>1, <2>1, Numbers DEF Laid
      <4>2. Pixel(p, x, Slots)
        BY <2>10, <3>2, <4>1 DEF Quiet, DrawnCalm
      <4> QED BY <2>7, <4>2 DEF Pixel, Owner
    <3>3. ASSUME v.sl \in 1..Lines - 1, v.dot >= Visible, NEW x \in 0..Visible - 1
          PROVE  Pixel(v, x, Laid(v.dot))
      <4>1. v.dot # 0
        BY <3>3, Numbers
      <4>2. v.sl = p.sl /\ v.dot >= FetchEnd
        <5>1. v.dot \in Nat /\ FetchEnd \in Nat
          BY <2>7, FieldTypes, Numbers
        <5> QED BY <2>7, <2>8, <4>1, <5>1
      <4>3. Laid(v.dot) = Slots
        BY <4>2 DEF Laid
      <4> QED BY <3>2, <3>3, <4>2, <4>3
    <3>4. ASSUME v.sl \in 2..Lines, v.dot = 0, NEW x \in 0..Visible - 1
          PROVE  Pixel(v, x, Slots)
      <4>1. p.sl \in 1..Lines - 1
        BY <2>1, <2>7, <3>4, Numbers
      <4> QED BY <3>2, <4>1
    <3>5. ~(v.dot \in Visible..FetchEnd - 1)
      BY <2>7, <2>8, FieldTypes, Numbers
    <3>6. DrawnCalm(v)
      BY <3>3, <3>4, <3>5 DEF DrawnCalm
    <3> QED BY <3>1, <3>6 DEF Quiet
  <2> QED BY <2>9, <2>10
<1> QED BY <1>1

\* A dot, wherever it is.
LEMMA AnyDot ==
  ASSUME NEW p, NEW access \in Accesses \cup {NoAccess}, Sound(p), p.sl # Lines + 1
  PROVE  LET v == TickPPU_active(p, access)
         IN  /\ Sound(v)
             /\ \A o : /\ access = NoAccess /\ PPUON(v)
                       /\ IF p.dot = 0 THEN o = p.overflow ELSE Quiet(p, o)
                       => Quiet(v, o)
<1> DEFINE v == TickPPU_active(p, access)
           goal == /\ Sound(v)
                   /\ \A o : /\ access = NoAccess /\ PPUON(v)
                             /\ IF p.dot = 0 THEN o = p.overflow ELSE Quiet(p, o)
                             => Quiet(v, o)
<1>1. p.dot \in Nat /\ p.sl \in 0..Lines
  <2>1. p \in PpuType /\ p.sl \in 0..Lines + 1 /\ Lines \in Nat
    BY FieldTypes, Numbers DEF Sound
  <2> QED BY <2>1, FieldTypes
<1>2. /\ Visible \in Nat /\ FetchEnd \in Nat /\ ClearDots \in Nat /\ Visible > ClearDots
      /\ FetchEnd > Visible /\ ClearDots > 0 /\ Lines \in Nat
  BY Numbers
<1> HIDE DEF v
<1>3. ASSUME p.sl = 0 /\ p.dot < Visible PROVE goal
  BY <1>3, BeforePicture DEF v
<1>4. ASSUME p.sl # 0 /\ p.dot < ClearDots PROVE goal
  BY <1>1, <1>2, <1>4, ClearingDot DEF v
<1>5. ASSUME p.sl # 0 /\ p.dot >= ClearDots /\ p.dot < Visible PROVE goal
  BY <1>1, <1>2, <1>5, SearchingDot DEF v
<1>6. ASSUME p.dot >= Visible /\ p.dot < FetchEnd PROVE goal
  BY <1>1, <1>2, <1>6, FetchingDot DEF v
<1>7. ASSUME p.dot >= FetchEnd PROVE goal
  <2>1. Sound(v) /\ \A o : PPUON(v) /\ Quiet(p, o) => Quiet(v, o)
    BY <1>1, <1>7, RestingDot DEF v
  <2>2. p.dot # 0
    BY <1>1, <1>2, <1>7
  <2> QED BY <2>1, <2>2
<1>8. goal
  BY <1>1, <1>2, <1>3, <1>4, <1>5, <1>6, <1>7
<1> QED BY <1>8 DEF v

-----------------------------------------------------------------------------
(***************************************************************************)
(* The invariant of the whole specification.                               *)
(***************************************************************************)
\* Blanking begins a frame in front of the picture.
LEMMA BlankingKeeps ==
  ASSUME IInv, Blanking
  PROVE  IInv'
<1> DEFINE p == ppu
           v == ppu'
           c == (p.cpu + 2) % 3
           no == FALSE
           pr == program
<1>1. /\ p \in PpuType /\ p.dot = 0 /\ program \in Programs
      /\ p.soam_index <= Slots /\ p.oam_index <= 2 * OamSize
  <2>1. p \in PpuType /\ Placed(p) /\ program \in Programs
    BY DEF IInv, Types
  <2>2. p.sl = Lines + 1 /\ p.dot = 0
    BY <2>1 DEF Blanking, InBlanking, Placed
  <2>3. ~(p.dot \in 1..ClearDots) /\ ~(p.dot \in ClearDots + 1..Visible)
    BY <2>2, Numbers
  <2> QED BY <2>1, <2>2, <2>3 DEF Placed, SlotIndex, OamIndex
<1>2. /\ pr.oam \in [0..OamSize - 1 -> Bytes] /\ AttributesWired(pr.oam)
      /\ pr.addr \in 0..OamSize - 1 /\ pr.tall \in BOOLEAN /\ pr.mask \in SUBSET Shown
  BY <1>1, ProgramsAssumption
<1>3. c \in 0..2 /\ no \in BOOLEAN /\ 0 \in 0..2 /\ 0 \in 0..Lines + 1
  <2>1. p.cpu \in 0..2
    BY <1>1 DEF PpuType
  <2>2. c \in 0..2
    BY <2>1
  <2> QED BY <2>2, Numbers
<1>4. v = [p EXCEPT !.sl = 0, !.cpu = c, !.oam = pr.oam,
                    !.addr = pr.addr, !.tall = pr.tall, !.mask = pr.mask,
                    !.show = pr.mask, !.install = 0, !.hit = no, !.overflow = no]
  BY DEF Blanking
<1>5. left' \in 0..MaxAccesses /\ program' = program
      /\ seen' = [seen EXCEPT !.now = no]
  BY Numbers DEF Blanking
<1>6. seen' \in SeenType /\ ~seen'.now
  <2>1. seen \in SeenType
    BY DEF IInv, Types
  <2> HIDE DEF no
  <2>2. seen' \in SeenType /\ seen'.now = no
    BY <1>3, <1>5, <2>1 DEF SeenType
  <2> QED BY <2>2 DEF no
<1> HIDE DEF p, v, c, no, pr
<1>7. v \in PpuType
  <2> DEFINE l == 0
             a == [p EXCEPT !.sl = l, !.cpu = c]
             b == [a EXCEPT !.oam = pr.oam, !.addr = pr.addr, !.tall = pr.tall, !.mask = pr.mask]
             d == [b EXCEPT !.show = pr.mask, !.install = 0, !.hit = no]
  <2>1. v = [d EXCEPT !.overflow = no]
    <3>1. p \in PpuType
      BY <1>1
    <3> QED BY ONLY <1>4, <3>1, SMTT(60) DEF PpuType
  <2>2. p \in PpuType /\ c \in 0..2 /\ l \in 0..Lines + 1
    BY <1>1, <1>3
  <2> HIDE DEF l
  <2>3. a \in PpuType
    BY ONLY <2>2 DEF PpuType
  <2> HIDE DEF a
  <2>4. b \in PpuType
    BY <1>2, <2>3 DEF PpuType
  <2> HIDE DEF b
  <2>5. d \in PpuType
    BY <1>2, <1>3, <2>4 DEF PpuType
  <2> HIDE DEF d
  <2> QED BY <1>3, <2>1, <2>5 DEF PpuType
<1>8. /\ v.sl = 0 /\ v.dot = p.dot /\ v.soam_index = p.soam_index
      /\ v.oam_index = p.oam_index /\ v.oam = pr.oam
  BY <1>1, <1>4 DEF PpuType
<1>9. Placed(v) /\ Drawn(v)
  <2>1. v.dot < LineEnd /\ ~(v.dot \in 1..ClearDots) /\ v.sl # Lines + 1
    BY <1>1, <1>8, Numbers
  <2> QED BY <1>1, <1>2, <1>8, <2>1 DEF Placed, SlotIndex, OamIndex, Drawn
<1>10. program' \in Programs
  BY <1>1, <1>5
<1> QED BY <1>5, <1>6, <1>7, <1>9, <1>10 DEF IInv, Types, v

\* A dot, whatever the program writes in it.
LEMMA DotKeeps ==
  ASSUME IInv, NEW access \in Accesses \cup {NoAccess}, Dot(access)
  PROVE  IInv'
<1> DEFINE p == ppu
           v == TickPPU_active(ppu, access)
           now == access = NoAccess /\ v.show = p.show /\ PPUON(v) /\ (p.dot = 0 \/ seen.now)
           before == IF p.dot = 0 THEN seen.now ELSE seen.before
           o == IF p.dot = 0 THEN p.overflow ELSE seen.overflow
<1>1. /\ p \in PpuType /\ Sound(p) /\ program \in Programs /\ left \in 0..MaxAccesses
      /\ seen \in SeenType /\ (seen.now => Quiet(p, seen.overflow))
  BY DEF IInv, Types, Sound, Quiet
<1>2. /\ p.sl # Lines + 1 /\ ppu' = v /\ program' = program
      /\ access # NoAccess => left > 0
      /\ left' = IF access = NoAccess THEN left ELSE left - 1
  BY DEF Dot, InBlanking
<1>3. seen' = [now |-> now, before |-> before, overflow |-> o]
  BY DEF Dot
<1>4. left' \in 0..MaxAccesses /\ program' \in Programs
  BY <1>1, <1>2, Numbers
<1>5. /\ Sound(v)
      /\ \A f : /\ access = NoAccess /\ PPUON(v)
                /\ IF p.dot = 0 THEN f = p.overflow ELSE Quiet(p, f)
                => Quiet(v, f)
  BY <1>1, <1>2, AnyDot
<1>6. now => Quiet(v, o)
  <2> HIDE DEF v
  <2>1. ASSUME now PROVE access = NoAccess /\ PPUON(v) /\ (p.dot # 0 => seen.now)
    BY <2>1
  <2>2. ASSUME now, p.dot = 0 PROVE Quiet(v, o)
    <3>1. o = p.overflow
      BY <2>2
    <3> HIDE DEF o, now
    <3> QED BY <1>5, <2>1, <2>2, <3>1
  <2>3. ASSUME now, p.dot # 0 PROVE Quiet(v, o)
    <3>1. o = seen.overflow
      BY <2>3
    <3> HIDE DEF o, now
    <3> QED BY <1>1, <1>5, <2>1, <2>3, <3>1
  <2> HIDE DEF o, now
  <2> QED BY <2>2, <2>3
<1>7. seen' \in SeenType
  <2>1. seen.now \in BOOLEAN /\ seen.before \in BOOLEAN /\ seen.overflow \in BOOLEAN
    BY <1>1 DEF SeenType
  <2>2. p.overflow \in BOOLEAN
    BY <1>1, FieldTypes
  <2>3. now \in BOOLEAN /\ before \in BOOLEAN /\ o \in BOOLEAN
    BY <2>1, <2>2
  <2> HIDE DEF now, before, o
  <2> QED BY <1>3, <2>3 DEF SeenType
<1> HIDE DEF now, before, o, v
<1>8. seen'.now = now /\ seen'.overflow = o
  BY <1>3
<1>9. ppu' \in PpuType /\ Placed(ppu)' /\ Drawn(ppu)'
  BY <1>2, <1>5 DEF Sound, Placed, SlotIndex, OamIndex, Drawn
<1>10. seen'.now => Quiet(ppu', seen'.overflow)
  BY <1>2, <1>6, <1>8
<1> QED BY <1>4, <1>7, <1>9, <1>10 DEF IInv, Types, Quiet

\* The console is turned on in vertical blanking.
LEMMA InitKeeps == Init => IInv
<1> SUFFICES ASSUME Init PROVE IInv
  OBVIOUS
<1> DEFINE no == FALSE
           p == ppu
<1>1. /\ 0 \in 0..LineEnd /\ 0 \in 0..OamSize - 1 /\ Lines + 1 \in 0..Lines + 1
      /\ 0 \in Bytes /\ Short \in 1..Tall /\ None \in 0..Slots /\ no \in BOOLEAN
      /\ {} \in Tiles /\ {} \in SUBSET Shown /\ 0 \in 0..3 /\ 0 \in 0..2 /\ 0 \in Nat
  BY Numbers DEF Tiles
<1>2. /\ [i \in 0..OamSize - 1 |-> 0] \in [0..OamSize - 1 -> Bytes]
      /\ [i \in 0..4 * Slots - 1 |-> 0] \in [0..4 * Slots - 1 -> Bytes]
      /\ [s \in 0..Slots - 1 |-> {}] \in [0..Slots - 1 -> Tiles]
      /\ [x \in 0..Visible - 1 |-> None] \in [0..Visible - 1 -> 0..Slots]
  BY <1>1
<1> DEFINE e == {}
           z == 0
           l == Lines + 1
           oam == [i \in 0..OamSize - 1 |-> 0]
           soam == [i \in 0..4 * Slots - 1 |-> 0]
           columns == [s \in 0..Slots - 1 |-> {}]
           line == [x \in 0..Visible - 1 |-> None]
<1>3. p = [sl |-> l, dot |-> z, cpu |-> z, addr |-> z, tall |-> no, mask |-> e,
            install |-> z, show |-> e, overflow |-> no, hit |-> no,
            oam |-> oam, soam |-> soam,
            read_value |-> z, oam_index |-> z, soam_index |-> z, true_count |-> z,
            write |-> no, zero_in_range |-> no, zero_go |-> no, height |-> Short,
            objects |-> no, was_on |-> no, junk |-> no,
            columns |-> columns, line |-> line]
  BY DEF Init
<1>4. AttributesWired(oam)
  <2>1. ASSUME NEW i \in 0..NumSprites - 1 PROVE oam[4 * i + 2] # Blank
    <3>1. 4 * i + 2 \in 0..OamSize - 1 /\ Blank # 0
      BY Numbers
    <3> QED BY <3>1
  <2> QED BY <2>1 DEF AttributesWired
<1>5. z = 0 /\ l = Lines + 1
  OBVIOUS
<1>6. /\ z \in 0..LineEnd /\ z \in 0..OamSize - 1 /\ l \in 0..Lines + 1
      /\ z \in Bytes /\ e \in SUBSET Shown /\ z \in 0..3 /\ z \in 0..2 /\ z \in Nat
  BY <1>1
<1>7. /\ oam \in [0..OamSize - 1 -> Bytes] /\ soam \in [0..4 * Slots - 1 -> Bytes]
      /\ columns \in [0..Slots - 1 -> Tiles] /\ line \in [0..Visible - 1 -> 0..Slots]
  BY <1>2
<1> HIDE DEF no, e, z, l, oam, soam, columns, line
<1>8. ppu \in PpuType
  BY <1>1, <1>3, <1>6, <1>7 DEF PpuType
<1>9. ppu.sl = l /\ ppu.dot = z /\ ppu.soam_index = z /\ ppu.oam_index = z /\ ppu.oam = oam
  BY <1>3
<1> HIDE DEF p
<1>10. Placed(ppu)
  <2>1. 0 < LineEnd /\ ~(0 \in 1..ClearDots) /\ 0 <= Slots /\ 0 <= 2 * OamSize
        /\ ~(0 \in ClearDots + 1..Visible)
    BY Numbers
  <2> QED BY <1>4, <1>5, <1>9, <2>1 DEF Placed, SlotIndex, OamIndex
<1>11. Drawn(ppu)
  <2>1. \A x \in 0..Visible - 1 : ~(x < 0)
    BY Numbers
  <2> QED BY <1>5, <1>9, <2>1 DEF Drawn
<1>12. program \in Programs /\ left \in 0..MaxAccesses /\ seen \in SeenType /\ ~seen.now
  BY Numbers DEF Init, SeenType
<1> QED BY <1>8, <1>10, <1>11, <1>12 DEF IInv, Types

\* Nothing the PPU does depends on a step that changes nothing.
LEMMA StepKeeps == IInv /\ [Next]_vars => IInv'
<1> SUFFICES ASSUME IInv, [Next]_vars PROVE IInv'
  OBVIOUS
<1>1. CASE UNCHANGED vars
  BY <1>1 DEF vars, IInv, Types, Placed, SlotIndex, OamIndex, Drawn, Calm, DrawnCalm, PPUON,
     Height, Cleared, Searched, Looking, Full, Over, Pixel, Owner
<1>2. ASSUME NEW access \in Accesses \cup {NoAccess}, Dot(access) PROVE IInv'
  BY <1>2, DotKeeps
<1>3. CASE Blanking
  BY <1>3, BlankingKeeps
<1> QED BY <1>1, <1>2, <1>3 DEF Next

(***************************************************************************)
(* The invariant holds.                                                    *)
(***************************************************************************)
THEOREM SpritesInv == Spec => []IInv
BY InitKeeps, StepKeeps, PTL DEF Spec

(***************************************************************************)
(* Whatever a program writes and when, every index that evaluation and     *)
(* registers move stays inside its array where it is used, and no sprite   *)
(* of OAM looks like a cleared slot.                                       *)
(***************************************************************************)
THEOREM SpritesTyped == Spec => []TypeOK
<1>1. IInv => TypeOK
  <2> SUFFICES ASSUME IInv PROVE TypeOK
    OBVIOUS
  <2>1. /\ ppu \in PpuType /\ Placed(ppu) /\ left \in 0..MaxAccesses /\ seen \in SeenType
    BY DEF IInv, Types
  <2>2. /\ ppu.sl \in 0..Lines + 1 /\ ppu.addr \in 0..OamSize - 1 /\ ppu.true_count \in 0..3
        /\ ppu.dot \in Nat /\ ppu.oam_index \in Nat /\ ppu.soam_index \in Nat
    BY <2>1, FieldTypes
  <2>3. LineEnd \in Nat /\ OamSize \in Nat /\ Slots \in Nat /\ ClearDots = 8 * Slots
    BY Numbers
  <2>4. ppu.dot \in 0..LineEnd - 1
    BY <2>1, <2>2, <2>3 DEF Placed
  <2>5. ppu.oam_index \in 0..(IF Searching THEN OamSize + 8 ELSE 2 * OamSize)
    BY <2>1, <2>2, <2>3 DEF Placed, OamIndex, Searching
  <2>6. ppu.soam_index \in 0..(IF ppu.dot \in 1..ClearDots THEN 4 * Slots ELSE Slots)
    <3>1. CASE ppu.dot \in 1..ClearDots
      <4>1. ppu.dot \div 2 \in 0..4 * Slots
        BY <2>2, <2>3, <3>1
      <4>2. ppu.soam_index = 0 \/ ppu.soam_index = ppu.dot \div 2
        BY <2>1, <3>1 DEF Placed, SlotIndex
      <4> QED BY <2>2, <2>3, <3>1, <4>1, <4>2
    <3>2. CASE ~(ppu.dot \in 1..ClearDots)
      BY <2>1, <2>2, <2>3, <3>2 DEF Placed, SlotIndex
    <3> QED BY <3>1, <3>2
  <2>7. AttributesWired(ppu.oam) /\ seen.now \in BOOLEAN
    BY <2>1 DEF Placed, SeenType
  <2>8. ppu.true_count > 0 => ppu.soam_index <= Slots
    BY <2>1, <2>2 DEF Placed, SlotIndex
  <2> QED BY <2>1, <2>2, <2>4, <2>5, <2>6, <2>7, <2>8 DEF TypeOK
<1> QED BY <1>1, SpritesInv, PTL

\* What the search was to find, said with ppu.
LEMMA FoundInLine == Found = InLine(ppu) /\ \A i : FoundBefore(i) = Count(ppu, i)
<1>1. Found = InLine(ppu)
  BY DEF Found, InLine
<1>2. ASSUME NEW i PROVE FoundBefore(i) = Count(ppu, i)
  BY <1>1 DEF FoundBefore, Count, Before
<1> QED BY <1>1, <1>2

\* A search left alone has found the sprites of the line.
LEMMA LineFound == IInv => LineEvaluated
<1> SUFFICES ASSUME IInv, ppu.dot = Visible, ppu.sl > 0, seen.now, ppu.addr % 4 = 0
             PROVE  SlotsTaken /\ ZeroFlagged /\ OverflowFound
  BY DEF LineEvaluated
<1> DEFINE f == ppu.addr \div 4
           o == seen.overflow
<1>1. ppu \in PpuType /\ Calm(ppu, o)
  BY DEF IInv, Types
<1>2. f \in 0..NumSprites - 1 /\ ppu.addr = 4 * f
  <2>1. ppu.addr \in 0..4 * NumSprites - 1 /\ NumSprites \in Nat
    BY <1>1, FieldTypes, Numbers
  <2> QED BY <2>1
<1>3. ppu.dot \in ClearDots + 1..Visible
  BY Numbers
<1> HIDE DEF f, o
<1>4. Searched(ppu, Visible, o, f)
  BY <1>1, <1>2, <1>3 DEF Calm
<1>5. /\ \A j \in InLine(ppu) : Count(ppu, j) < Slots =>
           \A b \in 0..3 : ppu.soam[4 * Count(ppu, j) + b] = ppu.oam[4 * j + b]
      /\ \A s \in 0..Slots - 1 : s >= Cardinality(InLine(ppu)) => ppu.soam[4 * s + 2] = Blank
      /\ ppu.zero_in_range <=> InRange(ppu, ppu.oam[ppu.addr])
      /\ ppu.overflow /\ ~o => Cardinality(InLine(ppu)) >= Slots
      /\ \A j \in InLine(ppu) : Count(ppu, j) = Slots - 1 /\ j + 1 \in InLine(ppu) => ppu.overflow
  BY <1>1, <1>2, <1>4, SearchDone
<1>6. SlotsTaken
  BY <1>5, FoundInLine DEF SlotsTaken
<1>7. ZeroFlagged
  BY <1>5 DEF ZeroFlagged
<1>8. OverflowFound
  BY <1>5, FoundInLine DEF OverflowFound, o
<1> QED BY <1>6, <1>7, <1>8

\* A line left alone has the pixels of its sprites and no other.
LEMMA Owned == IInv => PixelsOwned
<1> SUFFICES ASSUME IInv PROVE PixelsOwned
  OBVIOUS
<1>1. ppu \in PpuType /\ Drawn(ppu) /\ (seen.now => DrawnCalm(ppu))
  BY DEF IInv, Types
<1>2. DOMAIN ppu.line = 0..Visible - 1
  BY <1>1 DEF PpuType
<1>3. ASSUME ppu.dot = 0, ppu.sl \in 2..Lines, seen.now, NEW x \in 0..Visible - 1
      PROVE  ppu.line[x] = IF Owners(x) = {} THEN None ELSE Min(Owners(x))
  <2>1. Pixel(ppu, x, Slots)
    BY <1>1, <1>3 DEF DrawnCalm
  <2>2. Owners(x) = {s \in 0..Slots - 1 : Owner(ppu, x, s)}
    BY DEF Owners, Owner
  <2>3. CASE ppu.line[x] = None /\ \A s \in 0..Slots - 1 : ~Owner(ppu, x, s)
    <3>1. Owners(x) = {}
      BY <2>2, <2>3
    <3> QED BY <2>3, <3>1
  <2>4. CASE /\ ppu.line[x] \in 0..Slots - 1 /\ Owner(ppu, x, ppu.line[x])
             /\ \A s \in 0..ppu.line[x] - 1 : ~Owner(ppu, x, s)
    <3> DEFINE m == ppu.line[x]
               S == Owners(x)
    <3>1. m \in S /\ S \subseteq 0..Slots - 1 /\ m \in Nat
      BY <2>2, <2>4, Numbers
    <3>2. \A s \in S : m <= s
      <4>1. ASSUME NEW s \in S, ~(m <= s) PROVE FALSE
        <5>1. s \in 0..m - 1
          BY <3>1, <4>1, Numbers
        <5> QED BY <2>2, <2>4, <4>1, <5>1
      <4> QED BY <4>1
    <3> HIDE DEF m, S
    <3>3. \A s \in S : (\A y \in S : s <= y) => s = m
      BY <3>1, <3>2, Numbers
    <3>4. Min(S) = m
      BY <3>1, <3>2, <3>3, Zenon DEF Min
    <3> QED BY <3>1, <3>4 DEF m, S
  <2> QED BY <2>1, <2>3, <2>4 DEF Pixel
<1>4. ASSUME ppu.sl > 0, NEW x \in 0..Visible - 1, x < ppu.dot, ppu.dot <= Visible
      PROVE  ppu.line[x] = None
  BY <1>1, <1>4 DEF Drawn
<1> QED BY <1>2, <1>3, <1>4 DEF PixelsOwned

(***************************************************************************)
(* A line that the program leaves alone shows exactly the sprites that the *)
(* line before it found, and it found the first sprites in range.          *)
(***************************************************************************)
THEOREM SpritesShown == Spec => []LinesShowSprites
<1>1. IInv => LinesShowSprites
  BY LineFound, Owned DEF LinesShowSprites
<1> QED BY <1>1, SpritesInv, PTL
=============================================================================

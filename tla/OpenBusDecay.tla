---------------------------- MODULE OpenBusDecay ----------------------------
(***************************************************************************)
(* The batched open-bus decay of nesPpu.hpp.  The None decay is due once   *)
(* per CPU cycle; the code only counts the steps it owes (decay_pending)   *)
(* and materialises them in PpuOpenBusDecayFlush before an observation, or *)
(* when decay_next_check says the earliest bit-clear comes due.            *)
(*                                                                         *)
(* OpenBus is the specification it has to implement.                       *)
(***************************************************************************)
EXTENDS Naturals

CONSTANTS Bits, HighBits, LowBits, Period

ASSUME BitsAssumption == Bits # {} /\ HighBits \subseteq Bits /\ LowBits \subseteq Bits
ASSUME PeriodAssumption == Period \in Nat \ {0}

VARIABLES
  bus,         \* ppu_open_bus, as the set of its 1 bits
  timer,       \* ppu_open_bus_decay_timer
  pending,     \* decay_pending
  next_check,  \* decay_next_check
  returned,    \* the byte the last register read returned to the CPU
  saved        \* what the last save wrote of ppu_open_bus and its timers

busVars == <<bus, timer, pending, next_check, returned, saved>>

Byte == SUBSET Bits

Snapshot(b, t) == [bus |-> b, timer |-> t]

MinTimer(t) == CHOOSE m \in {t[i] : i \in Bits} : \A i \in Bits : m <= t[i]

(***************************************************************************)
(* recomputeDecayCheck: a bit with timer t clears on the (t+1)-th step.    *)
(***************************************************************************)
RecomputeDecayCheck(t) == MinTimer(t) + 1

(***************************************************************************)
(* The inner loop of PpuOpenBusDecayFlush for one bit: k owed steps take   *)
(* its timer from t to FlushedTimer(t, k) and clear it if its timer passed *)
(* through zero on the way.                                                *)
(***************************************************************************)
FlushedTimer(t, k) ==
  IF k <= t THEN t - k ELSE Period - ((k - t - 1) % (Period + 1))

FlushClears(t, k) == k > t

\* Fault: a bit that is cleared does not get its timer back.
FlushedTimersUnloaded(t, k) == [i \in Bits |-> t[i] - k]

FlushedTimers(t, k) == [i \in Bits |-> FlushedTimer(t[i], k)]

FlushedBus(b, t, k) == {i \in b : ~FlushClears(t[i], k)}

Refresh(t, S) == [i \in Bits |-> IF i \in S THEN Period ELSE t[i]]

Drive(b, S, v) == (b \ S) \cup v

BusInit ==
  /\ bus = {}
  /\ timer = [i \in Bits |-> 0]
  /\ pending = 0
  /\ next_check = RecomputeDecayCheck([i \in Bits |-> 0])
  /\ returned = {}
  /\ saved = Snapshot({}, [i \in Bits |-> 0])

(***************************************************************************)
(* PpuOpenBusDecay(None), at the end of every CPU cycle of runppu.         *)
(***************************************************************************)
DecayNone ==
  /\ IF pending + 1 >= next_check
       THEN /\ bus' = FlushedBus(bus, timer, pending + 1)
            /\ timer' = FlushedTimers(timer, pending + 1)
            /\ pending' = 0
            /\ next_check' = RecomputeDecayCheck(timer')
       ELSE /\ pending' = pending + 1
            /\ UNCHANGED <<bus, timer, next_check>>
  /\ UNCHANGED <<returned, saved>>

(***************************************************************************)
(* WriteReg flushes, then puts the value on the bus; it resets no timer.   *)
(***************************************************************************)
WriteReg(v) ==
  /\ bus' = v
  /\ timer' = FlushedTimers(timer, pending)
  /\ pending' = 0
  /\ next_check' = RecomputeDecayCheck(timer')
  /\ UNCHANGED <<returned, saved>>

\* Fault: a read resets its timers while the steps owed are still owed.
ReadRegUnflushed(S, v) ==
  LET b == Drive(bus, S, v) IN
  /\ bus' = b
  /\ returned' = b
  /\ timer' = Refresh(timer, S)
  /\ next_check' = RecomputeDecayCheck(timer')
  /\ UNCHANGED <<pending, saved>>

(***************************************************************************)
(* ReadReg of a register that drives the lines S with v, then resets their *)
(* timers: S is HighBits for read_2002 (DecayType::High), Bits for         *)
(* read_2004 and a buffered read_2007 (All), LowBits for a palette         *)
(* read_2007 (Low), and empty for the write-only registers and the second  *)
(* of two back-to-back $2007 reads.                                        *)
(***************************************************************************)
ReadReg(S, v) ==
  LET b == Drive(FlushedBus(bus, timer, pending), S, v) IN
  /\ bus' = b
  /\ returned' = b
  /\ timer' = Refresh(FlushedTimers(timer, pending), S)
  /\ pending' = 0
  /\ next_check' = RecomputeDecayCheck(timer')
  /\ UNCHANGED saved

(***************************************************************************)
(* PeekReg: a debugger's look flushes too, and must not change the bus.    *)
(***************************************************************************)
PeekReg ==
  /\ bus' = FlushedBus(bus, timer, pending)
  /\ timer' = FlushedTimers(timer, pending)
  /\ pending' = 0
  /\ next_check' = RecomputeDecayCheck(timer')
  /\ UNCHANGED <<returned, saved>>

(***************************************************************************)
(* PPU::Reset, from a soft reset or the constructor.                       *)
(***************************************************************************)
Reset ==
  /\ bus' = {}
  /\ timer' = [i \in Bits |-> 0]
  /\ pending' = 0
  /\ next_check' = RecomputeDecayCheck(timer')
  /\ UNCHANGED <<returned, saved>>

(***************************************************************************)
(* syncPpu with a StateSaver: flush, write the fields out, re-derive the   *)
(* checkpoint.                                                             *)
(***************************************************************************)
SaveState ==
  /\ bus' = FlushedBus(bus, timer, pending)
  /\ timer' = FlushedTimers(timer, pending)
  /\ pending' = 0
  /\ next_check' = RecomputeDecayCheck(timer')
  /\ saved' = Snapshot(bus', timer')
  /\ UNCHANGED returned

\* Fault: a load keeps the checkpoint of the timers it has overwritten.
LoadStateStale ==
  /\ bus' = saved.bus
  /\ timer' = saved.timer
  /\ pending' = 0
  /\ UNCHANGED <<next_check, returned, saved>>

(***************************************************************************)
(* syncPpu with a StateLoader: flush, overwrite the fields, re-derive the  *)
(* checkpoint from the timers just loaded.                                 *)
(***************************************************************************)
LoadState ==
  /\ bus' = saved.bus
  /\ timer' = saved.timer
  /\ pending' = 0
  /\ next_check' = RecomputeDecayCheck(timer')
  /\ UNCHANGED <<returned, saved>>

BusNext ==
  \/ DecayNone
  \/ \E v \in Byte : WriteReg(v)
  \/ \E S \in {{}, HighBits, LowBits, Bits} : \E v \in SUBSET S : ReadReg(S, v)
  \/ PeekReg
  \/ Reset
  \/ SaveState
  \/ LoadState

BusSpec == BusInit /\ [][BusNext]_busVars
-----------------------------------------------------------------------------
Timers == [Bits -> 0..Period]

\* Type invariant of the open-bus fields.
BusTypeOK ==
  /\ bus \in Byte
  /\ timer \in Timers
  /\ pending \in Nat
  /\ next_check \in Nat
  /\ returned \in Byte
  /\ saved \in [bus : Byte, timer : Timers]

\* decay_next_check is never stale: it is the step at which the earliest clear
\* comes due, through every timer reset, savestate load and reset.
CheckpointExact ==
  /\ \A i \in Bits : next_check <= timer[i] + 1
  /\ \E i \in Bits : next_check = timer[i] + 1

\* The steps owed between two flushes never reach the checkpoint, so no
\* bit-clear is ever owed: ppu_open_bus itself is right at all times, and one
\* flush clears each bit at most once.
NoClearOwed == pending < next_check

\* A bit is cleared in the very cycle in which the per-cycle decay clears it:
\* the checkpoint is exact and never passed by the owed steps.
ClearsOnTime == CheckpointExact /\ NoClearOwed

(***************************************************************************)
(* The per-cycle bus seen through the batching: the owed steps are taken   *)
(* off every timer.                                                        *)
(***************************************************************************)
PerCycle == INSTANCE OpenBus WITH timer <- [i \in Bits |-> timer[i] - pending]

\* The batched decay is bit-exact with the per-cycle original: every register
\* access returns the byte it would return if the None decay ran each cycle
\* ("Bit-exact with the per-cycle original", nesPpu.hpp).
BatchingIsBitExact == PerCycle!Spec
=============================================================================

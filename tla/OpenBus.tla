------------------------------ MODULE OpenBus ------------------------------
(***************************************************************************)
(* What the PPU's open bus promises, one CPU cycle at a time: the meaning  *)
(* nesPpu.hpp gives to DecayType::None ("if there is no action, decrement  *)
(* the timer"; a timer that is already 0 clears its bit and reloads).      *)
(* This is the per-cycle original that the batched implementation in       *)
(* OpenBusDecay claims to reproduce bit for bit.                           *)
(*                                                                         *)
(* A byte on the bus is the set of its 1 bits.                             *)
(***************************************************************************)
EXTENDS Naturals

CONSTANTS
  Bits,      \* the bus lines; 0..7 in the code
  HighBits,  \* the lines $2002 drives and refreshes; 5..7 in the code
  LowBits,   \* the lines a palette read drives and refreshes; 0..5 in the code
  Period     \* cycles a refreshed line keeps its value; 1786840 in the code

VARIABLES
  bus,       \* ppu_open_bus
  timer,     \* ppu_open_bus_decay_timer
  returned,  \* the byte the last register read returned to the CPU
  saved      \* the bus and its timers as a savestate holds them

vars == <<bus, timer, returned, saved>>

Snapshot(b, t) == [bus |-> b, timer |-> t]

Refresh(t, S) == [i \in Bits |-> IF i \in S THEN Period ELSE t[i]]

(***************************************************************************)
(* A register that drives the lines S puts v there and leaves the others.  *)
(***************************************************************************)
Drive(b, S, v) == (b \ S) \cup v

Init ==
  /\ bus = {}
  /\ timer = [i \in Bits |-> 0]
  /\ returned = {}
  /\ saved = Snapshot({}, [i \in Bits |-> 0])

(***************************************************************************)
(* One CPU cycle without any action on the bus.                            *)
(***************************************************************************)
Cycle ==
  /\ bus' = {i \in bus : timer[i] # 0}
  /\ timer' = [i \in Bits |-> IF timer[i] = 0 THEN Period ELSE timer[i] - 1]
  /\ UNCHANGED <<returned, saved>>

(***************************************************************************)
(* The CPU writes a register: the value stays on the bus, timers run on.   *)
(***************************************************************************)
Write(v) ==
  /\ bus' = v
  /\ UNCHANGED <<timer, returned, saved>>

(***************************************************************************)
(* The CPU reads a register that drives and refreshes the lines S.  The    *)
(* write-only registers drive none.                                        *)
(***************************************************************************)
Read(S, v) ==
  /\ bus' = Drive(bus, S, v)
  /\ returned' = Drive(bus, S, v)
  /\ timer' = Refresh(timer, S)
  /\ UNCHANGED saved

Reset ==
  /\ bus' = {}
  /\ timer' = [i \in Bits |-> 0]
  /\ UNCHANGED <<returned, saved>>

Save ==
  /\ saved' = Snapshot(bus, timer)
  /\ UNCHANGED <<bus, timer, returned>>

Load ==
  /\ bus' = saved.bus
  /\ timer' = saved.timer
  /\ UNCHANGED <<returned, saved>>

Next ==
  \/ Cycle
  \/ \E v \in SUBSET Bits : Write(v)
  \/ \E S \in {{}, HighBits, LowBits, Bits} : \E v \in SUBSET S : Read(S, v)
  \/ Reset
  \/ Save
  \/ Load

Spec == Init /\ [][Next]_vars
=============================================================================

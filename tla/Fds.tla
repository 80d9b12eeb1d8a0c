-------------------------------- MODULE Fds --------------------------------
(***************************************************************************)
(* The disk system: the drive (FdsDrive, nesFds.hpp), the RAM adapter's    *)
(* registers, timer and interrupt (NesBoard::Fds, nesBoards.hpp, and its   *)
(* handlers in nes.hpp), and the front end that ejects, inserts and saves. *)
(* The bits under the head are kept; the two shift registers are kept as   *)
(* positions only, so what they write, and whether the CRC comes out       *)
(* right, is a free choice.  Left out: the CRC, the sound channel, $4026,  *)
(* and the write protection no inserted side has.                          *)
(***************************************************************************)
EXTENDS Integers, Sequences, FiniteSets

CONSTANTS
  Image,        \* per side, from 0, the bits of the disk as loaded
  ByteBits,     \* bits of a byte: 8 in the code
  Cycles,       \* SetCycles: dots the drive waits in each of its states
  DummyBits,    \* bits MoveDummy skips: 5000 in the code
  Programs,     \* bound: what a program and its user do: uses, the registers accessed
                \*   and "disk" if it is changed; controls, the values written to $4025,
                \*   as sets of its bits
  MaxFlips,     \* bound: bits of the disks that are set and were not in the image
  MaxRestarts   \* bound: sessions after the first

Sides == DOMAIN Image
DiskSize == Len(Image[0])

ASSUME ImageAssumption ==
  /\ 0 \in Sides /\ Sides \subseteq Nat
  /\ DiskSize \in Nat \ {0}
  /\ Image \in [Sides -> [1..DiskSize -> 0..1]]

States == {"Running", "Inserting", "Spinup", "Idle", "Reset"}

ASSUME CyclesAssumption == Cycles \in [States -> Nat \ {0}]

ASSUME BitsAssumption == ByteBits \in Nat \ {0} /\ DummyBits \in Nat

ControlBits == {"motor", "reset", "read", "mirror", "crc", "start", "irq"}

ASSUME ProgramsAssumption == \A p \in Programs : p.controls \subseteq SUBSET ControlBits

VARIABLES
  program,                  \* the member of Programs that runs, chosen once
  slot,                     \* 0: CPU access, 1: accessed, 2..4: before a dot of the cycle
  drive, currentside, diskdiffs,
  timer,                    \* the fields of Fds that belong to its timer
  diskenable, diskirq, IrqSignal, _mirroring,
  content,                  \* history: what is written on each side
  kept,                     \* history: what each side held when last ejected or saved
  restarts

vars == <<program, slot, drive, currentside, diskdiffs, timer, diskenable, diskirq,
          IrqSignal, _mirroring, content, kept, restarts>>

-----------------------------------------------------------------------------
(***************************************************************************)
(* The drive.                                                              *)
(***************************************************************************)
SetCycles(d) == [d EXCEPT !.cycleswaiting = Cycles[d.state]]

Move(d, state) == SetCycles([d EXCEPT !.state = state])

Xor(a, b) == [i \in DOMAIN a |-> (a[i] + b[i]) % 2]

NoDisk ==
  [disk |-> <<>>, originaldisk |-> <<>>, diskpos |-> 0, cycleswaiting |-> 0, state |-> "Idle",
   cached4025 |-> {}, irq |-> FALSE, transferreset |-> FALSE, readregpos |-> 0,
   writeregpos |-> 0, bytetransferflag |-> FALSE, lookingforendofgap |-> FALSE]

Insert(d, side) ==
  Move([d EXCEPT !.disk = Image[side], !.originaldisk = Image[side], !.diskpos = 0], "Inserting")

ApplyDiff(d, diff) == IF diff = <<>> THEN d ELSE [d EXCEPT !.disk = Xor(@, diff)]

MakeDiff(d) == Xor(d.disk, d.originaldisk)

\* Fault: the copy the differences are taken from is made after the old ones went in.
InsertSideLate(d, side, diffs) ==
  LET t == ApplyDiff(Insert(d, side), diffs[side]) IN [t EXCEPT !.originaldisk = t.disk]

InsertSide(d, side, diffs) == ApplyDiff(Insert(d, side), diffs[side])

EjectDrive(d) == Move([d EXCEPT !.disk = <<>>], "Idle")

\* The end of a byte, of either register.
Transferred(d) ==
  [d EXCEPT !.bytetransferflag = TRUE, !.irq = @ \/ "irq" \in d.cached4025]

(***************************************************************************)
(* One bit under the head, in each of the three modes.                     *)
(***************************************************************************)
ReadBit(d) ==
  LET bit   == d.disk[d.diskpos + 1]
      ended == d.readregpos + 1 = ByteBits
      t     == [d EXCEPT !.diskpos = @ + 1]
  IN  IF d.lookingforendofgap /\ "crc" \notin d.cached4025
      THEN IF bit = 1 THEN [t EXCEPT !.lookingforendofgap = FALSE, !.readregpos = 0] ELSE t
      ELSE IF ended
      THEN [Transferred(t) EXCEPT !.readregpos = 0, !.cached4025 = @ \ {"crc"}]
      ELSE [t EXCEPT !.readregpos = @ + 1]

\* Zeroes are written until a transfer is started; a CRC may be found right or not.
WriteBit(d) ==
  LET On(t, bit) == [t EXCEPT !.disk[t.diskpos + 1] = bit, !.diskpos = @ + 1]
      ended == d.writeregpos + 1 = ByteBits
      crcs  == IF "crc" \in d.cached4025 THEN {d.cached4025, d.cached4025 \ {"crc"}}
                                         ELSE {d.cached4025}
      Either(ts) == {On(t, 0) : t \in ts} \cup {On(t, 1) : t \in ts}
  IN  IF ~d.lookingforendofgap THEN {On(d, 0)}
      ELSE IF ended
      THEN Either({[Transferred(d) EXCEPT !.writeregpos = 0, !.cached4025 = c] : c \in crcs})
      ELSE Either({[d EXCEPT !.writeregpos = @ + 1]})

MoveDummy(d) == [d EXCEPT !.diskpos = @ + DummyBits]

\* Fault: only the exact end of the disk is taken for its end.
AtEndExactly(d) == d.diskpos = DiskSize

AtEnd(d) == d.diskpos >= DiskSize

Running(d) ==
  {Move(t, IF AtEnd(t) THEN "Reset" ELSE "Running") :
     t \in IF d.transferreset THEN {MoveDummy(d)}
           ELSE IF "read" \in d.cached4025 THEN {ReadBit(d)} ELSE WriteBit(d)}

Clock(d) ==
  LET t == [d EXCEPT !.cycleswaiting = @ - 1] IN
  IF t.cycleswaiting # 0 THEN {t}
  ELSE CASE d.state = "Running" -> Running(t)
         [] d.state \in {"Reset", "Inserting"} -> {[Move(t, "Idle") EXCEPT !.diskpos = 0]}
         [] d.state = "Spinup" -> {Move(t, "Running")}
         [] d.state = "Idle" -> {SetCycles(t)}

(***************************************************************************)
(* The drive's registers.                                                  *)
(***************************************************************************)
Write4024(d) == [d EXCEPT !.bytetransferflag = FALSE]

Write4025(d, value) ==
  LET t == IF "motor" \in value /\ d.state = "Idle" /\ d.disk # <<>> THEN Move(d, "Spinup") ELSE d
      starts == "start" \in value /\ "start" \notin d.cached4025
      writes == starts /\ "read" \notin value
  IN  [t EXCEPT !.transferreset = "reset" \in value, !.irq = FALSE, !.cached4025 = value,
                !.lookingforendofgap = @ \/ starts,
                !.writeregpos = IF writes THEN 0 ELSE @,
                !.bytetransferflag = @ \/ writes]

Acknowledged(d) == [d EXCEPT !.bytetransferflag = FALSE, !.irq = FALSE]

-----------------------------------------------------------------------------
(***************************************************************************)
(* The adapter's timer.                                                    *)
(***************************************************************************)
NewTimer == [latch |-> 0, value |-> 0, reg |-> 0, cd |-> 0, active |-> FALSE, irq |-> FALSE]

Quiet(t) == [t EXCEPT !.irq = FALSE, !.active = FALSE]

\* Bound: the halves of the latch hold one bit each, eight in the code.
WriteLatch(t, high, v) ==
  [t EXCEPT !.latch = IF high THEN (@ % 2) + 2 * v ELSE @ - (@ % 2) + v]

Write4022(t, value) ==
  IF value >= 2 THEN [t EXCEPT !.reg = value, !.value = t.latch]
                ELSE Quiet([t EXCEPT !.reg = value])

\* Fault: an expiry during the three cycles starts them again.
ExpireRestarts(t) ==
  [t EXCEPT !.value = t.latch, !.reg = IF @ = 2 THEN 0 ELSE @, !.active = TRUE, !.cd = 3]

\* An expiry; of a timer that does not repeat, the last.
Expire(t) ==
  [t EXCEPT !.value = t.latch, !.reg = IF @ = 2 THEN 0 ELSE @,
            !.active = TRUE, !.cd = IF t.active THEN @ ELSE 3]

CountTimer(t) ==
  IF t.reg < 2 \/ ~diskenable THEN t
  ELSE IF t.value # 0 THEN [t EXCEPT !.value = @ - 1]
  ELSE Expire(t)

ClockTimer(t) ==
  LET u == CountTimer(t)
      v == [u EXCEPT !.cd = IF @ > 0 THEN @ - 1 ELSE 0]
  IN  IF v.cd = 0 /\ v.active THEN [v EXCEPT !.irq = TRUE] ELSE v

-----------------------------------------------------------------------------
Init ==
  /\ program \in Programs
  /\ slot = 0
  /\ diskdiffs = [s \in Sides |-> <<>>]
  /\ drive = InsertSide(NoDisk, 0, diskdiffs)
  /\ currentside = 0
  /\ timer = NewTimer
  /\ diskenable = FALSE /\ diskirq = FALSE /\ IrqSignal = FALSE
  /\ _mirroring = "OneScreenA"
  /\ content = Image /\ kept = Image
  /\ restarts = 0

media == <<currentside, diskdiffs, content, kept, restarts>>

\* Fault: the line follows the timer alone until the drive's next bit.
SyncFdsIrqTimerOnly == IrqSignal' = (diskirq \/ timer'.irq)

SyncFdsIrq == IrqSignal' = (diskirq' \/ timer'.irq)

\* The end of ReadExp and WriteExp, which take the drive's interrupt over.
EndAccess ==
  /\ diskirq' = drive'.irq
  /\ SyncFdsIrq
  /\ slot' = 1
  /\ UNCHANGED <<program, media>>

Does(what) == slot = 0 /\ what \in program.uses

WriteTimer ==
  /\ \/ /\ Does("latch")
        /\ \E high \in BOOLEAN, v \in 0..1 : timer' = WriteLatch(timer, high, v)
     \/ /\ Does("timer")
        /\ \E v \in 0..3 : timer' = IF diskenable THEN Write4022(timer, v) ELSE timer
  /\ UNCHANGED <<drive, diskenable, _mirroring>>
  /\ EndAccess

Write4023 ==
  /\ Does("enable")
  /\ diskenable' \in BOOLEAN
  /\ timer' = IF diskenable' THEN timer ELSE Quiet(timer)
  /\ UNCHANGED <<drive, _mirroring>>
  /\ EndAccess

WriteDrive ==
  /\ \/ /\ Does("write")
        /\ drive' = IF diskenable THEN Write4024(drive) ELSE drive
        /\ UNCHANGED _mirroring
     \/ /\ Does("control")
        /\ \E v \in program.controls :
             /\ drive' = IF diskenable THEN Write4025(drive, v) ELSE drive
             /\ _mirroring' = IF "mirror" \in v THEN "Horizontal" ELSE "Vertical"
  /\ UNCHANGED <<timer, diskenable>>
  /\ EndAccess

\* $4030 acknowledges both interrupts, $4031 the drive's.
ReadExp ==
  /\ \/ /\ Does("status")
        /\ timer' = IF diskenable THEN Quiet(timer) ELSE timer
     \/ /\ Does("read")
        /\ UNCHANGED timer
  /\ drive' = IF diskenable THEN Acknowledged(drive) ELSE drive
  /\ UNCHANGED <<diskenable, _mirroring>>
  /\ EndAccess

ClockCpu ==
  /\ slot \in {0, 1} /\ slot' = 2
  /\ timer' = ClockTimer(timer)
  /\ UNCHANGED diskirq
  /\ IF timer'.cd = 0 /\ timer'.active THEN SyncFdsIrq ELSE UNCHANGED IrqSignal
  /\ UNCHANGED <<program, drive, diskenable, _mirroring, media>>

Flips(c) == Cardinality({b \in Sides \X (1..DiskSize) : c[b[1]][b[2]] > Image[b[1]][b[2]]})

ClockPpu ==
  /\ slot \in {2, 3, 4} /\ slot' = IF slot = 4 THEN 0 ELSE slot + 1
  /\ drive' \in Clock(drive)
  /\ content' = IF currentside = -1 THEN content ELSE [content EXCEPT ![currentside] = drive'.disk]
  /\ Flips(content') <= MaxFlips
  /\ diskirq' = drive'.irq
  /\ UNCHANGED timer
  /\ SyncFdsIrq
  /\ UNCHANGED <<program, currentside, diskdiffs, kept, diskenable, _mirroring, restarts>>

-----------------------------------------------------------------------------
(***************************************************************************)
(* The front end, between frames.                                          *)
(***************************************************************************)
\* A frame may end after any dot.
BetweenFrames == slot \in {0, 3, 4} /\ "disk" \in program.uses

frontEnd == <<program, slot, timer, diskenable, diskirq, IrqSignal, _mirroring>>

StoredDiffs ==
  IF currentside = -1 THEN diskdiffs ELSE [diskdiffs EXCEPT ![currentside] = MakeDiff(drive)]

\* Of the histories only: what the side in the drive holds is kept from now on.
KeepSide ==
  kept' = IF currentside = -1 THEN kept ELSE [kept EXCEPT ![currentside] = content[currentside]]

Eject ==
  /\ BetweenFrames /\ currentside # -1
  /\ diskdiffs' = StoredDiffs
  /\ drive' = EjectDrive(drive)
  /\ currentside' = -1
  /\ KeepSide
  /\ UNCHANGED <<frontEnd, content, restarts>>

\* A side put in over another, or over itself: what was written on the one in the
\* drive since it was last ejected or saved is gone, and that alone.
InsertButton(side) ==
  /\ BetweenFrames
  /\ content' = IF currentside = -1 THEN content
                ELSE [content EXCEPT ![currentside] = kept[currentside]]
  /\ drive' = InsertSide(drive, side, diskdiffs)
  /\ currentside' = side
  /\ UNCHANGED <<frontEnd, diskdiffs, kept, restarts>>

ReadSaveRam ==
  /\ BetweenFrames
  /\ diskdiffs' = StoredDiffs
  /\ KeepSide
  /\ UNCHANGED <<frontEnd, drive, currentside, content, restarts>>

\* The machine is built anew and given what ReadSaveRam returned (StoreSaveRam).
Restart ==
  /\ BetweenFrames /\ restarts < MaxRestarts
  /\ restarts' = restarts + 1
  /\ diskdiffs' = StoredDiffs
  /\ drive' = ApplyDiff(InsertSide(NoDisk, 0, [s \in Sides |-> <<>>]), diskdiffs'[0])
  /\ currentside' = 0
  /\ timer' = NewTimer
  /\ diskenable' = FALSE /\ diskirq' = FALSE /\ IrqSignal' = FALSE
  /\ _mirroring' = "OneScreenA"
  /\ slot' = 0
  /\ KeepSide
  /\ UNCHANGED <<program, content>>

Next ==
  \/ WriteTimer \/ Write4023 \/ WriteDrive \/ ReadExp
  \/ ClockCpu \/ ClockPpu
  \/ Eject \/ (\E side \in Sides : InsertButton(side)) \/ ReadSaveRam \/ Restart

(***************************************************************************)
(* The emulator runs on: cycles and dots never cease.                      *)
(***************************************************************************)
Spec == Init /\ [][Next]_vars /\ WF_vars(ClockCpu) /\ WF_vars(ClockPpu)

-----------------------------------------------------------------------------
(***************************************************************************)
(* Types, and the head: a running drive has a disk in it and the head over *)
(* one of its bits, whatever was ejected, inserted or skipped before.      *)
(***************************************************************************)
TypeOK ==
  /\ drive.state \in DOMAIN Cycles /\ drive.cycleswaiting \in 1..Cycles[drive.state]
  /\ drive.readregpos \in 0..ByteBits - 1 /\ drive.writeregpos \in 0..ByteBits - 1
  /\ timer.reg \in 0..3 /\ timer.cd \in 0..3 /\ timer.value \in 0..3 /\ timer.latch \in 0..3
  /\ currentside \in Sides \cup {-1}
  /\ currentside = -1 <=> drive.disk = <<>>
  /\ drive.state \notin {"Idle", "Reset"} => drive.disk # <<>> /\ drive.diskpos < DiskSize

(***************************************************************************)
(* What the drive wrote on a side is what the side holds, through ejects,  *)
(* saves and new sessions, and what is read when it is put in again; and   *)
(* what it held when it was last ejected or saved is what its differences  *)
(* give back, however often a side is put in.  The one loss the code does  *)
(* make is no part of it: a side put in over one that was not ejected      *)
(* takes the writes since that one's last eject or save with it.           *)
(***************************************************************************)
StoredSide(s) == IF diskdiffs[s] = <<>> THEN Image[s] ELSE Xor(Image[s], diskdiffs[s])

SideHolds(s) == IF s = currentside THEN drive.disk ELSE StoredSide(s)

WritesSurvive == \A s \in Sides : SideHolds(s) = content[s] /\ StoredSide(s) = kept[s]

(***************************************************************************)
(* The line is up for exactly the two interrupts at every point of a       *)
(* cycle, and the timer's is up from the third cycle after an expiry until *)
(* it is acknowledged, however acknowledgements, further expiries and the  *)
(* latch fall.                                                             *)
(***************************************************************************)
InterruptLine ==
  /\ IrqSignal = (drive.irq \/ timer.irq)
  /\ timer.irq <=> timer.active /\ timer.cd = 0

(***************************************************************************)
(* A repeating timer that the program leaves alone interrupts, and again   *)
(* after an acknowledgement, however short its period: expiries within the *)
(* three cycles an interrupt takes to appear must not put it off for ever. *)
(***************************************************************************)
TimerInterrupts ==
  <>[][ClockCpu \/ ClockPpu]_vars =>
    ((timer.reg = 3 /\ diskenable) ~> (timer.irq \/ timer.reg # 3 \/ ~diskenable))

(***************************************************************************)
(* The head comes back: a running drive reaches the end of its disk and    *)
(* springs back, unless the disk is taken out or changed.                  *)
(***************************************************************************)
HeadReturns == drive.state = "Running" ~> drive.state # "Running"

(***************************************************************************)
(* What a program waits for comes: the timer and the end of the disk.      *)
(***************************************************************************)
WaitsEnd == TimerInterrupts /\ HeadReturns

=============================================================================

------------------------------ MODULE PpuFrame ------------------------------
(***************************************************************************)
(* The frame: NES::FrameAdvance and the PPU's incrementers TickPPU_VBL,    *)
(* TickPPU_active, TickPPU_preVBL and NewDeadPPU (nes.hpp), with runppu,   *)
(* which runs one PPU dot and every third dot one CPU cycle.  It is where  *)
(* the vblank flag, the NMI and the skipped dot of odd frames meet the     *)
(* CPU's accesses to $2000, $2001 and $2002, which fall on any of three    *)
(* alignments.  One action is one call of an incrementer: one dot.         *)
(*                                                                         *)
(* What the dots draw and fetch is left out.                               *)
(***************************************************************************)
EXTENDS Integers

CONSTANTS
  LineDots,     \* 341 in the code: dots of a line
  ActiveLines,  \* 241: the pre-render line and the visible lines
  PreLines,     \* preNMIlines: 1, and 51 for Dendy
  PostLines,    \* postNMIlines: 20, and 70 for PAL
  ChopDot,      \* chopdot: TRUE for NTSC only
  StartUpOffset,\* start_up_offset, 4: how much earlier the dead frame ends
  MaxResets     \* bound: soft resets in a behaviour

ASSUME GeometryAssumption ==
  /\ LineDots \in Nat /\ LineDots > 6
  /\ {ActiveLines, PreLines, PostLines} \subseteq Nat \ {0}
  /\ StartUpOffset \in Nat /\ StartUpOffset + 1 < ActiveLines * LineDots
  /\ ChopDot \in BOOLEAN
  /\ MaxResets \in Nat

VARIABLES
  ppu,    \* the PPU's timing fields, as a record
  nmi,    \* cpu->NMI, the CPU's edge-triggered NMI latch
  loop,   \* where FrameAdvance is: "out", or the loop it runs
  frame,  \* history: what happened in this frame and its vblank
  resets  \* soft resets so far

vars == <<ppu, nmi, loop, frame, resets>>

VblLine == ActiveLines + PreLines

LastLine == VblLine + PostLines - 1

DeadDots == ActiveLines * LineDots - StartUpOffset

FullDots == (LastLine + 1) * LineDots
-----------------------------------------------------------------------------
(***************************************************************************)
(* PPU::Reset, on p.  NMI_PendingInstructions, the pending vblank flags,   *)
(* the incrementers' flags and the CPU alignment are left as they are.     *)
(***************************************************************************)
Reset(p) ==
  [p EXCEPT !.cycle = 0, !.sl = 0, !.gen = FALSE, !.show = FALSE, !.vblank = FALSE,
            !.ppudead = 1, !.idleSynch = TRUE]

NewPpu ==
  Reset([cycle |-> 0, sl |-> 0, stepcounter |-> 0,
         do_vbl |-> FALSE, do_active_sl |-> FALSE, do_pre_vbl |-> FALSE,
         ppudead |-> 0, idleSynch |-> FALSE, evenOddDestiny |-> FALSE,
         vblank |-> FALSE, active_pending |-> FALSE, clear_pending |-> FALSE,
         gen |-> FALSE, nmi_destiny |-> FALSE, NMI_offset |-> 0, nmi_pending |-> 0,
         show |-> FALSE, show_new |-> FALSE, install_2001 |-> 0])

NewFrame ==
  [dots |-> 0, last |-> FullDots, flagged |-> FALSE, nmis |-> 0, enables |-> 0,
   touched |-> FALSE]

Init ==
  /\ ppu = NewPpu
  /\ nmi = FALSE
  /\ loop = "out"
  /\ frame = NewFrame
  /\ resets = 0
-----------------------------------------------------------------------------
(***************************************************************************)
(* A dot in progress is a record of ppu, nmi and frame.                    *)
(***************************************************************************)
Now == [ppu |-> ppu, nmi |-> nmi, frame |-> frame]

RaiseNmi(s) == [s EXCEPT !.nmi = TRUE, !.frame.nmis = @ + 1]

(***************************************************************************)
(* What the CPU does in its cycle: it may access one of the registers, or  *)
(* take an NMI at the start of an instruction (Fetch1).  Enabling the NMI  *)
(* when the vblank flag is up, and not about to fall, schedules one.       *)
(***************************************************************************)
Writes(reg) == {<<reg, b>> : b \in BOOLEAN}

CpuOps ==
  {<<"other">>, <<"take NMI">>, <<"read 2002">>}
    \cup Writes("write 2000") \cup Writes("write 2001")

write_2000(s, on) ==
  LET unleashed == ~s.ppu.gen /\ on /\ s.ppu.vblank /\ ~s.ppu.clear_pending IN
  [s EXCEPT !.ppu.gen = on,
            !.ppu.nmi_pending = IF unleashed THEN 2 ELSE @,
            !.frame.enables = IF unleashed THEN @ + 1 ELSE @,
            !.frame.touched = TRUE]

write_2001(s, on) == [s EXCEPT !.ppu.show = on, !.ppu.install_2001 = 2]

read_2002(s) ==
  [s EXCEPT !.ppu.vblank = FALSE, !.ppu.active_pending = FALSE, !.frame.touched = TRUE]

CpuCycle(s, op) ==
  CASE op[1] = "take NMI" -> [s EXCEPT !.nmi = FALSE]
    [] op[1] = "write 2000" -> write_2000(s, op[2])
    [] op[1] = "write 2001" -> write_2001(s, op[2])
    [] op[1] = "read 2002" -> read_2002(s)
    [] OTHER -> s

(***************************************************************************)
(* runppu: $2001 takes effect two dots late; then the dot; then, on every  *)
(* third dot, the CPU's cycle and the NMI that is due after it.  The count *)
(* of a frame's dots stops one past the longest frame.                     *)
(***************************************************************************)
InstallMask(p) ==
  IF p.install_2001 = 0 THEN p
  ELSE [p EXCEPT !.install_2001 = @ - 1,
                 !.show_new = IF p.install_2001 = 1 THEN p.show ELSE @]

CountNmi(s) ==
  CASE s.ppu.nmi_pending = 0 -> s
    [] s.ppu.nmi_pending = 1 -> RaiseNmi([s EXCEPT !.ppu.nmi_pending = 0])
    [] OTHER -> [s EXCEPT !.ppu.nmi_pending = @ - 1]

CpuSlot(p) == p.stepcounter = 2

Dot(s) ==
  [s EXCEPT !.ppu = [InstallMask(s.ppu) EXCEPT !.cycle = @ + 1,
                                               !.stepcounter = (@ + 1) % 3],
            !.frame.dots = IF @ > FullDots THEN @ ELSE @ + 1]

RunPpu(s, op) ==
  IF CpuSlot(s.ppu) THEN CountNmi(CpuCycle(Dot(s), op)) ELSE Dot(s)
-----------------------------------------------------------------------------
(***************************************************************************)
(* TickPPU_VBL.  Whether the vblank interrupts is decided over its first   *)
(* dots and acted on just after a CPU cycle, wherever the dots of the      *)
(* frame fell on those of the CPU.                                         *)
(***************************************************************************)
NmiOffset(p) == CASE p.stepcounter = 2 -> 1 [] p.stepcounter = 1 -> 2 [] OTHER -> 0

Wanted(p) == p.gen /\ p.vblank

\* Fault: the interrupt is raised on every line of the vblank.
NmiDestinyEachLine(s) ==
  LET p == s.ppu IN
  IF p.cycle = 0 /\ p.sl = VblLine
    THEN [s EXCEPT !.ppu.nmi_destiny = Wanted(p), !.ppu.NMI_offset = NmiOffset(p)]
  ELSE IF p.cycle <= 2 /\ p.nmi_destiny
    THEN [s EXCEPT !.ppu.nmi_destiny = Wanted(p)]
  ELSE IF p.cycle = 3 + p.NMI_offset /\ p.nmi_destiny
    THEN RaiseNmi(s)
  ELSE s

\* Fault: it is looked at again with the flag that is still to go up.
NmiDestinyPending(s) ==
  LET p == s.ppu IN
  IF p.cycle = 0 /\ p.sl = VblLine
    THEN [s EXCEPT !.ppu.nmi_destiny = Wanted(p), !.ppu.NMI_offset = NmiOffset(p)]
  ELSE IF p.cycle <= 2 /\ p.nmi_destiny
    THEN [s EXCEPT !.ppu.nmi_destiny = p.gen /\ p.active_pending]
  ELSE IF p.cycle = 3 + p.NMI_offset /\ p.sl = VblLine /\ p.nmi_destiny
    THEN RaiseNmi(s)
  ELSE s

NmiDestiny(s) ==
  LET p == s.ppu IN
  IF p.cycle = 0 /\ p.sl = VblLine
    THEN [s EXCEPT !.ppu.nmi_destiny = Wanted(p), !.ppu.NMI_offset = NmiOffset(p)]
  ELSE IF p.cycle <= 2 /\ p.nmi_destiny
    THEN [s EXCEPT !.ppu.nmi_destiny = Wanted(p)]
  ELSE IF p.cycle = 3 + p.NMI_offset /\ p.sl = VblLine /\ p.nmi_destiny
    THEN RaiseNmi(s)
  ELSE s

\* Fault: frames do not alternate.
EndVblSameParity(s) ==
  IF s.ppu.cycle = LineDots - 1 /\ s.ppu.sl = LastLine
    THEN [s EXCEPT !.ppu.clear_pending = TRUE]
    ELSE s

EndVbl(s) ==
  IF s.ppu.cycle = LineDots - 1 /\ s.ppu.sl = LastLine
    THEN [s EXCEPT !.ppu.clear_pending = TRUE, !.ppu.idleSynch = ~@]
    ELSE s

\* Fault: the pending fall of the flag stays pending.
ClearVblankAgain(p) == [p EXCEPT !.vblank = @ /\ ~p.clear_pending]

ClearVblank(p) ==
  [p EXCEPT !.vblank = @ /\ ~p.clear_pending, !.clear_pending = FALSE]

TickVbl(s, op) ==
  LET r == RunPpu(EndVbl(NmiDestiny(s)), op)
      p == ClearVblank(r.ppu)
      over == p.sl = LastLine
  IN IF r.ppu.cycle # LineDots THEN r
     ELSE [r EXCEPT !.ppu = [p EXCEPT !.cycle = 0,
                                      !.sl = IF over THEN 0 ELSE @ + 1,
                                      !.do_vbl = ~over,
                                      !.do_active_sl = over]]

(***************************************************************************)
(* TickPPU_active.  With rendering on, the last dot of the first line of   *)
(* every second frame does not exist.                                      *)
(***************************************************************************)
DotSkipped(p) ==
  p.cycle = LineDots - 1 /\ p.sl = 0 /\ p.idleSynch /\ p.evenOddDestiny /\ ChopDot

ChooseEvenOdd(s) ==
  IF s.ppu.cycle = LineDots - 2 THEN [s EXCEPT !.ppu.evenOddDestiny = s.ppu.show_new] ELSE s

TickActive(s, op) ==
  IF s.ppu.cycle < LineDots - 1 THEN RunPpu(ChooseEvenOdd(s), op)
  ELSE LET r == IF DotSkipped(s.ppu) THEN s ELSE RunPpu(s, op)
           over == r.ppu.sl + 1 = ActiveLines
       IN [r EXCEPT !.ppu = [r.ppu EXCEPT !.cycle = 0, !.sl = @ + 1,
                                          !.do_active_sl = ~over,
                                          !.do_pre_vbl = over]]

(***************************************************************************)
(* A new vblank: the flag goes up unless a $2002 read of the last dot took *)
(* it back; ppu_init_frame; the frame is done.                             *)
(***************************************************************************)
ActivateSoon(s) ==
  [s EXCEPT !.ppu.active_pending = TRUE,
            !.frame = [@ EXCEPT !.nmis = 0, !.enables = 0, !.touched = FALSE]]

StartVblank(s) ==
  [s EXCEPT !.ppu = [s.ppu EXCEPT !.vblank = @ \/ s.ppu.active_pending,
                                  !.active_pending = FALSE,
                                  !.sl = VblLine, !.cycle = 0, !.do_vbl = TRUE],
            !.frame.flagged = s.ppu.active_pending]

(***************************************************************************)
(* TickPPU_preVBL.                                                         *)
(***************************************************************************)
TickPre(s, op) ==
  LET final == s.ppu.cycle = LineDots - 1 /\ s.ppu.sl = VblLine - 1
      r == RunPpu(IF final THEN ActivateSoon(s) ELSE s, op)
  IN IF final THEN [StartVblank(r) EXCEPT !.ppu.do_pre_vbl = FALSE]
     ELSE IF r.ppu.cycle = LineDots
       THEN [r EXCEPT !.ppu.cycle = 0, !.ppu.sl = @ + 1]
     ELSE r

(***************************************************************************)
(* NewDeadPPU: the frame after a reset counts its dots on one line.        *)
(***************************************************************************)
TickDead(s, op) ==
  LET final == s.ppu.cycle = DeadDots - 1
      r == RunPpu(IF final THEN ActivateSoon(s) ELSE s, op)
  IN IF final THEN [StartVblank(r) EXCEPT !.ppu.ppudead = @ - 1] ELSE r
-----------------------------------------------------------------------------
(***************************************************************************)
(* FrameAdvance.  A frame is the dead one or three loops in turn; a loop   *)
(* whose flag is down is passed over.                                      *)
(***************************************************************************)
EnterFrom(l, p) ==
  IF l = "dead" THEN IF p.ppudead > 0 THEN "dead" ELSE "out"
  ELSE IF l = "vbl" /\ p.do_vbl THEN "vbl"
  ELSE IF l \in {"vbl", "active"} /\ p.do_active_sl THEN "active"
  ELSE IF p.do_pre_vbl THEN "pre"
  ELSE "out"

FrameAdvance(reset) ==
  /\ loop = "out"
  /\ reset => resets < MaxResets
  /\ resets' = IF reset THEN resets + 1 ELSE resets
  /\ ppu' = IF reset THEN Reset(ppu) ELSE ppu
  /\ loop' = IF ppu'.ppudead > 0 THEN "dead" ELSE EnterFrom("vbl", ppu')
  /\ frame' = [frame EXCEPT !.dots = 0]
  /\ UNCHANGED nmi

(***************************************************************************)
(* One turn of the loop l, in which tick is what the incrementer does.     *)
(***************************************************************************)
Turn(l, tick(_, _)) ==
  /\ loop = l
  /\ \E op \in IF CpuSlot(ppu) THEN CpuOps ELSE {<<"other">>} :
       /\ op[1] = "take NMI" => nmi
       /\ LET s == tick(Now, op) IN
          /\ ppu' = s.ppu
          /\ nmi' = s.nmi
          /\ loop' = EnterFrom(l, s.ppu)
          /\ frame' = IF loop' = "out" THEN [s.frame EXCEPT !.last = s.frame.dots] ELSE s.frame
  /\ UNCHANGED resets

VblTurn == Turn("vbl", TickVbl)

ActiveTurn == Turn("active", TickActive)

PreTurn == Turn("pre", TickPre)

DeadTurn == Turn("dead", TickDead)

Next ==
  \/ \E reset \in BOOLEAN : FrameAdvance(reset)
  \/ VblTurn
  \/ ActiveTurn
  \/ PreTurn
  \/ DeadTurn

Spec == Init /\ [][Next]_vars

(***************************************************************************)
(* The loops run without waiting for anything, and the host asks for one   *)
(* frame after the other.                                                  *)
(***************************************************************************)
FairSpec == Spec /\ []<><<TRUE>>_vars
-----------------------------------------------------------------------------
\* Type invariant of the frame's fields, between two dots.
TypeOK ==
  /\ ppu \in [cycle : Nat, sl : 0..LastLine, stepcounter : 0..2,
              do_vbl : BOOLEAN, do_active_sl : BOOLEAN, do_pre_vbl : BOOLEAN,
              ppudead : 0..1, idleSynch : BOOLEAN, evenOddDestiny : BOOLEAN,
              vblank : BOOLEAN, active_pending : {FALSE}, clear_pending : {FALSE},
              gen : BOOLEAN, nmi_destiny : BOOLEAN, NMI_offset : 0..2, nmi_pending : 0..1,
              show : BOOLEAN, show_new : BOOLEAN, install_2001 : 0..2]
  /\ nmi \in BOOLEAN
  /\ loop \in {"out", "dead", "vbl", "active", "pre"}
  /\ frame \in [dots : 0..FullDots, last : {DeadDots, FullDots - 1, FullDots},
                flagged : BOOLEAN, nmis : Nat, enables : Nat, touched : BOOLEAN]
  /\ resets \in 0..MaxResets

\* The vblank flag never outlives its vblank, whatever reads, resets and dead
\* frames do to it: no frame is drawn with the flag up.
VblankWithinVbl == ppu.vblank => loop \in {"vbl", "out"}

\* PPU::Reset leaves the pending NMI and the incrementers' flags alone; that
\* is sound because a frame ends with no NMI pending, and with exactly the
\* vblank loop to run next.
QuietAtBoundary ==
  loop = "out" /\ ppu.ppudead = 0 =>
    ppu.nmi_pending = 0 /\ ppu.do_vbl /\ ~ppu.do_active_sl /\ ~ppu.do_pre_vbl

\* A vblank interrupts at most once of itself and once more for every time the
\* program turns the NMI on within it; a vblank whose flag was taken back by a
\* $2002 read of the last dot does not interrupt at all.
NmisAccountedFor == frame.nmis <= IF frame.flagged THEN frame.enables + 1 ELSE 0

\* A vblank of a program that has the NMI on and accesses neither $2000 nor
\* $2002 always interrupts, at each alignment of the CPU and of the two dots
\* at which nmi_destiny is looked at again.
VblankInterrupts ==
  /\ loop = "vbl" /\ ppu.sl = VblLine /\ ppu.cycle > 3 + ppu.NMI_offset
  /\ ppu.gen /\ ~frame.touched
  => frame.nmis = 1

\* The flag and the NMI of a vblank belong to that vblank: both are gone when
\* it is, and the program gets what it is due, whatever reads, writes and resets
\* fall on its first dots.
VblankAccounts ==
  VblankWithinVbl /\ QuietAtBoundary /\ NmisAccountedFor /\ VblankInterrupts

\* NMI_offset works out: the vblank's own NMI is always raised right after a
\* CPU cycle, a whole cycle before the CPU polls it.
NmiAfterCpuCycle ==
  [][frame'.nmis > frame.nmis /\ ppu.nmi_pending = 0 => ppu.stepcounter = 0]_vars

\* A live frame has 262 lines of 341 dots or one dot less, the latter only
\* where the region chops and never twice in a row, whenever rendering is
\* turned on or off; the dead frame has its own length.
FrameLength ==
  [][loop # "out" /\ loop' = "out" =>
       IF loop = "dead" THEN frame'.last = DeadDots
       ELSE \/ frame'.last = FullDots
            \/ frame'.last = FullDots - 1 /\ ChopDot /\ frame.last # FullDots - 1]_vars

\* Dots and CPU cycles keep their count: frames have their length, and the NMI
\* its place in the CPU's cycle.
DotsKept == FrameLength /\ NmiAfterCpuCycle

\* FrameAdvance always returns: no combination of loop flags left by a reset
\* keeps a loop from ending.
FrameEnds == loop # "out" ~> loop = "out"

\* A program that leaves the NMI on and $2000 and $2002 alone is interrupted
\* in frame after frame.
NmiRecurs ==
  <>[](ppu.gen /\ ~frame.touched) => []<>(loop = "active" /\ frame.nmis = 1)

\* Frames and their interrupts go on for ever.
FramesGoOn == FrameEnds /\ NmiRecurs
=============================================================================

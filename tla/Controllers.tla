---------------------------- MODULE Controllers ----------------------------
(***************************************************************************)
(* The controller ports $4016 and $4017 (nesControllers.hpp and the        *)
(* joyport functions of nes.hpp): the strobe, which waits for the right    *)
(* half of an APU cycle, the shift registers, and the rule that reads in   *)
(* consecutive cycles shift only once, however the CPU and the DMC's       *)
(* sample DMA, which repeats the CPU's read, come by them.  One action is  *)
(* one CPU cycle.                                                          *)
(*                                                                         *)
(* The CPU is seen as the address on its bus and the kind of its cycles;   *)
(* the sample DMA as its halt cycles and its fetch (DmcDma says when one   *)
(* starts).                                                                *)
(***************************************************************************)
EXTENDS Integers

CONSTANTS
  Masks,          \* button masks
  Bits,           \* bits of a mask, 8 in the code; ones follow
  Port2Connected  \* _port2Connected

ASSUME ControllersAssumption ==
  Masks # {} /\ Bits \in Nat \ {0} /\ Port2Connected \in BOOLEAN

VARIABLES
  pad,      \* the ControllerNES of each port
  io,       \* the strobe and double-read fields of NES, as a record
  buttons,  \* _controllerButtons and _controllerButtons2
  cpu,      \* the address on the CPU's bus, and RDY
  dma,      \* dmc_dma_countdown, what started the DMA, the parity of dmc.timer
  did       \* the port the last cycle read, for whom, and how often it shifted

vars == <<pad, io, buttons, cpu, dma, did>>

Ports == {"4016", "4017"}

NoPort == "none"

(***************************************************************************)
(* What can be on the address bus: a port, another register of the page    *)
(* $4000-$401F, or anything else.                                          *)
(***************************************************************************)
Addresses == Ports \cup {"register", "memory"}

Nothing == [port |-> NoPort, by |-> "nobody", shifts |-> 0]

Init ==
  /\ buttons \in [Ports -> Masks]
  /\ \E m \in Masks : pad = [p \in Ports |-> [resetting |-> FALSE, latched |-> m, pos |-> Bits]]
  /\ io = [strobe_value |-> 0, strobed |-> FALSE, latched4016 |-> 0,
           current_strobe |-> FALSE, lagged |-> TRUE, double_read |-> 0,
           double_address |-> NoPort]
  /\ cpu = [bus |-> "memory", frozen |-> FALSE, rdy |-> TRUE, rmw |-> FALSE]
  /\ dma = [countdown |-> 0, by_write |-> FALSE, odd |-> FALSE]
  /\ did = Nothing
-----------------------------------------------------------------------------
(***************************************************************************)
(* A cycle in progress is a record of pad, io, cpu, dma and did.           *)
(***************************************************************************)
Now == [pad |-> pad, io |-> io, cpu |-> cpu, dma |-> dma, did |-> Nothing]

Connected(p) == p = "4016" \/ Port2Connected

(***************************************************************************)
(* ControllerNES: a latch, and pos, how far its bits are shifted out.  Its *)
(* Read with the strobe high keeps reloading.                              *)
(***************************************************************************)
Latch(c, m) == [c EXCEPT !.latched = m, !.pos = 0]

\* Fault: the shift register shifts past its end.
PadReadPastEnd(c, m) == IF c.resetting THEN Latch(c, m) ELSE [c EXCEPT !.pos = @ + 1]

PadRead(c, m) ==
  IF c.resetting THEN Latch(c, m) ELSE [c EXCEPT !.pos = IF @ < Bits THEN @ + 1 ELSE Bits]

PadStrobe(c, out, old, m) ==
  LET s == [c EXCEPT !.resetting = out = 1] IN IF out < old THEN Latch(s, m) ELSE s

(***************************************************************************)
(* read_joyport.  double_read is double_controller_read as seen from       *)
(* TotalExecutedCycles, which ExecuteOne counts up: it is 0 in the cycle   *)
(* where a second read does not shift.  A conflict is a read by the DMA's  *)
(* fetch, before ExecuteOne has counted.                                   *)
(***************************************************************************)
Repeats(s, p) == s.io.double_read = 0 /\ s.io.double_address = p

Shifts(s, p) == IF Repeats(s, p) THEN 0 ELSE 1

\* Fault: a read by the DMA's fetch is counted like one by the CPU.
ReadJoyportEarly(s, p, by) ==
  [s EXCEPT !.pad[p] = IF Repeats(s, p) \/ ~Connected(p) THEN @ ELSE PadRead(@, buttons[p]),
            !.io.double_address = p,
            !.io.double_read = 1,
            !.did = [port |-> p, by |-> by, shifts |-> s.did.shifts + Shifts(s, p)]]

ReadJoyport(s, p, by) ==
  [s EXCEPT !.pad[p] = IF Repeats(s, p) \/ ~Connected(p) THEN @ ELSE PadRead(@, buttons[p]),
            !.io.double_address = p,
            !.io.double_read = IF by = "fetch" THEN 2 ELSE 1,
            !.did = [port |-> p, by |-> by, shifts |-> s.did.shifts + Shifts(s, p)]]

\* LAX abs reads its address twice in one cycle; the second read is no read of
\* the cycle after, and shifts again.
ReadTwice(s, p) == ReadJoyport(ReadJoyport(s, p, "twice"), p, "twice")

(***************************************************************************)
(* The sample DMA's part of RunCpuOne: a halt cycle repeats the read the   *)
(* CPU's bus points at (RunDMCHaltFetch).  The fetch reads the port hit    *)
(* that the sample's address happens to select, if the CPU's bus points    *)
(* into the register page.  A DMA that does not find the CPU halted waits. *)
(***************************************************************************)
HaltRead(s) == IF s.cpu.bus \in Ports THEN ReadJoyport(s, s.cpu.bus, "halt") ELSE s

FetchRead(s, hit) ==
  IF s.cpu.bus # "memory" /\ hit \in Ports THEN ReadJoyport(s, hit, "fetch") ELSE s

DmaPart(s, hit) ==
  LET late == s.dma.countdown = 2 /\ ~s.cpu.rdy /\ ~s.cpu.frozen
      left == IF late THEN 3 ELSE s.dma.countdown - 1
      held == [s EXCEPT !.cpu.rdy = FALSE, !.dma.countdown = left]
  IN IF s.dma.countdown = 0 THEN s
     ELSE IF left = 0 THEN FetchRead(held, hit)
     ELSE HaltRead(held)

(***************************************************************************)
(* A DMA starts in DMCUnit::Run, before the CPU's cycle.  An automatic one *)
(* takes RDY down at once, one that a write asked for only when it halts.  *)
(***************************************************************************)
StartDma(s, start) ==
  CASE start = "automatic" -> [s EXCEPT !.dma.countdown = 3, !.dma.by_write = FALSE, !.cpu.rdy = FALSE]
    [] start = "by write" -> [s EXCEPT !.dma.countdown = 3, !.dma.by_write = TRUE]
    [] OTHER -> s

Starts == {"none", "automatic", "by write"}

(***************************************************************************)
(* The CPU's cycle.  It puts the address it reads or writes next on the    *)
(* bus as soon as it knows it ("aim"), then uses it, and either goes on    *)
(* with it, as indexed and read-modify-write instructions do, or not.  The *)
(* one cycle that reads twice is the last of its instruction (Cpu,         *)
(* WritesAreSpaced).                                                       *)
(***************************************************************************)
ReadOps ==
  {<<"aim", a>> : a \in Addresses} \cup {<<"read", goes_on>> : goes_on \in BOOLEAN}
    \cup {<<"read twice", FALSE>>}

WriteOps == {<<"write", v, again>> : v \in 0..1, again \in BOOLEAN}

CountCycle(s) == [s EXCEPT !.io.double_read = IF @ >= 0 THEN @ - 1 ELSE @]

\* What the CPU reads, the rest of the page and of memory apart.
ReadBus(s, op) ==
  IF s.cpu.bus \notin Ports THEN s
  ELSE IF op[1] = "read twice" THEN ReadTwice(s, s.cpu.bus)
  ELSE ReadJoyport(s, s.cpu.bus, "cpu")

CpuRead(s, op) ==
  IF ~s.cpu.rdy THEN [s EXCEPT !.cpu.frozen = TRUE]
  ELSE LET run == [s EXCEPT !.cpu.frozen = FALSE, !.cpu.rmw = FALSE] IN
       IF op[1] = "aim" THEN [run EXCEPT !.cpu.bus = op[2]]
       ELSE IF op[2] THEN ReadBus(run, op)
       ELSE [ReadBus(run, op) EXCEPT !.cpu.bus = "memory"]

(***************************************************************************)
(* write_joyport only notes the value; RunOneLast strobes with it later.   *)
(***************************************************************************)
write_joyport(s, v) == [s EXCEPT !.io.strobe_value = v, !.io.strobed = TRUE]

CpuWrite(s, op) ==
  LET w == IF s.cpu.bus = "4016" THEN write_joyport(s, op[2]) ELSE s
  IN [w EXCEPT !.cpu.frozen = FALSE, !.cpu.rmw = op[3],
               !.cpu.bus = IF op[3] THEN @ ELSE "memory"]

CpuPart(s, op) ==
  LET c == CountCycle(s) IN IF op[1] = "write" THEN CpuWrite(c, op) ELSE CpuRead(c, op)

\* Fault: the poll is noted only when the strobe falls.
StrobeJoyportAtFall(s) ==
  LET out == s.io.strobe_value old == s.io.latched4016 IN
  [s EXCEPT
    !.pad = [p \in Ports |-> IF Connected(p) THEN PadStrobe(s.pad[p], out, old, buttons[p])
                             ELSE s.pad[p]],
    !.io.strobed = FALSE,
    !.io.latched4016 = out,
    !.io.lagged = @ /\ ~(s.io.current_strobe /\ out = 0),
    !.io.current_strobe = @ /\ out = 1]

(***************************************************************************)
(* strobe_joyport, from RunOneLast when a get cycle turns into a put       *)
(* cycle.  The fall of the strobe latches the pads and ends the lag frame. *)
(***************************************************************************)
StrobeJoyport(s) ==
  LET out == s.io.strobe_value old == s.io.latched4016 IN
  [s EXCEPT
    !.pad = [p \in Ports |-> IF Connected(p) THEN PadStrobe(s.pad[p], out, old, buttons[p])
                             ELSE s.pad[p]],
    !.io.strobed = FALSE,
    !.io.latched4016 = out,
    !.io.lagged = @ /\ ~(s.io.current_strobe /\ out = 0),
    !.io.current_strobe = out = 1]

LastPart(s) == IF s.dma.odd /\ s.io.strobed THEN StrobeJoyport(s) ELSE s

ReleaseRdy(s) == [s EXCEPT !.cpu.rdy = @ \/ s.dma.countdown = 0]

(***************************************************************************)
(* RunCpuOne.  A second write in a row is that of a read-modify-write      *)
(* instruction; any other write of a register was aimed a cycle before.    *)
(* No DMA starts while one is going on, nor in the cycle of its fetch,     *)
(* which fills the buffer (DmcDma, FetchEndsDma).                          *)
(***************************************************************************)
RunCpuOne(op, start, hit) ==
  LET turned == [Now EXCEPT !.dma.odd = ~@]
      ready == StartDma(DmaPart(turned, hit), start)
      s == ReleaseRdy(LastPart(CpuPart(ready, op)))
  IN /\ start # "none" => dma.countdown = 0
     /\ op[1] = "write" => ~cpu.frozen
     /\ pad' = s.pad
     /\ io' = s.io
     /\ cpu' = s.cpu
     /\ dma' = s.dma
     /\ did' = s.did
     /\ UNCHANGED buttons

Cycle ==
  \E op \in ReadOps \cup WriteOps, start \in Starts, hit \in Ports \cup {NoPort} :
    RunCpuOne(op, start, hit)

(***************************************************************************)
(* The start of FrameAdvance: new buttons, and a lag frame until the       *)
(* program polls.                                                          *)
(***************************************************************************)
FrameAdvance(b) ==
  /\ buttons' = b
  /\ io' = [io EXCEPT !.lagged = TRUE]
  /\ UNCHANGED <<pad, cpu, dma, did>>

NewFrame == \E b \in [Ports -> Masks] : FrameAdvance(b)

Next == Cycle \/ NewFrame

Spec == Init /\ [][Next]_vars
-----------------------------------------------------------------------------
\* Type invariant of the ports' fields between two cycles.
TypeOK ==
  /\ pad \in [Ports -> [resetting : BOOLEAN, latched : Masks, pos : 0..Bits]]
  /\ io \in [strobe_value : 0..1, strobed : BOOLEAN, latched4016 : 0..1,
             current_strobe : BOOLEAN, lagged : BOOLEAN, double_read : -1..1,
             double_address : Ports \cup {NoPort}]
  /\ buttons \in [Ports -> Masks]
  /\ cpu \in [bus : Addresses, frozen : BOOLEAN, rdy : BOOLEAN, rmw : BOOLEAN]
  /\ dma \in [countdown : 0..3, by_write : BOOLEAN, odd : BOOLEAN]
  /\ did \in [port : Ports \cup {NoPort}, by : {"nobody", "cpu", "twice", "halt", "fetch"},
              shifts : 0..2]

\* The frontend's view of a poll (current_strobe, which ends the lag frame) and
\* the pads' (latched4016 and their own _resetting) never come apart: a frame
\* counts as polled exactly when its buttons were latched.
StrobesAgree ==
  /\ io.current_strobe <=> io.latched4016 = 1
  /\ \A p \in Ports : Connected(p) => (pad[p].resetting <=> io.latched4016 = 1)

\* A write of $4016 waits for its half of an APU cycle and is not lost on the
\* way: only the second write of a read-modify-write instruction can overtake
\* the strobe of the first.
NoStrobeLost ==
  [][io.strobed /\ io'.strobe_value # io.strobe_value => cpu.rmw]_vars

CycleRan == dma'.odd # dma.odd

ByCpu == {"cpu", "twice"}

\* The cycle reads the port that the cycle before has read, and is not the one
\* halt that comes too late to see it.
Again ==
  did'.port = did.port /\ ~(did.by \in ByCpu /\ did'.by \notin ByCpu /\ dma.by_write)

\* Reads of a port in one cycle after the other shift it once, whoever reads: a
\* sample DMA's halt cycles and its fetch count as one read, and so does the
\* CPU's own read right after a fetch that hits the port.  Twice the code shifts
\* once more: for the halt of a DMA that a write started, if the CPU read the
\* port in the very cycle before; and for the second read of LAX abs.
ReadsShiftOnce ==
  [][CycleRan => did'.shifts <= (IF Again THEN 0 ELSE 1) + (IF did'.by = "twice" THEN 1 ELSE 0)]_vars

\* What the program strobes and reads meets the port once: no strobe is lost
\* and no read repeated by the cycles the DMA puts in between.
PortMetOnce == NoStrobeLost /\ ReadsShiftOnce
=============================================================================

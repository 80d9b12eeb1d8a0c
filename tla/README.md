# A verification project for the NesHawk core

The repository is a NES emulator core: a C++ translation, header by header, of
BizHawk's NesHawk, meant to be bit-exact with it and then made fast (batching,
fast paths, hot/cold splits) without losing a single cycle of exactness. Nothing
in it runs in parallel; what is hard is that one CPU cycle is a fixed succession
of small state machines (PPU dots, DMA, DMC, CPU, APU sequencer, board) which
leave notes for each other ("in 3 cycles", "on the next put cycle", "if the CPU
is frozen by then"), and that a program can write a register in any cycle. The
models here are of those machines, and the properties say that no order of
events makes them lose, repeat or misplace anything.

## 1. The system

| component | state it keeps | operations | talks to |
|---|---|---|---|
| PPU open bus (`nesPpu.hpp` 197-199, 654-738) | the byte, 8 timers, steps owed, next checkpoint | decay per CPU cycle, flush, register reads and writes, peek, reset, save, load | every $2000-$3FFF access, savestates |
| PPU frame (`nes.hpp` 381-452, 1434-1505, 1619-1667, 2346-2439) | line, dot, step counter, loop flags, vblank flag, NMI latches, dead-frame count | FrameAdvance, four incrementers, runppu, `write_2000`, `write_2001`, `read_2002`, reset | runs the CPU every third dot, sets the CPU's NMI |
| PPU rendering, sprite evaluation (`nes.hpp` 1669-2345) | OAM, secondary OAM, slots, line buffer, shift registers | one step per dot, $2001, $2003, $2004 | board (`AddressPpu`, `ReadPpu`) |
| bus arbitration (`nes.hpp` 456-579) | sprite DMA and DMC DMA progress, RDY, realignment | RunCpuOne | CPU, APU, controllers |
| DMC (`nesApu.hpp` 536-722, `nes.hpp` 1164-1275) | timer, bits, buffer, length, glitch flags | Run, Clock, Fetch, set_lenctr_en | bus arbitration, APU interrupt |
| APU sequencer (`nesApu.hpp` 770-930, `nes.hpp` 1282-1400) | counter, step, mode, interrupt flags, delayed $4017 write, pending register | RunOneFirst, RunOneLast, register access, resets | channels, CPU interrupt line |
| APU channels (`nesApu.hpp` 74-534) | length counters, envelopes, sweeps, timers | Run, clock_env, clock_length_and_sweep | sequencer, mixer |
| controllers (`nesControllers.hpp`, `nes.hpp` 724-783) | latch and shift register per port, strobe, double-read window | write, strobe, read, new buttons | CPU, DMC DMA (repeats reads), front end (lag flag) |
| mappers (`nesBoards.hpp`) | bank registers; MMC1's shift register; MMC3's scanline counter | WritePrg, AddressPpu, ClockPpu | PPU address bus, CPU interrupt line |
| FDS (`nesFds.hpp`) | drive position, timers, interrupts | register access, drive and timer clocks | board interface |
| CPU (`mos6502x.hpp`) | registers, microcode position, interrupt latches | ExecuteOne | everything through reads and writes |
| savestates (`nesSerialization.hpp`) | none of its own | sync of each component | all |
| front ends, tools, palettes, disassembler | host glue | | FrameAdvance |

Which behaviours are hard, and the properties that make each part correct:

* **open bus** - the decay is batched; it must be bit-exact with the per-cycle
  decay under every order of accesses, resets, saves and loads.
* **frame and NMI** - the flag and the NMI against $2000/$2002 accesses at three
  dot alignments; loops that are entered by flags which a reset leaves behind;
  the dropped dot of odd frames.
* **bus arbitration and DMC** - two DMAs and runs of CPU writes overlapping at
  any phase; glitch flags that start, call off or suppress a DMA; who owns each
  cycle; everyone waiting for RDY.
* **sequencer** - writes that act 3 or 4 cycles later, predictions made earlier
  in the cycle, a fast path with many conditions, interrupts acknowledged and
  raised in the same cycle.
* **controllers** - reads made by the CPU and on its behalf count as one; the
  strobe is delayed.
* **CPU** - one bus cycle per call, in any of which RDY may be low, an NMI may
  arrive or reset be pressed; interrupts are polled at the end of instructions,
  with the exceptions of branches, CLI/SEI/PLP and sequences taken over.
* **mappers** - everything an address reads is computed when a register is
  written and must not go stale; MMC1 drops writes that come too close, measured
  in dots; MMC3's counter is clocked by filtered, delayed rises of an address bit.
* **FDS** - a head that moves by itself while the program, the user and the host's
  saving touch the disk; a timer interrupt that appears three cycles late.
* **channels** - register writes and the sequencer's clocks meet in one cycle; two
  hand-written copies of the envelope; a mix computed only when told to.
* **sprite evaluation** - a search spread over the dots of a line that hands its
  result on to the next line, with accesses in between.

`PROJECT.json` lists the components with their status and every hazard at its
line, with the properties that would show it going wrong.

## 2. The modules

| module | models | composed with |
|---|---|---|
| `OpenBus` | what the open bus promises: one decay step per CPU cycle | abstract specification |
| `OpenBusDecay` | the batched decay of `nesPpu.hpp` with all its accesses | implements `OpenBus` (`PerCycle`) |
| `PpuProofs` | theorems about `OpenBusDecay` and `Sprites` | |
| `ApuSequencer` | the frame sequencer, `RunOneLast`, both resets | sees the DMC as a source of reloads and interrupts |
| `ApuSequencerProofs` | theorems about `ApuSequencer` | |
| `DmcDma` | `RunCpuOne` with sprite DMA, DMC DMA, the DMC unit and RDY | composes bus arbitration and the DMC |
| `BusProofs` | theorems about `DmcDma` and `Cpu` | |
| `PpuFrame` | `FrameAdvance`, the incrementers' counting, `runppu`, vblank and NMI | composes frame loop, PPU timing and the CPU's accesses |
| `PpuFrameProofs` | theorems about `PpuFrame` | |
| `Controllers` | ports, strobe, reads by CPU and DMA | takes from `DmcDma` when a DMA can start |
| `ControllersProofs` | theorems about `Controllers` | |
| `Cpu` | `ExecuteOne`: the microcode table, every stage with its RDY test, NMI, IRQ, reset | gives `DmcDma`, `ApuSequencer` and `Controllers` the pace of writes they assume (`WritesAreSpaced`) |
| `Mmc1Port` | what MMC1's serial port promises a program | abstract specification |
| `Boards` | every cartridge board: registers, banks, mirroring, MMC1's port and timeout, MMC3's counter and interrupt | implements `Mmc1Port` (`Port`) |
| `BoardsProofs` | theorems about `Boards` | |
| `Fds` | drive, RAM adapter's registers and timer, interrupt line, front end's buttons, saving and sessions | |
| `FdsProofs` | theorems about `Fds` | |
| `Channels` | a pulse with envelope and sweep, noise, triangle, length counters, the cached mix | takes its clocks from `ApuSequencer`, any of them in any cycle |
| `ChannelsProofs` | theorems about `Channels` | |
| `Sprites` | sprite evaluation, fetches, the line buffer and the sprite-zero hit | PPU's dots and the CPU's accesses |
| `MC...` | the instances TLC checks | |

How state and actions correspond to the code:

* **One action is the largest thing nothing can interrupt.** In `ApuSequencer`,
  `DmcDma` and `Controllers` that is one CPU cycle, written as the composition
  of the operators for its parts in the code's order (`BeforeCpu`, `AfterCpu`,
  `SlowBody`, ...). In `PpuFrame` it is one dot. In `OpenBusDecay` it is one
  access or one decay step. In `Cpu` it is one cycle of the CPU, in `Boards` and `Fds`
  an access or the dot after it, in `Channels` a cycle of the APU, in `Sprites` a dot
  with the access that may fall into it.
* **Fields are records** (`apu`, `dmc`, `bus`, `ppu`, `io`) whose field names are
  those of the code, shortened where the record's name says the rest. A cycle in
  progress is a record of records that the parts pass on.
* **The CPU is what it can do to the others**: a read, a write or a read-modify-
  write's second write, within the pace of 6502 instructions. `MaxWriteRun` (3,
  the pushes of an interrupt) and `WriteGap` (3 cycles without a register write
  between two instructions that write one) are the bounds the instruction
  timings give; they matter, since e.g. `LoadForeseesClock` does not hold for
  writes in arbitrary cycles. `Cpu` derives them: `WritesAreSpaced` says of the
  microcode what the other modules assume.
* **Data is abstracted** to what the properties tell apart. A byte on the open
  bus and the noise's shift register are the sets of their 1 bits; a sample is its length; buttons are model
  values; a pad's shift register is the latched mask and how far it has been
  shifted; an opcode is the family of microcode rows it belongs to, and what the data
  decides (a page crossing, a branch taken, flags pulled from the stack) is a free
  choice; a cartridge is the number of its pages; a disk is a row of bits; a sprite's
  pattern is the set of its opaque columns.
* **Names.** The specifications that a proof module takes together must not share a
  name, so `OpenBusDecay` has `BusInit`, `BusSpec`, `BusTypeOK`, ..., and `Cpu` has
  `CpuInit`, `CpuSpec`, `CpuTypeOK`, ... for what is `Init`, `Spec`, `TypeOK` elsewhere.
* **Merged properties.** A run checks a conjunction where several named parts
  belong to one claim (`BusArbitration`, `VblankAccounts`, ...); each part keeps its
  definition and its comment in the module.
* **History** (`clocks`, `did`, `frame`, `seen`, `heard`, `owed`, `content`, `step`) is written by the step that does
  the thing and read by properties only.

Definitions preceded by `\* Fault:` are faulty variants of the definition that
follows them. They are no part of the specification; each is the mutant that
shows that some property depends on that definition.

## 3. What TLC checks

`tlc -workers 2 -config <cfg> <module>`; all runs finish in a few minutes.

| run | cfg | question |
|---|---|---|
| open_bus | `MCOpenBusDecay.cfg` | Is the batched decay the per-cycle decay, and its checkpoint exact? (An assumption evaluated with it: is the closed form of the flush its loop?) |
| apu_sequencer | `MCApuSequencer.cfg` | Does the sequencer miss a step, clock twice, lose an interrupt, foresee a clock wrongly, or take its fast path where it is not allowed? Does it go round for ever? |
| apu_fast_path_line | `MCApuSequencer_FastPathKeepsLine.cfg` | (violated) Does the fast path leave the interrupt line as the full body would? |
| dma | `MCDmcDma.cfg` | Does every cycle have one owner, is the CPU held exactly during DMA, do get and put cycles keep their parity, does a reload have a length to decrement? Is the CPU always released, the buffer refilled, a sample ended? |
| dma_reset_in_reload | `MCDmcDma_DisableSparesReload.cfg` | (violated) Does a disable leave a reload in progress alone? |
| ppu_frame | `MCPpuFrame.cfg` | Do flag, NMIs, frame length and loop flags come out right for every alignment, access and reset, and does every frame end? |
| controllers | `MCControllers.cfg` | Do poll and latch agree, is a strobe ever lost, do reads in a row shift a port once, whoever makes them? |
| cpu | `MCCpu.cfg` | Does a held cycle only delay, is an NMI lost or taken twice, are interrupts polled where and by the mask they should be, do they come in the end, do writes keep apart, is there one access in a cycle but for LAX abs? |
| boards | `MCBoards.cfg` | Is every page on the cartridge and no output stale, does the serial port do what a program sees, is each filtered rise of A12 counted once, and does the scanline interrupt come? |
| fds | `MCFds.cfg` | Does what was written survive ejecting, saving, new sessions and insertion into an empty drive, and does insertion over a side that was not ejected lose only what was written since its last eject or save; is the interrupt line right, do the timer's interrupt and the end of the disk come? |
| channels | `MCChannels.cfg` | Do a write and a clock that meet, the two envelopes, and the mix that units have to ask for come out right; does a tone left alone end? |
| sprites | `MCSprites.cfg` | Do the indices stay where they belong, does a line show the first sprites in range, does the sprite-zero hit come in every frame? |

### Bounds, and why they are enough

* `MCOpenBusDecay`: three lines, one for each set of reads that refreshes it
  (palette only, both, status only); lines of one kind do not interact. A period
  of 2 makes a flush meet reloads at every phase; `FlushCatchesUp` looks at up to
  three periods owed. The proofs remove the bounds.
* `MCApuSequencer`: steps 4 cycles apart, the least at which the pending events
  (3 or 4 cycles for a $4017 write, 2 for an interrupt) of one step are over
  before the next; `LutAssumption` states what is needed of the real table, which
  is much sparser. One reset of either kind.
* `MCDmcDma`: rates of 8 and 10 cycles per bit and two bits per byte: a DMA with
  all its delays is over before the next byte is needed, as at the fastest real
  rate of 50 cycles and eight bits, and every phase of timer, DMA and write
  occurs. `RatesAssumption` asks for 8 cycles, with which the proof shows the DMAs to be
  in time (`DmaInTime`). The sprite DMA moves two bytes. `LengthWrap` stands for 2^32 - 1.
* `MCPpuFrame`: 8 dots and 8 lines, chosen so that dots, lines and frames leave
  the same remainders modulo three as 341 and 262 do (`SameAlignments`), which is
  all the alignment depends on. Two resets. A history count of dots stops one
  past the longest frame.
* `MCControllers`: two masks, one data bit, both ports.
* `MCCpu`: no bounds but the history's; the microcode is small enough to be checked
  as it is, with an NMI, an IRQ level, RDY and a reset possible in every cycle. `seen`
  counts opcodes an interrupt waits for and writes in a row up to one more than the
  properties allow.
* `MCBoards`: the eight boards, each on a cartridge that has more pages than the
  registers' low bits tell apart (one whose CHR count is not a power of two included);
  a MMC1 program loads the control register and one other, with values of at most
  two one bits, through bits written 0, 1 and 128; a MMC3 program uses the banks or the
  counter, with reload values 0, 1 and 2, which are those for which arriving at zero
  and being at zero differ. Writes fall on every CPU slot and rises of A12 on every dot.
  `CartAssumption` asks for the pages a board selects without looking at a mask, and
  `ProgramsAssumption` for bytes written to PRG space.
* `MCFds`: two sides of three bits, bytes of two, one or two dots per bit; the head's
  dummy moves overshoot the end, as 5,000 bits may. The interrupt line is looked at
  before and after every access and dot, not only where the CPU samples it. One session after the first, one
  bit set that the image had not. A program uses the timer, the drive, or the drive
  while disks are changed.
* `MCChannels`: short tables and periods, a volume of 2, a noise register of four bits;
  `Sent` says what the bits of each register can say, and `ProgramsAssumption` that
  nothing else is written; each program uses one channel and one aspect of it, in the build that has it
  (the headless build leaves waveforms out). Either pulse is tried for the sweep, whose
  negation differs between the two.
* `MCSprites`: four sprites, two slots, 24 dots to find them, two lines. A line is 47
  dots, 2 modulo 3, so that over lines and frames accesses fall on every alignment. Two
  programs: one with more sprites in range than slots, and one that starts the search
  in the middle of OAM, in the middle of a sprite, with tall sprites. Two accesses to
  $2000, $2001, $2003, $2004 in a frame at any slot. `SpritesAssumption` asks for dots
  enough for the search: two for each sprite and six more for each slot, 176 of the 192
  that the code has. `ProgramsAssumption` asks for bytes, and for sprites without the
  attribute bits that OAM does not have, by which a cleared slot is told from one in use;
  the proofs remove all other bounds.

### Fairness

The program has no scheduler. `FrameAdvance` calls the incrementers in loops that
wait for nothing, and the host calls `FrameAdvance` again and again. The fair
specifications say just that: cycles (`CycleRuns`) or dots go on for ever. In
`ApuSequencer` and `DmcDma` a cycle is possible in every state and is recognised
by the parity or the timer it always changes, so the condition excludes only
behaviours that stop. Nothing is assumed about the program being run: where a
property needs it to leave a register alone, the property says so
(`FrameIrqRecurs`, `SampleEnds`, `NmiRecurs`, `TimerInterrupts`, `SplitComes`).

`Fds` states weak fairness of the CPU's and the PPU's clock of the board, its two
sources of time. `Cpu` says that accesses never cease unless the program has jammed the
CPU: cycles go on, and no DMA holds RDY for ever, which is `CpuReleased` of `DmcDma`.
`Sprites` says that dots go on. `Boards` and `Channels` assume nothing; what their
liveness needs, clocks that keep coming, is the premise of `ScanlineIrqComes` and
`ToneEnds` (for the latter, `QuarterFramesRecur` of `ApuSequencer` grants it).

### Disagreements found

1. *The fast path keeps a stale interrupt line* (`nes.hpp` 1288-1302, run
   apu_fast_path_line). The full body computes the line from `sequencer_irq`
   before it drops an interrupt whose flag is gone; in the next cycle the full
   body would lower the line, but by then the fast path's condition holds, and it
   returns without touching it. The line stays high until the next event of the
   sequencer, up to thousands of cycles. `StaleLineReleased` shows that it does
   come down, `NoIrqLost` that no interrupt is lost the other way round, and
   `FastPathKeepsState` that the line is all that differs.
2. *A reset in a reload* (`nesApu.hpp` 639-689, run dma_reset_in_reload). The
   first two cases of `set_lenctr_en` come before the check for a reload in
   progress; a soft reset reaches them during one, and the unsigned length is
   then decremented at zero. `ReloadHasLength` shows that without a reset no
   program can bring this about.

Others met while modelling, which no run checks:

* The comment at `nes.hpp` 1187 speaks of a timer check ("the halt for DMC DMA occurs
  on APU cycles only") that the condition at 1188 does not have; fetches fall on both
  parities.
* A halt cycle right after the CPU's read of a port is not recognised as a repeat
  (`nes.hpp` 774-783) and shifts the port again. `ReadsShiftOnce`, a part of
  `PortMetOnce`, shows that of the halts this is the only one and needs a DMA started by a
  write.
* LAX abs reads its operand twice in one cycle (`mos6502x.hpp` 1684-1694), and at a port the
  second read shifts once more: the counter that recognises a repeat goes by cycles, and
  "the shift register is only updated if the previous CPU cycle did not perform a read"
  (`nes.hpp` 776) does not foresee two in one. `ReadsShiftOnce` allows one shift for it and
  no more; `WritesAreSpaced` says that no other instruction makes two accesses in a cycle.
  The other registers see nothing of it: what a read clears or acknowledges is cleared
  twice.
* "Holding Insert re-seats the disk every frame" (`waterbox.cpp` 457): a side put in over
  one that was not ejected takes with it what was written on that one since it was last
  ejected or saved. `InsertButton` models it, and `WritesSurvive` says that nothing else is
  lost.
* `nesSerialization.hpp` 5-12 says that every mutable field is synced; `syncBoard`
  (384-411) syncs neither `board.Wram` nor `board.chr`.
* "CHR RAM is banked too" (`nesBoards.hpp` 919): with CHR RAM the mask that banks it
  is zero (625), so MMC1's bank registers select nothing there.
* `runppu` compares with 3 throughout; `cpu_sequence_PAL` is filled in and not used.
* A halted length counter loaded in a cycle with a length clock is left one too long,
  the clock that the added one is for being withheld (`nesApu.hpp` 119-129); the
  bound of `len_cnt` in `Channels` is therefore the longest length plus one, and
  `LoadsMeetClocks` speaks of counters that are not halted.
* The pulses have no `len_halt` in use: only the noise's halt waits for the clock.
* The drive's interrupt can stay up with `diskenable` off; and the end of the disk is
  noticed by `>=` in the clock, but the status bit compares for equality and misses a
  head moved past the end (`nesFds.hpp` 276-299, 434-439).
* A sprite's fetch begun with rendering off leaves the patterns of an earlier line in
  its slot (`nes.hpp` 2195-2251); nothing in the code claims otherwise, and
  `PixelsOwned` speaks of lines that were left alone.

## 4. What is proved

TLAPS checks the theorems below for every value of the constants that the named
assumptions admit; TLC evaluates each assumption on the instances above. Of every
module each invariant and action property that a passing run checks is proved this way,
but for those listed at the end.

Everywhere the invariant a run checks is a part of an inductive invariant `IInv`
(`BusInv` for `OpenBusDecay`, `CpuInv` for `Cpu`),
defined in the proof module with the reason for each conjunct; the lemmas follow the
code's operators in the order in which a step composes them, so that a change to one
function breaks the lemma about it.

### Open bus (`PpuProofs`; `BitsAssumption`, `PeriodAssumption`)

For every set of lines, every `HighBits` and `LowBits` within it, and every period
greater than zero, so also for the eight lines and the 1,786,840 cycles of the code,
which no run could cover:

* `BusTypeCorrect` and `ClearsAlwaysOnTime` (from `CheckpointAlwaysExact` and
  `NeverOwesAClear`): the invariants `BusTypeOK` and `ClearsOnTime`, the latter being
  `CheckpointExact` and `NoClearOwed`.
* `BatchedImplementsPerCycle`: `BusSpec => PerCycle!Spec`, the claim of
  `nesPpu.hpp` 666-667 that batching is "Bit-exact with the per-cycle original".

A timer's clear is due on step timer + 1; `next_check` is the least of these and
`pending` stays below it, so a flush never has a clear to replay except the one that
the checkpoint itself brings. The three invariants together are inductive; neither
half of `CheckpointExact` is by itself, since `NoClearOwed` after a flush needs the
exact minimum. Every step then maps to a step of `OpenBus` or leaves its variables
alone (a peek is a stutter), with the timer of the abstract bus being
`timer - pending`. The existence of a least timer comes from the well-foundedness of
< on the naturals.

### APU sequencer (`ApuSequencerProofs`; `LutAssumption`, `ResetsAssumption`)

For every table with steps more than three cycles apart, the first after cycle three,
which the code's `sequencer_lut` is, and any number of resets:

* `TypeCorrect`: `TypeOK`. The step stays within the table and no countdown goes
  below zero.
* `NeverMissesAStep`: `NoStepMissed`, on which the comparison for equality in
  `sequencer_check` relies.
* `ClocksAlwaysExact`, from `PredictionAlwaysRight` (the "simultaneous" test that
  `len_clock_active` makes before the sequencer ticks) and `NeverClockedTwice`:
  `ClocksExact`.
* `LoadsAlwaysForeseen`: `LoadForeseesClock`, that the prediction made before an
  access is right about that very access, whatever it writes.
* `InterruptsReachTheLine`: `NoIrqLost`.
* `FastPathSkipsNothing`: `FastPathKeepsState`, the comment's "Exact-equivalent"
  for everything but the line, for which it is false (disagreement 1).

`IInv` says that the counter lies between the last step and the next (`OnTrack`, with
the stored prediction that of the mode) and that between two cycles the delayed write
has at most 3 and the reload at most 2 cycles to go (`Settled`). `TypeOK` is not
inductive, since only `OnTrack` keeps the step from leaving the table. The fast path
keeps `OnTrack` because its condition rules out the step itself, and the spacing of
the table is what makes the next step lie ahead when a step is reached.
`FastPathExact` needs no invariant beyond the types: it shows part by part that a body
whose conditions are all false is the identity up to the counter.
`LoadsAlwaysForeseen` needs the pace of the CPU as well (`Paced`): a delayed $4017
write is never due for longer than the CPU still has to go without another write, so
the write that would change the prediction cannot meet the one that relies on it.

### Bus arbitration and DMC (`BusProofs`; `RatesAssumption`, `SizesAssumption`)

For all even rates of at least 8 cycles per bit, two bits or more in a byte, any
lengths of samples and of the sprite DMA, and any number of resets:

* `TypeCorrect`: `TypeOK`.
* `BusAlwaysArbitrated`: `BusArbitration` - one owner in every cycle, the CPU held
  exactly while a DMA is on, the parity of get and put cycles, and a reload that finds
  a length to decrement.
* `FastPathAlwaysExact`: `RunFastPathExact`, that `DMCUnit::Run` skips nothing.

`Inside` is what the code keeps between cycles without ever saying so: how far the
reload, RDY's check and the realignment can be from each other, and that a DMA for
samples has always enough cycles left in its byte (`DmaInTime`), which is where the
rate of 8 is used. The lemmas about the DMA's part of a cycle speak of the state
that the CPU's part finds (`DmaSeen`, `InTimeSeen`), since what holds between cycles
does not hold in the middle of one.

### PPU frame (`PpuFrameProofs`; `GeometryAssumption`)

For every number of lines and of dots in a line beyond the six in which the flag and
the NMI move, every start-up offset within the active lines, with or without the
dropped dot, and any number of resets:

* `TypeCorrect`: `TypeOK`. The incrementers enter one loop at a time.
* `VblanksAlwaysAccounted`: `VblankAccounts` - the flag stays within its vblank, no NMI
  is lost or taken twice, the frame's end finds nothing pending.
* `DotsAlwaysKept`: `DotsKept` - a frame has all its dots, or one less every other time
  with rendering on.

`IInv` ties the loop that runs to the flags which enter it (`InLoop`), the two
countdowns of the flag to the dots they are set in (`PendingSoon`), the history of
NMIs to the latches (`Accounts`, `Untouched`), and the count of dots to line and
position (`Aligned`, `Alternates`), which is arithmetic of lines times dots.

### Controllers (`ControllersProofs`; `ControllersAssumption`)

For any masks of buttons, any length of the shift register, one port or two:

* `TypeCorrect`: `TypeOK`.
* `StrobesAlwaysAgree`: `StrobesAgree` - what the front end is told was polled and what
  the pads latched agree, and every strobe reaches the pads.
* `PortsMetOnce`: `PortMetOnce` - a strobe is only overwritten by the second write of a
  read-modify-write, and reads in a row shift a port once but in the two cases the code
  misses (section 3): a late halt of a DMA that a write started, and LAX abs.

`StrobeDue` says in which cycles a strobe can be on its way, `ReadWindow` that the
window for double reads is open exactly after a cycle that read the port.

### Mappers (`BoardsProofs`; `CartAssumption`, `ProgramsAssumption`)

For every cartridge with the pages its board selects, of any size, and any program:

* `TypeCorrect`: `TypeOK`, in which every bank is on the cartridge.
* `BoardAlwaysFollows`: `BoardFollows` - no output of a board is older than the
  registers it is computed from, and each filtered rise of A12 clocks MMC3's counter once.
* `PortAlwaysImplemented`: `PortImplemented`, that MMC1's shift register of values, its
  count and its timeout in PPU clocks implement `Mmc1Port`: five bits in a row, or a
  reset, and of two neighbouring writes only the first.
* `OnlyNeighboursDropped`: in a CPU slot MMC1 hears a write exactly when it heard none in
  the cycle before. With the property above this is all a program need know of the timeout.

`Synced` is the hard part of `IInv`: for each board the cached banks are those the
registers select, through masks of pages whose bounds are lemmas (`Masks`, and those
about remainders and quotients). `Timeout` relates the PPU clock of the last write
heard to the dot of the cycle, which is what turns a distance in dots into "the cycle
before"; `Filtered` bounds MMC3's two countdowns so that a rise that is owed has
exactly one clock under way.

### FDS (`FdsProofs`; `ImageAssumption`, `CyclesAssumption`, `BitsAssumption`, `ProgramsAssumption`)

For any number of sides of any length, any times the drive waits, and any number of
sessions:

* `TypeCorrect`: `TypeOK`; the head of a drive that moves is over a bit of a disk.
* `WritesAlwaysSurvive`: `WritesSurvive`. What is kept of a side is its difference from the
  image, and applying a difference twice gives the disk back (`XorUndoes`), so that
  ejecting, saving and restoring in any order lose nothing. The history `kept`, what a side
  held when it was last ejected or saved, is what its differences give: it is all that is
  left of a side when another is put in over it, and writes since then are the exception.
* `LineAlwaysFollows`: `InterruptLine`, by `Line`: `diskirq` follows the drive, and the
  timer's interrupt is up exactly when it is active and its delay has run out.

### APU channels (`ChannelsProofs`; `ChannelsAssumption`, `ProgramsAssumption`)

For every table of lengths, width of the periods, volume, duty and size of the noise's
register:

* `TypeCorrect`: `TypeOK`. A sweep keeps the period within its bits and in step with the
  timer's reload value, a channel switched off has no length, and the noise's register
  never becomes all zero, from which no clock would ever wake it.
* `UnitsAlwaysAgree`: `UnitsAgree` - the pulse's and the noise's ways of counting an
  envelope are one envelope, the cached mix is that of the samples as they are, and a
  length loaded in the cycle of a clock is what the code's remarks say it should be. The
  mix is computed only if a unit set its part of `recalculate`; that none changes its
  sample without (`Asks`) is proved of each unit's run (`MixKept`).

That the sweep's target is a period (`TargetInRange`) is the code's reason for
`swp_silence`: a shift by s is a division by 2^s, and a target that does not fit
silences the channel before it is used. `DividersAgree` shows that one divider is the
other's plus one; `NeverLocksUp` that the register loses its last 1 only from the end,
and that a 1 is then fed back.

### Sprites (`PpuProofs`; `SpritesAssumption`, `ProgramsAssumption`)

For any number of sprites, slots and lines, any length of a line's parts that leaves
the search its dots, and any program with accesses to $2000, $2001, $2003 and $2004 at any dot:

* `SpritesTyped`: `TypeOK`; the indices into OAM, the secondary OAM and the slots are in
  their arrays wherever they are used, and what a $2004 write stores lacks the bits OAM
  lacks.
* `SpritesShown`: `LinesShowSprites`, that is `LineEvaluated` and `PixelsOwned`: a line that
  is left alone finds the first sprites in range from where the search starts, as many as
  there are slots, and no other; and on the line after it each pixel is owned by the first
  of them that covers it.

Two kinds of conjuncts make up `IInv`. `Types`, `Placed` and `Drawn` hold whatever a
program does: `OamIndex` is what bounds `oam_index`, which runs past the end of OAM, by
8 at most in a search, where the wrap looks at it in every dot; outside one, and on the
whole line before the picture, only the mask of $2004's writes bounds it, at twice OAM's
size. `Calm` and `DrawnCalm` hold of a line that has been left alone up to now
(`seen.now`). The search has no loop to put an invariant on, so `Searched` is
one for every dot of it: at sprite i with t bytes copied (`Looking`), with the slots taken
and the next sprite to be looked at for the overflow (`Full`), or over before the
slots were full (`Over`). Its equation

    Pairs(dot) = (i - f) + 3 * soam_index + true_count

counts the pairs of dots spent, one for each sprite since the first, f, and three more for
each one found. It is where the bound on `EvalDots` is used: without it the search could
be cut off with sprites left, and the theorem would be false. The lemmas `LookingFirst`,
`LookingNext`, `LookingTaken`, `LookingOver` and `LookingEnds` are the branches of the
code's `if` for the odd dots. `Pixel(p, x, n)` then says of the line buffer
that it is right for the first n slots, n growing by one per sprite fetched.

### CPU (`BusProofs`; no assumptions)

The microcode is a table without constants, and the run looks at all of its states; the
proofs add the reason, stage by stage, which tells someone who adds a row what the row must keep to.

* `CpuTyped`: `CpuTypeOK`; no row is run off its end.
* `InterruptsAreServed`: `InterruptsServed`, an NMI for each one latched and no interrupt
  that waits for more than one opcode.
* `WritesSpaced`: `WritesAreSpaced`, the pace that `DmcDma`, `ApuSequencer` and
  `Controllers` take for granted, and that only LAX abs makes two accesses in a cycle,
  two reads that are its last.
* `PolledAtEnds`: `InterruptPolling`, the safety half of `PollsTake`.
* `FreezesAreTransparent`: `FreezeIsTransparent`, that a cycle with RDY low only delays.

First come facts about the table (which stages end a row, which write, what stands
before and after them), then what a stage may do: stay in its row (`Does`: which fields
it may touch and how it uses the bus), turn off into a branch's rows, poll, or
fetch; `StageOutcome` says that each stage does one of these, and `Outcome` the same of a
cycle, the retry of a stage included. With that the rest speaks of four outcomes instead
of some seventy stages.

`CpuInv` has a conjunct for each thing the code relies on without saying so.
`InPlace` is the type; `Aimed`, that a sequence under way still holds its vector, makes
`Owes`, the account of NMIs, inductive when one sequence takes another over.
`NmiWaits` and `IrqWaits` tie the count of opcodes that an interrupt has seen to
`branch_irq_hack` being off, so that the next end of an instruction must poll it;
`MaskKept`, that CLI, SEI and PLP leave I alone up to their poll, is what lets
`InterruptPolling` speak of the mask at the fetch. `RunTrails` and `StoresApart` say that
the last cycles' writes are those of the stages just before this one in the row, so that
the lengths of runs and gaps can be read off the table.

For RDY, `HeldAt(b, d)` says that a stage run from b with RDY low stops in d, and that
from d the next cycle can do only what b could have done. For most stages d is b; the others
have done a part of their work before they look at RDY (CLI and SEI have set their flag,
a read that crosses no page has skipped a stage, an unstable store has noted RDY in H, the
end of an instruction has chosen the next row) and the proof shows of each that the
next cycle goes on from there to where this one would have come.

### What only TLC checks

* All liveness (`SequenceRecurs`, `DmasGoOn`, `FramesGoOn`, `NmiTaken` in `PollsTake`,
  `ScanlineIrqComes`, `WaitsEnd`, `ToneEnds`, `SplitComes`): fairness and ENABLED are
  outside the prover's reach.
* `FlushCatchesUp`, which compares a closed form with a recursive loop.
* `FastPathKeepsLine` and `DisableSparesReload`, which are false.

## 5. Plan

The models are complete as far as section 6 says, and their safety properties are proved.
What is left is to join two of them: that the CPU of `ApuSequencer` and `DmcDma` is `Cpu`
with its microcode hidden, so that `MaxWriteRun` and `WriteGap` follow from `WritesSpaced`
by proof rather than by reading.

## 6. What is not modelled, and why

* CPU data: the ALU, registers and addresses, straight-line code with its own
  differential fuzzer (`tools/cpuFuzz.cpp`). What steers the microcode is kept.
* Rendering: colours, palettes, the background's fetches, and the address machine
  behind $2005, $2006 and $2007 with `install_2006`: timing of address data only. So are
  sprites' flips and priorities, and the loop for more than eight sprites, an option
  that adds sprites to the picture and no state.
* The mixer's arithmetic and resampling, the FDS's sound channel, palettes and
  disassembly: functions of their input.
* The drive's CRC and `$4026`; the write protection no inserted side has.
* Memory contents of the boards; work RAM's protection at $A001 gates data only.
* `HardReset` in `DmcDma`: it leaves DMA flags as they were, but no front end
  raises the hard reset signal.
* PAL's uneven CPU sequence: `runppu` compares with 3 throughout, so the models have
  three dots per cycle in every region.
* Savestates, but for the open bus, which is re-derived: which fields are synced is a
  list, not behaviour.
* The front ends, but for the FDS's buttons and saving: export glue around
  `FrameAdvance`.

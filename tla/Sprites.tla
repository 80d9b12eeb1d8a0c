------------------------------- MODULE Sprites -------------------------------
(***************************************************************************)
(* Sprite evaluation (nes.hpp, TickPPU_active; nesPpu.hpp, the registers): *)
(* on each line the PPU clears its secondary OAM, copies the first sprites *)
(* of the next line into it, looks for one more with the hardware's faulty *)
(* increments, fetches what it found and lays it into the line buffer that *)
(* the next line shows, where the first sprite may hit the background.     *)
(* One action is one dot.  The program's accesses fall into every third    *)
(* dot, after the dot's evaluation and before its end.                     *)
(*                                                                         *)
(* A byte of OAM is a number, since any byte may be compared with the line *)
(* as if it were a Y coordinate; a tile is the set of its opaque columns.  *)
(* sprite_eval_cycle and is_even_cycle always go with the dot and are left *)
(* out, as are flips, colours and the addresses that are fetched from.     *)
(***************************************************************************)
EXTENDS Integers, FiniteSetsExt

CONSTANTS
  NumSprites,    \* sprites in OAM: 64
  Slots,         \* sprites on a line: 8
  EvalDots,      \* dots of a line that look for sprites: 192
  FetchDots,     \* dots that fetch a sprite: 8
  RestDots,      \* dots from there to the end of the line: 21
  Lines,         \* visible lines: 240
  Width,         \* columns of a tile: 8
  Short, Tall,   \* heights of a sprite: 8 and 16
  Blank,         \* the byte of a cleared slot: 0xFF
  Columns(_),    \* the opaque columns of a tile
  Programs,      \* bound: what a program sets up in vertical blanking: OAM, its
                 \*   address, the height of sprites and what is rendered
  Accesses,      \* bound: the <<register, value>> it writes while lines are drawn
  MaxAccesses    \* bound: how many of them in a frame

OamSize == 4 * NumSprites
ClearDots == 8 * Slots
Visible == ClearDots + EvalDots
FetchEnd == Visible + FetchDots * Slots
LineEnd == FetchEnd + RestDots
Shown == {"bg", "obj"}
None == Slots

ASSUME SpritesAssumption ==
  /\ {NumSprites, Slots, EvalDots, FetchDots, RestDots, Lines, Width} \subseteq Nat \ {0}
  /\ OamSize % 8 = 0 /\ Visible % Width = 0
  /\ EvalDots >= 2 * NumSprites + 6 * Slots   \* an evaluation comes to its end
  /\ {Short, Tall, Blank} \subseteq Nat /\ Short \in 1..Tall /\ Blank > Lines

Bytes == 0..Blank

\* No sprite of OAM has the attributes of a cleared slot: some of their bits are not there.
AttributesWired(oam) == \A i \in 0..NumSprites - 1 : oam[4 * i + 2] # Blank

ASSUME ProgramsAssumption ==
  /\ \A p \in Programs : /\ p.oam \in [0..OamSize - 1 -> Bytes] /\ AttributesWired(p.oam)
                         /\ p.addr \in 0..OamSize - 1
                         /\ p.tall \in BOOLEAN /\ p.mask \subseteq Shown
  /\ Accesses \subseteq ({"2000"} \X BOOLEAN) \cup ({"2001"} \X SUBSET Shown)
                       \cup ({"2003"} \X (0..OamSize - 1)) \cup ({"2004"} \X Bytes)
  /\ MaxAccesses \in Nat

VARIABLES
  program, \* the member of Programs that runs, chosen once
  ppu,     \* the fields of PPU
  left,    \* accesses the program has left in this frame
  seen     \* history: whether this line and the last were left alone, and the
           \*   overflow flag at the start of this line

vars == <<program, ppu, left, seen>>

PPUON(p) == p.show # {}

\* The line that is looked for, yp in the code: the next line on the screen.
InRange(p, byte) == p.sl - 1 >= byte /\ p.sl - 1 < byte + p.height

\* oam_index & 0x1FC: one bit more than an address has, to see it run over.
Aligned(index) == (index - (index % 4)) % (2 * OamSize)

-----------------------------------------------------------------------------
(***************************************************************************)
(* Registers.                                                              *)
(***************************************************************************)
\* A write into a line being drawn only moves both indices; attributes have unwired bits.
Write2004(p, v) ==
  IF PPUON(p)
  THEN [p EXCEPT !.oam_index = Aligned(@ + 4), !.addr = Aligned(@ + 4) % OamSize]
  ELSE [p EXCEPT !.oam[p.addr] = IF p.addr % 4 = 2 /\ v = Blank THEN Blank - 1 ELSE v,
                 !.addr = (@ + 1) % OamSize]

WriteRegister(p, reg, v) ==
  CASE reg = "2000" -> [p EXCEPT !.tall = v]
    [] reg = "2001" -> [p EXCEPT !.mask = v, !.install = 2]
    [] reg = "2003" -> [p EXCEPT !.addr = v]
    [] reg = "2004" -> Write2004(p, v)
    [] OTHER -> p

NoAccess == <<"none", 0>>

\* runppu: $2001 takes hold, the dot counts, fetching clears the address, the CPU runs.
Install2001(p) ==
  [p EXCEPT !.install = IF @ > 0 THEN @ - 1 ELSE 0, !.show = IF p.install = 1 THEN p.mask ELSE @]

ClearAddress(p) ==
  IF p.dot \in Visible + 1..FetchEnd /\ PPUON(p) THEN [p EXCEPT !.addr = 0] ELSE p

runppu(p, access) ==
  LET q == ClearAddress([Install2001(p) EXCEPT !.dot = @ + 1, !.cpu = (@ + 1) % 3])
  IN  IF q.cpu = 0 THEN WriteRegister(q, access[1], access[2]) ELSE q

-----------------------------------------------------------------------------
(***************************************************************************)
(* The start of a line.  On the line before the picture, an address of 8   *)
(* or more is where the first 8 bytes of OAM are overwritten from.         *)
(***************************************************************************)
Height(p) == IF p.tall THEN Tall ELSE Short

CorruptOam(p) ==
  IF p.sl = 0 /\ PPUON(p) /\ p.addr >= 8
  THEN [i \in DOMAIN p.oam |-> IF i < 8 THEN p.oam[p.addr - (p.addr % 8) + i] ELSE p.oam[i]]
  ELSE p.oam

\* Fault: what the last line found is forgotten before it is used.
StartLineForgets(p) ==
  [p EXCEPT !.true_count = 0, !.soam_index = 0, !.oam_index = 0, !.write = TRUE,
            !.zero_go = FALSE, !.zero_in_range = FALSE, !.oam = CorruptOam(p),
            !.height = Height(p), !.objects = "obj" \in p.show]

StartLine(p) ==
  [p EXCEPT !.true_count = 0, !.soam_index = 0, !.oam_index = 0, !.write = TRUE,
            !.zero_go = p.zero_in_range, !.zero_in_range = FALSE, !.oam = CorruptOam(p),
            !.height = Height(p), !.objects = "obj" \in p.show]

(***************************************************************************)
(* Evaluation: OAM is read on even dots and decided about on odd ones.     *)
(***************************************************************************)
Clear(p) ==
  IF p.dot % 2 = 0 THEN p ELSE [p EXCEPT !.soam[p.soam_index] = Blank, !.soam_index = @ + 1]

\* The X coordinate is checked like a Y, and one out of range realigns the index.
NextByte(p) ==
  [p EXCEPT !.oam_index = IF p.true_count = 3 /\ ~InRange(p, p.read_value) THEN Aligned(@ + 1)
                                                                            ELSE @ + 1,
            !.true_count = (@ + 1) % 4]

\* Fault: a sprite that is out of range is stepped over by its Y only.
CopyNarrow(p) ==
  LET q == [p EXCEPT !.soam[4 * p.soam_index + p.true_count] = p.read_value]
  IN  IF p.true_count > 0 THEN [NextByte(q) EXCEPT !.soam_index = IF p.true_count = 3 THEN @ + 1 ELSE @]
      ELSE IF InRange(p, p.read_value)
           THEN [NextByte(q) EXCEPT !.zero_in_range = @ \/ p.oam_index = p.addr]
      ELSE [q EXCEPT !.oam_index = @ + 1]

\* The Y of a sprite out of range stays in the slot until the next sprite takes it.
Copy(p) ==
  LET q == [p EXCEPT !.soam[4 * p.soam_index + p.true_count] = p.read_value]
  IN  IF p.true_count > 0 THEN [NextByte(q) EXCEPT !.soam_index = IF p.true_count = 3 THEN @ + 1 ELSE @]
      ELSE IF InRange(p, p.read_value)
           THEN [NextByte(q) EXCEPT !.zero_in_range = @ \/ p.oam_index = p.addr]
      ELSE [q EXCEPT !.oam_index = Aligned(@ + 4)]

\* With all slots taken the index moves on diagonally.
SearchOverflow(p) ==
  LET q == [p EXCEPT !.overflow = @ \/ (InRange(p, p.read_value) /\ PPUON(p))]
  IN  IF p.true_count > 0 \/ InRange(p, p.read_value) THEN NextByte(q)
      ELSE [q EXCEPT !.oam_index = IF (@ + 1) % 4 # 0 THEN @ + 5 ELSE @ + 1]

\* Fault: the index is let run on past the end of OAM.
WrapLate(p) == p

Wrap(p) == IF p.oam_index >= OamSize THEN [p EXCEPT !.oam_index = 0, !.write = FALSE] ELSE p

Search(p) ==
  LET q == Wrap(IF p.dot = ClearDots THEN [p EXCEPT !.soam_index = 0, !.oam_index = p.addr] ELSE p)
  IN  IF p.dot % 2 = 0 THEN [q EXCEPT !.read_value = q.oam[q.oam_index % OamSize]]
      ELSE IF ~q.write THEN [q EXCEPT !.oam_index = @ + 4]
      ELSE IF q.soam_index < Slots THEN Copy(q) ELSE SearchOverflow(q)

Evaluate(p) == IF p.dot < ClearDots THEN Clear(p) ELSE Search(p)

(***************************************************************************)
(* A visible dot.  The background is opaque wherever it is shown.          *)
(***************************************************************************)
SpriteZeroHit(p) ==
  [p EXCEPT !.hit = @ \/ (p.objects /\ p.line[p.dot] = 0 /\ p.zero_go
                           /\ p.dot < Visible - 1 /\ p.show = Shown)]

ShowPixel(p, x) == [p EXCEPT !.line[x] = None]

EndTile(p) ==
  IF p.dot % Width = 0 THEN [p EXCEPT !.height = Height(p), !.objects = "obj" \in p.show] ELSE p

\* Rendering turned off in the middle of a search moves the address.
EndDot(p) ==
  [p EXCEPT !.addr = IF p.dot >= ClearDots /\ p.was_on /\ ~PPUON(p) THEN (@ + 1) % OamSize ELSE @,
            !.was_on = PPUON(p)]

VisibleDot(p, access) ==
  LET q == IF p.dot = 0 THEN StartLine(p) ELSE p
  IN  IF p.sl = 0 THEN runppu(q, access)
      ELSE EndDot(EndTile(ShowPixel(runppu(SpriteZeroHit(Evaluate(q)), access), p.dot)))

(***************************************************************************)
(* Fetching.  With rendering off at its first dot a sprite is junk: it has *)
(* its own position and the columns the slot had before.                   *)
(***************************************************************************)
Slot(p) == (p.dot - Visible) \div FetchDots

Load(p) == IF (p.dot - Visible) % FetchDots = 0 THEN [p EXCEPT !.junk = ~PPUON(p)] ELSE p

FetchedColumns(p, s) ==
  IF p.junk THEN p.columns[s]
  ELSE IF p.soam[4 * s + 2] = Blank THEN {} ELSE Columns(p.soam[4 * s + 1])

\* The first sprite has the pixel; the lines before and after the picture lay nothing.
LayIn(p, s) ==
  IF p.sl \in {0, Lines} THEN p
  ELSE [p EXCEPT !.line = [x \in DOMAIN @ |->
          IF @[x] = None /\ x - p.soam[4 * s + 3] \in p.columns[s] THEN s ELSE @[x]]]

FetchDot(p, access) ==
  LET q == runppu(Load(p), access)
      s == Slot(p)
  IN  IF (q.dot - Visible) % FetchDots # 0 THEN q
      ELSE LayIn([q EXCEPT !.columns[s] = FetchedColumns(q, s)], s)

RestDot(p, access) ==
  LET q == runppu(p, access)
  IN  IF q.dot = LineEnd THEN [q EXCEPT !.dot = 0, !.sl = @ + 1] ELSE q

TickPPU_active(p, access) ==
  IF p.dot < Visible THEN VisibleDot(p, access)
  ELSE IF p.dot < FetchEnd THEN FetchDot(p, access) ELSE RestDot(p, access)

-----------------------------------------------------------------------------
InBlanking == ppu.sl = Lines + 1

Init ==
  /\ program \in Programs
  /\ ppu = [sl |-> Lines + 1, dot |-> 0, cpu |-> 0, addr |-> 0, tall |-> FALSE, mask |-> {},
            install |-> 0, show |-> {}, overflow |-> FALSE, hit |-> FALSE,
            oam |-> [i \in 0..OamSize - 1 |-> 0], soam |-> [i \in 0..4 * Slots - 1 |-> 0],
            read_value |-> 0, oam_index |-> 0, soam_index |-> 0, true_count |-> 0,
            write |-> FALSE, zero_in_range |-> FALSE, zero_go |-> FALSE, height |-> Short,
            objects |-> FALSE, was_on |-> FALSE, junk |-> FALSE,
            columns |-> [s \in 0..Slots - 1 |-> {}], line |-> [x \in 0..Visible - 1 |-> None]]
  /\ left = MaxAccesses
  /\ seen = [now |-> FALSE, before |-> FALSE, overflow |-> FALSE]

\* A dot; it disturbs the line if it writes a register or changes what is rendered.
Dot(access) ==
  LET p      == TickPPU_active(ppu, access)
      starts == ppu.dot = 0
      calm   == access = NoAccess /\ p.show = ppu.show /\ PPUON(p)
  IN  /\ ~InBlanking
      /\ access # NoAccess => left > 0 /\ ppu.cpu = 2
      /\ ppu' = p
      /\ left' = IF access = NoAccess THEN left ELSE left - 1
      /\ seen' = [now |-> calm /\ (starts \/ seen.now),
                  before |-> IF starts THEN seen.now ELSE seen.before,
                  overflow |-> IF starts THEN ppu.overflow ELSE seen.overflow]
      /\ UNCHANGED program

(***************************************************************************)
(* Vertical blanking: the program sets up OAM and the registers, and at    *)
(* the end the flags are cleared.  Like a whole frame it leaves the CPU's  *)
(* cycles on other dots than before.                                       *)
(***************************************************************************)
Blanking ==
  /\ InBlanking
  /\ ppu' = [ppu EXCEPT !.sl = 0, !.cpu = (@ + 2) % 3, !.oam = program.oam,
                        !.addr = program.addr, !.tall = program.tall, !.mask = program.mask,
                        !.show = program.mask, !.install = 0, !.hit = FALSE, !.overflow = FALSE]
  /\ left' = MaxAccesses
  /\ seen' = [seen EXCEPT !.now = FALSE]
  /\ UNCHANGED program

Next == (\E access \in Accesses \cup {NoAccess} : Dot(access)) \/ Blanking

Spec == Init /\ [][Next]_vars

\* FrameAdvance is called again and again, and a dot waits for nothing.
DotRuns == ppu'.dot # ppu.dot

FairSpec == Spec /\ []<><<DotRuns>>_vars

-----------------------------------------------------------------------------
(***************************************************************************)
(* Types: wherever accesses fall, every index stays where its array is     *)
(* read or written, and no sprite of OAM has the attributes of a cleared   *)
(* slot, by which the fetch knows a slot that is empty.                    *)
(***************************************************************************)
Searching == ppu.sl > 0 /\ ppu.dot \in ClearDots + 1..Visible

TypeOK ==
  /\ ppu.dot \in 0..LineEnd - 1 /\ ppu.sl \in 0..Lines + 1
  /\ ppu.addr \in 0..OamSize - 1
  /\ ppu.oam_index \in 0..(IF Searching THEN OamSize + 8 ELSE 2 * OamSize)
  /\ ppu.soam_index \in 0..(IF ppu.dot \in 1..ClearDots THEN 4 * Slots ELSE Slots)
  /\ ppu.true_count \in 0..3 /\ (ppu.true_count > 0 => ppu.soam_index <= Slots)
  /\ AttributesWired(ppu.oam)
  /\ seen.now \in BOOLEAN /\ left \in 0..MaxAccesses

(***************************************************************************)
(* A line that was left alone, with the search starting at a sprite, found *)
(* the first sprites in range, in order; the other slots look empty; the   *)
(* sprite the search started with is known to be in range or not; and the  *)
(* overflow flag came up only with all slots taken, and came up if the     *)
(* sprite after the last one taken was in range as well.                   *)
(***************************************************************************)
Found == {i \in 0..NumSprites - 1 : 4 * i >= ppu.addr /\ InRange(ppu, ppu.oam[4 * i])}

FoundBefore(i) == Cardinality({j \in Found : j < i})

SlotsTaken ==
  /\ \A i \in Found : FoundBefore(i) < Slots =>
       \A b \in 0..3 : ppu.soam[4 * FoundBefore(i) + b] = ppu.oam[4 * i + b]
  /\ \A s \in 0..Slots - 1 : s >= Cardinality(Found) => ppu.soam[4 * s + 2] = Blank

ZeroFlagged == ppu.zero_in_range <=> InRange(ppu, ppu.oam[ppu.addr])

OverflowFound ==
  /\ ppu.overflow /\ ~seen.overflow => Cardinality(Found) >= Slots
  /\ \A i \in Found : FoundBefore(i) = Slots - 1 /\ i + 1 \in Found => ppu.overflow

LineEvaluated ==
  ppu.dot = Visible /\ ppu.sl > 0 /\ seen.now /\ ppu.addr % 4 = 0 =>
    SlotsTaken /\ ZeroFlagged /\ OverflowFound

(***************************************************************************)
(* After a line that was left alone each pixel of the next line belongs to *)
(* the first slot with an opaque column there; and whatever happened, the  *)
(* part of a line that was shown holds no pixels of an earlier line.       *)
(***************************************************************************)
Owners(x) ==
  {s \in 0..Slots - 1 : ppu.soam[4 * s + 2] # Blank
                          /\ x - ppu.soam[4 * s + 3] \in Columns(ppu.soam[4 * s + 1])}

PixelsOwned ==
  /\ ppu.dot = 0 /\ ppu.sl \in 2..Lines /\ seen.now =>
       \A x \in DOMAIN ppu.line : ppu.line[x] = IF Owners(x) = {} THEN None ELSE Min(Owners(x))
  /\ ppu.sl > 0 => \A x \in DOMAIN ppu.line : x < ppu.dot /\ ppu.dot <= Visible => ppu.line[x] = None

(***************************************************************************)
(* A line shows the sprites the line before it found, and it found the     *)
(* right ones.                                                             *)
(***************************************************************************)
LinesShowSprites == LineEvaluated /\ PixelsOwned

(***************************************************************************)
(* The sprite-zero hit that programs wait for comes in every frame, once a *)
(* program leaves rendering on and its first sprite on the screen.         *)
(***************************************************************************)
Split ==
  /\ ppu.show = Shown /\ ppu.mask = Shown /\ left = MaxAccesses /\ ppu.addr = 0
  /\ ppu.oam[0] = 0 /\ ppu.oam[2] # Blank /\ 0 \in Columns(ppu.oam[1])
  /\ ppu.oam[3] < Visible - 1

SplitComes == <>[]Split => []<>ppu.hit /\ <>[](InBlanking => ppu.hit)

=============================================================================

---------------------------- MODULE PpuFrameProofs ----------------------------
(***************************************************************************)
(* For any number of dots and lines: the frame's fields keep their types,  *)
(* every vblank has its flag and its NMIs to itself, a frame has the dots  *)
(* it should have, and the vblank's own NMI is raised right after a CPU    *)
(* cycle.                                                                  *)
(***************************************************************************)
EXTENDS PpuFrame, TLAPS

(***************************************************************************)
(* The types within a dot.                                                 *)
(***************************************************************************)
PpuType ==
  [cycle : Nat, sl : Nat, stepcounter : {0, 1, 2},
   do_vbl : BOOLEAN, do_active_sl : BOOLEAN, do_pre_vbl : BOOLEAN,
   ppudead : {0, 1}, idleSynch : BOOLEAN, evenOddDestiny : BOOLEAN,
   vblank : BOOLEAN, active_pending : BOOLEAN, clear_pending : BOOLEAN,
   gen : BOOLEAN, nmi_destiny : BOOLEAN, NMI_offset : {0, 1, 2}, nmi_pending : {0, 1, 2},
   show : BOOLEAN, show_new : BOOLEAN, install_2001 : {0, 1, 2}]

FrameType ==
  [dots : Nat, last : {DeadDots, FullDots - 1, FullDots},
   flagged : BOOLEAN, nmis : Nat, enables : Nat, touched : BOOLEAN]

Mid == [ppu : PpuType, nmi : BOOLEAN, frame : FrameType]

(***************************************************************************)
(* What runppu leaves alone of the PPU p and of the frame.                 *)
(***************************************************************************)
Steered(p, q) ==
  /\ q.sl = p.sl /\ q.ppudead = p.ppudead
  /\ q.do_vbl = p.do_vbl /\ q.do_active_sl = p.do_active_sl /\ q.do_pre_vbl = p.do_pre_vbl
  /\ q.idleSynch = p.idleSynch /\ q.clear_pending = p.clear_pending
  /\ q.nmi_destiny = p.nmi_destiny /\ q.NMI_offset = p.NMI_offset

(***************************************************************************)
(* The fields the program's accesses of $2000 and $2002 look at or change. *)
(***************************************************************************)
Seen(p, q) ==
  q.vblank = p.vblank /\ q.active_pending = p.active_pending /\ q.gen = p.gen

Steady(f, g) == g.last = f.last /\ g.flagged = f.flagged

-----------------------------------------------------------------------------
\* The lines of a frame, and its dots.
LEMMA Geometry ==
  /\ LineDots \in Nat /\ LineDots > 6
  /\ ActiveLines \in Nat /\ ActiveLines > 0 /\ PostLines \in Nat /\ PostLines > 0
  /\ VblLine \in Nat /\ VblLine > ActiveLines
  /\ LastLine \in Nat /\ LastLine = VblLine + PostLines - 1
  /\ FullDots \in Nat /\ FullDots = (LastLine + 1) * LineDots
  /\ DeadDots \in Nat /\ DeadDots > 1 /\ DeadDots <= FullDots
  /\ \A n \in Int : n * LineDots \in Int /\ (n + 1) * LineDots = n * LineDots + LineDots
<1>1. /\ LineDots \in Nat /\ LineDots > 6
      /\ ActiveLines \in Nat /\ ActiveLines > 0 /\ PostLines \in Nat /\ PostLines > 0
      /\ PreLines \in Nat /\ PreLines > 0
      /\ StartUpOffset \in Nat /\ StartUpOffset + 1 < ActiveLines * LineDots
  BY GeometryAssumption
<1>2. /\ VblLine \in Nat /\ VblLine > ActiveLines
      /\ LastLine \in Nat /\ LastLine = VblLine + PostLines - 1
      /\ LastLine + 1 = ActiveLines + PreLines + PostLines
  BY <1>1 DEF VblLine, LastLine
<1>3. \A n \in Int : n * LineDots \in Int /\ (n + 1) * LineDots = n * LineDots + LineDots
  BY <1>1
<1>4. /\ ActiveLines * LineDots \in Nat /\ (LastLine + 1) * LineDots \in Nat
      /\ ActiveLines * LineDots <= (LastLine + 1) * LineDots
  <2> DEFINE m == PreLines + PostLines
  <2>1. m \in Nat /\ m * LineDots \in Nat /\ ActiveLines * LineDots \in Nat
    BY <1>1
  <2>2. (ActiveLines + m) * LineDots = ActiveLines * LineDots + m * LineDots
    BY <1>1
  <2>3. LastLine + 1 = ActiveLines + m
    BY <1>1, <1>2
  <2> QED BY <2>1, <2>2, <2>3
<1> QED BY <1>1, <1>2, <1>3, <1>4 DEF FullDots, DeadDots

\* runppu's dot moves the PPU on by a dot and the CPU by a third of a cycle.
LEMMA DotKeeps ==
  ASSUME NEW s \in Mid, s.frame.dots <= FullDots
  PROVE  LET d == Dot(s) IN
         /\ d \in Mid
         /\ d.ppu.cycle = s.ppu.cycle + 1
         /\ d.ppu.stepcounter = (s.ppu.stepcounter + 1) % 3
         /\ Steered(s.ppu, d.ppu) /\ Seen(s.ppu, d.ppu)
         /\ d.ppu.nmi_pending = s.ppu.nmi_pending
         /\ d.frame.dots = s.frame.dots + 1 /\ Steady(s.frame, d.frame)
         /\ d.frame.nmis = s.frame.nmis /\ d.frame.enables = s.frame.enables
         /\ d.frame.touched = s.frame.touched
<1> DEFINE p == s.ppu
           m == InstallMask(p)
           c == p.cycle + 1
           k == (p.stepcounter + 1) % 3
           q == [m EXCEPT !.cycle = c, !.stepcounter = k]
           f == [s.frame EXCEPT !.dots = s.frame.dots + 1]
           d == Dot(s)
<1>1. p \in PpuType /\ s.frame \in FrameType /\ s = [ppu |-> p, nmi |-> s.nmi, frame |-> s.frame]
      /\ s.nmi \in BOOLEAN
  BY DEF Mid
<1>2. /\ m \in PpuType /\ m.cycle = p.cycle /\ m.stepcounter = p.stepcounter
      /\ Steered(p, m) /\ Seen(p, m) /\ m.nmi_pending = p.nmi_pending
  <2>1. CASE p.install_2001 = 0
    BY <1>1, <2>1 DEF InstallMask, Steered, Seen
  <2>2. CASE p.install_2001 # 0
    <3> DEFINE i == p.install_2001 - 1
               w == IF p.install_2001 = 1 THEN p.show ELSE p.show_new
    <3>1. m = [p EXCEPT !.install_2001 = i, !.show_new = w]
      BY <1>1, <2>2 DEF InstallMask, PpuType
    <3>2. i \in {0, 1, 2} /\ w \in BOOLEAN
      BY <1>1, <2>2 DEF PpuType
    <3> HIDE DEF i, w, m
    <3>3. m \in PpuType
      BY <1>1, <3>1, <3>2 DEF PpuType
    <3> QED BY <1>1, <3>1, <3>3 DEF PpuType, Steered, Seen
  <2> QED BY <2>1, <2>2
<1>3. c \in Nat /\ k \in {0, 1, 2}
  BY <1>1 DEF PpuType
<1>4. d = [ppu |-> q, nmi |-> s.nmi, frame |-> f]
  <2>1. m.cycle + 1 = c /\ (m.stepcounter + 1) % 3 = k
    BY <1>2
  <2>2. ~(s.frame.dots > FullDots)
    BY <1>1, Geometry DEF FrameType
  <2>3. [m EXCEPT !.cycle = m.cycle + 1, !.stepcounter = (m.stepcounter + 1) % 3] = q
    BY <2>1
  <2>4. d = [s EXCEPT !.ppu = q, !.frame.dots = s.frame.dots + 1]
    <3> HIDE DEF q
    <3> QED BY <2>2, <2>3 DEF Dot
  <2> HIDE DEF q
  <2> QED BY <1>1, <2>4
<1> HIDE DEF m, c, k
<1>5. /\ q \in PpuType /\ q.cycle = c /\ q.stepcounter = k
      /\ Steered(m, q) /\ Seen(m, q) /\ q.nmi_pending = m.nmi_pending
  BY <1>2, <1>3 DEF PpuType, Steered, Seen
<1>6. /\ f \in FrameType /\ f.dots = s.frame.dots + 1 /\ Steady(s.frame, f)
      /\ f.nmis = s.frame.nmis /\ f.enables = s.frame.enables /\ f.touched = s.frame.touched
  BY <1>1 DEF FrameType, Steady
<1> HIDE DEF q, f, d
<1>7. d \in Mid /\ d.ppu = q /\ d.frame = f
  BY <1>1, <1>4, <1>5, <1>6 DEF Mid
<1> QED BY <1>2, <1>5, <1>6, <1>7 DEF c, k, d, Steered, Seen

\* The CPU's accesses, one by one.
LEMMA CpuOpsAre ==
  ASSUME NEW op \in CpuOps
  PROVE  \/ op = <<"other">> \/ op = <<"take NMI">> \/ op = <<"read 2002">>
         \/ \E b \in BOOLEAN : op = <<"write 2000", b>>
         \/ \E b \in BOOLEAN : op = <<"write 2001", b>>
<1>1. \/ op \in {<<"other">>, <<"take NMI">>, <<"read 2002">>}
      \/ op \in Writes("write 2000") \/ op \in Writes("write 2001")
  BY Zenon DEF CpuOps
<1>2. ASSUME NEW reg, op \in Writes(reg) PROVE \E b \in BOOLEAN : op = <<reg, b>>
  BY <1>2, Zenon DEF Writes
<1> QED BY <1>1, <1>2, Zenon

\* The CPU's cycle: the NMI flag of the PPU and the vblank flags are the
\* program's, and only an unleashed NMI is scheduled by it.
LEMMA CpuCycleKeeps ==
  ASSUME NEW s \in Mid, NEW op \in CpuOps
  PROVE  LET c == CpuCycle(s, op) IN
         /\ c \in Mid
         /\ c.ppu.cycle = s.ppu.cycle /\ c.ppu.stepcounter = s.ppu.stepcounter
         /\ Steered(s.ppu, c.ppu)
         /\ c.ppu.vblank => s.ppu.vblank
         /\ c.ppu.active_pending => s.ppu.active_pending
         /\ c.frame.dots = s.frame.dots /\ Steady(s.frame, c.frame)
         /\ c.frame.nmis = s.frame.nmis
         /\ c.frame.touched \/ (~s.frame.touched /\ Seen(s.ppu, c.ppu))
         /\ \/ /\ c.frame.enables = s.frame.enables
               /\ c.ppu.nmi_pending = s.ppu.nmi_pending
            \/ /\ c.frame.enables = s.frame.enables + 1
               /\ c.ppu.nmi_pending = 2 /\ c.frame.touched
               /\ s.ppu.vblank /\ ~s.ppu.clear_pending
<1> DEFINE c == CpuCycle(s, op)
           p == s.ppu
           f == s.frame
           Goal == /\ c \in Mid
                   /\ c.ppu.cycle = s.ppu.cycle /\ c.ppu.stepcounter = s.ppu.stepcounter
                   /\ Steered(s.ppu, c.ppu)
                   /\ c.ppu.vblank => s.ppu.vblank
                   /\ c.ppu.active_pending => s.ppu.active_pending
                   /\ c.frame.dots = s.frame.dots /\ Steady(s.frame, c.frame)
                   /\ c.frame.nmis = s.frame.nmis
                   /\ c.frame.touched \/ (~s.frame.touched /\ Seen(s.ppu, c.ppu))
                   /\ \/ /\ c.frame.enables = s.frame.enables
                         /\ c.ppu.nmi_pending = s.ppu.nmi_pending
                      \/ /\ c.frame.enables = s.frame.enables + 1
                         /\ c.ppu.nmi_pending = 2 /\ c.frame.touched
                         /\ s.ppu.vblank /\ ~s.ppu.clear_pending
<1> SUFFICES Goal
  OBVIOUS
<1>1. p \in PpuType /\ f \in FrameType /\ s = [ppu |-> p, nmi |-> s.nmi, frame |-> f]
      /\ s.nmi \in BOOLEAN
  BY DEF Mid
<1>2. \/ op = <<"other">> \/ op = <<"take NMI">> \/ op = <<"read 2002">>
      \/ \E b \in BOOLEAN : op = <<"write 2000", b>>
      \/ \E b \in BOOLEAN : op = <<"write 2001", b>>
  BY CpuOpsAre
<1> DEFINE yes == TRUE
           no == FALSE
<1>3. yes \in BOOLEAN /\ no \in BOOLEAN /\ yes /\ ~no
  OBVIOUS
<1> HIDE DEF yes, no
<1>4. CASE op = <<"other">>
  <2>1. c = s
    BY <1>4 DEF CpuCycle
  <2> HIDE DEF c
  <2> QED BY <1>1, <2>1 DEF FrameType, Steered, Seen, Steady
<1>5. CASE op = <<"take NMI">>
  <2>1. c = [s EXCEPT !.nmi = no]
    BY <1>5 DEF CpuCycle, no
  <2> HIDE DEF c
  <2>2. c \in Mid /\ c.ppu = p /\ c.frame = f
    BY <1>1, <1>3, <2>1 DEF Mid
  <2> QED BY <1>1, <2>2 DEF FrameType, Steered, Seen, Steady
<1>6. CASE op = <<"read 2002">>
  <2> DEFINE q == [p EXCEPT !.vblank = no, !.active_pending = no]
             g == [f EXCEPT !.touched = yes]
  <2>1. c = [ppu |-> q, nmi |-> s.nmi, frame |-> g]
    BY <1>1, <1>6 DEF CpuCycle, read_2002, yes, no
  <2>2. /\ q \in PpuType /\ ~q.vblank /\ ~q.active_pending /\ q.nmi_pending = p.nmi_pending
        /\ q.cycle = p.cycle /\ q.stepcounter = p.stepcounter /\ Steered(p, q)
    BY <1>1, <1>3 DEF PpuType, Steered
  <2>3. /\ g \in FrameType /\ g.touched /\ g.nmis = f.nmis /\ g.enables = f.enables
        /\ g.dots = f.dots /\ Steady(f, g)
    BY <1>1, <1>3 DEF FrameType, Steady
  <2> HIDE DEF q, g, c
  <2>4. c \in Mid /\ c.ppu = q /\ c.frame = g
    BY <1>1, <2>1, <2>2, <2>3 DEF Mid
  <2> QED BY <2>2, <2>3, <2>4
<1>7. ASSUME NEW b \in BOOLEAN, op = <<"write 2001", b>>
      PROVE  Goal
  <2> DEFINE q == [p EXCEPT !.show = b, !.install_2001 = 2]
  <2>1. c = [ppu |-> q, nmi |-> s.nmi, frame |-> f]
    BY <1>1, <1>7 DEF CpuCycle, write_2001
  <2>2. /\ q \in PpuType /\ q.nmi_pending = p.nmi_pending /\ Seen(p, q)
        /\ q.cycle = p.cycle /\ q.stepcounter = p.stepcounter /\ Steered(p, q)
    BY <1>1, <1>7 DEF PpuType, Steered, Seen
  <2> HIDE DEF q, c
  <2>4. c \in Mid /\ c.ppu = q /\ c.frame = f
    BY <1>1, <2>1, <2>2 DEF Mid
  <2> QED BY <1>1, <2>2, <2>4 DEF Seen, Steady, FrameType
<1>8. ASSUME NEW b \in BOOLEAN, op = <<"write 2000", b>>
      PROVE  Goal
  <2> DEFINE u == ~p.gen /\ b /\ p.vblank /\ ~p.clear_pending
             n == IF u THEN 2 ELSE p.nmi_pending
             e == IF u THEN f.enables + 1 ELSE f.enables
             q == [p EXCEPT !.gen = b, !.nmi_pending = n]
             g == [f EXCEPT !.enables = e, !.touched = yes]
  <2>1. c = [ppu |-> q, nmi |-> s.nmi, frame |-> g]
    BY <1>1, <1>8 DEF CpuCycle, write_2000, yes
  <2>2. n \in {0, 1, 2} /\ e \in Nat
    BY <1>1 DEF PpuType, FrameType
  <2>3. \/ n = p.nmi_pending /\ e = f.enables
        \/ n = 2 /\ e = f.enables + 1 /\ p.vblank /\ ~p.clear_pending
    OBVIOUS
  <2> HIDE DEF n, e
  <2>4. /\ q \in PpuType /\ q.nmi_pending = n /\ q.vblank = p.vblank
        /\ q.active_pending = p.active_pending
        /\ q.cycle = p.cycle /\ q.stepcounter = p.stepcounter /\ Steered(p, q)
    BY <1>1, <1>8, <2>2 DEF PpuType, Steered
  <2>5. /\ g \in FrameType /\ g.touched /\ g.nmis = f.nmis /\ g.enables = e
        /\ g.dots = f.dots /\ Steady(f, g)
    BY <1>1, <1>3, <2>2 DEF FrameType, Steady
  <2> HIDE DEF q, g, c
  <2>6. c \in Mid /\ c.ppu = q /\ c.frame = g
    BY <1>1, <2>1, <2>4, <2>5 DEF Mid
  <2> QED BY <2>3, <2>4, <2>5, <2>6
<1> QED BY <1>2, <1>4, <1>5, <1>6, <1>7, <1>8

\* The NMI that is due is raised, or comes one cycle closer.
LEMMA CountNmiKeeps ==
  ASSUME NEW s \in Mid
  PROVE  LET c == CountNmi(s) IN
         /\ c \in Mid
         /\ c.ppu.cycle = s.ppu.cycle /\ c.ppu.stepcounter = s.ppu.stepcounter
         /\ Steered(s.ppu, c.ppu) /\ Seen(s.ppu, c.ppu)
         /\ c.frame.dots = s.frame.dots /\ Steady(s.frame, c.frame)
         /\ c.frame.enables = s.frame.enables /\ c.frame.touched = s.frame.touched
         /\ \/ s.ppu.nmi_pending = 0 /\ c.ppu.nmi_pending = 0 /\ c.frame.nmis = s.frame.nmis
            \/ s.ppu.nmi_pending = 1 /\ c.ppu.nmi_pending = 0 /\ c.frame.nmis = s.frame.nmis + 1
            \/ s.ppu.nmi_pending = 2 /\ c.ppu.nmi_pending = 1 /\ c.frame.nmis = s.frame.nmis
<1> DEFINE c == CountNmi(s)
           p == s.ppu
           f == s.frame
           n == p.nmi_pending - 1
           q == [p EXCEPT !.nmi_pending = n]
           g == [f EXCEPT !.nmis = f.nmis + 1]
<1>1. p \in PpuType /\ f \in FrameType /\ s = [ppu |-> p, nmi |-> s.nmi, frame |-> f]
      /\ s.nmi \in BOOLEAN /\ p.nmi_pending \in {0, 1, 2}
  BY DEF Mid, PpuType
<1>2. CASE p.nmi_pending = 0
  <2>1. c = s
    BY <1>2 DEF CountNmi
  <2> HIDE DEF c
  <2> QED BY <1>2, <2>1 DEF c, Steered, Seen, Steady
<1>3. ASSUME p.nmi_pending # 0
      PROVE  /\ q \in PpuType /\ q.nmi_pending = n /\ n = p.nmi_pending - 1
             /\ q.cycle = p.cycle /\ q.stepcounter = p.stepcounter
             /\ Steered(p, q) /\ Seen(p, q)
  <2>1. n \in {0, 1, 2}
    BY <1>1, <1>3
  <2> HIDE DEF n
  <2>2. /\ q \in PpuType /\ q.nmi_pending = n
        /\ q.cycle = p.cycle /\ q.stepcounter = p.stepcounter
        /\ Steered(p, q) /\ Seen(p, q)
    BY <1>1, <2>1 DEF PpuType, Steered, Seen
  <2> HIDE DEF q
  <2> QED BY <2>2 DEF n
<1>4. CASE p.nmi_pending = 1
  <2> DEFINE yes == TRUE
  <2>1. [s EXCEPT !.ppu = q] = [ppu |-> q, nmi |-> s.nmi, frame |-> f]
    BY <1>1
  <2>2. c = RaiseNmi([s EXCEPT !.ppu = q])
    <3>1. n = 0
      BY <1>4
    <3>2. c = RaiseNmi([s EXCEPT !.ppu.nmi_pending = 0])
      BY <1>4 DEF CountNmi
    <3>3. [s EXCEPT !.ppu.nmi_pending = 0] = [s EXCEPT !.ppu = q]
      BY <3>1
    <3> QED BY <3>2, <3>3
  <2>3. c = [ppu |-> q, nmi |-> yes, frame |-> g]
    <3> HIDE DEF q
    <3> QED BY <2>1, <2>2 DEF RaiseNmi
  <2>4. /\ g \in FrameType /\ g.nmis = f.nmis + 1 /\ g.dots = f.dots /\ Steady(f, g)
        /\ g.enables = f.enables /\ g.touched = f.touched
    BY <1>1 DEF FrameType, Steady
  <2>5. yes \in BOOLEAN
    OBVIOUS
  <2> HIDE DEF q, g, c, n, yes
  <2>6. c \in Mid /\ c.ppu = q /\ c.frame = g
    BY <1>1, <1>3, <1>4, <2>3, <2>4, <2>5 DEF Mid
  <2> QED BY <1>3, <1>4, <2>4, <2>6 DEF c
<1>5. CASE p.nmi_pending = 2
  <2>1. c = [s EXCEPT !.ppu.nmi_pending = n]
    BY <1>5 DEF CountNmi
  <2>2. c = [ppu |-> q, nmi |-> s.nmi, frame |-> f]
    BY <1>1, <2>1
  <2> HIDE DEF q, c, n
  <2>3. c \in Mid /\ c.ppu = q /\ c.frame = f
    BY <1>1, <1>3, <1>5, <2>2 DEF Mid
  <2> QED BY <1>3, <1>5, <2>3 DEF c, Steady
<1> QED BY <1>1, <1>2, <1>4, <1>5


(***************************************************************************)
(* What a call of runppu does to the NMI, from s to r: nothing; or the     *)
(* program unleashes one; or the one that is due is raised.                *)
(***************************************************************************)
NmiRests(s, r) ==
  /\ r.frame.enables = s.frame.enables /\ r.frame.nmis = s.frame.nmis
  /\ r.ppu.nmi_pending = s.ppu.nmi_pending
  /\ s.ppu.nmi_pending = 1 => s.ppu.stepcounter # 2

NmiUnleashed(s, r) ==
  /\ r.frame.enables = s.frame.enables + 1 /\ r.frame.nmis = s.frame.nmis
  /\ r.ppu.nmi_pending = 1 /\ r.frame.touched
  /\ s.ppu.vblank /\ ~s.ppu.clear_pending

NmiRaised(s, r) ==
  /\ r.frame.enables = s.frame.enables /\ r.frame.nmis = s.frame.nmis + 1
  /\ s.ppu.nmi_pending = 1 /\ r.ppu.nmi_pending = 0

Ran(s, r) ==
  /\ r \in Mid /\ r.ppu.nmi_pending # 2
  /\ r.ppu.cycle = s.ppu.cycle + 1
  /\ r.ppu.stepcounter = (s.ppu.stepcounter + 1) % 3
  /\ Steered(s.ppu, r.ppu)
  /\ r.ppu.vblank => s.ppu.vblank
  /\ r.ppu.active_pending => s.ppu.active_pending
  /\ r.frame.dots = s.frame.dots + 1 /\ Steady(s.frame, r.frame)
  /\ r.frame.touched \/ (~s.frame.touched /\ Seen(s.ppu, r.ppu))
  /\ NmiRests(s, r) \/ NmiUnleashed(s, r) \/ NmiRaised(s, r)

\* A call of runppu, whatever the CPU does in its cycle, runs so.
LEMMA RunPpuRuns ==
  ASSUME NEW s \in Mid, s.frame.dots <= FullDots, s.ppu.nmi_pending # 2, NEW op \in CpuOps
  PROVE  Ran(s, RunPpu(s, op))
<1> DEFINE d == Dot(s)
           c == CpuCycle(d, op)
           n == CountNmi(c)
           r == RunPpu(s, op)
<1>1. /\ d \in Mid
      /\ d.ppu.cycle = s.ppu.cycle + 1
      /\ d.ppu.stepcounter = (s.ppu.stepcounter + 1) % 3
      /\ Steered(s.ppu, d.ppu) /\ Seen(s.ppu, d.ppu)
      /\ d.ppu.nmi_pending = s.ppu.nmi_pending
      /\ d.frame.dots = s.frame.dots + 1 /\ Steady(s.frame, d.frame)
      /\ d.frame.nmis = s.frame.nmis /\ d.frame.enables = s.frame.enables
      /\ d.frame.touched = s.frame.touched
  BY DotKeeps
<1>2. s.frame.touched \in BOOLEAN /\ s.frame.nmis \in Nat /\ s.frame.enables \in Nat
      /\ s.ppu.nmi_pending \in {0, 1, 2}
  BY DEF Mid, PpuType, FrameType
<1>3. r = IF s.ppu.stepcounter = 2 THEN n ELSE d
  BY DEF RunPpu, CpuSlot
<1> HIDE DEF d
<1>4. /\ c \in Mid
      /\ c.ppu.cycle = d.ppu.cycle /\ c.ppu.stepcounter = d.ppu.stepcounter
      /\ Steered(d.ppu, c.ppu)
      /\ c.ppu.vblank => d.ppu.vblank
      /\ c.ppu.active_pending => d.ppu.active_pending
      /\ c.frame.dots = d.frame.dots /\ Steady(d.frame, c.frame)
      /\ c.frame.nmis = d.frame.nmis
      /\ c.frame.touched \/ (~d.frame.touched /\ Seen(d.ppu, c.ppu))
      /\ \/ /\ c.frame.enables = d.frame.enables
            /\ c.ppu.nmi_pending = d.ppu.nmi_pending
         \/ /\ c.frame.enables = d.frame.enables + 1
            /\ c.ppu.nmi_pending = 2 /\ c.frame.touched
            /\ d.ppu.vblank /\ ~d.ppu.clear_pending
  BY <1>1, CpuCycleKeeps
<1> HIDE DEF c
<1>5. /\ n \in Mid
      /\ n.ppu.cycle = c.ppu.cycle /\ n.ppu.stepcounter = c.ppu.stepcounter
      /\ Steered(c.ppu, n.ppu) /\ Seen(c.ppu, n.ppu)
      /\ n.frame.dots = c.frame.dots /\ Steady(c.frame, n.frame)
      /\ n.frame.enables = c.frame.enables /\ n.frame.touched = c.frame.touched
      /\ \/ c.ppu.nmi_pending = 0 /\ n.ppu.nmi_pending = 0 /\ n.frame.nmis = c.frame.nmis
         \/ c.ppu.nmi_pending = 1 /\ n.ppu.nmi_pending = 0 /\ n.frame.nmis = c.frame.nmis + 1
         \/ c.ppu.nmi_pending = 2 /\ n.ppu.nmi_pending = 1 /\ n.frame.nmis = c.frame.nmis
  BY <1>4, CountNmiKeeps
<1> HIDE DEF n, r
<1>6. CASE s.ppu.stepcounter # 2
  <2>1. r = d
    BY <1>3, <1>6
  <2>2. NmiRests(s, r)
    BY <1>1, <1>6, <2>1 DEF NmiRests
  <2>3. r.frame.touched \/ (~s.frame.touched /\ Seen(s.ppu, r.ppu))
    BY <1>1, <2>1
  <2>4. /\ r.ppu.vblank => s.ppu.vblank
        /\ r.ppu.active_pending => s.ppu.active_pending
    BY <1>1, <2>1 DEF Seen
  <2> QED BY <1>1, <2>1, <2>2, <2>3, <2>4 DEF Ran, r
<1>7. CASE s.ppu.stepcounter = 2
  <2>1. r = n
    BY <1>3, <1>7
  <2>2. NmiRests(s, r) \/ NmiUnleashed(s, r) \/ NmiRaised(s, r)
    <3>1. CASE c.ppu.nmi_pending = 2
      BY <1>1, <1>2, <1>4, <1>5, <2>1, <3>1 DEF NmiUnleashed, Seen, Steered
    <3>2. CASE c.ppu.nmi_pending = 1
      BY <1>1, <1>2, <1>4, <1>5, <2>1, <3>2 DEF NmiRaised
    <3>3. CASE c.ppu.nmi_pending = 0
      BY <1>1, <1>2, <1>4, <1>5, <2>1, <3>3 DEF NmiRests
    <3> QED BY <1>5, <3>1, <3>2, <3>3
  <2>3. Steered(s.ppu, r.ppu) /\ Steady(s.frame, r.frame)
    BY <1>1, <1>4, <1>5, <2>1 DEF Steered, Steady
  <2>4. r.frame.touched \/ (~s.frame.touched /\ Seen(s.ppu, r.ppu))
    <3>1. CASE c.frame.touched
      BY <1>5, <2>1, <3>1
    <3>2. CASE ~d.frame.touched /\ Seen(d.ppu, c.ppu)
      <4>1. Seen(s.ppu, r.ppu)
        BY <1>1, <1>5, <2>1, <3>2 DEF Seen
      <4>2. ~s.frame.touched
        BY <1>1, <3>2
      <4> QED BY <4>1, <4>2
    <3> QED BY <1>4, <3>1, <3>2
  <2>5. /\ r.ppu.vblank => s.ppu.vblank
        /\ r.ppu.active_pending => s.ppu.active_pending
    BY <1>1, <1>4, <1>5, <2>1 DEF Seen
  <2>6. r.ppu.nmi_pending # 2
    BY <1>5, <2>1
  <2> QED BY <1>1, <1>4, <1>5, <2>1, <2>2, <2>3, <2>4, <2>5, <2>6 DEF Ran, r
<1> QED BY <1>6, <1>7 DEF r

-----------------------------------------------------------------------------
(***************************************************************************)
(* What the ends of a line or a loop leave alone, from r to t.             *)
(***************************************************************************)
Carried(r, t) ==
  /\ t \in Mid
  /\ t.ppu.stepcounter = r.ppu.stepcounter /\ t.ppu.idleSynch = r.ppu.idleSynch
  /\ t.ppu.gen = r.ppu.gen /\ t.ppu.nmi_destiny = r.ppu.nmi_destiny
  /\ t.ppu.NMI_offset = r.ppu.NMI_offset /\ t.ppu.nmi_pending = r.ppu.nmi_pending
  /\ t.frame.dots = r.frame.dots /\ t.frame.last = r.frame.last
  /\ t.frame.nmis = r.frame.nmis /\ t.frame.enables = r.frame.enables
  /\ t.frame.touched = r.frame.touched

(***************************************************************************)
(* The looks that TickPPU_VBL takes at the NMI before its dot, from s to   *)
(* q.                                                                      *)
(***************************************************************************)
FirstDot(p) == p.cycle = 0 /\ p.sl = VblLine

LooksFirst(s, q) ==
  /\ FirstDot(s.ppu)
  /\ q.ppu.nmi_destiny <=> Wanted(s.ppu)
  /\ q.ppu.NMI_offset = NmiOffset(s.ppu) /\ q.frame.nmis = s.frame.nmis

LooksAgain(s, q) ==
  /\ ~FirstDot(s.ppu) /\ s.ppu.cycle <= 2 /\ s.ppu.nmi_destiny
  /\ q.ppu.nmi_destiny <=> Wanted(s.ppu)
  /\ q.ppu.NMI_offset = s.ppu.NMI_offset /\ q.frame.nmis = s.frame.nmis

Interrupts(s, q) ==
  /\ s.ppu.cycle = 3 + s.ppu.NMI_offset /\ s.ppu.sl = VblLine /\ s.ppu.nmi_destiny
  /\ q.ppu.nmi_destiny
  /\ q.ppu.NMI_offset = s.ppu.NMI_offset /\ q.frame.nmis = s.frame.nmis + 1

LooksNot(s, q) ==
  /\ ~FirstDot(s.ppu)
  /\ ~(s.ppu.cycle = 3 + s.ppu.NMI_offset /\ s.ppu.sl = VblLine /\ s.ppu.nmi_destiny)
  /\ q.ppu.nmi_destiny <=> s.ppu.nmi_destiny
  /\ q.ppu.NMI_offset = s.ppu.NMI_offset /\ q.frame.nmis = s.frame.nmis

Looks(s, q) == LooksFirst(s, q) \/ LooksAgain(s, q) \/ Interrupts(s, q) \/ LooksNot(s, q)

\* What else is as it was after the looks.
Looking(s, q) ==
  /\ q \in Mid
  /\ q.ppu.cycle = s.ppu.cycle /\ q.ppu.sl = s.ppu.sl
  /\ q.ppu.stepcounter = s.ppu.stepcounter /\ q.ppu.nmi_pending = s.ppu.nmi_pending
  /\ q.ppu.do_vbl = s.ppu.do_vbl /\ q.ppu.do_active_sl = s.ppu.do_active_sl
  /\ q.ppu.do_pre_vbl = s.ppu.do_pre_vbl /\ q.ppu.ppudead = s.ppu.ppudead
  /\ Seen(s.ppu, q.ppu)
  /\ Steady(s.frame, q.frame)
  /\ q.frame.dots = s.frame.dots /\ q.frame.enables = s.frame.enables
  /\ q.frame.touched = s.frame.touched

\* NMI_offset and the looks.
LEMMA NmiDestinyLooks ==
  ASSUME NEW s \in Mid
  PROVE  LET q == NmiDestiny(s) IN
         /\ Looking(s, q) /\ Looks(s, q)
         /\ q.ppu.clear_pending = s.ppu.clear_pending /\ q.ppu.idleSynch = s.ppu.idleSynch
<1> DEFINE q == NmiDestiny(s)
           p == s.ppu
           f == s.frame
           w == p.gen /\ p.vblank
           Goal == /\ Looking(s, q) /\ Looks(s, q)
                   /\ q.ppu.clear_pending = s.ppu.clear_pending
                   /\ q.ppu.idleSynch = s.ppu.idleSynch
<1> SUFFICES Goal
  OBVIOUS
<1>1. p \in PpuType /\ f \in FrameType /\ s = [ppu |-> p, nmi |-> s.nmi, frame |-> f]
      /\ s.nmi \in BOOLEAN
  BY DEF Mid
<1>2. w \in BOOLEAN /\ (w <=> Wanted(p)) /\ w = Wanted(p)
  BY <1>1 DEF PpuType, Wanted
<1> HIDE DEF w
<1>3. p.cycle \in Nat /\ p.NMI_offset \in {0, 1, 2} /\ p.stepcounter \in {0, 1, 2}
  BY <1>1 DEF PpuType
<1>4. CASE FirstDot(p)
  <2> DEFINE o == NmiOffset(p)
             d == [p EXCEPT !.nmi_destiny = w, !.NMI_offset = o]
  <2>1. o \in {0, 1, 2}
    BY <1>3 DEF NmiOffset
  <2>2. q = [s EXCEPT !.ppu = d]
    BY <1>1, <1>2, <1>4 DEF NmiDestiny, FirstDot
  <2> HIDE DEF o
  <2>3. /\ d \in PpuType /\ d.nmi_destiny = w /\ d.NMI_offset = o /\ Seen(p, d)
        /\ d.cycle = p.cycle /\ d.sl = p.sl /\ d.stepcounter = p.stepcounter
        /\ d.do_vbl = p.do_vbl /\ d.do_active_sl = p.do_active_sl
        /\ d.do_pre_vbl = p.do_pre_vbl /\ d.ppudead = p.ppudead
        /\ d.nmi_pending = p.nmi_pending
        /\ d.clear_pending = p.clear_pending /\ d.idleSynch = p.idleSynch
    BY <1>1, <1>2, <2>1 DEF PpuType, Seen
  <2> HIDE DEF d, q
  <2>4. q \in Mid /\ q.ppu = d /\ q.frame = f
    BY <1>1, <2>2, <2>3 DEF Mid
  <2>5. LooksFirst(s, q)
    BY <1>2, <1>4, <2>3, <2>4 DEF LooksFirst, o
  <2> QED BY <2>3, <2>4, <2>5 DEF Looking, Looks, Steady
<1>5. CASE ~FirstDot(p) /\ p.cycle <= 2 /\ p.nmi_destiny
  <2> DEFINE d == [p EXCEPT !.nmi_destiny = w]
  <2>1. q = [s EXCEPT !.ppu = d]
    BY <1>1, <1>2, <1>5 DEF NmiDestiny, FirstDot
  <2>2. /\ d \in PpuType /\ d.nmi_destiny = w /\ d.NMI_offset = p.NMI_offset /\ Seen(p, d)
        /\ d.cycle = p.cycle /\ d.sl = p.sl /\ d.stepcounter = p.stepcounter
        /\ d.do_vbl = p.do_vbl /\ d.do_active_sl = p.do_active_sl
        /\ d.do_pre_vbl = p.do_pre_vbl /\ d.ppudead = p.ppudead
        /\ d.nmi_pending = p.nmi_pending
        /\ d.clear_pending = p.clear_pending /\ d.idleSynch = p.idleSynch
    BY <1>1, <1>2 DEF PpuType, Seen
  <2> HIDE DEF d, q
  <2>3. q \in Mid /\ q.ppu = d /\ q.frame = f
    BY <1>1, <2>1, <2>2 DEF Mid
  <2>4. LooksAgain(s, q)
    BY <1>2, <1>5, <2>2, <2>3 DEF LooksAgain
  <2> QED BY <2>2, <2>3, <2>4 DEF Looking, Looks, Steady
<1>6. CASE ~FirstDot(p) /\ ~(p.cycle <= 2 /\ p.nmi_destiny)
           /\ p.cycle = 3 + p.NMI_offset /\ p.sl = VblLine /\ p.nmi_destiny
  <2> DEFINE g == [f EXCEPT !.nmis = f.nmis + 1]
             yes == TRUE
  <2>1. q = [ppu |-> p, nmi |-> yes, frame |-> g]
    <3>1. q = RaiseNmi(s)
      BY <1>6 DEF NmiDestiny, FirstDot
    <3> QED BY <1>1, <3>1 DEF RaiseNmi
  <2>2. /\ g \in FrameType /\ g.nmis = f.nmis + 1 /\ g.dots = f.dots /\ Steady(f, g)
        /\ g.enables = f.enables /\ g.touched = f.touched
    BY <1>1 DEF FrameType, Steady
  <2>3. yes \in BOOLEAN
    OBVIOUS
  <2> HIDE DEF g, q, yes
  <2>4. q \in Mid /\ q.ppu = p /\ q.frame = g
    BY <1>1, <2>1, <2>2, <2>3 DEF Mid
  <2>5. Interrupts(s, q)
    BY <1>6, <2>2, <2>4 DEF Interrupts
  <2> QED BY <2>2, <2>4, <2>5 DEF Looking, Looks, Seen
<1>7. CASE /\ ~FirstDot(p) /\ ~(p.cycle <= 2 /\ p.nmi_destiny)
           /\ ~(p.cycle = 3 + p.NMI_offset /\ p.sl = VblLine /\ p.nmi_destiny)
  <2>1. q = s
    BY <1>7 DEF NmiDestiny, FirstDot
  <2> HIDE DEF q
  <2>2. LooksNot(s, q)
    BY <1>7, <2>1 DEF LooksNot
  <2> QED BY <2>1, <2>2 DEF Looking, Looks, Seen, Steady
<1> QED BY <1>4, <1>5, <1>6, <1>7

AtEnd(p) == p.cycle = LineDots - 1 /\ p.sl = LastLine

\* With the end of the vblank, at which frames alternate.
LEMMA VblLooks ==
  ASSUME NEW s \in Mid
  PROVE  LET q == EndVbl(NmiDestiny(s)) IN
         /\ Looking(s, q) /\ Looks(s, q)
         /\ IF AtEnd(s.ppu) THEN q.ppu.clear_pending /\ (q.ppu.idleSynch <=> ~s.ppu.idleSynch)
            ELSE /\ q.ppu.clear_pending = s.ppu.clear_pending
                 /\ q.ppu.idleSynch = s.ppu.idleSynch
<1> DEFINE u == NmiDestiny(s)
           q == EndVbl(u)
           Ends == IF AtEnd(s.ppu) THEN q.ppu.clear_pending /\ (q.ppu.idleSynch <=> ~s.ppu.idleSynch)
                   ELSE /\ q.ppu.clear_pending = s.ppu.clear_pending
                        /\ q.ppu.idleSynch = s.ppu.idleSynch
<1> SUFFICES Looking(s, q) /\ Looks(s, q) /\ Ends
  OBVIOUS
<1>1. /\ Looking(s, u) /\ Looks(s, u)
      /\ u.ppu.clear_pending = s.ppu.clear_pending /\ u.ppu.idleSynch = s.ppu.idleSynch
  BY NmiDestinyLooks
<1> HIDE DEF u
<1>2. /\ u \in Mid /\ u.ppu \in PpuType /\ u = [ppu |-> u.ppu, nmi |-> u.nmi, frame |-> u.frame]
      /\ u.ppu.cycle = s.ppu.cycle /\ u.ppu.sl = s.ppu.sl
  BY <1>1 DEF Looking, Mid
<1>3. CASE ~AtEnd(s.ppu)
  <2>1. q = u
    BY <1>2, <1>3 DEF EndVbl, AtEnd
  <2> HIDE DEF q
  <2> QED BY <1>1, <1>3, <2>1
<1>4. CASE AtEnd(s.ppu)
  <2> DEFINE yes == TRUE
             no == ~u.ppu.idleSynch
             d == [u.ppu EXCEPT !.clear_pending = yes, !.idleSynch = no]
  <2>1. q = [s EXCEPT !.ppu = d, !.nmi = u.nmi, !.frame = u.frame]
    <3>1. q = [u EXCEPT !.ppu = d]
      BY <1>2, <1>4 DEF EndVbl, AtEnd
    <3> HIDE DEF d, q
    <3> QED BY <1>2, <3>1 DEF Mid
  <2>2. yes \in BOOLEAN /\ yes /\ no \in BOOLEAN /\ (no <=> ~s.ppu.idleSynch)
    BY <1>1
  <2> HIDE DEF yes, no
  <2>3. /\ d \in PpuType /\ d.clear_pending = yes /\ d.idleSynch = no
        /\ d.nmi_destiny = u.ppu.nmi_destiny /\ d.NMI_offset = u.ppu.NMI_offset
        /\ Seen(u.ppu, d)
        /\ d.cycle = u.ppu.cycle /\ d.sl = u.ppu.sl /\ d.stepcounter = u.ppu.stepcounter
        /\ d.do_vbl = u.ppu.do_vbl /\ d.do_active_sl = u.ppu.do_active_sl
        /\ d.do_pre_vbl = u.ppu.do_pre_vbl /\ d.ppudead = u.ppu.ppudead
        /\ d.nmi_pending = u.ppu.nmi_pending
    BY <1>2, <2>2 DEF PpuType, Seen
  <2> HIDE DEF d, q
  <2>4. q \in Mid /\ q.ppu = d /\ q.frame = u.frame
    BY <1>2, <2>1, <2>3 DEF Mid
  <2>5. Looking(s, q)
    BY <1>1, <2>3, <2>4 DEF Looking, Seen
  <2>6. Looks(s, q)
    BY <1>1, <2>3, <2>4 DEF Looks, LooksFirst, LooksAgain, Interrupts, LooksNot
  <2> QED BY <1>4, <2>2, <2>3, <2>4, <2>5, <2>6
<1> QED BY <1>3, <1>4

-----------------------------------------------------------------------------
(***************************************************************************)
(* How the dots of the four loops end: r is what runppu leaves, t what the *)
(* incrementer makes of it at the end of a line.                           *)
(***************************************************************************)
VblLineEnds(r, t) ==
  /\ Carried(r, t) /\ t.frame.flagged = r.frame.flagged
  /\ t.ppu.active_pending = r.ppu.active_pending /\ t.ppu.ppudead = r.ppu.ppudead
  /\ t.ppu.do_pre_vbl = r.ppu.do_pre_vbl
  /\ t.ppu.cycle = 0 /\ ~t.ppu.clear_pending
  /\ t.ppu.vblank <=> (r.ppu.vblank /\ ~r.ppu.clear_pending)
  /\ IF r.ppu.sl = LastLine THEN t.ppu.sl = 0 /\ ~t.ppu.do_vbl /\ t.ppu.do_active_sl
     ELSE t.ppu.sl = r.ppu.sl + 1 /\ t.ppu.do_vbl /\ ~t.ppu.do_active_sl

ActiveLineEnds(r, t) ==
  /\ Carried(r, t) /\ t.frame.flagged = r.frame.flagged
  /\ t.ppu.active_pending = r.ppu.active_pending /\ t.ppu.ppudead = r.ppu.ppudead
  /\ t.ppu.clear_pending = r.ppu.clear_pending /\ t.ppu.vblank = r.ppu.vblank
  /\ t.ppu.do_vbl = r.ppu.do_vbl
  /\ t.ppu.cycle = 0 /\ t.ppu.sl = r.ppu.sl + 1
  /\ IF r.ppu.sl + 1 = ActiveLines THEN ~t.ppu.do_active_sl /\ t.ppu.do_pre_vbl
     ELSE t.ppu.do_active_sl /\ ~t.ppu.do_pre_vbl

PreLineEnds(r, t) ==
  /\ Carried(r, t) /\ t.frame.flagged = r.frame.flagged
  /\ t.ppu.active_pending = r.ppu.active_pending /\ t.ppu.ppudead = r.ppu.ppudead
  /\ t.ppu.clear_pending = r.ppu.clear_pending /\ t.ppu.vblank = r.ppu.vblank
  /\ t.ppu.do_vbl = r.ppu.do_vbl /\ t.ppu.do_active_sl = r.ppu.do_active_sl
  /\ t.ppu.do_pre_vbl = r.ppu.do_pre_vbl
  /\ t.ppu.cycle = 0 /\ t.ppu.sl = r.ppu.sl + 1

VblankStarts(r, t) ==
  /\ Carried(r, t)
  /\ t.frame.flagged <=> r.ppu.active_pending
  /\ ~t.ppu.active_pending /\ t.ppu.clear_pending = r.ppu.clear_pending
  /\ t.ppu.vblank <=> (r.ppu.vblank \/ r.ppu.active_pending)
  /\ t.ppu.do_vbl /\ t.ppu.do_active_sl = r.ppu.do_active_sl
  /\ t.ppu.cycle = 0 /\ t.ppu.sl = VblLine

\* The end of a line of the vblank: the flag falls if its fall is pending.
LEMMA VblDot ==
  ASSUME NEW s \in Mid, NEW op \in CpuOps, s.frame.dots <= FullDots, s.ppu.nmi_pending # 2
  PROVE  LET q == EndVbl(NmiDestiny(s))
             r == RunPpu(q, op)
             t == TickVbl(s, op)
         IN Ran(q, r) /\ IF r.ppu.cycle = LineDots THEN VblLineEnds(r, t) ELSE t = r
<1> DEFINE q == EndVbl(NmiDestiny(s))
           r == RunPpu(q, op)
           t == TickVbl(s, op)
           p == r.ppu
           c == ClearVblank(p)
           over == c.sl = LastLine
<1>1. Ran(q, r)
  <2>1. Looking(s, q)
    BY VblLooks
  <2> HIDE DEF q
  <2> QED BY <2>1, RunPpuRuns DEF Looking
<1>2. p \in PpuType /\ r = [ppu |-> p, nmi |-> r.nmi, frame |-> r.frame]
      /\ r.nmi \in BOOLEAN /\ r.frame \in FrameType
  <2> HIDE DEF r
  <2> QED BY <1>1 DEF Ran, Mid
<1>3. t = IF p.cycle # LineDots THEN r
          ELSE [r EXCEPT !.ppu = [c EXCEPT !.cycle = 0,
                                          !.sl = IF over THEN 0 ELSE @ + 1,
                                          !.do_vbl = ~over,
                                          !.do_active_sl = over]]
  BY DEF TickVbl
<1> SUFFICES Ran(q, r) /\ IF p.cycle = LineDots THEN VblLineEnds(r, t) ELSE t = r
  OBVIOUS
<1> HIDE DEF q, r, t
<1>4. CASE p.cycle # LineDots
  BY <1>1, <1>3, <1>4
<1>5. CASE p.cycle = LineDots
  <2> DEFINE v == p.vblank /\ ~p.clear_pending
             no == FALSE
  <2>1. c = [p EXCEPT !.vblank = v, !.clear_pending = no]
    BY <1>2 DEF ClearVblank, PpuType
  <2>2. v \in BOOLEAN /\ no \in BOOLEAN /\ ~no /\ (v <=> p.vblank /\ ~p.clear_pending)
    BY <1>2 DEF PpuType
  <2> HIDE DEF c, v, no
  <2>3. /\ c \in PpuType /\ c.vblank = v /\ c.clear_pending = no
        /\ c.sl = p.sl /\ c.stepcounter = p.stepcounter /\ c.idleSynch = p.idleSynch
        /\ c.gen = p.gen /\ c.nmi_destiny = p.nmi_destiny /\ c.NMI_offset = p.NMI_offset
        /\ c.nmi_pending = p.nmi_pending /\ c.active_pending = p.active_pending
        /\ c.ppudead = p.ppudead /\ c.do_pre_vbl = p.do_pre_vbl
    <3>1. v \in BOOLEAN /\ no \in BOOLEAN /\ p \in PpuType
      BY <1>2, <2>2
    <3>2. c \in PpuType
      BY <2>1, <3>1 DEF PpuType
    <3> QED BY <2>1, <3>1, <3>2 DEF PpuType
  <2> DEFINE n == IF over THEN 0 ELSE c.sl + 1
             a == ~over
             e == [c EXCEPT !.cycle = 0, !.sl = n]
             d == [e EXCEPT !.do_vbl = a, !.do_active_sl = over]
  <2>4. n \in Nat /\ a \in BOOLEAN /\ over \in BOOLEAN /\ (a <=> ~over)
        /\ (over <=> p.sl = LastLine) /\ n = (IF p.sl = LastLine THEN 0 ELSE p.sl + 1)
    BY <2>3 DEF PpuType
  <2>5. t = [r EXCEPT !.ppu = [c EXCEPT !.cycle = 0, !.sl = n, !.do_vbl = a, !.do_active_sl = over]]
    BY <1>3, <1>5, <2>3
  <2> HIDE DEF n, a, over
  <2>6. [c EXCEPT !.cycle = 0, !.sl = n, !.do_vbl = a, !.do_active_sl = over] = d
    OBVIOUS
  <2>7. /\ e \in PpuType /\ e.cycle = 0 /\ e.sl = n
        /\ e.vblank = c.vblank /\ e.clear_pending = c.clear_pending
        /\ e.stepcounter = c.stepcounter /\ e.idleSynch = c.idleSynch
        /\ e.gen = c.gen /\ e.nmi_destiny = c.nmi_destiny /\ e.NMI_offset = c.NMI_offset
        /\ e.nmi_pending = c.nmi_pending /\ e.active_pending = c.active_pending
        /\ e.ppudead = c.ppudead /\ e.do_pre_vbl = c.do_pre_vbl
    BY <2>3, <2>4 DEF PpuType
  <2> HIDE DEF e
  <2>8. /\ d \in PpuType /\ d.do_vbl = a /\ d.do_active_sl = over /\ d.cycle = 0 /\ d.sl = n
        /\ d.vblank = c.vblank /\ d.clear_pending = c.clear_pending
        /\ d.stepcounter = c.stepcounter /\ d.idleSynch = c.idleSynch
        /\ d.gen = c.gen /\ d.nmi_destiny = c.nmi_destiny /\ d.NMI_offset = c.NMI_offset
        /\ d.nmi_pending = c.nmi_pending /\ d.active_pending = c.active_pending
        /\ d.ppudead = c.ppudead /\ d.do_pre_vbl = c.do_pre_vbl
    <3>1. a \in BOOLEAN /\ over \in BOOLEAN /\ e \in PpuType
      BY <2>4, <2>7
    <3>2. d \in PpuType
      BY <3>1 DEF PpuType
    <3>3. /\ d.do_vbl = a /\ d.do_active_sl = over /\ d.cycle = e.cycle /\ d.sl = e.sl
          /\ d.vblank = e.vblank /\ d.clear_pending = e.clear_pending
          /\ d.stepcounter = e.stepcounter /\ d.idleSynch = e.idleSynch
          /\ d.gen = e.gen /\ d.nmi_destiny = e.nmi_destiny /\ d.NMI_offset = e.NMI_offset
          /\ d.nmi_pending = e.nmi_pending /\ d.active_pending = e.active_pending
          /\ d.ppudead = e.ppudead /\ d.do_pre_vbl = e.do_pre_vbl
      BY <3>1 DEF PpuType
    <3> HIDE DEF d
    <3> QED BY <2>7, <3>2, <3>3
  <2>9. t = [r EXCEPT !.ppu = d]
    BY <2>5, <2>6
  <2> HIDE DEF d
  <2>10. t \in Mid /\ t.ppu = d /\ t.frame = r.frame
    BY <1>2, <2>8, <2>9 DEF Mid
  <2>11. Carried(r, t)
    BY <2>3, <2>8, <2>10 DEF Carried
  <2>12. VblLineEnds(r, t)
    <3>1. /\ t.frame.flagged = r.frame.flagged
          /\ t.ppu.active_pending = p.active_pending /\ t.ppu.ppudead = p.ppudead
          /\ t.ppu.do_pre_vbl = p.do_pre_vbl
          /\ t.ppu.cycle = 0 /\ t.ppu.sl = n
      BY <2>3, <2>8, <2>10
    <3>2. t.ppu.clear_pending = no /\ t.ppu.vblank = v
      BY <2>3, <2>8, <2>10
    <3>3. t.ppu.do_vbl = a /\ t.ppu.do_active_sl = over
      BY <2>8, <2>10
    <3> QED BY <2>2, <2>4, <2>11, <3>1, <3>2, <3>3 DEF VblLineEnds
  <2> QED BY <1>1, <1>5, <2>12
<1> QED BY <1>4, <1>5

\* The end of a visible line.
LEMMA ActiveLineKeeps ==
  ASSUME NEW r \in Mid
  PROVE  LET over == r.ppu.sl + 1 = ActiveLines
             t == [r EXCEPT !.ppu = [r.ppu EXCEPT !.cycle = 0, !.sl = @ + 1,
                                                  !.do_active_sl = ~over, !.do_pre_vbl = over]]
         IN ActiveLineEnds(r, t)
<1> DEFINE over == r.ppu.sl + 1 = ActiveLines
           c == r.ppu
           n == c.sl + 1
           a == ~over
           e == [c EXCEPT !.cycle = 0, !.sl = n]
           d == [e EXCEPT !.do_active_sl = a, !.do_pre_vbl = over]
           t == [r EXCEPT !.ppu = [c EXCEPT !.cycle = 0, !.sl = @ + 1,
                                            !.do_active_sl = ~over, !.do_pre_vbl = over]]
<1> SUFFICES ActiveLineEnds(r, t)
  OBVIOUS
<1>1. c \in PpuType /\ r = [ppu |-> c, nmi |-> r.nmi, frame |-> r.frame]
      /\ r.nmi \in BOOLEAN /\ r.frame \in FrameType
  BY DEF Mid
<1>2. t = [r EXCEPT !.ppu = [c EXCEPT !.cycle = 0, !.sl = n, !.do_active_sl = a,
                                      !.do_pre_vbl = over]]
  BY DEF Mid
<1>3. n \in Nat /\ a \in BOOLEAN /\ over \in BOOLEAN /\ n = c.sl + 1
      /\ (over <=> c.sl + 1 = ActiveLines) /\ (a <=> ~over)
  BY <1>1 DEF PpuType
<1> HIDE DEF n, a, over, t
<1>4. [c EXCEPT !.cycle = 0, !.sl = n, !.do_active_sl = a, !.do_pre_vbl = over] = d
  OBVIOUS
<1>5. /\ e \in PpuType /\ e.cycle = 0 /\ e.sl = n
      /\ e.vblank = c.vblank /\ e.clear_pending = c.clear_pending
      /\ e.stepcounter = c.stepcounter /\ e.idleSynch = c.idleSynch
      /\ e.gen = c.gen /\ e.nmi_destiny = c.nmi_destiny /\ e.NMI_offset = c.NMI_offset
      /\ e.nmi_pending = c.nmi_pending /\ e.active_pending = c.active_pending
      /\ e.ppudead = c.ppudead /\ e.do_vbl = c.do_vbl
  BY <1>1, <1>3 DEF PpuType
<1> HIDE DEF e
<1>6. /\ d \in PpuType /\ d.do_active_sl = a /\ d.do_pre_vbl = over /\ d.cycle = 0 /\ d.sl = n
      /\ d.vblank = c.vblank /\ d.clear_pending = c.clear_pending
      /\ d.stepcounter = c.stepcounter /\ d.idleSynch = c.idleSynch
      /\ d.gen = c.gen /\ d.nmi_destiny = c.nmi_destiny /\ d.NMI_offset = c.NMI_offset
      /\ d.nmi_pending = c.nmi_pending /\ d.active_pending = c.active_pending
      /\ d.ppudead = c.ppudead /\ d.do_vbl = c.do_vbl
  <2>1. a \in BOOLEAN /\ over \in BOOLEAN /\ e \in PpuType
    BY <1>3, <1>5
  <2>2. d \in PpuType
    BY <2>1 DEF PpuType
  <2>3. /\ d.do_active_sl = a /\ d.do_pre_vbl = over /\ d.cycle = e.cycle /\ d.sl = e.sl
        /\ d.vblank = e.vblank /\ d.clear_pending = e.clear_pending
        /\ d.stepcounter = e.stepcounter /\ d.idleSynch = e.idleSynch
        /\ d.gen = e.gen /\ d.nmi_destiny = e.nmi_destiny /\ d.NMI_offset = e.NMI_offset
        /\ d.nmi_pending = e.nmi_pending /\ d.active_pending = e.active_pending
        /\ d.ppudead = e.ppudead /\ d.do_vbl = e.do_vbl
    BY <2>1 DEF PpuType
  <2> HIDE DEF d
  <2> QED BY <1>5, <2>2, <2>3
<1>7. t = [r EXCEPT !.ppu = d]
  BY <1>2, <1>4
<1> HIDE DEF d
<1>8. t \in Mid /\ t.ppu = d /\ t.frame = r.frame
  BY <1>1, <1>6, <1>7 DEF Mid
<1>9. Carried(r, t)
  BY <1>6, <1>8 DEF Carried
<1> QED BY <1>3, <1>6, <1>8, <1>9 DEF ActiveLineEnds

\* A dot of TickPPU_active: the last one of the first line may be skipped.
LEMMA ActiveDot ==
  ASSUME NEW s \in Mid, NEW op \in CpuOps, s.frame.dots <= FullDots, s.ppu.nmi_pending # 2
  PROVE  LET t == TickActive(s, op) IN
         IF s.ppu.cycle < LineDots - 1 THEN Ran(s, t)
         ELSE IF DotSkipped(s.ppu) THEN ActiveLineEnds(s, t)
         ELSE \E r : Ran(s, r) /\ ActiveLineEnds(r, t)
<1> DEFINE t == TickActive(s, op)
           End(r) == LET over == r.ppu.sl + 1 = ActiveLines IN
                     [r EXCEPT !.ppu = [r.ppu EXCEPT !.cycle = 0, !.sl = @ + 1,
                                                     !.do_active_sl = ~over,
                                                     !.do_pre_vbl = over]]
<1>1. t = IF s.ppu.cycle < LineDots - 1 THEN RunPpu(ChooseEvenOdd(s), op)
          ELSE End(IF DotSkipped(s.ppu) THEN s ELSE RunPpu(s, op))
  BY DEF TickActive
<1>2. \A r \in Mid : ActiveLineEnds(r, End(r))
  BY ActiveLineKeeps
<1>3. Ran(s, RunPpu(s, op)) /\ RunPpu(s, op) \in Mid
  BY RunPpuRuns DEF Ran
<1>4. Ran(s, RunPpu(ChooseEvenOdd(s), op))
  <2> DEFINE q == ChooseEvenOdd(s)
             w == s.ppu.show_new
             d == [s.ppu EXCEPT !.evenOddDestiny = w]
  <2>1. s.ppu \in PpuType /\ s = [ppu |-> s.ppu, nmi |-> s.nmi, frame |-> s.frame]
        /\ s.nmi \in BOOLEAN /\ s.frame \in FrameType
    BY DEF Mid
  <2>2. w \in BOOLEAN
    BY <2>1 DEF PpuType
  <2>3. q = s \/ q = [s EXCEPT !.ppu = d]
    BY <2>1 DEF ChooseEvenOdd
  <2> HIDE DEF q, w
  <2>4. /\ d \in PpuType /\ Steered(s.ppu, d) /\ Seen(s.ppu, d)
        /\ d.cycle = s.ppu.cycle /\ d.stepcounter = s.ppu.stepcounter
        /\ d.nmi_pending = s.ppu.nmi_pending
    BY <2>1, <2>2 DEF PpuType, Steered, Seen
  <2> HIDE DEF d
  <2>5. /\ q \in Mid /\ Steered(s.ppu, q.ppu) /\ Seen(s.ppu, q.ppu) /\ q.frame = s.frame
        /\ q.ppu.cycle = s.ppu.cycle /\ q.ppu.stepcounter = s.ppu.stepcounter
        /\ q.ppu.nmi_pending = s.ppu.nmi_pending
    <3>1. CASE q = s
      BY <3>1 DEF Steered, Seen
    <3>2. CASE q = [s EXCEPT !.ppu = d]
      <4>1. q \in Mid /\ q.ppu = d /\ q.frame = s.frame
        BY <2>1, <2>4, <3>2 DEF Mid
      <4> QED BY <2>4, <4>1
    <3> QED BY <2>3, <3>1, <3>2
  <2>6. Ran(q, RunPpu(q, op))
    BY <2>5, RunPpuRuns
  <2> QED BY <2>5, <2>6 DEF Ran, Steered, Seen, NmiRests, NmiUnleashed, NmiRaised, q
<1> SUFFICES IF s.ppu.cycle < LineDots - 1 THEN Ran(s, t)
             ELSE IF DotSkipped(s.ppu) THEN ActiveLineEnds(s, t)
             ELSE \E r : Ran(s, r) /\ ActiveLineEnds(r, t)
  OBVIOUS
<1> HIDE DEF t, End
<1>5. CASE s.ppu.cycle < LineDots - 1
  BY <1>1, <1>4, <1>5
<1>6. CASE ~(s.ppu.cycle < LineDots - 1) /\ DotSkipped(s.ppu)
  BY <1>1, <1>2, <1>6
<1>7. CASE ~(s.ppu.cycle < LineDots - 1) /\ ~DotSkipped(s.ppu)
  BY <1>1, <1>2, <1>3, <1>7
<1> QED BY <1>5, <1>6, <1>7

(***************************************************************************)
(* The last dot before a vblank begins with a new account of its NMIs.     *)
(***************************************************************************)
Soon(s, q) ==
  /\ q \in Mid
  /\ q.ppu.cycle = s.ppu.cycle /\ q.ppu.stepcounter = s.ppu.stepcounter
  /\ q.ppu.nmi_pending = s.ppu.nmi_pending
  /\ Steered(s.ppu, q.ppu)
  /\ q.ppu.active_pending /\ q.ppu.vblank = s.ppu.vblank /\ q.ppu.gen = s.ppu.gen
  /\ q.frame.dots = s.frame.dots /\ Steady(s.frame, q.frame)
  /\ q.frame.nmis = 0 /\ q.frame.enables = 0 /\ ~q.frame.touched

\* And so it does.
LEMMA ActivateSoonKeeps ==
  ASSUME NEW s \in Mid
  PROVE  Soon(s, ActivateSoon(s))
<1> DEFINE q == ActivateSoon(s)
           yes == TRUE
           no == FALSE
           d == [s.ppu EXCEPT !.active_pending = yes]
           g == [s.frame EXCEPT !.nmis = 0, !.enables = 0, !.touched = no]
<1>1. s.ppu \in PpuType /\ s = [ppu |-> s.ppu, nmi |-> s.nmi, frame |-> s.frame]
      /\ s.nmi \in BOOLEAN /\ s.frame \in FrameType
  BY DEF Mid
<1>2. q = [s EXCEPT !.ppu = d, !.frame = g]
  BY <1>1 DEF ActivateSoon
<1>3. yes /\ ~no /\ yes \in BOOLEAN /\ no \in BOOLEAN
  OBVIOUS
<1> HIDE DEF yes, no, q
<1>4. /\ d \in PpuType /\ d.active_pending = yes /\ d.vblank = s.ppu.vblank /\ d.gen = s.ppu.gen
      /\ d.cycle = s.ppu.cycle /\ d.stepcounter = s.ppu.stepcounter
      /\ d.nmi_pending = s.ppu.nmi_pending /\ Steered(s.ppu, d)
  BY <1>1, <1>3 DEF PpuType, Steered
<1>5. /\ g \in FrameType /\ g.dots = s.frame.dots /\ Steady(s.frame, g)
      /\ g.nmis = 0 /\ g.enables = 0 /\ g.touched = no
  BY <1>1, <1>3 DEF FrameType, Steady
<1> HIDE DEF d, g
<1>6. q \in Mid /\ q.ppu = d /\ q.frame = g
  BY <1>1, <1>2, <1>4, <1>5 DEF Mid
<1> QED BY <1>3, <1>4, <1>5, <1>6 DEF Soon, q

\* The vblank starts with the flag up, unless it was taken back.
LEMMA StartVblankKeeps ==
  ASSUME NEW r \in Mid
  PROVE  LET t == StartVblank(r) IN
         /\ VblankStarts(r, t)
         /\ t.ppu.do_pre_vbl = r.ppu.do_pre_vbl /\ t.ppu.ppudead = r.ppu.ppudead
<1> DEFINE p == r.ppu
           v == p.vblank \/ p.active_pending
           w == p.active_pending
           yes == TRUE
           no == FALSE
           e == [p EXCEPT !.vblank = v, !.active_pending = no]
           b == [e EXCEPT !.sl = VblLine, !.cycle = 0]
           d == [b EXCEPT !.do_vbl = yes]
           g == [r.frame EXCEPT !.flagged = w]
           t == StartVblank(r)
<1>1. p \in PpuType /\ r = [ppu |-> r.ppu, nmi |-> r.nmi, frame |-> r.frame]
      /\ r.nmi \in BOOLEAN /\ r.frame \in FrameType
  BY DEF Mid
<1>2. t = [r EXCEPT !.ppu = d, !.frame = g]
  <2> DEFINE h == [p EXCEPT !.vblank = v, !.active_pending = no,
                            !.sl = VblLine, !.cycle = 0, !.do_vbl = yes]
  <2>1. t = [r EXCEPT !.ppu = h, !.frame = g]
    BY <1>1 DEF StartVblank, PpuType
  <2>2. h = d
    OBVIOUS
  <2> HIDE DEF h, d
  <2> QED BY <2>1, <2>2
<1>3. yes /\ ~no /\ yes \in BOOLEAN /\ no \in BOOLEAN
  OBVIOUS
<1>4. v \in BOOLEAN /\ w \in BOOLEAN /\ (v <=> p.vblank \/ p.active_pending)
      /\ (w <=> p.active_pending)
  BY <1>1 DEF PpuType
<1>5. VblLine \in Nat
  BY Geometry
<1> SUFFICES VblankStarts(r, t)
             /\ t.ppu.do_pre_vbl = r.ppu.do_pre_vbl /\ t.ppu.ppudead = r.ppu.ppudead
  OBVIOUS
<1> HIDE DEF yes, no, v, w, t
<1>6. /\ e \in PpuType /\ e.vblank = v /\ e.active_pending = no
      /\ e.stepcounter = p.stepcounter /\ e.idleSynch = p.idleSynch
      /\ e.gen = p.gen /\ e.nmi_destiny = p.nmi_destiny /\ e.NMI_offset = p.NMI_offset
      /\ e.nmi_pending = p.nmi_pending /\ e.clear_pending = p.clear_pending
      /\ e.ppudead = p.ppudead /\ e.do_pre_vbl = p.do_pre_vbl /\ e.do_active_sl = p.do_active_sl
  <2>1. v \in BOOLEAN /\ no \in BOOLEAN
    BY <1>3, <1>4
  <2>2. e \in PpuType
    BY <1>1, <2>1 DEF PpuType
  <2> QED BY <1>1, <2>1, <2>2 DEF PpuType
<1> HIDE DEF e
<1>7. /\ b \in PpuType /\ b.sl = VblLine /\ b.cycle = 0
      /\ b.vblank = e.vblank /\ b.active_pending = e.active_pending
      /\ b.stepcounter = e.stepcounter /\ b.idleSynch = e.idleSynch
      /\ b.gen = e.gen /\ b.nmi_destiny = e.nmi_destiny /\ b.NMI_offset = e.NMI_offset
      /\ b.nmi_pending = e.nmi_pending /\ b.clear_pending = e.clear_pending
      /\ b.ppudead = e.ppudead /\ b.do_pre_vbl = e.do_pre_vbl /\ b.do_active_sl = e.do_active_sl
  <2>1. e \in PpuType
    BY <1>6
  <2>2. b \in PpuType
    BY <1>5, <2>1 DEF PpuType
  <2> QED BY <2>1, <2>2 DEF PpuType
<1> HIDE DEF b
<1>8. /\ d \in PpuType /\ d.do_vbl = yes /\ d.sl = b.sl /\ d.cycle = b.cycle
      /\ d.vblank = b.vblank /\ d.active_pending = b.active_pending
      /\ d.stepcounter = b.stepcounter /\ d.idleSynch = b.idleSynch
      /\ d.gen = b.gen /\ d.nmi_destiny = b.nmi_destiny /\ d.NMI_offset = b.NMI_offset
      /\ d.nmi_pending = b.nmi_pending /\ d.clear_pending = b.clear_pending
      /\ d.ppudead = b.ppudead /\ d.do_pre_vbl = b.do_pre_vbl /\ d.do_active_sl = b.do_active_sl
  <2>1. b \in PpuType /\ yes \in BOOLEAN
    BY <1>3, <1>7
  <2>2. d \in PpuType
    BY <2>1 DEF PpuType
  <2> QED BY <2>1, <2>2 DEF PpuType
<1>9. /\ g \in FrameType /\ g.flagged = w /\ g.dots = r.frame.dots /\ g.last = r.frame.last
      /\ g.nmis = r.frame.nmis /\ g.enables = r.frame.enables /\ g.touched = r.frame.touched
  <2>1. w \in BOOLEAN
    BY <1>4
  <2> QED BY <1>1, <2>1 DEF FrameType
<1> HIDE DEF d, g
<1>10. t \in Mid /\ t.ppu = d /\ t.frame = g
  BY <1>1, <1>2, <1>8, <1>9 DEF Mid
<1>11. Carried(r, t)
  BY <1>6, <1>7, <1>8, <1>9, <1>10 DEF Carried
<1>12. /\ t.ppu.vblank = v /\ t.ppu.active_pending = no /\ t.ppu.do_vbl = yes
       /\ t.frame.flagged = w /\ t.ppu.cycle = 0 /\ t.ppu.sl = VblLine
       /\ t.ppu.clear_pending = p.clear_pending /\ t.ppu.do_active_sl = p.do_active_sl
       /\ t.ppu.ppudead = p.ppudead /\ t.ppu.do_pre_vbl = p.do_pre_vbl
  BY <1>6, <1>7, <1>8, <1>9, <1>10
<1> QED BY <1>3, <1>4, <1>11, <1>12 DEF VblankStarts

\* A dot of TickPPU_preVBL.
LEMMA PreDot ==
  ASSUME NEW s \in Mid, NEW op \in CpuOps, s.frame.dots <= FullDots, s.ppu.nmi_pending # 2
  PROVE  LET t == TickPre(s, op) IN
         IF s.ppu.cycle = LineDots - 1 /\ s.ppu.sl = VblLine - 1
         THEN \E q, r : /\ Soon(s, q) /\ Ran(q, r) /\ VblankStarts(r, t)
                        /\ ~t.ppu.do_pre_vbl /\ t.ppu.ppudead = r.ppu.ppudead
         ELSE \E r : Ran(s, r) /\ IF r.ppu.cycle = LineDots THEN PreLineEnds(r, t) ELSE t = r
<1> DEFINE t == TickPre(s, op)
           final == s.ppu.cycle = LineDots - 1 /\ s.ppu.sl = VblLine - 1
<1>1. CASE final
  <2> DEFINE q == ActivateSoon(s)
             r == RunPpu(q, op)
             v == StartVblank(r)
             no == FALSE
             d == [v.ppu EXCEPT !.do_pre_vbl = no]
  <2>1. Soon(s, q)
    BY ActivateSoonKeeps
  <2>2. t = [v EXCEPT !.ppu.do_pre_vbl = no]
    BY <1>1 DEF TickPre
  <2>3. no \in BOOLEAN /\ ~no
    OBVIOUS
  <2> SUFFICES /\ Soon(s, q) /\ Ran(q, r) /\ VblankStarts(r, t)
               /\ ~t.ppu.do_pre_vbl /\ t.ppu.ppudead = r.ppu.ppudead
    BY <1>1
  <2> HIDE DEF q, t, no
  <2>4. Ran(q, r)
    BY <2>1, RunPpuRuns DEF Soon, Steered
  <2> HIDE DEF r
  <2>5. VblankStarts(r, v) /\ v.ppu.ppudead = r.ppu.ppudead
    BY <2>4, StartVblankKeeps DEF Ran
  <2> HIDE DEF v
  <2>6. v.ppu \in PpuType /\ v = [ppu |-> v.ppu, nmi |-> v.nmi, frame |-> v.frame]
        /\ v.nmi \in BOOLEAN /\ v.frame \in FrameType
    BY <2>5 DEF VblankStarts, Carried, Mid
  <2>7. d \in PpuType
    BY <2>3, <2>6 DEF PpuType
  <2>8. /\ d.do_pre_vbl = no /\ d.cycle = v.ppu.cycle /\ d.sl = v.ppu.sl
        /\ d.vblank = v.ppu.vblank /\ d.active_pending = v.ppu.active_pending
        /\ d.stepcounter = v.ppu.stepcounter /\ d.idleSynch = v.ppu.idleSynch
        /\ d.gen = v.ppu.gen /\ d.nmi_destiny = v.ppu.nmi_destiny
        /\ d.NMI_offset = v.ppu.NMI_offset
        /\ d.nmi_pending = v.ppu.nmi_pending /\ d.clear_pending = v.ppu.clear_pending
        /\ d.ppudead = v.ppu.ppudead /\ d.do_vbl = v.ppu.do_vbl
        /\ d.do_active_sl = v.ppu.do_active_sl
    BY <2>6 DEF PpuType
  <2>9. t = [v EXCEPT !.ppu = d]
    BY <2>2, <2>6
  <2> HIDE DEF d
  <2>10. t \in Mid /\ t.ppu = d /\ t.frame = v.frame
    BY <2>6, <2>7, <2>9 DEF Mid
  <2>11. VblankStarts(r, t)
    BY <2>5, <2>8, <2>10 DEF VblankStarts, Carried
  <2> QED BY <2>1, <2>3, <2>4, <2>5, <2>8, <2>10, <2>11
<1>2. CASE ~final
  <2> DEFINE r == RunPpu(s, op)
             n == r.ppu.sl + 1
             d == [r.ppu EXCEPT !.cycle = 0, !.sl = n]
  <2>1. Ran(s, r)
    BY RunPpuRuns
  <2>2. t = IF r.ppu.cycle = LineDots THEN [r EXCEPT !.ppu.cycle = 0, !.ppu.sl = @ + 1] ELSE r
    BY <1>2 DEF TickPre
  <2> SUFFICES Ran(s, r) /\ IF r.ppu.cycle = LineDots THEN PreLineEnds(r, t) ELSE t = r
    BY <1>2
  <2> HIDE DEF r, t
  <2>3. CASE r.ppu.cycle = LineDots
    <3>1. r.ppu \in PpuType /\ r = [ppu |-> r.ppu, nmi |-> r.nmi, frame |-> r.frame]
          /\ r.nmi \in BOOLEAN /\ r.frame \in FrameType
      BY <2>1 DEF Ran, Mid
    <3>2. t = [r EXCEPT !.ppu = d]
      BY <2>2, <2>3, <3>1 DEF PpuType
    <3>3. n \in Nat /\ n = r.ppu.sl + 1
      BY <3>1 DEF PpuType
    <3> HIDE DEF n
    <3>4. d \in PpuType
      BY <3>1, <3>3 DEF PpuType
    <3>5. /\ d.cycle = 0 /\ d.sl = n
          /\ d.vblank = r.ppu.vblank /\ d.active_pending = r.ppu.active_pending
          /\ d.stepcounter = r.ppu.stepcounter /\ d.idleSynch = r.ppu.idleSynch
          /\ d.gen = r.ppu.gen /\ d.nmi_destiny = r.ppu.nmi_destiny
          /\ d.NMI_offset = r.ppu.NMI_offset
          /\ d.nmi_pending = r.ppu.nmi_pending /\ d.clear_pending = r.ppu.clear_pending
          /\ d.ppudead = r.ppu.ppudead /\ d.do_vbl = r.ppu.do_vbl
          /\ d.do_active_sl = r.ppu.do_active_sl /\ d.do_pre_vbl = r.ppu.do_pre_vbl
      BY <3>1 DEF PpuType
    <3> HIDE DEF d
    <3>6. t \in Mid /\ t.ppu = d /\ t.frame = r.frame
      BY <3>1, <3>2, <3>4 DEF Mid
    <3> QED BY <2>1, <2>3, <3>3, <3>5, <3>6 DEF PreLineEnds, Carried
  <2> QED BY <2>1, <2>2, <2>3
<1> QED BY <1>1, <1>2

\* A dot of NewDeadPPU.
LEMMA DeadDot ==
  ASSUME NEW s \in Mid, NEW op \in CpuOps, s.frame.dots <= FullDots, s.ppu.nmi_pending # 2,
         s.ppu.ppudead = 1
  PROVE  LET t == TickDead(s, op) IN
         IF s.ppu.cycle = DeadDots - 1
         THEN \E q, r : /\ Soon(s, q) /\ Ran(q, r) /\ VblankStarts(r, t)
                        /\ t.ppu.do_pre_vbl = r.ppu.do_pre_vbl /\ t.ppu.ppudead = 0
         ELSE Ran(s, t)
<1> DEFINE t == TickDead(s, op)
           final == s.ppu.cycle = DeadDots - 1
<1>1. CASE final
  <2> DEFINE q == ActivateSoon(s)
             r == RunPpu(q, op)
             v == StartVblank(r)
             d == [v.ppu EXCEPT !.ppudead = 0]
  <2>1. Soon(s, q)
    BY ActivateSoonKeeps
  <2>2. t = [v EXCEPT !.ppu.ppudead = @ - 1]
    BY <1>1 DEF TickDead
  <2> SUFFICES /\ Soon(s, q) /\ Ran(q, r) /\ VblankStarts(r, t)
               /\ t.ppu.do_pre_vbl = r.ppu.do_pre_vbl /\ t.ppu.ppudead = 0
    BY <1>1
  <2> HIDE DEF q, t
  <2>4. Ran(q, r)
    BY <2>1, RunPpuRuns DEF Soon, Steered
  <2> HIDE DEF r
  <2>5. VblankStarts(r, v) /\ v.ppu.do_pre_vbl = r.ppu.do_pre_vbl
        /\ v.ppu.ppudead = r.ppu.ppudead
    BY <2>4, StartVblankKeeps DEF Ran
  <2> HIDE DEF v
  <2>6. v.ppu \in PpuType /\ v = [ppu |-> v.ppu, nmi |-> v.nmi, frame |-> v.frame]
        /\ v.nmi \in BOOLEAN /\ v.frame \in FrameType
    BY <2>5 DEF VblankStarts, Carried, Mid
  <2>7. v.ppu.ppudead = 1
    BY <2>1, <2>4, <2>5 DEF Ran, Soon, Steered
  <2>8. d \in PpuType
    BY <2>6 DEF PpuType
  <2>9. /\ d.ppudead = 0 /\ d.cycle = v.ppu.cycle /\ d.sl = v.ppu.sl
        /\ d.vblank = v.ppu.vblank /\ d.active_pending = v.ppu.active_pending
        /\ d.stepcounter = v.ppu.stepcounter /\ d.idleSynch = v.ppu.idleSynch
        /\ d.gen = v.ppu.gen /\ d.nmi_destiny = v.ppu.nmi_destiny
        /\ d.NMI_offset = v.ppu.NMI_offset
        /\ d.nmi_pending = v.ppu.nmi_pending /\ d.clear_pending = v.ppu.clear_pending
        /\ d.do_pre_vbl = v.ppu.do_pre_vbl /\ d.do_vbl = v.ppu.do_vbl
        /\ d.do_active_sl = v.ppu.do_active_sl
    BY <2>6 DEF PpuType
  <2>10. t = [v EXCEPT !.ppu = d]
    BY <2>2, <2>6, <2>7
  <2> HIDE DEF d
  <2>11. t \in Mid /\ t.ppu = d /\ t.frame = v.frame
    BY <2>6, <2>8, <2>10 DEF Mid
  <2>12. VblankStarts(r, t)
    BY <2>5, <2>9, <2>11 DEF VblankStarts, Carried
  <2> QED BY <2>1, <2>4, <2>5, <2>9, <2>11, <2>12
<1>2. CASE ~final
  <2>1. t = RunPpu(s, op)
    BY <1>2 DEF TickDead
  <2> QED BY <1>2, <2>1, RunPpuRuns
<1> QED BY <1>1, <1>2

-----------------------------------------------------------------------------
(***************************************************************************)
(* The invariant.  Where each loop is, and how many dots of the frame have *)
(* gone by: one is missing, at most, after the first line of a frame that  *)
(* chops.                                                                  *)
(***************************************************************************)
Lines(n) == n * LineDots

InVbl ==
  /\ ppu.do_vbl /\ ~ppu.do_active_sl /\ ~ppu.do_pre_vbl /\ ppu.ppudead = 0
  /\ ppu.sl \in VblLine..LastLine /\ ppu.cycle \in 0..(LineDots - 1)
  /\ frame.dots = Lines(ppu.sl - VblLine) + ppu.cycle

Chopped == ChopDot /\ ppu.idleSynch /\ ppu.sl > 0

DotsDone ==
  \/ frame.dots = Lines(ppu.sl + PostLines) + ppu.cycle
  \/ Chopped /\ frame.dots = Lines(ppu.sl + PostLines) + ppu.cycle - 1

InActive ==
  /\ ~ppu.do_vbl /\ ppu.do_active_sl /\ ~ppu.do_pre_vbl /\ ppu.ppudead = 0
  /\ ppu.sl \in 0..(ActiveLines - 1) /\ ppu.cycle \in 0..(LineDots - 1)
  /\ DotsDone

InPre ==
  /\ ~ppu.do_vbl /\ ~ppu.do_active_sl /\ ppu.do_pre_vbl /\ ppu.ppudead = 0
  /\ ppu.sl \in ActiveLines..(VblLine - 1) /\ ppu.cycle \in 0..(LineDots - 1)
  /\ DotsDone

InDead ==
  /\ ~ppu.do_active_sl /\ ~ppu.do_pre_vbl /\ ppu.ppudead = 1
  /\ ppu.sl = 0 /\ ppu.cycle \in 0..(DeadDots - 1) /\ frame.dots = ppu.cycle

InHost ==
  /\ ~ppu.do_active_sl /\ ~ppu.do_pre_vbl /\ ppu.cycle = 0
  /\ IF ppu.ppudead = 0 THEN ppu.do_vbl /\ ppu.sl = VblLine ELSE ppu.sl = 0

InLoop ==
  /\ loop = "vbl" => InVbl
  /\ loop = "active" => InActive
  /\ loop = "pre" => InPre
  /\ loop = "dead" => InDead
  /\ loop = "out" => InHost

\* The flag is down outside the vblank and the host's turn before it.
FlagDown == loop \in {"active", "pre"} \/ ppu.ppudead = 1 => ~ppu.vblank

\* An NMI that the program unleashes in the last dots of the vblank is raised
\* within three dots.
PendingSoon ==
  ppu.nmi_pending = 1 =>
    \/ loop = "vbl"
    \/ loop = "active" /\ ppu.sl = 0 /\ ppu.cycle <= ppu.stepcounter

\* The vblank has not interrupted yet.
OwnDue == loop = "vbl" /\ ppu.sl = VblLine /\ ppu.cycle <= 3 + ppu.NMI_offset

\* The NMIs of a vblank, those to come included.
Accounts ==
  IF frame.flagged
    THEN frame.nmis + ppu.nmi_pending
           <= frame.enables + IF loop \in {"out", "dead"} \/ OwnDue THEN 0 ELSE 1
    ELSE /\ frame.nmis = 0 /\ ppu.nmi_pending = 0 /\ ~ppu.vblank
         /\ loop = "vbl" /\ ~FirstDot(ppu) => ~ppu.nmi_destiny

\* A vblank that the program has left alone.
Untouched ==
  ~frame.touched /\ (loop = "vbl" \/ (loop = "out" /\ ppu.ppudead = 0)) =>
    /\ ppu.vblank /\ frame.enables = 0 /\ ppu.nmi_pending = 0 /\ frame.flagged
    /\ OwnDue /\ ppu.cycle > 0 => (ppu.nmi_destiny <=> ppu.gen)
    /\ ppu.sl = VblLine /\ loop = "vbl" /\ ~OwnDue /\ ppu.gen => frame.nmis = 1

\* The vblank's own NMI falls just after a CPU cycle.
Aligned ==
  OwnDue /\ ppu.cycle > 0 => (ppu.stepcounter + 6 + ppu.NMI_offset - ppu.cycle) % 3 = 0

\* After a frame that is short the next one is not.
Alternates ==
  frame.last = FullDots - 1 => (loop \in {"active", "pre"} <=> ~ppu.idleSynch)

Inside == InLoop /\ FlagDown /\ PendingSoon /\ Accounts /\ Untouched /\ Aligned /\ Alternates

IInv == TypeOK /\ Inside

\* Dots in whole lines.
LEMMA LinesAre ==
  /\ Lines(0) = 0 /\ Lines(LastLine + 1) = FullDots
  /\ \A n \in Nat : Lines(n) \in Nat /\ Lines(n + 1) = Lines(n) + LineDots
  /\ \A n \in 0..LastLine : Lines(n) + LineDots <= FullDots
<1>1. \A n \in Nat : Lines(n) \in Nat /\ Lines(n + 1) = Lines(n) + LineDots
  BY Geometry DEF Lines
<1>2. Lines(0) = 0 /\ Lines(LastLine + 1) = FullDots
  BY Geometry DEF Lines
<1>3. ASSUME NEW n \in 0..LastLine PROVE Lines(n) + LineDots <= FullDots
  <2> DEFINE m == LastLine - n
  <2>1. n \in Nat /\ m \in Nat /\ LineDots \in Nat /\ LastLine + 1 = n + 1 + m
    BY Geometry
  <2>2. m * LineDots \in Nat
    BY <2>1
  <2>3. (n + 1 + m) * LineDots = n * LineDots + LineDots + m * LineDots
    BY <2>1
  <2>4. FullDots = n * LineDots + LineDots + m * LineDots
    BY <2>1, <2>3, Geometry
  <2>5. n * LineDots \in Nat
    BY <2>1
  <2> QED BY <2>1, <2>2, <2>4, <2>5 DEF Lines
<1> QED BY <1>1, <1>2, <1>3

\* The types of a dot's state.
LEMMA StartTypes ==
  ASSUME TypeOK
  PROVE  /\ Now \in Mid /\ Now.ppu = ppu /\ Now.frame = frame
         /\ ppu \in PpuType /\ frame \in FrameType /\ nmi \in BOOLEAN
         /\ ~ppu.active_pending /\ ~ppu.clear_pending /\ ppu.nmi_pending # 2
         /\ frame.dots <= FullDots /\ ppu.sl <= LastLine
<1>1. ppu \in PpuType
  <2>1. /\ 0..LastLine \subseteq Nat /\ 0..2 \subseteq {0, 1, 2} /\ 0..1 \subseteq {0, 1, 2}
        /\ 0..1 \subseteq {0, 1} /\ {FALSE} \subseteq BOOLEAN
    BY Geometry
  <2> QED BY <2>1 DEF TypeOK, PpuType
<1>2. frame \in FrameType /\ frame.dots <= FullDots
  <2>1. 0..FullDots \subseteq Nat
    BY Geometry
  <2>2. frame.dots \in 0..FullDots
    BY DEF TypeOK
  <2> QED BY <2>1, <2>2, Geometry DEF TypeOK, FrameType
<1>3. ppu.active_pending \in {FALSE} /\ ppu.clear_pending \in {FALSE}
  BY DEF TypeOK
<1>4. ~ppu.active_pending /\ ~ppu.clear_pending
  BY <1>3, Zenon
<1>5. ppu.nmi_pending \in 0..1 /\ ppu.sl \in 0..LastLine
  BY DEF TypeOK
<1>6. ppu.nmi_pending # 2 /\ ppu.sl <= LastLine
  BY <1>5, Geometry
<1>7. nmi \in BOOLEAN
  BY DEF TypeOK
<1> QED BY <1>1, <1>2, <1>4, <1>6, <1>7 DEF Now, Mid

\* And those of the next one.
LEMMA EndTypes ==
  ASSUME ppu' \in PpuType, frame' \in FrameType, nmi' \in BOOLEAN, resets' \in 0..MaxResets,
         ~ppu'.active_pending, ~ppu'.clear_pending, ppu'.nmi_pending # 2,
         ppu'.sl <= LastLine, frame'.dots <= FullDots,
         loop' \in {"out", "dead", "vbl", "active", "pre"}
  PROVE  TypeOK'
<1>1. ppu'.active_pending \in {FALSE} /\ ppu'.clear_pending \in {FALSE}
  <2>1. ppu'.active_pending \in BOOLEAN /\ ppu'.clear_pending \in BOOLEAN
    BY DEF PpuType
  <2> QED BY <2>1, Zenon
<1>2. /\ ppu'.nmi_pending \in 0..1 /\ ppu'.sl \in 0..LastLine
      /\ ppu'.stepcounter \in 0..2 /\ ppu'.NMI_offset \in 0..2
      /\ ppu'.install_2001 \in 0..2 /\ ppu'.ppudead \in 0..1
  BY Geometry DEF PpuType
<1>3. frame'.dots \in 0..FullDots
  BY Geometry DEF FrameType
<1>4. ppu' \in [cycle : Nat, sl : 0..LastLine, stepcounter : 0..2,
              do_vbl : BOOLEAN, do_active_sl : BOOLEAN, do_pre_vbl : BOOLEAN,
              ppudead : 0..1, idleSynch : BOOLEAN, evenOddDestiny : BOOLEAN,
              vblank : BOOLEAN, active_pending : {FALSE}, clear_pending : {FALSE},
              gen : BOOLEAN, nmi_destiny : BOOLEAN, NMI_offset : 0..2, nmi_pending : 0..1,
              show : BOOLEAN, show_new : BOOLEAN, install_2001 : 0..2]
  BY <1>1, <1>2 DEF PpuType
<1>5. frame' \in [dots : 0..FullDots, last : {DeadDots, FullDots - 1, FullDots},
                  flagged : BOOLEAN, nmis : Nat, enables : Nat, touched : BOOLEAN]
  BY <1>3 DEF FrameType
<1> QED BY <1>4, <1>5 DEF TypeOK

-----------------------------------------------------------------------------
(***************************************************************************)
(* A turn of the loop l whose incrementer makes t.                         *)
(***************************************************************************)
Turned(l, t) ==
  /\ loop = l
  /\ ppu' = t.ppu /\ nmi' = t.nmi
  /\ loop' = EnterFrom(l, t.ppu)
  /\ frame' = IF loop' = "out" THEN [t.frame EXCEPT !.last = t.frame.dots] ELSE t.frame
  /\ resets' = resets

\* Each loop takes such turns.
LEMMA TurnsAre ==
  /\ VblTurn => \E op \in CpuOps : Turned("vbl", TickVbl(Now, op))
  /\ ActiveTurn => \E op \in CpuOps : Turned("active", TickActive(Now, op))
  /\ PreTurn => \E op \in CpuOps : Turned("pre", TickPre(Now, op))
  /\ DeadTurn => \E op \in CpuOps : Turned("dead", TickDead(Now, op))
<1> DEFINE Ops == IF CpuSlot(ppu) THEN CpuOps ELSE {<<"other">>}
<1>1. Ops \subseteq CpuOps
  BY DEF CpuOps
<1> HIDE DEF Ops
<1>2. ASSUME VblTurn PROVE \E op \in CpuOps : Turned("vbl", TickVbl(Now, op))
  <2>1. \E op \in Ops : Turned("vbl", TickVbl(Now, op))
    BY <1>2 DEF VblTurn, Turn, Turned, Ops
  <2> QED BY <1>1, <2>1
<1>3. ASSUME ActiveTurn PROVE \E op \in CpuOps : Turned("active", TickActive(Now, op))
  <2>1. \E op \in Ops : Turned("active", TickActive(Now, op))
    BY <1>3 DEF ActiveTurn, Turn, Turned, Ops
  <2> QED BY <1>1, <2>1
<1>4. ASSUME PreTurn PROVE \E op \in CpuOps : Turned("pre", TickPre(Now, op))
  <2>1. \E op \in Ops : Turned("pre", TickPre(Now, op))
    BY <1>4 DEF PreTurn, Turn, Turned, Ops
  <2> QED BY <1>1, <2>1
<1>5. ASSUME DeadTurn PROVE \E op \in CpuOps : Turned("dead", TickDead(Now, op))
  <2>1. \E op \in Ops : Turned("dead", TickDead(Now, op))
    BY <1>5 DEF DeadTurn, Turn, Turned, Ops
  <2> QED BY <1>1, <2>1
<1> QED BY <1>2, <1>3, <1>4, <1>5

(***************************************************************************)
(* What a turn carries over from r, in which the CPU has had its part.     *)
(***************************************************************************)
CarriedOver(r) ==
  /\ ppu' \in PpuType /\ frame' \in FrameType /\ nmi' \in BOOLEAN
  /\ resets' = resets
  /\ ppu'.stepcounter = r.ppu.stepcounter
  /\ ppu'.gen = r.ppu.gen /\ ppu'.nmi_destiny = r.ppu.nmi_destiny
  /\ ppu'.NMI_offset = r.ppu.NMI_offset /\ ppu'.nmi_pending = r.ppu.nmi_pending
  /\ ppu'.idleSynch = r.ppu.idleSynch
  /\ frame'.dots = r.frame.dots
  /\ frame'.nmis = r.frame.nmis /\ frame'.enables = r.frame.enables
  /\ frame'.touched = r.frame.touched

\* A turn of the vblank loop: on within its line, on to the next line, or out.
VblGoes(q, r) ==
  /\ Looking(Now, q) /\ Looks(Now, q) /\ Ran(q, r) /\ CarriedOver(r)
  /\ frame'.last = frame.last /\ frame'.flagged = frame.flagged
  /\ ~ppu'.active_pending /\ ~ppu'.clear_pending /\ ppu'.ppudead = 0 /\ ~ppu'.do_pre_vbl
  /\ \/ /\ ppu.cycle # LineDots - 1
        /\ loop' = "vbl" /\ ppu'.cycle = ppu.cycle + 1 /\ ppu'.sl = ppu.sl
        /\ ppu'.do_vbl /\ ~ppu'.do_active_sl
        /\ ppu'.vblank = r.ppu.vblank /\ ppu'.idleSynch = ppu.idleSynch
     \/ /\ ppu.cycle = LineDots - 1 /\ ppu.sl # LastLine
        /\ loop' = "vbl" /\ ppu'.cycle = 0 /\ ppu'.sl = ppu.sl + 1
        /\ ppu'.do_vbl /\ ~ppu'.do_active_sl
        /\ ppu'.vblank = r.ppu.vblank /\ ppu'.idleSynch = ppu.idleSynch
     \/ /\ ppu.cycle = LineDots - 1 /\ ppu.sl = LastLine
        /\ loop' = "active" /\ ppu'.cycle = 0 /\ ppu'.sl = 0
        /\ ~ppu'.do_vbl /\ ppu'.do_active_sl
        /\ ~ppu'.vblank /\ (ppu'.idleSynch <=> ~ppu.idleSynch)

\* So it goes.
LEMMA VblTurnGoes ==
  ASSUME TypeOK, InLoop, VblTurn
  PROVE  \E q, r : VblGoes(q, r)
<1>1. PICK op \in CpuOps : Turned("vbl", TickVbl(Now, op))
  BY TurnsAre
<1> DEFINE q == EndVbl(NmiDestiny(Now))
           r == RunPpu(q, op)
           t == TickVbl(Now, op)
<1>2. /\ Looking(Now, q) /\ Looks(Now, q)
      /\ IF AtEnd(Now.ppu) THEN q.ppu.clear_pending /\ (q.ppu.idleSynch <=> ~Now.ppu.idleSynch)
         ELSE q.ppu.clear_pending = Now.ppu.clear_pending /\ q.ppu.idleSynch = Now.ppu.idleSynch
  BY StartTypes, VblLooks
<1>3. Ran(q, r) /\ IF r.ppu.cycle = LineDots THEN VblLineEnds(r, t) ELSE t = r
  BY StartTypes, VblDot
<1> SUFFICES VblGoes(q, r)
  OBVIOUS
<1> HIDE DEF q, r, t
<1>4. /\ ppu' = t.ppu /\ nmi' = t.nmi /\ resets' = resets
      /\ loop' = EnterFrom("vbl", t.ppu) /\ (loop' # "out" => frame' = t.frame)
  BY <1>1 DEF Turned, t
<1>5. /\ InVbl /\ Now.ppu = ppu /\ Now.frame = frame /\ ~ppu.clear_pending /\ ~ppu.active_pending
      /\ ppu.cycle \in Nat /\ LineDots \in Nat /\ ppu.sl \in Nat
  <2>1. loop = "vbl"
    BY <1>1 DEF Turned
  <2> QED BY <2>1, StartTypes, Geometry DEF InLoop, PpuType
<1>6. /\ r.ppu.cycle = ppu.cycle + 1 /\ r.ppu.sl = ppu.sl
      /\ r.ppu.do_vbl /\ ~r.ppu.do_active_sl /\ ~r.ppu.do_pre_vbl /\ r.ppu.ppudead = 0
      /\ ~r.ppu.active_pending
      /\ r.ppu.clear_pending = q.ppu.clear_pending
      /\ r.ppu.idleSynch = q.ppu.idleSynch
      /\ r.frame.last = frame.last /\ r.frame.flagged = frame.flagged
  BY <1>2, <1>3, <1>5 DEF Looking, Ran, Steered, Seen, Steady, InVbl
<1>7. r \in Mid
  BY <1>3 DEF Ran
<1>8. CASE ppu.cycle # LineDots - 1
  <2>1. t = r /\ r.ppu.cycle # LineDots
    BY <1>3, <1>5, <1>6, <1>8
  <2>2. loop' = "vbl" /\ frame' = r.frame /\ ppu' = r.ppu /\ nmi' = r.nmi
    BY <1>4, <1>6, <2>1 DEF EnterFrom
  <2>3. r.ppu \in PpuType /\ r.frame \in FrameType /\ r.nmi \in BOOLEAN
    BY <1>7 DEF Mid
  <2>4. CarriedOver(r)
    BY <1>4, <2>2, <2>3 DEF CarriedOver
  <2>5. ~q.ppu.clear_pending /\ q.ppu.idleSynch = ppu.idleSynch
    BY <1>2, <1>5, <1>8 DEF AtEnd
  <2> QED BY <1>2, <1>3, <1>6, <1>8, <2>2, <2>4, <2>5 DEF VblGoes
<1>9. CASE ppu.cycle = LineDots - 1
  <2>1. r.ppu.cycle = LineDots
    BY <1>5, <1>6, <1>9
  <2>2. VblLineEnds(r, t)
    BY <1>3, <2>1
  <2>3. /\ t.ppu \in PpuType /\ t.frame \in FrameType /\ t.nmi \in BOOLEAN
        /\ ~t.ppu.do_pre_vbl /\ t.ppu.ppudead = 0
    BY <1>6, <2>2 DEF VblLineEnds, Carried, Mid
  <2>4. loop' # "out"
    BY <1>4, <2>2 DEF VblLineEnds, EnterFrom
  <2>5. CarriedOver(r)
    BY <1>4, <2>2, <2>3, <2>4 DEF CarriedOver, VblLineEnds, Carried
  <2>6. /\ frame'.last = frame.last /\ frame'.flagged = frame.flagged
        /\ ~ppu'.active_pending /\ ~ppu'.clear_pending /\ ppu'.cycle = 0
        /\ ppu'.ppudead = 0 /\ ~ppu'.do_pre_vbl
    BY <1>4, <1>6, <2>2, <2>3, <2>4 DEF VblLineEnds, Carried
  <2>7. CASE ppu.sl # LastLine
    <3>1. ~q.ppu.clear_pending /\ q.ppu.idleSynch = ppu.idleSynch
      BY <1>2, <1>5, <2>7 DEF AtEnd
    <3>2. /\ ppu'.sl = ppu.sl + 1 /\ ppu'.do_vbl /\ ~ppu'.do_active_sl
          /\ ppu'.idleSynch = ppu.idleSynch
      BY <1>4, <1>6, <2>2, <2>5, <2>7, <3>1 DEF VblLineEnds, CarriedOver
    <3>3. loop' = "vbl"
      BY <1>4, <3>2 DEF EnterFrom
    <3>4. ppu'.vblank = r.ppu.vblank
      <4>1. ppu'.vblank <=> r.ppu.vblank
        BY <1>4, <1>6, <2>2, <3>1 DEF VblLineEnds
      <4>2. ppu'.vblank \in BOOLEAN /\ r.ppu.vblank \in BOOLEAN
        BY <1>4, <1>7, <2>3 DEF PpuType, Mid
      <4> QED BY <4>1, <4>2, Zenon
    <3> QED BY <1>2, <1>3, <1>9, <2>5, <2>6, <2>7, <3>2, <3>3, <3>4 DEF VblGoes
  <2>8. CASE ppu.sl = LastLine
    <3>1. q.ppu.clear_pending /\ (q.ppu.idleSynch <=> ~ppu.idleSynch)
      BY <1>2, <1>5, <1>9, <2>8 DEF AtEnd
    <3>2. /\ ppu'.sl = 0 /\ ~ppu'.do_vbl /\ ppu'.do_active_sl
          /\ ~ppu'.vblank
      BY <1>4, <1>6, <2>2, <2>8, <3>1 DEF VblLineEnds
    <3>3. loop' = "active"
      BY <1>4, <3>2 DEF EnterFrom
    <3>4. ppu'.idleSynch <=> ~ppu.idleSynch
      BY <1>6, <2>5, <3>1 DEF CarriedOver
    <3> QED BY <1>2, <1>3, <1>9, <2>5, <2>6, <2>8, <3>2, <3>3, <3>4 DEF VblGoes
  <2> QED BY <2>7, <2>8
<1> QED BY <1>8, <1>9

-----------------------------------------------------------------------------
(***************************************************************************)
(* The two action properties, as steps.                                    *)
(***************************************************************************)
LengthStep ==
  loop # "out" /\ loop' = "out" =>
    IF loop = "dead" THEN frame'.last = DeadDots
    ELSE \/ frame'.last = FullDots
         \/ frame'.last = FullDots - 1 /\ ChopDot /\ frame.last # FullDots - 1

NmiStep == frame'.nmis > frame.nmis /\ ppu.nmi_pending = 0 => ppu.stepcounter = 0

\* The numbers of a call of runppu.
LEMMA RanCounts ==
  ASSUME NEW s \in Mid, NEW r, Ran(s, r)
  PROVE  /\ r.frame.nmis + r.ppu.nmi_pending + s.frame.enables
              <= s.frame.nmis + s.ppu.nmi_pending + r.frame.enables
         /\ r.frame.nmis \in Nat /\ r.frame.enables \in Nat /\ r.ppu.nmi_pending \in {0, 1}
         /\ s.frame.nmis \in Nat /\ s.frame.enables \in Nat /\ s.ppu.nmi_pending \in {0, 1, 2}
         /\ r.ppu.stepcounter \in {0, 1, 2} /\ s.ppu.stepcounter \in {0, 1, 2}
         /\ s.ppu.nmi_pending = 0 => r.frame.nmis = s.frame.nmis
<1>1. /\ r.frame.nmis \in Nat /\ r.frame.enables \in Nat /\ r.ppu.nmi_pending \in {0, 1}
      /\ s.frame.nmis \in Nat /\ s.frame.enables \in Nat /\ s.ppu.nmi_pending \in {0, 1, 2}
      /\ r.ppu.stepcounter \in {0, 1, 2} /\ s.ppu.stepcounter \in {0, 1, 2}
  BY DEF Ran, Mid, PpuType, FrameType
<1>2. NmiRests(s, r) \/ NmiUnleashed(s, r) \/ NmiRaised(s, r)
  BY DEF Ran
<1> QED BY <1>1, <1>2 DEF NmiRests, NmiUnleashed, NmiRaised

\* Between two dots, as far as numbers go.
LEMMA Numbers ==
  ASSUME TypeOK
  PROVE  /\ ppu.cycle \in Nat /\ ppu.sl \in 0..LastLine /\ ppu.stepcounter \in {0, 1, 2}
         /\ ppu.NMI_offset \in {0, 1, 2} /\ ppu.nmi_pending \in {0, 1} /\ ppu.ppudead \in {0, 1}
         /\ frame.dots \in 0..FullDots /\ frame.nmis \in Nat /\ frame.enables \in Nat
         /\ frame.last \in {DeadDots, FullDots - 1, FullDots}
         /\ LineDots \in Nat /\ LineDots > 6 /\ LastLine \in Nat /\ VblLine \in Nat
         /\ ActiveLines \in Nat /\ ActiveLines > 0 /\ ActiveLines < VblLine
         /\ PostLines \in Nat /\ PostLines > 0 /\ LastLine = VblLine + PostLines - 1
         /\ FullDots \in Nat /\ DeadDots \in Nat /\ DeadDots > 1 /\ DeadDots <= FullDots
<1>1. ppu \in PpuType /\ frame \in FrameType /\ ppu.nmi_pending # 2
  BY StartTypes
<1>2. ppu.sl \in 0..LastLine /\ frame.dots \in 0..FullDots
  BY DEF TypeOK
<1> QED BY <1>1, <1>2, Geometry DEF PpuType, FrameType

\* The dots of the vblank loop.
LEMMA VblInLoop ==
  ASSUME IInv, loop = "vbl", NEW q, NEW r, VblGoes(q, r)
  PROVE  /\ TypeOK' /\ InLoop' /\ FlagDown' /\ PendingSoon' /\ Alternates'
         /\ loop' # "out"
<1>1. /\ ppu.cycle \in Nat /\ ppu.sl \in 0..LastLine /\ frame.dots \in 0..FullDots
      /\ LineDots \in Nat /\ LineDots > 6 /\ LastLine \in Nat /\ VblLine \in Nat
      /\ ActiveLines \in Nat /\ ActiveLines > 0
      /\ PostLines \in Nat /\ PostLines > 0 /\ LastLine = VblLine + PostLines - 1
      /\ FullDots \in Nat
  BY Numbers DEF IInv
<1>2. /\ ppu.sl \in VblLine..LastLine /\ ppu.cycle \in 0..(LineDots - 1)
      /\ frame.dots = Lines(ppu.sl - VblLine) + ppu.cycle
  BY DEF IInv, Inside, InLoop, InVbl
<1>3. frame'.dots = frame.dots + 1
  <2>1. r.frame.dots = q.frame.dots + 1 /\ frame'.dots = r.frame.dots
        /\ q.frame.dots = Now.frame.dots /\ Now.frame = frame
    BY DEF VblGoes, Ran, Looking, CarriedOver, Now
  <2> QED BY <2>1
<1> DEFINE n == ppu.sl - VblLine
<1>4. n \in 0..LastLine /\ n \in Nat
  BY <1>1, <1>2
<1>5. Lines(n) \in Nat /\ Lines(n + 1) = Lines(n) + LineDots /\ Lines(n) + LineDots <= FullDots
  BY <1>4, LinesAre
<1>6. frame'.dots <= FullDots
  BY <1>1, <1>2, <1>3, <1>5
<1>7. /\ ppu' \in PpuType /\ frame' \in FrameType /\ nmi' \in BOOLEAN /\ resets' = resets
      /\ ~ppu'.active_pending /\ ~ppu'.clear_pending /\ ppu'.ppudead = 0 /\ ~ppu'.do_pre_vbl
      /\ frame'.last = frame.last
      /\ ppu'.nmi_pending # 2 /\ ppu'.stepcounter \in Nat
  BY DEF VblGoes, CarriedOver, Ran, PpuType
<1>8. resets' \in 0..MaxResets
  BY <1>7 DEF IInv, TypeOK
<1>9. frame.last = FullDots - 1 => ppu.idleSynch
  BY DEF IInv, Inside, Alternates
<1>10. CASE /\ ppu.cycle # LineDots - 1
            /\ loop' = "vbl" /\ ppu'.cycle = ppu.cycle + 1 /\ ppu'.sl = ppu.sl
            /\ ppu'.do_vbl /\ ~ppu'.do_active_sl
            /\ ppu'.idleSynch = ppu.idleSynch
  <2>1. ppu'.sl <= LastLine /\ ppu'.cycle \in 0..(LineDots - 1)
        /\ frame'.dots = Lines(ppu'.sl - VblLine) + ppu'.cycle
    BY <1>1, <1>2, <1>3, <1>5, <1>10
  <2>2. TypeOK'
    BY <1>6, <1>7, <1>8, <1>10, <2>1, EndTypes
  <2>3. InLoop'
    BY <1>2, <1>7, <1>10, <2>1 DEF InLoop, InVbl
  <2>4. FlagDown' /\ PendingSoon' /\ Alternates'
    BY <1>7, <1>9, <1>10 DEF FlagDown, PendingSoon, Alternates
  <2> QED BY <1>10, <2>2, <2>3, <2>4
<1>11. CASE /\ ppu.cycle = LineDots - 1 /\ ppu.sl # LastLine
            /\ loop' = "vbl" /\ ppu'.cycle = 0 /\ ppu'.sl = ppu.sl + 1
            /\ ppu'.do_vbl /\ ~ppu'.do_active_sl
            /\ ppu'.idleSynch = ppu.idleSynch
  <2>1. ppu'.sl \in VblLine..LastLine /\ ppu'.sl <= LastLine /\ ppu'.cycle \in 0..(LineDots - 1)
        /\ ppu'.sl - VblLine = n + 1
    BY <1>1, <1>2, <1>11
  <2>2. frame'.dots = Lines(ppu'.sl - VblLine) + ppu'.cycle
    BY <1>1, <1>2, <1>3, <1>5, <1>11, <2>1
  <2>3. TypeOK'
    BY <1>6, <1>7, <1>8, <1>11, <2>1, EndTypes
  <2>4. InLoop'
    BY <1>7, <1>11, <2>1, <2>2 DEF InLoop, InVbl
  <2>5. FlagDown' /\ PendingSoon' /\ Alternates'
    BY <1>7, <1>9, <1>11 DEF FlagDown, PendingSoon, Alternates
  <2> QED BY <1>11, <2>3, <2>4, <2>5
<1>12. CASE /\ ppu.cycle = LineDots - 1 /\ ppu.sl = LastLine
            /\ loop' = "active" /\ ppu'.cycle = 0 /\ ppu'.sl = 0
            /\ ~ppu'.do_vbl /\ ppu'.do_active_sl
            /\ ~ppu'.vblank /\ (ppu'.idleSynch <=> ~ppu.idleSynch)
  <2>1. ppu'.sl \in 0..(ActiveLines - 1) /\ ppu'.sl <= LastLine
        /\ ppu'.cycle \in 0..(LineDots - 1) /\ n + 1 = ppu'.sl + PostLines
    BY <1>1, <1>2, <1>12
  <2>2. frame'.dots = Lines(ppu'.sl + PostLines) + ppu'.cycle
    BY <1>1, <1>2, <1>3, <1>5, <1>12, <2>1
  <2>3. TypeOK'
    BY <1>6, <1>7, <1>8, <1>12, <2>1, EndTypes
  <2>4. InLoop'
    BY <1>7, <1>12, <2>1, <2>2 DEF InLoop, InActive, DotsDone
  <2>5. FlagDown' /\ PendingSoon' /\ Alternates'
    BY <1>7, <1>9, <1>12 DEF FlagDown, PendingSoon, Alternates
  <2> QED BY <1>12, <2>3, <2>4, <2>5
<1> QED BY <1>10, <1>11, <1>12 DEF VblGoes

\* While the vblank's own NMI is due.
LEMMA DueGoes ==
  ASSUME IInv, loop = "vbl", NEW q, NEW r, VblGoes(q, r)
  PROVE  /\ OwnDue' => /\ OwnDue /\ ~Interrupts(Now, q)
                       /\ ppu'.cycle = ppu.cycle + 1 /\ ppu'.sl = ppu.sl
         /\ Interrupts(Now, q) => OwnDue /\ ~FirstDot(ppu)
         /\ loop' = "vbl" /\ ppu'.sl = VblLine =>
              ppu'.cycle = ppu.cycle + 1 /\ ppu'.sl = ppu.sl
         /\ ppu'.NMI_offset = q.ppu.NMI_offset
<1>1. /\ ppu.cycle \in Nat /\ ppu.sl \in VblLine..LastLine /\ VblLine \in Nat /\ LastLine \in Nat
      /\ ppu.NMI_offset \in {0, 1, 2} /\ PostLines \in Nat
  BY Numbers DEF IInv, Inside, InLoop, InVbl
<1>2. ppu'.NMI_offset = q.ppu.NMI_offset /\ q.ppu.NMI_offset \in {0, 1, 2}
  BY DEF VblGoes, CarriedOver, Ran, Steered, Looking, Mid, PpuType
<1>3. loop' = "vbl" /\ ppu'.sl = VblLine => ppu'.cycle = ppu.cycle + 1 /\ ppu'.sl = ppu.sl
  <2>1. \/ ppu'.cycle = ppu.cycle + 1 /\ ppu'.sl = ppu.sl
        \/ ppu'.sl = ppu.sl + 1
        \/ loop' = "active"
    BY DEF VblGoes
  <2> QED BY <1>1, <2>1
<1>4. Now.ppu = ppu
  BY DEF Now
<1>5. Interrupts(Now, q) => OwnDue /\ ~FirstDot(ppu) /\ ppu.cycle = 3 + q.ppu.NMI_offset
  BY <1>1, <1>4 DEF Interrupts, OwnDue, FirstDot
<1>6. q.ppu.NMI_offset = ppu.NMI_offset \/ FirstDot(ppu)
  BY <1>4 DEF VblGoes, Looks, LooksFirst, LooksAgain, Interrupts, LooksNot
<1>7. ASSUME OwnDue'
      PROVE  OwnDue /\ ~Interrupts(Now, q) /\ ppu'.cycle = ppu.cycle + 1 /\ ppu'.sl = ppu.sl
  <2>1. /\ loop' = "vbl" /\ ppu'.sl = VblLine /\ ppu'.cycle <= 3 + ppu'.NMI_offset
        /\ ppu'.cycle = ppu.cycle + 1 /\ ppu'.sl = ppu.sl
    BY <1>3, <1>7 DEF OwnDue
  <2>2. ~Interrupts(Now, q)
    BY <1>1, <1>2, <1>5, <2>1
  <2>3. ppu.cycle <= 3 + ppu.NMI_offset
    BY <1>1, <1>2, <1>6, <2>1 DEF FirstDot
  <2> QED BY <2>1, <2>2, <2>3 DEF OwnDue
<1> QED BY <1>2, <1>3, <1>5, <1>7

\* The accounts of a dot of the vblank loop.
LEMMA VblAccounts ==
  ASSUME IInv, loop = "vbl", NEW q, NEW r, VblGoes(q, r)
  PROVE  Accounts'
<1>1. /\ Looking(Now, q) /\ Looks(Now, q) /\ Ran(q, r) /\ CarriedOver(r)
      /\ frame'.flagged = frame.flagged /\ Now.ppu = ppu /\ Now.frame = frame
      /\ loop' \in {"vbl", "active"} /\ (ppu'.vblank => r.ppu.vblank)
      /\ q \in Mid /\ Seen(ppu, q.ppu)
  BY DEF VblGoes, Now, Looking
<1>2. /\ frame'.nmis = r.frame.nmis /\ frame'.enables = r.frame.enables
      /\ ppu'.nmi_pending = r.ppu.nmi_pending
      /\ q.frame.enables = frame.enables /\ q.ppu.nmi_pending = ppu.nmi_pending
      /\ ppu'.nmi_destiny = q.ppu.nmi_destiny
  BY <1>1 DEF CarriedOver, Looking, Ran, Steered
<1>3. /\ r.frame.nmis + r.ppu.nmi_pending + q.frame.enables
           <= q.frame.nmis + q.ppu.nmi_pending + r.frame.enables
      /\ r.frame.nmis \in Nat /\ r.frame.enables \in Nat /\ r.ppu.nmi_pending \in {0, 1}
      /\ q.frame.nmis \in Nat /\ q.frame.enables \in Nat /\ q.ppu.nmi_pending \in {0, 1, 2}
      /\ q.ppu.nmi_pending = 0 => r.frame.nmis = q.frame.nmis
  BY <1>1, RanCounts
<1>4. /\ OwnDue' => OwnDue /\ ~Interrupts(Now, q)
      /\ Interrupts(Now, q) => OwnDue /\ ~FirstDot(ppu)
  BY DueGoes
<1>5. IF Interrupts(Now, q) THEN q.frame.nmis = frame.nmis + 1 ELSE q.frame.nmis = frame.nmis
  BY <1>1 DEF Looks, LooksFirst, LooksAgain, LooksNot, Interrupts
<1>6. frame.nmis \in Nat /\ frame.enables \in Nat /\ ppu.nmi_pending \in {0, 1}
  BY Numbers DEF IInv
<1>7. Accounts
  BY DEF IInv, Inside
<1>8. CASE frame.flagged
  <2>1. frame.nmis + ppu.nmi_pending <= frame.enables + IF OwnDue THEN 0 ELSE 1
    BY <1>7, <1>8 DEF Accounts
  <2>2. r.frame.nmis + r.ppu.nmi_pending <= r.frame.enables + IF OwnDue' THEN 0 ELSE 1
    <3>1. CASE Interrupts(Now, q)
      BY <1>2, <1>3, <1>4, <1>5, <1>6, <2>1, <3>1
    <3>2. CASE ~Interrupts(Now, q)
      <4>1. CASE OwnDue'
        BY <1>2, <1>3, <1>4, <1>5, <1>6, <2>1, <3>2, <4>1
      <4>2. CASE ~OwnDue'
        <5>1. frame.nmis + ppu.nmi_pending <= frame.enables + 1
          BY <1>6, <2>1
        <5> QED BY <1>2, <1>3, <1>5, <1>6, <3>2, <4>2, <5>1
      <4> QED BY <4>1, <4>2
    <3> QED BY <3>1, <3>2
  <2> QED BY <1>1, <1>2, <1>8, <2>2 DEF Accounts
<1>9. CASE ~frame.flagged
  <2>1. /\ frame.nmis = 0 /\ ppu.nmi_pending = 0 /\ ~ppu.vblank
        /\ ~FirstDot(ppu) => ~ppu.nmi_destiny
    BY <1>7, <1>9 DEF Accounts
  <2>2. ~Interrupts(Now, q)
    BY <1>1, <1>4, <2>1 DEF Interrupts
  <2>3. ~q.ppu.vblank /\ ~Wanted(Now.ppu)
    BY <1>1, <2>1 DEF Seen, Wanted
  <2>4. ~q.ppu.nmi_destiny
    BY <1>1, <2>1, <2>2, <2>3 DEF Looks, LooksFirst, LooksAgain, LooksNot
  <2>5. q.frame.nmis = 0 /\ q.ppu.nmi_pending = 0
    BY <1>2, <1>5, <2>1, <2>2
  <2>6. NmiRests(q, r)
    BY <1>1, <2>3, <2>5 DEF Ran, NmiUnleashed, NmiRaised
  <2>7. frame'.nmis = 0 /\ ppu'.nmi_pending = 0 /\ ~ppu'.vblank /\ ~ppu'.nmi_destiny
    BY <1>1, <1>2, <2>3, <2>4, <2>5, <2>6 DEF NmiRests, Ran
  <2> QED BY <1>1, <1>9, <2>7 DEF Accounts
<1> QED BY <1>8, <1>9

\* A vblank that the program leaves alone interrupts by itself.
LEMMA VblUntouched ==
  ASSUME IInv, loop = "vbl", NEW q, NEW r, VblGoes(q, r)
  PROVE  Untouched'
<1> SUFFICES ASSUME ~frame'.touched, loop' = "vbl"
             PROVE  /\ ppu'.vblank /\ frame'.enables = 0 /\ ppu'.nmi_pending = 0
                    /\ frame'.flagged
                    /\ OwnDue' /\ ppu'.cycle > 0 => (ppu'.nmi_destiny <=> ppu'.gen)
                    /\ ppu'.sl = VblLine /\ ~OwnDue' /\ ppu'.gen => frame'.nmis = 1
  <2>1. loop' # "out"
    BY VblInLoop
  <2> QED BY <2>1 DEF Untouched
<1>1. /\ Looking(Now, q) /\ Looks(Now, q) /\ Ran(q, r) /\ CarriedOver(r)
      /\ frame'.flagged = frame.flagged /\ Now.ppu = ppu /\ Now.frame = frame
      /\ ppu'.vblank = r.ppu.vblank
      /\ q \in Mid /\ Seen(ppu, q.ppu)
  BY DEF VblGoes, Now, Looking
<1>2. ~r.frame.touched /\ ~q.frame.touched /\ ~frame.touched /\ Seen(q.ppu, r.ppu)
  BY <1>1 DEF CarriedOver, Ran, Looking
<1>3. /\ ppu.vblank /\ frame.enables = 0 /\ ppu.nmi_pending = 0 /\ frame.flagged
      /\ OwnDue /\ ppu.cycle > 0 => (ppu.nmi_destiny <=> ppu.gen)
      /\ ppu.sl = VblLine /\ ~OwnDue /\ ppu.gen => frame.nmis = 1
  BY <1>2 DEF IInv, Inside, Untouched
<1>4. ppu'.vblank /\ ppu'.gen = ppu.gen /\ ppu'.nmi_destiny = q.ppu.nmi_destiny
  BY <1>1, <1>2, <1>3 DEF Seen, CarriedOver, Ran, Steered
<1>5. q.frame.enables = 0 /\ q.ppu.nmi_pending = 0
  BY <1>1, <1>3 DEF Looking
<1>6. NmiRests(q, r)
  BY <1>1, <1>2, <1>5 DEF Ran, NmiUnleashed, NmiRaised
<1>7. frame'.enables = 0 /\ ppu'.nmi_pending = 0 /\ frame'.nmis = q.frame.nmis
  BY <1>1, <1>5, <1>6 DEF NmiRests, CarriedOver
<1>8. /\ OwnDue' => /\ OwnDue /\ ~Interrupts(Now, q)
                    /\ ppu'.cycle = ppu.cycle + 1 /\ ppu'.sl = ppu.sl
      /\ Interrupts(Now, q) => OwnDue /\ ~FirstDot(ppu)
      /\ ppu'.sl = VblLine => ppu'.cycle = ppu.cycle + 1 /\ ppu'.sl = ppu.sl
      /\ ppu'.NMI_offset = q.ppu.NMI_offset
  BY DueGoes
<1>9. ppu.cycle \in Nat /\ ppu.NMI_offset \in {0, 1, 2} /\ q.ppu.NMI_offset \in {0, 1, 2}
  BY <1>1, Numbers DEF IInv, Mid, PpuType
<1>10. Wanted(Now.ppu) <=> ppu.gen
  BY <1>1, <1>3 DEF Wanted
<1>11. ASSUME OwnDue', ppu'.cycle > 0 PROVE ppu'.nmi_destiny <=> ppu'.gen
  <2>1. OwnDue /\ ~Interrupts(Now, q) /\ ppu.sl = VblLine
    BY <1>8, <1>11 DEF OwnDue
  <2>2. CASE LooksFirst(Now, q) \/ LooksAgain(Now, q)
    BY <1>4, <1>10, <2>2 DEF LooksFirst, LooksAgain
  <2>3. CASE LooksNot(Now, q)
    <3>1. ppu.cycle > 0
      BY <1>1, <1>9, <2>1, <2>3 DEF LooksNot, FirstDot
    <3>2. q.ppu.nmi_destiny <=> ppu.nmi_destiny
      BY <1>1, <2>3 DEF LooksNot
    <3> QED BY <1>3, <1>4, <2>1, <3>1, <3>2
  <2> QED BY <1>1, <2>1, <2>2, <2>3 DEF Looks
<1>12. ASSUME ppu'.sl = VblLine, ~OwnDue', ppu'.gen PROVE frame'.nmis = 1
  <2>1. ppu'.cycle = ppu.cycle + 1 /\ ppu.sl = VblLine /\ ppu.gen
        /\ ~(ppu'.cycle <= 3 + q.ppu.NMI_offset)
    BY <1>4, <1>8, <1>12 DEF OwnDue
  <2>2. CASE ~OwnDue
    <3>1. q.frame.nmis = frame.nmis
      BY <1>1, <1>8, <2>2 DEF Looks, LooksFirst, LooksAgain, LooksNot
    <3> QED BY <1>3, <1>4, <1>7, <2>1, <2>2, <3>1
  <2>3. CASE OwnDue
    <3>1. ppu.cycle <= 3 + ppu.NMI_offset
      BY <2>3 DEF OwnDue
    <3>2. ppu.cycle > 0 /\ ppu.cycle > 2 /\ ~FirstDot(ppu)
      BY <1>9, <2>1 DEF FirstDot
    <3>3. q.ppu.NMI_offset = ppu.NMI_offset
      BY <1>1, <3>2 DEF Looks, LooksFirst, LooksAgain, LooksNot, Interrupts
    <3>4. ppu.cycle = 3 + ppu.NMI_offset
      BY <1>9, <2>1, <3>1, <3>3
    <3>5. ppu.nmi_destiny
      BY <1>3, <2>1, <2>3, <3>2
    <3>6. ~LooksFirst(Now, q) /\ ~LooksAgain(Now, q) /\ ~LooksNot(Now, q)
      BY <1>1, <1>9, <2>1, <3>2, <3>4, <3>5 DEF LooksFirst, LooksAgain, LooksNot
    <3>7. q.frame.nmis = frame.nmis + 1
      BY <1>1, <3>6 DEF Looks, Interrupts
    <3>8. frame.nmis = 0
      <4>1. frame.nmis + ppu.nmi_pending <= frame.enables + 0
        BY <1>3, <2>3 DEF IInv, Inside, Accounts
      <4>2. frame.nmis \in Nat
        BY Numbers DEF IInv
      <4> QED BY <1>3, <4>1, <4>2
    <3> QED BY <1>7, <3>7, <3>8
  <2> QED BY <2>2, <2>3
<1> QED BY <1>1, <1>3, <1>4, <1>7, <1>11, <1>12

\* The vblank's own NMI keeps its place in the CPU's cycle.
LEMMA VblAligned ==
  ASSUME IInv, loop = "vbl", NEW q, NEW r, VblGoes(q, r)
  PROVE  Aligned' /\ NmiStep
<1>1. /\ Looking(Now, q) /\ Looks(Now, q) /\ Ran(q, r) /\ CarriedOver(r)
      /\ Now.ppu = ppu /\ Now.frame = frame /\ q \in Mid
  BY DEF VblGoes, Now, Looking
<1>2. /\ ppu.cycle \in Nat /\ ppu.NMI_offset \in {0, 1, 2} /\ ppu.stepcounter \in {0, 1, 2}
      /\ frame.nmis \in Nat
  BY Numbers DEF IInv
<1>3. /\ OwnDue' => /\ OwnDue /\ ~Interrupts(Now, q)
                    /\ ppu'.cycle = ppu.cycle + 1 /\ ppu'.sl = ppu.sl
      /\ Interrupts(Now, q) => OwnDue /\ ~FirstDot(ppu)
      /\ ppu'.NMI_offset = q.ppu.NMI_offset
  BY DueGoes
<1>4. ppu'.stepcounter = (ppu.stepcounter + 1) % 3
  BY <1>1 DEF CarriedOver, Ran, Looking
<1>5. OwnDue /\ ppu.cycle > 0 => (ppu.stepcounter + 6 + ppu.NMI_offset - ppu.cycle) % 3 = 0
  BY DEF IInv, Inside, Aligned
<1>6. ASSUME OwnDue', ppu'.cycle > 0
      PROVE  (ppu'.stepcounter + 6 + ppu'.NMI_offset - ppu'.cycle) % 3 = 0
  <2>1. ppu'.cycle = ppu.cycle + 1 /\ OwnDue
    BY <1>3, <1>6
  <2>2. CASE LooksFirst(Now, q)
    <3>1. ppu.cycle = 0 /\ q.ppu.NMI_offset = NmiOffset(ppu)
      BY <1>1, <2>2 DEF LooksFirst, FirstDot
    <3>2. CASE ppu.stepcounter = 0
      BY <1>3, <1>4, <2>1, <3>1, <3>2 DEF NmiOffset
    <3>3. CASE ppu.stepcounter = 1
      BY <1>3, <1>4, <2>1, <3>1, <3>3 DEF NmiOffset
    <3>4. CASE ppu.stepcounter = 2
      BY <1>3, <1>4, <2>1, <3>1, <3>4 DEF NmiOffset
    <3> QED BY <1>2, <3>2, <3>3, <3>4
  <2>3. CASE ~LooksFirst(Now, q)
    <3>1. ~FirstDot(ppu) /\ q.ppu.NMI_offset = ppu.NMI_offset
      BY <1>1, <1>2, <2>3 DEF Looks, LooksAgain, LooksNot, Interrupts, FirstDot
    <3>2. ppu.cycle > 0
      BY <1>2, <2>1, <3>1 DEF OwnDue, FirstDot
    <3>3. (ppu.stepcounter + 6 + ppu.NMI_offset - ppu.cycle) % 3 = 0
      BY <1>5, <2>1, <3>2
    <3>4. ppu'.cycle = ppu.cycle + 1 /\ ppu'.NMI_offset = ppu.NMI_offset
      BY <1>3, <2>1, <3>1
    <3> DEFINE m == 6 + ppu.NMI_offset - ppu.cycle
    <3>5. m \in Int /\ (ppu.stepcounter + m) % 3 = 0
      BY <1>2, <3>3
    <3>6. (((ppu.stepcounter + 1) % 3) + m - 1) % 3 = 0
      BY <1>2, <3>5
    <3> QED BY <1>2, <1>4, <3>4, <3>6
  <2> QED BY <2>2, <2>3
<1>7. ASSUME frame'.nmis > frame.nmis, ppu.nmi_pending = 0 PROVE ppu.stepcounter = 0
  <2>1. q.frame.nmis \in Nat /\ frame'.nmis = q.frame.nmis
    <3>1. q.ppu.nmi_pending = 0 /\ frame'.nmis = r.frame.nmis
      BY <1>1, <1>7 DEF Looking, CarriedOver
    <3>2. r.frame.nmis = q.frame.nmis /\ q.frame.nmis \in Nat
      BY <1>1, <3>1, RanCounts
    <3> QED BY <3>1, <3>2
  <2>2. Interrupts(Now, q)
    BY <1>1, <1>2, <1>7, <2>1 DEF Looks, LooksFirst, LooksAgain, LooksNot
  <2>3. ppu.cycle = 3 + ppu.NMI_offset
    BY <1>1, <2>2 DEF Interrupts
  <2>4. (ppu.stepcounter + 6 + ppu.NMI_offset - ppu.cycle) % 3 = 0
    BY <1>2, <1>3, <1>5, <2>2, <2>3
  <2> QED BY <1>2, <2>3, <2>4
<1> QED BY <1>6, <1>7 DEF Aligned, NmiStep

\* A dot of the vblank loop keeps the invariant.
LEMMA VblTurnKeeps ==
  ASSUME IInv, VblTurn
  PROVE  IInv' /\ LengthStep /\ NmiStep
<1>1. loop = "vbl"
  BY DEF VblTurn, Turn
<1>2. PICK q, r : VblGoes(q, r)
  BY VblTurnGoes DEF IInv, Inside
<1>3. /\ TypeOK' /\ InLoop' /\ FlagDown' /\ PendingSoon' /\ Alternates' /\ loop' # "out"
  BY <1>1, <1>2, VblInLoop
<1>4. Accounts' /\ Untouched'
  BY <1>1, <1>2, VblAccounts, VblUntouched
<1>5. Aligned' /\ NmiStep
  BY <1>1, <1>2, VblAligned
<1> QED BY <1>3, <1>4, <1>5 DEF IInv, Inside, LengthStep

-----------------------------------------------------------------------------
(***************************************************************************)
(* A turn outside the vblank that does not end the frame.  Its dot may be  *)
(* the skipped one.                                                        *)
(***************************************************************************)
RanOrSkipped(r) == Ran(Now, r) \/ (r = Now /\ DotSkipped(ppu))

Quietly(r) ==
  /\ RanOrSkipped(r) /\ CarriedOver(r)
  /\ frame'.last = frame.last /\ frame'.flagged = frame.flagged
  /\ ~ppu'.active_pending /\ ~ppu'.clear_pending
  /\ ppu'.ppudead = ppu.ppudead /\ ppu'.do_vbl = ppu.do_vbl
  /\ ppu'.idleSynch = ppu.idleSynch
  /\ ppu'.vblank => ppu.vblank
  /\ frame'.dots \in {frame.dots, frame.dots + 1}
  /\ DotSkipped(ppu) \/ frame'.dots = frame.dots + 1

\* What such a turn keeps, and what becomes of a pending NMI.
LEMMA QuietKeeps ==
  ASSUME IInv, NEW r, Quietly(r),
         \/ loop \in {"active", "pre"} /\ loop' \in {"active", "pre"}
         \/ loop = "dead" /\ loop' = "dead"
  PROVE  /\ FlagDown' /\ Accounts' /\ Untouched' /\ Aligned' /\ Alternates'
         /\ NmiStep /\ LengthStep
         /\ ppu'.nmi_pending \in {0, 1}
         /\ ppu'.nmi_pending = 1 =>
              /\ ppu.nmi_pending = 1
              /\ \/ ppu'.stepcounter = (ppu.stepcounter + 1) % 3 /\ ppu.stepcounter # 2
                 \/ DotSkipped(ppu)
<1>1. Now \in Mid /\ Now.ppu = ppu /\ Now.frame = frame
  BY StartTypes DEF IInv
<1>2. ~ppu.vblank
  <2>1. loop = "dead" => ppu.ppudead = 1
    BY DEF IInv, Inside, InLoop, InDead
  <2> QED BY <2>1 DEF IInv, Inside, FlagDown
<1>3. ~ppu'.vblank
  BY <1>2 DEF Quietly
<1>4. /\ frame'.nmis = r.frame.nmis /\ frame'.enables = r.frame.enables
      /\ ppu'.nmi_pending = r.ppu.nmi_pending /\ ppu'.stepcounter = r.ppu.stepcounter
      /\ frame'.flagged = frame.flagged /\ frame'.last = frame.last
      /\ ppu'.idleSynch = ppu.idleSynch
  BY DEF Quietly, CarriedOver
<1>5. frame.nmis \in Nat /\ frame.enables \in Nat /\ ppu.nmi_pending \in {0, 1}
      /\ ppu.stepcounter \in {0, 1, 2}
  BY Numbers DEF IInv
<1>6. /\ r.frame.nmis + r.ppu.nmi_pending + frame.enables
           <= frame.nmis + ppu.nmi_pending + r.frame.enables
      /\ r.frame.nmis \in Nat /\ r.frame.enables \in Nat /\ r.ppu.nmi_pending \in {0, 1}
      /\ ppu.nmi_pending = 0 => r.frame.nmis = frame.nmis /\ r.ppu.nmi_pending = 0
      /\ r.ppu.nmi_pending = 1 =>
           /\ ppu.nmi_pending = 1
           /\ \/ r.ppu.stepcounter = (ppu.stepcounter + 1) % 3 /\ ppu.stepcounter # 2
              \/ DotSkipped(ppu)
  <2>1. CASE r = Now /\ DotSkipped(ppu)
    <3>1. r.frame = frame /\ r.ppu = ppu
      BY <1>1, <2>1
    <3> QED BY <1>5, <2>1, <3>1
  <2>2. CASE Ran(Now, r)
    <3>1. /\ r.frame.nmis + r.ppu.nmi_pending + frame.enables
               <= frame.nmis + ppu.nmi_pending + r.frame.enables
          /\ r.frame.nmis \in Nat /\ r.frame.enables \in Nat /\ r.ppu.nmi_pending \in {0, 1}
      BY <1>1, <2>2, RanCounts
    <3>2. NmiRests(Now, r) \/ NmiRaised(Now, r)
      BY <1>1, <1>2, <2>2 DEF Ran, NmiUnleashed
    <3>3. r.ppu.stepcounter = (ppu.stepcounter + 1) % 3
      BY <1>1, <2>2 DEF Ran
    <3>4. CASE NmiRests(Now, r)
      BY <1>1, <3>1, <3>3, <3>4 DEF NmiRests
    <3>5. CASE NmiRaised(Now, r)
      BY <1>1, <3>1, <3>3, <3>5 DEF NmiRaised
    <3> QED BY <3>2, <3>4, <3>5
  <2> QED BY <2>1, <2>2 DEF Quietly, RanOrSkipped
<1>7. loop' # "out" /\ loop' # "vbl" /\ loop # "out" /\ loop # "vbl"
      /\ (loop \in {"active", "pre"} <=> loop' \in {"active", "pre"})
      /\ (loop \in {"out", "dead"} <=> loop' \in {"out", "dead"})
  OBVIOUS
<1>8. ~OwnDue' /\ ~OwnDue
  BY <1>7 DEF OwnDue
<1>9. FlagDown' /\ Untouched' /\ Aligned' /\ NmiStep /\ LengthStep
  BY <1>3, <1>4, <1>5, <1>6, <1>7, <1>8
    DEF FlagDown, Untouched, Aligned, NmiStep, LengthStep
<1>10. Alternates'
  BY <1>4, <1>7 DEF Alternates, IInv, Inside
<1>11. Accounts'
  <2>1. Accounts
    BY DEF IInv, Inside
  <2>2. CASE frame.flagged
    <3>1. frame.nmis + ppu.nmi_pending
            <= frame.enables + IF loop \in {"out", "dead"} THEN 0 ELSE 1
      BY <1>8, <2>1, <2>2 DEF Accounts
    <3>2. r.frame.nmis + r.ppu.nmi_pending
            <= r.frame.enables + IF loop \in {"out", "dead"} THEN 0 ELSE 1
      BY <1>5, <1>6, <3>1
    <3> QED BY <1>4, <1>7, <1>8, <2>2, <3>2 DEF Accounts
  <2>3. CASE ~frame.flagged
    BY <1>3, <1>4, <1>5, <1>6, <1>7, <2>1, <2>3 DEF Accounts
  <2> QED BY <2>2, <2>3
<1> QED BY <1>4, <1>6, <1>9, <1>10, <1>11

\* A turn of the loop of the visible lines.
ActiveGoes(r) ==
  /\ Quietly(r) /\ ~ppu'.do_vbl
  /\ \/ /\ ppu.cycle < LineDots - 1 /\ frame'.dots = frame.dots + 1
        /\ loop' = "active" /\ ppu'.cycle = ppu.cycle + 1 /\ ppu'.sl = ppu.sl
        /\ ppu'.do_active_sl /\ ~ppu'.do_pre_vbl
     \/ /\ ppu.cycle = LineDots - 1
        /\ \/ ~DotSkipped(ppu) /\ frame'.dots = frame.dots + 1
           \/ DotSkipped(ppu) /\ frame'.dots = frame.dots
        /\ ppu'.cycle = 0 /\ ppu'.sl = ppu.sl + 1
        /\ IF ppu.sl + 1 = ActiveLines
           THEN loop' = "pre" /\ ~ppu'.do_active_sl /\ ppu'.do_pre_vbl
           ELSE loop' = "active" /\ ppu'.do_active_sl /\ ~ppu'.do_pre_vbl

\* So it goes.
LEMMA ActiveTurnGoes ==
  ASSUME TypeOK, InLoop, ActiveTurn
  PROVE  \E r : ActiveGoes(r)
<1>1. PICK op \in CpuOps : Turned("active", TickActive(Now, op))
  BY TurnsAre
<1> DEFINE t == TickActive(Now, op)
<1>2. IF Now.ppu.cycle < LineDots - 1 THEN Ran(Now, t)
      ELSE IF DotSkipped(Now.ppu) THEN ActiveLineEnds(Now, t)
      ELSE \E r : Ran(Now, r) /\ ActiveLineEnds(r, t)
  BY StartTypes, ActiveDot
<1> HIDE DEF t
<1>3. /\ ppu' = t.ppu /\ nmi' = t.nmi /\ resets' = resets
      /\ loop' = EnterFrom("active", t.ppu) /\ (loop' # "out" => frame' = t.frame)
  BY <1>1 DEF Turned, t
<1>4. /\ InActive /\ Now \in Mid /\ Now.ppu = ppu /\ Now.frame = frame
      /\ ~ppu.clear_pending /\ ~ppu.active_pending
      /\ ppu.cycle \in 0..(LineDots - 1) /\ LineDots \in Nat
      /\ ~ppu.do_vbl /\ ppu.do_active_sl /\ ~ppu.do_pre_vbl /\ ppu.ppudead = 0
  <2>1. loop = "active"
    BY <1>1 DEF Turned
  <2> QED BY <2>1, StartTypes, Geometry DEF InLoop, InActive
<1>5. ASSUME NEW r, Ran(Now, r)
      PROVE  /\ r \in Mid /\ r.ppu.cycle = ppu.cycle + 1 /\ r.ppu.sl = ppu.sl
             /\ r.ppu.do_vbl = ppu.do_vbl /\ r.ppu.do_active_sl = ppu.do_active_sl
             /\ r.ppu.do_pre_vbl = ppu.do_pre_vbl /\ r.ppu.ppudead = ppu.ppudead
             /\ ~r.ppu.active_pending /\ ~r.ppu.clear_pending
             /\ r.ppu.idleSynch = ppu.idleSynch /\ (r.ppu.vblank => ppu.vblank)
             /\ r.frame.last = frame.last /\ r.frame.flagged = frame.flagged
             /\ r.frame.dots = frame.dots + 1
  BY <1>4, <1>5 DEF Ran, Steered, Steady
<1>6. CASE ppu.cycle < LineDots - 1
  <2>1. Ran(Now, t)
    BY <1>2, <1>4, <1>6
  <2>2. loop' = "active" /\ frame' = t.frame
    BY <1>3, <1>4, <1>5, <2>1 DEF EnterFrom
  <2>3. t.ppu \in PpuType /\ t.frame \in FrameType /\ t.nmi \in BOOLEAN
    BY <1>5, <2>1 DEF Mid
  <2>4. CarriedOver(t)
    BY <1>3, <2>2, <2>3 DEF CarriedOver
  <2>5. Quietly(t)
    BY <1>3, <1>5, <2>1, <2>2, <2>4 DEF Quietly, RanOrSkipped
  <2>6. ActiveGoes(t)
    BY <1>3, <1>4, <1>5, <1>6, <2>1, <2>2, <2>5 DEF ActiveGoes
  <2> QED BY <2>6
<1>7. ASSUME ~(ppu.cycle < LineDots - 1), NEW r, RanOrSkipped(r),
             DotSkipped(ppu) => r = Now, ActiveLineEnds(r, t)
      PROVE  ActiveGoes(r)
  <2>1. ppu.cycle = LineDots - 1
    BY <1>4, <1>7
  <2>2. /\ r \in Mid /\ r.ppu.sl = ppu.sl
        /\ r.ppu.do_vbl = ppu.do_vbl /\ r.ppu.ppudead = ppu.ppudead
        /\ ~r.ppu.active_pending /\ ~r.ppu.clear_pending
        /\ r.ppu.idleSynch = ppu.idleSynch /\ (r.ppu.vblank => ppu.vblank)
        /\ r.frame.last = frame.last /\ r.frame.flagged = frame.flagged
        /\ \/ ~DotSkipped(ppu) /\ r.frame.dots = frame.dots + 1
           \/ DotSkipped(ppu) /\ r.frame.dots = frame.dots
    <3>1. CASE r = Now /\ DotSkipped(ppu)
      BY <1>4, <3>1
    <3>2. CASE Ran(Now, r) /\ ~DotSkipped(ppu)
      <4>1. Ran(Now, r)
        BY <3>2
      <4> QED BY <1>5, <3>2, <4>1
    <3> QED BY <1>7, <3>1, <3>2 DEF RanOrSkipped
  <2>3. loop' # "out" /\ loop' = IF ppu.sl + 1 = ActiveLines THEN "pre" ELSE "active"
    BY <1>3, <1>7, <2>2 DEF ActiveLineEnds, EnterFrom
  <2>4. frame' = t.frame
    BY <1>3, <2>3
  <2>5. t.ppu \in PpuType /\ t.frame \in FrameType /\ t.nmi \in BOOLEAN
    BY <1>7 DEF ActiveLineEnds, Carried, Mid
  <2>6. CarriedOver(r)
    BY <1>3, <1>7, <2>4, <2>5 DEF CarriedOver, ActiveLineEnds, Carried
  <2>7. /\ frame'.last = frame.last /\ frame'.flagged = frame.flagged
        /\ ~ppu'.active_pending /\ ~ppu'.clear_pending
        /\ ppu'.ppudead = ppu.ppudead /\ ppu'.do_vbl = ppu.do_vbl
        /\ ppu'.idleSynch = ppu.idleSynch
        /\ ppu'.vblank => ppu.vblank
    BY <1>3, <1>7, <2>2, <2>4 DEF ActiveLineEnds, Carried
  <2>8. frame'.dots = r.frame.dots
    BY <2>6 DEF CarriedOver
  <2>9. Quietly(r)
    BY <1>7, <2>2, <2>6, <2>7, <2>8 DEF Quietly
  <2>10. /\ ppu'.cycle = 0 /\ ppu'.sl = ppu.sl + 1
         /\ IF ppu.sl + 1 = ActiveLines THEN ~ppu'.do_active_sl /\ ppu'.do_pre_vbl
            ELSE ppu'.do_active_sl /\ ~ppu'.do_pre_vbl
    BY <1>3, <1>7, <2>2 DEF ActiveLineEnds
  <2> QED BY <1>4, <2>1, <2>2, <2>3, <2>7, <2>8, <2>9, <2>10 DEF ActiveGoes
<1>8. CASE ~(ppu.cycle < LineDots - 1)
  <2>1. CASE DotSkipped(ppu)
    <3>1. ActiveLineEnds(Now, t)
      BY <1>2, <1>4, <1>8, <2>1
    <3> QED BY <1>7, <1>8, <2>1, <3>1 DEF RanOrSkipped
  <2>2. CASE ~DotSkipped(ppu)
    <3>1. PICK r : Ran(Now, r) /\ ActiveLineEnds(r, t)
      BY <1>2, <1>4, <1>8, <2>2
    <3> QED BY <1>7, <1>8, <2>2, <3>1 DEF RanOrSkipped
  <2> QED BY <2>1, <2>2
<1> QED BY <1>6, <1>8

\* A dot of the visible lines keeps the invariant.
LEMMA ActiveTurnKeeps ==
  ASSUME IInv, ActiveTurn
  PROVE  IInv' /\ LengthStep /\ NmiStep
<1>1. loop = "active"
  BY DEF ActiveTurn, Turn
<1>2. PICK r : ActiveGoes(r)
  BY ActiveTurnGoes DEF IInv, Inside
<1>3. loop' \in {"active", "pre"} /\ Quietly(r) /\ CarriedOver(r)
  BY <1>2 DEF ActiveGoes, Quietly
<1>4. /\ FlagDown' /\ Accounts' /\ Untouched' /\ Aligned' /\ Alternates'
      /\ NmiStep /\ LengthStep
      /\ ppu'.nmi_pending \in {0, 1}
      /\ ppu'.nmi_pending = 1 =>
           /\ ppu.nmi_pending = 1
           /\ \/ ppu'.stepcounter = (ppu.stepcounter + 1) % 3 /\ ppu.stepcounter # 2
              \/ DotSkipped(ppu)
  BY <1>1, <1>3, QuietKeeps
<1>5. /\ ppu.cycle \in Nat /\ ppu.sl \in 0..LastLine /\ ppu.stepcounter \in {0, 1, 2}
      /\ frame.dots \in 0..FullDots
      /\ LineDots \in Nat /\ LineDots > 6 /\ LastLine \in Nat /\ VblLine \in Nat
      /\ ActiveLines \in Nat /\ ActiveLines > 0 /\ ActiveLines < VblLine
      /\ PostLines \in Nat /\ PostLines > 0 /\ LastLine = VblLine + PostLines - 1
      /\ FullDots \in Nat
  BY Numbers DEF IInv
<1>6. /\ ppu.sl \in 0..(ActiveLines - 1) /\ ppu.cycle \in 0..(LineDots - 1)
      /\ DotsDone /\ ppu.ppudead = 0
  BY <1>1 DEF IInv, Inside, InLoop, InActive
<1>7. /\ ppu' \in PpuType /\ frame' \in FrameType /\ nmi' \in BOOLEAN /\ resets' = resets
      /\ ~ppu'.active_pending /\ ~ppu'.clear_pending /\ ppu'.ppudead = 0 /\ ~ppu'.do_vbl
      /\ ppu'.idleSynch = ppu.idleSynch
  BY <1>2, <1>3, <1>6 DEF ActiveGoes, Quietly, CarriedOver
<1>8. resets' \in 0..MaxResets
  BY <1>7 DEF IInv, TypeOK
<1> DEFINE n == ppu.sl + PostLines
<1>9. n \in 0..LastLine /\ n \in Nat
  BY <1>5, <1>6
<1>10. Lines(n) \in Nat /\ Lines(n + 1) = Lines(n) + LineDots /\ Lines(n) + LineDots <= FullDots
  BY <1>9, LinesAre
<1>11. \/ frame.dots = Lines(n) + ppu.cycle
       \/ Chopped /\ frame.dots = Lines(n) + ppu.cycle - 1
  BY <1>6 DEF DotsDone
<1>12. ppu'.sl <= LastLine
  BY <1>2, <1>5, <1>6 DEF ActiveGoes
<1>13. CASE /\ ppu.cycle < LineDots - 1 /\ frame'.dots = frame.dots + 1
            /\ loop' = "active" /\ ppu'.cycle = ppu.cycle + 1 /\ ppu'.sl = ppu.sl
            /\ ppu'.do_active_sl /\ ~ppu'.do_pre_vbl
  <2>1. Chopped' <=> Chopped
    BY <1>7, <1>13 DEF Chopped
  <2>2. frame'.dots <= FullDots /\ ppu'.cycle \in 0..(LineDots - 1)
        /\ ppu'.sl \in 0..(ActiveLines - 1)
    BY <1>5, <1>6, <1>10, <1>11, <1>13
  <2>3. DotsDone'
    BY <1>5, <1>6, <1>10, <1>11, <1>13, <2>1 DEF DotsDone
  <2>4. TypeOK'
    BY <1>4, <1>7, <1>8, <1>12, <1>13, <2>2, EndTypes
  <2>5. InLoop'
    BY <1>7, <1>13, <2>2, <2>3 DEF InLoop, InActive
  <2>6. PendingSoon'
    <3>1. ~DotSkipped(ppu)
      BY <1>5, <1>13 DEF DotSkipped
    <3>2. ASSUME ppu'.nmi_pending = 1
          PROVE  loop' = "active" /\ ppu'.sl = 0 /\ ppu'.cycle <= ppu'.stepcounter
      <4>1. ppu.nmi_pending = 1 /\ ppu'.stepcounter = (ppu.stepcounter + 1) % 3
            /\ ppu.stepcounter # 2
        BY <1>4, <3>1, <3>2
      <4>2. ppu.sl = 0 /\ ppu.cycle <= ppu.stepcounter
        BY <1>1, <4>1 DEF IInv, Inside, PendingSoon
      <4>3. ppu'.stepcounter = ppu.stepcounter + 1
        BY <1>5, <4>1
      <4> QED BY <1>5, <1>13, <4>2, <4>3
    <3> QED BY <3>2 DEF PendingSoon
  <2> QED BY <1>4, <2>4, <2>5, <2>6 DEF IInv, Inside
<1>14. CASE /\ ppu.cycle = LineDots - 1
            /\ \/ ~DotSkipped(ppu) /\ frame'.dots = frame.dots + 1
               \/ DotSkipped(ppu) /\ frame'.dots = frame.dots
            /\ ppu'.cycle = 0 /\ ppu'.sl = ppu.sl + 1
            /\ IF ppu.sl + 1 = ActiveLines
               THEN loop' = "pre" /\ ~ppu'.do_active_sl /\ ppu'.do_pre_vbl
               ELSE loop' = "active" /\ ppu'.do_active_sl /\ ~ppu'.do_pre_vbl
  <2>1. ppu'.sl + PostLines = n + 1 /\ ppu'.sl > 0 /\ ppu'.cycle \in 0..(LineDots - 1)
    BY <1>5, <1>6, <1>14
  <2>2. Chopped => Chopped'
    BY <1>7, <2>1 DEF Chopped
  <2>3. DotSkipped(ppu) => Chopped' /\ ~Chopped
    BY <1>5, <1>7, <2>1 DEF Chopped, DotSkipped
  <2>4. /\ frame'.dots <= FullDots
        /\ \/ frame'.dots = Lines(n + 1)
           \/ Chopped' /\ frame'.dots = Lines(n + 1) - 1
    <3>1. CASE DotSkipped(ppu)
      BY <1>5, <1>10, <1>11, <1>14, <2>3, <3>1
    <3>2. CASE ~DotSkipped(ppu)
      BY <1>5, <1>10, <1>11, <1>14, <2>2, <3>2
    <3> QED BY <3>1, <3>2
  <2>5. DotsDone'
    <3>1. Lines(ppu'.sl + PostLines) = Lines(n + 1) /\ Lines(n + 1) \in Nat
      BY <1>5, <1>10, <2>1
    <3> QED BY <1>14, <2>4, <3>1 DEF DotsDone
  <2>6. TypeOK'
    BY <1>4, <1>7, <1>8, <1>12, <1>14, <2>4, EndTypes
  <2>7. InLoop'
    <3>1. CASE ppu.sl + 1 = ActiveLines
      <4>1. loop' = "pre" /\ ppu'.sl \in ActiveLines..(VblLine - 1)
        BY <1>5, <1>14, <3>1
      <4> QED BY <1>7, <1>14, <2>1, <2>5, <3>1, <4>1 DEF InLoop, InPre
    <3>2. CASE ppu.sl + 1 # ActiveLines
      <4>1. loop' = "active" /\ ppu'.sl \in 0..(ActiveLines - 1)
        BY <1>5, <1>6, <1>14, <3>2
      <4> QED BY <1>7, <1>14, <2>1, <2>5, <3>2, <4>1 DEF InLoop, InActive
    <3> QED BY <3>1, <3>2
  <2>8. PendingSoon'
    <3>1. ppu.nmi_pending # 1
      <4>1. ~(ppu.cycle <= ppu.stepcounter)
        BY <1>5, <1>14
      <4> QED BY <1>1, <4>1 DEF IInv, Inside, PendingSoon
    <3> QED BY <1>4, <3>1 DEF PendingSoon
  <2> QED BY <1>4, <2>6, <2>7, <2>8 DEF IInv, Inside
<1> QED BY <1>2, <1>13, <1>14 DEF ActiveGoes

-----------------------------------------------------------------------------
\* The turn that ends a frame and starts its vblank.
LEMMA FrameEndsWell ==
  ASSUME IInv, NEW t, NEW q, NEW r, Turned(loop, t), Soon(Now, q), Ran(q, r),
         VblankStarts(r, t), ~t.ppu.do_pre_vbl, t.ppu.ppudead = 0,
         loop \in {"pre", "dead"}, ~ppu.do_active_sl,
         frame.dots + 1 \in {DeadDots, FullDots - 1, FullDots},
         frame.dots + 1 = FullDots - 1 => ppu.idleSynch
  PROVE  IInv' /\ NmiStep /\ loop' = "out" /\ frame'.last = frame.dots + 1
<1>1. /\ ~ppu.vblank /\ ppu.nmi_pending # 1 /\ ~ppu.clear_pending
      /\ Now.ppu = ppu /\ Now.frame = frame
  <2>1. loop = "dead" => ppu.ppudead = 1
    BY DEF IInv, Inside, InLoop, InDead
  <2>2. ~ppu.vblank /\ ppu.nmi_pending # 1
    BY <2>1 DEF IInv, Inside, FlagDown, PendingSoon
  <2> QED BY <2>2, StartTypes DEF IInv
<1>2. /\ ppu.nmi_pending \in {0, 1} /\ frame.nmis \in Nat /\ ppu.stepcounter \in {0, 1, 2}
      /\ LineDots \in Nat /\ VblLine \in Nat /\ VblLine <= LastLine /\ LastLine \in Nat
      /\ FullDots \in Nat /\ DeadDots \in Nat /\ DeadDots <= FullDots
      /\ frame.dots \in Nat
  BY Numbers DEF IInv
<1>3. /\ q \in Mid /\ q.ppu.nmi_pending = 0 /\ ~q.ppu.vblank /\ ~q.ppu.clear_pending
      /\ q.frame.nmis = 0 /\ q.frame.enables = 0 /\ ~q.frame.touched
      /\ q.ppu.active_pending /\ q.frame.dots = frame.dots
      /\ q.ppu.do_active_sl = ppu.do_active_sl /\ q.ppu.idleSynch = ppu.idleSynch
  BY <1>1, <1>2 DEF Soon, Steered
<1>4. NmiRests(q, r)
  BY <1>3 DEF Ran, NmiUnleashed, NmiRaised
<1>5. /\ r.ppu.nmi_pending = 0 /\ r.frame.nmis = 0 /\ r.frame.enables = 0
      /\ ~r.ppu.vblank /\ ~r.ppu.clear_pending /\ ~r.ppu.do_active_sl
      /\ r.frame.dots = frame.dots + 1 /\ r.ppu.idleSynch = ppu.idleSynch
      /\ r.frame.touched \/ r.ppu.active_pending
  BY <1>3, <1>4 DEF NmiRests, Ran, Steered, Seen
<1>6. /\ t \in Mid /\ t.ppu.nmi_pending = 0 /\ t.frame.nmis = 0 /\ t.frame.enables = 0
      /\ t.frame.dots = frame.dots + 1 /\ t.ppu.idleSynch = ppu.idleSynch
      /\ ~t.ppu.clear_pending /\ ~t.ppu.active_pending /\ ~t.ppu.do_active_sl
      /\ t.ppu.do_vbl /\ t.ppu.cycle = 0 /\ t.ppu.sl = VblLine
      /\ (t.frame.flagged <=> t.ppu.vblank)
      /\ t.frame.touched \/ t.frame.flagged
  BY <1>5 DEF VblankStarts, Carried
<1>7. ppu' = t.ppu /\ nmi' = t.nmi /\ resets' = resets /\ loop' = "out"
  <2>1. ppu' = t.ppu /\ nmi' = t.nmi /\ resets' = resets /\ loop' = EnterFrom(loop, t.ppu)
    BY DEF Turned
  <2>2. EnterFrom(loop, t.ppu) = "out"
    BY <1>6 DEF EnterFrom
  <2> QED BY <2>1, <2>2
<1> DEFINE l == t.frame.dots
<1>8. t.ppu \in PpuType /\ t.nmi \in BOOLEAN /\ t.frame \in FrameType
      /\ l \in {DeadDots, FullDots - 1, FullDots} /\ l = frame.dots + 1
  BY <1>6 DEF Mid
<1>9. frame' = [t.frame EXCEPT !.last = l]
  BY <1>7 DEF Turned
<1> HIDE DEF l
<1>10. /\ frame' \in FrameType /\ frame'.last = l /\ frame'.dots = t.frame.dots
       /\ frame'.nmis = t.frame.nmis /\ frame'.enables = t.frame.enables
       /\ frame'.touched = t.frame.touched /\ frame'.flagged = t.frame.flagged
  BY <1>8, <1>9 DEF FrameType
<1>11. TypeOK'
  <2>1. frame'.dots <= FullDots /\ ppu'.sl <= LastLine
    BY <1>2, <1>6, <1>7, <1>8, <1>10
  <2>2. resets' \in 0..MaxResets
    BY <1>7 DEF IInv, TypeOK
  <2> QED BY <1>6, <1>7, <1>8, <1>10, <2>1, <2>2, EndTypes
<1>12. InLoop' /\ FlagDown' /\ PendingSoon' /\ Aligned'
  BY <1>6, <1>7 DEF InLoop, InHost, FlagDown, PendingSoon, Aligned, OwnDue
<1>13. Accounts'
  BY <1>6, <1>7, <1>10 DEF Accounts, OwnDue
<1>14. Untouched'
  BY <1>6, <1>7, <1>10 DEF Untouched, OwnDue
<1>15. Alternates'
  BY <1>6, <1>7, <1>8, <1>10 DEF Alternates
<1>16. NmiStep
  BY <1>2, <1>6, <1>10 DEF NmiStep
<1> QED BY <1>7, <1>8, <1>10, <1>11, <1>12, <1>13, <1>14, <1>15, <1>16 DEF IInv, Inside

\* A dead frame is shorter than any other, by more than the skipped dot.
LEMMA DeadFrameIsShort == DeadDots # FullDots - 1
<1>1. /\ LineDots \in Nat /\ LineDots > 6 /\ ActiveLines \in Nat
      /\ LastLine \in Nat /\ LastLine >= ActiveLines
      /\ FullDots = (LastLine + 1) * LineDots
  BY Geometry
<1>2. StartUpOffset \in Nat
  BY GeometryAssumption
<1> DEFINE m == LastLine - ActiveLines
           a == ActiveLines * LineDots
           b == m * LineDots
<1>3. m \in Nat /\ LastLine + 1 = ActiveLines + m + 1
  BY <1>1
<1>4. (ActiveLines + m + 1) * LineDots = ActiveLines * LineDots + m * LineDots + LineDots
  BY <1>1, <1>3
<1>5. a \in Nat /\ b \in Nat /\ FullDots = a + b + LineDots
  BY <1>1, <1>3, <1>4
<1>6. DeadDots = a - StartUpOffset
  BY DEF DeadDots
<1> HIDE DEF a, b
<1> QED BY <1>1, <1>2, <1>5, <1>6

\* A dot of the lines before the vblank keeps the invariant.
LEMMA PreTurnKeeps ==
  ASSUME IInv, PreTurn
  PROVE  IInv' /\ LengthStep /\ NmiStep
<1>1. PICK op \in CpuOps : Turned("pre", TickPre(Now, op))
  BY TurnsAre
<1> DEFINE t == TickPre(Now, op)
<1>2. /\ Now \in Mid /\ Now.ppu = ppu /\ Now.frame = frame
      /\ ~ppu.clear_pending /\ ~ppu.active_pending /\ loop = "pre"
  BY <1>1, StartTypes DEF Turned, IInv
<1>3. IF ppu.cycle = LineDots - 1 /\ ppu.sl = VblLine - 1
      THEN \E q, r : /\ Soon(Now, q) /\ Ran(q, r) /\ VblankStarts(r, t)
                     /\ ~t.ppu.do_pre_vbl /\ t.ppu.ppudead = r.ppu.ppudead
      ELSE \E r : Ran(Now, r) /\ IF r.ppu.cycle = LineDots THEN PreLineEnds(r, t) ELSE t = r
  BY <1>2, StartTypes, PreDot DEF IInv
<1> HIDE DEF t
<1>4. /\ ppu.cycle \in Nat /\ ppu.sl \in 0..LastLine /\ ppu.stepcounter \in {0, 1, 2}
      /\ frame.dots \in 0..FullDots /\ ppu.nmi_pending \in {0, 1}
      /\ LineDots \in Nat /\ LineDots > 6 /\ LastLine \in Nat /\ VblLine \in Nat
      /\ ActiveLines \in Nat /\ ActiveLines > 0 /\ ActiveLines < VblLine
      /\ PostLines \in Nat /\ PostLines > 0 /\ LastLine = VblLine + PostLines - 1
      /\ FullDots \in Nat
  BY Numbers DEF IInv
<1>5. /\ ~ppu.do_vbl /\ ~ppu.do_active_sl /\ ppu.do_pre_vbl /\ ppu.ppudead = 0
      /\ ppu.sl \in ActiveLines..(VblLine - 1) /\ ppu.cycle \in 0..(LineDots - 1)
      /\ DotsDone
  BY <1>2 DEF IInv, Inside, InLoop, InPre
<1> DEFINE n == ppu.sl + PostLines
<1>6. n \in 0..LastLine /\ n \in Nat
  BY <1>4, <1>5
<1>7. Lines(n) \in Nat /\ Lines(n + 1) = Lines(n) + LineDots /\ Lines(n) + LineDots <= FullDots
  BY <1>6, LinesAre
<1>8. \/ frame.dots = Lines(n) + ppu.cycle
      \/ Chopped /\ frame.dots = Lines(n) + ppu.cycle - 1
  BY <1>5 DEF DotsDone
<1>9. CASE ppu.cycle = LineDots - 1 /\ ppu.sl = VblLine - 1
  <2>1. PICK q, r : /\ Soon(Now, q) /\ Ran(q, r) /\ VblankStarts(r, t)
                    /\ ~t.ppu.do_pre_vbl /\ t.ppu.ppudead = r.ppu.ppudead
    BY <1>3, <1>9
  <2>2. t.ppu.ppudead = 0
    BY <1>2, <1>5, <2>1 DEF Soon, Ran, Steered
  <2>3. n + 1 = LastLine + 1
    BY <1>4, <1>9
  <2>4. Lines(n + 1) = FullDots
    BY <2>3, LinesAre
  <2>5. \/ frame.dots + 1 = FullDots
        \/ Chopped /\ frame.dots + 1 = FullDots - 1
    BY <1>4, <1>7, <1>8, <1>9, <2>4
  <2>6. /\ frame.dots + 1 \in {DeadDots, FullDots - 1, FullDots}
        /\ frame.dots + 1 = FullDots - 1 => ppu.idleSynch
    BY <1>4, <2>5 DEF Chopped
  <2>7. Turned(loop, t)
    BY <1>1, <1>2 DEF t
  <2>8. IInv' /\ NmiStep /\ loop' = "out" /\ frame'.last = frame.dots + 1
    BY <1>2, <1>5, <2>1, <2>2, <2>6, <2>7, FrameEndsWell
  <2>9. LengthStep
    <3>1. CASE frame.dots + 1 = FullDots
      BY <1>2, <2>8, <3>1 DEF LengthStep
    <3>2. CASE Chopped /\ frame.dots + 1 = FullDots - 1
      <4>1. ppu.idleSynch /\ ChopDot
        BY <3>2 DEF Chopped
      <4>2. frame.last # FullDots - 1
        BY <1>2, <4>1 DEF IInv, Inside, Alternates
      <4> QED BY <1>2, <2>8, <3>2, <4>1, <4>2 DEF LengthStep
    <3> QED BY <2>5, <3>1, <3>2
  <2> QED BY <2>8, <2>9
<1>10. CASE ~(ppu.cycle = LineDots - 1 /\ ppu.sl = VblLine - 1)
  <2>1. PICK r : Ran(Now, r) /\ IF r.ppu.cycle = LineDots THEN PreLineEnds(r, t) ELSE t = r
    BY <1>3, <1>10
  <2>2. /\ r \in Mid /\ r.ppu.cycle = ppu.cycle + 1 /\ r.ppu.sl = ppu.sl
        /\ ~r.ppu.do_vbl /\ ~r.ppu.do_active_sl
        /\ r.ppu.do_pre_vbl /\ r.ppu.ppudead = 0
        /\ ~r.ppu.active_pending /\ ~r.ppu.clear_pending
        /\ r.ppu.idleSynch = ppu.idleSynch /\ (r.ppu.vblank => ppu.vblank)
        /\ r.frame.last = frame.last /\ r.frame.flagged = frame.flagged
        /\ r.frame.dots = frame.dots + 1 /\ r.ppu.do_vbl = ppu.do_vbl
    BY <1>2, <1>5, <2>1 DEF Ran, Steered, Steady
  <2>3. /\ t \in Mid /\ Carried(r, t) /\ t.frame.flagged = frame.flagged
        /\ ~t.ppu.do_vbl /\ ~t.ppu.do_active_sl /\ t.ppu.do_pre_vbl /\ t.ppu.ppudead = 0
        /\ ~t.ppu.active_pending /\ ~t.ppu.clear_pending /\ (t.ppu.vblank => ppu.vblank)
        /\ t.ppu.do_vbl = ppu.do_vbl
        /\ \/ ppu.cycle # LineDots - 1 /\ t.ppu.cycle = ppu.cycle + 1 /\ t.ppu.sl = ppu.sl
           \/ ppu.cycle = LineDots - 1 /\ t.ppu.cycle = 0 /\ t.ppu.sl = ppu.sl + 1
    <3>1. CASE r.ppu.cycle = LineDots
      <4>1. PreLineEnds(r, t) /\ ppu.cycle = LineDots - 1
        BY <1>4, <2>1, <2>2, <3>1
      <4> QED BY <2>2, <4>1 DEF PreLineEnds, Carried
    <3>2. CASE r.ppu.cycle # LineDots
      <4>1. t = r /\ ppu.cycle # LineDots - 1
        BY <1>4, <2>1, <2>2, <3>2
      <4> QED BY <2>2, <4>1 DEF Carried
    <3> QED BY <3>1, <3>2
  <2>4. /\ ppu' = t.ppu /\ nmi' = t.nmi /\ resets' = resets /\ loop' = "pre"
        /\ frame' = t.frame
    <3>1. /\ ppu' = t.ppu /\ nmi' = t.nmi /\ resets' = resets
          /\ loop' = EnterFrom("pre", t.ppu) /\ (loop' # "out" => frame' = t.frame)
      BY <1>1 DEF Turned, t
    <3>2. loop' = "pre"
      BY <2>3, <3>1 DEF EnterFrom
    <3> QED BY <3>1, <3>2
  <2>5. CarriedOver(r) /\ frame'.last = r.frame.last /\ frame'.dots = r.frame.dots
    BY <2>3, <2>4 DEF Carried, CarriedOver, Mid
  <2>6. Quietly(r)
    <3>1. ppu'.ppudead = ppu.ppudead /\ ppu'.do_vbl = ppu.do_vbl
      BY <1>5, <2>3, <2>4
    <3>2. ppu'.idleSynch = ppu.idleSynch
      BY <2>2, <2>5 DEF CarriedOver
    <3> QED BY <2>1, <2>2, <2>3, <2>4, <2>5, <3>1, <3>2 DEF Quietly, RanOrSkipped
  <2>7. /\ FlagDown' /\ Accounts' /\ Untouched' /\ Aligned' /\ Alternates'
        /\ NmiStep /\ LengthStep
        /\ ppu'.nmi_pending \in {0, 1}
        /\ ppu'.nmi_pending = 1 => ppu.nmi_pending = 1
    BY <1>2, <2>4, <2>6, QuietKeeps
  <2>8. ppu'.nmi_pending = 0
    BY <1>2, <2>7 DEF IInv, Inside, PendingSoon
  <2>9. /\ ppu'.sl \in ActiveLines..(VblLine - 1) /\ ppu'.cycle \in 0..(LineDots - 1)
        /\ ppu'.sl <= LastLine /\ frame'.dots <= FullDots
    BY <1>4, <1>5, <1>7, <1>8, <1>10, <2>2, <2>3, <2>4, <2>5
  <2>10. DotsDone'
    <3>1. Chopped => Chopped'
      <4>1. ppu'.idleSynch = ppu.idleSynch /\ ppu'.sl > 0
        BY <1>4, <2>2, <2>5, <2>9 DEF CarriedOver
      <4> QED BY <4>1 DEF Chopped
    <3>2. frame'.dots = frame.dots + 1
      BY <2>2, <2>5
    <3>3. CASE ppu.cycle # LineDots - 1 /\ t.ppu.cycle = ppu.cycle + 1 /\ t.ppu.sl = ppu.sl
      BY <1>4, <1>7, <1>8, <2>4, <3>1, <3>2, <3>3 DEF DotsDone
    <3>4. CASE ppu.cycle = LineDots - 1 /\ t.ppu.cycle = 0 /\ t.ppu.sl = ppu.sl + 1
      <4>1. ppu'.sl + PostLines = n + 1
        BY <1>4, <2>4, <3>4
      <4>2. Lines(ppu'.sl + PostLines) = Lines(n + 1) /\ ppu'.cycle = 0
        BY <2>4, <3>4, <4>1
      <4> QED BY <1>4, <1>7, <1>8, <3>1, <3>2, <3>4, <4>2 DEF DotsDone
    <3> QED BY <2>3, <3>3, <3>4
  <2>11. TypeOK'
    <3>1. resets' \in 0..MaxResets
      BY <2>4 DEF IInv, TypeOK
    <3>2. ppu' \in PpuType /\ frame' \in FrameType /\ nmi' \in BOOLEAN
      BY <2>5 DEF CarriedOver
    <3> QED BY <2>3, <2>4, <2>8, <2>9, <3>1, <3>2, EndTypes
  <2>12. InLoop'
    BY <2>3, <2>4, <2>9, <2>10 DEF InLoop, InPre
  <2>13. PendingSoon'
    BY <2>8 DEF PendingSoon
  <2> QED BY <2>7, <2>11, <2>12, <2>13 DEF IInv, Inside
<1> QED BY <1>9, <1>10

\* A dot of a dead frame keeps the invariant.
LEMMA DeadTurnKeeps ==
  ASSUME IInv, DeadTurn
  PROVE  IInv' /\ LengthStep /\ NmiStep
<1>1. PICK op \in CpuOps : Turned("dead", TickDead(Now, op))
  BY TurnsAre
<1> DEFINE t == TickDead(Now, op)
<1>2. /\ Now \in Mid /\ Now.ppu = ppu /\ Now.frame = frame
      /\ ~ppu.clear_pending /\ ~ppu.active_pending /\ loop = "dead"
  BY <1>1, StartTypes DEF Turned, IInv
<1>3. /\ ~ppu.do_active_sl /\ ~ppu.do_pre_vbl /\ ppu.ppudead = 1
      /\ ppu.sl = 0 /\ ppu.cycle \in 0..(DeadDots - 1) /\ frame.dots = ppu.cycle
  BY <1>2 DEF IInv, Inside, InLoop, InDead
<1>4. IF ppu.cycle = DeadDots - 1
      THEN \E q, r : /\ Soon(Now, q) /\ Ran(q, r) /\ VblankStarts(r, t)
                     /\ t.ppu.do_pre_vbl = r.ppu.do_pre_vbl /\ t.ppu.ppudead = 0
      ELSE Ran(Now, t)
  BY <1>2, <1>3, StartTypes, DeadDot DEF IInv
<1> HIDE DEF t
<1>5. /\ ppu.cycle \in Nat /\ ppu.nmi_pending \in {0, 1}
      /\ LastLine \in Nat /\ FullDots \in Nat /\ DeadDots \in Nat
      /\ DeadDots > 1 /\ DeadDots <= FullDots
  BY Numbers DEF IInv
<1>6. CASE ppu.cycle = DeadDots - 1
  <2>1. PICK q, r : /\ Soon(Now, q) /\ Ran(q, r) /\ VblankStarts(r, t)
                    /\ t.ppu.do_pre_vbl = r.ppu.do_pre_vbl /\ t.ppu.ppudead = 0
    BY <1>4, <1>6
  <2>2. ~t.ppu.do_pre_vbl
    BY <1>2, <1>3, <2>1 DEF Soon, Ran, Steered
  <2>3. frame.dots + 1 = DeadDots
    BY <1>3, <1>5, <1>6
  <2>4. DeadDots # FullDots - 1
    BY DeadFrameIsShort
  <2>5. Turned(loop, t)
    BY <1>1, <1>2 DEF t
  <2>6. IInv' /\ NmiStep /\ loop' = "out" /\ frame'.last = frame.dots + 1
    BY <1>2, <1>3, <2>1, <2>2, <2>3, <2>4, <2>5, FrameEndsWell
  <2> QED BY <1>2, <2>3, <2>6 DEF LengthStep
<1>7. CASE ppu.cycle # DeadDots - 1
  <2>1. Ran(Now, t)
    BY <1>4, <1>7
  <2>2. /\ t \in Mid /\ t.ppu.cycle = ppu.cycle + 1 /\ t.ppu.sl = 0
        /\ t.ppu.do_vbl = ppu.do_vbl /\ ~t.ppu.do_active_sl
        /\ ~t.ppu.do_pre_vbl /\ t.ppu.ppudead = 1
        /\ ~t.ppu.active_pending /\ ~t.ppu.clear_pending
        /\ t.ppu.idleSynch = ppu.idleSynch /\ (t.ppu.vblank => ppu.vblank)
        /\ t.frame.last = frame.last /\ t.frame.flagged = frame.flagged
        /\ t.frame.dots = frame.dots + 1
    BY <1>2, <1>3, <2>1 DEF Ran, Steered, Steady
  <2>3. /\ ppu' = t.ppu /\ nmi' = t.nmi /\ resets' = resets /\ loop' = "dead"
        /\ frame' = t.frame
    <3>1. /\ ppu' = t.ppu /\ nmi' = t.nmi /\ resets' = resets
          /\ loop' = EnterFrom("dead", t.ppu) /\ (loop' # "out" => frame' = t.frame)
      BY <1>1 DEF Turned, t
    <3>2. loop' = "dead"
      BY <2>2, <3>1 DEF EnterFrom
    <3> QED BY <3>1, <3>2
  <2>4. CarriedOver(t)
    BY <2>2, <2>3 DEF CarriedOver, Mid
  <2>5. Quietly(t)
    <3>1. ppu'.ppudead = ppu.ppudead /\ ppu'.do_vbl = ppu.do_vbl
      BY <1>3, <2>2, <2>3
    <3>2. ppu'.idleSynch = ppu.idleSynch
      BY <2>2, <2>3
    <3> QED BY <2>1, <2>2, <2>3, <2>4, <3>1, <3>2 DEF Quietly, RanOrSkipped
  <2>6. /\ FlagDown' /\ Accounts' /\ Untouched' /\ Aligned' /\ Alternates'
        /\ NmiStep /\ LengthStep
        /\ ppu'.nmi_pending \in {0, 1}
        /\ ppu'.nmi_pending = 1 => ppu.nmi_pending = 1
    BY <1>2, <2>3, <2>5, QuietKeeps
  <2>7. ppu'.nmi_pending = 0
    BY <1>2, <2>6 DEF IInv, Inside, PendingSoon
  <2>8. ppu'.cycle \in 0..(DeadDots - 1) /\ frame'.dots = ppu'.cycle
        /\ ppu'.sl <= LastLine /\ frame'.dots <= FullDots
    BY <1>3, <1>5, <1>7, <2>2, <2>3
  <2>9. TypeOK'
    <3>1. resets' \in 0..MaxResets
      BY <2>3 DEF IInv, TypeOK
    <3>2. ppu' \in PpuType /\ frame' \in FrameType /\ nmi' \in BOOLEAN
      BY <2>4 DEF CarriedOver
    <3> QED BY <2>2, <2>3, <2>7, <2>8, <3>1, <3>2, EndTypes
  <2>10. InLoop' /\ PendingSoon'
    BY <2>2, <2>3, <2>7, <2>8 DEF InLoop, InDead, PendingSoon
  <2> QED BY <2>6, <2>9, <2>10 DEF IInv, Inside
<1> QED BY <1>6, <1>7

-----------------------------------------------------------------------------
\* PPU::Reset, and what it leaves alone.
LEMMA ResetKeeps ==
  ASSUME NEW p \in PpuType
  PROVE  /\ Reset(p) \in PpuType
         /\ Reset(p).cycle = 0 /\ Reset(p).sl = 0 /\ ~Reset(p).vblank
         /\ Reset(p).ppudead = 1 /\ Reset(p).idleSynch
         /\ Reset(p).stepcounter = p.stepcounter
         /\ Reset(p).nmi_pending = p.nmi_pending /\ Reset(p).NMI_offset = p.NMI_offset
         /\ (Reset(p).do_active_sl <=> p.do_active_sl)
         /\ (Reset(p).do_pre_vbl <=> p.do_pre_vbl)
         /\ (Reset(p).active_pending <=> p.active_pending)
         /\ (Reset(p).clear_pending <=> p.clear_pending)
<1> DEFINE no == FALSE
           yes == TRUE
           a == [p EXCEPT !.cycle = 0, !.sl = 0]
           b == [a EXCEPT !.gen = no, !.show = no]
           c == [b EXCEPT !.vblank = no, !.ppudead = 1]
           d == [c EXCEPT !.idleSynch = yes]
<1>1. Reset(p) = [p EXCEPT !.cycle = 0, !.sl = 0, !.gen = no, !.show = no, !.vblank = no,
                           !.ppudead = 1, !.idleSynch = yes]
  BY DEF Reset
<1>2. no \in BOOLEAN /\ yes \in BOOLEAN /\ ~no /\ yes
  OBVIOUS
<1> HIDE DEF no, yes
<1>3. Reset(p) = d
  BY <1>1
<1>4. a \in PpuType
  BY DEF PpuType
<1>5. /\ a.cycle = 0 /\ a.sl = 0 /\ a.stepcounter = p.stepcounter
      /\ a.nmi_pending = p.nmi_pending /\ a.NMI_offset = p.NMI_offset
      /\ a.do_active_sl = p.do_active_sl /\ a.do_pre_vbl = p.do_pre_vbl
      /\ a.active_pending = p.active_pending /\ a.clear_pending = p.clear_pending
  BY DEF PpuType
<1> HIDE DEF a
<1>6. b \in PpuType
  BY <1>2, <1>4 DEF PpuType
<1>7. /\ b.cycle = 0 /\ b.sl = 0 /\ b.stepcounter = a.stepcounter
      /\ b.nmi_pending = a.nmi_pending /\ b.NMI_offset = a.NMI_offset
      /\ b.do_active_sl = a.do_active_sl /\ b.do_pre_vbl = a.do_pre_vbl
      /\ b.active_pending = a.active_pending /\ b.clear_pending = a.clear_pending
  BY <1>4, <1>5 DEF PpuType
<1> HIDE DEF b
<1>8. c \in PpuType
  BY <1>2, <1>6 DEF PpuType
<1>9. /\ c.vblank = no /\ c.ppudead = 1 /\ c.cycle = 0 /\ c.sl = 0
      /\ c.stepcounter = b.stepcounter
      /\ c.nmi_pending = b.nmi_pending /\ c.NMI_offset = b.NMI_offset
      /\ c.do_active_sl = b.do_active_sl /\ c.do_pre_vbl = b.do_pre_vbl
      /\ c.active_pending = b.active_pending /\ c.clear_pending = b.clear_pending
  BY <1>6, <1>7 DEF PpuType
<1> HIDE DEF c
<1>10. d \in PpuType
  BY <1>2, <1>8 DEF PpuType
<1>11. /\ d.idleSynch = yes /\ d.vblank = c.vblank
       /\ d.ppudead = c.ppudead /\ d.cycle = c.cycle /\ d.sl = c.sl
       /\ d.stepcounter = c.stepcounter
       /\ d.nmi_pending = c.nmi_pending /\ d.NMI_offset = c.NMI_offset
       /\ d.do_active_sl = c.do_active_sl /\ d.do_pre_vbl = c.do_pre_vbl
       /\ d.active_pending = c.active_pending /\ d.clear_pending = c.clear_pending
  BY <1>8 DEF PpuType
<1> HIDE DEF d
<1> QED BY <1>2, <1>3, <1>5, <1>7, <1>9, <1>10, <1>11

\* The host asks for a frame, with a reset before it or without.
LEMMA FrameAdvanceKeeps ==
  ASSUME IInv, NEW reset \in BOOLEAN, FrameAdvance(reset)
  PROVE  IInv' /\ LengthStep /\ NmiStep
<1>1. /\ loop = "out" /\ nmi' = nmi
      /\ ppu' = IF reset THEN Reset(ppu) ELSE ppu
      /\ loop' = IF ppu'.ppudead > 0 THEN "dead" ELSE EnterFrom("vbl", ppu')
      /\ frame' = [frame EXCEPT !.dots = 0]
      /\ resets' = IF reset THEN resets + 1 ELSE resets
      /\ reset => resets < MaxResets
  BY DEF FrameAdvance
<1>2. /\ ppu \in PpuType /\ frame \in FrameType /\ nmi \in BOOLEAN
      /\ ~ppu.active_pending /\ ~ppu.clear_pending
  BY StartTypes DEF IInv
<1>3. /\ frame' \in FrameType /\ frame'.dots = 0 /\ frame'.last = frame.last
      /\ frame'.nmis = frame.nmis /\ frame'.enables = frame.enables
      /\ frame'.touched = frame.touched /\ frame'.flagged = frame.flagged
  BY <1>1, <1>2 DEF FrameType
<1>4. /\ ~ppu.do_active_sl /\ ~ppu.do_pre_vbl /\ ppu.cycle = 0
      /\ IF ppu.ppudead = 0 THEN ppu.do_vbl /\ ppu.sl = VblLine ELSE ppu.sl = 0
      /\ ppu.ppudead = 1 => ~ppu.vblank
      /\ ppu.nmi_pending # 1
      /\ frame.last = FullDots - 1 => ppu.idleSynch
  BY <1>1 DEF IInv, Inside, InLoop, InHost, FlagDown, PendingSoon, Alternates
<1>5. /\ ppu.nmi_pending \in {0, 1} /\ ppu.ppudead \in {0, 1} /\ frame.nmis \in Nat
      /\ ppu.NMI_offset \in {0, 1, 2} /\ LineDots \in Nat /\ LineDots > 6
      /\ LastLine \in Nat /\ VblLine \in Nat /\ VblLine <= LastLine
      /\ FullDots \in Nat /\ DeadDots \in Nat /\ DeadDots > 1
  BY Numbers DEF IInv
<1>6. resets' \in 0..MaxResets
  <2>1. resets \in 0..MaxResets
    BY DEF IInv, TypeOK
  <2>2. MaxResets \in Nat
    BY GeometryAssumption
  <2> QED BY <1>1, <2>1, <2>2
<1>7. nmi' \in BOOLEAN
  BY <1>1, <1>2
<1>8. NmiStep /\ LengthStep
  BY <1>1, <1>3, <1>5 DEF NmiStep, LengthStep
<1>9. Lines(VblLine - VblLine) = 0
  BY <1>5, LinesAre
<1>10. Accounts
  BY DEF IInv, Inside
<1>11. ~OwnDue
  BY <1>1 DEF OwnDue
<1>12. ASSUME /\ ppu' \in PpuType /\ ppu'.cycle = 0 /\ ppu'.sl = 0 /\ ppu'.ppudead = 1
              /\ ~ppu'.do_active_sl /\ ~ppu'.do_pre_vbl /\ ~ppu'.vblank
              /\ ppu'.nmi_pending = 0 /\ ~ppu'.active_pending /\ ~ppu'.clear_pending
              /\ frame.last = FullDots - 1 => ppu'.idleSynch
       PROVE  IInv'
  <2>1. loop' = "dead"
    BY <1>1, <1>12
  <2>2. TypeOK'
    <3>1. ppu'.sl <= LastLine /\ frame'.dots <= FullDots /\ ppu'.nmi_pending # 2
      BY <1>3, <1>5, <1>12
    <3> QED BY <1>3, <1>6, <1>7, <1>12, <2>1, <3>1, EndTypes
  <2>3. InLoop'
    <3>1. ppu'.cycle \in 0..(DeadDots - 1)
      BY <1>5, <1>12
    <3> QED BY <1>3, <1>12, <2>1, <3>1 DEF InLoop, InDead
  <2>4. FlagDown' /\ PendingSoon' /\ Untouched' /\ Aligned' /\ Alternates'
    BY <1>3, <1>12, <2>1 DEF FlagDown, PendingSoon, Untouched, Aligned, Alternates, OwnDue
  <2>5. Accounts'
    <3>1. CASE frame.flagged
      <4>1. frame.nmis + ppu.nmi_pending <= frame.enables + 0
        BY <1>1, <1>10, <1>11, <3>1 DEF Accounts
      <4>2. frame.enables \in Nat
        BY <1>2 DEF FrameType
      <4>3. frame'.nmis + ppu'.nmi_pending <= frame'.enables + 0
        BY <1>3, <1>4, <1>5, <1>12, <4>1, <4>2
      <4> QED BY <1>3, <2>1, <3>1, <4>3 DEF Accounts
    <3>2. CASE ~frame.flagged
      BY <1>3, <1>10, <1>12, <2>1, <3>2 DEF Accounts
    <3> QED BY <3>1, <3>2
  <2> QED BY <2>2, <2>3, <2>4, <2>5 DEF IInv, Inside
<1>13. CASE reset
  <2>1. ppu' = Reset(ppu)
    BY <1>1, <1>13
  <2>2. /\ ppu' \in PpuType /\ ppu'.cycle = 0 /\ ppu'.sl = 0 /\ ppu'.ppudead = 1
        /\ ~ppu'.do_active_sl /\ ~ppu'.do_pre_vbl /\ ~ppu'.vblank
        /\ ppu'.nmi_pending = ppu.nmi_pending /\ ~ppu'.active_pending /\ ~ppu'.clear_pending
        /\ ppu'.idleSynch
    BY <1>2, <1>4, <2>1, ResetKeeps
  <2>3. ppu'.nmi_pending = 0
    BY <1>4, <1>5, <2>2
  <2> QED BY <1>8, <1>12, <2>2, <2>3
<1>14. CASE ~reset /\ ppu.ppudead = 1
  <2>1. ppu' = ppu /\ ppu.nmi_pending = 0
    BY <1>1, <1>4, <1>5, <1>14
  <2> QED BY <1>2, <1>4, <1>8, <1>12, <1>14, <2>1
<1>15. CASE ~reset /\ ppu.ppudead = 0
  <2>1. /\ ppu' = ppu /\ ppu.nmi_pending = 0 /\ ppu.do_vbl /\ ppu.sl = VblLine
    BY <1>1, <1>4, <1>5, <1>15
  <2>2. loop' = "vbl"
    BY <1>1, <1>15, <2>1 DEF EnterFrom
  <2>3. TypeOK'
    <3>1. ppu'.sl <= LastLine /\ frame'.dots <= FullDots /\ ppu'.nmi_pending # 2
      BY <1>3, <1>5, <2>1
    <3> QED BY <1>2, <1>3, <1>6, <1>7, <2>1, <2>2, <3>1, EndTypes
  <2>4. InLoop'
    <3>1. ppu'.sl \in VblLine..LastLine /\ ppu'.cycle \in 0..(LineDots - 1)
      BY <1>4, <1>5, <2>1
    <3>2. frame'.dots = Lines(ppu'.sl - VblLine) + ppu'.cycle
      BY <1>3, <1>4, <1>9, <2>1
    <3> QED BY <1>4, <1>15, <2>1, <2>2, <3>1, <3>2 DEF InLoop, InVbl
  <2>5. OwnDue' /\ FirstDot(ppu)' /\ ~(ppu'.cycle > 0)
    BY <1>4, <1>5, <2>1, <2>2 DEF OwnDue, FirstDot
  <2>6. FlagDown' /\ PendingSoon' /\ Aligned' /\ Alternates'
    BY <1>3, <1>4, <1>15, <2>1, <2>2, <2>5 DEF FlagDown, PendingSoon, Aligned, Alternates
  <2>7. Untouched'
    <3>1. ~frame.touched => ppu.vblank /\ frame.enables = 0 /\ frame.flagged
      BY <1>1, <1>15 DEF IInv, Inside, Untouched
    <3> QED BY <1>3, <2>1, <2>5, <3>1 DEF Untouched
  <2>8. Accounts'
    <3>1. CASE frame.flagged
      <4>1. frame.nmis + ppu.nmi_pending <= frame.enables + 0
        BY <1>1, <1>10, <1>11, <3>1 DEF Accounts
      <4>2. frame'.nmis + ppu'.nmi_pending <= frame'.enables + 0
        BY <1>3, <2>1, <4>1
      <4> QED BY <1>3, <2>5, <3>1, <4>2 DEF Accounts
    <3>2. CASE ~frame.flagged
      BY <1>3, <1>10, <2>1, <2>5, <3>2 DEF Accounts
    <3> QED BY <3>1, <3>2
  <2> QED BY <1>8, <2>3, <2>4, <2>6, <2>7, <2>8 DEF IInv, Inside
<1> QED BY <1>5, <1>13, <1>14, <1>15

\* Power on.
LEMMA InitKeeps == Init => IInv
<1> SUFFICES ASSUME Init PROVE IInv
  OBVIOUS
<1> DEFINE no == FALSE
           new == [cycle |-> 0, sl |-> 0, stepcounter |-> 0,
                   do_vbl |-> no, do_active_sl |-> no, do_pre_vbl |-> no,
                   ppudead |-> 0, idleSynch |-> no, evenOddDestiny |-> no,
                   vblank |-> no, active_pending |-> no, clear_pending |-> no,
                   gen |-> no, nmi_destiny |-> no, NMI_offset |-> 0, nmi_pending |-> 0,
                   show |-> no, show_new |-> no, install_2001 |-> 0]
<1>1. ppu = Reset(new) /\ nmi = FALSE /\ loop = "out" /\ frame = NewFrame /\ resets = 0
  BY DEF Init, NewPpu
<1>2. no \in BOOLEAN /\ ~no
  OBVIOUS
<1> HIDE DEF no
<1>3. new \in PpuType
  BY <1>2 DEF PpuType
<1>4. ~new.do_active_sl /\ ~new.do_pre_vbl /\ ~new.active_pending /\ ~new.clear_pending
      /\ new.nmi_pending = 0
  BY <1>2
<1> HIDE DEF new
<1>5. /\ ppu \in PpuType /\ ppu.cycle = 0 /\ ppu.sl = 0 /\ ~ppu.vblank
      /\ ppu.ppudead = 1 /\ ppu.idleSynch /\ ppu.nmi_pending = 0
      /\ ~ppu.do_active_sl /\ ~ppu.do_pre_vbl /\ ~ppu.active_pending /\ ~ppu.clear_pending
  BY <1>1, <1>3, <1>4, ResetKeeps
<1>6. /\ frame.dots = 0 /\ frame.nmis = 0 /\ frame.last = FullDots /\ ~frame.flagged
      /\ frame \in FrameType
  BY <1>1, Geometry DEF NewFrame, FrameType
<1>7. TypeOK
  <2>1. ppu.active_pending \in {FALSE} /\ ppu.clear_pending \in {FALSE}
    <3>1. ppu.active_pending \in BOOLEAN /\ ppu.clear_pending \in BOOLEAN
      BY <1>5 DEF PpuType
    <3> QED BY <1>5, <3>1, Zenon
  <2>2. /\ ppu.nmi_pending \in 0..1 /\ ppu.sl \in 0..LastLine
        /\ ppu.stepcounter \in 0..2 /\ ppu.NMI_offset \in 0..2
        /\ ppu.install_2001 \in 0..2 /\ ppu.ppudead \in 0..1
    BY <1>5, Geometry DEF PpuType
  <2>3. frame.dots \in 0..FullDots
    BY <1>6, Geometry
  <2>4. ppu \in [cycle : Nat, sl : 0..LastLine, stepcounter : 0..2,
              do_vbl : BOOLEAN, do_active_sl : BOOLEAN, do_pre_vbl : BOOLEAN,
              ppudead : 0..1, idleSynch : BOOLEAN, evenOddDestiny : BOOLEAN,
              vblank : BOOLEAN, active_pending : {FALSE}, clear_pending : {FALSE},
              gen : BOOLEAN, nmi_destiny : BOOLEAN, NMI_offset : 0..2, nmi_pending : 0..1,
              show : BOOLEAN, show_new : BOOLEAN, install_2001 : 0..2]
    BY <1>5, <2>1, <2>2 DEF PpuType
  <2>5. frame \in [dots : 0..FullDots, last : {DeadDots, FullDots - 1, FullDots},
                   flagged : BOOLEAN, nmis : Nat, enables : Nat, touched : BOOLEAN]
    BY <1>6, <2>3 DEF FrameType
  <2>6. resets \in 0..MaxResets
    BY <1>1, GeometryAssumption
  <2> QED BY <1>1, <2>4, <2>5, <2>6 DEF TypeOK
<1>8. InLoop /\ FlagDown /\ PendingSoon /\ Untouched /\ Aligned
  BY <1>1, <1>5 DEF InLoop, InHost, FlagDown, PendingSoon, Untouched, Aligned, OwnDue
<1>9. Accounts
  BY <1>1, <1>5, <1>6 DEF Accounts
<1>10. Alternates
  BY <1>1, <1>5 DEF Alternates
<1> QED BY <1>7, <1>8, <1>9, <1>10 DEF IInv, Inside

\* Nothing happens.
LEMMA StutterKeeps ==
  ASSUME IInv, UNCHANGED vars
  PROVE  IInv' /\ LengthStep /\ NmiStep
<1>1. ppu' = ppu /\ nmi' = nmi /\ loop' = loop /\ frame' = frame /\ resets' = resets
  BY DEF vars
<1>2. TypeOK'
  <2>1. /\ ppu \in PpuType /\ frame \in FrameType /\ nmi \in BOOLEAN
        /\ ~ppu.active_pending /\ ~ppu.clear_pending /\ ppu.nmi_pending # 2
        /\ frame.dots <= FullDots /\ ppu.sl <= LastLine
    BY StartTypes DEF IInv
  <2>2. resets \in 0..MaxResets /\ loop \in {"out", "dead", "vbl", "active", "pre"}
    BY DEF IInv, TypeOK
  <2> QED BY <1>1, <2>1, <2>2, EndTypes
<1>3. InLoop'
  BY <1>1 DEF InLoop, InVbl, InActive, InPre, InDead, InHost, DotsDone, Chopped, IInv, Inside
<1>4. FlagDown' /\ PendingSoon' /\ Alternates'
  BY <1>1 DEF FlagDown, PendingSoon, Alternates, IInv, Inside
<1>5. OwnDue' <=> OwnDue
  BY <1>1 DEF OwnDue
<1>6. Accounts' /\ Untouched' /\ Aligned'
  BY <1>1, <1>5 DEF Accounts, FirstDot, Untouched, Aligned, IInv, Inside
<1>7. LengthStep
  BY <1>1 DEF LengthStep
<1>8. NmiStep
  <2>1. frame.nmis \in Nat
    BY Numbers DEF IInv
  <2> QED BY <1>1, <2>1 DEF NmiStep
<1> QED BY <1>2, <1>3, <1>4, <1>6, <1>7, <1>8 DEF IInv, Inside

\* Every step keeps the invariant, and is one that the action properties allow.
LEMMA NextKeeps ==
  ASSUME IInv, [Next]_vars
  PROVE  IInv' /\ LengthStep /\ NmiStep
<1>1. ASSUME NEW reset \in BOOLEAN, FrameAdvance(reset) PROVE IInv' /\ LengthStep /\ NmiStep
  BY <1>1, FrameAdvanceKeeps
<1>2. CASE VblTurn
  BY <1>2, VblTurnKeeps
<1>3. CASE ActiveTurn
  BY <1>3, ActiveTurnKeeps
<1>4. CASE PreTurn
  BY <1>4, PreTurnKeeps
<1>5. CASE DeadTurn
  BY <1>5, DeadTurnKeeps
<1>6. CASE UNCHANGED vars
  BY <1>6, StutterKeeps
<1> QED BY <1>1, <1>2, <1>3, <1>4, <1>5, <1>6 DEF Next

\* So it holds throughout.
LEMMA Invariance == Spec => []IInv
<1>1. IInv /\ [Next]_vars => IInv'
  BY NextKeeps
<1> QED BY <1>1, InitKeeps, PTL DEF Spec

-----------------------------------------------------------------------------
\* The fields keep their types; above all, the lines end at the last one, and
\* no pending rise or fall of the flag outlives its dot.
THEOREM TypeCorrect == Spec => []TypeOK
<1>1. IInv => TypeOK
  BY DEF IInv
<1> QED BY <1>1, Invariance, PTL

\* The flag and the NMI of a vblank belong to that vblank, in any geometry of
\* the frame and whatever the program does to $2000 and $2002.
THEOREM VblanksAlwaysAccounted == Spec => []VblankAccounts
<1>1. ASSUME IInv PROVE VblankAccounts
  <2>1. loop \in {"out", "dead", "vbl", "active", "pre"}
    BY <1>1 DEF IInv, TypeOK
  <2>2. VblankWithinVbl
    <3>1. loop = "dead" => ppu.ppudead = 1
      BY <1>1 DEF IInv, Inside, InLoop, InDead
    <3> QED BY <1>1, <2>1, <3>1 DEF IInv, Inside, FlagDown, VblankWithinVbl
  <2>3. QuietAtBoundary
    <3>1. ppu.nmi_pending \in {0, 1}
      BY <1>1, Numbers DEF IInv
    <3> QED BY <1>1, <3>1 DEF IInv, Inside, InLoop, InHost, PendingSoon, QuietAtBoundary
  <2>4. NmisAccountedFor
    <3>1. /\ frame.nmis \in Nat /\ frame.enables \in Nat /\ ppu.nmi_pending \in {0, 1}
      BY <1>1, Numbers DEF IInv
    <3> QED BY <1>1, <3>1 DEF IInv, Inside, Accounts, NmisAccountedFor
  <2>5. VblankInterrupts
    <3>1. ppu.cycle \in Nat /\ ppu.NMI_offset \in {0, 1, 2}
      BY <1>1, Numbers DEF IInv
    <3>2. ppu.cycle > 3 + ppu.NMI_offset => ~OwnDue
      BY <3>1 DEF OwnDue
    <3> QED BY <1>1, <3>2 DEF IInv, Inside, Untouched, VblankInterrupts
  <2> QED BY <2>2, <2>3, <2>4, <2>5 DEF VblankAccounts
<1> QED BY <1>1, Invariance, PTL

\* A frame has all its dots, or all but the one that is skipped after a frame
\* that had them all; and a vblank's own NMI is raised right after a CPU cycle.
THEOREM DotsAlwaysKept == Spec => DotsKept
<1>1. IInv /\ [Next]_vars => [LengthStep]_vars /\ [NmiStep]_vars
  BY NextKeeps
<1>2. Spec => [][LengthStep]_vars /\ [][NmiStep]_vars
  BY <1>1, Invariance, PTL DEF Spec
<1> QED BY <1>2, PTL DEF DotsKept, FrameLength, NmiAfterCpuCycle, LengthStep, NmiStep
=============================================================================

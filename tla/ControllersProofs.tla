------------------------- MODULE ControllersProofs -------------------------
(***************************************************************************)
(* For any masks, any length of the shift register and one or two pads:    *)
(* the ports' fields keep their types, the poll the front end sees is the  *)
(* one the pads see, no strobe is lost, and a sample DMA shifts a port     *)
(* once.                                                                   *)
(***************************************************************************)
EXTENDS Controllers, TLAPS

(***************************************************************************)
(* The types within a cycle, where a fetch's read has yet to be counted.   *)
(***************************************************************************)
PadType == [resetting : BOOLEAN, latched : Masks, pos : 0..Bits]

IoType ==
  [strobe_value : 0..1, strobed : BOOLEAN, latched4016 : 0..1,
   current_strobe : BOOLEAN, lagged : BOOLEAN, double_read : -1..2,
   double_address : Ports \cup {NoPort}]

CpuType == [bus : Addresses, frozen : BOOLEAN, rdy : BOOLEAN, rmw : BOOLEAN]

DmaType == [countdown : 0..3, by_write : BOOLEAN, odd : BOOLEAN]

DidType ==
  [port : Ports \cup {NoPort}, by : {"nobody", "cpu", "twice", "halt", "fetch"}, shifts : Nat]

Mid == [pad : [Ports -> PadType], io : IoType, cpu : CpuType, dma : DmaType, did : DidType]

\* A poll, as the front end and the pads see it.
Agree(s) ==
  /\ s.io.current_strobe <=> s.io.latched4016 = 1
  /\ \A p \in Ports : Connected(p) => (s.pad[p].resetting <=> s.io.latched4016 = 1)

-----------------------------------------------------------------------------
\* A read shifts or reloads a pad and leaves its strobe alone.
LEMMA PadReadType ==
  ASSUME NEW c \in PadType, NEW m \in Masks
  PROVE  PadRead(c, m) \in PadType /\ PadRead(c, m).resetting = c.resetting
<1> DEFINE n == IF c.pos < Bits THEN c.pos + 1 ELSE Bits
<1>1. n \in 0..Bits /\ 0 \in 0..Bits
  BY ControllersAssumption DEF PadType
<1>2. PadRead(c, m) = IF c.resetting THEN [c EXCEPT !.latched = m, !.pos = 0] ELSE [c EXCEPT !.pos = n]
  BY DEF PadRead, Latch, PadType
<1> HIDE DEF n
<1> QED BY <1>1, <1>2 DEF PadType

\* A read of a port by anyone changes the port read, the double-read window and
\* the history; of the port, neither strobe nor type.
LEMMA ReadJoyportKeeps ==
  ASSUME NEW s \in Mid, NEW p \in Ports, NEW by \in {"cpu", "twice", "halt", "fetch"},
         buttons \in [Ports -> Masks]
  PROVE  /\ ReadJoyport(s, p, by) \in Mid
         /\ Agree(s) => Agree(ReadJoyport(s, p, by))
         /\ ReadJoyport(s, p, by).cpu = s.cpu
         /\ ReadJoyport(s, p, by).dma = s.dma
         /\ ReadJoyport(s, p, by).io.strobed = s.io.strobed
         /\ ReadJoyport(s, p, by).io.strobe_value = s.io.strobe_value
         /\ ReadJoyport(s, p, by).io.double_address = p
         /\ ReadJoyport(s, p, by).io.double_read = IF by = "fetch" THEN 2 ELSE 1
         /\ ReadJoyport(s, p, by).did =
              [port |-> p, by |-> by, shifts |-> s.did.shifts + Shifts(s, p)]
<1> DEFINE c == IF Repeats(s, p) \/ ~Connected(p) THEN s.pad[p] ELSE PadRead(s.pad[p], buttons[p])
           r == ReadJoyport(s, p, by)
           d == IF by = "fetch" THEN 2 ELSE 1
           h == [port |-> p, by |-> by, shifts |-> s.did.shifts + Shifts(s, p)]
<1>1. c \in PadType /\ c.resetting = s.pad[p].resetting
  BY PadReadType DEF Mid
<1>2. d \in -1..2 /\ h \in DidType
  <2>1. s.did.shifts + Shifts(s, p) \in Nat
    BY DEF Mid, DidType, Shifts
  <2> QED BY <2>1 DEF DidType
<1>3. r = [s EXCEPT !.pad = [s.pad EXCEPT ![p] = c],
                    !.io = [s.io EXCEPT !.double_address = p, !.double_read = d],
                    !.did = h]
  BY DEF ReadJoyport, Mid, IoType
<1> HIDE DEF c, r, d, h
<1>4. r \in Mid
  BY <1>1, <1>2, <1>3 DEF Mid, IoType
<1>5. /\ r.cpu = s.cpu /\ r.dma = s.dma /\ r.did = h
      /\ r.io = [s.io EXCEPT !.double_address = p, !.double_read = d]
      /\ r.pad = [s.pad EXCEPT ![p] = c]
  BY <1>3 DEF Mid
<1>6. Agree(s) => Agree(r)
  BY <1>1, <1>5 DEF Agree, Mid, IoType
<1> QED BY <1>4, <1>5, <1>6 DEF d, h, r, Mid, IoType

(***************************************************************************)
(* What a step of a cycle does to the history and the double-read window   *)
(* from s to r: a read of p, or nothing.                                   *)
(***************************************************************************)
DidRead(s, r, p, by) ==
  /\ r.did = [port |-> p, by |-> by, shifts |-> s.did.shifts + Shifts(s, p)]
  /\ r.io.double_address = p
  /\ r.io.double_read = IF by = "fetch" THEN 2 ELSE 1

\* The two reads of a cycle of LAX abs.
DidTwice(s, r, p) ==
  /\ r.did = [port |-> p, by |-> "twice", shifts |-> s.did.shifts + Shifts(s, p) + 1]
  /\ r.io.double_address = p
  /\ r.io.double_read = 1

SameStrobe(s, r) == r.io.strobed = s.io.strobed /\ r.io.strobe_value = s.io.strobe_value

\* The sample DMA's part of a cycle does nothing, or holds RDY down and reads at
\* most one port: by a halt while it goes on, by a fetch as it ends.
LEMMA DmaPartKeeps ==
  ASSUME NEW s \in Mid, NEW hit \in Ports \cup {NoPort}, NEW r, r = DmaPart(s, hit),
         buttons \in [Ports -> Masks]
  PROVE  /\ r \in Mid
         /\ Agree(s) => Agree(r)
         /\ SameStrobe(s, r)
         /\ r.cpu.bus = s.cpu.bus /\ r.cpu.frozen = s.cpu.frozen /\ r.cpu.rmw = s.cpu.rmw
         /\ r.dma.odd = s.dma.odd /\ r.dma.by_write = s.dma.by_write
         /\ s.dma.countdown = 0 => r = s
         /\ s.dma.countdown # 0 => ~r.cpu.rdy
         /\ \/ r.did = s.did /\ r.io = s.io
            \/ /\ s.dma.countdown # 0
               /\ \E p \in Ports : DidRead(s, r, p, IF r.dma.countdown = 0 THEN "fetch" ELSE "halt")
<1> DEFINE late == s.dma.countdown = 2 /\ ~s.cpu.rdy /\ ~s.cpu.frozen
           left == IF late THEN 3 ELSE s.dma.countdown - 1
           held == [s EXCEPT !.cpu.rdy = FALSE, !.dma.countdown = left]
<1>1. CASE s.dma.countdown = 0
  <2>1. r = s
    BY <1>1 DEF DmaPart
  <2> QED BY <1>1, <2>1 DEF SameStrobe
<1>2. CASE s.dma.countdown # 0
  <2>1. s.dma.countdown \in 1..3 /\ left \in 0..3
    BY <1>2 DEF Mid, DmaType
  <2>2. held = [s EXCEPT !.cpu = [s.cpu EXCEPT !.rdy = FALSE], !.dma = [s.dma EXCEPT !.countdown = left]]
    BY DEF Mid
  <2>3. r = IF left = 0 THEN FetchRead(held, hit) ELSE HaltRead(held)
    BY <1>2 DEF DmaPart
  <2> HIDE DEF left, held
  <2>4. held \in Mid
    BY <2>1, <2>2 DEF Mid, CpuType, DmaType
  <2>5. /\ held.pad = s.pad /\ held.io = s.io /\ held.did = s.did
        /\ held.cpu = [s.cpu EXCEPT !.rdy = FALSE] /\ held.dma = [s.dma EXCEPT !.countdown = left]
    BY <2>2 DEF Mid
  <2>6. \A p \in Ports : Repeats(held, p) = Repeats(s, p)
    BY <2>5 DEF Repeats
  <2>7. Agree(s) => Agree(held)
    BY <2>5 DEF Agree
  <2>8. /\ held.cpu.bus = s.cpu.bus /\ held.cpu.frozen = s.cpu.frozen /\ held.cpu.rmw = s.cpu.rmw
        /\ ~held.cpu.rdy /\ held.dma.countdown = left
        /\ held.dma.odd = s.dma.odd /\ held.dma.by_write = s.dma.by_write
    BY <2>5 DEF Mid, CpuType, DmaType
  <2>9. CASE r = held
    BY <1>2, <2>4, <2>5, <2>7, <2>8, <2>9 DEF SameStrobe
  <2>10. ASSUME NEW p \in Ports, NEW by \in {"halt", "fetch"}, r = ReadJoyport(held, p, by),
                by = IF left = 0 THEN "fetch" ELSE "halt"
         PROVE  /\ r \in Mid
                /\ Agree(s) => Agree(r)
                /\ SameStrobe(s, r) /\ r.cpu = held.cpu /\ r.dma = held.dma
                /\ DidRead(s, r, p, by)
    <3>1. by \in {"cpu", "twice", "halt", "fetch"}
      OBVIOUS
    <3>2. LET q == ReadJoyport(held, p, by) IN
          /\ q \in Mid
          /\ Agree(held) => Agree(q)
          /\ q.cpu = held.cpu /\ q.dma = held.dma
          /\ q.io.strobed = held.io.strobed /\ q.io.strobe_value = held.io.strobe_value
          /\ q.io.double_address = p
          /\ q.io.double_read = IF by = "fetch" THEN 2 ELSE 1
          /\ q.did = [port |-> p, by |-> by, shifts |-> held.did.shifts + Shifts(held, p)]
      BY <2>4, <3>1, ReadJoyportKeeps
    <3>3. /\ r \in Mid
          /\ Agree(held) => Agree(r)
          /\ SameStrobe(held, r) /\ r.cpu = held.cpu /\ r.dma = held.dma
          /\ DidRead(held, r, p, by)
      BY <2>10, <3>2 DEF SameStrobe, DidRead
    <3> QED BY <2>5, <2>6, <2>7, <3>3 DEF SameStrobe, DidRead, Shifts
  <2>13. ASSUME NEW p \in Ports, NEW by \in {"halt", "fetch"}, r = ReadJoyport(held, p, by),
                by = IF left = 0 THEN "fetch" ELSE "halt"
         PROVE  /\ DidRead(s, r, p, IF r.dma.countdown = 0 THEN "fetch" ELSE "halt")
                /\ r.cpu.bus = s.cpu.bus /\ r.cpu.frozen = s.cpu.frozen /\ r.cpu.rmw = s.cpu.rmw
                /\ r.dma.odd = s.dma.odd /\ r.dma.by_write = s.dma.by_write
                /\ ~r.cpu.rdy
    <3>1. r.cpu = held.cpu /\ r.dma = held.dma /\ DidRead(s, r, p, by)
      BY <2>10, <2>13
    <3>2. by = IF r.dma.countdown = 0 THEN "fetch" ELSE "halt"
      BY <2>8, <2>13, <3>1
    <3> QED BY <2>8, <3>1, <3>2
  <2>11. CASE left = 0 /\ s.cpu.bus # "memory" /\ hit \in Ports
    <3>1. r = ReadJoyport(held, hit, "fetch")
      BY <2>3, <2>8, <2>11 DEF FetchRead
    <3>2. "fetch" \in {"halt", "fetch"} /\ "fetch" = IF left = 0 THEN "fetch" ELSE "halt"
      BY <2>11
    <3>3. /\ r \in Mid
          /\ Agree(s) => Agree(r)
          /\ SameStrobe(s, r)
          /\ DidRead(s, r, hit, IF r.dma.countdown = 0 THEN "fetch" ELSE "halt")
          /\ r.cpu.bus = s.cpu.bus /\ r.cpu.frozen = s.cpu.frozen /\ r.cpu.rmw = s.cpu.rmw
          /\ r.dma.odd = s.dma.odd /\ r.dma.by_write = s.dma.by_write
          /\ ~r.cpu.rdy
      BY <2>10, <2>11, <2>13, <3>1, <3>2
    <3> QED BY <1>2, <2>11, <3>3
  <2>12. CASE left # 0 /\ s.cpu.bus \in Ports
    <3>1. r = ReadJoyport(held, s.cpu.bus, "halt")
      BY <2>3, <2>8, <2>12 DEF HaltRead
    <3>2. "halt" \in {"halt", "fetch"} /\ "halt" = IF left = 0 THEN "fetch" ELSE "halt"
      BY <2>12
    <3>3. /\ r \in Mid
          /\ Agree(s) => Agree(r)
          /\ SameStrobe(s, r)
          /\ DidRead(s, r, s.cpu.bus, IF r.dma.countdown = 0 THEN "fetch" ELSE "halt")
          /\ r.cpu.bus = s.cpu.bus /\ r.cpu.frozen = s.cpu.frozen /\ r.cpu.rmw = s.cpu.rmw
          /\ r.dma.odd = s.dma.odd /\ r.dma.by_write = s.dma.by_write
          /\ ~r.cpu.rdy
      BY <2>10, <2>12, <2>13, <3>1, <3>2
    <3> QED BY <1>2, <2>12, <3>3
  <2> QED BY <2>3, <2>8, <2>9, <2>11, <2>12 DEF FetchRead, HaltRead
<1> QED BY <1>1, <1>2

\* Reading twice is two reads of which the second always shifts.
LEMMA ReadTwiceKeeps ==
  ASSUME NEW s \in Mid, NEW p \in Ports, buttons \in [Ports -> Masks]
  PROVE  LET r == ReadTwice(s, p) IN
         /\ r \in Mid
         /\ Agree(s) => Agree(r)
         /\ r.cpu = s.cpu /\ r.dma = s.dma
         /\ SameStrobe(s, r)
         /\ DidTwice(s, r, p)
<1> DEFINE q == ReadJoyport(s, p, "twice")
           r == ReadJoyport(q, p, "twice")
<1>1. /\ q \in Mid
      /\ Agree(s) => Agree(q)
      /\ q.cpu = s.cpu /\ q.dma = s.dma
      /\ SameStrobe(s, q)
      /\ q.io.double_read = 1
      /\ q.did.shifts = s.did.shifts + Shifts(s, p)
  <2>1. "twice" \in {"cpu", "twice", "halt", "fetch"}
    OBVIOUS
  <2>2. q.did = [port |-> p, by |-> "twice", shifts |-> s.did.shifts + Shifts(s, p)]
    BY <2>1, ReadJoyportKeeps
  <2>3. q \in Mid /\ q.io.strobed = s.io.strobed /\ q.io.strobe_value = s.io.strobe_value
        /\ q.cpu = s.cpu /\ q.dma = s.dma /\ q.io.double_read = 1 /\ (Agree(s) => Agree(q))
    BY <2>1, ReadJoyportKeeps
  <2> HIDE DEF q
  <2> QED BY <2>2, <2>3 DEF SameStrobe
<1> HIDE DEF q
<1>2. /\ r \in Mid
      /\ Agree(q) => Agree(r)
      /\ r.cpu = q.cpu /\ r.dma = q.dma
      /\ SameStrobe(q, r)
      /\ r.io.double_address = p /\ r.io.double_read = 1
      /\ r.did = [port |-> p, by |-> "twice", shifts |-> q.did.shifts + Shifts(q, p)]
  <2>1. "twice" \in {"cpu", "twice", "halt", "fetch"}
    OBVIOUS
  <2> QED BY <1>1, <2>1, ReadJoyportKeeps DEF SameStrobe
<1>3. Shifts(q, p) = 1
  BY <1>1 DEF Shifts, Repeats
<1>4. ReadTwice(s, p) = r
  BY DEF ReadTwice, q
<1> HIDE DEF r
<1> QED BY <1>1, <1>2, <1>3, <1>4 DEF SameStrobe, DidTwice

\* The start of a DMA sets its counter, and holds RDY down at once only if it is
\* an automatic one.
LEMMA StartDmaKeeps ==
  ASSUME NEW s \in Mid, NEW start \in Starts
  PROVE  LET r == StartDma(s, start) IN
         /\ r \in Mid
         /\ r.pad = s.pad /\ r.io = s.io /\ r.did = s.did
         /\ r.cpu.bus = s.cpu.bus /\ r.cpu.frozen = s.cpu.frozen /\ r.cpu.rmw = s.cpu.rmw
         /\ r.dma.odd = s.dma.odd
         /\ ~s.cpu.rdy => ~r.cpu.rdy
         /\ start = "none" => r = s
         /\ start # "none" => r.dma.countdown = 3
         /\ start = "automatic" => ~r.cpu.rdy
         /\ start = "by write" => r.dma.by_write
<1> DEFINE r == StartDma(s, start)
<1>1. CASE start = "automatic"
  <2> DEFINE d == [s.dma EXCEPT !.countdown = 3, !.by_write = FALSE]
             c == [s.cpu EXCEPT !.rdy = FALSE]
  <2>1. r = [s EXCEPT !.dma = d, !.cpu = c]
    BY <1>1 DEF StartDma, Mid, DmaType
  <2> s.dma \in DmaType
    BY DEF Mid
  <2>2. d \in DmaType /\ d.odd = s.dma.odd /\ d.countdown = 3
    <3>1. 3 \in 0..3
      OBVIOUS
    <3> DEFINE e == [s.dma EXCEPT !.countdown = 3]
    <3>2. e \in DmaType /\ e.odd = s.dma.odd /\ e.countdown = 3
      BY <3>1 DEF DmaType
    <3>3. d = [e EXCEPT !.by_write = FALSE]
      OBVIOUS
    <3> HIDE DEF e, d
    <3> QED BY <3>2, <3>3 DEF DmaType
  <2>3. /\ c \in CpuType /\ ~c.rdy
        /\ c.bus = s.cpu.bus /\ c.frozen = s.cpu.frozen /\ c.rmw = s.cpu.rmw
    BY DEF Mid, CpuType
  <2> HIDE DEF d, c, r
  <2>4. r \in Mid /\ r.dma = d /\ r.cpu = c /\ r.pad = s.pad /\ r.io = s.io /\ r.did = s.did
    BY <2>1, <2>2, <2>3 DEF Mid
  <2> QED BY <1>1, <2>2, <2>3, <2>4 DEF r
<1>2. CASE start = "by write"
  <2> DEFINE d == [s.dma EXCEPT !.countdown = 3, !.by_write = TRUE]
  <2>1. r = [s EXCEPT !.dma = d]
    BY <1>2 DEF StartDma, Mid, DmaType
  <2> s.dma \in DmaType
    BY DEF Mid
  <2>2. d \in DmaType /\ d.odd = s.dma.odd /\ d.countdown = 3 /\ d.by_write
    <3>1. 3 \in 0..3
      OBVIOUS
    <3> DEFINE e == [s.dma EXCEPT !.countdown = 3]
    <3>2. e \in DmaType /\ e.odd = s.dma.odd /\ e.countdown = 3
      BY <3>1 DEF DmaType
    <3>3. d = [e EXCEPT !.by_write = TRUE]
      OBVIOUS
    <3> HIDE DEF e, d
    <3> QED BY <3>2, <3>3 DEF DmaType
  <2> HIDE DEF d, r
  <2>3. r \in Mid /\ r.dma = d /\ r.cpu = s.cpu /\ r.pad = s.pad /\ r.io = s.io /\ r.did = s.did
    BY <2>1, <2>2 DEF Mid
  <2> QED BY <1>2, <2>2, <2>3 DEF r
<1>3. CASE start = "none"
  BY <1>3 DEF StartDma
<1> QED BY <1>1, <1>2, <1>3 DEF Starts

\* ExecuteOne counts the double-read window down once a cycle.
LEMMA CountCycleKeeps ==
  ASSUME NEW s \in Mid
  PROVE  LET r == CountCycle(s) IN
         /\ r \in Mid /\ r.io.double_read \in -1..1
         /\ r.io = [s.io EXCEPT !.double_read = r.io.double_read]
         /\ r.io.double_read = IF s.io.double_read >= 0 THEN s.io.double_read - 1 ELSE s.io.double_read
         /\ r.pad = s.pad /\ r.cpu = s.cpu /\ r.dma = s.dma /\ r.did = s.did
<1> DEFINE r == CountCycle(s)
           n == IF s.io.double_read >= 0 THEN s.io.double_read - 1 ELSE s.io.double_read
<1>1. s.io.double_read \in -1..2 /\ n \in -1..1
  BY DEF Mid, IoType
<1>2. r = [s EXCEPT !.io = [s.io EXCEPT !.double_read = n]]
  BY DEF CountCycle, Mid
<1>3. n = IF s.io.double_read >= 0 THEN s.io.double_read - 1 ELSE s.io.double_read
  OBVIOUS
<1> HIDE DEF n, r
<1>4. n \in -1..2
  BY <1>1
<1>5. /\ r.io = [s.io EXCEPT !.double_read = n]
      /\ r.pad = s.pad /\ r.cpu = s.cpu /\ r.dma = s.dma /\ r.did = s.did
  BY <1>2 DEF Mid
<1>6. r.io.double_read = n
  BY <1>5 DEF Mid, IoType
<1>7. r \in Mid
  BY <1>2, <1>4 DEF Mid, IoType
<1> QED BY <1>1, <1>3, <1>5, <1>6, <1>7 DEF r

WithCpu(s, u) == [s EXCEPT !.cpu = u]

\* Another state of the CPU changes nothing else in the cycle.
LEMMA CpuKeeps ==
  ASSUME NEW s \in Mid, NEW u \in CpuType
  PROVE  LET r == WithCpu(s, u) IN
         /\ r \in Mid
         /\ r.pad = s.pad /\ r.io = s.io /\ r.cpu = u /\ r.dma = s.dma /\ r.did = s.did
         /\ Agree(s) => Agree(r)
<1> DEFINE r == WithCpu(s, u)
<1>1. r \in Mid /\ r.pad = s.pad /\ r.io = s.io /\ r.cpu = u /\ r.dma = s.dma /\ r.did = s.did
  BY DEF Mid, WithCpu
<1> HIDE DEF r
<1> QED BY <1>1 DEF Agree, r

\* What the CPU may ask of a cycle that is no write.
LEMMA ReadOpsAre ==
  ASSUME NEW op \in ReadOps
  PROVE  op[1] # "write" /\ (op[1] = "aim" => op[2] \in Addresses)
<1>1. CASE op \in {<<"aim", a>> : a \in Addresses}
  BY <1>1
<1>2. CASE op \in {<<"read", goes_on>> : goes_on \in BOOLEAN}
  BY <1>2
<1>3. CASE op = <<"read twice", FALSE>>
  BY <1>3
<1> QED BY <1>1, <1>2, <1>3 DEF ReadOps

\* The CPU's cycle reads or writes at most one port, and reads none while RDY
\* holds it.  A write of $4016 leaves the strobe due, and the bus elsewhere
\* unless a read-modify-write instruction writes again.
LEMMA CpuPartKeeps ==
  ASSUME NEW s \in Mid, NEW op \in ReadOps \cup WriteOps, buttons \in [Ports -> Masks]
  PROVE  LET r == CpuPart(s, op) IN
         /\ r \in Mid
         /\ r.io.double_read \in -1..1
         /\ Agree(s) => Agree(r)
         /\ r.dma = s.dma /\ r.cpu.rdy = s.cpu.rdy
         /\ \/ SameStrobe(s, r)
            \/ s.cpu.bus = "4016" /\ r.io.strobed /\ (r.cpu.rmw \/ r.cpu.bus = "memory")
         /\ \/ /\ r.did = s.did
               /\ r.io.double_address = s.io.double_address
               /\ r.io.double_read =
                    IF s.io.double_read >= 0 THEN s.io.double_read - 1 ELSE s.io.double_read
            \/ /\ s.cpu.rdy
               /\ \E p \in Ports : \/ DidRead(CountCycle(s), r, p, "cpu")
                                   \/ DidTwice(CountCycle(s), r, p)
<1> DEFINE r == CpuPart(s, op)
           c == CountCycle(s)
           n == IF s.io.double_read >= 0 THEN s.io.double_read - 1 ELSE s.io.double_read
<1>1. /\ c \in Mid /\ c.io.double_read \in -1..1
      /\ c.io = [s.io EXCEPT !.double_read = n] /\ c.io.double_read = n
      /\ c.pad = s.pad /\ c.cpu = s.cpu /\ c.dma = s.dma /\ c.did = s.did
  BY CountCycleKeeps
<1>2. r = IF op[1] = "write" THEN CpuWrite(c, op) ELSE CpuRead(c, op)
  BY DEF CpuPart
<1> HIDE DEF c, n, r
<1>3. /\ Agree(s) => Agree(c)
      /\ SameStrobe(s, c) /\ c.io.double_address = s.io.double_address
  BY <1>1 DEF Agree, SameStrobe, Mid, IoType
<1>4. CASE op \in WriteOps
  <2>1. op[1] = "write" /\ op[2] \in 0..1 /\ op[3] \in BOOLEAN
    BY <1>4 DEF WriteOps
  <2> DEFINE w == IF s.cpu.bus = "4016" THEN write_joyport(c, op[2]) ELSE c
             bus == IF op[3] THEN c.cpu.bus ELSE "memory"
             u == [c.cpu EXCEPT !.frozen = FALSE, !.rmw = op[3], !.bus = bus]
             i == IF s.cpu.bus = "4016" THEN [c.io EXCEPT !.strobe_value = op[2], !.strobed = TRUE] ELSE c.io
  <2>2. w = [c EXCEPT !.io = i]
    BY <1>1 DEF write_joyport, Mid
  <2>3. /\ i \in IoType /\ i.double_read = n /\ i.double_address = s.io.double_address
        /\ i.current_strobe = c.io.current_strobe /\ i.latched4016 = c.io.latched4016
        /\ IF s.cpu.bus = "4016" THEN i.strobed ELSE i = c.io
    BY <1>1, <1>3, <2>1 DEF Mid, IoType
  <2> HIDE DEF w, i
  <2>5. w \in Mid /\ w.io = i /\ w.cpu = c.cpu /\ w.dma = c.dma /\ w.did = c.did /\ w.pad = c.pad
    BY <1>1, <2>2, <2>3 DEF Mid
  <2>6. r = WithCpu(w, u)
    <3>1. r = [w EXCEPT !.cpu.frozen = FALSE, !.cpu.rmw = op[3],
                        !.cpu.bus = IF op[3] THEN w.cpu.bus ELSE "memory"]
      BY <1>1, <1>2, <2>1 DEF CpuWrite, w
    <3> QED BY <2>5, <3>1 DEF Mid, CpuType, WithCpu
  <2>7. u \in CpuType /\ u.rdy = c.cpu.rdy /\ u.rmw = op[3] /\ u.bus = bus
    BY <1>1, <2>1 DEF Mid, CpuType, Addresses
  <2>8. u.rmw \/ u.bus = "memory"
    BY <2>7
  <2> HIDE DEF u
  <2>9. r \in Mid /\ r.io = i /\ r.cpu = u /\ r.dma = c.dma /\ r.did = c.did /\ r.pad = c.pad
    BY <2>5, <2>6, <2>7, CpuKeeps
  <2>10. Agree(c) => Agree(r)
    BY <2>3, <2>9 DEF Agree
  <2>11. SameStrobe(s, r) \/ (s.cpu.bus = "4016" /\ r.io.strobed /\ (r.cpu.rmw \/ r.cpu.bus = "memory"))
    BY <1>3, <2>3, <2>8, <2>9 DEF SameStrobe
  <2> QED BY <1>1, <1>3, <2>3, <2>7, <2>9, <2>10, <2>11 DEF n, r
<1>5. CASE op \in ReadOps /\ ~s.cpu.rdy
  <2>1. op[1] # "write"
    BY <1>5, ReadOpsAre
  <2> DEFINE u == [c.cpu EXCEPT !.frozen = TRUE]
  <2>2. r = WithCpu(c, u)
    BY <1>1, <1>2, <1>5, <2>1 DEF CpuRead, WithCpu, Mid
  <2>3. u \in CpuType /\ u.rdy = c.cpu.rdy
    BY <1>1 DEF Mid, CpuType
  <2> HIDE DEF u
  <2>4. /\ r \in Mid /\ r.io = c.io /\ r.cpu = u /\ r.dma = c.dma /\ r.did = c.did
        /\ Agree(c) => Agree(r)
    BY <1>1, <2>2, <2>3, CpuKeeps
  <2> QED BY <1>1, <1>3, <2>3, <2>4 DEF n, r, SameStrobe
<1>6. CASE op \in ReadOps /\ s.cpu.rdy
  <2>1. op[1] # "write" /\ (op[1] = "aim" => op[2] \in Addresses)
    BY <1>6, ReadOpsAre
  <2> DEFINE u == [c.cpu EXCEPT !.frozen = FALSE, !.rmw = FALSE]
             run == WithCpu(c, u)
             read == ReadBus(run, op)
             at(x, a) == WithCpu(x, [x.cpu EXCEPT !.bus = a])
  <2>2. r = IF op[1] = "aim" THEN at(run, op[2]) ELSE IF op[2] THEN read ELSE at(read, "memory")
    <3>1. run = [c EXCEPT !.cpu.frozen = FALSE, !.cpu.rmw = FALSE]
      BY <1>1 DEF Mid, CpuType, WithCpu
    <3> HIDE DEF run
    <3> QED BY <1>1, <1>2, <1>6, <2>1, <3>1 DEF CpuRead, WithCpu
  <2>3. /\ run \in Mid /\ run.io = c.io /\ run.dma = c.dma /\ run.did = c.did
        /\ run.cpu.rdy = c.cpu.rdy /\ run.cpu.bus = s.cpu.bus
        /\ Agree(c) => Agree(run)
    <3>1. u \in CpuType /\ u.rdy = c.cpu.rdy /\ u.bus = s.cpu.bus
      BY <1>1 DEF Mid, CpuType
    <3> HIDE DEF u
    <3> QED BY <1>1, <3>1, CpuKeeps
  <2> HIDE DEF run
  <2>4. \A p \in Ports : Shifts(run, p) = Shifts(c, p)
    BY <2>3 DEF Repeats, Shifts
  <2>5. /\ read \in Mid /\ read.dma = c.dma /\ read.cpu.rdy = c.cpu.rdy
        /\ Agree(c) => Agree(read)
        /\ SameStrobe(c, read)
        /\ \/ read.did = c.did /\ read.io = c.io
           \/ \E p \in Ports : DidRead(c, read, p, "cpu") \/ DidTwice(c, read, p)
    <3>1. CASE s.cpu.bus \notin Ports
      <4>1. read = run
        BY <2>3, <3>1 DEF ReadBus
      <4> HIDE DEF read
      <4> QED BY <2>3, <4>1 DEF SameStrobe
    <3>2. CASE s.cpu.bus \in Ports /\ op[1] = "read twice"
      <4>1. read = ReadTwice(run, s.cpu.bus)
        BY <2>3, <3>2 DEF ReadBus
      <4> HIDE DEF read
      <4>2. /\ read \in Mid
            /\ Agree(run) => Agree(read)
            /\ read.dma = run.dma /\ read.cpu = run.cpu
            /\ SameStrobe(run, read)
            /\ DidTwice(run, read, s.cpu.bus)
        BY <2>3, <3>2, <4>1, ReadTwiceKeeps
      <4>3. DidTwice(c, read, s.cpu.bus)
        BY <2>3, <2>4, <3>2, <4>2 DEF DidTwice
      <4> QED BY <2>3, <3>2, <4>2, <4>3 DEF SameStrobe
    <3>3. CASE s.cpu.bus \in Ports /\ op[1] # "read twice"
      <4>1. read = ReadJoyport(run, s.cpu.bus, "cpu")
        BY <2>3, <3>3 DEF ReadBus
      <4> HIDE DEF read
      <4>2. /\ read \in Mid
            /\ Agree(run) => Agree(read)
            /\ read.dma = run.dma /\ read.cpu = run.cpu
            /\ SameStrobe(run, read)
            /\ DidRead(run, read, s.cpu.bus, "cpu")
        BY <2>3, <3>3, <4>1, ReadJoyportKeeps DEF SameStrobe, DidRead
      <4>3. DidRead(c, read, s.cpu.bus, "cpu")
        BY <2>3, <2>4, <3>3, <4>2 DEF DidRead
      <4> QED BY <2>3, <3>3, <4>2, <4>3 DEF SameStrobe
    <3> QED BY <3>1, <3>2, <3>3
  <2> HIDE DEF read
  <2>6. /\ r \in Mid /\ r.dma = c.dma /\ r.cpu.rdy = c.cpu.rdy
        /\ Agree(c) => Agree(r)
        /\ SameStrobe(c, r)
        /\ \/ r.did = c.did /\ r.io = c.io
           \/ \E p \in Ports : DidRead(c, r, p, "cpu") \/ DidTwice(c, r, p)
    <3>1. CASE op[1] = "aim"
      <4> DEFINE v == [run.cpu EXCEPT !.bus = op[2]]
      <4>1. v \in CpuType /\ v.rdy = run.cpu.rdy
        BY <2>1, <2>3, <3>1 DEF Mid, CpuType
      <4>2. r = WithCpu(run, v)
        BY <2>2, <3>1
      <4> HIDE DEF v
      <4>3. /\ r \in Mid /\ r.io = run.io /\ r.dma = run.dma /\ r.did = run.did
            /\ r.cpu.rdy = run.cpu.rdy
            /\ Agree(run) => Agree(r)
        BY <2>3, <4>1, <4>2, CpuKeeps
      <4> QED BY <2>3, <4>3 DEF SameStrobe
    <3>2. CASE op[1] # "aim" /\ op[2]
      BY <2>2, <2>5, <3>2
    <3>3. CASE op[1] # "aim" /\ ~op[2]
      <4> DEFINE v == [read.cpu EXCEPT !.bus = "memory"]
      <4>1. v \in CpuType /\ v.rdy = read.cpu.rdy
        BY <2>5 DEF Mid, CpuType, Addresses
      <4>2. r = WithCpu(read, v)
        BY <2>2, <3>3
      <4> HIDE DEF v
      <4>3. /\ r \in Mid /\ r.io = read.io /\ r.dma = read.dma /\ r.did = read.did
            /\ r.cpu.rdy = read.cpu.rdy
            /\ Agree(read) => Agree(r)
        BY <2>5, <4>1, <4>2, CpuKeeps
      <4> QED BY <2>5, <4>3 DEF SameStrobe, DidRead, DidTwice
    <3> QED BY <3>1, <3>2, <3>3
  <2>7. r.io.double_read \in -1..1
    <3>1. c.io.double_read \in -1..1 /\ 1 \in -1..1
      BY <1>1
    <3> QED BY <2>6, <3>1 DEF DidRead, DidTwice
  <2> QED BY <1>1, <1>3, <1>6, <2>6, <2>7 DEF n, c, r, SameStrobe
<1> QED BY <1>4, <1>5, <1>6 DEF r

\* A strobe sets a pad's own copy of the strobe and keeps its type.
LEMMA PadStrobeType ==
  ASSUME NEW c \in PadType, NEW out \in 0..1, NEW old \in 0..1, NEW m \in Masks
  PROVE  PadStrobe(c, out, old, m) \in PadType /\ (PadStrobe(c, out, old, m).resetting <=> out = 1)
<1> DEFINE high == out = 1
           s == [c EXCEPT !.resetting = high]
<1>1. PadStrobe(c, out, old, m) = IF out < old THEN [s EXCEPT !.latched = m, !.pos = 0] ELSE s
  BY DEF PadStrobe, Latch, PadType
<1>2. s \in PadType /\ (s.resetting <=> high)
  BY DEF PadType
<1>3. 0 \in 0..Bits
  BY ControllersAssumption
<1>4. [s EXCEPT !.latched = m, !.pos = 0] \in PadType /\ [s EXCEPT !.latched = m, !.pos = 0].resetting = s.resetting
  <2> HIDE DEF s
  <2> QED BY <1>2, <1>3 DEF PadType
<1> HIDE DEF s
<1> QED BY <1>1, <1>2, <1>4

\* The strobe at the end of a cycle: the front end's poll and the pads' strobe
\* become the value written last, and nothing is due any more.
LEMMA LastPartKeeps ==
  ASSUME NEW s \in Mid, buttons \in [Ports -> Masks]
  PROVE  LET r == LastPart(s) IN
         /\ r \in Mid
         /\ Agree(s) => Agree(r)
         /\ r.cpu = s.cpu /\ r.dma = s.dma /\ r.did = s.did
         /\ r.io.double_read = s.io.double_read /\ r.io.double_address = s.io.double_address
         /\ r.io.strobe_value = s.io.strobe_value
         /\ r.io.strobed => s.io.strobed /\ ~s.dma.odd
<1> DEFINE r == LastPart(s)
<1>1. CASE s.dma.odd /\ s.io.strobed
  <2> DEFINE out == s.io.strobe_value
             old == s.io.latched4016
             b == [p \in Ports |-> IF Connected(p) THEN PadStrobe(s.pad[p], out, old, buttons[p])
                                   ELSE s.pad[p]]
             lag == s.io.lagged /\ ~(s.io.current_strobe /\ out = 0)
             high == out = 1
             i == [s.io EXCEPT !.strobed = FALSE, !.latched4016 = out, !.lagged = lag,
                               !.current_strobe = high]
  <2>1. r = [s EXCEPT !.pad = b, !.io = i]
    BY <1>1 DEF LastPart, StrobeJoyport, Mid, IoType
  <2>2. out \in 0..1 /\ old \in 0..1 /\ s.io \in IoType
    BY DEF Mid, IoType
  <2>3. /\ b \in [Ports -> PadType]
        /\ \A p \in Ports : Connected(p) => (b[p].resetting <=> out = 1)
    <3> HIDE DEF out, old
    <3>1. \A p \in Ports : s.pad[p] \in PadType /\ buttons[p] \in Masks
      BY DEF Mid
    <3>2. \A p \in Ports : /\ PadStrobe(s.pad[p], out, old, buttons[p]) \in PadType
                           /\ PadStrobe(s.pad[p], out, old, buttons[p]).resetting <=> out = 1
      BY <2>2, <3>1, PadStrobeType
    <3> QED BY <3>1, <3>2
  <2>4. /\ i \in IoType
        /\ i.latched4016 = out /\ (i.current_strobe <=> out = 1) /\ ~i.strobed
        /\ i.strobe_value = s.io.strobe_value /\ i.double_read = s.io.double_read
        /\ i.double_address = s.io.double_address
    <3>1. lag \in BOOLEAN /\ high \in BOOLEAN /\ (high <=> out = 1)
      OBVIOUS
    <3> HIDE DEF lag, high, out
    <3>2. i \in IoType
      BY <2>2, <3>1 DEF IoType
    <3>3. /\ i.latched4016 = out /\ i.current_strobe = high /\ ~i.strobed
          /\ i.strobe_value = s.io.strobe_value /\ i.double_read = s.io.double_read
          /\ i.double_address = s.io.double_address
      BY <2>2, <3>1 DEF IoType
    <3> QED BY <3>1, <3>2, <3>3
  <2> HIDE DEF b, i, r
  <2>5. r \in Mid /\ r.pad = b /\ r.io = i /\ r.cpu = s.cpu /\ r.dma = s.dma /\ r.did = s.did
    BY <2>1, <2>3, <2>4 DEF Mid
  <2>6. Agree(r)
    BY <2>3, <2>4, <2>5 DEF Agree
  <2> QED BY <2>4, <2>5, <2>6 DEF r
<1>2. CASE ~(s.dma.odd /\ s.io.strobed)
  <2>1. r = s
    BY <1>2 DEF LastPart
  <2> HIDE DEF r
  <2> QED BY <1>2, <2>1 DEF r
<1> QED BY <1>1, <1>2

\* RDY is released once the DMA is over; the rest of the cycle stays.
LEMMA ReleaseRdyKeeps ==
  ASSUME NEW s \in Mid
  PROVE  LET r == ReleaseRdy(s) IN
         /\ r \in Mid
         /\ r.pad = s.pad /\ r.io = s.io /\ r.dma = s.dma /\ r.did = s.did
         /\ r.cpu.bus = s.cpu.bus /\ r.cpu.rmw = s.cpu.rmw
         /\ Agree(s) => Agree(r)
<1> DEFINE up == s.cpu.rdy \/ s.dma.countdown = 0
           u == [s.cpu EXCEPT !.rdy = up]
<1>1. ReleaseRdy(s) = WithCpu(s, u)
  BY DEF ReleaseRdy, WithCpu, Mid
<1>2. up \in BOOLEAN
  BY DEF Mid, CpuType
<1> HIDE DEF up
<1>3. u \in CpuType /\ u.bus = s.cpu.bus /\ u.rmw = s.cpu.rmw
  BY <1>2 DEF Mid, CpuType
<1> HIDE DEF u
<1> QED BY <1>1, <1>3, CpuKeeps
-----------------------------------------------------------------------------
\* A write of $4016 waits at most for the next cycle: there the bus is
\* elsewhere, unless a read-modify-write instruction writes again.
StrobeDue == io.strobed => ~dma.odd /\ (cpu.rmw \/ cpu.bus = "memory")

\* The double-read window after a cycle that read a port: a halt's is still
\* open in the next cycle, a read by the CPU or by a fetch opens it for the one
\* after the count.  A halt's DMA goes on, a fetch's is over.
ReadWindow ==
  /\ did.by = "nobody" <=> did.port = NoPort
  /\ did.port # NoPort => /\ io.double_address = did.port
                          /\ io.double_read = IF did.by = "halt" THEN 0 ELSE 1
  /\ did.by = "halt" => dma.countdown # 0
  /\ did.by = "fetch" => dma.countdown = 0
  /\ did.by \in ByCpu => dma.countdown = 0 \/ dma.by_write

\* The inductive invariant.
IInv == TypeOK /\ StrobesAgree /\ StrobeDue /\ ReadWindow

\* A cycle from a state of the invariant ends in one, loses no strobe and
\* shifts no port twice.
LEMMA CycleKeeps ==
  ASSUME IInv, NEW op \in ReadOps \cup WriteOps, NEW start \in Starts,
         NEW hit \in Ports \cup {NoPort}, RunCpuOne(op, start, hit)
  PROVE  /\ IInv'
         /\ io.strobed /\ io'.strobe_value # io.strobe_value => cpu.rmw
         /\ did'.shifts <= (IF Again THEN 0 ELSE 1) + (IF did'.by = "twice" THEN 1 ELSE 0)
<1> USE DEF IInv
<1> DEFINE t == [Now EXCEPT !.dma.odd = ~@]
           m == DmaPart(t, hit)
           d == StartDma(m, start)
           c == CpuPart(d, op)
           l == LastPart(c)
           s == ReleaseRdy(l)
<1>0. buttons \in [Ports -> Masks]
  BY DEF TypeOK
<1>1. /\ start # "none" => dma.countdown = 0
      /\ pad' = s.pad /\ io' = s.io /\ cpu' = s.cpu /\ dma' = s.dma /\ did' = s.did
      /\ buttons' = buttons
  BY DEF RunCpuOne
<1>2. /\ t \in Mid
      /\ t.pad = pad /\ t.io = io /\ t.cpu = cpu /\ t.did = Nothing
      /\ t.dma.countdown = dma.countdown /\ t.dma.by_write = dma.by_write
      /\ t.dma.odd <=> ~dma.odd
  <2> DEFINE up == ~dma.odd
             e == [dma EXCEPT !.odd = up]
  <2>1. t = [pad |-> pad, io |-> io, cpu |-> cpu, dma |-> e, did |-> Nothing]
    BY DEF Now
  <2>2. /\ e \in DmaType
        /\ e.countdown = dma.countdown /\ e.by_write = dma.by_write /\ e.odd = up
    BY DEF TypeOK, DmaType
  <2>3. /\ pad \in [Ports -> PadType] /\ io \in IoType /\ cpu \in CpuType
        /\ Nothing \in DidType
    BY DEF TypeOK, PadType, IoType, CpuType, DidType, Nothing
  <2> HIDE DEF e
  <2> QED BY <2>1, <2>2, <2>3 DEF Mid
<1>3. Agree(t)
  BY <1>2 DEF Agree, StrobesAgree
<1> HIDE DEF t
<1>4. /\ m \in Mid /\ Agree(m)
      /\ SameStrobe(t, m)
      /\ m.cpu.bus = cpu.bus /\ m.cpu.rmw = cpu.rmw
      /\ m.dma.odd = t.dma.odd
      /\ dma.countdown = 0 => m = t
      /\ dma.countdown # 0 => ~m.cpu.rdy
      /\ \/ m.did = t.did /\ m.io = t.io
         \/ /\ dma.countdown # 0
            /\ \E p \in Ports : DidRead(t, m, p, IF m.dma.countdown = 0 THEN "fetch" ELSE "halt")
  BY <1>0, <1>2, <1>3, DmaPartKeeps
<1> HIDE DEF m
<1>5. /\ d \in Mid
      /\ d.pad = m.pad /\ d.io = m.io /\ d.did = m.did
      /\ d.cpu.bus = m.cpu.bus /\ d.cpu.rmw = m.cpu.rmw
      /\ d.dma.odd = m.dma.odd
      /\ ~m.cpu.rdy => ~d.cpu.rdy
      /\ start = "none" => d = m
      /\ start = "automatic" => ~d.cpu.rdy
      /\ start = "by write" => d.dma.by_write
  BY <1>4, StartDmaKeeps
<1>6. Agree(d)
  BY <1>4, <1>5 DEF Agree
<1> HIDE DEF d
<1>7. /\ c \in Mid /\ c.io.double_read \in -1..1 /\ Agree(c)
      /\ c.dma = d.dma
      /\ \/ SameStrobe(d, c)
         \/ d.cpu.bus = "4016" /\ c.io.strobed /\ (c.cpu.rmw \/ c.cpu.bus = "memory")
      /\ \/ /\ c.did = d.did
            /\ c.io.double_address = d.io.double_address
            /\ c.io.double_read =
                 IF d.io.double_read >= 0 THEN d.io.double_read - 1 ELSE d.io.double_read
         \/ /\ d.cpu.rdy
            /\ \E p \in Ports : \/ DidRead(CountCycle(d), c, p, "cpu")
                                \/ DidTwice(CountCycle(d), c, p)
  BY <1>0, <1>5, <1>6, CpuPartKeeps
<1> HIDE DEF c
<1>8. /\ l \in Mid /\ Agree(l)
      /\ l.cpu = c.cpu /\ l.dma = c.dma /\ l.did = c.did
      /\ l.io.double_read = c.io.double_read /\ l.io.double_address = c.io.double_address
      /\ l.io.strobe_value = c.io.strobe_value
      /\ l.io.strobed => c.io.strobed /\ ~c.dma.odd
  BY <1>0, <1>7, LastPartKeeps
<1> HIDE DEF l
<1>9. /\ s \in Mid /\ Agree(s)
      /\ s.io = l.io /\ s.dma = l.dma /\ s.did = l.did
      /\ s.cpu.bus = l.cpu.bus /\ s.cpu.rmw = l.cpu.rmw
  BY <1>8, ReleaseRdyKeeps
<1> HIDE DEF s
<1>10. dma'.odd <=> ~dma.odd
  BY <1>1, <1>2, <1>4, <1>5, <1>7, <1>8, <1>9
<1>11. StrobeDue' /\ (io.strobed /\ io'.strobe_value # io.strobe_value => cpu.rmw)
  <2>1. /\ d.io.strobed = io.strobed /\ d.io.strobe_value = io.strobe_value
        /\ d.cpu.bus = cpu.bus
    BY <1>2, <1>4, <1>5 DEF SameStrobe
  <2>2. \/ c.io.strobed = io.strobed /\ c.io.strobe_value = io.strobe_value
        \/ cpu.bus = "4016" /\ c.io.strobed /\ (c.cpu.rmw \/ c.cpu.bus = "memory")
    BY <1>7, <2>1 DEF SameStrobe
  <2>3. io'.strobed => c.io.strobed /\ ~dma'.odd
    BY <1>1, <1>8, <1>9
  <2>4. /\ io'.strobe_value = c.io.strobe_value
        /\ cpu'.rmw = c.cpu.rmw /\ cpu'.bus = c.cpu.bus
    BY <1>1, <1>8, <1>9
  <2> QED BY <1>10, <2>2, <2>3, <2>4 DEF StrobeDue
\* What the cycle read.
<1> DEFINE ReadByCpu(p) ==
             /\ dma.countdown = 0 /\ (dma'.countdown = 0 \/ dma'.by_write)
             /\ did' = [port |-> p, by |-> "cpu", shifts |-> Shifts(CountCycle(d), p)]
             /\ d.io = io
             /\ io'.double_address = p /\ io'.double_read = 1
           ReadTwiceByCpu(p) ==
             /\ dma.countdown = 0 /\ (dma'.countdown = 0 \/ dma'.by_write)
             /\ did' = [port |-> p, by |-> "twice", shifts |-> Shifts(CountCycle(d), p) + 1]
             /\ d.io = io
             /\ io'.double_address = p /\ io'.double_read = 1
           ReadByDma(p) ==
             /\ dma.countdown # 0
             /\ did' = [port |-> p, by |-> IF dma'.countdown = 0 THEN "fetch" ELSE "halt",
                        shifts |-> Shifts(t, p)]
             /\ io'.double_address = p
             /\ io'.double_read = IF dma'.countdown = 0 THEN 1 ELSE 0
<1>12. \/ did' = Nothing
       \/ \E p \in Ports : ReadByCpu(p) \/ ReadTwiceByCpu(p) \/ ReadByDma(p)
  <2>1. CASE dma.countdown = 0
    <3>1. m = t /\ d.io = io /\ d.did = Nothing
      BY <1>2, <1>4, <1>5, <2>1
    <3>2. CASE c.did = d.did
      BY <1>1, <1>8, <1>9, <3>1, <3>2
    <3>3. d.cpu.rdy => d.dma.countdown = 0 \/ d.dma.by_write
      BY <1>2, <1>5, <2>1, <3>1 DEF Starts
    <3>4. CountCycle(d).did.shifts = 0
      <4>1. CountCycle(d).did = d.did
        BY <1>5, CountCycleKeeps
      <4> QED BY <3>1, <4>1 DEF Nothing
    <3>5. \A p \in Ports : 0 + Shifts(CountCycle(d), p) = Shifts(CountCycle(d), p)
      BY DEF Shifts
    <3>6. ASSUME d.cpu.rdy, NEW p \in Ports, DidRead(CountCycle(d), c, p, "cpu")
          PROVE  ReadByCpu(p)
      BY <1>1, <1>7, <1>8, <1>9, <2>1, <3>1, <3>3, <3>4, <3>5, <3>6 DEF DidRead
    <3>7. ASSUME d.cpu.rdy, NEW p \in Ports, DidTwice(CountCycle(d), c, p)
          PROVE  ReadTwiceByCpu(p)
      BY <1>1, <1>7, <1>8, <1>9, <2>1, <3>1, <3>3, <3>4, <3>5, <3>7 DEF DidTwice
    <3> QED BY <1>7, <3>2, <3>6, <3>7
  <2>2. CASE dma.countdown # 0
    <3>1. d = m /\ ~d.cpu.rdy
      BY <1>1, <1>4, <1>5, <2>2
    <3>2. /\ c.did = m.did /\ c.io.double_address = m.io.double_address
          /\ c.io.double_read = IF m.io.double_read >= 0 THEN m.io.double_read - 1 ELSE m.io.double_read
      BY <1>7, <3>1
    <3>3. CASE m.did = t.did
      BY <1>1, <1>2, <1>8, <1>9, <3>2, <3>3
    <3>4. ASSUME NEW p \in Ports, DidRead(t, m, p, IF m.dma.countdown = 0 THEN "fetch" ELSE "halt")
          PROVE  ReadByDma(p)
      <4>1. dma' = m.dma
        BY <1>1, <1>7, <1>8, <1>9, <3>1
      <4>2. m.io.double_read = IF m.dma.countdown = 0 THEN 2 ELSE 1
        BY <3>4 DEF DidRead
      <4>3. io'.double_read = IF dma'.countdown = 0 THEN 1 ELSE 0
        BY <1>1, <1>8, <1>9, <3>2, <4>1, <4>2
      <4>4. t.did.shifts = 0 /\ 0 + Shifts(t, p) = Shifts(t, p)
        BY <1>2 DEF Nothing, Shifts
      <4> QED BY <1>1, <1>8, <1>9, <2>2, <3>2, <3>4, <4>1, <4>3, <4>4 DEF DidRead
    <3> QED BY <1>4, <3>3, <3>4
  <2> QED BY <2>1, <2>2
<1>13. TypeOK' /\ StrobesAgree'
  <2>1. s.io.double_read \in -1..1
    BY <1>7, <1>8, <1>9
  <2>2. pad' \in [Ports -> PadType] /\ cpu' \in CpuType /\ dma' \in DmaType /\ did' \in DidType
    BY <1>1, <1>9 DEF Mid
  <2>3. io' \in [strobe_value : 0..1, strobed : BOOLEAN, latched4016 : 0..1,
                 current_strobe : BOOLEAN, lagged : BOOLEAN, double_read : -1..1,
                 double_address : Ports \cup {NoPort}]
    BY <1>1, <1>9, <2>1 DEF Mid, IoType
  <2>4. did'.shifts \in 0..2
    BY <1>12 DEF Nothing, Shifts
  <2>5. TypeOK'
    BY <1>0, <1>1, <2>2, <2>3, <2>4 DEF TypeOK, PadType, CpuType, DmaType, DidType
  <2> QED BY <1>1, <1>9, <2>5 DEF Agree, StrobesAgree, Connected
<1>14. ReadWindow'
  <2>1. CASE did' = Nothing
    BY <2>1 DEF ReadWindow, Nothing, ByCpu
  <2>2. ASSUME NEW p \in Ports, ReadByCpu(p) \/ ReadTwiceByCpu(p) PROVE ReadWindow'
    BY <2>2 DEF ReadWindow, Ports, NoPort
  <2>3. ASSUME NEW p \in Ports, ReadByDma(p) PROVE ReadWindow'
    BY <2>3 DEF ReadWindow, Ports, NoPort, ByCpu
  <2> QED BY <1>12, <2>1, <2>2, <2>3
<1>15. did'.shifts <= (IF Again THEN 0 ELSE 1) + (IF did'.by = "twice" THEN 1 ELSE 0)
  <2>1. CASE did' = Nothing
    BY <2>1 DEF Nothing
  <2>2. ASSUME NEW p \in Ports, did.port = p
        PROVE  /\ io.double_address = p /\ did.by \in {"cpu", "twice", "halt", "fetch"}
               /\ io.double_read = IF did.by = "halt" THEN 0 ELSE 1
    BY <2>2 DEF ReadWindow, Ports, NoPort, TypeOK
  <2>3. ASSUME NEW p \in Ports, ReadByCpu(p) \/ ReadTwiceByCpu(p), did.port = p
        PROVE  Shifts(CountCycle(d), p) = 0
    <3> DEFINE k == CountCycle(d)
    <3>1. did.by # "halt" /\ io.double_read = 1 /\ io.double_address = p
      BY <2>2, <2>3 DEF ReadWindow
    <3>2. k.io = [d.io EXCEPT !.double_read = k.io.double_read] /\ d.io \in IoType
          /\ k.io.double_read = IF d.io.double_read >= 0 THEN d.io.double_read - 1 ELSE d.io.double_read
      BY <1>5, CountCycleKeeps DEF Mid
    <3> HIDE DEF k
    <3>3. k.io.double_read = 0
      BY <2>3, <3>1, <3>2
    <3>4. k.io.double_address = d.io.double_address
      BY <3>2 DEF IoType
    <3> QED BY <2>3, <3>1, <3>3, <3>4 DEF k, Repeats, Shifts
  <2>4. ASSUME NEW p \in Ports, ReadByDma(p), Again PROVE Shifts(t, p) = 0
    <3>1. did.port = p /\ ~(did.by \in ByCpu /\ dma.by_write)
      BY <2>4 DEF Again, ByCpu
    <3>2. did.by = "halt"
      BY <2>2, <2>4, <3>1 DEF ReadWindow, ByCpu
    <3> QED BY <1>2, <2>2, <3>1, <3>2 DEF Repeats, Shifts
  <2>5. ASSUME NEW p \in Ports, ReadByCpu(p) \/ ReadTwiceByCpu(p), Again
        PROVE  Shifts(CountCycle(d), p) = 0
    BY <2>3, <2>5 DEF Again
  <2>6. \A q \in Ports : Shifts(t, q) \in 0..1 /\ Shifts(CountCycle(d), q) \in 0..1
    BY DEF Shifts
  <2>7. ASSUME NEW p \in Ports, ReadByCpu(p) PROVE did'.shifts <= IF Again THEN 0 ELSE 1
    <3>1. did'.shifts = Shifts(CountCycle(d), p)
      BY <2>7
    <3>2. Again => Shifts(CountCycle(d), p) = 0
      BY <2>5, <2>7
    <3> QED BY <2>6, <3>1, <3>2
  <2>8. ASSUME NEW p \in Ports, ReadTwiceByCpu(p)
        PROVE  did'.by = "twice" /\ did'.shifts <= (IF Again THEN 0 ELSE 1) + 1
    <3>1. did'.by = "twice" /\ did'.shifts = Shifts(CountCycle(d), p) + 1
      BY <2>8
    <3>2. Again => Shifts(CountCycle(d), p) = 0
      BY <2>5, <2>8
    <3> QED BY <2>6, <3>1, <3>2
  <2>9. ASSUME NEW p \in Ports, ReadByDma(p) PROVE did'.shifts <= IF Again THEN 0 ELSE 1
    BY <2>4, <2>6, <2>9
  <2>10. did'.shifts \in Nat
    BY <1>1, <1>9 DEF Mid, DidType
  <2> QED BY <1>12, <2>1, <2>7, <2>8, <2>9, <2>10
<1> QED BY <1>11, <1>13, <1>14, <1>15
-----------------------------------------------------------------------------
\* A new frame gives the pads new buttons and touches nothing the invariant is
\* about; no cycle runs.
LEMMA FrameAdvanceKeeps ==
  ASSUME IInv, NEW b \in [Ports -> Masks], FrameAdvance(b)
  PROVE  IInv' /\ io'.strobe_value = io.strobe_value /\ ~CycleRan
<1>1. /\ io' = [io EXCEPT !.lagged = TRUE] /\ buttons' = b
      /\ pad' = pad /\ cpu' = cpu /\ dma' = dma /\ did' = did
  BY DEF FrameAdvance
<1>2. /\ io'.strobe_value = io.strobe_value /\ io'.strobed = io.strobed
      /\ io'.latched4016 = io.latched4016 /\ io'.current_strobe = io.current_strobe
      /\ io'.double_read = io.double_read /\ io'.double_address = io.double_address
      /\ io' \in [strobe_value : 0..1, strobed : BOOLEAN, latched4016 : 0..1,
                  current_strobe : BOOLEAN, lagged : BOOLEAN, double_read : -1..1,
                  double_address : Ports \cup {NoPort}]
  BY <1>1 DEF IInv, TypeOK
<1>3. TypeOK'
  BY <1>1, <1>2 DEF IInv, TypeOK
<1> QED BY <1>1, <1>2, <1>3 DEF IInv, StrobesAgree, StrobeDue, ReadWindow, CycleRan

\* The inductive invariant holds at power-on and is kept by every cycle and by
\* every new frame.
LEMMA Invariance == Spec => []IInv
<1>1. Init => IInv
  <2> SUFFICES ASSUME Init PROVE IInv
    OBVIOUS
  <2> PICK b \in Masks : pad = [p \in Ports |-> [resetting |-> FALSE, latched |-> b, pos |-> Bits]]
    BY DEF Init
  <2>1. Bits \in 0..Bits
    BY ControllersAssumption
  <2>2. pad \in [Ports -> PadType] /\ \A p \in Ports : pad[p].resetting = FALSE
    BY <2>1 DEF PadType
  <2>3. TypeOK
    BY <2>2 DEF Init, TypeOK, PadType, Nothing, Addresses
  <2>4. StrobesAgree /\ StrobeDue /\ ReadWindow
    BY <2>2 DEF Init, StrobesAgree, StrobeDue, ReadWindow, Nothing
  <2> QED BY <2>3, <2>4 DEF IInv
<1>2. IInv /\ [Next]_vars => IInv'
  <2> SUFFICES ASSUME IInv, [Next]_vars PROVE IInv'
    OBVIOUS
  <2>1. CASE Cycle
    BY <2>1, CycleKeeps DEF Cycle
  <2>2. CASE NewFrame
    BY <2>2, FrameAdvanceKeeps DEF NewFrame
  <2>3. CASE UNCHANGED vars
    BY <2>3 DEF vars, IInv, TypeOK, StrobesAgree, StrobeDue, ReadWindow
  <2> QED BY <2>1, <2>2, <2>3 DEF Next
<1> QED BY <1>1, <1>2, PTL DEF Spec

\* The ports' fields keep their types, the double-read window and the shift
\* position included.
THEOREM TypeCorrect == Spec => []TypeOK
<1>1. IInv => TypeOK
  BY DEF IInv
<1> QED BY <1>1, Invariance, PTL

\* The front end's poll and the pads' strobe never come apart, whatever is
\* written and whenever a frame begins.
THEOREM StrobesAlwaysAgree == Spec => []StrobesAgree
<1>1. IInv => StrobesAgree
  BY DEF IInv
<1> QED BY <1>1, Invariance, PTL

\* No strobe is lost on its way to its half of an APU cycle, and reads in a row, a
\* sample DMA's among them, shift a port once, but for the late halt of a DMA that
\* a write started and for the second read of LAX abs.
THEOREM PortsMetOnce == Spec => PortMetOnce
<1> DEFINE Kept == io.strobed /\ io'.strobe_value # io.strobe_value => cpu.rmw
           Once == CycleRan => did'.shifts <= (IF Again THEN 0 ELSE 1)
                                               + (IF did'.by = "twice" THEN 1 ELSE 0)
<1>1. IInv /\ [Next]_vars => [Kept]_vars /\ [Once]_vars
  <2> SUFFICES ASSUME IInv, Next PROVE Kept /\ Once
    OBVIOUS
  <2>1. CASE Cycle
    BY <2>1, CycleKeeps DEF Cycle
  <2>2. CASE NewFrame
    BY <2>2, FrameAdvanceKeeps DEF NewFrame
  <2> QED BY <2>1, <2>2 DEF Next
<1> QED BY <1>1, Invariance, PTL DEF Spec, PortMetOnce, NoStrobeLost, ReadsShiftOnce
=============================================================================

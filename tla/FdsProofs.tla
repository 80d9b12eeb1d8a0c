------------------------------ MODULE FdsProofs ------------------------------
(***************************************************************************)
(* For disks, bytes and waits of any length: what the drive wrote on a     *)
(* side survives ejects, saves and new sessions, and the interrupt line is *)
(* up for exactly the drive's interrupt and the timer's.                   *)
(***************************************************************************)
EXTENDS Fds, TLAPS

Disks == [1..DiskSize -> 0..1]

Diffs == Disks \cup {<<>>}

DriveType ==
  [disk : Diffs, originaldisk : Diffs, diskpos : Nat, cycleswaiting : Nat, state : States,
   cached4025 : SUBSET ControlBits, irq : BOOLEAN, transferreset : BOOLEAN,
   readregpos : 0..ByteBits - 1, writeregpos : 0..ByteBits - 1,
   bytetransferflag : BOOLEAN, lookingforendofgap : BOOLEAN]

TimerType ==
  [latch : 0..3, value : 0..3, reg : 0..3, cd : 0..3, active : BOOLEAN, irq : BOOLEAN]

\* The head is over the disk: no bit is read or written that there is not.
OverDisk(d) == d \in DriveType /\ d.disk \in Disks /\ d.diskpos < DiskSize

\* Between two dots.
Sound(d) ==
  /\ d \in DriveType
  /\ d.cycleswaiting \in 1..Cycles[d.state]
  /\ d.state # "Idle" => d.disk \in Disks
  /\ d.disk \in Disks /\ d.state # "Reset" => d.diskpos < DiskSize

\* The same disk is in the drive.
SameDisk(d, e) == e.disk = d.disk /\ e.originaldisk = d.originaldisk

-----------------------------------------------------------------------------
\* The disks and the drive's constants.
LEMMA Media ==
  /\ 0 \in Sides /\ -1 \notin Sides
  /\ DiskSize \in Nat /\ DiskSize > 0
  /\ Image \in [Sides -> Disks] /\ \A s \in Sides : Image[s] \in Disks
  /\ \A s \in States : Cycles[s] \in Nat /\ Cycles[s] > 0
  /\ ByteBits \in Nat /\ ByteBits > 0 /\ DummyBits \in Nat
  /\ {"Running", "Inserting", "Spinup", "Idle", "Reset"} = States
<1>1. 0 \in Sides /\ Sides \subseteq Nat /\ DiskSize \in Nat /\ DiskSize > 0
      /\ Image \in [Sides -> Disks]
  BY ImageAssumption DEF Disks
<1>2. \A s \in States : Cycles[s] \in Nat /\ Cycles[s] > 0
  BY CyclesAssumption
<1>3. ByteBits \in Nat /\ ByteBits > 0 /\ DummyBits \in Nat
  BY BitsAssumption
<1>4. -1 \notin Sides
  BY <1>1
<1> HIDE DEF Sides, DiskSize
<1> QED BY <1>1, <1>2, <1>3, <1>4 DEF States

\* A disk has a first bit, so no disk is the empty one.
LEMMA NoDiskIsEmpty == <<>> \notin Disks
<1> SUFFICES ASSUME <<>> \in Disks PROVE FALSE
  OBVIOUS
<1>1. DOMAIN <<>> = 1..DiskSize
  BY DEF Disks
<1>2. 1 \in 1..DiskSize
  BY Media
<1>3. DOMAIN <<>> = {}
  OBVIOUS
<1> QED BY <1>1, <1>2, <1>3

\* Taking a difference and applying it are the same operation, and undo one
\* another.
LEMMA XorUndoes ==
  ASSUME NEW a \in Disks, NEW b \in Disks
  PROVE  Xor(a, b) \in Disks /\ Xor(a, Xor(b, a)) = b
<1>1. /\ \A i \in 1..DiskSize : a[i] \in 0..1 /\ b[i] \in 0..1
      /\ DOMAIN a = 1..DiskSize /\ DOMAIN b = 1..DiskSize
  BY DEF Disks
<1>2. Xor(a, b) = [i \in 1..DiskSize |-> (a[i] + b[i]) % 2]
      /\ Xor(b, a) = [i \in 1..DiskSize |-> (b[i] + a[i]) % 2]
      /\ Xor(a, Xor(b, a)) = [i \in 1..DiskSize |-> (a[i] + Xor(b, a)[i]) % 2]
  BY <1>1 DEF Xor
<1>3. \A i \in 1..DiskSize : (a[i] + b[i]) % 2 \in 0..1
  BY <1>1
<1>4. Xor(a, b) \in Disks
  BY <1>2, <1>3 DEF Disks
<1>5. b = [i \in 1..DiskSize |-> b[i]]
  BY DEF Disks
<1>6. \A i \in 1..DiskSize : (a[i] + Xor(b, a)[i]) % 2 = b[i]
  <2> TAKE i \in 1..DiskSize
  <2> DEFINE x == Xor(b, a)[i]
             y == (b[i] + a[i]) % 2
             P(z) == (a[i] + z) % 2 = b[i]
  <2>1. x = y
    BY <1>2
  <2>2. P(y)
    <3>1. (a[i] = 0 \/ a[i] = 1) /\ (b[i] = 0 \/ b[i] = 1)
      BY <1>1
    <3> QED BY <3>1
  <2> HIDE DEF x, y
  <2>3. P(x)
    BY <2>1, <2>2
  <2> QED BY <2>3 DEF x
<1>7. Xor(a, Xor(b, a)) = b
  BY <1>2, <1>5, <1>6
<1> QED BY <1>4, <1>7

-----------------------------------------------------------------------------
\* Move, and nothing but the state and its wait changes.
LEMMA MoveKeeps ==
  ASSUME NEW d \in DriveType, NEW state \in States
  PROVE  LET e == Move(d, state) IN
         /\ e \in DriveType /\ e.state = state /\ e.cycleswaiting \in 1..Cycles[e.state]
         /\ SameDisk(d, e) /\ e.diskpos = d.diskpos /\ e.irq = d.irq
<1> DEFINE c == Cycles[state]
           u == [d EXCEPT !.state = state]
           e == [u EXCEPT !.cycleswaiting = c]
<1>1. u \in DriveType /\ u.state = state /\ SameDisk(d, u) /\ u.diskpos = d.diskpos
      /\ u.irq = d.irq
  BY DEF DriveType, SameDisk
<1>2. Move(d, state) = e
  BY <1>1 DEF Move, SetCycles
<1>3. c \in Nat /\ c > 0 /\ c = Cycles[state]
  BY Media
<1> HIDE DEF u, c
<1>4. e \in DriveType /\ e.state = u.state /\ e.cycleswaiting = c /\ SameDisk(u, e)
      /\ e.diskpos = u.diskpos /\ e.irq = u.irq
  BY <1>1, <1>3 DEF DriveType, SameDisk
<1> HIDE DEF e
<1> QED BY <1>1, <1>2, <1>3, <1>4 DEF SameDisk

(***************************************************************************)
(* What a bit under the head leaves alone.                                 *)
(***************************************************************************)
Passed(d, e) ==
  /\ e \in DriveType /\ e.disk \in Disks /\ e.originaldisk = d.originaldisk

\* The end of a byte.
LEMMA TransferredKeeps ==
  ASSUME NEW d \in DriveType
  PROVE  LET e == Transferred(d) IN
         e \in DriveType /\ SameDisk(d, e) /\ e.diskpos = d.diskpos
<1> DEFINE yes == TRUE
           i == d.irq \/ "irq" \in d.cached4025
           e == [d EXCEPT !.bytetransferflag = yes, !.irq = i]
<1>1. Transferred(d) = e
  BY DEF Transferred, DriveType
<1>2. yes \in BOOLEAN /\ i \in BOOLEAN
  BY DEF DriveType
<1> HIDE DEF yes, i
<1>3. e \in DriveType
  BY <1>2 DEF DriveType
<1>4. SameDisk(d, e) /\ e.diskpos = d.diskpos
  BY DEF DriveType, SameDisk
<1> HIDE DEF e
<1> QED BY <1>1, <1>3, <1>4

\* The bit under the head is read.
LEMMA ReadBitPasses ==
  ASSUME NEW d, OverDisk(d)
  PROVE  Passed(d, ReadBit(d))
<1> DEFINE no == FALSE
           bit == d.disk[d.diskpos + 1]
           t == [d EXCEPT !.diskpos = @ + 1]
           found == [t EXCEPT !.lookingforendofgap = no, !.readregpos = 0]
           u == Transferred(t)
           c == u.cached4025 \ {"crc"}
           last == [u EXCEPT !.readregpos = 0, !.cached4025 = c]
           next == [t EXCEPT !.readregpos = @ + 1]
<1>1. d \in DriveType /\ d.disk \in Disks
  BY DEF OverDisk
<1>2. t \in DriveType /\ SameDisk(d, t) /\ t.readregpos = d.readregpos
  BY <1>1 DEF DriveType, SameDisk
<1>3. no \in BOOLEAN /\ 0 \in 0..ByteBits - 1
  BY Media
<1>4. u \in DriveType /\ SameDisk(t, u)
  <2> HIDE DEF t
  <2> QED BY <1>2, TransferredKeeps
<1>5. c \in SUBSET ControlBits
  BY <1>4 DEF DriveType
<1>6. d.readregpos \in 0..ByteBits - 1
  BY <1>1 DEF DriveType
<1>7. ReadBit(d) = found \/ ReadBit(d) = t \/ ReadBit(d) = last
      \/ (d.readregpos + 1 # ByteBits /\ ReadBit(d) = next)
  BY DEF ReadBit
<1> HIDE DEF no, t, u, c
<1>8. found \in DriveType /\ SameDisk(t, found)
  BY <1>2, <1>3 DEF DriveType, SameDisk
<1>9. last \in DriveType /\ SameDisk(u, last)
  BY <1>4, <1>3, <1>5 DEF DriveType, SameDisk
<1>10. SameDisk(t, next)
  BY <1>2 DEF DriveType, SameDisk
<1>11. ASSUME d.readregpos + 1 # ByteBits
       PROVE  next \in DriveType
  <2> DEFINE r == t.readregpos + 1
  <2>1. r \in 0..ByteBits - 1
    BY <1>2, <1>6, <1>11, Media
  <2> HIDE DEF r
  <2>2. [t EXCEPT !.readregpos = r] \in DriveType
    BY <1>2, <2>1 DEF DriveType
  <2> QED BY <2>2 DEF r
<1> HIDE DEF found, last, next
<1>12. \A e : SameDisk(d, e) /\ e \in DriveType => Passed(d, e)
  BY <1>1 DEF SameDisk, Passed
<1>13. SameDisk(d, found) /\ SameDisk(d, last) /\ SameDisk(d, next)
  BY <1>2, <1>4, <1>8, <1>9, <1>10 DEF SameDisk
<1> QED BY <1>2, <1>7, <1>8, <1>9, <1>11, <1>12, <1>13

\* A bit is written under the head.
LEMMA WriteBitPasses ==
  ASSUME NEW d, OverDisk(d), NEW e \in WriteBit(d)
  PROVE  Passed(d, e)
<1> DEFINE On(t, bit) == [t EXCEPT !.disk[t.diskpos + 1] = bit, !.diskpos = @ + 1]
           crcs == IF "crc" \in d.cached4025 THEN {d.cached4025, d.cached4025 \ {"crc"}}
                                             ELSE {d.cached4025}
           u == Transferred(d)
           End(c) == [u EXCEPT !.writeregpos = 0, !.cached4025 = c]
           next == [d EXCEPT !.writeregpos = @ + 1]
<1>1. d \in DriveType /\ d.disk \in Disks /\ d.diskpos < DiskSize /\ d.diskpos \in Nat
  BY DEF OverDisk, DriveType
<1>2. ASSUME NEW t \in DriveType, SameDisk(d, t), t.diskpos = d.diskpos, NEW bit \in 0..1
      PROVE  Passed(d, On(t, bit))
  <2> DEFINE disk == [t.disk EXCEPT ![t.diskpos + 1] = bit]
             p == t.diskpos + 1
             o == [t EXCEPT !.disk = disk, !.diskpos = p]
  <2>1. On(t, bit) = o
    BY <1>2 DEF DriveType
  <2>2. t.disk \in Disks
    BY <1>1, <1>2 DEF SameDisk
  <2>3. disk \in Disks /\ p \in Nat
    BY <1>1, <1>2, <2>2, Media DEF Disks
  <2> HIDE DEF disk, p
  <2>4. disk \in Diffs
    BY <2>3 DEF Diffs
  <2>5. o \in DriveType
    BY <2>3, <2>4 DEF DriveType
  <2>6. o.disk = disk /\ o.originaldisk = t.originaldisk
    BY DEF DriveType
  <2> HIDE DEF o
  <2> QED BY <1>2, <2>1, <2>3, <2>5, <2>6 DEF Passed, SameDisk
<1>3. u \in DriveType /\ SameDisk(d, u) /\ u.diskpos = d.diskpos
  BY <1>1, TransferredKeeps
<1>4. \A c \in crcs : c \in SUBSET ControlBits
  BY <1>1 DEF DriveType
<1>5. 0 \in 0..1 /\ 0 \in 0..ByteBits - 1 /\ SameDisk(d, d)
  BY Media DEF SameDisk
<1>6. CASE e = On(d, 0)
  <2> HIDE DEF On
  <2> QED BY <1>1, <1>2, <1>5, <1>6
<1>7. ASSUME NEW bit \in 0..1, NEW c \in crcs, e = On(End(c), bit)
      PROVE  Passed(d, e)
  <2> DEFINE t == [u EXCEPT !.writeregpos = 0, !.cached4025 = c]
  <2>1. c \in SUBSET ControlBits
    BY <1>4
  <2> HIDE DEF u, crcs
  <2>2. t \in DriveType /\ SameDisk(u, t) /\ t.diskpos = u.diskpos
    BY <1>3, <1>5, <2>1 DEF DriveType, SameDisk
  <2> HIDE DEF t, On
  <2>3. SameDisk(d, t) /\ t.diskpos = d.diskpos
    BY <1>3, <2>2 DEF SameDisk
  <2>4. Passed(d, On(t, bit))
    BY <1>2, <2>2, <2>3
  <2> QED BY <1>7, <2>4 DEF t
<1>8. ASSUME d.writeregpos + 1 # ByteBits, NEW bit \in 0..1, e = On(next, bit)
      PROVE  Passed(d, e)
  <2> DEFINE r == d.writeregpos + 1
             t == [d EXCEPT !.writeregpos = r]
  <2>1. r \in 0..ByteBits - 1
    BY <1>1, <1>8, Media DEF DriveType
  <2>2. next = t
    OBVIOUS
  <2> HIDE DEF r
  <2>3. t \in DriveType /\ SameDisk(d, t) /\ t.diskpos = d.diskpos
    BY <1>1, <2>1 DEF DriveType, SameDisk
  <2> HIDE DEF t, On, next
  <2>4. Passed(d, On(t, bit))
    BY <1>2, <2>3
  <2> QED BY <1>8, <2>2, <2>4
<1>9. CASE ~d.lookingforendofgap
  <2>1. WriteBit(d) = {On(d, 0)}
    BY <1>9 DEF WriteBit
  <2> HIDE DEF On
  <2> QED BY <1>6, <2>1
<1>10. CASE d.lookingforendofgap /\ d.writeregpos + 1 = ByteBits
  <2>1. WriteBit(d) = {On(t, 0) : t \in {End(c) : c \in crcs}}
                      \cup {On(t, 1) : t \in {End(c) : c \in crcs}}
    BY <1>10 DEF WriteBit
  <2> HIDE DEF On, End, crcs
  <2>2. \E t \in {End(c) : c \in crcs} : e = On(t, 0) \/ e = On(t, 1)
    BY <2>1
  <2>3. \E c \in crcs : e = On(End(c), 0) \/ e = On(End(c), 1)
    BY <2>2
  <2> QED BY <1>7, <2>3
<1>11. CASE d.lookingforendofgap /\ d.writeregpos + 1 # ByteBits
  <2>1. WriteBit(d) = {On(t, 0) : t \in {next}} \cup {On(t, 1) : t \in {next}}
    BY <1>11 DEF WriteBit
  <2> HIDE DEF On, next
  <2>2. e = On(next, 0) \/ e = On(next, 1)
    BY <2>1
  <2>3. d.writeregpos + 1 # ByteBits
    BY <1>11
  <2> QED BY <1>8, <2>2, <2>3
<1> QED BY <1>9, <1>10, <1>11

(***************************************************************************)
(* What a dot leaves alone: the disk is in the drive or not as it was, and *)
(* nothing touches the copy the differences are taken from.                *)
(***************************************************************************)
Turned(d, e) ==
  /\ Sound(e)
  /\ e.originaldisk = d.originaldisk
  /\ d.disk \in Disks => e.disk \in Disks
  /\ d.disk = <<>> => e.disk = <<>>

\* A running drive takes a bit, or skips many, and stops at the end of its disk.
LEMMA RunningKeeps ==
  ASSUME NEW d, OverDisk(d), NEW e \in Running(d)
  PROVE  Turned(d, e)
<1> DEFINE St(t) == IF AtEnd(t) THEN "Reset" ELSE "Running"
           ts == IF d.transferreset THEN {MoveDummy(d)}
                 ELSE IF "read" \in d.cached4025 THEN {ReadBit(d)} ELSE WriteBit(d)
<1>1. PICK t \in ts : e = Move(t, St(t))
  BY DEF Running
<1>2. Passed(d, MoveDummy(d))
  <2> DEFINE p == d.diskpos + DummyBits
             m == [d EXCEPT !.diskpos = p]
  <2>1. d \in DriveType /\ d.disk \in Disks
    BY DEF OverDisk
  <2>2. p \in Nat
    BY <2>1, Media DEF DriveType
  <2>3. MoveDummy(d) = m
    BY DEF MoveDummy
  <2> HIDE DEF p
  <2>4. m \in DriveType /\ m.disk = d.disk /\ m.originaldisk = d.originaldisk
    BY <2>1, <2>2 DEF DriveType
  <2> HIDE DEF m
  <2> QED BY <2>1, <2>3, <2>4 DEF Passed
<1>3. Passed(d, t)
  <2>1. t = MoveDummy(d) \/ t = ReadBit(d) \/ t \in WriteBit(d)
    OBVIOUS
  <2> QED BY <1>2, <2>1, ReadBitPasses, WriteBitPasses
<1>4. St(t) \in States /\ (St(t) # "Reset" => ~AtEnd(t)) /\ St(t) # "Idle"
  BY DEF States
<1> HIDE DEF St, ts
<1>5. t \in DriveType /\ t.disk \in Disks /\ t.originaldisk = d.originaldisk
  BY <1>3 DEF Passed
<1>6. /\ e \in DriveType /\ e.state = St(t) /\ e.cycleswaiting \in 1..Cycles[e.state]
      /\ SameDisk(t, e) /\ e.diskpos = t.diskpos
  BY <1>1, <1>4, <1>5, MoveKeeps
<1>7. ~AtEnd(t) => e.diskpos < DiskSize
  BY <1>5, <1>6, Media DEF AtEnd, DriveType
<1>8. e.disk \in Disks /\ e.originaldisk = d.originaldisk
  BY <1>5, <1>6 DEF SameDisk
<1>9. Sound(e)
  BY <1>4, <1>6, <1>7, <1>8 DEF Sound
<1>10. d.disk # <<>>
  BY NoDiskIsEmpty DEF OverDisk
<1> QED BY <1>8, <1>9, <1>10 DEF Turned

\* A drive sent to a state its disk allows.
LEMMA MovedIsSound ==
  ASSUME NEW d \in DriveType, NEW state \in States,
         state # "Idle" => d.disk \in Disks,
         d.disk \in Disks /\ state # "Reset" => d.diskpos < DiskSize
  PROVE  Sound(Move(d, state)) /\ SameDisk(d, Move(d, state))
<1> DEFINE e == Move(d, state)
<1>1. /\ e \in DriveType /\ e.state = state /\ e.cycleswaiting \in 1..Cycles[e.state]
      /\ SameDisk(d, e) /\ e.diskpos = d.diskpos
  BY MoveKeeps
<1> HIDE DEF e
<1>2. e.disk = d.disk
  BY <1>1 DEF SameDisk
<1>3. Sound(e)
  BY <1>1, <1>2 DEF Sound
<1> QED BY <1>1, <1>3 DEF e

\* A dot of the drive.
LEMMA ClockKeeps ==
  ASSUME NEW d, Sound(d), NEW e \in Clock(d)
  PROVE  Turned(d, e)
<1> DEFINE c == d.cycleswaiting - 1
           t == [d EXCEPT !.cycleswaiting = c]
           home == Move(t, "Idle")
           idle == [home EXCEPT !.diskpos = 0]
<1>1. d \in DriveType /\ d.state \in States /\ d.cycleswaiting \in 1..Cycles[d.state]
      /\ d.cycleswaiting \in Nat
  BY DEF Sound, DriveType
<1>2. c \in Nat /\ (c # 0 => c \in 1..Cycles[d.state])
  BY <1>1, Media
<1>3. t.cycleswaiting = c /\ SameDisk(d, t) /\ t.state = d.state /\ t.diskpos = d.diskpos
  BY <1>1 DEF DriveType, SameDisk
<1>4. t \in DriveType
  <2> HIDE DEF c
  <2> QED BY <1>1, <1>2 DEF DriveType
<1>5. /\ c # 0 => e = t
      /\ c = 0 =>
           /\ d.state = "Running" => e \in Running(t)
           /\ d.state \in {"Reset", "Inserting"} => e = idle
           /\ d.state = "Spinup" => e = Move(t, "Running")
           /\ d.state = "Idle" => e = Move(t, "Idle")
  <2>1. Clock(d) = IF t.cycleswaiting # 0 THEN {t}
                   ELSE CASE d.state = "Running" -> Running(t)
                     [] d.state \in {"Reset", "Inserting"} -> {idle}
                     [] d.state = "Spinup" -> {Move(t, "Running")}
                     [] d.state = "Idle" -> {SetCycles(t)}
    BY DEF Clock
  <2>2. d.state = "Idle" => SetCycles(t) = Move(t, "Idle")
    <3> SUFFICES ASSUME d.state = "Idle" PROVE SetCycles(t) = Move(t, "Idle")
      OBVIOUS
    <3>1. t.state = "Idle"
      BY <1>3
    <3> HIDE DEF t
    <3>2. [t EXCEPT !.state = "Idle"] = t
      BY <1>4, <3>1 DEF DriveType
    <3> QED BY <3>2 DEF Move
  <2> HIDE DEF t, idle, c
  <2>3. CASE c # 0
    BY <1>3, <2>1, <2>3
  <2>4. CASE c = 0
    <3>1. Clock(d) = CASE d.state = "Running" -> Running(t)
                       [] d.state \in {"Reset", "Inserting"} -> {idle}
                       [] d.state = "Spinup" -> {Move(t, "Running")}
                       [] d.state = "Idle" -> {SetCycles(t)}
      BY <1>3, <2>1, <2>4
    <3> QED BY <2>2, <2>4, <3>1
  <2> QED BY <2>3, <2>4
<1>6. /\ d.state # "Idle" => t.disk \in Disks
      /\ t.disk \in Disks /\ d.state # "Reset" => t.diskpos < DiskSize
  BY <1>3 DEF Sound, SameDisk
<1> HIDE DEF c, t
<1>7. \A f : Sound(f) /\ SameDisk(t, f) => Turned(d, f)
  BY <1>3 DEF SameDisk, Turned
<1>8. CASE c # 0
  <2>1. Sound(t)
    BY <1>2, <1>3, <1>4, <1>6, <1>8 DEF Sound
  <2> QED BY <1>5, <1>7, <1>8, <2>1 DEF SameDisk
<1>9. CASE c = 0 /\ d.state = "Running"
  <2>1. OverDisk(t)
    BY <1>4, <1>6, <1>9 DEF OverDisk
  <2>2. e \in Running(t)
    BY <1>5, <1>9
  <2>3. Turned(t, e)
    BY <2>1, <2>2, RunningKeeps
  <2> QED BY <1>3, <2>3 DEF Turned, SameDisk
<1>10. CASE c = 0 /\ d.state \in {"Reset", "Inserting"}
  <2>1. /\ home \in DriveType /\ home.state = "Idle" /\ SameDisk(t, home)
        /\ home.cycleswaiting \in 1..Cycles[home.state]
    BY <1>4, Media, MoveKeeps
  <2> HIDE DEF home
  <2>2. idle \in DriveType /\ idle.state = "Idle" /\ SameDisk(home, idle)
        /\ idle.cycleswaiting = home.cycleswaiting /\ idle.diskpos = 0
    BY <2>1 DEF DriveType, SameDisk
  <2>3. e = idle
    BY <1>5, <1>10
  <2> HIDE DEF idle
  <2>4. Sound(idle) /\ SameDisk(t, idle)
    BY <2>1, <2>2, Media DEF Sound, SameDisk
  <2> QED BY <1>7, <2>3, <2>4
<1>11. CASE c = 0 /\ d.state = "Spinup"
  <2>1. e = Move(t, "Running")
    BY <1>5, <1>11
  <2>2. t.disk \in Disks /\ t.diskpos < DiskSize
    BY <1>6, <1>11
  <2> QED BY <1>4, <1>7, <2>1, <2>2, Media, MovedIsSound
<1>12. CASE c = 0 /\ d.state = "Idle"
  <2>1. e = Move(t, "Idle")
    BY <1>5, <1>12
  <2>2. t.disk \in Disks => t.diskpos < DiskSize
    BY <1>6, <1>12
  <2> QED BY <1>4, <1>7, <2>1, <2>2, Media, MovedIsSound
<1> QED BY <1>1, <1>8, <1>9, <1>10, <1>11, <1>12 DEF States

-----------------------------------------------------------------------------
\* An access to the drive's registers leaves the disk and the head alone.
LEMMA AccessesKeep ==
  ASSUME NEW d, Sound(d)
  PROVE  /\ Sound(Write4024(d)) /\ SameDisk(d, Write4024(d))
         /\ Sound(Acknowledged(d)) /\ SameDisk(d, Acknowledged(d))
         /\ \A v \in SUBSET ControlBits :
              Sound(Write4025(d, v)) /\ SameDisk(d, Write4025(d, v))
<1> DEFINE no == FALSE
           Alike(u, e) == /\ e \in DriveType /\ SameDisk(u, e) /\ e.diskpos = u.diskpos
                          /\ e.state = u.state /\ e.cycleswaiting = u.cycleswaiting
<1>1. d \in DriveType /\ no \in BOOLEAN
  BY DEF Sound
<1>2. ASSUME NEW u, Sound(u), NEW e, Alike(u, e)
      PROVE  Sound(e)
  BY <1>2 DEF Sound, SameDisk
<1>3. Alike(d, Write4024(d))
  <2> DEFINE e == [d EXCEPT !.bytetransferflag = no]
  <2>1. Write4024(d) = e
    BY DEF Write4024
  <2> HIDE DEF no
  <2>2. Alike(d, e)
    BY <1>1 DEF DriveType, SameDisk
  <2> HIDE DEF e, Alike
  <2> QED BY <2>1, <2>2
<1>4. Alike(d, Acknowledged(d))
  <2> DEFINE e == [d EXCEPT !.bytetransferflag = no, !.irq = no]
  <2>1. Acknowledged(d) = e
    BY DEF Acknowledged
  <2> HIDE DEF no
  <2>2. Alike(d, e)
    BY <1>1 DEF DriveType, SameDisk
  <2> HIDE DEF e, Alike
  <2> QED BY <2>1, <2>2
<1>5. ASSUME NEW v \in SUBSET ControlBits
      PROVE  Sound(Write4025(d, v)) /\ SameDisk(d, Write4025(d, v))
  <2> DEFINE spins == "motor" \in v /\ d.state = "Idle" /\ d.disk # <<>>
             t == IF spins THEN Move(d, "Spinup") ELSE d
             starts == "start" \in v /\ "start" \notin d.cached4025
             writes == starts /\ "read" \notin v
             reset == "reset" \in v
             looks == t.lookingforendofgap \/ starts
             pos == IF writes THEN 0 ELSE t.writeregpos
             flag == t.bytetransferflag \/ writes
             e1 == [t EXCEPT !.transferreset = reset, !.irq = no]
             e2 == [e1 EXCEPT !.cached4025 = v, !.lookingforendofgap = looks]
             e3 == [e2 EXCEPT !.writeregpos = pos, !.bytetransferflag = flag]
  <2>1. Sound(t) /\ SameDisk(d, t)
    <3>1. CASE spins
      <4>1. d.disk \in Disks
        BY <1>1, <3>1 DEF DriveType, Diffs
      <4>2. d.diskpos < DiskSize
        BY <3>1, <4>1 DEF Sound
      <4>3. t = Move(d, "Spinup")
        BY <3>1
      <4> QED BY <1>1, <4>1, <4>2, <4>3, Media, MovedIsSound
    <3>2. CASE ~spins
      BY <3>2 DEF SameDisk
    <3> QED BY <3>1, <3>2
  <2>2. Write4025(d, v) =
          [t EXCEPT !.transferreset = reset, !.irq = no, !.cached4025 = v,
                    !.lookingforendofgap = looks, !.writeregpos = pos,
                    !.bytetransferflag = flag]
    BY DEF Write4025
  <2> HIDE DEF t
  <2>3. t \in DriveType
    BY <2>1 DEF Sound
  <2>4. reset \in BOOLEAN /\ looks \in BOOLEAN /\ flag \in BOOLEAN /\ pos \in 0..ByteBits - 1
    BY <2>3, Media DEF DriveType
  <2>5. Write4025(d, v) = e3
    BY <2>2, <2>3 DEF DriveType
  <2> HIDE DEF reset, looks, flag, pos, no
  <2>6. Alike(t, e1)
    BY <1>1, <2>3, <2>4 DEF DriveType, SameDisk
  <2> HIDE DEF e1
  <2>7. Alike(e1, e2)
    BY <2>6, <2>4 DEF DriveType, SameDisk
  <2> HIDE DEF e2
  <2>8. Alike(e2, e3)
    BY <2>7, <2>4 DEF DriveType, SameDisk
  <2> HIDE DEF e3
  <2>9. Sound(e1) /\ Sound(e2) /\ Sound(e3)
    BY <1>2, <2>1, <2>6, <2>7, <2>8
  <2> QED BY <2>1, <2>5, <2>6, <2>7, <2>8, <2>9 DEF SameDisk
<1>6. Sound(Write4024(d)) /\ Sound(Acknowledged(d))
  <2> HIDE DEF Alike
  <2> QED BY <1>2, <1>3, <1>4
<1> QED BY <1>3, <1>4, <1>5, <1>6

(***************************************************************************)
(* What is on side s by the differences kept of it.                        *)
(***************************************************************************)
Stored(diffs, s) == IF diffs[s] = <<>> THEN Image[s] ELSE Xor(Image[s], diffs[s])

AllDiffs == [Sides -> Diffs]

\* Whatever differences are kept, the side holds bits.
LEMMA StoredIsDisk ==
  ASSUME NEW diffs \in AllDiffs, NEW s \in Sides
  PROVE  Stored(diffs, s) \in Disks
<1>1. diffs[s] \in Disks \/ diffs[s] = <<>>
  BY DEF AllDiffs, Diffs
<1>2. Image[s] \in Disks
  BY Media
<1> QED BY <1>1, <1>2, XorUndoes DEF Stored

\* Insert, and the copy is the side as it was loaded.
LEMMA InsertWorks ==
  ASSUME NEW d \in DriveType, NEW s \in Sides
  PROVE  LET e == Insert(d, s) IN
         /\ Sound(e) /\ e.disk = Image[s] /\ e.originaldisk = Image[s]
         /\ e.irq = d.irq /\ e.diskpos = 0
<1> DEFINE m == Image[s]
           t == [d EXCEPT !.disk = m, !.originaldisk = m, !.diskpos = 0]
           e == Move(t, "Inserting")
<1>1. m \in Disks /\ m \in Diffs
  BY Media DEF Diffs
<1>2. Insert(d, s) = e
  BY DEF Insert
<1> HIDE DEF m
<1>3. t \in DriveType
  BY <1>1 DEF DriveType
<1>4. t.disk = m /\ t.originaldisk = m /\ t.diskpos = 0 /\ t.irq = d.irq
  BY DEF DriveType
<1> HIDE DEF t
<1>5. Sound(e) /\ SameDisk(t, e) /\ e.irq = t.irq /\ e.diskpos = t.diskpos
  BY <1>1, <1>3, <1>4, Media, MovedIsSound, MoveKeeps
<1> HIDE DEF e
<1> QED BY <1>2, <1>4, <1>5 DEF SameDisk, m

\* ApplyDiff to a side just put in.
LEMMA ApplyWorks ==
  ASSUME NEW d, Sound(d), NEW s \in Sides, d.disk = Image[s], NEW diffs \in AllDiffs
  PROVE  LET e == ApplyDiff(d, diffs[s]) IN
         /\ Sound(e) /\ e.disk = Stored(diffs, s)
         /\ e.originaldisk = d.originaldisk /\ e.irq = d.irq
<1> DEFINE x == Xor(d.disk, diffs[s])
           e == [d EXCEPT !.disk = x]
<1>1. CASE diffs[s] = <<>>
  <2>1. ApplyDiff(d, diffs[s]) = d /\ Stored(diffs, s) = d.disk
    BY <1>1 DEF ApplyDiff, Stored
  <2> QED BY <2>1
<1>2. CASE diffs[s] # <<>>
  <2>1. ApplyDiff(d, diffs[s]) = e /\ Stored(diffs, s) = x
    BY <1>2 DEF ApplyDiff, Stored
  <2>2. x \in Disks
    BY <2>1, StoredIsDisk
  <2>3. d \in DriveType /\ d.disk \in Disks
    BY Media DEF Sound
  <2> HIDE DEF x
  <2>4. e \in DriveType
    BY <2>2, <2>3 DEF DriveType, Diffs
  <2>5. e.disk = x /\ e.originaldisk = d.originaldisk /\ e.irq = d.irq
        /\ e.diskpos = d.diskpos /\ e.state = d.state /\ e.cycleswaiting = d.cycleswaiting
    BY <2>3 DEF DriveType
  <2> HIDE DEF e
  <2>6. Sound(e)
    BY <2>2, <2>3, <2>4, <2>5 DEF Sound
  <2> QED BY <2>1, <2>5, <2>6
<1> QED BY <1>1, <1>2

\* InsertSide: the drive holds what the differences say the side holds.
LEMMA InsertSideWorks ==
  ASSUME NEW d \in DriveType, NEW s \in Sides, NEW diffs \in AllDiffs
  PROVE  LET e == InsertSide(d, s, diffs) IN
         /\ Sound(e) /\ e.disk = Stored(diffs, s) /\ e.originaldisk = Image[s]
         /\ e.irq = d.irq
<1> DEFINE t == Insert(d, s)
<1>1. Sound(t) /\ t.disk = Image[s] /\ t.originaldisk = Image[s] /\ t.irq = d.irq
  BY InsertWorks
<1>2. InsertSide(d, s, diffs) = ApplyDiff(t, diffs[s])
  BY DEF InsertSide
<1> HIDE DEF t
<1> QED BY <1>1, <1>2, ApplyWorks

\* An empty drive, before the first side goes in.
LEMMA NoDiskIsDrive == NoDisk \in DriveType /\ ~NoDisk.irq
<1>1. <<>> \in Diffs /\ "Idle" \in States /\ 0 \in 0..ByteBits - 1
  BY Media DEF Diffs
<1>2. {} \in SUBSET ControlBits
  OBVIOUS
<1> QED BY <1>1, <1>2 DEF NoDisk, DriveType

\* EjectDrive.
LEMMA EjectDriveWorks ==
  ASSUME NEW d, Sound(d)
  PROVE  LET e == EjectDrive(d) IN Sound(e) /\ e.disk = <<>> /\ e.irq = d.irq
<1> DEFINE none == <<>>
           t == [d EXCEPT !.disk = none]
           e == Move(t, "Idle")
<1>1. d \in DriveType /\ none \in Diffs /\ none \notin Disks
  BY NoDiskIsEmpty DEF Sound, Diffs
<1>2. EjectDrive(d) = e
  BY DEF EjectDrive
<1> HIDE DEF none
<1>3. t \in DriveType
  BY <1>1 DEF DriveType
<1>4. t.disk = none /\ t.irq = d.irq
  BY <1>1 DEF DriveType
<1> HIDE DEF t
<1>5. Sound(e) /\ SameDisk(t, e) /\ e.irq = t.irq
  BY <1>1, <1>3, <1>4, Media, MovedIsSound, MoveKeeps
<1> HIDE DEF e
<1> QED BY <1>2, <1>4, <1>5 DEF SameDisk, none

-----------------------------------------------------------------------------
\* The timer's interrupt is up when an expiry is through its three cycles.
TimerSound(t) ==
  /\ t \in TimerType
  /\ t.irq <=> t.active /\ t.cd = 0

\* An acknowledgement, or the timer switched off.
LEMMA QuietKeeps ==
  ASSUME NEW t \in TimerType
  PROVE  TimerSound(Quiet(t))
<1> DEFINE no == FALSE
           e == [t EXCEPT !.irq = no, !.active = no]
<1>1. Quiet(t) = e /\ no \in BOOLEAN
  BY DEF Quiet
<1>2. e.irq = no /\ e.active = no /\ ~no
  BY DEF TimerType
<1> HIDE DEF no
<1>3. e \in TimerType
  BY <1>1 DEF TimerType
<1> HIDE DEF e
<1> QED BY <1>1, <1>2, <1>3 DEF TimerSound

\* $4020 and $4021: half of the latch is written.
LEMMA LatchKeeps ==
  ASSUME NEW t, TimerSound(t), NEW high \in BOOLEAN, NEW v \in 0..1
  PROVE  TimerSound(WriteLatch(t, high, v))
<1> DEFINE l == IF high THEN (t.latch % 2) + 2 * v ELSE t.latch - (t.latch % 2) + v
           e == [t EXCEPT !.latch = l]
<1>1. t \in TimerType /\ (t.irq <=> t.active /\ t.cd = 0)
  BY DEF TimerSound
<1>2. WriteLatch(t, high, v) = e
  BY DEF WriteLatch
<1>3. l \in 0..3
  <2>1. t.latch = 0 \/ t.latch = 1 \/ t.latch = 2 \/ t.latch = 3
    BY <1>1 DEF TimerType
  <2>2. v = 0 \/ v = 1
    OBVIOUS
  <2> QED BY <2>1, <2>2
<1> HIDE DEF l
<1>4. e \in TimerType
  BY <1>1, <1>3 DEF TimerType
<1>5. e.irq = t.irq /\ e.active = t.active /\ e.cd = t.cd
  BY <1>1 DEF TimerType
<1> HIDE DEF e
<1> QED BY <1>1, <1>2, <1>4, <1>5 DEF TimerSound

\* $4022: the timer is started, or stopped.
LEMMA Write4022Keeps ==
  ASSUME NEW t, TimerSound(t), NEW v \in 0..3
  PROVE  TimerSound(Write4022(t, v))
<1> DEFINE l == t.latch
           r == [t EXCEPT !.reg = v]
           e == [t EXCEPT !.reg = v, !.value = l]
<1>1. t \in TimerType /\ l \in 0..3
  BY DEF TimerSound, TimerType
<1>2. r \in TimerType
  BY <1>1 DEF TimerType
<1>3. TimerSound(Quiet(r))
  <2> HIDE DEF r
  <2> QED BY <1>2, QuietKeeps
<1>4. TimerSound(e)
  <2> HIDE DEF l
  <2>1. e \in TimerType
    BY <1>1 DEF TimerType
  <2>2. e.irq = t.irq /\ e.active = t.active /\ e.cd = t.cd
    BY <1>1 DEF TimerType
  <2> HIDE DEF e
  <2> QED BY <2>1, <2>2 DEF TimerSound
<1>5. Write4022(t, v) = IF v >= 2 THEN e ELSE Quiet(r)
  BY DEF Write4022
<1> HIDE DEF e, r
<1> QED BY <1>3, <1>4, <1>5

\* An expiry, or none: of a timer whose interrupt is on its way nothing moves.
LEMMA CountKeeps ==
  ASSUME NEW t \in TimerType
  PROVE  LET u == CountTimer(t) IN
         /\ u \in TimerType /\ (u.irq <=> t.irq)
         /\ t.active => u.active /\ u.cd = t.cd
         /\ ~t.active => (u.cd = t.cd /\ ~u.active) \/ (u.cd = 3 /\ u.active)
<1> DEFINE yes == TRUE
           c == t.value - 1
           x == [t EXCEPT !.value = c]
           l == t.latch
           r == IF t.reg = 2 THEN 0 ELSE t.reg
           n == IF t.active THEN t.cd ELSE 3
           y == [t EXCEPT !.value = l, !.reg = r]
           e == [y EXCEPT !.active = yes, !.cd = n]
<1>1. l \in 0..3 /\ r \in 0..3 /\ n \in 0..3 /\ yes \in BOOLEAN /\ yes
      /\ (t.value # 0 => c \in 0..3)
  BY DEF TimerType
<1>2. CountTimer(t) = t \/ (t.value # 0 /\ CountTimer(t) = x) \/ CountTimer(t) = Expire(t)
  BY DEF CountTimer
<1>3. Expire(t) = e
  BY DEF Expire, TimerType
<1>4. t.active => n = t.cd
  OBVIOUS
<1>5. ~t.active => n = 3
  OBVIOUS
<1> HIDE DEF l, r, n, yes, c
<1>6. y \in TimerType /\ y.irq = t.irq
  BY <1>1 DEF TimerType
<1>7. t.value # 0 => x \in TimerType /\ x.irq = t.irq /\ x.active = t.active /\ x.cd = t.cd
  BY <1>1 DEF TimerType
<1> HIDE DEF x, y
<1>8. e \in TimerType
  BY <1>1, <1>6 DEF TimerType
<1>9. e.irq = y.irq /\ e.active = yes /\ e.cd = n
  BY <1>6 DEF TimerType
<1> HIDE DEF e
<1>10. CASE CountTimer(t) = t
  BY <1>10
<1>11. CASE t.value # 0 /\ CountTimer(t) = x
  <2>1. x \in TimerType /\ x.irq = t.irq /\ x.active = t.active /\ x.cd = t.cd
    BY <1>7, <1>11
  <2>2. CountTimer(t) = x
    BY <1>11
  <2> QED BY <2>1, <2>2
<1>12. CASE CountTimer(t) = e
  BY <1>1, <1>4, <1>5, <1>6, <1>8, <1>9, <1>12
<1> QED BY <1>2, <1>3, <1>10, <1>11, <1>12

\* A cycle of the timer: an interrupt that is up stays up.
LEMMA ClockTimerKeeps ==
  ASSUME NEW t, TimerSound(t)
  PROVE  TimerSound(ClockTimer(t)) /\ (t.irq => ClockTimer(t).irq)
<1> DEFINE yes == TRUE
           u == CountTimer(t)
           c == IF u.cd > 0 THEN u.cd - 1 ELSE 0
           v == [u EXCEPT !.cd = c]
           e == [v EXCEPT !.irq = yes]
<1>1. t \in TimerType /\ (t.irq <=> t.active /\ t.cd = 0)
  BY DEF TimerSound
<1>2. /\ u \in TimerType /\ (u.irq <=> t.irq)
      /\ t.active => u.active /\ u.cd = t.cd
      /\ ~t.active => (u.cd = t.cd /\ ~u.active) \/ (u.cd = 3 /\ u.active)
  BY <1>1, CountKeeps
<1>3. ClockTimer(t) = IF v.cd = 0 /\ v.active THEN e ELSE v
  BY DEF ClockTimer
<1> HIDE DEF u
<1>4. c \in 0..3 /\ (u.cd = 0 => c = 0)
  BY <1>2 DEF TimerType
<1>5. yes \in BOOLEAN /\ yes
  OBVIOUS
<1> HIDE DEF c, yes
<1>6. v \in TimerType
  BY <1>2, <1>4 DEF TimerType
<1>7. v.cd = c /\ v.irq = u.irq /\ v.active = u.active
  BY <1>2 DEF TimerType
<1> HIDE DEF v
<1>8. e \in TimerType
  BY <1>5, <1>6 DEF TimerType
<1>9. e.irq = yes /\ e.cd = v.cd /\ e.active = v.active
  BY <1>6 DEF TimerType
<1> HIDE DEF e
<1>10. t.irq => v.cd = 0 /\ v.active
  BY <1>1, <1>2, <1>4, <1>7
<1>11. CASE v.cd = 0 /\ v.active
  BY <1>3, <1>5, <1>8, <1>9, <1>11 DEF TimerSound
<1>12. CASE ~(v.cd = 0 /\ v.active)
  <2>1. ~t.irq
    BY <1>10, <1>12
  <2>2. ~v.irq
    BY <1>2, <1>7, <2>1
  <2>3. ClockTimer(t) = v
    BY <1>3, <1>12
  <2> QED BY <1>6, <1>12, <2>1, <2>2, <2>3 DEF TimerSound
<1> QED BY <1>11, <1>12

\* The timer of a machine just built.
LEMMA NewTimerSound == TimerSound(NewTimer) /\ ~NewTimer.irq
  BY DEF TimerSound, NewTimer, TimerType

-----------------------------------------------------------------------------
(***************************************************************************)
(* The inductive invariant.  WritesSurvive alone is not inductive: a bit   *)
(* is kept because the copy in the drive is the side as it was loaded, so  *)
(* that the differences taken from it are those the image has to be given  *)
(* (InPlace); and the line alone is not, because an access or a dot must   *)
(* find diskirq as the drive left it (Line).                               *)
(***************************************************************************)
Types ==
  /\ program \in Programs /\ slot \in 0..4
  /\ diskdiffs \in AllDiffs
  /\ content \in [Sides -> Disks] /\ kept \in [Sides -> Disks]
  /\ diskirq \in BOOLEAN /\ IrqSignal \in BOOLEAN

InPlace ==
  /\ Sound(drive)
  /\ currentside \in Sides \cup {-1}
  /\ currentside = -1 <=> drive.disk = <<>>
  /\ currentside # -1 => drive.originaldisk = Image[currentside]

Line ==
  /\ TimerSound(timer)
  /\ diskirq <=> drive.irq
  /\ IrqSignal <=> drive.irq \/ timer.irq

IInv == Types /\ InPlace /\ Line /\ WritesSurvive

\* What a drive or a timer that is sound has for an interrupt.
LEMMA Interrupts ==
  /\ \A d : Sound(d) => d.irq \in BOOLEAN
  /\ \A t : TimerSound(t) => t.irq \in BOOLEAN
  BY DEF Sound, DriveType, TimerSound, TimerType

\* What is on a side, in the words of the differences.
LEMMA Holds ==
  ASSUME NEW s \in Sides
  PROVE  /\ s = currentside => SideHolds(s) = drive.disk
         /\ s # currentside => SideHolds(s) = Stored(diskdiffs, s)
         /\ StoredSide(s) = Stored(diskdiffs, s)
  BY DEF SideHolds, StoredSide, Stored

\* The same in the state after a step.
LEMMA HoldsNext ==
  ASSUME NEW s \in Sides
  PROVE  /\ s = currentside' => SideHolds(s)' = drive'.disk
         /\ s # currentside' => SideHolds(s)' = Stored(diskdiffs', s)
         /\ StoredSide(s)' = Stored(diskdiffs', s)
  BY DEF SideHolds, StoredSide, Stored

\* What is kept of a side is what its differences give back.
LEMMA KeptIsStored ==
  ASSUME IInv, NEW s \in Sides
  PROVE  Stored(diskdiffs, s) = kept[s]
  BY Holds DEF IInv, WritesSurvive

\* A side in the drive is on a disk.
LEMMA InDrive ==
  ASSUME IInv
  PROVE  currentside # -1 => /\ currentside \in Sides /\ drive.disk \in Disks
                             /\ drive.originaldisk = Image[currentside]
                             /\ content[currentside] = drive.disk
<1> SUFFICES ASSUME currentside # -1
             PROVE  /\ currentside \in Sides /\ drive.disk \in Disks
                    /\ drive.originaldisk = Image[currentside]
                    /\ content[currentside] = drive.disk
  OBVIOUS
<1>1. Sound(drive) /\ currentside \in Sides /\ drive.disk # <<>>
      /\ drive.originaldisk = Image[currentside]
  BY DEF IInv, InPlace
<1>2. drive.disk \in Disks
  BY <1>1 DEF Sound, DriveType, Diffs
<1>3. content[currentside] = drive.disk
  BY <1>1, Holds DEF IInv, WritesSurvive
<1> QED BY <1>1, <1>2, <1>3

\* What an eject or a save stores is what each side holds.
LEMMA StoredHolds ==
  ASSUME IInv
  PROVE  /\ StoredDiffs \in AllDiffs
         /\ \A s \in Sides : Stored(StoredDiffs, s) = content[s]
<1>1. diskdiffs \in AllDiffs /\ \A s \in Sides : SideHolds(s) = content[s]
  BY DEF IInv, Types, WritesSurvive
<1>2. CASE currentside = -1
  <2>1. StoredDiffs = diskdiffs
    BY <1>2 DEF StoredDiffs
  <2>2. \A s \in Sides : s # currentside
    BY <1>2, Media
  <2> QED BY <1>1, <2>1, <2>2, Holds
<1>3. CASE currentside # -1
  <2> DEFINE x == Xor(drive.disk, drive.originaldisk)
             m == Image[currentside]
  <2>1. currentside \in Sides /\ drive.disk \in Disks /\ drive.originaldisk = m
        /\ content[currentside] = drive.disk
    BY <1>3, InDrive
  <2>2. m \in Disks
    BY <2>1, Media
  <2>3. x \in Disks /\ Xor(m, x) = drive.disk
    BY <2>1, <2>2, XorUndoes
  <2>4. StoredDiffs = [diskdiffs EXCEPT ![currentside] = x]
    BY <1>3 DEF StoredDiffs, MakeDiff
  <2> HIDE DEF x, m
  <2>5. x \in Diffs /\ x # <<>>
    BY <2>3, NoDiskIsEmpty DEF Diffs
  <2>6. StoredDiffs \in AllDiffs
    BY <1>1, <2>1, <2>4, <2>5 DEF AllDiffs
  <2>7. StoredDiffs[currentside] = x
        /\ \A s \in Sides : s # currentside => StoredDiffs[s] = diskdiffs[s]
    BY <1>1, <2>1, <2>4 DEF AllDiffs
  <2>8. Stored(StoredDiffs, currentside) = drive.disk
    BY <2>3, <2>5, <2>7 DEF Stored, m
  <2>9. ASSUME NEW s \in Sides, s # currentside
        PROVE  Stored(StoredDiffs, s) = content[s]
    <3>1. Stored(StoredDiffs, s) = Stored(diskdiffs, s)
      BY <2>7, <2>9 DEF Stored
    <3> QED BY <1>1, <2>9, <3>1, Holds
  <2> QED BY <2>1, <2>6, <2>8, <2>9
<1> QED BY <1>2, <1>3

\* And when it is kept, what is kept of each side is what it holds.
LEMMA KeepSideKeeps ==
  ASSUME IInv, KeepSide
  PROVE  kept' \in [Sides -> Disks] /\ \A s \in Sides : kept'[s] = content[s]
<1>1. content \in [Sides -> Disks] /\ kept \in [Sides -> Disks]
      /\ currentside \in Sides \cup {-1}
  BY DEF IInv, Types, InPlace
<1>2. kept' = IF currentside = -1 THEN kept ELSE [kept EXCEPT ![currentside] = content[currentside]]
  BY DEF KeepSide
<1>3. kept' \in [Sides -> Disks]
  BY <1>1, <1>2
<1>4. ASSUME NEW s \in Sides PROVE kept'[s] = content[s]
  <2>1. CASE s = currentside
    <3>1. currentside # -1
      BY <2>1, Media
    <3> QED BY <1>1, <1>2, <2>1, <3>1
  <2>2. CASE s # currentside
    <3>1. kept'[s] = kept[s]
      BY <1>1, <1>2, <2>2
    <3>2. kept[s] = SideHolds(s)
      BY <2>2, KeptIsStored, Holds
    <3>3. SideHolds(s) = content[s]
      BY DEF IInv, WritesSurvive
    <3> QED BY <3>1, <3>2, <3>3
  <2> QED BY <2>1, <2>2
<1> QED BY <1>3, <1>4

\* The first state.
LEMMA Initially == ASSUME Init PROVE IInv
<1>1. diskdiffs = [s \in Sides |-> <<>>] /\ drive = InsertSide(NoDisk, 0, diskdiffs)
      /\ currentside = 0 /\ timer = NewTimer /\ ~diskirq /\ diskirq \in BOOLEAN
      /\ ~IrqSignal /\ IrqSignal \in BOOLEAN /\ content = Image /\ kept = Image /\ slot = 0
      /\ program \in Programs
  BY DEF Init
<1>2. diskdiffs \in AllDiffs /\ \A s \in Sides : Stored(diskdiffs, s) = Image[s]
  BY <1>1 DEF AllDiffs, Diffs, Stored
<1>3. Sound(drive) /\ drive.disk = Stored(diskdiffs, 0) /\ drive.originaldisk = Image[0]
      /\ drive.irq = NoDisk.irq
  BY <1>1, <1>2, Media, NoDiskIsDrive, InsertSideWorks
<1>4. drive.disk = Image[0] /\ drive.disk # <<>> /\ ~drive.irq
  BY <1>2, <1>3, Media, NoDiskIsEmpty, NoDiskIsDrive
<1>5. Types
  BY <1>1, <1>2, Media DEF Types
<1>6. InPlace
  BY <1>1, <1>3, <1>4, Media DEF InPlace
<1>7. Line
  BY <1>1, <1>4, NewTimerSound DEF Line
<1>8. WritesSurvive
  <2> SUFFICES ASSUME NEW s \in Sides
               PROVE  SideHolds(s) = Image[s] /\ StoredSide(s) = Image[s]
    BY <1>1 DEF WritesSurvive
  <2> QED BY <1>1, <1>2, <1>4, Holds
<1> QED BY <1>5, <1>6, <1>7, <1>8 DEF IInv

-----------------------------------------------------------------------------
\* While the disk in the drive is left alone, so is what every side holds.
LEMMA MediaKeep ==
  ASSUME IInv, UNCHANGED media, Sound(drive'), SameDisk(drive, drive')
  PROVE  InPlace' /\ WritesSurvive'
<1>1. Sound(drive') /\ drive'.disk = drive.disk /\ drive'.originaldisk = drive.originaldisk
      /\ currentside' = currentside /\ diskdiffs' = diskdiffs /\ content' = content
      /\ kept' = kept
  BY DEF SameDisk, media
<1>2. InPlace'
  BY <1>1 DEF IInv, InPlace
<1>3. ASSUME NEW s \in Sides PROVE SideHolds(s)' = content'[s] /\ StoredSide(s)' = kept'[s]
  <2>1. SideHolds(s) = content[s] /\ StoredSide(s) = kept[s]
    BY DEF IInv, WritesSurvive
  <2> QED BY <1>1, <2>1, Holds, HoldsNext
<1>4. WritesSurvive'
  BY <1>3 DEF WritesSurvive
<1> QED BY <1>2, <1>4

\* The end of every access.
LEMMA AccessKeeps ==
  ASSUME IInv, EndAccess, Sound(drive'), SameDisk(drive, drive'), TimerSound(timer')
  PROVE  IInv'
<1>1. diskirq' = drive'.irq /\ IrqSignal' = (diskirq' \/ timer'.irq) /\ slot' = 1
      /\ program' = program /\ UNCHANGED media
  BY DEF EndAccess, SyncFdsIrq
<1>2. drive'.irq \in BOOLEAN /\ timer'.irq \in BOOLEAN
  BY Interrupts
<1>3. diskdiffs' = diskdiffs /\ content' = content /\ kept' = kept
  BY <1>1 DEF media
<1>4. Types'
  <2>1. program' \in Programs /\ slot' \in 0..4
    BY <1>1 DEF IInv, Types
  <2>2. diskdiffs' \in AllDiffs /\ content' \in [Sides -> Disks] /\ kept' \in [Sides -> Disks]
    BY <1>3 DEF IInv, Types
  <2>3. diskirq' \in BOOLEAN /\ IrqSignal' \in BOOLEAN
    BY <1>1, <1>2
  <2> QED BY <2>1, <2>2, <2>3 DEF Types
<1>5. Line'
  BY <1>1, <1>2 DEF Line
<1>6. InPlace' /\ WritesSurvive'
  BY <1>1, MediaKeep
<1> QED BY <1>4, <1>5, <1>6 DEF IInv

\* $4020, $4021 and $4022.
LEMMA WriteTimerKeeps == ASSUME IInv, WriteTimer PROVE IInv'
<1>1. Sound(drive) /\ TimerSound(timer) /\ drive' = drive /\ EndAccess
  BY DEF IInv, InPlace, Line, WriteTimer
<1>2. TimerSound(timer')
  <2>1. CASE \E high \in BOOLEAN, v \in 0..1 : timer' = WriteLatch(timer, high, v)
    BY <1>1, <2>1, LatchKeeps
  <2>2. CASE \E v \in 0..3 : timer' = IF diskenable THEN Write4022(timer, v) ELSE timer
    BY <1>1, <2>2, Write4022Keeps
  <2> QED BY <2>1, <2>2 DEF WriteTimer
<1> QED BY <1>1, <1>2, AccessKeeps DEF SameDisk

\* $4023.
LEMMA Write4023Keeps == ASSUME IInv, Write4023 PROVE IInv'
<1>1. Sound(drive) /\ TimerSound(timer) /\ drive' = drive /\ EndAccess
      /\ timer' = IF diskenable' THEN timer ELSE Quiet(timer)
  BY DEF IInv, InPlace, Line, Write4023
<1>2. TimerSound(timer')
  BY <1>1, QuietKeeps DEF TimerSound
<1> QED BY <1>1, <1>2, AccessKeeps DEF SameDisk

\* $4024 and $4025.
LEMMA WriteDriveKeeps == ASSUME IInv, WriteDrive PROVE IInv'
<1>1. Sound(drive) /\ TimerSound(timer) /\ timer' = timer /\ EndAccess
      /\ program \in Programs
  BY DEF IInv, Types, InPlace, Line, WriteDrive
<1>2. Sound(drive') /\ SameDisk(drive, drive')
  <2>1. CASE drive' = IF diskenable THEN Write4024(drive) ELSE drive
    BY <1>1, <2>1, AccessesKeep DEF SameDisk
  <2>2. CASE \E v \in program.controls :
               drive' = IF diskenable THEN Write4025(drive, v) ELSE drive
    <3>1. PICK v \in program.controls :
                 drive' = IF diskenable THEN Write4025(drive, v) ELSE drive
      BY <2>2
    <3>2. v \in SUBSET ControlBits
      BY <1>1, ProgramsAssumption
    <3> QED BY <1>1, <3>1, <3>2, AccessesKeep DEF SameDisk
  <2> QED BY <2>1, <2>2 DEF WriteDrive
<1> QED BY <1>1, <1>2, AccessKeeps

\* $4030 and $4031.
LEMMA ReadExpKeeps == ASSUME IInv, ReadExp PROVE IInv'
<1>1. Sound(drive) /\ TimerSound(timer) /\ EndAccess
      /\ drive' = IF diskenable THEN Acknowledged(drive) ELSE drive
  BY DEF IInv, InPlace, Line, ReadExp
<1>2. Sound(drive') /\ SameDisk(drive, drive')
  BY <1>1, AccessesKeep DEF SameDisk
<1>3. TimerSound(timer')
  <2>1. TimerSound(Quiet(timer))
    BY <1>1, QuietKeeps DEF TimerSound
  <2>2. timer' = timer \/ timer' = Quiet(timer)
    BY DEF ReadExp
  <2> QED BY <1>1, <2>1, <2>2
<1> QED BY <1>1, <1>2, <1>3, AccessKeeps

\* A cycle of the adapter: the line is taken down by nothing but an
\* acknowledgement, and up when the timer's interrupt is.
LEMMA ClockCpuKeeps == ASSUME IInv, ClockCpu PROVE IInv'
<1>1. /\ slot' = 2 /\ timer' = ClockTimer(timer) /\ diskirq' = diskirq
      /\ program' = program /\ drive' = drive /\ UNCHANGED media
  BY DEF ClockCpu
<1>2. TimerSound(timer) /\ (diskirq <=> drive.irq) /\ (IrqSignal <=> drive.irq \/ timer.irq)
  BY DEF IInv, Line
<1>3. TimerSound(timer') /\ (timer.irq => timer'.irq)
  BY <1>1, <1>2, ClockTimerKeeps
<1>4. drive.irq \in BOOLEAN /\ timer.irq \in BOOLEAN /\ timer'.irq \in BOOLEAN
  BY <1>2, <1>3, Interrupts DEF IInv, InPlace
<1>5. diskirq \in BOOLEAN /\ IrqSignal \in BOOLEAN
  BY DEF IInv, Types
<1>6. IrqSignal' \in BOOLEAN /\ (IrqSignal' <=> drive.irq \/ timer'.irq)
  <2>1. CASE timer'.cd = 0 /\ timer'.active
    <3>1. IrqSignal' = (diskirq' \/ timer'.irq)
      BY <2>1 DEF ClockCpu, SyncFdsIrq
    <3> QED BY <1>1, <1>2, <1>4, <1>5, <3>1
  <2>2. CASE ~(timer'.cd = 0 /\ timer'.active)
    <3>1. IrqSignal' = IrqSignal
      BY <2>2 DEF ClockCpu
    <3>2. ~timer'.irq /\ ~timer.irq
      BY <1>3, <2>2 DEF TimerSound
    <3> QED BY <1>2, <1>5, <3>1, <3>2
  <2> QED BY <2>1, <2>2
<1>7. Line'
  BY <1>1, <1>2, <1>3, <1>6 DEF Line
<1>8. Types'
  <2>1. program' \in Programs /\ slot' \in 0..4 /\ diskdiffs' = diskdiffs /\ content' = content
        /\ kept' = kept
    BY <1>1 DEF IInv, Types, media
  <2> QED BY <1>1, <1>5, <1>6, <2>1 DEF IInv, Types
<1>9. InPlace' /\ WritesSurvive'
  BY <1>1, MediaKeep DEF IInv, InPlace, SameDisk
<1> QED BY <1>7, <1>8, <1>9 DEF IInv

\* A dot of the drive: what it writes is what the side then holds.
LEMMA ClockPpuKeeps == ASSUME IInv, ClockPpu PROVE IInv'
<1>1. /\ drive' \in Clock(drive)
      /\ content' = IF currentside = -1 THEN content
                    ELSE [content EXCEPT ![currentside] = drive'.disk]
      /\ diskirq' = drive'.irq /\ timer' = timer /\ IrqSignal' = (diskirq' \/ timer'.irq)
      /\ program' = program /\ currentside' = currentside /\ diskdiffs' = diskdiffs
      /\ kept' = kept
      /\ slot \in {2, 3, 4} /\ slot' = IF slot = 4 THEN 0 ELSE slot + 1
  BY DEF ClockPpu, SyncFdsIrq
<1>2. Sound(drive)
  BY DEF IInv, InPlace
<1>3. Turned(drive, drive')
  BY <1>1, <1>2, ClockKeeps
<1>4. /\ Sound(drive') /\ drive'.originaldisk = drive.originaldisk
      /\ drive.disk \in Disks => drive'.disk \in Disks
      /\ drive.disk = <<>> => drive'.disk = <<>>
  BY <1>3 DEF Turned
<1>5. /\ currentside \in Sides \cup {-1} /\ (currentside = -1 <=> drive.disk = <<>>)
      /\ currentside # -1 => drive.originaldisk = Image[currentside]
      /\ currentside # -1 => drive.disk \in Disks
  BY InDrive DEF IInv, InPlace
<1>6. TimerSound(timer) /\ drive'.irq \in BOOLEAN /\ timer.irq \in BOOLEAN
  BY <1>4, Interrupts DEF IInv, Line
<1>7. InPlace'
  <2>1. currentside = -1 <=> drive'.disk = <<>>
    BY <1>4, <1>5, NoDiskIsEmpty
  <2> QED BY <1>1, <1>4, <1>5, <2>1 DEF InPlace
<1>8. Line'
  BY <1>1, <1>6 DEF Line
<1>9. content \in [Sides -> Disks]
  BY DEF IInv, Types
<1>10. content' \in [Sides -> Disks]
  BY <1>1, <1>4, <1>5, <1>9
<1>11. Types'
  <2>1. program' \in Programs /\ diskdiffs' \in AllDiffs /\ kept' \in [Sides -> Disks]
    BY <1>1 DEF IInv, Types
  <2>2. slot' \in 0..4
    BY <1>1
  <2>3. diskirq' \in BOOLEAN /\ IrqSignal' \in BOOLEAN
    BY <1>1, <1>6
  <2> QED BY <1>10, <2>1, <2>2, <2>3 DEF Types
<1>12. ASSUME NEW s \in Sides PROVE SideHolds(s)' = content'[s] /\ StoredSide(s)' = kept'[s]
  <2>1. SideHolds(s) = content[s]
    BY DEF IInv, WritesSurvive
  <2>2. StoredSide(s)' = kept'[s]
    BY <1>1, KeptIsStored, HoldsNext
  <2>3. CASE s = currentside
    <3>1. content'[s] = drive'.disk
      BY <1>1, <1>9, <2>3, Media
    <3> QED BY <1>1, <2>2, <2>3, <3>1, HoldsNext
  <2>4. CASE s # currentside
    <3>1. content'[s] = content[s]
      BY <1>1, <1>9, <2>4
    <3> QED BY <1>1, <2>1, <2>2, <2>4, <3>1, Holds, HoldsNext
  <2> QED BY <2>3, <2>4
<1>13. WritesSurvive'
  BY <1>12 DEF WritesSurvive
<1> QED BY <1>7, <1>8, <1>11, <1>13 DEF IInv

-----------------------------------------------------------------------------
\* While the front end works the line is as it was.
LEMMA FrontEndKeeps ==
  ASSUME IInv, UNCHANGED frontEnd, drive'.irq = drive.irq
  PROVE  Line' /\ program' \in Programs /\ slot' \in 0..4
         /\ diskirq' \in BOOLEAN /\ IrqSignal' \in BOOLEAN
<1>1. program' = program /\ slot' = slot /\ timer' = timer /\ diskirq' = diskirq
      /\ IrqSignal' = IrqSignal
  BY DEF frontEnd
<1> QED BY <1>1 DEF IInv, Line, Types

\* The disk is taken out, and what was written on it kept.
LEMMA EjectKeeps == ASSUME IInv, Eject PROVE IInv'
<1>1. diskdiffs' = StoredDiffs /\ drive' = EjectDrive(drive) /\ currentside' = -1
      /\ content' = content /\ KeepSide /\ UNCHANGED frontEnd
  BY DEF Eject
<1>2. Sound(drive') /\ drive'.disk = <<>> /\ drive'.irq = drive.irq
  BY <1>1, EjectDriveWorks DEF IInv, InPlace
<1>3. diskdiffs' \in AllDiffs /\ \A s \in Sides : Stored(diskdiffs', s) = content'[s]
  BY <1>1, StoredHolds
<1>4. Line' /\ program' \in Programs /\ slot' \in 0..4
      /\ diskirq' \in BOOLEAN /\ IrqSignal' \in BOOLEAN
  BY <1>1, <1>2, FrontEndKeeps
<1>5. content' \in [Sides -> Disks] /\ kept' \in [Sides -> Disks]
      /\ \A s \in Sides : kept'[s] = content'[s]
  BY <1>1, KeepSideKeeps DEF IInv, Types
<1>6. Types'
  BY <1>3, <1>4, <1>5 DEF Types
<1>7. InPlace'
  BY <1>1, <1>2 DEF InPlace
<1>8. \A s \in Sides : s # currentside'
  BY <1>1, Media
<1>9. WritesSurvive'
  BY <1>3, <1>5, <1>8, HoldsNext DEF WritesSurvive
<1> QED BY <1>4, <1>6, <1>7, <1>9 DEF IInv

\* A side is put in; one that was in without being taken out first is again
\* what was kept of it.
LEMMA InsertButtonKeeps ==
  ASSUME IInv, NEW side \in Sides, InsertButton(side)
  PROVE  IInv'
<1>1. /\ content' = IF currentside = -1 THEN content
                    ELSE [content EXCEPT ![currentside] = kept[currentside]]
      /\ drive' = InsertSide(drive, side, diskdiffs) /\ currentside' = side
      /\ diskdiffs' = diskdiffs /\ kept' = kept /\ UNCHANGED frontEnd
  BY DEF InsertButton
<1>2. drive \in DriveType /\ diskdiffs \in AllDiffs /\ content \in [Sides -> Disks]
      /\ kept \in [Sides -> Disks] /\ currentside \in Sides \cup {-1}
  BY DEF IInv, Types, InPlace, Sound
<1>3. Sound(drive') /\ drive'.disk = Stored(diskdiffs, side)
      /\ drive'.originaldisk = Image[side] /\ drive'.irq = drive.irq
  BY <1>1, <1>2, InsertSideWorks
<1>4. Line' /\ program' \in Programs /\ slot' \in 0..4
      /\ diskirq' \in BOOLEAN /\ IrqSignal' \in BOOLEAN
  BY <1>1, <1>3, FrontEndKeeps
<1>5. \A s \in Sides : content'[s] = Stored(diskdiffs, s)
  <2> TAKE s \in Sides
  <2>1. SideHolds(s) = content[s]
    BY DEF IInv, WritesSurvive
  <2>2. CASE s = currentside
    <3>1. currentside # -1
      BY <2>2, Media
    <3> QED BY <1>1, <1>2, <2>2, <3>1, KeptIsStored
  <2>3. CASE s # currentside
    <3>1. content'[s] = content[s]
      BY <1>1, <1>2, <2>3
    <3> QED BY <2>1, <2>3, <3>1, Holds
  <2> QED BY <2>2, <2>3
<1>6. content' \in [Sides -> Disks]
  BY <1>1, <1>2, StoredIsDisk
<1>7. Types'
  BY <1>1, <1>2, <1>4, <1>6 DEF Types
<1>8. drive'.disk # <<>> /\ side # -1
  BY <1>2, <1>3, StoredIsDisk, NoDiskIsEmpty, Media
<1>9. InPlace'
  BY <1>1, <1>3, <1>8 DEF InPlace
<1>10. ASSUME NEW s \in Sides PROVE SideHolds(s)' = content'[s] /\ StoredSide(s)' = kept'[s]
  BY <1>1, <1>3, <1>5, KeptIsStored, HoldsNext
<1>11. WritesSurvive'
  BY <1>10 DEF WritesSurvive
<1> QED BY <1>4, <1>7, <1>9, <1>11 DEF IInv

\* A save: what it stores is what every side holds.
LEMMA ReadSaveRamKeeps == ASSUME IInv, ReadSaveRam PROVE IInv'
<1>1. diskdiffs' = StoredDiffs /\ drive' = drive /\ currentside' = currentside
      /\ content' = content /\ KeepSide /\ UNCHANGED frontEnd
  BY DEF ReadSaveRam
<1>2. diskdiffs' \in AllDiffs /\ \A s \in Sides : Stored(diskdiffs', s) = content'[s]
  BY <1>1, StoredHolds
<1>3. Line' /\ program' \in Programs /\ slot' \in 0..4
      /\ diskirq' \in BOOLEAN /\ IrqSignal' \in BOOLEAN
  BY <1>1, FrontEndKeeps
<1>4. content' \in [Sides -> Disks] /\ kept' \in [Sides -> Disks]
      /\ \A s \in Sides : kept'[s] = content'[s]
  BY <1>1, KeepSideKeeps DEF IInv, Types
<1>5. Types'
  BY <1>2, <1>3, <1>4 DEF Types
<1>6. InPlace'
  BY <1>1 DEF IInv, InPlace
<1>7. ASSUME NEW s \in Sides PROVE SideHolds(s)' = content'[s] /\ StoredSide(s)' = kept'[s]
  <2>1. SideHolds(s) = content[s]
    BY DEF IInv, WritesSurvive
  <2> QED BY <1>1, <1>2, <1>4, <2>1, Holds, HoldsNext
<1>8. WritesSurvive'
  BY <1>7 DEF WritesSurvive
<1> QED BY <1>3, <1>5, <1>6, <1>8 DEF IInv

\* A new session, given what the last one saved.
LEMMA RestartKeeps == ASSUME IInv, Restart PROVE IInv'
<1> DEFINE none == [s \in Sides |-> <<>>]
           d == InsertSide(NoDisk, 0, none)
<1>1. /\ diskdiffs' = StoredDiffs /\ drive' = ApplyDiff(d, diskdiffs'[0])
      /\ currentside' = 0 /\ timer' = NewTimer
      /\ ~diskirq' /\ diskirq' \in BOOLEAN /\ ~IrqSignal' /\ IrqSignal' \in BOOLEAN
      /\ slot' = 0 /\ program' = program /\ content' = content /\ KeepSide
  BY DEF Restart
<1>2. none \in AllDiffs /\ Stored(none, 0) = Image[0]
  BY Media DEF AllDiffs, Diffs, Stored
<1> HIDE DEF none
<1>3. Sound(d) /\ d.disk = Image[0] /\ d.originaldisk = Image[0] /\ d.irq = NoDisk.irq
  BY <1>2, Media, NoDiskIsDrive, InsertSideWorks
<1> HIDE DEF d
<1>4. diskdiffs' \in AllDiffs /\ \A s \in Sides : Stored(diskdiffs', s) = content'[s]
  BY <1>1, StoredHolds
<1>5. Sound(drive') /\ drive'.disk = Stored(diskdiffs', 0)
      /\ drive'.originaldisk = d.originaldisk /\ drive'.irq = d.irq
  <2> DEFINE n == diskdiffs'
  <2>1. n \in AllDiffs /\ drive' = ApplyDiff(d, n[0])
    BY <1>1, <1>4
  <2> HIDE DEF n
  <2>2. Sound(drive') /\ drive'.disk = Stored(n, 0)
        /\ drive'.originaldisk = d.originaldisk /\ drive'.irq = d.irq
    BY <1>3, <2>1, Media, ApplyWorks
  <2> QED BY <2>2 DEF n
<1>6. drive'.disk # <<>> /\ drive'.originaldisk = Image[0] /\ ~drive'.irq
  BY <1>3, <1>4, <1>5, Media, NoDiskIsDrive, NoDiskIsEmpty, StoredIsDisk
<1>7. program' \in Programs /\ content' \in [Sides -> Disks] /\ slot' \in 0..4
      /\ kept' \in [Sides -> Disks] /\ \A s \in Sides : kept'[s] = content'[s]
  BY <1>1, KeepSideKeeps DEF IInv, Types
<1>8. Types'
  BY <1>1, <1>4, <1>7 DEF Types
<1>9. InPlace'
  BY <1>1, <1>5, <1>6, Media DEF InPlace
<1>10. Line'
  BY <1>1, <1>6, NewTimerSound DEF Line
<1>11. ASSUME NEW s \in Sides PROVE SideHolds(s)' = content'[s] /\ StoredSide(s)' = kept'[s]
  BY <1>1, <1>4, <1>5, <1>7, HoldsNext
<1>12. WritesSurvive'
  BY <1>11 DEF WritesSurvive
<1> QED BY <1>8, <1>9, <1>10, <1>12 DEF IInv

-----------------------------------------------------------------------------
\* Every step keeps the invariant.
LEMMA NextKeeps == ASSUME IInv, [Next]_vars PROVE IInv'
<1>1. CASE Next
  BY <1>1, WriteTimerKeeps, Write4023Keeps, WriteDriveKeeps, ReadExpKeeps, ClockCpuKeeps,
     ClockPpuKeeps, EjectKeeps, InsertButtonKeeps, ReadSaveRamKeeps, RestartKeeps DEF Next
<1>2. CASE UNCHANGED vars
  <2>1. program' = program /\ slot' = slot /\ timer' = timer /\ drive' = drive
        /\ diskirq' = diskirq /\ IrqSignal' = IrqSignal /\ content' = content
        /\ kept' = kept /\ diskdiffs' = diskdiffs /\ UNCHANGED media
    BY <1>2 DEF vars, media
  <2>2. Types' /\ Line'
    BY <2>1 DEF IInv, Types, Line
  <2>3. InPlace' /\ WritesSurvive'
    BY <2>1, MediaKeep DEF IInv, InPlace, SameDisk
  <2> QED BY <2>2, <2>3 DEF IInv
<1> QED BY <1>1, <1>2

\* So it always holds.
LEMMA Invariance == Spec => []IInv
<1>1. Init => IInv
  BY Initially
<1>2. IInv /\ [Next]_vars => IInv'
  BY NextKeeps
<1> QED BY <1>1, <1>2, PTL DEF Spec

\* Every wait, register and position is in its range, and the head of a drive
\* that runs, spins up or is being loaded over a bit of a disk, whatever was
\* ejected, inserted, skipped or restored before.
THEOREM TypeCorrect == Spec => []TypeOK
<1>1. IInv => TypeOK
  <2> SUFFICES ASSUME IInv PROVE TypeOK
    OBVIOUS
  <2>1. Sound(drive) /\ currentside \in Sides \cup {-1}
        /\ (currentside = -1 <=> drive.disk = <<>>) /\ timer \in TimerType
    BY DEF IInv, InPlace, Line, TimerSound
  <2>2. drive \in DriveType /\ drive.cycleswaiting \in 1..Cycles[drive.state]
    BY <2>1 DEF Sound
  <2>3. drive.state \in DOMAIN Cycles
    BY <2>2, CyclesAssumption DEF DriveType
  <2>4. drive.readregpos \in 0..ByteBits - 1 /\ drive.writeregpos \in 0..ByteBits - 1
    BY <2>2 DEF DriveType
  <2>5. timer.reg \in 0..3 /\ timer.cd \in 0..3 /\ timer.value \in 0..3 /\ timer.latch \in 0..3
    BY <2>1 DEF TimerType
  <2>6. drive.state \notin {"Idle", "Reset"} => drive.disk # <<>> /\ drive.diskpos < DiskSize
    BY <2>1, NoDiskIsEmpty DEF Sound
  <2> QED BY <2>1, <2>2, <2>3, <2>4, <2>5, <2>6 DEF TypeOK
<1> QED BY <1>1, Invariance, PTL

\* What the drive wrote on a side is what the side holds, and what is read
\* when it is put in again, through every eject, save and new session; what it
\* held when last ejected or saved is what its differences give back.  Only what
\* was written since then is lost, when a side is put in over it.
THEOREM WritesAlwaysSurvive == Spec => []WritesSurvive
<1>1. IInv => WritesSurvive
  BY DEF IInv
<1> QED BY <1>1, Invariance, PTL

\* The interrupt line is up for exactly the drive's interrupt and the timer's,
\* at every point of a cycle, and the timer's from the third cycle after an
\* expiry until it is acknowledged.
THEOREM LineAlwaysFollows == Spec => []InterruptLine
<1>1. IInv => InterruptLine
  <2> SUFFICES ASSUME IInv PROVE InterruptLine
    OBVIOUS
  <2>1. Sound(drive) /\ TimerSound(timer) /\ IrqSignal \in BOOLEAN
        /\ (IrqSignal <=> drive.irq \/ timer.irq)
    BY DEF IInv, InPlace, Line, Types
  <2>2. IrqSignal = (drive.irq \/ timer.irq)
    BY <2>1, Interrupts
  <2>3. timer.irq <=> timer.active /\ timer.cd = 0
    BY <2>1 DEF TimerSound
  <2> QED BY <2>2, <2>3 DEF InterruptLine
<1> QED BY <1>1, Invariance, PTL
=============================================================================

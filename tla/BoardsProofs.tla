---------------------------- MODULE BoardsProofs ----------------------------
(***************************************************************************)
(* For every cartridge that has the pages its board selects and every      *)
(* program: no page is read that is not there, no output of a mapper is    *)
(* older than its registers, MMC3 clocks its counter once for each         *)
(* filtered rise of A12, and MMC1's shift register with its timeout        *)
(* implements the port.                                                    *)
(***************************************************************************)
EXTENDS Boards, SequenceTheorems, TLAPS

(***************************************************************************)
(* MMC1 between two steps.                                                 *)
(***************************************************************************)
Mmc1s ==
  [shift_count : 0..4, shift_val : 0..31, chr_mode : 0..1, prg_mode : 0..1, prg_slot : 0..1,
   chr_0 : 0..31, chr_1 : 0..31, prg : 0..15, wram_disable : 0..1, mirror : MirrorTypes,
   ppuclock : 0..PpuTimeout, chr_banks_4k : (0..31) \X (0..31), prg_banks_16k : (0..15) \X (0..15)]

Counts == 0..4
Values5 == 0..31
RegNumbers == 0..3

\* Sync1 has nothing left to do.
Synced1(m) == m.chr_banks_4k = ChrBanks4k(m) /\ m.prg_banks_16k = PrgBanks16k(m)

-----------------------------------------------------------------------------
\* The bits of a byte.
LEMMA BitValues ==
  ASSUME NEW v \in 0..255
  PROVE  /\ Bit(v, 0) = v % 2 /\ Bit(v, 1) = (v \div 2) % 2 /\ Bit(v, 2) = (v \div 4) % 2
         /\ Bit(v, 3) = (v \div 8) % 2 /\ Bit(v, 4) = (v \div 16) % 2
         /\ Bit(v, 6) = (v \div 64) % 2 /\ Bit(v, 7) = (v \div 128) % 2
BY DEF Bit

\* A bit is 0 or 1.
LEMMA BitRange ==
  ASSUME NEW v \in 0..255
  PROVE  \A i \in {0, 1, 2, 3, 4, 6, 7} : Bit(v, i) \in 0..1
<1>1. /\ v % 2 \in 0..1 /\ (v \div 2) % 2 \in 0..1 /\ (v \div 4) % 2 \in 0..1
      /\ (v \div 8) % 2 \in 0..1 /\ (v \div 16) % 2 \in 0..1
      /\ (v \div 64) % 2 \in 0..1 /\ (v \div 128) % 2 \in 0..1
  OBVIOUS
<1> QED BY <1>1, BitValues

\* Five bits make up their number.
LEMMA FiveBits ==
  ASSUME NEW v \in 0..31
  PROVE  /\ (v % 4) + 4 * Bit(v, 2) + 8 * Bit(v, 3) + 16 * Bit(v, 4) = v
         /\ (v % 16) + 16 * Bit(v, 4) = v
<1>1. (v % 4) + 4 * ((v \div 4) % 2) + 8 * ((v \div 8) % 2) + 16 * ((v \div 16) % 2) = v
  OBVIOUS
<1>2. (v % 16) + 16 * ((v \div 16) % 2) = v
  OBVIOUS
<1>3. v \in 0..255
  OBVIOUS
<1> QED BY <1>1, <1>2, <1>3, BitValues

\* The banks that Sync1 computes are in range.
LEMMA BankRanges ==
  ASSUME NEW m \in Mmc1s
  PROVE  /\ ChrBanks4k(m) \in (0..31) \X (0..31)
         /\ PrgBanks16k(m) \in (0..15) \X (0..15)
<1>1. m.chr_0 \in 0..31 /\ m.chr_1 \in 0..31 /\ m.prg \in 0..15
      /\ m.chr_mode \in 0..1 /\ m.prg_mode \in 0..1 /\ m.prg_slot \in 0..1
  BY DEF Mmc1s
<1>2. Bit(m.chr_0, 0) = m.chr_0 % 2 /\ Bit(m.prg, 0) = m.prg % 2
  BY <1>1, BitValues
<1>3. /\ m.chr_0 - (m.chr_0 % 2) \in 0..30
      /\ m.prg - (m.prg % 2) \in 0..14
  BY <1>1
<1>4. ChrBanks4k(m) \in (0..31) \X (0..31)
  BY <1>1, <1>2, <1>3 DEF ChrBanks4k
<1>5. PrgBanks16k(m) \in (0..15) \X (0..15)
  <2>1. CASE m.prg_mode = 0
    <3> DEFINE even == m.prg - Bit(m.prg, 0)
    <3>1. even \in 0..15 /\ even + 1 \in 0..15
      BY <1>1, <1>2, <1>3
    <3>2. PrgBanks16k(m) = <<even, even + 1>>
      BY <2>1 DEF PrgBanks16k
    <3> HIDE DEF even
    <3> QED BY <3>1, <3>2
  <2>2. CASE m.prg_mode = 1 /\ m.prg_slot = 0
    BY <1>1, <2>2 DEF PrgBanks16k
  <2>3. CASE m.prg_mode = 1 /\ m.prg_slot = 1
    BY <1>1, <2>3 DEF PrgBanks16k
  <2> QED BY <1>1, <2>1, <2>2, <2>3
<1> QED BY <1>4, <1>5

\* Sync1 changes the banks only, and its result needs no second one.
LEMMA Sync1Facts ==
  ASSUME NEW m \in Mmc1s
  PROVE  LET n == Sync1(m) IN
         /\ n \in Mmc1s /\ Synced1(n) /\ n.ppuclock = m.ppuclock /\ n.mirror = m.mirror
         /\ n.shift_count = m.shift_count /\ n.shift_val = m.shift_val
         /\ n.chr_mode = m.chr_mode /\ n.prg_mode = m.prg_mode /\ n.prg_slot = m.prg_slot
         /\ n.chr_0 = m.chr_0 /\ n.chr_1 = m.chr_1
         /\ n.prg = m.prg /\ n.wram_disable = m.wram_disable
<1> DEFINE c == ChrBanks4k(m)
           p == PrgBanks16k(m)
           n == [m EXCEPT !.chr_banks_4k = c, !.prg_banks_16k = p]
<1>1. c \in (0..31) \X (0..31) /\ p \in (0..15) \X (0..15)
  BY BankRanges
<1>2. Sync1(m) = n
  BY DEF Sync1
<1> HIDE DEF c, p
<1>3. n \in Mmc1s
  BY <1>1 DEF Mmc1s
<1>4. /\ n.ppuclock = m.ppuclock /\ n.mirror = m.mirror
      /\ n.shift_count = m.shift_count /\ n.shift_val = m.shift_val
      /\ n.chr_mode = m.chr_mode /\ n.prg_mode = m.prg_mode /\ n.prg_slot = m.prg_slot
      /\ n.chr_0 = m.chr_0 /\ n.chr_1 = m.chr_1
      /\ n.prg = m.prg /\ n.wram_disable = m.wram_disable
      /\ n.chr_banks_4k = c /\ n.prg_banks_16k = p
  BY DEF Mmc1s
<1> HIDE DEF n
<1>5. ChrBanks4k(n) = ChrBanks4k(m) /\ PrgBanks16k(n) = PrgBanks16k(m)
  BY <1>4 DEF ChrBanks4k, PrgBanks16k
<1>6. Synced1(n)
  BY <1>4, <1>5 DEF Synced1, c, p
<1> QED BY <1>2, <1>3, <1>4, <1>6

\* Sync1 is the identity where it has nothing to do.
LEMMA SyncedIsSync1 ==
  ASSUME NEW m \in Mmc1s, Synced1(m)
  PROVE  m = Sync1(m)
BY DEF Mmc1s, Synced1, Sync1

\* A mirroring stands for the two bits that chose it.
LEMMA MirrorCodes ==
  /\ MirrorCode("OneScreenA") = 0 /\ MirrorCode("OneScreenB") = 1
  /\ MirrorCode("Vertical") = 2 /\ MirrorCode("Horizontal") = 3
<1> DEFINE types == <<"OneScreenA", "OneScreenB", "Vertical", "Horizontal">>
<1>1. /\ types[0 + 1] = "OneScreenA" /\ types[1 + 1] = "OneScreenB"
      /\ types[2 + 1] = "Vertical" /\ types[3 + 1] = "Horizontal"
  OBVIOUS
<1> HIDE DEF types
<1>2. MirrorCode("OneScreenA") = CHOOSE c \in 0..3 : "OneScreenA" = types[c + 1]
  BY DEF MirrorCode, types
<1>3. MirrorCode("OneScreenB") = CHOOSE c \in 0..3 : "OneScreenB" = types[c + 1]
  BY DEF MirrorCode, types
<1>4. MirrorCode("Vertical") = CHOOSE c \in 0..3 : "Vertical" = types[c + 1]
  BY DEF MirrorCode, types
<1>5. MirrorCode("Horizontal") = CHOOSE c \in 0..3 : "Horizontal" = types[c + 1]
  BY DEF MirrorCode, types
<1> QED BY <1>1, <1>2, <1>3, <1>4, <1>5

\* What a program has loaded into the four registers.
LEMMA RegisterValues ==
  ASSUME NEW m \in Mmc1s
  PROVE  /\ MirrorCode(m.mirror) \in 0..3
         /\ Registers(m) = [r \in 0..3 |-> Registers(m)[r]]
         /\ Registers(m)[0] = MirrorCode(m.mirror) + 4 * m.prg_slot + 8 * m.prg_mode + 16 * m.chr_mode
         /\ Registers(m)[1] = m.chr_0 /\ Registers(m)[2] = m.chr_1
         /\ Registers(m)[3] = m.prg + 16 * m.wram_disable
<1>1. m.mirror \in MirrorTypes
  BY DEF Mmc1s
<1>2. MirrorCode(m.mirror) \in 0..3
  BY <1>1, MirrorCodes DEF MirrorTypes
<1>3. Registers(m) = [r \in 0..3 |-> Registers(m)[r]]
  BY DEF Registers
<1>4. /\ Registers(m)[0] = MirrorCode(m.mirror) + 4 * m.prg_slot + 8 * m.prg_mode + 16 * m.chr_mode
      /\ Registers(m)[1] = m.chr_0 /\ Registers(m)[2] = m.chr_1
      /\ Registers(m)[3] = m.prg + 16 * m.wram_disable
  BY DEF Registers
<1> QED BY <1>2, <1>3, <1>4

\* The fifth bit loads the register it addresses.
LEMMA LoadFacts ==
  ASSUME NEW m \in Mmc1s, NEW reg \in RegNumbers, NEW v \in Values5
  PROVE  LET n == SerialWriteRegister(m, reg, v) IN
         /\ n \in Mmc1s /\ n.ppuclock = m.ppuclock
         /\ n.shift_count = m.shift_count /\ n.shift_val = m.shift_val
         /\ Registers(n) = [Registers(m) EXCEPT ![reg] = v]
<1> DEFINE n == SerialWriteRegister(m, reg, v)
           R == Registers(m)
<1> USE DEF RegNumbers, Values5
<1>1. /\ m.chr_0 \in 0..31 /\ m.chr_1 \in 0..31 /\ m.prg \in 0..15 /\ m.wram_disable \in 0..1
      /\ m.chr_mode \in 0..1 /\ m.prg_mode \in 0..1 /\ m.prg_slot \in 0..1
  BY DEF Mmc1s
<1>2. /\ Bit(v, 2) = (v \div 4) % 2 /\ Bit(v, 3) = (v \div 8) % 2 /\ Bit(v, 4) = (v \div 16) % 2
      /\ Bit(v, 2) \in 0..1 /\ Bit(v, 3) \in 0..1 /\ Bit(v, 4) \in 0..1
  BY BitValues, BitRange
<1>3. SUFFICES /\ n \in Mmc1s /\ n.ppuclock = m.ppuclock
               /\ n.shift_count = m.shift_count /\ n.shift_val = m.shift_val
               /\ n \in Mmc1s => \A r \in 0..3 : Registers(n)[r] = IF r = reg THEN v ELSE R[r]
  BY RegisterValues
<1>4. CASE reg = 0
  <2> DEFINE mirror == <<"OneScreenA", "OneScreenB", "Vertical", "Horizontal">>[(v % 4) + 1]
             slt == Bit(v, 2)
             mode == Bit(v, 3)
             chrm == Bit(v, 4)
             q == [m EXCEPT !.mirror = mirror, !.prg_slot = slt, !.prg_mode = mode, !.chr_mode = chrm]
  <2>1. v % 4 \in 0..3
    OBVIOUS
  <2>2. mirror \in MirrorTypes /\ MirrorCode(mirror) = v % 4
    BY <2>1, MirrorCodes DEF MirrorTypes
  <2>3. n = q
    BY <1>4 DEF SerialWriteRegister
  <2>4. (v % 4) + 4 * slt + 8 * mode + 16 * chrm = v
    BY FiveBits
  <2> HIDE DEF mirror, slt, mode, chrm, n
  <2>5. q \in Mmc1s
    BY <1>2, <2>2 DEF Mmc1s, slt, mode, chrm
  <2>6. /\ q.mirror = mirror /\ q.prg_slot = slt /\ q.prg_mode = mode /\ q.chr_mode = chrm
        /\ q.chr_0 = m.chr_0 /\ q.chr_1 = m.chr_1 /\ q.prg = m.prg
        /\ q.wram_disable = m.wram_disable /\ q.ppuclock = m.ppuclock
        /\ q.shift_count = m.shift_count /\ q.shift_val = m.shift_val
    BY DEF Mmc1s
  <2> HIDE DEF q
  <2>7. /\ Registers(q)[0] = v /\ Registers(q)[1] = R[1]
        /\ Registers(q)[2] = R[2] /\ Registers(q)[3] = R[3]
    BY <2>2, <2>4, <2>5, <2>6, RegisterValues
  <2> QED BY <1>4, <2>3, <2>5, <2>6, <2>7
<1>5. CASE reg = 1
  <2> DEFINE q == [m EXCEPT !.chr_0 = v]
  <2>1. n = q
    BY <1>5 DEF SerialWriteRegister
  <2>2. q \in Mmc1s
    BY DEF Mmc1s
  <2>3. /\ q.mirror = m.mirror /\ q.prg_slot = m.prg_slot /\ q.prg_mode = m.prg_mode
        /\ q.chr_mode = m.chr_mode /\ q.chr_0 = v /\ q.chr_1 = m.chr_1 /\ q.prg = m.prg
        /\ q.wram_disable = m.wram_disable /\ q.ppuclock = m.ppuclock
        /\ q.shift_count = m.shift_count /\ q.shift_val = m.shift_val
    BY DEF Mmc1s
  <2> HIDE DEF q, n
  <2>4. /\ Registers(q)[0] = R[0] /\ Registers(q)[1] = v
        /\ Registers(q)[2] = R[2] /\ Registers(q)[3] = R[3]
    BY <2>2, <2>3, RegisterValues
  <2> QED BY <1>5, <2>1, <2>2, <2>3, <2>4
<1>6. CASE reg = 2
  <2> DEFINE q == [m EXCEPT !.chr_1 = v]
  <2>1. n = q
    BY <1>6 DEF SerialWriteRegister
  <2>2. q \in Mmc1s
    BY DEF Mmc1s
  <2>3. /\ q.mirror = m.mirror /\ q.prg_slot = m.prg_slot /\ q.prg_mode = m.prg_mode
        /\ q.chr_mode = m.chr_mode /\ q.chr_0 = m.chr_0 /\ q.chr_1 = v /\ q.prg = m.prg
        /\ q.wram_disable = m.wram_disable /\ q.ppuclock = m.ppuclock
        /\ q.shift_count = m.shift_count /\ q.shift_val = m.shift_val
    BY DEF Mmc1s
  <2> HIDE DEF q, n
  <2>4. /\ Registers(q)[0] = R[0] /\ Registers(q)[1] = R[1]
        /\ Registers(q)[2] = v /\ Registers(q)[3] = R[3]
    BY <2>2, <2>3, RegisterValues
  <2> QED BY <1>6, <2>1, <2>2, <2>3, <2>4
<1>7. CASE reg = 3
  <2> DEFINE low == v % 16
             high == Bit(v, 4)
             q == [m EXCEPT !.prg = low, !.wram_disable = high]
  <2>1. n = q
    BY <1>7 DEF SerialWriteRegister
  <2>2. low \in 0..15 /\ high \in 0..1
    BY <1>2
  <2>3. low + 16 * high = v
    BY FiveBits
  <2> HIDE DEF low, high, n
  <2>4. q \in Mmc1s
    BY <2>2 DEF Mmc1s
  <2>5. /\ q.mirror = m.mirror /\ q.prg_slot = m.prg_slot /\ q.prg_mode = m.prg_mode
        /\ q.chr_mode = m.chr_mode /\ q.chr_0 = m.chr_0 /\ q.chr_1 = m.chr_1 /\ q.prg = low
        /\ q.wram_disable = high /\ q.ppuclock = m.ppuclock
        /\ q.shift_count = m.shift_count /\ q.shift_val = m.shift_val
    BY DEF Mmc1s
  <2> HIDE DEF q
  <2>6. /\ Registers(q)[0] = R[0] /\ Registers(q)[1] = R[1]
        /\ Registers(q)[2] = R[2] /\ Registers(q)[3] = v
    BY <2>2, <2>3, <2>4, <2>5, RegisterValues
  <2> QED BY <1>7, <2>1, <2>4, <2>5, <2>6
<1> QED BY <1>4, <1>5, <1>6, <1>7

\* The bits in the shift register, as a sequence.
LEMMA HeardFacts ==
  ASSUME NEW m \in Mmc1s
  PROVE  /\ BitsHeard(m) \in Seq(0..1)
         /\ Len(BitsHeard(m)) = m.shift_count
         /\ \A i \in 1..m.shift_count :
              BitsHeard(m)[i] = Bit(m.shift_val, 4 - m.shift_count + i)
<1> DEFINE v == m.shift_val
           k == m.shift_count
           B == [i \in 1..k |-> Bit(v, 4 - k + i)]
<1>1. v \in 0..31 /\ k \in 0..4
  BY DEF Mmc1s
<1>2. BitsHeard(m) = B
  BY DEF BitsHeard
<1> HIDE DEF v, k
<1>3. \A j \in 0..4 : Bit(v, j) \in 0..1
  <2>1. v \in 0..255
    BY <1>1
  <2>2. /\ Bit(v, 0) \in 0..1 /\ Bit(v, 1) \in 0..1 /\ Bit(v, 2) \in 0..1
        /\ Bit(v, 3) \in 0..1 /\ Bit(v, 4) \in 0..1
    BY <2>1, BitRange
  <2>3. \A j \in 0..4 : j = 0 \/ j = 1 \/ j = 2 \/ j = 3 \/ j = 4
    OBVIOUS
  <2> QED BY <2>2, <2>3
<1>4. \A i \in 1..k : 4 - k + i \in 0..4
  BY <1>1
<1>5. B \in [1..k -> 0..1]
  BY <1>3, <1>4
<1>6. DOMAIN B = 1..k /\ \A i \in 1..k : B[i] = Bit(v, 4 - k + i)
  OBVIOUS
<1>7. k \in Nat
  BY <1>1
<1> HIDE DEF B
<1>8. B \in Seq(0..1)
  BY <1>5, <1>7, SeqDef
<1>9. Len(B) \in Nat /\ DOMAIN B = 1..Len(B)
  BY <1>8, LenProperties
<1>10. Len(B) = k
  BY <1>6, <1>7, <1>9
<1> QED BY <1>2, <1>6, <1>8, <1>10 DEF k, v

\* Shifting a bit in moves the others one place down.
LEMMA ShiftedBits ==
  ASSUME NEW v \in 0..31, NEW b \in 0..1
  PROVE  LET w == (v \div 2) + 16 * b IN
         /\ w \in 0..31 /\ Bit(w, 4) = b
         /\ \A j \in 0..3 : Bit(w, j) = Bit(v, j + 1)
<1> DEFINE w == (v \div 2) + 16 * b
<1>1. w \in 0..31
  OBVIOUS
<1>2. v \in 0..255 /\ w \in 0..255
  BY <1>1
<1>3. /\ (w \div 16) % 2 = b /\ (w \div 8) % 2 = (v \div 16) % 2
      /\ (w \div 4) % 2 = (v \div 8) % 2 /\ (w \div 2) % 2 = (v \div 4) % 2
      /\ w % 2 = (v \div 2) % 2
  OBVIOUS
<1> HIDE DEF w
<1>4. /\ Bit(w, 4) = b /\ Bit(w, 3) = Bit(v, 4) /\ Bit(w, 2) = Bit(v, 3)
      /\ Bit(w, 1) = Bit(v, 2) /\ Bit(w, 0) = Bit(v, 1)
  <2>1. /\ Bit(w, 0) = w % 2 /\ Bit(w, 1) = (w \div 2) % 2 /\ Bit(w, 2) = (w \div 4) % 2
        /\ Bit(w, 3) = (w \div 8) % 2 /\ Bit(w, 4) = (w \div 16) % 2
    BY <1>2, BitValues
  <2>2. /\ Bit(v, 1) = (v \div 2) % 2 /\ Bit(v, 2) = (v \div 4) % 2
        /\ Bit(v, 3) = (v \div 8) % 2 /\ Bit(v, 4) = (v \div 16) % 2
    BY <1>2, BitValues
  <2> QED BY <1>3, <2>1, <2>2
<1>5. \A j \in 0..3 : Bit(w, j) = Bit(v, j + 1)
  <2>1. 0 + 1 = 1 /\ 1 + 1 = 2 /\ 2 + 1 = 3 /\ 3 + 1 = 4
    OBVIOUS
  <2>2. \A j \in 0..3 : j = 0 \/ j = 1 \/ j = 2 \/ j = 3
    OBVIOUS
  <2> QED BY <1>4, <2>1, <2>2
<1> QED BY <1>1, <1>4, <1>5 DEF w

\* A bit that does not complete a value is appended to those heard.
LEMMA BitAppended ==
  ASSUME NEW m \in Mmc1s, NEW n \in Mmc1s, NEW b \in 0..1,
         m.shift_count < 4, n.shift_count = m.shift_count + 1,
         n.shift_val = (m.shift_val \div 2) + 16 * b
  PROVE  BitsHeard(n) = Append(BitsHeard(m), b)
<1> DEFINE k == m.shift_count
           v == m.shift_val
           w == n.shift_val
           B == BitsHeard(m)
           C == BitsHeard(n)
           A == Append(B, b)
<1>1. v \in 0..31 /\ k \in 0..3
  BY DEF Mmc1s
<1>2. /\ B \in Seq(0..1) /\ Len(B) = k
      /\ \A i \in 1..k : B[i] = Bit(v, 4 - k + i)
  BY HeardFacts
<1>3. /\ C \in Seq(0..1) /\ Len(C) = k + 1
      /\ \A i \in 1..(k + 1) : C[i] = Bit(w, 3 - k + i)
  <2>1. /\ C \in Seq(0..1) /\ Len(C) = n.shift_count
        /\ \A i \in 1..n.shift_count : C[i] = Bit(w, 4 - n.shift_count + i)
    BY HeardFacts
  <2>2. \A i \in 1..(k + 1) : 4 - n.shift_count + i = 3 - k + i
    BY <1>1
  <2> QED BY <2>1, <2>2
<1>4. Bit(w, 4) = b /\ \A j \in 0..3 : Bit(w, j) = Bit(v, j + 1)
  BY <1>1, ShiftedBits
<1>5. /\ A \in Seq(0..1) /\ Len(A) = k + 1
      /\ \A i \in 1..k : A[i] = B[i]
      /\ A[k + 1] = b
  BY <1>2, AppendProperties
<1> HIDE DEF k, v, w, B, C, A
<1>6. ASSUME NEW i \in 1..(k + 1) PROVE C[i] = A[i]
  <2>1. CASE i \in 1..k
    <3>1. 3 - k + i \in 0..3 /\ (3 - k + i) + 1 = 4 - k + i
      BY <1>1, <2>1
    <3>2. Bit(w, 3 - k + i) = Bit(v, 4 - k + i)
      BY <1>4, <3>1
    <3> QED BY <1>2, <1>3, <1>5, <2>1, <3>2
  <2>2. CASE i = k + 1
    <3>1. 3 - k + i = 4
      BY <1>1, <2>2
    <3>2. C[i] = Bit(w, 3 - k + i)
      BY <1>3
    <3>3. C[i] = b
      BY <1>4, <3>1, <3>2
    <3>4. A[i] = b
      BY <1>5, <2>2
    <3> QED BY <3>3, <3>4
  <2> QED BY <1>1, <2>1, <2>2
<1>7. C = A
  BY <1>3, <1>5, <1>6, SeqEqual
<1> QED BY <1>7 DEF A, B, C

\* The fifth completes it: what is in the shift register is what was heard,
\* the first bit the lowest.
LEMMA ValueCompleted ==
  ASSUME NEW m \in Mmc1s, NEW b \in 0..1, m.shift_count = 4
  PROVE  Port!ValueOf(Append(BitsHeard(m), b)) = (m.shift_val \div 2) + 16 * b
<1> DEFINE v == m.shift_val
           B == BitsHeard(m)
           s == Append(B, b)
<1>1. v \in 0..31 /\ v \in 0..255
  BY DEF Mmc1s
<1>2. /\ B \in Seq(0..1) /\ Len(B) = 4
      /\ \A i \in 1..4 : B[i] = Bit(v, 4 - 4 + i)
  BY HeardFacts
<1>3. /\ \A i \in 1..4 : s[i] = B[i]
      /\ s[5] = b
  <2> HIDE DEF B
  <2>1. B \in Seq(0..1) /\ b \in 0..1
    BY <1>2
  <2>2. \A i \in 1..Len(B) : Append(B, b)[i] = B[i]
    BY <2>1, AppendProperties
  <2>4. Append(B, b)[Len(B) + 1] = b
    BY <2>1, AppendProperties, Zenon
  <2>3. Len(B) = 4 /\ Len(B) + 1 = 5
    BY <1>2
  <2> QED BY <2>2, <2>3, <2>4
<1>4. s[1] = Bit(v, 1) /\ s[2] = Bit(v, 2) /\ s[3] = Bit(v, 3) /\ s[4] = Bit(v, 4)
  <2>1. 4 - 4 + 1 = 1 /\ 4 - 4 + 2 = 2 /\ 4 - 4 + 3 = 3 /\ 4 - 4 + 4 = 4
    OBVIOUS
  <2> HIDE DEF s, B, v
  <2> QED BY <1>2, <1>3, <2>1
<1>5. /\ s[1] = (v \div 2) % 2 /\ s[2] = (v \div 4) % 2
      /\ s[3] = (v \div 8) % 2 /\ s[4] = (v \div 16) % 2
  BY <1>1, <1>4, BitValues
<1>6. ((v \div 2) % 2) + 2 * ((v \div 4) % 2) + 4 * ((v \div 8) % 2) + 8 * ((v \div 16) % 2) = v \div 2
  BY <1>1
<1> HIDE DEF s, v
<1>7. Port!ValueOf(s) = s[1] + 2 * s[2] + 4 * s[3] + 8 * s[4] + 16 * s[5]
  BY DEF Port!ValueOf
<1>8. Port!ValueOf(s) = (v \div 2) + 16 * b
  BY <1>1, <1>3, <1>5, <1>6, <1>7
<1> QED BY <1>8 DEF s, v

\* The shift register after a write that Mmc1Write hears, before Sync1.
Shift(m, count, v) == [m EXCEPT !.shift_count = count, !.shift_val = v]

\* A bit shifted in changes neither the registers nor what the clocks count.
LEMMA ShiftFacts ==
  ASSUME NEW m \in Mmc1s, NEW count \in Counts, NEW v \in Values5
  PROVE  LET n == Shift(m, count, v) IN
         /\ n \in Mmc1s /\ n.shift_count = count /\ n.shift_val = v
         /\ n.ppuclock = m.ppuclock /\ n.chr_mode = m.chr_mode /\ n.mirror = m.mirror
         /\ Registers(n) = Registers(m)
<1> DEFINE n == Shift(m, count, v)
<1> USE DEF Counts, Values5
<1>1. n \in Mmc1s
  BY DEF Shift, Mmc1s
<1>2. /\ n.shift_count = count /\ n.shift_val = v /\ n.ppuclock = m.ppuclock
      /\ n.chr_mode = m.chr_mode /\ n.prg_mode = m.prg_mode /\ n.prg_slot = m.prg_slot
      /\ n.chr_0 = m.chr_0 /\ n.chr_1 = m.chr_1 /\ n.mirror = m.mirror
      /\ n.prg = m.prg /\ n.wram_disable = m.wram_disable
  BY DEF Shift, Mmc1s
<1> HIDE DEF n
<1>3. Registers(n) = Registers(m)
  BY <1>2 DEF Registers
<1> QED BY <1>1, <1>2, <1>3 DEF n

\* Sync1 neither loads a register nor loses a bit.
LEMMA Sync1Keeps ==
  ASSUME NEW m \in Mmc1s
  PROVE  LET n == Sync1(m) IN
         /\ n \in Mmc1s /\ Synced1(n) /\ n.ppuclock = m.ppuclock
         /\ Registers(n) = Registers(m) /\ BitsHeard(n) = BitsHeard(m)
<1> DEFINE n == Sync1(m)
<1>1. /\ n \in Mmc1s /\ Synced1(n) /\ n.ppuclock = m.ppuclock /\ n.mirror = m.mirror
      /\ n.shift_count = m.shift_count /\ n.shift_val = m.shift_val
      /\ n.chr_mode = m.chr_mode /\ n.prg_mode = m.prg_mode /\ n.prg_slot = m.prg_slot
      /\ n.chr_0 = m.chr_0 /\ n.chr_1 = m.chr_1
      /\ n.prg = m.prg /\ n.wram_disable = m.wram_disable
  BY Sync1Facts
<1> HIDE DEF n
<1>2. Registers(n) = Registers(m) /\ BitsHeard(n) = BitsHeard(m)
  BY <1>1 DEF Registers, BitsHeard
<1> QED BY <1>1, <1>2 DEF n

\* No bits have been heard where the count is zero.
LEMMA NothingHeard ==
  ASSUME NEW m \in Mmc1s, m.shift_count = 0
  PROVE  BitsHeard(m) = <<>>
<1>1. BitsHeard(m) \in Seq(0..1) /\ Len(BitsHeard(m)) = 0
  BY HeardFacts
<1> QED BY <1>1, EmptySeq

\* A reset fixes the last page and leaves the other registers alone.
LEMMA ResetFacts ==
  ASSUME NEW m \in Mmc1s
  PROVE  LET n == SerialReset(m) IN
         /\ n \in Mmc1s /\ n.ppuclock = m.ppuclock
         /\ n.shift_count = m.shift_count /\ n.shift_val = m.shift_val
         /\ Registers(n) = [Registers(m) EXCEPT ![0] = Port!LastPageFixed(@)]
<1> DEFINE n == SerialReset(m)
           R == Registers(m)
           code == MirrorCode(m.mirror)
<1>1. n \in Mmc1s
  <2> DEFINE one == 1
             q == [m EXCEPT !.prg_mode = one, !.prg_slot = one]
  <2>1. one \in 0..1 /\ n = q
    BY DEF SerialReset
  <2> HIDE DEF one, n
  <2>2. q \in Mmc1s
    BY <2>1 DEF Mmc1s
  <2> QED BY <2>1, <2>2
<1>2. /\ n.shift_count = m.shift_count /\ n.shift_val = m.shift_val /\ n.ppuclock = m.ppuclock
      /\ n.chr_mode = m.chr_mode /\ n.prg_mode = 1 /\ n.prg_slot = 1
      /\ n.chr_0 = m.chr_0 /\ n.chr_1 = m.chr_1 /\ n.mirror = m.mirror
      /\ n.prg = m.prg /\ n.wram_disable = m.wram_disable
  BY DEF SerialReset, Mmc1s
<1> HIDE DEF n
<1>3. code \in 0..3 /\ m.chr_mode \in 0..1 /\ m.prg_mode \in 0..1 /\ m.prg_slot \in 0..1
  BY RegisterValues DEF Mmc1s
<1>4. R[0] = code + 4 * m.prg_slot + 8 * m.prg_mode + 16 * m.chr_mode
  BY RegisterValues
<1> HIDE DEF code, R
<1>5. R[0] % 4 = code /\ R[0] \div 16 = m.chr_mode
  <2> DEFINE s == m.prg_slot
             p == m.prg_mode
             c == m.chr_mode
             x == code + 4 * s + 8 * p + 16 * c
  <2>1. code \in 0..3 /\ s \in 0..1 /\ p \in 0..1 /\ c \in 0..1
    BY <1>3
  <2> HIDE DEF s, p, c
  <2>2. x % 4 = code /\ x \div 16 = c
    BY <2>1
  <2> QED BY <1>4, <2>2 DEF s, p, c
<1>6. Port!LastPageFixed(R[0]) = code + 12 + 16 * m.chr_mode
  BY <1>5 DEF Port!LastPageFixed
<1>7. Registers(n)[0] = Port!LastPageFixed(R[0])
  <2>1. Registers(n)[0] = code + 4 * 1 + 8 * 1 + 16 * m.chr_mode
    BY <1>1, <1>2, RegisterValues DEF code
  <2> QED BY <1>3, <1>6, <2>1
<1>8. Registers(n)[1] = R[1] /\ Registers(n)[2] = R[2] /\ Registers(n)[3] = R[3]
  BY <1>1, <1>2, RegisterValues DEF R
<1>9. \A r \in 0..3 : Registers(n)[r] = IF r = 0 THEN Port!LastPageFixed(R[0]) ELSE R[r]
  BY <1>7, <1>8
<1>10. Registers(n) = [r \in 0..3 |-> Registers(n)[r]] /\ R = [r \in 0..3 |-> R[r]]
  BY <1>1, RegisterValues DEF R
<1>11. Registers(n) = [R EXCEPT ![0] = Port!LastPageFixed(@)]
  BY <1>9, <1>10
<1> QED BY <1>1, <1>2, <1>11 DEF n, R

\* A write that completes a value.
Loaded(m, reg, bit) ==
  Sync1(SerialWriteRegister(Shift(m, 0, 0), reg, (m.shift_val \div 2) + 16 * bit))

\* The shift register emptied.
LEMMA EmptiedFacts ==
  ASSUME NEW m \in Mmc1s
  PROVE  LET n == Shift(m, 0, 0) IN
         /\ n \in Mmc1s /\ n.shift_count = 0 /\ n.ppuclock = m.ppuclock
         /\ Registers(n) = Registers(m)
<1> DEFINE zero == 0
           n == Shift(m, zero, zero)
<1>1. zero \in Counts /\ zero \in Values5
  BY DEF Counts, Values5
<1> HIDE DEF zero
<1>2. n \in Mmc1s /\ n.shift_count = zero /\ n.ppuclock = m.ppuclock
  BY <1>1, ShiftFacts
<1>3. Registers(n) = Registers(m)
  BY <1>1, ShiftFacts
<1> QED BY <1>2, <1>3 DEF zero

\* A write with bit 7 drops the bits heard and fixes the last page.
LEMMA ResetHeard ==
  ASSUME NEW m \in Mmc1s
  PROVE  LET n == Sync1(SerialReset(Shift(m, 0, 0))) IN
         /\ n \in Mmc1s /\ Synced1(n) /\ n.ppuclock = m.ppuclock
         /\ BitsHeard(n) = <<>>
         /\ Registers(n) = [Registers(m) EXCEPT ![0] = Port!LastPageFixed(@)]
<1> DEFINE e == Shift(m, 0, 0)
           q == SerialReset(e)
           n == Sync1(q)
<1>1. /\ e \in Mmc1s /\ e.shift_count = 0 /\ e.ppuclock = m.ppuclock
      /\ Registers(e) = Registers(m)
  BY EmptiedFacts
<1> HIDE DEF e
<1>2. /\ q \in Mmc1s /\ q.ppuclock = m.ppuclock /\ q.shift_count = 0
      /\ Registers(q) = [Registers(m) EXCEPT ![0] = Port!LastPageFixed(@)]
  BY <1>1, ResetFacts
<1> HIDE DEF q
<1>3. BitsHeard(q) = <<>>
  BY <1>2, NothingHeard
<1>4. /\ n \in Mmc1s /\ Synced1(n) /\ n.ppuclock = q.ppuclock
      /\ Registers(n) = Registers(q) /\ BitsHeard(n) = BitsHeard(q)
  BY <1>2, Sync1Keeps
<1> HIDE DEF n
<1> QED BY <1>2, <1>3, <1>4 DEF n, q, e

\* Any other of the first four is appended to what was heard.
LEMMA BitHeard ==
  ASSUME NEW m \in Mmc1s, NEW bit \in 0..1, m.shift_count # 4
  PROVE  LET n == Sync1(Shift(m, m.shift_count + 1, (m.shift_val \div 2) + 16 * bit)) IN
         /\ n \in Mmc1s /\ Synced1(n) /\ n.ppuclock = m.ppuclock
         /\ BitsHeard(n) = Append(BitsHeard(m), bit)
         /\ Registers(n) = Registers(m)
<1> DEFINE more == m.shift_count + 1
           shifted == (m.shift_val \div 2) + 16 * bit
           q == Shift(m, more, shifted)
           n == Sync1(q)
<1>1. m.shift_val \in 0..31 /\ m.shift_count \in 0..4
  BY DEF Mmc1s
<1>2. more \in Counts /\ shifted \in Values5
  BY <1>1 DEF Counts, Values5
<1> HIDE DEF more, shifted
<1>3. /\ q \in Mmc1s /\ q.shift_count = more /\ q.shift_val = shifted
      /\ q.ppuclock = m.ppuclock
  BY <1>2, ShiftFacts
<1>4. Registers(q) = Registers(m)
  BY <1>2, ShiftFacts
<1> HIDE DEF q
<1>5. BitsHeard(q) = Append(BitsHeard(m), bit)
  BY <1>1, <1>3, BitAppended DEF more, shifted
<1>6. /\ n \in Mmc1s /\ Synced1(n) /\ n.ppuclock = q.ppuclock
      /\ Registers(n) = Registers(q) /\ BitsHeard(n) = BitsHeard(q)
  BY <1>3, Sync1Keeps
<1> HIDE DEF n
<1> QED BY <1>3, <1>4, <1>5, <1>6 DEF n, q, more, shifted

\* The fifth loads the register it addresses with the five.
LEMMA ValueHeard ==
  ASSUME NEW m \in Mmc1s, NEW bit \in 0..1, NEW reg \in 0..3, m.shift_count = 4
  PROVE  LET n == Loaded(m, reg, bit) IN
         /\ n \in Mmc1s /\ Synced1(n) /\ n.ppuclock = m.ppuclock
         /\ BitsHeard(n) = <<>>
         /\ Registers(n) = [Registers(m) EXCEPT ![reg] = Port!ValueOf(Append(BitsHeard(m), bit))]
<1> DEFINE shifted == (m.shift_val \div 2) + 16 * bit
           e == Shift(m, 0, 0)
           q == SerialWriteRegister(e, reg, shifted)
           n == Sync1(q)
<1>1. m.shift_val \in 0..31
  BY DEF Mmc1s
<1>2. shifted \in Values5 /\ reg \in RegNumbers
  BY <1>1 DEF Values5, RegNumbers
<1>3. Port!ValueOf(Append(BitsHeard(m), bit)) = shifted
  BY ValueCompleted
<1>4. /\ e \in Mmc1s /\ e.shift_count = 0 /\ e.ppuclock = m.ppuclock
      /\ Registers(e) = Registers(m)
  BY EmptiedFacts
<1>5. n = Loaded(m, reg, bit)
  BY DEF Loaded
<1> HIDE DEF shifted, e
<1>6. q \in Mmc1s /\ q.ppuclock = e.ppuclock /\ q.shift_count = e.shift_count
  BY <1>2, <1>4, LoadFacts
<1>7. Registers(q) = [Registers(e) EXCEPT ![reg] = shifted]
  BY <1>2, <1>4, LoadFacts
<1> HIDE DEF q
<1>8. BitsHeard(q) = <<>>
  BY <1>4, <1>6, NothingHeard
<1>9. /\ n \in Mmc1s /\ Synced1(n) /\ n.ppuclock = q.ppuclock
      /\ Registers(n) = Registers(q) /\ BitsHeard(n) = BitsHeard(q)
  BY <1>6, Sync1Keeps
<1> HIDE DEF n
<1> QED BY <1>3, <1>4, <1>5, <1>6, <1>7, <1>8, <1>9

\* A write to MMC1 is one of the three.
LEMMA Mmc1WriteCases ==
  ASSUME NEW m \in Mmc1s, NEW addr, NEW value
  PROVE  LET n == Mmc1Write(m, addr, value)
             bit == Bit(value, 0)
         IN  /\ Bit(value, 7) = 1 => n = Sync1(SerialReset(Shift(m, 0, 0)))
             /\ Bit(value, 7) # 1 /\ m.shift_count # 4 =>
                  n = Sync1(Shift(m, m.shift_count + 1, (m.shift_val \div 2) + 16 * bit))
             /\ Bit(value, 7) # 1 /\ m.shift_count = 4 => n = Loaded(m, addr \div 8192, bit)
BY DEF Mmc1Write, Shift, Loaded

-----------------------------------------------------------------------------
\* A remainder is less than its divisor.
LEMMA Remainder ==
  ASSUME NEW a \in Nat, NEW n \in Nat \ {0}
  PROVE  a % n \in 0..n - 1
OBVIOUS

Bytes == 0..255

Mmc3s ==
  [reg_addr : 0..7, chr_mode : 0..1, prg_mode : 0..1, regs : [0..7 -> Bytes], mirror : 0..1,
   a12_old : 0..1, irq_reload : Bytes, irq_counter : Bytes, irq_pending : BOOLEAN,
   irq_enable : BOOLEAN, just_cleared_pending : BOOLEAN, just_cleared : BOOLEAN,
   separator_counter : 0..15, irq_countdown : 0..5,
   chr_regs_1k : Seq(Bytes), prg_regs_8k : Seq(Bytes)]

\* Sync3 has nothing left to do.
Synced3(m) == m.chr_regs_1k = ChrRegs1k(m) /\ m.prg_regs_8k = PrgRegs8k(m)

\* A page and the odd one after it.
LEMMA EvenBytes ==
  ASSUME NEW x \in 0..255
  PROVE  /\ x - Bit(x, 0) \in 0..255
         /\ x - Bit(x, 0) + 1 \in 0..255
<1>1. x - (x % 2) \in 0..254
  OBVIOUS
<1>2. Bit(x, 0) = x % 2
  BY BitValues
<1>3. x - (x % 2) \in 0..255 /\ x - (x % 2) + 1 \in 0..255
  BY <1>1
<1> QED BY <1>2, <1>3

\* The registers that Sync computes the pages from are bytes, and so are the pages.
LEMMA PagesAreBytes ==
  ASSUME NEW m \in Mmc3s
  PROVE  /\ ChrRegs1k(m) \in Seq(Bytes) /\ Len(ChrRegs1k(m)) = 8
         /\ PrgRegs8k(m) \in Seq(Bytes) /\ Len(PrgRegs8k(m)) = 4
<1> DEFINE even(r) == m.regs[r] - Bit(m.regs[r], 0)
           pair(r) == <<even(r), even(r) + 1>>
           first == pair(0)
           second == pair(1)
           big == first \o second
           small == <<m.regs[2], m.regs[3], m.regs[4], m.regs[5]>>
<1>1. \A r \in 0..7 : m.regs[r] \in Bytes
  BY DEF Mmc3s
<1>2. ASSUME NEW r \in 0..7
      PROVE  pair(r) \in Seq(Bytes) /\ Len(pair(r)) = 2
  <2> DEFINE x == m.regs[r]
             e == x - Bit(x, 0)
             f == e + 1
  <2>1. x \in 0..255
    BY <1>1 DEF Bytes
  <2> HIDE DEF x
  <2>2. e \in Bytes /\ f \in Bytes
    BY <2>1, EvenBytes DEF Bytes
  <2> HIDE DEF e, f
  <2>3. <<e, f>> \in Seq(Bytes) /\ Len(<<e, f>>) = 2
    BY <2>2
  <2> QED BY <2>3 DEF e, f, x
<1>3. first \in Seq(Bytes) /\ Len(first) = 2 /\ second \in Seq(Bytes) /\ Len(second) = 2
  <2>1. 0 \in 0..7 /\ 1 \in 0..7
    OBVIOUS
  <2> HIDE DEF pair
  <2> QED BY <1>2, <2>1
<1>4. small \in Seq(Bytes) /\ Len(small) = 4
  BY <1>1
<1>5. PrgRegs8k(m) \in Seq(Bytes) /\ Len(PrgRegs8k(m)) = 4
  <2> DEFINE a == m.regs[6]
             b == m.regs[7]
             c == 254
             d == 255
  <2>1. a \in Bytes /\ b \in Bytes /\ c \in Bytes /\ d \in Bytes
    BY <1>1 DEF Bytes
  <2>2. PrgRegs8k(m) = IF m.prg_mode = 1 THEN <<c, b, a, d>> ELSE <<a, b, c, d>>
    BY DEF PrgRegs8k
  <2> HIDE DEF a, b, c, d
  <2>3. /\ <<c, b, a, d>> \in Seq(Bytes) /\ Len(<<c, b, a, d>>) = 4
        /\ <<a, b, c, d>> \in Seq(Bytes) /\ Len(<<a, b, c, d>>) = 4
    BY <2>1
  <2> QED BY <2>2, <2>3
<1>6. ChrRegs1k(m) = IF m.chr_mode = 1 THEN small \o big ELSE big \o small
  BY DEF ChrRegs1k
<1> HIDE DEF first, second, small
<1>7. big \in Seq(Bytes) /\ Len(big) = 4
  <2>1. big \in Seq(Bytes)
    BY <1>3, ConcatProperties, Zenon
  <2>2. Len(big) = Len(first) + Len(second)
    BY <1>3, ConcatProperties, Zenon
  <2> QED BY <1>3, <2>1, <2>2
<1> HIDE DEF big
<1>8. /\ small \o big \in Seq(Bytes) /\ Len(small \o big) = 8
      /\ big \o small \in Seq(Bytes) /\ Len(big \o small) = 8
  <2>1. small \o big \in Seq(Bytes) /\ big \o small \in Seq(Bytes)
    BY <1>4, <1>7, ConcatProperties, Zenon
  <2>2. /\ Len(small \o big) = Len(small) + Len(big)
        /\ Len(big \o small) = Len(big) + Len(small)
    BY <1>4, <1>7, ConcatProperties, Zenon
  <2> QED BY <1>4, <1>7, <2>1, <2>2
<1> QED BY <1>5, <1>6, <1>8

\* Sync3 changes the pages only, and its result needs no second one.
LEMMA Sync3Facts ==
  ASSUME NEW m \in Mmc3s
  PROVE  LET n == Sync3(m) IN
         /\ n \in Mmc3s /\ Synced3(n)
         /\ n.mirror = m.mirror /\ n.a12_old = m.a12_old
         /\ n.irq_reload = m.irq_reload /\ n.irq_counter = m.irq_counter
         /\ n.irq_pending = m.irq_pending /\ n.irq_enable = m.irq_enable
         /\ n.separator_counter = m.separator_counter /\ n.irq_countdown = m.irq_countdown
<1> DEFINE c == ChrRegs1k(m)
           p == PrgRegs8k(m)
           n == [m EXCEPT !.prg_regs_8k = p, !.chr_regs_1k = c]
<1>1. c \in Seq(Bytes) /\ p \in Seq(Bytes)
  BY PagesAreBytes
<1>2. Sync3(m) = n
  BY DEF Sync3
<1> HIDE DEF c, p
<1>3. n \in Mmc3s
  BY <1>1 DEF Mmc3s
<1>4. /\ n.mirror = m.mirror /\ n.a12_old = m.a12_old
      /\ n.irq_reload = m.irq_reload /\ n.irq_counter = m.irq_counter
      /\ n.irq_pending = m.irq_pending /\ n.irq_enable = m.irq_enable
      /\ n.separator_counter = m.separator_counter /\ n.irq_countdown = m.irq_countdown
  BY DEF Mmc3s
<1>5. /\ n.chr_mode = m.chr_mode /\ n.prg_mode = m.prg_mode /\ n.regs = m.regs
      /\ n.chr_regs_1k = c /\ n.prg_regs_8k = p
  BY DEF Mmc3s
<1> HIDE DEF n
<1>6. ChrRegs1k(n) = ChrRegs1k(m) /\ PrgRegs8k(n) = PrgRegs8k(m)
  BY <1>5 DEF ChrRegs1k, PrgRegs8k
<1>7. Synced3(n)
  BY <1>5, <1>6 DEF Synced3, c, p
<1> QED BY <1>2, <1>3, <1>4, <1>7

\* Sync3 is the identity where it has nothing to do.
LEMMA SyncedIsSync3 ==
  ASSUME NEW m \in Mmc3s, Synced3(m)
  PROVE  m = Sync3(m)
BY DEF Mmc3s, Synced3, Sync3
\* What a write leaves of the scanline counter.
KeepsCounter(n, m) ==
  /\ n.a12_old = m.a12_old /\ n.irq_counter = m.irq_counter
  /\ n.separator_counter = m.separator_counter /\ n.irq_countdown = m.irq_countdown

BankAddresses == {0, 1}
OtherAddresses == Mmc3Addresses \ {0, 1}

\* A write to a bank register leaves the chip in order and the interrupt alone.
LEMMA BankWriteFacts ==
  ASSUME NEW m \in Mmc3s, NEW addr \in BankAddresses, NEW value \in Bytes
  PROVE  LET n == WriteMmc3(m, addr, value) IN
         /\ n \in Mmc3s /\ Synced3(n) /\ KeepsCounter(n, m)
         /\ n.irq_pending = m.irq_pending /\ n.irq_enable = m.irq_enable
<1>1. CASE addr = 0
  <2> DEFINE c == Bit(value, 7)
             p == Bit(value, 6)
             a == value % 8
             q == [m EXCEPT !.chr_mode = c, !.prg_mode = p, !.reg_addr = a]
  <2>1. c \in 0..1 /\ p \in 0..1 /\ a \in 0..7
    <3>1. value \in 0..255
      BY DEF Bytes
    <3>2. a \in 0..7
      BY <3>1
    <3> QED BY <3>1, <3>2, BitRange
  <2>2. WriteMmc3(m, addr, value) = Sync3(q)
    BY <1>1 DEF WriteMmc3
  <2> HIDE DEF c, p, a
  <2>3. q \in Mmc3s
    BY <2>1 DEF Mmc3s
  <2>4. KeepsCounter(q, m) /\ q.irq_pending = m.irq_pending /\ q.irq_enable = m.irq_enable
    BY DEF Mmc3s, KeepsCounter
  <2> HIDE DEF q
  <2> QED BY <2>2, <2>3, <2>4, Sync3Facts DEF KeepsCounter
<1>2. CASE addr = 1
  <2> DEFINE r == m.reg_addr
             f == [m.regs EXCEPT ![r] = value]
             q == [m EXCEPT !.regs = f]
  <2>1. f \in [0..7 -> Bytes]
    BY DEF Mmc3s
  <2>2. WriteMmc3(m, addr, value) = Sync3(q)
    BY <1>2 DEF WriteMmc3
  <2> HIDE DEF f
  <2>3. q \in Mmc3s
    BY <2>1 DEF Mmc3s
  <2>4. KeepsCounter(q, m) /\ q.irq_pending = m.irq_pending /\ q.irq_enable = m.irq_enable
    BY DEF Mmc3s, KeepsCounter
  <2> HIDE DEF q
  <2> QED BY <2>2, <2>3, <2>4, Sync3Facts DEF KeepsCounter
<1> QED BY <1>1, <1>2 DEF BankAddresses

\* A write to any other register changes no page; only the last two change the
\* interrupt, and acknowledging one disables it as well.
LEMMA OtherWriteFacts ==
  ASSUME NEW m \in Mmc3s, Synced3(m), NEW addr \in OtherAddresses, NEW value \in Bytes
  PROVE  LET n == WriteMmc3(m, addr, value) IN
         /\ n \in Mmc3s /\ Synced3(n) /\ KeepsCounter(n, m)
         /\ addr < 24576 => n.irq_pending = m.irq_pending /\ n.irq_enable = m.irq_enable
         /\ addr >= 24576 => (n.irq_pending => m.irq_pending /\ n.irq_enable)
<1> DEFINE n == WriteMmc3(m, addr, value)
           Kept(q) == /\ q.chr_mode = m.chr_mode /\ q.prg_mode = m.prg_mode /\ q.regs = m.regs
                      /\ q.chr_regs_1k = m.chr_regs_1k /\ q.prg_regs_8k = m.prg_regs_8k
<1>1. ASSUME NEW q, Kept(q) PROVE Synced3(q)
  <2>1. ChrRegs1k(q) = ChrRegs1k(m) /\ PrgRegs8k(q) = PrgRegs8k(m)
    BY <1>1 DEF ChrRegs1k, PrgRegs8k
  <2> QED BY <1>1, <2>1 DEF Synced3
<1>2. CASE addr = 8192
  <2> DEFINE b == Bit(value, 0)
             q == [m EXCEPT !.mirror = b]
  <2>1. b \in 0..1
    BY BitRange DEF Bytes
  <2>2. n = q
    BY <1>2 DEF WriteMmc3
  <2> HIDE DEF b
  <2>3. q \in Mmc3s
    BY <2>1 DEF Mmc3s
  <2>4. KeepsCounter(q, m) /\ Kept(q) /\ q.irq_pending = m.irq_pending /\ q.irq_enable = m.irq_enable
    BY DEF Mmc3s, KeepsCounter
  <2> HIDE DEF q
  <2> QED BY <1>1, <1>2, <2>2, <2>3, <2>4
<1>3. CASE addr = 8193
  <2>1. n = m
    BY <1>3 DEF WriteMmc3
  <2> QED BY <1>3, <2>1 DEF KeepsCounter
<1>4. CASE addr = 16384
  <2> DEFINE q == [m EXCEPT !.irq_reload = value]
  <2>2. n = q
    BY <1>4 DEF WriteMmc3
  <2>3. q \in Mmc3s
    BY DEF Mmc3s
  <2>4. KeepsCounter(q, m) /\ Kept(q) /\ q.irq_pending = m.irq_pending /\ q.irq_enable = m.irq_enable
    BY DEF Mmc3s, KeepsCounter
  <2> HIDE DEF q
  <2> QED BY <1>1, <1>4, <2>2, <2>3, <2>4
<1>5. CASE addr = 16385
  <2> DEFINE q == [m EXCEPT !.just_cleared_pending = TRUE]
  <2>2. n = q
    BY <1>5 DEF WriteMmc3
  <2>3. q \in Mmc3s
    BY DEF Mmc3s
  <2>4. KeepsCounter(q, m) /\ Kept(q) /\ q.irq_pending = m.irq_pending /\ q.irq_enable = m.irq_enable
    BY DEF Mmc3s, KeepsCounter
  <2> HIDE DEF q
  <2> QED BY <1>1, <1>5, <2>2, <2>3, <2>4
<1>6. CASE addr = 24576
  <2> DEFINE no == FALSE
             q == [m EXCEPT !.irq_enable = no, !.irq_pending = no]
  <2>1. no \in BOOLEAN /\ ~no
    OBVIOUS
  <2>2. n = q
    BY <1>6 DEF WriteMmc3
  <2> HIDE DEF no
  <2>3. q \in Mmc3s
    BY <2>1 DEF Mmc3s
  <2>4. KeepsCounter(q, m) /\ Kept(q) /\ q.irq_pending = no
    BY DEF Mmc3s, KeepsCounter
  <2> HIDE DEF q
  <2> QED BY <1>1, <1>6, <2>1, <2>2, <2>3, <2>4
<1>7. CASE addr = 24577
  <2> DEFINE q == [m EXCEPT !.irq_enable = TRUE]
  <2>2. n = q
    BY <1>7 DEF WriteMmc3
  <2>3. q \in Mmc3s
    BY DEF Mmc3s
  <2>4. KeepsCounter(q, m) /\ Kept(q) /\ q.irq_pending = m.irq_pending /\ q.irq_enable = TRUE
    BY DEF Mmc3s, KeepsCounter
  <2> HIDE DEF q
  <2> QED BY <1>1, <1>7, <2>2, <2>3, <2>4
<1> QED BY <1>2, <1>3, <1>4, <1>5, <1>6, <1>7 DEF OtherAddresses, Mmc3Addresses

\* An address on the PPU's bus changes the filter and its countdown only.
Addressed(m, a12) == [(IF a12 = 1 THEN A12Rise(m) ELSE m) EXCEPT !.a12_old = a12]

\* It is in step with the registers still, and starts the countdown after a long low.
LEMMA AddressedFacts ==
  ASSUME NEW m \in Mmc3s, Synced3(m), NEW a12 \in 0..1
  PROVE  LET n == Addressed(m, a12) IN
         /\ n \in Mmc3s /\ Synced3(n) /\ n.mirror = m.mirror
         /\ n.irq_pending = m.irq_pending /\ n.irq_enable = m.irq_enable
         /\ n.separator_counter = (IF a12 = 1 THEN 15 ELSE m.separator_counter)
         /\ n.irq_countdown = (IF a12 = 1 /\ m.separator_counter = 0 THEN 5 ELSE m.irq_countdown)
<1> DEFINE s == IF a12 = 1 THEN 15 ELSE m.separator_counter
           c == IF a12 = 1 /\ m.separator_counter = 0 THEN 5 ELSE m.irq_countdown
           q == [m EXCEPT !.separator_counter = s, !.irq_countdown = c]
           n == [q EXCEPT !.a12_old = a12]
<1>1. s \in 0..15 /\ c \in 0..5
  BY DEF Mmc3s
<1>2. Addressed(m, a12) = n
  <2>1. CASE a12 = 1
    BY <2>1 DEF Addressed, A12Rise
  <2>2. CASE a12 # 1
    <3>1. q = m
      BY <2>2 DEF Mmc3s
    <3> QED BY <2>2, <3>1 DEF Addressed
  <2> QED BY <2>1, <2>2
<1> HIDE DEF s, c
<1>3. q \in Mmc3s
  BY <1>1 DEF Mmc3s
<1>4. /\ q.mirror = m.mirror
      /\ q.irq_pending = m.irq_pending /\ q.irq_enable = m.irq_enable
      /\ q.separator_counter = s /\ q.irq_countdown = c
  BY DEF Mmc3s
<1>5. /\ q.chr_mode = m.chr_mode /\ q.prg_mode = m.prg_mode /\ q.regs = m.regs
      /\ q.chr_regs_1k = m.chr_regs_1k /\ q.prg_regs_8k = m.prg_regs_8k
  BY DEF Mmc3s
<1> HIDE DEF q
<1>6. n \in Mmc3s
  BY <1>3 DEF Mmc3s
<1>7. /\ n.mirror = q.mirror
      /\ n.irq_pending = q.irq_pending /\ n.irq_enable = q.irq_enable
      /\ n.separator_counter = q.separator_counter /\ n.irq_countdown = q.irq_countdown
  BY <1>3 DEF Mmc3s
<1>8. /\ n.chr_mode = q.chr_mode /\ n.prg_mode = q.prg_mode /\ n.regs = q.regs
      /\ n.chr_regs_1k = q.chr_regs_1k /\ n.prg_regs_8k = q.prg_regs_8k
  BY <1>3 DEF Mmc3s
<1> HIDE DEF n
<1>9. Synced3(n)
  <2>1. ChrRegs1k(n) = ChrRegs1k(m) /\ PrgRegs8k(n) = PrgRegs8k(m)
    BY <1>5, <1>8 DEF ChrRegs1k, PrgRegs8k
  <2> QED BY <1>5, <1>8, <2>1 DEF Synced3
<1> QED BY <1>2, <1>4, <1>6, <1>7, <1>9 DEF s, c

\* A dot of the scanline counter: the countdown that reaches its end clocks it,
\* and only a clock that leaves it at zero raises the interrupt.
LEMMA ClockFacts ==
  ASSUME NEW m \in Mmc3s, Synced3(m), m.irq_pending => m.irq_enable
  PROVE  LET n == ClockMmc3(m) IN
         /\ n \in Mmc3s /\ Synced3(n) /\ n.mirror = m.mirror
         /\ n.irq_pending => n.irq_enable
         /\ ~(CountsDown(m) /\ ClockMmc3Irq(m).irq_counter = 0) => n.irq_pending = m.irq_pending
         /\ n.separator_counter = (IF m.separator_counter > 0 THEN m.separator_counter - 1 ELSE 0)
         /\ n.irq_countdown = (IF m.irq_countdown > 0 THEN m.irq_countdown - 1 ELSE 0)
<1> DEFINE s == IF m.separator_counter > 0 THEN m.separator_counter - 1 ELSE 0
           c == IF m.irq_countdown > 0 THEN m.irq_countdown - 1 ELSE 0
           t == [m EXCEPT !.separator_counter = s, !.irq_countdown = c]
           counter == IF m.irq_counter = 0 THEN m.irq_reload ELSE m.irq_counter - 1
           raised == m.irq_pending \/ (counter = 0 /\ m.irq_enable)
           clocked == [t EXCEPT !.irq_counter = counter, !.irq_pending = raised]
           u == IF CountsDown(m) THEN clocked ELSE t
           zeroed == IF m.just_cleared THEN 0 ELSE u.irq_counter
           was == m.just_cleared_pending
           n == [u EXCEPT !.irq_counter = zeroed, !.just_cleared = was,
                          !.just_cleared_pending = FALSE]
<1>1. s \in 0..15 /\ c \in 0..5
  BY DEF Mmc3s
<1>2. counter \in Bytes
  BY DEF Mmc3s, Bytes
<1>3. raised \in BOOLEAN /\ was \in BOOLEAN
  BY DEF Mmc3s
<1>4. ClockMmc3Irq(m).irq_counter = counter
  BY DEF ClockMmc3Irq, Mmc3s
<1>5. raised => m.irq_enable
  OBVIOUS
<1>6. ~(counter = 0) => (raised <=> m.irq_pending)
  OBVIOUS
<1>7. ClockMmc3(m) = n
  <2>1. t.irq_counter = m.irq_counter /\ t.irq_reload = m.irq_reload
        /\ t.irq_enable = m.irq_enable /\ t.irq_pending = m.irq_pending
    BY DEF Mmc3s
  <2> HIDE DEF t
  <2>2. ClockMmc3Irq(t) = clocked
    BY <2>1 DEF ClockMmc3Irq
  <2> HIDE DEF clocked
  <2>3. ClockMmc3(m) = [(IF CountsDown(m) THEN ClockMmc3Irq(t) ELSE t)
                          EXCEPT !.irq_counter = IF m.just_cleared THEN 0 ELSE @,
                                 !.just_cleared = m.just_cleared_pending,
                                 !.just_cleared_pending = FALSE]
    BY DEF ClockMmc3, t
  <2> QED BY <2>2, <2>3
<1> HIDE DEF s, c, counter, raised, was
<1>8. t \in Mmc3s
  BY <1>1 DEF Mmc3s
<1>9. /\ t.mirror = m.mirror /\ t.irq_pending = m.irq_pending /\ t.irq_enable = m.irq_enable
      /\ t.separator_counter = s /\ t.irq_countdown = c
      /\ t.chr_mode = m.chr_mode /\ t.prg_mode = m.prg_mode /\ t.regs = m.regs
      /\ t.chr_regs_1k = m.chr_regs_1k /\ t.prg_regs_8k = m.prg_regs_8k
  BY DEF Mmc3s
<1> HIDE DEF t
<1>10. clocked \in Mmc3s
  BY <1>2, <1>3, <1>8 DEF Mmc3s
<1>11. /\ clocked.mirror = t.mirror /\ clocked.irq_pending = raised
       /\ clocked.irq_enable = t.irq_enable
       /\ clocked.separator_counter = t.separator_counter
       /\ clocked.irq_countdown = t.irq_countdown
       /\ clocked.chr_mode = t.chr_mode /\ clocked.prg_mode = t.prg_mode /\ clocked.regs = t.regs
       /\ clocked.chr_regs_1k = t.chr_regs_1k /\ clocked.prg_regs_8k = t.prg_regs_8k
  BY <1>8 DEF Mmc3s
<1> HIDE DEF clocked
<1>12. u \in Mmc3s
  BY <1>8, <1>10
<1>13. /\ u.mirror = m.mirror /\ u.irq_enable = m.irq_enable
       /\ u.separator_counter = s /\ u.irq_countdown = c
       /\ u.chr_mode = m.chr_mode /\ u.prg_mode = m.prg_mode /\ u.regs = m.regs
       /\ u.chr_regs_1k = m.chr_regs_1k /\ u.prg_regs_8k = m.prg_regs_8k
  BY <1>9, <1>11
<1>14. u.irq_pending <=> IF CountsDown(m) THEN raised ELSE m.irq_pending
  BY <1>9, <1>11
<1> HIDE DEF u
<1>15. zeroed \in Bytes
  BY <1>12 DEF Mmc3s, Bytes
<1> HIDE DEF zeroed
<1>16. n \in Mmc3s
  BY <1>3, <1>12, <1>15 DEF Mmc3s
<1>17. /\ n.mirror = u.mirror /\ n.irq_enable = u.irq_enable /\ n.irq_pending = u.irq_pending
       /\ n.separator_counter = u.separator_counter /\ n.irq_countdown = u.irq_countdown
       /\ n.chr_mode = u.chr_mode /\ n.prg_mode = u.prg_mode /\ n.regs = u.regs
       /\ n.chr_regs_1k = u.chr_regs_1k /\ n.prg_regs_8k = u.prg_regs_8k
  BY <1>12 DEF Mmc3s
<1> HIDE DEF n
<1>18. Synced3(n)
  <2>1. ChrRegs1k(n) = ChrRegs1k(m) /\ PrgRegs8k(n) = PrgRegs8k(m)
    BY <1>13, <1>17 DEF ChrRegs1k, PrgRegs8k
  <2> QED BY <1>13, <1>17, <2>1 DEF Synced3
<1>19. n.irq_pending => n.irq_enable
  BY <1>5, <1>13, <1>14, <1>17
<1>20. ~(CountsDown(m) /\ ClockMmc3Irq(m).irq_counter = 0) => (n.irq_pending <=> m.irq_pending)
  BY <1>4, <1>6, <1>14, <1>17
<1>21. n.irq_pending \in BOOLEAN /\ m.irq_pending \in BOOLEAN
  BY <1>16 DEF Mmc3s
<1> QED BY <1>7, <1>13, <1>16, <1>17, <1>18, <1>19, <1>20, <1>21 DEF s, c

-----------------------------------------------------------------------------
(***************************************************************************)
(* The inductive invariant.                                                *)
(***************************************************************************)
Fields ==
  /\ kind \in Kinds /\ program \in Programs[kind] /\ slot \in 0..3
  /\ mmc1 \in Mmc1s /\ mmc3 \in Mmc3s
  /\ _mirroring \in MirrorTypes /\ IrqSignal \in BOOLEAN
  /\ heard \in {"now", "last", "no"}

\* The latches hold pages of the cartridge.
LargestChr == IF kind = "B74x" THEN 15 ELSE chr_mask

Latched == prg \in 0..prg_mask /\ chr \in 0..LargestChr

\* How far MMC1's timeout is since the last write heard; a run begins between
\* two slots.
Timeout ==
  kind = "SxROM" =>
    /\ heard = "now" => slot # 0 /\ mmc1.ppuclock >= slot - 2 /\ mmc1.ppuclock < slot
    /\ heard = "last" => /\ mmc1.ppuclock >= (IF slot \in {0, 1} THEN 2 ELSE slot + 1)
                         /\ mmc1.ppuclock <= (IF slot \in {0, 1} THEN 3 ELSE 4)
    /\ heard = "no" => mmc1.ppuclock = PpuTimeout

\* Nothing is left for Sync1 and Sync3 to do.
Synced == Synced1(mmc1) /\ Synced3(mmc3)

\* What the boards drive besides the pages.
Driven ==
  /\ kind = "SxROM" /\ heard = "now" /\ slot = 1 => _mirroring = mmc1.mirror
  /\ kind = "TxROM" => /\ _mirroring = MirrorType(mmc3)
                       /\ IrqSignal = mmc3.irq_pending
  /\ mmc3.irq_pending => mmc3.irq_enable

\* A countdown ends before the filter lets the next rise through, and only MMC3 has one.
Filtered ==
  /\ mmc3.irq_countdown <= mmc3.separator_counter
  /\ kind # "TxROM" => mmc3.irq_countdown = 0

IInv == Fields /\ Latched /\ Timeout /\ Synced /\ Driven /\ Filtered /\ RisesClockOnce

-----------------------------------------------------------------------------
\* The masks of a cartridge that has the pages its board selects.
LEMMA Masks ==
  ASSUME kind \in Kinds
  PROVE  /\ prg_mask \in Nat /\ chr_mask \in Nat /\ chr_bank_mask \in Nat
         /\ prg_bank_mask_8k \in Nat /\ chr_bank_count_1k \in Nat \ {0}
         /\ prg_bank_mask_8k + 1 = Cart[kind].prg \div 8
         /\ prg_bank_mask_8k >= 2 * prg_mask + 1
         /\ kind \in {"AxROM", "GxROM"} => prg_bank_mask_8k >= 4 * prg_mask + 3
         /\ chr_bank_count_1k = (IF Cart[kind].chr = 0 THEN 8 ELSE Cart[kind].chr)
         /\ chr_bank_count_1k >= 8 * chr_mask + 8 /\ chr_bank_count_1k >= 4 * chr_bank_mask + 4
         /\ kind = "B74x" /\ Cart[kind].chr # 0 => chr_bank_count_1k >= 128
<1> DEFINE P == Cart[kind].prg
           C == Cart[kind].chr
           big == kind \in {"AxROM", "GxROM"}
<1>1. /\ P \in Nat /\ P >= (IF big THEN 32 ELSE 16)
      /\ C \in Nat /\ (C = 0 \/ C >= (IF kind = "B74x" THEN 128 ELSE 8))
  BY CartAssumption
<1>2. /\ prg_mask = (P \div (IF big THEN 32 ELSE 16)) - 1
      /\ chr_mask = (IF C = 0 THEN 0 ELSE (C \div 8) - 1)
      /\ chr_bank_mask = (IF C = 0 THEN 0 ELSE (C \div 4) - 1)
      /\ prg_bank_mask_8k = (P \div 8) - 1
      /\ chr_bank_count_1k = (IF C = 0 THEN 8 ELSE C)
  BY DEF prg_mask, chr_mask, chr_bank_mask, prg_bank_mask_8k, chr_bank_count_1k
<1> HIDE DEF P, C, big
<1>3. /\ prg_bank_mask_8k \in Nat /\ prg_bank_mask_8k + 1 = P \div 8
  BY <1>1, <1>2
<1>4. /\ prg_mask \in Nat /\ prg_bank_mask_8k >= 2 * prg_mask + 1
      /\ big => prg_bank_mask_8k >= 4 * prg_mask + 3
  <2>1. CASE big
    <3>1. prg_mask = (P \div 32) - 1
      BY <1>2, <2>1
    <3>2. prg_mask \in Nat /\ prg_bank_mask_8k >= 4 * prg_mask + 3
      BY <1>1, <1>2, <2>1, <3>1
    <3> QED BY <1>3, <3>2
  <2>2. CASE ~big
    <3>1. prg_mask = (P \div 16) - 1
      BY <1>2, <2>2
    <3>2. prg_mask \in Nat /\ prg_bank_mask_8k >= 2 * prg_mask + 1
      BY <1>1, <1>2, <2>2, <3>1
    <3> QED BY <2>2, <3>2
  <2> QED BY <2>1, <2>2
<1>5. /\ chr_mask \in Nat /\ chr_bank_mask \in Nat /\ chr_bank_count_1k \in Nat \ {0}
      /\ chr_bank_count_1k >= 8 * chr_mask + 8 /\ chr_bank_count_1k >= 4 * chr_bank_mask + 4
  <2>1. CASE C = 0
    BY <1>2, <2>1
  <2>2. CASE C # 0
    <3>1. C >= 8 /\ C \in Nat
      BY <1>1, <2>2
    <3>2. chr_mask = (C \div 8) - 1 /\ chr_bank_mask = (C \div 4) - 1 /\ chr_bank_count_1k = C
      BY <1>2, <2>2
    <3> QED BY <3>1, <3>2
  <2> QED BY <2>1, <2>2
<1>6. kind = "B74x" /\ C # 0 => chr_bank_count_1k >= 128
  BY <1>1, <1>2
<1>7. chr_bank_count_1k = (IF C = 0 THEN 8 ELSE C)
  BY <1>2
<1> QED BY <1>3, <1>4, <1>5, <1>6, <1>7 DEF P, C, big

\* What is masked is a page.
LEMMA MaskedRange ==
  ASSUME NEW v \in Nat, NEW mask \in Nat
  PROVE  Masked(v, mask) \in 0..mask
<1>1. mask + 1 \in Nat \ {0}
  OBVIOUS
<1>2. v % (mask + 1) \in 0..(mask + 1) - 1
  BY <1>1, Remainder
<1> QED BY <1>2 DEF Masked


\* No board reads a page of PRG ROM that its cartridge does not have.
LEMMA PrgPagesExist ==
  ASSUME Fields, Latched, Synced
  PROVE  \A w \in 0..3 : ReadPrg(w) \in 0..(Cart[kind].prg \div 8) - 1
<1> SUFFICES ASSUME NEW w \in 0..3
             PROVE  ReadPrg(w) \in 0..prg_bank_mask_8k
  BY Masks DEF Fields
<1>1. /\ kind \in AllKinds
      /\ prg_mask \in Nat /\ prg_bank_mask_8k \in Nat /\ prg_bank_mask_8k >= 2 * prg_mask + 1
      /\ kind \in {"AxROM", "GxROM"} => prg_bank_mask_8k >= 4 * prg_mask + 3
  BY Masks, CartAssumption DEF Fields
<1>2. w % 2 \in 0..1 /\ w \div 2 \in 0..1
  OBVIOUS
<1>3. prg \in 0..prg_mask
  BY DEF Latched
<1>4. CASE kind \in {"NROM", "CNROM"}
  <2>1. ReadPrg(w) = Masked(w, prg_bank_mask_8k)
    BY <1>4 DEF ReadPrg
  <2> QED BY <1>1, <2>1, MaskedRange
<1>5. CASE kind \in {"AxROM", "GxROM"}
  <2>1. ReadPrg(w) = 4 * prg + w
    BY <1>5 DEF ReadPrg
  <2> QED BY <1>1, <1>3, <1>5, <2>1
<1>6. CASE kind = "SxROM"
  <2> DEFINE bank == mmc1.prg_banks_16k[w \div 2 + 1]
             page == Masked(bank, prg_mask)
  <2>1. ReadPrg(w) = 2 * page + (w % 2)
    BY <1>6 DEF ReadPrg
  <2>2. mmc1.prg_banks_16k \in (0..15) \X (0..15)
    BY DEF Fields, Mmc1s
  <2>3. w \div 2 + 1 \in {1, 2}
    BY <1>2
  <2>4. bank \in 0..15
    BY <2>2, <2>3
  <2>5. bank \in Nat
    BY <2>4
  <2> HIDE DEF bank
  <2>6. page \in 0..prg_mask
    BY <1>1, <2>5, MaskedRange
  <2> HIDE DEF page
  <2> QED BY <1>1, <1>2, <2>1, <2>6
<1>7. CASE kind = "TxROM"
  <2> DEFINE bank == mmc3.prg_regs_8k[w + 1]
  <2>1. ReadPrg(w) = Masked(bank, prg_bank_mask_8k)
    BY <1>7 DEF ReadPrg
  <2>2. mmc3.prg_regs_8k \in Seq(Bytes) /\ Len(mmc3.prg_regs_8k) = 4
    BY PagesAreBytes DEF Fields, Synced, Synced3
  <2>3. w + 1 \in 1..4
    OBVIOUS
  <2>4. bank \in Bytes
    BY <2>2, <2>3
  <2>5. bank \in Nat
    BY <2>4 DEF Bytes
  <2> HIDE DEF bank
  <2> QED BY <1>1, <2>1, <2>5, MaskedRange
<1>8. CASE kind \in {"UxROM", "B74x"}
  <2> DEFINE page == IF w \div 2 = 1 THEN prg_mask ELSE prg
  <2>1. ReadPrg(w) = 2 * page + (w % 2)
    BY <1>8 DEF ReadPrg
  <2>2. page \in 0..prg_mask
    BY <1>1, <1>3
  <2> HIDE DEF page
  <2> QED BY <1>1, <1>2, <2>1, <2>2
<1> QED BY <1>1, <1>4, <1>5, <1>6, <1>7, <1>8 DEF AllKinds

\* Nor one of CHR.
LEMMA ChrPagesExist ==
  ASSUME Fields, Latched, Synced
  PROVE  \A w \in 0..7 : ReadPpu(w) \in 0..(IF Cart[kind].chr = 0 THEN 8 ELSE Cart[kind].chr) - 1
<1> DEFINE C == chr_bank_count_1k
           ram == Cart[kind].chr = 0
<1> SUFFICES ASSUME NEW w \in 0..7
             PROVE  ReadPpu(w) \in 0..C - 1
  BY Masks DEF Fields
<1>1. /\ kind \in AllKinds /\ C \in Nat \ {0} /\ chr_mask \in Nat /\ chr_bank_mask \in Nat
      /\ C >= 8 * chr_mask + 8 /\ C >= 4 * chr_bank_mask + 4
      /\ kind = "B74x" /\ ~ram => C >= 128
  BY Masks, CartAssumption DEF Fields
<1>2. w % 4 \in 0..3 /\ w \div 4 \in 0..1
  OBVIOUS
<1>3. C >= 8
  BY <1>1
<1> HIDE DEF C, ram
<1>4. CASE kind = "TxROM"
  <2> DEFINE bank == mmc3.chr_regs_1k[w + 1]
  <2>1. ReadPpu(w) = bank % C
    BY <1>4 DEF ReadPpu, C
  <2>2. mmc3.chr_regs_1k \in Seq(Bytes) /\ Len(mmc3.chr_regs_1k) = 8
    BY PagesAreBytes DEF Fields, Synced, Synced3
  <2>3. w + 1 \in 1..8
    OBVIOUS
  <2>4. bank \in Bytes
    BY <2>2, <2>3
  <2>5. bank \in Nat
    BY <2>4 DEF Bytes
  <2> HIDE DEF bank
  <2> QED BY <1>1, <2>1, <2>5, Remainder
<1>5. CASE kind = "SxROM"
  <2> DEFINE bank == mmc1.chr_banks_4k[w \div 4 + 1]
             page == Masked(bank, chr_bank_mask)
  <2>1. ReadPpu(w) = 4 * page + (w % 4)
    BY <1>5 DEF ReadPpu
  <2>2. mmc1.chr_banks_4k \in (0..31) \X (0..31)
    BY DEF Fields, Mmc1s
  <2>3. w \div 4 + 1 \in {1, 2}
    BY <1>2
  <2>4. bank \in 0..31
    BY <2>2, <2>3
  <2>5. bank \in Nat
    BY <2>4
  <2> HIDE DEF bank
  <2>6. page \in 0..chr_bank_mask
    BY <1>1, <2>5, MaskedRange
  <2> HIDE DEF page
  <2> QED BY <1>1, <1>2, <2>1, <2>6
<1>6. CASE kind \in {"CNROM", "GxROM", "B74x"}
  <2>1. ReadPpu(w) = IF ram THEN w ELSE 8 * chr + w
    BY <1>6 DEF ReadPpu, ram
  <2>2. CASE ram
    BY <1>1, <1>3, <2>1, <2>2
  <2>3. CASE ~ram /\ kind = "B74x"
    <3>1. chr \in 0..15
      BY <2>3 DEF Latched, LargestChr
    <3> QED BY <1>1, <2>1, <2>3, <3>1
  <2>4. CASE ~ram /\ kind # "B74x"
    <3>1. chr \in 0..chr_mask
      BY <2>4 DEF Latched, LargestChr
    <3> QED BY <1>1, <2>1, <2>4, <3>1
  <2> QED BY <2>2, <2>3, <2>4
<1>7. CASE kind \in {"NROM", "UxROM", "AxROM"}
  <2>1. ReadPpu(w) = w
    BY <1>7 DEF ReadPpu
  <2> QED BY <1>1, <1>3, <2>1
<1> QED BY <1>1, <1>4, <1>5, <1>6, <1>7 DEF AllKinds

\* The inductive invariant implies the invariants that are checked.
LEMMA Implied == IInv => TypeOK /\ BoardFollows
<1> SUFFICES ASSUME IInv PROVE TypeOK /\ BoardFollows
  OBVIOUS
<1> USE DEF IInv
<1>1. /\ mmc1.shift_count \in 0..4 /\ mmc1.shift_val \in 0..31
      /\ mmc1.ppuclock \in 0..PpuTimeout
  BY DEF Fields, Mmc1s
<1>2. /\ mmc3.separator_counter \in 0..15 /\ mmc3.irq_countdown \in 0..5
      /\ mmc3.irq_counter \in 0..255
  BY DEF Fields, Mmc3s, Bytes
<1>3. TypeOK
  BY <1>1, <1>2, PrgPagesExist, ChrPagesExist DEF TypeOK, Fields
<1>4. mmc1 = Sync1(mmc1) /\ mmc3 = Sync3(mmc3)
  BY SyncedIsSync1, SyncedIsSync3 DEF Fields, Synced
<1>5. OutputsCurrent
  BY <1>4 DEF OutputsCurrent, Driven
<1> QED BY <1>3, <1>5 DEF BoardFollows


-----------------------------------------------------------------------------
\* MMC1 as it powers up.
LEMMA PoweredUp1 ==
  /\ StandardReset \in Mmc1s /\ Synced1(StandardReset)
  /\ StandardReset.ppuclock = 0 /\ BitsHeard(StandardReset) = <<>>
  /\ Registers(StandardReset) = [r \in 0..3 |-> IF r = 0 THEN 31 ELSE 0]
<1> DEFINE n == StandardReset
           m == [shift_count |-> 0, shift_val |-> 0, chr_mode |-> 1, prg_mode |-> 1,
                 prg_slot |-> 1, chr_0 |-> 0, chr_1 |-> 0, prg |-> 0, wram_disable |-> 0,
                 mirror |-> "Horizontal", ppuclock |-> 0, chr_banks_4k |-> <<0, 0>>,
                 prg_banks_16k |-> <<0, 0>>]
<1>1. n = Sync1(m)
  BY DEF StandardReset
<1>2. m \in Mmc1s
  <2>1. <<0, 0>> \in (0..31) \X (0..31) /\ <<0, 0>> \in (0..15) \X (0..15)
    OBVIOUS
  <2>2. "Horizontal" \in MirrorTypes /\ 0 \in 0..PpuTimeout
    BY DEF MirrorTypes, PpuTimeout
  <2> QED BY <2>1, <2>2 DEF Mmc1s
<1>3. /\ m.ppuclock = 0 /\ m.mirror = "Horizontal" /\ m.shift_count = 0
      /\ m.chr_mode = 1 /\ m.prg_mode = 1 /\ m.prg_slot = 1
      /\ m.chr_0 = 0 /\ m.chr_1 = 0 /\ m.prg = 0 /\ m.wram_disable = 0
  OBVIOUS
<1> HIDE DEF m, n
<1>4. n \in Mmc1s /\ Synced1(n)
  BY <1>1, <1>2, Sync1Facts
<1>5. /\ n.ppuclock = 0 /\ n.mirror = "Horizontal" /\ n.shift_count = 0
      /\ n.chr_mode = 1 /\ n.prg_mode = 1 /\ n.prg_slot = 1
      /\ n.chr_0 = 0 /\ n.chr_1 = 0 /\ n.prg = 0 /\ n.wram_disable = 0
  BY <1>1, <1>2, <1>3, Sync1Facts
<1>6. BitsHeard(n) = <<>>
  BY <1>4, <1>5, NothingHeard
<1>7. /\ Registers(n)[0] = 31 /\ Registers(n)[1] = 0
      /\ Registers(n)[2] = 0 /\ Registers(n)[3] = 0
  BY <1>4, <1>5, RegisterValues, MirrorCodes
<1>8. Registers(n) = [r \in 0..3 |-> Registers(n)[r]]
  BY <1>4, RegisterValues
<1>9. Registers(n) = [r \in 0..3 |-> IF r = 0 THEN 31 ELSE 0]
  BY <1>7, <1>8
<1> QED BY <1>4, <1>5, <1>6, <1>9 DEF n

\* MMC3 as it powers up.
LEMMA PoweredUp3 ==
  /\ NewMmc3 \in Mmc3s /\ Synced3(NewMmc3) /\ NewMmc3.mirror = 0
  /\ NewMmc3.irq_pending = FALSE
  /\ NewMmc3.separator_counter = 0 /\ NewMmc3.irq_countdown = 0
<1> DEFINE f == [r \in 0..7 |-> <<0, 2, 4, 5, 6, 7, 0, 1>>[r + 1]]
           e == <<>>
           m == [reg_addr |-> 0, chr_mode |-> 0, prg_mode |-> 0, regs |-> f, mirror |-> 0,
                 a12_old |-> 0, irq_reload |-> 0, irq_counter |-> 0, irq_pending |-> FALSE,
                 irq_enable |-> FALSE, just_cleared_pending |-> FALSE, just_cleared |-> FALSE,
                 separator_counter |-> 0, irq_countdown |-> 0, chr_regs_1k |-> e,
                 prg_regs_8k |-> e]
<1>1. NewMmc3 = Sync3(m)
  BY DEF NewMmc3
<1>2. f \in [0..7 -> Bytes]
  <2> DEFINE t == <<0, 2, 4, 5, 6, 7, 0, 1>>
  <2>1. \A i \in 1..8 : t[i] \in 0..255
    OBVIOUS
  <2> HIDE DEF t
  <2>2. \A r \in 0..7 : r + 1 \in 1..8
    OBVIOUS
  <2> QED BY <2>1, <2>2 DEF Bytes, t
<1>3. e \in Seq(Bytes) /\ 0 \in Bytes /\ FALSE \in BOOLEAN
  BY DEF Bytes
<1> HIDE DEF f, e
<1>4. m \in Mmc3s
  BY <1>2, <1>3 DEF Mmc3s
<1>5. m.mirror = 0 /\ m.irq_pending = FALSE /\ m.separator_counter = 0 /\ m.irq_countdown = 0
  OBVIOUS
<1> HIDE DEF m
<1> QED BY <1>1, <1>4, <1>5, Sync3Facts

\* The invariant holds at the start.
LEMMA InitOK == Init => IInv
<1> SUFFICES ASSUME Init PROVE IInv
  OBVIOUS
<1>1. kind \in Kinds /\ program \in Programs[kind] /\ slot = 2 /\ heard = "now"
  BY DEF Init
<1>2. mmc1 = StandardReset /\ mmc3 = NewMmc3
  BY DEF Init
<1>3. _mirroring \in MirrorTypes /\ IrqSignal = FALSE
  <2>1. kind \in AllKinds
    BY <1>1, CartAssumption
  <2> QED BY <2>1 DEF Init, MirrorTypes, AllKinds
<1>4. Fields
  <2>1. mmc1 \in Mmc1s /\ mmc3 \in Mmc3s
    BY <1>2, PoweredUp1, PoweredUp3
  <2>2. slot \in 0..3 /\ heard \in {"now", "last", "no"}
    BY <1>1
  <2>3. IrqSignal \in BOOLEAN
    BY <1>3, Zenon
  <2> QED BY <1>1, <1>3, <2>1, <2>2, <2>3 DEF Fields
<1>5. Latched
  <2>1. prg = 0 /\ chr = 0
    BY DEF Init
  <2>2. prg_mask \in Nat /\ chr_mask \in Nat
    BY <1>1, Masks
  <2> QED BY <2>1, <2>2 DEF Latched, LargestChr
<1>6. Timeout
  BY <1>1, <1>2, PoweredUp1 DEF Timeout
<1>7. Synced
  BY <1>2, PoweredUp1, PoweredUp3 DEF Synced
<1>8. Driven
  <2>1. kind = "TxROM" => _mirroring = MirrorType(mmc3)
    <3>1. kind = "TxROM" => _mirroring = "Vertical"
      BY DEF Init
    <3> QED BY <1>2, <3>1, PoweredUp3 DEF MirrorType
  <2>2. mmc3.irq_pending = FALSE
    BY <1>2, PoweredUp3
  <2>3. ~(slot = 1)
    BY <1>1
  <2> QED BY <1>3, <2>1, <2>2, <2>3 DEF Driven
<1>9. mmc3.irq_countdown = 0 /\ mmc3.separator_counter = 0 /\ owed = 0
  BY <1>2, PoweredUp3 DEF Init
<1> QED BY <1>4, <1>5, <1>6, <1>7, <1>8, <1>9 DEF IInv, Filtered, RisesClockOnce


-----------------------------------------------------------------------------
\* An address is in one of the four quarters that MMC1's registers take.
LEMMA AddressRange ==
  ASSUME NEW a \in PrgAddresses
  PROVE  a \in Nat /\ a \div 8192 \in 0..3
<1>1. a \in Nat /\ a <= 32767
  BY DEF PrgAddresses
<1>2. a \div 8192 \in 0..3
  BY <1>1
<1> QED BY <1>1, <1>2

\* What a program writes, and where.
Sent(addr, value) == addr \in Nat /\ addr \div 8192 \in 0..3 /\ value \in 0..255

\* Every write of a program is of a byte to an address in PRG space.
LEMMA ProgramWrites ==
  ASSUME Fields, NEW w \in program
  PROVE  /\ Sent(w[1], w[2])
         /\ kind = "TxROM" => w[1] \in Mmc3Addresses
<1>1. kind \in Kinds /\ program \in Programs[kind]
  BY DEF Fields
<1>2. /\ program \subseteq PrgAddresses \X (0..255)
      /\ kind = "TxROM" => \A x \in program : x[1] \in Mmc3Addresses
  BY <1>1, ProgramsAssumption
<1>3. w[1] \in PrgAddresses /\ w[2] \in 0..255
  BY <1>2
<1> QED BY <1>2, <1>3, AddressRange DEF Sent

\* MMC1's clock, apart from the rest of the chip.
LEMMA Timed ==
  ASSUME NEW m \in Mmc1s, NEW c \in Counts
  PROVE  LET n == [m EXCEPT !.ppuclock = c] IN
         /\ n \in Mmc1s /\ n.ppuclock = c /\ n.mirror = m.mirror
         /\ Synced1(m) => Synced1(n)
         /\ Registers(n) = Registers(m) /\ BitsHeard(n) = BitsHeard(m)
<1> DEFINE n == [m EXCEPT !.ppuclock = c]
<1>1. c \in 0..PpuTimeout
  BY DEF Counts, PpuTimeout
<1>2. n \in Mmc1s
  BY <1>1 DEF Mmc1s
<1>3. /\ n.ppuclock = c /\ n.mirror = m.mirror
      /\ n.shift_count = m.shift_count /\ n.shift_val = m.shift_val
      /\ n.chr_mode = m.chr_mode /\ n.prg_mode = m.prg_mode /\ n.prg_slot = m.prg_slot
      /\ n.chr_0 = m.chr_0 /\ n.chr_1 = m.chr_1 /\ n.prg = m.prg
      /\ n.wram_disable = m.wram_disable
      /\ n.chr_banks_4k = m.chr_banks_4k /\ n.prg_banks_16k = m.prg_banks_16k
  BY DEF Mmc1s
<1> HIDE DEF n
<1>4. Registers(n) = Registers(m) /\ BitsHeard(n) = BitsHeard(m)
  BY <1>3 DEF Registers, BitsHeard
<1>5. ChrBanks4k(n) = ChrBanks4k(m) /\ PrgBanks16k(n) = PrgBanks16k(m)
  BY <1>3 DEF ChrBanks4k, PrgBanks16k
<1> QED BY <1>2, <1>3, <1>4, <1>5 DEF Synced1, n

\* What the port hears of a write: a reset, or a bit for a register.
Heard(n, m, reg, bit) ==
  \/ /\ BitsHeard(n) = <<>>
     /\ Registers(n) = [Registers(m) EXCEPT ![0] = Port!LastPageFixed(@)]
  \/ /\ Len(BitsHeard(m)) = 4
     /\ BitsHeard(n) = <<>>
     /\ Registers(n) = [Registers(m) EXCEPT ![reg] = Port!ValueOf(Append(BitsHeard(m), bit))]
  \/ /\ Len(BitsHeard(m)) # 4
     /\ BitsHeard(n) = Append(BitsHeard(m), bit)
     /\ Registers(n) = Registers(m)

\* A write that MMC1 hears does to the bits and registers what the serial port does.
LEMMA Mmc1WriteFacts ==
  ASSUME NEW m \in Mmc1s, NEW addr, NEW value, Sent(addr, value)
  PROVE  LET n == Mmc1Write(m, addr, value) IN
         /\ n \in Mmc1s /\ Synced1(n) /\ n.ppuclock = m.ppuclock
         /\ Heard(n, m, addr \div 8192, Bit(value, 0))
<1> DEFINE n == Mmc1Write(m, addr, value)
           reg == addr \div 8192
           bit == Bit(value, 0)
           reset == Bit(value, 7) = 1
<1>1. reg \in 0..3 /\ bit \in 0..1
  BY BitRange DEF Sent
<1>2. Len(BitsHeard(m)) = m.shift_count
  BY HeardFacts
<1>3. /\ reset => n = Sync1(SerialReset(Shift(m, 0, 0)))
      /\ ~reset /\ m.shift_count # 4 =>
           n = Sync1(Shift(m, m.shift_count + 1, (m.shift_val \div 2) + 16 * bit))
      /\ ~reset /\ m.shift_count = 4 => n = Loaded(m, reg, bit)
  BY Mmc1WriteCases
<1> HIDE DEF n, reg, bit, reset
<1>4. CASE reset
  <2>1. n = Sync1(SerialReset(Shift(m, 0, 0)))
    BY <1>3, <1>4
  <2>2. /\ n \in Mmc1s /\ Synced1(n) /\ n.ppuclock = m.ppuclock
        /\ BitsHeard(n) = <<>>
        /\ Registers(n) = [Registers(m) EXCEPT ![0] = Port!LastPageFixed(@)]
    BY <2>1, ResetHeard
  <2> QED BY <2>2 DEF Heard, n, reg, bit
<1>5. CASE ~reset /\ m.shift_count # 4
  <2>1. n = Sync1(Shift(m, m.shift_count + 1, (m.shift_val \div 2) + 16 * bit))
    BY <1>3, <1>5
  <2>2. /\ n \in Mmc1s /\ Synced1(n) /\ n.ppuclock = m.ppuclock
        /\ BitsHeard(n) = Append(BitsHeard(m), bit)
        /\ Registers(n) = Registers(m)
    BY <1>1, <1>5, <2>1, BitHeard
  <2> QED BY <1>2, <1>5, <2>2 DEF Heard, n, reg, bit
<1>6. CASE ~reset /\ m.shift_count = 4
  <2>1. n = Loaded(m, reg, bit)
    BY <1>3, <1>6
  <2>2. /\ n \in Mmc1s /\ Synced1(n) /\ n.ppuclock = m.ppuclock
        /\ BitsHeard(n) = <<>>
        /\ Registers(n) = [Registers(m) EXCEPT ![reg] = Port!ValueOf(Append(BitsHeard(m), bit))]
    BY <1>1, <1>6, <2>1, ValueHeard
  <2> QED BY <1>2, <1>6, <2>2 DEF Heard, n, reg, bit
<1> QED BY <1>4, <1>5, <1>6


-----------------------------------------------------------------------------
\* The masks are the cartridge's.
LEMMA MasksStay ==
  ASSUME kind' = kind
  PROVE  prg_mask' = prg_mask /\ LargestChr' = LargestChr
BY DEF prg_mask, LargestChr, chr_mask

\* Where neither chip is touched and the mirroring is not theirs, the rest follows.
LEMMA WriteLatchKeeps ==
  ASSUME IInv, NEW value \in 0..255, kind \notin {"SxROM", "TxROM"}, slot' = 1,
         WriteLatch(value), UNCHANGED <<kind, program>>
  PROVE  IInv'
<1> USE DEF IInv
<1>1. UNCHANGED <<kind, program, mmc1, mmc3, IrqSignal, heard, owed>>
  BY DEF WriteLatch
<1>2. /\ value \in Nat /\ value \div 16 \in Nat /\ (value \div 16) % 4 \in Nat /\ value % 8 \in Nat
      /\ value % 16 \in 0..15
  OBVIOUS
<1>3. prg_mask \in Nat /\ chr_mask \in Nat
  BY Masks DEF Fields
<1>4. prg' \in 0..prg_mask
  <2> DEFINE high == value \div 16
             low == (value \div 16) % 4
  <2>1. /\ Masked(value, prg_mask) \in 0..prg_mask /\ Masked(high, prg_mask) \in 0..prg_mask
        /\ Masked(low, prg_mask) \in 0..prg_mask
    BY <1>2, <1>3, MaskedRange
  <2>2. \/ prg' = Masked(value, prg_mask) \/ prg' = Masked(high, prg_mask)
        \/ prg' = Masked(low, prg_mask) \/ prg' = prg
    BY DEF WriteLatch
  <2> HIDE DEF high, low
  <2> QED BY <2>1, <2>2 DEF Latched
<1>5. chr' \in 0..LargestChr
  <2> DEFINE low == value % 8
  <2>1. Masked(value, chr_mask) \in 0..chr_mask /\ Masked(low, chr_mask) \in 0..chr_mask
    BY <1>2, <1>3, MaskedRange
  <2>2. /\ kind = "CNROM" => chr' = Masked(value, chr_mask)
        /\ kind = "B74x" => chr' = value % 16
        /\ kind = "GxROM" => chr' = Masked(low, chr_mask)
        /\ kind \notin {"CNROM", "B74x", "GxROM"} => chr' = chr
    BY DEF WriteLatch
  <2>3. chr \in 0..LargestChr
    BY DEF Latched
  <2> HIDE DEF low
  <2>4. CASE kind = "B74x"
    BY <1>2, <2>2, <2>4 DEF LargestChr
  <2>5. CASE kind # "B74x"
    <3>1. LargestChr = chr_mask
      BY <2>5 DEF LargestChr
    <3> QED BY <2>1, <2>2, <2>3, <2>5, <3>1
  <2> QED BY <2>4, <2>5
<1>6. Latched'
  BY <1>1, <1>4, <1>5, MasksStay DEF Latched
<1>7. _mirroring' \in MirrorTypes
  BY DEF WriteLatch, Fields, MirrorTypes
<1>8. Fields'
  BY <1>1, <1>7 DEF Fields
<1>9. Timeout'
  BY <1>1 DEF Timeout
<1>10. Synced' /\ Filtered' /\ RisesClockOnce'
  BY <1>1 DEF Synced, Filtered, RisesClockOnce
<1>11. Driven'
  BY <1>1 DEF Driven
<1> QED BY <1>6, <1>8, <1>9, <1>10, <1>11

\* A write that MMC1 hears comes when its clock has run out, two cycles or more
\* after the last one it heard.
LEMMA WriteSxROMKeeps ==
  ASSUME IInv, NEW addr, NEW value, Sent(addr, value), kind = "SxROM", slot = 0, slot' = 1,
         WriteSxROM(addr, value), UNCHANGED <<kind, program>>
  PROVE  /\ IInv'
         /\ \/ UNCHANGED <<mmc1, heard>>
            \/ /\ heard = "no" /\ heard' = "now"
               /\ Heard(mmc1', mmc1, addr \div 8192, Bit(value, 0))
<1> USE DEF IInv
<1>1. UNCHANGED <<kind, program, prg, chr, mmc3, IrqSignal, owed>>
  BY DEF WriteSxROM
<1>2. Latched' /\ Filtered' /\ RisesClockOnce'
  BY <1>1, MasksStay DEF Latched, Filtered, RisesClockOnce
<1>3. mmc1 \in Mmc1s /\ Synced1(mmc1)
  BY DEF Fields, Synced
<1>4. CASE mmc1.ppuclock >= PpuTimeout
  <2> DEFINE n == Mmc1Write(mmc1, addr, value)
             zero == 0
             q == [n EXCEPT !.ppuclock = zero]
             reg == addr \div 8192
             bit == Bit(value, 0)
  <2>1. mmc1' = q /\ _mirroring' = q.mirror /\ heard' = "now"
    BY <1>4, Zenon DEF WriteSxROM
  <2>2. n \in Mmc1s /\ Synced1(n) /\ Heard(n, mmc1, reg, bit)
    BY <1>3, Mmc1WriteFacts
  <2>3. zero \in Counts /\ zero = 0
    BY DEF Counts
  <2> HIDE DEF n, zero, reg, bit
  <2>4. /\ q \in Mmc1s /\ q.ppuclock = zero /\ Synced1(q)
        /\ Registers(q) = Registers(n) /\ BitsHeard(q) = BitsHeard(n)
    BY <2>2, <2>3, Timed
  <2>5. Heard(q, mmc1, reg, bit)
    BY <2>2, <2>4, Zenon DEF Heard
  <2>6. q.mirror \in MirrorTypes
    BY <2>4 DEF Mmc1s
  <2> HIDE DEF q
  <2>7. heard = "no"
    <3>1. heard \in {"now", "last", "no"}
      BY DEF Fields
    <3>2. heard # "now"
      BY DEF Timeout
    <3>3. heard = "last" => mmc1.ppuclock <= 3
      BY DEF Timeout
    <3>4. mmc1.ppuclock \in 0..4 /\ mmc1.ppuclock >= 4
      BY <1>3, <1>4 DEF Mmc1s, PpuTimeout
    <3> QED BY <3>1, <3>2, <3>3, <3>4
  <2>8. Fields'
    BY <1>1, <2>1, <2>4, <2>6 DEF Fields
  <2>9. Timeout'
    BY <2>1, <2>3, <2>4 DEF Timeout
  <2>10. Synced' /\ Driven'
    BY <1>1, <2>1, <2>4 DEF Synced, Driven
  <2> QED BY <1>2, <2>1, <2>5, <2>7, <2>8, <2>9, <2>10 DEF reg, bit
<1>5. CASE ~(mmc1.ppuclock >= PpuTimeout)
  <2>1. UNCHANGED <<mmc1, _mirroring, heard>>
    BY <1>5 DEF WriteSxROM
  <2>2. heard # "now"
    BY DEF Timeout
  <2>3. Fields' /\ Synced'
    BY <1>1, <2>1 DEF Fields, Synced
  <2>4. Timeout'
    BY <1>1, <2>1, <2>2 DEF Timeout
  <2>5. Driven'
    BY <1>1, <2>1, <2>2 DEF Driven
  <2> QED BY <1>2, <2>1, <2>3, <2>4, <2>5
<1> QED BY <1>4, <1>5

\* MMC3 shows its mirroring and its interrupt after every write.
LEMMA WriteTxROMKeeps ==
  ASSUME IInv, NEW addr \in Mmc3Addresses, NEW value \in Bytes, kind = "TxROM", slot' = 1,
         WriteTxROM(addr, value), UNCHANGED <<kind, program>>
  PROVE  IInv'
<1> USE DEF IInv
<1> DEFINE n == WriteMmc3(mmc3, addr, value)
<1>1. UNCHANGED <<kind, program, prg, chr, mmc1, heard, owed>>
  BY DEF WriteTxROM
<1>2. /\ mmc3' = n /\ _mirroring' = MirrorType(n)
      /\ IrqSignal' = IF addr >= 24576 THEN n.irq_pending ELSE IrqSignal
  BY DEF WriteTxROM
<1>3. mmc3 \in Mmc3s /\ Synced3(mmc3)
  BY DEF Fields, Synced
<1>4. mmc3.irq_pending => mmc3.irq_enable
  BY DEF Driven
<1>5. /\ n \in Mmc3s /\ Synced3(n) /\ KeepsCounter(n, mmc3)
      /\ n.irq_pending => n.irq_enable
      /\ addr < 24576 => n.irq_pending = mmc3.irq_pending
  <2>1. CASE addr \in BankAddresses
    <3>1. /\ n \in Mmc3s /\ Synced3(n) /\ KeepsCounter(n, mmc3)
          /\ n.irq_pending = mmc3.irq_pending /\ n.irq_enable = mmc3.irq_enable
      BY <1>3, <2>1, BankWriteFacts
    <3> QED BY <1>4, <3>1
  <2>2. CASE addr \in OtherAddresses
    <3>1. /\ n \in Mmc3s /\ Synced3(n) /\ KeepsCounter(n, mmc3)
          /\ addr < 24576 => n.irq_pending = mmc3.irq_pending /\ n.irq_enable = mmc3.irq_enable
          /\ addr >= 24576 => (n.irq_pending => mmc3.irq_pending /\ n.irq_enable)
      BY <1>3, <2>2, OtherWriteFacts
    <3>2. addr < 24576 \/ addr >= 24576
      BY DEF Mmc3Addresses
    <3> QED BY <1>4, <3>1, <3>2
  <2> QED BY <2>1, <2>2 DEF BankAddresses, OtherAddresses
<1> HIDE DEF n
<1>6. n.irq_pending \in BOOLEAN
  BY <1>5 DEF Mmc3s
<1>7. IrqSignal' = n.irq_pending
  <2>1. IrqSignal = mmc3.irq_pending
    BY DEF Driven
  <2>2. addr < 24576 \/ addr >= 24576
    BY DEF Mmc3Addresses
  <2> QED BY <1>2, <1>5, <2>1, <2>2
<1>8. Fields'
  <2>1. MirrorType(n) \in MirrorTypes
    BY DEF MirrorType, MirrorTypes
  <2>2. IrqSignal' \in BOOLEAN
    BY <1>6, <1>7
  <2> QED BY <1>1, <1>2, <1>5, <2>1, <2>2 DEF Fields
<1>9. Latched' /\ Synced'
  BY <1>1, <1>2, <1>5, MasksStay DEF Latched, Synced
<1>10. Timeout'
  BY <1>1 DEF Timeout
<1>11. Driven'
  BY <1>1, <1>2, <1>5, <1>7 DEF Driven
<1>12. Filtered' /\ RisesClockOnce'
  BY <1>1, <1>2, <1>5 DEF Filtered, RisesClockOnce, KeepsCounter
<1> QED BY <1>8, <1>9, <1>10, <1>11, <1>12


\* A rise of A12 that the filter lets through finds no countdown under way.
LEMMA AddressPpuKeeps ==
  ASSUME IInv, NEW a12 \in 0..1, AddressPpu(a12)
  PROVE  IInv' /\ UNCHANGED <<mmc1, heard>>
<1> USE DEF IInv
<1> DEFINE n == Addressed(mmc3, a12)
<1>1. /\ UNCHANGED <<kind, program, slot, prg, chr, mmc1, _mirroring, IrqSignal, heard>>
      /\ kind = "TxROM"
  BY DEF AddressPpu
<1>2. /\ mmc3' = n
      /\ owed' = IF a12 = 1 /\ mmc3.separator_counter = 0 THEN owed + 1 ELSE owed
  BY DEF AddressPpu, Addressed
<1>3. mmc3 \in Mmc3s /\ Synced3(mmc3)
  BY DEF Fields, Synced
<1>4. mmc3.irq_countdown \in 0..5 /\ mmc3.separator_counter \in 0..15
  BY <1>3 DEF Mmc3s
<1>5. /\ n \in Mmc3s /\ Synced3(n) /\ n.mirror = mmc3.mirror
      /\ n.irq_pending = mmc3.irq_pending /\ n.irq_enable = mmc3.irq_enable
      /\ n.separator_counter = (IF a12 = 1 THEN 15 ELSE mmc3.separator_counter)
      /\ n.irq_countdown =
           (IF a12 = 1 /\ mmc3.separator_counter = 0 THEN 5 ELSE mmc3.irq_countdown)
  BY <1>3, AddressedFacts
<1> HIDE DEF n
<1>6. Fields' /\ Synced'
  BY <1>1, <1>2, <1>5 DEF Fields, Synced
<1>7. Latched' /\ Timeout'
  BY <1>1, MasksStay DEF Latched, Timeout
<1>8. Driven'
  BY <1>1, <1>2, <1>5 DEF Driven, MirrorType
<1>9. Filtered'
  BY <1>1, <1>2, <1>4, <1>5 DEF Filtered
<1>10. RisesClockOnce'
  BY <1>2, <1>4, <1>5 DEF Filtered, RisesClockOnce
<1> QED BY <1>1, <1>6, <1>7, <1>8, <1>9, <1>10

\* A dot: MMC1's clock runs to its end, and MMC3's countdown to the clock it owes.
LEMMA ClockPpuKeeps ==
  ASSUME IInv, ClockPpu
  PROVE  /\ IInv'
         /\ Registers(mmc1)' = Registers(mmc1) /\ BitsHeard(mmc1)' = BitsHeard(mmc1)
         /\ heard' = heard \/ heard' = IF heard = "now" THEN "last" ELSE "no"
<1> USE DEF IInv
<1>1. /\ UNCHANGED <<kind, program, prg, chr, _mirroring>>
      /\ slot' = CASE slot \in {0, 1} -> 2 [] slot = 2 -> 3 [] slot = 3 -> 0
      /\ heard' = IF slot # 3 THEN heard ELSE IF heard = "now" THEN "last" ELSE "no"
      /\ owed' = IF CountsDown(mmc3) THEN owed - 1 ELSE owed
  BY DEF ClockPpu
<1>2. /\ mmc1 \in Mmc1s /\ Synced1(mmc1) /\ mmc3 \in Mmc3s /\ Synced3(mmc3)
      /\ slot \in 0..3 /\ heard \in {"now", "last", "no"}
  BY DEF Fields, Synced
<1>3. /\ slot' \in 0..3 /\ slot' # 1 /\ heard' \in {"now", "last", "no"}
      /\ slot \in {0, 1} => slot' = 2 /\ heard' = heard
      /\ slot = 2 => slot' = 3 /\ heard' = heard
      /\ slot = 3 => slot' = 0 /\ heard' = (IF heard = "now" THEN "last" ELSE "no")
  BY <1>1, <1>2
<1>4. /\ mmc1' \in Mmc1s /\ Synced1(mmc1') /\ mmc1'.mirror = mmc1.mirror
      /\ Registers(mmc1') = Registers(mmc1) /\ BitsHeard(mmc1') = BitsHeard(mmc1)
      /\ kind = "SxROM" => mmc1'.ppuclock = IF mmc1.ppuclock < PpuTimeout
                                            THEN mmc1.ppuclock + 1 ELSE mmc1.ppuclock
  <2>1. CASE kind = "SxROM" /\ mmc1.ppuclock < PpuTimeout
    <3> DEFINE c == mmc1.ppuclock + 1
               q == [mmc1 EXCEPT !.ppuclock = c]
    <3>1. mmc1' = q
      BY <2>1 DEF ClockPpu
    <3>2. c \in Counts
      BY <1>2, <2>1 DEF Mmc1s, Counts, PpuTimeout
    <3> HIDE DEF c
    <3>3. /\ q \in Mmc1s /\ q.ppuclock = c /\ Synced1(q) /\ q.mirror = mmc1.mirror
          /\ Registers(q) = Registers(mmc1) /\ BitsHeard(q) = BitsHeard(mmc1)
      BY <1>2, <3>2, Timed
    <3> HIDE DEF q
    <3> QED BY <2>1, <3>1, <3>3 DEF c
  <2>2. CASE ~(kind = "SxROM" /\ mmc1.ppuclock < PpuTimeout)
    <3>1. mmc1' = mmc1
      BY <2>2 DEF ClockPpu
    <3> QED BY <1>2, <2>2, <3>1
  <2> QED BY <2>1, <2>2
<1>5. /\ mmc3' \in Mmc3s /\ Synced3(mmc3') /\ mmc3'.mirror = mmc3.mirror
      /\ mmc3'.irq_pending => mmc3'.irq_enable
      /\ kind = "TxROM" => IrqSignal' = mmc3'.irq_pending
      /\ IrqSignal' \in BOOLEAN
      /\ kind # "TxROM" => mmc3' = mmc3
      /\ kind = "TxROM" =>
           /\ mmc3'.separator_counter =
                (IF mmc3.separator_counter > 0 THEN mmc3.separator_counter - 1 ELSE 0)
           /\ mmc3'.irq_countdown =
                (IF mmc3.irq_countdown > 0 THEN mmc3.irq_countdown - 1 ELSE 0)
  <2> DEFINE n == ClockMmc3(mmc3)
             ends == CountsDown(mmc3) /\ ClockMmc3Irq(mmc3).irq_counter = 0
  <2>1. mmc3.irq_pending => mmc3.irq_enable
    BY DEF Driven
  <2>2. IrqSignal \in BOOLEAN
    BY DEF Fields
  <2>3. CASE kind = "TxROM"
    <3>1. mmc3' = n /\ IrqSignal' = IF ends THEN mmc3'.irq_pending ELSE IrqSignal
      BY <2>3 DEF ClockPpu
    <3>2. /\ n \in Mmc3s /\ Synced3(n) /\ n.mirror = mmc3.mirror
          /\ n.irq_pending => n.irq_enable
          /\ ~ends => n.irq_pending = mmc3.irq_pending
          /\ n.separator_counter =
               (IF mmc3.separator_counter > 0 THEN mmc3.separator_counter - 1 ELSE 0)
          /\ n.irq_countdown = (IF mmc3.irq_countdown > 0 THEN mmc3.irq_countdown - 1 ELSE 0)
      BY <1>2, <2>1, ClockFacts
    <3> HIDE DEF n, ends
    <3>3. IrqSignal = mmc3.irq_pending
      BY <2>3 DEF Driven
    <3>4. IrqSignal' = n.irq_pending
      BY <3>1, <3>2, <3>3
    <3>5. n.irq_pending \in BOOLEAN
      BY <3>2 DEF Mmc3s
    <3> QED BY <2>3, <3>1, <3>2, <3>4, <3>5
  <2>4. CASE kind # "TxROM"
    <3>1. mmc3' = mmc3 /\ IrqSignal' = IrqSignal
      BY <2>4 DEF ClockPpu
    <3> QED BY <1>2, <2>1, <2>2, <2>4, <3>1
  <2> QED BY <2>3, <2>4
<1>6. Fields'
  BY <1>1, <1>3, <1>4, <1>5 DEF Fields
<1>7. Latched' /\ Synced'
  BY <1>1, <1>4, <1>5, MasksStay DEF Latched, Synced
<1>8. Timeout'
  <2> SUFFICES ASSUME kind = "SxROM" PROVE Timeout'
    BY <1>1 DEF Timeout
  <2> DEFINE c == mmc1.ppuclock
             d == mmc1'.ppuclock
  <2>1. c \in 0..4 /\ d = (IF c < 4 THEN c + 1 ELSE c)
    BY <1>2, <1>4 DEF Mmc1s, PpuTimeout
  <2>2. /\ heard = "now" => slot # 0 /\ c >= slot - 2 /\ c < slot
        /\ heard = "last" => /\ c >= (IF slot \in {0, 1} THEN 2 ELSE slot + 1)
                             /\ c <= (IF slot \in {0, 1} THEN 3 ELSE 4)
        /\ heard = "no" => c = 4
    BY DEF Timeout, PpuTimeout
  <2> HIDE DEF c, d
  <2>3. /\ heard' = "now" => slot' # 0 /\ d >= slot' - 2 /\ d < slot'
        /\ heard' = "last" => /\ d >= (IF slot' \in {0, 1} THEN 2 ELSE slot' + 1)
                              /\ d <= (IF slot' \in {0, 1} THEN 3 ELSE 4)
        /\ heard' = "no" => d = 4
    <3>1. CASE slot \in {0, 1}
      <4>1. slot' = 2 /\ heard' = heard
        BY <1>3, <3>1
      <4>2. CASE heard = "now"
        BY <2>1, <2>2, <3>1, <4>1, <4>2
      <4>3. CASE heard = "last"
        BY <2>1, <2>2, <3>1, <4>1, <4>3
      <4>4. CASE heard = "no"
        BY <2>1, <2>2, <3>1, <4>1, <4>4
      <4> QED BY <1>2, <4>2, <4>3, <4>4
    <3>2. CASE slot = 2
      BY <1>3, <2>1, <2>2, <3>2
    <3>3. CASE slot = 3
      <4>1. slot' = 0 /\ heard' = (IF heard = "now" THEN "last" ELSE "no")
        BY <1>3, <3>3
      <4>2. CASE heard = "now"
        BY <2>1, <2>2, <3>3, <4>1, <4>2
      <4>3. CASE heard = "last"
        BY <2>1, <2>2, <3>3, <4>1, <4>3
      <4>4. CASE heard = "no"
        BY <2>1, <2>2, <3>3, <4>1, <4>4
      <4> QED BY <1>2, <4>2, <4>3, <4>4
    <3> QED BY <1>2, <3>1, <3>2, <3>3
  <2> QED BY <2>3 DEF d, Timeout, PpuTimeout
<1>9. Driven'
  <2>1. kind = "TxROM" => _mirroring' = MirrorType(mmc3')
    BY <1>1, <1>5 DEF Driven, MirrorType
  <2> QED BY <1>1, <1>3, <1>5, <2>1 DEF Driven
<1>10. Filtered' /\ RisesClockOnce'
  <2>1. mmc3.irq_countdown \in 0..5 /\ mmc3.separator_counter \in 0..15
    BY <1>2 DEF Mmc3s
  <2>2. CASE kind = "TxROM"
    BY <1>1, <1>5, <2>1, <2>2 DEF Filtered, RisesClockOnce, CountsDown
  <2>3. CASE kind # "TxROM"
    BY <1>1, <1>5, <2>1, <2>3 DEF Filtered, RisesClockOnce, CountsDown
  <2> QED BY <2>2, <2>3
<1> QED BY <1>2, <1>3, <1>4, <1>6, <1>7, <1>8, <1>9, <1>10


\* Every step keeps the invariant, and is a step of the port or none.
LEMMA NextKeeps ==
  ASSUME IInv, [Next]_vars
  PROVE  IInv' /\ [Port!Next]_(Port!portVars)
<1>1. ASSUME NEW w \in program, WritePrg(w[1], w[2])
      PROVE  IInv' /\ [Port!Next]_(Port!portVars)
  <2> DEFINE addr == w[1]
             value == w[2]
  <2>1. Sent(addr, value) /\ (kind = "TxROM" => addr \in Mmc3Addresses)
    BY ProgramWrites DEF IInv
  <2>2. value \in 0..255 /\ value \in Bytes
    BY <2>1 DEF Sent, Bytes
  <2> HIDE DEF addr, value
  <2>3. slot = 0 /\ slot' = 1 /\ UNCHANGED <<kind, program>>
    BY <1>1 DEF WritePrg, addr, value
  <2>4. CASE kind = "SxROM"
    <3> DEFINE reg == addr \div 8192
               bit == Bit(value, 0)
    <3>1. WriteSxROM(addr, value)
      BY <1>1, <2>4 DEF WritePrg, addr, value
    <3>2. /\ IInv'
          /\ \/ UNCHANGED <<mmc1, heard>>
             \/ heard = "no" /\ heard' = "now" /\ Heard(mmc1', mmc1, reg, bit)
      BY <2>1, <2>3, <2>4, <3>1, WriteSxROMKeeps
    <3>3. reg \in 0..3 /\ bit \in 0..1
      BY <2>1, BitRange DEF Sent
    <3> HIDE DEF reg, bit
    <3>4. CASE UNCHANGED <<mmc1, heard>>
      BY <3>2, <3>4 DEF Port!portVars
    <3>5. CASE heard = "no" /\ heard' = "now" /\ Heard(mmc1', mmc1, reg, bit)
      <4>1. Port!HearReset \/ Port!HearBit(reg, bit)
        BY <3>5 DEF Heard, Port!HearReset, Port!HearBit
      <4>2. Port!Next
        BY <3>3, <4>1 DEF Port!Next
      <4> QED BY <3>2, <4>2
    <3> QED BY <3>2, <3>4, <3>5
  <2>5. CASE kind = "TxROM"
    <3>1. WriteTxROM(addr, value)
      BY <1>1, <2>5 DEF WritePrg, addr, value
    <3>2. IInv'
      BY <2>1, <2>2, <2>3, <2>5, <3>1, WriteTxROMKeeps
    <3>3. UNCHANGED <<mmc1, heard>>
      BY <3>1 DEF WriteTxROM
    <3> QED BY <3>2, <3>3 DEF Port!portVars
  <2>6. CASE kind \notin {"SxROM", "TxROM"}
    <3>1. WriteLatch(value)
      BY <1>1, <2>6 DEF WritePrg, value
    <3>2. IInv'
      BY <2>2, <2>3, <2>6, <3>1, WriteLatchKeeps
    <3>3. UNCHANGED <<mmc1, heard>>
      BY <3>1 DEF WriteLatch
    <3> QED BY <3>2, <3>3 DEF Port!portVars
  <2> QED BY <2>4, <2>5, <2>6
<1>2. ASSUME NEW a12 \in 0..1, AddressPpu(a12)
      PROVE  IInv' /\ [Port!Next]_(Port!portVars)
  <2>1. IInv' /\ UNCHANGED <<mmc1, heard>>
    BY <1>2, AddressPpuKeeps
  <2> QED BY <2>1 DEF Port!portVars
<1>3. CASE ClockPpu
  <2>1. /\ IInv'
        /\ Registers(mmc1)' = Registers(mmc1) /\ BitsHeard(mmc1)' = BitsHeard(mmc1)
        /\ heard' = heard \/ heard' = IF heard = "now" THEN "last" ELSE "no"
    BY <1>3, ClockPpuKeeps
  <2>2. CASE heard' = heard
    BY <2>1, <2>2 DEF Port!portVars
  <2>3. CASE heard' = IF heard = "now" THEN "last" ELSE "no"
    BY <2>1, <2>3 DEF Port!EndCycle, Port!Next
  <2> QED BY <2>1, <2>2, <2>3
<1>4. CASE UNCHANGED vars
  <2>1. UNCHANGED <<kind, program, slot, prg, chr, mmc1, mmc3, _mirroring, IrqSignal, heard, owed>>
    BY <1>4 DEF vars
  <2>2. Fields' /\ Synced'
    BY <2>1 DEF IInv, Fields, Synced
  <2>3. Latched' /\ Timeout'
    BY <2>1, MasksStay DEF IInv, Latched, Timeout
  <2>4. Driven' /\ Filtered' /\ RisesClockOnce'
    BY <2>1 DEF IInv, Driven, Filtered, RisesClockOnce
  <2> QED BY <2>1, <2>2, <2>3, <2>4 DEF IInv, Port!portVars
<1> QED BY <1>1, <1>2, <1>3, <1>4 DEF Next

\* The inductive invariant holds throughout.
LEMMA Invariance == Spec => []IInv
<1>1. IInv /\ [Next]_vars => IInv'
  BY NextKeeps
<1> QED BY <1>1, InitOK, PTL DEF Spec

(***************************************************************************)
(* Whatever the cartridge and the program, every board reads only pages    *)
(* that its cartridge has, and every register stays in range.              *)
(***************************************************************************)
THEOREM TypeCorrect == Spec => []TypeOK
BY Invariance, Implied, PTL

(***************************************************************************)
(* What a board shows the console follows from what the console did: the   *)
(* banks, the mirroring and the interrupt line are never older than the    *)
(* registers, and each filtered rise of A12 clocks MMC3's counter once.    *)
(***************************************************************************)
THEOREM BoardAlwaysFollows == Spec => []BoardFollows
BY Invariance, Implied, PTL

(***************************************************************************)
(* MMC1's shift register and its timeout in PPU clocks implement the port  *)
(* that a program sees.                                                    *)
(***************************************************************************)
THEOREM PortAlwaysImplemented == Spec => PortImplemented
<1>1. Init => Port!Init
  BY PoweredUp1 DEF Init, Port!Init
<1>2. IInv /\ [Next]_vars => [Port!Next]_(Port!portVars)
  BY NextKeeps
<1> QED BY <1>1, <1>2, Invariance, PTL DEF Spec, PortImplemented, Port!Spec

(***************************************************************************)
(* The port drops no write but one in the cycle after a write it heard: in *)
(* a CPU slot the clock has run out exactly when the cycle before was      *)
(* silent.                                                                 *)
(***************************************************************************)
THEOREM OnlyNeighboursDropped ==
  Spec => [](kind = "SxROM" /\ slot = 0 => (mmc1.ppuclock >= PpuTimeout <=> heard = "no"))
<1>1. IInv => (kind = "SxROM" /\ slot = 0 => (mmc1.ppuclock >= PpuTimeout <=> heard = "no"))
  <2> SUFFICES ASSUME IInv, kind = "SxROM", slot = 0
               PROVE  mmc1.ppuclock >= PpuTimeout <=> heard = "no"
    OBVIOUS
  <2>1. heard \in {"last", "no"} /\ mmc1.ppuclock \in 0..4
    BY DEF IInv, Fields, Timeout, Mmc1s, PpuTimeout
  <2>2. heard = "last" => mmc1.ppuclock <= 3
    BY DEF IInv, Timeout
  <2>3. heard = "no" => mmc1.ppuclock = 4
    BY DEF IInv, Timeout, PpuTimeout
  <2> QED BY <2>1, <2>2, <2>3 DEF PpuTimeout
<1> QED BY <1>1, Invariance, PTL
=============================================================================

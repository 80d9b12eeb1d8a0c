------------------------------ MODULE Mmc1Port ------------------------------
(***************************************************************************)
(* What MMC1's serial port promises a program, with no shift register in   *)
(* sight: of two writes in neighbouring CPU cycles the second is not       *)
(* heard; the fifth bit heard since the last load or reset loads the       *)
(* register it addresses with the five, the first the lowest; a write with *)
(* bit 7 drops the bits and fixes the last 16KB at $C000.                  *)
(***************************************************************************)
EXTENDS Integers, Sequences

VARIABLES
  bits,       \* the bits heard so far
  regs,       \* the four registers, control first
  heard       \* the last write heard came "now" (this cycle), in the "last", or "no"

portVars == <<bits, regs, heard>>

ValueOf(s) == s[1] + 2 * s[2] + 4 * s[3] + 8 * s[4] + 16 * s[5]

\* Bits 2 and 3 of the control register: 16KB pages, switched at $8000.
LastPageFixed(control) == (control % 4) + 12 + 16 * (control \div 16)

Init ==
  /\ bits = <<>>
  /\ regs = [r \in 0..3 |-> IF r = 0 THEN 31 ELSE 0]
  /\ heard = "now"

HearBit(reg, b) ==
  /\ heard = "no"
  /\ heard' = "now"
  /\ IF Len(bits) = 4
     THEN /\ regs' = [regs EXCEPT ![reg] = ValueOf(Append(bits, b))]
          /\ bits' = <<>>
     ELSE /\ bits' = Append(bits, b)
          /\ UNCHANGED regs

HearReset ==
  /\ heard = "no"
  /\ heard' = "now"
  /\ bits' = <<>>
  /\ regs' = [regs EXCEPT ![0] = LastPageFixed(@)]

\* A CPU cycle ends.
EndCycle ==
  /\ heard' = (IF heard = "now" THEN "last" ELSE "no")
  /\ UNCHANGED <<bits, regs>>

Next == (\E reg \in 0..3, b \in 0..1 : HearBit(reg, b)) \/ HearReset \/ EndCycle

Spec == Init /\ [][Next]_portVars

=============================================================================

-------------------------------- MODULE Cpu --------------------------------
(***************************************************************************)
(* MOS6502X (mos6502x.hpp): the microcoded 6502, one bus cycle per call of *)
(* ExecuteOne.  The microcode rows, the stages with their RDY tests and    *)
(* the two-byte interrupt state are kept; registers, addresses and data    *)
(* are abstracted: an opcode is the family of rows it belongs to, and what *)
(* the data decides (page crossing, a branch taken, the flags pulled) is a *)
(* free choice.  The pins are the environment's: the PPU raises NMI        *)
(* between cycles, RunCpuOne sets IRQ and RDY before each one.             *)
(***************************************************************************)
EXTENDS Integers, Sequences, FiniteSets

VARIABLES
  mos,        \* the MOS6502X object, see CpuState
  seen        \* history the properties speak of, see History

cpuVars == <<mos, seen>>

-----------------------------------------------------------------------------
(***************************************************************************)
(* Rows of the microcode table.  SHx stands for the unstable stores, whose *)
(* stage before the write looks at RDY in its own way.                     *)
(***************************************************************************)
LowOpcodes ==
  {"BRK", "IdxInd", "Jam", "IdxIndRmw", "Zp", "ZpRmw", "PHP", "Imm", "Reg",
   "Flag", "Acc", "Abs", "AbsRmw", "Branch", "IndIdx", "IndIdxRmw", "ZpIdx",
   "ZpIdxRmw", "AbsIdx", "Nop", "AbsIdxRmw", "JSR", "PLP", "RTI", "PHA", "JMP",
   "CLI", "RTS", "PLA", "JMPInd", "SEI"}

HighOpcodes ==
  (LowOpcodes \ {"BRK", "PHP", "JSR", "PLP", "RTI", "PHA", "JMP", "CLI", "RTS",
                 "PLA", "JMPInd", "SEI"})
  \cup {"IdxIndWrite", "ZpWrite", "AbsWrite", "IndIdxWrite", "IndIdxSHx",
        "ZpIdxWrite", "AbsIdxWrite", "AbsIdxSHx"}

Vops == {"Fetch1", "Fetch1_NoInterrupt", "Relative", "Relative2", "NMI", "IRQ", "RESET"}

Opcodes == LowOpcodes \cup HighOpcodes

Microcode ==
  [BRK |-> <<"Fetch2", "PushPC", "PushPC", "PushP_BRK", "FetchPCLVector",
             "FetchPCHVector", "End_SuppressInterrupt">>,
   NMI |-> <<"FetchDummy", "FetchDummy", "PushPC", "PushPC", "PushP_NMI",
             "FetchPCLVector", "FetchPCHVector", "End_SuppressInterrupt">>,
   IRQ |-> <<"FetchDummy", "FetchDummy", "PushPC", "PushPC", "PushP_IRQ",
             "FetchPCLVector", "FetchPCHVector", "End_SuppressInterrupt">>,
   RESET |-> <<"FetchDummy", "FetchDummy", "PushDummy", "PushDummy",
               "PushP_Reset", "FetchPCLVector", "FetchPCHVector",
               "End_SuppressInterrupt">>,
   Fetch1 |-> <<"Fetch1">>, Fetch1_NoInterrupt |-> <<"Fetch1_Real">>,
   Relative |-> <<"RelBranch_Stage3", "End">>,
   Relative2 |-> <<"RelBranch_Stage4", "End">>,
   Branch |-> <<"RelBranch_Stage2", "End">>, Jam |-> <<"Jam">>,
   Nop |-> <<"FetchDummy", "End">>, Reg |-> <<"Imp_Reg", "End">>,
   Flag |-> <<"Imp_Flag", "End">>, Acc |-> <<"Imp_Acc", "End">>,
   Imm |-> <<"Imm", "End">>, CLI |-> <<"Imp_CLI", "End_ISpecial">>,
   SEI |-> <<"Imp_SEI", "End_ISpecial">>,
   PHP |-> <<"FetchDummy", "PushAP", "End">>,
   PHA |-> <<"FetchDummy", "PushAP", "End">>,
   PLA |-> <<"FetchDummy", "IncS", "PullA_NoInc", "End">>,
   PLP |-> <<"FetchDummy", "IncS", "PullP_NoInc", "End_ISpecial">>,
   RTI |-> <<"FetchDummy", "IncS", "PullP", "PullPC", "PullPC", "End">>,
   RTS |-> <<"FetchDummy", "IncS", "PullPC", "PullPC", "IncPC", "End">>,
   JSR |-> <<"Fetch2", "NOP", "PushPC", "PushPC", "JSR", "End">>,
   JMP |-> <<"Fetch2", "JMP_abs", "End">>,
   JMPInd |-> <<"Fetch2", "Fetch3", "AbsInd_JMP", "AbsInd_JMP", "End">>,
   Zp |-> <<"Fetch2", "ZP_READ", "End">>,
   ZpWrite |-> <<"Fetch2", "ZP_WRITE", "End">>,
   ZpRmw |-> <<"Fetch2", "ZP_RMW_Stage3", "ZP_RMW", "ZP_RMW_Stage5", "End">>,
   ZpIdx |-> <<"Fetch2", "ZpIdx_Stage3", "ZP_READ", "End">>,
   ZpIdxWrite |-> <<"Fetch2", "ZpIdx_Stage3", "ZP_WRITE", "End">>,
   ZpIdxRmw |-> <<"Fetch2", "ZpIdx_Stage3", "ZpIdx_RMW_Stage4", "ZP_RMW",
                  "ZpIdx_RMW_Stage6", "End">>,
   Abs |-> <<"Fetch2", "Fetch3", "Abs_READ", "End">>,
   AbsWrite |-> <<"Fetch2", "Fetch3", "Abs_WRITE", "End">>,
   AbsRmw |-> <<"Fetch2", "Fetch3", "Abs_RMW_Stage4", "Abs_RMW_Stage5",
                "Abs_RMW_Stage6", "End">>,
   AbsIdx |-> <<"Fetch2", "AbsIdx_Stage3", "AbsIdx_READ_Stage4",
                "AbsIdx_READ_Stage5", "End">>,
   AbsIdxWrite |-> <<"Fetch2", "AbsIdx_Stage3", "AbsIdx_Stage4",
                     "AbsIdx_WRITE_Stage5", "End">>,
   AbsIdxSHx |-> <<"Fetch2", "AbsIdx_Stage3", "AbsIdx_Stage4_SHx",
                   "AbsIdx_WRITE_Stage5_SHx", "End">>,
   AbsIdxRmw |-> <<"Fetch2", "AbsIdx_Stage3", "AbsIdx_Stage4",
                   "AbsIdx_RMW_Stage5", "AbsIdx_RMW_Stage6",
                   "AbsIdx_RMW_Stage7", "End">>,
   IdxInd |-> <<"Fetch2", "IdxInd_Stage3", "IdxInd_Stage4", "IdxInd_Stage5",
                "IdxInd_Stage6_READ", "End">>,
   IdxIndWrite |-> <<"Fetch2", "IdxInd_Stage3", "IdxInd_Stage4",
                     "IdxInd_Stage5", "IdxInd_Stage6_WRITE", "End">>,
   IdxIndRmw |-> <<"Fetch2", "IdxInd_Stage3", "IdxInd_Stage4", "IdxInd_Stage5",
                   "IdxInd_Stage6_RMW", "IdxInd_Stage7_RMW",
                   "IdxInd_Stage8_RMW", "End">>,
   IndIdx |-> <<"Fetch2", "IndIdx_Stage3", "IndIdx_Stage4",
                "IndIdx_READ_Stage5", "IndIdx_READ_Stage6", "End">>,
   IndIdxWrite |-> <<"Fetch2", "IndIdx_Stage3", "IndIdx_Stage4",
                     "IndIdx_WRITE_Stage5", "IndIdx_WRITE_Stage6", "End">>,
   IndIdxSHx |-> <<"Fetch2", "IndIdx_Stage3", "IndIdx_Stage4",
                   "IndIdx_WRITE_Stage5_SHA", "IndIdx_WRITE_Stage6", "End">>,
   IndIdxRmw |-> <<"Fetch2", "IndIdx_Stage3", "IndIdx_Stage4",
                   "IndIdx_RMW_Stage5", "IndIdx_RMW_Stage6",
                   "IndIdx_RMW_Stage7", "IndIdx_RMW_Stage8", "End">>]

-----------------------------------------------------------------------------
(***************************************************************************)
(* State of the CPU, and the ways a stage uses the bus.  A push goes to    *)
(* the stack page and "zp" to page zero; only a "store" can reach a        *)
(* register.  acc lists the accesses of the last cycle.  Of alu_temp only  *)
(* the carry of an index sum is kept, and of ea the vector; they and H are *)
(* kept until the stage that uses them.                                    *)
(***************************************************************************)
Kinds == {"read", "dummy", "push", "zp", "store"}

BusUses == {<<>>} \cup {<<a>> : a \in Kinds} \cup {<<"read", "read">>}

CpuState ==
  [row : DOMAIN Microcode, mi : -1..7, I : BOOLEAN,
   iflag_pending : BOOLEAN, interrupt_pending : BOOLEAN, branch_irq_hack : BOOLEAN,
   ea : {"nmi", "irq", "reset", ""}, cross : BOOLEAN, H : {"0", "high+1", "FF"},
   NMI : BOOLEAN, IRQ : BOOLEAN, rdy_freeze : BOOLEAN,
   acc : BusUses]

Uop(s) == Microcode[s.row][s.mi + 1]

Frozen(s) == [s EXCEPT !.rdy_freeze = TRUE]

Access(s, kind) == [s EXCEPT !.acc = Append(@, kind)]

Interrupted(s) == s.NMI \/ (s.IRQ /\ ~s.I)

\* A stage that reads: nothing but rdy_freeze happens while RDY is low.
Read(s, rdy) == IF rdy THEN {Access(s, "read")} ELSE {Frozen(s)}
Dummy(s, rdy) == IF rdy THEN {Access(s, "dummy")} ELSE {Frozen(s)}
\* A read at the indexed address before the carry is added to its high byte.
ReadIndexed(s, rdy) == {[t EXCEPT !.cross = @ /\ ~rdy] : t \in Read(s, rdy)}

-----------------------------------------------------------------------------
(***************************************************************************)
(* Fetches and interrupt sequences.                                        *)
(***************************************************************************)
FetchDummy(s, rdy) == Dummy(s, rdy)

Fetch1_Real(s, rdy) ==
  IF rdy
  THEN {[Access(s, "read") EXCEPT !.branch_irq_hack = FALSE, !.row = r, !.mi = -1] :
          r \in Opcodes}
  ELSE {Frozen(s)}

(***************************************************************************)
(* The poll between two instructions.  The mask is the I flag before the   *)
(* pending one is copied in; a short taken branch suppresses one poll.     *)
(***************************************************************************)
Fetch1(s, rdy) ==
  LET t == [s EXCEPT !.I = s.iflag_pending, !.mi = 0]
      u == [t EXCEPT !.interrupt_pending = FALSE] IN
  IF s.NMI /\ ~s.branch_irq_hack
  THEN FetchDummy([u EXCEPT !.ea = "nmi", !.row = "NMI", !.NMI = FALSE], rdy)
  ELSE IF s.IRQ /\ ~s.I /\ ~s.branch_irq_hack
  THEN FetchDummy([u EXCEPT !.ea = "irq", !.row = "IRQ"], rdy)
  ELSE Fetch1_Real([(IF s.branch_irq_hack THEN t ELSE u)
                      EXCEPT !.row = "Fetch1_NoInterrupt"], rdy)

FetchOperand(s, rdy) == Read(s, rdy)

PushPC(s) == {Access(s, "push")}

PushFlags(s) ==
  {[Access(s, "push") EXCEPT !.I = TRUE,
      !.ea = IF Uop(s) = "PushP_NMI" THEN "nmi" ELSE "irq"]}

ResetStack(s, rdy) ==
  IF ~rdy THEN {Frozen(s)}
  ELSE {IF Uop(s) = "PushP_Reset"
        THEN [Access(s, "dummy") EXCEPT !.ea = "reset", !.I = TRUE]
        ELSE Access(s, "dummy")}

\* Fault: the NMI that takes over a sequence stays latched.
FetchPCLVectorKeepsNmi(s, rdy) ==
  IF ~rdy THEN {Frozen(s)}
  ELSE {[Access(s, "read") EXCEPT
           !.ea = IF s.NMI /\ s.ea = "irq" THEN "nmi" ELSE @]}

(***************************************************************************)
(* An NMI that has come during a BRK or IRQ sequence takes its vector over.*)
(***************************************************************************)
FetchPCLVector(s, rdy) ==
  IF ~rdy THEN {Frozen(s)}
  ELSE LET taken == s.NMI /\ s.ea = "irq" IN
       {[Access(s, "read") EXCEPT !.NMI = @ /\ ~taken,
           !.ea = IF taken THEN "nmi" ELSE @]}

FetchPCHVector(s, rdy) == {[t EXCEPT !.ea = IF rdy THEN "" ELSE @] : t \in Read(s, rdy)}

-----------------------------------------------------------------------------
(***************************************************************************)
(* Implied and immediate instructions, stack and jumps.                    *)
(***************************************************************************)
\* Fault: a register instruction leaves the bus alone.
Imp_RegNoDummy(s, rdy) == IF rdy THEN {s} ELSE {Frozen(s)}

Imp_Reg(s, rdy) == Dummy(s, rdy)
Imp_Flag(s, rdy) == Dummy(s, rdy)
Imp_Acc(s, rdy) == Dummy(s, rdy)
Imm(s, rdy) == Read(s, rdy)

\* The pending flag is set whatever RDY says.
Imp_I(s, rdy) == Dummy([s EXCEPT !.iflag_pending = (Uop(s) = "Imp_SEI")], rdy)

StackDummy(s, rdy) == Dummy(s, rdy)
JSR(s, rdy) == Read(s, rdy)
JumpPC(s, rdy) == Read(s, rdy)
PullPC(s, rdy) == Read(s, rdy)
PullA_NoInc(s, rdy) == Read(s, rdy)
AbsInd_JMP(s, rdy) == Read(s, rdy)

PushAP(s) == {Access(s, "push")}

\* RTI takes the whole of P at once.
PullP(s, rdy) ==
  IF rdy THEN {[Access(s, "read") EXCEPT !.I = i] : i \in BOOLEAN}
         ELSE {Frozen(s)}

\* PLP leaves the mask to the poll that follows.
PullP_NoInc(s, rdy) ==
  IF rdy THEN {[Access(s, "read") EXCEPT !.iflag_pending = i] : i \in BOOLEAN}
         ELSE {Frozen(s)}

-----------------------------------------------------------------------------
(***************************************************************************)
(* Branches.  A taken one goes on in a row of its own; the poll after one  *)
(* that stays in its page is suppressed unless an interrupt was already    *)
(* waiting.                                                                *)
(***************************************************************************)
RelBranch_Stage2(s, rdy) ==
  IF rdy THEN {Access(s, "read"), [Access(s, "read") EXCEPT !.row = "Relative", !.mi = -1]}
         ELSE {Frozen(s)}

\* Fault: every short branch suppresses the poll.
RelBranch_Stage3AlwaysHacks(s, rdy) ==
  IF rdy
  THEN {[Access(s, "dummy") EXCEPT !.row = "Relative2", !.mi = -1],
        [Access(s, "dummy") EXCEPT !.branch_irq_hack = TRUE]}
  ELSE {Frozen(s)}

RelBranch_Stage3(s, rdy) ==
  IF rdy
  THEN {[Access(s, "dummy") EXCEPT !.row = "Relative2", !.mi = -1],
        [Access(s, "dummy") EXCEPT !.branch_irq_hack = @ \/ ~s.interrupt_pending]}
  ELSE {Frozen(s)}

RelBranch_Stage4(s, rdy) == Dummy(s, rdy)

-----------------------------------------------------------------------------
(***************************************************************************)
(* Zero page and absolute operands.                                        *)
(***************************************************************************)
ZP_READ(s, rdy) == Read(s, rdy)
ZP_WRITE(s) == {Access(s, "zp")}
ZP_RMW_Stage3(s, rdy) == Read(s, rdy)
ZP_RMW(s) == {Access(s, "zp")}
ZpIdx_Stage3(s, rdy) == Read(s, rdy)
ZpIdx_RMW_Stage4(s, rdy) == Read(s, rdy)

\* LAX reads its operand twice in the one cycle.
Abs_READ(s, rdy) ==
  IF rdy THEN {Access(s, "read"), Access(Access(s, "read"), "read")}
         ELSE {Frozen(s)}

Abs_WRITE(s) == {Access(s, "store")}
Abs_RMW_Stage4(s, rdy) == Read(s, rdy)
Abs_RMW_Stage5(s) == {Access(s, "store")}
Abs_RMW_Stage6(s) == {Access(s, "store")}

-----------------------------------------------------------------------------
(***************************************************************************)
(* Absolute indexed.  The sum of the low bytes decides cross.              *)
(***************************************************************************)
AbsIdx_Stage3(s, rdy) ==
  IF rdy THEN {[Access(s, "read") EXCEPT !.cross = c] : c \in BOOLEAN}
         ELSE {Frozen(s)}

AbsIdx_READ_Stage5(s, rdy) == Read(s, rdy)

\* Fault: the read is made while RDY is low, and made again.
AbsIdx_READ_Stage4Unfrozen(s, rdy) ==
  IF s.cross THEN ReadIndexed(s, TRUE)
             ELSE AbsIdx_READ_Stage5([s EXCEPT !.mi = @ + 1], rdy)

\* Without a page crossing the next stage is run in the same cycle.
AbsIdx_READ_Stage4(s, rdy) ==
  IF s.cross THEN ReadIndexed(s, rdy)
             ELSE AbsIdx_READ_Stage5([s EXCEPT !.mi = @ + 1], rdy)

AbsIdx_Stage4(s, rdy) == ReadIndexed(s, rdy)

\* RDY low just before the write: the AND with the high byte is dropped.
AbsIdx_Stage4_SHx(s, rdy) ==
  IF rdy THEN {[Access(s, "read") EXCEPT !.cross = FALSE,
                  !.H = IF @ = "0" THEN "high+1" ELSE @]}
         ELSE {[Frozen(s) EXCEPT !.H = "FF"]}

AbsIdx_WRITE_Stage5(s) == {Access(s, "store")}
AbsIdx_WRITE_Stage5_SHx(s) == {[Access(s, "store") EXCEPT !.H = "0"]}
AbsIdx_RMW_Stage5(s, rdy) == Read(s, rdy)
AbsIdx_RMW_Stage6(s) == {Access(s, "store")}
AbsIdx_RMW_Stage7(s) == {Access(s, "store")}

-----------------------------------------------------------------------------
(***************************************************************************)
(* Indexed indirect (addr,X) and indirect indexed (addr),Y.                *)
(***************************************************************************)
IdxInd_Pointer(s, rdy) ==
  IF Uop(s) = "IdxInd_Stage3" THEN Dummy(s, rdy) ELSE Read(s, rdy)

IdxInd_Stage6_READ(s, rdy) == Read(s, rdy)
IdxInd_Stage6_WRITE(s) == {Access(s, "store")}
IdxInd_Stage6_RMW(s, rdy) == Read(s, rdy)
IdxInd_Stage7_RMW(s) == {Access(s, "store")}
IdxInd_Stage8_RMW(s) == {Access(s, "store")}

IndIdx_Pointer(s, rdy) ==
  IF ~rdy THEN {Frozen(s)}
  ELSE IF Uop(s) = "IndIdx_Stage3" THEN {Access(s, "read")}
  ELSE {[Access(s, "read") EXCEPT !.cross = c] : c \in BOOLEAN}

IndIdx_WRITE_Stage5(s, rdy) == ReadIndexed(s, rdy)

IndIdx_WRITE_Stage5_SHA(s, rdy) ==
  IF rdy THEN {[Access(s, "read") EXCEPT !.cross = FALSE,
                  !.H = IF @ = "0" THEN "high+1" ELSE @]}
         ELSE {[Frozen(s) EXCEPT !.H = "FF"]}

IndIdx_READ_Stage6(s, rdy) == Read(s, rdy)

IndIdx_READ_Stage5(s, rdy) ==
  IF s.cross THEN ReadIndexed(s, rdy)
             ELSE IndIdx_READ_Stage6([s EXCEPT !.mi = @ + 1], rdy)

IndIdx_RMW_Stage5(s, rdy) == ReadIndexed(s, rdy)
IndIdx_WRITE_Stage6(s) == {[Access(s, "store") EXCEPT !.H = "0"]}
IndIdx_RMW_Stage6(s, rdy) == Read(s, rdy)
IndIdx_RMW_Stage7(s) == {Access(s, "store")}
IndIdx_RMW_Stage8(s) == {Access(s, "store")}

-----------------------------------------------------------------------------
(***************************************************************************)
(* The ends of a row run the next fetch in the same cycle.                 *)
(***************************************************************************)
End(s, rdy) ==
  Fetch1([s EXCEPT !.row = "Fetch1", !.mi = 0, !.iflag_pending = s.I], rdy)

\* After CLI, SEI and PLP: the flag they set stays pending.
End_ISpecial(s, rdy) == Fetch1([s EXCEPT !.row = "Fetch1", !.mi = 0], rdy)

\* After an interrupt sequence the next instruction is fetched unpolled.
End_SuppressInterrupt(s, rdy) ==
  Fetch1_Real([s EXCEPT !.row = "Fetch1_NoInterrupt", !.mi = 0], rdy)

\* Fault: the CPU is not held on the one stage of the row.
JamRunsOn(s) == {s}

Jam(s) == {Frozen(s)}

-----------------------------------------------------------------------------
(***************************************************************************)
(* One stage, and one cycle of the CPU.                                    *)
(***************************************************************************)
ExecuteOneRetry(s, rdy) ==
  LET u == Uop(s) IN
  CASE u = "Fetch1" -> Fetch1(s, rdy)
    [] u = "Fetch1_Real" -> Fetch1_Real(s, rdy)
    [] u \in {"Fetch2", "Fetch3"} -> FetchOperand(s, rdy)
    [] u = "FetchDummy" -> FetchDummy(s, rdy)
    [] u = "PushPC" -> PushPC(s)
    [] u = "PushAP" -> PushAP(s)
    [] u \in {"PushP_BRK", "PushP_IRQ", "PushP_NMI"} -> PushFlags(s)
    [] u \in {"PushDummy", "PushP_Reset"} -> ResetStack(s, rdy)
    [] u = "FetchPCLVector" -> FetchPCLVector(s, rdy)
    [] u = "FetchPCHVector" -> FetchPCHVector(s, rdy)
    [] u = "Imp_Reg" -> Imp_Reg(s, rdy)
    [] u = "Imp_Flag" -> Imp_Flag(s, rdy)
    [] u = "Imp_Acc" -> Imp_Acc(s, rdy)
    [] u \in {"Imp_CLI", "Imp_SEI"} -> Imp_I(s, rdy)
    [] u = "Imm" -> Imm(s, rdy)
    [] u \in {"NOP", "IncS"} -> StackDummy(s, rdy)
    [] u = "JSR" -> JSR(s, rdy)
    [] u \in {"JMP_abs", "IncPC"} -> JumpPC(s, rdy)
    [] u = "AbsInd_JMP" -> AbsInd_JMP(s, rdy)
    [] u = "PullA_NoInc" -> PullA_NoInc(s, rdy)
    [] u = "PullP" -> PullP(s, rdy)
    [] u = "PullP_NoInc" -> PullP_NoInc(s, rdy)
    [] u = "PullPC" -> PullPC(s, rdy)
    [] u = "RelBranch_Stage2" -> RelBranch_Stage2(s, rdy)
    [] u = "RelBranch_Stage3" -> RelBranch_Stage3(s, rdy)
    [] u = "RelBranch_Stage4" -> RelBranch_Stage4(s, rdy)
    [] u = "ZP_READ" -> ZP_READ(s, rdy)
    [] u = "ZP_WRITE" -> ZP_WRITE(s)
    [] u = "ZP_RMW_Stage3" -> ZP_RMW_Stage3(s, rdy)
    [] u \in {"ZP_RMW", "ZP_RMW_Stage5", "ZpIdx_RMW_Stage6"} -> ZP_RMW(s)
    [] u = "ZpIdx_Stage3" -> ZpIdx_Stage3(s, rdy)
    [] u = "ZpIdx_RMW_Stage4" -> ZpIdx_RMW_Stage4(s, rdy)
    [] u = "Abs_READ" -> Abs_READ(s, rdy)
    [] u = "Abs_WRITE" -> Abs_WRITE(s)
    [] u = "Abs_RMW_Stage4" -> Abs_RMW_Stage4(s, rdy)
    [] u = "Abs_RMW_Stage5" -> Abs_RMW_Stage5(s)
    [] u = "Abs_RMW_Stage6" -> Abs_RMW_Stage6(s)
    [] u = "AbsIdx_Stage3" -> AbsIdx_Stage3(s, rdy)
    [] u = "AbsIdx_READ_Stage4" -> AbsIdx_READ_Stage4(s, rdy)
    [] u = "AbsIdx_READ_Stage5" -> AbsIdx_READ_Stage5(s, rdy)
    [] u = "AbsIdx_Stage4" -> AbsIdx_Stage4(s, rdy)
    [] u = "AbsIdx_Stage4_SHx" -> AbsIdx_Stage4_SHx(s, rdy)
    [] u = "AbsIdx_WRITE_Stage5" -> AbsIdx_WRITE_Stage5(s)
    [] u = "AbsIdx_WRITE_Stage5_SHx" -> AbsIdx_WRITE_Stage5_SHx(s)
    [] u = "AbsIdx_RMW_Stage5" -> AbsIdx_RMW_Stage5(s, rdy)
    [] u = "AbsIdx_RMW_Stage6" -> AbsIdx_RMW_Stage6(s)
    [] u = "AbsIdx_RMW_Stage7" -> AbsIdx_RMW_Stage7(s)
    [] u \in {"IdxInd_Stage3", "IdxInd_Stage4", "IdxInd_Stage5"} -> IdxInd_Pointer(s, rdy)
    [] u = "IdxInd_Stage6_READ" -> IdxInd_Stage6_READ(s, rdy)
    [] u = "IdxInd_Stage6_WRITE" -> IdxInd_Stage6_WRITE(s)
    [] u = "IdxInd_Stage6_RMW" -> IdxInd_Stage6_RMW(s, rdy)
    [] u = "IdxInd_Stage7_RMW" -> IdxInd_Stage7_RMW(s)
    [] u = "IdxInd_Stage8_RMW" -> IdxInd_Stage8_RMW(s)
    [] u \in {"IndIdx_Stage3", "IndIdx_Stage4"} -> IndIdx_Pointer(s, rdy)
    [] u = "IndIdx_READ_Stage5" -> IndIdx_READ_Stage5(s, rdy)
    [] u = "IndIdx_READ_Stage6" -> IndIdx_READ_Stage6(s, rdy)
    [] u = "IndIdx_WRITE_Stage5" -> IndIdx_WRITE_Stage5(s, rdy)
    [] u = "IndIdx_WRITE_Stage5_SHA" -> IndIdx_WRITE_Stage5_SHA(s, rdy)
    [] u = "IndIdx_WRITE_Stage6" -> IndIdx_WRITE_Stage6(s)
    [] u = "IndIdx_RMW_Stage5" -> IndIdx_RMW_Stage5(s, rdy)
    [] u = "IndIdx_RMW_Stage6" -> IndIdx_RMW_Stage6(s, rdy)
    [] u = "IndIdx_RMW_Stage7" -> IndIdx_RMW_Stage7(s)
    [] u = "IndIdx_RMW_Stage8" -> IndIdx_RMW_Stage8(s)
    [] u = "End" -> End(s, rdy)
    [] u = "End_ISpecial" -> End_ISpecial(s, rdy)
    [] u = "End_SuppressInterrupt" -> End_SuppressInterrupt(s, rdy)
    [] u = "Jam" -> Jam(s)

ExecuteOne(s, rdy) ==
  LET t == [s EXCEPT !.interrupt_pending = @ \/ Interrupted(s),
                     !.rdy_freeze = FALSE, !.acc = <<>>]
  IN  {[u EXCEPT !.mi = IF u.rdy_freeze THEN @ ELSE @ + 1] : u \in ExecuteOneRetry(t, rdy)}

-----------------------------------------------------------------------------
(***************************************************************************)
(* History: NMIs raised and not yet vectored; opcodes fetched while an NMI *)
(* or an unmasked IRQ waits; I when the running opcode was fetched; length *)
(* of the run of writes up to now; cycles since the last store.            *)
(***************************************************************************)
Cap == 3                     \* bound: the counters of History stop here

History ==
  [owed : 0..Cap, nmiWait : 0..Cap, irqWait : 0..Cap, iAtFetch : BOOLEAN,
   run : 0..Cap + 1, since : 0..Cap]

Upto(n, cap) == IF n < cap THEN n + 1 ELSE cap

Fetched(t) == t.row \in Opcodes /\ t.mi = 0 /\ ~t.rdy_freeze

Waited(waiting, count, t) ==
  IF ~waiting THEN 0 ELSE IF Fetched(t) THEN Upto(count, Cap) ELSE count

Record(t) ==
  LET vectored == Uop(mos) = "FetchPCLVector" /\ ~t.rdy_freeze /\ t.ea = "nmi"
      writes   == t.acc \in {<<"push">>, <<"zp">>, <<"store">>}
  IN  [owed     |-> IF vectored THEN seen.owed - 1 ELSE seen.owed,
       nmiWait  |-> Waited(t.NMI, seen.nmiWait, t),
       irqWait  |-> Waited(t.IRQ /\ ~t.I, seen.irqWait, t),
       iAtFetch |-> IF Fetched(t) THEN t.I ELSE seen.iAtFetch,
       run      |-> IF writes THEN Upto(seen.run, Cap + 1) ELSE 0,
       since    |-> IF t.acc = <<"store">> THEN 0 ELSE Upto(seen.since, Cap)]

(***************************************************************************)
(* MOS6502X::Reset.  interrupt_pending and branch_irq_hack have no         *)
(* initializer and are not set by it.                                      *)
(***************************************************************************)
CpuInit ==
  /\ mos \in [row : {"RESET"}, mi : {0}, I : {FALSE}, iflag_pending : {TRUE},
              interrupt_pending : BOOLEAN, branch_irq_hack : BOOLEAN,
              ea : {""}, cross : {FALSE}, H : {"0"}, NMI : {FALSE},
              IRQ : {FALSE}, rdy_freeze : {FALSE}, acc : {<<>>}]
  /\ seen = [owed |-> 0, nmiWait |-> 0, irqWait |-> 0, iAtFetch |-> FALSE,
             run |-> 0, since |-> Cap]

\* RunCpuOne sets the pins and runs one cycle.
CpuCycle(rdy, irq) ==
  /\ mos' \in ExecuteOne([mos EXCEPT !.IRQ = irq], rdy)
  /\ seen' = Record(mos')

\* The PPU latches an NMI between two CPU cycles; over a latched one it does nothing.
RaiseNmi ==
  /\ ~mos.NMI
  /\ mos' = [mos EXCEPT !.NMI = TRUE]
  /\ seen' = [seen EXCEPT !.owed = @ + 1]

\* A sequence in flight is abandoned; a latched NMI is not.
NESSoftReset ==
  /\ mos' = [mos EXCEPT !.row = "RESET", !.mi = 0, !.iflag_pending = TRUE, !.I = TRUE,
                        !.acc = <<>>]
  /\ seen' = [seen EXCEPT !.owed = IF mos.NMI THEN 1 ELSE 0, !.nmiWait = 0, !.irqWait = 0]

CpuNext ==
  \/ \E rdy, irq \in BOOLEAN : CpuCycle(rdy, irq)
  \/ RaiseNmi
  \/ NESSoftReset

(***************************************************************************)
(* The emulator goes on running cycles and no DMA holds the CPU for ever   *)
(* (CpuReleased of DmcDma), so accesses never cease, unless a jammed CPU   *)
(* makes none.  Said of the steps and not as WF, whose test for each edge  *)
(* would cost TLC ten times the rest of the run.                           *)
(***************************************************************************)
Accesses == mos'.acc # <<>> /\ ~RaiseNmi

CpuSpec == CpuInit /\ [][CpuNext]_cpuVars /\ ([]<><<Accesses>>_cpuVars \/ <>[](mos.row = "Jam"))

-----------------------------------------------------------------------------
(***************************************************************************)
(* Every microcode index is one of its row: the dispatch never traps.      *)
(***************************************************************************)
CpuTypeOK ==
  /\ mos \in CpuState
  /\ mos.mi + 1 \in DOMAIN Microcode[mos.row]
  /\ seen \in History

(***************************************************************************)
(* A cycle with RDY low only delays: it makes no access and the next cycle *)
(* with RDY high does what this one would have done.  Only writes do not   *)
(* look at RDY, and H alone remembers it, for the unstable stores.         *)
(***************************************************************************)
Settled(s) == [s EXCEPT !.H = "0", !.interrupt_pending = @ \/ Interrupted(s)]

FreezeIsTransparent ==
  LET ready == {Settled(t) : t \in ExecuteOne(mos, TRUE)} IN
  \A t \in ExecuteOne(mos, FALSE) :
    IF t.rdy_freeze
    THEN t.acc = <<>> /\ {Settled(u) : u \in ExecuteOne(t, TRUE)} \subseteq ready
    ELSE Head(t.acc) \in {"push", "zp", "store"} /\ Settled(t) \in ready

(***************************************************************************)
(* An NMI is vectored to once for each time it was latched: none is lost   *)
(* in a BRK or IRQ sequence it takes over, and none is taken twice.        *)
(***************************************************************************)
NmiServicedOnce ==
  seen.owed = (IF mos.NMI THEN 1 ELSE 0)
              + (IF mos.row = "NMI" /\ mos.mi <= 5 THEN 1 ELSE 0)

(***************************************************************************)
(* An NMI or unmasked IRQ waits for at most one opcode besides the one     *)
(* running: branches cannot put the poll off again and again.              *)
(***************************************************************************)
PromptInterrupts == seen.nmiWait <= 1 /\ seen.irqWait <= 1

(***************************************************************************)
(* No interrupt is lost, repeated or put off, whatever sequence it comes   *)
(* into.                                                                   *)
(***************************************************************************)
InterruptsServed == NmiServicedOnce /\ PromptInterrupts

(***************************************************************************)
(* Interrupts are taken at the end of an instruction and nowhere else, NMI *)
(* first, IRQ by the mask in force before a CLI, SEI or PLP and after any  *)
(* other instruction.                                                      *)
(***************************************************************************)
InterruptPolling ==
  [][LET ends   == Uop(mos) \in {"End", "End_ISpecial"} /\ ~mos.branch_irq_hack
         masked == IF mos.row \in {"CLI", "SEI", "PLP"} THEN seen.iAtFetch ELSE mos.I
         moved  == ~NESSoftReset /\ <<mos.row, mos.mi>>' # <<mos.row, mos.mi>>
     IN  /\ moved /\ mos.row # "NMI" => (mos'.row = "NMI" <=> ends /\ mos.NMI)
         /\ moved /\ mos.row # "IRQ" =>
              (mos'.row = "IRQ" <=> ends /\ ~mos.NMI /\ mos'.IRQ /\ ~masked)]_cpuVars

(***************************************************************************)
(* What the models of the DMAs and of the frame sequencer assume of the    *)
(* CPU: no more than three writes in a row, of which at most two stores;   *)
(* three cycles at least between the stores of two instructions; one       *)
(* access in a cycle that is not frozen, but for the two reads of LAX abs, *)
(* after which its instruction has no access left.                         *)
(***************************************************************************)
WritesAreSpaced ==
  [][RaiseNmi \/ NESSoftReset \/
     /\ seen'.run <= 3
     /\ mos'.acc = <<"store">> =>
          \/ seen.since >= 3
          \/ seen.since = 0 /\ seen.run = 1 /\ mos'.row = mos.row
     /\ Len(mos'.acc) > 1 =>
          mos'.acc = <<"read", "read">> /\ Uop(mos) = "Abs_READ" /\ Uop(mos') = "End"
     /\ mos'.acc = <<>> => mos'.rdy_freeze]_cpuVars

(***************************************************************************)
(* A latched NMI is taken in the end, whatever DMAs and branches come in   *)
(* between, unless the program has jammed the CPU or someone presses reset *)
(* (the sequence of the reset over, it is due again).                      *)
(***************************************************************************)
NmiTaken == mos.NMI ~> (~mos.NMI \/ mos.row \in {"Jam", "RESET"})

(***************************************************************************)
(* Interrupts are taken where they are polled, and polled in the end.      *)
(***************************************************************************)
PollsTake == InterruptPolling /\ NmiTaken

=============================================================================

-------------------------------- MODULE Hart --------------------------------
(***************************************************************************)
(* cpu::Hart (Sources/cpu/Hart/, cpu_Hart.h): one hart, its registers, and *)
(* what its public calls do to them and to memory.  ExecuteInst decodes an *)
(* instruction and runs it; CSRs and memory are reached through it or by   *)
(* calls of their own.                                                     *)
(*                                                                         *)
(* A call is one step: no other hart runs.  MemoryManager says what        *)
(* several may see of each other within a translation, and that without    *)
(* disturbance a walk is the GetPteImpl used here.                         *)
(***************************************************************************)
EXTENDS Translation, Decoder

CONSTANTS Contents,     \* what memory may hold at first
          Registers,    \* what the general purpose registers may hold at first
          LeftLevels,   \* what m_CurPrivLevel may hold before the first Reset
          LeftCounts,   \* what m_PTLevelCount may hold before satp is written
          LeftFlags,    \* m_EnableSUM and m_EnableMXR, which nothing sets
          LeftWords,    \* what a machine register nobody set may hold
          Insts,        \* the instructions given to ExecuteInst
          CsrIds,       \* the CSRs the caller accesses
          Values,       \* the values it gives to registers and CSRs
          Places,       \* the addresses it gives to the program counter and to
                        \* mapped accesses
          Coded,        \* instructions, for the encoder and the disassembler
          Budget        \* bound: the number of calls

NumGPR == 32
Files == [0 .. NumGPR - 1 -> WordsOf(64)]

ASSUME StateAssumption == /\ Contents \subseteq Memories
                          /\ Registers \subseteq Files
                          /\ LeftLevels \subseteq Levels
                          /\ LeftCounts \subseteq Nat
                          /\ LeftFlags \subseteq [sum : BOOLEAN, mxr : BOOLEAN]
ASSUME CallsAssumption == /\ Insts \cup Coded \subseteq WordsOf(32)
                          /\ CsrIds \subseteq WordsOf(12)
                          /\ Values \cup LeftWords \cup Places \subseteq WordsOf(64)
                          /\ Budget \in Nat

VARIABLES
  pc,        \* m_PC
  gpr,       \* m_GPR
  priv,      \* m_CurPrivLevel
  csr,       \* what the CSRs stand for: m_SupervisorScratch, m_MachineScratch,
             \* m_CycleCount and the memory manager's m_PTAddr, m_Mode, m_PTLevelCount
  flags,     \* the memory manager's m_EnableSUM and m_EnableMXR
  memory,    \* the doublewords of memory
  aborted,   \* the emulator is gone: aborted, or stopped by the machine
  result,    \* the result of the last call
  out,       \* what the caller was given to read last
  ran,       \* history: the instruction that the last call ran, if it did
  calls      \* calls made

vars == <<pc, gpr, priv, csr, flags, memory, aborted, result, out, ran, calls>>

CsrRecords == [sscratch : WordsOf(64), mscratch : WordsOf(64), cycles : WordsOf(64),
               ptAddr : Addresses, mode : {Bare, Sv39, Sv48, Sv57}, count : Nat]

MemoryFaults == Reasons \X {"AccessFault", "PageFault", "NoValidPteFound"}
CsrFaults == {<<"CsrPrivilageTooLow">>, <<"WriteReadOnlyCsr">>, <<"CsrIdInvalid">>,
              <<"InvalidTranslationMode">>, <<"true">>}
Results == {<<"none">>, <<"success">>, <<"InvalidInstruction">>} \cup CsrFaults \cup MemoryFaults

TypeOK ==
  /\ pc \in Addresses
  /\ gpr \in Files
  /\ priv \in Levels
  /\ csr \in CsrRecords
  /\ flags \in [sum : BOOLEAN, mxr : BOOLEAN]
  /\ memory \in Memories
  /\ aborted \in BOOLEAN
  /\ result \in Results
  /\ out \in WordsOf(64)
  /\ ran \subseteq Instructions
  /\ calls \in 0 .. Budget

\* After Initialize, which sets nothing here but the translation mode.
Init ==
  /\ pc \in Places
  /\ gpr \in Registers
  /\ priv \in LeftLevels
  /\ csr \in [sscratch : {{}}, mscratch : {{}}, cycles : {{}},
              ptAddr : {{}}, mode : {Bare}, count : LeftCounts]
  /\ flags \in LeftFlags
  /\ memory \in Contents
  /\ aborted = FALSE
  /\ result = <<"none">>
  /\ out = {}
  /\ ran = {}
  /\ calls = 0

-----------------------------------------------------------------------------
(* Memory: mem is memory as the call has left it so far *)

Translated == priv # Machine /\ csr.mode # Bare

Reached(res, mem, addr) == [res |-> res, memory |-> mem, addr |-> addr]

Through(leaf, mem, vaddr, level, reason) ==
  IF leaf.kind # "leaf" THEN Reached(leaf.kind, mem, vaddr)
  ELSE IF LevelAllowed(leaf.pte, level, flags.sum) /\ ReasonAllowed(leaf.pte, reason, flags.mxr)
       THEN Reached("success", Store(mem, 8, leaf.pteAddr, Marked(leaf.pte, reason)),
                    NewAddr(leaf.pte, leaf.level, vaddr))
       ELSE Reached("PageFault", mem, vaddr)
TranslateImpl(mem, vaddr, level, reason) ==
  Through(GetPteImpl(mem, csr.ptAddr, csr.count, vaddr), mem, vaddr, level, reason)

\* The translation's result, or the memory controller's.
AccessResult(at, width, reason) ==
  IF at.res # "success" THEN GetTranslationResult(at.res, reason)
  ELSE IF Present(width, at.addr) THEN <<"success">> ELSE <<"Any", "AccessFault">>

\* ReadImpl, WriteImpl and InstFetch: where an access ends up.
Access(mem, vaddr, reason) ==
  IF Translated THEN TranslateImpl(mem, vaddr, priv, reason) ELSE Reached("success", mem, vaddr)

\* MappedReadImpl and MappedWriteImpl: with the highest privilege, in any mode.
MappedAccess(mem, vaddr) == TranslateImpl(mem, vaddr, Machine, "Any")

Written(at, width, res, word) ==
  IF res = <<"success">> THEN Store(at.memory, width, at.addr, word) ELSE at.memory

-----------------------------------------------------------------------------
(* CSRs *)

CsrId == [sscratch |-> {6, 8}, satp |-> {7, 8}, misa |-> {0, 8, 9}, mscratch |-> {6, 8, 9},
          mcycle |-> {8, 9, 11}, minstret |-> {1, 8, 9, 11},
          mcycleh |-> {7, 8, 9, 11}, minstreth |-> {1, 7, 8, 9, 11},
          cycle |-> {10, 11}, time |-> {0, 10, 11}, instret |-> {1, 10, 11},
          cycleh |-> {7, 10, 11}, timeh |-> {0, 7, 10, 11}, instreth |-> {1, 7, 10, 11}]
Counters == {CsrId.mcycle, CsrId.minstret, CsrId.cycle, CsrId.instret}

CanWrite(id) == id \cap {8, 9} # {}

\* The level that the register's number asks for.
LevelOf(id) == Bit(id, 10) + 2 * Bit(id, 11)

\* Compared the wrong way round: a number is open to the levels up to its own.
CanAccess(id, level) == LevelOf(id) >= level

\* satp's fields: PPN, ASID, which the memory manager does not keep, and MODE.
PPN(satp) == satp \cap 0 .. 43
MODE(satp) == Value(Shr(satp, 60))
CSRRead_satp == AssignBitfield(AssignBitfield({}, 0, 44, Shr(csr.ptAddr, 12)), 60, 4, Bits(csr.mode))

\* MXL is written to where a 32-bit misa has it.
MisaValue == {8, 12} \cup AssignBitfield({}, 30, 2, Bits(2))

\* The counters' upper halves do not exist on RV64; time is not there at all.
Readable == Counters \cup {CsrId.sscratch, CsrId.satp, CsrId.misa, CsrId.mscratch}

CSRRead(id) ==
  CASE id = CsrId.sscratch -> csr.sscratch
    [] id = CsrId.satp     -> CSRRead_satp
    [] id = CsrId.misa     -> MisaValue
    [] id = CsrId.mscratch -> csr.mscratch
    [] id \in Counters     -> csr.cycles

\* Mutant of CSRWrite_satp: the mode is taken whatever it is.
CSRWrite_satpAny(val) ==
  [csr EXCEPT !.ptAddr = Shl(PPN(val), 12, 64), !.mode = MODE(val),
              !.count = GetMaxPageTableLevelCount(MODE(val))]

\* The root is in force before the mode is looked at; a mode of zero ends the emulator.
CSRWrite_satp(val) ==
  LET rooted == [csr EXCEPT !.ptAddr = Shl(PPN(val), 12, 64)]
      mode == MODE(val) IN
  IF ~TranslationModeValid(mode) THEN rooted
  ELSE IF mode = Bare THEN [rooted EXCEPT !.mode = mode]
  ELSE [rooted EXCEPT !.mode = mode, !.count = GetMaxPageTableLevelCount(mode)]

CSRWrite(id, val) ==
  CASE id = CsrId.sscratch -> [csr EXCEPT !.sscratch = val]
    [] id = CsrId.satp     -> CSRWrite_satp(val)
    [] id = CsrId.misa     -> csr
    [] id = CsrId.mscratch -> [csr EXCEPT !.mscratch = val]
    [] id \in {CsrId.mcycle, CsrId.minstret} -> [csr EXCEPT !.cycles = val]

\* SetTransMode returns true, which as a Result is not success.
CSRWriteResult(id, val) ==
  IF id # CsrId.satp THEN <<"success">>
  ELSE IF TranslationModeValid(MODE(val)) THEN <<"true">> ELSE <<"InvalidTranslationMode">>

\* What was read: nothing, or one value.
Answer(res, read, after) == [result |-> res, read |-> read, csr |-> after]

\* make says what is written: nothing, the source, or its bits set or cleared.
MakeVal(make, old, source) ==
  CASE make = "CSRRW" -> source
    [] make = "CSRRS" -> old \cup source
    [] make = "CSRRC" -> old \ source

WriteAfter(id, old, new) == Answer(CSRWriteResult(id, new), {old}, CSRWrite(id, new))
RmwCSRImpl(id, source, make) ==
  IF make = "none" THEN Answer(<<"success">>, {CSRRead(id)}, csr)
  ELSE WriteAfter(id, CSRRead(id), MakeVal(make, CSRRead(id), source))

ReadWriteCSRImpl(id, source, make) ==
  IF ~CanAccess(id, priv) THEN Answer(<<"CsrPrivilageTooLow">>, {}, csr)
  ELSE IF make # "none" /\ ~CanWrite(id) THEN Answer(<<"WriteReadOnlyCsr">>, {}, csr)
  ELSE IF id \notin Readable THEN Answer(<<"CsrIdInvalid">>, {}, csr)
  ELSE RmwCSRImpl(id, source, make)

\* The write reached SetTransMode with a mode of zero.
Aborts(ans) == ans.result = <<"true">> /\ ans.csr.mode = Bare

-----------------------------------------------------------------------------
(* Running a decoded instruction *)

Get(r) == IF r = 0 THEN {} ELSE gpr[r]

\* What every instruction does: x0 is cleared before it, the cycle counted after it.
Cleared == [gpr EXCEPT ![0] = {}]
Set(rd, val) == gpr' = [Cleared EXCEPT ![rd] = val]
Counted(after) == [after EXCEPT !.cycles = Add(@, {0}, 64)]

\* Everything but what the action names: pc, gpr, csr and memory stay to be said.
End(res) ==
  /\ result' = res
  /\ UNCHANGED <<priv, flags, out>>

\* An instruction that changes neither memory nor CSRs, nor ends the emulator.
Plain(mem, res) ==
  /\ memory' = mem
  /\ csr' = Counted(csr)
  /\ aborted' = aborted
  /\ End(res)

Invalid(mem) ==
  /\ gpr' = Cleared
  /\ pc' = pc
  /\ Plain(mem, <<"InvalidInstruction">>)

RunMISC_MEM(d, mem) ==
  /\ d.code = "MISC_MEM"
  /\ gpr' = Cleared
  /\ pc' = pc
  /\ Plain(mem, <<"success">>)

RunUpper(d, mem) ==
  /\ d.code \in {"LUI", "AUIPC"}
  /\ Set(d.rd, IF d.code = "LUI" THEN d.imm ELSE Add(pc, d.imm, 64))
  /\ pc' = pc
  /\ Plain(mem, <<"success">>)

WidthOf == [LB |-> 1, LBU |-> 1, LH |-> 2, LHU |-> 2, LW |-> 4, LWU |-> 4, LD |-> 8,
            SB |-> 1, SH |-> 2, SW |-> 4, SD |-> 8]
Signed == {"LB", "LH", "LW", "LD"}
Address(d) == Add(Get(d.rs1), d.imm, 64)

Loaded(op, at) ==
  IF op \in Signed
  THEN SignExtend(Load(at.memory, WidthOf[op], at.addr), 8 * WidthOf[op], 64)
  ELSE Load(at.memory, WidthOf[op], at.addr)

\* Mutant of LoadAt: the register is written whatever the load's result.
LoadAtAlways(d, at, res) ==
  /\ Set(d.rd, IF res = <<"success">> THEN Load(at.memory, WidthOf[d.op], at.addr) ELSE {})
  /\ Plain(at.memory, res)

LoadAt(d, at, res) ==
  /\ IF res = <<"success">> THEN Set(d.rd, Loaded(d.op, at)) ELSE gpr' = Cleared
  /\ Plain(at.memory, res)

RunLOAD(d, mem) ==
  /\ d.code = "LOAD"
  /\ \E at \in {Access(mem, Address(d), "Load")} :
       LoadAt(d, at, AccessResult(at, WidthOf[d.op], "Load"))
  /\ pc' = pc

RunSTORE(d, mem) ==
  /\ d.code = "STORE"
  /\ \E at \in {Access(mem, Address(d), "Store")} :
       \E res \in {AccessResult(at, WidthOf[d.op], "Store")} :
         Plain(Written(at, WidthOf[d.op], res, Get(d.rs2)), res)
  /\ gpr' = Cleared
  /\ pc' = pc

Taken(op, v, w) ==
  CASE op = "BEQ"  -> v = w
    [] op = "BNE"  -> v # w
    [] op = "BLT"  -> LessS(v, w, 64)
    [] op = "BGE"  -> ~LessS(v, w, 64)
    [] op = "BLTU" -> LessU(v, w)
    [] op = "BGEU" -> ~LessU(v, w)

RunBRANCH(d, mem) ==
  /\ d.code = "BRANCH"
  /\ pc' = IF Taken(d.op, Get(d.rs1), Get(d.rs2)) THEN Add(pc, d.imm, 64) ELSE pc
  /\ gpr' = Cleared
  /\ Plain(mem, <<"success">>)

\* rs1 is read before rd is written.
RunJump(d, mem) ==
  /\ d.code \in {"JAL", "JALR"}
  /\ Set(d.rd, Add(pc, {2}, 64))
  /\ pc' = IF d.code = "JAL" THEN Add(pc, d.imm, 64) ELSE Address(d) \ {0}
  /\ Plain(mem, <<"success">>)

\* Without a source register, or a source of zero, the set and clear forms only read.
Make(d) ==
  CASE d.op \in {"CSRRW", "CSRRWI"} -> "CSRRW"
    [] d.op \in {"CSRRS", "CSRRSI"} -> IF d.rs1 = 0 THEN "none" ELSE "CSRRS"
    [] d.op \in {"CSRRC", "CSRRCI"} -> IF d.rs1 = 0 THEN "none" ELSE "CSRRC"
Source(d) == IF d.op \in {"CSRRW", "CSRRS", "CSRRC"} THEN Get(d.rs1) ELSE Bits(d.rs1)

\* The register is written whatever the result, with zero when nothing was read.
RunSYSTEM(d, mem) ==
  /\ d.code = "SYSTEM"
  /\ \E ans \in {ReadWriteCSRImpl(d.imm, Source(d), Make(d))} :
     /\ Set(d.rd, UNION ans.read)
     /\ csr' = Counted(ans.csr)
     /\ aborted' = Aborts(ans)
     /\ End(ans.result)
  /\ memory' = mem
  /\ pc' = pc

-----------------------------------------------------------------------------
(* Arithmetic: the immediate and the 32-bit forms are those of OP *)

OfOP_IMM == [ADDI |-> "ADD", SLLI |-> "SLL", SLTI |-> "SLT", SLTIU |-> "SLTU", XORI |-> "XOR",
             SRLI |-> "SRL", SRAI |-> "SRA", ORI |-> "OR", ANDI |-> "AND"]
OfOP_IMM_32 == [ADDIW |-> "ADD", SLLIW |-> "SLL", SRLIW |-> "SRL", SRAIW |-> "SRA"]
OfOP_32 == [ADDW |-> "ADD", SUBW |-> "SUB", MULW |-> "MUL", SLLW |-> "SLL", DIVW |-> "DIV",
            SRLW |-> "SRL", SRAW |-> "SRA", DIVUW |-> "DIVU", REMW |-> "REM", REMUW |-> "REMU"]

Operation(d) ==
  CASE d.code = "OP_IMM"    -> OfOP_IMM[d.op]
    [] d.code = "OP_IMM_32" -> OfOP_IMM_32[d.op]
    [] d.code = "OP_32"     -> OfOP_32[d.op]
    [] OTHER                -> d.op

LengthOf(d) == IF d.code \in {"OP_32", "OP_IMM_32"} THEN 32 ELSE 64
Operand1(d) == Get(d.rs1) \cap 0 .. LengthOf(d) - 1
Operand2(d) ==
  (IF d.code \in {"OP_IMM", "OP_IMM_32"} THEN d.imm ELSE Get(d.rs2)) \cap 0 .. LengthOf(d) - 1

\* A shift takes its amount modulo the length: for SLLIW, which does not cut it, the
\* machine does.
Amount(w, n) == Value(w \cap (IF n = 64 THEN ShiftAmtMask ELSE ShiftAmtMaskFor32))
Truth(test) == IF test THEN {0} ELSE {}

Compute(op, v, w, n) ==
  CASE op = "ADD"  -> Add(v, w, n)
    [] op = "SUB"  -> Sub(v, w, n)
    [] op = "MUL"  -> Mul(v, w, n)
    [] op = "SLL"  -> Shl(v, Amount(w, n), n)
    [] op = "SLT"  -> Truth(LessS(v, w, n))
    [] op = "SLTU" -> Truth(LessU(v, w))
    [] op = "XOR"  -> Xor(v, w)
    [] op = "SRL"  -> Shr(v, Amount(w, n))
    [] op = "SRA"  -> Sar(v, Amount(w, n), n)
    [] op = "OR"   -> v \cup w
    [] op = "AND"  -> v \cap w
    [] op = "DIV"  -> QuotS(v, w, n)
    [] op = "DIVU" -> DivideU(v, w, n).quot
    [] op = "REM"  -> RemS(v, w, n)
    [] op = "REMU" -> DivideU(v, w, n).rem

\* Mutant of Widened: every result of 32 bits is extended with zeros.
WidenedZero(d, val) == val
\* What OutRegObject::Set makes of it: WordS keeps its sign, a Word has none.
Widened(d, val) ==
  IF LengthOf(d) = 32 /\ d.op \notin {"DIVUW", "REMUW"} THEN SignExtend(val, 32, 64) ELSE val

Arithmetic == {"OP", "OP_IMM", "OP_32", "OP_IMM_32"}
Divisions == {"DIV", "DIVU", "REM", "REMU"}
UpperMultiplications == {"MULH", "MULHSU", "MULHU"}

\* A division by zero, and of the smallest number by -1.
Undefined(d) ==
  /\ Operation(d) \in Divisions
  /\ \/ Operand2(d) = {}
     \/ /\ Operation(d) \in {"DIV", "REM"}
        /\ Operand1(d) = {LengthOf(d) - 1}
        /\ Operand2(d) = 0 .. LengthOf(d) - 1

RunArithmetic(d, mem) ==
  /\ d.code \in Arithmetic
  /\ d.op \notin UpperMultiplications
  /\ ~Undefined(d)
  /\ Set(d.rd, Widened(d, Compute(Operation(d), Operand1(d), Operand2(d), LengthOf(d))))
  /\ pc' = pc
  /\ Plain(mem, <<"success">>)

\* amd64: the machine's exception ends the emulator.
RunDivideError(d, mem) ==
  /\ d.code \in Arithmetic
  /\ Undefined(d)
  /\ aborted' = TRUE
  /\ memory' = mem
  /\ UNCHANGED <<pc, gpr, csr>>
  /\ End(<<"none">>)

\* aarch64: a quotient of zero with the dividend for remainder; the other case wraps.
RunDivideWrap(d, mem) ==
  /\ d.code \in Arithmetic
  /\ Undefined(d)
  /\ Set(d.rd, Widened(d,
       IF Operation(d) \in {"DIV", "DIVU"}
       THEN (IF Operand2(d) = {} THEN {} ELSE Operand1(d))
       ELSE (IF Operand2(d) = {} THEN Operand1(d) ELSE {})))
  /\ pc' = pc
  /\ Plain(mem, <<"success">>)

\* The routine takes its second argument for the first, and for the second a register
\* that its caller does not set.
MultiplyGetUpper64U(val2, left) == MulUpperU(val2, left, 64)
MultiplyGetUpper64S(val2, left) == MulUpperS(val2, left, 64)
MultiplyGetUpper64SU(val1, val2, left) ==
  LET upper == MultiplyGetUpper64U(val2, left) IN
  IF Negative(val1, 64) THEN Add(Not(upper, 64), Truth(Mul(val1, val2, 64) = {}), 64) ELSE upper

RunUpperMultiplication(d, mem) ==
  /\ d.op \in UpperMultiplications
  /\ \E left \in LeftWords :
       Set(d.rd, CASE d.op = "MULH"   -> MultiplyGetUpper64S(Get(d.rs2), left)
                   [] d.op = "MULHU"  -> MultiplyGetUpper64U(Get(d.rs2), left)
                   [] d.op = "MULHSU" -> MultiplyGetUpper64SU(Get(d.rs1), Get(d.rs2), left))
  /\ pc' = pc
  /\ Plain(mem, <<"success">>)

Run(d, mem) ==
  \/ RunMISC_MEM(d, mem)
  \/ RunUpper(d, mem)
  \/ RunLOAD(d, mem)
  \/ RunSTORE(d, mem)
  \/ RunBRANCH(d, mem)
  \/ RunJump(d, mem)
  \/ RunSYSTEM(d, mem)
  \/ RunArithmetic(d, mem)
  \/ RunDivideError(d, mem)
  \/ RunDivideWrap(d, mem)
  \/ RunUpperMultiplication(d, mem)

ExecuteInstructionImpl(inst, mem) ==
  /\ ran' = ParseInstruction(inst)
  /\ \/ ran' = {} /\ Invalid(mem)
     \/ \E d \in ran' : Run(d, mem)

-----------------------------------------------------------------------------
(* The public calls *)

Called == ~aborted /\ calls < Budget /\ calls' = calls + 1
Calling == Called /\ ran' = {}

ExecuteInst(inst) == Called /\ ExecuteInstructionImpl(inst, memory)

Fetched == Access(memory, pc, "Fetch")
FetchResult(at) == AccessResult(at, 4, "Fetch")
FetchedInst(at) == IF FetchResult(at) = <<"success">> THEN Load(at.memory, 4, at.addr) ELSE {}

FetchInstAtPc ==
  /\ Calling
  /\ \E at \in {Fetched} :
       /\ memory' = at.memory
       /\ out' = FetchedInst(at)
       /\ result' = FetchResult(at)
  /\ UNCHANGED <<pc, gpr, priv, csr, flags, aborted>>

\* The program counter stays where it is unless the instruction moves it.
ExecuteInstAtPc ==
  /\ Called
  /\ \E at \in {Fetched} :
       /\ FetchResult(at) = <<"success">>
       /\ ExecuteInstructionImpl(FetchedInst(at), at.memory)

FailInstAtPc ==
  /\ Calling
  /\ \E at \in {Fetched} :
       /\ FetchResult(at) # <<"success">>
       /\ memory' = at.memory
       /\ result' = FetchResult(at)
  /\ UNCHANGED <<pc, gpr, priv, csr, flags, aborted, out>>

WritePC(addr) ==
  /\ Calling
  /\ pc' = addr
  /\ result' = <<"none">>
  /\ UNCHANGED <<gpr, priv, csr, flags, memory, aborted, out>>

\* x0 too: it holds the value until an instruction clears it.
WriteGPR(index, val) ==
  /\ Calling
  /\ gpr' = [gpr EXCEPT ![index] = val]
  /\ result' = <<"none">>
  /\ UNCHANGED <<pc, priv, csr, flags, memory, aborted, out>>

CallCsr(ans) ==
  /\ Calling
  /\ csr' = ans.csr
  /\ result' = ans.result
  /\ aborted' = Aborts(ans)
  /\ UNCHANGED <<pc, gpr, priv, flags, memory>>

Give(ans) == out' = IF ans.read = {} THEN out ELSE UNION ans.read

WriteCSR(id, val) == CallCsr(ReadWriteCSRImpl(id, val, "CSRRW")) /\ out' = out

ReadCSR(id) ==
  \E ans \in {ReadWriteCSRImpl(id, {}, "none")} : CallCsr(ans) /\ Give(ans)

ReadWriteCSR(id, val) ==
  \E ans \in {ReadWriteCSRImpl(id, val, "CSRRW")} : CallCsr(ans) /\ Give(ans)

MappedRead(width, vaddr) ==
  /\ Calling
  /\ \E at \in {MappedAccess(memory, vaddr)} :
       \E res \in {AccessResult(at, width, "Any")} :
         /\ memory' = at.memory
         /\ out' = IF res = <<"success">> THEN Load(at.memory, width, at.addr) ELSE out
         /\ result' = res
  /\ UNCHANGED <<pc, gpr, priv, csr, flags, aborted>>

MappedWrite(width, vaddr, val) ==
  /\ Calling
  /\ \E at \in {MappedAccess(memory, vaddr)} :
       \E res \in {AccessResult(at, width, "Any")} :
         /\ memory' = Written(at, width, res, val)
         /\ result' = res
  /\ UNCHANGED <<pc, gpr, priv, csr, flags, aborted, out>>

\* The scratch and translation registers, pc and gpr stay.
Reset ==
  /\ Calling
  /\ priv' = Machine
  /\ csr' = [csr EXCEPT !.cycles = {}]
  /\ result' = <<"success">>
  /\ UNCHANGED <<pc, gpr, flags, memory, aborted, out>>

Next ==
  \/ \E inst \in Insts : ExecuteInst(inst)
  \/ FetchInstAtPc
  \/ ExecuteInstAtPc
  \/ FailInstAtPc
  \/ \E addr \in Places : WritePC(addr)
  \/ \E index \in {0, NumGPR - 1}, val \in Values : WriteGPR(index, val)
  \/ \E id \in CsrIds, val \in Values : WriteCSR(id, val) \/ ReadWriteCSR(id, val)
  \/ \E id \in CsrIds : ReadCSR(id)
  \/ \E width \in Widths, vaddr \in Places : MappedRead(width, vaddr)
  \/ \E width \in Widths, vaddr \in Places, val \in Values : MappedWrite(width, vaddr, val)
  \/ Reset

Spec == Init /\ [][Next]_vars

-----------------------------------------------------------------------------
(* Properties *)

\* The instructions that are not what the encoder makes of what the decoder gives.
Miscoded == {inst \in Coded : \E d \in ParseInstruction(inst) : Encode(d) # inst}

\* How many instructions, fences aside, the disassembler gives the text of another.
Confused ==
  LET listed == {inst \in Coded : ParseInstruction(inst) # {} /\ OpcodeOf(inst) # Opcode.MISC_MEM} IN
  Cardinality(listed) - Cardinality(UNION {DisassembleInstruction(inst) : inst \in listed})

\* The decoder, the encoder and the disassembler lose nothing of an instruction: encoded
\* again it is what was decoded, no two are listed alike, and what a hart has run is
\* what its encoding decodes to.
CodingsAgree ==
  /\ Miscoded = {}
  /\ Confused = 0
  /\ \A d \in ran : ParseInstruction(Encode(d)) = {d}

\* A CSR was not accessed at all.
Refusals == {<<"CsrPrivilageTooLow">>, <<"WriteReadOnlyCsr">>, <<"CsrIdInvalid">>}

\* A call that fails in memory or at its instruction, or is refused a CSR, leaves no half
\* of itself behind: the registers, x0 aside, and the CSRs, the cycles aside, are as
\* before, and memory has at most more accessed and dirty bits.  A CSR instruction that is
\* refused clears its destination; a caller of ReadCSR is left what it had.
FailuresKeepState ==
  [][result' \in MemoryFaults \cup Refusals \cup {<<"InvalidInstruction">>} =>
       /\ pc' = pc
       /\ \A r \in 1 .. NumGPR - 1 :
            gpr'[r] = IF result' \in Refusals /\ (\E d \in ran' : d.rd = r) THEN {} ELSE gpr[r]
       /\ result' \in Refusals => out' = out
       /\ [csr' EXCEPT !.cycles = csr.cycles] = csr
       /\ \A a \in Backed : memory[a] \subseteq memory'[a] /\ memory'[a] \subseteq memory[a] \cup {A, D}]_vars

\* A 32-bit instruction leaves its sign in all of the upper half, but for the unsigned
\* division and remainder; where 64 bits have one, its lower half is that of the
\* instruction for 64 bits.
WordResultsAgree ==
  [][\A d \in ran' : d.code \in {"OP_32", "OP_IMM_32"} /\ ~aborted' =>
       LET val == gpr'[d.rd]
           low == 0 .. 31 IN
       /\ d.op \notin {"DIVUW", "REMUW"} => val = SignExtend(val \cap low, 32, 64)
       /\ Operation(d) \in {"ADD", "SUB", "MUL"} =>
            val \cap low =
              low \cap Compute(Operation(d), Get(d.rs1),
                              IF d.code = "OP_32" THEN Get(d.rs2) ELSE d.imm, 64)]_vars
=============================================================================

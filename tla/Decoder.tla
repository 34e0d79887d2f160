------------------------------ MODULE Decoder ------------------------------
(***************************************************************************)
(* Instructions: their formats, decoder, encoder and disassembler          *)
(* (cpu_Opcodes.h, cpu_InstructionFormat.h, detail/cpu_DecoderImpl.h,      *)
(* cpu_EncodeInstruction.h, cpu_Disassembler.cpp) on RV64.                 *)
(*                                                                         *)
(* The decoder calls one function of its derived class with registers and  *)
(* an immediate.  Here it gives the set of the calls it makes: one record, *)
(* or none where the code returns ResultInvalidInstruction.                *)
(***************************************************************************)
EXTENDS Words

Opcode ==
  [LOAD      |-> \b0000011, LOAD_FP  |-> \b0000111, MISC_MEM |-> \b0001111,
   OP_IMM    |-> \b0010011, AUIPC    |-> \b0010111, OP_IMM_32 |-> \b0011011,
   STORE     |-> \b0100011, STORE_FP |-> \b0100111, AMO      |-> \b0101111,
   OP        |-> \b0110011, LUI      |-> \b0110111, OP_32    |-> \b0111011,
   MADD      |-> \b1000011, MSUB     |-> \b1000111, NMSUB    |-> \b1001011,
   NMADD     |-> \b1001111, OP_FP    |-> \b1010011, BRANCH   |-> \b1100011,
   JALR      |-> \b1100111, JAL      |-> \b1101111, SYSTEM   |-> \b1110011]

CreateFunction37(f3, f7) == f3 + 8 * f7

Function ==
  [LOAD |-> [LB |-> 0, LH |-> 1, LW |-> 2, LD |-> 3, LBU |-> 4, LHU |-> 5, LWU |-> 6],
   MISC_MEM |-> [FENCE |-> 0, FENCEI |-> 1],
   OP_IMM |-> [ADDI |-> 0, SLLI |-> 1, SLTI |-> 2, SLTIU |-> 3,
               XORI |-> 4, SRLI |-> 5, ORI |-> 6, ANDI |-> 7],
   OP_IMM_32 |-> [ADDIW |-> 0, SLLIW |-> 1, SRLIW |-> 5],
   STORE |-> [SB |-> 0, SH |-> 1, SW |-> 2, SD |-> 3],
   OP |-> [ADD    |-> CreateFunction37(0, 0), SUB  |-> CreateFunction37(0, 32),
           MUL    |-> CreateFunction37(0, 1), SLL  |-> CreateFunction37(1, 0),
           MULH   |-> CreateFunction37(1, 1), SLT  |-> CreateFunction37(2, 0),
           MULHSU |-> CreateFunction37(2, 1), SLTU |-> CreateFunction37(3, 0),
           MULHU  |-> CreateFunction37(3, 1), XOR  |-> CreateFunction37(4, 0),
           DIV    |-> CreateFunction37(4, 1), SRL  |-> CreateFunction37(5, 0),
           SRA    |-> CreateFunction37(5, 32), DIVU |-> CreateFunction37(5, 1),
           OR     |-> CreateFunction37(6, 0), REM  |-> CreateFunction37(6, 1),
           AND    |-> CreateFunction37(7, 0), REMU |-> CreateFunction37(7, 1)],
   OP_32 |-> [ADDW  |-> CreateFunction37(0, 0), SUBW |-> CreateFunction37(0, 32),
              MULW  |-> CreateFunction37(0, 1), SLLW |-> CreateFunction37(1, 0),
              DIVW  |-> CreateFunction37(4, 1), SRLW |-> CreateFunction37(5, 0),
              SRAW  |-> CreateFunction37(5, 32), DIVUW |-> CreateFunction37(5, 1),
              REMW  |-> CreateFunction37(6, 1), REMUW |-> CreateFunction37(7, 1)],
   BRANCH |-> [BEQ |-> 0, BNE |-> 1, BLT |-> 4, BGE |-> 5, BLTU |-> 6, BGEU |-> 7],
   JALR |-> [JALR |-> 0],
   SYSTEM |-> [CSRRW |-> 1, CSRRS |-> 2, CSRRC |-> 3,
               CSRRWI |-> 5, CSRRSI |-> 6, CSRRCI |-> 7]]

Named(code, function) == {op \in DOMAIN Function[code] : Function[code][op] = function}

-----------------------------------------------------------------------------
(* Formats: the fields of an instruction *)

OpcodeOf(inst) == Value(inst \cap 0 .. 6)

Field(inst, offset, size) == Value(ExtractBitfield(inst, offset, size))
Rd(inst) == Field(inst, 7, 5)
Funct3(inst) == Field(inst, 12, 3)
Rs1(inst) == Field(inst, 15, 5)
Rs2(inst) == Field(inst, 20, 5)
Funct37(inst) == CreateFunction37(Funct3(inst), Field(inst, 25, 7))

ImmI(inst) == ExtractBitfield(inst, 20, 12)
ImmS(inst) == ExtractBitfield(inst, 7, 5) \cup Shr(inst \cap 25 .. 31, 20)

\* Mutant of ImmB: the sign is taken for bit 11 and bit 11 for the sign.
ImmBSwapped(inst) ==
  Shr(inst \cap 8 .. 11, 7) \cup Shr(inst \cap 25 .. 30, 20)
    \cup Shl(inst \cap {7}, 5, 64) \cup Shr(inst \cap {31}, 20)
ImmB(inst) ==
  Shr(inst \cap 8 .. 11, 7) \cup Shr(inst \cap 25 .. 30, 20)
    \cup Shl(inst \cap {7}, 4, 64) \cup Shr(inst \cap {31}, 19)
ImmU(inst) == inst \cap 12 .. 31
ImmJ(inst) ==
  Shr(inst \cap 21 .. 30, 20) \cup Shr(inst \cap {20}, 9)
    \cup (inst \cap 12 .. 19) \cup Shr(inst \cap {31}, 11)

-----------------------------------------------------------------------------
(* The decoder *)

\* The function called, the opcode it belongs to and its arguments; rs1 is the
\* immediate of the CSR*I functions.
Call(code, op, rd, rs1, rs2, imm) ==
  [code |-> code, op |-> op, rd |-> rd, rs1 |-> rs1, rs2 |-> rs2, imm |-> imm]

\* A function has a number under its opcode, or is an arithmetic shift, or named for the
\* opcode that has no other.
Numbered == UNION {DOMAIN Function[code] : code \in DOMAIN Function}
Names == Numbered \cup {"SRAI", "SRAIW", "LUI", "AUIPC", "JAL"}

Instructions ==
  [code : DOMAIN Opcode, op : Names, rd : 0 .. 31, rs1 : 0 .. 31, rs2 : 0 .. 31,
   imm : WordsOf(64)]

CallStandardRType(code, op, inst) == Call(code, op, Rd(inst), Rs1(inst), Rs2(inst), {})
CallStandardIType(code, op, inst) == Call(code, op, Rd(inst), Rs1(inst), 0, ImmI(inst))
CallStandardITypeExt(code, op, inst) ==
  Call(code, op, Rd(inst), Rs1(inst), 0, SignExtend(ImmI(inst), 12, 64))
CallStandardSTypeExt(code, op, inst) ==
  Call(code, op, 0, Rs1(inst), Rs2(inst), SignExtend(ImmS(inst), 12, 64))
CallStandardBTypeExt(code, op, inst) ==
  Call(code, op, 0, Rs1(inst), Rs2(inst), SignExtend(ImmB(inst), 13, 64))
CallStandardUTypeExt(code, inst) ==
  Call(code, code, Rd(inst), 0, 0, SignExtend(ImmU(inst), 32, 64))
CallStandardJTypeExt(code, inst) ==
  Call(code, code, Rd(inst), 0, 0, SignExtend(ImmJ(inst), 21, 64))

\* A right shift of either kind: bit 10 of the immediate tells which, no other may be
\* set beside those of mask, which the amount is cut to.
ParseShiftRight(code, logical, arithmetic, mask, inst) ==
  LET imm == ImmI(inst)
      kinds == {op \in {logical, arithmetic} :
                  imm \ mask = (IF op = arithmetic THEN {10} ELSE {})} IN
  {[CallStandardIType(code, op, inst) EXCEPT !.imm = imm \cap mask] : op \in kinds}

ShiftAmtMask == 0 .. 5
ShiftAmtMaskFor32 == 0 .. 4

ParseLOAD(inst) ==
  {CallStandardITypeExt("LOAD", op, inst) : op \in Named("LOAD", Funct3(inst))}
ParseMISC_MEM(inst) ==
  {CallStandardITypeExt("MISC_MEM", op, inst) : op \in Named("MISC_MEM", Funct3(inst))}

ParseOP_IMM(inst) ==
  LET ops == {op \in Named("OP_IMM", Funct3(inst)) : op = "SLLI" => ImmI(inst) \subseteq ShiftAmtMask} IN
  IF ops = {"SRLI"} THEN ParseShiftRight("OP_IMM", "SRLI", "SRAI", ShiftAmtMask, inst)
  ELSE {CallStandardITypeExt("OP_IMM", op, inst) : op \in ops}

\* The amount of SLLIW is not looked at.
ParseOP_IMM_32(inst) ==
  LET ops == Named("OP_IMM_32", Funct3(inst)) IN
  IF ops = {"SRLIW"} THEN ParseShiftRight("OP_IMM_32", "SRLIW", "SRAIW", ShiftAmtMaskFor32, inst)
  ELSE {CallStandardITypeExt("OP_IMM_32", op, inst) : op \in ops}

ParseSTORE(inst) ==
  {CallStandardSTypeExt("STORE", op, inst) : op \in Named("STORE", Funct3(inst))}
ParseOP(inst) == {CallStandardRType("OP", op, inst) : op \in Named("OP", Funct37(inst))}
ParseOP_32(inst) ==
  {CallStandardRType("OP_32", op, inst) : op \in Named("OP_32", Funct37(inst))}
ParseBRANCH(inst) ==
  {CallStandardBTypeExt("BRANCH", op, inst) : op \in Named("BRANCH", Funct3(inst))}
ParseJALR(inst) == {CallStandardITypeExt("JALR", op, inst) : op \in Named("JALR", Funct3(inst))}
ParseSYSTEM(inst) == {CallStandardIType("SYSTEM", op, inst) : op \in Named("SYSTEM", Funct3(inst))}

Parse(code, inst) ==
  CASE code = "LOAD"      -> ParseLOAD(inst)
    [] code = "MISC_MEM"  -> ParseMISC_MEM(inst)
    [] code = "OP_IMM"    -> ParseOP_IMM(inst)
    [] code = "OP_IMM_32" -> ParseOP_IMM_32(inst)
    [] code = "STORE"     -> ParseSTORE(inst)
    [] code = "OP"        -> ParseOP(inst)
    [] code = "OP_32"     -> ParseOP_32(inst)
    [] code = "BRANCH"    -> ParseBRANCH(inst)
    [] code = "JALR"      -> ParseJALR(inst)
    [] code = "SYSTEM"    -> ParseSYSTEM(inst)
    [] code \in {"LUI", "AUIPC"} -> {CallStandardUTypeExt(code, inst)}
    [] code = "JAL"       -> {CallStandardJTypeExt(code, inst)}
    [] OTHER              -> {}

ParseInstruction(inst) ==
  UNION {Parse(code, inst) : code \in {c \in DOMAIN Opcode : Opcode[c] = OpcodeOf(inst)}}

-----------------------------------------------------------------------------
(* The encoder *)

\* The value's lowest bits, at a place in the instruction.
Part(value, size, offset) == Shl(Bits(value) \cap 0 .. size - 1, offset, 32)

\* Six bits of a register's number are let in where there is room for five.
EncodeSBTypeCommon(code, f3, rs1, rs2) ==
  Part(Opcode[code], 7, 0) \cup Part(f3, 3, 12) \cup Part(rs1, 6, 15) \cup Part(rs2, 6, 20)
EncodeUJTypeCommon(code, rd) == Part(Opcode[code], 7, 0) \cup Part(rd, 6, 7)

EncodeRTypeInstruction(code, function, rd, rs1, rs2) ==
  Part(Opcode[code], 7, 0) \cup Part(rd, 6, 7) \cup Part(function % 8, 3, 12)
    \cup Part(rs1, 6, 15) \cup Part(rs2, 6, 20) \cup Part(function \div 8, 7, 25)
EncodeITypeInstruction(code, f3, rd, rs1, imm) ==
  Part(Opcode[code], 7, 0) \cup Part(rd, 6, 7) \cup Part(f3, 3, 12)
    \cup Part(rs1, 6, 15) \cup Shl(imm, 20, 32)
EncodeSTypeInstruction(code, f3, rs1, rs2, imm) ==
  EncodeSBTypeCommon(code, f3, rs1, rs2)
    \cup Shl(imm \cap 0 .. 4, 7, 32) \cup Shl(imm \cap 5 .. 11, 20, 32)
EncodeBTypeInstruction(code, f3, rs1, rs2, imm) ==
  EncodeSBTypeCommon(code, f3, rs1, rs2)
    \cup Shr(imm \cap {11}, 4) \cup Shl(imm \cap 1 .. 4, 7, 32)
    \cup Shl(imm \cap {12}, 19, 32) \cup Shl(imm \cap 5 .. 10, 20, 32)
EncodeUTypeInstruction(code, rd, imm) ==
  EncodeUJTypeCommon(code, rd) \cup (imm \cap 12 .. 31)
EncodeJTypeInstruction(code, rd, imm) ==
  EncodeUJTypeCommon(code, rd) \cup (imm \cap 12 .. 19) \cup Shl(imm \cap {11}, 9, 32)
    \cup Shl(imm \cap 1 .. 10, 20, 32) \cup Shl(imm \cap {20}, 11, 32)

\* The functions the encoder is called with, bit 10 put in for arithmetic shifts.
Encode(d) ==
  CASE d.code \in {"OP", "OP_32"} ->
         EncodeRTypeInstruction(d.code, Function[d.code][d.op], d.rd, d.rs1, d.rs2)
    [] d.code = "STORE" ->
         EncodeSTypeInstruction(d.code, Function[d.code][d.op], d.rs1, d.rs2, d.imm)
    [] d.code = "BRANCH" ->
         EncodeBTypeInstruction(d.code, Function[d.code][d.op], d.rs1, d.rs2, d.imm)
    [] d.code \in {"LUI", "AUIPC"} -> EncodeUTypeInstruction(d.code, d.rd, d.imm)
    [] d.code = "JAL" -> EncodeJTypeInstruction(d.code, d.rd, d.imm)
    [] d.op \in {"SRAI", "SRAIW"} ->
         EncodeITypeInstruction(d.code, 5, d.rd, d.rs1, d.imm \cup {10})
    [] OTHER ->
         EncodeITypeInstruction(d.code, Function[d.code][d.op], d.rd, d.rs1, d.imm)

-----------------------------------------------------------------------------
(* The disassembler: the name it prints and the operands, in their order *)

AsWord(imm) == imm \cap 0 .. 31    \* as Word or WordS: printed in decimal

FormatStandardRType(d) == <<d.op, d.rd, d.rs1, d.rs2>>
FormatStandardIType(d) == <<d.op, d.rd, d.rs1, AsWord(d.imm)>>
FormatStandardITypeExt(d) == <<d.op, d.rd, d.rs1, AsWord(d.imm)>>
FormatStandardBTypeExt(d) == <<d.op, d.rs1, d.rs2, AsWord(d.imm)>>
FormatStandardUTypeExt(d) == <<d.op, d.rd, AsWord(d.imm)>>
FormatStandardJTypeExt(d) == <<d.op, d.rd, AsWord(d.imm)>>

FormatLOAD(d) == <<d.op, d.rd, AsWord(d.imm), d.rs1>>
FormatSTORE(d) == <<d.op, d.rs2, AsWord(d.imm), d.rs1>>
FormatCSRI(d) == <<d.op, d.rd, d.rs1, AsWord(d.imm)>>

\* FENCE leaves the text as it is, which is empty.
FormatMISC_MEM(d) == IF d.op = "FENCE" THEN <<>> ELSE <<"FENCE.I">>
FormatOP_IMM(d) == FormatStandardITypeExt(d)
FormatOP_IMM_32(d) == FormatStandardITypeExt(d)
FormatOP(d) == FormatStandardRType(d)
FormatOP_32(d) == FormatStandardRType(d)
FormatBRANCH(d) == FormatStandardBTypeExt(d)
FormatSYSTEM(d) ==
  IF d.op \in {"CSRRW", "CSRRS", "CSRRC"} THEN FormatStandardIType(d) ELSE FormatCSRI(d)

Listing(d) ==
  CASE d.code = "LOAD"      -> FormatLOAD(d)
    [] d.code = "MISC_MEM"  -> FormatMISC_MEM(d)
    [] d.code = "OP_IMM"    -> FormatOP_IMM(d)
    [] d.code = "OP_IMM_32" -> FormatOP_IMM_32(d)
    [] d.code = "STORE"     -> FormatSTORE(d)
    [] d.code = "OP"        -> FormatOP(d)
    [] d.code = "OP_32"     -> FormatOP_32(d)
    [] d.code = "BRANCH"    -> FormatBRANCH(d)
    [] d.code = "JALR"      -> FormatStandardITypeExt(d)
    [] d.code = "SYSTEM"    -> FormatSYSTEM(d)
    [] d.code \in {"LUI", "AUIPC"} -> FormatStandardUTypeExt(d)
    [] d.code = "JAL"       -> FormatStandardJTypeExt(d)

\* One text, or none where it is that of an unknown instruction.
DisassembleInstruction(inst) == {Listing(d) : d \in ParseInstruction(inst)}
=============================================================================

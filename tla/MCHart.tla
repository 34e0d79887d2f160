------------------------------- MODULE MCHart -------------------------------
(* A program, its page table, registers and calls for checking Hart.        *)
EXTENDS Hart

\* Three entries of a table at 0 and two doublewords of the page at 4096.
MCBacked == {{}, {3}, {4}, {12}, {3, 12}}

LinkedJump == Encode(Call("JAL", "JAL", 1, 0, 0, {3}))
LoadByte == Encode(Call("LOAD", "LB", 6, 1, 0, {}))

\* The table points at itself; the page at 4096 may be used for anything, that at 8192
\* has no frame.
MCContents ==
  {[d \in MCBacked |->
      CASE d = {}   -> {V}
        [] d = {3}  -> {V, R, W, X, U, 12}
        [] d = {4}  -> {}
        [] d = {12} -> LinkedJump \cup Shl(LoadByte, 32, 64)
        [] OTHER    -> {7, 15}]}

File(x1, x2, x3, x4) ==
  [r \in 0 .. NumGPR - 1 |->
     CASE r = 1 -> x1 [] r = 2 -> x2 [] r = 3 -> x3 [] r = 4 -> x4 [] OTHER -> {}]

\* Quotients that overflow, and small numbers.
MCRegisters == {File({3, 12}, 0 .. 63, {63}, {31}),
                File({13}, {0, 2}, {1, 31, 40}, {3, 4})}

MCLeftLevels == {User, Supervisor, Machine}
MCLeftCounts == {1}
MCLeftFlags == {[sum |-> FALSE, mxr |-> FALSE]}
MCLeftWords == {{}, {1, 62}}

\* One of every function, its sources the two operands; divisions by x0; moves from
\* and to the CSRs; and words that are no instruction.
OfFunctions(code, rd, rs1, rs2, imm) ==
  {Encode(Call(code, op, rd, rs1, rs2, imm)) : op \in DOMAIN Function[code]}
MCInsts ==
  OfFunctions("LOAD", 5, 1, 0, {0}) \cup OfFunctions("STORE", 0, 1, 3, {})
    \cup OfFunctions("MISC_MEM", 0, 0, 0, {})
    \cup OfFunctions("OP", 5, 3, 2, {}) \cup OfFunctions("OP_32", 5, 4, 2, {})
    \cup OfFunctions("OP_IMM", 5, 3, 0, {0, 1}) \cup OfFunctions("OP_IMM_32", 5, 4, 0, {0, 1})
    \cup {Encode(Call("OP_IMM", "SRAI", 5, 3, 0, {1})), Encode(Call("OP_IMM_32", "SRAIW", 5, 4, 0, {1}))}
    \cup {Encode(Call("OP", op, 5, 3, 0, {})) : op \in {"DIV", "REMU"}}
    \cup {Encode(Call("OP_32", op, 5, 4, 0, {})) : op \in {"DIVUW", "REMW"}}
    \cup OfFunctions("BRANCH", 0, 2, 3, {3}) \cup OfFunctions("JALR", 1, 1, 0, {0})
    \cup OfFunctions("SYSTEM", 5, 3, 0, CsrId.sscratch)
    \cup OfFunctions("SYSTEM", 5, 0, 0, CsrId.cycle)
    \cup {Encode(Call(code, code, 5, 0, 0, {12, 31})) : code \in {"LUI", "AUIPC"}}
    \cup {LinkedJump, {}, Encode(Call("OP", "AND", 5, 3, 2, {})) \cup {31}}

MCCsrIds == {CsrId.sscratch, CsrId.satp, CsrId.misa, CsrId.mscratch, CsrId.mcycle,
             CsrId.mcycleh, CsrId.cycle}

\* For satp: no mode, a mode that is not valid, and Sv39 with its root at 0.
MCValues == {{}, {0, 60}, {63}}
MCPlaces == {{12}, {13}}

\* Every opcode and one that is none, with every function and the bits at the ends of
\* the fields set or not.
Edges == {7, 15, 20, 25, 30, 31}
MCCoded ==
  {Bits(code) \cup Shl(Bits(f3), 12, 32) \cup edges :
     code \in {Opcode[c] : c \in DOMAIN Opcode} \cup {127}, f3 \in 0 .. 7, edges \in SUBSET Edges}
=============================================================================

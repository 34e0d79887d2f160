----------------------------- MODULE HartProofs -----------------------------
(***************************************************************************)
(* Proofs about Hart, for any instructions, registers and memory: what a   *)
(* call that fails leaves behind, type correctness, the agreement of       *)
(* decoder, encoder and disassembler, and that of the 32-bit instructions  *)
(* with the 64-bit ones.                                                   *)
(***************************************************************************)
EXTENDS Hart, TranslationProofs, FiniteSetTheorems

\* The record of the CSRs has its six fields, whatever is in them.
IsCsr(c) ==
  c = [sscratch |-> c.sscratch, mscratch |-> c.mscratch, cycles |-> c.cycles,
       ptAddr |-> c.ptAddr, mode |-> c.mode, count |-> c.count]

\* Counting cycles changes nothing else of it.
LEMMA CountedIsCsr ==
  ASSUME NEW c, IsCsr(c)
  PROVE  IsCsr(Counted(c)) /\ [Counted(c) EXCEPT !.cycles = c.cycles] = c
<1> DEFINE sum == Add(c.cycles, {0}, 64)
           sscratch == c.sscratch
           mscratch == c.mscratch
           cycles == c.cycles
           ptAddr == c.ptAddr
           mode == c.mode
           count == c.count
<1>1. c = [sscratch |-> sscratch, mscratch |-> mscratch, cycles |-> cycles,
           ptAddr |-> ptAddr, mode |-> mode, count |-> count]
  BY DEF IsCsr
<1>2. Counted(c) = [c EXCEPT !.cycles = sum]
  BY DEF Counted
<1> HIDE DEF sum, sscratch, mscratch, cycles, ptAddr, mode, count
<1>3. Counted(c) = [sscratch |-> sscratch, mscratch |-> mscratch, cycles |-> sum,
                    ptAddr |-> ptAddr, mode |-> mode, count |-> count]
  BY <1>1, <1>2
<1>4. [Counted(c) EXCEPT !.cycles = c.cycles] = c
  BY <1>1, <1>3
<1>5. IsCsr(Counted(c))
  BY <1>3 DEF IsCsr
<1> QED
  BY <1>4, <1>5

\* An access to a CSR leaves the record one, whether it writes or not.
LEMMA AnswerIsCsr ==
  ASSUME IsCsr(csr), NEW id, NEW source, NEW make
  PROVE  IsCsr(ReadWriteCSRImpl(id, source, make).csr)
<1> DEFINE ans == ReadWriteCSRImpl(id, source, make)
<1>1. CASE ~(CanAccess(id, priv) /\ (make = "none" \/ CanWrite(id)) /\ id \in Readable /\ make # "none")
  BY <1>1 DEF ReadWriteCSRImpl, RmwCSRImpl, Answer
<1>2. CASE CanWrite(id) /\ id \in Readable /\ CanAccess(id, priv) /\ make # "none"
  <2> DEFINE new == MakeVal(make, CSRRead(id), source)
  <2>1. ans.csr = CSRWrite(id, new)
    BY <1>2 DEF ReadWriteCSRImpl, RmwCSRImpl, WriteAfter, Answer
  <2>2. id \in {CsrId.sscratch, CsrId.satp, CsrId.misa, CsrId.mscratch, CsrId.mcycle, CsrId.minstret}
    BY <1>2 DEF CanWrite, Readable, Counters, CsrId
  <2> HIDE DEF new
  <2>3. IsCsr(CSRWrite_satp(new))
    BY DEF CSRWrite_satp, IsCsr
  <2>4. IsCsr([csr EXCEPT !.sscratch = new]) /\ IsCsr([csr EXCEPT !.mscratch = new])
        /\ IsCsr([csr EXCEPT !.cycles = new])
    BY DEF IsCsr
  <2>5. IsCsr(CSRWrite(id, new))
    BY <2>2, <2>3, <2>4 DEF CSRWrite
  <2> QED
    BY <2>1, <2>5
<1> QED
  BY <1>1, <1>2

-----------------------------------------------------------------------------
(* Calls that fail *)

\* The root is aligned, as satp gives it, and there is a number of levels.
HasTables(c) == c.ptAddr \in Addresses /\ c.ptAddr \cap 0 .. 2 = {} /\ c.count \in Nat

\* There are all the registers, the CSRs with a root and memory, whatever they hold.
Sound ==
  /\ gpr = [r \in 0 .. NumGPR - 1 |-> gpr[r]]
  /\ IsCsr(csr)
  /\ HasTables(csr)
  /\ memory \in Memories

\* Translating an address writes no more to memory than the marks.
LEMMA TranslateAdds ==
  ASSUME HasTables(csr), NEW mem \in Memories, NEW vaddr, NEW level, NEW reason
  PROVE  LET at == TranslateImpl(mem, vaddr, level, reason) IN
         at.memory \in Memories /\ Adds(mem, at.memory)
<1> DEFINE leaf == GetPteImpl(mem, csr.ptAddr, csr.count, vaddr)
           marked == Store(mem, 8, leaf.pteAddr, Marked(leaf.pte, reason))
<1>1. /\ leaf \in Entries
      /\ leaf.kind = "leaf" =>
           /\ leaf.pteAddr \cap 0 .. 2 = {} /\ Present(8, leaf.pteAddr)
           /\ leaf.pte = Load(mem, 8, leaf.pteAddr)
  BY WalkLeaf DEF HasTables
<1> HIDE DEF leaf
<1>2. Adds(mem, mem)
  BY DEF Adds
<1>3. ASSUME leaf.kind = "leaf" PROVE marked \in Memories /\ Adds(mem, marked)
  <2>1. leaf.pteAddr \in Addresses
    BY <1>1 DEF Entries
  <2> QED
    BY <1>1, <1>3, <2>1, MarkAdds
<1>4. TranslateImpl(mem, vaddr, level, reason) = Through(leaf, mem, vaddr, level, reason)
  BY DEF TranslateImpl, leaf
<1> HIDE DEF marked
<1>5. Through(leaf, mem, vaddr, level, reason).memory \in {mem}
        \cup (IF leaf.kind = "leaf" THEN {marked} ELSE {})
  BY DEF Through, Reached, marked
<1> QED
  BY <1>2, <1>3, <1>4, <1>5

\* So does an access, up to its own store.
LEMMA AccessAdds ==
  ASSUME HasTables(csr), NEW mem \in Memories, NEW vaddr, NEW reason
  PROVE  /\ Access(mem, vaddr, reason).memory \in Memories
         /\ Adds(mem, Access(mem, vaddr, reason).memory)
<1>1. CASE Translated
  BY <1>1, TranslateAdds DEF Access
<1>2. CASE ~Translated
  BY <1>2 DEF Access, Reached, Adds
<1> QED
  BY <1>1, <1>2

\* The record of a call names the opcode that it was parsed for.
LEMMA ParsedCode ==
  ASSUME NEW code, NEW inst, NEW d \in Parse(code, inst) PROVE d.code = code
<1>1. CASE code \in {"LOAD", "MISC_MEM", "JALR"}
  BY <1>1 DEF Parse, ParseLOAD, ParseMISC_MEM, ParseJALR, CallStandardITypeExt, Call
<1>2. ASSUME NEW kind, NEW logical, NEW arithmetic, NEW mask,
             NEW e \in ParseShiftRight(kind, logical, arithmetic, mask, inst)
      PROVE  e.code = kind
  <2>1. PICK op : e = [CallStandardIType(kind, op, inst) EXCEPT !.imm = ImmI(inst) \cap mask]
    BY <1>2 DEF ParseShiftRight
  <2> QED
    BY <2>1 DEF CallStandardIType, Call
<1>3. CASE code = "OP_IMM"
  <2>1. \/ d \in ParseShiftRight("OP_IMM", "SRLI", "SRAI", ShiftAmtMask, inst)
        \/ \E op : d = CallStandardITypeExt("OP_IMM", op, inst)
    BY <1>3 DEF Parse, ParseOP_IMM
  <2> QED
    BY <1>2, <1>3, <2>1 DEF CallStandardITypeExt, Call
<1>4. CASE code = "OP_IMM_32"
  <2>1. \/ d \in ParseShiftRight("OP_IMM_32", "SRLIW", "SRAIW", ShiftAmtMaskFor32, inst)
        \/ \E op : d = CallStandardITypeExt("OP_IMM_32", op, inst)
    BY <1>4 DEF Parse, ParseOP_IMM_32
  <2> QED
    BY <1>2, <1>4, <2>1 DEF CallStandardITypeExt, Call
<1>5. CASE code \in {"OP", "OP_32"}
  BY <1>5 DEF Parse, ParseOP, ParseOP_32, CallStandardRType, Call
<1>6. CASE code \in {"STORE", "BRANCH", "SYSTEM"}
  BY <1>6 DEF Parse, ParseSTORE, ParseBRANCH, ParseSYSTEM,
     CallStandardSTypeExt, CallStandardBTypeExt, CallStandardIType, Call
<1>7. CASE code \in {"LUI", "AUIPC", "JAL"}
  BY <1>7 DEF Parse, CallStandardUTypeExt, CallStandardJTypeExt, Call
<1>8. CASE code \notin {"LOAD", "MISC_MEM", "OP_IMM", "OP_IMM_32", "STORE", "OP", "OP_32", "BRANCH",
                        "JALR", "SYSTEM", "LUI", "AUIPC", "JAL"}
  BY <1>8 DEF Parse
<1> QED
  BY <1>1, <1>3, <1>4, <1>5, <1>6, <1>7, <1>8

\* The decoder gives stores only with a width there is.
LEMMA StoreOps ==
  ASSUME NEW inst, NEW d \in ParseInstruction(inst), d.code = "STORE"
  PROVE  WidthOf[d.op] \in Widths
<1>1. d \in Parse("STORE", inst)
  BY ParsedCode DEF ParseInstruction
<1>2. PICK op \in Named("STORE", Funct3(inst)) : d = CallStandardSTypeExt("STORE", op, inst)
  BY <1>1 DEF Parse, ParseSTORE
<1>3. op \in {"SB", "SH", "SW", "SD"} /\ d.op = op
  BY <1>2 DEF Named, Function, CallStandardSTypeExt, Call
<1>4. WidthOf["SB"] = 1 /\ WidthOf["SH"] = 2 /\ WidthOf["SW"] = 4 /\ WidthOf["SD"] = 8
  BY DEF WidthOf
<1> QED
  BY <1>3, <1>4 DEF Widths

\* No two opcodes are coded alike.
LEMMA OpcodesDiffer ==
  \A c, e \in DOMAIN Opcode : Opcode[c] = Opcode[e] => c = e
BY DEF Opcode

\* What a word decodes to of SYSTEM has one destination.
LEMMA SystemOnce ==
  ASSUME NEW inst, NEW d \in ParseInstruction(inst), d.code = "SYSTEM",
         NEW e \in ParseInstruction(inst)
  PROVE  e.rd = d.rd
<1>1. PICK code \in DOMAIN Opcode : OpcodeOf(inst) = Opcode[code] /\ d \in Parse(code, inst)
  BY DEF ParseInstruction
<1>2. code = "SYSTEM"
  BY <1>1, ParsedCode
<1>3. e \in Parse("SYSTEM", inst)
  BY <1>1, <1>2, OpcodesDiffer DEF ParseInstruction
<1>4. \A f \in Parse("SYSTEM", inst) : f.rd = Rd(inst)
  BY DEF Parse, ParseSYSTEM, CallStandardIType, Call
<1> QED
  BY <1>1, <1>2, <1>3, <1>4

\* A store that is refused leaves memory as the translation has left it, and one that
\* is not keeps it memory.
LEMMA WrittenType ==
  ASSUME NEW at, at.memory \in Memories, NEW width \in Widths, NEW res, NEW word
  PROVE  /\ Written(at, width, res, word) \in Memories
         /\ res # <<"success">> => Written(at, width, res, word) = at.memory
BY StoreType DEF Written

\* An access to a CSR leaves an aligned root, whatever is written to satp, and fails for
\* no reason that a memory access or an instruction fails for.
LEMMA AnswerTables ==
  ASSUME IsCsr(csr), HasTables(csr), NEW id, NEW source, NEW make
  PROVE  /\ HasTables(ReadWriteCSRImpl(id, source, make).csr)
         /\ ReadWriteCSRImpl(id, source, make).result \in CsrFaults \cup {<<"success">>}
<1> DEFINE ans == ReadWriteCSRImpl(id, source, make)
           new == MakeVal(make, CSRRead(id), source)
           root == Shl(PPN(new), 12, 64)
           mode == MODE(new)
<1>1. CASE ~(CanAccess(id, priv) /\ (make = "none" \/ CanWrite(id)) /\ id \in Readable /\ make # "none")
  BY <1>1 DEF ReadWriteCSRImpl, RmwCSRImpl, Answer, CsrFaults
<1>2. CASE CanWrite(id) /\ id \in Readable /\ CanAccess(id, priv) /\ make # "none"
  <2>1. ans.csr = CSRWrite(id, new) /\ ans.result = CSRWriteResult(id, new)
    BY <1>2 DEF ReadWriteCSRImpl, RmwCSRImpl, WriteAfter, Answer
  <2>2. id \in {CsrId.sscratch, CsrId.satp, CsrId.misa, CsrId.mscratch, CsrId.mcycle, CsrId.minstret}
    BY <1>2 DEF CanWrite, Readable, Counters, CsrId
  <2>3. root \in Addresses /\ root \cap 0 .. 2 = {}
    BY DEF Shl, PPN, Addresses, WordsOf
  <2> HIDE DEF ans, root, new
  <2>4. (TranslationModeValid(mode) /\ mode # Bare) => GetMaxPageTableLevelCount(mode) \in Nat
    BY DEF TranslationModeValid, GetMaxPageTableLevelCount, Bare, Sv39, Sv48, Sv57
  <2>5. /\ CSRWrite_satp(new).ptAddr = root
        /\ CSRWrite_satp(new).count \in {csr.count, GetMaxPageTableLevelCount(mode)}
        /\ (TranslationModeValid(mode) /\ mode # Bare) \/ CSRWrite_satp(new).count = csr.count
    <3> HIDE DEF mode
    <3>1. CSRWrite_satp(new) =
            IF ~TranslationModeValid(mode) THEN [csr EXCEPT !.ptAddr = root]
            ELSE IF mode = Bare THEN [[csr EXCEPT !.ptAddr = root] EXCEPT !.mode = mode]
            ELSE [[csr EXCEPT !.ptAddr = root] EXCEPT
                    !.mode = mode, !.count = GetMaxPageTableLevelCount(mode)]
      BY DEF CSRWrite_satp, root, mode
    <3> QED
      BY <3>1 DEF IsCsr
  <2>6. HasTables(CSRWrite_satp(new))
    <3>1. csr.count \in Nat
      BY DEF HasTables
    <3> HIDE DEF mode
    <3>2. CSRWrite_satp(new).count \in Nat
      BY <2>4, <2>5, <3>1
    <3> QED
      BY <2>3, <2>5, <3>2 DEF HasTables
  <2>7. HasTables([csr EXCEPT !.sscratch = new]) /\ HasTables([csr EXCEPT !.mscratch = new])
        /\ HasTables([csr EXCEPT !.cycles = new])
    BY DEF HasTables, IsCsr
  <2>8. HasTables(CSRWrite(id, new))
    BY <2>2, <2>6, <2>7 DEF CSRWrite
  <2>9. CSRWriteResult(id, new) \in CsrFaults \cup {<<"success">>}
    BY DEF CSRWriteResult, CsrFaults
  <2> QED
    BY <2>1, <2>8, <2>9 DEF ans
<1> QED
  BY <1>1, <1>2

\* An access that is refused reads and writes nothing.
LEMMA RefusedAnswer ==
  ASSUME NEW id, NEW source, NEW make, ReadWriteCSRImpl(id, source, make).result \in Refusals
  PROVE  /\ ReadWriteCSRImpl(id, source, make).csr = csr
         /\ ReadWriteCSRImpl(id, source, make).read = {}
<1> DEFINE ans == ReadWriteCSRImpl(id, source, make)
<1>1. ASSUME NEW val PROVE CSRWriteResult(id, val) \notin Refusals /\ <<"success">> \notin Refusals
  BY DEF CSRWriteResult, Refusals
<1>2. CASE CanAccess(id, priv) /\ (make = "none" \/ CanWrite(id)) /\ id \in Readable
  <2>1. ans = RmwCSRImpl(id, source, make)
    BY <1>2 DEF ReadWriteCSRImpl
  <2>2. CASE make = "none"
    BY <1>1, <2>1, <2>2 DEF RmwCSRImpl, Answer
  <2>3. CASE make # "none"
    BY <1>1, <2>1, <2>3 DEF RmwCSRImpl, WriteAfter, Answer
  <2> QED
    BY <2>2, <2>3
<1>3. CASE ~(CanAccess(id, priv) /\ (make = "none" \/ CanWrite(id)) /\ id \in Readable)
  BY <1>3 DEF ReadWriteCSRImpl, Answer
<1> QED
  BY <1>2, <1>3

-----------------------------------------------------------------------------
(* What a step leaves of the state when it fails *)

Failures == MemoryFaults \cup Refusals \cup {<<"InvalidInstruction">>}

\* A step from a sound state to another, which keeps what a failure has to keep: before
\* is memory as the step has found it.
Rightly(before) ==
  /\ Sound'
  /\ result' \in Failures =>
       /\ pc' = pc
       /\ \A r \in 1 .. NumGPR - 1 :
            gpr'[r] = IF result' \in Refusals /\ (\E d \in ran' : d.rd = r) THEN {} ELSE gpr[r]
       /\ result' \in Refusals => out' = out
       /\ [csr' EXCEPT !.cycles = csr.cycles] = csr
       /\ Adds(before, memory')

\* Clearing x0 and setting a register leave the rest of the registers.
LEMMA SetGpr ==
  ASSUME Sound, NEW rd, NEW val
  PROVE  LET regs == [Cleared EXCEPT ![rd] = val] IN
         /\ regs = [r \in 0 .. NumGPR - 1 |-> regs[r]]
         /\ Cleared = [r \in 0 .. NumGPR - 1 |-> Cleared[r]]
         /\ \A r \in 1 .. NumGPR - 1 : Cleared[r] = gpr[r]
<1>1. gpr = [r \in 0 .. NumGPR - 1 |-> gpr[r]]
  BY DEF Sound
<1>2. /\ Cleared = [r \in 0 .. NumGPR - 1 |-> Cleared[r]]
      /\ \A r \in 1 .. NumGPR - 1 : Cleared[r] = gpr[r]
  BY <1>1 DEF Cleared, NumGPR
<1>3. [Cleared EXCEPT ![rd] = val] = [r \in 0 .. NumGPR - 1 |-> [Cleared EXCEPT ![rd] = val][r]]
  BY <1>2
<1> QED
  BY <1>2, <1>3

\* No failure is a success, and what a memory access or an invalid instruction gives is
\* no refusal.
LEMMA NoFailure ==
  /\ <<"success">> \notin Failures
  /\ <<"success">> \notin Refusals
  /\ <<"none">> \notin Failures
  /\ Refusals \cap (MemoryFaults \cup {<<"InvalidInstruction">>}) = {}
  /\ CsrFaults \cap Failures = Refusals
<1>1. MemoryFaults = {<<r, f>> : r \in Reasons, f \in {"AccessFault", "PageFault", "NoValidPteFound"}}
  BY DEF MemoryFaults
<1>2. \A x : <<x>> \notin MemoryFaults
  BY <1>1
<1> QED
  BY <1>2 DEF Failures, Refusals, CsrFaults

\* What a step may do to registers and memory beside the CSRs, which it counts in.
LEMMA PlainSound ==
  ASSUME Sound, NEW mem \in Memories, NEW res,
         Plain(mem, res), gpr' = [r \in 0 .. NumGPR - 1 |-> gpr'[r]]
  PROVE  /\ Sound'
         /\ result' = res /\ memory' = mem
         /\ [csr' EXCEPT !.cycles = csr.cycles] = csr
<1>1. csr' = Counted(csr) /\ memory' = mem /\ result' = res
  BY DEF Plain, End
<1>2. IsCsr(csr') /\ [csr' EXCEPT !.cycles = csr.cycles] = csr
  BY <1>1, CountedIsCsr DEF Sound
<1>3. HasTables(csr')
  BY <1>1 DEF Counted, HasTables, Sound, IsCsr
<1> QED
  BY <1>1, <1>2, <1>3 DEF Sound

\* A step that does not fail has only to leave the state sound.
LEMMA PlainRightly ==
  ASSUME Sound, NEW mem \in Memories, NEW before, NEW res, Plain(mem, res), res \notin Refusals,
         gpr' = [r \in 0 .. NumGPR - 1 |-> gpr'[r]],
         res \in Failures => /\ pc' = pc
                             /\ gpr' = Cleared
                             /\ Adds(before, mem)
  PROVE  Rightly(before)
<1>1. /\ Sound' /\ result' = res /\ memory' = mem
      /\ [csr' EXCEPT !.cycles = csr.cycles] = csr
  BY PlainSound
<1>2. \A r \in 1 .. NumGPR - 1 : Cleared[r] = gpr[r]
  BY SetGpr
<1> QED
  BY <1>1, <1>2 DEF Rightly

\* Setting a register gives the registers, and clearing x0 does.
LEMMA SetIs ==
  ASSUME Sound, NEW rd, NEW val, Set(rd, val) \/ gpr' = Cleared
  PROVE  gpr' = [r \in 0 .. NumGPR - 1 |-> gpr'[r]]
BY SetGpr DEF Set

\* An instruction that is none.
LEMMA InvalidRightly ==
  ASSUME Sound, NEW mem \in Memories, NEW before, Adds(before, mem), Invalid(mem)
  PROVE  Rightly(before)
<1>1. Plain(mem, <<"InvalidInstruction">>) /\ gpr' = Cleared /\ pc' = pc
  BY DEF Invalid
<1> QED
  BY <1>1, SetIs, NoFailure, PlainRightly

\* What an access to memory gives is no refusal.
LEMMA NotRefused ==
  ASSUME NEW at, NEW width, NEW reason
  PROVE  AccessResult(at, width, reason) \notin Refusals
<1>1. \A x, y, z : <<x, y>> # <<z>>
  OBVIOUS
<1> QED
  BY <1>1 DEF AccessResult, GetTranslationResult, Refusals

\* A load and a store, which can fail in memory.
LEMMA LoadRightly ==
  ASSUME Sound, NEW mem \in Memories, NEW before, Adds(before, mem), NEW d, RunLOAD(d, mem)
  PROVE  Rightly(before)
<1>1. PICK at \in {Access(mem, Address(d), "Load")} :
        LoadAt(d, at, AccessResult(at, WidthOf[d.op], "Load"))
  BY DEF RunLOAD
<1> DEFINE res == AccessResult(at, WidthOf[d.op], "Load")
<1>2. at.memory \in Memories /\ Adds(mem, at.memory)
  BY <1>1, AccessAdds DEF Sound
<1>3. Plain(at.memory, res) /\ pc' = pc
  BY <1>1 DEF LoadAt, RunLOAD
<1>4. IF res = <<"success">> THEN Set(d.rd, Loaded(d.op, at)) ELSE gpr' = Cleared
  BY <1>1 DEF LoadAt
<1> HIDE DEF res
<1>5. Adds(before, at.memory)
  BY <1>2 DEF Adds
<1>6. gpr' = [r \in 0 .. NumGPR - 1 |-> gpr'[r]]
  BY <1>4, SetIs
<1>7. res \in Failures => gpr' = Cleared
  BY <1>4, NoFailure
<1>8. res \notin Refusals
  BY NotRefused DEF res
<1> QED
  BY <1>2, <1>3, <1>5, <1>6, <1>7, <1>8, PlainRightly

\* A store that fails leaves no half of itself.
LEMMA StoreRightly ==
  ASSUME Sound, NEW mem \in Memories, NEW before, Adds(before, mem), NEW d, RunSTORE(d, mem),
         WidthOf[d.op] \in Widths
  PROVE  Rightly(before)
<1>1. PICK at \in {Access(mem, Address(d), "Store")} :
        \E res \in {AccessResult(at, WidthOf[d.op], "Store")} :
          Plain(Written(at, WidthOf[d.op], res, Get(d.rs2)), res)
  BY DEF RunSTORE
<1>2. PICK res : Plain(Written(at, WidthOf[d.op], res, Get(d.rs2)), res) /\ res \notin Refusals
  BY <1>1, NotRefused
<1>3. at.memory \in Memories /\ Adds(mem, at.memory)
  BY <1>1, AccessAdds DEF Sound
<1>4. pc' = pc /\ gpr' = Cleared
  BY DEF RunSTORE
<1> DEFINE written == Written(at, WidthOf[d.op], res, Get(d.rs2))
<1>5. written \in Memories /\ (res # <<"success">> => written = at.memory)
  BY <1>3, WrittenType
<1>6. Plain(written, res)
  BY <1>2
<1> HIDE DEF written
<1>7. res \in Failures => Adds(before, written)
  BY <1>3, <1>5, NoFailure DEF Adds
<1>8. gpr' = [r \in 0 .. NumGPR - 1 |-> gpr'[r]]
  BY <1>4, SetIs
<1> QED
  BY <1>2, <1>4, <1>5, <1>6, <1>7, <1>8, PlainRightly

\* An access to a CSR clears the destination where it is refused, and nothing else.
LEMMA SystemRightly ==
  ASSUME Sound, NEW mem \in Memories, NEW before, Adds(before, mem),
         NEW d \in ran', \A e \in ran' : e.rd = d.rd, RunSYSTEM(d, mem)
  PROVE  Rightly(before)
<1>1. PICK ans \in {ReadWriteCSRImpl(d.imm, Source(d), Make(d))} :
        Set(d.rd, UNION ans.read) /\ csr' = Counted(ans.csr) /\ End(ans.result)
  BY DEF RunSYSTEM
<1>2. IsCsr(ans.csr) /\ HasTables(ans.csr) /\ ans.result \in CsrFaults \cup {<<"success">>}
  BY <1>1, AnswerIsCsr, AnswerTables DEF Sound
<1>3. IsCsr(csr')
  BY <1>1, <1>2, CountedIsCsr
<1>4. HasTables(csr')
  BY <1>1, <1>2 DEF Counted, HasTables, IsCsr
<1>5. gpr' = [r \in 0 .. NumGPR - 1 |-> gpr'[r]]
  BY <1>1, SetIs
<1>6. memory' = mem /\ result' = ans.result /\ pc' = pc /\ out' = out
  BY <1>1 DEF RunSYSTEM, End
<1>7. result' \in Failures => result' \in Refusals
  BY <1>2, <1>6, NoFailure
<1>8. ASSUME result' \in Refusals
      PROVE  /\ [csr' EXCEPT !.cycles = csr.cycles] = csr
             /\ \A r \in 1 .. NumGPR - 1 : gpr'[r] = IF d.rd = r THEN {} ELSE gpr[r]
  <2>1. ans.csr = csr /\ ans.read = {}
    BY <1>1, <1>6, <1>8, RefusedAnswer
  <2>2. [csr' EXCEPT !.cycles = csr.cycles] = csr
    BY <1>1, <2>1, CountedIsCsr DEF Sound
  <2>3. gpr' = [Cleared EXCEPT ![d.rd] = {}]
    BY <1>1, <2>1 DEF Set
  <2>4. /\ Cleared = [r \in 0 .. NumGPR - 1 |-> Cleared[r]]
        /\ \A r \in 1 .. NumGPR - 1 : Cleared[r] = gpr[r]
    BY SetGpr
  <2>5. \A r \in 1 .. NumGPR - 1 : r \in 0 .. NumGPR - 1
    BY DEF NumGPR
  <2>6. \A r \in 0 .. NumGPR - 1 : gpr'[r] = IF r = d.rd THEN {} ELSE Cleared[r]
    BY <2>3, <2>4
  <2>7. \A r \in 1 .. NumGPR - 1 : gpr'[r] = IF d.rd = r THEN {} ELSE gpr[r]
    BY <2>4, <2>5, <2>6
  <2> QED
    BY <2>2, <2>7
<1>9. Sound'
  BY <1>3, <1>4, <1>5, <1>6 DEF Sound
<1>10. \A r : (\E e \in ran' : e.rd = r) <=> d.rd = r
  OBVIOUS
<1> QED
  BY <1>6, <1>7, <1>8, <1>9, <1>10 DEF Rightly

\* Whatever the decoder gives, running it fails without a trace.
LEMMA RunRightly ==
  ASSUME Sound, NEW mem \in Memories, NEW before, Adds(before, mem),
         NEW inst, ran' = ParseInstruction(inst), NEW d \in ran', Run(d, mem)
  PROVE  Rightly(before)
<1>1. CASE RunMISC_MEM(d, mem) \/ RunBRANCH(d, mem)
  <2>1. Plain(mem, <<"success">>) /\ gpr' = Cleared
    BY <1>1 DEF RunMISC_MEM, RunBRANCH
  <2> QED
    BY <2>1, SetIs, NoFailure, PlainRightly
<1>2. CASE RunUpper(d, mem) \/ RunJump(d, mem) \/ RunArithmetic(d, mem) \/ RunDivideWrap(d, mem)
            \/ RunUpperMultiplication(d, mem)
  <2>1. Plain(mem, <<"success">>) /\ \E val : Set(d.rd, val)
    BY <1>2 DEF RunUpper, RunJump, RunArithmetic, RunDivideWrap, RunUpperMultiplication
  <2>2. gpr' = [r \in 0 .. NumGPR - 1 |-> gpr'[r]]
    BY <2>1, SetIs
  <2> QED
    BY <2>1, <2>2, NoFailure, PlainRightly
<1>3. CASE RunLOAD(d, mem)
  BY <1>3, LoadRightly
<1>4. CASE RunSTORE(d, mem)
  <2>1. WidthOf[d.op] \in Widths
    BY <1>4, StoreOps DEF RunSTORE
  <2> QED
    BY <1>4, <2>1, StoreRightly
<1>5. CASE RunSYSTEM(d, mem)
  <2>1. \A e \in ran' : e.rd = d.rd
    BY <1>5, SystemOnce DEF RunSYSTEM
  <2> QED
    BY <1>5, <2>1, SystemRightly
<1>6. CASE RunDivideError(d, mem)
  <2>1. result' = <<"none">> /\ gpr' = gpr /\ csr' = csr /\ memory' = mem
    BY <1>6 DEF RunDivideError, End
  <2> QED
    BY <2>1, NoFailure DEF Rightly, Sound
<1> QED
  BY <1>1, <1>2, <1>3, <1>4, <1>5, <1>6 DEF Run

\* Nor does one that is not decoded leave one.
LEMMA ExecuteRightly ==
  ASSUME Sound, NEW mem \in Memories, NEW before, Adds(before, mem),
         NEW inst, ExecuteInstructionImpl(inst, mem)
  PROVE  Rightly(before)
<1>1. ran' = ParseInstruction(inst) /\ (Invalid(mem) \/ \E d \in ran' : Run(d, mem))
  BY DEF ExecuteInstructionImpl
<1> QED
  BY <1>1, InvalidRightly, RunRightly

\* Every call fails without a trace, but for the marks.
LEMMA NextRightly == Sound /\ [Next]_vars => Rightly(memory) \/ (Sound' /\ UNCHANGED vars)
<1> SUFFICES ASSUME Sound, [Next]_vars PROVE Rightly(memory) \/ (Sound' /\ UNCHANGED vars)
  OBVIOUS
<1>1. Adds(memory, memory) /\ memory \in Memories
  BY DEF Adds, Sound
\* A call that leaves the registers, the CSRs and, but for the marks, memory.
<1>2. ASSUME UNCHANGED <<pc, gpr, csr>>, memory' \in Memories, result' \notin Refusals,
             result' \in Failures => Adds(memory, memory')
      PROVE  Rightly(memory)
  <2>1. [csr' EXCEPT !.cycles = csr.cycles] = csr
    BY <1>2 DEF Sound, IsCsr
  <2> QED
    BY <1>2, <2>1 DEF Rightly, Sound
<1>3. ASSUME NEW inst, ExecuteInst(inst) PROVE Rightly(memory)
  BY <1>1, <1>3, ExecuteRightly DEF ExecuteInst
<1>4. Fetched.memory \in Memories /\ Adds(memory, Fetched.memory)
  BY <1>1, AccessAdds DEF Fetched, Sound
<1>5. CASE ExecuteInstAtPc
  <2>1. PICK at \in {Fetched} : ExecuteInstructionImpl(FetchedInst(at), at.memory)
    BY <1>5 DEF ExecuteInstAtPc
  <2> QED
    BY <1>4, <2>1, ExecuteRightly
<1>6. CASE FetchInstAtPc \/ FailInstAtPc
  <2>1. /\ UNCHANGED <<pc, gpr, csr>> /\ memory' = Fetched.memory
        /\ result' = FetchResult(Fetched)
    BY <1>6 DEF FetchInstAtPc, FailInstAtPc
  <2>2. result' \notin Refusals
    BY <2>1, NotRefused DEF FetchResult
  <2> QED
    BY <1>2, <1>4, <2>1, <2>2
<1>7. ASSUME NEW id, NEW source, NEW make, CallCsr(ReadWriteCSRImpl(id, source, make)),
             ReadWriteCSRImpl(id, source, make).read = {} => out' = out
      PROVE  Rightly(memory)
  <2> DEFINE ans == ReadWriteCSRImpl(id, source, make)
  <2>1. IsCsr(ans.csr) /\ HasTables(ans.csr) /\ ans.result \in CsrFaults \cup {<<"success">>}
    BY AnswerIsCsr, AnswerTables DEF Sound
  <2>2. csr' = ans.csr /\ result' = ans.result /\ UNCHANGED <<pc, gpr, memory>> /\ ran' = {}
    BY <1>7 DEF CallCsr, Calling
  <2>3. result' \in Refusals => csr' = csr /\ out' = out
    BY <1>7, <2>2, RefusedAnswer
  <2> HIDE DEF ans
  <2>4. result' \in Failures => result' \in Refusals
    BY <2>1, <2>2, NoFailure
  <2>5. csr' = csr => [csr' EXCEPT !.cycles = csr.cycles] = csr
    BY DEF Sound, IsCsr
  <2>6. Sound'
    BY <2>1, <2>2 DEF Sound
  <2> QED
    BY <1>1, <2>2, <2>3, <2>4, <2>5, <2>6 DEF Rightly
<1>8. ASSUME NEW id, NEW val, WriteCSR(id, val) \/ ReadWriteCSR(id, val) \/ ReadCSR(id)
      PROVE  Rightly(memory)
  BY <1>7, <1>8 DEF WriteCSR, ReadWriteCSR, ReadCSR, Give
<1>9. ASSUME NEW place, WritePC(place) PROVE Rightly(memory)
  <2>1. result' = <<"none">> /\ UNCHANGED <<gpr, csr, memory>>
    BY <1>9 DEF WritePC
  <2> QED
    BY <2>1, NoFailure DEF Rightly, Sound
<1>10. ASSUME NEW index, NEW val, WriteGPR(index, val) PROVE Rightly(memory)
  <2>1. result' = <<"none">> /\ UNCHANGED <<csr, memory>> /\ gpr' = [gpr EXCEPT ![index] = val]
    BY <1>10 DEF WriteGPR
  <2>2. gpr' = [r \in 0 .. NumGPR - 1 |-> gpr'[r]]
    BY <2>1 DEF Sound
  <2>3. result' \notin Failures
    BY <2>1, NoFailure
  <2> QED
    BY <2>1, <2>2, <2>3 DEF Rightly, Sound
<1>11. ASSUME NEW vaddr
       PROVE  /\ MappedAccess(memory, vaddr).memory \in Memories
              /\ Adds(memory, MappedAccess(memory, vaddr).memory)
  BY <1>1, TranslateAdds DEF MappedAccess, Sound
<1>12. ASSUME NEW width, NEW vaddr, MappedRead(width, vaddr) PROVE Rightly(memory)
  <2>1. /\ UNCHANGED <<pc, gpr, csr>> /\ memory' = MappedAccess(memory, vaddr).memory
        /\ \E at : result' = AccessResult(at, width, "Any")
    BY <1>12 DEF MappedRead
  <2> QED
    BY <1>2, <1>11, <2>1, NotRefused
<1>13. ASSUME NEW width \in Widths, NEW vaddr, NEW val, MappedWrite(width, vaddr, val)
       PROVE  Rightly(memory)
  <2> DEFINE at == MappedAccess(memory, vaddr)
  <2>1. PICK res : memory' = Written(at, width, res, val) /\ result' = res /\ res \notin Refusals
    BY <1>13, NotRefused DEF MappedWrite
  <2>2. UNCHANGED <<pc, gpr, csr>>
    BY <1>13 DEF MappedWrite
  <2>3. at.memory \in Memories /\ Adds(memory, at.memory)
    BY <1>11
  <2> HIDE DEF at
  <2>4. memory' \in Memories /\ (res # <<"success">> => memory' = at.memory)
    BY <2>1, <2>3, WrittenType
  <2>5. result' \in Failures => Adds(memory, memory')
    BY <2>1, <2>3, <2>4, NoFailure
  <2> QED
    BY <1>2, <2>1, <2>2, <2>4, <2>5
<1>14. CASE Reset
  <2>1. /\ result' = <<"success">> /\ UNCHANGED <<gpr, memory>>
        /\ csr' = [csr EXCEPT !.cycles = {}]
    BY <1>14 DEF Reset
  <2>2. IsCsr(csr') /\ HasTables(csr')
    BY <2>1 DEF Sound, IsCsr, HasTables
  <2> QED
    BY <2>1, <2>2, NoFailure DEF Rightly, Sound
<1>15. CASE UNCHANGED vars
  BY <1>15 DEF vars, Sound
<1> QED
  BY <1>3, <1>5, <1>6, <1>8, <1>9, <1>10, <1>12, <1>13, <1>14, <1>15 DEF Next

\* The states that are reached have all the registers, an aligned root and memory: what
\* the failures of the calls depend on.
THEOREM AlwaysSound == Spec => []Sound
<1>1. Init => Sound
  <2> SUFFICES ASSUME Init PROVE Sound
    OBVIOUS
  <2>1. csr = [sscratch |-> {}, mscratch |-> {}, cycles |-> {}, ptAddr |-> {}, mode |-> Bare,
               count |-> csr.count] /\ csr.count \in Nat
    BY StateAssumption DEF Init
  <2>2. IsCsr(csr) /\ HasTables(csr)
    BY <2>1 DEF IsCsr, HasTables, Addresses, WordsOf
  <2> QED
    BY <2>2, StateAssumption DEF Init, Sound, Files
<1>2. Sound /\ [Next]_vars => Sound'
  BY NextRightly DEF Rightly
<1> QED
  BY <1>1, <1>2, PTL DEF Spec

\* A call that fails in memory or at its instruction, or is refused a CSR, leaves no half
\* of itself behind.
THEOREM FailuresKeep == Spec => FailuresKeepState
<1> DEFINE Kept == result' \in MemoryFaults \cup Refusals \cup {<<"InvalidInstruction">>} =>
             /\ pc' = pc
             /\ \A r \in 1 .. NumGPR - 1 :
                  gpr'[r] = IF result' \in Refusals /\ (\E d \in ran' : d.rd = r) THEN {} ELSE gpr[r]
             /\ result' \in Refusals => out' = out
             /\ [csr' EXCEPT !.cycles = csr.cycles] = csr
             /\ \A a \in Backed :
                  memory[a] \subseteq memory'[a] /\ memory'[a] \subseteq memory[a] \cup {A, D}
<1>1. Sound /\ [Next]_vars => [Kept]_vars
  <2>1. Rightly(memory) => Kept
    BY DEF Rightly, Failures, Adds
  <2> QED
    BY <2>1, NextRightly
<1> QED
  BY <1>1, AlwaysSound, PTL DEF Spec, FailuresKeepState

-----------------------------------------------------------------------------
(* Types: what the decoder gives *)

\* A field of five bits is the number of a register.
LEMMA RegisterField ==
  \A inst : Rd(inst) \in 0 .. 31 /\ Rs1(inst) \in 0 .. 31 /\ Rs2(inst) \in 0 .. 31
<1>1. ASSUME NEW inst, NEW offset PROVE Field(inst, offset, 5) \in 0 .. 31
  <2> DEFINE w == ExtractBitfield(inst, offset, 5)
  <2>1. w \in WordsOf(7) /\ w \subseteq 0 .. 4
    BY DEF ExtractBitfield, WordsOf
  <2>2. Field(inst, offset, 5) = Value(w)
    BY DEF Field
  <2> HIDE DEF w
  <2>3. One(w, 5) = 0 /\ One(w, 6) = 0 /\ \A b : One(w, b) \in 0 .. 1
    BY <2>1 DEF One
  <2> QED
    BY <2>1, <2>2, <2>3, ValueIs
<1> QED
  BY <1>1 DEF Rd, Rs1, Rs2

\* An immediate is extended to a word.
LEMMA ExtendType ==
  \A n \in 0 .. 64 : \A w \in WordsOf(n) : SignExtend(w, n, 64) \in WordsOf(64) /\ w \in WordsOf(64)
<1> SUFFICES ASSUME NEW n \in 0 .. 64, NEW w \in WordsOf(n)
             PROVE  SignExtend(w, n, 64) \in WordsOf(64) /\ w \in WordsOf(64)
  OBVIOUS
<1>1. w \subseteq 0 .. 63 /\ n .. 63 \subseteq 0 .. 63
  BY DEF WordsOf
<1> QED
  BY <1>1 DEF SignExtend, WordsOf

\* An immediate has the length of its format.
LEMMA ImmediateTypes ==
  \A inst : /\ ImmI(inst) \in WordsOf(12) /\ ImmS(inst) \in WordsOf(12)
            /\ ImmB(inst) \in WordsOf(13) /\ ImmU(inst) \in WordsOf(32)
            /\ ImmJ(inst) \in WordsOf(21)
<1> TAKE inst
<1>1. ImmI(inst) \in WordsOf(12)
  BY DEF ImmI, ExtractBitfield, WordsOf
<1>2. ImmS(inst) \in WordsOf(12)
  BY DEF ImmS, ExtractBitfield, Shr, WordsOf
<1>3. ImmB(inst) \in WordsOf(13)
  BY DEF ImmB, Shl, Shr, WordsOf
<1>4. ImmU(inst) \in WordsOf(32)
  BY DEF ImmU, WordsOf
<1>5. ImmJ(inst) \in WordsOf(21)
  BY DEF ImmJ, Shr, WordsOf
<1> QED
  BY <1>1, <1>2, <1>3, <1>4, <1>5

\* The functions of an opcode, with the arithmetic shifts, which have no number.
Functions(code) ==
  CASE code = "OP_IMM"    -> DOMAIN OfOP_IMM
    [] code = "OP_IMM_32" -> DOMAIN OfOP_IMM_32
    [] code \in {"LUI", "AUIPC", "JAL"} -> {code}
    [] OTHER -> DOMAIN Function[code]

\* An opcode's functions have names, and so have those that have no number.
LEMMA NamesHave ==
  /\ \A code \in DOMAIN Function : DOMAIN Function[code] \subseteq Names
  /\ {"SRAI", "SRAIW", "LUI", "AUIPC", "JAL"} \subseteq Names
<1>1. \A code \in DOMAIN Function : DOMAIN Function[code] \subseteq Numbered
  BY DEF Numbered
<1> QED
  BY <1>1 DEF Names

\* What every format makes of a call's arguments.
LEMMA CallTypes ==
  ASSUME NEW code \in DOMAIN Opcode, NEW op \in Names, NEW inst
  PROVE  /\ CallStandardRType(code, op, inst) \in Instructions
         /\ CallStandardIType(code, op, inst) \in Instructions
         /\ \A mask : [CallStandardIType(code, op, inst) EXCEPT !.imm = ImmI(inst) \cap mask] \in Instructions
         /\ CallStandardITypeExt(code, op, inst) \in Instructions
         /\ CallStandardSTypeExt(code, op, inst) \in Instructions
         /\ CallStandardBTypeExt(code, op, inst) \in Instructions
         /\ code \in Names => CallStandardUTypeExt(code, inst) \in Instructions
         /\ code \in Names => CallStandardJTypeExt(code, inst) \in Instructions
<1> DEFINE Is(name, rd, rs1, rs2, imm) == Call(code, name, rd, rs1, rs2, imm) \in Instructions
<1>1. ASSUME NEW name \in Names, NEW rd \in 0 .. 31, NEW rs1 \in 0 .. 31, NEW rs2 \in 0 .. 31,
             NEW imm \in WordsOf(64)
      PROVE  Is(name, rd, rs1, rs2, imm)
  BY DEF Call, Instructions
<1>2. Rd(inst) \in 0 .. 31 /\ Rs1(inst) \in 0 .. 31 /\ Rs2(inst) \in 0 .. 31 /\ 0 \in 0 .. 31
  BY RegisterField
<1>3. /\ SignExtend(ImmI(inst), 12, 64) \in WordsOf(64) /\ SignExtend(ImmS(inst), 12, 64) \in WordsOf(64)
      /\ SignExtend(ImmB(inst), 13, 64) \in WordsOf(64) /\ SignExtend(ImmU(inst), 32, 64) \in WordsOf(64)
      /\ SignExtend(ImmJ(inst), 21, 64) \in WordsOf(64) /\ ImmI(inst) \in WordsOf(64)
  BY ExtendType, ImmediateTypes
<1>4. {} \in WordsOf(64) /\ \A mask : ImmI(inst) \cap mask \in WordsOf(64)
  BY <1>3 DEF WordsOf
<1>5. \A mask : [CallStandardIType(code, op, inst) EXCEPT !.imm = ImmI(inst) \cap mask] =
                  Call(code, op, Rd(inst), Rs1(inst), 0, ImmI(inst) \cap mask)
  BY DEF CallStandardIType, Call
<1> DEFINE zero == 0
           empty == {}
           ext(w, n) == SignExtend(w, n, 64)
<1>6. zero \in 0 .. 31 /\ empty \in WordsOf(64)
  BY <1>2, <1>4
<1> HIDE DEF Is, zero, empty, ext
<1>7. /\ Is(op, Rd(inst), Rs1(inst), Rs2(inst), empty)
      /\ Is(op, Rd(inst), Rs1(inst), zero, ImmI(inst))
      /\ \A mask : Is(op, Rd(inst), Rs1(inst), zero, ImmI(inst) \cap mask)
  BY <1>1, <1>2, <1>3, <1>4, <1>6
<1>8. /\ Is(op, Rd(inst), Rs1(inst), zero, ext(ImmI(inst), 12))
      /\ Is(op, zero, Rs1(inst), Rs2(inst), ext(ImmS(inst), 12))
      /\ Is(op, zero, Rs1(inst), Rs2(inst), ext(ImmB(inst), 13))
  BY <1>1, <1>2, <1>3, <1>6 DEF ext
<1>9. code \in Names => /\ Is(code, Rd(inst), zero, zero, ext(ImmU(inst), 32))
                        /\ Is(code, Rd(inst), zero, zero, ext(ImmJ(inst), 21))
  BY <1>1, <1>2, <1>3, <1>6 DEF ext
<1> QED
  BY <1>5, <1>7, <1>8, <1>9 DEF Is, zero, empty, ext, CallStandardRType, CallStandardIType,
     CallStandardITypeExt, CallStandardSTypeExt, CallStandardBTypeExt, CallStandardUTypeExt,
     CallStandardJTypeExt

\* Every function has a name, and every named function is one.
LEMMA NamedFunctions ==
  ASSUME NEW code \in {"LOAD", "MISC_MEM", "OP_IMM", "OP_IMM_32", "STORE", "OP", "OP_32", "BRANCH",
                       "JALR", "SYSTEM"},
         NEW number, NEW op \in Named(code, number)
  PROVE  op \in Names /\ op \in Functions(code)
<1>1. op \in DOMAIN Function[code] /\ code \in DOMAIN Function
  BY DEF Named, Function
<1>2. op \in Names
  BY <1>1, NamesHave
<1>3. /\ DOMAIN Function["OP_IMM"] = {"ADDI", "SLLI", "SLTI", "SLTIU", "XORI", "SRLI", "ORI", "ANDI"}
      /\ DOMAIN Function["OP_IMM_32"] = {"ADDIW", "SLLIW", "SRLIW"}
  BY DEF Function
<1>4. DOMAIN Function["OP_IMM"] \subseteq Functions("OP_IMM")
      /\ DOMAIN Function["OP_IMM_32"] \subseteq Functions("OP_IMM_32")
  BY <1>3 DEF Functions, OfOP_IMM, OfOP_IMM_32
<1>5. code \notin {"OP_IMM", "OP_IMM_32"} => Functions(code) = DOMAIN Function[code]
  BY DEF Functions
<1> QED
  BY <1>1, <1>2, <1>4, <1>5

\* A right shift is given one of the two names.
LEMMA ShiftTypes ==
  ASSUME NEW code \in DOMAIN Opcode, NEW logical \in Names, NEW arithmetic \in Names, NEW mask,
         NEW inst, NEW d \in ParseShiftRight(code, logical, arithmetic, mask, inst)
  PROVE  d \in Instructions /\ d.op \in {logical, arithmetic}
<1>1. PICK op \in {logical, arithmetic} :
        d = [CallStandardIType(code, op, inst) EXCEPT !.imm = ImmI(inst) \cap mask]
  BY DEF ParseShiftRight
<1>2. d.op = op
  BY <1>1 DEF CallStandardIType, Call
<1> QED
  BY <1>1, <1>2, CallTypes

\* The decoder gives instructions, with a function of their opcode.
LEMMA ParsedType ==
  ASSUME NEW inst, NEW d \in ParseInstruction(inst)
  PROVE  d \in Instructions /\ d.op \in Functions(d.code)
<1>1. PICK code \in DOMAIN Opcode : d \in Parse(code, inst)
  BY DEF ParseInstruction
<1>2. d.code = code
  BY <1>1, ParsedCode
<1>3. \A kind, op : /\ CallStandardRType(kind, op, inst).op = op
                   /\ CallStandardIType(kind, op, inst).op = op
                   /\ CallStandardITypeExt(kind, op, inst).op = op
                   /\ CallStandardSTypeExt(kind, op, inst).op = op
                   /\ CallStandardBTypeExt(kind, op, inst).op = op
  BY DEF CallStandardRType, CallStandardIType, CallStandardITypeExt, CallStandardSTypeExt,
     CallStandardBTypeExt, Call
<1>4. ASSUME NEW number, NEW op \in Named(code, number),
             code \in {"LOAD", "MISC_MEM", "OP_IMM", "OP_IMM_32", "STORE", "OP", "OP_32", "BRANCH",
                       "JALR", "SYSTEM"},
             d \in {CallStandardRType(code, op, inst), CallStandardIType(code, op, inst),
                    CallStandardITypeExt(code, op, inst), CallStandardSTypeExt(code, op, inst),
                    CallStandardBTypeExt(code, op, inst)}
      PROVE  d \in Instructions /\ d.op \in Functions(code)
  BY <1>3, <1>4, NamedFunctions, CallTypes
<1>5. CASE code \in {"LOAD", "MISC_MEM", "JALR"}
  BY <1>1, <1>2, <1>4, <1>5 DEF Parse, ParseLOAD, ParseMISC_MEM, ParseJALR
<1>6. CASE code \in {"OP", "OP_32"}
  BY <1>1, <1>2, <1>4, <1>6 DEF Parse, ParseOP, ParseOP_32
<1>7. CASE code \in {"STORE", "BRANCH", "SYSTEM"}
  BY <1>1, <1>2, <1>4, <1>7 DEF Parse, ParseSTORE, ParseBRANCH, ParseSYSTEM
<1>8. CASE code = "OP_IMM"
  <2>1. \/ d \in ParseShiftRight("OP_IMM", "SRLI", "SRAI", ShiftAmtMask, inst)
        \/ \E op \in Named("OP_IMM", Funct3(inst)) : d = CallStandardITypeExt("OP_IMM", op, inst)
    BY <1>1, <1>8 DEF Parse, ParseOP_IMM
  <2>2. {"SRLI", "SRAI"} \subseteq Functions("OP_IMM")
    BY DEF Functions, OfOP_IMM
  <2>3. "SRLI" \in DOMAIN Function["OP_IMM"] /\ "OP_IMM" \in DOMAIN Function /\ "OP_IMM" \in DOMAIN Opcode
    BY DEF Function, Opcode
  <2>4. "SRLI" \in Names /\ "SRAI" \in Names
    BY <2>3, NamesHave
  <2> QED
    BY <1>2, <1>4, <1>8, <2>1, <2>2, <2>3, <2>4, ShiftTypes
<1>9. CASE code = "OP_IMM_32"
  <2>1. \/ d \in ParseShiftRight("OP_IMM_32", "SRLIW", "SRAIW", ShiftAmtMaskFor32, inst)
        \/ \E op \in Named("OP_IMM_32", Funct3(inst)) : d = CallStandardITypeExt("OP_IMM_32", op, inst)
    BY <1>1, <1>9 DEF Parse, ParseOP_IMM_32
  <2>2. {"SRLIW", "SRAIW"} \subseteq Functions("OP_IMM_32")
    BY DEF Functions, OfOP_IMM_32
  <2>3. "SRLIW" \in DOMAIN Function["OP_IMM_32"] /\ "OP_IMM_32" \in DOMAIN Function /\ "OP_IMM_32" \in DOMAIN Opcode
    BY DEF Function, Opcode
  <2>4. "SRLIW" \in Names /\ "SRAIW" \in Names
    BY <2>3, NamesHave
  <2> QED
    BY <1>2, <1>4, <1>9, <2>1, <2>2, <2>3, <2>4, ShiftTypes
<1>10. CASE code \in {"LUI", "AUIPC", "JAL"}
  <2>1. d \in {CallStandardUTypeExt(code, inst), CallStandardJTypeExt(code, inst)}
    BY <1>1, <1>10 DEF Parse
  <2>2. d.op = code
    BY <2>1 DEF CallStandardUTypeExt, CallStandardJTypeExt, Call
  <2>3. code \in Names
    BY <1>10, NamesHave
  <2>4. code \in Functions(code)
    BY <1>10 DEF Functions
  <2> QED
    BY <1>2, <2>1, <2>2, <2>3, <2>4, CallTypes
<1>11. CASE code \notin {"LOAD", "MISC_MEM", "OP_IMM", "OP_IMM_32", "STORE", "OP", "OP_32", "BRANCH",
                         "JALR", "SYSTEM", "LUI", "AUIPC", "JAL"}
  BY <1>1, <1>11 DEF Parse
<1> QED
  BY <1>5, <1>6, <1>7, <1>8, <1>9, <1>10, <1>11

-----------------------------------------------------------------------------
(* Types: what the instructions compute *)

\* A shift's amount is below the length.
LEMMA AmountType == \A w : Amount(w, 64) \in 0 .. 63 /\ Amount(w, 32) \in 0 .. 31
<1> TAKE w
<1>1. ASSUME NEW v, v \subseteq 0 .. 5
      PROVE  Value(v) \in 0 .. 63 /\ (5 \notin v => Value(v) \in 0 .. 31)
  <2>1. v \in WordsOf(7) /\ One(v, 6) = 0 /\ \A b : One(v, b) \in 0 .. 1
    BY <1>1 DEF One, WordsOf
  <2>2. 5 \notin v => One(v, 5) = 0
    BY DEF One
  <2> QED
    BY <2>1, <2>2, ValueIs
<1>2. Amount(w, 64) = Value(w \cap 0 .. 5) /\ Amount(w, 32) = Value(w \cap 0 .. 4)
  BY DEF Amount, ShiftAmtMask, ShiftAmtMaskFor32
<1>3. w \cap 0 .. 5 \subseteq 0 .. 5 /\ w \cap 0 .. 4 \subseteq 0 .. 5 /\ 5 \notin w \cap 0 .. 4
  OBVIOUS
<1> QED
  BY <1>1, <1>2, <1>3

Computed == {"ADD", "SUB", "MUL", "SLL", "SLT", "SLTU", "XOR", "SRL", "SRA", "OR", "AND",
             "DIV", "DIVU", "REM", "REMU"}

\* Every operation on words of one length gives another.
LEMMA ComputeType ==
  ASSUME NEW op \in Computed, NEW n \in {32, 64}, NEW v \in WordsOf(n), NEW w \in WordsOf(n)
  PROVE  Compute(op, v, w, n) \in WordsOf(n)
<1>1. n \in Nat /\ Amount(w, n) \in 0 .. n - 1
  BY AmountType
<1>2. \A test : Truth(test) \in WordsOf(n)
  BY DEF Truth, WordsOf
<1>3. CASE op \in {"ADD", "SUB", "MUL", "SLL"}
  <2>1. Add(v, w, n) \in WordsOf(n) /\ Sub(v, w, n) \in WordsOf(n) /\ Mul(v, w, n) \in WordsOf(n)
        /\ Shl(v, Amount(w, n), n) \in WordsOf(n)
    BY <1>1, AddType, SubType, MulType, ShlType
  <2> QED
    BY <1>3, <2>1 DEF Compute
<1>4. CASE op \in {"SLT", "SLTU"}
  BY <1>2, <1>4 DEF Compute
<1>5. CASE op \in {"XOR", "OR", "AND"}
  BY <1>5 DEF Compute, Xor, WordsOf
<1>6. CASE op \in {"SRL", "SRA"}
  <2>1. ASSUME NEW s \in 0 .. n - 1 PROVE Shr(v, s) \in WordsOf(n) /\ Sar(v, s, n) \in WordsOf(n)
    <3>1. Shr(v, s) \in WordsOf(n) /\ (n - s .. n - 1) \in WordsOf(n)
      BY <1>1 DEF Shr, WordsOf
    <3> QED
      BY <3>1 DEF Sar, WordsOf
  <2> QED
    BY <1>1, <1>6, <2>1 DEF Compute
<1>7. CASE op \in {"DIV", "REM"}
  BY <1>1, <1>7, SignedDivideType DEF Compute
<1>8. CASE op \in {"DIVU", "REMU"}
  <2>1. DivideU(v, w, n) \in [quot : WordsOf(n), rem : WordsOf(n)]
    BY <1>1, DivideType
  <2> QED
    BY <1>8, <2>1 DEF Compute
<1> QED
  BY <1>3, <1>4, <1>5, <1>6, <1>7, <1>8 DEF Computed

\* The instructions computed with OP's operations have one of them.
LEMMA OperationIs ==
  ASSUME NEW d, d.code \in Arithmetic, d.op \in Functions(d.code), d.op \notin UpperMultiplications
  PROVE  Operation(d) \in Computed
<1>1. CASE d.code = "OP"
  BY <1>1 DEF Functions, Function, UpperMultiplications, Operation, Computed
<1>2. CASE d.code = "OP_IMM"
  BY <1>2 DEF Functions, OfOP_IMM, Operation, Computed
<1>3. CASE d.code = "OP_32"
  <2>1. d.op \in DOMAIN OfOP_32
    BY <1>3 DEF Functions, Function, OfOP_32
  <2> QED
    BY <1>3, <2>1 DEF OfOP_32, Operation, Computed
<1>4. CASE d.code = "OP_IMM_32"
  BY <1>4 DEF Functions, OfOP_IMM_32, Operation, Computed
<1> QED
  BY <1>1, <1>2, <1>3, <1>4 DEF Arithmetic

\* A register is read as a word, x0 as zero.
LEMMA GetType == ASSUME gpr \in Files, NEW r \in 0 .. 31 PROVE Get(r) \in WordsOf(64)
BY DEF Get, Files, NumGPR, WordsOf

\* The operands have the length of the operation, and what is widened is a register's word.
LEMMA OperandTypes ==
  ASSUME gpr \in Files, NEW d \in Instructions
  PROVE  /\ LengthOf(d) \in {32, 64}
         /\ Operand1(d) \in WordsOf(LengthOf(d)) /\ Operand2(d) \in WordsOf(LengthOf(d))
         /\ \A val \in WordsOf(LengthOf(d)) : Widened(d, val) \in WordsOf(64)
<1>1. LengthOf(d) \in {32, 64}
  BY DEF LengthOf
<1>2. Operand1(d) \in WordsOf(LengthOf(d)) /\ Operand2(d) \in WordsOf(LengthOf(d))
  BY DEF Operand1, Operand2, WordsOf
<1>3. ASSUME NEW val \in WordsOf(LengthOf(d)) PROVE Widened(d, val) \in WordsOf(64)
  <2>1. CASE LengthOf(d) = 64
    BY <2>1 DEF Widened
  <2>2. CASE LengthOf(d) = 32
    <3>1. SignExtend(val, 32, 64) \in WordsOf(64) /\ val \in WordsOf(64)
      BY <2>2, ExtendType DEF WordsOf
    <3> QED
      BY <3>1 DEF Widened
  <2> QED
    BY <1>1, <2>1, <2>2
<1> QED
  BY <1>1, <1>2, <1>3

\* An upper half is a word, whatever the register nobody set holds.
LEMMA UpperType ==
  ASSUME NEW v, NEW w, NEW left
  PROVE  /\ MultiplyGetUpper64U(v, left) \in WordsOf(64)
         /\ MultiplyGetUpper64S(v, left) \in WordsOf(64)
         /\ MultiplyGetUpper64SU(w, v, left) \in WordsOf(64)
<1>1. \A p \in WordsOf(2 * 64) : Shr(p, 64) \in WordsOf(64)
  BY DEF Shr, WordsOf
<1>2. \A x, y : Mul(x, y, 2 * 64) \in WordsOf(2 * 64)
  BY MulType
<1>3. MultiplyGetUpper64U(v, left) \in WordsOf(64) /\ MultiplyGetUpper64S(v, left) \in WordsOf(64)
  BY <1>1, <1>2 DEF MultiplyGetUpper64U, MultiplyGetUpper64S, MulUpperU, MulUpperS
<1>4. \A test, upper : Not(upper, 64) \in WordsOf(64) /\ Truth(test) \in WordsOf(64)
  BY DEF Not, Truth, WordsOf
<1>5. \A test, upper : Add(Not(upper, 64), Truth(test), 64) \in WordsOf(64)
  BY <1>4, AddType
<1> QED
  BY <1>3, <1>5 DEF MultiplyGetUpper64SU

-----------------------------------------------------------------------------
(* Types: CSRs and accesses *)

\* What is read from a register that exists is a word.
LEMMA CsrReadType ==
  ASSUME csr \in CsrRecords, NEW id \in Readable PROVE CSRRead(id) \in WordsOf(64)
<1>1. CSRRead_satp \in WordsOf(64)
  BY DEF CSRRead_satp, AssignBitfield, WordsOf
<1>2. MisaValue \in WordsOf(64)
  BY DEF MisaValue, AssignBitfield, WordsOf
<1>3. csr.sscratch \in WordsOf(64) /\ csr.mscratch \in WordsOf(64) /\ csr.cycles \in WordsOf(64)
  BY DEF CsrRecords
<1> QED
  BY <1>1, <1>2, <1>3 DEF CSRRead, Readable, Counters, CsrId

\* Writing satp gives it a mode there is, or leaves it the one it has.
LEMMA SatpType ==
  ASSUME csr \in CsrRecords, NEW val PROVE CSRWrite_satp(val) \in CsrRecords
<1> DEFINE root == Shl(PPN(val), 12, 64)
           mode == MODE(val)
           count == GetMaxPageTableLevelCount(mode)
<1>1. root \in Addresses
  BY DEF Shl, Addresses, WordsOf
<1>2. (TranslationModeValid(mode) /\ mode # Bare) => count \in Nat
  BY DEF TranslationModeValid, GetMaxPageTableLevelCount, Bare, Sv39, Sv48, Sv57
<1>3. TranslationModeValid(mode) => mode \in {Bare, Sv39, Sv48, Sv57}
  BY DEF TranslationModeValid
<1>4. CSRWrite_satp(val) =
        IF ~TranslationModeValid(mode) THEN [csr EXCEPT !.ptAddr = root]
        ELSE IF mode = Bare THEN [[csr EXCEPT !.ptAddr = root] EXCEPT !.mode = mode]
        ELSE [[csr EXCEPT !.ptAddr = root] EXCEPT !.mode = mode, !.count = count]
  BY DEF CSRWrite_satp
<1> HIDE DEF root, mode, count
<1> QED
  BY <1>1, <1>2, <1>3, <1>4 DEF CsrRecords

\* An access to a CSR answers with words and leaves the CSRs what they are.
LEMMA AnswerType ==
  ASSUME csr \in CsrRecords, NEW id, NEW source \in WordsOf(64),
         NEW make \in {"none", "CSRRW", "CSRRS", "CSRRC"}
  PROVE  LET ans == ReadWriteCSRImpl(id, source, make) IN
         /\ ans.csr \in CsrRecords
         /\ UNION ans.read \in WordsOf(64)
         /\ ans.result \in Results
<1> DEFINE ans == ReadWriteCSRImpl(id, source, make)
           new == MakeVal(make, CSRRead(id), source)
<1>1. CASE ~(CanAccess(id, priv) /\ (make = "none" \/ CanWrite(id)) /\ id \in Readable)
  <2>1. /\ ans.csr = csr /\ ans.read = {}
        /\ ans.result \in {<<"CsrPrivilageTooLow">>, <<"WriteReadOnlyCsr">>, <<"CsrIdInvalid">>}
    BY <1>1 DEF ReadWriteCSRImpl, Answer
  <2>2. UNION ans.read \in WordsOf(64)
    BY <2>1 DEF WordsOf
  <2> QED
    BY <2>1, <2>2 DEF Results, CsrFaults
<1>2. CASE CanAccess(id, priv) /\ id \in Readable /\ make = "none"
  <2>1. ans = Answer(<<"success">>, {CSRRead(id)}, csr)
    BY <1>2 DEF ReadWriteCSRImpl, RmwCSRImpl
  <2>2. UNION {CSRRead(id)} \in WordsOf(64)
    BY <1>2, CsrReadType DEF WordsOf
  <2> QED
    BY <2>1, <2>2 DEF Answer, Results
<1>3. CASE CanAccess(id, priv) /\ id \in Readable /\ make # "none" /\ CanWrite(id)
  <2>1. ans = WriteAfter(id, CSRRead(id), new)
    BY <1>3 DEF ReadWriteCSRImpl, RmwCSRImpl
  <2>2. id \in {CsrId.sscratch, CsrId.satp, CsrId.misa, CsrId.mscratch, CsrId.mcycle, CsrId.minstret}
    BY <1>3 DEF CanWrite, Readable, Counters, CsrId
  <2>3. CSRRead(id) \in WordsOf(64)
    BY <1>3, CsrReadType
  <2>4. new \in WordsOf(64)
    BY <1>3, <2>3 DEF MakeVal, WordsOf
  <2>5. UNION {CSRRead(id)} \in WordsOf(64)
    BY <2>3
  <2> HIDE DEF new
  <2>6. CSRWrite(id, new) \in CsrRecords
    <3>1. /\ [csr EXCEPT !.sscratch = new] \in CsrRecords /\ [csr EXCEPT !.mscratch = new] \in CsrRecords
          /\ [csr EXCEPT !.cycles = new] \in CsrRecords
      BY <2>4 DEF CsrRecords
    <3> QED
      BY <2>2, <3>1, SatpType DEF CSRWrite
  <2>7. CSRWriteResult(id, new) \in Results
    BY DEF CSRWriteResult, Results, CsrFaults
  <2> QED
    BY <2>1, <2>5, <2>6, <2>7 DEF WriteAfter, Answer
<1> QED
  BY <1>1, <1>2, <1>3

\* An access ends at an address, with a result of its reason.
LEMMA ReachedType ==
  ASSUME HasTables(csr), NEW mem \in Memories, NEW vaddr \in Addresses, NEW level,
         NEW reason \in Reasons
  PROVE  LET at == TranslateImpl(mem, vaddr, level, reason) IN
         /\ at.addr \in Addresses
         /\ at.res \in {"success", "AccessFault", "PageFault", "NoValidPteFound"}
<1> DEFINE leaf == GetPteImpl(mem, csr.ptAddr, csr.count, vaddr)
           at == TranslateImpl(mem, vaddr, level, reason)
<1>1. leaf \in Entries /\ leaf.kind \notin {"none", "table"}
  BY WalkLeaf DEF HasTables
<1>2. at = Through(leaf, mem, vaddr, level, reason)
  BY DEF TranslateImpl
<1> HIDE DEF leaf, at
<1>3. leaf.kind \in {"AccessFault", "NoValidPteFound", "leaf"} /\ leaf.level \in Nat
  BY <1>1 DEF Entries
<1>4. NewAddr(leaf.pte, leaf.level, vaddr) \in Addresses
  BY <1>3, NewAddrType
<1>5. \/ at = Reached(leaf.kind, mem, vaddr) /\ leaf.kind # "leaf"
      \/ \E m : at = Reached("success", m, NewAddr(leaf.pte, leaf.level, vaddr))
      \/ at = Reached("PageFault", mem, vaddr)
  BY <1>2 DEF Through
<1> QED
  BY <1>3, <1>4, <1>5 DEF Reached, at

\* A translated access has an address and a result, whatever the walk met.
LEMMA AccessType ==
  ASSUME HasTables(csr), NEW mem \in Memories, NEW vaddr \in Addresses,
         NEW reason \in Reasons, NEW width,
         NEW at \in {Access(mem, vaddr, reason), TranslateImpl(mem, vaddr, Machine, reason)}
  PROVE  at.addr \in Addresses /\ AccessResult(at, width, reason) \in Results
<1>1. /\ at.addr \in Addresses
      /\ at.res \in {"success", "AccessFault", "PageFault", "NoValidPteFound"}
  BY ReachedType DEF Access, Reached
<1>2. ASSUME NEW res \in {"AccessFault", "PageFault", "NoValidPteFound"}
      PROVE  GetTranslationResult(res, reason) \in MemoryFaults
  BY <1>2 DEF GetTranslationResult, MemoryFaults
<1>3. <<"Any", "AccessFault">> \in MemoryFaults
  BY DEF MemoryFaults, Reasons
<1>4. AccessResult(at, width, reason) \in MemoryFaults \cup {<<"success">>}
  BY <1>1, <1>2, <1>3 DEF AccessResult
<1> QED
  BY <1>1, <1>4 DEF Results

-----------------------------------------------------------------------------
(* Types: the steps *)

\* What a step has to leave of the types beside memory's, which Sound says.
Typed ==
  /\ pc' \in Addresses /\ gpr' \in Files /\ csr' \in CsrRecords
  /\ priv' \in Levels /\ flags' = flags
  /\ aborted' \in BOOLEAN /\ result' \in Results /\ out' \in WordsOf(64)

\* Counting the cycles keeps the CSRs' types.
LEMMA CountedType == ASSUME NEW c \in CsrRecords PROVE Counted(c) \in CsrRecords
<1>1. Add(c.cycles, {0}, 64) \in WordsOf(64)
  <2>1. {0} \in WordsOf(64) /\ c.cycles \in WordsOf(64)
    BY DEF WordsOf, CsrRecords
  <2> QED
    BY <2>1, AddType
<1> QED
  BY <1>1 DEF Counted, CsrRecords

\* A register that is set to a word leaves the registers words.
LEMMA SetType ==
  ASSUME gpr \in Files
  PROVE  /\ Cleared \in Files
         /\ \A rd : \A val \in WordsOf(64) : Set(rd, val) => gpr' \in Files
<1>1. {} \in WordsOf(64)
  BY DEF WordsOf
<1>2. Cleared \in Files
  BY <1>1 DEF Cleared, Files
<1> QED
  BY <1>2 DEF Set, Files

\* A handler that ends plainly changes, beside registers and memory, the CSRs' count only.
LEMMA PlainTyped ==
  ASSUME TypeOK, NEW mem, NEW res \in Results, Plain(mem, res), gpr' \in Files, pc' \in Addresses
  PROVE  Typed
BY CountedType DEF Plain, End, Typed, TypeOK

\* Values that instructions compute from the program counter.
LEMMA JumpType ==
  ASSUME TypeOK, NEW d \in Instructions
  PROVE  /\ Add(pc, d.imm, 64) \in WordsOf(64) /\ Add(pc, {2}, 64) \in WordsOf(64)
         /\ Address(d) \in WordsOf(64) /\ Address(d) \ {0} \in WordsOf(64)
<1>1. pc \in WordsOf(64) /\ d.imm \in WordsOf(64) /\ {2} \in WordsOf(64) /\ Get(d.rs1) \in WordsOf(64)
  BY GetType DEF TypeOK, Addresses, Instructions, WordsOf
<1>2. Address(d) \in WordsOf(64)
  BY <1>1, AddType DEF Address
<1>3. Address(d) \ {0} \in WordsOf(64)
  BY <1>2 DEF WordsOf
<1> QED
  BY <1>1, <1>2, <1>3, AddType

\* A CSR instruction writes a word or zero to its register.
LEMMA SystemTyped ==
  ASSUME TypeOK, NEW mem, NEW d \in Instructions, d.op \in Functions(d.code), RunSYSTEM(d, mem)
  PROVE  Typed
<1>1. Source(d) \in WordsOf(64)
  <2>1. Bits(d.rs1) \in WordsOf(64)
    BY DEF Bits, WordsOf
  <2> QED
    BY <2>1, GetType DEF Source, TypeOK, Instructions
<1>2. Make(d) \in {"none", "CSRRW", "CSRRS", "CSRRC"}
  <2>1. d.op \in {"CSRRW", "CSRRS", "CSRRC", "CSRRWI", "CSRRSI", "CSRRCI"}
    BY DEF RunSYSTEM, Functions, Function
  <2> QED
    BY <2>1 DEF Make
<1>3. PICK ans \in {ReadWriteCSRImpl(d.imm, Source(d), Make(d))} :
        /\ Set(d.rd, UNION ans.read) /\ csr' = Counted(ans.csr)
        /\ aborted' = Aborts(ans) /\ End(ans.result)
  BY DEF RunSYSTEM
<1>4. ans.csr \in CsrRecords /\ UNION ans.read \in WordsOf(64) /\ ans.result \in Results
  BY <1>1, <1>2, <1>3, AnswerType DEF TypeOK
<1>5. gpr' \in Files /\ csr' \in CsrRecords
  BY <1>3, <1>4, SetType, CountedType DEF TypeOK
<1>6. aborted' \in BOOLEAN
  BY <1>3 DEF Aborts
<1> QED
  BY <1>3, <1>4, <1>5, <1>6 DEF RunSYSTEM, End, Typed, TypeOK

\* A load writes what its width and sign make of memory.
LEMMA LoadTyped ==
  ASSUME TypeOK, Sound, NEW mem \in Memories, NEW d \in Instructions, d.op \in Functions(d.code),
         RunLOAD(d, mem)
  PROVE  Typed
<1>1. PICK at \in {Access(mem, Address(d), "Load")} :
        LoadAt(d, at, AccessResult(at, WidthOf[d.op], "Load"))
  BY DEF RunLOAD
<1> DEFINE res == AccessResult(at, WidthOf[d.op], "Load")
<1>2. res \in Results
  <2>1. Address(d) \in Addresses /\ "Load" \in Reasons
    BY JumpType DEF Addresses, Reasons
  <2> QED
    BY <1>1, <2>1, AccessType DEF Sound
<1>3. WidthOf[d.op] \in Widths
  <2>1. d.op \in {"LB", "LH", "LW", "LD", "LBU", "LHU", "LWU"}
    BY DEF RunLOAD, Functions, Function
  <2>2. /\ WidthOf["LB"] = 1 /\ WidthOf["LH"] = 2 /\ WidthOf["LW"] = 4 /\ WidthOf["LD"] = 8
        /\ WidthOf["LBU"] = 1 /\ WidthOf["LHU"] = 2 /\ WidthOf["LWU"] = 4
    BY DEF WidthOf
  <2> QED
    BY <2>1, <2>2 DEF Widths
<1>4. Loaded(d.op, at) \in WordsOf(64)
  <2> DEFINE width == WidthOf[d.op]
             word == Load(at.memory, width, at.addr)
  <2>1. word \in WordsOf(8 * width)
    BY <1>3, LoadBytes
  <2>2. 8 * width \in Nat /\ 8 * width <= 64
    BY <1>3 DEF Widths
  <2>3. Loaded(d.op, at) \in {word, SignExtend(word, 8 * width, 64)}
    BY DEF Loaded
  <2> HIDE DEF word, width
  <2>4. SignExtend(word, 8 * width, 64) \in WordsOf(64) /\ word \in WordsOf(64)
    BY <2>1, <2>2, ExtendType DEF WordsOf
  <2> QED
    BY <2>3, <2>4
<1> HIDE DEF res
<1>5. (IF res = <<"success">> THEN Set(d.rd, Loaded(d.op, at)) ELSE gpr' = Cleared)
      /\ Plain(at.memory, res)
  BY <1>1 DEF LoadAt, res
<1>6. gpr' \in Files
  BY <1>4, <1>5, SetType DEF TypeOK
<1>7. pc' \in Addresses
  BY DEF RunLOAD, TypeOK
<1> QED
  BY <1>2, <1>5, <1>6, <1>7, PlainTyped

\* A store writes bytes that are memory's.
LEMMA StoreTyped ==
  ASSUME TypeOK, Sound, NEW mem \in Memories, NEW d \in Instructions, RunSTORE(d, mem)
  PROVE  Typed
<1>1. PICK at \in {Access(mem, Address(d), "Store")} :
        \E r \in {AccessResult(at, WidthOf[d.op], "Store")} :
          Plain(Written(at, WidthOf[d.op], r, Get(d.rs2)), r)
  BY DEF RunSTORE
<1> DEFINE res == AccessResult(at, WidthOf[d.op], "Store")
<1>2. res \in Results
  <2>1. Address(d) \in Addresses /\ "Store" \in Reasons
    BY JumpType DEF Addresses, Reasons
  <2> QED
    BY <1>1, <2>1, AccessType DEF Sound
<1>3. gpr' \in Files /\ pc' \in Addresses
  BY SetType DEF RunSTORE, TypeOK
<1>4. Plain(Written(at, WidthOf[d.op], res, Get(d.rs2)), res)
  BY <1>1
<1> HIDE DEF res
<1> QED
  BY <1>2, <1>3, <1>4, PlainTyped

\* Arithmetic writes a word of the register's length.
LEMMA ArithmeticTyped ==
  ASSUME TypeOK, NEW mem, NEW d \in Instructions, d.op \in Functions(d.code),
         RunArithmetic(d, mem) \/ RunDivideWrap(d, mem)
  PROVE  Typed
<1> DEFINE n == LengthOf(d)
<1>1. PICK val : Set(d.rd, Widened(d, val)) /\ val \in WordsOf(n)
  <2>1. CASE RunArithmetic(d, mem)
    <3>1. Compute(Operation(d), Operand1(d), Operand2(d), n) \in WordsOf(n)
      <4>1. Operation(d) \in Computed
        BY <2>1, OperationIs DEF RunArithmetic
      <4>2. n \in {32, 64} /\ Operand1(d) \in WordsOf(n) /\ Operand2(d) \in WordsOf(n)
        BY OperandTypes DEF TypeOK
      <4> HIDE DEF n
      <4> QED
        BY <4>1, <4>2, ComputeType
    <3> QED
      BY <2>1, <3>1 DEF RunArithmetic
  <2>2. CASE RunDivideWrap(d, mem)
    <3>1. {} \in WordsOf(n) /\ Operand1(d) \in WordsOf(n)
      BY OperandTypes DEF TypeOK, WordsOf
    <3> QED
      BY <2>2, <3>1 DEF RunDivideWrap
  <2> QED
    BY <2>1, <2>2
<1>2. Widened(d, val) \in WordsOf(64)
  BY <1>1, OperandTypes DEF TypeOK
<1>3. gpr' \in Files
  BY <1>1, <1>2, SetType DEF TypeOK
<1>4. Plain(mem, <<"success">>) /\ pc' \in Addresses
  BY DEF RunArithmetic, RunDivideWrap, TypeOK
<1> QED
  BY <1>3, <1>4, PlainTyped DEF Results

\* Whatever the decoder gives, running it keeps the types.
LEMMA RunTyped ==
  ASSUME TypeOK, Sound, NEW mem \in Memories, NEW inst, NEW d \in ParseInstruction(inst), Run(d, mem)
  PROVE  Typed
<1> <<"success">> \in Results /\ <<"none">> \in Results
  BY DEF Results
<1>1. d \in Instructions /\ d.op \in Functions(d.code)
  BY ParsedType
<1>2. CASE RunMISC_MEM(d, mem)
  BY <1>2, SetType, PlainTyped DEF RunMISC_MEM, TypeOK
<1>3. CASE RunUpper(d, mem)
  <2>1. d.imm \in WordsOf(64) /\ Add(pc, d.imm, 64) \in WordsOf(64)
    BY <1>1, JumpType DEF Instructions
  <2>2. gpr' \in Files
    BY <1>3, <2>1, SetType DEF RunUpper, TypeOK
  <2> QED
    BY <1>3, <2>2, PlainTyped DEF RunUpper, TypeOK
<1>4. CASE RunLOAD(d, mem)
  BY <1>1, <1>4, LoadTyped
<1>5. CASE RunSTORE(d, mem)
  BY <1>1, <1>5, StoreTyped
<1>6. CASE RunBRANCH(d, mem)
  <2>1. pc' \in Addresses
    BY <1>1, <1>6, JumpType DEF RunBRANCH, TypeOK, Addresses
  <2> QED
    BY <1>6, <2>1, SetType, PlainTyped DEF RunBRANCH, TypeOK
<1>7. CASE RunJump(d, mem)
  <2>1. pc' \in Addresses /\ gpr' \in Files
    BY <1>1, <1>7, JumpType, SetType DEF RunJump, TypeOK, Addresses
  <2> QED
    BY <1>7, <2>1, PlainTyped DEF RunJump
<1>8. CASE RunSYSTEM(d, mem)
  BY <1>1, <1>8, SystemTyped
<1>9. CASE RunArithmetic(d, mem) \/ RunDivideWrap(d, mem)
  BY <1>1, <1>9, ArithmeticTyped
<1>10. CASE RunDivideError(d, mem)
  BY <1>10 DEF RunDivideError, End, Typed, TypeOK
<1>11. CASE RunUpperMultiplication(d, mem)
  <2>1. PICK val \in WordsOf(64) : Set(d.rd, val)
    BY <1>11, UpperType DEF RunUpperMultiplication, UpperMultiplications
  <2>2. gpr' \in Files
    BY <2>1, SetType DEF TypeOK
  <2> QED
    BY <1>11, <2>2, PlainTyped DEF RunUpperMultiplication, TypeOK
<1> QED
  BY <1>2, <1>3, <1>4, <1>5, <1>6, <1>7, <1>8, <1>9, <1>10, <1>11 DEF Run

\* An instruction executed keeps every type, whether it is decoded or not.
LEMMA ExecuteTyped ==
  ASSUME TypeOK, Sound, NEW mem \in Memories, NEW inst, ExecuteInstructionImpl(inst, mem)
  PROVE  Typed /\ ran' \subseteq Instructions
<1>1. ran' \subseteq Instructions
  BY ParsedType DEF ExecuteInstructionImpl
<1>2. CASE Invalid(mem)
  <2>1. <<"InvalidInstruction">> \in Results
    BY DEF Results
  <2> QED
    BY <1>1, <1>2, <2>1, SetType, PlainTyped DEF Invalid, TypeOK
<1>3. ASSUME NEW d \in ParseInstruction(inst), Run(d, mem) PROVE Typed
  BY <1>3, RunTyped
<1> QED
  BY <1>1, <1>2, <1>3 DEF ExecuteInstructionImpl

\* Every call keeps the types.
LEMMA NextTyped == TypeOK /\ Sound /\ Next => Typed /\ ran' \subseteq Instructions /\ calls' \in 0 .. Budget
<1> SUFFICES ASSUME TypeOK, Sound, Next
             PROVE  Typed /\ ran' \subseteq Instructions /\ calls' \in 0 .. Budget
  OBVIOUS
<1> DEFINE Goal == Typed /\ ran' \subseteq Instructions /\ calls' \in 0 .. Budget
<1> memory \in Memories
  BY DEF Sound
<1>1. Called => calls' \in 0 .. Budget
  BY CallsAssumption DEF Called, TypeOK
<1>2. Calling => ran' \subseteq Instructions /\ calls' \in 0 .. Budget
  BY <1>1 DEF Calling
<1>3. ASSUME NEW inst, ExecuteInst(inst) PROVE Goal
  BY <1>1, <1>3, ExecuteTyped DEF ExecuteInst
<1>4. Fetched.memory \in Memories /\ Fetched.addr \in Addresses /\ FetchResult(Fetched) \in Results
  <2>1. pc \in Addresses /\ "Fetch" \in Reasons
    BY DEF TypeOK, Reasons
  <2> QED
    BY <2>1, AccessAdds, AccessType DEF Fetched, FetchResult, Sound
<1>5. CASE ExecuteInstAtPc
  <2>1. PICK at \in {Fetched} : ExecuteInstructionImpl(FetchedInst(at), at.memory)
    BY <1>5 DEF ExecuteInstAtPc
  <2> QED
    BY <1>1, <1>4, <1>5, <2>1, ExecuteTyped DEF ExecuteInstAtPc
<1>6. CASE FetchInstAtPc
  <2>1. FetchedInst(Fetched) \in WordsOf(64)
    <3>1. Load(Fetched.memory, 4, Fetched.addr) \in WordsOf(8 * 4)
      BY LoadBytes DEF Widths
    <3> QED
      BY <3>1 DEF FetchedInst, WordsOf
  <2> QED
    BY <1>2, <1>4, <1>6, <2>1 DEF FetchInstAtPc, Typed, TypeOK
<1>7. CASE FailInstAtPc
  BY <1>2, <1>4, <1>7 DEF FailInstAtPc, Typed, TypeOK
<1> <<"none">> \in Results /\ <<"success">> \in Results
  BY DEF Results
<1>8. ASSUME NEW place \in Places, WritePC(place) PROVE Goal
  <2>1. place \in Addresses
    BY CallsAssumption DEF Addresses
  <2> QED
    BY <1>2, <1>8, <2>1 DEF WritePC, Typed, TypeOK
<1>9. ASSUME NEW index, NEW val \in Values, WriteGPR(index, val) PROVE Goal
  <2>1. val \in WordsOf(64)
    BY CallsAssumption
  <2>2. gpr' \in Files
    BY <1>9, <2>1 DEF WriteGPR, TypeOK, Files
  <2> QED
    BY <1>2, <1>9, <2>2 DEF WriteGPR, Typed, TypeOK
<1>10. ASSUME NEW id, NEW source \in WordsOf(64), NEW make \in {"none", "CSRRW"},
              CallCsr(ReadWriteCSRImpl(id, source, make)),
              out' = out \/ Give(ReadWriteCSRImpl(id, source, make))
       PROVE  Goal
  <2> DEFINE ans == ReadWriteCSRImpl(id, source, make)
  <2>1. ans.csr \in CsrRecords /\ UNION ans.read \in WordsOf(64) /\ ans.result \in Results
    BY AnswerType DEF TypeOK
  <2>2. CallCsr(ans) /\ (out' = out \/ Give(ans))
    BY <1>10
  <2> HIDE DEF ans
  <2>3. out' \in WordsOf(64)
    BY <2>1, <2>2 DEF Give, TypeOK
  <2>4. aborted' \in BOOLEAN
    BY <2>2 DEF CallCsr, Aborts
  <2> QED
    BY <1>2, <2>1, <2>2, <2>3, <2>4 DEF CallCsr, Typed, TypeOK
<1>11. ASSUME NEW id, NEW val \in Values, WriteCSR(id, val) \/ ReadWriteCSR(id, val) PROVE Goal
  <2>1. val \in WordsOf(64)
    BY CallsAssumption
  <2> QED
    BY <1>10, <1>11, <2>1 DEF WriteCSR, ReadWriteCSR
<1>12. ASSUME NEW id, ReadCSR(id) PROVE Goal
  <2>1. {} \in WordsOf(64)
    BY DEF WordsOf
  <2> QED
    BY <1>10, <1>12, <2>1 DEF ReadCSR
<1>13. ASSUME NEW width, NEW vaddr \in Places
       PROVE  AccessResult(MappedAccess(memory, vaddr), width, "Any") \in Results
  <2>1. vaddr \in Addresses /\ "Any" \in Reasons
    BY CallsAssumption DEF Addresses, Reasons
  <2> QED
    BY <2>1, AccessType DEF MappedAccess, Sound
<1>14. ASSUME NEW width \in Widths, NEW vaddr \in Places, MappedRead(width, vaddr) PROVE Goal
  <2>1. \A at : Load(at.memory, width, at.addr) \in WordsOf(64)
    <3>1. \A at : Load(at.memory, width, at.addr) \in WordsOf(8 * width)
      BY LoadBytes
    <3>2. WordsOf(8 * width) \subseteq WordsOf(64)
      BY DEF Widths, WordsOf
    <3> QED
      BY <3>1, <3>2
  <2>2. out' \in WordsOf(64)
    BY <1>14, <2>1 DEF MappedRead, TypeOK
  <2>3. result' \in Results
    BY <1>13, <1>14 DEF MappedRead
  <2> QED
    BY <1>2, <1>14, <2>2, <2>3 DEF MappedRead, Typed, TypeOK
<1>15. ASSUME NEW width, NEW vaddr \in Places, NEW val, MappedWrite(width, vaddr, val) PROVE Goal
  <2>1. result' \in Results
    BY <1>13, <1>15 DEF MappedWrite
  <2> QED
    BY <1>2, <1>15, <2>1 DEF MappedWrite, Typed, TypeOK
<1>16. CASE Reset
  <2>1. {} \in WordsOf(64) /\ Machine \in Levels
    BY DEF WordsOf, Levels
  <2>2. csr' \in CsrRecords
    BY <1>16, <2>1 DEF Reset, TypeOK, CsrRecords
  <2> QED
    BY <1>2, <1>16, <2>1, <2>2 DEF Reset, Typed, TypeOK
<1> QED
  BY <1>3, <1>5, <1>6, <1>7, <1>8, <1>9, <1>11, <1>12, <1>14, <1>15, <1>16 DEF Next

\* Type correctness: every register, CSR and doubleword keeps its width whatever is
\* executed, each result is one that its call can give, and what has run is decoded.
THEOREM TypeCorrect == Spec => []TypeOK
<1>1. Init => TypeOK
  <2> SUFFICES ASSUME Init PROVE TypeOK
    OBVIOUS
  <2>1. {} \in WordsOf(64)
    BY DEF WordsOf
  <2>2. csr \in CsrRecords
    BY <2>1, StateAssumption DEF Init, CsrRecords, Addresses
  <2>3. pc \in Addresses
    BY CallsAssumption DEF Init, Addresses
  <2>4. gpr \in Files /\ priv \in Levels /\ flags \in [sum : BOOLEAN, mxr : BOOLEAN]
        /\ memory \in Memories
    BY StateAssumption DEF Init
  <2>5. aborted \in BOOLEAN /\ out \in WordsOf(64)
    BY <2>1 DEF Init
  <2>6. result \in Results
    BY DEF Init, Results
  <2>7. ran \subseteq Instructions
    BY DEF Init
  <2>8. calls \in 0 .. Budget
    BY CallsAssumption DEF Init
  <2> QED
    BY <2>2, <2>3, <2>4, <2>5, <2>6, <2>7, <2>8 DEF TypeOK
<1>2. TypeOK /\ Sound /\ Sound' /\ [Next]_vars => TypeOK'
  <2>1. ASSUME TypeOK, Sound, Sound', Next PROVE TypeOK'
    BY <2>1, NextTyped DEF Typed, TypeOK, Sound
  <2>2. ASSUME TypeOK, UNCHANGED vars PROVE TypeOK'
    BY <2>2 DEF vars, TypeOK
  <2> QED
    BY <2>1, <2>2
<1> QED
  BY <1>1, <1>2, AlwaysSound, PTL DEF Spec

-----------------------------------------------------------------------------
(* Codings: the encoder gives back what was decoded *)

\* A field and its place in the instruction.
LEMMA PartIs ==
  ASSUME NEW inst \in WordsOf(32), NEW offset \in 0 .. 31, NEW fit \in 0 .. 7, NEW size \in 0 .. 7,
         fit <= size, offset + fit <= 32
  PROVE  Part(Field(inst, offset, fit), size, offset) = inst \cap offset .. offset + fit - 1
<1> DEFINE w == ExtractBitfield(inst, offset, fit)
<1>1. inst \in SUBSET Int /\ inst \subseteq 0 .. 31
  BY DEF WordsOf
<1>2. \A b : b \in w <=> b \in 0 .. fit - 1 /\ b + offset \in inst
  BY <1>1, ShrIs DEF ExtractBitfield
<1> HIDE DEF w
<1>3. w \subseteq 0 .. fit - 1 /\ w \subseteq 0 .. size - 1 /\ w \subseteq 0 .. 6 /\ w \in SUBSET Int
  BY <1>2
<1>4. Bits(Value(w)) \cap 0 .. 6 = w
  BY <1>3, BitsOfValue DEF WordsOf
<1>5. Bits(Value(w)) \cap 0 .. size - 1 = w
  <2>1. 0 .. size - 1 \subseteq 0 .. 6
    OBVIOUS
  <2> QED
    BY <1>3, <1>4, <2>1
<1>6. Part(Field(inst, offset, fit), size, offset) = Shl(w, offset, 32)
  BY <1>5 DEF Part, Field, w
<1>7. \A x : x \in Shl(w, offset, 32) <=> x \in 0 .. 31 /\ x - offset \in w
  BY <1>3, ShlIs
<1>8. ASSUME NEW x PROVE x \in Shl(w, offset, 32) <=> x \in inst \cap offset .. offset + fit - 1
  <2>1. CASE x \in 0 .. 31
    <3>1. x - offset + offset = x
      BY <2>1
    <3> QED
      BY <1>2, <1>7, <2>1, <3>1
  <2>2. CASE x \notin 0 .. 31
    BY <1>1, <1>7, <2>2
  <2> QED
    BY <2>1, <2>2
<1> QED
  BY <1>6, <1>8

\* The opcode, the registers and the functions of an instruction are in their places.
LEMMA PartsOf ==
  ASSUME NEW inst \in WordsOf(32)
  PROVE  /\ Part(OpcodeOf(inst), 7, 0) = inst \cap 0 .. 6
         /\ Part(Rd(inst), 6, 7) = inst \cap 7 .. 11
         /\ Part(Funct3(inst), 3, 12) = inst \cap 12 .. 14
         /\ Part(Rs1(inst), 6, 15) = inst \cap 15 .. 19
         /\ Part(Rs2(inst), 6, 20) = inst \cap 20 .. 24
         /\ Part(Funct37(inst) % 8, 3, 12) = inst \cap 12 .. 14
         /\ Part(Funct37(inst) \div 8, 7, 25) = inst \cap 25 .. 31
<1>1. Part(OpcodeOf(inst), 7, 0) = inst \cap 0 .. 6
  <2> DEFINE w == inst \cap 0 .. 6
  <2>1. w \in WordsOf(7)
    BY DEF WordsOf
  <2>2. Bits(Value(w)) \cap 0 .. 6 = w
    BY <2>1, BitsOfValue
  <2>3. Part(OpcodeOf(inst), 7, 0) = Shl(w, 0, 32)
    BY <2>2 DEF Part, OpcodeOf
  <2>4. w \in SUBSET Int
    OBVIOUS
  <2>5. \A x : x \in Shl(w, 0, 32) <=> x \in 0 .. 31 /\ x - 0 \in w
    <3> HIDE DEF w
    <3> QED
      BY <2>4, ShlIs
  <2> QED
    BY <2>3, <2>5
<1>2. Part(Rd(inst), 6, 7) = inst \cap 7 .. 11 /\ Part(Rs1(inst), 6, 15) = inst \cap 15 .. 19
      /\ Part(Rs2(inst), 6, 20) = inst \cap 20 .. 24
  <2>1. 7 + 5 - 1 = 11 /\ 15 + 5 - 1 = 19 /\ 20 + 5 - 1 = 24
    OBVIOUS
  <2>2. ASSUME NEW offset \in 0 .. 20
        PROVE  Part(Field(inst, offset, 5), 6, offset) = inst \cap offset .. offset + 5 - 1
    BY PartIs
  <2> QED
    BY <2>1, <2>2 DEF Rd, Rs1, Rs2
<1>3. Part(Funct3(inst), 3, 12) = inst \cap 12 .. 14
  <2>1. Part(Field(inst, 12, 3), 3, 12) = inst \cap 12 .. 12 + 3 - 1
    BY PartIs
  <2> QED
    BY <2>1 DEF Funct3
<1>4. Part(Field(inst, 25, 7), 7, 25) = inst \cap 25 .. 31
  <2>1. Part(Field(inst, 25, 7), 7, 25) = inst \cap 25 .. 25 + 7 - 1
    BY PartIs
  <2> QED
    BY <2>1
<1>5. Funct37(inst) % 8 = Funct3(inst) /\ Funct37(inst) \div 8 = Field(inst, 25, 7)
  <2> DEFINE f3 == Funct3(inst)
             f7 == Field(inst, 25, 7)
  <2>1. f7 \in Nat
    <3>1. ExtractBitfield(inst, 25, 7) \in WordsOf(7)
      BY DEF ExtractBitfield, WordsOf
    <3> QED
      BY <3>1, BitsOfValue DEF Field
  <2>2. f3 \in 0 .. 7
    <3> DEFINE w == ExtractBitfield(inst, 12, 3)
    <3>1. w \in WordsOf(7) /\ w \subseteq 0 .. 2
      BY DEF ExtractBitfield, WordsOf
    <3>2. f3 = Value(w)
      BY DEF Funct3, Field
    <3> HIDE DEF w, f3
    <3>3. /\ One(w, 3) = 0 /\ One(w, 4) = 0 /\ One(w, 5) = 0 /\ One(w, 6) = 0
          /\ \A b : One(w, b) \in 0 .. 1
      BY <3>1 DEF One
    <3> QED
      BY <3>1, <3>2, <3>3, ValueIs
  <2>3. Funct37(inst) = f3 + 8 * f7
    BY DEF Funct37, CreateFunction37
  <2> HIDE DEF f3, f7
  <2>4. (f3 + 8 * f7) % 8 = f3 /\ (f3 + 8 * f7) \div 8 = f7
    BY <2>1, <2>2
  <2> QED
    BY <2>3, <2>4 DEF f3, f7
<1> QED
  BY <1>1, <1>2, <1>3, <1>4, <1>5

\* Where the bits of an immediate come from.
LEMMA ImmediateBits ==
  ASSUME NEW inst \in WordsOf(32), NEW x
  PROVE  /\ x \in ImmI(inst) <=> x \in 0 .. 11 /\ x + 20 \in inst
         /\ x \in ImmS(inst) <=> \/ x \in 0 .. 4 /\ x + 7 \in inst
                                 \/ x \in 5 .. 11 /\ x + 20 \in inst
         /\ x \in ImmB(inst) <=> \/ x \in 1 .. 4 /\ x + 7 \in inst
                                 \/ x \in 5 .. 10 /\ x + 20 \in inst
                                 \/ x = 11 /\ 7 \in inst
                                 \/ x = 12 /\ 31 \in inst
         /\ x \in ImmU(inst) <=> x \in 12 .. 31 /\ x \in inst
         /\ x \in ImmJ(inst) <=> \/ x \in 1 .. 10 /\ x + 20 \in inst
                                 \/ x = 11 /\ 20 \in inst
                                 \/ x \in 12 .. 19 /\ x \in inst
                                 \/ x = 20 /\ 31 \in inst
<1>1. inst \in SUBSET Int /\ inst \subseteq 0 .. 31
  BY DEF WordsOf
<1>2. ASSUME NEW w \in SUBSET inst, NEW s \in Int
      PROVE  x \in Shr(w, s) <=> x \in Nat /\ x + s \in w
  BY <1>1, ShrIs
<1>3. x \in ImmI(inst) <=> x \in 0 .. 11 /\ x + 20 \in inst
  BY <1>2 DEF ImmI, ExtractBitfield
<1>4. x \in ImmS(inst) <=> \/ x \in 0 .. 4 /\ x + 7 \in inst
                           \/ x \in 5 .. 11 /\ x + 20 \in inst
  <2>1. x \in Shr(inst, 7) \cap 0 .. 4 <=> x \in 0 .. 4 /\ x + 7 \in inst
    BY <1>2
  <2>2. x \in Shr(inst \cap 25 .. 31, 20) <=> x \in 5 .. 11 /\ x + 20 \in inst
    BY <1>2
  <2> QED
    BY <2>1, <2>2 DEF ImmS, ExtractBitfield
<1>5. x \in ImmB(inst) <=> \/ x \in 1 .. 4 /\ x + 7 \in inst
                           \/ x \in 5 .. 10 /\ x + 20 \in inst
                           \/ x = 11 /\ 7 \in inst
                           \/ x = 12 /\ 31 \in inst
  <2>1. x \in Shr(inst \cap 8 .. 11, 7) <=> x \in 1 .. 4 /\ x + 7 \in inst
    BY <1>2
  <2>2. x \in Shr(inst \cap 25 .. 30, 20) <=> x \in 5 .. 10 /\ x + 20 \in inst
    BY <1>2
  <2>3. x \in Shl(inst \cap {7}, 4, 64) <=> x = 11 /\ 7 \in inst
    <3>1. inst \cap {7} \in SUBSET Int
      OBVIOUS
    <3>2. x \in Shl(inst \cap {7}, 4, 64) <=> x \in 0 .. 63 /\ x - 4 \in inst \cap {7}
      BY <3>1, ShlIs
    <3> QED
      BY <3>2
  <2>4. x \in Shr(inst \cap {31}, 19) <=> x = 12 /\ 31 \in inst
    BY <1>2
  <2> QED
    BY <2>1, <2>2, <2>3, <2>4 DEF ImmB
<1>6. x \in ImmU(inst) <=> x \in 12 .. 31 /\ x \in inst
  BY DEF ImmU
<1>7. x \in ImmJ(inst) <=> \/ x \in 1 .. 10 /\ x + 20 \in inst
                           \/ x = 11 /\ 20 \in inst
                           \/ x \in 12 .. 19 /\ x \in inst
                           \/ x = 20 /\ 31 \in inst
  <2>1. x \in Shr(inst \cap 21 .. 30, 20) <=> x \in 1 .. 10 /\ x + 20 \in inst
    BY <1>2
  <2>2. x \in Shr(inst \cap {20}, 9) <=> x = 11 /\ 20 \in inst
    BY <1>2
  <2>3. x \in Shr(inst \cap {31}, 11) <=> x = 20 /\ 31 \in inst
    BY <1>2
  <2> QED
    BY <2>1, <2>2, <2>3 DEF ImmJ
<1> QED
  BY <1>3, <1>4, <1>5, <1>6, <1>7

\* An extension adds nothing below the length.
LEMMA ExtendKeeps ==
  \A n \in 0 .. 32 : \A w \in WordsOf(n) : \A x \in 0 .. n - 1 : x \in SignExtend(w, n, 64) <=> x \in w
BY DEF SignExtend

\* A part of an immediate at its place in the instruction.
LEMMA Placed ==
  ASSUME NEW imm \in WordsOf(64), NEW low \in Nat, NEW high \in Nat, NEW s \in Nat, NEW x
  PROVE  x \in Shl(imm \cap low .. high, s, 32) <=>
           x \in 0 .. 31 /\ x \in low + s .. high + s /\ x - s \in imm
<1>1. imm \cap low .. high \in SUBSET Int
  OBVIOUS
<1>2. x \in Shl(imm \cap low .. high, s, 32) <=> x \in 0 .. 31 /\ x - s \in imm \cap low .. high
  BY <1>1, ShlIs
<1>3. CASE x \in 0 .. 31
  BY <1>2, <1>3
<1> QED
  BY <1>2, <1>3

\* The encoder puts the bits of an immediate where the decoder takes them from, whatever
\* the extension has added.
LEMMA PlacedI ==
  ASSUME NEW inst \in WordsOf(32), NEW imm \in WordsOf(64), \A b \in 0 .. 11 : b \in imm <=> b \in ImmI(inst)
  PROVE  Shl(imm, 20, 32) = inst \cap 20 .. 31
<1>1. imm \in SUBSET Nat /\ inst \subseteq 0 .. 31
  BY DEF WordsOf
<1>2. \A x : x \in Shl(imm, 20, 32) <=> x \in 0 .. 31 /\ x - 20 \in imm
  BY <1>1, ShlIs
<1>3. ASSUME NEW x \in 0 .. 31 PROVE x - 20 \in imm <=> x \in inst \cap 20 .. 31
  <2>1. CASE x >= 20
    <3>1. x - 20 \in 0 .. 11 /\ x - 20 + 20 = x
      BY <2>1
    <3> QED
      BY <2>1, <3>1, ImmediateBits
  <2>2. CASE ~(x >= 20)
    BY <1>1, <2>2
  <2> QED
    BY <2>1, <2>2
<1> QED
  BY <1>1, <1>2, <1>3

\* The two parts of a store's.
LEMMA PlacedS ==
  ASSUME NEW inst \in WordsOf(32), NEW imm \in WordsOf(64), \A b \in 0 .. 11 : b \in imm <=> b \in ImmS(inst)
  PROVE  Shl(imm \cap 0 .. 4, 7, 32) \cup Shl(imm \cap 5 .. 11, 20, 32) =
         inst \cap (7 .. 11 \cup 25 .. 31)
<1>1. inst \subseteq 0 .. 31
  BY DEF WordsOf
<1>2. ASSUME NEW x
      PROVE  /\ x \in Shl(imm \cap 0 .. 4, 7, 32) <=> x \in 7 .. 11 /\ x \in inst
             /\ x \in Shl(imm \cap 5 .. 11, 20, 32) <=> x \in 25 .. 31 /\ x \in inst
  <2>1. /\ x \in Shl(imm \cap 0 .. 4, 7, 32) <=> x \in 7 .. 11 /\ x - 7 \in imm
        /\ x \in Shl(imm \cap 5 .. 11, 20, 32) <=> x \in 25 .. 31 /\ x - 20 \in imm
    <3>1. /\ x \in Shl(imm \cap 0 .. 4, 7, 32) <=>
               x \in 0 .. 31 /\ x \in 0 + 7 .. 4 + 7 /\ x - 7 \in imm
          /\ x \in Shl(imm \cap 5 .. 11, 20, 32) <=>
               x \in 0 .. 31 /\ x \in 5 + 20 .. 11 + 20 /\ x - 20 \in imm
      BY Placed
    <3> QED
      BY <3>1
  <2>2. x \in 7 .. 11 => (x - 7 \in imm <=> x \in inst)
    <3>1. ASSUME x \in 7 .. 11 PROVE x - 7 \in 0 .. 4 /\ x - 7 + 7 = x
      BY <3>1
    <3> QED
      BY <3>1, ImmediateBits
  <2>3. x \in 25 .. 31 => (x - 20 \in imm <=> x \in inst)
    <3>1. ASSUME x \in 25 .. 31 PROVE x - 20 \in 5 .. 11 /\ x - 20 + 20 = x
      BY <3>1
    <3> QED
      BY <3>1, ImmediateBits
  <2> QED
    BY <2>1, <2>2, <2>3
<1> QED
  BY <1>1, <1>2

\* The four of a branch's.
LEMMA PlacedB ==
  ASSUME NEW inst \in WordsOf(32), NEW imm \in WordsOf(64), \A b \in 0 .. 12 : b \in imm <=> b \in ImmB(inst)
  PROVE  Shr(imm \cap {11}, 4) \cup Shl(imm \cap 1 .. 4, 7, 32)
           \cup Shl(imm \cap {12}, 19, 32) \cup Shl(imm \cap 5 .. 10, 20, 32) =
         inst \cap (7 .. 11 \cup 25 .. 31)
<1>1. inst \subseteq 0 .. 31
  BY DEF WordsOf
<1>2. ASSUME NEW x
      PROVE  /\ x \in Shr(imm \cap {11}, 4) <=> x = 7 /\ x \in inst
             /\ x \in Shl(imm \cap 1 .. 4, 7, 32) <=> x \in 8 .. 11 /\ x \in inst
             /\ x \in Shl(imm \cap {12}, 19, 32) <=> x = 31 /\ x \in inst
             /\ x \in Shl(imm \cap 5 .. 10, 20, 32) <=> x \in 25 .. 30 /\ x \in inst
  <2>1. x \in Shr(imm \cap {11}, 4) <=> x = 7 /\ x \in inst
    <3>1. x \in Shr(imm \cap {11}, 4) <=> x \in Nat /\ x + 4 \in imm \cap {11}
      BY ShrIs
    <3>2. 11 \in imm <=> 7 \in inst
      BY ImmediateBits
    <3> QED
      BY <3>1, <3>2
  <2>2. x \in Shl(imm \cap 1 .. 4, 7, 32) <=> x \in 8 .. 11 /\ x \in inst
    <3>1. x \in Shl(imm \cap 1 .. 4, 7, 32) <=> x \in 8 .. 11 /\ x - 7 \in imm
      <4>1. x \in Shl(imm \cap 1 .. 4, 7, 32) <=>
              x \in 0 .. 31 /\ x \in 1 + 7 .. 4 + 7 /\ x - 7 \in imm
        BY Placed
      <4> QED
        BY <4>1
    <3>2. ASSUME x \in 8 .. 11 PROVE x - 7 \in 1 .. 4 /\ x - 7 + 7 = x
      BY <3>2
    <3> QED
      BY <3>1, <3>2, ImmediateBits
  <2>3. x \in Shl(imm \cap {12}, 19, 32) <=> x = 31 /\ x \in inst
    <3>1. imm \cap {12} = imm \cap 12 .. 12
      OBVIOUS
    <3>2. x \in Shl(imm \cap 12 .. 12, 19, 32) <=> x = 31 /\ x - 19 \in imm
      <4>1. x \in Shl(imm \cap 12 .. 12, 19, 32) <=>
              x \in 0 .. 31 /\ x \in 12 + 19 .. 12 + 19 /\ x - 19 \in imm
        BY Placed
      <4> QED
        BY <4>1
    <3>3. 12 \in imm <=> 31 \in inst
      BY ImmediateBits
    <3> QED
      BY <3>1, <3>2, <3>3
  <2>4. x \in Shl(imm \cap 5 .. 10, 20, 32) <=> x \in 25 .. 30 /\ x \in inst
    <3>1. x \in Shl(imm \cap 5 .. 10, 20, 32) <=> x \in 25 .. 30 /\ x - 20 \in imm
      <4>1. x \in Shl(imm \cap 5 .. 10, 20, 32) <=>
              x \in 0 .. 31 /\ x \in 5 + 20 .. 10 + 20 /\ x - 20 \in imm
        BY Placed
      <4> QED
        BY <4>1
    <3>2. ASSUME x \in 25 .. 30 PROVE x - 20 \in 5 .. 10 /\ x - 20 + 20 = x
      BY <3>2
    <3> QED
      BY <3>1, <3>2, ImmediateBits
  <2> QED
    BY <2>1, <2>2, <2>3, <2>4
<1> QED
  BY <1>1, <1>2

\* And those of a jump's.
LEMMA PlacedJ ==
  ASSUME NEW inst \in WordsOf(32), NEW imm \in WordsOf(64), \A b \in 0 .. 20 : b \in imm <=> b \in ImmJ(inst)
  PROVE  (imm \cap 12 .. 19) \cup Shl(imm \cap {11}, 9, 32)
           \cup Shl(imm \cap 1 .. 10, 20, 32) \cup Shl(imm \cap {20}, 11, 32) = inst \cap 12 .. 31
<1>1. inst \subseteq 0 .. 31
  BY DEF WordsOf
<1>2. ASSUME NEW x
      PROVE  /\ x \in imm \cap 12 .. 19 <=> x \in 12 .. 19 /\ x \in inst
             /\ x \in Shl(imm \cap {11}, 9, 32) <=> x = 20 /\ x \in inst
             /\ x \in Shl(imm \cap 1 .. 10, 20, 32) <=> x \in 21 .. 30 /\ x \in inst
             /\ x \in Shl(imm \cap {20}, 11, 32) <=> x = 31 /\ x \in inst
  <2>1. x \in imm \cap 12 .. 19 <=> x \in 12 .. 19 /\ x \in inst
    BY ImmediateBits
  <2>2. x \in Shl(imm \cap {11}, 9, 32) <=> x = 20 /\ x \in inst
    <3>1. imm \cap {11} = imm \cap 11 .. 11
      OBVIOUS
    <3>2. x \in Shl(imm \cap 11 .. 11, 9, 32) <=> x = 20 /\ x - 9 \in imm
      <4>1. x \in Shl(imm \cap 11 .. 11, 9, 32) <=>
              x \in 0 .. 31 /\ x \in 11 + 9 .. 11 + 9 /\ x - 9 \in imm
        BY Placed
      <4> QED
        BY <4>1
    <3>3. 11 \in imm <=> 20 \in inst
      BY ImmediateBits
    <3> QED
      BY <3>1, <3>2, <3>3
  <2>3. x \in Shl(imm \cap 1 .. 10, 20, 32) <=> x \in 21 .. 30 /\ x \in inst
    <3>1. x \in Shl(imm \cap 1 .. 10, 20, 32) <=> x \in 21 .. 30 /\ x - 20 \in imm
      <4>1. x \in Shl(imm \cap 1 .. 10, 20, 32) <=>
              x \in 0 .. 31 /\ x \in 1 + 20 .. 10 + 20 /\ x - 20 \in imm
        BY Placed
      <4> QED
        BY <4>1
    <3>2. ASSUME x \in 21 .. 30 PROVE x - 20 \in 1 .. 10 /\ x - 20 + 20 = x
      BY <3>2
    <3> QED
      BY <3>1, <3>2, ImmediateBits
  <2>4. x \in Shl(imm \cap {20}, 11, 32) <=> x = 31 /\ x \in inst
    <3>1. imm \cap {20} = imm \cap 20 .. 20
      OBVIOUS
    <3>2. x \in Shl(imm \cap 20 .. 20, 11, 32) <=> x = 31 /\ x - 11 \in imm
      <4>1. x \in Shl(imm \cap 20 .. 20, 11, 32) <=>
              x \in 0 .. 31 /\ x \in 20 + 11 .. 20 + 11 /\ x - 11 \in imm
        BY Placed
      <4> QED
        BY <4>1
    <3>3. 20 \in imm <=> 31 \in inst
      BY ImmediateBits
    <3> QED
      BY <3>1, <3>2, <3>3
  <2> QED
    BY <2>1, <2>2, <2>3, <2>4
<1> QED
  BY <1>1, <1>2

\* An instruction is its parts.
LEMMA Whole ==
  ASSUME NEW inst \in WordsOf(32)
  PROVE  /\ (inst \cap 0 .. 6) \cup (inst \cap 7 .. 11) \cup (inst \cap 12 .. 14)
              \cup (inst \cap 15 .. 19) \cup (inst \cap 20 .. 24) \cup (inst \cap 25 .. 31) = inst
         /\ (inst \cap 0 .. 6) \cup (inst \cap 7 .. 11) \cup (inst \cap 12 .. 14)
              \cup (inst \cap 15 .. 19) \cup (inst \cap 20 .. 31) = inst
         /\ (inst \cap 0 .. 6) \cup (inst \cap 12 .. 14) \cup (inst \cap 15 .. 19)
              \cup (inst \cap 20 .. 24) \cup (inst \cap (7 .. 11 \cup 25 .. 31)) = inst
         /\ (inst \cap 0 .. 6) \cup (inst \cap 7 .. 11) \cup (inst \cap 12 .. 31) = inst
<1>1. \A x \in inst : x \in 0 .. 31
  BY DEF WordsOf
<1>2. \A x \in 0 .. 31 : /\ x \in 0 .. 6 \/ x \in 7 .. 11 \/ x \in 12 .. 14 \/ x \in 15 .. 19
                            \/ x \in 20 .. 24 \/ x \in 25 .. 31
                         /\ x \in 20 .. 31 <=> x \in 20 .. 24 \/ x \in 25 .. 31
                         /\ x \in 12 .. 31 <=> x \in 12 .. 14 \/ x \in 15 .. 19 \/ x \in 20 .. 24
                                                 \/ x \in 25 .. 31
  OBVIOUS
<1> QED
  BY <1>1, <1>2

\* What is decoded with each format is encoded again: three registers.
LEMMA EncodesR ==
  ASSUME NEW inst \in WordsOf(32), NEW code, Opcode[code] = OpcodeOf(inst)
  PROVE  EncodeRTypeInstruction(code, Funct37(inst), Rd(inst), Rs1(inst), Rs2(inst)) = inst
<1>1. EncodeRTypeInstruction(code, Funct37(inst), Rd(inst), Rs1(inst), Rs2(inst)) =
        (inst \cap 0 .. 6) \cup (inst \cap 7 .. 11) \cup (inst \cap 12 .. 14)
           \cup (inst \cap 15 .. 19) \cup (inst \cap 20 .. 24) \cup (inst \cap 25 .. 31)
  BY PartsOf DEF EncodeRTypeInstruction
<1> QED
  BY <1>1, Whole

\* With a register and an immediate.
LEMMA EncodesI ==
  ASSUME NEW inst \in WordsOf(32), NEW code, Opcode[code] = OpcodeOf(inst), NEW imm \in WordsOf(64),
         \A b \in 0 .. 11 : b \in imm <=> b \in ImmI(inst)
  PROVE  EncodeITypeInstruction(code, Funct3(inst), Rd(inst), Rs1(inst), imm) = inst
<1>1. EncodeITypeInstruction(code, Funct3(inst), Rd(inst), Rs1(inst), imm) =
        (inst \cap 0 .. 6) \cup (inst \cap 7 .. 11) \cup (inst \cap 12 .. 14)
           \cup (inst \cap 15 .. 19) \cup (inst \cap 20 .. 31)
  BY PartsOf, PlacedI DEF EncodeITypeInstruction
<1> QED
  BY <1>1, Whole

\* A store.
LEMMA EncodesS ==
  ASSUME NEW inst \in WordsOf(32), NEW code, Opcode[code] = OpcodeOf(inst), NEW imm \in WordsOf(64),
         \A b \in 0 .. 11 : b \in imm <=> b \in ImmS(inst)
  PROVE  EncodeSTypeInstruction(code, Funct3(inst), Rs1(inst), Rs2(inst), imm) = inst
<1>1. Shl(imm \cap 0 .. 4, 7, 32) \cup Shl(imm \cap 5 .. 11, 20, 32) = inst \cap (7 .. 11 \cup 25 .. 31)
  BY PlacedS
<1>2. EncodeSTypeInstruction(code, Funct3(inst), Rs1(inst), Rs2(inst), imm) =
        ((inst \cap 0 .. 6) \cup (inst \cap 12 .. 14) \cup (inst \cap 15 .. 19) \cup (inst \cap 20 .. 24))
          \cup (Shl(imm \cap 0 .. 4, 7, 32) \cup Shl(imm \cap 5 .. 11, 20, 32))
  BY PartsOf DEF EncodeSTypeInstruction, EncodeSBTypeCommon
<1> QED
  BY <1>1, <1>2, Whole

\* A branch.
LEMMA EncodesB ==
  ASSUME NEW inst \in WordsOf(32), NEW code, Opcode[code] = OpcodeOf(inst), NEW imm \in WordsOf(64),
         \A b \in 0 .. 12 : b \in imm <=> b \in ImmB(inst)
  PROVE  EncodeBTypeInstruction(code, Funct3(inst), Rs1(inst), Rs2(inst), imm) = inst
<1> DEFINE rest == Shr(imm \cap {11}, 4) \cup Shl(imm \cap 1 .. 4, 7, 32)
                     \cup Shl(imm \cap {12}, 19, 32) \cup Shl(imm \cap 5 .. 10, 20, 32)
<1>1. rest = inst \cap (7 .. 11 \cup 25 .. 31)
  BY PlacedB
<1>2. EncodeBTypeInstruction(code, Funct3(inst), Rs1(inst), Rs2(inst), imm) =
        EncodeSBTypeCommon(code, Funct3(inst), Rs1(inst), Rs2(inst)) \cup rest
  BY DEF EncodeBTypeInstruction
<1>3. EncodeSBTypeCommon(code, Funct3(inst), Rs1(inst), Rs2(inst)) =
        (inst \cap 0 .. 6) \cup (inst \cap 12 .. 14) \cup (inst \cap 15 .. 19) \cup (inst \cap 20 .. 24)
  BY PartsOf DEF EncodeSBTypeCommon
<1> QED
  BY <1>1, <1>2, <1>3, Whole

\* An upper immediate.
LEMMA EncodesU ==
  ASSUME NEW inst \in WordsOf(32), NEW code, Opcode[code] = OpcodeOf(inst), NEW imm \in WordsOf(64),
         \A b \in 0 .. 31 : b \in imm <=> b \in ImmU(inst)
  PROVE  EncodeUTypeInstruction(code, Rd(inst), imm) = inst
<1>1. imm \cap 12 .. 31 = inst \cap 12 .. 31
  BY ImmediateBits
<1>2. EncodeUTypeInstruction(code, Rd(inst), imm) =
        (inst \cap 0 .. 6) \cup (inst \cap 7 .. 11) \cup (imm \cap 12 .. 31)
  BY PartsOf DEF EncodeUTypeInstruction, EncodeUJTypeCommon
<1> QED
  BY <1>1, <1>2, Whole

\* A jump.
LEMMA EncodesJ ==
  ASSUME NEW inst \in WordsOf(32), NEW code, Opcode[code] = OpcodeOf(inst), NEW imm \in WordsOf(64),
         \A b \in 0 .. 20 : b \in imm <=> b \in ImmJ(inst)
  PROVE  EncodeJTypeInstruction(code, Rd(inst), imm) = inst
<1> DEFINE rest == (imm \cap 12 .. 19) \cup Shl(imm \cap {11}, 9, 32)
                     \cup Shl(imm \cap 1 .. 10, 20, 32) \cup Shl(imm \cap {20}, 11, 32)
<1>1. rest = inst \cap 12 .. 31
  BY PlacedJ
<1>2. EncodeJTypeInstruction(code, Rd(inst), imm) = EncodeUJTypeCommon(code, Rd(inst)) \cup rest
  BY DEF EncodeJTypeInstruction
<1>3. EncodeUJTypeCommon(code, Rd(inst)) = (inst \cap 0 .. 6) \cup (inst \cap 7 .. 11)
  BY PartsOf DEF EncodeUJTypeCommon
<1> QED
  BY <1>1, <1>2, <1>3, Whole

\* A right shift encodes to what it was decoded from: bit 10 is put in again for an
\* arithmetic one.
LEMMA EncodesShift ==
  ASSUME NEW inst \in WordsOf(32), NEW code \in {"OP_IMM", "OP_IMM_32"},
         Opcode[code] = OpcodeOf(inst), Funct3(inst) = 5,
         NEW logical \in {"SRLI", "SRLIW"}, NEW arithmetic \in {"SRAI", "SRAIW"},
         Function[code][logical] = 5, NEW mask \in SUBSET (0 .. 9),
         NEW d \in ParseShiftRight(code, logical, arithmetic, mask, inst)
  PROVE  Encode(d) = inst
<1>1. PICK op \in {logical, arithmetic} :
        /\ d = [CallStandardIType(code, op, inst) EXCEPT !.imm = ImmI(inst) \cap mask]
        /\ ImmI(inst) \ mask = (IF op = arithmetic THEN {10} ELSE {})
  BY DEF ParseShiftRight
<1>2. d.code = code /\ d.op = op /\ d.rd = Rd(inst) /\ d.rs1 = Rs1(inst) /\ d.imm = ImmI(inst) \cap mask
  BY <1>1 DEF CallStandardIType, Call
<1>3. ImmI(inst) \in WordsOf(64)
  BY ImmediateTypes, ExtendType
<1>4. CASE op = arithmetic
  <2>1. d.imm \cup {10} = ImmI(inst)
    BY <1>1, <1>2, <1>4
  <2>2. Encode(d) = EncodeITypeInstruction(code, 5, Rd(inst), Rs1(inst), d.imm \cup {10})
    BY <1>2, <1>4 DEF Encode
  <2> QED
    BY <1>3, <2>1, <2>2, EncodesI
<1>5. CASE op # arithmetic
  <2>1. d.imm = ImmI(inst) /\ op = logical
    BY <1>1, <1>2, <1>5
  <2>2. Encode(d) = EncodeITypeInstruction(code, Function[code][op], Rd(inst), Rs1(inst), d.imm)
    BY <1>2, <2>1 DEF Encode
  <2> QED
    BY <1>3, <2>1, <2>2, EncodesI
<1> QED
  BY <1>4, <1>5

\* The decoder loses nothing: an instruction is what the encoder makes of what it decodes to.
LEMMA EncodesBack ==
  ASSUME NEW inst \in WordsOf(32), NEW d \in ParseInstruction(inst) PROVE Encode(d) = inst
<1>1. PICK code \in DOMAIN Opcode : Opcode[code] = OpcodeOf(inst) /\ d \in Parse(code, inst)
  BY DEF ParseInstruction
<1>2. d.code = code
  BY <1>1, ParsedCode
<1>3. /\ SignExtend(ImmI(inst), 12, 64) \in WordsOf(64) /\ SignExtend(ImmS(inst), 12, 64) \in WordsOf(64)
      /\ SignExtend(ImmB(inst), 13, 64) \in WordsOf(64) /\ SignExtend(ImmU(inst), 32, 64) \in WordsOf(64)
      /\ SignExtend(ImmJ(inst), 21, 64) \in WordsOf(64) /\ ImmI(inst) \in WordsOf(64)
  BY ExtendType, ImmediateTypes
<1>4. /\ \A b \in 0 .. 11 : b \in SignExtend(ImmI(inst), 12, 64) <=> b \in ImmI(inst)
      /\ \A b \in 0 .. 11 : b \in SignExtend(ImmS(inst), 12, 64) <=> b \in ImmS(inst)
      /\ \A b \in 0 .. 12 : b \in SignExtend(ImmB(inst), 13, 64) <=> b \in ImmB(inst)
      /\ \A b \in 0 .. 31 : b \in SignExtend(ImmU(inst), 32, 64) <=> b \in ImmU(inst)
      /\ \A b \in 0 .. 20 : b \in SignExtend(ImmJ(inst), 21, 64) <=> b \in ImmJ(inst)
  <2>1. 12 - 1 = 11 /\ 13 - 1 = 12 /\ 32 - 1 = 31 /\ 21 - 1 = 20
    OBVIOUS
  <2> QED
    BY <2>1, ExtendKeeps, ImmediateTypes
<1>5. ASSUME NEW op, code \in {"LOAD", "MISC_MEM", "JALR", "OP_IMM", "OP_IMM_32"}, op \in Named(code, Funct3(inst)),
             d = CallStandardITypeExt(code, op, inst)
      PROVE  Encode(d) = inst
  <2>1. Function[code][op] = Funct3(inst) /\ op \in DOMAIN Function[code]
    BY <1>5 DEF Named
  <2>2. op \notin {"SRAI", "SRAIW"}
    BY <1>5, <2>1 DEF Function
  <2>3. d.op = op /\ d.rd = Rd(inst) /\ d.rs1 = Rs1(inst) /\ d.imm = SignExtend(ImmI(inst), 12, 64)
    BY <1>5 DEF CallStandardITypeExt, Call
  <2>4. Encode(d) = EncodeITypeInstruction(code, Function[code][op], Rd(inst), Rs1(inst), d.imm)
    BY <1>2, <1>5, <2>2, <2>3 DEF Encode
  <2> QED
    BY <1>1, <1>3, <1>4, <2>1, <2>3, <2>4, EncodesI
<1>6. CASE code \in {"LOAD", "MISC_MEM", "JALR"}
  BY <1>1, <1>5, <1>6 DEF Parse, ParseLOAD, ParseMISC_MEM, ParseJALR
<1>7. CASE code = "OP_IMM"
  <2>1. \/ d \in ParseShiftRight("OP_IMM", "SRLI", "SRAI", ShiftAmtMask, inst)
           /\ "SRLI" \in Named("OP_IMM", Funct3(inst))
        \/ \E op \in Named("OP_IMM", Funct3(inst)) : d = CallStandardITypeExt("OP_IMM", op, inst)
    BY <1>1, <1>7 DEF Parse, ParseOP_IMM
  <2>2. Function["OP_IMM"]["SRLI"] = 5
    BY DEF Function
  <2>3. ASSUME d \in ParseShiftRight("OP_IMM", "SRLI", "SRAI", ShiftAmtMask, inst),
               "SRLI" \in Named("OP_IMM", Funct3(inst))
        PROVE  Encode(d) = inst
    <3>1. Funct3(inst) = 5
      BY <2>2, <2>3 DEF Named
    <3>2. ShiftAmtMask \subseteq 0 .. 9
      BY DEF ShiftAmtMask
    <3> QED
      BY <1>1, <1>7, <2>2, <2>3, <3>1, <3>2, EncodesShift
  <2> QED
    BY <1>5, <1>7, <2>1, <2>3
<1>8. CASE code = "OP_IMM_32"
  <2>1. \/ d \in ParseShiftRight("OP_IMM_32", "SRLIW", "SRAIW", ShiftAmtMaskFor32, inst)
           /\ "SRLIW" \in Named("OP_IMM_32", Funct3(inst))
        \/ \E op \in Named("OP_IMM_32", Funct3(inst)) : d = CallStandardITypeExt("OP_IMM_32", op, inst)
    BY <1>1, <1>8 DEF Parse, ParseOP_IMM_32
  <2>2. Function["OP_IMM_32"]["SRLIW"] = 5
    BY DEF Function
  <2>3. ASSUME d \in ParseShiftRight("OP_IMM_32", "SRLIW", "SRAIW", ShiftAmtMaskFor32, inst),
               "SRLIW" \in Named("OP_IMM_32", Funct3(inst))
        PROVE  Encode(d) = inst
    <3>1. Funct3(inst) = 5
      BY <2>2, <2>3 DEF Named
    <3>2. ShiftAmtMaskFor32 \subseteq 0 .. 9
      BY DEF ShiftAmtMaskFor32
    <3> QED
      BY <1>1, <1>8, <2>2, <2>3, <3>1, <3>2, EncodesShift
  <2> QED
    BY <1>5, <1>8, <2>1, <2>3
<1>9. CASE code \in {"OP", "OP_32"}
  <2>1. PICK op \in Named(code, Funct37(inst)) : d = CallStandardRType(code, op, inst)
    BY <1>1, <1>9 DEF Parse, ParseOP, ParseOP_32
  <2>2. d.op = op /\ d.rd = Rd(inst) /\ d.rs1 = Rs1(inst) /\ d.rs2 = Rs2(inst)
    BY <2>1 DEF CallStandardRType, Call
  <2>3. op \notin {"SRAI", "SRAIW"} /\ Function[code][op] = Funct37(inst)
    BY <1>9 DEF Named, Function
  <2>4. Encode(d) = EncodeRTypeInstruction(code, Function[code][op], Rd(inst), Rs1(inst), Rs2(inst))
    BY <1>2, <1>9, <2>2, <2>3 DEF Encode
  <2> QED
    BY <1>1, <2>3, <2>4, EncodesR
<1>10. CASE code = "STORE"
  <2>1. PICK op \in Named(code, Funct3(inst)) : d = CallStandardSTypeExt(code, op, inst)
    BY <1>1, <1>10 DEF Parse, ParseSTORE
  <2>2. d.op = op /\ d.rs1 = Rs1(inst) /\ d.rs2 = Rs2(inst) /\ d.imm = SignExtend(ImmS(inst), 12, 64)
    BY <2>1 DEF CallStandardSTypeExt, Call
  <2>3. op \notin {"SRAI", "SRAIW"} /\ Function[code][op] = Funct3(inst)
    BY <1>10 DEF Named, Function
  <2>4. Encode(d) = EncodeSTypeInstruction(code, Function[code][op], Rs1(inst), Rs2(inst), d.imm)
    BY <1>2, <1>10, <2>2, <2>3 DEF Encode
  <2> QED
    BY <1>1, <1>3, <1>4, <2>2, <2>3, <2>4, EncodesS
<1>11. CASE code = "BRANCH"
  <2>1. PICK op \in Named(code, Funct3(inst)) : d = CallStandardBTypeExt(code, op, inst)
    BY <1>1, <1>11 DEF Parse, ParseBRANCH
  <2>2. d.op = op /\ d.rs1 = Rs1(inst) /\ d.rs2 = Rs2(inst) /\ d.imm = SignExtend(ImmB(inst), 13, 64)
    BY <2>1 DEF CallStandardBTypeExt, Call
  <2>3. op \notin {"SRAI", "SRAIW"} /\ Function[code][op] = Funct3(inst)
    BY <1>11 DEF Named, Function
  <2>4. Encode(d) = EncodeBTypeInstruction(code, Function[code][op], Rs1(inst), Rs2(inst), d.imm)
    BY <1>2, <1>11, <2>2, <2>3 DEF Encode
  <2> QED
    BY <1>1, <1>3, <1>4, <2>2, <2>3, <2>4, EncodesB
<1>12. CASE code = "SYSTEM"
  <2>1. PICK op \in Named(code, Funct3(inst)) : d = CallStandardIType(code, op, inst)
    BY <1>1, <1>12 DEF Parse, ParseSYSTEM
  <2>2. d.op = op /\ d.rd = Rd(inst) /\ d.rs1 = Rs1(inst) /\ d.imm = ImmI(inst)
    BY <2>1 DEF CallStandardIType, Call
  <2>3. op \notin {"SRAI", "SRAIW"} /\ Function[code][op] = Funct3(inst)
    BY <1>12 DEF Named, Function
  <2>4. Encode(d) = EncodeITypeInstruction(code, Function[code][op], Rd(inst), Rs1(inst), d.imm)
    BY <1>2, <1>12, <2>2, <2>3 DEF Encode
  <2> QED
    BY <1>1, <1>3, <2>2, <2>3, <2>4, EncodesI
<1>13. CASE code \in {"LUI", "AUIPC"}
  <2>1. d = CallStandardUTypeExt(code, inst)
    BY <1>1, <1>13 DEF Parse
  <2>2. d.op = code /\ d.rd = Rd(inst) /\ d.imm = SignExtend(ImmU(inst), 32, 64)
    BY <2>1 DEF CallStandardUTypeExt, Call
  <2>3. Encode(d) = EncodeUTypeInstruction(code, Rd(inst), d.imm)
    BY <1>2, <1>13, <2>2 DEF Encode
  <2> QED
    BY <1>1, <1>3, <1>4, <2>2, <2>3, EncodesU
<1>14. CASE code = "JAL"
  <2>1. d = CallStandardJTypeExt(code, inst)
    BY <1>1, <1>14 DEF Parse
  <2>2. d.op = code /\ d.rd = Rd(inst) /\ d.imm = SignExtend(ImmJ(inst), 21, 64)
    BY <2>1 DEF CallStandardJTypeExt, Call
  <2>3. Encode(d) = EncodeJTypeInstruction(code, Rd(inst), d.imm)
    BY <1>2, <1>14, <2>2 DEF Encode
  <2> QED
    BY <1>1, <1>3, <1>4, <2>2, <2>3, EncodesJ
<1>15. CASE code \notin {"LOAD", "MISC_MEM", "OP_IMM", "OP_IMM_32", "STORE", "OP", "OP_32", "BRANCH",
                         "JALR", "SYSTEM", "LUI", "AUIPC", "JAL"}
  BY <1>1, <1>15 DEF Parse
<1> QED
  BY <1>6, <1>7, <1>8, <1>9, <1>10, <1>11, <1>12, <1>13, <1>14, <1>15

-----------------------------------------------------------------------------
(* Codings: a word decodes and lists one way *)

\* The opcodes whose functions have numbers.
Numbering == {"LOAD", "MISC_MEM", "OP_IMM", "OP_IMM_32", "STORE", "OP", "OP_32", "BRANCH", "JALR", "SYSTEM"}

\* A number stands for one function of its opcode.
LEMMA NamedOnce ==
  ASSUME NEW code \in Numbering, NEW number, NEW op \in Named(code, number), NEW name \in Named(code, number)
  PROVE  op = name
<1>1. /\ op \in DOMAIN Function[code] /\ Function[code][op] = number
      /\ name \in DOMAIN Function[code] /\ Function[code][name] = number
  BY DEF Named
<1>2. CASE code = "LOAD"
  BY <1>1, <1>2 DEF Function
<1>3. CASE code \in {"MISC_MEM", "STORE", "JALR"}
  BY <1>1, <1>3 DEF Function
<1>4. CASE code = "OP_IMM"
  BY <1>1, <1>4 DEF Function
<1>5. CASE code = "OP_IMM_32"
  BY <1>1, <1>5 DEF Function
<1>6. CASE code = "OP"
  BY <1>1, <1>6 DEF Function, CreateFunction37
<1>7. CASE code = "OP_32"
  BY <1>1, <1>7 DEF Function, CreateFunction37
<1>8. CASE code = "BRANCH"
  BY <1>1, <1>8 DEF Function
<1>9. CASE code = "SYSTEM"
  BY <1>1, <1>9 DEF Function
<1> QED
  BY <1>2, <1>3, <1>4, <1>5, <1>6, <1>7, <1>8, <1>9 DEF Numbering

\* A word decodes to one instruction at most.
LEMMA ParsedOnce ==
  ASSUME NEW inst, NEW d \in ParseInstruction(inst), NEW e \in ParseInstruction(inst) PROVE d = e
<1>1. PICK code \in DOMAIN Opcode : d \in Parse(code, inst) /\ e \in Parse(code, inst)
  BY OpcodesDiffer DEF ParseInstruction
<1>2. ASSUME NEW logical, NEW arithmetic, logical # arithmetic, NEW mask,
             d \in ParseShiftRight(code, logical, arithmetic, mask, inst),
             e \in ParseShiftRight(code, logical, arithmetic, mask, inst)
      PROVE  d = e
  <2>1. PICK op \in {logical, arithmetic} :
          /\ d = [CallStandardIType(code, op, inst) EXCEPT !.imm = ImmI(inst) \cap mask]
          /\ ImmI(inst) \ mask = (IF op = arithmetic THEN {10} ELSE {})
    BY <1>2 DEF ParseShiftRight
  <2>2. PICK name \in {logical, arithmetic} :
          /\ e = [CallStandardIType(code, name, inst) EXCEPT !.imm = ImmI(inst) \cap mask]
          /\ ImmI(inst) \ mask = (IF name = arithmetic THEN {10} ELSE {})
    BY <1>2 DEF ParseShiftRight
  <2>3. op = name
    BY <2>1, <2>2
  <2> QED
    BY <2>1, <2>2, <2>3
<1>3. CASE code \in {"LOAD", "MISC_MEM", "JALR"}
  BY <1>1, <1>3, NamedOnce DEF Parse, ParseLOAD, ParseMISC_MEM, ParseJALR, Numbering
<1>4. CASE code = "OP_IMM"
  <2> DEFINE ops == {op \in Named("OP_IMM", Funct3(inst)) : op = "SLLI" => ImmI(inst) \subseteq ShiftAmtMask}
  <2>1. CASE ops = {"SRLI"}
    BY <1>1, <1>2, <1>4, <2>1 DEF Parse, ParseOP_IMM
  <2>2. CASE ops # {"SRLI"}
    <3>1. d \in {CallStandardITypeExt("OP_IMM", op, inst) : op \in ops}
          /\ e \in {CallStandardITypeExt("OP_IMM", op, inst) : op \in ops}
      BY <1>1, <1>4, <2>2 DEF Parse, ParseOP_IMM
    <3>2. "OP_IMM" \in Numbering
      BY DEF Numbering
    <3> QED
      BY <1>4, <3>1, <3>2, NamedOnce
  <2> QED
    BY <2>1, <2>2
<1>5. CASE code = "OP_IMM_32"
  <2> DEFINE ops == Named("OP_IMM_32", Funct3(inst))
  <2>1. CASE ops = {"SRLIW"}
    BY <1>1, <1>2, <1>5, <2>1 DEF Parse, ParseOP_IMM_32
  <2>2. CASE ops # {"SRLIW"}
    <3>1. d \in {CallStandardITypeExt("OP_IMM_32", op, inst) : op \in ops}
          /\ e \in {CallStandardITypeExt("OP_IMM_32", op, inst) : op \in ops}
      BY <1>1, <1>5, <2>2 DEF Parse, ParseOP_IMM_32
    <3>2. "OP_IMM_32" \in Numbering
      BY DEF Numbering
    <3> QED
      BY <1>5, <3>1, <3>2, NamedOnce
  <2> QED
    BY <2>1, <2>2
<1>6. CASE code \in {"OP", "OP_32"}
  BY <1>1, <1>6, NamedOnce DEF Parse, ParseOP, ParseOP_32, Numbering
<1>7. CASE code \in {"STORE", "BRANCH", "SYSTEM"}
  BY <1>1, <1>7, NamedOnce DEF Parse, ParseSTORE, ParseBRANCH, ParseSYSTEM, Numbering
<1>8. CASE code \in {"LUI", "AUIPC", "JAL"}
  BY <1>1, <1>8 DEF Parse
<1>9. CASE code \notin Numbering \cup {"LUI", "AUIPC", "JAL"}
  BY <1>1, <1>9 DEF Parse, Numbering
<1> QED
  BY <1>3, <1>4, <1>5, <1>6, <1>7, <1>8, <1>9 DEF Numbering

\* So what a word decodes to decodes from its encoding.
LEMMA DecodesBack ==
  ASSUME NEW inst \in WordsOf(32), NEW d \in ParseInstruction(inst) PROVE ParseInstruction(Encode(d)) = {d}
BY EncodesBack, ParsedOnce

\* The names of the functions of different opcodes differ.
LEMMA NamesDiffer ==
  ASSUME NEW code \in Numbering \cup {"LUI", "AUIPC", "JAL"}, NEW other \in Numbering \cup {"LUI", "AUIPC", "JAL"},
         NEW op \in Functions(code), op \in Functions(other)
  PROVE  code = other
<1> DEFINE Home(name) ==
      CASE name \in {"LB", "LH", "LW", "LD", "LBU", "LHU", "LWU"} -> "LOAD"
        [] name \in {"FENCE", "FENCEI"} -> "MISC_MEM"
        [] name \in {"ADDI", "SLLI", "SLTI", "SLTIU", "XORI", "SRLI", "SRAI", "ORI", "ANDI"} -> "OP_IMM"
        [] name \in {"ADDIW", "SLLIW", "SRLIW", "SRAIW"} -> "OP_IMM_32"
        [] name \in {"SB", "SH", "SW", "SD"} -> "STORE"
        [] name \in {"ADDW", "SUBW", "MULW", "SLLW", "DIVW", "SRLW", "SRAW", "DIVUW", "REMW", "REMUW"} -> "OP_32"
        [] name \in {"BEQ", "BNE", "BLT", "BGE", "BLTU", "BGEU"} -> "BRANCH"
        [] name \in {"JALR"} -> "JALR"
        [] name \in {"CSRRW", "CSRRS", "CSRRC", "CSRRWI", "CSRRSI", "CSRRCI"} -> "SYSTEM"
        [] name \in {"LUI", "AUIPC", "JAL"} -> name
        [] OTHER -> "OP"
<1>1. ASSUME NEW kind \in Numbering \cup {"LUI", "AUIPC", "JAL"}, op \in Functions(kind) PROVE Home(op) = kind
  <2>1. CASE kind = "LOAD"
    BY <1>1, <2>1 DEF Functions, Function
  <2>2. CASE kind \in {"MISC_MEM", "STORE"}
    BY <1>1, <2>2 DEF Functions, Function
  <2>3. CASE kind = "OP_IMM"
    BY <1>1, <2>3 DEF Functions, OfOP_IMM
  <2>4. CASE kind = "OP_IMM_32"
    BY <1>1, <2>4 DEF Functions, OfOP_IMM_32
  <2>5. CASE kind = "OP"
    BY <1>1, <2>5 DEF Functions, Function
  <2>6. CASE kind = "OP_32"
    BY <1>1, <2>6 DEF Functions, Function
  <2>7. CASE kind \in {"BRANCH", "JALR"}
    BY <1>1, <2>7 DEF Functions, Function
  <2>8. CASE kind = "SYSTEM"
    BY <1>1, <2>8 DEF Functions, Function
  <2>9. CASE kind \in {"LUI", "AUIPC", "JAL"}
    BY <1>1, <2>9 DEF Functions
  <2> QED
    BY <2>1, <2>2, <2>3, <2>4, <2>5, <2>6, <2>7, <2>8, <2>9 DEF Numbering
<1> HIDE DEF Home
<1> QED
  BY <1>1

\* The upper half of an immediate is the sign of the lower one.
Spread(imm) == imm \in WordsOf(64) /\ \A b \in 32 .. 63 : b \in imm <=> 31 \in imm

\* Extended immediates are of this kind, and the lower half tells them apart.
LEMMA SpreadIs ==
  /\ \A n \in 1 .. 32 : \A w \in WordsOf(n) : Spread(SignExtend(w, n, 64))
  /\ \A w \in WordsOf(31) : Spread(w)
  /\ \A v, w : Spread(v) /\ Spread(w) /\ AsWord(v) = AsWord(w) => v = w
<1>1. ASSUME NEW n \in 1 .. 32, NEW w \in WordsOf(n) PROVE Spread(SignExtend(w, n, 64))
  <2>1. SignExtend(w, n, 64) \in WordsOf(64)
    BY ExtendType
  <2>2. w \subseteq 0 .. n - 1
    BY DEF WordsOf
  <2>3. CASE n - 1 \in w
    <3>1. SignExtend(w, n, 64) = w \cup n .. 63
      BY <2>3 DEF SignExtend
    <3>2. 31 \in SignExtend(w, n, 64)
      BY <2>3, <3>1
    <3>3. \A b \in 32 .. 63 : b \in SignExtend(w, n, 64)
      BY <3>1
    <3> QED
      BY <2>1, <3>2, <3>3 DEF Spread
  <2>4. CASE n - 1 \notin w
    <3>1. SignExtend(w, n, 64) = w
      BY <2>4 DEF SignExtend
    <3>2. 31 \notin w /\ \A b \in 32 .. 63 : b \notin w
      BY <2>2, <2>4
    <3> QED
      BY <2>1, <3>1, <3>2 DEF Spread
  <2> QED
    BY <2>3, <2>4
<1>2. ASSUME NEW w \in WordsOf(31) PROVE Spread(w)
  BY DEF Spread, WordsOf
<1>3. ASSUME NEW v, NEW w, Spread(v), Spread(w), AsWord(v) = AsWord(w) PROVE v = w
  <2>1. v \subseteq 0 .. 63 /\ w \subseteq 0 .. 63
    BY <1>3 DEF Spread, WordsOf
  <2>2. \A b \in 0 .. 31 : b \in v <=> b \in w
    BY <1>3 DEF AsWord
  <2>3. \A b \in 32 .. 63 : b \in v <=> b \in w
    BY <1>3, <2>2 DEF Spread
  <2>4. \A b \in 0 .. 63 : b \in 0 .. 31 \/ b \in 32 .. 63
    OBVIOUS
  <2> QED
    BY <2>1, <2>2, <2>3, <2>4
<1> QED
  BY <1>1, <1>2, <1>3

\* What a listing leaves out of an instruction is the same for all of its opcode.
Unlisted(d) ==
  /\ Spread(d.imm)
  /\ d.code \in {"OP", "OP_32"} => d.imm = {}
  /\ d.code \in {"STORE", "BRANCH"} => d.rd = 0
  /\ d.code \in {"LOAD", "MISC_MEM", "OP_IMM", "OP_IMM_32", "JALR", "SYSTEM", "LUI", "AUIPC", "JAL"} =>
       d.rs2 = 0
  /\ d.code \in {"LUI", "AUIPC", "JAL"} => d.rs1 = 0

\* So it is for everything that is decoded.
LEMMA ParsedUnlisted ==
  ASSUME NEW inst, NEW d \in ParseInstruction(inst)
  PROVE  Unlisted(d) /\ d.code \in Numbering \cup {"LUI", "AUIPC", "JAL"}
<1>1. PICK code \in DOMAIN Opcode : d \in Parse(code, inst)
  BY DEF ParseInstruction
<1>2. d.code = code
  BY <1>1, ParsedCode
<1>3. /\ Spread(SignExtend(ImmI(inst), 12, 64)) /\ Spread(SignExtend(ImmS(inst), 12, 64))
      /\ Spread(SignExtend(ImmB(inst), 13, 64)) /\ Spread(SignExtend(ImmU(inst), 32, 64))
      /\ Spread(SignExtend(ImmJ(inst), 21, 64))
  BY SpreadIs, ImmediateTypes
<1>4. Spread({}) /\ Spread(ImmI(inst)) /\ \A mask : Spread(ImmI(inst) \cap mask)
  <2>1. {} \in WordsOf(31) /\ ImmI(inst) \in WordsOf(31) /\ \A mask : ImmI(inst) \cap mask \in WordsOf(31)
    BY ImmediateTypes DEF WordsOf
  <2> QED
    BY <2>1, SpreadIs
<1>5. ASSUME NEW logical, NEW arithmetic, NEW mask,
             d \in ParseShiftRight(code, logical, arithmetic, mask, inst), code \in {"OP_IMM", "OP_IMM_32"}
      PROVE  Unlisted(d)
  <2>1. PICK op : d = [CallStandardIType(code, op, inst) EXCEPT !.imm = ImmI(inst) \cap mask]
    BY <1>5 DEF ParseShiftRight
  <2>2. d.rs2 = 0 /\ d.imm = ImmI(inst) \cap mask
    BY <2>1 DEF CallStandardIType, Call
  <2> QED
    BY <1>2, <1>4, <1>5, <2>2 DEF Unlisted
<1>6. ASSUME NEW op, d = CallStandardITypeExt(code, op, inst),
             code \in {"LOAD", "MISC_MEM", "JALR", "OP_IMM", "OP_IMM_32"}
      PROVE  Unlisted(d)
  <2>1. d.rs2 = 0 /\ d.imm = SignExtend(ImmI(inst), 12, 64)
    BY <1>6 DEF CallStandardITypeExt, Call
  <2> QED
    BY <1>2, <1>3, <1>6, <2>1 DEF Unlisted
<1>7. CASE code \in {"LOAD", "MISC_MEM", "JALR"}
  BY <1>1, <1>2, <1>6, <1>7 DEF Parse, ParseLOAD, ParseMISC_MEM, ParseJALR, Numbering
<1>8. CASE code = "OP_IMM"
  <2>1. \/ d \in ParseShiftRight("OP_IMM", "SRLI", "SRAI", ShiftAmtMask, inst)
        \/ \E op : d = CallStandardITypeExt("OP_IMM", op, inst)
    BY <1>1, <1>8 DEF Parse, ParseOP_IMM
  <2> QED
    BY <1>2, <1>5, <1>6, <1>8, <2>1 DEF Numbering
<1>9. CASE code = "OP_IMM_32"
  <2>1. \/ d \in ParseShiftRight("OP_IMM_32", "SRLIW", "SRAIW", ShiftAmtMaskFor32, inst)
        \/ \E op : d = CallStandardITypeExt("OP_IMM_32", op, inst)
    BY <1>1, <1>9 DEF Parse, ParseOP_IMM_32
  <2> QED
    BY <1>2, <1>5, <1>6, <1>9, <2>1 DEF Numbering
<1>10. CASE code \in {"OP", "OP_32"}
  <2>1. d.imm = {}
    BY <1>1, <1>10 DEF Parse, ParseOP, ParseOP_32, CallStandardRType, Call
  <2> QED
    BY <1>2, <1>4, <1>10, <2>1 DEF Unlisted, Numbering
<1>11. CASE code \in {"STORE", "BRANCH"}
  <2>1. d.rd = 0 /\ d.imm \in {SignExtend(ImmS(inst), 12, 64), SignExtend(ImmB(inst), 13, 64)}
    BY <1>1, <1>11 DEF Parse, ParseSTORE, ParseBRANCH, CallStandardSTypeExt, CallStandardBTypeExt, Call
  <2> QED
    BY <1>2, <1>3, <1>11, <2>1 DEF Unlisted, Numbering
<1>12. CASE code = "SYSTEM"
  <2>1. d.rs2 = 0 /\ d.imm = ImmI(inst)
    BY <1>1, <1>12 DEF Parse, ParseSYSTEM, CallStandardIType, Call
  <2> QED
    BY <1>2, <1>4, <1>12, <2>1 DEF Unlisted, Numbering
<1>13. CASE code \in {"LUI", "AUIPC", "JAL"}
  <2>1. d.rs1 = 0 /\ d.rs2 = 0
        /\ d.imm \in {SignExtend(ImmU(inst), 32, 64), SignExtend(ImmJ(inst), 21, 64)}
    BY <1>1, <1>13 DEF Parse, CallStandardUTypeExt, CallStandardJTypeExt, Call
  <2> QED
    BY <1>2, <1>3, <1>13, <2>1 DEF Unlisted
<1>14. CASE code \notin Numbering \cup {"LUI", "AUIPC", "JAL"}
  BY <1>1, <1>14 DEF Parse, Numbering
<1> QED
  BY <1>2, <1>7, <1>8, <1>9, <1>10, <1>11, <1>12, <1>13, <1>14 DEF Numbering

\* Fences aside, no two instructions are listed alike.
LEMMA ListedOnce ==
  ASSUME NEW i, NEW j, NEW d \in ParseInstruction(i), NEW e \in ParseInstruction(j),
         d.code # "MISC_MEM", e.code # "MISC_MEM", Listing(d) = Listing(e)
  PROVE  d = e
<1>1. /\ d \in Instructions /\ e \in Instructions
      /\ d.op \in Functions(d.code) /\ e.op \in Functions(e.code)
  BY ParsedType
<1>2. /\ Unlisted(d) /\ Unlisted(e)
      /\ d.code \in Numbering \cup {"LUI", "AUIPC", "JAL"} /\ e.code \in Numbering \cup {"LUI", "AUIPC", "JAL"}
  BY ParsedUnlisted
<1>3. ASSUME NEW a \in {d, e}
      PROVE  /\ a.code \in {"OP", "OP_32"} => Listing(a) = <<a.op, a.rd, a.rs1, a.rs2>>
             /\ a.code \in {"OP_IMM", "OP_IMM_32", "JALR"} => Listing(a) = <<a.op, a.rd, a.rs1, AsWord(a.imm)>>
             /\ a.code = "LOAD" => Listing(a) = <<a.op, a.rd, AsWord(a.imm), a.rs1>>
             /\ a.code = "STORE" => Listing(a) = <<a.op, a.rs2, AsWord(a.imm), a.rs1>>
             /\ a.code = "BRANCH" => Listing(a) = <<a.op, a.rs1, a.rs2, AsWord(a.imm)>>
             /\ a.code = "SYSTEM" => Listing(a) = <<a.op, a.rd, a.rs1, AsWord(a.imm)>>
             /\ a.code \in {"LUI", "AUIPC", "JAL"} => Listing(a) = <<a.op, a.rd, AsWord(a.imm)>>
  BY DEF Listing, FormatOP, FormatOP_32, FormatStandardRType, FormatOP_IMM, FormatOP_IMM_32,
     FormatStandardITypeExt, FormatLOAD, FormatSTORE, FormatBRANCH, FormatStandardBTypeExt, FormatSYSTEM,
     FormatStandardIType, FormatCSRI, FormatStandardUTypeExt, FormatStandardJTypeExt
<1>4. d.op = e.op
  <2>1. ASSUME NEW a \in {d, e} PROVE Listing(a)[1] = a.op
    <3>1. a.code \in (Numbering \ {"MISC_MEM"}) \cup {"LUI", "AUIPC", "JAL"}
      BY <1>2
    <3> QED
      BY <1>3, <3>1 DEF Numbering
  <2> QED
    BY <2>1
<1>5. d.code = e.code
  BY <1>1, <1>2, <1>4, NamesDiffer
<1>6. AsWord(d.imm) = AsWord(e.imm) => d.imm = e.imm
  BY <1>2, SpreadIs DEF Unlisted
<1>7. d.rd = e.rd /\ d.rs1 = e.rs1 /\ d.rs2 = e.rs2 /\ d.imm = e.imm
  <2>1. CASE d.code \in {"OP", "OP_32"}
    BY <1>2, <1>3, <1>5, <2>1 DEF Unlisted
  <2>2. CASE d.code \in {"OP_IMM", "OP_IMM_32", "JALR", "SYSTEM"}
    <3>1. d.rs2 = 0 /\ e.rs2 = 0
      BY <1>2, <1>5, <2>2 DEF Unlisted
    <3>2. <<d.op, d.rd, d.rs1, AsWord(d.imm)>> = <<e.op, e.rd, e.rs1, AsWord(e.imm)>>
      BY <1>3, <1>5, <2>2
    <3> QED
      BY <1>6, <3>1, <3>2
  <2>3. CASE d.code = "LOAD"
    <3>1. d.rs2 = 0 /\ e.rs2 = 0
      BY <1>2, <1>5, <2>3 DEF Unlisted
    <3>2. <<d.op, d.rd, AsWord(d.imm), d.rs1>> = <<e.op, e.rd, AsWord(e.imm), e.rs1>>
      BY <1>3, <1>5, <2>3
    <3> QED
      BY <1>6, <3>1, <3>2
  <2>4. CASE d.code \in {"STORE", "BRANCH"}
    <3>1. d.rd = 0 /\ e.rd = 0
      BY <1>2, <1>5, <2>4 DEF Unlisted
    <3>2. \/ <<d.op, d.rs2, AsWord(d.imm), d.rs1>> = <<e.op, e.rs2, AsWord(e.imm), e.rs1>>
          \/ <<d.op, d.rs1, d.rs2, AsWord(d.imm)>> = <<e.op, e.rs1, e.rs2, AsWord(e.imm)>>
      BY <1>3, <1>5, <2>4
    <3> QED
      BY <1>6, <3>1, <3>2
  <2>5. CASE d.code \in {"LUI", "AUIPC", "JAL"}
    <3>1. d.rs1 = 0 /\ e.rs1 = 0 /\ d.rs2 = 0 /\ e.rs2 = 0
      BY <1>2, <1>5, <2>5 DEF Unlisted
    <3>2. <<d.op, d.rd, AsWord(d.imm)>> = <<e.op, e.rd, AsWord(e.imm)>>
      BY <1>3, <1>5, <2>5
    <3> QED
      BY <1>6, <3>1, <3>2
  <2> QED
    BY <1>2, <2>1, <2>2, <2>3, <2>4, <2>5 DEF Numbering
<1>8. \A a \in Instructions : a = [code |-> a.code, op |-> a.op, rd |-> a.rd, rs1 |-> a.rs1,
                                   rs2 |-> a.rs2, imm |-> a.imm]
  BY DEF Instructions
<1> QED
  BY <1>1, <1>4, <1>5, <1>7, <1>8

\* Of any set of words none is encoded otherwise, and as many texts as instructions.
LEMMA CodedAgree == Miscoded = {} /\ Confused = 0
<1>1. Miscoded = {}
  BY CallsAssumption, EncodesBack DEF Miscoded
<1> DEFINE listed == {inst \in Coded : ParseInstruction(inst) # {} /\ OpcodeOf(inst) # Opcode.MISC_MEM}
           texts == UNION {DisassembleInstruction(inst) : inst \in listed}
           first(inst) == CHOOSE d : d \in ParseInstruction(inst)
           text == [inst \in listed |-> Listing(first(inst))]
<1>2. listed \subseteq WordsOf(32) /\ IsFiniteSet(listed)
  <2>1. IsFiniteSet(0 .. 31)
    <3> DEFINE a == 0
               b == 31
    <3>1. a \in Int /\ b \in Int
      OBVIOUS
    <3> HIDE DEF a, b
    <3>2. IsFiniteSet(a .. b)
      BY <3>1, FS_Interval
    <3> QED
      BY <3>2 DEF a, b
  <2>2. IsFiniteSet(WordsOf(32))
    BY <2>1, FS_SUBSET DEF WordsOf
  <2>3. listed \subseteq WordsOf(32)
    BY CallsAssumption
  <2> HIDE DEF listed
  <2> QED
    BY <2>2, <2>3, FS_Subset
<1>3. ASSUME NEW inst \in listed
      PROVE  /\ first(inst) \in ParseInstruction(inst) /\ first(inst).code # "MISC_MEM"
             /\ DisassembleInstruction(inst) = {Listing(first(inst))}
  <2>1. first(inst) \in ParseInstruction(inst)
    OBVIOUS
  <2>2. first(inst).code # "MISC_MEM"
    <3>1. PICK code \in DOMAIN Opcode : Opcode[code] = OpcodeOf(inst) /\ first(inst) \in Parse(code, inst)
      BY <2>1 DEF ParseInstruction
    <3>2. first(inst).code = code
      BY <3>1, ParsedCode
    <3> QED
      BY <3>1, <3>2
  <2>3. \A d \in ParseInstruction(inst) : d = first(inst)
    BY <2>1, ParsedOnce
  <2> QED
    BY <2>1, <2>2, <2>3 DEF DisassembleInstruction
<1> HIDE DEF first
<1>4. texts = {Listing(first(inst)) : inst \in listed}
  <2> HIDE DEF listed
  <2> QED
    BY <1>3
<1>5. text \in Surjection(listed, texts)
  <2> HIDE DEF listed
  <2>1. text \in [listed -> texts]
    BY <1>4
  <2>2. \A t \in texts : \E inst \in listed : text[inst] = t
    BY <1>4
  <2> QED
    BY <2>1, <2>2 DEF Surjection
<1>6. text \in Injection(listed, texts)
  <2>1. ASSUME NEW i \in listed, NEW j \in listed, text[i] = text[j] PROVE i = j
    <3>1. Listing(first(i)) = Listing(first(j))
      BY <2>1
    <3>2. first(i) = first(j)
      BY <1>3, <3>1, ListedOnce
    <3>3. Encode(first(i)) = i /\ Encode(first(j)) = j
      BY <1>2, <1>3, EncodesBack
    <3> QED
      BY <3>2, <3>3
  <2>2. text \in [listed -> texts] /\ DOMAIN text = listed
    BY <1>5 DEF Surjection
  <2> HIDE DEF text, listed, texts
  <2> QED
    BY <2>1, <2>2 DEF Injection, IsInjective
<1> HIDE DEF text, listed, texts
<1>7. Cardinality(texts) = Cardinality(listed) /\ Cardinality(listed) \in Nat
  BY <1>2, <1>5, <1>6, FS_Surjection, FS_CardinalityType
<1> QED
  BY <1>1, <1>7 DEF Confused, listed, texts

\* What has run was decoded from a word.
Decoded == ran = {} \/ \E inst \in WordsOf(32) : ran = ParseInstruction(inst)

\* Only words that were fetched or handed over are decoded.
LEMMA NextDecoded == [Next]_vars /\ Decoded => Decoded'
<1> SUFFICES ASSUME [Next]_vars, Decoded PROVE Decoded'
  OBVIOUS
<1>1. ASSUME NEW inst \in Insts, ExecuteInst(inst) PROVE Decoded'
  BY <1>1, CallsAssumption DEF ExecuteInst, ExecuteInstructionImpl, Decoded
<1>2. CASE ExecuteInstAtPc
  <2>1. PICK at \in {Fetched} : ran' = ParseInstruction(FetchedInst(at))
    BY <1>2 DEF ExecuteInstAtPc, ExecuteInstructionImpl
  <2>2. Load(at.memory, 4, at.addr) \in WordsOf(8 * 4)
    BY LoadBytes DEF Widths
  <2>3. FetchedInst(at) \in WordsOf(32)
    BY <2>2 DEF FetchedInst, WordsOf
  <2> QED
    BY <2>1, <2>3 DEF Decoded
<1>3. CASE Calling
  BY <1>3 DEF Calling, Decoded
<1>4. CASE UNCHANGED vars
  BY <1>4 DEF vars, Decoded
<1>5. CASE Next
  <2>1. (\E inst \in Insts : ExecuteInst(inst)) \/ ExecuteInstAtPc \/ Calling
    BY <1>5 DEF Next, FetchInstAtPc, FailInstAtPc, WritePC, WriteGPR, WriteCSR, ReadWriteCSR, ReadCSR,
       CallCsr, MappedRead, MappedWrite, Reset
  <2> QED
    BY <1>1, <1>2, <1>3, <2>1
<1> QED
  BY <1>4, <1>5

\* Decoder, encoder and disassembler agree: for any set of words Coded, and for whatever
\* instruction a hart has run.
THEOREM Codings == Spec => []CodingsAgree
<1>1. Init => Decoded
  BY DEF Init, Decoded
<1>2. Decoded => CodingsAgree
  BY CodedAgree, DecodesBack DEF Decoded, CodingsAgree
<1> QED
  BY <1>1, <1>2, NextDecoded, PTL DEF Spec

-----------------------------------------------------------------------------
(* What 32 bits compute *)

\* What an instruction for 32 bits leaves in its register, and where 64 bits have one.
Agrees(d) ==
  LET val == gpr'[d.rd]
      low == 0 .. 31 IN
  /\ d.op \notin {"DIVUW", "REMUW"} => val = SignExtend(val \cap low, 32, 64)
  /\ Operation(d) \in {"ADD", "SUB", "MUL"} =>
       val \cap low =
         low \cap Compute(Operation(d), Get(d.rs1),
                         IF d.code = "OP_32" THEN Get(d.rs2) ELSE d.imm, 64)

\* The lower halves of the operands give the lower half of a sum, difference or product.
LEMMA LowerCompute ==
  ASSUME NEW op \in {"ADD", "SUB", "MUL"}, NEW v \in WordsOf(64), NEW w \in WordsOf(64)
  PROVE  Compute(op, v \cap 0 .. 31, w \cap 0 .. 31, 32) = 0 .. 31 \cap Compute(op, v, w, 64)
<1> DEFINE n == 64
           m == 32
           low == 0 .. m - 1
<1>1. n \in Nat /\ m \in 0 .. n /\ v \in WordsOf(n) /\ w \in WordsOf(n)
  OBVIOUS
<1>2. low = 0 .. 31
  OBVIOUS
<1> HIDE DEF n, m
<1>3. /\ Add(v, w, n) \cap low = Add(v \cap low, w \cap low, m)
      /\ Sub(v, w, n) \cap low = Sub(v \cap low, w \cap low, m)
      /\ Mul(v, w, n) \cap low = Mul(v \cap low, w \cap low, m)
  <2>1. Add(v, w, n) \cap low = Add(v \cap low, w \cap low, m)
    BY <1>1, LowerAdd
  <2>2. Sub(v, w, n) \cap low = Sub(v \cap low, w \cap low, m)
    BY <1>1, LowerSub
  <2>3. Mul(v, w, n) \cap low = Mul(v \cap low, w \cap low, m)
    BY <1>1, LowerMul
  <2> QED
    BY <2>1, <2>2, <2>3
<1> HIDE DEF low
<1>4. op \in {"ADD", "SUB", "MUL"} => Compute(op, v \cap low, w \cap low, m) = low \cap Compute(op, v, w, n)
  BY <1>3 DEF Compute
<1> QED
  BY <1>2, <1>4 DEF n, m

\* So it is with the results of 32 bits, which are divided, added or shifted as words
\* of their own.
LEMMA ArithmeticAgrees ==
  ASSUME TypeOK, NEW mem, NEW d \in Instructions, d.op \in Functions(d.code),
         d.code \in {"OP_32", "OP_IMM_32"}, RunArithmetic(d, mem) \/ RunDivideWrap(d, mem)
  PROVE  Agrees(d)
<1> DEFINE low == 0 .. 31
           second == IF d.code = "OP_32" THEN Get(d.rs2) ELSE d.imm
<1>1. /\ LengthOf(d) = 32
      /\ Operand1(d) = Get(d.rs1) \cap low /\ Operand2(d) = second \cap low
  BY DEF LengthOf, Operand1, Operand2
<1>2. /\ d.rd \in 0 .. 31
      /\ Get(d.rs1) \in WordsOf(64) /\ second \in WordsOf(64)
  BY GetType DEF TypeOK, Instructions
<1>3. PICK val \in WordsOf(32) :
        /\ Set(d.rd, Widened(d, val))
        /\ Operation(d) \in {"ADD", "SUB", "MUL"} =>
             val = Compute(Operation(d), Operand1(d), Operand2(d), 32)
  <2> HIDE DEF second
  <2>1. CASE RunArithmetic(d, mem)
    <3>1. Operation(d) \in Computed
      BY <2>1, OperationIs DEF RunArithmetic
    <3>2. Operand1(d) \in WordsOf(32) /\ Operand2(d) \in WordsOf(32)
      BY <1>1, OperandTypes DEF TypeOK
    <3>3. Compute(Operation(d), Operand1(d), Operand2(d), 32) \in WordsOf(32)
      BY <3>1, <3>2, ComputeType
    <3> QED
      BY <1>1, <2>1, <3>3 DEF RunArithmetic
  <2>2. CASE RunDivideWrap(d, mem)
    <3>1. {} \in WordsOf(32) /\ Operand1(d) \in WordsOf(32)
      BY <1>1, OperandTypes DEF TypeOK, WordsOf
    <3>2. Operation(d) \notin {"ADD", "SUB", "MUL"}
      BY <2>2 DEF RunDivideWrap, Undefined, Divisions
    <3> QED
      BY <2>2, <3>1, <3>2 DEF RunDivideWrap
  <2> QED
    BY <2>1, <2>2
<1>4. gpr'[d.rd] = Widened(d, val)
  BY <1>2, <1>3 DEF Set, Cleared, TypeOK, Files, NumGPR
<1>5. SignExtend(val, 32, 64) \cap low = val /\ val \cap low = val
  <2>1. val \subseteq low /\ (32 .. 63) \cap low = {}
    BY DEF WordsOf
  <2>2. SignExtend(val, 32, 64) \in {val, val \cup (32 .. 63)}
    BY DEF SignExtend
  <2> HIDE DEF low
  <2> QED
    BY <2>1, <2>2
<1>6. Operation(d) \in {"ADD", "SUB", "MUL"} =>
        val = low \cap Compute(Operation(d), Get(d.rs1), second, 64)
  <2> HIDE DEF low, second
  <2>1. \A op \in {"ADD", "SUB", "MUL"} :
          Compute(op, Get(d.rs1) \cap low, second \cap low, 32) = low \cap Compute(op, Get(d.rs1), second, 64)
    BY <1>2, LowerCompute DEF low
  <2> QED
    BY <1>1, <1>3, <2>1
<1> DEFINE result32 == gpr'[d.rd]
<1>7. result32 \cap low = val
  BY <1>4, <1>5 DEF Widened
<1>8. d.op \notin {"DIVUW", "REMUW"} => result32 = SignExtend(result32 \cap low, 32, 64)
  BY <1>1, <1>4, <1>7 DEF Widened
<1> QED
  BY <1>6, <1>7, <1>8 DEF Agrees

\* An instruction for 32 bits that leaves the emulator running is one of these.
LEMMA ExecuteAgrees ==
  ASSUME TypeOK, NEW mem, NEW inst, ExecuteInstructionImpl(inst, mem),
         NEW d \in ran', d.code \in {"OP_32", "OP_IMM_32"}, ~aborted'
  PROVE  Agrees(d)
<1>1. PICK e \in ParseInstruction(inst) : Run(e, mem)
  BY DEF ExecuteInstructionImpl
<1>2. d \in ParseInstruction(inst)
  BY DEF ExecuteInstructionImpl
<1>3. e = d
  BY <1>2, ParsedOnce
<1>4. d \in Instructions /\ d.op \in Functions(d.code)
  BY <1>2, ParsedType
<1>5. d.op \notin UpperMultiplications
  BY <1>4 DEF Functions, Function, OfOP_IMM_32, UpperMultiplications
<1>6. RunArithmetic(d, mem) \/ RunDivideWrap(d, mem)
  BY <1>1, <1>3, <1>5 DEF Run, RunMISC_MEM, RunUpper, RunLOAD, RunSTORE, RunBRANCH, RunJump, RunSYSTEM,
     RunDivideError, RunUpperMultiplication
<1> QED
  BY <1>4, <1>6, ArithmeticAgrees

\* Words compute alike in both lengths: the results of 32 bits keep their sign, and are
\* the lower halves of what 64 bits give, for all registers and instructions.
THEOREM WordResults == Spec => WordResultsAgree
<1>1. ASSUME TypeOK, [Next]_vars,
             NEW d \in ran', d.code \in {"OP_32", "OP_IMM_32"}, ~aborted', ~UNCHANGED vars
      PROVE  Agrees(d)
  <2>1. (\E inst \in Insts : ExecuteInst(inst)) \/ ExecuteInstAtPc
    <3>1. (\E inst \in Insts : ExecuteInst(inst)) \/ ExecuteInstAtPc \/ Calling
      BY <1>1 DEF Next, FetchInstAtPc, FailInstAtPc, WritePC, WriteGPR, WriteCSR, ReadWriteCSR, ReadCSR,
         MappedRead, MappedWrite, CallCsr, Reset
    <3> QED
      BY <1>1, <3>1 DEF Calling
  <2>2. PICK inst, mem : ExecuteInstructionImpl(inst, mem)
    BY <2>1 DEF ExecuteInst, ExecuteInstAtPc
  <2> QED
    BY <1>1, <2>2, ExecuteAgrees
<1>2. TypeOK /\ [Next]_vars =>
        [\A d \in ran' : d.code \in {"OP_32", "OP_IMM_32"} /\ ~aborted' => Agrees(d)]_vars
  BY <1>1
<1>3. Spec => [][\A d \in ran' : d.code \in {"OP_32", "OP_IMM_32"} /\ ~aborted' => Agrees(d)]_vars
  BY <1>2, TypeCorrect, PTL DEF Spec
<1> QED
  BY <1>3 DEF WordResultsAgree, Agrees
=============================================================================

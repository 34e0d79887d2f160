------------------------ MODULE MemoryManagerProofs ------------------------
(***************************************************************************)
(* Proofs about MemoryManager for any number of harts, any memory, any     *)
(* page tables and any calls.                                              *)
(***************************************************************************)
EXTENDS MemoryManager, TranslationProofs

-----------------------------------------------------------------------------
(* Types *)

\* The results there are.
LEMMA ResultType ==
  \A c \in CallRecords, res \in Faults :
    GetTranslationResult(res, Reason(c)) \in Results /\ <<"Any", "AccessFault">> \in Results
BY DEF GetTranslationResult, Reason, Mapped, CallRecords, Kinds, Results, Reasons, Faults

\* The memory managers start with the types they should have.
LEMMA InitType == Init => TypeOK
<1> SUFFICES ASSUME Init PROVE TypeOK
  OBVIOUS
<1>1. NoEntry \in Entries
  BY DEF NoEntry, Found, Entries, WordsOf, Addresses
<1>2. (CHOOSE c \in Calls : TRUE) \in Calls
  BY CallsAssumption
<1>3. {} \in Addresses
  BY DEF Addresses, WordsOf
<1>4. <<"success">> \in Results
  BY DEF Results
<1>5. memory \in Memories /\ start \in [Harts -> Memories]
  BY ContentsAssumption DEF Init
<1>6. /\ ptAddr \in [Harts -> Addresses] /\ mode \in [Harts -> {Bare, Sv39, Sv48, Sv57}]
      /\ count \in [Harts -> Nat] /\ flags \in [Harts -> [sum : BOOLEAN, mxr : BOOLEAN]]
  BY ContentsAssumption, SettingsAssumption, FlagsAssumption DEF Init
<1>7. call \in [Harts -> Calls]
  <2> DEFINE c == CHOOSE x \in Calls : TRUE
  <2>1. c \in Calls /\ call = [h \in Harts |-> c]
    BY <1>2 DEF Init
  <2> HIDE DEF c
  <2> QED
    BY <2>1
<1>8. calls \in [Harts -> 0 .. Budget]
  BY CallsAssumption DEF Init
<1>9. /\ found \in [Harts -> Entries] /\ table \in [Harts -> Addresses]
      /\ paddr \in [Harts -> Addresses] /\ level \in [Harts -> Nat \cup {-1}]
  BY <1>1, <1>3 DEF Init
<1> QED
  BY <1>4, <1>5, <1>6, <1>7, <1>8, <1>9 DEF Init, TypeOK

\* Every step keeps the types: a store adds no bit to a doubleword, an entry is read
\* from the level it was looked for, a level is never below -1.
LEMMA NextType == TypeOK /\ [Next]_vars => TypeOK'
<1> SUFFICES ASSUME TypeOK, [Next]_vars PROVE TypeOK'
  OBVIOUS
<1> USE DEF vars, regs, local, history
<1>1. CASE UNCHANGED vars
  BY <1>1 DEF TypeOK
<1>2. ASSUME NEW h \in Harts, NEW addr \in Roots, SetPTAddr(h, addr) PROVE TypeOK'
  BY <1>2, ContentsAssumption DEF TypeOK, SetPTAddr
<1>3. ASSUME NEW h \in Harts, NEW m \in Settings, RefuseTransMode(h, m) PROVE TypeOK'
  BY <1>3 DEF TypeOK, RefuseTransMode
<1>4. ASSUME NEW h \in Harts, NEW m \in Settings, SetBareMode(h, m) PROVE TypeOK'
  BY <1>4 DEF TypeOK, SetBareMode, Bare
<1>5. ASSUME NEW h \in Harts, NEW m \in Settings, SetTransMode(h, m) PROVE TypeOK'
  <2>1. m \in {Sv39, Sv48, Sv57} /\ GetMaxPageTableLevelCount(m) \in Nat
    BY <1>5 DEF SetTransMode, TranslationModeValid, GetMaxPageTableLevelCount, Bare, Sv39, Sv48, Sv57
  <2> QED
    BY <1>5, <2>1 DEF TypeOK, SetTransMode
<1>6. ASSUME NEW h \in Harts, NEW c \in Calls, MakeCall(h, c) PROVE TypeOK'
  <2>1. NoEntry \in Entries
    BY DEF NoEntry, Found, Entries, WordsOf, Addresses
  <2>2. c.vaddr \in Addresses
    BY CallsAssumption DEF CallRecords
  <2>3. count[h] - 1 \in Nat \cup {-1}
    <3>1. count[h] \in Nat
      BY DEF TypeOK
    <3> QED
      BY <3>1
  <2>4. calls[h] + 1 \in 0 .. Budget
    <3>1. calls[h] \in 0 .. Budget /\ calls[h] < Budget /\ Budget \in Nat
      BY <1>6, CallsAssumption DEF TypeOK, MakeCall, Idle
    <3> QED
      BY <3>1
  <2> QED
    BY <1>6, <2>1, <2>2, <2>3, <2>4 DEF TypeOK, MakeCall
<1>7. ASSUME NEW h \in Harts, At(h, "walk"), NEW entry \in Entries,
             entry.kind \in {"AccessFault", "NoValidPteFound"}, FailWalk(h, entry)
      PROVE  TypeOK'
  <2>1. GetTranslationResult(entry.kind, Reason(call[h])) \in Results
    BY <1>7, ResultType, CallsAssumption DEF TypeOK, Faults
  <2> QED
    BY <1>7, <2>1 DEF TypeOK, FailWalk, Return
<1>8. ASSUME NEW h \in Harts, ReadPte(h) PROVE TypeOK'
  <2>1. level[h] \in Nat /\ call[h].vaddr \in Addresses /\ table[h] \in Addresses
    BY <1>8, CallsAssumption DEF TypeOK, ReadPte, CallRecords
  <2>2. Entry(h) \in Entries
    BY <2>1, LookType DEF TypeOK, Entry
  <2>3. ASSUME Descend(h, Entry(h)) PROVE TypeOK'
    <3>1. level[h] - 1 \in Nat \cup {-1} /\ GetPPN(Entry(h).pte) \in Addresses
      BY <2>1, FrameType
    <3> QED
      BY <2>3, <3>1 DEF TypeOK, Descend
  <2>4. ASSUME FindLeaf(h, Entry(h)) PROVE TypeOK'
    BY <2>2, <2>4 DEF TypeOK, FindLeaf
  <2>5. ASSUME FailWalk(h, Entry(h)) PROVE TypeOK'
    BY <1>7, <1>8, <2>2, <2>5 DEF ReadPte, FailWalk
  <2> QED
    BY <1>8, <2>3, <2>4, <2>5 DEF ReadPte
<1>9. ASSUME NEW h \in Harts, RunOut(h) PROVE TypeOK'
  <2> DEFINE none == Found("NoValidPteFound", {}, {}, 0)
  <2>1. none \in Entries /\ none.kind = "NoValidPteFound"
    BY DEF Found, Entries, WordsOf, Addresses
  <2>2. FailWalk(h, none) /\ At(h, "walk")
    BY <1>9 DEF RunOut
  <2> HIDE DEF none
  <2> QED
    BY <1>7, <2>1, <2>2
<1>10. ASSUME NEW h \in Harts, Refuse(h) PROVE TypeOK'
  <2>1. GetTranslationResult("PageFault", Reason(call[h])) \in Results
    BY ResultType, CallsAssumption DEF TypeOK, Faults
  <2> QED
    BY <1>10, <2>1 DEF TypeOK, Refuse, Return
<1>11. ASSUME NEW h \in Harts, MarkEntry(h) PROVE TypeOK'
  <2>1. found[h].pte \in WordsOf(64) /\ found[h].level \in Nat /\ call[h].vaddr \in Addresses
    BY CallsAssumption DEF TypeOK, Entries, CallRecords
  <2>2. memory' \in Memories
    <3>1. memory \in Memories /\ 8 \in Widths
      BY DEF TypeOK, Widths
    <3> QED
      BY <1>11, <3>1, StoreType DEF MarkEntry, Put
  <2>3. NewAddr(found[h].pte, found[h].level, call[h].vaddr) \in Addresses
    BY <2>1, NewAddrType
  <2>4. disturbed' \in [Harts -> BOOLEAN]
    BY <1>11 DEF TypeOK, MarkEntry, Put
  <2> QED
    BY <1>11, <2>2, <2>3, <2>4 DEF TypeOK, MarkEntry
<1>12. ASSUME NEW h \in Harts, ReadMemory(h) PROVE TypeOK'
  BY <1>12 DEF TypeOK, ReadMemory, Return, Results
<1>13. ASSUME NEW h \in Harts, WriteMemory(h) PROVE TypeOK'
  <2>1. memory' \in Memories
    <3>1. memory \in Memories /\ call[h].width \in Widths
      BY CallsAssumption DEF TypeOK, CallRecords
    <3> QED
      BY <1>13, <3>1, StoreType DEF WriteMemory, Put
  <2>2. disturbed' \in [Harts -> BOOLEAN]
    BY <1>13 DEF TypeOK, WriteMemory, Put
  <2> QED
    BY <1>13, <2>1, <2>2 DEF TypeOK, WriteMemory, Return, Results
<1>14. ASSUME NEW h \in Harts, MissMemory(h) PROVE TypeOK'
  <2>1. <<"Any", "AccessFault">> \in Results
    BY DEF Results, Reasons, Faults
  <2> QED
    BY <1>14, <2>1 DEF TypeOK, MissMemory, Return
<1> QED
  BY <1>1, <1>2, <1>3, <1>4, <1>5, <1>6, <1>8, <1>9, <1>10, <1>11, <1>12, <1>13, <1>14
     DEF Next, Set, Step

\* Memory, the registers and the calls always have the types they are declared with:
\* no address, entry or page table, however malformed, takes a call out of its states.
THEOREM TypeCorrect == Spec => []TypeOK
<1> QED
  BY InitType, NextType, PTL DEF Spec

-----------------------------------------------------------------------------
(* One hart's call *)

Acts(h) == Set(h) \/ (\E c \in Calls : MakeCall(h, c)) \/ Step(h)

\* A step of one hart leaves the call of another as it is; and memory too, or that
\* hart has been disturbed.
LEMMA OthersStay ==
  ASSUME TypeOK, NEW h \in Harts, Acts(h), NEW g \in Harts, g # h
  PROVE  /\ pc'[g] = pc[g] /\ call'[g] = call[g] /\ table'[g] = table[g] /\ level'[g] = level[g]
         /\ found'[g] = found[g] /\ paddr'[g] = paddr[g] /\ result'[g] = result[g]
         /\ start'[g] = start[g] /\ ptAddr'[g] = ptAddr[g] /\ flags'[g] = flags[g]
         /\ count'[g] = count[g]
         /\ ~disturbed'[g] => ~disturbed[g] /\ memory' = memory
<1> USE DEF vars, regs, local, history
<1>1. CASE Set(h)
  BY <1>1 DEF Set, SetPTAddr, RefuseTransMode, SetBareMode, SetTransMode, TypeOK
<1>2. ASSUME NEW c \in Calls, MakeCall(h, c)
      PROVE  /\ pc'[g] = pc[g] /\ call'[g] = call[g] /\ table'[g] = table[g] /\ level'[g] = level[g]
             /\ found'[g] = found[g] /\ paddr'[g] = paddr[g] /\ result'[g] = result[g]
             /\ start'[g] = start[g] /\ ptAddr'[g] = ptAddr[g] /\ flags'[g] = flags[g]
             /\ count'[g] = count[g]
             /\ ~disturbed'[g] => ~disturbed[g] /\ memory' = memory
  BY <1>2 DEF MakeCall, TypeOK
<1>3. CASE ReadPte(h) \/ RunOut(h)
  BY <1>3 DEF ReadPte, RunOut, Descend, FindLeaf, FailWalk, Return, TypeOK
<1>4. CASE Refuse(h) \/ ReadMemory(h) \/ MissMemory(h)
  BY <1>4 DEF Refuse, ReadMemory, MissMemory, Return, TypeOK
<1>5. CASE MarkEntry(h)
  BY <1>5 DEF MarkEntry, Put, TypeOK
<1>6. CASE WriteMemory(h)
  BY <1>6 DEF WriteMemory, Put, Return, TypeOK
<1> QED
  BY <1>1, <1>2, <1>3, <1>4, <1>5, <1>6 DEF Acts, Step

\* The parts of the invariant, for one hart.  Until its mark, a call has written
\* nothing, and neither has it when it ends in a page fault.
Quiet(h) ==
  /\ pc[h] \in {"walk", "mark"} /\ ~disturbed[h] => memory = start[h]
  /\ pc[h] = "idle" /\ result[h] \in Reasons \X {"PageFault", "NoValidPteFound"}
       /\ ~disturbed[h] => memory = start[h]

\* What is accessed through an entry is granted by it, at the address it leads to.
Granted(h) ==
  pc[h] = "access" /\ found[h].kind = "leaf" =>
    /\ LevelAllowed(found[h].pte, LevelOf(call[h]), flags[h].sum)
    /\ ReasonAllowed(found[h].pte, Reason(call[h]), flags[h].mxr)
    /\ paddr[h] = NewAddr(found[h].pte, found[h].level, call[h].vaddr)

\* The entry found is still there when it is marked.
Fresh(h) ==
  pc[h] = "mark" /\ ~disturbed[h] =>
    Present(8, found[h].pteAddr) /\ found[h].pte = Load(memory, 8, found[h].pteAddr)

CallInv(h) == Quiet(h) /\ Granted(h) /\ Fresh(h)
IInv == TypeOK /\ \A h \in Harts : CallInv(h)

\* Reading an entry, or failing to, is no write.
LEMMA WalkStep ==
  ASSUME TypeOK, NEW h \in Harts, CallInv(h), ReadPte(h) \/ RunOut(h) PROVE CallInv(h)'
<1> USE DEF regs, local, history
<1>1. At(h, "walk") /\ memory' = memory /\ start' = start /\ disturbed' = disturbed
  BY DEF ReadPte, RunOut, Descend, FindLeaf, FailWalk
<1>2. pc'[h] \in {"walk", "mark", "idle"}
  BY DEF ReadPte, RunOut, Descend, FindLeaf, FailWalk, Return, At, TypeOK
<1>3. Quiet(h)'
  BY <1>1, <1>2 DEF Quiet, CallInv, At
<1>4. Granted(h)'
  BY <1>2 DEF Granted
<1>5. ASSUME pc'[h] = "mark" PROVE found'[h] = Entry(h) /\ Entry(h).kind = "leaf" /\ level[h] \in Nat
  BY <1>1, <1>5 DEF ReadPte, RunOut, Descend, FindLeaf, FailWalk, Return, At, TypeOK
<1>6. Fresh(h)'
  <2> SUFFICES ASSUME pc'[h] = "mark"
               PROVE  /\ Present(8, found'[h].pteAddr)
                      /\ found'[h].pte = Load(memory', 8, found'[h].pteAddr)
    BY DEF Fresh
  <2>1. call[h].vaddr \in Addresses /\ table[h] \in Addresses /\ memory \in Memories
    BY CallsAssumption DEF TypeOK, CallRecords
  <2> QED
    BY <1>1, <1>5, <2>1, LookType DEF Entry
<1> QED
  BY <1>3, <1>4, <1>6 DEF CallInv

\* A hart's own step keeps its call's part of the invariant.
LEMMA OwnStep == ASSUME TypeOK, NEW h \in Harts, CallInv(h), Acts(h) PROVE CallInv(h)'
<1> USE DEF regs, local, history
<1>1. CASE Set(h)
  BY <1>1 DEF Set, SetPTAddr, RefuseTransMode, SetBareMode, SetTransMode, vars, Idle, At,
              CallInv, Quiet, Granted, Fresh
<1>2. ASSUME NEW c \in Calls, MakeCall(h, c) PROVE CallInv(h)'
  <2>1. /\ pc'[h] \in {"walk", "access"} /\ memory' = memory /\ start'[h] = memory
        /\ found'[h].kind = "none"
    BY <1>2 DEF MakeCall, TypeOK, NoEntry, Found
  <2> QED
    BY <2>1 DEF CallInv, Quiet, Granted, Fresh
<1>3. CASE ReadPte(h) \/ RunOut(h)
  BY <1>3, WalkStep
<1>4. CASE Refuse(h)
  <2>1. /\ pc[h] = "mark" /\ pc'[h] = "idle" /\ memory' = memory /\ start' = start
        /\ disturbed' = disturbed
    BY <1>4 DEF Refuse, Return, At, TypeOK
  <2> QED
    BY <2>1 DEF CallInv, Quiet, Granted, Fresh
<1>5. CASE MarkEntry(h)
  <2>1. /\ Allowed(h) /\ pc'[h] = "access" /\ UNCHANGED <<found, call, flags>>
        /\ paddr'[h] = NewAddr(found[h].pte, found[h].level, call[h].vaddr)
    BY <1>5 DEF MarkEntry, TypeOK
  <2> QED
    BY <2>1 DEF CallInv, Quiet, Granted, Fresh, Allowed
<1>6. CASE ReadMemory(h) \/ WriteMemory(h)
  <2>1. pc'[h] = "idle" /\ result'[h] = <<"success">>
    BY <1>6 DEF ReadMemory, WriteMemory, Return, TypeOK
  <2>2. <<"success">> \notin Reasons \X {"PageFault", "NoValidPteFound"}
    OBVIOUS
  <2> QED
    BY <2>1, <2>2 DEF CallInv, Quiet, Granted, Fresh
<1>7. CASE MissMemory(h)
  <2>1. pc'[h] = "idle" /\ result'[h] = <<"Any", "AccessFault">>
    BY <1>7 DEF MissMemory, Return, TypeOK
  <2> QED
    BY <2>1 DEF CallInv, Quiet, Granted, Fresh
<1> QED
  BY <1>1, <1>2, <1>3, <1>4, <1>5, <1>6, <1>7 DEF Acts, Step

\* The invariant holds at first and is kept by every step.
LEMMA Inductive == (Init => IInv) /\ (IInv /\ [Next]_vars => IInv')
<1>1. ASSUME Init PROVE IInv
  <2>1. \A h \in Harts : pc[h] = "idle" /\ result[h] = <<"success">>
    BY <1>1 DEF Init
  <2>2. <<"success">> \notin Reasons \X {"PageFault", "NoValidPteFound"}
    OBVIOUS
  <2> QED
    BY <1>1, <2>1, <2>2, InitType DEF IInv, CallInv, Quiet, Granted, Fresh
<1>2. ASSUME IInv, [Next]_vars PROVE IInv'
  <2>1. TypeOK'
    BY <1>2, NextType DEF IInv
  <2>2. CASE UNCHANGED vars
    BY <1>2, <2>1, <2>2 DEF IInv, CallInv, Quiet, Granted, Fresh, vars, regs, local, history
  <2>3. ASSUME NEW h \in Harts, Acts(h), NEW g \in Harts PROVE CallInv(g)'
    <3>1. CASE g = h
      BY <1>2, <2>3, <3>1, OwnStep DEF IInv
    <3>2. CASE g # h
      <4>1. CallInv(g) /\ TypeOK
        BY <1>2 DEF IInv
      <4>2. /\ pc'[g] = pc[g] /\ call'[g] = call[g] /\ found'[g] = found[g]
            /\ paddr'[g] = paddr[g] /\ result'[g] = result[g]
            /\ start'[g] = start[g] /\ flags'[g] = flags[g]
            /\ ~disturbed'[g] => ~disturbed[g] /\ memory' = memory
        BY <2>3, <3>2, <4>1, OthersStay
      <4> QED
        BY <4>1, <4>2 DEF CallInv, Quiet, Granted, Fresh
    <3> QED
      BY <3>1, <3>2
  <2> QED
    BY <1>2, <2>1, <2>2, <2>3 DEF IInv, Next, Acts
<1> QED
  BY <1>1, <1>2

\* The invariant holds in every state.
LEMMA Invariant == Spec => []IInv
<1> QED
  BY Inductive, PTL DEF Spec

-----------------------------------------------------------------------------
(* What follows from it *)

\* A call that ends in a page fault has written nothing: neither a table it went
\* through nor the entry that refused it.
THEOREM FaultsLeaveMemory == Spec => []FaultsWriteNothing
<1>1. IInv => FaultsWriteNothing
  BY DEF IInv, CallInv, Quiet, FaultsWriteNothing
<1> QED
  BY <1>1, Invariant, PTL

\* No access goes through an entry that does not grant it, for any tables and any
\* flags, whatever the other harts write during the walk.
THEOREM AccessesAreGranted == Spec => []OnlyGrantedAccesses
<1>1. IInv => OnlyGrantedAccesses
  <2> SUFFICES ASSUME IInv, NEW h \in Harts, pc[h] = "access", found[h].kind = "leaf",
                      ~Mapped(call[h])
               PROVE  /\ call[h].level = User => U \in found[h].pte
                      /\ call[h].level = Supervisor => U \notin found[h].pte \/ flags[h].sum
                      /\ call[h].kind = "Read" =>
                           R \in found[h].pte \/ (flags[h].mxr /\ X \in found[h].pte)
                      /\ call[h].kind = "Write" => W \in found[h].pte
                      /\ call[h].kind = "Fetch" => X \in found[h].pte
    BY DEF OnlyGrantedAccesses
  <2>1. /\ LevelAllowed(found[h].pte, LevelOf(call[h]), flags[h].sum)
        /\ ReasonAllowed(found[h].pte, Reason(call[h]), flags[h].mxr)
    BY DEF IInv, CallInv, Granted
  <2> QED
    BY <2>1 DEF LevelAllowed, ReasonAllowed, LevelOf, Reason, Mapped
<1> QED
  BY <1>1, Invariant, PTL

\* What lies above the page's offset is the frame's alone.
LEMMA AboveIsFrame ==
  ASSUME NEW pte, NEW lvl \in Nat, NEW vaddr
  PROVE  NewAddr(pte, lvl, vaddr) \ PageBits(lvl) = GetPPN(pte) \ PageBits(lvl)
<1>1. 0 .. 11 \subseteq PageBits(lvl)
  BY DEF PageBits, VPNPartSize
<1>2. 12 .. 11 + VPNPartSize * lvl \subseteq PageBits(lvl)
  BY DEF PageBits, VPNPartSize
<1> QED
  BY <1>1, <1>2 DEF NewAddr

\* Pages of one size with different frames have no address in common, however many
\* levels the tables have and wherever their entries point.
THEOREM FramesApart == Spec => []FramesStayApart
<1>1. IInv => FramesStayApart
  <2> SUFFICES ASSUME IInv, NEW g \in Harts, NEW h \in Harts, InAlignedFrame(g), InAlignedFrame(h),
                      found[g].level = found[h].level, paddr[g] = paddr[h]
               PROVE  Frame(g) = Frame(h)
    BY DEF FramesStayApart
  <2>1. found[g].level \in Nat /\ found[h].level \in Nat
    BY DEF IInv, TypeOK, Entries
  <2>2. /\ paddr[g] = NewAddr(found[g].pte, found[g].level, call[g].vaddr)
        /\ paddr[h] = NewAddr(found[h].pte, found[h].level, call[h].vaddr)
    BY DEF IInv, CallInv, Granted, InAlignedFrame
  <2>3. /\ paddr[g] \ PageBits(found[g].level) = Frame(g)
        /\ paddr[h] \ PageBits(found[h].level) = Frame(h)
    <3>1. NewAddr(found[g].pte, found[g].level, call[g].vaddr) \ PageBits(found[g].level)
            = GetPPN(found[g].pte) \ PageBits(found[g].level)
      BY <2>1, AboveIsFrame
    <3>2. NewAddr(found[h].pte, found[h].level, call[h].vaddr) \ PageBits(found[h].level)
            = GetPPN(found[h].pte) \ PageBits(found[h].level)
      BY <2>1, AboveIsFrame
    <3> QED
      BY <2>2, <3>1, <3>2 DEF Frame
  <2>4. PageBits(found[g].level) = PageBits(found[h].level)
    OBVIOUS
  <2> QED
    BY <2>3, <2>4
<1> QED
  BY <1>1, Invariant, PTL

-----------------------------------------------------------------------------
(* With page tables at aligned addresses, as satp gives them *)

AlignedRoots == \A root \in Roots \cup LeftRoots : root \cap 0 .. 2 = {}

Aligned(h) ==
  /\ ptAddr[h] \cap 0 .. 2 = {}
  /\ table[h] \cap 0 .. 2 = {}
  /\ pc[h] = "mark" => found[h].pteAddr \cap 0 .. 2 = {}

AInv == IInv /\ \A h \in Harts : Aligned(h)

\* Tables stay aligned: a frame's address is, and so are the places of a table's entries.
LEMMA AlignedStep ==
  ASSUME AlignedRoots, TypeOK, NEW h \in Harts, Aligned(h), Acts(h) PROVE Aligned(h)'
<1> USE DEF regs, local, history
<1>1. ASSUME NEW addr \in Roots, SetPTAddr(h, addr) PROVE Aligned(h)'
  <2>1. ptAddr'[h] = addr /\ addr \cap 0 .. 2 = {} /\ UNCHANGED <<table, pc, found>>
    BY <1>1 DEF SetPTAddr, AlignedRoots, TypeOK
  <2> QED
    BY <2>1 DEF Aligned
<1>2. CASE Set(h) /\ UNCHANGED ptAddr
  BY <1>2 DEF Set, SetPTAddr, RefuseTransMode, SetBareMode, SetTransMode, vars, Aligned
<1>3. ASSUME NEW c \in Calls, MakeCall(h, c) PROVE Aligned(h)'
  BY <1>3 DEF MakeCall, Aligned, TypeOK
<1>4. CASE ReadPte(h)
  <2>1. /\ call[h].vaddr \in Addresses /\ table[h] \in Addresses /\ memory \in Memories
        /\ level[h] \in Nat
    BY <1>4, CallsAssumption DEF TypeOK, CallRecords, ReadPte
  <2>2. Entry(h).pteAddr \cap 0 .. 2 = {}
    <3>1. Entry(h).pteAddr = PteAddr(table[h], call[h].vaddr, level[h])
      BY <2>1, LookType DEF Entry
    <3>2. table[h] \cap 0 .. 2 = {}
      BY DEF Aligned
    <3> QED
      BY <2>1, <3>1, <3>2, PteAddrType
  <2>3. CASE Descend(h, Entry(h))
    <3>1. table'[h] = GetPPN(Entry(h).pte) /\ UNCHANGED <<ptAddr, pc, found>>
      BY <2>3 DEF Descend, TypeOK
    <3>2. GetPPN(Entry(h).pte) \cap 0 .. 2 = {}
      BY FrameType
    <3> QED
      BY <3>1, <3>2 DEF Aligned
  <2>4. CASE FindLeaf(h, Entry(h))
    BY <2>2, <2>4 DEF FindLeaf, Aligned, TypeOK
  <2>5. CASE FailWalk(h, Entry(h))
    BY <2>5 DEF FailWalk, Return, Aligned, TypeOK
  <2> QED
    BY <1>4, <2>3, <2>4, <2>5 DEF ReadPte
<1>5. CASE RunOut(h)
  BY <1>5 DEF RunOut, FailWalk, Return, Aligned, TypeOK
<1>6. CASE Refuse(h) \/ ReadMemory(h) \/ MissMemory(h)
  BY <1>6 DEF Refuse, ReadMemory, MissMemory, Return, Aligned, TypeOK
<1>7. CASE MarkEntry(h)
  BY <1>7 DEF MarkEntry, Aligned, TypeOK
<1>8. CASE WriteMemory(h)
  BY <1>8 DEF WriteMemory, Return, Aligned, TypeOK
<1>9. Set(h) => UNCHANGED ptAddr \/ \E addr \in Roots : SetPTAddr(h, addr)
  BY DEF Set, RefuseTransMode, SetBareMode, SetTransMode, vars
<1> QED
  BY <1>1, <1>2, <1>3, <1>4, <1>5, <1>6, <1>7, <1>8, <1>9 DEF Acts, Step

\* Every state has aligned tables.
LEMMA AlignedInvariant == ASSUME AlignedRoots PROVE Spec => []AInv
<1>1. Init => AInv
  <2> SUFFICES ASSUME Init PROVE \A h \in Harts : Aligned(h)
    BY Inductive DEF AInv
  <2> QED
    BY DEF Init, Aligned, AlignedRoots
<1>2. AInv /\ [Next]_vars => AInv'
  <2> SUFFICES ASSUME AInv, [Next]_vars PROVE AInv'
    OBVIOUS
  <2>1. IInv'
    BY Inductive DEF AInv
  <2>2. CASE UNCHANGED vars
    BY <2>1, <2>2 DEF AInv, Aligned, vars, regs, local, history
  <2>3. ASSUME NEW h \in Harts, Acts(h), NEW g \in Harts PROVE Aligned(g)'
    <3>1. TypeOK /\ Aligned(g)
      BY DEF AInv, IInv
    <3>2. CASE g = h
      BY <2>3, <3>1, <3>2, AlignedStep
    <3>3. CASE g # h
      <4>1. ptAddr'[g] = ptAddr[g] /\ table'[g] = table[g] /\ pc'[g] = pc[g] /\ found'[g] = found[g]
        BY <2>3, <3>1, <3>3, OthersStay
      <4> QED
        BY <3>1, <4>1 DEF Aligned
    <3> QED
      BY <3>2, <3>3
  <2> QED
    BY <2>1, <2>2, <2>3 DEF AInv, Next, Acts
<1> QED
  BY <1>1, <1>2, PTL DEF Spec

\* Unless another hart wrote during the walk, an entry that is written back differs
\* from memory in its accessed and dirty bits only, and nothing else is touched.  An
\* entry that straddled two doublewords would not be, so the roots must be aligned.
THEOREM MarksAdd == ASSUME AlignedRoots PROVE Spec => MarksOnlyAdd
<1>1. AInv /\ [Next]_vars =>
        [\A h \in Harts : MarkEntry(h) /\ ~disturbed[h] =>
           \A d \in Backed : memory[d] \subseteq memory'[d]
                             /\ memory'[d] \subseteq memory[d] \cup {A, D}]_vars
  <2> SUFFICES ASSUME AInv, NEW h \in Harts, MarkEntry(h), ~disturbed[h]
               PROVE  Adds(memory, memory')
    BY DEF Adds
  <2>1. memory \in Memories /\ found[h].pteAddr \in Addresses
    BY DEF AInv, IInv, TypeOK, Entries
  <2>2. /\ found[h].pteAddr \cap 0 .. 2 = {} /\ Present(8, found[h].pteAddr)
        /\ found[h].pte = Load(memory, 8, found[h].pteAddr)
    BY DEF AInv, IInv, CallInv, Fresh, Aligned, MarkEntry, At
  <2> QED
    BY <2>1, <2>2, MarkAdds DEF MarkEntry, Put
<1> QED
  BY <1>1, AlignedInvariant, PTL DEF Spec, MarksOnlyAdd

-----------------------------------------------------------------------------
(* The walk level by level and the walk as a whole *)

\* What the tables of memory as the call found it hold at a level.
OnPath(h) == Tables(start[h], ptAddr[h], count[h], call[h].vaddr)
EntryOnPath(h, lvl) == Look(start[h], OnPath(h)[lvl], call[h].vaddr, lvl)

\* A walk that no other hart has disturbed is at the table that GetPteImpl has for its
\* level, after an entry that points to a table at each level above.
Walking(h) ==
  pc[h] = "walk" /\ ~disturbed[h] =>
    /\ level[h] \in -1 .. count[h] - 1
    /\ level[h] >= 0 => table[h] = OnPath(h)[level[h]]
    /\ \A above \in level[h] + 1 .. count[h] - 1 : EntryOnPath(h, above).kind = "table"

WInv == IInv /\ \A h \in Harts : Walking(h)

\* A call begins at the root.
LEMMA CallWalks ==
  ASSUME IInv, NEW h \in Harts, NEW c \in Calls, MakeCall(h, c) PROVE Walking(h)'
<1>1. /\ level'[h] = count[h] - 1 /\ table'[h] = ptAddr[h] /\ UNCHANGED <<ptAddr, count>>
  BY DEF MakeCall, IInv, TypeOK, regs
<1>2. count[h] \in Nat
  BY DEF IInv, TypeOK
<1>3. ASSUME level'[h] >= 0 PROVE OnPath(h)'[level'[h]] = ptAddr[h]
  <2>1. count'[h] \in Nat \ {0} /\ level'[h] = count'[h] - 1
    BY <1>1, <1>2, <1>3
  <2>2. Tables(start'[h], ptAddr'[h], count'[h], call'[h].vaddr)[count'[h] - 1] = ptAddr'[h]
    BY <2>1, RootIsHighest
  <2> QED
    BY <1>1, <2>2 DEF OnPath
<1> QED
  BY <1>1, <1>2, <1>3 DEF Walking

\* The entry read is the one on the path, and the next table is where it points.
LEMMA ReadWalks ==
  ASSUME IInv, NEW h \in Harts, Walking(h), ReadPte(h)
  PROVE  /\ Walking(h)'
         /\ pc'[h] # "walk" /\ ~disturbed[h] =>
              found'[h] = GetPteImpl(start[h], ptAddr[h], count[h], call[h].vaddr)
<1> DEFINE entry == Entry(h)
           path == OnPath(h)
<1>1. CASE disturbed[h]
  BY <1>1 DEF ReadPte, Descend, FindLeaf, FailWalk, Walking, history
<1>2. CASE ~disturbed[h]
  <2>1. /\ At(h, "walk") /\ level[h] >= 0 /\ count[h] \in Nat /\ level[h] \in 0 .. count[h] - 1
        /\ UNCHANGED <<start, ptAddr, count, call>>
    BY <1>2 DEF ReadPte, Walking, At, IInv, TypeOK, Descend, FindLeaf, FailWalk, regs, history
  <2>2. /\ table[h] = path[level[h]] /\ memory = start[h]
        /\ \A above \in level[h] + 1 .. count[h] - 1 : EntryOnPath(h, above).kind = "table"
    BY <1>2, <2>1 DEF Walking, At, IInv, CallInv, Quiet
  <2>3. entry = EntryOnPath(h, level[h])
    BY <2>2 DEF Entry, EntryOnPath
  <2>4. UNCHANGED path /\ \A lvl : EntryOnPath(h, lvl)' = EntryOnPath(h, lvl)
    BY <2>1 DEF OnPath, EntryOnPath
  <2>5. CASE Descend(h, entry)
    <3>1. /\ level'[h] = level[h] - 1 /\ table'[h] = GetPPN(entry.pte) /\ entry.kind = "table"
          /\ pc'[h] = "walk"
      BY <2>1, <2>5 DEF Descend, At, IInv, TypeOK
    <3>2. level'[h] >= 0 => path[level'[h]] = GetPPN(entry.pte)
      <4>1. ASSUME level'[h] >= 0
            PROVE  /\ level'[h] \in 0 .. count[h] - 1 /\ level'[h] # count[h] - 1
                   /\ level'[h] + 1 = level[h]
        BY <2>1, <3>1, <4>1
      <4> QED
        BY <2>1, <2>3, <4>1, TablesAre DEF OnPath, EntryOnPath
    <3>3. \A above \in level'[h] + 1 .. count[h] - 1 : EntryOnPath(h, above).kind = "table"
      <4>1. \A above \in level'[h] + 1 .. count[h] - 1 :
              above = level[h] \/ above \in level[h] + 1 .. count[h] - 1
        BY <2>1, <3>1
      <4> QED
        BY <2>2, <2>3, <3>1, <4>1
    <3>4. level'[h] \in -1 .. count'[h] - 1
      BY <2>1, <3>1
    <3> HIDE DEF entry, path
    <3>5. (OnPath(h))' = path
      BY <2>4 DEF path
    <3> QED
      BY <2>1, <2>4, <3>1, <3>2, <3>3, <3>4, <3>5 DEF Walking
  <2>6. CASE FindLeaf(h, entry) \/ FailWalk(h, entry)
    <3>1. found'[h] = entry /\ pc'[h] # "walk" /\ entry.kind # "table"
      BY <2>6 DEF FindLeaf, FailWalk, Return, IInv, TypeOK
    <3>2. entry = GetPteImpl(start[h], ptAddr[h], count[h], call[h].vaddr)
      BY <2>1, <2>2, <2>3, <3>1, WalkEnds DEF EntryOnPath, OnPath
    <3> QED
      BY <3>1, <3>2 DEF Walking
  <2> QED
    BY <2>5, <2>6 DEF ReadPte
<1> QED
  BY <1>1, <1>2

\* A walk that runs out of levels has seen none but tables.
LEMMA RunOutWalks ==
  ASSUME IInv, NEW h \in Harts, Walking(h), RunOut(h)
  PROVE  /\ Walking(h)'
         /\ ~disturbed[h] => found'[h] = GetPteImpl(start[h], ptAddr[h], count[h], call[h].vaddr)
<1>1. /\ pc'[h] = "idle" /\ found'[h] = Found("NoValidPteFound", {}, {}, 0)
      /\ At(h, "walk") /\ level[h] < 0 /\ count[h] \in Nat
  BY DEF RunOut, FailWalk, Return, IInv, TypeOK
<1>2. ASSUME ~disturbed[h]
      PROVE  \A lvl \in 0 .. count[h] - 1 : EntryOnPath(h, lvl).kind = "table"
  BY <1>1, <1>2 DEF Walking, At
<1> QED
  BY <1>1, <1>2, WalkEnds DEF Walking, EntryOnPath, OnPath

\* Only reading entries ends a walk, and no other step of a hart is in one.
LEMMA OwnWalks ==
  ASSUME IInv, NEW h \in Harts, Walking(h), Acts(h)
  PROVE  /\ Walking(h)'
         /\ pc[h] = "walk" /\ pc'[h] # "walk" /\ ~disturbed[h] =>
              found'[h] = GetPteImpl(start[h], ptAddr[h], count[h], call[h].vaddr)
<1>1. CASE Set(h)
  <2>1. pc[h] = "idle" /\ pc' = pc
    BY <1>1 DEF Set, SetPTAddr, RefuseTransMode, SetBareMode, SetTransMode, Idle, At, vars, local
  <2> QED
    BY <2>1 DEF Walking
<1>2. ASSUME NEW c \in Calls, MakeCall(h, c)
      PROVE  Walking(h)' /\ pc[h] = "idle"
  BY <1>2, CallWalks DEF MakeCall, Idle, At
<1>3. CASE Refuse(h) \/ MarkEntry(h) \/ ReadMemory(h) \/ WriteMemory(h) \/ MissMemory(h)
  <2>1. pc[h] # "walk" /\ pc'[h] # "walk"
    BY <1>3 DEF Refuse, MarkEntry, ReadMemory, WriteMemory, MissMemory, Return, At, IInv, TypeOK
  <2> QED
    BY <2>1 DEF Walking
<1> QED
  BY <1>1, <1>2, <1>3, ReadWalks, RunOutWalks DEF Acts, Step

\* A walk is on the path in every state, and what it ends with is the path's end.
LEMMA PathStep ==
  ASSUME WInv, [Next]_vars
  PROVE  /\ WInv'
         /\ \A h \in Harts : pc[h] = "walk" /\ pc'[h] # "walk" /\ ~disturbed[h] =>
              found'[h] = GetPteImpl(start[h], ptAddr[h], count[h], call[h].vaddr)
<1>1. IInv /\ IInv'
  BY Inductive DEF WInv
<1>2. CASE UNCHANGED vars
  <2>1. UNCHANGED <<pc, disturbed, level, count, table, start, ptAddr, call>>
    BY <1>2 DEF vars, regs, local, history
  <2>2. \A h \in Harts : Walking(h)'
    BY <2>1 DEF WInv, Walking, OnPath, EntryOnPath
  <2> QED
    BY <1>1, <2>1, <2>2 DEF WInv
<1>3. ASSUME NEW h \in Harts, Acts(h), NEW g \in Harts
      PROVE  /\ Walking(g)'
             /\ pc[g] = "walk" /\ pc'[g] # "walk" /\ ~disturbed[g] =>
                  found'[g] = GetPteImpl(start[g], ptAddr[g], count[g], call[g].vaddr)
  <2>1. CASE g = h
    BY <1>1, <1>3, <2>1, OwnWalks DEF WInv
  <2>2. CASE g # h
    <3>1. /\ pc'[g] = pc[g] /\ call'[g] = call[g] /\ table'[g] = table[g] /\ level'[g] = level[g]
          /\ start'[g] = start[g] /\ ptAddr'[g] = ptAddr[g] /\ count'[g] = count[g]
          /\ ~disturbed'[g] => ~disturbed[g]
      BY <1>1, <1>3, <2>2, OthersStay DEF IInv
    <3>2. OnPath(g)' = OnPath(g) /\ \A lvl : EntryOnPath(g, lvl)' = EntryOnPath(g, lvl)
      BY <3>1 DEF OnPath, EntryOnPath
    <3> QED
      BY <3>1, <3>2 DEF WInv, Walking
  <2> QED
    BY <2>1, <2>2
<1> QED
  BY <1>1, <1>2, <1>3 DEF WInv, Next, Acts

\* Unless another hart writes in between, the walk that reads one entry per step finds
\* what GetPteImpl, reading them all at once, finds in the memory of the call's start:
\* for any tables, those that point back at themselves included, and any level count.
THEOREM UndisturbedWalks == Spec => UndisturbedIsAtomic
<1>1. Init => WInv
  BY Inductive DEF Init, WInv, Walking
<1>2. WInv /\ [Next]_vars => WInv'
  BY PathStep
<1>3. WInv /\ [Next]_vars =>
        [\A h \in Harts : pc[h] = "walk" /\ pc'[h] # "walk" /\ ~disturbed[h] =>
           found'[h] = GetPteImpl(start[h], ptAddr[h], count[h], call[h].vaddr)]_vars
  BY PathStep
<1> QED
  BY <1>1, <1>2, <1>3, PTL DEF Spec, UndisturbedIsAtomic
=============================================================================

--------------------------- MODULE MemoryManager ---------------------------
(***************************************************************************)
(* detail::MemoryManager (Sources/cpu/detail/cpu_MemoryManager.cpp): the   *)
(* memory managers of several harts, each with the registers it translates *)
(* with, over one memory that holds the page tables too.                   *)
(*                                                                         *)
(* A call reads one page table entry per step, then checks the entry it    *)
(* found and writes it back marked, then makes its access: the harts run   *)
(* in threads of their own and may write in between.                       *)
(***************************************************************************)
EXTENDS Translation

CONSTANTS Harts,
          Contents,     \* what memory may hold at first
          Roots,        \* the addresses given to SetPTAddr
          LeftRoots,    \* what m_PTAddr may hold before that
          Settings,     \* the modes given to SetTransMode
          LeftCounts,   \* what m_PTLevelCount may hold before it is set
          LeftFlags,    \* what m_EnableSUM and m_EnableMXR, which nothing sets, hold
          Calls,        \* the calls made: kind, level, width, vaddr and word
          Budget        \* bound: calls of each hart, which rests after them

Kinds == {"Read", "Write", "Fetch", "MappedRead", "MappedWrite"}
CallRecords == [kind : Kinds, level : Levels, width : Widths,
                vaddr : Addresses, word : WordsOf(64)]

ASSUME ContentsAssumption == Contents \subseteq Memories /\ Roots \cup LeftRoots \subseteq Addresses
ASSUME SettingsAssumption == Settings \subseteq Modes /\ LeftCounts \subseteq Nat
ASSUME FlagsAssumption == LeftFlags \subseteq [sum : BOOLEAN, mxr : BOOLEAN]
ASSUME CallsAssumption == Calls # {} /\ Calls \subseteq CallRecords /\ Budget \in Nat

VARIABLES
  memory,    \* the doublewords of memory
  ptAddr,    \* m_PTAddr of each hart
  mode,      \* m_Mode
  count,     \* m_PTLevelCount
  flags,     \* m_EnableSUM, m_EnableMXR
  aborted,   \* diag::UnexpectedDefault was called: the program is over
  pc,        \* where the hart's call is
  call,      \* the call's arguments
  table,     \* GetPteImpl: curPT
  level,     \* GetPteImpl: curLevel
  found,     \* TranslateImpl: the entry found, its address and its level
  paddr,     \* the address to access
  result,    \* the result of the hart's last call
  calls,     \* calls the hart has made
  start,     \* history: memory when the hart's call began
  disturbed  \* history: another hart wrote memory since then

regs == <<ptAddr, mode, count, flags>>
local == <<pc, call, table, level, found, paddr, result>>
history == <<calls, start, disturbed>>
vars == <<memory, regs, aborted, local, history>>

NoEntry == Found("none", {}, {}, 0)

Faults == {"AccessFault", "PageFault", "NoValidPteFound"}
Results == {<<"success">>} \cup (Reasons \X Faults)

TypeOK ==
  /\ memory \in Memories
  /\ ptAddr \in [Harts -> Addresses]
  /\ mode \in [Harts -> {Bare, Sv39, Sv48, Sv57}]
  /\ count \in [Harts -> Nat]
  /\ flags \in [Harts -> [sum : BOOLEAN, mxr : BOOLEAN]]
  /\ aborted \in BOOLEAN
  /\ pc \in [Harts -> {"idle", "walk", "mark", "access"}]
  /\ call \in [Harts -> Calls]
  /\ table \in [Harts -> Addresses]
  /\ level \in [Harts -> Nat \cup {-1}]
  /\ found \in [Harts -> Entries]
  /\ paddr \in [Harts -> Addresses]
  /\ result \in [Harts -> Results]
  /\ calls \in [Harts -> 0 .. Budget]
  /\ start \in [Harts -> Memories]
  /\ disturbed \in [Harts -> BOOLEAN]

Init ==
  /\ memory \in Contents
  /\ ptAddr \in [Harts -> LeftRoots]
  /\ mode = [h \in Harts |-> Bare]
  /\ count \in [Harts -> LeftCounts]
  /\ flags \in [Harts -> LeftFlags]
  /\ aborted = FALSE
  /\ pc = [h \in Harts |-> "idle"]
  /\ call = [h \in Harts |-> CHOOSE c \in Calls : TRUE]
  /\ table = [h \in Harts |-> {}]
  /\ level = [h \in Harts |-> 0]
  /\ found = [h \in Harts |-> NoEntry]
  /\ paddr = [h \in Harts |-> {}]
  /\ result = [h \in Harts |-> <<"success">>]
  /\ calls = [h \in Harts |-> 0]
  /\ start = [h \in Harts |-> memory]
  /\ disturbed = [h \in Harts |-> FALSE]

-----------------------------------------------------------------------------
(* The registers: a hart writes its own, between its calls *)

At(h, place) == pc[h] = place /\ ~aborted

\* Between two calls, and before the last one that the bound leaves.
Idle(h) == At(h, "idle") /\ calls[h] < Budget

SetPTAddr(h, addr) ==
  /\ Idle(h)
  /\ ptAddr' = [ptAddr EXCEPT ![h] = addr]
  /\ UNCHANGED <<memory, mode, count, flags, aborted, local, history>>

\* ResultInvalidTranslationMode: nothing changes.
RefuseTransMode(h, m) ==
  /\ Idle(h)
  /\ ~TranslationModeValid(m)
  /\ UNCHANGED vars

\* The mode is set, then there is no level count for it: the emulator aborts.
SetBareMode(h, m) ==
  /\ Idle(h)
  /\ m = Bare
  /\ mode' = [mode EXCEPT ![h] = m]
  /\ aborted' = TRUE
  /\ UNCHANGED <<memory, ptAddr, count, flags, local, history>>

\* Mutant of SetTransMode: the mode is not tested.
SetTransModeAny(h, m) ==
  /\ Idle(h)
  /\ m # Bare
  /\ mode' = [mode EXCEPT ![h] = m]
  /\ count' = [count EXCEPT ![h] = GetMaxPageTableLevelCount(m)]
  /\ UNCHANGED <<memory, ptAddr, flags, aborted, local, history>>

SetTransMode(h, m) ==
  /\ Idle(h)
  /\ TranslationModeValid(m)
  /\ m # Bare
  /\ mode' = [mode EXCEPT ![h] = m]
  /\ count' = [count EXCEPT ![h] = GetMaxPageTableLevelCount(m)]
  /\ UNCHANGED <<memory, ptAddr, flags, aborted, local, history>>

-----------------------------------------------------------------------------
(* Calls: ReadImpl, WriteImpl, InstFetch, MappedReadImpl and MappedWriteImpl *)

Mapped(c) == c.kind \in {"MappedRead", "MappedWrite"}
Writes(c) == c.kind \in {"Write", "MappedWrite"}
Reason(c) == IF Mapped(c) THEN "Any"
             ELSE CASE c.kind = "Read" -> "Load"
                    [] c.kind = "Write" -> "Store"
                    [] c.kind = "Fetch" -> "Fetch"

\* A mapped access is translated at machine level and in Bare mode too.
Translated(h, c) == Mapped(c) \/ (c.level # Machine /\ mode[h] # Bare)
LevelOf(c) == IF Mapped(c) THEN Machine ELSE c.level

MakeCall(h, c) ==
  /\ Idle(h)
  /\ calls' = [calls EXCEPT ![h] = @ + 1]
  /\ call' = [call EXCEPT ![h] = c]
  /\ pc' = [pc EXCEPT ![h] = IF Translated(h, c) THEN "walk" ELSE "access"]
  /\ table' = [table EXCEPT ![h] = ptAddr[h]]
  /\ level' = [level EXCEPT ![h] = count[h] - 1]
  /\ found' = [found EXCEPT ![h] = NoEntry]
  /\ paddr' = [paddr EXCEPT ![h] = c.vaddr]
  /\ start' = [start EXCEPT ![h] = memory]
  /\ disturbed' = [disturbed EXCEPT ![h] = FALSE]
  /\ UNCHANGED <<memory, regs, aborted, result>>

Return(h, res) ==
  /\ pc' = [pc EXCEPT ![h] = "idle"]
  /\ result' = [result EXCEPT ![h] = res]

\* A write of this hart is in the way of every other one's call.
Put(h, width, addr, word) ==
  /\ memory' = Store(memory, width, addr, word)
  /\ disturbed' = [g \in Harts |-> disturbed[g] \/ (g # h /\ memory' # memory)]

-----------------------------------------------------------------------------
(* GetPteImpl, one level per step *)

Entry(h) == Look(memory, table[h], call[h].vaddr, level[h])

\* Mutant of Descend: a level is left out.
DescendTwice(h, entry) ==
  /\ entry.kind = "table"
  /\ table' = [table EXCEPT ![h] = GetPPN(entry.pte)]
  /\ level' = [level EXCEPT ![h] = IF @ = 0 THEN -1 ELSE @ - 2]
  /\ UNCHANGED <<memory, regs, aborted, pc, call, found, paddr, result, history>>

\* Mutant of Descend: the level is not counted down.
DescendForever(h, entry) ==
  /\ entry.kind = "table"
  /\ table' = [table EXCEPT ![h] = GetPPN(entry.pte)]
  /\ UNCHANGED <<memory, regs, aborted, pc, call, level, found, paddr, result, history>>

Descend(h, entry) ==
  /\ entry.kind = "table"
  /\ table' = [table EXCEPT ![h] = GetPPN(entry.pte)]
  /\ level' = [level EXCEPT ![h] = @ - 1]
  /\ UNCHANGED <<memory, regs, aborted, pc, call, found, paddr, result, history>>

FindLeaf(h, entry) ==
  /\ entry.kind = "leaf"
  /\ found' = [found EXCEPT ![h] = entry]
  /\ pc' = [pc EXCEPT ![h] = "mark"]
  /\ UNCHANGED <<memory, regs, aborted, call, table, level, paddr, result, history>>

FailWalk(h, entry) ==
  /\ entry.kind \in {"AccessFault", "NoValidPteFound"}
  /\ found' = [found EXCEPT ![h] = entry]
  /\ Return(h, GetTranslationResult(entry.kind, Reason(call[h])))
  /\ UNCHANGED <<memory, regs, aborted, call, table, level, paddr, history>>

ReadPte(h) ==
  /\ At(h, "walk")
  /\ level[h] >= 0
  /\ \E entry \in {Entry(h)} :
       Descend(h, entry) \/ FindLeaf(h, entry) \/ FailWalk(h, entry)

RunOut(h) ==
  /\ At(h, "walk")
  /\ level[h] < 0
  /\ FailWalk(h, Found("NoValidPteFound", {}, {}, 0))

-----------------------------------------------------------------------------
(* TranslateImpl after the walk, and the access *)

Allowed(h) ==
  /\ LevelAllowed(found[h].pte, LevelOf(call[h]), flags[h].sum)
  /\ ReasonAllowed(found[h].pte, Reason(call[h]), flags[h].mxr)

\* Mutant of Refuse: the entry is marked before it is checked.
RefuseMarked(h) ==
  /\ At(h, "mark")
  /\ ~Allowed(h)
  /\ Put(h, 8, found[h].pteAddr, Marked(found[h].pte, Reason(call[h])))
  /\ Return(h, GetTranslationResult("PageFault", Reason(call[h])))
  /\ UNCHANGED <<regs, aborted, call, table, level, found, paddr, calls, start>>

Refuse(h) ==
  /\ At(h, "mark")
  /\ ~Allowed(h)
  /\ Return(h, GetTranslationResult("PageFault", Reason(call[h])))
  /\ UNCHANGED <<memory, regs, aborted, call, table, level, found, paddr, history>>

\* Mutant of MarkEntry: what the mark reads is lost.
MarkEntryBare(h) ==
  /\ At(h, "mark")
  /\ Allowed(h)
  /\ Put(h, 8, found[h].pteAddr, Marked(GetPPN(found[h].pte) \cup {V}, Reason(call[h])))
  /\ paddr' = [paddr EXCEPT ![h] = NewAddr(found[h].pte, found[h].level, call[h].vaddr)]
  /\ pc' = [pc EXCEPT ![h] = "access"]
  /\ UNCHANGED <<regs, aborted, call, table, level, found, result, calls, start>>

\* The entry that was read, marked, goes back whatever has been written since.
MarkEntry(h) ==
  /\ At(h, "mark")
  /\ Allowed(h)
  /\ Put(h, 8, found[h].pteAddr, Marked(found[h].pte, Reason(call[h])))
  /\ paddr' = [paddr EXCEPT ![h] = NewAddr(found[h].pte, found[h].level, call[h].vaddr)]
  /\ pc' = [pc EXCEPT ![h] = "access"]
  /\ UNCHANGED <<regs, aborted, call, table, level, found, result, calls, start>>

ReadMemory(h) ==
  /\ At(h, "access")
  /\ ~Writes(call[h])
  /\ Present(call[h].width, paddr[h])
  /\ Return(h, <<"success">>)
  /\ UNCHANGED <<memory, regs, aborted, call, table, level, found, paddr, history>>

WriteMemory(h) ==
  /\ At(h, "access")
  /\ Writes(call[h])
  /\ Present(call[h].width, paddr[h])
  /\ Put(h, call[h].width, paddr[h], call[h].word)
  /\ Return(h, <<"success">>)
  /\ UNCHANGED <<regs, aborted, call, table, level, found, paddr, calls, start>>

\* The memory controller's own result, which is not made a Load- or StoreAccessFault.
MissMemory(h) ==
  /\ At(h, "access")
  /\ ~Present(call[h].width, paddr[h])
  /\ Return(h, <<"Any", "AccessFault">>)
  /\ UNCHANGED <<memory, regs, aborted, call, table, level, found, paddr, history>>

Step(h) == \/ ReadPte(h)
           \/ RunOut(h)
           \/ Refuse(h)
           \/ MarkEntry(h)
           \/ ReadMemory(h)
           \/ WriteMemory(h)
           \/ MissMemory(h)

Set(h) == \/ \E addr \in Roots : SetPTAddr(h, addr)
          \/ \E m \in Settings : RefuseTransMode(h, m)
          \/ \E m \in Settings : SetBareMode(h, m)
          \/ \E m \in Settings : SetTransMode(h, m)

Next == \E h \in Harts : Set(h) \/ (\E c \in Calls : MakeCall(h, c)) \/ Step(h)

Spec == Init /\ [][Next]_vars

\* A hart that is in a call goes on with it: harts run in threads of their own.
FairSpec == Spec /\ \A h \in Harts : WF_vars(Step(h))

-----------------------------------------------------------------------------
(* Properties *)

\* Whenever nothing was written in between, the entry that the walk found level by
\* level, or its failure, is the one of the page tables as the call found them.
UndisturbedIsAtomic ==
  [][\A h \in Harts : pc[h] = "walk" /\ pc'[h] # "walk" /\ ~disturbed[h] =>
       found'[h] = GetPteImpl(start[h], ptAddr[h], count[h], call[h].vaddr)]_vars

\* A call that ends in a page fault has written nothing: no entry is marked for an
\* access that its level, its reason or its table refuses.
FaultsWriteNothing ==
  \A h \in Harts :
    pc[h] = "idle" /\ result[h] \in Reasons \X {"PageFault", "NoValidPteFound"}
      /\ ~disturbed[h] => memory = start[h]

\* Unless another hart wrote during the call, marking an entry changes no bit of
\* memory but its accessed and dirty bits, and clears neither.
MarksOnlyAdd ==
  [][\A h \in Harts : MarkEntry(h) /\ ~disturbed[h] =>
       \A d \in Backed : memory[d] \subseteq memory'[d] /\ memory'[d] \subseteq memory[d] \cup {A, D}]_vars

\* No access goes through an entry that does not grant it: users only reach pages
\* for users, the supervisor those only with SUM, and the page has the permission.
OnlyGrantedAccesses ==
  \A h \in Harts :
    LET c == call[h]
        pte == found[h].pte IN
    pc[h] = "access" /\ found[h].kind = "leaf" /\ ~Mapped(c) =>
      /\ c.level = User => U \in pte
      /\ c.level = Supervisor => U \notin pte \/ flags[h].sum
      /\ c.kind = "Read" => R \in pte \/ (flags[h].mxr /\ X \in pte)
      /\ c.kind = "Write" => W \in pte
      /\ c.kind = "Fetch" => X \in pte

PageBits(lvl) == 0 .. 11 + VPNPartSize * lvl
Frame(h) == GetPPN(found[h].pte) \ PageBits(found[h].level)
InAlignedFrame(h) ==
  /\ pc[h] = "access"
  /\ found[h].kind = "leaf"
  /\ GetPPN(found[h].pte) \cap PageBits(found[h].level) = {}

\* Harts that go through pages of one size with different aligned frames never
\* access the same address, whatever tables the pages were found in.
FramesStayApart ==
  \A g, h \in Harts :
    InAlignedFrame(g) /\ InAlignedFrame(h) /\ found[g].level = found[h].level
      /\ Frame(g) # Frame(h) => paddr[g] # paddr[h]

\* Every call returns, with tables that point back at themselves too, unless a hart
\* aborts the emulator.
EveryCallReturns ==
  \A h \in Harts : pc[h] # "idle" ~> pc[h] = "idle" \/ aborted

\* cpu_MemoryManager.cpp:290 says of a load: "Make sure we can read from this page."
\* No load is refused that may read from the page.
ReadablePagesLoad ==
  [][\A h \in Harts : Refuse(h) /\ call[h].kind = "Read" =>
       ~(R \in found[h].pte /\ LevelAllowed(found[h].pte, call[h].level, flags[h].sum))]_vars
=============================================================================

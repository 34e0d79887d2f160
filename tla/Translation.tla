---------------------------- MODULE Translation ----------------------------
(***************************************************************************)
(* Page tables as cpu_MemoryManager.cpp reads them on RV64, and the memory *)
(* they lie in.  What a hart may do to memory is the same whether the      *)
(* steps of an access are looked at one by one (MemoryManager) or as a     *)
(* whole (Hart), so both are written with the operators of this module.    *)
(*                                                                         *)
(* memory is a function from the addresses of the doublewords there are to *)
(* their contents; an access that touches any other is refused.            *)
(***************************************************************************)
EXTENDS Words

CONSTANT Backed     \* the addresses of the doublewords of memory

Addresses == WordsOf(64)
ASSUME BackedAssumption == \A d \in Backed : d \in Addresses /\ d \cap 0 .. 2 = {}

Memories == [Backed -> WordsOf(64)]
Widths == {1, 2, 4, 8}

-----------------------------------------------------------------------------
(* The memory controller's accesses: width bytes from addr on *)

This(addr) == addr \ 0 .. 2
Following(addr) == Add(This(addr), {3}, 64)
Bit(w, b) == IF b \in w THEN 1 ELSE 0
ByteIn(addr) == Bit(addr, 0) + 2 * Bit(addr, 1) + 4 * Bit(addr, 2)
Crosses(width, addr) == ByteIn(addr) + width > 8

Present(width, addr) ==
  /\ This(addr) \in Backed
  /\ Crosses(width, addr) => Following(addr) \in Backed

Load(memory, width, addr) ==
  ExtractBitfield(
    memory[This(addr)] \cup
      (IF Crosses(width, addr) THEN Shl(memory[Following(addr)], 64, 128) ELSE {}),
    8 * ByteIn(addr), 8 * width)

\* The word's bits behind the doubleword's end go to the following one.
Store(memory, width, addr, word) ==
  LET first == 8 * ByteIn(addr) IN
  [d \in Backed |->
     CASE d = This(addr) ->
            AssignBitfield(memory[d], first, 8 * width, word) \cap 0 .. 63
       [] Crosses(width, addr) /\ d = Following(addr) ->
            AssignBitfield(memory[d], 0, first + 8 * width - 64, Shr(word, 64 - first))
       [] OTHER -> memory[d]]

-----------------------------------------------------------------------------
(* Modes and page table entries *)

User == 0
Supervisor == 1
Hypervisor == 2
Machine == 3
Levels == {User, Supervisor, Hypervisor, Machine}

Bare == 0
Sv39 == 8
Sv48 == 9
Sv57 == 10
Modes == 0 .. 15
TranslationModeValid(mode) == mode \in {Bare, Sv39, Sv48, Sv57}
GetMaxPageTableLevelCount(mode) == mode - 5    \* of Sv39, Sv48 and Sv57: 3, 4, 5

VPNPartSize == 9

V == 0
R == 1
W == 2
X == 3
U == 4
A == 6
D == 7
IsLeaf(pte) == pte \cap {R, W, X} # {}
GetPPN(pte) == pte \cap 10 .. 53    \* in place: it is used as an address as it is

\* Five of the nine bits of a part of the page number.
GetPTOffset(vaddr, level) == Shr(vaddr, VPNPartSize * level + 12) \cap 0 .. 4

PteAddr(table, vaddr, level) == Add(table, Shl(GetPTOffset(vaddr, level), 3, 64), 64)

Found(kind, pte, pteAddr, level) ==
  [kind |-> kind, pte |-> pte, pteAddr |-> pteAddr, level |-> level]
Entries == [kind : {"none", "AccessFault", "NoValidPteFound", "table", "leaf"},
            pte : WordsOf(64), pteAddr : Addresses, level : Nat]

\* What reading the entry of a level tells: its value, or what is wrong with it.
Inspect(pte, pteAddr, level) ==
  Found(IF V \notin pte THEN "NoValidPteFound" ELSE IF IsLeaf(pte) THEN "leaf" ELSE "table",
        pte, pteAddr, level)
LookAt(memory, pteAddr, level) ==
  IF Present(8, pteAddr) THEN Inspect(Load(memory, 8, pteAddr), pteAddr, level)
  ELSE Found("AccessFault", {}, pteAddr, level)
Look(memory, table, vaddr, level) == LookAt(memory, PteAddr(table, vaddr, level), level)

\* The whole walk: the entry of the first level, from the highest down, at which
\* the search ends, with as many levels as count says.
GetPteImpl(memory, root, count, vaddr) ==
  LET table[level \in 0 .. count - 1] ==
        IF level = count - 1 THEN root
        ELSE GetPPN(Look(memory, table[level + 1], vaddr, level + 1).pte)
      entry[level \in 0 .. count - 1] == Look(memory, table[level], vaddr, level)
      ends == {level \in 0 .. count - 1 : entry[level].kind # "table"}
  IN IF ends = {} THEN Found("NoValidPteFound", {}, {}, 0) ELSE entry[Max(ends)]

-----------------------------------------------------------------------------
(* Permissions, marks and the physical address *)

\* Why an address is translated: one of "Load", "Store", "Fetch" and "Any".
Reasons == {"Load", "Store", "Fetch", "Any"}

\* Mutant of LevelAllowed: an entry for users is open to the supervisor.
LevelAllowedAlways(pte, level, sum) == level = User => U \in pte
LevelAllowed(pte, level, sum) ==
  /\ level = User => U \in pte
  /\ level = Supervisor => U \notin pte \/ sum

\* The switch has no breaks: a load is checked as a store too, both as a fetch.
ReasonAllowed(pte, reason, mxr) ==
  /\ reason = "Load" => R \in pte \/ (mxr /\ X \in pte)
  /\ reason \in {"Load", "Store"} => W \in pte
  /\ reason \in {"Load", "Store", "Fetch"} => X \in pte

Marked(pte, reason) == pte \cup {A} \cup (IF reason \in {"Load", "Store"} THEN {D} ELSE {})

\* Mutant of NewAddr: the frame is cut like the offset.
NewAddrCut(pte, level, vaddr) ==
  ((GetPPN(pte) \cup vaddr) \cap 0 .. 11) \cup (vaddr \cap 12 .. 11 + VPNPartSize * level)

\* The frame and the offsets are put on top of each other, not added.
NewAddr(pte, level, vaddr) ==
  GetPPN(pte) \cup (vaddr \cap 0 .. 11) \cup (vaddr \cap 12 .. 11 + VPNPartSize * level)

\* TranslateFor*: what a caller that gave a reason gets to see of a failure.
GetTranslationResult(res, reason) ==
  <<reason, IF reason # "Any" /\ res = "NoValidPteFound" THEN "PageFault" ELSE res>>
=============================================================================

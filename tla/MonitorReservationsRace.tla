----------------------- MODULE MonitorReservationsRace -----------------------
(***************************************************************************)
(* The same calls as MonitorReservations, step by step.  The code takes no *)
(* lock here, so the steps of harts that call at the same time interleave, *)
(* and m_ReserveCount++ and -- are a load and a store.  With Serial, a     *)
(* call starts only when no other is running.                              *)
(***************************************************************************)
EXTENDS Reservations

CONSTANTS CountSize,  \* m_ReserveCount is a std::size_t: arithmetic modulo this
          Serial      \* TRUE when the harts take turns

Calls == [op : {"aquire", "revoke", "release"}, addr : Addresses]

ASSUME RaceAssumption == /\ CountSize \in Nat /\ CountSize > HartCount
                         /\ Serial \in BOOLEAN

VARIABLES
  pc, call,     \* per hart: next step, and the call it belongs to
  index,        \* per hart: the entry it looks at in its scan
  loaded,       \* per hart: the counter value it loaded
  active, addr, \* m_ReservEntries
  reserveCount,
  seen          \* history: table and counter when no call was running

table == <<active, addr, reserveCount>>
vars == <<pc, call, index, loaded, table, seen>>

Labels == {"idle", "readCount", "scan", "clear", "decLoad", "decStore", "own",
           "incLoad", "incStore", "activate", "address", "testOwn", "free", "return"}

Offset(h) == GetAlignedAddress(call[h].addr)
Quiet == \A h \in Harts : pc[h] = "idle"
Visible == [h \in Harts |-> IF active[h] THEN addr[h] ELSE None]

TypeOK ==
  /\ pc \in [Harts -> Labels]
  /\ call \in [Harts -> Calls \cup {None}]
  /\ index \in [Harts -> 0 .. HartCount]
  /\ loaded \in [Harts -> 0 .. CountSize - 1]
  /\ active \in [Harts -> BOOLEAN]
  /\ addr \in [Harts -> Offsets]
  /\ reserveCount \in 0 .. CountSize - 1

Init ==
  /\ pc = [h \in Harts |-> "idle"]
  /\ call = [h \in Harts |-> None]
  /\ index = [h \in Harts |-> 0]
  /\ loaded = [h \in Harts |-> 0]
  /\ active = [h \in Harts |-> FALSE]
  /\ addr = [h \in Harts |-> 0]
  /\ reserveCount = 0
  /\ seen = <<Visible, reserveCount>>

-----------------------------------------------------------------------------
Goto(h, from, to) == pc[h] = from /\ pc' = [pc EXCEPT ![h] = to]

\* Where a call goes when TryRevokeReservation returns to it.
AfterRevoke(h) == IF call[h].op = "aquire" THEN "own" ELSE "return"

Start(h, c) ==
  /\ Serial => Quiet
  /\ Goto(h, "idle", IF c.op = "release" THEN "testOwn" ELSE "readCount")
  /\ call' = [call EXCEPT ![h] = c]
  /\ UNCHANGED <<index, loaded, table, seen>>

\* Mutant of ReadCount: it quits on a counter of one already.
ReadCountUnlessLast(h) ==
  /\ Goto(h, "readCount", IF reserveCount <= 1 THEN AfterRevoke(h) ELSE "scan")
  /\ UNCHANGED <<call, index, loaded, table, seen>>

\* if(!m_ReserveCount) return false;
ReadCount(h) ==
  /\ Goto(h, "readCount", IF reserveCount = 0 THEN AfterRevoke(h) ELSE "scan")
  /\ UNCHANGED <<call, index, loaded, table, seen>>

\* Mutant of Scan: the loop ends one entry early.
ScanShort(h) ==
  /\ LET i == index[h] IN
     \/ /\ Goto(h, "scan", AfterRevoke(h))
        /\ i = HartCount - 1
        /\ UNCHANGED index
     \/ /\ Goto(h, "scan", "clear")
        /\ i < HartCount - 1 /\ active[i] /\ addr[i] = Offset(h)
        /\ UNCHANGED index
     \/ /\ Goto(h, "scan", "scan")
        /\ i < HartCount - 1 /\ ~(active[i] /\ addr[i] = Offset(h))
        /\ index' = [index EXCEPT ![h] = i + 1]
  /\ UNCHANGED <<call, loaded, table, seen>>

\* One entry of the loop over m_ReservEntries.
Scan(h) ==
  /\ LET i == index[h] IN
     \/ /\ Goto(h, "scan", AfterRevoke(h))
        /\ i = HartCount
        /\ UNCHANGED index
     \/ /\ Goto(h, "scan", "clear")
        /\ i < HartCount /\ active[i] /\ addr[i] = Offset(h)
        /\ UNCHANGED index
     \/ /\ Goto(h, "scan", "scan")
        /\ i < HartCount /\ ~(active[i] /\ addr[i] = Offset(h))
        /\ index' = [index EXCEPT ![h] = i + 1]
  /\ UNCHANGED <<call, loaded, table, seen>>

\* entry.active = false, of the entry found or of the caller's own.
Clear(h) ==
  /\ \/ Goto(h, "clear", "decLoad") /\ active' = [active EXCEPT ![index[h]] = FALSE]
     \/ Goto(h, "free", "decLoad") /\ active' = [active EXCEPT ![h] = FALSE]
  /\ UNCHANGED <<call, index, loaded, addr, reserveCount, seen>>

Load(h) ==
  /\ Goto(h, "decLoad", "decStore") \/ Goto(h, "incLoad", "incStore")
  /\ loaded' = [loaded EXCEPT ![h] = reserveCount]
  /\ UNCHANGED <<call, index, table, seen>>

Store(h) ==
  /\ \/ /\ Goto(h, "decStore", AfterRevoke(h))
        /\ reserveCount' = (loaded[h] - 1) % CountSize
     \/ /\ Goto(h, "incStore", "activate")
        /\ reserveCount' = (loaded[h] + 1) % CountSize
  /\ UNCHANGED <<call, index, loaded, active, addr, seen>>

\* Mutants of TestOwn: a new entry is not counted; an entry is released that is not active.
TestOwnUncounted(h) ==
  /\ \/ Goto(h, "own", IF active[h] THEN "address" ELSE "activate")
     \/ Goto(h, "testOwn", IF active[h] THEN "free" ELSE "return")
  /\ UNCHANGED <<call, index, loaded, table, seen>>
TestOwnNever(h) ==
  /\ \/ Goto(h, "own", IF active[h] THEN "address" ELSE "incLoad")
     \/ Goto(h, "testOwn", "free")
  /\ UNCHANGED <<call, index, loaded, table, seen>>

\* if(!entry.active), in AquireReservation and in ReleaseReservation.
TestOwn(h) ==
  /\ \/ Goto(h, "own", IF active[h] THEN "address" ELSE "incLoad")
     \/ Goto(h, "testOwn", IF active[h] THEN "free" ELSE "return")
  /\ UNCHANGED <<call, index, loaded, table, seen>>

Activate(h) ==
  /\ Goto(h, "activate", "address")
  /\ active' = [active EXCEPT ![h] = TRUE]
  /\ UNCHANGED <<call, index, loaded, addr, reserveCount, seen>>

\* Mutant of SetAddress: the address is stored as it was passed.
SetAddressUnaligned(h) ==
  /\ Goto(h, "address", "return")
  /\ addr' = [addr EXCEPT ![h] = call[h].addr]
  /\ UNCHANGED <<call, index, loaded, active, reserveCount, seen>>

SetAddress(h) ==
  /\ Goto(h, "address", "return")
  /\ addr' = [addr EXCEPT ![h] = Offset(h)]
  /\ UNCHANGED <<call, index, loaded, active, reserveCount, seen>>

\* The call returns: its locals are gone, and the history is brought up to date.
Return(h) ==
  /\ Goto(h, "return", "idle")
  /\ call' = [call EXCEPT ![h] = None]
  /\ index' = [index EXCEPT ![h] = 0]
  /\ loaded' = [loaded EXCEPT ![h] = 0]
  /\ seen' = IF \A g \in Harts \ {h} : pc[g] = "idle" THEN <<Visible, reserveCount>> ELSE seen
  /\ UNCHANGED table

Next == \E h \in Harts : \/ \E c \in Calls : Start(h, c)
                         \/ ReadCount(h) \/ Scan(h) \/ Clear(h) \/ Load(h) \/ Store(h)
                         \/ TestOwn(h) \/ Activate(h) \/ SetAddress(h) \/ Return(h)

Spec == Init /\ [][Next]_vars

-----------------------------------------------------------------------------
(* Properties *)

\* TryRevokeReservation may quit on a zero counter: no entry is active then,
\* not even half way through another call.
QuitsOnlyWhenNoneActive == reserveCount = 0 => \A h \in Harts : ~active[h]

\* Between calls the counter is the number of active entries, whichever calls made, moved,
\* revoked or released them.
CountExact == Quiet => reserveCount = Cardinality({h \in Harts : active[h]})

\* Between calls no two harts have the same reserved address, although revoking stops at
\* the first match.
OneHolder == Quiet => \A h, g \in Harts : h # g /\ active[h] => Visible[h] # Visible[g]

\* Harts that take turns see the calls of MonitorReservations.
Atomic == INSTANCE MonitorReservations WITH entry <- seen[1], reserveCount <- seen[2]

ImplementsAtomicCalls == Atomic!Spec
=============================================================================

---------------------------- MODULE MonitorAccess ----------------------------
(***************************************************************************)
(* The shared / exclusive access protocol of MemoryMonitor                 *)
(* (Sources/cpu/detail/cpu_MemoryMonitor.cpp): harts that read an address  *)
(* hold shared access to it, harts that update it hold exclusive access,   *)
(* and the monitor must never let the two kinds meet at one address.       *)
(*                                                                         *)
(* Each hart is a thread.  It runs Aquire*Access, TryAquire*Access and     *)
(* Release*Access over two table mutexes, two counters, and one table of   *)
(* entries per kind, every entry with a mutex and a condition variable of  *)
(* its own.  A step of the model ends where another thread could observe   *)
(* a difference: a lock, a read of an entry that its owner may clear, a    *)
(* wait, a notify.  An unlock belongs to the step before it.               *)
(***************************************************************************)
EXTENDS Integers, FiniteSets

CONSTANTS HartCount,  \* MemoryMonitor::m_HartCount
          Addresses,  \* the addresses the harts access
          None        \* no owner, no address, no entry

Harts == 0 .. HartCount - 1
Kinds == {"shared", "excl"}

\* The kind a request conflicts with: a shared one looks for exclusive entries
\* and an exclusive one for shared entries (never for other exclusive ones).
Other(k) == IF k = "shared" THEN "excl" ELSE "shared"

\* A call of Aquire*Access (try FALSE) or TryAquire*Access (try TRUE).
Requests == [kind : Kinds, try : BOOLEAN, addr : Addresses]

ASSUME HartCountAssumption == HartCount \in Nat \ {0}
ASSUME AddressesAssumption == Addresses # {}
ASSUME NoneAssumption == /\ None \notin Harts
                         /\ None \notin Addresses
                         /\ None \notin Requests

VARIABLES
  pc,         \* where each hart is in the monitor's code
  req,        \* the request it is serving (None outside the monitor)
  target,     \* the hart whose entry it found in conflict and waits for
  mutex,      \* owner of m_SharedAccessMutex and of m_ExclAccessMutex
  count,      \* m_SharedAccessCount and m_ExclAccessCount
  entry,      \* address of each active entry of the two tables, else None
  entryMutex  \* owner of each entry's own mutex

vars == <<pc, req, target, mutex, count, entry, entryMutex>>

Labels == {"idle", "lockExcl", "lockShared", "check", "scan", "swap", "enter",
           "lockEntry", "test", "wait", "asleep", "relockExcl", "relockShared",
           "held", "uncount", "notify"}

TypeOK ==
  /\ pc \in [Harts -> Labels]
  /\ req \in [Harts -> Requests \cup {None}]
  /\ target \in [Harts -> Harts \cup {None}]
  /\ mutex \in [Kinds -> Harts \cup {None}]
  /\ count \in [Kinds -> Nat]
  /\ entry \in [Kinds -> [Harts -> Addresses \cup {None}]]
  /\ entryMutex \in [Kinds -> [Harts -> Harts \cup {None}]]

\* Initialize: counters at zero, every entry value-initialised (inactive).
Init ==
  /\ pc = [h \in Harts |-> "idle"]
  /\ req = [h \in Harts |-> None]
  /\ target = [h \in Harts |-> None]
  /\ mutex = [k \in Kinds |-> None]
  /\ count = [k \in Kinds |-> 0]
  /\ entry = [k \in Kinds |-> [h \in Harts |-> None]]
  /\ entryMutex = [k \in Kinds |-> [h \in Harts |-> None]]

-----------------------------------------------------------------------------
Goto(h, from, to) == /\ pc[h] = from
                     /\ pc' = [pc EXCEPT ![h] = to]

Kind(h) == req[h].kind
Wanted(h) == req[h].addr

\* The table mutexes once h has unlocked the ones it owns.
Unlocked(h) == [k \in Kinds |-> IF mutex[k] = h THEN None ELSE mutex[k]]

\* The active entries a request of h is in conflict with.
Conflicts(h) == {g \in Harts : entry[Other(Kind(h))][g] = Wanted(h)}

\* The harts waiting on the condition variable of the k entry of hart e.
Sleepers(k, e) == {h \in Harts : /\ pc[h] = "asleep"
                                 /\ target[h] = e
                                 /\ Other(Kind(h)) = k}

-----------------------------------------------------------------------------
(* AquireSharedAccess, AquireExclusiveAccess and their Try forms *)

\* A hart outside the monitor asks for access.
Call(h, r) ==
  /\ Goto(h, "idle", "lockExcl")
  /\ req' = [req EXCEPT ![h] = r]
  /\ UNCHANGED <<target, mutex, count, entry, entryMutex>>

\* m_ExclAccessMutex is locked on entry, and again after a wait; a shared
\* request that comes back rescans without another look at the counter.
LockExcl(h) ==
  /\ mutex["excl"] = None
  /\ mutex' = [mutex EXCEPT !["excl"] = h]
  /\ \/ Goto(h, "lockExcl", IF Kind(h) = "shared" THEN "check" ELSE "lockShared")
     \/ Goto(h, "relockExcl", IF Kind(h) = "shared" THEN "scan" ELSE "relockShared")
  /\ UNCHANGED <<req, target, count, entry, entryMutex>>

\* An exclusive request locks m_SharedAccessMutex as its second lock.
LockShared(h) ==
  /\ mutex["shared"] = None
  /\ mutex' = [mutex EXCEPT !["shared"] = h]
  /\ \/ Goto(h, "lockShared", "check")
     \/ Goto(h, "relockShared", "scan")
  /\ UNCHANGED <<req, target, count, entry, entryMutex>>

\* Mutant of Check: it looks at its own kind's counter.
CheckOwnCount(h) ==
  /\ \/ /\ Goto(h, "check", "scan")
        /\ count[Kind(h)] # 0
     \/ /\ Goto(h, "check", IF Kind(h) = "shared" THEN "swap" ELSE "enter")
        /\ count[Kind(h)] = 0
  /\ UNCHANGED <<req, target, mutex, count, entry, entryMutex>>

\* The counter of the other kind decides whether its table is scanned at all.
Check(h) ==
  /\ \/ /\ Goto(h, "check", "scan")
        /\ count[Other(Kind(h))] # 0
     \/ /\ Goto(h, "check", IF Kind(h) = "shared" THEN "swap" ELSE "enter")
        /\ count[Other(Kind(h))] = 0
  /\ UNCHANGED <<req, target, mutex, count, entry, entryMutex>>

\* No entry matches.  A shared request goes on; an exclusive one is sent back
\* to its while(m_SharedAccessCount), still holding both table mutexes.  The
\* scan is one step: while it runs entries only become inactive.
ScanClear(h) ==
  /\ Goto(h, "scan", IF Kind(h) = "shared" THEN "swap" ELSE "check")
  /\ Conflicts(h) = {}
  /\ UNCHANGED <<req, target, mutex, count, entry, entryMutex>>

\* Mutant of ScanRefuse: the request was counted before the scan and stays so.
ScanRefuseCounted(h) ==
  /\ Goto(h, "scan", "idle")
  /\ Conflicts(h) # {}
  /\ req[h].try
  /\ req' = [req EXCEPT ![h] = None]
  /\ mutex' = Unlocked(h)
  /\ count' = [count EXCEPT ![Kind(h)] = @ + 1]
  /\ UNCHANGED <<target, entry, entryMutex>>

\* The first matching entry makes a Try request return false ...
ScanRefuse(h) ==
  /\ Goto(h, "scan", "idle")
  /\ Conflicts(h) # {}
  /\ req[h].try
  /\ req' = [req EXCEPT ![h] = None]
  /\ mutex' = Unlocked(h)
  /\ UNCHANGED <<target, count, entry, entryMutex>>

\* Mutant of ScanBlock: it waits with the table mutexes locked.
ScanBlockLocked(h) ==
  /\ Goto(h, "scan", "lockEntry")
  /\ ~req[h].try
  /\ \E g \in Conflicts(h) : /\ \A i \in Conflicts(h) : g <= i
                             /\ target' = [target EXCEPT ![h] = g]
  /\ UNCHANGED <<req, mutex, count, entry, entryMutex>>

\* ... and makes the others unlock the tables and wait for that entry.
ScanBlock(h) ==
  /\ Goto(h, "scan", "lockEntry")
  /\ ~req[h].try
  /\ \E g \in Conflicts(h) : /\ \A i \in Conflicts(h) : g <= i
                             /\ target' = [target EXCEPT ![h] = g]
  /\ mutex' = Unlocked(h)
  /\ UNCHANGED <<req, count, entry, entryMutex>>

\* Lock the entry's mutex: before the first test, and inside cv.wait after a
\* wakeup.
LockEntry(h) ==
  LET k == Other(Kind(h)) IN
  /\ Goto(h, "lockEntry", "test")
  /\ entryMutex[k][target[h]] = None
  /\ entryMutex' = [entryMutex EXCEPT ![k][target[h]] = h]
  /\ UNCHANGED <<req, target, mutex, count, entry>>

\* while(entry.active): still active, so go to sleep next.
TestActive(h) ==
  /\ Goto(h, "test", "wait")
  /\ entry[Other(Kind(h))][target[h]] # None
  /\ UNCHANGED <<req, target, mutex, count, entry, entryMutex>>

\* No longer active: unlock the entry and take the table mutexes again.
TestInactive(h) ==
  LET k == Other(Kind(h)) IN
  /\ Goto(h, "test", "relockExcl")
  /\ entry[k][target[h]] = None
  /\ entryMutex' = [entryMutex EXCEPT ![k][target[h]] = None]
  /\ target' = [target EXCEPT ![h] = None]
  /\ UNCHANGED <<req, mutex, count, entry>>

\* entry.cv.wait(entryLock): unlock and sleep are one step.
Wait(h) ==
  /\ Goto(h, "wait", "asleep")
  /\ entryMutex' = [entryMutex EXCEPT ![Other(Kind(h))][target[h]] = None]
  /\ UNCHANGED <<req, target, mutex, count, entry>>

\* A condition variable may wake a waiter that nobody notified.
SpuriousWakeup(h) ==
  /\ Goto(h, "asleep", "lockEntry")
  /\ UNCHANGED <<req, target, mutex, count, entry, entryMutex>>

\* Mutant of SwapLocks: the exclusive mutex is given up before the shared one
\* is owned.
SwapLocksEarly(h) ==
  /\ Goto(h, "swap", "enter")
  /\ mutex' = Unlocked(h)
  /\ UNCHANGED <<req, target, count, entry, entryMutex>>

\* A shared request locks m_SharedAccessMutex and lets the exclusive one go.
SwapLocks(h) ==
  /\ Goto(h, "swap", "enter")
  /\ mutex["shared"] = None
  /\ mutex' = [Unlocked(h) EXCEPT !["shared"] = h]
  /\ UNCHANGED <<req, target, count, entry, entryMutex>>

\* Mutant of Enter: the counter is left alone.
EnterUncounted(h) ==
  /\ Goto(h, "enter", "held")
  /\ entry' = [entry EXCEPT ![Kind(h)][h] = Wanted(h)]
  /\ mutex' = Unlocked(h)
  /\ UNCHANGED <<req, target, count, entryMutex>>

\* Aquire*AccessImpl, and the unlocks of its callers' return.
Enter(h) ==
  LET k == Kind(h) IN
  /\ Goto(h, "enter", "held")
  /\ entry' = [entry EXCEPT ![k][h] = Wanted(h)]
  /\ count' = [count EXCEPT ![k] = @ + 1]
  /\ mutex' = Unlocked(h)
  /\ UNCHANGED <<req, target, entryMutex>>

-----------------------------------------------------------------------------
(* ReleaseSharedAccess and ReleaseExclusiveAccess *)

\* Mutant of Clear: the entry is cleared without its mutex.
ClearUnlocked(h) ==
  /\ Goto(h, "held", "uncount")
  /\ entry' = [entry EXCEPT ![Kind(h)][h] = None]
  /\ UNCHANGED <<req, target, mutex, count, entryMutex>>

\* The entry is cleared under its own mutex, not under the table's ...
Clear(h) ==
  LET k == Kind(h) IN
  /\ Goto(h, "held", "uncount")
  /\ entryMutex[k][h] = None
  /\ entry' = [entry EXCEPT ![k][h] = None]
  /\ UNCHANGED <<req, target, mutex, count, entryMutex>>

\* Mutant of Uncount: the counter goes down without the table's mutex.
UncountUnlocked(h) ==
  /\ Goto(h, "uncount", "notify")
  /\ count' = [count EXCEPT ![Kind(h)] = @ - 1]
  /\ UNCHANGED <<req, target, mutex, entry, entryMutex>>

\* ... then the counter goes down under the table's mutex ...
Uncount(h) ==
  LET k == Kind(h) IN
  /\ Goto(h, "uncount", "notify")
  /\ mutex[k] = None
  /\ count' = [count EXCEPT ![k] = @ - 1]
  /\ UNCHANGED <<req, target, mutex, entry, entryMutex>>

\* ... then notify_one wakes one of the entry's waiters, if it has any.
Notify(h) ==
  /\ pc[h] = "notify"
  /\ \/ /\ Sleepers(Kind(h), h) = {}
        /\ pc' = [pc EXCEPT ![h] = "idle"]
     \/ \E w \in Sleepers(Kind(h), h) :
          pc' = [pc EXCEPT ![h] = "idle", ![w] = "lockEntry"]
  /\ req' = [req EXCEPT ![h] = None]
  /\ UNCHANGED <<target, mutex, count, entry, entryMutex>>

-----------------------------------------------------------------------------
\* The steps of a hart inside the monitor, up to the grant of its request.
Aquire(h) ==
  \/ LockExcl(h) \/ LockShared(h) \/ Check(h)
  \/ ScanClear(h) \/ ScanRefuse(h) \/ ScanBlock(h)
  \/ LockEntry(h) \/ TestActive(h) \/ TestInactive(h) \/ Wait(h)
  \/ SwapLocks(h) \/ Enter(h)

\* The steps that give it up again.
Release(h) == Clear(h) \/ Uncount(h) \/ Notify(h)

Next == \E h \in Harts : \/ \E r \in Requests : Call(h, r)
                         \/ Aquire(h)
                         \/ Release(h)
                         \/ SpuriousWakeup(h)

Spec == Init /\ [][Next]_vars

-----------------------------------------------------------------------------
(* Properties *)

\* Shared and exclusive access never meet at one address, although the table
\* scanned, the table written and the entry cleared are under different locks.
SharedExclExclusion ==
  \A h, g \in Harts, a \in Addresses : ~(entry["shared"][h] = a /\ entry["excl"][g] = a)

\* The harts a counter stands for: granted, and not yet past Uncount.
Counted(k) == {h \in Harts : pc[h] \in {"held", "uncount"} /\ Kind(h) = k}

\* A counter is exactly the number of granted requests of its kind.  So it
\* never wraps below zero, and a zero, on which Check skips the scan, means
\* that the table has no active entry.
CountersExact ==
  \A k \in Kinds : /\ count[k] = Cardinality(Counted(k))
                   /\ \A h \in Harts : entry[k][h] # None => h \in Counted(k)

\* A hart that waits for an entry, or sleeps on it, owns no table mutex: the
\* entry's owner needs one to finish its release.
WaitersHoldNoTableMutex ==
  \A h \in Harts, k \in Kinds :
    mutex[k] = h => pc[h] \notin {"lockEntry", "test", "wait", "asleep", "relockExcl"}

\* A hart never goes to sleep on an entry that was cleared since it tested
\* entry.active: the wakeup that the owner then sends would come too early.
SleepsOnActiveEntry ==
  \A h \in Harts : pc[h] = "wait" => entry[Other(Kind(h))][target[h]] # None

\* A sleeper's entry is still active, or its owner has yet to notify: the test
\* of entry.active, the wait, the clearing and notify_one cannot interleave so
\* that the wakeup falls between the test and the wait.
NoLostWakeup ==
  \A h \in Harts : pc[h] = "asleep" =>
    \/ entry[Other(Kind(h))][target[h]] # None
    \/ /\ pc[target[h]] \in {"uncount", "notify"}
       /\ Kind(target[h]) = Other(Kind(h))

\* An exclusive request that finds the shared counter up and no shared entry at
\* its address.
Spinning(h) == /\ pc[h] \in {"check", "scan"}
               /\ Kind(h) = "excl"
               /\ count["shared"] # 0
               /\ Conflicts(h) = {}

\* Such a request never gets out again: it loops on the counter with both table
\* mutexes held, and the owners that could lower it need one of those.
SpinIsForever == [][\A h \in Harts : Spinning(h) => Spinning(h)']_vars

Grant == INSTANCE AccessGrant WITH readers <- entry["shared"], writers <- entry["excl"]

\* The monitor grants and takes back access as AccessGrant allows: every step
\* of every hart is a grant to a compatible requester, a release, or invisible.
ImplementsGrant == Grant!GrantSpec
=============================================================================

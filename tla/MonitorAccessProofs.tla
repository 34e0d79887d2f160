------------------------- MODULE MonitorAccessProofs -------------------------
(***************************************************************************)
(* Proofs about MonitorAccess for any number of harts and addresses.  The  *)
(* inductive invariant is built in layers: the shape of the state, who     *)
(* owns the table mutexes at which label, what the entries and counters    *)
(* hold, and what a granted request has made sure of.                      *)
(***************************************************************************)
EXTENDS MonitorAccess, FiniteSetTheorems, TLAPS

\* TypeOK with the counters only known to be integers.
Shape ==
  /\ pc \in [Harts -> Labels]
  /\ req \in [Harts -> Requests \cup {None}]
  /\ target \in [Harts -> Harts \cup {None}]
  /\ mutex \in [Kinds -> Harts \cup {None}]
  /\ count \in [Kinds -> Int]
  /\ entry \in [Kinds -> [Harts -> Addresses \cup {None}]]
  /\ entryMutex \in [Kinds -> [Harts -> Harts \cup {None}]]

\* A hart inside the monitor has a request, one that waits has a target, and
\* some labels belong to one kind of request.
Flow ==
  \A h \in Harts :
    /\ pc[h] # "idle" => req[h] \in Requests
    /\ pc[h] \in {"lockEntry", "test", "wait", "asleep"} => target[h] \in Harts
    /\ pc[h] \in {"lockShared", "relockShared"} => Kind(h) = "excl"
    /\ pc[h] = "swap" => Kind(h) = "shared"

\* The labels at which a hart owns each table mutex.
OwnsExcl(h) == \/ pc[h] \in {"check", "scan", "swap", "lockShared", "relockShared"}
               \/ pc[h] = "enter" /\ Kind(h) = "excl"

OwnsShared(h) == \/ pc[h] \in {"check", "scan"} /\ Kind(h) = "excl"
                 \/ pc[h] = "enter"

Owners == \A h \in Harts : /\ mutex["excl"] = h <=> OwnsExcl(h)
                           /\ mutex["shared"] = h <=> OwnsShared(h)

\* An entry is active exactly while its hart holds that access.
Entries ==
  \A k \in Kinds, h \in Harts :
    entry[k][h] = IF pc[h] = "held" /\ Kind(h) = k THEN Wanted(h) ELSE None

GrantedAs(h, k) == pc[h] \in {"held", "uncount"} /\ Kind(h) = k

Counters == \A k \in Kinds : count[k] = Cardinality(Counted(k))

\* What a request knows when its scan is over: a shared one, that no exclusive
\* entry matches; an exclusive one, that there is no shared access at all.
Cleared ==
  \A h \in Harts :
    /\ pc[h] \in {"swap", "enter"} /\ Kind(h) = "shared" =>
          \A g \in Harts : entry["excl"][g] # Wanted(h)
    /\ pc[h] = "enter" /\ Kind(h) = "excl" =>
          \A g \in Harts : ~GrantedAs(g, "shared")

\* A hart between the test of an entry and its wait owns the entry's mutex.
EntryLocks ==
  \A h \in Harts : pc[h] \in {"test", "wait"} => entryMutex[Other(Kind(h))][target[h]] = h

IInv == /\ Shape /\ Flow /\ Owners /\ Entries /\ Counters /\ Cleared /\ EntryLocks
        /\ SharedExclExclusion /\ SleepsOnActiveEntry
-----------------------------------------------------------------------------
\* Every step of a monitor call keeps the shape of the state.
LEMMA ShapeStep ==
  ASSUME Shape, Flow, [Next]_vars
  PROVE  (Shape /\ Flow)'
<1> USE NoneAssumption DEF Shape, Flow, Goto, Kind, Labels, Requests, Kinds, Other, Unlocked, Conflicts, Sleepers, Wanted
<1>1. ASSUME NEW h \in Harts, NEW r \in Requests, Call(h, r)
      PROVE  (Shape /\ Flow)'
  BY <1>1 DEF Call
<1>2. ASSUME NEW h \in Harts, LockExcl(h)
      PROVE  (Shape /\ Flow)'
  BY <1>2 DEF LockExcl
<1>3. ASSUME NEW h \in Harts, LockShared(h)
      PROVE  (Shape /\ Flow)'
  BY <1>3 DEF LockShared
<1>4. ASSUME NEW h \in Harts, Check(h)
      PROVE  (Shape /\ Flow)'
  BY <1>4 DEF Check
<1>5. ASSUME NEW h \in Harts, ScanClear(h)
      PROVE  (Shape /\ Flow)'
  BY <1>5 DEF ScanClear
<1>6. ASSUME NEW h \in Harts, ScanRefuse(h)
      PROVE  (Shape /\ Flow)'
  BY <1>6 DEF ScanRefuse
<1>7. ASSUME NEW h \in Harts, ScanBlock(h)
      PROVE  (Shape /\ Flow)'
  BY <1>7 DEF ScanBlock
<1>8. ASSUME NEW h \in Harts, LockEntry(h)
      PROVE  (Shape /\ Flow)'
  BY <1>8 DEF LockEntry
<1>9. ASSUME NEW h \in Harts, TestActive(h)
      PROVE  (Shape /\ Flow)'
  BY <1>9 DEF TestActive
<1>10. ASSUME NEW h \in Harts, TestInactive(h)
      PROVE  (Shape /\ Flow)'
  BY <1>10 DEF TestInactive
<1>11. ASSUME NEW h \in Harts, Wait(h)
      PROVE  (Shape /\ Flow)'
  BY <1>11 DEF Wait
<1>12. ASSUME NEW h \in Harts, SwapLocks(h)
      PROVE  (Shape /\ Flow)'
  BY <1>12 DEF SwapLocks
<1>13. ASSUME NEW h \in Harts, Enter(h)
      PROVE  (Shape /\ Flow)'
  BY <1>13 DEF Enter
<1>14. ASSUME NEW h \in Harts, Clear(h)
      PROVE  (Shape /\ Flow)'
  BY <1>14 DEF Clear
<1>15. ASSUME NEW h \in Harts, Uncount(h)
      PROVE  (Shape /\ Flow)'
  BY <1>15 DEF Uncount
<1>16. ASSUME NEW h \in Harts, Notify(h)
      PROVE  (Shape /\ Flow)'
  BY <1>16 DEF Notify
<1>17. ASSUME NEW h \in Harts, SpuriousWakeup(h)
      PROVE  (Shape /\ Flow)'
  BY <1>17 DEF SpuriousWakeup
<1>18. CASE UNCHANGED vars
  BY <1>18 DEF vars
<1> QED
  BY <1>1, <1>2, <1>3, <1>4, <1>5, <1>6, <1>7, <1>8, <1>9, <1>10, <1>11, <1>12, <1>13, <1>14, <1>15, <1>16, <1>17, <1>18 DEF Next, Aquire, Release

\* Every step keeps the two table mutexes with the harts whose labels own them.
LEMMA OwnersStep ==
  ASSUME Shape, Flow, Owners, [Next]_vars
  PROVE  Owners'
<1> USE NoneAssumption DEF Shape, Flow, Owners, OwnsExcl, OwnsShared, Goto, Kind, Labels, Requests, Kinds, Unlocked, Sleepers
<1>1. ASSUME NEW h \in Harts, NEW r \in Requests, Call(h, r)
      PROVE  Owners'
  BY <1>1 DEF Call
<1>2. ASSUME NEW h \in Harts, LockExcl(h)
      PROVE  Owners'
  BY <1>2 DEF LockExcl
<1>3. ASSUME NEW h \in Harts, LockShared(h)
      PROVE  Owners'
  BY <1>3 DEF LockShared
<1>4. ASSUME NEW h \in Harts, Check(h)
      PROVE  Owners'
  BY <1>4 DEF Check
<1>5. ASSUME NEW h \in Harts, ScanClear(h)
      PROVE  Owners'
  BY <1>5 DEF ScanClear
<1>6. ASSUME NEW h \in Harts, ScanRefuse(h)
      PROVE  Owners'
  BY <1>6 DEF ScanRefuse
<1>7. ASSUME NEW h \in Harts, ScanBlock(h)
      PROVE  Owners'
  BY <1>7 DEF ScanBlock
<1>8. ASSUME NEW h \in Harts, LockEntry(h)
      PROVE  Owners'
  BY <1>8 DEF LockEntry
<1>9. ASSUME NEW h \in Harts, TestActive(h)
      PROVE  Owners'
  BY <1>9 DEF TestActive
<1>10. ASSUME NEW h \in Harts, TestInactive(h)
      PROVE  Owners'
  BY <1>10 DEF TestInactive
<1>11. ASSUME NEW h \in Harts, Wait(h)
      PROVE  Owners'
  BY <1>11 DEF Wait
<1>12. ASSUME NEW h \in Harts, SwapLocks(h)
      PROVE  Owners'
  BY <1>12 DEF SwapLocks
<1>13. ASSUME NEW h \in Harts, Enter(h)
      PROVE  Owners'
  BY <1>13 DEF Enter
<1>14. ASSUME NEW h \in Harts, Clear(h)
      PROVE  Owners'
  BY <1>14 DEF Clear
<1>15. ASSUME NEW h \in Harts, Uncount(h)
      PROVE  Owners'
  BY <1>15 DEF Uncount
<1>16. ASSUME NEW h \in Harts, Notify(h)
      PROVE  Owners'
  BY <1>16 DEF Notify
<1>17. ASSUME NEW h \in Harts, SpuriousWakeup(h)
      PROVE  Owners'
  BY <1>17 DEF SpuriousWakeup
<1>18. CASE UNCHANGED vars
  BY <1>18 DEF vars
<1> QED
  BY <1>1, <1>2, <1>3, <1>4, <1>5, <1>6, <1>7, <1>8, <1>9, <1>10, <1>11, <1>12, <1>13, <1>14, <1>15, <1>16, <1>17, <1>18 DEF Next, Aquire, Release

\* Every step keeps an entry active exactly while its hart holds that access.
LEMMA EntriesStep ==
  ASSUME Shape, Flow, Entries, [Next]_vars
  PROVE  Entries'
<1> USE NoneAssumption DEF Shape, Flow, Entries, Goto, Kind, Wanted, Labels, Requests, Kinds, Unlocked, Sleepers
<1>1. ASSUME NEW h \in Harts, NEW r \in Requests, Call(h, r)
      PROVE  Entries'
  BY <1>1 DEF Call
<1>2. ASSUME NEW h \in Harts, LockExcl(h)
      PROVE  Entries'
  BY <1>2 DEF LockExcl
<1>3. ASSUME NEW h \in Harts, LockShared(h)
      PROVE  Entries'
  BY <1>3 DEF LockShared
<1>4. ASSUME NEW h \in Harts, Check(h)
      PROVE  Entries'
  BY <1>4 DEF Check
<1>5. ASSUME NEW h \in Harts, ScanClear(h)
      PROVE  Entries'
  BY <1>5 DEF ScanClear
<1>6. ASSUME NEW h \in Harts, ScanRefuse(h)
      PROVE  Entries'
  BY <1>6 DEF ScanRefuse
<1>7. ASSUME NEW h \in Harts, ScanBlock(h)
      PROVE  Entries'
  BY <1>7 DEF ScanBlock
<1>8. ASSUME NEW h \in Harts, LockEntry(h)
      PROVE  Entries'
  BY <1>8 DEF LockEntry
<1>9. ASSUME NEW h \in Harts, TestActive(h)
      PROVE  Entries'
  BY <1>9 DEF TestActive
<1>10. ASSUME NEW h \in Harts, TestInactive(h)
      PROVE  Entries'
  BY <1>10 DEF TestInactive
<1>11. ASSUME NEW h \in Harts, Wait(h)
      PROVE  Entries'
  BY <1>11 DEF Wait
<1>12. ASSUME NEW h \in Harts, SwapLocks(h)
      PROVE  Entries'
  BY <1>12 DEF SwapLocks
<1>13. ASSUME NEW h \in Harts, Enter(h)
      PROVE  Entries'
  BY <1>13 DEF Enter
<1>14. ASSUME NEW h \in Harts, Clear(h)
      PROVE  Entries'
  BY <1>14 DEF Clear
<1>15. ASSUME NEW h \in Harts, Uncount(h)
      PROVE  Entries'
  BY <1>15 DEF Uncount
<1>16. ASSUME NEW h \in Harts, Notify(h)
      PROVE  Entries'
  BY <1>16 DEF Notify
<1>17. ASSUME NEW h \in Harts, SpuriousWakeup(h)
      PROVE  Entries'
  BY <1>17 DEF SpuriousWakeup
<1>18. CASE UNCHANGED vars
  BY <1>18 DEF vars
<1> QED
  BY <1>1, <1>2, <1>3, <1>4, <1>5, <1>6, <1>7, <1>8, <1>9, <1>10, <1>11, <1>12, <1>13, <1>14, <1>15, <1>16, <1>17, <1>18 DEF Next, Aquire, Release

\* There are finitely many harts, so the harts counted are finitely many too.
LEMMA FiniteCounted == \A k : IsFiniteSet(Counted(k))
<1>1. IsFiniteSet(Harts)
  BY HartCountAssumption, FS_Interval DEF Harts
<1> QED
  BY <1>1, FS_Subset DEF Counted

\* What a step does to the counted harts follows from what it does to each one.
LEMMA CountedUnchanged ==
  ASSUME NEW k, \A g \in Harts : GrantedAs(g, k)' = GrantedAs(g, k)
  PROVE  Counted(k)' = Counted(k)
BY DEF Counted, GrantedAs

\* A grant counts its hart, which was not counted before, once.
LEMMA CountedAdded ==
  ASSUME NEW k, NEW h \in Harts,
         \A g \in Harts : GrantedAs(g, k)' <=> g = h \/ GrantedAs(g, k)
  PROVE  Counted(k)' = Counted(k) \cup {h}
BY DEF Counted, GrantedAs

\* A counter taken down drops its hart, which was counted, once.
LEMMA CountedRemoved ==
  ASSUME NEW k, NEW h \in Harts,
         \A g \in Harts : GrantedAs(g, k)' <=> g # h /\ GrantedAs(g, k)
  PROVE  Counted(k)' = Counted(k) \ {h}
BY DEF Counted, GrantedAs

\* A step that grants nothing, gives nothing up and leaves the counters alone.
LEMMA QuietCounters ==
  ASSUME Counters, UNCHANGED count,
         \A g \in Harts, k \in Kinds : GrantedAs(g, k)' = GrantedAs(g, k)
  PROVE  Counters'
BY CountedUnchanged DEF Counters

\* Every step keeps each counter equal to the number of counted harts.
LEMMA CountersStep ==
  ASSUME Shape, Flow, Counters, [Next]_vars
  PROVE  Counters'
<1> USE NoneAssumption DEF Shape, Flow, Counters, Goto, Kind, Labels, Requests, Kinds, Sleepers
<1>1. ASSUME NEW h \in Harts, NEW r \in Requests, Call(h, r)
      PROVE  Counters'
  BY <1>1, QuietCounters DEF Call, GrantedAs
<1>2. ASSUME NEW h \in Harts, LockExcl(h)
      PROVE  Counters'
  BY <1>2, QuietCounters DEF LockExcl, GrantedAs
<1>3. ASSUME NEW h \in Harts, LockShared(h)
      PROVE  Counters'
  BY <1>3, QuietCounters DEF LockShared, GrantedAs
<1>4. ASSUME NEW h \in Harts, Check(h)
      PROVE  Counters'
  BY <1>4, QuietCounters DEF Check, GrantedAs
<1>5. ASSUME NEW h \in Harts, ScanClear(h)
      PROVE  Counters'
  BY <1>5, QuietCounters DEF ScanClear, GrantedAs
<1>6. ASSUME NEW h \in Harts, ScanRefuse(h)
      PROVE  Counters'
  BY <1>6, QuietCounters DEF ScanRefuse, GrantedAs
<1>7. ASSUME NEW h \in Harts, ScanBlock(h)
      PROVE  Counters'
  BY <1>7, QuietCounters DEF ScanBlock, GrantedAs
<1>8. ASSUME NEW h \in Harts, LockEntry(h)
      PROVE  Counters'
  BY <1>8, QuietCounters DEF LockEntry, GrantedAs
<1>9. ASSUME NEW h \in Harts, TestActive(h)
      PROVE  Counters'
  BY <1>9, QuietCounters DEF TestActive, GrantedAs
<1>10. ASSUME NEW h \in Harts, TestInactive(h)
      PROVE  Counters'
  BY <1>10, QuietCounters DEF TestInactive, GrantedAs
<1>11. ASSUME NEW h \in Harts, Wait(h)
      PROVE  Counters'
  BY <1>11, QuietCounters DEF Wait, GrantedAs
<1>12. ASSUME NEW h \in Harts, SwapLocks(h)
      PROVE  Counters'
  BY <1>12, QuietCounters DEF SwapLocks, GrantedAs
<1>13. ASSUME NEW h \in Harts, Enter(h)
      PROVE  Counters'
  <2>0. PICK k \in Kinds : k = Kind(h)
    BY <1>13 DEF Enter
  <2>1. h \notin Counted(k)
    BY <1>13, <2>0 DEF Enter, Counted
  <2>2. \A g \in Harts : GrantedAs(g, k)' <=> g = h \/ GrantedAs(g, k)
    BY <1>13, <2>0 DEF Enter, GrantedAs
  <2>3. Counted(k)' = Counted(k) \cup {h}
    BY <2>2, CountedAdded
  <2>4. \A j \in Kinds \ {k}, g \in Harts : GrantedAs(g, j)' = GrantedAs(g, j)
    BY <1>13, <2>0 DEF Enter, GrantedAs
  <2>5. Cardinality(Counted(k)') = Cardinality(Counted(k)) + 1
    <3>1. IsFiniteSet(Counted(k))
      BY FiniteCounted
    <3>2. Cardinality(Counted(k) \cup {h}) = Cardinality(Counted(k)) + 1
      BY <2>1, <3>1, FS_AddElement, Zenon
    <3> QED
      BY <2>3, <3>2
  <2>6. count' = [count EXCEPT ![k] = @ + 1]
    BY <1>13, <2>0 DEF Enter
  <2>7. \A j \in Kinds \ {k} : Counted(j)' = Counted(j)
    BY <2>4, CountedUnchanged
  <2> QED
    BY <2>0, <2>5, <2>6, <2>7
<1>14. ASSUME NEW h \in Harts, Clear(h)
      PROVE  Counters'
  BY <1>14, QuietCounters DEF Clear, GrantedAs
<1>15. ASSUME NEW h \in Harts, Uncount(h)
      PROVE  Counters'
  <2>0. PICK k \in Kinds : k = Kind(h)
    BY <1>15 DEF Uncount
  <2>1. h \in Counted(k)
    BY <1>15, <2>0 DEF Uncount, Counted
  <2>2. \A g \in Harts : GrantedAs(g, k)' <=> g # h /\ GrantedAs(g, k)
    BY <1>15, <2>0 DEF Uncount, GrantedAs
  <2>3. Counted(k)' = Counted(k) \ {h}
    BY <2>2, CountedRemoved
  <2>4. \A j \in Kinds \ {k}, g \in Harts : GrantedAs(g, j)' = GrantedAs(g, j)
    BY <1>15, <2>0 DEF Uncount, GrantedAs
  <2>5. Cardinality(Counted(k)') = Cardinality(Counted(k)) - 1
    BY <2>1, <2>3, FS_RemoveElement, FiniteCounted
  <2>6. count' = [count EXCEPT ![k] = @ - 1]
    BY <1>15, <2>0 DEF Uncount
  <2>7. \A j \in Kinds \ {k} : Counted(j)' = Counted(j)
    BY <2>4, CountedUnchanged
  <2> QED
    BY <2>0, <2>5, <2>6, <2>7
<1>16. ASSUME NEW h \in Harts, Notify(h)
      PROVE  Counters'
  BY <1>16, QuietCounters DEF Notify, GrantedAs
<1>17. ASSUME NEW h \in Harts, SpuriousWakeup(h)
      PROVE  Counters'
  BY <1>17, QuietCounters DEF SpuriousWakeup, GrantedAs
<1>18. CASE UNCHANGED vars
  BY <1>18, QuietCounters DEF vars, GrantedAs
<1> QED
  BY <1>1, <1>2, <1>3, <1>4, <1>5, <1>6, <1>7, <1>8, <1>9, <1>10, <1>11, <1>12, <1>13, <1>14, <1>15, <1>16, <1>17, <1>18 DEF Next, Aquire, Release

\* A counter at zero stands for no hart.
LEMMA ZeroCounter ==
  ASSUME Counters, NEW k \in Kinds, count[k] = 0
  PROVE  \A g \in Harts : ~GrantedAs(g, k)
<1>1. Counted(k) = {}
  BY FiniteCounted, FS_EmptySet DEF Counters
<1> QED
  BY <1>1 DEF Counted, GrantedAs

\* Every step keeps what a request has established once its scan is over.
LEMMA ClearedStep ==
  ASSUME Shape, Flow, Owners, Entries, Counters, Cleared, [Next]_vars
  PROVE  Cleared'
<1> USE NoneAssumption DEF Shape, Flow, Cleared, GrantedAs, Goto, Kind, Wanted, Labels, Requests, Kinds, Sleepers
<1>1. ASSUME NEW h \in Harts, NEW r \in Requests, Call(h, r)
      PROVE  Cleared'
  BY <1>1 DEF Call
<1>2. ASSUME NEW h \in Harts, LockExcl(h)
      PROVE  Cleared'
  BY <1>2 DEF LockExcl
<1>3. ASSUME NEW h \in Harts, LockShared(h)
      PROVE  Cleared'
  BY <1>3 DEF LockShared
<1>4. ASSUME NEW h \in Harts, Check(h)
      PROVE  Cleared'
  BY <1>4, ZeroCounter DEF Check, Other, Entries
<1>5. ASSUME NEW h \in Harts, ScanClear(h)
      PROVE  Cleared'
  BY <1>5 DEF ScanClear, Conflicts, Other
<1>6. ASSUME NEW h \in Harts, ScanRefuse(h)
      PROVE  Cleared'
  BY <1>6 DEF ScanRefuse
<1>7. ASSUME NEW h \in Harts, ScanBlock(h)
      PROVE  Cleared'
  BY <1>7 DEF ScanBlock
<1>8. ASSUME NEW h \in Harts, LockEntry(h)
      PROVE  Cleared'
  BY <1>8 DEF LockEntry
<1>9. ASSUME NEW h \in Harts, TestActive(h)
      PROVE  Cleared'
  BY <1>9 DEF TestActive
<1>10. ASSUME NEW h \in Harts, TestInactive(h)
      PROVE  Cleared'
  BY <1>10 DEF TestInactive
<1>11. ASSUME NEW h \in Harts, Wait(h)
      PROVE  Cleared'
  BY <1>11 DEF Wait
<1>12. ASSUME NEW h \in Harts, SwapLocks(h)
      PROVE  Cleared'
  BY <1>12 DEF SwapLocks
<1>13. ASSUME NEW h \in Harts, Enter(h)
      PROVE  Cleared'
  BY <1>13 DEF Enter, Owners, OwnsExcl, OwnsShared
<1>14. ASSUME NEW h \in Harts, Clear(h)
      PROVE  Cleared'
  BY <1>14 DEF Clear
<1>15. ASSUME NEW h \in Harts, Uncount(h)
      PROVE  Cleared'
  BY <1>15 DEF Uncount
<1>16. ASSUME NEW h \in Harts, Notify(h)
      PROVE  Cleared'
  BY <1>16 DEF Notify
<1>17. ASSUME NEW h \in Harts, SpuriousWakeup(h)
      PROVE  Cleared'
  BY <1>17 DEF SpuriousWakeup
<1>18. CASE UNCHANGED vars
  BY <1>18 DEF vars
<1> QED
  BY <1>1, <1>2, <1>3, <1>4, <1>5, <1>6, <1>7, <1>8, <1>9, <1>10,
     <1>11, <1>12, <1>13, <1>14, <1>15, <1>16, <1>17, <1>18 DEF Next, Aquire, Release

\* Only a grant and a release write the tables of entries.
LEMMA EntryWriters ==
  ASSUME [Next]_vars
  PROVE  \/ \E h \in Harts : Enter(h) \/ Clear(h)
         \/ UNCHANGED entry
BY DEF Next, Aquire, Release, vars, Call, LockExcl, LockShared, Check, ScanClear,
       ScanRefuse, ScanBlock, LockEntry, TestActive, TestInactive, Wait, SwapLocks,
       Uncount, Notify, SpuriousWakeup

\* Every step keeps shared and exclusive access of one address apart.
LEMMA ExclusionStep ==
  ASSUME Shape, Flow, Cleared, Entries, SharedExclExclusion, [Next]_vars
  PROVE  SharedExclExclusion'
<1> USE DEF Shape, Flow, SharedExclExclusion, Goto, Kind, Wanted, Requests, Kinds
<1>1. ASSUME NEW h \in Harts, Enter(h)
      PROVE  SharedExclExclusion'
  <2>1. CASE Kind(h) = "shared"
    <3>1. /\ entry'["excl"] = entry["excl"]
          /\ entry'["shared"] = [entry["shared"] EXCEPT ![h] = Wanted(h)]
      BY <1>1, <2>1 DEF Enter
    <3>2. \A g \in Harts : entry["excl"][g] # Wanted(h)
      BY <1>1, <2>1 DEF Enter, Cleared
    <3> QED
      BY <3>1, <3>2
  <2>2. CASE Kind(h) = "excl"
    <3>1. /\ entry'["shared"] = entry["shared"]
          /\ entry'["excl"] = [entry["excl"] EXCEPT ![h] = Wanted(h)]
      BY <1>1, <2>2 DEF Enter
    <3>2. \A g \in Harts : entry["shared"][g] = None
      BY <1>1, <2>2 DEF Enter, Cleared, Entries, GrantedAs
    <3> QED
      BY <3>1, <3>2, NoneAssumption
  <2> QED
    BY <1>1, <2>1, <2>2 DEF Enter
<1>2. ASSUME NEW h \in Harts, Clear(h)
      PROVE  SharedExclExclusion'
  BY <1>2, NoneAssumption DEF Clear
<1> QED
  BY <1>1, <1>2, EntryWriters

\* Every step keeps the mutex of an entry with the hart that tests the entry.
LEMMA EntryLocksStep ==
  ASSUME Shape, Flow, EntryLocks, [Next]_vars
  PROVE  EntryLocks'
<1> USE NoneAssumption DEF Shape, Flow, EntryLocks, Goto, Kind, Labels, Requests, Kinds, Other, Conflicts, Sleepers
<1>1. ASSUME NEW h \in Harts, NEW r \in Requests, Call(h, r)
      PROVE  EntryLocks'
  BY <1>1 DEF Call
<1>2. ASSUME NEW h \in Harts, LockExcl(h)
      PROVE  EntryLocks'
  BY <1>2 DEF LockExcl
<1>3. ASSUME NEW h \in Harts, LockShared(h)
      PROVE  EntryLocks'
  BY <1>3 DEF LockShared
<1>4. ASSUME NEW h \in Harts, Check(h)
      PROVE  EntryLocks'
  BY <1>4 DEF Check
<1>5. ASSUME NEW h \in Harts, ScanClear(h)
      PROVE  EntryLocks'
  BY <1>5 DEF ScanClear
<1>6. ASSUME NEW h \in Harts, ScanRefuse(h)
      PROVE  EntryLocks'
  BY <1>6 DEF ScanRefuse
<1>7. ASSUME NEW h \in Harts, ScanBlock(h)
      PROVE  EntryLocks'
  BY <1>7 DEF ScanBlock
<1>8. ASSUME NEW h \in Harts, LockEntry(h)
      PROVE  EntryLocks'
  BY <1>8 DEF LockEntry
<1>9. ASSUME NEW h \in Harts, TestActive(h)
      PROVE  EntryLocks'
  BY <1>9 DEF TestActive
<1>10. ASSUME NEW h \in Harts, TestInactive(h)
      PROVE  EntryLocks'
  BY <1>10 DEF TestInactive
<1>11. ASSUME NEW h \in Harts, Wait(h)
      PROVE  EntryLocks'
  BY <1>11 DEF Wait
<1>12. ASSUME NEW h \in Harts, SwapLocks(h)
      PROVE  EntryLocks'
  BY <1>12 DEF SwapLocks
<1>13. ASSUME NEW h \in Harts, Enter(h)
      PROVE  EntryLocks'
  BY <1>13 DEF Enter
<1>14. ASSUME NEW h \in Harts, Clear(h)
      PROVE  EntryLocks'
  BY <1>14 DEF Clear
<1>15. ASSUME NEW h \in Harts, Uncount(h)
      PROVE  EntryLocks'
  BY <1>15 DEF Uncount
<1>16. ASSUME NEW h \in Harts, Notify(h)
      PROVE  EntryLocks'
  BY <1>16 DEF Notify
<1>17. ASSUME NEW h \in Harts, SpuriousWakeup(h)
      PROVE  EntryLocks'
  BY <1>17 DEF SpuriousWakeup
<1>18. CASE UNCHANGED vars
  BY <1>18 DEF vars
<1> QED
  BY <1>1, <1>2, <1>3, <1>4, <1>5, <1>6, <1>7, <1>8, <1>9, <1>10, <1>11, <1>12, <1>13, <1>14, <1>15, <1>16, <1>17, <1>18 DEF Next, Aquire, Release

\* Every step keeps a hart that is about to sleep on an entry still active.
LEMMA SleepStep ==
  ASSUME Shape, Flow, EntryLocks, SleepsOnActiveEntry, [Next]_vars
  PROVE  SleepsOnActiveEntry'
<1> USE NoneAssumption DEF Shape, Flow, EntryLocks, SleepsOnActiveEntry, Goto, Kind, Wanted, Labels, Requests, Kinds, Other, Sleepers
<1>1. ASSUME NEW h \in Harts, NEW r \in Requests, Call(h, r)
      PROVE  SleepsOnActiveEntry'
  BY <1>1 DEF Call
<1>2. ASSUME NEW h \in Harts, LockExcl(h)
      PROVE  SleepsOnActiveEntry'
  BY <1>2 DEF LockExcl
<1>3. ASSUME NEW h \in Harts, LockShared(h)
      PROVE  SleepsOnActiveEntry'
  BY <1>3 DEF LockShared
<1>4. ASSUME NEW h \in Harts, Check(h)
      PROVE  SleepsOnActiveEntry'
  BY <1>4 DEF Check
<1>5. ASSUME NEW h \in Harts, ScanClear(h)
      PROVE  SleepsOnActiveEntry'
  BY <1>5 DEF ScanClear
<1>6. ASSUME NEW h \in Harts, ScanRefuse(h)
      PROVE  SleepsOnActiveEntry'
  BY <1>6 DEF ScanRefuse
<1>7. ASSUME NEW h \in Harts, ScanBlock(h)
      PROVE  SleepsOnActiveEntry'
  BY <1>7 DEF ScanBlock
<1>8. ASSUME NEW h \in Harts, LockEntry(h)
      PROVE  SleepsOnActiveEntry'
  BY <1>8 DEF LockEntry
<1>9. ASSUME NEW h \in Harts, TestActive(h)
      PROVE  SleepsOnActiveEntry'
  BY <1>9 DEF TestActive
<1>10. ASSUME NEW h \in Harts, TestInactive(h)
      PROVE  SleepsOnActiveEntry'
  BY <1>10 DEF TestInactive
<1>11. ASSUME NEW h \in Harts, Wait(h)
      PROVE  SleepsOnActiveEntry'
  BY <1>11 DEF Wait
<1>12. ASSUME NEW h \in Harts, SwapLocks(h)
      PROVE  SleepsOnActiveEntry'
  BY <1>12 DEF SwapLocks
<1>13. ASSUME NEW h \in Harts, Enter(h)
      PROVE  SleepsOnActiveEntry'
  BY <1>13 DEF Enter
<1>14. ASSUME NEW h \in Harts, Clear(h)
      PROVE  SleepsOnActiveEntry'
  BY <1>14 DEF Clear
<1>15. ASSUME NEW h \in Harts, Uncount(h)
      PROVE  SleepsOnActiveEntry'
  BY <1>15 DEF Uncount
<1>16. ASSUME NEW h \in Harts, Notify(h)
      PROVE  SleepsOnActiveEntry'
  BY <1>16 DEF Notify
<1>17. ASSUME NEW h \in Harts, SpuriousWakeup(h)
      PROVE  SleepsOnActiveEntry'
  BY <1>17 DEF SpuriousWakeup
<1>18. CASE UNCHANGED vars
  BY <1>18 DEF vars
<1> QED
  BY <1>1, <1>2, <1>3, <1>4, <1>5, <1>6, <1>7, <1>8, <1>9, <1>10, <1>11, <1>12, <1>13, <1>14, <1>15, <1>16, <1>17, <1>18 DEF Next, Aquire, Release

-----------------------------------------------------------------------------
\* The idle monitor satisfies the invariant of the layers.
LEMMA InitIInv == Init => IInv
<1> SUFFICES ASSUME Init PROVE IInv
  OBVIOUS
<1> USE NoneAssumption DEF Init, Kinds
<1>1. Shape /\ Flow
  BY DEF Shape, Flow, Labels
<1>2. Owners
  BY DEF Owners, OwnsExcl, OwnsShared
<1>3. Entries /\ SharedExclExclusion
  BY DEF Entries, SharedExclExclusion
<1>4. Counters
  <2>1. \A k \in Kinds : Counted(k) = {}
    BY DEF Counted
  <2> QED
    BY <2>1, FS_EmptySet DEF Counters
<1>5. Cleared /\ EntryLocks /\ SleepsOnActiveEntry
  BY DEF Cleared, EntryLocks, SleepsOnActiveEntry
<1> QED
  BY <1>1, <1>2, <1>3, <1>4, <1>5 DEF IInv

\* Every step of the monitor keeps the invariant of the layers.
LEMMA StepIInv == IInv /\ [Next]_vars => IInv'
BY ShapeStep, OwnersStep, EntriesStep, CountersStep, ClearedStep, EntryLocksStep,
   ExclusionStep, SleepStep DEF IInv

\* The layers hold together in every reachable state.
THEOREM Invariance == Spec => []IInv
BY InitIInv, StepIInv, PTL DEF Spec

\* Every variable keeps its type; the counters never go below zero.
THEOREM TypeCorrect == Spec => []TypeOK
<1>1. IInv => TypeOK
  <2> SUFFICES ASSUME IInv PROVE TypeOK
    OBVIOUS
  <2>1. \A k \in Kinds : count[k] \in Nat
    BY FiniteCounted, FS_CardinalityType DEF IInv, Counters
  <2> QED
    BY <2>1 DEF IInv, Shape, TypeOK
<1> QED
  BY <1>1, Invariance, PTL

\* Shared and exclusive access never meet at one address.
THEOREM Exclusion == Spec => []SharedExclExclusion
<1>1. IInv => SharedExclExclusion
  BY DEF IInv
<1> QED
  BY <1>1, Invariance, PTL

\* Each counter is the number of granted requests of its kind.
THEOREM ExactCounters == Spec => []CountersExact
<1>1. IInv => CountersExact
  BY DEF IInv, Shape, Entries, Counters, CountersExact, Counted
<1> QED
  BY <1>1, Invariance, PTL

\* A hart that waits for an entry owns no table mutex.
THEOREM WaitersUnlocked == Spec => []WaitersHoldNoTableMutex
<1>1. IInv => WaitersHoldNoTableMutex
  BY DEF IInv, Owners, OwnsExcl, OwnsShared, WaitersHoldNoTableMutex, Kinds
<1> QED
  BY <1>1, Invariance, PTL

\* No hart goes to sleep on an entry cleared after it tested it.
THEOREM SleepsOnlyOnActive == Spec => []SleepsOnActiveEntry
<1>1. IInv => SleepsOnActiveEntry
  BY DEF IInv
<1> QED
  BY <1>1, Invariance, PTL

-----------------------------------------------------------------------------
\* While a request spins nobody can be granted access, because a grant needs a
\* table mutex, and no shared request can be uncounted, for the same reason.
LEMMA SpinBlocks ==
  ASSUME IInv, [Next]_vars, NEW s \in Harts, Spinning(s)
  PROVE  /\ \A h \in Harts : ~Enter(h)
         /\ count'["shared"] = count["shared"]
<1> USE NoneAssumption DEF IInv, Shape, Flow, Spinning, Goto, Kind, Requests, Kinds
<1>1. mutex["shared"] = s
  BY DEF Owners, OwnsShared
<1>2. ASSUME NEW h \in Harts, Enter(h)
      PROVE  FALSE
  BY <1>1, <1>2 DEF Enter, Owners, OwnsShared
<1>3. ASSUME NEW h \in Harts, Uncount(h)
      PROVE  count'["shared"] = count["shared"]
  BY <1>1, <1>3 DEF Uncount
<1>4. \/ \E h \in Harts : Enter(h) \/ Uncount(h)
      \/ UNCHANGED count
  BY DEF Next, Aquire, Release, vars, Call, LockExcl, LockShared, Check, ScanClear,
         ScanRefuse, ScanBlock, LockEntry, TestActive, TestInactive, Wait, SwapLocks,
         Clear, Notify, SpuriousWakeup
<1> QED
  BY <1>2, <1>3, <1>4

\* The spinning hart itself only moves between the counter and the scan.
LEMMA SpinStays ==
  ASSUME IInv, [Next]_vars, NEW s \in Harts, Spinning(s)
  PROVE  pc'[s] \in {"check", "scan"} /\ req'[s] = req[s]
<1> USE DEF IInv, Shape, Flow, Spinning, Goto, Kind, Requests, Kinds, Labels
<1> DEFINE Stays == pc'[s] \in {"check", "scan"} /\ req'[s] = req[s]
<1>1. ASSUME NEW h \in Harts, NEW r \in Requests, Call(h, r)
      PROVE  Stays
  BY <1>1 DEF Call
<1>2. ASSUME NEW h \in Harts, Aquire(h)
      PROVE  Stays
  <2>1. CASE h # s
    BY <1>2, <2>1 DEF Aquire, LockExcl, LockShared, Check, ScanClear, ScanRefuse,
       ScanBlock, LockEntry, TestActive, TestInactive, Wait, SwapLocks, Enter
  <2>2. CASE h = s /\ pc[s] = "check"
    BY <1>2, <2>2 DEF Aquire, LockExcl, LockShared, Check, ScanClear, ScanRefuse,
       ScanBlock, LockEntry, TestActive, TestInactive, Wait, SwapLocks, Enter, Other
  <2>3. CASE h = s /\ pc[s] = "scan"
    BY <1>2, <2>3 DEF Aquire, LockExcl, LockShared, Check, ScanClear, ScanRefuse,
       ScanBlock, LockEntry, TestActive, TestInactive, Wait, SwapLocks, Enter
  <2> QED
    BY <2>1, <2>2, <2>3
<1>3. ASSUME NEW h \in Harts, Release(h) \/ SpuriousWakeup(h)
      PROVE  Stays
  BY <1>3 DEF Release, Clear, Uncount, Notify, Sleepers, SpuriousWakeup
<1>4. CASE UNCHANGED vars
  BY <1>4 DEF vars
<1> QED
  BY <1>1, <1>2, <1>3, <1>4 DEF Next

\* Once a request spins, every step leaves it spinning.
LEMMA SpinStep ==
  ASSUME IInv, [Next]_vars, NEW s \in Harts, Spinning(s)
  PROVE  Spinning(s)'
<1>1. \A h \in Harts : ~Enter(h)
  BY SpinBlocks
<1>2. count'["shared"] = count["shared"]
  BY SpinBlocks
<1>3. pc'[s] \in {"check", "scan"} /\ req'[s] = req[s]
  BY SpinStays
<1>4. \A g \in Harts : entry["shared"][g] # Wanted(s)
  BY DEF Spinning, Conflicts, Kind, Other
<1>5. Wanted(s) # None
  BY NoneAssumption DEF IInv, Flow, Spinning, Wanted, Requests
<1>6. \A g \in Harts : entry'["shared"][g] # Wanted(s)
  <2>1. ASSUME NEW h \in Harts, Clear(h)
        PROVE  \A g \in Harts : entry'["shared"][g] # Wanted(s)
    BY <2>1, <1>4, <1>5 DEF Clear, IInv, Shape, Kinds
  <2> QED
    BY <1>1, <1>4, <2>1, EntryWriters
<1>7. Conflicts(s)' = {}
  BY <1>3, <1>6 DEF Conflicts, Kind, Wanted, Other, Spinning
<1> QED
  BY <1>2, <1>3, <1>7 DEF Spinning, Kind

\* An exclusive request that spins holds both table mutexes for good.
THEOREM SpinForever == Spec => SpinIsForever
<1>1. IInv /\ [Next]_vars => [\A h \in Harts : Spinning(h) => Spinning(h)']_vars
  BY SpinStep
<1> QED
  BY <1>1, Invariance, PTL DEF Spec, SpinIsForever

-----------------------------------------------------------------------------
\* A grant of the code is a grant of AccessGrant.
LEMMA EnterGrants ==
  ASSUME IInv, NEW h \in Harts, Enter(h)
  PROVE  Grant!GrantNext
<1> USE DEF IInv, Shape, Flow, Goto, Kind, Wanted, Requests, Kinds
<1>1. pc[h] = "enter" /\ req[h] \in Requests
  BY DEF Enter
<1>2. \A k \in Kinds : entry[k][h] = None
  BY <1>1 DEF Entries
<1>3. CASE Kind(h) = "shared"
  <2>1. /\ entry'["excl"] = entry["excl"]
        /\ entry'["shared"] = [entry["shared"] EXCEPT ![h] = Wanted(h)]
    BY <1>3 DEF Enter
  <2>2. \A g \in Harts : entry["excl"][g] # Wanted(h)
    BY <1>1, <1>3 DEF Cleared
  <2>3. Grant!GrantShared(h, Wanted(h))
    BY <1>2, <2>1, <2>2 DEF Grant!GrantShared
  <2> QED
    BY <1>1, <2>3 DEF Grant!GrantNext
<1>4. CASE Kind(h) = "excl"
  <2>1. /\ entry'["shared"] = entry["shared"]
        /\ entry'["excl"] = [entry["excl"] EXCEPT ![h] = Wanted(h)]
    BY <1>4 DEF Enter
  <2>2. \A g \in Harts : entry["shared"][g] = None
    BY <1>1, <1>4 DEF Cleared, Entries, GrantedAs
  <2>3. Grant!GrantExcl(h, Wanted(h))
    BY <1>1, <1>2, <2>1, <2>2, NoneAssumption DEF Grant!GrantExcl
  <2> QED
    BY <1>1, <2>3 DEF Grant!GrantNext
<1> QED
  BY <1>1, <1>3, <1>4

\* Clearing an entry is giving the access up.
LEMMA ClearGivesUp ==
  ASSUME IInv, NEW h \in Harts, Clear(h)
  PROVE  Grant!GrantNext
<1> USE DEF IInv, Shape, Flow, Goto, Kind, Wanted, Requests, Kinds
<1>1. pc[h] = "held" /\ req[h] \in Requests
  BY DEF Clear
<1>2. entry[Kind(h)][h] # None
  BY <1>1, NoneAssumption DEF Entries
<1>3. CASE Kind(h) = "shared"
  BY <1>2, <1>3 DEF Clear, Grant!GrantNext, Grant!GiveUpShared
<1>4. CASE Kind(h) = "excl"
  BY <1>2, <1>4 DEF Clear, Grant!GrantNext, Grant!GiveUpExcl
<1> QED
  BY <1>1, <1>3, <1>4

\* The protocol implements AccessGrant: initial states map to initial states,
\* grants to grants, releases to releases, and every other step is invisible.
THEOREM Refinement == Spec => ImplementsGrant
<1>1. Init => Grant!GrantInit
  BY DEF Init, Kinds, Grant!GrantInit
<1>2. IInv /\ [Next]_vars => [Grant!GrantNext]_(Grant!grants)
  <2> SUFFICES ASSUME IInv, [Next]_vars
               PROVE  Grant!GrantNext \/ UNCHANGED Grant!grants
    OBVIOUS
  <2>1. CASE UNCHANGED entry
    BY <2>1 DEF Grant!grants
  <2> QED
    BY <2>1, EnterGrants, ClearGivesUp, EntryWriters
<1> QED
  BY <1>1, <1>2, Invariance, PTL DEF Spec, ImplementsGrant, Grant!GrantSpec

=============================================================================

-------------------- MODULE MonitorReservationsRaceProofs --------------------
(***************************************************************************)
(* Proofs about MonitorReservationsRace for any number of harts, any       *)
(* addresses and any word size.  The types hold however the harts overlap; *)
(* the rest holds when they take turns (Serial): then the steps of a call  *)
(* add up to the one step that MonitorReservations makes of it.            *)
(***************************************************************************)
EXTENDS MonitorReservationsRace, FiniteSetTheorems, TLAPS

\* A hart that is not idle is in a call.
Calling == \A h \in Harts : pc[h] # "idle" => call[h] \in Calls

\* At most one hart is in a call.
Alone == \A g, h \in Harts : pc[g] # "idle" /\ pc[h] # "idle" => g = h

\* The counter is the number of active entries, one more between the store to
\* an entry's active flag and the store to the counter that belongs to it.
Used == {h \in Harts : active[h]}
Uncounted == \E h \in Harts : pc[h] \in {"decLoad", "decStore", "activate"}
Counted == reserveCount = IF Uncounted THEN Cardinality(Used) + 1 ELSE Cardinality(Used)

-----------------------------------------------------------------------------
\* What the call of a hart has done since it started: the table and counter
\* it found are <<seen[1], seen[2]>>.
Op(h) == call[h].op
Found(h) == Atomic!Revoked(call[h].addr)
Left(h) == Atomic!EntryWithout(Found(h))
LeftCount(h) == Atomic!CountWithout(Found(h))

Untouched == Visible = seen[1] /\ reserveCount = seen[2]
Revoked(h) == Visible = Left(h) /\ reserveCount = LeftCount(h)
Released(h) == [seen[1] EXCEPT ![h] = None]

\* What a call that is about to return has done.
Done(h) ==
  \/ /\ Op(h) = "revoke" /\ Revoked(h)
  \/ /\ Op(h) = "aquire"
     /\ Visible = [Left(h) EXCEPT ![h] = Offset(h)]
     /\ reserveCount = LeftCount(h) + (IF Left(h)[h] = None THEN 1 ELSE 0)
  \/ /\ Op(h) = "release"
     /\ IF seen[1][h] = None THEN Untouched
        ELSE Visible = Released(h) /\ reserveCount = seen[2] - 1

\* What holds at each step of a call.
Progress(h) ==
  CASE pc[h] = "readCount" -> Op(h) # "release" /\ Untouched /\ index[h] = 0
    [] pc[h] = "scan" -> /\ Op(h) # "release" /\ Untouched /\ reserveCount # 0
                         /\ \A g \in Harts : g < index[h] => seen[1][g] # Offset(h)
    [] pc[h] = "clear" -> /\ Op(h) # "release" /\ Untouched /\ reserveCount # 0
                          /\ index[h] \in Found(h)
    [] pc[h] \in {"decLoad", "decStore"} ->
         /\ reserveCount = seen[2] /\ reserveCount # 0
         /\ IF Op(h) = "release" THEN seen[1][h] # None /\ Visible = Released(h)
            ELSE Found(h) # {} /\ Visible = Left(h)
         /\ pc[h] = "decStore" => loaded[h] = reserveCount
    [] pc[h] = "own" -> Op(h) = "aquire" /\ Revoked(h)
    [] pc[h] \in {"incLoad", "incStore"} ->
         /\ Op(h) = "aquire" /\ Revoked(h) /\ ~active[h]
         /\ pc[h] = "incStore" => loaded[h] = reserveCount
    [] pc[h] = "activate" ->
         /\ Op(h) = "aquire" /\ ~active[h]
         /\ Visible = Left(h) /\ reserveCount = LeftCount(h) + 1
    [] pc[h] = "address" ->
         /\ Op(h) = "aquire" /\ active[h]
         /\ \A g \in Harts \ {h} : Visible[g] = Left(h)[g]
         /\ reserveCount = LeftCount(h) + (IF Left(h)[h] = None THEN 1 ELSE 0)
    [] pc[h] = "testOwn" -> Op(h) = "release" /\ Untouched
    [] pc[h] = "free" -> Op(h) = "release" /\ Untouched /\ active[h]
    [] pc[h] = "return" -> Done(h)
    [] OTHER -> index[h] = 0

SeenType == seen \in [Harts -> Offsets \cup {None}] \X (0 .. CountSize - 1)

IInv ==
  /\ TypeOK
  /\ Calling
  /\ Alone
  /\ Counted
  /\ SeenType
  /\ Quiet => Untouched
  /\ \A h \in Harts : Progress(h)

-----------------------------------------------------------------------------
\* The offset of a calling hart's address is an offset within the word.
LEMMA OffsetType ==
  ASSUME NEW h \in Harts, call[h] \in Calls
  PROVE  Offset(h) \in Offsets /\ Offset(h) # None
<1>1. call[h].addr \in Nat
  BY AddressesAssumption DEF Calls
<1> QED
  BY <1>1, WordSizeAssumption, NoneAssumption DEF Offset, Offsets, GetAlignedAddress

\* The empty table has the types.
LEMMA InitType == Init => TypeOK /\ Calling
BY HartCountAssumption, RaceAssumption, WordSizeAssumption
DEF Init, TypeOK, Calling, Labels, Harts, Offsets

\* Every step of every call keeps them, whatever the other harts are doing.
LEMMA StepType ==
  ASSUME TypeOK, Calling, [Next]_vars
  PROVE  TypeOK' /\ Calling'
<1> USE DEF TypeOK, Calling, table
<1>1. CASE UNCHANGED vars
  BY <1>1 DEF vars
<1>2. ASSUME NEW h \in Harts, NEW c \in Calls, Start(h, c)
      PROVE  TypeOK' /\ Calling'
  BY <1>2 DEF Start, Goto, Labels
<1>3. ASSUME NEW h \in Harts, ReadCount(h)
      PROVE  TypeOK' /\ Calling'
  BY <1>3 DEF ReadCount, Goto, AfterRevoke, Labels
<1>4. ASSUME NEW h \in Harts, Scan(h)
      PROVE  TypeOK' /\ Calling'
  <2>1. index' \in [Harts -> 0 .. HartCount]
    BY <1>4, HartCountAssumption DEF Scan
  <2> QED
    BY <1>4, <2>1 DEF Scan, Goto, AfterRevoke, Labels
<1>5. ASSUME NEW h \in Harts, Clear(h)
      PROVE  TypeOK' /\ Calling'
  BY <1>5 DEF Clear, Goto, Labels
<1>6. ASSUME NEW h \in Harts, Load(h)
      PROVE  TypeOK' /\ Calling'
  BY <1>6 DEF Load, Goto, Labels
<1>7. ASSUME NEW h \in Harts, Store(h)
      PROVE  TypeOK' /\ Calling'
  <2>1. reserveCount' \in 0 .. CountSize - 1
    BY <1>7, HartCountAssumption, RaceAssumption DEF Store
  <2> QED
    BY <1>7, <2>1 DEF Store, Goto, AfterRevoke, Labels
<1>8. ASSUME NEW h \in Harts, TestOwn(h)
      PROVE  TypeOK' /\ Calling'
  BY <1>8 DEF TestOwn, Goto, Labels
<1>9. ASSUME NEW h \in Harts, Activate(h)
      PROVE  TypeOK' /\ Calling'
  BY <1>9 DEF Activate, Goto, Labels
<1>10. ASSUME NEW h \in Harts, SetAddress(h)
       PROVE  TypeOK' /\ Calling'
  <2>1. Offset(h) \in Offsets
    BY <1>10, OffsetType DEF SetAddress, Goto
  <2> QED
    BY <1>10, <2>1 DEF SetAddress, Goto, Labels
<1>11. ASSUME NEW h \in Harts, Return(h)
       PROVE  TypeOK' /\ Calling'
  BY <1>11, HartCountAssumption, RaceAssumption DEF Return, Goto, Labels
<1> QED
  BY <1>1, <1>2, <1>3, <1>4, <1>5, <1>6, <1>7, <1>8, <1>9, <1>10, <1>11 DEF Next

\* The variables keep their types, also when harts overlap and lose updates of
\* the counter.
THEOREM TypeCorrect == Spec => []TypeOK
<1>1. TypeOK /\ Calling /\ [Next]_vars => (TypeOK /\ Calling)'
  BY StepType
<1> QED
  BY <1>1, InitType, PTL DEF Spec

-----------------------------------------------------------------------------
\* There are finitely many harts, so at most HartCount active entries, and
\* fewer when there is one that is not.
LEMMA UsedBounds ==
  /\ IsFiniteSet(Used) /\ Cardinality(Used) \in 0 .. HartCount
  /\ \A h \in Harts : ~active[h] => Cardinality(Used) < HartCount
<1>1. IsFiniteSet(Harts) /\ Cardinality(Harts) = HartCount
  BY HartCountAssumption, FS_Interval DEF Harts
<1>2. IsFiniteSet(Used) /\ Cardinality(Used) <= HartCount
  BY <1>1, FS_Subset DEF Used
<1>3. Cardinality(Used) \in Nat
  BY <1>2, FS_CardinalityType
<1>4. ASSUME NEW h \in Harts, ~active[h]
      PROVE  Cardinality(Used) < HartCount
  <2>1. Used \subseteq Harts \ {h}
    BY <1>4 DEF Used
  <2>2. IsFiniteSet(Harts \ {h}) /\ Cardinality(Harts \ {h}) = HartCount - 1
    BY <1>1, FS_RemoveElement
  <2>3. Cardinality(Used) <= HartCount - 1
    BY <2>1, <2>2, FS_Subset
  <2> QED
    BY <2>3, <1>3, HartCountAssumption
<1> QED
  BY <1>2, <1>3, <1>4, HartCountAssumption

\* An entry shows its address when it is active and None when it is not.
LEMMA VisibleType ==
  ASSUME TypeOK
  PROVE  /\ Visible \in [Harts -> Offsets \cup {None}]
         /\ \A h \in Harts : active[h] <=> Visible[h] # None
BY NoneAssumption, WordSizeAssumption DEF TypeOK, Visible, Offsets

\* The entry a call revokes is the first at its offset; there is one at most.
LEMMA FoundIsFirst ==
  ASSUME SeenType, NEW h \in Harts
  PROVE  /\ Found(h) = {g \in Harts : /\ seen[2] # 0 /\ seen[1][g] = Offset(h)
                                      /\ \A f \in Harts : f < g => seen[1][f] # Offset(h)}
         /\ Left(h) = [g \in Harts |-> IF g \in Found(h) THEN None ELSE seen[1][g]]
         /\ LeftCount(h) = IF Found(h) = {} THEN seen[2] ELSE seen[2] - 1
         /\ \A f, g \in Found(h) : f = g
<1>1. Found(h) = {g \in Harts : /\ seen[2] # 0 /\ seen[1][g] = Offset(h)
                                /\ \A f \in Harts : f < g => seen[1][f] # Offset(h)}
  BY DEF Found, Atomic!Revoked, Atomic!GetAlignedAddress, Atomic!Harts, Harts, Offset, GetAlignedAddress
<1>2. \A f, g \in Found(h) : f = g
  BY <1>1, HartCountAssumption DEF Harts
<1> QED
  BY <1>1, <1>2 DEF Left, LeftCount, Atomic!EntryWithout, Atomic!CountWithout,
                    Atomic!Harts, Harts

\* What a call is and what it found changes only as it starts and returns.
LEMMA SameCall ==
  ASSUME UNCHANGED <<call, seen>>, NEW h \in Harts
  PROVE  /\ Op(h)' = Op(h) /\ Offset(h)' = Offset(h)
         /\ Found(h)' = Found(h) /\ Left(h)' = Left(h)
         /\ LeftCount(h)' = LeftCount(h) /\ Released(h)' = Released(h)
BY DEF Op, Offset, Found, Left, LeftCount, Released, Atomic!Revoked, Atomic!GetAlignedAddress,
       Atomic!Harts, Atomic!EntryWithout, Atomic!CountWithout

\* While a hart is in a call, the others are idle and the count depends on it alone.
LEMMA Busy ==
  ASSUME IInv, NEW h \in Harts, pc[h] # "idle"
  PROVE  /\ call[h] \in Calls
         /\ \A g \in Harts \ {h} : pc[g] = "idle" /\ index[g] = 0
         /\ reserveCount = IF pc[h] \in {"decLoad", "decStore", "activate"}
                           THEN Cardinality(Used) + 1 ELSE Cardinality(Used)
<1>1. \A g \in Harts \ {h} : pc[g] = "idle"
  BY DEF IInv, Alone
<1>2. \A g \in Harts \ {h} : index[g] = 0
  BY <1>1 DEF IInv, Progress
<1>3. Uncounted <=> pc[h] \in {"decLoad", "decStore", "activate"}
  BY <1>1 DEF Uncounted
<1> QED
  BY <1>1, <1>2, <1>3 DEF IInv, Counted, Calling

\* A step within a call keeps the invariant if it keeps the part about that
\* call and the count.
LEMMA Advance ==
  ASSUME IInv, TypeOK', Calling',
         NEW h \in Harts, pc[h] # "idle",
         NEW l \in Labels \ {"idle"}, pc' = [pc EXCEPT ![h] = l],
         UNCHANGED <<call, seen>>,
         \A g \in Harts \ {h} : index'[g] = index[g],
         Progress(h)',
         reserveCount' = IF l \in {"decLoad", "decStore", "activate"}
                           THEN Cardinality(Used') + 1 ELSE Cardinality(Used')
  PROVE  IInv'
<1>1. \A g \in Harts \ {h} : pc'[g] = "idle" /\ index'[g] = 0
  BY Busy DEF IInv, TypeOK
<1>2. pc'[h] = l
  BY DEF IInv, TypeOK
<1>3. Alone' /\ ~Quiet'
  BY <1>1, <1>2 DEF Alone, Quiet
<1>4. Counted'
  <2>1. Uncounted' <=> l \in {"decLoad", "decStore", "activate"}
    BY <1>1, <1>2 DEF Uncounted
  <2> QED
    BY <2>1 DEF Counted
<1>5. \A g \in Harts : Progress(g)'
  BY <1>1 DEF Progress
<1>6. SeenType'
  BY DEF IInv, SeenType
<1> QED
  BY <1>3, <1>4, <1>5, <1>6 DEF IInv

-----------------------------------------------------------------------------
\* A call that starts finds the table as it is shown.
LEMMA StartStep ==
  ASSUME Serial, IInv, TypeOK', Calling', NEW h \in Harts, NEW c \in Calls, Start(h, c)
  PROVE  IInv'
<1> DEFINE l == IF c.op = "release" THEN "testOwn" ELSE "readCount"
<1>1. Quiet /\ Untouched
  BY DEF Start, IInv
<1>2. \A g \in Harts : index[g] = 0
  BY <1>1 DEF Quiet, IInv, Progress
<1>3. pc'[h] = l /\ call'[h] = c /\ \A g \in Harts \ {h} : pc'[g] = "idle"
  BY <1>1 DEF Start, Goto, IInv, TypeOK, Quiet
<1>4. UNCHANGED <<index, active, addr, reserveCount, seen>>
  BY DEF Start, table
<1>5. Untouched'
  BY <1>1, <1>4 DEF Untouched, Visible
<1>6. Progress(h)'
  BY <1>2, <1>3, <1>4, <1>5 DEF Progress, Op
<1>7. \A g \in Harts : Progress(g)'
  BY <1>2, <1>3, <1>4, <1>6 DEF Progress
<1>8. Counted'
  <2>1. ~Uncounted
    BY <1>1 DEF Quiet, Uncounted
  <2>2. ~Uncounted'
    BY <1>3 DEF Uncounted
  <2>3. Used' = Used
    BY <1>4 DEF Used
  <2> QED
    BY <1>4, <2>1, <2>2, <2>3 DEF IInv, Counted
<1>9. Alone' /\ ~Quiet' /\ SeenType'
  BY <1>3, <1>4 DEF Alone, Quiet, IInv, SeenType
<1> QED
  BY <1>7, <1>8, <1>9 DEF IInv

\* On a zero counter the call is over with the revocation: there was nothing to find.
LEMMA ReadCountStep ==
  ASSUME IInv, TypeOK', Calling', NEW h \in Harts, ReadCount(h)
  PROVE  IInv'
<1> DEFINE l == IF reserveCount = 0 THEN AfterRevoke(h) ELSE "scan"
<1>1. pc[h] = "readCount" /\ pc' = [pc EXCEPT ![h] = l] /\ l \in Labels \ {"idle"}
  BY DEF ReadCount, Goto, AfterRevoke, Labels
<1>2. UNCHANGED <<call, index, active, addr, reserveCount, seen>> /\ Used' = Used /\ Visible' = Visible
  BY DEF ReadCount, table, Used, Visible
<1>3. Op(h) # "release" /\ Untouched /\ index[h] = 0 /\ call[h] \in Calls
  BY <1>1, Busy DEF IInv, Progress
<1>4. pc'[h] = l
  BY <1>1 DEF IInv, TypeOK
<1>5. Progress(h)'
  <2>1. CASE reserveCount = 0
    <3>1. Found(h) = {} /\ Left(h) = seen[1] /\ LeftCount(h) = seen[2]
      BY <1>3, <2>1, FoundIsFirst DEF IInv, SeenType, Untouched
    <3>2. Revoked(h)'
      BY <1>2, <1>3, <3>1, SameCall DEF Revoked, Untouched
    <3>3. CASE Op(h) = "aquire"
      BY <1>2, <1>4, <2>1, <3>2, <3>3, SameCall DEF Progress, AfterRevoke, Op
    <3>4. CASE Op(h) = "revoke"
      BY <1>2, <1>4, <2>1, <3>2, <3>4, SameCall DEF Progress, AfterRevoke, Op, Done
    <3> QED
      BY <1>3, <3>3, <3>4 DEF Op, Calls
  <2>2. CASE reserveCount # 0
    BY <1>2, <1>3, <1>4, <2>2, SameCall DEF Progress, Untouched, Harts
  <2> QED
    BY <2>1, <2>2
<1>6. reserveCount' = Cardinality(Used') /\ l \notin {"decLoad", "decStore", "activate"}
  BY <1>1, <1>2, Busy DEF AfterRevoke
<1> QED
  BY <1>1, <1>2, <1>5, <1>6, Advance

\* The scan stops at the first entry with the offset or behind the last entry.
LEMMA ScanStep ==
  ASSUME IInv, TypeOK', Calling', NEW h \in Harts, Scan(h)
  PROVE  IInv'
<1>1. pc[h] = "scan"
  BY DEF Scan, Goto
<1>2. UNCHANGED <<call, active, addr, reserveCount, seen>> /\ Used' = Used /\ Visible' = Visible
  BY DEF Scan, table, Used, Visible
<1>3. /\ Op(h) # "release" /\ Untouched /\ reserveCount # 0 /\ call[h] \in Calls
      /\ \A g \in Harts : g < index[h] => seen[1][g] # Offset(h)
  BY <1>1, Busy DEF IInv, Progress
<1>4. Offset(h) # None
  BY <1>3, OffsetType
<1>5. \A g \in Harts : active[g] /\ addr[g] = Offset(h) <=> seen[1][g] = Offset(h)
  BY <1>3, <1>4 DEF Untouched, Visible
<1>6. index[h] \in 0 .. HartCount
  BY DEF IInv, TypeOK
<1>7. reserveCount' = Cardinality(Used')
  BY <1>1, <1>2, Busy
<1>8. CASE Goto(h, "scan", AfterRevoke(h)) /\ index[h] = HartCount /\ UNCHANGED index
  <2>1. pc'[h] = AfterRevoke(h) /\ AfterRevoke(h) \in Labels \ {"idle"}
    BY <1>8 DEF Goto, AfterRevoke, Labels, IInv, TypeOK
  <2>2. \A g \in Harts : g < index[h]
    BY <1>8, HartCountAssumption DEF Harts
  <2>3. Found(h) = {} /\ Left(h) = seen[1] /\ LeftCount(h) = seen[2]
    BY <1>3, <2>2, FoundIsFirst DEF IInv, SeenType
  <2>4. Revoked(h)'
    BY <1>2, <1>3, <2>3, SameCall DEF Revoked, Untouched
  <2>5. Progress(h)'
    <3>1. CASE Op(h) = "aquire"
      BY <1>2, <2>1, <2>4, <3>1, SameCall DEF Progress, AfterRevoke, Op
    <3>2. CASE Op(h) = "revoke"
      BY <1>2, <2>1, <2>4, <3>2, SameCall DEF Progress, AfterRevoke, Op, Done
    <3> QED
      BY <1>3, <3>1, <3>2 DEF Op, Calls
  <2> QED
    BY <1>1, <1>2, <1>7, <1>8, <2>1, <2>5, Advance DEF Goto, AfterRevoke
<1>9. CASE /\ Goto(h, "scan", "clear") /\ UNCHANGED index
           /\ index[h] < HartCount /\ active[index[h]] /\ addr[index[h]] = Offset(h)
  <2>1. pc'[h] = "clear"
    BY <1>9 DEF Goto, IInv, TypeOK
  <2>2. index[h] \in Harts
    BY <1>6, <1>9, HartCountAssumption DEF Harts
  <2>3. index[h] \in Found(h)
    BY <1>3, <1>5, <1>9, <2>2, FoundIsFirst DEF IInv, Untouched
  <2>4. Progress(h)'
    BY <1>2, <1>3, <1>9, <2>1, <2>3, SameCall DEF Progress, Untouched
  <2> QED
    BY <1>1, <1>2, <1>7, <1>9, <2>1, <2>4, Advance DEF Goto, Labels
<1>10. CASE /\ Goto(h, "scan", "scan") /\ index' = [index EXCEPT ![h] = index[h] + 1]
            /\ index[h] < HartCount /\ ~(active[index[h]] /\ addr[index[h]] = Offset(h))
  <2>1. pc'[h] = "scan" /\ index'[h] = index[h] + 1 /\ \A g \in Harts \ {h} : index'[g] = index[g]
    BY <1>10 DEF Goto, IInv, TypeOK
  <2>2. \A g \in Harts : g < index'[h] => seen[1][g] # Offset(h)
    BY <1>3, <1>5, <1>6, <1>10, <2>1, HartCountAssumption DEF Harts
  <2>3. Progress(h)'
    BY <1>2, <1>3, <2>1, <2>2, SameCall DEF Progress, Untouched
  <2> QED
    BY <1>1, <1>2, <1>7, <1>10, <2>1, <2>3, Advance DEF Goto, Labels
<1> QED
  BY <1>8, <1>9, <1>10 DEF Scan

\* Clearing the entry found, or the caller's own, takes one entry out of the table.
LEMMA ClearStep ==
  ASSUME IInv, TypeOK', Calling', NEW h \in Harts, Clear(h)
  PROVE  IInv'
<1>1. /\ pc[h] \in {"clear", "free"} /\ pc' = [pc EXCEPT ![h] = "decLoad"]
      /\ UNCHANGED <<call, index, addr, reserveCount, seen>>
  BY DEF Clear, Goto
<1>2. pc'[h] = "decLoad"
  BY <1>1 DEF IInv, TypeOK
<1>3. call[h] \in Calls /\ reserveCount = Cardinality(Used)
  BY <1>1, Busy
<1> DEFINE e == IF pc[h] = "clear" THEN index[h] ELSE h
<1>4. active' = [active EXCEPT ![e] = FALSE]
  BY DEF Clear, Goto
<1>5. /\ Untouched
      /\ pc[h] = "clear" => Op(h) # "release" /\ e \in Found(h)
      /\ pc[h] = "free" => Op(h) = "release" /\ e = h /\ active[h]
  BY <1>1 DEF IInv, Progress
<1>6. e \in Harts /\ seen[1][e] # None /\ active[e]
  <2>1. CASE pc[h] = "clear"
    <3>1. e \in Harts /\ seen[1][e] = Offset(h)
      BY <1>5, <2>1, FoundIsFirst DEF IInv
    <3> QED
      BY <1>3, <1>5, <3>1, OffsetType, VisibleType DEF IInv, Untouched
  <2>2. CASE pc[h] = "free"
    BY <1>5, <2>2, VisibleType DEF IInv, Untouched
  <2> QED
    BY <1>1, <2>1, <2>2
<1>7. Visible' = [g \in Harts |-> IF g = e THEN None ELSE seen[1][g]]
  BY <1>1, <1>4, <1>5 DEF Visible, Untouched, IInv, TypeOK
<1>8. reserveCount # 0 /\ reserveCount' = Cardinality(Used') + 1
  <2>1. Used' = Used \ {e} /\ e \in Used
    BY <1>4, <1>6 DEF Used, IInv, TypeOK
  <2>2. Cardinality(Used \ {e}) = Cardinality(Used) - 1
    BY <2>1, UsedBounds, FS_RemoveElement
  <2>3. Cardinality(Used \ {e}) \in Nat
    BY UsedBounds, FS_RemoveElement, FS_CardinalityType
  <2> QED
    BY <1>1, <1>3, <2>1, <2>2, <2>3, UsedBounds
<1>9. Progress(h)'
  <2>1. CASE pc[h] = "clear"
    <3>1. Found(h) = {e}
      BY <1>5, <2>1, FoundIsFirst DEF IInv
    <3>2. Visible' = Left(h)
      BY <1>7, <3>1, FoundIsFirst DEF IInv
    <3> QED
      BY <1>1, <1>2, <1>5, <1>8, <2>1, <3>1, <3>2, SameCall DEF Progress, Untouched
  <2>2. CASE pc[h] = "free"
    <3>1. Visible' = Released(h)
      BY <1>5, <1>7, <2>2 DEF Released, IInv, SeenType
    <3> QED
      BY <1>1, <1>2, <1>5, <1>6, <1>8, <2>2, <3>1, SameCall DEF Progress, Untouched
  <2> QED
    BY <1>1, <2>1, <2>2
<1> QED
  BY <1>1, <1>8, <1>9, Advance DEF Labels

\* The counter is loaded while nobody else is in a call.
LEMMA LoadStep ==
  ASSUME IInv, TypeOK', Calling', NEW h \in Harts, Load(h)
  PROVE  IInv'
<1> DEFINE l == IF pc[h] = "decLoad" THEN "decStore" ELSE "incStore"
<1>1. pc[h] \in {"decLoad", "incLoad"} /\ pc' = [pc EXCEPT ![h] = l]
  BY DEF Load, Goto
<1>2. /\ UNCHANGED <<call, index, active, addr, reserveCount, seen>>
      /\ Used' = Used /\ Visible' = Visible
  BY DEF Load, table, Used, Visible
<1>3. pc'[h] = l /\ loaded'[h] = reserveCount'
  BY <1>1, <1>2 DEF Load, IInv, TypeOK
<1>4. Progress(h)'
  <2>1. Progress(h)
    BY DEF IInv
  <2>2. CASE pc[h] = "decLoad"
    BY <1>2, <1>3, <2>1, <2>2, SameCall DEF Progress
  <2>3. CASE pc[h] = "incLoad"
    BY <1>2, <1>3, <2>1, <2>3, SameCall DEF Progress, Revoked
  <2> QED
    BY <1>1, <2>2, <2>3
<1> QED
  BY <1>1, <1>2, <1>4, Busy, Advance DEF Labels

\* The counter is stored one lower or one higher than it was; it does not wrap.
LEMMA StoreStep ==
  ASSUME IInv, TypeOK', Calling', NEW h \in Harts, Store(h)
  PROVE  IInv'
<1>1. UNCHANGED <<call, index, active, addr, seen>> /\ Used' = Used /\ Visible' = Visible
  BY DEF Store, Used, Visible
<1>2. CASE Goto(h, "decStore", AfterRevoke(h)) /\ reserveCount' = (loaded[h] - 1) % CountSize
  <2>1. pc'[h] = AfterRevoke(h) /\ AfterRevoke(h) \in {"own", "return"}
    BY <1>2 DEF Goto, AfterRevoke, IInv, TypeOK
  <2>2. pc[h] = "decStore" /\ call[h] \in Calls /\ reserveCount = Cardinality(Used) + 1
    BY <1>2, Busy DEF Goto
  <2>3. /\ loaded[h] = reserveCount /\ reserveCount = seen[2] /\ reserveCount # 0
        /\ IF Op(h) = "release" THEN seen[1][h] # None /\ Visible = Released(h)
           ELSE Found(h) # {} /\ Visible = Left(h)
    BY <2>2 DEF IInv, Progress
  <2>4. reserveCount' = seen[2] - 1 /\ reserveCount' = Cardinality(Used')
    <3>1. reserveCount \in 1 .. CountSize - 1
      BY <2>3 DEF IInv, TypeOK
    <3>2. (reserveCount - 1) % CountSize = reserveCount - 1
      BY <3>1, HartCountAssumption, RaceAssumption
    <3> QED
      BY <1>1, <1>2, <2>2, <2>3, <3>2, UsedBounds
  <2>5. Progress(h)'
    <3>1. CASE Op(h) = "release"
      BY <1>1, <2>1, <2>3, <2>4, <3>1, SameCall DEF Progress, Done, AfterRevoke, Op
    <3>2. CASE Op(h) # "release"
      <4>1. Revoked(h)'
        BY <1>1, <2>3, <2>4, <3>2, SameCall, FoundIsFirst DEF Revoked, IInv
      <4>2. CASE Op(h) = "aquire"
        BY <1>1, <2>1, <4>1, <4>2, SameCall DEF Progress, AfterRevoke, Op
      <4>3. CASE Op(h) = "revoke"
        BY <1>1, <2>1, <4>1, <4>3, SameCall DEF Progress, Done, AfterRevoke, Op
      <4> QED
        BY <2>2, <3>2, <4>2, <4>3 DEF Op, Calls
    <3> QED
      BY <3>1, <3>2
  <2> QED
    BY <1>1, <1>2, <2>1, <2>2, <2>4, <2>5, Advance DEF Goto, Labels
<1>3. CASE Goto(h, "incStore", "activate") /\ reserveCount' = (loaded[h] + 1) % CountSize
  <2>1. pc[h] = "incStore" /\ pc'[h] = "activate"
    BY <1>3 DEF Goto, IInv, TypeOK
  <2>2. loaded[h] = reserveCount /\ Op(h) = "aquire" /\ Revoked(h) /\ ~active[h]
    BY <2>1 DEF IInv, Progress
  <2>3. reserveCount = Cardinality(Used)
    BY <2>1, Busy
  <2>4. reserveCount' = reserveCount + 1
    <3>1. reserveCount < HartCount
      BY <2>2, <2>3, UsedBounds
    <3>2. reserveCount + 1 \in 0 .. CountSize - 1
      BY <3>1, HartCountAssumption, RaceAssumption DEF IInv, TypeOK
    <3> QED
      BY <1>3, <2>2, <3>2, HartCountAssumption, RaceAssumption
  <2>5. Progress(h)'
    BY <1>1, <2>1, <2>2, <2>4, SameCall DEF Progress, Revoked
  <2> QED
    BY <1>1, <1>3, <2>1, <2>3, <2>4, <2>5, Advance DEF Goto, Labels
<1> QED
  BY <1>2, <1>3 DEF Store

\* What the call does next depends on the caller's own entry.
LEMMA TestOwnStep ==
  ASSUME IInv, TypeOK', Calling', NEW h \in Harts, TestOwn(h)
  PROVE  IInv'
<1>1. /\ UNCHANGED <<call, index, active, addr, reserveCount, seen>>
      /\ Used' = Used /\ Visible' = Visible
  BY DEF TestOwn, table, Used, Visible
<1>2. active[h] <=> Visible[h] # None
  BY VisibleType DEF IInv
<1>3. CASE Goto(h, "own", IF active[h] THEN "address" ELSE "incLoad")
  <2> DEFINE l == IF active[h] THEN "address" ELSE "incLoad"
  <2>1. pc[h] = "own" /\ pc' = [pc EXCEPT ![h] = l] /\ pc'[h] = l
    BY <1>3 DEF Goto, IInv, TypeOK
  <2>2. Op(h) = "aquire" /\ Revoked(h) /\ reserveCount = Cardinality(Used)
    BY <2>1, Busy DEF IInv, Progress
  <2>3. Progress(h)'
    <3>1. CASE active[h]
      <4>1. Left(h)[h] # None /\ reserveCount = LeftCount(h) + 0
        BY <1>2, <2>2, <3>1 DEF Revoked, IInv, TypeOK
      <4> QED
        BY <1>1, <2>1, <2>2, <3>1, <4>1, SameCall DEF Progress, Revoked
    <3>2. CASE ~active[h]
      <4>1. Op(h)' = "aquire" /\ Revoked(h)'
        BY <1>1, <2>2, SameCall DEF Revoked
      <4>2. pc'[h] = "incLoad" /\ ~active'[h]
        BY <1>1, <2>1, <3>2
      <4> QED
        BY <4>1, <4>2 DEF Progress
    <3> QED
      BY <3>1, <3>2
  <2> QED
    BY <1>1, <2>1, <2>2, <2>3, Advance DEF Labels
<1>4. CASE Goto(h, "testOwn", IF active[h] THEN "free" ELSE "return")
  <2> DEFINE l == IF active[h] THEN "free" ELSE "return"
  <2>1. pc[h] = "testOwn" /\ pc' = [pc EXCEPT ![h] = l] /\ pc'[h] = l
    BY <1>4 DEF Goto, IInv, TypeOK
  <2>2. Op(h) = "release" /\ Untouched /\ reserveCount = Cardinality(Used)
    BY <2>1, Busy DEF IInv, Progress
  <2>3. Op(h)' = "release" /\ Untouched'
    BY <1>1, <2>2, SameCall DEF Untouched
  <2>4. Progress(h)'
    <3>1. CASE active[h]
      BY <1>1, <2>1, <2>3, <3>1 DEF Progress
    <3>2. CASE ~active[h]
      BY <1>1, <1>2, <2>1, <2>2, <2>3, <3>2 DEF Progress, Done, Untouched
    <3> QED
      BY <3>1, <3>2
  <2> QED
    BY <1>1, <2>1, <2>2, <2>4, Advance DEF Labels
<1> QED
  BY <1>3, <1>4 DEF TestOwn

\* The caller's entry becomes the one that was already counted.
LEMMA ActivateStep ==
  ASSUME IInv, TypeOK', Calling', NEW h \in Harts, Activate(h)
  PROVE  IInv'
<1>1. /\ pc[h] = "activate" /\ pc' = [pc EXCEPT ![h] = "address"]
      /\ active' = [active EXCEPT ![h] = TRUE]
      /\ UNCHANGED <<call, index, addr, reserveCount, seen>>
  BY DEF Activate, Goto
<1>2. pc'[h] = "address" /\ active'[h]
  BY <1>1 DEF IInv, TypeOK
<1>3. /\ Op(h) = "aquire" /\ ~active[h]
      /\ Visible = Left(h) /\ reserveCount = LeftCount(h) + 1
  BY <1>1 DEF IInv, Progress
<1>4. Left(h)[h] = None
  BY <1>3, VisibleType DEF IInv
<1>5. \A g \in Harts \ {h} : Visible'[g] = Visible[g]
  BY <1>1 DEF Visible, IInv, TypeOK
<1>6. reserveCount' = Cardinality(Used')
  <2>1. Used' = Used \cup {h} /\ h \notin Used
    BY <1>1, <1>3 DEF Used, IInv, TypeOK
  <2>2. Cardinality(Used \cup {h}) = Cardinality(Used) + 1
    BY <2>1, UsedBounds, FS_AddElement, Zenon
  <2> QED
    BY <1>1, <2>1, <2>2, Busy
<1>7. Progress(h)'
  BY <1>1, <1>2, <1>3, <1>4, <1>5, SameCall DEF Progress
<1> QED
  BY <1>1, <1>6, <1>7, Advance DEF Labels

\* The caller's entry, active by now, takes the offset of the address.
LEMMA SetAddressStep ==
  ASSUME IInv, TypeOK', Calling', NEW h \in Harts, SetAddress(h)
  PROVE  IInv'
<1>1. /\ pc[h] = "address" /\ pc' = [pc EXCEPT ![h] = "return"]
      /\ addr' = [addr EXCEPT ![h] = Offset(h)]
      /\ UNCHANGED <<call, index, active, reserveCount, seen>> /\ Used' = Used
  BY DEF SetAddress, Goto, Used
<1>2. pc'[h] = "return"
  BY <1>1 DEF IInv, TypeOK
<1>3. /\ Op(h) = "aquire" /\ active[h]
      /\ \A g \in Harts \ {h} : Visible[g] = Left(h)[g]
      /\ reserveCount = LeftCount(h) + (IF Left(h)[h] = None THEN 1 ELSE 0)
  BY <1>1 DEF IInv, Progress
<1>4. Visible' = [Left(h) EXCEPT ![h] = Offset(h)]
  <2>1. Left(h) = [g \in Harts |-> Left(h)[g]]
    BY FoundIsFirst DEF IInv
  <2>2. \A g \in Harts : Visible'[g] = IF g = h THEN Offset(h) ELSE Visible[g]
    BY <1>1, <1>3 DEF Visible, IInv, TypeOK
  <2> QED
    BY <1>3, <2>1, <2>2 DEF Visible
<1>5. Progress(h)'
  BY <1>1, <1>2, <1>3, <1>4, SameCall DEF Progress, Done
<1> QED
  BY <1>1, <1>5, Busy, Advance DEF Labels

\* Nobody is in a call when one returns, and the history is the table as it is left.
LEMMA ReturnStep ==
  ASSUME IInv, TypeOK', Calling', NEW h \in Harts, Return(h)
  PROVE  IInv' /\ Done(h) /\ seen' = <<Visible, reserveCount>>
<1>1. /\ pc[h] = "return" /\ pc' = [pc EXCEPT ![h] = "idle"] /\ index' = [index EXCEPT ![h] = 0]
      /\ UNCHANGED <<active, addr, reserveCount>> /\ Used' = Used /\ Visible' = Visible
  BY DEF Return, Goto, table, Used, Visible
<1>2. Done(h)
  BY <1>1 DEF IInv, Progress
<1>3. \A g \in Harts \ {h} : pc[g] = "idle" /\ index[g] = 0
  BY <1>1, Busy
<1>4. \A g \in Harts : pc'[g] = "idle" /\ index'[g] = 0
  BY <1>1, <1>3 DEF IInv, TypeOK
<1>5. seen' = <<Visible, reserveCount>>
  BY <1>3 DEF Return
<1>6. SeenType' /\ Untouched'
  BY <1>1, <1>5, VisibleType DEF IInv, TypeOK, SeenType, Untouched
<1>7. Counted'
  <2>1. ~Uncounted'
    BY <1>4 DEF Uncounted
  <2> QED
    BY <1>1, <2>1, Busy DEF Counted
<1>8. Alone' /\ \A g \in Harts : Progress(g)'
  BY <1>4 DEF Alone, Progress
<1> QED
  BY <1>2, <1>5, <1>6, <1>7, <1>8 DEF IInv

-----------------------------------------------------------------------------
\* The empty table satisfies the invariant.
LEMMA InitIInv == Init => IInv
<1> SUFFICES ASSUME Init PROVE IInv
  OBVIOUS
<1>1. TypeOK /\ Calling
  BY InitType
<1>2. Untouched /\ SeenType
  BY <1>1, VisibleType DEF Init, Untouched, SeenType, TypeOK
<1>3. Counted
  <2>1. Used = {} /\ ~Uncounted
    BY DEF Init, Used, Uncounted
  <2> QED
    BY <2>1, FS_EmptySet DEF Init, Counted
<1>4. Alone /\ \A h \in Harts : Progress(h)
  BY DEF Init, Alone, Progress
<1> QED
  BY <1>1, <1>2, <1>3, <1>4 DEF IInv

\* Every step keeps the invariant when harts take turns.
LEMMA StepIInv ==
  ASSUME Serial, IInv, [Next]_vars
  PROVE  IInv'
<1>1. TypeOK' /\ Calling'
  BY StepType DEF IInv
<1>2. CASE UNCHANGED vars
  <2>1. ASSUME NEW h \in Harts PROVE Progress(h)'
    <3>1. UNCHANGED <<pc, call, index, loaded, active, addr, reserveCount, seen, Visible>>
      BY <1>2 DEF vars, table, Visible
    <3>2. /\ Op(h)' = Op(h) /\ Left(h)' = Left(h) /\ LeftCount(h)' = LeftCount(h)
          /\ Offset(h)' = Offset(h) /\ Found(h)' = Found(h) /\ Released(h)' = Released(h)
      BY <3>1, SameCall
    <3>3. (Untouched <=> Untouched') /\ (Revoked(h) <=> Revoked(h)')
      BY <3>1, <3>2 DEF Untouched, Revoked
    <3>4. Done(h) <=> Done(h)'
      BY <3>1, <3>2, <3>3 DEF Done
    <3>5. Progress(h)
      BY DEF IInv
    <3> QED
      BY <3>1, <3>2, <3>3, <3>4, <3>5 DEF Progress
  <2> QED
    BY <1>1, <1>2, <2>1 DEF IInv, vars, table, Alone, Counted, Used, Uncounted, SeenType,
                            Quiet, Untouched, Visible
<1> QED
  BY <1>1, <1>2, StartStep, ReadCountStep, ScanStep, ClearStep, LoadStep, StoreStep, TestOwnStep,
     ActivateStep, SetAddressStep, ReturnStep DEF Next

\* The inductive invariant of harts that take turns.
THEOREM Invariance == ASSUME Serial PROVE Spec => []IInv
<1>1. IInv /\ [Next]_vars => IInv'
  BY StepIInv
<1> QED
  BY <1>1, InitIInv, PTL DEF Spec

\* When harts take turns, the counter is zero only when no entry is active,
\* at every step of every call.
THEOREM QuitsRightly == ASSUME Serial PROVE Spec => []QuitsOnlyWhenNoneActive
<1>1. IInv => QuitsOnlyWhenNoneActive
  <2> SUFFICES ASSUME IInv, reserveCount = 0
               PROVE  \A h \in Harts : ~active[h]
    BY DEF QuitsOnlyWhenNoneActive
  <2>1. Cardinality(Used) = 0
    BY UsedBounds DEF IInv, Counted
  <2>2. Used = {}
    BY <2>1, UsedBounds, FS_EmptySet
  <2> QED
    BY <2>2 DEF Used
<1> QED
  BY <1>1, Invariance, PTL

\* When harts take turns, the counter is the number of active entries between calls.
THEOREM CountIsExact == ASSUME Serial PROVE Spec => []CountExact
<1>1. IInv => CountExact
  <2> SUFFICES ASSUME IInv, Quiet PROVE reserveCount = Cardinality({h \in Harts : active[h]})
    BY DEF CountExact
  <2>1. ~Uncounted
    BY DEF Quiet, Uncounted
  <2> QED
    BY <2>1 DEF IInv, Counted, Used
<1> QED
  BY <1>1, Invariance, PTL

\* What a call finds: nothing reserved when the counter is zero, and no address twice.
Right ==
  /\ seen[2] = 0 => \A g \in Harts : seen[1][g] = None
  /\ \A f, g \in Harts : f # g /\ seen[1][f] # None => seen[1][f] # seen[1][g]

\* So the first match that a call revokes was the only one.
LEMMA FoundIsAll ==
  ASSUME SeenType, Right, NEW h \in Harts, call[h] \in Calls
  PROVE  \A g \in Harts : Left(h)[g] = IF seen[1][g] = Offset(h) THEN None ELSE seen[1][g]
<1>1. Offset(h) # None
  BY OffsetType
<1>2. Left(h) = [g \in Harts |-> IF g \in Found(h) THEN None ELSE seen[1][g]]
  BY FoundIsFirst
<1>3. ASSUME NEW g \in Harts PROVE g \in Found(h) <=> seen[1][g] = Offset(h)
  <2>1. g \in Found(h) <=> /\ seen[2] # 0 /\ seen[1][g] = Offset(h)
                           /\ \A f \in Harts : f < g => seen[1][f] # Offset(h)
    BY FoundIsFirst
  <2>2. \A f \in Harts : f < g => f # g
    BY DEF Harts
  <2> QED
    BY <1>1, <2>1, <2>2 DEF Right
<1> QED
  BY <1>2, <1>3

\* And what it leaves, the next one finds.
LEMMA ReturnRight ==
  ASSUME IInv, Right, NEW h \in Harts, Return(h), Done(h), seen' = <<Visible, reserveCount>>
  PROVE  Right'
<1>1. call[h] \in Calls /\ reserveCount = Cardinality(Used)
  BY Busy DEF Return, Goto
<1>2. seen'[1] = Visible /\ seen'[2] = reserveCount
  OBVIOUS
<1>3. ASSUME reserveCount = 0, NEW g \in Harts PROVE Visible[g] = None
  <2>1. Used = {}
    BY <1>1, <1>3, UsedBounds, FS_EmptySet
  <2> QED
    BY <2>1 DEF Used, Visible
<1>4. \A g \in Harts : Left(h)[g] = IF seen[1][g] = Offset(h) THEN None ELSE seen[1][g]
  BY <1>1, FoundIsAll DEF IInv
<1>5. \A f, g \in Harts : f # g /\ Visible[f] # None => Visible[f] # Visible[g]
  <2>1. CASE Op(h) = "revoke"
    BY <1>4, <2>1 DEF Done, Revoked, Right
  <2>2. CASE Op(h) = "aquire"
    <3>1. Left(h) = [g \in Harts |-> Left(h)[g]]
      BY FoundIsFirst DEF IInv
    <3>2. \A g \in Harts : Visible[g] = IF g = h THEN Offset(h) ELSE Left(h)[g]
      BY <2>2, <3>1 DEF Done
    <3>3. Offset(h) # None
      BY <1>1, OffsetType
    <3> QED
      BY <1>4, <3>2, <3>3 DEF Right
  <2>3. CASE Op(h) = "release"
    <3>1. \A g \in Harts : Visible[g] = seen[1][g] \/ Visible[g] = None
      BY <2>3 DEF Done, Untouched, Released, IInv, SeenType
    <3> QED
      BY <3>1 DEF Right
  <2> QED
    BY <1>1, <2>1, <2>2, <2>3 DEF Op, Calls
<1> QED
  BY <1>2, <1>3, <1>5 DEF Right

\* Only a return changes what calls find.
LEMMA StepRight ==
  ASSUME Serial, IInv, Right, [Next]_vars
  PROVE  Right'
<1>1. CASE seen' = seen
  BY <1>1 DEF Right
<1>2. CASE seen' # seen
  <2>1. PICK h \in Harts : Return(h)
    BY <1>2 DEF Next, vars, Start, ReadCount, Scan, Clear, Load, Store, TestOwn, Activate, SetAddress
  <2>2. Done(h) /\ seen' = <<Visible, reserveCount>>
    BY <2>1, StepType, ReturnStep DEF IInv
  <2> QED
    BY <2>1, <2>2, ReturnRight
<1> QED
  BY <1>1, <1>2

\* When harts take turns, no two have the same reserved address between calls.
THEOREM OneHolderOnly == ASSUME Serial PROVE Spec => []OneHolder
<1>1. Init => Right
  BY DEF Init, Right, Visible
<1>2. IInv /\ Right /\ [Next]_vars => Right'
  BY StepRight
<1>3. IInv /\ Right => OneHolder
  <2> SUFFICES ASSUME IInv, Right, Quiet, NEW h \in Harts, NEW g \in Harts, h # g, active[h]
               PROVE  Visible[h] # Visible[g]
    BY DEF OneHolder
  <2>1. Visible = seen[1] /\ Visible[h] # None
    BY VisibleType DEF IInv, Untouched
  <2> QED
    BY <2>1 DEF Right
<1> QED
  BY <1>1, <1>2, <1>3, Invariance, PTL DEF Spec

-----------------------------------------------------------------------------
\* The empty table is the atomic one.
LEMMA InitRefines == Init => Atomic!Init
BY DEF Init, Visible, Atomic!Init, Atomic!Harts, Harts

\* A call takes its one step as it returns; one that changes nothing stutters.
LEMMA ReturnRefines ==
  ASSUME IInv, NEW h \in Harts, Return(h), Done(h), seen' = <<Visible, reserveCount>>
  PROVE  [Atomic!Next]_(Atomic!vars)
<1> DEFINE a == call[h].addr
<1>1. call[h] \in Calls
  BY Busy DEF Return, Goto
<1>2. h \in Atomic!Harts /\ a \in Addresses
  BY <1>1 DEF Calls, Atomic!Harts, Harts
<1>3. CASE Op(h) = "revoke"
  <2>1. Atomic!TryRevokeReservation(a)
    BY <1>3 DEF Done, Revoked, Left, LeftCount, Found, Atomic!TryRevokeReservation
  <2> QED
    BY <1>2, <2>1 DEF Atomic!Next
<1>4. CASE Op(h) = "aquire"
  <2>1. Atomic!AquireReservation(h, a)
    BY <1>4 DEF Done, Left, LeftCount, Found, Offset, Atomic!AquireReservation,
                Atomic!GetAlignedAddress, GetAlignedAddress
  <2> QED
    BY <1>2, <2>1 DEF Atomic!Next
<1>5. CASE Op(h) = "release" /\ seen[1][h] = None
  BY <1>5 DEF Done, Untouched, Atomic!vars, IInv, SeenType
<1>6. CASE Op(h) = "release" /\ seen[1][h] # None
  <2>1. Atomic!ReleaseReservation(h)
    BY <1>6 DEF Done, Released, Atomic!ReleaseReservation, Atomic!HartHasReservation
  <2> QED
    BY <1>2, <2>1 DEF Atomic!Next
<1> QED
  BY <1>1, <1>3, <1>4, <1>5, <1>6 DEF Calls, Op

\* Harts that take turns implement the calls of MonitorReservations as single steps.
THEOREM Refinement == ASSUME Serial PROVE Spec => ImplementsAtomicCalls
<1>1. IInv /\ [Next]_vars => [Atomic!Next]_(Atomic!vars)
  <2> SUFFICES ASSUME IInv, [Next]_vars, seen' # seen
               PROVE  [Atomic!Next]_(Atomic!vars)
    BY DEF Atomic!vars
  <2>1. PICK h \in Harts : Return(h)
    BY DEF Next, vars, Start, ReadCount, Scan, Clear, Load, Store, TestOwn, Activate, SetAddress
  <2>2. Done(h) /\ seen' = <<Visible, reserveCount>>
    BY <2>1, StepType, ReturnStep DEF IInv
  <2> QED
    BY <2>1, <2>2, ReturnRefines
<1> QED
  BY <1>1, InitRefines, Invariance, PTL DEF Spec, ImplementsAtomicCalls, Atomic!Spec
=============================================================================

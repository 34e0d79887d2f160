----------------------- MODULE MemoryControllerProofs -----------------------
(***************************************************************************)
(* Proofs about MemoryController for every width of addresses, all region  *)
(* lists, devices and limits.  Overlaps are not all refused (see           *)
(* OverlapsRefused); RegionsNest and DevicesNest say which are, and are    *)
(* inductive once the shape of the state is known.  A refused list stays   *)
(* refused because the regions it left stay where they are; a write is     *)
(* read back because a number is made of its digits in any base.           *)
(***************************************************************************)
EXTENDS MemoryController, WellFoundedInduction, TLAPS

Shape ==
  /\ ram \in Regions
  /\ ioRegions \in Seq(Regions)
  /\ devices \in Seq(Seq(IoDevs))
  /\ Len(devices) = Len(ioRegions)
  /\ list \in Lists \cup {<<>>}
  /\ next \in 0 .. Len(list)
  /\ refused \subseteq Lists
  /\ next # 0 => list \in Lists

\* An IO region of a list that has been added, and that can be found.
Present(r) == \E k \in DOMAIN ioRegions : ioRegions[k] = Extent(r)
Blocks(l, i) == l[i].type = "IO" /\ BelowTop(l[i]) /\ Present(l[i])

\* What Initialize has passed is there; a refused list left a region, and when it
\* is given again that region is still ahead.
Passed == next # 0 => \A i \in 1 .. next - 1 : list[i].type = "IO" => Present(list[i])
Left == \A l \in refused : \E i \in 1 .. Len(l) : Blocks(l, i)
Ahead == next # 0 /\ list \in refused => \E i \in next .. Len(list) : Blocks(list, i)

\* What is left of the promise that regions do not overlap: below the top of the
\* address space no region crosses an end of another or is added within one.
Encloses(r, s) == r.start <= s.start /\ s.start + s.length <= r.start + r.length
ApartOrNested(r, s) ==
  BelowTop(r) /\ BelowTop(s) => Apart(r, s) \/ Encloses(r, s) \/ Encloses(s, r)
RegionsNest ==
  \A i \in DOMAIN ioRegions :
    /\ ApartOrNested(ram, ioRegions[i])
    /\ \A j \in 1 .. i - 1 : ApartOrNested(ioRegions[j], ioRegions[i])

\* The same for devices: there a device that overlaps an earlier one is strictly
\* around it.
ApartOrAround(old, new) ==
  BelowTop(old) /\ BelowTop(new) =>
    Apart(old, new) \/ (Encloses(new, old) /\ new.start < old.start)
DevicesNest ==
  \A i \in DOMAIN devices : \A k \in DOMAIN devices[i] :
    \A j \in 1 .. k - 1 : ApartOrAround(devices[i][j], devices[i][k])

IInv == Shape /\ RegionsNest /\ DevicesNest /\ Passed /\ Left /\ Ahead

-----------------------------------------------------------------------------
\* An address below the top is not changed by the wrap-around.
LEMMA SmallMod ==
  ASSUME NEW n \in Nat, NEW m \in Nat, n < m
  PROVE  n % m = n
OBVIOUS

\* The end of a region below the top.
LEMMA SmallSum ==
  ASSUME NEW n \in Nat, NEW k \in Nat, NEW m \in Nat, n + k < m
  PROVE  (n + k) % m = n + k
<1>1. n + k \in Nat
  OBVIOUS
<1> QED
  BY <1>1, SmallMod

\* The last address of a region below the top.
LEMMA LastMod ==
  ASSUME NEW n \in Nat, NEW k \in Nat \ {0}, NEW m \in Nat, n + k < m
  PROVE  (n + k - 1) % m = n + k - 1
<1>1. n + k - 1 \in Nat /\ n + k - 1 < m
  OBVIOUS
<1> QED
  BY <1>1, SmallMod

\* The entry that Initialize looks at is one of its list's.
LEMMA EntryType ==
  ASSUME Shape, next # 0
  PROVE  /\ list \in Lists /\ list \in Seq(RegionInfos) /\ next \in 1 .. Len(list)
         /\ list[next] \in RegionInfos
         /\ Extent(list[next]) \in Regions
<1>1. list \in Lists /\ list \in Seq(RegionInfos) /\ next \in 1 .. Len(list)
  BY ListsAssumption DEF Shape
<1>2. list[next] \in RegionInfos
  BY <1>1
<1> QED
  BY <1>1, <1>2 DEF RegionInfos, Regions, Extent

\* A region whose ends are not taken is apart from each region or around it.
LEMMA FreeEndsNest ==
  ASSUME NEW r \in Regions, NEW s \in RegionInfos,
         ~Includes(r, s.start), ~Includes(r, (GetEnd(s) - 1) % Space)
  PROVE  ApartOrNested(r, Extent(s)) /\ ApartOrNested(Extent(s), r)
<1> SUFFICES ASSUME BelowTop(r), BelowTop(s)
             PROVE  Apart(r, s) \/ Encloses(s, r)
  BY DEF ApartOrNested, Extent, Apart, Encloses, BelowTop
<1>1. /\ r.start \in Nat /\ r.length \in Nat
      /\ s.start \in Nat /\ s.length \in Nat \ {0} /\ Space \in Nat
  BY SpaceAssumption DEF Regions, RegionInfos, Addresses
<1>2. GetEnd(r) = r.start + r.length /\ GetEnd(s) = s.start + s.length
  BY <1>1, SmallSum DEF GetEnd, BelowTop
<1>3. (GetEnd(s) - 1) % Space = s.start + s.length - 1
  BY <1>1, <1>2, LastMod DEF BelowTop
<1> QED
  BY <1>1, <1>2, <1>3 DEF Includes, Apart, Encloses

\* If an element includes the address there is a first one that does.
LEMMA FirstExists ==
  ASSUME NEW S, NEW s \in Seq(S), NEW a, NEW k \in DOMAIN s, Includes(s[k], a)
  PROVE  FirstMatch(s, a) # {}
<1> DEFINE hits == {i \in DOMAIN s : Includes(s[i], a)}
<1>1. hits \subseteq Nat /\ hits # {}
  OBVIOUS
<1> DEFINE less == OpToRel(<, Nat)
<1>2. PICK i \in hits : \A j \in hits : <<j, i>> \notin less
  <2> HIDE DEF hits, less
  <2>1. IsWellFoundedOn(less, Nat)
    BY NatLessThanWellFounded DEF less
  <2> QED
    BY <1>1, <2>1, WFMin
<1>3. \A j \in hits : ~(j < i)
  BY <1>1, <1>2 DEF OpToRel
<1>4. i \in DOMAIN s /\ Includes(s[i], a)
  BY <1>2
<1>5. ASSUME NEW j \in 1 .. i - 1, Includes(s[j], a)
      PROVE  FALSE
  <2>1. j \in DOMAIN s /\ j < i
    BY <1>4, <1>5
  <2>2. j \in hits
    BY <1>5, <2>1
  <2> QED
    BY <1>3, <2>1, <2>2
<1> QED
  BY <1>4, <1>5 DEF FirstMatch

\* A region that can be found has its first address taken.
LEMMA PresentTaken ==
  ASSUME Shape, NEW r \in RegionInfos, BelowTop(r), Present(r)
  PROVE  Conflicts(r)
<1>1. PICK k \in DOMAIN ioRegions : ioRegions[k] = Extent(r)
  BY DEF Present
<1>2. r.start \in Nat /\ r.length \in Nat /\ Space \in Nat
  BY SpaceAssumption DEF RegionInfos, Addresses
<1>3. Includes(ioRegions[k], r.start)
  <2>1. GetEnd(ioRegions[k]) = r.start + r.length
    BY <1>1, <1>2, SmallSum DEF GetEnd, Extent, BelowTop
  <2> QED
    BY <1>1, <1>2, <2>1 DEF Includes, Extent
<1>4. FindIoRegion(r.start) # {}
  BY <1>1, <1>3, FirstExists DEF FindIoRegion, Shape
<1> QED
  BY <1>4 DEF Conflicts, Taken

-----------------------------------------------------------------------------
\* Every step keeps the shape of the state.
LEMMA ShapeStep ==
  ASSUME Shape, [Next]_vars
  PROVE  Shape'
<1>1. ASSUME NEW l \in Lists, Initialize(l)
      PROVE  Shape'
  BY <1>1, ListsAssumption DEF Initialize, Shape
<1>2. ASSUME Fail, next # 0
      PROVE  Shape'
  BY <1>2 DEF Fail, Shape
<1>3. ASSUME Advance, next # 0
      PROVE  /\ list' \in Lists \cup {<<>>} /\ next' \in 0 .. Len(list') /\ refused' \subseteq Lists
             /\ next' # 0 => list' \in Lists
  BY <1>3, EntryType DEF Advance, Shape
<1>4. CASE AddMemRegion
  BY <1>3, <1>4, EntryType DEF AddMemRegion, Shape
<1>5. CASE AddIoRegion
  <2>1. /\ ioRegions' \in Seq(Regions) /\ Len(ioRegions') = Len(ioRegions) + 1
        /\ devices' \in Seq(Seq(IoDevs)) /\ Len(devices') = Len(devices) + 1
    BY <1>5, EntryType DEF AddIoRegion, Shape
  <2> QED
    BY <1>3, <1>5, <2>1 DEF AddIoRegion, Shape
<1>6. ASSUME NEW d \in Devices, NEW a \in Addresses, AddMmioDev(d, a)
      PROVE  Shape'
  <2> DEFINE e == [start |-> a, length |-> MappedSize[d], dev |-> d]
  <2>1. PICK i \in FindIoRegion(a) : devices' = [devices EXCEPT ![i] = Append(@, e)]
    BY <1>6 DEF AddMmioDev
  <2>2. e \in IoDevs
    BY DevicesAssumption DEF IoDevs
  <2>3. i \in DOMAIN devices
    BY DEF FindIoRegion, FirstMatch, Shape
  <2>4. devices' \in Seq(Seq(IoDevs)) /\ Len(devices') = Len(devices)
    <3> HIDE DEF e
    <3>1. devices[i] \in Seq(IoDevs)
      BY <2>3 DEF Shape
    <3>2. Append(devices[i], e) \in Seq(IoDevs)
      BY <2>2, <3>1
    <3> QED
      BY <2>1, <2>3, <3>2 DEF Shape
  <2> QED
    BY <1>6, <2>4 DEF AddMmioDev, call, Shape
<1>7. ASSUME NEW w \in Widths, NEW v \in ValuesOf(w), NEW a \in Addresses, Write(w, v, a)
      PROVE  Shape'
  BY <1>7 DEF Write, call, Shape
<1>8. CASE UNCHANGED vars
  BY <1>8 DEF vars, Shape
<1> QED
  BY <1>1, <1>2, <1>4, <1>5, <1>6, <1>7, <1>8 DEF Next, RefuseRegion, RefuseType

\* Only AddMemRegion and AddIoRegion change the regions.
LEMMA RegionWriters ==
  ASSUME [Next]_vars
  PROVE  AddMemRegion \/ AddIoRegion \/ UNCHANGED <<ram, ioRegions>>
BY DEF Next, vars, call, Initialize, RefuseRegion, RefuseType, Fail, AddMmioDev, Write

\* A new region nests with every one that is kept.
LEMMA RegionsStep ==
  ASSUME Shape, RegionsNest, [Next]_vars
  PROVE  RegionsNest'
<1>1. CASE AddMemRegion
  <2>1. next # 0 /\ ~Conflicts(list[next])
    BY <1>1 DEF AddMemRegion
  <2>2. /\ list[next] \in RegionInfos /\ ram' = Extent(list[next])
        /\ UNCHANGED ioRegions
    BY <1>1, <2>1, EntryType DEF AddMemRegion
  <2>3. ASSUME NEW i \in DOMAIN ioRegions
        PROVE  ApartOrNested(Extent(list[next]), ioRegions[i])
    <3>1. ioRegions[i] \in Regions
      BY DEF Shape
    <3>2. ~Includes(ioRegions[i], list[next].start)
      BY <2>1, FirstExists DEF Conflicts, Taken, FindIoRegion, Shape
    <3>3. ~Includes(ioRegions[i], (GetEnd(list[next]) - 1) % Space)
      BY <2>1, FirstExists DEF Conflicts, Taken, FindIoRegion, Shape
    <3> QED
      BY <2>2, <3>1, <3>2, <3>3, FreeEndsNest
  <2> QED
    BY <2>2, <2>3 DEF RegionsNest, ApartOrNested, Apart, Encloses, BelowTop
<1>2. CASE AddIoRegion
  <2>1. next # 0 /\ ~Conflicts(list[next])
    BY <1>2 DEF AddIoRegion
  <2>2. /\ list[next] \in RegionInfos /\ ioRegions' = Append(ioRegions, Extent(list[next]))
        /\ UNCHANGED ram
    BY <1>2, <2>1, EntryType DEF AddIoRegion
  <2>3. ApartOrNested(ram, Extent(list[next]))
    BY <2>1, <2>2, FreeEndsNest DEF Conflicts, Taken, Shape
  <2>4. ASSUME NEW j \in DOMAIN ioRegions
        PROVE  ApartOrNested(ioRegions[j], Extent(list[next]))
    <3>1. ioRegions[j] \in Regions
      BY DEF Shape
    <3>2. ~Includes(ioRegions[j], list[next].start)
      BY <2>1, FirstExists DEF Conflicts, Taken, FindIoRegion, Shape
    <3>3. ~Includes(ioRegions[j], (GetEnd(list[next]) - 1) % Space)
      BY <2>1, FirstExists DEF Conflicts, Taken, FindIoRegion, Shape
    <3> QED
      BY <2>2, <3>1, <3>2, <3>3, FreeEndsNest
  <2>5. /\ DOMAIN ioRegions' = 1 .. Len(ioRegions) + 1
        /\ \A i \in DOMAIN ioRegions : ioRegions'[i] = ioRegions[i]
        /\ ioRegions'[Len(ioRegions) + 1] = Extent(list[next])
        /\ DOMAIN ioRegions = 1 .. Len(ioRegions) /\ Len(ioRegions) \in Nat
    BY <2>2 DEF Shape
  <2>6. SUFFICES ASSUME NEW i \in DOMAIN ioRegions'
                 PROVE  /\ ApartOrNested(ram, ioRegions'[i])
                        /\ \A j \in 1 .. i - 1 : ApartOrNested(ioRegions'[j], ioRegions'[i])
    BY <2>2 DEF RegionsNest, ApartOrNested, Apart, Encloses, BelowTop
  <2>7. CASE i \in DOMAIN ioRegions
    BY <2>5, <2>7 DEF RegionsNest
  <2>8. CASE i = Len(ioRegions) + 1
    BY <2>3, <2>4, <2>5, <2>8
  <2> QED
    BY <2>5, <2>7, <2>8
<1>3. CASE UNCHANGED <<ram, ioRegions>>
  BY <1>3 DEF RegionsNest, ApartOrNested, Apart, Encloses, BelowTop
<1> QED
  BY <1>1, <1>2, <1>3, RegionWriters

\* A device added later is apart from each earlier one or strictly around it.
LEMMA DevicesStep ==
  ASSUME Shape, DevicesNest, [Next]_vars
  PROVE  DevicesNest'
<1>1. CASE AddIoRegion
  <2>1. devices' = Append(devices, <<>>) /\ devices \in Seq(Seq(IoDevs))
    BY <1>1 DEF AddIoRegion, Shape
  <2>2. /\ DOMAIN devices' = 1 .. Len(devices) + 1 /\ Len(devices) \in Nat
        /\ \A i \in 1 .. Len(devices) : devices'[i] = devices[i]
        /\ devices'[Len(devices) + 1] = <<>>
    BY <2>1
  <2>3. SUFFICES ASSUME NEW i \in 1 .. Len(devices) + 1, NEW k \in DOMAIN devices'[i],
                        NEW j \in 1 .. k - 1
                 PROVE  ApartOrAround(devices'[i][j], devices'[i][k])
    BY <2>2 DEF DevicesNest, ApartOrAround, Apart, Encloses, BelowTop
  <2>4. i \in 1 .. Len(devices) /\ devices'[i] = devices[i]
    BY <2>2
  <2> QED
    BY <2>4 DEF DevicesNest
<1>2. ASSUME NEW d \in Devices, NEW a \in Addresses, AddMmioDev(d, a)
      PROVE  DevicesNest'
  <2> DEFINE e == [start |-> a, length |-> MappedSize[d], dev |-> d]
  <2>1. PICK i \in FindIoRegion(a) : /\ ~Occupied(i, a, MappedSize[d])
                                     /\ devices' = [devices EXCEPT ![i] = Append(@, e)]
    BY <1>2 DEF AddMmioDev
  <2>2. i \in DOMAIN devices /\ devices[i] \in Seq(IoDevs) /\ Len(devices[i]) \in Nat
    BY DEF FindIoRegion, FirstMatch, Shape
  <2>3. /\ DOMAIN devices' = DOMAIN devices
        /\ \A j \in DOMAIN devices : j # i => devices'[j] = devices[j]
        /\ devices'[i] = Append(devices[i], e)
    BY <2>1, <2>2
  <2>4. /\ DOMAIN devices'[i] = 1 .. Len(devices[i]) + 1
        /\ \A k \in 1 .. Len(devices[i]) : devices'[i][k] = devices[i][k]
        /\ devices'[i][Len(devices[i]) + 1] = e
    <3> HIDE DEF e
    <3> QED
      BY <2>2, <2>3
  <2>5. ASSUME NEW j \in 1 .. Len(devices[i])
        PROVE  ApartOrAround(devices[i][j], e)
    <3>1. PICK old \in IoDevs : old = devices[i][j]
      BY <2>2
    <3>2. SUFFICES ASSUME BelowTop(old), a + MappedSize[d] < Space
                   PROVE  Apart(old, e) \/ (Encloses(e, old) /\ a < old.start)
      BY <3>1 DEF ApartOrAround, BelowTop
    <3>3. /\ old.start \in Nat /\ old.length \in Nat /\ Space \in Nat
          /\ a \in Nat /\ MappedSize[d] \in Nat
      BY SpaceAssumption, DevicesAssumption DEF IoDevs, Addresses
    <3>4. GetEnd(old) = old.start + old.length
      BY <3>2, <3>3, SmallSum DEF GetEnd, BelowTop
    <3>5. (a + MappedSize[d]) % Space = a + MappedSize[d]
      BY <3>2, <3>3, SmallSum
    <3>6. ~Includes(old, a) /\ ~Includes(old, a + MappedSize[d])
      BY <2>1, <2>2, <3>1, <3>5 DEF Occupied
    <3> QED
      BY <3>3, <3>4, <3>6 DEF Includes, Apart, Encloses
  <2> HIDE DEF e
  <2>6. SUFFICES ASSUME NEW m \in DOMAIN devices, NEW k \in DOMAIN devices'[m], NEW j \in 1 .. k - 1
                 PROVE  ApartOrAround(devices'[m][j], devices'[m][k])
    BY <2>3 DEF DevicesNest, ApartOrAround, Apart, Encloses, BelowTop
  <2>7. CASE m # i
    BY <2>3, <2>7 DEF DevicesNest
  <2>8. CASE m = i /\ k = Len(devices[i]) + 1
    BY <2>2, <2>4, <2>5, <2>8
  <2>9. CASE m = i /\ k # Len(devices[i]) + 1
    <3>1. k \in DOMAIN devices[i] /\ devices'[i][k] = devices[i][k] /\ devices'[i][j] = devices[i][j]
      BY <2>2, <2>4, <2>9
    <3> QED
      BY <2>2, <2>9, <3>1 DEF DevicesNest
  <2> QED
    BY <2>7, <2>8, <2>9
<1>3. CASE UNCHANGED devices
  BY <1>3 DEF DevicesNest
<1> QED
  BY <1>1, <1>2, <1>3
  DEF Next, vars, Initialize, RefuseRegion, RefuseType, Fail, AddMemRegion, Write

\* A region that is there stays.
LEMMA PresentStays ==
  ASSUME Shape, [Next]_vars, NEW r, Present(r)
  PROVE  Present(r)'
<1>1. CASE AddIoRegion
  BY <1>1 DEF AddIoRegion, Present, Shape
<1>2. CASE UNCHANGED ioRegions
  BY <1>2 DEF Present
<1> QED
  BY <1>1, <1>2, RegionWriters DEF AddMemRegion

\* Initialize and the history of refused lists: what was passed is there, and a
\* refused list meets one of its own regions again.
LEMMA RefusedStep ==
  ASSUME Shape, Passed, Left, Ahead, [Next]_vars
  PROVE  Passed' /\ Left' /\ Ahead'
<1>1. \A l, i : Blocks(l, i) => Blocks(l, i)'
  BY PresentStays DEF Blocks, BelowTop
<1>2. ASSUME NEW l \in Lists, Initialize(l)
      PROVE  Passed' /\ Left' /\ Ahead'
  <2>1. list' = l /\ next' = 1 /\ refused' = refused
    BY <1>2 DEF Initialize
  <2> QED
    BY <1>1, <2>1 DEF Passed, Left, Ahead
<1>3. ASSUME Fail, next # 0
      PROVE  Passed' /\ Left' /\ Ahead'
  <2>1. next' = 0
    BY <1>3 DEF Fail
  <2>2. ASSUME NEW l \in refused'
        PROVE  \E i \in 1 .. Len(l) : Blocks(l, i)'
    <3>1. CASE l \in refused
      BY <1>1, <3>1 DEF Left
    <3>2. CASE l \notin refused
      <4>1. l = list /\ \E i \in 1 .. next - 1 : list[i].type = "IO" /\ BelowTop(list[i])
        BY <1>3, <3>2 DEF Fail
      <4>2. PICK i \in 1 .. next - 1 : list[i].type = "IO" /\ BelowTop(list[i])
        BY <4>1
      <4>3. Blocks(list, i) /\ i \in 1 .. Len(list)
        BY <1>3, <4>2, EntryType DEF Passed, Blocks
      <4> QED
        BY <1>1, <4>1, <4>3
    <3> QED
      BY <3>1, <3>2
  <2> QED
    BY <2>1, <2>2 DEF Passed, Left, Ahead
<1>4. ASSUME AddMemRegion \/ AddIoRegion
      PROVE  Passed' /\ Left' /\ Ahead'
  <2>1. next # 0 /\ ~Conflicts(list[next]) /\ Advance
    BY <1>4 DEF AddMemRegion, AddIoRegion
  <2>2. /\ list \in Lists /\ list \in Seq(RegionInfos) /\ next \in 1 .. Len(list)
        /\ list[next] \in RegionInfos
    BY <2>1, EntryType
  <2>3. ~Blocks(list, next)
    BY <2>1, <2>2, PresentTaken DEF Blocks
  <2>4. Left'
    BY <1>1, <2>1 DEF Left, Advance
  <2>5. CASE next = Len(list)
    BY <2>1, <2>4, <2>5 DEF Advance, Passed, Ahead
  <2>6. CASE next # Len(list)
    <3>1. PICK l \in Lists, n \in Nat : l = list /\ n = next
      BY <2>2
    <3>2. next' = n + 1 /\ list' = l /\ refused' = refused
      BY <2>1, <2>6, <3>1 DEF Advance
    <3>3. l[n].type = "IO" => Present(l[n])'
      <4>1. CASE AddIoRegion
        <5>1. ioRegions' = Append(ioRegions, Extent(l[n])) /\ ioRegions \in Seq(Regions)
          BY <3>1, <4>1 DEF AddIoRegion, Shape
        <5>2. /\ Len(ioRegions) + 1 \in DOMAIN ioRegions'
              /\ ioRegions'[Len(ioRegions) + 1] = Extent(l[n])
          BY <5>1
        <5> QED
          BY <5>2 DEF Present, Extent
      <4>2. CASE AddMemRegion
        BY <3>1, <4>2 DEF AddMemRegion
      <4> QED
        BY <1>4, <4>1, <4>2
    <3>4. Passed'
      <4> SUFFICES ASSUME NEW i \in 1 .. n, l[i].type = "IO"
                   PROVE  Present(l[i])'
        BY <3>1, <3>2 DEF Passed, Present
      <4>1. CASE i # n
        BY <2>1, <3>1, <4>1, PresentStays DEF Passed
      <4> QED
        BY <3>3, <4>1
    <3>5. Ahead'
      <4> SUFFICES ASSUME l \in refused
                   PROVE  \E i \in n + 1 .. Len(l) : Blocks(l, i)'
        BY <3>1, <3>2 DEF Ahead, Blocks, Present
      <4>1. PICK i \in n .. Len(l) : Blocks(l, i)
        BY <2>1, <3>1 DEF Ahead
      <4>2. i \in n + 1 .. Len(l)
        BY <2>2, <2>3, <3>1, <4>1
      <4>3. Blocks(l, i)'
        BY <1>1, <4>1
      <4> QED
        BY <4>2, <4>3
    <3> QED
      BY <2>4, <3>4, <3>5
  <2> QED
    BY <2>5, <2>6
<1>5. CASE UNCHANGED <<ioRegions, call>>
  BY <1>5 DEF call, Passed, Left, Ahead, Blocks, Present
<1> QED
  BY <1>2, <1>3, <1>4, <1>5 DEF Next, vars, call, RefuseRegion, RefuseType, AddMmioDev, Write

-----------------------------------------------------------------------------
\* The controller before its first call satisfies the invariant.
LEMMA InitIInv == Init => IInv
<1> SUFFICES ASSUME Init PROVE IInv
  OBVIOUS
<1>1. Shape
  BY LeftoversAssumption DEF Init, Shape
<1> QED
  BY <1>1 DEF Init, IInv, RegionsNest, DevicesNest, Passed, Left, Ahead

\* Every step keeps it.
LEMMA StepIInv == IInv /\ [Next]_vars => IInv'
BY ShapeStep, RegionsStep, DevicesStep, RefusedStep DEF IInv

\* The parts hold together in every reachable state.
THEOREM Invariance == Spec => []IInv
BY InitIInv, StepIInv, PTL DEF Spec

\* The overlaps of regions that are accepted are of one kind only: below the top of the
\* address space, one of the two lies within the other.
THEOREM RegionsApartOrNested == Spec => []RegionsNest
<1>1. IInv => RegionsNest
  BY DEF IInv
<1> QED
  BY <1>1, Invariance, PTL

\* The overlaps of devices that are accepted are of one kind only: below the top, the
\* later device is around the earlier one.
THEOREM DevicesApartOrAround == Spec => []DevicesNest
<1>1. IInv => DevicesNest
  BY DEF IInv
<1> QED
  BY <1>1, Invariance, PTL

\* Initialize does not get to the end of a list that it refused before.
LEMMA RefusedNotFinished ==
  ASSUME IInv, next = Len(list), AddMemRegion \/ AddIoRegion
  PROVE  list \notin refused
<1>1. next # 0 /\ ~Conflicts(list[next])
  BY DEF AddMemRegion, AddIoRegion
<1>2. next \in 1 .. Len(list) /\ list[next] \in RegionInfos
  BY <1>1, EntryType DEF IInv
<1>3. ~Blocks(list, next)
  BY <1>1, <1>2, PresentTaken DEF Blocks, IInv
<1> QED
  BY <1>1, <1>2, <1>3 DEF IInv, Ahead

\* A list that failed after one of its IO regions was added never succeeds.
THEOREM RefusedForGood == Spec => RefusedStaysRefused
<1>1. IInv /\ [Next]_vars =>
        [next = Len(list) /\ (AddMemRegion \/ AddIoRegion) => list \notin refused]_vars
  BY RefusedNotFinished
<1> QED
  BY <1>1, Invariance, PTL DEF Spec, RefusedStaysRefused

-----------------------------------------------------------------------------
\* A sequence that grows keeps its first match.
LEMMA FirstKept ==
  ASSUME NEW S, NEW s \in Seq(S), NEW x, NEW a, FirstMatch(s, a) # {}
  PROVE  /\ FirstMatch(Append(s, x), a) = FirstMatch(s, a)
         /\ \A i \in FirstMatch(s, a) : Append(s, x)[i] = s[i]
<1> DEFINE t == Append(s, x)
           n == Len(s)
<1>1. /\ n \in Nat /\ DOMAIN s = 1 .. n /\ DOMAIN t = 1 .. n + 1
      /\ \A i \in 1 .. n : t[i] = s[i]
  OBVIOUS
<1>2. PICK f \in FirstMatch(s, a) : f \in 1 .. n /\ Includes(s[f], a)
  BY <1>1 DEF FirstMatch
<1> HIDE DEF t, n
<1>3. \A i \in 1 .. n : i \in FirstMatch(t, a) <=> i \in FirstMatch(s, a)
  BY <1>1 DEF FirstMatch
<1>4. n + 1 \notin FirstMatch(t, a)
  BY <1>1, <1>2 DEF FirstMatch
<1>5. FirstMatch(t, a) \subseteq 1 .. n + 1 /\ FirstMatch(s, a) \subseteq 1 .. n
  BY <1>1 DEF FirstMatch
<1>6. FirstMatch(t, a) = FirstMatch(s, a)
  <2>1. ASSUME NEW i \in FirstMatch(t, a)
        PROVE  i \in FirstMatch(s, a)
    <3>1. i \in 1 .. n
      BY <1>1, <1>4, <1>5
    <3> QED
      BY <1>3, <3>1
  <2>2. ASSUME NEW i \in FirstMatch(s, a)
        PROVE  i \in FirstMatch(t, a)
    BY <1>3, <1>5
  <2> QED
    BY <2>1, <2>2
<1> QED
  BY <1>1, <1>5, <1>6 DEF t

\* What an access finds when it finds a device.
LEMMA Found ==
  \A w, a, e :
    e \in FindIoDevice(w, a) <=>
      \E i \in FindIoRegion(a) : \E j \in FirstMatch(devices[i], a - ioRegions[i].start) :
        /\ e = devices[i][j]
        /\ Includes(e, (a - ioRegions[i].start + w) % Space)
BY DEF FindIoDevice

\* There is only one first match.
LEMMA FirstUnique ==
  ASSUME NEW S, NEW s \in Seq(S), NEW a,
         NEW i \in FirstMatch(s, a), NEW j \in FirstMatch(s, a)
  PROVE  i = j
<1>1. i \in 1 .. Len(s) /\ j \in 1 .. Len(s) /\ Len(s) \in Nat
  BY DEF FirstMatch
<1>2. ~(i < j) /\ ~(j < i)
  BY <1>1 DEF FirstMatch
<1> QED
  BY <1>1, <1>2

\* Every step leaves a search with the device it finds.
LEMMA RoutesStep ==
  ASSUME Shape, [Next]_vars, NEW w \in Widths, NEW a \in Addresses, FindIoDevice(w, a) # {}
  PROVE  FindIoDevice(w, a)' = FindIoDevice(w, a)
<1> DEFINE rel(i) == a - ioRegions[i].start
<1>1. PICK i \in FindIoRegion(a) : FirstMatch(devices[i], rel(i)) # {}
  BY Found
<1>2. \A k \in FindIoRegion(a) : k = i
  BY FirstUnique DEF FindIoRegion, Shape
<1>3. i \in DOMAIN ioRegions /\ i \in DOMAIN devices /\ devices[i] \in Seq(IoDevs)
  BY DEF FindIoRegion, FirstMatch, Shape
<1>4. SUFFICES /\ FindIoRegion(a)' = FindIoRegion(a)
               /\ ioRegions'[i] = ioRegions[i]
               /\ FirstMatch(devices'[i], rel(i)) = FirstMatch(devices[i], rel(i))
               /\ \A j \in FirstMatch(devices[i], rel(i)) : devices'[i][j] = devices[i][j]
  BY <1>2 DEF FindIoDevice
<1>5. CASE AddIoRegion
  <2>1. /\ ioRegions' = Append(ioRegions, Extent(list[next]))
        /\ devices' = Append(devices, <<>>)
    BY <1>5 DEF AddIoRegion
  <2>2. FindIoRegion(a)' = FindIoRegion(a) /\ ioRegions'[i] = ioRegions[i]
    BY <2>1, FirstKept DEF FindIoRegion, Shape
  <2>3. devices'[i] = devices[i]
    BY <1>3, <2>1 DEF Shape
  <2> QED
    BY <2>2, <2>3
<1>6. ASSUME NEW d \in Devices, NEW b \in Addresses, AddMmioDev(d, b)
      PROVE  /\ FindIoRegion(a)' = FindIoRegion(a)
             /\ ioRegions'[i] = ioRegions[i]
             /\ FirstMatch(devices'[i], rel(i)) = FirstMatch(devices[i], rel(i))
             /\ \A j \in FirstMatch(devices[i], rel(i)) : devices'[i][j] = devices[i][j]
  <2> DEFINE e == [start |-> b, length |-> MappedSize[d], dev |-> d]
  <2>1. PICK k \in FindIoRegion(b) : devices' = [devices EXCEPT ![k] = Append(@, e)]
    BY <1>6 DEF AddMmioDev
  <2> HIDE DEF e
  <2>2. ioRegions' = ioRegions
    BY <1>6 DEF AddMmioDev
  <2>3. devices'[i] = devices[i] \/ devices'[i] = Append(devices[i], e)
    BY <1>3, <2>1 DEF Shape
  <2>4. /\ FirstMatch(devices'[i], rel(i)) = FirstMatch(devices[i], rel(i))
        /\ \A j \in FirstMatch(devices[i], rel(i)) : devices'[i][j] = devices[i][j]
    <3> DEFINE s == devices[i]
    <3>1. s \in Seq(IoDevs) /\ FirstMatch(s, rel(i)) # {}
      BY <1>1, <1>3
    <3> HIDE DEF s
    <3>2. /\ FirstMatch(Append(s, e), rel(i)) = FirstMatch(s, rel(i))
          /\ \A j \in FirstMatch(s, rel(i)) : Append(s, e)[j] = s[j]
      BY <3>1, FirstKept
    <3>3. devices'[i] = s \/ devices'[i] = Append(s, e)
      BY <2>3 DEF s
    <3>4. CASE devices'[i] = s
      BY <3>4 DEF s
    <3>5. CASE devices'[i] = Append(s, e)
      BY <3>2, <3>5, Zenon DEF s
    <3> QED
      BY <3>3, <3>4, <3>5
  <2> QED
    BY <2>2, <2>4 DEF FindIoRegion
<1>7. CASE UNCHANGED <<ioRegions, devices>>
  BY <1>7 DEF FindIoRegion
<1> QED
  BY <1>5, <1>6, <1>7
  DEF Next, vars, Initialize, RefuseRegion, RefuseType, Fail, AddMemRegion, Write

\* A search that finds a device keeps finding it, whatever is added.
THEOREM RoutesKept == Spec => RoutesStable
<1>1. IInv /\ [Next]_vars =>
        [\A w \in Widths, a \in Addresses :
           FindIoDevice(w, a) # {} => FindIoDevice(w, a)' = FindIoDevice(w, a)]_vars
  BY RoutesStep DEF IInv
<1> QED
  BY <1>1, Invariance, PTL DEF Spec, RoutesStable
-----------------------------------------------------------------------------
\* What a sum of two addresses is after the wrap-around.
LEMMA WrappedSum ==
  ASSUME NEW n \in Addresses, NEW k \in Addresses
  PROVE  (n + k) % Space = IF n + k < Space THEN n + k ELSE n + k - Space
<1>1. n \in Nat /\ k \in Nat /\ Space \in Nat \ {0} /\ n < Space /\ k < Space
  BY SpaceAssumption DEF Addresses
<1> HIDE DEF Space
<1>2. CASE n + k < Space
  BY <1>1, <1>2, SmallSum
<1>3. CASE ~(n + k < Space)
  BY <1>1, <1>3
<1> QED
  BY <1>2, <1>3

\* A device whose end wraps includes no address, any other ends where it is said to.
LEMMA IncludedFits ==
  ASSUME NEW e \in IoDevs, NEW a \in Nat, Includes(e, a)
  PROVE  e.start <= a /\ a <= e.start + e.length
<1>1. /\ e.start \in Addresses /\ e.length \in Addresses
      /\ e.start \in Nat /\ e.length \in Nat /\ Space \in Nat /\ e.length < Space
  BY SpaceAssumption DEF IoDevs, Addresses
<1>2. GetEnd(e) = IF e.start + e.length < Space THEN e.start + e.length ELSE e.start + e.length - Space
  BY <1>1, WrappedSum DEF GetEnd
<1> QED
  BY <1>1, <1>2 DEF Includes

\* A device that is found has both the access's first byte and the byte behind it.
LEMMA FoundFits == Shape => DeviceAccessesFit
<1> SUFFICES ASSUME Shape, NEW w \in Widths, NEW a \in Addresses,
                    NEW i \in FindIoRegion(a), NEW e \in FindIoDevice(w, a),
                    ioRegions[i].start = 0, a + w < Space
             PROVE  e.start <= a /\ a + w <= e.start + e.length
  BY DEF DeviceAccessesFit
<1>1. a \in Nat /\ w \in Nat /\ Space \in Nat
  BY SpaceAssumption, WidthsAssumption DEF Addresses
<1>2. PICK k \in FindIoRegion(a) : \E j \in FirstMatch(devices[k], a - ioRegions[k].start) :
        e = devices[k][j] /\ Includes(e, (a - ioRegions[k].start + w) % Space)
  BY Found
<1>3. k = i
  BY FirstUnique DEF FindIoRegion, Shape
<1>4. PICK j \in FirstMatch(devices[i], a) : e = devices[i][j] /\ Includes(e, (a + w) % Space)
  BY <1>1, <1>2, <1>3
<1>5. e \in IoDevs /\ Includes(e, a)
  <2>1. i \in DOMAIN devices /\ devices[i] \in Seq(IoDevs)
    BY DEF FindIoRegion, FirstMatch, Shape
  <2> QED
    BY <1>4, <2>1 DEF FirstMatch
<1>6. (a + w) % Space = a + w
  BY <1>1, SmallSum
<1>7. e.start <= a
  BY <1>1, <1>5, IncludedFits
<1>8. a + w <= e.start + e.length
  BY <1>1, <1>4, <1>5, <1>6, IncludedFits
<1> QED
  BY <1>7, <1>8

\* In a region at address zero a device is given only accesses within its mapped size.
THEOREM DevicesKeepWithin == Spec => []DeviceAccessesFit
<1>1. IInv => DeviceAccessesFit
  BY FoundFits DEF IInv
<1> QED
  BY <1>1, Invariance, PTL

-----------------------------------------------------------------------------
(* Numbers and their bytes *)

\* Of TranslationProofs only what it says of numbers and steps is needed here.
Numbers == INSTANCE TranslationProofs WITH Backed <- {}

\* f begins with base and takes a step for each number from one up to n.
Steps(f, n, base, step) == f[0] = base /\ \A b \in 1 .. n : f[b] = step[b][f[b - 1]]

\* Steps, one for each number up to n, from values of T to values of T.
Stepping(step, n, T) == step \in [1 .. n -> [T -> T]]

\* They lead to a value of T, one after another.
LEMMA AfterIs ==
  ASSUME NEW n \in Nat, NEW T, NEW base \in T, NEW step, Stepping(step, n, T)
  PROVE  \E f \in [0 .. n -> T] : Steps(f, n, base, step) /\ After(n, base, step) = f[n]
<1>1. \E f \in [0 .. n -> T] : Numbers!Steps(f, n, base, step) /\ Numbers!After(n, base, step) = f[n]
  <2>1. step \in [1 .. n -> [T -> T]]
    BY DEF Stepping
  <2> QED
    BY <2>1, Numbers!AfterIs
<1>2. Numbers!After(n, base, step) = After(n, base, step)
  BY DEF Numbers!After, After
<1>3. \A f : Numbers!Steps(f, n, base, step) <=> Steps(f, n, base, step)
  BY DEF Numbers!Steps, Steps
<1> QED
  BY <1>1, <1>2, <1>3

\* Without a step it is the base.
LEMMA AfterNone == ASSUME NEW base, NEW step PROVE After(0, base, step) = base
<1> DEFINE IsAfter(f) == f = [k \in 0 .. 0 |-> IF k = 0 THEN base ELSE step[k][f[k - 1]]]
           after == CHOOSE f : IsAfter(f)
           only == [k \in 0 .. 0 |-> base]
<1>1. IsAfter(only)
  OBVIOUS
<1>2. IsAfter(after)
  BY <1>1, Zenon
<1>3. After(0, base, step) = after[0]
  BY DEF After
<1> HIDE DEF after
<1> QED
  BY <1>2, <1>3

\* One step more is that step from what those before it make.
LEMMA AfterNext ==
  ASSUME NEW n \in Nat, NEW T, NEW base \in T, NEW m \in Nat, m = n + 1,
         NEW last, Stepping(last, m, T), NEW step, Stepping(step, n, T), \A k \in 1 .. n : step[k] = last[k]
  PROVE  /\ After(n, base, step) \in T
         /\ After(m, base, last) = last[m][After(n, base, step)]
<1>1. PICK f \in [0 .. n -> T] : Steps(f, n, base, step) /\ After(n, base, step) = f[n]
  BY AfterIs
<1>2. PICK g \in [0 .. m -> T] : Steps(g, m, base, last) /\ After(m, base, last) = g[m]
  BY AfterIs
<1> DEFINE S == {k \in 0 .. n : f[k] = g[k]}
<1>3. 0 \in S
  BY <1>1, <1>2 DEF Steps
<1>4. ASSUME NEW k \in 1 .. n, k - 1 \in S PROVE k \in S
  BY <1>1, <1>2, <1>4 DEF Steps
<1> HIDE DEF S
<1>5. n \in S
  <2>1. 0 .. n \subseteq S
    BY <1>3, <1>4, Numbers!StepByStep
  <2> QED
    BY <2>1
<1>6. f[n] = g[n]
  BY <1>5 DEF S
<1>7. g[m] = last[m][g[n]]
  BY <1>2 DEF Steps
<1> QED
  BY <1>1, <1>2, <1>6, <1>7

\* A number is its digit and what is above it.
LEMMA Digits ==
  ASSUME NEW x \in Nat, NEW b \in Nat \ {0}
  PROVE  x \div b \in Nat /\ (x \div b) * b + (x % b) = x
OBVIOUS

\* What is above the digit of a number below a multiple is below the factor.
LEMMA DivideLess ==
  ASSUME NEW x \in Nat, NEW p \in Nat, NEW b \in Nat \ {0}, x < p * b
  PROVE  x \div b < p
<1>1. x \div b \in Nat /\ (x \div b) * b <= x
  <2>1. x % b \in Nat
    OBVIOUS
  <2> QED
    BY <2>1, Digits
<1> SUFFICES ASSUME ~(x \div b < p) PROVE FALSE
  OBVIOUS
<1> DEFINE q == x \div b
<1>2. q \in Nat /\ q * b <= x /\ p <= q
  BY <1>1
<1> HIDE DEF q
<1>3. p * b <= q * b
  <2>1. PICK r \in Nat : q = p + r
    BY <1>2
  <2>2. q * b = p * b + r * b /\ r * b \in Nat /\ p * b \in Nat
    BY <2>1
  <2> QED
    BY <2>2
<1>4. p * b \in Nat /\ q * b \in Nat
  BY <1>2
<1> QED
  BY <1>2, <1>3, <1>4

\* The weight of a byte: the number of values of the bytes below it.
Weight(w) == After(w, 1, [k \in 1 .. w |-> [p \in Nat |-> p * ByteBase]])

\* Each byte weighs ByteBase times as much as the one below it.
LEMMA WeightIs ==
  /\ Weight(0) = 1
  /\ \A i \in Nat : Weight(i) \in Nat /\ Weight(i + 1) = Weight(i) * ByteBase
<1> DEFINE one == 1
           steps(n) == [k \in 1 .. n |-> [p \in Nat |-> p * ByteBase]]
<1>1. \A n : Weight(n) = After(n, one, steps(n))
  BY DEF Weight
<1>2. one \in Nat /\ ByteBase \in Nat
  BY WidthsAssumption
<1>3. \A n \in Nat : Stepping(steps(n), n, Nat)
  <2>1. \A p \in Nat : p * ByteBase \in Nat
    BY <1>2
  <2> QED
    BY <2>1 DEF Stepping
<1>4. one = 1
  OBVIOUS
<1> HIDE DEF one
<1>5. ASSUME NEW n \in Nat, NEW m \in Nat, m = n + 1
      PROVE  Weight(n) \in Nat /\ Weight(m) = Weight(n) * ByteBase
  <2>1. (\A k \in 1 .. n : steps(n)[k] = steps(m)[k]) /\ \A p \in Nat : steps(m)[m][p] = p * ByteBase
    BY <1>5
  <2> DEFINE T == Nat
             short == steps(n)
             long == steps(m)
  <2>2. Stepping(short, n, T) /\ Stepping(long, m, T) /\ one \in T
    BY <1>2, <1>3
  <2>3. \A k \in 1 .. n : short[k] = long[k]
    BY <2>1
  <2> HIDE DEF steps, T, short, long
  <2>4. After(n, one, short) \in T /\ After(m, one, long) = long[m][After(n, one, short)]
    BY <1>5, <2>2, <2>3, AfterNext
  <2>5. After(n, one, steps(n)) \in Nat
        /\ After(m, one, steps(m)) = steps(m)[m][After(n, one, steps(n))]
    BY <2>4 DEF T, short, long
  <2> QED
    BY <1>1, <2>1, <2>5
<1>6. Weight(0) = one
  BY <1>1, AfterNone
<1>7. \A i \in Nat : i + 1 \in Nat
  OBVIOUS
<1> QED
  BY <1>4, <1>5, <1>6, <1>7

\* What is above the bytes up to one is divided once more than what is above those below it.
LEMMA AboveIs ==
  ASSUME NEW v \in Nat
  PROVE  /\ Above(v, 0) = v
         /\ \A i \in Nat : Above(v, i) \in Nat /\ Above(v, i + 1) = Above(v, i) \div ByteBase
<1> DEFINE steps(n) == [k \in 1 .. n |-> [rest \in Nat |-> rest \div ByteBase]]
<1>1. \A n : Above(v, n) = After(n, v, steps(n))
  BY DEF Above
<1>2. ByteBase \in Nat \ {0}
  BY WidthsAssumption
<1>3. \A n \in Nat : Stepping(steps(n), n, Nat)
  <2>1. \A rest \in Nat : rest \div ByteBase \in Nat
    BY <1>2, Digits
  <2> QED
    BY <2>1 DEF Stepping
<1>4. ASSUME NEW n \in Nat, NEW m \in Nat, m = n + 1
      PROVE  Above(v, n) \in Nat /\ Above(v, m) = Above(v, n) \div ByteBase
  <2>1. /\ \A k \in 1 .. n : steps(n)[k] = steps(m)[k]
        /\ \A rest \in Nat : steps(m)[m][rest] = rest \div ByteBase
    BY <1>4
  <2> DEFINE T == Nat
             short == steps(n)
             long == steps(m)
  <2>2. Stepping(short, n, T) /\ Stepping(long, m, T) /\ v \in T
    BY <1>2, <1>3
  <2>3. \A k \in 1 .. n : short[k] = long[k]
    BY <2>1
  <2> HIDE DEF steps, T, short, long
  <2>4. After(n, v, short) \in T /\ After(m, v, long) = long[m][After(n, v, short)]
    BY <1>4, <2>2, <2>3, AfterNext
  <2>5. After(n, v, steps(n)) \in Nat
        /\ After(m, v, steps(m)) = steps(m)[m][After(n, v, steps(n))]
    BY <2>4 DEF T, short, long
  <2> QED
    BY <1>1, <2>1, <2>5
<1>5. Above(v, 0) = v
  BY <1>1, AfterNone
<1>6. \A i \in Nat : i + 1 \in Nat
  OBVIOUS
<1> QED
  BY <1>4, <1>5, <1>6

\* A number of w bytes has nothing above them.
LEMMA NothingAbove ==
  ASSUME NEW w \in Nat, NEW v \in ValuesOf(w)
  PROVE  v \in Nat /\ Above(v, w) = 0
<1> DEFINE S == {j \in 0 .. w : Above(v, j) < Weight(w - j)}
<1>1. v \in Nat /\ v < Weight(w) /\ ByteBase \in Nat \ {0}
  <2>1. ValuesOf(w) = 0 .. Weight(w) - 1
    BY DEF ValuesOf, Weight
  <2>2. Weight(w) \in Nat
    BY WeightIs
  <2> QED
    BY <2>1, <2>2, WidthsAssumption
<1>2. 0 \in S
  <2>1. Above(v, 0) = v
    BY <1>1, AboveIs
  <2>2. w - 0 = w
    OBVIOUS
  <2> QED
    BY <1>1, <2>1, <2>2
<1>3. ASSUME NEW j \in 1 .. w, j - 1 \in S PROVE j \in S
  <2>1. PICK i \in Nat : i = j - 1 /\ i + 1 = j
    OBVIOUS
  <2>2. PICK r \in Nat : r = w - j /\ r + 1 = w - i
    BY <2>1
  <2>3. Above(v, i) < Weight(r + 1)
    BY <1>3, <2>1, <2>2
  <2>4. Weight(r) \in Nat /\ Weight(r + 1) = Weight(r) * ByteBase
    BY WeightIs
  <2>5. Above(v, i) \in Nat /\ Above(v, i + 1) = Above(v, i) \div ByteBase
    BY <1>1, AboveIs
  <2>6. Above(v, i + 1) < Weight(r)
    BY <1>1, <2>3, <2>4, <2>5, DivideLess
  <2> QED
    BY <2>1, <2>2, <2>6
<1> HIDE DEF S
<1>4. w \in S
  <2>1. 0 .. w \subseteq S
    BY <1>2, <1>3, Numbers!StepByStep
  <2> QED
    BY <2>1
<1>5. Above(v, w) < Weight(w - w) /\ w - w = 0
  BY <1>4 DEF S
<1>6. Above(v, w) \in Nat /\ Weight(0) = 1
  BY <1>1, AboveIs, WeightIs
<1> QED
  BY <1>1, <1>5, <1>6

\* The digits of a number are bytes.
LEMMA DigitType ==
  ASSUME NEW w \in Nat, NEW v \in ValuesOf(w), NEW i \in Nat
  PROVE  Above(v, i) % ByteBase \in Bytes
<1>1. Above(v, i) \in Nat /\ ByteBase \in Nat \ {0}
  BY WidthsAssumption, NothingAbove, AboveIs
<1>2. \A x \in Nat : x % ByteBase \in Bytes
  BY <1>1 DEF Bytes
<1> QED
  BY <1>1, <1>2

\* What the bytes byte[1] to byte[w], from the highest down, are as a number.
Number(w, byte) == After(w, 0, [k \in 1 .. w |-> [above \in Nat |-> above * ByteBase + byte[k]]])

\* The bytes of a number make it again.
LEMMA NumberOfBytes ==
  ASSUME NEW w \in Nat, NEW v \in ValuesOf(w), NEW byte \in [1 .. w -> Bytes],
         \A k \in 1 .. w : byte[k] = Above(v, w - k) % ByteBase
  PROVE  Number(w, byte) = v
<1> DEFINE zero == 0
           T == Nat
           step == [k \in 1 .. w |-> [above \in Nat |-> above * ByteBase + byte[k]]]
<1>1. ByteBase \in Nat \ {0} /\ v \in Nat /\ Above(v, w) = 0 /\ Above(v, 0) = v
      /\ \A i \in Nat : Above(v, i) \in Nat /\ Above(v, i + 1) = Above(v, i) \div ByteBase
  BY WidthsAssumption, NothingAbove, AboveIs
<1>2. Number(w, byte) = After(w, zero, step)
  BY DEF Number
<1>3. Stepping(step, w, T) /\ zero \in T
  <2>1. \A k \in 1 .. w : byte[k] \in Nat
    BY DEF Bytes
  <2>2. ASSUME NEW k \in 1 .. w, NEW above \in Nat PROVE above * ByteBase + byte[k] \in Nat
    <3>1. above * ByteBase \in Nat
      BY <1>1
    <3> QED
      BY <2>1, <3>1
  <2> QED
    BY <2>2 DEF Stepping
<1>4. \A k \in 1 .. w : \A above \in T : step[k][above] = above * ByteBase + byte[k]
  OBVIOUS
<1>5. zero = 0 /\ T = Nat
  OBVIOUS
<1> HIDE DEF step, T, zero
<1>6. PICK f \in [0 .. w -> T] : Steps(f, w, zero, step) /\ After(w, zero, step) = f[w]
  BY <1>3, AfterIs
<1> DEFINE S == {k \in 0 .. w : f[k] = Above(v, w - k)}
<1>7. 0 \in S
  <2>1. w - 0 = w
    OBVIOUS
  <2> QED
    BY <1>1, <1>5, <1>6, <2>1 DEF Steps
<1>8. ASSUME NEW k \in 1 .. w, k - 1 \in S PROVE k \in S
  <2>1. PICK i \in Nat : i = w - k /\ i + 1 = w - (k - 1)
    OBVIOUS
  <2>2. f[k - 1] = Above(v, i + 1) /\ f[k - 1] \in T
    BY <1>6, <1>8, <2>1
  <2>3. f[k] = f[k - 1] * ByteBase + byte[k]
    BY <1>4, <1>6, <2>2 DEF Steps
  <2>4. byte[k] = Above(v, i) % ByteBase /\ Above(v, i) \in Nat
        /\ Above(v, i + 1) = Above(v, i) \div ByteBase
    BY <1>1, <2>1
  <2>5. f[k] = Above(v, i)
    <3> DEFINE x == Above(v, i)
    <3>1. x \in Nat /\ f[k] = (x \div ByteBase) * ByteBase + (x % ByteBase)
      BY <2>2, <2>3, <2>4
    <3> HIDE DEF x
    <3>2. f[k] = x
      BY <1>1, <3>1, Digits
    <3> QED
      BY <3>2 DEF x
  <2> QED
    BY <2>1, <2>5
<1> HIDE DEF S
<1>9. w \in S
  <2>1. 0 .. w \subseteq S
    BY <1>7, <1>8, Numbers!StepByStep
  <2> QED
    BY <2>1
<1>10. f[w] = Above(v, w - w) /\ w - w = 0
  BY <1>9 DEF S
<1> QED
  BY <1>1, <1>2, <1>6, <1>10

\* The bytes that a read goes through, from the highest down.
Read(bytes, start, w, a) == [k \in 1 .. w |-> bytes[a - start + w - k]]

\* What they are as a number, for any memory.
LEMMA NumberIs ==
  ASSUME NEW w \in Nat, NEW bytes, NEW start, NEW a
  PROVE  After(w, 0, [k \in 1 .. w |-> [above \in Nat |-> above * ByteBase + bytes[a - start + w - k]]])
         = Number(w, Read(bytes, start, w, a))
<1> DEFINE byte == Read(bytes, start, w, a)
<1>1. \A k \in 1 .. w : byte[k] = bytes[a - start + w - k]
  BY DEF Read
<1> HIDE DEF byte
<1>2. [k \in 1 .. w |-> [above \in Nat |-> above * ByteBase + bytes[a - start + w - k]]]
      = [k \in 1 .. w |-> [above \in Nat |-> above * ByteBase + byte[k]]]
  BY <1>1
<1> QED
  BY <1>2 DEF Number, byte

\* A read gives that number, and so does one after a step.
LEMMA ReadIs ==
  ASSUME NEW w \in Nat, NEW a \in Addresses
  PROVE  /\ ReadMemory(w, a) = Number(w, Read(memory, ram.start, w, a))
         /\ ReadMemory(w, a)' = Number(w, Read(memory', ram'.start, w, a))
BY NumberIs DEF ReadMemory

-----------------------------------------------------------------------------
(* The bytes of main memory *)

\* There are none, or as many as main memory is long.
BytesThere == memory \in [0 .. ram.length - 1 -> Bytes] \cup {<<>>}

\* A new main memory comes with its bytes, and a write changes what they are at most.
LEMMA BytesStep == Shape /\ BytesThere /\ [Next]_vars => BytesThere'
<1> SUFFICES ASSUME Shape, BytesThere, [Next]_vars PROVE BytesThere'
  OBVIOUS
<1>1. CASE UNCHANGED <<ram, memory>>
  BY <1>1 DEF BytesThere
<1>2. CASE AddMemRegion
  <2>1. ram' = Extent(list[next]) /\ memory' = [o \in 0 .. list[next].length - 1 |-> 0]
    BY <1>2 DEF AddMemRegion
  <2>2. 0 \in Bytes
    BY WidthsAssumption DEF Bytes
  <2> QED
    BY <2>1, <2>2 DEF BytesThere, Extent
<1>3. ASSUME NEW w \in Widths, NEW v \in ValuesOf(w), NEW a \in Addresses, Write(w, v, a)
      PROVE  BytesThere'
  <2>1. /\ ram' = ram
        /\ memory' = [o \in DOMAIN memory |->
                        LET i == o - (a - ram.start) IN
                        IF i \in 0 .. w - 1 THEN Above(v, i) % ByteBase ELSE memory[o]]
    BY <1>3 DEF Write
  <2>2. DOMAIN memory = 0 .. ram.length - 1 /\ memory \in [0 .. ram.length - 1 -> Bytes]
    BY <1>3 DEF Write, BytesThere
  <2>3. \A i \in 0 .. w - 1 : Above(v, i) % ByteBase \in Bytes
    BY WidthsAssumption, DigitType
  <2>4. memory' \in [0 .. ram.length - 1 -> Bytes]
    BY <2>1, <2>2, <2>3
  <2> QED
    BY <2>1, <2>4 DEF BytesThere
<1>4. ASSUME NEW l \in Lists, Initialize(l) PROVE BytesThere'
  BY <1>1, <1>4 DEF Initialize
<1>5. ASSUME NEW d \in Devices, NEW a \in Addresses, AddMmioDev(d, a) PROVE BytesThere'
  BY <1>1, <1>5 DEF AddMmioDev
<1>6. CASE RefuseRegion \/ RefuseType \/ AddIoRegion
  BY <1>1, <1>6 DEF RefuseRegion, RefuseType, Fail, AddIoRegion
<1>7. CASE UNCHANGED vars
  BY <1>1, <1>7 DEF vars
<1> QED
  BY <1>2, <1>3, <1>4, <1>5, <1>6, <1>7 DEF Next

\* Type correctness: main memory always has the bytes that its length says, or none yet.
THEOREM TypeCorrect == Spec => []TypeOK
<1>1. Init => BytesThere
  BY DEF Init, BytesThere
<1>2. IInv => Shape
  BY DEF IInv
<1>3. Shape /\ BytesThere => TypeOK
  BY DEF Shape, BytesThere, TypeOK
<1> QED
  BY <1>1, <1>2, <1>3, BytesStep, Invariance, PTL DEF Spec

\* A write leaves the bytes of what it writes where it writes, and the others as they are.
LEMMA WriteIs ==
  ASSUME Shape, BytesThere, NEW w \in Widths, NEW v \in ValuesOf(w), NEW a \in Addresses, Write(w, v, a)
  PROVE  /\ ram' = ram /\ ram.start \in Nat /\ w \in Nat
         /\ \A o \in DOMAIN memory : o \in Nat /\ memory[o] \in Bytes /\ memory'[o] \in Bytes
         /\ \A o \in DOMAIN memory :
              memory'[o] = IF o - (a - ram.start) \in 0 .. w - 1
                           THEN Above(v, o - (a - ram.start)) % ByteBase ELSE memory[o]
<1>1. /\ ram' = ram
      /\ memory' = [o \in DOMAIN memory |->
                      LET i == o - (a - ram.start) IN
                      IF i \in 0 .. w - 1 THEN Above(v, i) % ByteBase ELSE memory[o]]
      /\ memory # <<>>
  BY DEF Write
<1>2. DOMAIN memory = 0 .. ram.length - 1 /\ memory \in [0 .. ram.length - 1 -> Bytes]
  BY <1>1 DEF BytesThere
<1>3. ram.start \in Nat /\ ram.length \in Nat /\ w \in Nat /\ ByteBase \in Nat \ {0} /\ v \in Nat
  BY SpaceAssumption, WidthsAssumption, NothingAbove DEF Shape, Regions, Addresses
<1>4. \A i \in 0 .. w - 1 : Above(v, i) % ByteBase \in Bytes
  BY <1>3, DigitType
<1>5. \A o \in DOMAIN memory :
        memory'[o] = IF o - (a - ram.start) \in 0 .. w - 1
                     THEN Above(v, o - (a - ram.start)) % ByteBase ELSE memory[o]
  BY <1>1
<1>6. \A o \in DOMAIN memory : o \in Nat /\ memory[o] \in Bytes
  BY <1>2
<1> QED
  BY <1>1, <1>3, <1>4, <1>5, <1>6

\* What has been written is read back.
LEMMA ReadsBack ==
  ASSUME Shape, BytesThere, NEW w \in Widths, NEW v \in ValuesOf(w), NEW a \in Addresses,
         InMemory(w, a), Write(w, v, a)
  PROVE  ReadMemory(w, a)' = v
<1> DEFINE start == ram.start
           byte == Read(memory', start, w, a)
<1>1. w \in Nat /\ start \in Nat /\ a \in Nat
  BY WriteIs, SpaceAssumption DEF Addresses
<1>2. \A k \in 1 .. w : byte[k] = memory'[a - start + w - k]
  BY DEF Read
<1>3. ASSUME NEW k \in 1 .. w
      PROVE  /\ memory'[a - start + w - k] = Above(v, w - k) % ByteBase
             /\ memory'[a - start + w - k] \in Bytes
  <2> DEFINE o == a - start + w - k
  <2>1. o \in a - start .. a - start + w - 1 /\ o - (a - start) = w - k /\ w - k \in 0 .. w - 1
    BY <1>1
  <2>2. o \in DOMAIN memory
    BY <2>1 DEF InMemory
  <2> HIDE DEF o, start
  <2> QED
    BY <2>1, <2>2, WriteIs DEF o, start
<1>4. byte \in [1 .. w -> Bytes]
  BY <1>3 DEF Read
<1>5. ReadMemory(w, a)' = Number(w, byte)
  <2>1. ram'.start = start
    BY WriteIs
  <2> QED
    BY <1>1, <2>1, ReadIs
<1>6. \A k \in 1 .. w : byte[k] = Above(v, w - k) % ByteBase
  BY <1>2, <1>3
<1> HIDE DEF byte
<1> QED
  BY <1>1, <1>4, <1>5, <1>6, NumberOfBytes

\* What has not been touched is read as before.
LEMMA ReadsAsBefore ==
  ASSUME Shape, BytesThere, NEW w \in Widths, NEW v \in ValuesOf(w), NEW a \in Addresses, Write(w, v, a),
         NEW u \in Widths, NEW b \in Addresses, InMemory(u, b), b + u <= a \/ a + w <= b
  PROVE  ReadMemory(u, b)' = ReadMemory(u, b)
<1> DEFINE start == ram.start
<1>1. u \in Nat /\ w \in Nat /\ start \in Nat /\ a \in Nat /\ b \in Nat
  BY WriteIs, SpaceAssumption, WidthsAssumption DEF Addresses
<1>2. ASSUME NEW k \in 1 .. u PROVE memory'[b - start + u - k] = memory[b - start + u - k]
  <2> DEFINE o == b - start + u - k
  <2>1. o \in b - start .. b - start + u - 1 /\ o - (a - start) \notin 0 .. w - 1
    BY <1>1
  <2>2. o \in DOMAIN memory
    BY <2>1 DEF InMemory
  <2> HIDE DEF o, start
  <2> QED
    BY <2>1, <2>2, WriteIs DEF o, start
<1>3. Read(memory', start, u, b) = Read(memory, start, u, b)
  BY <1>2 DEF Read
<1>4. ram'.start = start
  BY WriteIs
<1> QED
  BY <1>1, <1>3, <1>4, ReadIs

\* A write is read back, and no other read sees it: for every width and number of values
\* of a byte, and wherever main memory lies.
THEOREM ReadBack == Spec => WritesReadBack
<1>1. Init => BytesThere
  BY DEF Init, BytesThere
<1>2. IInv => Shape
  BY DEF IInv
<1>3. Shape /\ BytesThere /\ [Next]_vars =>
        [\A w \in Widths, a \in Addresses : InMemory(w, a) =>
           \A v \in ValuesOf(w) : Write(w, v, a) =>
             /\ ReadMemory(w, a)' = v
             /\ \A u \in Widths, b \in Addresses :
                  InMemory(u, b) /\ (b + u <= a \/ a + w <= b) =>
                    ReadMemory(u, b)' = ReadMemory(u, b)]_vars
  BY ReadsBack, ReadsAsBefore
<1> QED
  BY <1>1, <1>2, <1>3, BytesStep, Invariance, PTL DEF Spec, WritesReadBack
=============================================================================

------------------------ MODULE DeviceSchedulerProofs ------------------------
(***************************************************************************)
(* Proofs about DeviceScheduler, for any devices, frequencies and length   *)
(* of the queue.  The heap's order changes under it, so that nothing is    *)
(* said of it but what holds without: which containers there are, and what *)
(* lies on top while a device waits to be processed again.                 *)
(***************************************************************************)
EXTENDS DeviceScheduler, FiniteSetTheorems, SequenceTheorems, TLAPS

-----------------------------------------------------------------------------
(* Induction *)

\* A set that has every number up to n whose predecessors it has, has all up to n.
LEMMA Upwards ==
  ASSUME NEW n \in Nat, NEW S,
         \A k \in 1 .. n : (\A j \in 1 .. k - 1 : j \in S) => k \in S
  PROVE  1 .. n \subseteq S
<1> DEFINE bad == (1 .. n) \ S
           less == OpToRel(<, Nat)
<1> SUFFICES ASSUME bad # {} PROVE FALSE
  OBVIOUS
<1>a. bad \subseteq Nat
  OBVIOUS
<1>1. PICK k \in bad : \A j \in bad : <<j, k>> \notin less
  <2>1. IsWellFoundedOn(less, Nat)
    BY NatLessThanWellFounded DEF less
  <2> HIDE DEF bad, less
  <2> QED
    BY <1>a, <2>1, WFMin
<1>2. \A j \in bad : ~(j < k)
  BY <1>a, <1>1 DEF OpToRel
<1> HIDE DEF less
<1>3. k \in 1 .. n /\ k \notin S
  OBVIOUS
<1>4. \A j \in 1 .. k - 1 : j \in S
  BY <1>2, <1>3
<1> QED
  BY <1>3, <1>4

\* The same from n downwards.
LEMMA Downwards ==
  ASSUME NEW n \in Nat, NEW S,
         \A k \in 1 .. n : (\A j \in k + 1 .. n : j \in S) => k \in S
  PROVE  1 .. n \subseteq S
<1> DEFINE T == {k \in 1 .. n : n + 1 - k \in S}
<1>1. ASSUME NEW k \in 1 .. n, \A j \in 1 .. k - 1 : j \in T
      PROVE  k \in T
  <2>1. \A j \in n + 1 - k + 1 .. n : n + 1 - j \in T /\ n + 1 - (n + 1 - j) = j
    BY <1>1
  <2>2. n + 1 - k \in 1 .. n /\ \A j \in n + 1 - k + 1 .. n : j \in S
    BY <2>1
  <2> QED
    BY <2>2
<1>2. 1 .. n \subseteq T
  <2> HIDE DEF T
  <2> QED
    BY <1>1, Upwards
<1>3. ASSUME NEW k \in 1 .. n PROVE k \in S
  <2>1. n + 1 - k \in T
    BY <1>2
  <2>2. n + 1 - (n + 1 - k) = k
    OBVIOUS
  <2> QED
    BY <2>1, <2>2
<1> QED
  BY <1>3

-----------------------------------------------------------------------------
(* Containers that change places *)

\* Where the containers of a device are.
PlacesOf(p, d) == {k \in DOMAIN p : p[k].dev = d}

\* The containers of a heap.
Elements(p) == {p[k] : k \in DOMAIN p}

\* Two heaps with as many containers of each device, and none that is new.
SameDevices(p, r) ==
  /\ \A d \in Devices : Cardinality(PlacesOf(p, d)) = Cardinality(PlacesOf(r, d))
  /\ Elements(p) \subseteq Elements(r)

\* A layout of n elements.
Heaps(n) == [1 .. n -> Containers]

\* That is a sequence of that length.
LEMMA HeapIsSeq ==
  ASSUME NEW n \in Nat, NEW p
  PROVE  p \in Heaps(n) <=> p \in Seq(Containers) /\ Len(p) = n
<1>1. ASSUME p \in Heaps(n) PROVE p \in Seq(Containers) /\ Len(p) = n
  BY <1>1 DEF Heaps
<1>2. ASSUME p \in Seq(Containers), Len(p) = n PROVE p \in Heaps(n)
  BY <1>2, LenProperties DEF Heaps
<1> QED
  BY <1>1, <1>2

\* Its places can be counted.
LEMMA PlacesFinite ==
  ASSUME NEW n \in Nat, NEW p \in Heaps(n), NEW d
  PROVE  IsFiniteSet(PlacesOf(p, d)) /\ Cardinality(PlacesOf(p, d)) \in Nat
<1>1. PlacesOf(p, d) \subseteq 1 .. n
  BY DEF PlacesOf, Heaps
<1>2. IsFiniteSet(1 .. n)
  BY FS_Interval
<1> QED
  BY <1>1, <1>2, FS_Subset, FS_CardinalityType

\* Two elements that change places are all there still.
LEMMA SwapKeeps ==
  ASSUME NEW n \in Nat, NEW p \in Heaps(n), NEW i \in 1 .. n, NEW j \in 1 .. n
  PROVE  /\ Swap(p, i, j) \in Heaps(n)
         /\ SameDevices(Swap(p, i, j), p)
         /\ Swap(p, i, j)[i] = p[j] /\ Swap(p, i, j)[j] = p[i]
         /\ \A k \in 1 .. n : k # i /\ k # j => Swap(p, i, j)[k] = p[k]
<1> DEFINE r == Swap(p, i, j)
           turn == [k \in 1 .. n |-> IF k = i THEN j ELSE IF k = j THEN i ELSE k]
<1>1. r = [k \in 1 .. n |-> p[turn[k]]]
  BY DEF Swap, Heaps
<1>2. \A k \in 1 .. n : turn[k] \in 1 .. n /\ turn[turn[k]] = k
  OBVIOUS
<1>3. r \in Heaps(n)
  BY <1>1, <1>2 DEF Heaps
<1>4. turn[i] = j /\ turn[j] = i /\ \A k \in 1 .. n : k # i /\ k # j => turn[k] = k
  OBVIOUS
<1> HIDE DEF r, turn
<1>5. ASSUME NEW d \in Devices
      PROVE  Cardinality(PlacesOf(r, d)) = Cardinality(PlacesOf(p, d))
  <2> DEFINE S == PlacesOf(p, d)
             T == PlacesOf(r, d)
             f == [k \in S |-> turn[k]]
  <2>1. S = {k \in 1 .. n : p[k].dev = d} /\ T = {k \in 1 .. n : p[turn[k]].dev = d}
    BY <1>1 DEF PlacesOf, Heaps
  <2>2. f \in [S -> T]
    BY <1>2, <2>1
  <2>3. \A a, b \in S : f[a] = f[b] => a = b
    BY <1>2, <2>1
  <2>4. \A t \in T : turn[t] \in S /\ f[turn[t]] = t
    BY <1>2, <2>1
  <2>5. IsFiniteSet(S)
    BY PlacesFinite
  <2> HIDE DEF S, T, f
  <2>6. f \in Bijection(S, T)
    BY <2>2, <2>3, <2>4 DEF Bijection, Injection, Surjection, IsInjective
  <2>7. ExistsBijection(S, T)
    BY <2>6 DEF ExistsBijection
  <2>8. Cardinality(T) = Cardinality(S)
    BY <2>5, <2>7, FS_Bijection
  <2> QED
    BY <2>8 DEF S, T
<1>6. Elements(r) \subseteq Elements(p)
  BY <1>1, <1>2 DEF Elements, Heaps
<1> QED
  BY <1>1, <1>3, <1>4, <1>5, <1>6 DEF SameDevices, r

-----------------------------------------------------------------------------
(* Rising *)

\* What the elements that rise from each of the first positions leave of a layout.
IsRisen(f, n, top, m) ==
  f = [j \in 1 .. m |-> [p \in Heaps(n) |->
         IF j > top /\ Below(p[j \div 2], p[j]) THEN f[j \div 2][Swap(p, j, j \div 2)] ELSE p]]

\* There is such a function for one position more.
LEMMA RisenExists ==
  ASSUME NEW n \in Nat, NEW m \in 1 .. n, NEW top \in 1 .. n
  PROVE  \E f : IsRisen(f, n, top, m)
<1> DEFINE good == {k \in 1 .. n : \E f : IsRisen(f, n, top, k)}
<1>1. ASSUME NEW k \in 1 .. n, \A j \in 1 .. k - 1 : j \in good
      PROVE  k \in good
  <2>1. \E f : k > 1 => IsRisen(f, n, top, k - 1)
    BY <1>1
  <2>2. PICK f : k > 1 => IsRisen(f, n, top, k - 1)
    BY <2>1
  <2> DEFINE of == [j \in 1 .. k |-> [p \in Heaps(n) |->
                      IF j > top /\ Below(p[j \div 2], p[j]) THEN f[j \div 2][Swap(p, j, j \div 2)]
                      ELSE p]]
             g == [j \in 1 .. k |-> IF j < k THEN f[j] ELSE of[j]]
  <2>3. g = [j \in 1 .. k |-> g[j]] /\ g[k] = of[k] /\ \A j \in 1 .. k - 1 : g[j] = f[j]
    OBVIOUS
  <2>4. \A j \in 1 .. k - 1 : f[j] = of[j]
    BY <2>2 DEF IsRisen
  <2> HIDE DEF g
  <2>5. \A j \in 1 .. k : j > top => g[j \div 2] = f[j \div 2]
    <3>1. \A j \in 1 .. k : j > top => j \div 2 \in 1 .. k - 1
      OBVIOUS
    <3> QED
      BY <2>3, <3>1
  <2>6. \A j \in 1 .. k : g[j] = of[j]
    <3> HIDE DEF of
    <3> QED
      BY <2>3, <2>4
  <2>7. ASSUME NEW j \in 1 .. k
        PROVE  g[j] = [p \in Heaps(n) |->
                         IF j > top /\ Below(p[j \div 2], p[j]) THEN g[j \div 2][Swap(p, j, j \div 2)]
                         ELSE p]
    BY <2>5, <2>6
  <2>8. IsRisen(g, n, top, k)
    <3> HIDE DEF of
    <3> QED
      BY <2>3, <2>7 DEF IsRisen
  <2> QED
    BY <2>8
<1>2. 1 .. n \subseteq good
  <2> HIDE DEF good
  <2> QED
    BY <1>1, Upwards
<1> QED
  BY <1>2

\* That function, for all positions up to the one that rises.
Risen(n, top, m) == CHOOSE f : IsRisen(f, n, top, m)

\* An element that has risen leaves all containers where there are any, and what was
\* on top if it is not below the element.
LEMMA RiseKeeps ==
  ASSUME NEW n \in Nat, NEW q \in Heaps(n), NEW i \in 1 .. n, NEW top \in 1 .. n
  PROVE  /\ Rise(q, i, top) \in Heaps(n)
         /\ SameDevices(Rise(q, i, top), q)
         /\ ~Below(q[1], q[i]) => Rise(q, i, top)[1] = q[1]
<1> DEFINE f == Risen(n, top, i)
           good == {j \in 1 .. i : \A p \in Heaps(n) :
                      /\ f[j][p] \in Heaps(n)
                      /\ SameDevices(f[j][p], p)
                      /\ ~Below(p[1], p[j]) => f[j][p][1] = p[1]}
<1>1. IsRisen(f, n, top, i)
  BY RisenExists DEF Risen
<1>2. Rise(q, i, top) = f[i][q]
  <2>1. Layouts(q) = Heaps(n)
    BY DEF Layouts, Heaps
  <2> QED
    BY <2>1, Zenon DEF Rise, Risen, IsRisen
<1> HIDE DEF f
<1>3. ASSUME NEW j \in 1 .. i, \A h \in 1 .. j - 1 : h \in good, NEW p \in Heaps(n)
      PROVE  /\ f[j][p] \in Heaps(n)
             /\ SameDevices(f[j][p], p)
             /\ ~Below(p[1], p[j]) => f[j][p][1] = p[1]
  <2>1. f[j][p] = IF j > top /\ Below(p[j \div 2], p[j]) THEN f[j \div 2][Swap(p, j, j \div 2)] ELSE p
    <3>1. f[j] = [r \in Heaps(n) |->
                    IF j > top /\ Below(r[j \div 2], r[j]) THEN f[j \div 2][Swap(r, j, j \div 2)] ELSE r]
      BY <1>1 DEF IsRisen
    <3> QED
      BY <3>1
  <2>2. CASE j > top /\ Below(p[j \div 2], p[j])
    <3> DEFINE h == j \div 2
               r == Swap(p, j, h)
    <3>1. h \in 1 .. j - 1 /\ h \in 1 .. n /\ j \in 1 .. n /\ j # 1
      BY <2>2
    <3>2. /\ r \in Heaps(n) /\ SameDevices(r, p) /\ r[h] = p[j]
          /\ \A k \in 1 .. n : k # j /\ k # h => r[k] = p[k]
      BY <3>1, SwapKeeps
    <3>3. f[j][p] = f[h][r] /\ Below(p[h], p[j])
      BY <2>1, <2>2
    <3>4. h \in good
      BY <1>3, <3>1
    <3> HIDE DEF h, r
    <3>5. /\ f[h][r] \in Heaps(n) /\ SameDevices(f[h][r], r)
          /\ ~Below(r[1], r[h]) => f[h][r][1] = r[1]
      BY <3>2, <3>4
    <3>6. SameDevices(f[h][r], p)
      BY <3>2, <3>5 DEF SameDevices
    <3>7. ~Below(p[1], p[j]) => r[1] = p[1]
      BY <3>1, <3>2, <3>3
    <3> QED
      BY <3>2, <3>3, <3>5, <3>6, <3>7
  <2>3. CASE ~(j > top /\ Below(p[j \div 2], p[j]))
    BY <2>1, <2>3 DEF SameDevices
  <2> QED
    BY <2>2, <2>3
<1>4. 1 .. i \subseteq good
  <2>1. ASSUME NEW j \in 1 .. i, \A h \in 1 .. j - 1 : h \in good PROVE j \in good
    BY <1>3, <2>1
  <2> HIDE DEF good
  <2> QED
    BY <2>1, Upwards
<1>5. i \in good
  BY <1>4
<1> QED
  BY <1>2, <1>5

-----------------------------------------------------------------------------
(* Sinking *)

\* What the elements that sink from the last positions on leave of a layout.
IsSunk(f, n, top, from) ==
  f = [j \in from .. n |-> [p \in Heaps(n) |->
         IF 2 * j > n THEN Rise(p, j, top) ELSE f[Child(p, j)][Swap(p, j, Child(p, j))]]]

\* A child is one, and lies further down.
LEMMA ChildBelow ==
  ASSUME NEW n \in Nat, NEW p \in Heaps(n), NEW j \in 1 .. n, ~(2 * j > n)
  PROVE  Child(p, j) \in j + 1 .. n
<1>1. Len(p) = n
  BY DEF Heaps
<1> QED
  BY <1>1 DEF Child

\* There is such a function from one position less on.
LEMMA SunkExists ==
  ASSUME NEW n \in Nat, NEW top \in 1 .. n, NEW m \in 1 .. n
  PROVE  \E f : IsSunk(f, n, top, m)
<1> DEFINE good == {k \in 1 .. n : \E f : IsSunk(f, n, top, k)}
<1>1. ASSUME NEW k \in 1 .. n, \A j \in k + 1 .. n : j \in good
      PROVE  k \in good
  <2>1. \E f : k < n => IsSunk(f, n, top, k + 1)
    BY <1>1
  <2>2. PICK f : k < n => IsSunk(f, n, top, k + 1)
    BY <2>1
  <2> DEFINE of == [j \in k .. n |-> [p \in Heaps(n) |->
                      IF 2 * j > n THEN Rise(p, j, top)
                      ELSE f[Child(p, j)][Swap(p, j, Child(p, j))]]]
             g == [j \in k .. n |-> IF j > k THEN f[j] ELSE of[j]]
  <2>3. g = [j \in k .. n |-> g[j]] /\ g[k] = of[k] /\ \A j \in k + 1 .. n : g[j] = f[j]
    OBVIOUS
  <2>4. \A j \in k + 1 .. n : f[j] = of[j]
    BY <2>2 DEF IsSunk
  <2> HIDE DEF g
  <2>5. \A j \in k .. n : \A p \in Heaps(n) : ~(2 * j > n) => g[Child(p, j)] = f[Child(p, j)]
    <3>1. \A j \in k .. n : \A p \in Heaps(n) : ~(2 * j > n) => Child(p, j) \in k + 1 .. n
      BY ChildBelow
    <3> QED
      BY <2>3, <3>1
  <2>6. \A j \in k .. n : g[j] = of[j]
    <3> HIDE DEF of
    <3>1. \A j \in k .. n : j = k \/ j \in k + 1 .. n
      OBVIOUS
    <3> QED
      BY <2>3, <2>4, <3>1
  <2>7. ASSUME NEW j \in k .. n
        PROVE  g[j] = [p \in Heaps(n) |->
                         IF 2 * j > n THEN Rise(p, j, top)
                         ELSE g[Child(p, j)][Swap(p, j, Child(p, j))]]
    BY <2>5, <2>6
  <2>8. IsSunk(g, n, top, k)
    <3> HIDE DEF of
    <3> QED
      BY <2>3, <2>7 DEF IsSunk
  <2> QED
    BY <2>8
<1>2. 1 .. n \subseteq good
  <2> HIDE DEF good
  <2> QED
    BY <1>1, Downwards
<1> QED
  BY <1>2

\* That function, for all positions from 1 on.
SunkIn(f, q, top) ==
  f = [j \in 1 .. Len(q) |-> [p \in Layouts(q) |->
         IF 2 * j > Len(q) THEN Rise(p, j, top) ELSE f[Child(p, j)][Swap(p, j, Child(p, j))]]]
Sunk(q, top) == CHOOSE f : SunkIn(f, q, top)

\* An element that has sunk leaves all containers where there are any.
LEMMA SinkKeeps ==
  ASSUME NEW n \in Nat, NEW q \in Heaps(n), NEW i \in 1 .. n, NEW top \in 1 .. n
  PROVE  Sink(q, i, top) \in Heaps(n) /\ SameDevices(Sink(q, i, top), q)
<1> DEFINE f == Sunk(q, top)
           good == {j \in 1 .. n : \A p \in Heaps(n) :
                      f[j][p] \in Heaps(n) /\ SameDevices(f[j][p], p)}
<1>1. IsSunk(f, n, top, 1)
  <2>1. Layouts(q) = Heaps(n) /\ Len(q) = n
    BY DEF Layouts, Heaps
  <2>2. \A g : SunkIn(g, q, top) <=> IsSunk(g, n, top, 1)
    BY <2>1 DEF SunkIn, IsSunk
  <2>3. \E g : SunkIn(g, q, top)
    <3>1. \E g : IsSunk(g, n, top, 1)
      BY SunkExists
    <3> QED
      BY <2>2, <3>1
  <2>4. SunkIn(f, q, top)
    BY <2>3, Zenon DEF Sunk
  <2> QED
    BY <2>2, <2>4
<1>2. Sink(q, i, top) = f[i][q]
  BY Zenon DEF Sink, Sunk, SunkIn
<1> HIDE DEF f
<1>3. ASSUME NEW j \in 1 .. n, \A h \in j + 1 .. n : h \in good, NEW p \in Heaps(n)
      PROVE  f[j][p] \in Heaps(n) /\ SameDevices(f[j][p], p)
  <2>1. f[j][p] = IF 2 * j > n THEN Rise(p, j, top) ELSE f[Child(p, j)][Swap(p, j, Child(p, j))]
    <3>1. f[j] = [r \in Heaps(n) |->
                    IF 2 * j > n THEN Rise(r, j, top) ELSE f[Child(r, j)][Swap(r, j, Child(r, j))]]
      BY <1>1 DEF IsSunk
    <3> QED
      BY <3>1
  <2>2. CASE 2 * j > n
    BY <2>1, <2>2, RiseKeeps
  <2>3. CASE ~(2 * j > n)
    <3> DEFINE h == Child(p, j)
               r == Swap(p, j, h)
    <3>1. h \in j + 1 .. n /\ h \in 1 .. n
      BY <2>3, ChildBelow
    <3>2. r \in Heaps(n) /\ SameDevices(r, p)
      BY <3>1, SwapKeeps
    <3>3. f[j][p] = f[h][r] /\ h \in good
      BY <1>3, <2>1, <2>3, <3>1
    <3> HIDE DEF h, r
    <3>4. f[h][r] \in Heaps(n) /\ SameDevices(f[h][r], r)
      BY <3>2, <3>3
    <3> QED
      BY <3>2, <3>3, <3>4 DEF SameDevices
  <2> QED
    BY <2>2, <2>3
<1>4. 1 .. n \subseteq good
  <2>1. ASSUME NEW j \in 1 .. n, \A h \in j + 1 .. n : h \in good PROVE j \in good
    BY <1>3, <2>1
  <2> HIDE DEF good
  <2> QED
    BY <2>1, Downwards
<1>5. i \in good
  BY <1>4
<1> QED
  BY <1>2, <1>5

-----------------------------------------------------------------------------
(* Making a heap *)

\* What the heaps made from the last positions on look like.
IsMade(f, q, from) ==
  f = [i \in from .. Len(q) \div 2 + 1 |-> IF i > Len(q) \div 2 THEN q ELSE Sink(f[i + 1], i, i)]

\* There is such a function from one position less on.
LEMMA MadeExists ==
  ASSUME NEW n \in Nat, NEW q \in Heaps(n)
  PROVE  \E f : IsMade(f, q, 1)
<1> DEFINE last == n \div 2 + 1
           good == {k \in 1 .. last : \E f : IsMade(f, q, k)}
<1>1. Len(q) \div 2 + 1 = last /\ Len(q) \div 2 = last - 1 /\ last \in Nat \ {0}
  BY DEF Heaps
<1> HIDE DEF last
<1>2. ASSUME NEW k \in 1 .. last, \A j \in k + 1 .. last : j \in good
      PROVE  k \in good
  <2>1. \E f : k < last => IsMade(f, q, k + 1)
    <3>1. k < last => k + 1 \in k + 1 .. last
      BY <1>1
    <3>2. k < last => k + 1 \in good
      BY <1>2, <3>1
    <3> QED
      BY <3>2
  <2>2. PICK f : k < last => IsMade(f, q, k + 1)
    BY <2>1
  <2> DEFINE of == [i \in k .. last |-> IF i > last - 1 THEN q ELSE Sink(f[i + 1], i, i)]
             g == [i \in k .. last |-> IF i > k THEN f[i] ELSE of[i]]
  <2>3. g = [i \in k .. last |-> g[i]] /\ g[k] = of[k] /\ \A i \in k + 1 .. last : g[i] = f[i]
    OBVIOUS
  <2>4. \A i \in k + 1 .. last : f[i] = of[i]
    BY <1>1, <2>2 DEF IsMade
  <2> HIDE DEF g
  <2>5. \A i \in k .. last : i <= last - 1 => g[i + 1] = f[i + 1]
    <3>1. \A i \in k .. last : i <= last - 1 => i + 1 \in k + 1 .. last
      BY <1>1
    <3> QED
      BY <2>3, <3>1
  <2>6. \A i \in k .. last : g[i] = of[i]
    <3> HIDE DEF of
    <3>1. \A i \in k .. last : i = k \/ i \in k + 1 .. last
      OBVIOUS
    <3> QED
      BY <2>3, <2>4, <3>1
  <2>7. ASSUME NEW i \in k .. last
        PROVE  g[i] = IF i > last - 1 THEN q ELSE Sink(g[i + 1], i, i)
    <3>1. g[i] = IF i > last - 1 THEN q ELSE Sink(f[i + 1], i, i)
      BY <2>6
    <3>2. i <= last - 1 \/ i > last - 1
      BY <1>1
    <3> HIDE DEF of
    <3> QED
      BY <2>5, <3>1, <3>2
  <2>8. IsMade(g, q, k)
    <3> HIDE DEF of
    <3> QED
      BY <1>1, <2>3, <2>7 DEF IsMade
  <2> QED
    BY <2>8
<1>3. 1 .. last \subseteq good
  <2> HIDE DEF good
  <2> QED
    BY <1>1, <1>2, Downwards
<1> QED
  BY <1>1, <1>3

\* That function, for all positions.
Made(q) == CHOOSE f : IsMade(f, q, 1)

\* Making a heap leaves all containers where there are any.
LEMMA MakeHeapKeeps ==
  ASSUME NEW n \in Nat, NEW q \in Heaps(n)
  PROVE  MakeHeap(q) \in Heaps(n) /\ SameDevices(MakeHeap(q), q)
<1> DEFINE last == n \div 2 + 1
           f == Made(q)
           good == {j \in 1 .. last : f[j] \in Heaps(n) /\ SameDevices(f[j], q)}
<1>1. IsMade(f, q, 1)
  BY MadeExists DEF Made
<1>2. MakeHeap(q) = f[1]
  BY Zenon DEF MakeHeap, Made, IsMade
<1>3. Len(q) = n
  BY DEF Heaps
<1> HIDE DEF f
<1>4. ASSUME NEW j \in 1 .. last, \A h \in j + 1 .. last : h \in good
      PROVE  f[j] \in Heaps(n) /\ SameDevices(f[j], q)
  <2>1. f[j] = IF j > n \div 2 THEN q ELSE Sink(f[j + 1], j, j)
    BY <1>1, <1>3 DEF IsMade
  <2>2. CASE j > n \div 2
    BY <2>1, <2>2 DEF SameDevices
  <2>3. CASE ~(j > n \div 2)
    <3>1. j + 1 \in good /\ j \in 1 .. n
      BY <1>4, <2>3
    <3>2. f[j + 1] \in Heaps(n) /\ SameDevices(f[j + 1], q)
      BY <3>1
    <3> QED
      BY <2>1, <2>3, <3>1, <3>2, SinkKeeps DEF SameDevices
  <2> QED
    BY <2>2, <2>3
<1>5. 1 .. last \subseteq good
  <2>1. ASSUME NEW j \in 1 .. last, \A h \in j + 1 .. last : h \in good PROVE j \in good
    BY <1>4, <2>1
  <2>2. last \in Nat
    OBVIOUS
  <2> HIDE DEF good, last
  <2> QED
    BY <2>1, <2>2, Downwards
<1>6. 1 \in good
  BY <1>5
<1> QED
  BY <1>2, <1>6

-----------------------------------------------------------------------------
(* Containers that come and go *)

\* p has as many containers of each device as r, and one more of dev.
OneMore(p, r, dev) ==
  \A d \in Devices : Cardinality(PlacesOf(p, d)) =
                       IF d = dev THEN Cardinality(PlacesOf(r, d)) + 1 ELSE Cardinality(PlacesOf(r, d))

\* A layout without one of its elements.
LEMMA WithoutOne ==
  ASSUME NEW n \in Nat, NEW p \in Heaps(n + 1), NEW i \in 1 .. n + 1, NEW r \in Heaps(n),
         \A k \in 1 .. n : r[k] = IF k < i THEN p[k] ELSE p[k + 1]
  PROVE  OneMore(p, r, p[i].dev)
<1> DEFINE up == [k \in 1 .. n |-> IF k < i THEN k ELSE k + 1]
           down == [k \in 1 .. n + 1 |-> IF k < i THEN k ELSE k - 1]
<1>1. \A k \in 1 .. n : up[k] \in 1 .. n + 1 /\ up[k] # i /\ down[up[k]] = k /\ r[k] = p[up[k]]
  OBVIOUS
<1>2. \A k \in 1 .. n + 1 : k # i => down[k] \in 1 .. n /\ up[down[k]] = k
  OBVIOUS
<1> HIDE DEF up, down
<1>3. ASSUME NEW d \in Devices
      PROVE  Cardinality(PlacesOf(p, d) \ {i}) = Cardinality(PlacesOf(r, d))
  <2> DEFINE S == PlacesOf(r, d)
             T == PlacesOf(p, d) \ {i}
             f == [k \in S |-> up[k]]
  <2>1. S = {k \in 1 .. n : r[k].dev = d} /\ T = {k \in 1 .. n + 1 : k # i /\ p[k].dev = d}
    BY DEF PlacesOf, Heaps
  <2>2. f \in [S -> T]
    BY <1>1, <2>1
  <2>3. \A a, b \in S : f[a] = f[b] => a = b
    BY <1>1, <2>1
  <2>4. \A t \in T : down[t] \in S /\ f[down[t]] = t
    BY <1>1, <1>2, <2>1
  <2>5. IsFiniteSet(S)
    BY PlacesFinite
  <2> HIDE DEF S, T, f
  <2>6. f \in Bijection(S, T)
    BY <2>2, <2>3, <2>4 DEF Bijection, Injection, Surjection, IsInjective
  <2>7. ExistsBijection(S, T)
    BY <2>6 DEF ExistsBijection
  <2>8. Cardinality(T) = Cardinality(S)
    BY <2>5, <2>7, FS_Bijection
  <2> QED
    BY <2>8 DEF S, T
<1>4. ASSUME NEW d \in Devices
      PROVE  Cardinality(PlacesOf(p, d)) =
               IF d = p[i].dev THEN Cardinality(PlacesOf(r, d)) + 1 ELSE Cardinality(PlacesOf(r, d))
  <2>1. IsFiniteSet(PlacesOf(p, d)) /\ Cardinality(PlacesOf(p, d)) \in Nat
    BY PlacesFinite
  <2>2. i \in PlacesOf(p, d) <=> d = p[i].dev
    BY DEF PlacesOf, Heaps
  <2>3. CASE d = p[i].dev
    <3>1. Cardinality(PlacesOf(p, d) \ {i}) = Cardinality(PlacesOf(p, d)) - 1
      BY <2>1, <2>2, <2>3, FS_RemoveElement
    <3> QED
      BY <1>3, <2>1, <2>3, <3>1
  <2>4. CASE d # p[i].dev
    <3>1. PlacesOf(p, d) \ {i} = PlacesOf(p, d)
      BY <2>2, <2>4
    <3> QED
      BY <1>3, <2>4, <3>1
  <2> QED
    BY <2>3, <2>4
<1> QED
  BY <1>4 DEF OneMore

\* Adding a container adds it, and leaves what is on top if it is not below it.
LEMMA PushAdds ==
  ASSUME NEW n \in Nat, NEW q \in Heaps(n), NEW c \in Containers
  PROVE  /\ Push(q, c) \in Heaps(n + 1)
         /\ OneMore(Push(q, c), q, c.dev)
         /\ n > 0 /\ ~Below(q[1], c) => Push(q, c)[1] = q[1]
         /\ Elements(Push(q, c)) \subseteq Elements(q) \cup {c}
<1> DEFINE p == Append(q, c)
<1>1. q \in Seq(Containers) /\ Len(q) = n
  BY DEF Heaps
<1>2. p \in Heaps(n + 1) /\ p[n + 1] = c /\ \A k \in 1 .. n : p[k] = q[k]
  <2>1. /\ p \in Seq(Containers) /\ Len(p) = n + 1 /\ p[n + 1] = c
        /\ \A k \in 1 .. n : p[k] = q[k]
    BY <1>1, AppendProperties
  <2> HIDE DEF p
  <2> QED
    BY <2>1, HeapIsSeq
<1>3. Push(q, c) = Rise(p, n + 1, 1)
  BY <1>1 DEF Push
<1> HIDE DEF p
<1>4. OneMore(p, q, c.dev)
  <2>1. n + 1 \in 1 .. n + 1 /\ \A k \in 1 .. n : q[k] = IF k < n + 1 THEN p[k] ELSE p[k + 1]
    BY <1>2
  <2> QED
    BY <1>2, <2>1, WithoutOne
<1>5. /\ Rise(p, n + 1, 1) \in Heaps(n + 1)
      /\ SameDevices(Rise(p, n + 1, 1), p)
      /\ ~Below(p[1], p[n + 1]) => Rise(p, n + 1, 1)[1] = p[1]
  BY <1>2, RiseKeeps
<1>6. OneMore(Push(q, c), q, c.dev)
  BY <1>3, <1>4, <1>5 DEF OneMore, SameDevices
<1>7. Elements(p) \subseteq Elements(q) \cup {c}
  <2>1. DOMAIN p = 1 .. n + 1 /\ DOMAIN q = 1 .. n
    BY <1>2 DEF Heaps
  <2>2. \A k \in 1 .. n + 1 : k \in 1 .. n \/ k = n + 1
    OBVIOUS
  <2> QED
    BY <1>2, <2>1, <2>2 DEF Elements
<1>8. Elements(Push(q, c)) \subseteq Elements(q) \cup {c}
  BY <1>3, <1>5, <1>7 DEF SameDevices
<1> QED
  BY <1>2, <1>3, <1>5, <1>6, <1>8

\* Taking the top container takes it and no other.
LEMMA PopTakes ==
  ASSUME NEW n \in Nat, NEW q \in Heaps(n + 1)
  PROVE  /\ Pop(q) \in Heaps(n) /\ OneMore(q, Pop(q), q[1].dev)
         /\ Elements(Pop(q)) \subseteq Elements(q)
<1>1. q \in Seq(Containers) /\ Len(q) = n + 1
  BY DEF Heaps
<1>2. CASE n = 0
  <2>1. Pop(q) = <<>> /\ <<>> \in Heaps(n)
    BY <1>1, <1>2 DEF Pop, Heaps
  <2>2. 1 \in 1 .. n + 1 /\ \A k \in 1 .. n : Pop(q)[k] = IF k < 1 THEN q[k] ELSE q[k + 1]
    BY <1>2
  <2>3. Elements(Pop(q)) \subseteq Elements(q)
    BY <2>1 DEF Elements
  <2> QED
    BY <2>1, <2>2, <2>3, WithoutOne
<1>3. CASE n > 0
  <2> DEFINE s == Swap(q, 1, n + 1)
             r == Front([q EXCEPT ![1] = Last(q)])
  <2>1. /\ s \in Heaps(n + 1) /\ SameDevices(s, q) /\ s[n + 1] = q[1] /\ s[1] = q[n + 1]
        /\ \A k \in 1 .. n + 1 : k # 1 /\ k # n + 1 => s[k] = q[k]
    BY SwapKeeps
  <2>2. r \in Heaps(n) /\ \A k \in 1 .. n : r[k] = IF k = 1 THEN q[n + 1] ELSE q[k]
    <3> DEFINE e == [q EXCEPT ![1] = Last(q)]
    <3>1. Last(q) = q[n + 1] /\ q[n + 1] \in Containers
      BY <1>1 DEF Last, Heaps
    <3>2. e \in Seq(Containers) /\ Len(e) = n + 1
          /\ \A k \in 1 .. n + 1 : e[k] = IF k = 1 THEN q[n + 1] ELSE q[k]
      BY <1>1, <3>1, ExceptSeq
    <3> HIDE DEF e
    <3>3. Front(e) = SubSeq(e, 1, n)
      BY <3>2 DEF Front
    <3>4. /\ SubSeq(e, 1, n) \in Seq(Containers) /\ Len(SubSeq(e, 1, n)) = n
          /\ \A k \in 1 .. n : SubSeq(e, 1, n)[k] = e[k]
      BY <1>3, <3>2, SubSeqProperties
    <3>5. Front(e) \in Heaps(n) /\ \A k \in 1 .. n : Front(e)[k] = IF k = 1 THEN q[n + 1] ELSE q[k]
      <4>1. Front(e) \in Heaps(n)
        BY <3>3, <3>4, HeapIsSeq
      <4> QED
        BY <3>2, <3>3, <3>4, <4>1
    <3> QED
      BY <3>5 DEF e
  <2>3. Pop(q) = Sink(r, 1, 1)
    BY <1>1, <1>3 DEF Pop
  <2> HIDE DEF r, s
  <2>4. Sink(r, 1, 1) \in Heaps(n) /\ SameDevices(Sink(r, 1, 1), r)
    BY <1>3, <2>2, SinkKeeps
  <2>5. OneMore(s, r, s[n + 1].dev)
    <3>1. n + 1 \in 1 .. n + 1 /\ \A k \in 1 .. n : r[k] = IF k < n + 1 THEN s[k] ELSE s[k + 1]
      BY <2>1, <2>2
    <3> QED
      BY <2>1, <2>2, <3>1, WithoutOne
  <2>6. OneMore(q, Pop(q), q[1].dev)
    BY <2>1, <2>3, <2>4, <2>5 DEF OneMore, SameDevices
  <2>7. Elements(r) \subseteq Elements(q)
    <3>1. \A k \in 1 .. n : k \in 1 .. n + 1 /\ n + 1 \in 1 .. n + 1
      OBVIOUS
    <3>2. DOMAIN r = 1 .. n /\ DOMAIN q = 1 .. n + 1
      BY <2>2 DEF Heaps
    <3> QED
      BY <2>2, <3>1, <3>2 DEF Elements
  <2>8. Elements(Pop(q)) \subseteq Elements(q)
    BY <2>3, <2>4, <2>7 DEF SameDevices
  <2> QED
    BY <2>3, <2>4, <2>6, <2>8
<1> QED
  BY <1>2, <1>3

\* Removing a container that is not on top takes it and no other.
LEMMA RemoveAtTakes ==
  ASSUME NEW n \in Nat, NEW q \in Heaps(n + 1), NEW i \in 1 .. n + 1
  PROVE  /\ RemoveAt(q, i) \in Heaps(n) /\ OneMore(q, RemoveAt(q, i), q[i].dev)
         /\ Elements(RemoveAt(q, i)) \subseteq Elements(q)
<1> DEFINE a == SubSeq(q, 1, i - 1)
           b == SubSeq(q, i + 1, n + 1)
<1>1. q \in Seq(Containers) /\ Len(q) = n + 1 /\ \A k \in 1 .. n + 1 : q[k] \in Containers
  BY DEF Heaps
<1>2. a \in Seq(Containers) /\ Len(a) = i - 1 /\ \A k \in 1 .. i - 1 : a[k] = q[k]
  BY <1>1, SubSeqProperties
<1>3. b \in Seq(Containers) /\ Len(b) = n + 1 - i /\ \A k \in 1 .. n + 1 - i : b[k] = q[i + k]
  BY <1>1, SubSeqProperties
<1>4. RemoveAt(q, i) = a \o b
  BY <1>1 DEF RemoveAt
<1> HIDE DEF a, b
<1>5. /\ a \o b \in Seq(Containers) /\ Len(a \o b) = n
      /\ \A k \in 1 .. n : (a \o b)[k] = IF k <= i - 1 THEN a[k] ELSE b[k - (i - 1)]
  BY <1>2, <1>3, ConcatProperties
<1>6. \A k \in 1 .. n : (a \o b)[k] = IF k < i THEN q[k] ELSE q[k + 1]
  BY <1>2, <1>3, <1>5
<1>7. a \o b \in Heaps(n)
  BY <1>5, HeapIsSeq
<1>8. Elements(a \o b) \subseteq Elements(q)
  <2>1. DOMAIN (a \o b) = 1 .. n /\ DOMAIN q = 1 .. n + 1
    BY <1>7 DEF Heaps
  <2>2. \A k \in 1 .. n : k \in 1 .. n + 1 /\ k + 1 \in 1 .. n + 1
    OBVIOUS
  <2> QED
    BY <1>6, <2>1, <2>2 DEF Elements
<1> QED
  BY <1>4, <1>6, <1>7, <1>8, WithoutOne

\* Removing a device that is queued takes one of its containers.
LEMMA RemovedTakes ==
  ASSUME NEW n \in Nat, queue \in Heaps(n + 1), NEW d \in Devices, IsQueued(d)
  PROVE  /\ Removed(d) \in Heaps(n) /\ OneMore(queue, Removed(d), d)
         /\ Elements(Removed(d)) \subseteq Elements(queue)
<1>1. Len(queue) = n + 1
  BY DEF Heaps
<1> DEFINE first == FirstOf(d)
           here == {i \in 1 .. n + 1 : queue[i].dev = d}
           T == {i \in 1 .. n + 1 : i \notin here}
<1>2. here # {}
  BY <1>1 DEF IsQueued
<1>3. \E i \in here : \A j \in 1 .. i - 1 : j \notin here
  <2> SUFFICES ASSUME \A i \in here : \E j \in 1 .. i - 1 : j \in here PROVE FALSE
    OBVIOUS
  <2>1. ASSUME NEW k \in 1 .. n + 1, \A j \in 1 .. k - 1 : j \in T
        PROVE  k \in T
    BY <2>1
  <2>2. 1 .. n + 1 \subseteq T
    <3>1. n + 1 \in Nat
      OBVIOUS
    <3> HIDE DEF T
    <3> QED
      BY <2>1, <3>1, Upwards
  <2> QED
    BY <1>2, <2>2
<1>4. first \in 1 .. n + 1 /\ queue[first].dev = d
  <2>1. \E i \in 1 .. Len(queue) :
          queue[i].dev = d /\ \A j \in 1 .. i - 1 : queue[j].dev # d
    BY <1>1, <1>3
  <2> QED
    BY <1>1, <2>1 DEF FirstOf
<1> HIDE DEF first, here, T
<1>5. CASE first = 1
  BY <1>4, <1>5, PopTakes DEF Removed, first
<1>6. CASE first # 1
  <2> DEFINE r == RemoveAt(queue, first)
  <2>1. r \in Heaps(n) /\ OneMore(queue, r, d) /\ Elements(r) \subseteq Elements(queue)
    BY <1>4, RemoveAtTakes
  <2>2. Removed(d) = MakeHeap(r)
    BY <1>6 DEF Removed, first
  <2> HIDE DEF r
  <2>3. MakeHeap(r) \in Heaps(n) /\ SameDevices(MakeHeap(r), r)
    BY <2>1, MakeHeapKeeps
  <2> QED
    BY <2>1, <2>2, <2>3 DEF OneMore, SameDevices
<1> QED
  BY <1>5, <1>6

-----------------------------------------------------------------------------
(* The scheduler *)

\* The next cycle lies ahead by no more than a turn of the timer; it is the present one
\* for a device that is too fast.
LEMMA NextCycle ==
  ASSUME TypeOK, NEW d \in Devices
  PROVE  CalculateNextCycle(d) \in timer .. timer + TimerFreq
<1>1. freq[d] \in Nat \ {0} /\ TimerFreq \in Nat /\ timer \in Nat
  <2>1. TimerFreq \in Nat \ {0} /\ Freqs \subseteq Nat \ {0}
    BY SchedulerAssumption
  <2>2. freq[d] \in Freqs /\ timer \in 0 .. TimerFreq - 1
    BY DEF TypeOK
  <2>3. TimerFreq \in Nat /\ timer \in Nat
    BY <2>1, <2>2
  <2> QED
    BY <2>1, <2>2, <2>3
<1>2. \A t \in Nat : \A f \in Nat \ {0} : t \div f \in 0 .. t
  OBVIOUS
<1> QED
  BY <1>1, <1>2 DEF CalculateNextCycle

\* What the actions keep: while a cycle runs or a failed device waits there is a top.
IInv ==
  /\ TypeOK
  /\ DevicesKept
  /\ ResumesAtFailed
  /\ inCycle \/ failed # None => queue # <<>>

\* Whoever is due lies above any container that is added.
LEMMA DueStaysOnTop ==
  ASSUME TypeOK, NEW c \in Containers, c.next = timer, NEW d \in Devices
  PROVE  ~Below(c, [dev |-> d, next |-> CalculateNextCycle(d)])
<1> DEFINE k == CalculateNextCycle(d)
<1>1. k \in timer .. timer + TimerFreq
  BY NextCycle
<1>2. TimerFreq \in Nat \ {0} /\ timer \in 0 .. TimerFreq - 1
  BY SchedulerAssumption DEF TypeOK
<1> HIDE DEF k
<1>3. ReadCycle(c) = timer + TimerFreq
  BY <1>2 DEF ReadCycle
<1>4. ReadCycle([dev |-> d, next |-> k]) = IF k <= timer THEN k + TimerFreq ELSE k
  BY DEF ReadCycle
<1>5. ~(timer + TimerFreq < IF k <= timer THEN k + TimerFreq ELSE k)
  BY <1>1, <1>2
<1> QED
  BY <1>3, <1>4, <1>5 DEF Below, k

\* What a device is added with is a container.
LEMMA NewContainer ==
  ASSUME TypeOK, NEW d \in Devices
  PROVE  [dev |-> d, next |-> CalculateNextCycle(d)] \in Containers
<1>1. TimerFreq \in Nat \ {0} /\ timer \in 0 .. TimerFreq - 1
  BY SchedulerAssumption DEF TypeOK
<1>2. CalculateNextCycle(d) \in 0 .. 2 * TimerFreq
  BY <1>1, NextCycle
<1> QED
  BY <1>2 DEF Containers

\* The queue is a layout of its own length, and the counts are those of its places.
LEMMA QueueIsHeap ==
  ASSUME IInv
  PROVE  /\ Len(queue) \in Nat
         /\ queue \in Heaps(Len(queue))
         /\ \A d \in Devices : Cardinality(PlacesOf(queue, d)) = copies[d]
         /\ queue # <<>> => Len(queue) - 1 \in Nat
<1>1. queue \in Seq(Containers)
  BY DEF IInv, TypeOK
<1>2. \A d \in Devices : Cardinality(PlacesOf(queue, d)) = copies[d]
  BY DEF IInv, DevicesKept, Count, PlacesOf
<1>3. Len(queue) \in Nat /\ (queue # <<>> => Len(queue) \in Nat \ {0})
  BY <1>1, LenProperties, EmptySeq
<1> QED
  BY <1>1, <1>2, <1>3, HeapIsSeq

\* The empty list has the invariant.
LEMMA Initially == Init => IInv
<1> SUFFICES ASSUME Init PROVE IInv
  OBVIOUS
<1>1. TypeOK
  <2>1. timer \in 0 .. TimerFreq - 1
    BY SchedulerAssumption DEF Init
  <2>2. queue \in Seq(Containers)
    BY EmptySeq DEF Init
  <2>3. freq \in [Devices -> Freqs] /\ copies \in [Devices -> Nat]
    BY DEF Init
  <2>4. inCycle \in BOOLEAN /\ failed \in Devices \cup {None}
    BY DEF Init
  <2> QED
    BY <2>1, <2>2, <2>3, <2>4 DEF TypeOK
<1>2. DevicesKept
  <2>1. \A d \in Devices : {i \in DOMAIN queue : queue[i].dev = d} = {} /\ copies[d] = 0
    BY DEF Init
  <2> QED
    BY <2>1, FS_EmptySet DEF DevicesKept, Count
<1>3. ResumesAtFailed /\ (inCycle \/ failed # None => queue # <<>>)
  BY DEF Init, ResumesAtFailed
<1> QED
  BY <1>1, <1>2, <1>3 DEF IInv

\* A device that is added is pushed once, and below the failed one.
LEMMA AddDeviceKeeps == ASSUME IInv, NEW d \in Devices, AddDevice(d) PROVE IInv'
<1> DEFINE n == Len(queue)
           c == [dev |-> d, next |-> CalculateNextCycle(d)]
<1>1. TypeOK /\ n \in Nat /\ queue \in Heaps(n) /\ c \in Containers /\ c.dev = d
  BY QueueIsHeap, NewContainer DEF IInv
<1>2. /\ queue' = Push(queue, c) /\ copies' = [copies EXCEPT ![d] = @ + 1]
      /\ UNCHANGED <<freq, timer, inCycle, failed>>
  BY DEF AddDevice
<1>3. ~inCycle
  BY DEF AddDevice
<1> HIDE DEF c, n
<1>4. /\ queue' \in Heaps(n + 1) /\ OneMore(queue', queue, d)
      /\ n > 0 /\ ~Below(queue[1], c) => queue'[1] = queue[1]
  BY <1>1, <1>2, PushAdds
<1>5. queue' \in Seq(Containers) /\ Len(queue') = n + 1 /\ queue' # <<>>
  BY <1>1, <1>4, HeapIsSeq, EmptySeq
<1>6. TypeOK'
  BY <1>1, <1>2, <1>5 DEF TypeOK
<1>7. DevicesKept'
  <2>1. \A e \in Devices : Cardinality(PlacesOf(queue', e)) = copies'[e]
    BY <1>1, <1>2, <1>4, QueueIsHeap DEF OneMore, TypeOK
  <2> QED
    BY <2>1 DEF DevicesKept, Count, PlacesOf
<1>8. ResumesAtFailed'
  <2> SUFFICES ASSUME failed # None PROVE queue'[1].dev = failed /\ queue'[1].next = timer
    BY <1>2 DEF ResumesAtFailed, Top
  <2>1. queue # <<>> /\ queue[1].dev = failed /\ queue[1].next = timer
    BY DEF IInv, ResumesAtFailed, Top
  <2>2. n > 0
    BY <2>1, QueueIsHeap DEF n
  <2>3. queue[1] \in Containers
    BY <1>1, <2>2 DEF Heaps
  <2>4. ~Below(queue[1], c)
    BY <1>1, <2>1, <2>3, DueStaysOnTop DEF c
  <2> QED
    BY <1>4, <2>1, <2>2, <2>4
<1> QED
  BY <1>5, <1>6, <1>7, <1>8 DEF IInv

\* Rebuilding the heap keeps every other device's container.
LEMMA RemoveDeviceKeeps == ASSUME IInv, NEW d \in Devices, RemoveDevice(d) PROVE IInv'
<1> DEFINE n == Len(queue) - 1
<1>1. IsQueued(d) /\ ~inCycle
  BY DEF RemoveDevice
<1>2. /\ queue' = Removed(d) /\ copies' = [copies EXCEPT ![d] = @ - 1] /\ failed' = None
      /\ UNCHANGED <<freq, timer, inCycle>>
  BY DEF RemoveDevice
<1>3. TypeOK /\ n \in Nat /\ queue \in Heaps(n + 1)
  <2>1. Len(queue) # 0
    BY <1>1, QueueIsHeap DEF IsQueued
  <2>2. n \in Nat /\ n + 1 = Len(queue)
    BY <2>1, QueueIsHeap
  <2> QED
    BY <2>2, QueueIsHeap DEF IInv
<1> HIDE DEF n
<1>4. queue' \in Heaps(n) /\ OneMore(queue, queue', d)
  BY <1>1, <1>2, <1>3, RemovedTakes
<1>5. queue' \in Seq(Containers)
  BY <1>3, <1>4, HeapIsSeq
<1>6. \A e \in Devices :
        /\ Cardinality(PlacesOf(queue', e)) \in Nat
        /\ copies[e] = IF e = d THEN Cardinality(PlacesOf(queue', e)) + 1
                       ELSE Cardinality(PlacesOf(queue', e))
  <2>1. \A e \in Devices : Cardinality(PlacesOf(queue', e)) \in Nat
    BY <1>3, <1>4, PlacesFinite
  <2> QED
    BY <1>4, <2>1, QueueIsHeap DEF OneMore
<1>7. \A e \in Devices : Cardinality(PlacesOf(queue', e)) = copies'[e] /\ copies'[e] \in Nat
  BY <1>2, <1>3, <1>6 DEF TypeOK
<1>8. TypeOK'
  <2>1. copies' \in [Devices -> Nat]
    BY <1>2, <1>3, <1>7 DEF TypeOK
  <2> QED
    BY <1>2, <1>3, <1>5, <2>1 DEF TypeOK
<1>9. DevicesKept'
  BY <1>7 DEF DevicesKept, Count, PlacesOf
<1> QED
  BY <1>1, <1>2, <1>8, <1>9 DEF IInv, ResumesAtFailed

\* The device that has run is taken out and added again.
LEMMA RunKeeps == ASSUME IInv, NEW d \in Devices, Run(d) PROVE IInv'
<1> DEFINE n == Len(queue) - 1
           c == [dev |-> d, next |-> CalculateNextCycle(d)]
           popped == Pop(queue)
<1>1. inCycle /\ Top.dev = d
  BY DEF Run
<1>2. /\ queue' = Push(popped, c) /\ failed' = None
      /\ UNCHANGED <<freq, timer, inCycle, copies>>
  BY DEF Run
<1>3. TypeOK /\ n \in Nat /\ queue \in Heaps(n + 1) /\ c \in Containers /\ c.dev = d
  <2>1. n \in Nat /\ n + 1 = Len(queue)
    BY <1>1, QueueIsHeap DEF IInv
  <2> QED
    BY <2>1, QueueIsHeap, NewContainer DEF IInv
<1> HIDE DEF n, c, popped
<1>4. popped \in Heaps(n) /\ OneMore(queue, popped, d)
  BY <1>1, <1>3, PopTakes DEF Top, popped
<1>5. queue' \in Heaps(n + 1) /\ OneMore(queue', popped, d)
  BY <1>2, <1>3, <1>4, PushAdds
<1>6. queue' \in Seq(Containers) /\ queue' # <<>>
  BY <1>3, <1>5, HeapIsSeq, EmptySeq
<1>7. TypeOK'
  BY <1>2, <1>3, <1>6 DEF TypeOK
<1>8. DevicesKept'
  <2>1. \A e \in Devices : Cardinality(PlacesOf(queue', e)) = copies'[e]
    BY <1>2, <1>4, <1>5, QueueIsHeap DEF OneMore
  <2> QED
    BY <2>1 DEF DevicesKept, Count, PlacesOf
<1> QED
  BY <1>2, <1>6, <1>7, <1>8 DEF IInv, ResumesAtFailed

\* The other steps leave the queue; the timer only moves past a top that is not due.
LEMMA OthersKeep ==
  ASSUME IInv, Begin \/ Tick \/ (\E d \in Devices : Fail(d)) \/ UNCHANGED vars PROVE IInv'
<1>1. UNCHANGED <<freq, queue, copies>>
  BY DEF Begin, Tick, Fail, vars
<1>2. DevicesKept'
  BY <1>1 DEF IInv, DevicesKept, Count
<1>3. TypeOK'
  <2>1. timer' \in 0 .. TimerFreq - 1 /\ inCycle' \in BOOLEAN /\ failed' \in Devices \cup {None}
    <3>1. TimerFreq \in Nat \ {0} /\ timer \in 0 .. TimerFreq - 1 /\ TypeOK
      BY SchedulerAssumption DEF IInv, TypeOK
    <3>2. CASE Begin \/ UNCHANGED vars
      BY <3>1, <3>2 DEF TypeOK, Begin, vars
    <3>3. CASE Tick
      <4>1. timer' \in 0 .. TimerFreq - 1
        BY <3>1, <3>3 DEF Tick
      <4> QED
        BY <3>1, <3>3, <4>1 DEF TypeOK, Tick
    <3>4. CASE \E d \in Devices : Fail(d)
      BY <3>1, <3>4 DEF TypeOK, Fail
    <3> QED
      BY <3>2, <3>3, <3>4
  <2> QED
    BY <1>1, <2>1 DEF IInv, TypeOK
<1>4. ResumesAtFailed' /\ (inCycle' \/ failed' # None => queue' # <<>>)
  <2>1. CASE Begin \/ UNCHANGED vars
    BY <2>1 DEF IInv, ResumesAtFailed, Top, Begin, vars
  <2>2. CASE Tick
    <3>1. failed = None /\ failed' = None /\ ~inCycle'
      BY <2>2 DEF IInv, ResumesAtFailed, Tick
    <3> QED
      BY <3>1 DEF ResumesAtFailed
  <2>3. CASE \E d \in Devices : Fail(d)
    <3>1. /\ Top.dev = failed' /\ Top.next = timer /\ timer' = timer /\ queue' = queue
          /\ queue # <<>>
      BY <2>3 DEF IInv, Fail
    <3> QED
      BY <3>1 DEF ResumesAtFailed, Top
  <2> QED
    BY <2>1, <2>2, <2>3
<1> QED
  BY <1>2, <1>3, <1>4 DEF IInv

\* IInv is an inductive invariant.
THEOREM Invariance == Spec => []IInv
<1>1. IInv /\ [Next]_vars => IInv'
  BY AddDeviceKeeps, RemoveDeviceKeeps, RunKeeps, OthersKeep DEF Next
<1> QED
  BY <1>1, Initially, PTL DEF Spec

\* Type correctness; in particular no device is removed more often than it was added.
THEOREM TypeCorrect == Spec => []TypeOK
BY Invariance, PTL DEF IInv

\* No heap operation drops or doubles a container.
THEOREM NoneLost == Spec => []DevicesKept
BY Invariance, PTL DEF IInv

\* The device whose failure ended a cycle is the one that the next one starts with.
THEOREM FailedIsNext == Spec => []ResumesAtFailed
BY Invariance, PTL DEF IInv

\* A device that is too fast and has run is due again.
LEMMA EndlessGoesOn == ASSUME IInv, Endless, NEW d \in Devices, Run(d) PROVE Endless'
<1> DEFINE n == Len(queue) - 1
           c == [dev |-> d, next |-> CalculateNextCycle(d)]
           popped == Pop(queue)
<1>1. inCycle /\ queue' = Push(popped, c) /\ UNCHANGED <<freq, timer, inCycle>>
  BY DEF Run
<1>2. TypeOK /\ n \in Nat /\ queue \in Heaps(n + 1) /\ c \in Containers
  <2>1. n \in Nat /\ n + 1 = Len(queue)
    BY <1>1, QueueIsHeap DEF IInv
  <2> QED
    BY <2>1, QueueIsHeap, NewContainer DEF IInv
<1>3. \A e \in Elements(queue) : TooFast(e)
  BY DEF Endless, Elements
<1>4. freq[d] > TimerFreq
  <2>1. queue[1] \in Elements(queue) /\ queue[1].dev = d
    BY <1>2 DEF Elements, Heaps, Run, Top
  <2> QED
    BY <1>3, <2>1 DEF TooFast
<1>5. c.dev = d /\ c.next = timer
  <2>1. TimerFreq \in Nat /\ freq[d] \in Nat \ {0} /\ timer \in Nat
    <3>1. TimerFreq \in Nat \ {0} /\ Freqs \subseteq Nat \ {0}
      BY SchedulerAssumption
    <3>2. freq[d] \in Freqs /\ timer \in 0 .. TimerFreq - 1
      BY <1>2 DEF TypeOK
    <3>3. TimerFreq \in Nat /\ timer \in Nat
      BY <3>1, <3>2
    <3> QED
      BY <3>1, <3>2, <3>3
  <2>2. \A t \in Nat : \A f \in Nat \ {0} : f > t => t \div f = 0
    OBVIOUS
  <2> QED
    BY <1>4, <2>1, <2>2 DEF CalculateNextCycle
<1> HIDE DEF n, c, popped
<1>6. Elements(queue') \subseteq Elements(queue) \cup {c}
  <2>1. popped \in Heaps(n) /\ Elements(popped) \subseteq Elements(queue)
    BY <1>2, PopTakes DEF popped
  <2>2. Elements(queue') \subseteq Elements(popped) \cup {c}
    BY <1>1, <1>2, <2>1, PushAdds
  <2> QED
    BY <2>1, <2>2
<1>7. \A e \in Elements(queue') : freq'[e.dev] > TimerFreq /\ e.next = timer'
  BY <1>1, <1>3, <1>4, <1>5, <1>6 DEF TooFast
<1> QED
  BY <1>1, <1>7 DEF Endless, TooFast, Elements

\* A cycle with only such devices in the queue goes on, unless one of them fails.
THEOREM EndlessForever == Spec => TooFastIsForever
<1> DEFINE GoesOn == Endless => Endless' \/ \E d \in Failing : Fail(d)
<1>1. IInv /\ [Next]_vars => [GoesOn]_vars
  <2> SUFFICES ASSUME IInv, Next, Endless
               PROVE  Endless' \/ \E d \in Failing : Fail(d)
    BY DEF GoesOn
  <2>1. inCycle /\ Top.next = timer
    <3>1. inCycle /\ Len(queue) \in Nat /\ queue # <<>> /\ queue \in Seq(Containers)
      BY QueueIsHeap DEF IInv, Endless, TypeOK
    <3>2. 1 \in DOMAIN queue
      BY <3>1, LenProperties, EmptySeq
    <3> QED
      BY <3>1, <3>2 DEF Endless, TooFast, Top
  <2>2. ASSUME NEW d \in Devices, Fail(d) PROVE d \in Failing
    BY <2>2 DEF Fail
  <2> QED
    BY <2>1, <2>2, EndlessGoesOn DEF Next, AddDevice, RemoveDevice, Begin, Tick
<1> QED
  BY <1>1, Invariance, PTL DEF Spec, TooFastIsForever
\* A device that waits behind the turn of the timer still does, if it is still queued as
\* often and no container of it is new.
LEMMA StillStranded ==
  ASSUME IInv, IInv', NEW d \in Devices, Stranded(d), copies'[d] = copies[d],
         NEW c, c.dev # d, Elements(queue') \subseteq Elements(queue) \cup {c}
  PROVE  Stranded(d)'
<1>1. queue \in Heaps(Len(queue)) /\ queue \in Seq(Containers) /\ queue' \in Seq(Containers)
  BY QueueIsHeap DEF IInv, TypeOK
<1>2. DOMAIN queue = 1 .. Len(queue) /\ DOMAIN queue' = 1 .. Len(queue')
  BY <1>1, LenProperties
<1>3. \A e \in Elements(queue') : e.dev = d => e.next >= TimerFreq
  BY DEF Stranded, Elements
<1>4. IsQueued(d)'
  <2>1. Cardinality(PlacesOf(queue, d)) = Cardinality(PlacesOf(queue', d))
    BY DEF IInv, DevicesKept, Count, PlacesOf
  <2>2. PlacesOf(queue, d) # {}
    BY <1>2 DEF Stranded, IsQueued, PlacesOf
  <2>3. IsFiniteSet(PlacesOf(queue, d))
    BY <1>1, QueueIsHeap, PlacesFinite
  <2>4. Cardinality(PlacesOf(queue, d)) # 0
    BY <2>2, <2>3, FS_EmptySet
  <2>5. PlacesOf(queue', d) # {}
    BY <2>1, <2>4, FS_EmptySet
  <2> QED
    BY <1>2, <2>5 DEF IsQueued, PlacesOf
<1> QED
  BY <1>3, <1>4 DEF Stranded, Elements

\* A device that waits behind the turn of the timer is not run again.
THEOREM StrandedForever == Spec => StrandedIsForever
<1> DEFINE Stays == \A d \in Devices : Stranded(d) => Stranded(d)' \/ AddDevice(d) \/ RemoveDevice(d)
<1>1. IInv /\ [Next]_vars /\ IInv' => [Stays]_vars
  <2> SUFFICES ASSUME IInv, IInv', Next, NEW d \in Devices, Stranded(d), ~AddDevice(d), ~RemoveDevice(d)
               PROVE  Stranded(d)'
    BY DEF Stays
  <2>1. ASSUME NEW e \in Devices, AddDevice(e) PROVE Stranded(d)'
    <3> DEFINE c == [dev |-> e, next |-> CalculateNextCycle(e)]
    <3>1. e # d
      BY <2>1
    <3>2. queue' = Push(queue, c) /\ c.dev = e /\ copies' = [copies EXCEPT ![e] = @ + 1]
      BY <2>1 DEF AddDevice
    <3>3. c \in Containers
      BY NewContainer DEF IInv
    <3> HIDE DEF c
    <3>4. Elements(queue') \subseteq Elements(queue) \cup {c}
      BY <3>2, <3>3, QueueIsHeap, PushAdds
    <3>5. copies'[d] = copies[d]
      BY <3>1, <3>2 DEF IInv, TypeOK
    <3> QED
      BY <3>1, <3>2, <3>4, <3>5, StillStranded
  <2>2. ASSUME NEW e \in Devices, RemoveDevice(e) PROVE Stranded(d)'
    <3>1. e # d
      BY <2>2
    <3>2. queue' = Removed(e) /\ IsQueued(e) /\ copies' = [copies EXCEPT ![e] = @ - 1]
      BY <2>2 DEF RemoveDevice
    <3>3. Len(queue) # 0
      BY <3>2, QueueIsHeap DEF IsQueued
    <3> DEFINE n == Len(queue) - 1
    <3>4. n \in Nat /\ queue \in Heaps(n + 1)
      BY <3>3, QueueIsHeap
    <3> HIDE DEF n
    <3>5. Elements(queue') \subseteq Elements(queue)
      BY <3>2, <3>4, RemovedTakes
    <3>6. copies'[d] = copies[d]
      BY <3>1, <3>2 DEF IInv, TypeOK
    <3> DEFINE c == [dev |-> e]
    <3>7. c.dev # d
      BY <3>1
    <3> QED
      BY <3>5, <3>6, <3>7, StillStranded
  <2>3. ASSUME NEW e \in Devices, Run(e) PROVE Stranded(d)'
    <3> DEFINE c == [dev |-> e, next |-> CalculateNextCycle(e)]
               n == Len(queue) - 1
               popped == Pop(queue)
    <3>1. inCycle /\ queue' = Push(popped, c) /\ c.dev = e /\ copies' = copies
      BY <2>3 DEF Run
    <3>2. n \in Nat /\ queue \in Heaps(n + 1) /\ c \in Containers
      <4>1. n \in Nat /\ n + 1 = Len(queue)
        BY <3>1, QueueIsHeap DEF IInv
      <4> QED
        BY <4>1, QueueIsHeap, NewContainer DEF IInv
    <3>3. e # d
      <4>1. queue[1].dev = e /\ queue[1].next = timer /\ 1 \in DOMAIN queue
        BY <2>3, <3>2 DEF Run, Top, Heaps
      <4>2. timer \in 0 .. TimerFreq - 1 /\ TimerFreq \in Nat \ {0}
        BY SchedulerAssumption DEF IInv, TypeOK
      <4>3. ~(timer >= TimerFreq)
        BY <4>2
      <4> QED
        BY <4>1, <4>3 DEF Stranded
    <3> HIDE DEF n, c, popped
    <3>4. popped \in Heaps(n) /\ Elements(popped) \subseteq Elements(queue)
      BY <3>2, PopTakes DEF popped
    <3>5. Elements(queue') \subseteq Elements(popped) \cup {c}
      BY <3>1, <3>2, <3>4, PushAdds
    <3>6. Elements(queue') \subseteq Elements(queue) \cup {c}
      BY <3>4, <3>5
    <3> QED
      BY <3>1, <3>3, <3>6, StillStranded
  <2>4. CASE Begin \/ Tick \/ \E e \in Devices : Fail(e)
    <3>1. queue' = queue
      BY <2>4 DEF Begin, Tick, Fail
    <3> QED
      BY <3>1 DEF Stranded, IsQueued
  <2> QED
    BY <2>1, <2>2, <2>3, <2>4 DEF Next
<1> QED
  BY <1>1, Invariance, PTL DEF Spec, StrandedIsForever
=============================================================================

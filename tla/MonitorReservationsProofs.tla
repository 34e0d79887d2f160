---------------------- MODULE MonitorReservationsProofs ----------------------
(***************************************************************************)
(* Proofs about MonitorReservations for any number of harts, any addresses *)
(* and any word size.  The counter and the uniqueness of reserved          *)
(* addresses need each other: revoking trusts the counter and stops at the *)
(* first match, and both are what keeps the next state right.              *)
(***************************************************************************)
EXTENDS MonitorReservations, FiniteSetTheorems, TLAPS

\* TypeOK with the counter only known to be an integer.
Shape ==
  /\ entry \in [Harts -> Offsets \cup {None}]
  /\ reserveCount \in Int

IInv == Shape /\ CountExact /\ OneHolder

-----------------------------------------------------------------------------
\* GetAlignedAddress gives the offset of an address within its word.
LEMMA OffsetType == \A a \in Addresses : GetAlignedAddress(a) \in Offsets
BY AddressesAssumption, WordSizeAssumption DEF GetAlignedAddress, Offsets

\* The mark of an inactive entry is no offset.
LEMMA NoneNoOffset == None \notin Offsets
BY NoneAssumption, WordSizeAssumption DEF Offsets

\* There are finitely many harts, so finitely many active entries.
LEMMA FiniteActive == IsFiniteSet(Harts) /\ IsFiniteSet(Active)
<1>1. IsFiniteSet(Harts)
  BY HartCountAssumption, FS_Interval DEF Harts
<1> QED
  BY <1>1, FS_Subset DEF Active

\* Revoking finds the one entry at the address if there is one: the counter
\* does not hide it, and there is no second.
LEMMA RevokedIsAll ==
  ASSUME IInv, NEW a \in Addresses
  PROVE  Revoked(a) = {h \in Harts : entry[h] = GetAlignedAddress(a)}
<1>1. GetAlignedAddress(a) # None
  BY OffsetType, NoneNoOffset
<1>2. CASE reserveCount = 0
  <2>1. Active = {}
    BY <1>2, FiniteActive, FS_EmptySet DEF IInv, CountExact
  <2> QED
    BY <1>1, <1>2, <2>1 DEF Revoked, Active
<1>3. CASE reserveCount # 0
  BY <1>1, <1>3 DEF Revoked, IInv, OneHolder, Harts
<1> QED
  BY <1>2, <1>3

\* There is at most one such entry, and taking it out keeps the count exact.
LEMMA RevokedCounts ==
  ASSUME IInv, NEW a \in Addresses
  PROVE  /\ Revoked(a) \subseteq Active
         /\ CountWithout(Revoked(a)) = Cardinality(Active \ Revoked(a))
<1> DEFINE R == {h \in Harts : entry[h] = GetAlignedAddress(a)}
<1>1. R \subseteq Active
  BY OffsetType, NoneNoOffset DEF Active
<1>2. CASE R = {}
  <2>1. Active \ R = Active
    BY <1>2
  <2> QED
    BY <1>1, <1>2, <2>1, RevokedIsAll DEF CountWithout, IInv, CountExact
<1>3. CASE R # {}
  <2>1. PICK r \in R : TRUE
    BY <1>3
  <2>2. R = {r}
    BY <1>1, <2>1 DEF IInv, OneHolder, Active
  <2>3. Cardinality(Active \ {r}) = Cardinality(Active) - 1
    BY <1>1, <2>1, FiniteActive, FS_RemoveElement
  <2> QED
    BY <1>1, <1>3, <2>2, <2>3, RevokedIsAll DEF CountWithout, IInv, CountExact
<1> QED
  BY <1>2, <1>3

-----------------------------------------------------------------------------
\* TryRevokeReservation takes out every entry with the offset of the address and keeps the count.
LEMMA RevokeStep ==
  ASSUME IInv, NEW a \in Addresses, TryRevokeReservation(a)
  PROVE  IInv' /\ ~IsAddressReserved(a)'
<1> DEFINE R == Revoked(a)
<1>1. \A h \in Harts : entry'[h] = IF entry[h] = GetAlignedAddress(a) THEN None ELSE entry[h]
  BY RevokedIsAll DEF TryRevokeReservation, EntryWithout
<1>2. reserveCount' = Cardinality(Active \ R) /\ R \subseteq Active
  BY RevokedCounts DEF TryRevokeReservation
<1>3. Active' = Active \ R
  BY <1>1, RevokedIsAll DEF Active
<1>4. Shape'
  <2>1. Cardinality(Active \ R) \in Int
    BY FiniteActive, FS_Subset, FS_CardinalityType
  <2>2. entry' \in [Harts -> Offsets \cup {None}]
    BY DEF IInv, Shape, TryRevokeReservation, EntryWithout
  <2> QED
    BY <1>2, <2>1, <2>2 DEF IInv, Shape, TryRevokeReservation
<1>5. OneHolder'
  BY <1>1 DEF IInv, OneHolder
<1>6. ~IsAddressReserved(a)'
  BY <1>1, OffsetType, NoneNoOffset DEF IsAddressReserved, GetAlignedAddress
<1> QED
  BY <1>2, <1>3, <1>4, <1>5, <1>6 DEF IInv, CountExact

\* AquireReservation replaces the entry of the hart and takes out any other
\* with the same offset.
LEMMA AquireStep ==
  ASSUME IInv, NEW h \in Harts, NEW a \in Addresses, AquireReservation(h, a)
  PROVE  /\ IInv'
         /\ \A g \in Harts \ {h} : entry'[g] # GetAlignedAddress(a)
<1> DEFINE R == Revoked(a)
           off == GetAlignedAddress(a)
           left == EntryWithout(R)
           Rest == Active \ R
<1>1. off \in Offsets /\ off # None
  BY OffsetType, NoneNoOffset
<1>2. left = [g \in Harts |-> IF entry[g] = off THEN None ELSE entry[g]]
  BY RevokedIsAll DEF EntryWithout
<1>3. entry' = [left EXCEPT ![h] = off]
  BY DEF AquireReservation
<1>4. Active' = Rest \cup {h}
  BY <1>1, <1>2, <1>3, RevokedIsAll DEF Active
<1>5. h \in Rest <=> left[h] # None
  BY <1>1, <1>2, RevokedIsAll DEF Active
<1>6. IsFiniteSet(Rest)
  BY FiniteActive, FS_Subset
<1>7. Cardinality(Rest) \in Nat
  BY <1>6, FS_CardinalityType
<1>8. CASE h \in Rest
  <2>1. Active' = Rest
    BY <1>4, <1>8
  <2>2. reserveCount' = Cardinality(Rest)
    BY <1>5, <1>7, <1>8, RevokedCounts DEF AquireReservation
  <2> QED
    BY <1>1, <1>2, <1>3, <1>7, <2>1, <2>2 DEF IInv, Shape, CountExact, OneHolder, AquireReservation
<1>9. CASE h \notin Rest
  <2>1. Cardinality(Rest \cup {h}) = Cardinality(Rest) + 1
    BY <1>6, <1>9, FS_AddElement, Zenon
  <2>2. reserveCount' = Cardinality(Rest) + 1
    BY <1>5, <1>7, <1>9, RevokedCounts DEF AquireReservation
  <2> QED
    BY <1>1, <1>2, <1>3, <1>4, <1>7, <2>1, <2>2
    DEF IInv, Shape, CountExact, OneHolder, AquireReservation
<1> QED
  BY <1>8, <1>9

\* ReleaseReservation clears only the entry of the caller and keeps the count.
LEMMA ReleaseStep ==
  ASSUME IInv, NEW h \in Harts, ReleaseReservation(h)
  PROVE  IInv'
<1>1. h \in Active /\ entry' = [entry EXCEPT ![h] = None]
  BY DEF ReleaseReservation, HartHasReservation, Active
<1>2. Active' = Active \ {h}
  BY <1>1 DEF Active, IInv, Shape
<1>3. Cardinality(Active \ {h}) = Cardinality(Active) - 1
  BY <1>1, FiniteActive, FS_RemoveElement
<1>4. CountExact'
  BY <1>2, <1>3 DEF IInv, CountExact, ReleaseReservation
<1>5. Shape' /\ OneHolder'
  BY <1>1 DEF IInv, Shape, OneHolder, ReleaseReservation
<1> QED
  BY <1>4, <1>5 DEF IInv

\* The empty table satisfies the invariant.
LEMMA InitIInv == Init => IInv
<1> SUFFICES ASSUME Init PROVE IInv
  OBVIOUS
<1>1. Active = {}
  BY DEF Init, Active
<1> QED
  BY <1>1, FS_EmptySet DEF Init, IInv, Shape, CountExact, OneHolder

\* Every call on the table keeps the invariant.
LEMMA StepIInv == IInv /\ [Next]_vars => IInv'
<1> SUFFICES ASSUME IInv, [Next]_vars PROVE IInv'
  OBVIOUS
<1>1. CASE UNCHANGED vars
  BY <1>1 DEF vars, IInv, Shape, CountExact, OneHolder, Active
<1> QED
  BY <1>1, RevokeStep, AquireStep, ReleaseStep DEF Next

\* The inductive invariant holds in every reachable state.
THEOREM Invariance == Spec => []IInv
BY InitIInv, StepIInv, PTL DEF Spec

\* The variables keep their types: the counter never goes below zero.
THEOREM TypeCorrect == Spec => []TypeOK
<1>1. IInv => TypeOK
  BY FiniteActive, FS_CardinalityType DEF IInv, Shape, CountExact, TypeOK
<1> QED
  BY <1>1, Invariance, PTL

\* m_ReserveCount is the number of active entries.
THEOREM CountIsExact == Spec => []CountExact
<1>1. IInv => CountExact
  BY DEF IInv
<1> QED
  BY <1>1, Invariance, PTL

\* At most one hart has a given reserved address.
THEOREM OneHolderOnly == Spec => []OneHolder
<1>1. IInv => OneHolder
  BY DEF IInv
<1> QED
  BY <1>1, Invariance, PTL

\* Revocation is complete.
THEOREM RevocationComplete == Spec => RevokesAll
<1> DEFINE Complete ==
      \A a \in Addresses :
        /\ TryRevokeReservation(a) => ~IsAddressReserved(a)'
        /\ \A h, g \in Harts :
             AquireReservation(h, a) /\ g # h => entry'[g] # GetAlignedAddress(a)
<1>1. IInv /\ [Next]_vars => [Complete]_vars
  BY RevokeStep, AquireStep
<1> QED
  BY <1>1, Invariance, PTL DEF Spec, RevokesAll
=============================================================================

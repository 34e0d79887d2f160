------------------------- MODULE MonitorReservations -------------------------
(***************************************************************************)
(* What the load-reservation half of MemoryMonitor promises: each hart has *)
(* one entry for the address it has reserved, a counter tells whether any  *)
(* entry is in use, and a new reservation or a store revokes the one at    *)
(* its address.                                                            *)
(*                                                                         *)
(* Here a call is one step.  MonitorReservationsRace has the calls' own    *)
(* steps, and implements this when one hart at a time is in a call.        *)
(***************************************************************************)
EXTENDS Reservations

VARIABLES
  entry,         \* m_ReservEntries: the reserved address, None if not active
  reserveCount   \* m_ReserveCount

vars == <<entry, reserveCount>>

TypeOK ==
  /\ entry \in [Harts -> Offsets \cup {None}]
  /\ reserveCount \in Nat

Active == {h \in Harts : entry[h] # None}

Init ==
  /\ entry = [h \in Harts |-> None]
  /\ reserveCount = 0

-----------------------------------------------------------------------------
HartHasReservation(h) == entry[h] # None

IsAddressReserved(a) == \E h \in Harts : entry[h] = GetAlignedAddress(a)

\* The entries that TryRevokeReservation may clear: the first one at the
\* address, and none when the counter is zero.
Revoked(a) ==
  {h \in Harts : /\ reserveCount # 0
                 /\ entry[h] = GetAlignedAddress(a)
                 /\ \A g \in Harts : g < h => entry[g] # GetAlignedAddress(a)}

\* The table and the counter once those are revoked.
EntryWithout(R) == [h \in Harts |-> IF h \in R THEN None ELSE entry[h]]
CountWithout(R) == IF R = {} THEN reserveCount ELSE reserveCount - 1

\* Context::TryRevokeAnyReservation
TryRevokeReservation(a) ==
  /\ entry' = EntryWithout(Revoked(a))
  /\ reserveCount' = CountWithout(Revoked(a))

\* AquireReservation revokes the address first, its own entry included, and
\* counts its entry unless that is still active.
AquireReservation(h, a) ==
  LET left == EntryWithout(Revoked(a)) IN
  /\ entry' = [left EXCEPT ![h] = GetAlignedAddress(a)]
  /\ reserveCount' = CountWithout(Revoked(a)) + (IF left[h] = None THEN 1 ELSE 0)

ReleaseReservation(h) ==
  /\ HartHasReservation(h)
  /\ entry' = [entry EXCEPT ![h] = None]
  /\ reserveCount' = reserveCount - 1

Next == \/ \E a \in Addresses : TryRevokeReservation(a)
        \/ \E h \in Harts : \/ \E a \in Addresses : AquireReservation(h, a)
                            \/ ReleaseReservation(h)

Spec == Init /\ [][Next]_vars

-----------------------------------------------------------------------------
(* Properties *)

\* The counter is the number of active entries, whichever calls made, moved,
\* revoked or released them: so revoking may quit on a zero.
CountExact == reserveCount = Cardinality(Active)

\* No two harts have the same reserved address, although revoking stops at the
\* first match.
OneHolder == \A h, g \in Harts : h # g /\ entry[h] # None => entry[h] # entry[g]

\* After a revocation nobody has the address reserved; after a reservation
\* nobody but the caller has.
RevokesAll ==
  [][\A a \in Addresses :
       /\ TryRevokeReservation(a) => ~IsAddressReserved(a)'
       /\ \A h, g \in Harts :
            AquireReservation(h, a) /\ g # h => entry'[g] # GetAlignedAddress(a)]_vars
=============================================================================

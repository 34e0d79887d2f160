---------------------------- MODULE Reservations ----------------------------
(***************************************************************************)
(* What the load-reservation half of MemoryMonitor                         *)
(* (Sources/cpu/detail/cpu_MemoryMonitor.cpp) is given: the harts, the     *)
(* addresses they use and the width of their words.  MonitorReservations   *)
(* has the calls as single steps, MonitorReservationsRace step by step.    *)
(***************************************************************************)
EXTENDS Integers, FiniteSets

CONSTANTS HartCount,  \* MemoryMonitor::m_HartCount
          Addresses,  \* the addresses harts use
          WordSize,   \* sizeof(NativeWord)
          None        \* an entry that is not active

Harts == 0 .. HartCount - 1

ASSUME HartCountAssumption == HartCount \in Nat \ {0}
ASSUME AddressesAssumption == Addresses \subseteq Nat
ASSUME WordSizeAssumption == WordSize \in Nat \ {0}
ASSUME NoneAssumption == None \notin Nat

\* GetAlignedAddress: the remainder, that is the offset within the word.
GetAlignedAddress(a) == a % WordSize
Offsets == 0 .. WordSize - 1
=============================================================================

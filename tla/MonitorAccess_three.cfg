\* Three harts, two addresses: several waiters for one entry, several readers,
\* readers of another address than the writer's.  IInv is the inductive
\* invariant of the proofs.
CONSTANTS
  HartCount = 3
  Addresses = {a1, a2}
  None = None
SPECIFICATION Spec
INVARIANTS
  TypeOK
  SharedExclExclusion
  CountersExact
  WaitersHoldNoTableMutex
  SleepsOnActiveEntry
  IInv
PROPERTIES
  ImplementsGrant
  SpinIsForever

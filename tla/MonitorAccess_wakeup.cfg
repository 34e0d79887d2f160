\* Three harts on one address, one property: a release must wake its waiters.
CONSTANTS
  HartCount = 3
  Addresses = {a1}
  None = None
SPECIFICATION Spec
INVARIANT
  NoLostWakeup

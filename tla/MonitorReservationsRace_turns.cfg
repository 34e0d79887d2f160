\* Four harts that take turns, words of three addresses, an address in the next word.
CONSTANTS
  HartCount = 4
  Addresses = {0, 1, 2, 3}
  WordSize = 3
  CountSize = 8
  Serial = TRUE
  None = None
SPECIFICATION Spec
INVARIANTS
  TypeOK
  QuitsOnlyWhenNoneActive
  CountExact
  OneHolder
PROPERTY
  ImplementsAtomicCalls

\* Two harts that call at the same time, one property.
CONSTANTS
  HartCount = 2
  Addresses = {0, 1}
  WordSize = 2
  CountSize = 8
  Serial = FALSE
  None = None
SPECIFICATION Spec
INVARIANT
  QuitsOnlyWhenNoneActive

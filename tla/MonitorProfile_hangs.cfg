\* Two reader threads and one writer thread, two rounds each.
CONSTANTS
  HartCount = 3
  SharedCount = 2
  ExclusiveCount = 1
  RoundCount = 2
  WakeupLimit = 2
  Addresses = {a1}
  None = None
SPECIFICATION ProfileSpec
\* The program really may stop for good: a lost wakeup.
CHECK_DEADLOCK FALSE
PROPERTY
  OnlyTwoWaysToHang

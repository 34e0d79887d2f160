\* Two devices of the lowest frequency, the timer's, or more; one of them may fail.  They
\* are added once or twice, on a timer of four cycles.
CONSTANTS
  Devices = {devA, devB}
  Freqs = {1, 4, 5}
  TimerFreq = 4
  Failing = {devA}
  QueueLimit = 4
  None = None
SPECIFICATION Spec
INVARIANTS
  TypeOK
  DevicesKept
  ResumesAtFailed
PROPERTIES
  OnlyTooFastHang
  TooFastIsForever
  

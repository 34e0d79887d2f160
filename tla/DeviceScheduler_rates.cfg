\* The example of hw_Scheduler.h: a device of 5 and one of 10 on a timer of 10.
CONSTANTS
  Devices = {devA, devB}
  Freqs = {5, 10}
  TimerFreq = 10
  Failing = {}
  QueueLimit = 2
  None = None
SPECIFICATION Spec
PROPERTY
  DueDevicesRun

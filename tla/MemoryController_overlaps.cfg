\* A region around another and a device around another, one property.
CONSTANTS
  AddrBits = 4
  ByteBase = 2
  Widths = {1}
  Lists <- MCAround
  Leftovers <- MCZeroed
  Devices <- MCDevices
  MappedSize <- MCMappedSize
  RegionLimit = 3
  DeviceLimit = 2
CHECK_DEADLOCK FALSE
SPECIFICATION Spec
INVARIANT
  OverlapsRefused

\* Sixteen addresses; memory, IO and nested regions; devices of one and of three bytes.
CONSTANTS
  AddrBits = 4
  ByteBase = 2
  Widths = {1, 2}
  Lists <- MCLists
  Leftovers <- MCLeftovers
  Devices <- MCDevices
  MappedSize <- MCMappedSize
  RegionLimit = 3
  DeviceLimit = 2
\* Nobody has to call the controller again.
CHECK_DEADLOCK FALSE
SPECIFICATION Spec
INVARIANTS
  TypeOK
  DeviceAccessesFit
PROPERTIES
  RoutesStable
  RefusedStaysRefused
  WritesReadBack

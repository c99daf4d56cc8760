SPECIFICATION Spec
CONSTANTS
  OwnIP = OwnIP
  PublicIP = PublicIP
  WrongIP = WrongIP
  None = None
  Absent = Absent
  BufferSize = 1
  MaxFaults = 1
CHECK_DEADLOCK FALSE
PROPERTIES
  ProcessEnds
  AddressesSettle

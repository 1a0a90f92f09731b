SPECIFICATION FairSpec
CONSTANTS
  u1 = u1
  u2 = u2
  f1 = f1
  Users <- MCUsers
  Readers <- MCReaders
  Debug = Debug
  Work = Work
  NoProc = NoProc
  MaxOn = 2
INVARIANTS
  DeviceTypeOK
  RefcountExact
  PoweredAsCounted
  NothingOutlivesTheDevice
PROPERTIES
  PowersOff
CHECK_DEADLOCK FALSE

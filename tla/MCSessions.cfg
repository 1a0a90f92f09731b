SPECIFICATION FairSpec
CONSTANTS
  c1 = c1
  c2 = c2
  c3 = c3
  Clients <- MCClients
  Numbers <- MCNumbers
  Closed <- MCClosed
INVARIANTS
  DescriptorsKept
  DescriptorsReturned
PROPERTIES
  StopReturns
CHECK_DEADLOCK FALSE

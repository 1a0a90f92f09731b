SPECIFICATION Spec
CONSTANTS
  o1 = o1
  o2 = o2
  o3 = o3
  d0 = d0
  d1 = d1
  Objects <- MCObjects
  Requests <- MCRequests
  Builds <- MCBuilds
  Holders <- MCHolders
  SramChunks = 4
  NbufSize = 1
  Domains <- MCDomains
  Domain0 <- d0
  NoDomain = NoDomain
SYMMETRY MCSymmetry
CHECK_DEADLOCK FALSE
INVARIANTS
  TypeOK
  NothingLeftBehind
  DomainsExact
  SramExact
  SameBytes
PROPERTIES
  SramFirstFit

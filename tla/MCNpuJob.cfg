SPECIFICATION Spec
CONSTANTS
  j1 = j1
  j2 = j2
  j3 = j3
  d0 = d0
  d1 = d1
  Cores <- MCCores
  Jobs <- MCJobs
  NoJob = NoJob
  Domains <- MCDomains
  Domain0 <- d0
  NoDomain = NoDomain
  Requests <- MCRequests
  Mishaps <- MCMishaps
  MishapJobs = 2
SYMMETRY MCSymmetry
CHECK_DEADLOCK FALSE
INVARIANTS
  TypeOK
  RefcountExact
  RunsInItsDomain
  ConsistentOrder
  
  DoneMeansExecuted
  LoadExact
  NoJobLeftBehind

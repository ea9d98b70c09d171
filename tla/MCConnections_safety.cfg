SPECIFICATION Spec
CONSTANTS
  s1 = s1
  s2 = s2
  s3 = s3
  p1 = p1
  Sockets = {s1, s2, s3}
  Players = {p1}
  Host = host
  Owner <- MCShared
  None = none
  LastVersion = 1
  PublicResults = TRUE
  Failures <- MCAll
  MaxFailures = 2
INVARIANT RegistryConsistent
INVARIANT NobodyWaitsInVain
INVARIANT NoGap
INVARIANT NothingLeftBehind
VIEW Relevant
CHECK_DEADLOCK FALSE

SPECIFICATION FairSpec
CONSTANTS
  s1 = s1
  s2 = s2
  s3 = s3
  p1 = p1
  Sockets = {s1, s3}
  Players = {p1}
  Host = host
  Owner <- MCSingle
  None = none
  LastVersion = 2
  PublicResults = FALSE
  Failures <- MCAll
  MaxFailures = 2
INVARIANT TypeOK
INVARIANT ResultsSeen
INVARIANT EndKnown
PROPERTY LeavingEnds
CHECK_DEADLOCK FALSE

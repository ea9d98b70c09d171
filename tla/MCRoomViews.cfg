SPECIFICATION ViewsSpec
CONSTANTS
  Hosts = {h1}
  Timers = {t1}
  Questions <- MCTwo
  Editions <- MCOnce
  RandomizeQuestions = FALSE
  Disruptions <- MCFaults
  MaxDisruptions = 1
  Players = {p1}
  Sockets = {s1}
  Owner <- MCOwner
  Viewers = {v1}
  MaxFormer = 1
INVARIANT ViewsTypeOK
INVARIANT NoAnswersWhileRunning
INVARIANT FeedComplete
CHECK_DEADLOCK FALSE
VIEW Relevant

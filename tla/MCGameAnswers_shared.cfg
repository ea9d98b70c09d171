SPECIFICATION Spec
CONSTANTS
  Hosts = {h1}
  Timers = {t1}
  Questions <- MCTwo
  Editions <- MCOnce
  RandomizeQuestions = FALSE
  Disruptions <- MCUnedited
  MaxDisruptions = 1
  Players = {p1}
  Sockets = {s1, s2}
  Owner <- MCOwner
INVARIANT AnswersTypeOK
INVARIANT NoDoubleCredit
INVARIANT NoWrongLockout
CHECK_DEADLOCK FALSE
VIEW Relevant

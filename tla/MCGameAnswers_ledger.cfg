SPECIFICATION Spec
CONSTANTS
  Hosts = {h1}
  Timers = {t1, t2}
  Questions <- MCQuestions
  Editions <- MCEditions
  RandomizeQuestions = FALSE
  Disruptions <- MCAll
  MaxDisruptions = 1
  Players = {p1}
  Sockets = {s1}
  Owner <- MCOwner
INVARIANT AnswersOnlyToOpened
PROPERTY ImplementsLedger
CHECK_DEADLOCK FALSE
VIEW Relevant

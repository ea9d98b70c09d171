SPECIFICATION RoomSpec
CONSTANTS
  Hosts = {h1}
  Timers = {t1, t2, t3}
  Questions <- MCQuestions
  Editions <- MCEditions
  RandomizeQuestions = TRUE
  Disruptions <- MCAll
  MaxDisruptions = 2
SYMMETRY TimerSymmetry
INVARIANT TypeOK
INVARIANT OpenedOnce
INVARIANT OneTimerPerQuestion
INVARIANT TimedFromOwnStart
PROPERTY QuestionsInTurn
CHECK_DEADLOCK FALSE

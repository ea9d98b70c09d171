SPECIFICATION RoomSpec
CONSTANTS
  Hosts = {h1}
  Timers = {t1, t2, t3}
  Questions <- MCQuestions
  Editions <- MCEditions
  RandomizeQuestions = FALSE
  Disruptions <- MCQuiet
  MaxDisruptions = 0
INVARIANT NoEarlyReveal
CHECK_DEADLOCK FALSE

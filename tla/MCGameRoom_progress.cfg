SPECIFICATION FairRoomSpec
CONSTANTS
  Hosts = {h1}
  Timers = {t1, t2, t3}
  Questions <- MCQuestions
  Editions <- MCEditions
  RandomizeQuestions = FALSE
  Disruptions <- MCQuiet
  MaxDisruptions = 1
INVARIANT Attended
PROPERTY ImplementsLifecycle
PROPERTY FinishedIsAnnounced
CHECK_DEADLOCK FALSE

SPECIFICATION FairSpec
CONSTANTS
  Buttons = {1}
  INVERSE = TRUE
  PRESS_TIME_MS = 1
  RELEASE_TIME_MS = 2
  LONG_PRESS_TIME_MS = 3
  SHUTDOWN_DELAY = 4
  TIMER_RANGE = 6
  WAIT_DELAY = 1
  LOOP_MS = 1
  MaxRaces = 1
  MaxDepth = 2
PROPERTY WakeReturns

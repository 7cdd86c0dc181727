CONSTANTS
  N = 1
  Gbt = TRUE
  AllowGetwork = TRUE
  Retries = 0
  Spurious = TRUE
  Malformed = TRUE
  InfoReliable = FALSE
  Poll = TRUE
  Switch = TRUE
  MaxTip = 2
  MaxQueue = 1
SPECIFICATION Spec
INVARIANTS TypeOK OneAnswer PollsOnce EmptyNotScanned
VIEW NoHistory
CHECK_DEADLOCK FALSE

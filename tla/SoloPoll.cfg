CONSTANTS
  N = 1
  Gbt = FALSE
  AllowGetwork = TRUE
  Retries <- Forever
  Spurious = FALSE
  Malformed = FALSE
  InfoReliable = TRUE
  Poll = TRUE
  Switch = FALSE
  MaxTip = 3
  MaxQueue = 3
SPECIFICATION Spec
PROPERTY StaleIsOld

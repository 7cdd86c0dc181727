CONSTANTS
  N = 1
  Gbt = TRUE
  AllowGetwork = FALSE
  Retries <- Forever
  Spurious = FALSE
  Malformed = FALSE
  InfoReliable = TRUE
  Poll = FALSE
  Switch = FALSE
  MaxTip = 2
  MaxQueue = 3
SPECIFICATION Spec
PROPERTY StaleIsOld

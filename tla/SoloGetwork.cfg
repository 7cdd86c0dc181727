CONSTANTS
  N = 2
  Gbt = FALSE
  AllowGetwork = TRUE
  Retries <- Forever
  Spurious = FALSE
  Malformed = FALSE
  InfoReliable = TRUE
  Poll = FALSE
  Switch = FALSE
  MaxTip = 3
  MaxQueue = 3
SPECIFICATION FairSpec
INVARIANT OncePerBlock
PROPERTY StaleIsOld
PROPERTY SolvedIsSolved
INVARIANT FreshAfterBlock
INVARIANT OneAnswer
PROPERTY MinesAgain
PROPERTY CatchesUp

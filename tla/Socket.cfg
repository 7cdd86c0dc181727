CONSTANTS
  RBUFSIZE = 4
  RECVSIZE = 3
  Widths = {0, 1, 2}
  Slow = TRUE
  MaxLines = 3
  Length = 2
  MaxOut = 6
SPECIFICATION FairSpec
INVARIANTS BufferFits NothingLost MessagesApart
PROPERTIES LineReturned

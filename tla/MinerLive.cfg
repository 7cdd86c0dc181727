CONSTANTS
  Algo = "DEFAULT"
  N = 2
  Span = 2
  Gap = 1
  NonceMod = 5
  Lanes = 1
  ScanMax = 1
  Xn2Mod = 16
  Notes <- QuietNotes
  Diffs = {2}
  DefaultDiff = 1
  MaxXn1 = 1
  MaxGen = 1
  MaxDrop = 0
SPECIFICATION FairSpec
INVARIANT SettledWork
PROPERTY JobReachesThreads

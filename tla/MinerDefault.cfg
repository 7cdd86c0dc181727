CONSTANTS
  Algo = "DEFAULT"
  N = 2
  Span = 3
  Gap = 2
  NonceMod = 7
  Lanes = 2
  ScanMax = 1
  Xn2Mod = 4
  Notes <- CalmNotes
  Diffs = {1}
  DefaultDiff = 1
  MaxXn1 = 1
  MaxGen = 2
  MaxDrop = 1
SPECIFICATION HashSpec
INVARIANTS ShareIntegrity OwnRange TriedOnce
PROPERTY ScanAdvances

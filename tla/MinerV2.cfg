CONSTANTS
  Algo = "BLAKE2B"
  N = 2
  Span = 2
  Gap = 1
  NonceMod = 5
  Lanes = 1
  ScanMax = 2
  Xn2Mod = 4
  Notes <- CoinbaseNotes
  Diffs = {1}
  DefaultDiff = 1
  MaxXn1 = 2
  MaxGen = 2
  MaxDrop = 1
SPECIFICATION Spec
INVARIANTS TypeOK ShareIntegrity
PROPERTY NewH2Adopted

CONSTANTS
  Algo = "BLAKE2B"
  N = 1
  Span = 3
  Gap = 1
  NonceMod = 7
  Lanes = 1
  ScanMax = 2
  Xn2Mod = 8
  Notes <- GatewayNotes
  Diffs = {1}
  DefaultDiff = 1
  MaxXn1 = 1
  MaxGen = 2
  MaxDrop = 1
SPECIFICATION Spec
PROPERTY NewH2Adopted

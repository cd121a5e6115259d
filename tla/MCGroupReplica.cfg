SPECIFICATION PairedSpec
CONSTANTS
  Heads = {1, 2, 3}
  Founder = 2
  Writers = {1, 2}
  Text = {"", "x"}
  Blank = ""
  MaxWrites = 2
  MaxClaims = 0
  MaxReboots = 0
  MaxLost = 0
INVARIANTS
  SettledAgree
CHECK_DEADLOCK FALSE

SPECIFICATION Spec
CONSTANTS
  Heads = {1, 2}
  Founder = 2
  Writers = {1, 2}
  Text = {"", "x"}
  Blank = ""
  MaxWrites = 2
  MaxClaims = 2
  MaxReboots = 0
  MaxLost = 0
INVARIANT AllSettledAgree
CHECK_DEADLOCK FALSE

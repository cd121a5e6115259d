SPECIFICATION FairSpec
CONSTANTS
  Heads = {1, 2}
  Founder = 2
  Writers = {1, 2}
  Text = {"", "x"}
  Blank = ""
  MaxWrites = 2
  MaxClaims = 1
  MaxReboots = 1
  MaxLost = 1
INVARIANTS
  RemoveWins
  SettledAgree
  OwnName
CHECK_DEADLOCK FALSE
PROPERTIES
  Converges
  EvictedLeaves

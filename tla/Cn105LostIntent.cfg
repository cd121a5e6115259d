SPECIFICATION Spec
CONSTANTS
  Field = {wv}
  WV = wv
  Value = {v1, v2}
  Placeholder = seed
  None = none
  Powered = TRUE
  InfoModes = 2
  BackoffMin = 1
  BackoffMax = 3
  UserField = {wv}
  MaxOps = 2
  MaxProbes = 0
  MaxExternal = 0
  MaxLost = 0
  MaxLate = 0
  MaxOutages = 1
  MaxDisturbances = 1
INVARIANT NoLostIntent

SPECIFICATION Spec
SYMMETRY Symmetry
CONSTANTS
  Field = {fan, wv}
  WV = wv
  Value = {v1, v2}
  Placeholder = seed
  None = none
  Powered = TRUE
  InfoModes = 2
  BackoffMin = 1
  BackoffMax = 3
  UserField = {fan, wv}
  MaxOps = 2
  MaxProbes = 1
  MaxExternal = 1
  MaxLost = 1
  MaxLate = 3
  MaxOutages = 1
  MaxDisturbances = 3
INVARIANTS
  PlaceholderNeverSent
  IntentKept
  ListenersCurrent
  NeverToldUpWhenDown
  EchoTruthful

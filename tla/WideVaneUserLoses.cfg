SPECIFICATION CapSpec
CONSTANTS
  Field = {pw, wv}
  WV = wv
  PW = pw
  Value = {mid, left, right}
  On = mid
  Off = left
  Right = right
  Left = left
  Detent = mid
  AcceptSamples = 2
  HoldSamples = 4
  RevertConfirm = 2
  RevertSamples = 1
  PollLag = 1
  Placeholder = seed
  None = none
  Powered = FALSE
  InfoModes = 1
  BackoffMin = 1
  BackoffMax = 2
  UserField = {pw}
  MaxOps = 1
  MaxProbes = 1
  MaxExternal = 0
  MaxLost = 0
  MaxLate = 0
  MaxOutages = 0
  MaxDisturbances = 1
PROPERTY UserWins

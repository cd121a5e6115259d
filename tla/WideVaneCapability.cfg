SPECIFICATION CapSpec
CONSTANTS
  Field = {pw, wv}
  WV = wv
  PW = pw
  Value = {mid, left, right}
  On = mid
  Off = left
  Right = right
  Left = left
  Detent = mid
  AcceptSamples = 2
  HoldSamples = 4
  RevertConfirm = 2
  RevertSamples = 1
  PollLag = 1
  Placeholder = seed
  None = none
  Powered = FALSE
  InfoModes = 1
  BackoffMin = 1
  BackoffMax = 2
  UserField = {pw}
  MaxOps = 1
  MaxProbes = 2
  MaxExternal = 1
  MaxLost = 1
  MaxLate = 1
  MaxOutages = 1
  MaxDisturbances = 2
INVARIANTS
  ManualNotShown
  QuietVerdictRight
  EnforcementResumes
  PutBack

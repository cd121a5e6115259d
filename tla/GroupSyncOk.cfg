SPECIFICATION Spec
CONSTANTS
  Mode = {"HEAT", "COOL"}
  Heads = {h1, h2}
  Nobody = nobody
  MaxStarts = 2
  MaxCommands = 0
  MaxLost = 0
  MaxReboots = 0
  MaxDisturbances = 0
INVARIANT OkMeansConverged
CHECK_DEADLOCK FALSE

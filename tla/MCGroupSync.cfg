SPECIFICATION MCSpec
SYMMETRY Symmetry
CONSTANTS
  Mode = {"HEAT", "COOL", "AUTO"}
  Heads = {h1, h2}
  Nobody = nobody
  MaxStarts = 2
  MaxCommands = 1
  MaxLost = 1
  MaxReboots = 1
  MaxDisturbances = 1
INVARIANTS
  OffStaysOff
  AnswersTrue
  ConflictEnds
PROPERTIES
  LaterOpStands
  Paced
CHECK_DEADLOCK FALSE

SPECIFICATION Spec
CONSTANTS
  Configs <- SameShapes
  PowerCuts = TRUE
  Absent = Absent
  Workers = {w0, w1}
  Parent = w0
  MaxBoots = 3
CHECK_DEADLOCK FALSE
INVARIANTS TableIsAsMade ReadyMeansServing
PROPERTIES ParentMovesOn ServerFollowsParent

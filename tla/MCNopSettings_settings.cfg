SPECIFICATION Spec
CONSTANTS
  Value = {v1, v2}
  v1 = v1
  v2 = v2
  Cells <- AllButSchedule
  Role = "recorder"
INVARIANTS  RoutesAnswer
SYMMETRY Symmetry

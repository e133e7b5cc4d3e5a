SPECIFICATION SessionSpec
CONSTANTS
  c1 = c1
  c2 = c2
  Names <- MCNames
  NoName = 0
  Flag = 2
  Callers <- MCCallers
  Ids <- MCIds
  Projects <- MCProjects
  NewNames = {0, 2}
  NewColors = {}
  NewSolos = {}
  PlanEdits = 2
  MaxEdits = 1
  MaxUndos = 1
  MaxChanges = 0
INVARIANT EveryEditReversible

SPECIFICATION SessionSpec
CONSTANTS
  c1 = c1
  c2 = c2
  Names <- MCNames
  NoName = 0
  Flag = 2
  Callers <- MCCallers
  Ids <- MCIds
  Projects <- MCProjects
  NewNames = {0, 2}
  NewColors = {3}
  NewSolos = {1}
  PlanEdits = 2
  MaxEdits = 2
  MaxUndos = 2
  MaxChanges = 0
PROPERTY MovesRunBackToBack

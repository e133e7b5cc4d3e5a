SPECIFICATION ReviewSpec
CONSTANTS
  c1 = c1
  c2 = c2
  c3 = c3
  w1 = w1
  w2 = w2
  i1 = i1
  i2 = i2
  i3 = i3
  Callers <- MCCallers
  Workspaces <- MCWorkspaces
  Ids <- MCIds
  Files = {f1}
  Absent = Absent
  Draft = Draft
  Other = Other
  Capacity = 1
  MaxCalls = 6
SYMMETRY MCSymmetry
PROPERTY WithdrawnHasNoEffect

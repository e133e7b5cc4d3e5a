SPECIFICATION Spec
CONSTANTS
  e1 = e1
  e2 = e2
  s1 = s1
  NoFile = NoFile
  Blank = Blank
  Scripts <- MCScripts
  Edits <- MCEdits
  Runs <- MCScripts
SYMMETRY MCSymmetry
INVARIANT ReceiptNeverStale

SPECIFICATION ClientsSpec
CONSTANTS
  e1 = e1
  v1 = v1
  x1 = x1
  NoFile = NoFile
  Blank = Blank
  Scripts <- MCScripts
  Edits <- MCNone
  Runs <- MCRuns
  Checks <- MCChecks
  Execs <- MCExecs
INVARIANTS ClientsTypeOK VerifiedMeansProbed OkWhenUndisturbed

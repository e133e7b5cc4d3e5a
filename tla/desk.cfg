SPECIFICATION DeskSpec
CONSTANTS
  Roles = {"drums", "bass", "bus"}
  BusFx = "bus"
  Sections = {"verse"}
  Styles = {"own", "loud"}
  OwnStyle = "own"
  NoColor = "none"
  NoName <- MCNoName
  MaxItems = 4
  A = A
  B = B
  Paths <- MCPaths
  MaxProposals = 3
  c1 = c1
  c2 = c2
  Callers <- MCCallers
  Nobody = Nobody
  Instances <- MCInstances
  Names = {1, 2, 3, 4}
  LongNames = {4}
  DepthLimit = 2
  WalkLimit = 5
  r1 = r1
  r2 = r2
  Readers <- MCReaders
  MaxRoom = 2
  NoList = NoList
INVARIANTS TidyTypeOK OnlyWhatWasAsked ReportsAreTrue RecordsLoad AppliedHasResult SurveySettlesOlder
INVARIANTS TidyKeepsNames TidyInTwoRounds
INVARIANTS StudioTypeOK NothingListedTwice StayersAreListed PagesAddUp
PROPERTIES PlacesKeepAMarker KeepsTidyPromise CursorsGoOn EveryListingEnds

\* The smallest instances in which the cases of each component meet.
CONSTANTS
  PkgNames = {"ui", "html"}
  PkgVersions = {1, 2}
  Commands = {c}
  Overlap = FALSE
  Images = FALSE
  Builders = {p1, p2}
  Sources = {1, 2}
  EditsAnytime = FALSE
  MaxBuilds = 2
  Relative = TRUE
  MaxPath = 6
  MaxFd = 3
  MaxData = 2
  StaleHandles = FALSE
  Texts <- MCTexts
  MaxColumns = 2
  MaxCells = 2
  MaxQueries = 2
  Exceptions = {1, 2}
  Closures = {1, 2}
  MaxDepth = 4
  MaxClients = 2
  ClosesTwice = FALSE
  MaxKey = 3
  MaxLen = 4
  MinIndex = 3
  FirstICap = 8
  Careful = TRUE
  Hash <- MCHash
SPECIFICATION SysSpec
CHECK_DEADLOCK FALSE
INVARIANTS
  ListedWorks RunsWhatWasLoaded LoadOrder EofRight AnswersTrue ChainMatches ClientStory IndexRight
PROPERTY OthersUntouched

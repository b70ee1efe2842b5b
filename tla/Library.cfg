SPECIFICATION Spec
CONSTANTS
  Characters <- MCCharacters
  Digits = {"1"}
  Letters <- MCLetters
  Spaces <- MCSpaces
  Punctuation <- MCPunctuation
  Many = 99
  MAX_DEPTH = 64
  Classes <- MCClasses
  BadClasses <- MCBadClasses
  Items <- MCItems
  Excluded <- MCExcluded
  MaxAtoms = 2
  Texts <- MCTexts
  RootMenu <- MCRootMenu
  DefMenu <- MCDefMenu
  DefNames = {"D"}
  MaxKeywords = 2
  MaxDefKeywords = 1
  Values <- MCValues
  NotFinite = NotFinite
  Unit = 2
  Tolerance <- MCTolerance
  Observations = {0, 1, 3}
  MaxObservations = 4
  MaxSeries = 6
  MinSegments = {1, 3}
  Outcomes <- MCOutcomes
  PValues = {0, 1, 2, 3, 4, 5, 6}
  One = 6
  MaxCandidates = 3
  STORAGE_SLOTS = 4
  NaN = 99
  NoTruncation = 0
  EmbeddingSpaces <- MCEmbeddingSpaces
  Registered <- MCRegistered
  Components = {0, 1, 2}
  MaxDimensions = 3
  Base = 16
  Width16 = 1
  Width32 = 1
  Width64 = 2
  NotUtf8 = 15
  Frames <- MCFrames
  Bytes = {0, 1, 2, 9, 10, 13, 14, 15}
  MaxSlips = 2
  Machines = {"org", "user"}
  MaxMoves = 7
INVARIANTS ReadAsWritten SearchIsExact  PointersLead PerfectIsLinear PerfectIsMonotone FitIsLeastSquares SplitIsBest DiscoveriesAreStepUp ServedAsReviewed FramesAgree StationsInOrder RepeatsSuffice
CHECK_DEADLOCK FALSE

CONSTANTS
  NameMax = 64
  SourceMax = 2048
  NoteMax = 128
  Def <- Rows
  Names <- BothNames
  Plans <- BothPlans
  Field <- Fields
  Value = {1, 4, NotANumber}
  NotANumber = NotANumber
  Broken <- BadSources
  MaxCompiled = 3
  None = None
SPECIFICATION Spec
INVARIANTS TypeOK TwoPassSizing RoundTrip CutBlobRefused KeyIsState CurveIsItsPoints RanksByUtility FreshFunctions
PROPERTY NothingEvicted
CHECK_DEADLOCK FALSE

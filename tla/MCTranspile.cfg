SPECIFICATION Spec
CONSTANTS
    Names <- MCNames
    Sources <- MCSources
    Routes <- MCRoutes
    MaxParseDepth = 5
INVARIANTS
    CommentsGoToTheNextToken
    DepthCountsWhatIsOpen
    SurvivingTreesComeBack
    StableThereAndBack
PROPERTY ReadingEnds

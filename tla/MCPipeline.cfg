SPECIFICATION Spec
CONSTANTS
    Names <- MCNames
    Sources <- MCSources
    RuleLists <- MCRuleLists
    Graphs <- MCGraphs
    Caps <- MCCaps
    Null = Null
    NoFilter = NoFilter
    MaxParseDepth = 50
PROPERTIES
    RulesKeepTheAnswers
    RulesAreIdempotent
    LoweringTwiceIsOnce
    LoweredMeansTheSame
    AcceptedNamesAreKnown
    RewritesMeetTheTarget
    RulesBringNoViolation

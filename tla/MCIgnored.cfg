SPECIFICATION Spec
CONSTANTS
    Names <- MCNames
    Sources <- PairSources
    RuleLists <- MCRuleLists
    Graphs <- MCGraphs
    Caps <- MCCaps
    Null = Null
    NoFilter = NoFilter
    MaxParseDepth = 50
INVARIANT NothingIsSilentlyIgnored

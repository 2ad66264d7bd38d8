SPECIFICATION Spec
CONSTANTS
    Names <- MCNames
    Sources <- GroupedSources
    Routes <- IdentityRoutes
    MaxParseDepth = 5
INVARIANT IdentityRoundTrip

CONSTANTS
    None = None
    Char <- AnyChar
    PathType <- SomePathTypes
    Programs <- SomePrograms
    Fallbacks <- SomeFallbacks
    Requests <- SomeRequests
    Urls <- SomeUrls
SPECIFICATION Spec
\* A behaviour ends with the answer to its request, or with a panic.
CHECK_DEADLOCK FALSE
INVARIANTS RoutedByPattern DiscoveryReachesClient
    WiderFilterShowsMore PanicOnlyOnNestedPair
    StructAgreesWithTuple UrlArrives
PROPERTIES AppendKeepsAnswers

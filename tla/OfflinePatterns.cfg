SPECIFICATION Spec
CONSTANTS
    Clients = {c1}
    Topics <- MCTopics
    Filters <- RootFilters
    Matches <- MCMatches
    Patterns <- MCPatterns
    Procs = {p1}
    Backends = {"mongo"}
    MaxPubs = 1
    MaxId = 1
    MaxTurns = 5
    MaxStreams = 1
    MaxAnswers = 1
    MaxMessages = 1
    MaxListed = 1
CHECK_DEADLOCK FALSE
INVARIANT MatchesAreServed

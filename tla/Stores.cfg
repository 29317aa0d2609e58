SPECIFICATION Spec
CONSTANTS
    Clients = {c1}
    Topics <- MCTopics
    Filters <- MCFilters
    Matches <- MCMatches
    Patterns <- MCPatterns
    Procs = {p1, p2}
    Backends = {"level", "redis", "mongo"}
    MaxPubs = 2
    MaxId = 1
    MaxTurns = 5
    MaxStreams = 2
    MaxAnswers = 1
    MaxMessages = 2
    MaxListed = 2
SYMMETRY Brokers
CHECK_DEADLOCK FALSE
INVARIANTS TypeOK IndexCovers FoundAreServed StoredIsListed PatternsSound PatternsFind
PROPERTIES QueueImplemented GoneForGood

\* Words of four gates and the fenced circuits, all pattern lists, all options.
CONSTANTS
    WordLength = 4
    Programs <- Circuits
    Catalogs <- PatternLists
    OptionSets <- AllOptions
SPECIFICATION FairSpec
INVARIANTS
    TypeOK
    DependenciesKept
    FencesHold
    LifetimesKept
    MatchesCurrent
    NoOscillation
    SecondRunIsNoop
    CountersConsistent
    ReportTruthful
PROPERTY Termination
CHECK_DEADLOCK FALSE

\* The default options only: does an accepted rewrite always change a wire?
CONSTANTS
    WordLength = 3
    Programs <- Circuits
    Catalogs <- PatternLists
    OptionSets <- DefaultOptions
SPECIFICATION FairSpec
PROPERTY NeverDisjointReorder
CHECK_DEADLOCK FALSE

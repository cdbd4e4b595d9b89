SPECIFICATION FairSpec
CONSTANTS
    Sources <- MCSources
    MultipleDecls = TRUE
    Growth = 1
    Minimum = 3
    NoName = NoName
INVARIANTS
    ReferencesCurrent
    ExprListsExact
    BiNodesLive
    InheritedOnce
    OptionalsGreatest
PROPERTY Terminates
CHECK_DEADLOCK FALSE

SPECIFICATION FairSpec
CONSTANTS
    N = 3
INVARIANTS
    RemainingExact
    OneDispatcher
    FinalArguments
    NoUseAfterReset
    InputsKept
PROPERTIES
    JoinCompletes
CHECK_DEADLOCK FALSE

CONSTANTS
    Ids <- MCIds
    Numbers <- MCNumbers
    kContextLines = 1
    Invocations <- ParenthesisedInvocations
    Positional <- MCPositional
    ConfigEq <- MCConfigEq
    RangeEq <- MCRangeEq
    RangeArgs <- MCRangeArgs
    ConfigFiles <- MCConfigFiles
    Ancestors <- MCAncestors
    Temp <- MCTemp
    Faults <- AllFaults
    NoFile = NoFile
    Torn <- MCTorn
    WholeFile <- NoRange
    Stdin = Stdin
    DefaultConfig <- default_configuration
    FormatBuffer <- format_buffer
    ParseConfig <- parse_config_file
    CountLines <- countLines
SPECIFICATION Spec
CHECK_DEADLOCK FALSE
INVARIANTS
    Idempotent

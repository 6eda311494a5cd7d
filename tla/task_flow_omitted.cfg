SPECIFICATION FlowSpec
CONSTANTS
    Refs <- MCRefs
    Rendered <- Render
    Evaluated <- EvaluatedText
    ResultsOf <- ExpressionResults
    Unknown <- Opaque
    Producers <- MCProducers
    Consumers <- MCConsumers
    RawTexts <- MCRawTexts
    Unset = Unset
    WithFalse = TRUE
    MaxCalls = 2
    MaxOperators = 2
    MaxSets = 2
INVARIANT OptionalInputsMayBeAbsent
CHECK_DEADLOCK FALSE

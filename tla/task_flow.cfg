SPECIFICATION FlowSpec
CONSTANTS
    Refs <- MCRefs
    Rendered <- Render
    Evaluated <- EvaluatedText
    ResultsOf <- ExpressionResults
    Unknown <- Opaque
    Producers <- MCProducers
    Consumers <- MCConsumers
    RawTexts <- MCRawTexts
    Unset = Unset
    WithFalse = FALSE
    MaxCalls = 3
    MaxOperators = 2
    MaxSets = 2
INVARIANTS RenderedMeansBuilt StringInputsAreStrings GuardedTasksGetTheirInputs ReceivedIsWhatWasSet
CHECK_DEADLOCK FALSE

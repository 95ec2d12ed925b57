\* Two requests that meet in one batch, one fault more than a flush survives.
CONSTANTS
    Events = {e1, e2}
    BatchLimit = 2
    MaxRetries = 1
    MaxFaults = 2
SPECIFICATION PipelineSpec
CHECK_DEADLOCK FALSE
INVARIANT PipelineTypeOK
INVARIANT OutcomesHaveCauses
PROPERTY ImplementsDelivery

CONSTANTS
    Tools = {lookup}
    Lookup = lookup
    UnknownTool = bogus
    FailureModes = {leak}
    KB = {leak}
    MaxIterations = 2
    MaxCalls = 1
SPECIFICATION Spec
INVARIANT LlmErrorReported

CONSTANTS
    Tools = {lookup, query}
    Lookup = lookup
    UnknownTool = bogus
    FailureModes = {leak, blockage, invented}
    KB = {leak, blockage}
    MaxIterations = 3
    MaxCalls = 2
SPECIFICATION FairSpec
INVARIANTS
    TypeOK
    ConversationWellFormed
    TraceMatchesConversation
    GroundedDiagnosis
PROPERTIES
    ToolsWithdrawn
    TraceSpec
    Ends

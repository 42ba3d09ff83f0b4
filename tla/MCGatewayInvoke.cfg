CONSTANTS
    Calls = {c1, c2}
    Limit = 1
    Servers <- MCServers
    Tools <- MCTools
    Requests <- MCRequests
    PolicyFiles <- MCPolicyFiles
    Scopes <- MCScopes
    AuditDisabled = FALSE
    AuditRequired = TRUE
SPECIFICATION FairSpec
INVARIANTS
    ExecutedOnlyWhenCleared
    RefusedMeansNotSent
    DeliveredMeansExecuted
    AuditAgreesWithAnswer
    ConnectionsBounded
    NothingLeftBehind
PROPERTIES
    EveryCallReturns
CHECK_DEADLOCK FALSE

CONSTANTS
    Calls = {c1, c2}
    Limit = 1
    Servers <- MCServers
    Tools <- MCTools
    Requests <- MCRequests
    PolicyFiles <- MCPolicyFiles
    Scopes <- MCScopes
    AuditDisabled = FALSE
    AuditRequired = TRUE
SPECIFICATION Spec
INVARIANTS
    UnreachableWasNotAsked
CHECK_DEADLOCK FALSE

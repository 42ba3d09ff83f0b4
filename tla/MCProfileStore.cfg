CONSTANTS
    Requests = {r1, r2}
    Servers = {s1, s2}
    Found <- OneLocal
    s1 = s1
    s2 = s2
    dir1 = dir1
    Moments = {1, 2}
SPECIFICATION Spec
INVARIANTS
    NothingLost
PROPERTIES
    OnlyRequestedChanges
    SuccessMeansDone
CHECK_DEADLOCK FALSE

CONSTANTS
    Profiles <- MCProfiles
    Servers = {s1}
    Contents <- MCContents
    Edits = 0
    top = top
    left = left
    right = right
    base = base
    s1 = s1
SPECIFICATION FairSpec
INVARIANTS
    DisabledIsInactive
CHECK_DEADLOCK FALSE

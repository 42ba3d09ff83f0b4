CONSTANTS
    Profiles <- MCProfiles
    Servers = {s1}
    Contents <- MCContents
    Edits = 1
    top = top
    left = left
    right = right
    base = base
    s1 = s1
SPECIFICATION FairSpec
INVARIANTS
    ResolvedAsRead
    SourcesComplete
    CyclesReported
PROPERTIES
    ResolutionEnds
CHECK_DEADLOCK FALSE

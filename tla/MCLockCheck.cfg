CONSTANTS
    Dirs <- MCDirs
    Chain <- MCChain
    Twins <- MCTwins
SPECIFICATION FairSpec
INVARIANTS
    ClearMeansFree
    ClearMeansTwinsFree
    LockedMeansSeen
PROPERTIES
    CheckEnds

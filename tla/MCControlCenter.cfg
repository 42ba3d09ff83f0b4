CONSTANTS
    Clients = {c1, c2}
    Offered <- MCOffered
    Together <- MCTogether
    Environment <- MCEnvironment
    SupportedLanguages = {"de", "en"}
    Contents <- MCContents
    MaxReleases = 2
    MaxDecided = 1
    MaxItemsPerGroup = 1
    SafePolicyKeys = {"shown"}
    c1 = c1
    c2 = c2
SPECIFICATION Spec
INVARIANTS
    AuditNeverSilent
    ReceiptBacked
    LanguageMixExplained
    SuccessMeansWritten
    CutsAreTold
    RouteVerified
    StaleUnlessReindexed
    UnknownNeverReassures

\* One agent, two resources, two fences each.
SPECIFICATION ContinuitySpec
CONSTANTS
    None = None
    ResourceId <- MCResourceId
    RevisionId <- MCRevisionId
    Digest <- MCDigest
    Revision <- MCRevision
    Rules <- MCRules
    Default = "REVALIDATION_REQUIRED"
    InitialHead <- MCInitialHead
    Writable <- MCWritable
    Reports <- MCReports
    MaxFence = 2
INVARIANTS
    ContinuityTypeOK
    RecoverWasTrueAtStart
    RecoverIsEarned
    UnknownIsNotPromoted
    StaleFenceAborts
    RefusalHasCause
PROPERTIES
    NoWriteOverNewerHead

\* A fence from before a restart, on a resource whose head has moved.
SPECIFICATION ContinuitySpec
CONSTANTS
    None = None
    ResourceId <- MCResourceId
    RevisionId <- MCRevisionId
    Digest <- MCDigest
    Revision <- MCRevision
    Rules <- MCRules
    Default = "REVALIDATION_REQUIRED"
    InitialHead <- MCInitialHead
    Writable <- MCWritable
    Reports <- MCReports
    MaxFence = 2
INVARIANT FutureFencePauses

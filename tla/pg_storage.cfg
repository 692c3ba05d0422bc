\* Safety and liveness of the PostgreSQL adapter, two clients.
SPECIFICATION FairSpec
CONSTANTS
    Client = {c1, c2}
    None = None
    ResourceId <- MCResourceId
    RevisionId <- MCRevisionId
    Digest <- MCDigest
    Revision <- MCRevision
INVARIANTS
    TypeOK
    ImmutableRevisions
    CheckHoldsUntilCommit
    NoDeadlock
PROPERTIES
    StoreContract
    CallsEnd

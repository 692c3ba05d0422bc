\* One caller, one thread with two checkpoints, two versions of the runtime.
SPECIFICATION Spec
CONSTANTS
    None = None
    Caller = {c1}
    Thread = {"t"}
    ResourceId <- MCResourceId
    RevisionId <- MCRevisionId
    Digest = {"d"}
    Revision <- MCRevision
    Rules <- MCRules
    Default = "REVALIDATION_REQUIRED"
    Execution <- MCExecution
    RuntimeResource = "runtime"
    ResourceLists <- MCResourceLists
    FenceLists <- MCFenceLists
    HeadReads <- MCHeadReads
    FenceReads <- MCFenceReads
    Reports <- MCReports
INVARIANTS
    TypeOK
    RuntimeDriftBlocks
PROPERTIES
    MeetsContract

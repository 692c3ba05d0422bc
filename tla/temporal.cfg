\* One caller, one workflow with two runs, two versions of the runtime.
SPECIFICATION Spec
CONSTANTS
    None = None
    Caller = {c1}
    ResourceId <- MCResourceId
    RevisionId <- MCRevisionId
    Digest = {"d"}
    Revision <- MCRevision
    Rules <- MCRules
    Default = "REVALIDATION_REQUIRED"
    Execution <- MCExecution
    RuntimeResource = "runtime"
    ResourceLists <- MCResourceLists
    FenceLists <- MCFenceLists
    HeadReads <- MCHeadReads
    FenceReads <- MCFenceReads
    Reports <- MCReports
INVARIANTS
    TypeOK
    RuntimeDriftBlocks
PROPERTIES
    MeetsContract

\* All graphs and signals on three resources.  The evaluation ends: no deadlock check.
SPECIFICATION FairSpec
CONSTANTS
    Resource <- MCResource
    None = None
INVARIANTS
    TypeOK
    ImpactsAreExact
PROPERTIES
    NeverImproves
    Terminates
CHECK_DEADLOCK FALSE

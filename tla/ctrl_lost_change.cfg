SPECIFICATION FairSpec
CONSTANTS
    CRs = {a}
    Specs <- MCSpecs
    OperatorSets <- NoOperator
    OpenStackStates <- AllThere
    MaxUserOps = 1
    MaxFaults = 1
    NoCR = NoCR
    NoObj = NoObj
    NoSpec = NoSpec
    NoHash = NoHash
CHECK_DEADLOCK FALSE
PROPERTIES
    RowsConverge

SPECIFICATION FairSpec
CONSTANTS
    CRs = {a}
    Specs <- MCSpecs
    OperatorSets <- EveryMode
    OpenStackStates <- ThereOrNot
    MaxUserOps = 3
    MaxFaults = 1
    NoCR = NoCR
    NoObj = NoObj
    NoSpec = NoSpec
    NoHash = NoHash
CHECK_DEADLOCK FALSE
PROPERTIES
    DeletionCompletes
    
    
    

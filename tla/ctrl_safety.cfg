SPECIFICATION Spec
CONSTANTS
    CRs = {a}
    Specs <- MCSpecs
    OperatorSets <- MCOperatorSets
    OpenStackStates <- SecondEmpty
    MaxUserOps = 5
    MaxFaults = 2
    NoCR = NoCR
    NoObj = NoObj
    NoSpec = NoSpec
    NoHash = NoHash
CHECK_DEADLOCK FALSE
INVARIANTS
    InductiveInvariant
    NoOrphanRows
    NeverForgotten
PROPERTIES
    
    PublishedInfosMatch
    ImplementsLifecycle

SPECIFICATION FairSpec
CONSTANTS
    Specs <- MCSpecs
    Installed <- MCInstalled
    Namespace = "multinic-system"
    Webhook = TRUE
    MaxUserOps = 3
    MaxFaults = 1
    NoOp = NoOp
    NoChild = NoChild
CHECK_DEADLOCK FALSE
INVARIANTS
    OperatorInvariant
    OwnerHeld
PROPERTIES
    CreatedForOwner
    ReleasedUnprotected
    DeletionCompletes
    ComponentsRestored
    PhaseFollows
    ProtectionReaches
    DatabaseCollected

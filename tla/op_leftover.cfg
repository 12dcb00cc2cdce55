SPECIFICATION FairSpec
CONSTANTS
    Specs <- WithDatabase
    Installed <- MCInstalled
    Namespace = "multinic-system"
    Webhook = TRUE
    MaxUserOps = 2
    MaxFaults = 0
    NoOp = NoOp
    NoChild = NoChild
CHECK_DEADLOCK FALSE
PROPERTIES
    ChildrenCollected

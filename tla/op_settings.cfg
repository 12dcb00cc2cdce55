SPECIFICATION FairSpec
CONSTANTS
    Specs <- Credentials
    Installed <- MCInstalled
    Namespace = "multinic-system"
    Webhook = FALSE
    MaxUserOps = 2
    MaxFaults = 0
    NoOp = NoOp
    NoChild = NoChild
CHECK_DEADLOCK FALSE
PROPERTIES
    SettingsArrive

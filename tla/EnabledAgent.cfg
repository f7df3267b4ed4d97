SPECIFICATION FairSpec
CONSTANTS
    Nets = {n1}
    Admin = {"disable", "enable", "reconcile"}
    MaxAdmin = 3
    MaxCrashes = 0
    Lossy = FALSE
    Slow = FALSE
    Faulty = FALSE
    None = None
    Torn = Torn
CHECK_DEADLOCK FALSE
PROPERTIES
    EnableRestores

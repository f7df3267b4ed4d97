SPECIFICATION FairSpec
CONSTANTS
    Nets = {n1}
    Admin = {"disable", "enable", "revoke", "rotate", "reconcile",
             "policy", "dns"}
    MaxAdmin = 3
    MaxCrashes = 1
    Lossy = TRUE
    Slow = TRUE
    Faulty = TRUE
    None = None
    Torn = Torn
CHECK_DEADLOCK FALSE
INVARIANTS
    TypeOK
    KeyHeld
    KeyCustody
PROPERTIES
    AppliesServersKey
    PlannedIsApplied
    RotationArrives
    DisabledGoesDown

SPECIFICATION Spec
CONSTANTS
    Users = {u1, u2}
    Sessions = {s1, s2}
    Keys = {k1}
    Clients = {c1, c2}
    AutoCreate = TRUE
    MaxChanges = 2
    MaxRequests = 3
    Staff = {u1, u2, u3}
    Operators = {u3}
    Agents = {a1}
    Handlers = {c1, c2}
    ApprovalIds = {p1}
SYMMETRY Symmetry
CHECK_DEADLOCK FALSE
INVARIANTS
    AcctTypeOK
    OldSessionsEnd
    EnabledSecretIsConfirmed
    ApprTypeOK
    ApprovedIsDone
PROPERTIES
    LastAdminFalls
    DecidedOnce
    AloneOnlyInBulk

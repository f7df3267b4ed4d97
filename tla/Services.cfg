SPECIFICATION Spec
CONSTANTS
    Sinks = {s1, s2}
    Events = {e1, e2, e3}
    Emitters = {m1, m2}
    Admins = {d1, d2}
    QueueSize = 2
    Attempts = 2
    DeadLetterLimit = 1
    MaxEdits = 3
    MaxFaults = 1
    Updates = {u1, u2}
    Checks = {k1, k2}
    EventIds = {1, 2, 3}
    Recorders = {r1, r2}
    Servers = {n1, n2}
    LastInstant = 2
    TextRank <- TextOrder
    PageSize = 1
    Nodes = {n1, n2}
    LeaseTTL = 1
    LastTime = 5
    Pools = {p1}
    ReservationIds = {v1, v2, v3}
    AddressCount = 4
    Allocators = {c1, c2}
    Callers = {c1, c2}
    MaxN = 2
    Window = 2
    Horizon = 7
    SecondOf <- HalfSeconds
    TextPlace <- WholeSecondLast
CHECK_DEADLOCK FALSE
INVARIANTS
    LogTypeOK
    CacheFollowsTables
    CountersNeverExceed
    RunningIsShown
    ForksAreExplained
    ExportIsComplete
    OneUnexpiredLeader
    ReservationsAreUsable
    OvershootIsBounded
PROPERTIES
    DeliveryIsImplemented
    UpdateLetsGo

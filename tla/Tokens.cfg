SPECIFICATION Spec
CONSTANTS
    Agents = {a1, a2}
    Hosts = {h1, h2}
    Keys = {k1, k2}
    Tokens = {t1, t2}
    Policies = {}
    Nets = {}
    Internet = Internet
    PoolSize = 1
    ListLimit = 1
    Workers = {w1, w2}
    Ops <- TokenOps
    Faults = TRUE
    None = None
SYMMETRY Symmetry
CHECK_DEADLOCK FALSE
INVARIANTS
    TypeOK
    WithdrawnTokenAdmitsNobody
    WithdrawnTokenIsRevoked
    SpentTokenHasPeer
    BoundHostname

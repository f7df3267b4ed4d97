SPECIFICATION Spec
CONSTANTS
    Agents = {a1, a2}
    Hosts = {h1}
    Keys = {k1, k2}
    Tokens = {t1}
    Policies = {}
    Nets = {}
    Internet = Internet
    PoolSize = 2
    ListLimit = 1
    Workers = {w1, w2}
    Ops <- TokenOps
    Faults = FALSE
    None = None
SYMMETRY Symmetry
CHECK_DEADLOCK FALSE
INVARIANTS
    BoundTokenIsSingleUse

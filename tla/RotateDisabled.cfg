SPECIFICATION Spec
CONSTANTS
    Agents = {a1}
    Hosts = {h1}
    Keys = {k1}
    Tokens = {t1}
    Policies = {}
    Nets = {}
    Internet = Internet
    PoolSize = 1
    ListLimit = 1
    Workers = {w1}
    Ops <- StateOps
    Faults = FALSE
    None = None
SYMMETRY Symmetry
CHECK_DEADLOCK FALSE
INVARIANTS
    DisabledIsCutOff

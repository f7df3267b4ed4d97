SPECIFICATION Spec
CONSTANTS
    Agents = {a1, a2}
    Hosts = {h1, h2}
    Keys = {k1, k2}
    Tokens = {t1, t2}
    Policies = {p1, p2}
    Nets = {n1, n2}
    Internet = Internet
    PoolSize = 2
    ListLimit = 2
    Workers = {w1}
    Ops <- IntentOps
    Faults = FALSE
    None = None
SYMMETRY Symmetry
CONSTRAINT OneTokenOrPolicy
CHECK_DEADLOCK FALSE
INVARIANTS
    IntentIsRendered
    RenderedInv

SPECIFICATION Spec
CONSTANTS
    Agents = {a1, a2, a3}
    Hosts = {h1, h2}
    Keys = {k1, k2, k3}
    Tokens = {t1, t2, t3}
    Policies = {}
    Nets = {}
    Internet = Internet
    PoolSize = 2
    ListLimit = 1
    Workers = {w1}
    Ops <- InventoryOps
    Faults = FALSE
    None = None
CONSTRAINT TwoAgentsUnlessOnboarding
SYMMETRY Symmetry
CHECK_DEADLOCK FALSE
INVARIANTS
    
    RevokedLeavesNothing
    SingleUse
    

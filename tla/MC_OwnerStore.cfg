CONSTANTS
    theo = theo
    astra = astra
    iris = iris
    t1 = t1
    x1 = x1
    h1 = h1
    h2 = h2
    Threads = {h1, h2}
    Agents = {theo, astra, iris}
    TypeOf <- MCTypeOf
    RoleOf <- MCRoleOf
    Suspended = {iris}
    Tasks = {t1}
    Matters = {x1}
    Budget = 1
    MaxReward = 1
SYMMETRY HandlerSymmetry
SPECIFICATION StoreSpec
INVARIANTS
    DecisionsHold
    LedgerRests
CONSTRAINT Few

SPECIFICATION WorkflowSpec
CONSTANTS
    t1 = t1
    exec = exec
    rev = rev
    aud = aud
    Tasks = {t1}
    BudgetOf <- MCBudgetOf
    Keys = {k1, k2, k3}
    Amounts = {1}
    Qualities = {100}
    Rates = {5000}
    MaxFunds = 1
    Agents = {exec, rev, aud}
    TypeOf <- MCTypeOf
    RoleOf <- MCRoleOf
    MaxAudits = 2
SYMMETRY KeySymmetry
INVARIANTS
    RewardWasDecided
    CompletionStands
    HandsApart
PROPERTY
    OneLedgerCommand

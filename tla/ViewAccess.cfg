SPECIFICATION Spec
CONSTANTS
    Users = {a, b, t}
    TeamManagers = {t}
    SystemAdmins = {t}
    Creator = a
    MinimumRole = "editor"
    Granted = {"editor", "admin"}
    Calls = {c1, c2}
    Views = {v1, v2, v3}
    FirstViews = {v1, v2}
    Requests = {r1, r2}
    InOrder = TRUE
    Budgets <- SmallBudgets
SYMMETRY Symmetry
INVARIANTS
    ManagerRemains
    SharedViewRemains
    
    MenusMatchGate
CHECK_DEADLOCK FALSE

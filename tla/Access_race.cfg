SPECIFICATION Spec
CONSTANTS
    u1 = u1
    u2 = u2
    Users = {u1, u2}
    Handlers = {h1, h2}
    Registered <- SoleAdmin
    Assigned = {"USER", "ADMIN"}
    Routes = {"updateUserRole", "operate", "own"}
    Lifetime = 2
    MaxTokens = 2
    MaxTime = 2
    Unreachable = TRUE
SYMMETRY Symmetric
INVARIANTS
    TypeOK
    ServedAuthorised
    ServedRoleChecked
PROPERTIES
    RoleChangeAuthorised
    AdminRemains

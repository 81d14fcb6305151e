CONSTANTS
    c1 = c1
    c2 = c2
    k1 = k1
    v1 = v1
    v2 = v2
    r1 = r1
    r2 = r2
    b1 = b1
    b2 = b2
    Clusters = {c1, c2}
    Roles = {r1, r2}
    Bindings = {b1, b2}
    Keys = {k1}
    Values = {v1, v2}
    Missing = Missing
    None = None
    User = user
    SubjectSets = {{}, {user}}
    RoleSet <- MCRoleSet
    LabelSet <- MCLabelSet
    MaxEdits = 2
    MaxFaults = 1
SPECIFICATION Spec
SYMMETRY Interchangeable
INVARIANTS
    UndisturbedExact
    NoPhantomAccess
    SteadyAccessKept

CONSTANTS
    u1 = u1
    u2 = u2
    u3 = u3
    c1 = c1
    c2 = c2
    Updaters = {u1, u2, u3}
    Deleters = {d1, d2}
    Clusters = {c1, c2}
    Adds <- MCAdds
    Steps = 2
SPECIFICATION Spec
INVARIANTS
    NoLostUpdate
    TokenDiesWithLease
PROPERTIES
    ImplementsAtomicToken

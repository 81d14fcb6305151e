CONSTANTS
    c1 = c1
    c2 = c2
    u1 = u1
    u2 = u2
    u3 = u3
    metrics = metrics
    logs = logs
    traces = traces
    Creators = {c1, c2}
    Updaters = {u1, u2, u3}
    Deleters = {d1}
    CapOf <- MCCapOf
    Editors = {u2}
    Backend = "crds"
    Steps = 2
SPECIFICATION Spec
PROPERTIES
    ModifiedIsRetried
    ImplementsAtomicCluster

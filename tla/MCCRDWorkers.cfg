CONSTANTS
    o1 = o1
    a = a
    b = b
    ns = ns
    None = None
    Objects = {o1, o2}
    Names = {a, b}
    Images = {v1, v2}
    Deployments = {d1}
    StatefulSets = {}
    Bare = {d1}
    Namespaces = {ns}
    NamespaceOf <- OneNamespace
    NamesOf <- OwnNames
    Workers = {w1, w2}
    MaxRetries = 1
    MaxChanges = 2
    MaxEdits = 1
    MaxFaults = 1
    MaxRestarts = 1

SPECIFICATION Spec
SYMMETRY Symmetry
CHECK_DEADLOCK FALSE

INVARIANTS
    OneWorkerPerKey
    DrainedAtStop
    NoChangeIsLost

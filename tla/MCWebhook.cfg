CONSTANTS
    o1 = o1
    a = a
    ns = ns
    d1 = d1
    None = None
    Objects = {o1}
    Names = {a}
    Images = {v1, v2}
    Deployments = {d1}
    StatefulSets = {s1}
    Bare = {s1}
    Namespaces = {ns}
    NamespaceOf <- OneNamespace
    NamesOf <- OwnNames
    Workers = {w1}
    Pods = {p1}
    OwnerOf <- OwnedByD1
    LabelOf <- LabelledA
    MaxRetries <- Unlimited
    MaxChanges = 2
    MaxEdits = 0
    MaxFaults = 1
    MaxRestarts = 1

SPECIFICATION WebhookSpec
CHECK_DEADLOCK FALSE

INVARIANTS
    TypeOK
    NoChangeIsLost
    CacheFollowsCRD
    LabelledPodsAreWhole

PROPERTIES
    ChangesSettle
    RunReturns
    RefusalsEnd

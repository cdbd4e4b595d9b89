CONSTANTS
    a = a
    b = b
    c = c
    d = d
    k = k
    j = j
    Labels <- MCLabels
    Classes <- MCClasses
    Policies <- MCPolicies
    Buckets = 2
    MaxSid = 6
    Unlabeled = 2
SPECIFICATION Spec
INVARIANTS TableOK ObjectSidsCurrent DroppedUnlabeled
PROPERTY ImplementsSidMap

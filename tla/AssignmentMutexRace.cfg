SPECIFICATION MCSpec
CONSTANTS
    NoVariant = NoVariant
    NoGroup = NoGroup
    E1 = E1
    E2 = E2
    G = G
    R1 = R1
    R2 = R2
    Scopes = {"both"}
    Users <- OneUser
    Experiments <- TwoExps
    Requests <- TwoSlots
    VariantsOf <- TwoVariants
    Bucket <- MCBucket
    TrafficBucket <- AllIn
    Traffic <- Half
    MutexGroupOf <- Grouped
    Linked <- NoExps
    Targeted <- NoExps
INVARIANTS
    MutexExclusive

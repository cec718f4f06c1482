CONSTANTS
    num_buckets = 2
    kTagsPerBucket = 3
    kMaxCuckooCount = 3
    Tag = {1, 2, 3}
    AltIndex <- MCAltIndex
SPECIFICATION FilterSpec
INVARIANTS
    FilterTypeOK
    SlotsCounted
    ContainExact
    RefusesOnlyWhenCrowded
PROPERTIES
    ImplementsBag

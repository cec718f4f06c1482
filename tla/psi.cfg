CONSTANTS
    num_buckets = 2
    kTagsPerBucket = 3
    kMaxCuckooCount = 3
    Tag = {1, 2, 3, 4, 5, 6, 7, 8, 9, 10, 11}
    AltIndex <- MCAltIndex
    ElementBits = 3
    Cipher <- MCCipher
    Order = 11
    a0 = 1
    a <- MCa
    KeyBits = 4
    Hashes <- MCHashes
    ServerSets <- MCServerSets
    ClientSets <- MCClientSets
    Choices <- MCChoices
    Keys <- MCKeys
    num_threads = 3
    PartSize = 4
    Capacity = 6
SPECIFICATION FairSpec
INVARIANTS
    TypeOK
    Lockstep
    EncryptedOnce
    CopyIsFaithful
    SameFunction
    IntersectionExact
PROPERTIES
    Termination
CHECK_DEADLOCK FALSE

SPECIFICATION FairSpec
CONSTANTS
    MaxRows = 2
    MaxBoots = 2
    Cap = 1
    Batch = 1
    LeaseTtl = 1
    MaxAge = 1
    t1 = t1
    t2 = t2
    t3 = t3
    Tokens = {t1, t2, t3}
    NoTok = NoTok
INVARIANTS
    LeaseHonoured
    NoSilentLoss
PROPERTIES
    EveryRowLeaves KeepsPromise

\* Two clients that cancel, ids that wrap and two boots.
SPECIFICATION FairSpec
CONSTANTS
    c1 = c1
    c2 = c2
    k1 = k1
    k2 = k2
    s1 = s1
    s2 = s2
    Clients = {c1, c2}
    Keys = {k1}
    Schemas = {s1, s2}
    QueueSize = 2
    IdModulus = 2
    MaxIssued = 2
    MaxAccepted = 2
    MaxBoots = 2
INVARIANTS ReplyIsOwn FlashIsTrue
PROPERTIES WaitersAreAnswered IsAtomicStore
CHECK_DEADLOCK FALSE

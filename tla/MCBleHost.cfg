\* Two peers, one host profile and the dongle slot.
SPECIFICATION FairSpec
CONSTANTS
    p = p
    q = q
    Peers = {p, q}
    NoPeer = NoPeer
    NumProfiles = 1
    AdvTicks = 2
    Scenarios <- MCScenarios
    PasskeyLength = 1
    MaxSessions = 2
INVARIANTS ServiceIsSound BondsAgree
PROPERTIES BondKeepsOwner RestsAndWakes
CHECK_DEADLOCK FALSE

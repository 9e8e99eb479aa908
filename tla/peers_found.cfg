\* One peer at a bootstrap address, dialling in as well; liveness.
SPECIFICATION Spec
CONSTANTS
    p1 = p1
    a1 = a1
    a2 = a2
    Peers = {p1}
    Addrs = {a1}
    PeerAt <- OnePeer
    Bootstrap = {a1}
    Names = {1, 2, 3}
    MaxAttempts = 1
    MaxMisses = 2
    MaxHealthMisses = 2
    MaxManaged = 2
    None = None
\* After the shutdown nothing happens.
CHECK_DEADLOCK FALSE
INVARIANT AnswersReach
PROPERTIES ConnectionsReturn Recovers

\* One peer and three networks; two rounds of two participants; two public requests, four offers.
SPECIFICATION NetworkSpec
CONSTANTS
    p = p
    home = home
    lab = lab
    far = far
    k1 = k1
    p1 = p1
    p2 = p2
    t1 = t1
    t2 = t2
    r1 = r1
    r2 = r2
    Peers = {p}
    BootstrapPeers = {p}
    Home = home
    Hostable = {lab}
    Foreign = {far}
    Keys = {k1}
    NoKey = NoKey
    NotHosted = NotHosted
    Participants = {p1, p2}
    Rounds = {t1, t2}
    MinParticipants = 1
    MaxNorm = 1
    Deltas <- Moves
    Samples = {0, 2}
    Useless = Useless
    Waiting = Waiting
    Failed = Failed
    None = None
    Requests = {r1, r2}
    Offers <- MCOffers
    DailyBudget = 0
    MaxCost = 1
    PerMinute = 1
SYMMETRY Interchangeable
INVARIANTS Admitted StaysJoined QuorumOfOwn Influence
PROPERTIES NearestFirst
CHECK_DEADLOCK FALSE

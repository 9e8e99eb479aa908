\* A request to load, a list and the poll of a relay, with unloads and evictions under them.  Three
\* endpoints that serve the same model; two of them share a label and are in the settings.
SPECIFICATION ModelsSpec
CONSTANTS
    e1 = e1
    e2 = e2
    e3 = e3
    l = l
    k = k
    m0 = m0
    f = f
    Models = {a, b, c}
    Serial = {a}
    Batched = {b}
    Slots = 1
    Requests = {r1}
    Loaders = {l1, boot, poll}
    Unloaders = {u1, poll}
    Lists = {boot}
    Poller = poll
    Watcher = w
    MaxLoads = 3
    MaxCancels = 0
    Relays = {e1, e2, e3}
    Env = {e1, e2}
    Label <- Hosts
    Upstream = {m0}
    Files = {}
    MaxAttempts = 1
    Kills = 2
    Calls = 2
    None = None
SYMMETRY Endpoints
INVARIANTS Registered OwnEndpoint
\* The node stops when all loads of the bound have failed.
CHECK_DEADLOCK FALSE

\* A llama.cpp model, an mlx batch and a remote: requests, loads, an unload, evictions.  A local
\* model that kills the process, beside a relay and its model.
SPECIFICATION ModelsSpec
CONSTANTS
    e1 = e1
    e2 = e2
    e3 = e3
    l = l
    k = k
    m0 = m0
    f = f
    Models = {a, b, c}
    Serial = {a}
    Batched = {b}
    Slots = 2
    Requests = {r1, r2}
    Loaders = {l1, poll}
    Unloaders = {u1}
    Lists = {}
    Poller = poll
    Watcher = w
    MaxLoads = 3
    MaxCancels = 1
    Relays = {e1}
    Env = {e1}
    Label <- Hosts
    Upstream = {m0}
    Files = {f}
    MaxAttempts = 2
    Kills = 3
    Calls = 2
    None = None
SYMMETRY Interchangeable
INVARIANTS OnePass CountsHold LoopEnds
\* The node stops when all loads of the bound have failed.
CHECK_DEADLOCK FALSE

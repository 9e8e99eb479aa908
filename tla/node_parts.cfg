SPECIFICATION NodeSpec
CONSTANTS
    a = a
    g = g
    hf = hf
    url = url
    m1 = m1
    j1 = j1
    j2 = j2
    q1 = q1
    v1 = v1
    Nodes = {a}
    Running = {a}
    MaxDelay = 1
    NewNodes = 1
    Crashes = 1
    Sources = {hf, url}
    Attested = {url}
    MaxTasks = 2
    Manifests = {m1}
    Files = 2
    Stops = 1
    Jobs = {j1, j2}
    Characters = {"x", "y"}
    Pieces <- MCPieces
    Reach = 2
    StopString <- MCStop
    MaxTokens <- MCMaxTokens
    SoloPath = TRUE
    Consumed = {q1}
    Tries = 2
    Answers = {v1}
    InitialCredits = 1
    Ttl = 1
    MaxClock = 1
    Exits = 1
INVARIANTS OnlyGranted FilesWhole StreamExact AccountKept
PROPERTIES Listed WorkEnds
CHECK_DEADLOCK FALSE

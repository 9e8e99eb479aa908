SPECIFICATION Spec
CONSTANTS
    a = a
    b = b
    c = c
    Nodes = {a, b, c}
    Origin = a
    Believed <- Mutual
    Hops = {1, 2}
    Root = root
    Nothing = Nothing
    Chunks = 2
    MaxConcurrent = 1
    QueueMax = 1
INVARIANTS OneVoice SlotsHeld
PROPERTY AskedEnds
CHECK_DEADLOCK FALSE

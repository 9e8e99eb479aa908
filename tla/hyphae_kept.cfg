\* A reviewed and a voted task together, then a simple one; two files.
SPECIFICATION HySpec
CONSTANTS
    a = a
    b = b
    c = c
    f = f
    g = g
    Cards = {a, b, c}
    Files = {f, g}
    Depends <- After
    Complexity <- Mixed
    Devices = 3
    Plans = 2
    Iterations = 2
    Micros = 1
    None = None
CHECK_DEADLOCK FALSE
INVARIANTS DoneStands NoLeftovers
PROPERTIES RunEnds

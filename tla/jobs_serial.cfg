\* The scheduler's loop alone, with two crashes or shutdowns.
SPECIFICATION LiveSpec
CONSTANTS
    NJobs = 2
    MaxStake = 1
    AgeBonus = 1
    PendingLimit = 1
    MaxConcurrent = 1
    Nudges = {}
    Loop = loop
    Cancellers = {}
    MaxMishaps = 2
    ReadySets <- AnyReady
INVARIANT SerialRefund
PROPERTIES ClaimEnds QueueMoves

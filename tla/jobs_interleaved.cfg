\* The loop, a nudge and a cancel request interleave; one crash or shutdown.
SPECIFICATION Spec
CONSTANTS
    NJobs = 2
    MaxStake = 1
    AgeBonus = 1
    PendingLimit = 2
    MaxConcurrent = 1
    Nudges = {n1}
    Loop = loop
    Cancellers = {c1}
    MaxMishaps = 1
    ReadySets <- AlwaysReady
INVARIANTS OneExecutor NothingStranded
PROPERTIES KeepsPromise

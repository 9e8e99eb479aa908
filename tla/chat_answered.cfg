\* A large model here, at peers and in the fleet, a small and an embedding one here.
SPECIFICATION ChatSpec
CONSTANTS
    big = big
    small = small
    embed = embed
    f1 = f1
    f2 = f2
    Models = {big, small, embed}
    Embedding = {embed}
    Fleet = {f1, f2}
    Lists <- Listed
    Here = {big, small, embed}
    There = {big}
    AnyModel = auto
    Named = {auto, big}
    Meeting = {{}}
    Affording = {{small, embed}}
INVARIANTS NoneIsTrue LocalStays OneSource
\* A request ends.
CHECK_DEADLOCK FALSE

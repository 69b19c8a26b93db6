SPECIFICATION FairSpec
CONSTANTS
    Threads = {t1, t2, t3}
    Chunks = {good, bad}
    Damaged = {bad}
    Capacity = 1
    NoFlight = NoFlight
INVARIANT OneDecoder
INVARIANT CacheHonest
INVARIANT FollowersAreLed
PROPERTY ReadsReturn

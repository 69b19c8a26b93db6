SPECIFICATION FairSpec
CONSTANTS
    Size = 2
    Hanging = {1}
    Timed = {TRUE, FALSE}
INVARIANT FreshData
INVARIANT HealthyOwnsBuffer
PROPERTY CallsReturn
PROPERTY WorkerEnds

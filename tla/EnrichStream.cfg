\* Slow viewers, a clear at any point, lists and upserts that fail.
SPECIFICATION EnrichFairSpec
CONSTANTS
    v1 = v1
    v2 = v2
    Viewers = {v1}
    Jobs = 2
    Items = {"ip", "domain"}
    JobOf <- MCJobOf
    ClearedJobs = {1}
    BufferCap = 1
    MaxRuns = 2
    EnrichFaults = {"list", "upsert", "clear"}
INVARIANTS
    OneRunAtATime
    NoOrphanUnlessDropped
    DoneMeansCached
PROPERTY
    RunFinishes

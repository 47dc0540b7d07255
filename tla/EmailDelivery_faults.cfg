\* a job and one no worker can read, every fault, a consumer at a time
SPECIFICATION FairSpec
CONSTANTS
    Jobs = {j1, bad}
    Malformed = {bad}
    Handlers = {h1, h2}
    Prefetch = 1
    Retries = 1
    Nil = Nil
    Faults = {"publish", "ambiguous"}
    MaxDrops = 1
INVARIANTS
    OneMailPerDelivery
    TriesAreBounded
    RefusedIsFinal
    DeadAfterRetries
PROPERTIES
    ImplementsPromise
    EveryJobSettles

SPECIFICATION AccountSpec
CONSTANTS
    o1 = o1
    o2 = o2
    r1 = r1
    r2 = r2
    api = api
    worker = worker
    None = None
    Ops = {o1, o2}
    Runs = {r1, r2}
    Processes = {api, worker}
    ProcessOf <- MCProcessOf
    MaxNested = 1
INVARIANTS RetryFindsChannels NothingIsLeft
PROPERTIES ImplementsBarrier

SPECIFICATION Spec
CONSTANTS
    r1 = r1
    r2 = r2
    worker = worker
    apiProcess = apiProcess
    workerProcess = workerProcess
    ApiSlots = {r1, r2}
    Publisher = worker
    Process <- TwoProcesses
    DetailTTL = 2
    CatalogTTL = 1
    Cooldown = 1
    MaxRequestTicks = 1
    MaxWrites = 1
    MaxFaults = 1
SYMMETRY Symmetry
INVARIANTS
    BoundedStaleness
    PublishedAppears

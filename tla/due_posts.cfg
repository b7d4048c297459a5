SPECIFICATION FairSpec
CONSTANTS
    LastId = 5
    BatchSize = 2
    MaxBatches = 2
    Pool = 2
    MaxExits = 1
    Stuck <- FirstTwo
PROPERTIES NoStarvation

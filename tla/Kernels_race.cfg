SPECIFICATION Spec
CONSTANTS
    Catalog <- MCCatalog
    Chosen <- Racing
    Reps = 2
    Lead = 60
    Together = 2
    Target1 = 10
    Target2 = 16
    Target3 = 27
    BlockSize = 4
    MaxBlocks = 2
    TileX = 3
    TileY = 2
    Threads = 3
    TargetMesh = 8
    TargetFem = 64
    PackDirs = {0, 6, 18}
    PackVars = 2
INVARIANT ReadsAsSequential
CHECK_DEADLOCK FALSE

SPECIFICATION Spec
CONSTANTS
    Catalog <- ThreadCatalog
    Chosen <- Gradient
    Reps = 1
    Lead = 26
    Together = 2
    Target1 = 10
    Target2 = 16
    Target3 = 27
    BlockSize = 4
    MaxBlocks = 2
    TileX = 3
    TileY = 2
    Threads = 3
    TargetMesh = 8
    TargetFem = 27
    PackDirs = {0, 6, 18}
    PackVars = 2
INVARIANT ReadsAsSequential
CHECK_DEADLOCK FALSE

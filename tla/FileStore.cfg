CONSTANTS
    save1 = save1
    core1 = core1
    nopath = nopath
    SavePaths <- MCSavePaths
    CorePaths <- MCCorePaths
    NoPath <- nopath
    Data <- MCData
    Modes <- MCModes
    BufSize = 1024
    MaxOpen = 2
    MaxContent = 2
    SeekOffsets <- MCSeekOffsets
SPECIFICATION Spec
INVARIANT TypeOK
INVARIANT LargeSaveDurable
PROPERTY PolicyNoTruncate

CONSTANTS
    Segs = {s1, s2, s3}
    Views = {v1, v2}
    Holders = {h1, h2}
    NoBuf = NoBuf
    InitialBuffers = 1
    MaxBuffers = 4
    ExpandSize = 2
    LowWatermark = 0
    HighWatermark = 2
SPECIFICATION Spec
SYMMETRY Symmetry
INVARIANTS
    NoUseAfterFree
    SizeInBounds
    PoolInv
PROPERTIES
    NoThrash

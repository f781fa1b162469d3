SPECIFICATION Spec
CONSTANTS
    First <- MCFirst
    SeqMod = 64
    Window = 8
    Collect = 3
    Last = 80
    MaxLate = 9
    MaxJump = 10
    InitSpread = 8
INVARIANTS
    RingInv
PROPERTIES
    Reordered
CHECK_DEADLOCK FALSE

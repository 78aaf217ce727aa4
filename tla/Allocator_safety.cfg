SPECIFICATION Spec
CHECK_DEADLOCK FALSE
CONSTANTS
    n1 = n1
    n2 = n2
    Notifiers = {n1, n2}
    kdcomHook = "Callback"
    Sizes = {1, 2}
    ByteBits = 2
    WordBytes = 1
    m_size = 6
    NtStart = 3
    KdStarts = {2}
SYMMETRY Symmetry
INVARIANTS
    ArenaConsistent
    ArenaExclusive
    NoUseAfterUninit

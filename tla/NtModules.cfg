SPECIFICATION FairSpec
CHECK_DEADLOCK FALSE
CONSTANTS
    t1 = t1
    t2 = t2
    p1 = p1
    p2 = p2
    Threads = {t1, t2}
    Procs = {p1, p2}
    Groupings <- ApartOrTogether
    a = a
    b = b
    Mods = {a, b}
    MayLoad <- Modules
INVARIANTS
    SessionFindsWholeList
    
PROPERTIES
    UnloadedAreRemoved
    EventuallyFrozen

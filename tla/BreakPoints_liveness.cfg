SPECIFICATION FairSpec
CHECK_DEADLOCK FALSE
CONSTANTS
    t1 = t1
    t2 = t2
    Threads = {t1, t2}
    Code <- EntryCode
    Instr <- EntryInstr
    BpAddrs = {300}
    StartAddr = 99
    DelAddr = 500
    ProcOf <- OneProc
    Filters <- OnlyPlain
    FaultAddrs <- None
    JsTargets <- None
    RTargets <- None
    MaxHandles = 2
    MaxBps = 1
    Dim = 3
    Near = 64
    Stream = 16
INVARIANTS
    OneStepBp
PROPERTIES
    EventuallyArmed

SPECIFICATION Spec
CHECK_DEADLOCK FALSE
CONSTANTS
    t1 = t1
    t2 = t2
    Threads = {t1}
    Code <- BreakCode
    Instr <- BreakInstr
    BpAddrs = {100, 300}
    StartAddr = 100
    DelAddr = 500
    ProcOf <- OneProc
    Filters <- OnlyPlain
    FaultAddrs <- None
    JsTargets <- None
    RTargets = {300}
    MaxHandles = 3
    MaxBps = 2
    Dim = 3
    Near = 64
    Stream = 16
INVARIANTS
    StepBpAfterInstr

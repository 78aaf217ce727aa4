SPECIFICATION SeqSpec
CONSTANTS
    ByteBits = 2
    WordBytes = 3
    m_size = 14
    Starts = {0, 7}
    Lengths = {4, 7}
    Systems = {"xp", "vista", "win10"}
    Stores <- BootStores
    MaxBackups = 3
    MaxVersion = 3
    MaxEntries = 4
    MaxEvals = 2
    MaxRequests = 3
    MaxCommands = 4
CHECK_DEADLOCK FALSE
INVARIANTS
    BitmapExact
    LogKept
    HexNumbersFound
    StepsWhereCpuGoes
    SymbolsFound
    
    LayoutKept
    InstallKeepsWindows
    InstallOneEntry
    ConfigKept
    JsRequestsServed
    PageInServed

    

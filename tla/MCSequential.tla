---------------------------- MODULE MCSequential ----------------------------
(* The sequential parts of the debugger, one behind the other: the search of  *)
(* the allocator's bit map, the installation of Symbol Loader, the requests   *)
(* of JavaScript and the command PAGEIN, whose modules are used unchanged,    *)
(* and, as instances, the log window, the search for numbers on the screen,   *)
(* the disassembler window, the destination of a step, symbol files, the list *)
(* of kernel modules, the layout of the screen and the configuration file.    *)
(* They share no state; part says which one a behaviour is about: the others  *)
(* stay in an initial state, the variables of instances are 0.                *)
EXTENDS BitmapSearch, KdcomInstall, JsEval, PageIn, TLC

VARIABLES part,
    contents, newLine, posY, winDim, GoToEnd_Pending, historyPos, printed, cmds, scrolled,
    shrunk, recalled, trimmed,
    row, text, x, pos, matches,
    mem, counter, dim, w, op,
    ins, cpuCtx, dest,
    PublicSymbols, DataTypes, DataTypeMembers, current, added, written, query, start, end,
    found,
    loaded, mods, session, seen,
    l,
    config, file, dlg, saved, want

logVars     == <<contents, newLine, posY, winDim, GoToEnd_Pending, historyPos, printed, cmds,
                 scrolled, shrunk, recalled, trimmed>>
hexVars     == <<row, text, x, pos, matches>>
disasmVars  == <<mem, counter, dim, w, op>>
stepVars    == <<ins, cpuCtx, dest>>
symbolsVars == <<PublicSymbols, DataTypes, DataTypeMembers, current, added, written, query,
                 start, end, found>>
kernelVars  == <<loaded, mods, session, seen>>
layoutVars  == <<l>>
configVars  == <<config, file, dlg, saved, want>>

LogStrings == {<< >>, <<"x">>, <<"x", "\n">>, <<"\n", "\n">>}
HexRows == [1 .. 6 -> {"A", "B", "-"}]
HexWords == UNION {[1 .. n -> {"A", "B"}] : n \in 1 .. 3}
Codes == {[a \in 0 .. 90 |-> IF a % 3 = 1 THEN 2 ELSE 1], [a \in 0 .. 90 |-> 2],
          [a \in 0 .. 90 |-> 3]}
CodeSyms == {30, 33, 34, 36, 42, 43, 45, 46, 48, 51, 54, 60}
Widths == 16 :> 2 @@ 32 :> 3 @@ 64 :> 4
BootEntry(m, d) == [mine |-> m, new |-> FALSE, debug |-> d, kd |-> "none"]
BootStores ==
    {<<BootEntry(TRUE, FALSE)>>, <<BootEntry(FALSE, FALSE), BootEntry(TRUE, TRUE)>>,
     <<BootEntry(FALSE, FALSE)>>}

Log == INSTANCE LogWnd WITH
           Strings <- LogStrings, WinDims <- {1, 2}, MaxSize <- 6, MaxLines <- 5,
           MaxPrinted <- 4, MaxCmds <- 2
Hex == INSTANCE HexMatch WITH Hex <- {"A", "B"}, Rows <- HexRows, Words <- HexWords
Dis == INSTANCE DisasmWnd WITH
           Memories <- Codes, Syms <- CodeSyms, Half <- 28, Dims <- {3, 5},
           Places <- {30, 36, 48}, pc <- counter
Cpu == INSTANCE X86Step WITH
           Width <- Widths, Pcs <- {0, 3, 7, 15}, Counts <- {0, 1, 4, 5, 8, 9, 15},
           Values <- {0, 6, 8, 15}, Offsets <- {-2, 0, 2}, ctx <- cpuCtx
Sym == INSTANCE Symbols WITH
           Addresses <- 0 .. 3, Lengths <- {0, 1, 3}, Names <- {1, 2},
           MaxPublics <- 3, MaxTypes <- 3, MaxMembers <- 2
Ker == INSTANCE KernelModules WITH
           Images <- 1 .. 3, Bases <- 1 .. 3, SizeOf <- <<1, 2, 3>>, MaxLoaded <- 3
Div == INSTANCE DivLines WITH Heights <- {25, 27}, RegLines <- {3, 6}, Sizes <- {3, 9, 160}
Cfg == INSTANCE ConfigFile WITH
           Kernels <- {"k1", "k2"}, Others <- {"u1"}, Widths <- {"", "1"}, Servers <- {"s"},
           Cuts <- {2, 6}

bitmapVars == vars

seqVars == <<part, bitmapVars, logVars, hexVars, disasmVars, stepVars, symbolsVars, kernelVars,
             layoutVars, installVars, configVars, jsVars, pageVars>>

-----------------------------------------------------------------------------
StartBitmap ==
    IF part = "bitmap" THEN Init
    ELSE /\ bits = {} /\ from0 = 0 /\ min_length = 7 /\ max_length = 7 /\ from = 0
         /\ bucket_index = 0 /\ viewed_bits = 0 /\ free_chunks = 0
         /\ pc = "buckets" /\ result = 0
StartLog ==
    IF part = "log" THEN Log!Init
    ELSE /\ contents = 0 /\ newLine = 0 /\ posY = 0 /\ winDim = 0 /\ GoToEnd_Pending = 0
         /\ historyPos = 0 /\ printed = 0 /\ cmds = 0 /\ scrolled = 0 /\ shrunk = 0 /\ recalled = 0 /\ trimmed = 0
StartHex ==
    IF part = "hex" THEN Hex!Init
    ELSE /\ row = 0 /\ text = 0 /\ x = 0 /\ pos = 0 /\ matches = 0
StartDis ==
    IF part = "disasm" THEN Dis!Init
    ELSE /\ mem = 0 /\ counter = 0 /\ dim = 0 /\ w = 0 /\ op = 0
StartCpu ==
    IF part = "step" THEN Cpu!Init
    ELSE /\ ins = 0 /\ cpuCtx = 0 /\ dest = 0
StartSym ==
    IF part = "symbols" THEN Sym!Init
    ELSE /\ PublicSymbols = 0 /\ DataTypes = 0 /\ DataTypeMembers = 0 /\ current = 0
         /\ added = 0 /\ written = 0 /\ query = 0 /\ start = 0 /\ end = 0 /\ found = 0
StartKer ==
    IF part = "kernel" THEN Ker!Init
    ELSE /\ loaded = 0 /\ mods = 0 /\ session = 0 /\ seen = 0
StartDiv ==
    IF part = "layout" THEN Div!Init
    ELSE /\ l = 0
StartKdc ==
    /\ InstallInit
    /\ part # "install" => os = "xp" /\ ini = Whole(<<BootEntry(TRUE, FALSE)>>)
StartCfg ==
    IF part = "config" THEN Cfg!Init
    ELSE /\ config = 0 /\ file = 0 /\ dlg = 0 /\ saved = 0 /\ want = 0

SeqInit ==
    /\ part \in {"bitmap", "log", "hex", "disasm", "step", "symbols", "kernel", "layout",
                "install", "config", "js", "pagein"}
    /\ StartBitmap /\ StartLog /\ StartHex /\ StartDis /\ StartCpu /\ StartSym /\ StartKer
    /\ StartDiv /\ StartKdc /\ StartCfg /\ JsInit /\ PageInit

SeqNext ==
    \/ part = "bitmap" /\ Next
       /\ UNCHANGED <<part, logVars, hexVars, disasmVars, stepVars, symbolsVars, kernelVars,
                      layoutVars, installVars, configVars, jsVars, pageVars>>
    \/ part = "log" /\ Log!Next
       /\ UNCHANGED <<part, bitmapVars, hexVars, disasmVars, stepVars, symbolsVars, kernelVars,
                      layoutVars, installVars, configVars, jsVars, pageVars>>
    \/ part = "hex" /\ Hex!Next
       /\ UNCHANGED <<part, bitmapVars, logVars, disasmVars, stepVars, symbolsVars, kernelVars,
                      layoutVars, installVars, configVars, jsVars, pageVars>>
    \/ part = "disasm" /\ Dis!Next
       /\ UNCHANGED <<part, bitmapVars, logVars, hexVars, stepVars, symbolsVars, kernelVars,
                      layoutVars, installVars, configVars, jsVars, pageVars>>
    \/ part = "step" /\ Cpu!Next
       /\ UNCHANGED <<part, bitmapVars, logVars, hexVars, disasmVars, symbolsVars, kernelVars,
                      layoutVars, installVars, configVars, jsVars, pageVars>>
    \/ part = "symbols" /\ Sym!Next
       /\ UNCHANGED <<part, bitmapVars, logVars, hexVars, disasmVars, stepVars, kernelVars,
                      layoutVars, installVars, configVars, jsVars, pageVars>>
    \/ part = "kernel" /\ Ker!Next
       /\ UNCHANGED <<part, bitmapVars, logVars, hexVars, disasmVars, stepVars, symbolsVars,
                      layoutVars, installVars, configVars, jsVars, pageVars>>
    \/ part = "layout" /\ Div!Next
       /\ UNCHANGED <<part, bitmapVars, logVars, hexVars, disasmVars, stepVars, symbolsVars,
                      kernelVars, installVars, configVars, jsVars, pageVars>>
    \/ part = "install" /\ InstallNext
       /\ UNCHANGED <<part, bitmapVars, logVars, hexVars, disasmVars, stepVars, symbolsVars,
                      kernelVars, layoutVars, configVars, jsVars, pageVars>>
    \/ part = "config" /\ Cfg!Next
       /\ UNCHANGED <<part, bitmapVars, logVars, hexVars, disasmVars, stepVars, symbolsVars,
                      kernelVars, layoutVars, installVars, jsVars, pageVars>>
    \/ part = "js" /\ JsNext
       /\ UNCHANGED <<part, bitmapVars, logVars, hexVars, disasmVars, stepVars, symbolsVars,
                      kernelVars, layoutVars, installVars, configVars, pageVars>>
    \/ part = "pagein" /\ PageNext
       /\ UNCHANGED <<part, bitmapVars, logVars, hexVars, disasmVars, stepVars, symbolsVars,
                      kernelVars, layoutVars, installVars, configVars, jsVars>>

SeqSpec == SeqInit /\ [][SeqNext]_seqVars

-----------------------------------------------------------------------------
(* Properties.                                                              *)

\* Alloc claims what find_clear returns without looking at the bits again, and takes a
\* failure for "out of memory": find_clear returns the first free range behind its start
\* and fails only if there is none, set_range changes the bits of the range and no others,
\* and count_in_range counts them, however words and bytes cut the range.
BitmapExact == TypeOK /\ FoundIsFree /\ FirstFit /\ SetRangeExact /\ CountExact

\* LogWnd::AddString loses and repeats nothing, however open lines are joined, empty ones
\* closed and old ones dropped, and adds no text to the line of a command, which
\* InputLine::Up offers for editing.  After every print and every new layout the last line
\* is in the window, except where dropped lines left the log shorter than the window; the
\* keys never scroll all lines out of it; Up and Down go on from the command they have
\* shown, whatever was printed or cleared since, unless old lines were dropped.
LogKept ==
    part = "log" => /\ Log!TextInOrder /\ Log!CommandsIntact
                    /\ Log!EndShown /\ Log!ScrollInside /\ Log!HistoryInPlace

\* Wnd::HighlightHexNumber finds each number of a row that completes the word, once and
\* from left to right.
HexNumbersFound == part = "hex" => Hex!AllNumbersFound

\* The disassembler window shows consecutive rows of the program, with every name above
\* its instruction, whichever keys, commands and sessions led to it.  Ctrl+Down and Ctrl+Up
\* move it by one row, names included; Ctrl+PgDn and Ctrl+PgUp leave no instruction out; a
\* session starts with the program counter in a window that was not scrolled or resized
\* since the last one.
DisasmRight ==
    [][part = "disasm" => /\ Dis!RowsAreConsecutive
                          /\ Dis!ScrollsByOne /\ Dis!PagesOverlap /\ Dis!PcIsShown]_seqVars

\* CalculateStepDestination tells where the processor goes, for every conditional jump,
\* loop, call and return.
StepsWhereCpuGoes == part = "step" => Cpu!StepsWhereCpuGoes

\* Symbols::GetNameOfPublic names the symbol around an address, and finds it if the symbols
\* of the file do not overlap; GetDatatype finds the longest type of a name; the members of
\* a type are those it has in the PDB file, although BCS_WriteFile has sorted the types.
SymbolsFound == part = "symbols" => Sym!PublicIsFound /\ Sym!MostComplete /\ Sym!MembersAreOwn

\* RefreshNtModulesForProc0 leaves exactly the images that are loaded and readable.
KernelListIsLoaded == part = "kernel" => Ker!ListIsLoaded

\* CheckDivLineYs leaves every window its rows after any sequence of commands; WD n and WS n
\* give a window n rows, or all that the others can spare; hiding a window and showing it
\* again restores the screen.
LayoutKept == part = "layout" => Div!Spaced /\ Div!SizeGranted /\ Div!ToggleUndone

\* Nothing the user has chosen in Symbol Loader is lost in memory, by whatever handlers run
\* while a dialog is open, and the driver reads the same from a file saved completely.
ConfigKept == part = "config" => Cfg!ConfigKept
=============================================================================

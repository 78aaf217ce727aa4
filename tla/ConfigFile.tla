----------------------------- MODULE ConfigFile -----------------------------
(***************************************************************************)
(* BugChecker.dat.  Symbol Loader keeps the configuration as a tree        *)
(* (StructuredFile::Entry) that it loads, changes and saves; the tree is   *)
(* written as lines that begin with as many tabs as they are deep.  The    *)
(* driver reads the same file with its own loops over the same parser      *)
(* (Root::Root).                                                           *)
(*                                                                         *)
(* All handlers run in the thread of the windows, but those of the main    *)
(* window may come while the dialog for a new symbol file is open.  A save *)
(* may fail or be cut short.                                               *)
(***************************************************************************)
EXTENDS Naturals, Sequences, SequencesExt

CONSTANTS Kernels,      \* symbol files of the kernel
          Others,       \* other symbol files
          Widths,       \* texts of the fields for the frame buffer, "" included
          Servers,      \* texts of the field for the symbol server
          Cuts          \* where a save may be cut short, in lines

VARIABLES config,       \* SymLoader::config, or NULL
          file,         \* the lines of BugChecker.dat, << >> without the file
          dlg,          \* AddSymFileDlg: "none", "open" or "busy"
          saved,        \* history: the last save was complete
          want          \* history: what the user has chosen

vars == <<config, file, dlg, saved, want>>

NULL == "NULL"
Entry(n, cs) == [name |-> n, children |-> cs]
Leaf(n) == Entry(n, << >>)
NoTree == Leaf(NULL)

-----------------------------------------------------------------------------
(* StructuredFile::Entry.                                                   *)

\* The index of the first child of that name, 0 without one.
get(e, n) == SelectInSeq(e.children, LAMBDA c : c.name = n)

child(e, n) == e.children[get(e, n)]
Replace(e, n, c) ==
    IF get(e, n) = 0 THEN [e EXCEPT !.children = Append(@, c)]
    ELSE [e EXCEPT !.children[get(e, n)] = c]

GetSetting(e, n) ==
    IF get(e, n) = 0 \/ Len(child(e, n).children) # 1 THEN NULL
    ELSE child(e, n).children[1].name
GetOrAdd(e, n) == IF get(e, n) = 0 THEN Leaf(n) ELSE child(e, n)
SetSetting(e, n, v) == Replace(e, n, Entry(n, <<Leaf(v)>>))

\* A setting two levels below "settings".
Set(c, group, n, v) ==
    LET settings == child(c, "settings")
    IN  Replace(c, "settings", Replace(settings, group, SetSetting(GetOrAdd(settings, group), n, v)))
Get(c, group, n) ==
    LET settings == child(c, "settings")
    IN  IF get(settings, group) = 0 THEN NULL ELSE GetSetting(child(settings, group), n)

-----------------------------------------------------------------------------
(* The file.                                                                *)

Line(t, n) == [tabs |-> t, name |-> n]

RECURSIVE Written(_, _)
Written(children, num) ==
    IF children = << >> THEN << >>
    ELSE <<Line(num, Head(children).name)>> \o Written(Head(children).children, num + 1)
         \o Written(Tail(children), num)

\* SaveConfig writes a header and the tree.
SaveConfig(c) == <<Line(0, "header")>> \o Written(c.children, 0)

\* Parse, in the driver and in Symbol Loader.  It continues behind line start, or
\* with the first line if start is 0, and returns the number of the first line with
\* that many tabs, and with that text unless it is NULL.  0 if a line with less tabs
\* comes first: at once if any text will do, else after a line that is deep enough.
Parse(ls, tabs, string, start) ==
    LET Stops(i) == /\ ls[i].tabs < tabs
                    /\ string = NULL \/ \E h \in start + 1 .. i - 1 : ls[h].tabs >= tabs
        Match(i) == /\ ls[i].tabs = tabs /\ ls[i].name # ""
                    /\ string \in {NULL, ls[i].name}
        found == {i \in start + 1 .. Len(ls) :
                     Match(i) /\ \A h \in start + 1 .. i : ~Stops(h)}
    IN  IF found = {} THEN 0 ELSE CHOOSE i \in found : \A j \in found : i <= j

\* The loop of LoadConfig: the children at depth num behind line p, and the last
\* line that was used.
RECURSIVE iterate(_, _, _)
iterate(ls, p, num) ==
    LET q == Parse(ls, num, NULL, p)
    IN  IF q = 0 THEN [children |-> << >>, p |-> p]
        ELSE LET below == iterate(ls, q, num + 1)
                 rest  == iterate(ls, below.p, num)
             IN  [children |-> <<Entry(ls[q].name, below.children)>> \o rest.children,
                  p |-> rest.p]

LoadConfig(ls) ==
    LET add(n) == LET p == Parse(ls, 0, n, 0)
                  IN  IF p = 0 THEN << >> ELSE <<Entry(n, iterate(ls, p, 1).children)>>
    IN  IF ls = << >> THEN NoTree ELSE Entry("", add("symbols") \o add("settings"))

\* Root::Root: the names of the symbol files, ...
RECURSIVE NamesAfter(_, _)
NamesAfter(ls, p) ==
    LET q == Parse(ls, 1, NULL, p)
    IN  IF q = 0 THEN << >> ELSE <<ls[q].name>> \o NamesAfter(ls, q)
DriverSymbols(ls) ==
    LET p == Parse(ls, 0, "symbols", 0)
    IN  IF p = 0 THEN << >> ELSE NamesAfter(ls, p)

\* ... and a setting.
read(ls, l0, l1, def) ==
    LET p0 == Parse(ls, 0, "settings", 0)
        p1 == Parse(ls, 1, l0, p0)
        p2 == Parse(ls, 2, l1, p1)
        p3 == Parse(ls, 3, NULL, p2)
    IN  IF p0 = 0 \/ p1 = 0 \/ p2 = 0 \/ p3 = 0 THEN def ELSE ls[p3].name

-----------------------------------------------------------------------------
(* Symbol Loader.                                                           *)

Running == config # NoTree

\* What a tree says, without the one empty text there may be.
IsKernel(e) == GetSetting(e, "is_kernel") = "1"
Value(c, group, n) == IF Get(c, group, n) = "" THEN NULL ELSE Get(c, group, n)
Meaning(c) ==
    LET symbols == child(c, "symbols").children
        onTop   == symbols # << >> /\ IsKernel(symbols[1])
        names   == [i \in DOMAIN symbols |-> symbols[i].name]
    IN  [kernel |-> IF onTop THEN names[1] ELSE NULL,
         others |-> IF onTop THEN Tail(names) ELSE names,
         width  |-> Value(c, "framebuffer", "width"),
         hook   |-> Value(c, "kdcom", "hook"),
         server |-> Value(c, "add_sym_win", "server")]

Empty == Entry("", <<Leaf("symbols"), Leaf("settings")>>)

Init ==
    /\ config = NoTree /\ dlg = "none" /\ saved = TRUE
    /\ file = << >> /\ want = Meaning(Empty)

\* SaveConfig succeeds.
Save(c) == config' = c /\ file' = SaveConfig(c) /\ saved' = TRUE

\* It fails and deletes the file.
CannotSave(c) == config' = c /\ file' = << >> /\ saved' = FALSE

\* UpdateSymbolsList at the start: what is missing is added and saved.
Loaded ==
    LET c == IF LoadConfig(file) = NoTree THEN Leaf("") ELSE LoadConfig(file)
        Add(d, n) == IF get(d, n) = 0 THEN [d EXCEPT !.children = Append(@, Leaf(n))] ELSE d
    IN  Add(Add(c, "symbols"), "settings")
Start ==
    /\ ~Running
    /\ \/ LoadConfig(file) = Loaded /\ config' = Loaded /\ UNCHANGED <<file, saved>>
       \/ LoadConfig(file) # Loaded /\ Save(Loaded)
       \/ LoadConfig(file) # Loaded /\ CannotSave(NoTree)
    /\ want' = IF saved THEN want ELSE Meaning(Loaded)
    /\ UNCHANGED dlg

\* A handler changes the tree and saves it.
Change(c, w) ==
    /\ want' = w
    /\ Save(c) \/ CannotSave(c)

\* SaveFbDetails: the button, or the search for the frame buffer is over, which
\* may be while the dialog is open.
SaveFbDetails ==
    /\ Running
    /\ \E v \in Widths :
          /\ dlg = "none" \/ v # ""
          /\ Change(Set(config, "framebuffer", "width", v),
                    [want EXCEPT !.width = IF v = "" THEN NULL ELSE v])
    /\ UNCHANGED dlg

KdcomHookRadioClick ==
    /\ Running /\ dlg = "none"
    /\ \E v \in {"patch", "callback"} :
          Change(Set(config, "kdcom", "hook", v), [want EXCEPT !.hook = v])
    /\ UNCHANGED dlg

\* A file of the kernel cannot be removed.
RemoveBcsFromList ==
    /\ Running /\ dlg = "none"
    /\ LET symbols == child(config, "symbols")
       IN  \E sel \in DOMAIN symbols.children :
              /\ ~IsKernel(symbols.children[sel])
              /\ Change(Replace(config, "symbols", [symbols EXCEPT !.children = RemoveAt(@, sel)]),
                        [want EXCEPT !.others = SelectSeq(@, LAMBDA n : n # symbols.children[sel].name)])
    /\ UNCHANGED dlg

-----------------------------------------------------------------------------
(* AddSymFileDlg.                                                           *)

Show == Running /\ dlg = "none" /\ dlg' = "open" /\ UNCHANGED <<config, file, saved, want>>

\* The controls are disabled, IDCANCEL included, until the thread has completed.
Download == dlg = "open" /\ dlg' = "busy" /\ UNCHANGED <<config, file, saved, want>>

DownloadFailed == dlg = "busy" /\ dlg' = "open" /\ UNCHANGED <<config, file, saved, want>>

\* WM_DESTROY of the dialog notes the server in the tree, not in the file.
Destroyed(c, v) == Set(c, "add_sym_win", "server", v)

Close ==
    /\ dlg = "open" /\ dlg' = "none"
    /\ \E v \in Servers : config' = Destroyed(config, v) /\ want' = [want EXCEPT !.server = v]
    /\ UNCHANGED <<file, saved>>

\* The list with a new symbol file: an older entry of the name is dropped; one of
\* the kernel replaces that on top.
Added(symbols, bcs, isKernel) ==
    LET cs    == SelectSeq(symbols, LAMBDA e : e.name # bcs)
        entry == Entry(bcs, <<Entry("is_kernel", <<Leaf(IF isKernel THEN "1" ELSE "0")>>)>>)
    IN  IF ~isKernel THEN Append(cs, entry)
        ELSE IF cs # << >> /\ IsKernel(cs[1]) THEN <<entry>> \o Tail(cs)
        ELSE <<entry>> \o cs

WithSymbols(c, bcs) ==
    LET symbols == child(c, "symbols")
    IN  Replace(c, "symbols", Entry("symbols", Added(symbols.children, bcs, bcs \in Kernels)))

Current_FromFile == IF file = << >> THEN config ELSE LoadConfig(file)

\* The tree a new symbol file is entered in: the one in memory.
Current == config

\* DownloadThreadCompleted: the new tree is saved and, if that succeeds, loaded again
\* by UpdateSymbolsList; the dialog ends.
DownloadThreadCompleted ==
    /\ dlg = "busy"
    /\ \E bcs \in Kernels \cup Others :
          LET c == WithSymbols(Current, bcs)
              w == [want EXCEPT !.kernel = IF bcs \in Kernels THEN bcs ELSE @,
                                !.others = SelectSeq(@, LAMBDA n : n # bcs)
                                           \o (IF bcs \in Others THEN <<bcs>> ELSE << >>)]
          IN  \/ /\ file' = SaveConfig(c) /\ saved' = TRUE /\ dlg' = "none"
                 /\ \E v \in Servers : /\ config' = Destroyed(LoadConfig(file'), v)
                                       /\ want' = [w EXCEPT !.server = v]
              \/ CannotSave(c) /\ dlg' = "open" /\ want' = w

-----------------------------------------------------------------------------
(* The end.                                                                 *)

\* WM_DESTROY of the main window.
Exit ==
    /\ Running /\ dlg = "none"
    /\ \/ file' = SaveConfig(config) /\ saved' = TRUE
       \/ file' = << >> /\ saved' = FALSE
    /\ config' = NoTree
    /\ UNCHANGED <<dlg, want>>

\* The process is ended: what was not saved is forgotten, and a save may be cut.
Kill ==
    /\ Running /\ config' = NoTree /\ dlg' = "none"
    /\ \/ /\ file # << >> /\ UNCHANGED <<file, saved>>
          /\ want' = [want EXCEPT !.server = Value(LoadConfig(file), "add_sym_win", "server")]
       \/ /\ \E n \in Cuts : /\ n < Len(SaveConfig(config))
                             /\ file' = SubSeq(SaveConfig(config), 1, n)
          /\ saved' = FALSE /\ UNCHANGED want

Next ==
    \/ Start \/ SaveFbDetails \/ KdcomHookRadioClick \/ RemoveBcsFromList
    \/ Show \/ Download \/ DownloadFailed \/ Close \/ DownloadThreadCompleted
    \/ Exit \/ Kill

Spec == Init /\ [][Next]_vars

-----------------------------------------------------------------------------
(* Properties.                                                              *)

\* Nothing the user has chosen is lost in memory, by whatever handlers have run
\* while the dialog was open; after a complete save the driver reads from the file
\* the same symbol files, that of the kernel first, and the same settings.
ConfigKept ==
    /\ Running => Meaning(config) = want
    /\ saved /\ file # << >> =>
         /\ DriverSymbols(file) = (IF want.kernel = NULL THEN << >> ELSE <<want.kernel>>) \o want.others
         /\ read(file, "framebuffer", "width", "0") = (IF want.width = NULL THEN "0" ELSE want.width)
         /\ read(file, "kdcom", "hook", "") = (IF want.hook = NULL THEN "" ELSE want.hook)
         /\ ~Running => Meaning(LoadConfig(file)) = want
=============================================================================

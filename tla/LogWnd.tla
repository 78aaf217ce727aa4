------------------------------- MODULE LogWnd -------------------------------
(***************************************************************************)
(* The log window (BugChecker/LogWnd.cpp) and the history of commands that *)
(* the input line reads out of it (InputLine::Up, Down and Enter).         *)
(*                                                                         *)
(* A line is [cmd, t]: cmd is the number of the command the user typed, or *)
(* 0 for a line that was printed, and t its characters.  winDim is 0 until *)
(* the window is drawn for the first time.                                 *)
(***************************************************************************)
EXTENDS Integers, Sequences, SequencesExt, FiniteSets

CONSTANTS Strings,      \* what is printed, with line ends
          WinDims,      \* heights of the window
          MaxSize,      \* LOG_WINDOW_CONTENTS_MAX_SIZE
          MaxLines,     \* bound: lines of the log
          MaxPrinted, MaxCmds   \* bounds: characters printed, commands typed

VARIABLES
    contents, newLine, posY, winDim, GoToEnd_Pending,
    historyPos,         \* of the input line, an index from 0
    printed, cmds,      \* history: all that was printed, commands typed
    scrolled,           \* history: the user has scrolled since the last line
    shrunk,             \* history: lines were dropped, too few are left for the window
    recalled,           \* history: the command in the input line
    trimmed             \* history: lines were dropped since it was recalled

log    == <<contents, newLine, posY>>
hist   == <<historyPos, recalled>>
window == <<winDim, GoToEnd_Pending>>

Init ==
    /\ contents = << >> /\ newLine = TRUE /\ posY = 0
    /\ winDim = 0 /\ GoToEnd_Pending = FALSE
    /\ historyPos = -1 /\ recalled = 0 /\ trimmed = FALSE
    /\ printed = << >> /\ cmds = 0 /\ scrolled = FALSE /\ shrunk = FALSE

-----------------------------------------------------------------------------
(* AddString.                                                               *)

Printed(t) == [cmd |-> 0, t |-> t]
Size(line) == Len(line.t) + 1
Total(c) == FoldLeft(LAMBDA n, line : n + Size(line), 0, c)

Tokenize(s) ==
    LET cuts == SetToSortSeq({0, Len(s) + 1} \cup {i \in DOMAIN s : s[i] = "\n"}, <)
    IN  [k \in 1 .. Len(cuts) - 1 |-> SubSeq(s, cuts[k] + 1, cuts[k + 1] - 1)]

\* A line that was left open by text without a line end is closed; if it is empty
\* it is dropped, with the empty lines before it.
Closed(c) ==
    LET full == {i \in DOMAIN c : c[i].t # << >>}
    IN  SubSeq(c, 1, CHOOSE n \in full \cup {0} : \A i \in full : i <= n)

Appended_Replaces(c, tokens) ==
    LET new == [k \in DOMAIN tokens |-> Printed(tokens[k])]
    IN  IF newLine \/ c = << >> THEN c \o new ELSE Front(c) \o new

\* The first of the new lines continues the line that is open.
Appended(c, tokens) ==
    LET new == [k \in DOMAIN tokens |-> Printed(tokens[k])] IN
    IF newLine \/ c = << >> THEN c \o new
    ELSE Front(c) \o <<[Last(c) EXCEPT !.t = @ \o tokens[1]]>> \o Tail(new)

\* The oldest lines are dropped while the log is too large.
Trim(c) == CHOOSE r \in {SubSeq(c, k, Len(c)) : k \in 1 .. Len(c) + 1} :
              /\ Total(r) <= MaxSize
              /\ Len(r) < Len(c) => Total(SubSeq(c, Len(c) - Len(r), Len(c))) > MaxSize

GoToEnd_OneShort(c, n, y) == IF Len(c) > n THEN Len(c) - n - 1 ELSE y

\* GoToEnd: posY in a window of n rows, which had been y.
GoToEnd(c, n, y) == IF Len(c) >= n THEN Len(c) - n ELSE y

Store(c) ==
    /\ Len(c) <= MaxLines
    /\ contents' = Trim(c)
    /\ shrunk' = (Len(Trim(c)) < winDim /\ (shrunk \/ Len(Trim(c)) < Len(contents)))
    /\ trimmed' = (trimmed \/ Trim(c) # c)
    /\ scrolled' = FALSE
    /\ IF winDim = 0 THEN GoToEnd_Pending' = TRUE /\ UNCHANGED posY
       ELSE posY' = GoToEnd(Trim(c), winDim, posY) /\ UNCHANGED GoToEnd_Pending
    /\ UNCHANGED winDim

Text(s) == SelectSeq(s, LAMBDA x : x # "\n")

\* Lines of a command's output, and text with or without line ends.
AddString(s, doAppend) ==
    /\ Len(printed) + Len(Text(s)) <= MaxPrinted
    /\ ~doAppend => Text(s) = s
    /\ IF doAppend
       THEN Store(Appended(contents, Tokenize(s))) /\ newLine' = FALSE
       ELSE /\ Store((IF newLine THEN contents ELSE Closed(contents))
                       \o IF s = << >> THEN << >> ELSE <<Printed(s)>>)
            /\ newLine' = TRUE
    /\ printed' = printed \o Text(s)
    /\ UNCHANGED <<hist, cmds>>

NextLine_Unset == newLine

\* What newLine is behind the line of a command.
NextLine == TRUE

EnteredPos_Kept == historyPos

\* After Enter the history starts at the end of the log again.
EnteredPos == -1

\* InputLine::Enter and the command: an empty line, CLS (LogWnd::Clear, after
\* AddUserCmd) or any other command, whose output is the AddStrings that follow.
Enter(cmd) ==
    /\ winDim > 0 /\ cmds < MaxCmds
    /\ CASE cmd = "" -> UNCHANGED <<log, window, printed, cmds, scrolled, shrunk, trimmed>>
         [] cmd = "CLS" -> /\ contents' = << >> /\ posY' = 0 /\ shrunk' = FALSE
                           /\ newLine' = NextLine /\ cmds' = cmds + 1
                           /\ UNCHANGED <<window, printed, scrolled, trimmed>>
         [] OTHER -> /\ Store((IF newLine THEN contents ELSE Closed(contents))
                                \o <<[cmd |-> cmds + 1, t |-> <<"c">>]>>)
                     /\ newLine' = NextLine
                     /\ printed' = Append(printed, "c") /\ cmds' = cmds + 1
    /\ historyPos' = EnteredPos
    /\ recalled' = IF EnteredPos = -1 THEN 0 ELSE recalled

-----------------------------------------------------------------------------
(* The window.                                                              *)

\* DrawAll_Start, after the layout has changed.
Draw(n) ==
    /\ n # winDim \/ GoToEnd_Pending
    /\ winDim' = n /\ GoToEnd_Pending' = FALSE
    /\ posY' = GoToEnd(contents, n, posY)
    /\ scrolled' = FALSE
    /\ shrunk' = (shrunk /\ Len(contents) < n)
    /\ UNCHANGED <<contents, newLine, hist, printed, cmds, trimmed>>

maxPosY == IF Len(contents) > winDim THEN Len(contents) - winDim ELSE 0

NotBelow_NoLimit(y) == y

NotBelow(y) == IF y > maxPosY THEN maxPosY ELSE y

\* LogWnd::Up, Down, PgUp, PgDn, Home and End.
Scroll ==
    /\ winDim > 0
    /\ posY' \in {IF posY > 0 THEN posY - 1 ELSE 0, NotBelow(posY + 1),
                  IF posY > winDim THEN posY - winDim ELSE 0, NotBelow(posY + winDim),
                  0, GoToEnd(contents, winDim, posY)}
    /\ scrolled' = TRUE
    /\ shrunk' = (shrunk /\ posY' > maxPosY)
    /\ UNCHANGED <<contents, newLine, window, hist, printed, cmds, trimmed>>

-----------------------------------------------------------------------------
(* InputLine::Up and Down.                                                  *)

Commands == {i \in 0 .. Len(contents) - 1 : contents[i + 1].cmd > 0}

Recall(i) ==
    /\ winDim > 0
    /\ historyPos' = i /\ recalled' = contents[i + 1].cmd /\ trimmed' = FALSE
    /\ UNCHANGED <<log, window, printed, cmds, scrolled, shrunk>>

InLog == historyPos \in 0 .. Len(contents) - 1

HistoryUp ==
    LET older == {i \in Commands : InLog => i < historyPos} IN
    \E i \in older : (\A k \in older : k <= i) /\ Recall(i)

HistoryDown ==
    LET newer == {i \in Commands : i > historyPos} IN
    InLog /\ \E i \in newer : (\A k \in newer : k >= i) /\ Recall(i)

Next ==
    \/ \E s \in Strings, doAppend \in BOOLEAN : AddString(s, doAppend)
    \/ \E cmd \in {"", "CLS", "other"} : Enter(cmd)
    \/ \E n \in WinDims : Draw(n)
    \/ Scroll
    \/ HistoryUp \/ HistoryDown

-----------------------------------------------------------------------------
(* Properties.                                                              *)

\* What was printed is in the log once and in its order, up to the lines that were
\* dropped at its front: joining open lines and closing them loses nothing.
TextInOrder ==
    LET shown == FoldLeft(LAMBDA t, line : t \o line.t, << >>, contents)
    IN  IsSuffix(shown, printed)

\* The line of a command is what the user typed: no text that is printed later, with
\* or without line ends, is added to it.  The history offers it for editing.
CommandsIntact == \A i \in DOMAIN contents : contents[i].cmd > 0 => contents[i].t = <<"c">>

\* The last line is in the window after every print and every new layout, until the
\* user scrolls; except where the empty lines of a script's output were dropped and the
\* log is shorter than the window: GoToEnd then leaves the window where it was.
EndShown ==
    (winDim > 0 /\ ~scrolled /\ ~shrunk /\ contents # << >>)
        => posY < Len(contents) /\ Len(contents) <= posY + winDim

\* The user cannot scroll the log out of its window (with the same exception).
ScrollInside == (winDim > 0 /\ ~shrunk /\ contents # << >>) => posY < Len(contents)

\* The place in the history that Up and Down continue from is the command that they
\* have shown, unless lines were dropped since.
HistoryInPlace ==
    (recalled > 0 /\ ~trimmed) => InLog /\ contents[historyPos + 1].cmd = recalled
=============================================================================

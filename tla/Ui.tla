--------------------------------- MODULE Ui ---------------------------------
(***************************************************************************)
(* What the user does in a session (BugChecker/Main.cpp, InputLine.cpp,    *)
(* CodeWnd.cpp, Wnd.cpp): the input line, the script window, the cursor    *)
(* they share, and the layout of the screen, which changes by commands and *)
(* from one session to the next.                                           *)
(*                                                                         *)
(* The text of the input line is a sequence of characters, the lines of    *)
(* the script are their lengths.  One action is one key, with everything   *)
(* its handler does, or the end of a session and the start of the next.    *)
(***************************************************************************)
EXTENDS Layout, FiniteSets

CONSTANTS Chars, Words, History,   \* what the user types, what Tab finds, the history
          Dims,                    \* sizes of the debugger's screen, [w, h]
          DefaultDim,              \* the 80 x 25 of DrawAll_Start
          RegLines,                \* rows the registers need
          Toggles, Resizes,        \* WR, WD and WS without an argument, and with one
          TabSize,                 \* the 4 of CodeWnd::Tab
          MaxText, MaxScript       \* bounds: the input line, the script with its line
                                   \* ends; at least one of the two texts is empty

ASSUME UiAssumption ==
    /\ DefaultDim \in Dims
    /\ \A d \in Dims : d.w > 3 + TabSize /\ d.h >= 25
    /\ RegLines \subseteq 1 .. 6
    /\ Toggles \subseteq {"regs", "disasm", "code"} /\ Resizes \subseteq Movable \X (3 .. 160)
    /\ \A r \in Words : r # << >> /\ \A i \in DOMAIN r : r[i] # " "

VARIABLES
    w, l,                \* WndWidth; the layout, with WndHeight
    focus,               \* CursorFocus, "Log" or "Code"
    cur, logCur, codeCur,\* CursorX and CursorY, LogCursor..., CodeCursor...
    text, offset,        \* InputLine
    tab,                 \* InputLine::tabData while Tab is pressed again and again
    contents, posX, posY,\* CodeWindow
    astray               \* history: a new layout has left the cursor of the script
                         \* off its text, and it has not been there since

screen == <<w, l>>
input  == <<text, offset, tab>>
code   == <<contents, posX, posY>>
vars   == <<screen, focus, cur, logCur, codeCur, input, code, astray>>

NoTab == [text |-> << >>, offset |-> 0, x |-> 0, found |-> FALSE]

At(x, y) == [x |-> x, y |-> y]

\* The value Root starts with, after the first DrawInterface.
Init ==
    /\ w = DefaultDim.w
    /\ \E n \in RegLines :
          l = Checked([regs |-> n + 1, disasm |-> 13, code |-> 17, h |-> DefaultDim.h])
    /\ focus = "Log"
    /\ cur = At(2, l.h - 3) /\ logCur = At(2, l.h - 3) /\ codeCur = At(2, DestY0(l))
    /\ text = << >> /\ offset = 0 /\ tab = NoTab
    /\ contents = << >> /\ posX = 0 /\ posY = 0
    /\ astray = FALSE

-----------------------------------------------------------------------------
(* The input line.                                                          *)

Within(t, c) ==
    /\ Len(t) <= MaxText /\ Len(c) + SumFunction(c) <= MaxScript
    /\ t = << >> \/ c = << >>

\* Every key that draws the windows ends the completion of a word: RedrawCallback.
ToInput(t, o, x) ==
    /\ Within(t, contents)
    /\ text' = t /\ offset' = o /\ tab' = NoTab
    /\ cur' = [cur EXCEPT !.x = x]
    /\ UNCHANGED <<screen, focus, logCur, codeCur, code, astray>>

pos == (cur.x - 2) + offset

\* One step to the left or to the right, scrolling at the margins.
StepLeft(t)  == IF cur.x > 2 THEN ToInput(t, offset, cur.x - 1)
                ELSE ToInput(t, IF offset > 0 THEN offset - 1 ELSE offset, cur.x)
StepRight(t) == IF cur.x < w - 2 THEN ToInput(t, offset, cur.x + 1)
                ELSE ToInput(t, offset + 1, cur.x)

\* The end of a text, and the part of it that is shown then.
EndX(n)   == IF n + 2 > w - 2 THEN w - 2 ELSE n + 2
EndPos_OneMore(n) == IF n + 2 > w - 2 THEN n - (w - 5) ELSE 0
EndPos(n) == IF n + 2 > w - 2 THEN n - (w - 4) ELSE 0

AddChar(c) == focus = "Log" /\ pos <= Len(text) /\ StepRight(InsertAt(text, pos + 1, c))

BackSpace_ByColumn == focus = "Log" /\ text # << >> /\ pos > 0 /\ StepLeft(RemoveAt(text, cur.x - 2))

BackSpace == focus = "Log" /\ text # << >> /\ pos > 0 /\ StepLeft(RemoveAt(text, pos))

Left == focus = "Log" /\ StepLeft(text)

Right == focus = "Log" /\ pos < Len(text) /\ StepRight(text)

Del == focus = "Log" /\ pos < Len(text) /\ ToInput(RemoveAt(text, pos + 1), offset, cur.x)

Home == focus = "Log" /\ ToInput(text, 0, 2)

End == focus = "Log" /\ ToInput(text, EndPos(Len(text)), EndX(Len(text)))

\* Up and Down, when there is a line of the history in that direction.
Recall(h) == focus = "Log" /\ ToInput(h, EndPos(Len(h)), EndX(Len(h)))

\* Where Tab starts from: the text as it was when Tab was pressed first.
TabFirst == tab.text = << >>
TabText == IF TabFirst THEN text ELSE tab.text
TabOffset == IF TabFirst THEN offset ELSE tab.offset
TabX == IF TabFirst THEN cur.x ELSE tab.x
TabPos == (TabX - 2) + TabOffset

\* The cursor is behind a word.
AtWord ==
    /\ TabText # << >> /\ TabPos > 0 /\ TabPos <= Len(TabText)
    /\ TabPos < Len(TabText) => TabText[TabPos + 1] = " "
    /\ TabText[TabPos] # " "

WordStart == CHOOSE p \in 0 .. TabPos - 1 :
                /\ p > 0 => TabText[p] = " "
                /\ \A i \in p + 1 .. TabPos : TabText[i] # " "

\* Tab puts the word r, which is not shorter, in the place of the one before the
\* cursor.
Tab(r) ==
    LET x == TabX + Len(r) - (TabPos - WordStart)
        t == SubSeq(TabText, 1, WordStart) \o r \o SubSeq(TabText, TabPos + 1, Len(TabText))
    IN
    /\ focus = "Log" /\ AtWord
    /\ TabFirst \/ tab.found
    /\ Len(r) >= TabPos - WordStart /\ Within(t, contents)
    /\ text' = t
    /\ offset' = TabOffset + IF x > w - 2 THEN x - (w - 2) ELSE 0
    /\ cur' = [cur EXCEPT !.x = IF x > w - 2 THEN w - 2 ELSE x]
    /\ tab' = [text |-> TabText, offset |-> TabOffset, x |-> TabX, found |-> TRUE]
    /\ UNCHANGED <<screen, focus, logCur, codeCur, code, astray>>

\* The first Tab finds no word, or the cursor is not behind one.
TabNothing ==
    /\ focus = "Log" /\ TabFirst /\ text # << >>
    /\ tab' = [text |-> text, offset |-> offset, x |-> cur.x, found |-> FALSE]
    /\ UNCHANGED <<screen, focus, cur, logCur, codeCur, text, offset, code, astray>>

-----------------------------------------------------------------------------
(* The script window.                                                       *)

\* GetCurrentLineId: the line the cursor is in, from 0.
Line(py, y) == py + (y - DestY0(l))
id == Line(posY, cur.y)
col == (cur.x - 2) + posX

\* GetLine: the script is made long enough, and a line of it.
Pad(c, n) == IF n <= Len(c) THEN c ELSE c \o [i \in 1 .. n - Len(c) |-> 0]
LenOf(c, n) == IF n < Len(c) THEN c[n + 1] ELSE 0
Set(n, len) == [Pad(contents, n + 1) EXCEPT ![n + 1] = len]

\* The cursor is in the window, on or behind a character of its line.
OnText(c, px, py, at) ==
    /\ at.y \in DestY0(l) .. DestY1(l) /\ at.x \in 2 .. w - 2
    /\ (at.x - 2) + px <= LenOf(c, Line(py, at.y))

\* The end of every key: Finalize colors the line the cursor is in now.
ToCode(c, px, py, x, y) ==
    LET padded == Pad(c, Line(py, y) + 1) IN
    /\ Within(text, padded)
    /\ contents' = padded /\ posX' = px /\ posY' = py
    /\ cur' = At(x, y)
    /\ astray' = (astray /\ ~OnText(padded, px, py, At(x, y)))
    /\ UNCHANGED <<screen, focus, logCur, codeCur, input>>

\* An early return behind GetCurrentLine.
Ignored == ToCode(contents, posX, posY, cur.x, cur.y)

\* One row up or down, scrolling at the margins: posY and CursorY.
UpPosY_Always == posY - 1
UpPosY == IF cur.y - 1 < DestY0(l) THEN posY - 1 ELSE posY
UpY    == IF cur.y - 1 < DestY0(l) THEN cur.y ELSE cur.y - 1
DownPosY == IF cur.y + 1 > DestY1(l) THEN posY + 1 ELSE posY
DownY    == IF cur.y + 1 > DestY1(l) THEN cur.y ELSE cur.y + 1

\* The cursor keeps its column on the screen if the line n is long enough.
ToColumn(n, py, y) ==
    ToCode(Pad(contents, n + 1), 0, py,
           IF LenOf(contents, n) + 2 < cur.x THEN LenOf(contents, n) + 2 ELSE cur.x, y)

CodeAdd(n) ==
    IF col > LenOf(contents, id) THEN Ignored
    ELSE ToCode(Set(id, LenOf(contents, id) + n),
                IF cur.x < w - 1 - n THEN posX ELSE posX + n, posY,
                IF cur.x < w - 1 - n THEN cur.x + n ELSE cur.x, cur.y)

CodeTab == CodeAdd(TabSize - (col % TabSize))

CodeEnter ==
    IF col > LenOf(contents, id) THEN Ignored
    ELSE ToCode(InsertAt(Set(id, col), id + 2, LenOf(contents, id) - col),
                0, DownPosY, 2, DownY)

CodeBackSpace_NoScroll ==
    \/ /\ col > 0
       /\ IF col > LenOf(contents, id) THEN Ignored
          ELSE ToCode(Set(id, LenOf(contents, id) - 1),
                      IF cur.x > 2 THEN posX ELSE posX - 1, posY,
                      IF cur.x > 2 THEN cur.x - 1 ELSE cur.x, cur.y)
    \/ /\ col = 0 /\ id > 0
       /\ LET n == LenOf(contents, id - 1) IN
          ToCode(RemoveAt(Set(id - 1, n + LenOf(contents, id)), id + 1),
                 EndPos(n), posY, EndX(n), UpY)

CodeBackSpace ==
    \/ /\ col > 0
       /\ IF col > LenOf(contents, id) THEN Ignored
          ELSE ToCode(Set(id, LenOf(contents, id) - 1),
                      IF cur.x > 2 THEN posX ELSE posX - 1, posY,
                      IF cur.x > 2 THEN cur.x - 1 ELSE cur.x, cur.y)
    \/ /\ col = 0 /\ id > 0
       /\ LET n == LenOf(contents, id - 1) IN
          ToCode(RemoveAt(Set(id - 1, n + LenOf(contents, id)), id + 1),
                 EndPos(n), UpPosY, EndX(n), UpY)

CodeDel ==
    \/ /\ col < LenOf(contents, id)
       /\ ToCode(Set(id, LenOf(contents, id) - 1), posX, posY, cur.x, cur.y)
    \/ /\ col >= LenOf(contents, id)
       /\ IF id + 1 >= Len(contents) THEN Ignored
          ELSE ToCode(RemoveAt(Set(id, LenOf(contents, id) + LenOf(contents, id + 1)),
                               id + 2), posX, posY, cur.x, cur.y)

CodeLeft ==
    \/ cur.x > 2 /\ ToCode(contents, posX, posY, cur.x - 1, cur.y)
    \/ cur.x = 2 /\ posX > 0 /\ ToCode(contents, posX - 1, posY, cur.x, cur.y)
    \/ /\ cur.x = 2 /\ posX = 0 /\ id > 0
       /\ LET n == LenOf(contents, id - 1) IN
          ToCode(contents, EndPos(n), UpPosY, EndX(n), UpY)

CodeRight ==
    \/ /\ col < LenOf(contents, id)
       /\ IF cur.x < w - 2 THEN ToCode(contents, posX, posY, cur.x + 1, cur.y)
                           ELSE ToCode(contents, posX + 1, posY, cur.x, cur.y)
    \/ /\ col >= LenOf(contents, id)
       /\ IF id + 1 >= Len(contents) THEN Ignored
          ELSE ToCode(contents, 0, DownPosY, 2, DownY)

CodeUp == id > 0 /\ ToColumn(id - 1, UpPosY, UpY)

CodeDown == id + 1 < Len(contents) /\ ToColumn(id + 1, DownPosY, DownY)

CodeHome == ToCode(contents, 0, posY, 2, cur.y)

CodeEnd == LET n == LenOf(contents, id) IN ToCode(contents, EndPos(n), posY, EndX(n), cur.y)

winDim == DestY1(l) - DestY0(l) + 1

CodePgUp ==
    LET n == IF id < winDim THEN 0 ELSE id - winDim IN
    /\ id > 0
    /\ IF posY >= winDim THEN ToColumn(n, posY - winDim, cur.y)
                         ELSE ToColumn(n, 0, DestY0(l) + n)

CodePgDn_AlwaysScrolls ==
    LET n  == IF id + winDim >= Len(contents) THEN Len(contents) - 1 ELSE id + winDim
        py == posY + winDim
    IN  id + 1 < Len(contents) /\ ToColumn(n, py, DestY0(l) + (n - py))

CodePgDn ==
    LET n  == IF id + winDim >= Len(contents) THEN Len(contents) - 1 ELSE id + winDim
        py == IF posY + winDim < Len(contents) THEN posY + winDim ELSE posY
    IN  id + 1 < Len(contents) /\ ToColumn(n, py, DestY0(l) + (n - py))

CodeKey ==
    /\ focus = "Code"
    /\ \/ CodeAdd(1) \/ CodeTab \/ CodeEnter \/ CodeBackSpace \/ CodeDel
       \/ CodeLeft \/ CodeRight \/ CodeUp \/ CodeDown
       \/ CodeHome \/ CodeEnd \/ CodePgUp \/ CodePgDn

-----------------------------------------------------------------------------
(* The layout.                                                              *)

\* CheckDivLineYs compares the rows of the visible lines and the size of the screen
\* with those of its last call.
Changed(m, wid) == wid # w \/ m.h # l.h \/ Rows(m) # Rows(l)

\* "reset the cursor data, if necessary."
FirstY(m) == IF m.code < 0 THEN 0 ELSE DestY0(m)

\* The screen is drawn anew, with x0 the column of the cursor if nothing changes.
NewLayout(m, wid, x0) ==
    /\ l' = m /\ w' = wid /\ tab' = NoTab
    /\ IF Changed(m, wid)
       THEN /\ cur' = At(2, m.h - 3) /\ logCur' = At(2, m.h - 3)
            /\ codeCur' = At(2, FirstY(m))
            /\ astray' = (m.code >= 0 /\ (focus = "Code" \/ posX > LenOf(contents, posY)))
       ELSE cur' = [cur EXCEPT !.x = x0] /\ UNCHANGED <<logCur, codeCur, astray>>
    /\ UNCHANGED <<focus, code>>

\* Enter with the command that leads to this layout, typed over the text in the line;
\* an empty line, an unknown command or another command leads to none.
Command(m, wid) ==
    /\ focus = "Log"
    /\ text' = << >> /\ offset' = 0
    /\ NewLayout(m, wid, 2)

Enter ==
    \/ Command(l, w)
    \/ \E n \in Toggles : Command(Toggled(l, n), w)
    \/ \E z \in Resizes : Command(Sized(l, z[1], z[2]), w)
    \/ \E d \in Dims : Command(Checked([l EXCEPT !.h = d.h]), w)
    \/ \E d \in Dims, n \in RegLines : Command(Checked(WithRegs(l, n)), d.w)

\* F5, F8 or F10, and DrawInterface of the next session, maybe for a thread whose
\* registers need more or fewer rows, or on a smaller display.
NextSession(n, small) ==
    LET m == IF small THEN [l EXCEPT !.h = DefaultDim.h] ELSE l IN
    /\ NewLayout(Checked(WithRegs(Checked(m), n)), IF small THEN DefaultDim.w ELSE w, cur.x)
    /\ UNCHANGED <<text, offset>>

Esc_KeepsHidden ==
    /\ tab' = NoTab
    /\ \/ focus = "Log" /\ logCur' = cur /\ cur' = codeCur /\ focus' = "Code" /\ UNCHANGED codeCur
       \/ focus = "Code" /\ codeCur' = cur /\ cur' = logCur /\ focus' = "Log" /\ UNCHANGED logCur
    /\ UNCHANGED <<screen, text, offset, code, astray>>

\* Escape: SwitchBetweenLogCode.
Esc ==
    LET m     == IF l.code < 0 THEN Toggled(l, "code") ELSE l
        moved == Changed(m, w)
        there == IF moved THEN At(2, FirstY(m)) ELSE codeCur
    IN
    /\ l' = m /\ tab' = NoTab
    /\ \/ /\ focus = "Log"
          /\ logCur' = IF moved THEN At(2, m.h - 3) ELSE cur
          /\ cur' = there /\ codeCur' = there
          /\ focus' = "Code"
          /\ astray' = IF moved THEN posX > LenOf(contents, posY) ELSE astray
       \/ /\ focus = "Code"
          /\ codeCur' = cur
          /\ cur' = logCur
          /\ focus' = "Log"
          /\ UNCHANGED <<logCur, astray>>
    /\ UNCHANGED <<w, text, offset, code>>

InputKey ==
    \/ \E c \in Chars : AddChar(c)
    \/ BackSpace \/ Left \/ Right \/ Del \/ Home \/ End
    \/ \E h \in History : Recall(h)
    \/ \E r \in Words : Tab(r)
    \/ TabNothing

Next ==
    \/ InputKey
    \/ CodeKey
    \/ Enter
    \/ Esc
    \/ \E n \in RegLines, small \in BOOLEAN : NextSession(n, small)

Spec == Init /\ [][Next]_vars

-----------------------------------------------------------------------------
(* Properties.                                                              *)

inputCur == IF focus = "Log" THEN cur ELSE logCur
scriptCur == IF focus = "Code" THEN cur ELSE codeCur
inputPos == (inputCur.x - 2) + offset

\* The variables hold what the code's types allow.
TypeOK ==
    /\ w \in {d.w : d \in Dims} /\ l.h \in {d.h : d \in Dims}
    /\ {l.regs, l.disasm, l.code} \subseteq Int
    /\ focus \in {"Log", "Code"}
    /\ {cur, logCur, codeCur} \subseteq [x : Nat, y : Nat]
    /\ Len(text) <= MaxText /\ offset \in Nat
    /\ contents \in Seq(0 .. MaxScript) /\ posX \in Nat /\ posY \in Nat
    /\ astray \in BOOLEAN

\* The cursor of the input line stays in its row and inside of the frame, and what
\* it points at is in the text or right behind it: no key inserts or erases beyond
\* the end of the string, in whatever part of it the line shows and through every
\* change of the layout, which moves the cursor but not the offset.
InputCursorOnText ==
    /\ inputCur.y = l.h - 3 /\ inputCur.x \in 2 .. w - 2
    /\ inputPos <= Len(text)

\* The same for the script window: scrolling never leaves the window, and no line
\* is left behind; only a new layout can displace the cursor, when the window has
\* the focus or is scrolled to the right.
ScriptCursorOnText ==
    (l.code >= 0 /\ ~astray) => OnText(contents, posX, posY, scriptCur)

\* The script window cannot have the focus while it is hidden.
FocusIsVisible == focus = "Code" => l.code > 0

Line1 == INSTANCE LineEditor WITH before <- SubSeq(text, 1, inputPos),
                                  after  <- SubSeq(text, inputPos + 1, Len(text))

\* The keys of the input line do what the abstract editor does at the cursor, in the
\* part of the text the line shows or does not show.
InputIsEditor == Line1!Spec

scriptId == Line(posY, scriptCur.y)
Script == INSTANCE TextEditor WITH doc  <- Pad(contents, scriptId + 1),
                                   line <- scriptId + 1,
                                   col  <- (scriptCur.x - 2) + posX

\* The keys of the script window do what the abstract editor does at the cursor,
\* through scrolling and paging, unless a new layout has displaced it.
ScriptIsEditor ==
    [][(l.code >= 0 /\ l'.code >= 0 /\ ~astray /\ ~astray')
          => Script!Next \/ UNCHANGED <<contents, posX, posY, scriptCur>>]_vars

\* The cursor is one for both windows: whichever keys, commands and new layouts came, it
\* is on the text of the window that has the focus, and that window is on the screen.
CursorOnText == TypeOK /\ InputCursorOnText /\ ScriptCursorOnText /\ FocusIsVisible

\* The keys of the input line are those of a line editor and the keys of the script window
\* those of a text editor, whatever part of the text the windows show.
EditorsImplemented == InputIsEditor /\ ScriptIsEditor
=============================================================================

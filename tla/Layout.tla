------------------------------- MODULE Layout -------------------------------
(***************************************************************************)
(* The rows of BugChecker's screen (BugChecker/Wnd.cpp).  Three horizontal *)
(* lines divide it into the windows REGS, DISASM, CODE and LOG; the row of *)
(* a line is negative while the window above it is hidden.  A layout l is  *)
(* a record of the three rows and of WndHeight:                            *)
(* [regs |-> RegsDisasmDivLineY, disasm |-> DisasmCodeDivLineY,            *)
(*  code |-> CodeLogDivLineY, h |-> WndHeight].                            *)
(***************************************************************************)
EXTENDS Integers, Sequences, SequencesExt

\* Rows between two lines that CheckDivLineYs insists on, with the lower line.
MinRows == 4

Movable == {"disasm", "code"}

Layouts == [regs : Int, disasm : Int, code : Int, h : Int]

-----------------------------------------------------------------------------
(* GetVisibleDivLines.                                                      *)

\* The lines on the screen, between the frame and the input line.
Names(l) == <<"first">> \o SelectSeq(<<"regs", "disasm", "code">>, LAMBDA n : l[n] >= 0)
                        \o <<"last">>

RowOf(l, name) == CASE name = "first" -> 0
                    [] name = "last"  -> l.h - 3
                    [] OTHER          -> l[name]

Rows(l) == LET names == Names(l) IN [i \in DOMAIN names |-> RowOf(l, names[i])]

CanBeMoved(l, i) == Names(l)[i] \in Movable

\* The height of the window above the line i.
Height(l, i) == LET h == Rows(l)[i] - Rows(l)[i - 1] - 1 IN IF h < 0 THEN 0 ELSE h

\* The place of the line in the list, if it is visible.
IndexOf(l, name) == CHOOSE i \in DOMAIN Names(l) : Names(l)[i] = name

\* The rows of the lines around a line that can be moved.
Above(l, name) == IF name = "code" /\ l.disasm >= 0 THEN l.disasm
                  ELSE IF l.regs >= 0 THEN l.regs ELSE 0
Below(l, name) == IF name = "disasm" /\ l.code >= 0 THEN l.code ELSE l.h - 3

-----------------------------------------------------------------------------
(* CheckDivLineYs.                                                          *)

PushDown_Hidden(l, name) ==
    IF l[name] - Above(l, name) < MinRows
    THEN [l EXCEPT ![name] = Above(l, name) + MinRows] ELSE l

PushDown(l, name) ==
    IF l[name] >= 0 /\ l[name] - Above(l, name) < MinRows
    THEN [l EXCEPT ![name] = Above(l, name) + MinRows] ELSE l

PushUp(l, name) ==
    IF l[name] >= 0 /\ Below(l, name) - l[name] < MinRows
    THEN [l EXCEPT ![name] = Below(l, name) - MinRows] ELSE l

Arrange_DownOnly(l) == PushDown(PushDown(l, "disasm"), "code")

\* "make sure that the various "DivLines" are properly arranged."
Arrange(l) ==
    LET down == PushDown(PushDown(l, "disasm"), "code")
    IN  PushUp(PushUp(down, "code"), "disasm")

\* The lines from i to j, all of which can be moved, are moved by d rows.
Shift(l, i, j, d) ==
    LET moved == {Names(l)[k] : k \in i .. j}
    IN  [n \in DOMAIN l |-> IF n \in moved THEN l[n] + d ELSE l[n]]

AllMovable(l, i, j) == \A k \in i .. j : CanBeMoved(l, k)

AddLine_BelowOnly(l, i) ==
    LET below == {j \in i .. Len(Names(l)) - 1 :
                    AllMovable(l, i, j) /\ Rows(l)[j + 1] - Rows(l)[j] > MinRows}
    IN  IF below # {} THEN Shift(l, i, CHOOSE j \in below : \A k \in below : j <= k, 1) ELSE l

\* addLine: the line i goes down one row, with the lines below it that are in its
\* way; or else the line above it goes up, with the lines that are in its way.
AddLine(l, i) ==
    LET below == {j \in i .. Len(Names(l)) - 1 :
                    AllMovable(l, i, j) /\ Rows(l)[j + 1] - Rows(l)[j] > MinRows}
        above == {j \in 2 .. i - 1 :
                    AllMovable(l, j, i - 1) /\ Rows(l)[j] - Rows(l)[j - 1] > MinRows}
    IN  IF below # {} THEN Shift(l, i, CHOOSE j \in below : \A k \in below : j <= k, 1)
        ELSE IF above # {}
             THEN Shift(l, CHOOSE j \in above : \A k \in above : j >= k, i - 1, -1)
             ELSE l

\* The window above the line i is given back the height it had before Arrange.
Keep(l, i, height) ==
    LET grown[m \in Layouts] ==
          IF Height(m, i) >= height \/ AddLine(m, i) = m THEN m ELSE grown[AddLine(m, i)]
    IN  grown[l]

\* The layout that CheckDivLineYs leaves, without and with its argument.
Checked(l) == Arrange(l)

CheckedKeeping(l, name) ==
    Keep(Arrange(l), IndexOf(l, name), Height(l, IndexOf(l, name)))

-----------------------------------------------------------------------------
(* Operations on the lines.                                                 *)

\* WR, WD and WS without argument.
Toggled(l, name) == Checked([l EXCEPT ![name] = -@])

\* WD and WS with the argument n.
Sized(l, name, n) ==
    LET shown == IF l[name] < 0 THEN Toggled(l, name) ELSE l
    IN  CheckedKeeping([shown EXCEPT ![name] = Above(shown, name) + n + 1], name)

\* DrawInterface: the registers need n rows now.
WithRegs(l, n) == [l EXCEPT !.regs = IF @ < 0 THEN -(n + 1) ELSE n + 1]

\* CodeWindow.destY0 and destY1, set by DrawAll_Start.
DestY0(l) == IF l.code < 0 THEN 1 ELSE Above(l, "code") + 1
DestY1(l) == IF l.code < 0 THEN 3 ELSE l.code - 1
=============================================================================

------------------------------ MODULE DivLines ------------------------------
(* The layout of the screen through the commands that change it, WR, WD, WS *)
(* and LINES, and through sessions whose registers need more or fewer rows. *)
EXTENDS Layout, FiniteSets

CONSTANTS Heights,     \* WndHeight, the 25 of Root among them
          RegLines,    \* rows the registers need
          Sizes        \* arguments of WD and WS, 3 to 160

VARIABLE l

Init == \E n \in RegLines :
           l = Checked([regs |-> n + 1, disasm |-> 13, code |-> 17, h |-> 25])

Next ==
    \/ \E name \in {"regs", "disasm", "code"} : l' = Toggled(l, name)
    \/ \E name \in Movable, n \in Sizes : l' = Sized(l, name, n)
    \/ \E h \in Heights : l' = Checked([l EXCEPT !.h = h])
    \/ \E n \in RegLines : l' = Checked(WithRegs(l, n))

-----------------------------------------------------------------------------
(* Properties.                                                              *)

\* CheckDivLineYs leaves every window at least three rows, in the order of the
\* windows, after any sequence of toggles, sizes, heights and register rows.
Spaced ==
    \A i \in 2 .. Len(Names(l)) :
       Rows(l)[i] - Rows(l)[i - 1] >= IF Names(l)[i] = "regs" THEN 1 ELSE MinRows

\* The rows a window can have: the windows above and below it at their minimum.
MostRows(m, name) ==
    LET i == IndexOf(m, name)
        fixed == IF m.regs >= 0 THEN m.regs ELSE 0
        above == Cardinality({j \in DOMAIN Names(m) : j < i /\ CanBeMoved(m, j)})
        below == Cardinality({j \in DOMAIN Names(m) : j > i})
    IN  (m.h - 3) - MinRows * below - (fixed + MinRows * above) - 1

\* WD n and WS n give the window n rows, or all the rows there are: the loop of
\* addLine takes rows from both sides and stops only when no side has any.
SizeGranted ==
    \A name \in Movable, n \in Sizes :
       LET m == Sized(l, name, n)
           most == MostRows(m, name)
       IN  Height(m, IndexOf(m, name)) = IF n < most THEN n ELSE most

\* Hiding a window and showing it again restores the screen: the lines that are
\* visible do not move when one is taken away, and it finds its row free.
ToggleUndone ==
    \A name \in {"regs", "disasm", "code"} :
       l[name] >= 0 => Toggled(Toggled(l, name), name) = l
=============================================================================

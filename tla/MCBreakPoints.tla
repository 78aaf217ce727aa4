--------------------------- MODULE MCBreakPoints ---------------------------
(* Instances of BreakPoints for TLC.  The program is a loop: a call of a     *)
(* function that returns at once, then a jump back.  The call and the jump   *)
(* are closer than the bytes KD reports, the function is far from them.      *)
EXTENDS BreakPoints, TLC

CONSTANTS t1, t2

I(kind, len, dest) == [kind |-> kind, len |-> len, dest |-> dest, step |-> dest]

\* 100 call 300; 105 jmp 100; 300 ret; 500 the INT3 of DrvUnload
LoopCode  == {100, 105, 300, 500, 501}
LoopInstr == [a \in LoopCode |->
                CASE a = 100 -> I("call", 5, 300)
                  [] a = 105 -> I("other", 2, 100)
                  [] a = 300 -> I("ret", 1, 105)
                  [] a = 500 -> I("int3", 1, 501)
                  [] a = 501 -> I("ret", 1, 100)]

\* the same loop through a hard-coded INT3 at 105, followed by the jump
BreakCode  == LoopCode \cup {106}
BreakInstr == [a \in BreakCode |->
                 CASE a = 105 -> I("int3", 1, 106)
                   [] a = 106 -> I("other", 2, 100)
                   [] OTHER   -> LoopInstr[a]]

\* the loop entered through a hard-coded INT3 at 99
EntryCode  == LoopCode \cup {99}
EntryInstr == [a \in EntryCode |->
                 IF a = 99 THEN I("int3", 1, 100) ELSE LoopInstr[a]]

ProcOf2 == (t1 :> 11) @@ (t2 :> 12)
OneProc == [t \in {t1, t2} |-> 11]
NoFilter == [ethread |-> 0, eprocess |-> 0, when |-> FALSE]
OnlyPlain == {NoFilter}
AllFilters == {NoFilter, [NoFilter EXCEPT !.ethread = t1],
               [NoFilter EXCEPT !.eprocess = 12], [NoFilter EXCEPT !.when = TRUE]}
None == {}
Swap == Permutations({t1, t2})
=============================================================================

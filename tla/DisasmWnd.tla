----------------------------- MODULE DisasmWnd -----------------------------
(***************************************************************************)
(* The disassembler window (BugChecker/DisasmWnd.cpp): which instructions  *)
(* and which names of symbols are in its rows, and how they scroll.        *)
(*                                                                         *)
(* Memory is the length of the instruction that decoding finds at each     *)
(* address; Syms are the addresses that have a name, which is shown in a   *)
(* row of its own above the instruction.                                   *)
(***************************************************************************)
EXTENDS Integers, Sequences, SequencesExt, FiniteSets

CONSTANTS Memories,     \* lengths of instructions, on 0 .. n
          Syms,         \* addresses of public symbols
          Half,         \* sizeof(asmBytes) / 2
          Dims,         \* heights of the window
          Places        \* program counters, and addresses for the command U

Preserve == 999999      \* NAVIGATE_PRESERVE_POS

VARIABLES
    mem, pc,            \* the memory and the program counter
    dim,                \* contentsDim
    w,                  \* the window, see SetPos
    op                  \* history: the last operation, "stuck" if it did not scroll

Ins(a)  == [a |-> a, name |-> FALSE]
Name(a) == [a |-> a, name |-> TRUE]
Unknown == <<[a |-> -1, name |-> FALSE]>>       \* the row with "???"

Length(a) == IF a \in DOMAIN mem THEN mem[a] ELSE 1

\* n addresses of instructions, from a.
Walk(a, n) ==
    LET from[s \in Seq(Int)] ==
            IF Len(s) = n THEN s ELSE from[Append(s, Last(s) + Length(Last(s)))]
    IN  from[<<a>>]

\* rows are the contents, an address and whether the row is a name; first and last are
\* firstAddressShown and lastAddressShown, isFirst and isLast the flags
\* isFirstAddressShownASymName and isLastAddressShownASymName, symLines symNameLinesNum.
SetPos(address) ==
    [rows |-> Unknown, first |-> address, last |-> 0,
     isFirst |-> FALSE, isLast |-> FALSE, symLines |-> 0]

Init ==
    /\ mem \in Memories
    /\ pc \in Places
    /\ dim \in Dims
    /\ w = [SetPos(0) EXCEPT !.rows = << >>]
    /\ op = "none"

-----------------------------------------------------------------------------
(* Disasm.                                                                  *)

CanRead(a, n) == 0 <= a /\ a + n <= Cardinality(DOMAIN mem)

\* The addresses of the instructions in a window of d rows.
Forward(start, nav, d) == SubSeq(Walk(start, d + nav), nav + 1, d + nav)

Backward_Unaligned(v, nav, keepLast, d) ==
    LET found == SelectSeq(Walk(v.first - Half, 2 * Half), LAMBDA a : a <= v.last)
        extra == IF keepLast THEN 1 ELSE 0
        kept  == SubSeq(found, 1, Len(found) + nav + extra)
    IN  IF found = << >> \/ Len(found) < d - nav + extra THEN << >>
        ELSE SubSeq(kept, Len(kept) - d - extra + 1, Len(kept))

\* << >> if decoding misses the last address, or does not find enough instructions.
Backward(v, nav, keepLast, d) ==
    LET found == SelectSeq(Walk(v.first - Half, 2 * Half), LAMBDA a : a <= v.last)
        extra == IF keepLast THEN 1 ELSE 0
        kept  == SubSeq(found, 1, Len(found) + nav + extra)
    IN  IF found = << >> \/ Last(found) # v.last \/ Len(found) < d - nav + extra THEN << >>
        ELSE SubSeq(kept, Len(kept) - d - extra + 1, Len(kept))

WithNames_Always(addresses, skipFirst) ==
    FlattenSeq([j \in DOMAIN addresses |->
        (IF addresses[j] \in Syms THEN <<Name(addresses[j])>> ELSE << >>)
          \o <<Ins(addresses[j])>>])

\* The rows, with the names of symbols; not the first one if it has scrolled out.
WithNames(addresses, skipFirst) ==
    FlattenSeq([j \in DOMAIN addresses |->
        (IF addresses[j] \in Syms /\ ~(skipFirst /\ j = 1)
         THEN <<Name(addresses[j])>> ELSE << >>)
          \o <<Ins(addresses[j])>>])

\* The rows in excess are removed where the window scrolls from.
Excess(all, n, nav) ==
    IF nav >= 0 THEN SubSeq(all, 1, Len(all) - n) ELSE SubSeq(all, n + 1, Len(all))

Start_Kept(v, p) == IF p >= v.first THEN v.first ELSE p

\* Where a fresh draw starts: the window stays if the program counter is in it.
Start(v, p) == IF v.first <= p /\ p <= v.last THEN v.first ELSE p

\* The window v after Disasm with d rows and the program counter p.
Disasm(v, navigate, p, d) ==
    LET keepFirst == navigate = 1 /\ v.isFirst
        keepLast  == navigate = -1 /\ v.isLast
        start     == IF navigate # 0 THEN v.first ELSE Start(v, p)
        nav       == IF keepFirst \/ navigate = Preserve THEN 0 ELSE navigate
        readable  == IF nav < 0 THEN CanRead(start - Half, 2 * Half) ELSE CanRead(start, Half)
        addresses == IF nav < 0 THEN Backward(v, nav, keepLast, d) ELSE Forward(start, nav, d)
        all       == WithNames(addresses, keepFirst)
        n         == Len(all) - Len(addresses)
        new       == Excess(all, n, nav)
        size      == Len(new)
        same      == [v EXCEPT !.isFirst = keepFirst, !.isLast = keepLast,
                               !.symLines = IF navigate = 0 THEN 0 ELSE @]
    IN  CASE ~readable -> [same EXCEPT !.rows = Unknown]
          [] readable /\ addresses = << >> -> same
          [] OTHER -> [rows |-> new, first |-> new[1].a, last |-> new[size].a, symLines |-> n,
                       isFirst |-> size >= 2 /\ new[1].a = new[2].a,
                       isLast |-> size >= 2 /\ size = d /\ new[size - 1].a = new[size].a]

-----------------------------------------------------------------------------
(* Uses of it.                                                              *)

\* DrawInterface, at the start of a session and when the layout changes.
DrawInterface(p, d) ==
    /\ pc' = p /\ dim' = d
    /\ w' = Disasm(w, 0, p, d)
    /\ op' = IF d = dim THEN "draw" ELSE "resize"
    /\ UNCHANGED mem

Navigate(v, nav, name) ==
    /\ w.rows # << >>
    /\ w' = Disasm(v, nav, pc, dim)
    /\ op' = IF w'.rows = Unknown \/ (w'.rows = w.rows /\ nav # Preserve) THEN "stuck" ELSE name
    /\ UNCHANGED <<mem, pc, dim>>

\* The keys Ctrl+Left and Ctrl+Right, and the refresh after a command.
Refresh == Navigate(w, Preserve, "refresh")

\* The command U.
Unassemble(address) == Navigate(SetPos(address), Preserve, "U")

Down == Navigate(w, 1, "Down")
Up   == Navigate(w, -1, "Up")

Page_Whole == dim

\* The rows that PgUp and PgDn scroll by.
Page == dim - w.symLines

PgDn == Navigate(w, Page, "PgDn")
PgUp == Navigate(w, -Page, "PgUp")

Next ==
    \/ \E p \in Places, d \in Dims : DrawInterface(p, d)
    \/ Refresh \/ Down \/ Up \/ PgDn \/ PgUp
    \/ \E a \in Places : Unassemble(a)

-----------------------------------------------------------------------------
(* Properties; the last three are properties of every step.                 *)

\* The whole program, as a window without an end would show it.
Listing ==
    WithNames(SelectSeq(Walk(0, Cardinality(DOMAIN mem)), LAMBDA a : a \in DOMAIN mem), FALSE)

\* The row of the listing at the top of a window of d rows; {} if its rows are no part of it.
Tops(v, d) ==
    IF Len(v.rows) < d THEN {}
    ELSE LET l == Listing r == SubSeq(v.rows, 1, d)
         IN  {k \in 1 .. Len(l) - d + 1 : SubSeq(l, k, k + d - 1) = r}

\* The window shows a part of the program without a gap and without a repetition, with
\* every name above its instruction.
RowsAreConsecutive == w.rows \notin {<< >>, Unknown} => Tops(w, dim) # {}

\* A key moves the window by one row, names included, in both directions.  After a
\* refresh, and where scrolling back was impossible, the flags of the first and the last
\* row are lost, and the next move may be two rows.
ScrollsByOne ==
    op \notin {"refresh", "stuck"} /\ op' \in {"Down", "Up"}
      => \A t \in Tops(w, dim) : (IF op' = "Down" THEN t + 1 ELSE t - 1) \in Tops(w', dim)

\* A page leaves no instruction out: between the old and the new window there is at most
\* the row of a name, and the window has moved the right way.
PagesOverlap ==
    op' \in {"PgDn", "PgUp"} /\ Page > 0
      => \A t \in Tops(w, dim), u \in Tops(w', dim) :
            /\ IF op' = "PgDn" THEN t < u ELSE u < t
            /\ \A k \in (t + dim .. u - 1) \cup (u + dim .. t - 1) : Listing[k].name

\* When a session starts the program counter is in the window, unless the window was
\* scrolled or resized since the last one: then a name may have pushed it out.
PcIsShown ==
    op' = "draw" /\ op \in {"none", "draw"} /\ w'.rows # Unknown
      => \E i \in 1 .. dim : w'.rows[i].a = pc'
=============================================================================

-------------------------- MODULE MCBreakPointsRoom --------------------------
(***************************************************************************)
(* Two instances of BreakPoints for TLC.  In the first one KD's table has  *)
(* room for every breakpoint.  In the second one it has a single entry, so *)
(* that KD refuses breakpoints, and R changes RIP.  full tells which one a *)
(* behaviour is about.                                                     *)
(***************************************************************************)
EXTENDS MCBreakPoints

VARIABLE full

F == INSTANCE BreakPoints WITH Code <- EntryCode, Instr <- EntryInstr, BpAddrs <- {105},
                               StartAddr <- 99, RTargets <- {300}, MaxHandles <- 1,
                               MaxBps <- 1

RoomInit == full \in BOOLEAN /\ IF full THEN F!Init ELSE Init

RoomNext ==
    \/ ~full /\ Next /\ UNCHANGED full
    \/ full /\ F!Next /\ UNCHANGED full

RoomSpec == RoomInit /\ [][RoomNext]_<<full, vars>>

-----------------------------------------------------------------------------
(* Properties, besides those of BreakPoints, which mean the same in both      *)
(* instances: KD's table is a function on its handles in each of them.        *)

\* With room in KD's table, a breakpoint that is not set in KD while the system runs
\* is noted in the BpTrace of a thread, which re-creates it at its next trap.
RoomArmedOrPending == ~full => ArmedOrPending

\* With room in KD's table, the handles in Root::BreakPoints are those of KD, so that
\* BC and SetStepBp never remove another breakpoint.
RoomHandlesAreLive == ~full => HandlesAreLive
=============================================================================

------------------------------- MODULE PageIn -------------------------------
(***************************************************************************)
(* Cmd::PageIn, behind the commands PAGEIN and ADDR: the kernel's debugger *)
(* worker thread is to attach to a process and bring a page in.  The       *)
(* command fills in ExpDebuggerProcessAttach and ExpDebuggerPageIn, sets   *)
(* ExpDebuggerWork to 1 and lets the machine run.  The kernel (external)   *)
(* takes a command at its next clock tick, when ExpDebuggerWork becomes 2; *)
(* its thread then reads the two values, one after the other, and sets     *)
(* ExpDebuggerWork to 0.  A session may begin between any two of these     *)
(* steps.  Any access to memory may fail.                                  *)
(***************************************************************************)
EXTENDS Integers

CONSTANT MaxCommands    \* bound of the commands

ASSUME PageInAssumption == MaxCommands \in Nat

VARIABLES ExpDebuggerWork, ExpDebuggerProcessAttach, ExpDebuggerPageIn,
          taken,        \* the values that the worker thread has read
          count,        \* history: number of commands, which identifies one
          queued,       \* history: the last command that returned TRUE
          served,       \* history: the last command the worker has finished
          torn          \* history: a command failed half way while another
                        \*   one waited for the clock tick

values == <<ExpDebuggerProcessAttach, ExpDebuggerPageIn>>
pageVars   == <<ExpDebuggerWork, values, taken, count, queued, served, torn>>

Nothing == <<0, 0>>

PageInit ==
    /\ ExpDebuggerWork = 0 /\ ExpDebuggerProcessAttach = 0 /\ ExpDebuggerPageIn = 0
    /\ taken = Nothing
    /\ count = 0 /\ queued = 0 /\ served = 0 /\ torn = FALSE

Pending_No == FALSE

\* "KD worker thread has a pending command."
Pending == ExpDebuggerWork > 1

\* A command in a session; the machine is stopped.  It comes as far as n: 0 when
\* it cannot read ExpDebuggerWork or a command is pending, 3 when it succeeds.
Command_WorkFirst(n) ==
    /\ count < MaxCommands /\ count' = count + 1
    /\ n > 0 => ~Pending
    /\ ExpDebuggerWork'          = IF n >= 1 THEN 1 ELSE ExpDebuggerWork
    /\ ExpDebuggerProcessAttach' = IF n >= 2 THEN count' ELSE ExpDebuggerProcessAttach
    /\ ExpDebuggerPageIn'        = IF n >= 3 THEN count' ELSE ExpDebuggerPageIn
    /\ queued' = IF n = 3 THEN count' ELSE queued
    /\ torn' = (torn \/ (n \in {1, 2} /\ ExpDebuggerWork = 1))
    /\ UNCHANGED <<taken, served>>

Command(n) ==
    /\ count < MaxCommands /\ count' = count + 1
    /\ n > 0 => ~Pending
    /\ ExpDebuggerProcessAttach' = IF n >= 1 THEN count' ELSE ExpDebuggerProcessAttach
    /\ ExpDebuggerPageIn'        = IF n >= 2 THEN count' ELSE ExpDebuggerPageIn
    /\ ExpDebuggerWork'          = IF n >= 3 THEN 1 ELSE ExpDebuggerWork
    /\ queued' = IF n = 3 THEN count' ELSE queued
    /\ torn' = (torn \/ (n \in {1, 2} /\ ExpDebuggerWork = 1))
    /\ UNCHANGED <<taken, served>>

ClockTick ==
    /\ ExpDebuggerWork = 1 /\ ExpDebuggerWork' = 2
    /\ UNCHANGED <<values, taken, count, queued, served, torn>>

WorkerReadsAttach ==
    /\ ExpDebuggerWork = 2 /\ taken[1] = 0
    /\ taken' = <<ExpDebuggerProcessAttach, 0>>
    /\ UNCHANGED <<ExpDebuggerWork, values, count, queued, served, torn>>

WorkerReadsPageIn ==
    /\ ExpDebuggerWork = 2 /\ taken[1] # 0 /\ taken[2] = 0
    /\ taken' = <<taken[1], ExpDebuggerPageIn>>
    /\ UNCHANGED <<ExpDebuggerWork, values, count, queued, served, torn>>

WorkerEnds ==
    /\ ExpDebuggerWork = 2 /\ taken[2] # 0
    /\ served' = taken[1] /\ taken' = Nothing /\ ExpDebuggerWork' = 0
    /\ UNCHANGED <<values, count, queued, torn>>

PageNext ==
    \/ \E n \in 0 .. 3 : Command(n)
    \/ ClockTick \/ WorkerReadsAttach \/ WorkerReadsPageIn \/ WorkerEnds

PageSpec == PageInit /\ [][PageNext]_pageVars

PageTypeOK ==
    /\ ExpDebuggerWork \in 0 .. 2 /\ torn \in BOOLEAN
    /\ {ExpDebuggerProcessAttach, ExpDebuggerPageIn} \subseteq 0 .. MaxCommands
    /\ {count, queued, served} \subseteq 0 .. MaxCommands
    /\ taken \in (0 .. MaxCommands) \X (0 .. MaxCommands)

\* The worker thread attaches to the process and touches the address of one and
\* the same command of PageIn, the last one that was accepted, although sessions
\* may come between its steps and commands may fail half way; the exception is a
\* command that fails half way while another one is not yet taken.
OneCommandServed ==
    /\ taken[2] # 0 /\ ~torn => taken = <<queued, queued>>
    /\ ExpDebuggerWork = 0 /\ ~torn => served = queued

\* What PAGEIN and ADDR promise to the user.
PageInServed == PageTypeOK /\ OneCommandServed
=============================================================================

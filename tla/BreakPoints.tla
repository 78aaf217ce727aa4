---------------------------- MODULE BreakPoints ----------------------------
(***************************************************************************)
(* Breakpoints and stepping.  Main::EntryPoint runs once per state change  *)
(* that the kernel reports: it decides whether to break in, re-creates the *)
(* breakpoints that the kernel's debugger (KD) has deleted, and, if it     *)
(* breaks in, takes commands from the user until one of them lets the      *)
(* system go on.                                                           *)
(*                                                                         *)
(* The threads of the debugged system execute a small program and run into *)
(* breakpoints, hard-coded INT3s and single-step traps in any order.       *)
(* Several may be trapped at the same time: KD lets them in one by one and *)
(* the processors are frozen while one is in.                              *)
(*                                                                         *)
(* External, modelled from what Main.cpp relies on: KD's table of          *)
(* breakpoints hands out its first free entry, refuses an address that is  *)
(* already set and a full table, and deletes the breakpoints in the        *)
(* instruction bytes it reports with a state change.                       *)
(***************************************************************************)
EXTENDS Integers, Sequences

CONSTANTS
    Threads,     \* ETHREADs
    Code,        \* addresses of the instructions of the debugged program
    Instr,       \* what is at each address, see InstrSet
    BpAddrs,     \* addresses that the user sets breakpoints at
    StartAddr,   \* where the threads begin
    DelAddr,     \* &BreakInAndDeleteBreakPoints: an INT3 in the driver
    ProcOf,      \* the EPROCESS of each thread
    Filters,     \* options of BPX: [ethread, eprocess, when]
    FaultAddrs,  \* instructions that may raise another exception
    JsTargets,   \* addresses that a WHEN script may set RIP to
    RTargets,    \* addresses that the user sets RIP to with R
    MaxHandles,  \* size of KD's table (external)
    MaxBps,      \* bound: breakpoints of the user at the same time
    Dim,         \* 3 * number of processors: length of Root::BpTraces
    Near,        \* 64: EntryPoint re-creates breakpoints closer to PC
    Stream       \* DBGKD_MAXSTREAM, 16: bytes KD reports with PC (external)

\* kind: what StepOver and IsRet tell apart, and hard-coded INT3s;
\* dest: where the instruction continues; step: what DisasmCurrInstr computes
\* for it, 0 when it cannot.
InstrSet == [kind : {"call", "ret", "int3", "other"}, len : 1..15,
             dest : Code, step : Code \cup {0}]

ASSUME BpAssumption ==
    /\ Code \subseteq Nat \ {0}
    /\ Instr \in [Code -> InstrSet]
    /\ BpAddrs \subseteq Code
    /\ StartAddr \in Code /\ DelAddr \in Code /\ DelAddr + 1 \in Code
    /\ JsTargets \subseteq Code /\ RTargets \subseteq Code
    /\ FaultAddrs \subseteq Code
    /\ 0 \notin Threads
    /\ \A f \in Filters : f.ethread \in Threads \cup {0} /\ f.when \in BOOLEAN
    /\ MaxHandles \in Nat /\ MaxBps \in Nat /\ Dim \in Nat \ {0}
    /\ Near \in Nat \ {0} /\ Stream \in Nat \ {0, 1}
    /\ Instr[DelAddr].kind = "int3" /\ Instr[DelAddr + 1].kind = "ret"
    /\ \A a \in Code : Instr[a].kind = "int3" => a + 1 \in Code

VARIABLES
    ip,            \* instruction pointer of each thread
    tf,            \* trap flag of each thread
    exc,           \* exception each thread waits with at the door of KD
    drv,           \* progress of DrvUnload
    kdBp,          \* KD's table: address of each handle, 0 if free
    BreakPoints,   \* Root::BreakPoints
    Trace,         \* Root::Trace
    traces,        \* the BpTrace of each thread, zeros if it has none
    recent,        \* threads of Root::BpTraces, last used first
    StepOutThread, \* Root::StepOutThread
    BpHitIndex,    \* Root::BpHitIndex
    ph,            \* where the session is, "run" outside of a session
    s,             \* locals of the session, see NoSession
    quiet          \* history: the trap flag of each thread was last set only
                   \* to re-create a breakpoint, not for a step of the user,
                   \* it has met no hard-coded INT3 since, and R has not
                   \* changed its RIP

sys  == <<ip, tf, exc, drv, quiet>>
root == <<BreakPoints, Trace, traces, recent, StepOutThread, BpHitIndex>>
vars == <<ip, tf, exc, drv, kdBp, BreakPoints, Trace, traces, recent,
          StepOutThread, BpHitIndex, ph, s, quiet>>

-----------------------------------------------------------------------------

NoTrace == [addr |-> 0, nextAddr |-> 0]

\* thread and code are Root::StateChange; thisInstr is the instruction at
\* address instr; arg is SetStepBp's, ret is where
\* its caller goes on; todo (recreateList) and nums (of BC) are indexes into
\* BreakPoints, from 1; user is history: a step that is to end in a break-in was asked for.
NoSession == [thread |-> 0, code |-> "none", breakIn |-> FALSE,
              delAll |-> FALSE, instr |-> 0, todo |-> {}, nums |-> << >>,
              arg |-> 0, ret |-> "run", user |-> FALSE]

Init ==
    /\ ip = [t \in Threads |-> StartAddr]
    /\ tf = [t \in Threads |-> FALSE]
    /\ exc = [t \in Threads |-> "none"]
    /\ drv = "loaded"
    /\ kdBp = [h \in 1..MaxHandles |-> 0]
    /\ BreakPoints = << >>
    /\ Trace = FALSE
    /\ traces = [t \in Threads |-> NoTrace]
    /\ recent = << >>
    /\ StepOutThread = 0
    /\ BpHitIndex = -1
    /\ ph = "run"
    /\ s = NoSession
    /\ quiet = [t \in Threads |-> FALSE]

-----------------------------------------------------------------------------
(* KD (external).                                                           *)

IsSet(table, a) == \E h \in 1..MaxHandles : table[h] = a

FreeHandles(table) == {h \in 1..MaxHandles : table[h] = 0}

\* DbgKdWriteBreakPointApi: the new handle, or 0 when KD refuses.
KdWrite(table, a) ==
    IF IsSet(table, a) \/ FreeHandles(table) = {}
      THEN 0
      ELSE CHOOSE h \in FreeHandles(table) :
             \A g \in FreeHandles(table) : h <= g

KdSet(table, h, a) ==
    IF h = 0 THEN table ELSE [table EXCEPT ![h] = a]

\* DbgKdRestoreBreakPointApi.
KdRestore(table, h) ==
    IF h = 0 THEN table ELSE [table EXCEPT ![h] = 0]

\* A state change at pc: KD deletes the breakpoints in the reported bytes.
KdReport(table, pc) ==
    [h \in 1..MaxHandles |->
       IF table[h] >= pc /\ table[h] < pc + Stream THEN 0 ELSE table[h]]

-----------------------------------------------------------------------------
(* The debugged system.                                                     *)

\* Thread t executes one instruction, or traps before it.
Run(t) ==
    /\ ph = "run" /\ drv # "unhooked" /\ exc[t] = "none"
    /\ IF IsSet(kdBp, ip[t]) \/ Instr[ip[t]].kind = "int3"
         THEN /\ exc' = [exc EXCEPT ![t] = "break"]
              /\ UNCHANGED <<ip, tf>>
         ELSE /\ ip' = [ip EXCEPT ![t] = Instr[ip[t]].dest]
              /\ exc' = [exc EXCEPT ![t] = IF tf[t] THEN "step" ELSE "none"]
              /\ tf' = [tf EXCEPT ![t] = FALSE]
    /\ UNCHANGED <<drv, kdBp, root, ph, s, quiet>>

\* The instruction of t raises an exception that is no trap of the debugger.
Fault(t) ==
    /\ ph = "run" /\ drv # "unhooked" /\ exc[t] = "none"
    /\ ip[t] \in FaultAddrs /\ ~IsSet(kdBp, ip[t])
    /\ exc' = [exc EXCEPT ![t] = "other"]
    /\ UNCHANGED <<ip, tf, drv, kdBp, root, ph, s, quiet>>

\* DrvUnload, first part: only if there are breakpoints, an INT3 of its own
\* asks EntryPoint to delete them.
DrvUnload(t) ==
    /\ ph = "run" /\ drv = "loaded" /\ exc[t] = "none" /\ ~tf[t]
    /\ IF BreakPoints # << >>
         THEN drv' = "deleting" /\ ip' = [ip EXCEPT ![t] = DelAddr]
         ELSE drv' = "unhooked" /\ UNCHANGED ip
    /\ UNCHANGED <<tf, exc, kdBp, root, ph, s, quiet>>

\* DrvUnload goes on after the INT3 and takes BugChecker out of KDCOM.
Unhook(t) ==
    /\ ph = "run" /\ drv = "deleting" /\ exc[t] = "none"
    /\ ip[t] = DelAddr + 1
    /\ drv' = "unhooked"
    /\ UNCHANGED <<ip, tf, exc, kdBp, root, ph, s, quiet>>

\* KD reports the exception of t; its breakpoints around PC are gone.
StateChange(t) ==
    /\ ph = "run" /\ drv # "unhooked" /\ exc[t] # "none"
    /\ exc' = [exc EXCEPT ![t] = "none"]
    /\ kdBp' = KdReport(kdBp, ip[t])
    /\ s' = [NoSession EXCEPT !.thread = t, !.code = exc[t]]
    /\ ph' = "entry"
    /\ UNCHANGED <<ip, tf, drv, root, quiet>>

-----------------------------------------------------------------------------
(* BpTrace::Get: the entries of Root::BpTraces are kept per thread, the     *)
(* last used first, and those beyond Dim are dropped.                       *)

\* vector::erase of the element at index i.
Erase(list, i) ==
    [j \in 1..(Len(list) - 1) |-> IF j < i THEN list[j] ELSE list[j + 1]]

\* The places of thread t in Root::BpTraces.
Places(t) == {i \in 1..Len(recent) : recent[i] = t}

\* A thread that has an entry is moved to the front; another one is inserted
\* there and the vector is cut to Dim.
Touched(t) ==
    IF Places(t) # {}
      THEN <<t>> \o Erase(recent, CHOOSE i \in Places(t) : TRUE)
      ELSE SubSeq(<<t>> \o recent, 1,
                  IF Len(recent) < Dim THEN Len(recent) + 1 ELSE Dim)

\* Get() for the thread of the session, then its entry becomes tr.
GetAndSet(tr) ==
    /\ recent' = Touched(s.thread)
    /\ traces' = [t \in Threads |->
                    IF t = s.thread THEN tr
                    ELSE IF \E i \in 1..Len(Touched(s.thread)) :
                                Touched(s.thread)[i] = t
                      THEN traces[t] ELSE NoTrace]

-----------------------------------------------------------------------------
(* Main::EntryPoint, up to the decision to break in.                        *)

Pc == ip[s.thread]

HardCodedInt3_AnyBreak == s.code = "break"

HardCodedInt3 == s.code = "break" /\ Instr[Pc].kind = "int3"

\* A single step that EntryPoint itself asked for ends where it said.
OwnStep == s.code = "step" /\ traces[s.thread].nextAddr = Pc

DeleteAll_ListOnly == BreakPoints' = << >> /\ UNCHANGED kdBp

\* Restore every handle of the list, then clear it.
DeleteAll ==
    /\ kdBp' = [h \in 1..MaxHandles |->
                  IF \E i \in 1..Len(BreakPoints) : BreakPoints[i].handle = h
                    THEN 0 ELSE kdBp[h]]
    /\ BreakPoints' = << >>

\* Lines 105-177: look at the exception, skip a hard-coded INT3, and delete
\* everything if the INT3 is the one of DrvUnload.
Decide ==
    /\ ph = "entry"
    /\ BpHitIndex' = -1
    /\ LET delAll == s.code = "break" /\ Pc = DelAddr IN
         /\ s' = [s EXCEPT
                    !.delAll = delAll,
                    !.breakIn = \/ HardCodedInt3 /\ ~delAll
                                \/ /\ s.code = "step" /\ ~OwnStep
                                   /\ StepOutThread = 0]
         /\ IF delAll THEN DeleteAll ELSE UNCHANGED <<kdBp, BreakPoints>>
    /\ ip' = IF HardCodedInt3 THEN [ip EXCEPT ![s.thread] = @ + 1] ELSE ip
    /\ IF s.code = "step"
         THEN GetAndSet([traces[s.thread] EXCEPT
                           !.nextAddr = IF OwnStep THEN 0 ELSE @])
         ELSE UNCHANGED <<traces, recent>>
    /\ quiet' = [quiet EXCEPT ![s.thread] = @ /\ ~HardCodedInt3]
    /\ ph' = "scan"
    /\ UNCHANGED <<tf, exc, drv, Trace, StepOutThread>>

\* Outcomes of a WHEN script: it yields 0 or not (or nothing, which counts as
\* not 0), and may set RIP.
WhenResults == [zero : BOOLEAN, rip : JsTargets \cup {Pc}]

NoWhen == [zero |-> FALSE, rip |-> Pc]

\* The script runs only if the other conditions of bp hold.
PassesFilter(bp) ==
    /\ ~bp.skip
    /\ bp.ethread # 0 => bp.ethread = s.thread
    /\ bp.ethread = 0 /\ bp.eprocess # 0 => bp.eprocess = ProcOf[s.thread]

BreaksIn(bp, w) ==
    /\ PassesFilter(bp)
    /\ ~w.zero
    /\ ~(bp.isStepBp /\ StepOutThread # 0)

AtPc   == {i \in 1..Len(BreakPoints) : BreakPoints[i].address = Pc}

ToRecreate_NearOnly(prev) ==
    {i \in 1..Len(BreakPoints) :
       /\ BreakPoints[i].address # Pc
       /\ BreakPoints[i].address > Pc - Near
       /\ BreakPoints[i].address < Pc + Near}

ToRecreate_OwnOnly(prev) ==
    {i \in 1..Len(BreakPoints) :
       BreakPoints[i].address # Pc /\ BreakPoints[i].address = prev}

\* The breakpoints near PC and the one this thread has stepped away from.
ToRecreate(prev) ==
    {i \in 1..Len(BreakPoints) :
       /\ BreakPoints[i].address # Pc
       /\ \/ BreakPoints[i].address = prev
          \/ BreakPoints[i].address > Pc - Near /\ BreakPoints[i].address < Pc + Near}

First(set) == CHOOSE i \in set : \A j \in set : i <= j

ForgetAtPc_Keep == BreakPoints

\* The list without the handles of the breakpoints at PC, which KD deleted.
ForgetAtPc == [i \in 1..Len(BreakPoints) |->
                 IF i \in AtPc THEN [BreakPoints[i] EXCEPT !.handle = 0]
                               ELSE BreakPoints[i]]

StepTrace_Anywhere(rip) == [addr |-> Pc, nextAddr |-> 0]

\* What BpTrace notes when a thread steps over a breakpoint at PC: which one to
\* re-create, and where the step ends (it starts at rip if a script changed RIP;
\* stepAddr keeps its value if DisasmCurrInstr cannot tell).
StepTrace(rip) ==
    [addr |-> Pc,
     nextAddr |-> IF Instr[rip].step # 0 THEN Instr[rip].step ELSE Instr[Pc].step]

\* Lines 191-288: the breakpoints at PC are gone from KD.  The first of them
\* (the step breakpoint, if it is one of them) is judged; the thread will
\* single-step so that it can be re-created.
Scan ==
    /\ ph = "scan"
    /\ LET prev == traces[s.thread].addr
           hit  == AtPc # {}
           k    == First(AtPc)
           bp   == BreakPoints[k]
       IN
       /\ BreakPoints' = ForgetAtPc
       /\ \E w \in IF hit /\ ~s.breakIn /\ bp.when /\ PassesFilter(bp)
                     THEN WhenResults ELSE {NoWhen} :
            /\ s' = [s EXCEPT
                       !.instr = w.rip,
                       !.todo = ToRecreate(prev),
                       !.breakIn = @ \/ (hit /\ BreaksIn(bp, w))]
            /\ BpHitIndex' = IF /\ hit /\ ~s.breakIn /\ BreaksIn(bp, w)
                                /\ ~bp.isStepBp
                               THEN k - 1 ELSE BpHitIndex
            /\ GetAndSet(IF hit THEN StepTrace(w.rip)
                                ELSE [traces[s.thread] EXCEPT !.addr = 0])
            /\ ip' = [ip EXCEPT ![s.thread] = w.rip]
       /\ Trace' = (Trace \/ hit)
    /\ ph' = "recreate"
    /\ UNCHANGED <<tf, exc, drv, quiet, kdBp, StepOutThread>>

\* Lines 290-321: re-create the breakpoints, the last of the list first; a
\* breakpoint that KD refuses keeps its handle.
Recreate ==
    /\ ph = "recreate"
    /\ \E i \in s.todo :
         LET a == BreakPoints[i].address
             h == KdWrite(kdBp, a)
         IN
         /\ \A j \in s.todo : j <= i
         /\ kdBp' = KdSet(kdBp, h, a)
         /\ BreakPoints' = IF h = 0 THEN BreakPoints
                           ELSE [BreakPoints EXCEPT ![i].handle = h]
         /\ s' = [s EXCEPT !.todo = @ \ {i}]
    /\ UNCHANGED <<sys, Trace, traces, recent, StepOutThread, BpHitIndex, ph>>

-----------------------------------------------------------------------------
(* Stepping.                                                                *)

thisInstr == Instr[s.instr]

\* Cmd::StepOver with the session going on at phase next: a step breakpoint
\* after the instruction, or a single step that ends in a break-in.
StepOver(next) ==
    IF thisInstr.kind = "call"
      THEN /\ s' = [s EXCEPT !.arg = Pc + thisInstr.len, !.ret = next]
           /\ ph' = "setstep"
           /\ UNCHANGED <<Trace, traces, recent>>
      ELSE /\ Trace' = TRUE
           /\ GetAndSet([traces[s.thread] EXCEPT !.nextAddr = 0])
           /\ s' = [s EXCEPT !.user = TRUE]
           /\ ph' = next

\* Lines 344-362: no break-in.  In step-out mode its thread steps on, up to
\* the return instruction.
NoBreakIn ==
    /\ ph = "recreate" /\ s.todo = {} /\ ~s.breakIn
    /\ IF StepOutThread = s.thread
         THEN /\ StepOver("cont")
              /\ StepOutThread' = IF thisInstr.kind = "ret" THEN 0
                                                            ELSE StepOutThread
         ELSE /\ ph' = "cont"
              /\ UNCHANGED <<s, Trace, traces, recent, StepOutThread>>
    /\ UNCHANGED <<sys, kdBp, BreakPoints, BpHitIndex>>

\* Lines 364-389: break in.  The step breakpoint goes, step-out mode ends.
BreakIn ==
    /\ ph = "recreate" /\ s.todo = {} /\ s.breakIn
    /\ StepOutThread' = 0
    /\ s' = [s EXCEPT !.arg = 0, !.ret = "ui"]
    /\ ph' = "setstep"
    /\ UNCHANGED <<sys, kdBp, BreakPoints, Trace, traces, recent, BpHitIndex>>

EraseBp_ListOnly(i) ==
    /\ BreakPoints' = Erase(BreakPoints, i)
    /\ UNCHANGED kdBp

\* Restore the element at index i if it has a handle, then erase it.
EraseBp(i) ==
    /\ kdBp' = KdRestore(kdBp, BreakPoints[i].handle)
    /\ BreakPoints' = Erase(BreakPoints, i)

StepBps == {i \in 1..Len(BreakPoints) : BreakPoints[i].isStepBp}

\* Main::SetStepBp, its loop: remove the step breakpoints, last one first.
RemoveStepBp ==
    /\ ph = "setstep" /\ StepBps # {}
    /\ \E i \in StepBps :
         /\ \A j \in StepBps : j <= i
         /\ EraseBp(i)
    /\ UNCHANGED <<sys, Trace, traces, recent, StepOutThread, BpHitIndex, ph, s>>

NewStepBp(h) ==
    [address |-> s.arg, handle |-> h, ethread |-> s.thread, eprocess |-> 0,
     when |-> FALSE, skip |-> FALSE, isStepBp |-> TRUE]

WithStepBp_Last(h) == Append(BreakPoints, NewStepBp(h))

WithStepBp(h) == <<NewStepBp(h)>> \o BreakPoints

\* Main::SetStepBp, the rest: set the new one at the front of the list, also
\* when KD refuses it.
SetStepBp ==
    /\ ph = "setstep" /\ StepBps = {}
    /\ IF s.arg = 0
         THEN UNCHANGED <<kdBp, BreakPoints, Trace>>
         ELSE LET h == KdWrite(kdBp, s.arg) IN
              /\ Trace' = FALSE
              /\ kdBp' = KdSet(kdBp, h, s.arg)
              /\ BreakPoints' = WithStepBp(h)
    /\ ph' = s.ret
    /\ UNCHANGED <<sys, traces, recent, StepOutThread, BpHitIndex, s>>

-----------------------------------------------------------------------------
(* The commands, executed while the BugChecker screen is shown.             *)

UserBps == {i \in 1..Len(BreakPoints) : ~BreakPoints[i].isStepBp}

\* BPX: refuses an address that the list has, and gives up if KD refuses it.
BPX(a, f) ==
    /\ ph = "ui" /\ Len(BreakPoints) < MaxBps
    /\ \A i \in 1..Len(BreakPoints) : BreakPoints[i].address # a
    /\ LET h == KdWrite(kdBp, a) IN
         /\ h # 0
         /\ kdBp' = KdSet(kdBp, h, a)
         /\ BreakPoints' =
              Append(BreakPoints,
                     [address |-> a, handle |-> h, ethread |-> f.ethread,
                      eprocess |-> f.eprocess, when |-> f.when,
                      skip |-> FALSE, isStepBp |-> FALSE])
    /\ UNCHANGED <<sys, Trace, traces, recent, StepOutThread, BpHitIndex, ph, s>>

\* BC with a list of indexes, which ParseListOfDecsArgs has checked one by one
\* and Cmd_BC sorts in descending order.
BC(nums) ==
    /\ ph = "ui"
    /\ \A i \in 1..Len(nums) : nums[i] \in 1..Len(BreakPoints)
    /\ \A i \in 1..(Len(nums) - 1) : nums[i] >= nums[i + 1]
    /\ s' = [s EXCEPT !.nums = nums]
    /\ ph' = "clear"
    /\ UNCHANGED <<sys, kdBp, root>>

\* One round of the loop of Cmd_BC, and its end.
ClearOne ==
    /\ ph = "clear"
    /\ IF s.nums # << >> /\ s.nums[1] <= Len(BreakPoints)
         THEN /\ EraseBp(s.nums[1])
              /\ s' = [s EXCEPT !.nums = SubSeq(@, 2, Len(@))]
              /\ UNCHANGED ph
         ELSE /\ ph' = "ui"
              /\ s' = [s EXCEPT !.nums = << >>]
              /\ UNCHANGED <<kdBp, BreakPoints>>
    /\ UNCHANGED <<sys, Trace, traces, recent, StepOutThread, BpHitIndex>>

\* BD and BE.
Disable(i, skip) ==
    /\ ph = "ui" /\ i \in 1..Len(BreakPoints)
    /\ BreakPoints' = [BreakPoints EXCEPT ![i].skip = skip]
    /\ UNCHANGED <<sys, kdBp, Trace, traces, recent, StepOutThread, BpHitIndex,
                   ph, s>>

\* R RIP -v a: the context changes, thisInstr does not.
R(a) ==
    /\ ph = "ui"
    /\ ip' = [ip EXCEPT ![s.thread] = a]
    /\ s' = [s EXCEPT !.user = TRUE]
    /\ quiet' = [quiet EXCEPT ![s.thread] = FALSE]
    /\ UNCHANGED <<tf, exc, drv, kdBp, root, ph>>

\* P [RET].
P(toRet) ==
    /\ ph = "ui"
    /\ StepOver("cont")
    /\ StepOutThread' = IF toRet /\ thisInstr.kind # "ret" THEN s.thread
                                                           ELSE StepOutThread
    /\ UNCHANGED <<sys, kdBp, BreakPoints, BpHitIndex>>

T ==
    /\ ph = "ui"
    /\ Trace' = TRUE
    /\ GetAndSet([traces[s.thread] EXCEPT !.nextAddr = 0])
    /\ s' = [s EXCEPT !.user = TRUE]
    /\ ph' = "cont"
    /\ UNCHANGED <<sys, kdBp, BreakPoints, StepOutThread, BpHitIndex>>

X ==
    /\ ph = "ui"
    /\ ph' = "cont"
    /\ UNCHANGED <<sys, kdBp, root, s>>

\* The end of the session: DbgKdContinueApi leaves the trap flag as it is,
\* DbgKdContinueApi2 sets it.
Continue ==
    /\ ph = "cont"
    /\ tf' = [tf EXCEPT ![s.thread] = @ \/ Trace]
    /\ quiet' = [quiet EXCEPT ![s.thread] = IF Trace THEN ~s.user ELSE @]
    /\ Trace' = FALSE
    /\ ph' = "run"
    /\ s' = NoSession
    /\ UNCHANGED <<ip, exc, drv, kdBp, BreakPoints, traces, recent,
                   StepOutThread, BpHitIndex>>

-----------------------------------------------------------------------------

\* Lists of at most two indexes: enough for one to be named twice.
ClearLists == UNION {[1..n -> 1..MaxBps] : n \in 1..2}

System == \E t \in Threads :
    Run(t) \/ Fault(t) \/ DrvUnload(t) \/ Unhook(t) \/ StateChange(t)

EntryPoint == \/ Decide \/ Scan \/ Recreate \/ NoBreakIn \/ BreakIn
              \/ RemoveStepBp \/ SetStepBp \/ Continue

Leave == T \/ X \/ \E toRet \in BOOLEAN : P(toRet)

Commands == \/ \E a \in BpAddrs, f \in Filters : BPX(a, f)
            \/ \E nums \in ClearLists : BC(nums)
            \/ ClearOne
            \/ \E i \in 1..MaxBps, skip \in BOOLEAN : Disable(i, skip)
            \/ \E a \in RTargets : R(a)
            \/ Leave

Next == System \/ EntryPoint \/ Commands

Spec == Init /\ [][Next]_vars

-----------------------------------------------------------------------------
(* Properties.                                                              *)

BreakPointSet ==
    [address : Nat, handle : 0..MaxHandles, ethread : Threads \cup {0},
     eprocess : {f.eprocess : f \in Filters} \cup {0}, when : BOOLEAN,
     skip : BOOLEAN, isStepBp : BOOLEAN]

SessionSet ==
    [thread : Threads \cup {0}, code : {"none", "break", "step", "other"},
     breakIn : BOOLEAN, delAll : BOOLEAN, instr : Code \cup {0},
     todo : SUBSET Nat, nums : Seq(Nat \ {0}), arg : Nat,
     ret : {"run", "ui", "cont"}, user : BOOLEAN]

\* The variables keep the types that Root.h gives them; inside a session there
\* is a thread, and the indexes still to be processed are in the list.
TypeOK ==
    /\ ip \in [Threads -> Code]
    /\ tf \in [Threads -> BOOLEAN]
    /\ exc \in [Threads -> {"none", "break", "step", "other"}]
    /\ drv \in {"loaded", "deleting", "unhooked"}
    /\ kdBp \in [1..MaxHandles -> Nat]
    /\ BreakPoints \in Seq(BreakPointSet)
    /\ Trace \in BOOLEAN
    /\ traces \in [Threads -> [addr : Code \cup {0}, nextAddr : Code \cup {0}]]
    /\ recent \in Seq(Threads)
    /\ StepOutThread \in Threads \cup {0}
    /\ BpHitIndex \in Int
    /\ ph \in {"run", "entry", "scan", "recreate", "setstep", "ui", "clear",
               "cont"}
    /\ s \in SessionSet
    /\ quiet \in [Threads -> BOOLEAN]
    /\ ph # "run" => s.thread \in Threads
    /\ ph \in {"recreate", "setstep", "ui", "clear", "cont"} => s.instr \in Code
    /\ ph = "recreate" => s.todo \subseteq 1..Len(BreakPoints)

\* KD never holds a breakpoint that the list does not account for: each one
\* has an element with its address and handle.  Otherwise an INT3 would stay
\* in memory that no command, and not even DrvUnload, can remove.
NoOrphan ==
    \A h \in DOMAIN kdBp : kdBp[h] # 0 =>
        \E i \in 1..Len(BreakPoints) : /\ BreakPoints[i].handle = h
                                       /\ BreakPoints[i].address = kdBp[h]

\* After the INT3 of DrvUnload nothing is left in KD or in the list when its
\* thread goes on: the code that is about to be unloaded is not needed for
\* any INT3 in memory.
DeleteAllIsComplete ==
    s.delAll => BreakPoints = << >> /\ \A h \in DOMAIN kdBp : kdBp[h] = 0

\* There is at most one step breakpoint and it is the first of the list, so
\* that it is judged before one of the user at the same address; the user
\* never sees one.
OneStepBp ==
    /\ \A i \in StepBps : i = 1
    /\ ph \in {"ui", "clear"} => StepBps = {}

\* As long as KD's table and Root::BpTraces are large enough, a breakpoint of
\* the list that is not set in KD while the system runs belongs to a thread
\* that has it noted in its BpTrace, to be re-created at its next trap.
ArmedOrPending ==
    ph = "run" => \A i \in 1..Len(BreakPoints) :
        \/ IsSet(kdBp, BreakPoints[i].address)
        \/ \E t \in Threads : traces[t].addr = BreakPoints[i].address

\* As long as KD's table is large enough, a handle in the list is one that KD
\* has given for that address, so that BC and SetStepBp never remove the
\* breakpoint of somebody else.
HandlesAreLive ==
    ph \in {"run", "setstep", "ui", "clear", "cont"} =>
        \A i \in 1..Len(BreakPoints) :
            BreakPoints[i].handle # 0 =>
                kdBp[BreakPoints[i].handle] = BreakPoints[i].address

\* A single step that was only needed to re-create a breakpoint does not break
\* in by itself, whatever other threads did in the meantime.
QuietStep ==
    ph = "scan" /\ s.code = "step" /\ quiet[s.thread] => ~s.breakIn

\* Cmd.cpp says of StepOver: "step over the instruction with a breakpoint".  The
\* breakpoint is set after the instruction that the thread is going to execute.
StepBpAfterInstr ==
    ph = "setstep" /\ s.arg # 0 => s.arg = Pc + Instr[Pc].len

\* DriverEntry.cpp says of DrvUnload: "delete all the BreakPoints. (MUST BE
\* THE FIRST THING TO DO)".  When BugChecker has left KDCOM none is left.
NoneAfterUnload == drv = "unhooked" => FreeHandles(kdBp) = 1..MaxHandles

\* The threads are scheduled between the sessions of the others, KD lets every
\* trapped thread in, a session makes progress and the user leaves the screen
\* some time.
Fairness == /\ \A t \in Threads : SF_vars(Run(t)) /\ SF_vars(StateChange(t))
            /\ WF_vars(EntryPoint)
            /\ SF_vars(Leave)
            /\ WF_vars(ClearOne)

FairSpec == Spec /\ Fairness

\* A breakpoint of the user that is not set in KD is set again, or removed
\* from the list (or BugChecker is unloaded).
EventuallyArmed ==
    \A a \in BpAddrs :
        (\E i \in UserBps : BreakPoints[i].address = a) ~>
            \/ IsSet(kdBp, a)
            \/ ~ \E i \in UserBps : BreakPoints[i].address = a
            \/ drv = "unhooked"
=============================================================================
